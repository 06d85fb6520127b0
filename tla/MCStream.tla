------------------------------ MODULE MCStream ------------------------------
(* Instances of Stream for TLC. *)
EXTENDS StreamProps, TLC

\* The two ends of a file of three units behind a buffer of two: the window
\* of one request cannot serve the other.
MCRequests == {<<0, 1>>, <<2, 1>>}

\* In a file of four units behind a buffer of three: one unit at its end, and
\* two units that are read out of one window.
MCRequestsWide == {<<3, 1>>, <<1, 2>>}

CallerSymmetry == Permutations(Callers)

=============================================================================
