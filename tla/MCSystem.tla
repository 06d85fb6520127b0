------------------------------ MODULE MCSystem ------------------------------
(* Instances of System for TLC. *)
EXTENDS System, TLC

\* The remote root of a file server is named like the file server.
MCRootName == [c \in Clients |-> c]

LookerSymmetry == Permutations(Lookers)

=============================================================================
