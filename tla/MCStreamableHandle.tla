------------------------- MODULE MCStreamableHandle -------------------------
(* Instances of StreamableHandle for TLC. *)
EXTENDS StreamableHandle, TLC

\* Handlers and buffers are interchangeable.
HandleSymmetry == Permutations(Handlers) \cup Permutations(Buffers)

=============================================================================
