-------------------------- MODULE MCStreamableNode --------------------------
(* Instances of StreamableNode for TLC. *)
EXTENDS StreamableNode, TLC

OpenerSymmetry == Permutations(Openers)

=============================================================================
