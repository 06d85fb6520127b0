----------------------------- MODULE MCRegistry -----------------------------
(* Instances of Registry for TLC. *)
EXTENDS Registry, TLC

\* The remote root of a file server is named like the file server.
MCRootName == [c \in Clients |-> c]

LookerSymmetry == Permutations(Lookers)

=============================================================================
