----------------------------- MODULE ClosedList -----------------------------
(***************************************************************************)
(* What a node promises about its handles, and the registries about their  *)
(* nodes: things are given out while the list is open, and a Close that    *)
(* runs to its end leaves none of them open but those the list has missed. *)
(* An append that races with another one misses things; what is shut stays *)
(* shut, whoever has shut it; what is given out after Close has begun does *)
(* not count; and the process may end instead.                             *)
(*                                                                         *)
(* FileNode, StreamableNode, Directory and Registry implement this module, *)
(* and Shutdown takes the registries from it.                              *)
(***************************************************************************)

VARIABLES
  phase,     \* "open", "closing", "closed" or "crashed"
  given,     \* the things given out before Close has begun
  shut,      \* the things that are closed
  missed     \* the things the list has not kept

listVars == <<phase, given, shut, missed>>

\* Things may have been given out already.
Init == phase = "open" /\ shut = {} /\ missed = {}

\* An append keeps one thing more, and may miss others.
Give ==
  /\ phase = "open"
  /\ \E x \in given' : given' = given \cup {x}
  /\ missed \subseteq missed'
  /\ UNCHANGED <<phase, shut>>

Miss == missed \subseteq missed' /\ UNCHANGED <<phase, given, shut>>

Shut == shut \subseteq shut' /\ UNCHANGED <<phase, given, missed>>

Begin ==
  /\ phase = "open" /\ phase' = "closing"
  /\ UNCHANGED <<given, shut, missed>>

End ==
  /\ phase = "closing" /\ phase' = "closed"
  /\ given \subseteq shut \cup missed
  /\ UNCHANGED <<given, shut, missed>>

Crash == phase' = "crashed" /\ UNCHANGED <<given, shut, missed>>

Next == \/ phase # "crashed" /\ (Give \/ Miss \/ Shut \/ Begin \/ End)
        \/ Crash

ListSpec == Init /\ [][Next]_listVars

=============================================================================
