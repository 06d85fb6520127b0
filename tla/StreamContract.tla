--------------------------- MODULE StreamContract ---------------------------
(***************************************************************************)
(* What a stream promises to whoever calls ReadAt and Close on it, without *)
(* buffers and transfers: a read that begins when the stream is closed is  *)
(* refused; a read panics when a Close overlaps it or when the stream has  *)
(* not started a download so far (it then may get no logger), which every  *)
(* answer with data rules out for good; and closed is for ever.  Module    *)
(* Stream implements it; StreamableHandle is written against it.           *)
(***************************************************************************)
CONSTANT Callers

VARIABLES
  phase,    \* where each caller is: outside, in a read, or in Close
  closed,   \* some Close has begun
  started,  \* the stream has started a download
  answer    \* how the call that ended last has ended

contractVars == <<phase, closed, started, answer>>

Phases == {"idle", "called", "admitted", "closing"}
Data == {"full", "short", "alien"}

ContractInit ==
  /\ phase = [a \in Callers |-> "idle"]
  /\ closed = FALSE
  /\ started = FALSE
  /\ answer = "none"

Start ==
  /\ ~started
  /\ \E a \in Callers : phase[a] = "admitted"
  /\ started' = TRUE
  /\ UNCHANGED <<phase, closed, answer>>

Enter(a, to) ==
  /\ phase[a] = "idle"
  /\ phase' = [phase EXCEPT ![a] = to]
  /\ UNCHANGED <<closed, started, answer>>

Ends(a, from, how) ==
  /\ phase[a] = from
  /\ phase' = [phase EXCEPT ![a] = "idle"]
  /\ answer' = how
  /\ UNCHANGED <<closed, started>>

ReadCalled(a) == Enter(a, "called")
CloseCalled(a) == Enter(a, "closing")

Admit(a) ==
  /\ phase[a] = "called"
  /\ ~closed
  /\ phase' = [phase EXCEPT ![a] = "admitted"]
  /\ UNCHANGED <<closed, started, answer>>

Refuse(a) == closed /\ Ends(a, "called", "error")

ReadEnds(a) ==
  \E how \in Data \cup {"error"} :
    (how \in Data => started) /\ Ends(a, "admitted", how)

ReadPanics(a) == (closed \/ ~started) /\ Ends(a, "admitted", "panic")

CloseBegins(a) ==
  /\ phase[a] = "closing"
  /\ ~closed
  /\ closed' = TRUE
  /\ UNCHANGED <<phase, started, answer>>

CloseEnds(a) ==
  closed /\ \E how \in {"closed", "error", "panic"} : Ends(a, "closing", how)

ContractNext ==
  \/ Start
  \/ \E a \in Callers :
       \/ ReadCalled(a) \/ Admit(a) \/ Refuse(a) \/ ReadEnds(a) \/ ReadPanics(a)
       \/ CloseCalled(a) \/ CloseBegins(a) \/ CloseEnds(a)

ContractSpec == ContractInit /\ [][ContractNext]_contractVars

=============================================================================
