--------------------------- MODULE HandleContract ---------------------------
(***************************************************************************)
(* What an open file promises to the FUSE server, without buffers, stream  *)
(* and nil checks.  Data goes only to a read that was served before the    *)
(* handle was over; an error is the end of the handle: it is shut or over  *)
(* by then, and over is for ever.  A panic needs a handle that is over, or *)
(* one whose stream has not started a download, which delivers no data     *)
(* either.  Of the Closes one shuts the handle, and it returns only when   *)
(* the handle is over.  Module StreamableHandle implements it.             *)
(***************************************************************************)
CONSTANT Clients

VARIABLES
  stage,   \* where the request of each client is
  shut,    \* a Close has been accepted
  over,    \* no read that is not yet served will be
  started, \* the stream has started a download
  reply    \* how the request that ended last has ended

contractVars == <<stage, shut, over, started, reply>>

ContractInit ==
  /\ stage = [c \in Clients |-> "idle"]
  /\ shut = FALSE
  /\ over = FALSE
  /\ started = FALSE
  /\ reply = "none"

Move(c, from, to) ==
  /\ stage[c] \in from
  /\ stage' = [stage EXCEPT ![c] = to]

Answer(c, from, how) ==
  /\ Move(c, from, "idle")
  /\ reply' = how
  /\ UNCHANGED <<over, started>>

Ask(c) == Move(c, {"idle"}, "asked") /\ UNCHANGED <<shut, over, started, reply>>

Serve(c) ==
  ~over /\ Move(c, {"asked"}, "served") /\ UNCHANGED <<shut, over, started, reply>>

\* The first read that needs it starts a download.
Start ==
  /\ ~started /\ started' = TRUE
  /\ \E c \in Clients : stage[c] = "served"
  /\ UNCHANGED <<stage, shut, over, reply>>

Deliver(c) == started /\ Answer(c, {"served"}, "data") /\ UNCHANGED shut

\* A read that is served may fail; one that is not fails when all is over.
Fail(c) ==
  /\ \/ Move(c, {"served"}, "failing")
     \/ over /\ Move(c, {"asked"}, "failing")
  /\ UNCHANGED <<shut, over, started, reply>>

FailureEnds(c) == over /\ Answer(c, {"failing"}, "error") /\ UNCHANGED shut

\* A read that finds the handle shut, or finds it over and shuts it.
Refuse(c) ==
  /\ shut' /\ (shut \/ over)
  /\ Answer(c, {"asked"}, "error")

AskClose(c) ==
  Move(c, {"idle"}, "closing") /\ UNCHANGED <<shut, over, started, reply>>

CloseAgain(c) == shut /\ Answer(c, {"closing"}, "closed") /\ UNCHANGED shut

Shut(c) ==
  /\ ~shut /\ shut' = TRUE
  /\ Move(c, {"closing"}, "ending")
  /\ UNCHANGED <<over, started, reply>>

CloseEnds(c) == over /\ Answer(c, {"ending"}, "closed") /\ UNCHANGED shut

Panic(c) ==
  /\ \/ over /\ Answer(c, {"asked", "served", "failing", "ending"}, "panic")
     \/ ~started /\ Answer(c, {"served"}, "panic")
  /\ UNCHANGED shut

\* It is over by the Close that has shut the handle or by a read that fails.
Over(c) ==
  /\ stage[c] \in {"ending", "failing"}
  /\ over' = TRUE
  /\ UNCHANGED <<stage, shut, started, reply>>

ContractNext ==
  \/ Start
  \/ \E c \in Clients :
       \/ Ask(c) \/ Serve(c) \/ Deliver(c) \/ Fail(c) \/ FailureEnds(c) \/ Refuse(c)
       \/ AskClose(c) \/ CloseAgain(c) \/ Shut(c) \/ CloseEnds(c) \/ Panic(c) \/ Over(c)

ContractSpec == ContractInit /\ [][ContractNext]_contractVars

=============================================================================
