------------------------------- MODULE Stream -------------------------------
(***************************************************************************)
(* stream/main.go: a stream serves ReadAt and Close of concurrent callers  *)
(* from one ring buffer that the current transfer fills.                   *)
(*                                                                         *)
(* ReadAt holds stream.mu for its whole run; Close takes no lock.  The     *)
(* fields buffer and transfer are loaded anew at each use, so every use    *)
(* after a check is a step of its own, and finds nil when Close got there  *)
(* first: the caller panics (its deferred Unlock still runs).  Checks that *)
(* follow one another are one step: a check that fails because of a Close  *)
(* in between has the outcome of a check made after that Close.            *)
(* stream.ctx is cancelled with closed: WaitForPosition may fail earlier   *)
(* anyway, by its timeout.                                                 *)
(***************************************************************************)
EXTENDS Transfer

CONSTANTS
  Callers,    \* goroutines that call ReadAt and Close
  NoCaller,   \* not a caller: stream.mu is free
  Requests    \* the <<seekPosition, len(p)>> a ReadAt may be called with

ASSUME CallersAssumption == NoCaller \notin Callers

ASSUME RequestsAssumption ==
  /\ Requests \subseteq (0..Size-1) \X (Nat \ {0})
  /\ Requests # {}

VARIABLES
  mu,          \* the holder of stream.mu
  closed,      \* stream.closed
  bufferSet,   \* stream.buffer is not nil
  transfer,    \* stream.transfer, 0 when nil
  pc,          \* control state of each caller
  req,         \* the arguments of its ReadAt
  target,      \* the transfer whose Close it runs, 0 when none
  answer,      \* how the call that ended last has ended
  calls        \* how many calls have been made

streamVars == <<mu, closed, bufferSet, transfer>>
callerVars == <<pc, req, target, answer, calls>>
vars == <<streamVars, callerVars, transferVars, connVars, bufVars>>

\* Control states inside ReadAt, Close and the Close of a transfer.
ReadPCs == {"lock", "seek", "new", "newOld", "drop", "reset", "spawn",
            "install", "want", "wait", "read"}
ClosePCs == {"cas", "bufClose", "bufNil", "old", "oldClose", "clear"}
TransferClosePCs == {"tCAS", "tConn", "tCancel", "tWait"}

\* The request of a caller that runs no ReadAt.
NoRequest == <<0, 0>>

\* "full" and "short": units of the requested positions, all of them or
\* fewer; "alien": some unit belongs to another position of the file.
Answers == {"none", "full", "short", "alien", "error", "panic", "closed"}

StreamInit ==
  /\ mu = NoCaller
  /\ closed = FALSE
  /\ bufferSet = TRUE
  /\ transfer = 0
  /\ pc = [a \in Callers |-> "idle"]
  /\ req = [a \in Callers |-> NoRequest]
  /\ target = [a \in Callers |-> 0]
  /\ answer = "none"
  /\ calls = 0

Init == BufInit /\ ConnInit /\ TransferInit /\ StreamInit

-----------------------------------------------------------------------------
(* Moves of a caller. *)

Goto(a, from, to) ==
  /\ pc[a] = from
  /\ pc' = [pc EXCEPT ![a] = to]
  /\ UNCHANGED <<req, target, answer, calls>>

\* A step that changes nothing but the caller's control state.
Pass(a, from, to) ==
  /\ Goto(a, from, to)
  /\ UNCHANGED <<streamVars, transferVars, connVars, bufVars>>

\* The method returns or panics; ReadAt's deferred Unlock runs.
Return(a, from, how) ==
  /\ pc[a] = from
  /\ pc' = [pc EXCEPT ![a] = "idle"]
  /\ req' = [req EXCEPT ![a] = NoRequest]
  /\ answer' = how
  /\ mu' = IF mu = a THEN NoCaller ELSE mu
  /\ UNCHANGED <<target, calls, closed, bufferSet>>
  /\ UNCHANGED <<transferVars, connVars>>

Leave(a, from, how) == Return(a, from, how) /\ UNCHANGED <<transfer, bufVars>>

Call(a, first) ==
  /\ pc[a] = "idle"
  /\ calls < MaxTransfers
  /\ calls' = calls + 1
  /\ pc' = [pc EXCEPT ![a] = first]
  /\ UNCHANGED <<target, answer, streamVars, transferVars, connVars, bufVars>>

CallReadAt(a) ==
  /\ Call(a, "lock")
  /\ \E r \in Requests : req' = [req EXCEPT ![a] = r]

CallClose(a) ==
  /\ Call(a, "cas")
  /\ UNCHANGED req

-----------------------------------------------------------------------------
(* ReadAt. *)

Seek(a) == req[a][1]
Wanted(a) == requestedPosition(req[a][1], req[a][2])

\* Seeded fault: closed is not checked again under the lock.
ReadLock_NoCheck(a) ==
  /\ mu = NoCaller
  /\ mu' = a
  /\ Goto(a, "lock", "seek")
  /\ UNCHANGED <<closed, bufferSet, transfer, transferVars, connVars, bufVars>>

ReadLock(a) ==
  /\ mu = NoCaller
  /\ ~closed
  /\ mu' = a
  /\ Goto(a, "lock", "seek")
  /\ UNCHANGED <<closed, bufferSet, transfer, transferVars, connVars, bufVars>>

ReadIsClosed(a) ==
  /\ mu = NoCaller
  /\ closed
  /\ Leave(a, "lock", "error")

ReadSeek(a) ==
  /\ bufferSet
  /\ Pass(a, "seek", IF IsPositionAvailable(Seek(a)) THEN "want" ELSE "new")

ReadWant(a) ==
  /\ bufferSet
  /\ Pass(a, "want", IF IsPositionAvailable(Wanted(a)) THEN "read" ELSE "wait")

ReadWaitOk(a) ==
  /\ IsPositionAvailable(Wanted(a))
  /\ Pass(a, "wait", "read")

\* Seeded fault: the wait has no deadline.
ReadWaitFails_NoDeadline(a) == bufClosed /\ ~closed /\ Leave(a, "wait", "error")

\* WaitForPosition returns false: ten seconds have passed, the context of
\* the stream is cancelled, or the buffer is closed.
ReadWaitFails(a) == ~closed /\ Leave(a, "wait", "error")
ReadWaitClosed(a) == closed /\ Pass(a, "wait", "read")

\* What a ReadAt of the buffer has copied out.
AnswerOf(a) ==
  LET end == ReadEnd(Seek(a), req[a][2]) IN
  IF \E p \in Seek(a)..end-1 : data[p] # p THEN "alien"
  ELSE IF end < Wanted(a) THEN "short" ELSE "full"

ReadCopy(a) ==
  /\ bufferSet
  /\ BufReadAt(Seek(a), req[a][2])
  /\ Return(a, "read", AnswerOf(a))
  /\ UNCHANGED transfer

ReadCopyFails(a) ==
  /\ bufferSet /\ ~Readable(Seek(a))
  /\ Leave(a, "read", "error")

\* A use of stream.buffer after Close has set it to nil.
ReadNilBuffer(a) ==
  /\ ~bufferSet
  /\ \E from \in {"seek", "reset", "want", "read"} : Leave(a, from, "panic")

-----------------------------------------------------------------------------
(* newTransfer: close the old transfer, reset the buffer, start a new one. *)

NewIsClosed(a) == closed /\ Leave(a, "new", "error")

\* Seeded faults: the old transfer stays open; it is closed without a nil check.
NewIsOpen_KeepOld(a) == ~closed /\ Pass(a, "new", "reset")
NewIsOpen_NoNilCheck(a) == ~closed /\ Pass(a, "new", "newOld")

NewIsOpen(a) ==
  /\ ~closed
  /\ Pass(a, "new", IF transfer = 0 THEN "reset" ELSE "newOld")

\* stream.transfer.Close() evaluates the field once more.
CloseOld(a, from) ==
  /\ transfer # 0
  /\ pc[a] = from
  /\ pc' = [pc EXCEPT ![a] = "tCAS"]
  /\ target' = [target EXCEPT ![a] = transfer]
  /\ UNCHANGED <<req, answer, calls>>
  /\ UNCHANGED <<streamVars, transferVars, connVars, bufVars>>

CloseOldNil(a, from) == transfer = 0 /\ Leave(a, from, "panic")

NewDrop(a) ==
  /\ Goto(a, "drop", "reset")
  /\ transfer' = 0
  /\ UNCHANGED <<mu, closed, bufferSet, transferVars, connVars, bufVars>>

\* Seeded fault: the window starts at the read, the download before it.
NewReset_AtSeek(a) ==
  /\ bufferSet
  /\ Goto(a, "reset", "spawn")
  /\ NewConnection(made + 1, streamStartPosition(Seek(a)))
  /\ ResetToPosition(Seek(a))
  /\ epoch' = made + 1 /\ stale' = FALSE /\ marker' = 0
  /\ UNCHANGED <<outlived, streamVars, goVars, ownVars>>

\* NewConnection(url, start), then ResetToPosition(start).
NewReset(a) ==
  /\ bufferSet
  /\ Goto(a, "reset", "spawn")
  /\ NewConnection(made + 1, streamStartPosition(Seek(a)))
  /\ ResetToPosition(streamStartPosition(Seek(a)))
  /\ epoch' = made + 1 /\ stale' = FALSE /\ marker' = 0
  /\ UNCHANGED <<outlived, streamVars, goVars, ownVars>>

NewSpawn(a) ==
  /\ Goto(a, "spawn", "install")
  /\ NewTransfer(made + 1, bufferSet)
  /\ UNCHANGED <<streamVars, histVars, connVars, bufVars>>

\* NewTransfer panics: it gets no logger.  A stream that has made a transfer
\* finds the logger of that one.
NewSpawnFails(a) == made = 0 /\ Leave(a, "spawn", "panic")

NewInstall(a) ==
  /\ Goto(a, "install", "want")
  /\ transfer' = made
  /\ UNCHANGED <<mu, closed, bufferSet, transferVars, connVars, bufVars>>

-----------------------------------------------------------------------------
(* Close. *)

CloseAgain(a) == closed /\ Leave(a, "cas", "closed")

CloseCAS(a) ==
  /\ ~closed
  /\ closed' = TRUE
  /\ Goto(a, "cas", "bufClose")
  /\ UNCHANGED <<mu, bufferSet, transfer, transferVars, connVars, bufVars>>

CloseBuffer(a) ==
  /\ BufClose
  /\ Goto(a, "bufClose", "bufNil")
  /\ UNCHANGED <<streamVars, transferVars, connVars>>

\* buffer.Close reports an error: Close returns it and goes no further.
CloseBufferFails(a) ==
  /\ BufClose \/ UNCHANGED bufVars
  /\ Return(a, "bufClose", "error")
  /\ UNCHANGED transfer

CloseBufferNil(a) ==
  /\ Goto(a, "bufNil", "old")
  /\ bufferSet' = FALSE
  /\ UNCHANGED <<mu, closed, transfer, transferVars, connVars, bufVars>>

CloseNoOld(a) == transfer = 0 /\ Leave(a, "old", "closed")

CloseHasOld(a) == transfer # 0 /\ Pass(a, "old", "oldClose")

CloseClear(a) ==
  /\ Return(a, "clear", "closed")
  /\ transfer' = 0
  /\ UNCHANGED bufVars

-----------------------------------------------------------------------------
(* transfer.Close, called by newTransfer and by Close. *)

\* Back into newTransfer, which holds the lock, or into Close.
TransferCloseReturn(a, from) ==
  /\ pc[a] = from
  /\ pc' = [pc EXCEPT ![a] = IF mu = a THEN "drop" ELSE "clear"]
  /\ target' = [target EXCEPT ![a] = 0]
  /\ UNCHANGED <<req, answer, calls>>
  /\ UNCHANGED <<streamVars, goVars, ownVars, connVars, bufVars>>

TransferCloseCAS(a) ==
  /\ Goto(a, "tCAS", "tConn")
  /\ ~tClosed[target[a]]
  /\ TransferCAS(target[a])
  /\ UNCHANGED <<streamVars, goVars, histVars, connVars, bufVars>>

TransferCloseAgain(a) ==
  /\ TransferCloseReturn(a, "tCAS")
  /\ tClosed[target[a]]
  /\ UNCHANGED histVars

TransferCloseConn(a) ==
  /\ Goto(a, "tConn", "tCancel")
  /\ ConnClose(target[a])
  /\ UNCHANGED <<streamVars, transferVars, bufVars>>

TransferCloseCancel(a) ==
  /\ Goto(a, "tCancel", "tWait")
  /\ TransferCancel(target[a])
  /\ UNCHANGED <<streamVars, goVars, histVars, connVars, bufVars>>

\* wg.Wait; a start that has not run yet is not waited for.
TransferCloseWait(a) ==
  /\ TransferCloseReturn(a, "tWait")
  /\ WaitGroupIsZero(target[a])
  /\ outlived' = IF start[target[a]] = "spawned" THEN outlived \cup {target[a]}
                 ELSE outlived
  /\ UNCHANGED <<epoch, stale, marker>>

-----------------------------------------------------------------------------

ReadStep(a) ==
  \/ ReadLock(a) \/ ReadIsClosed(a) \/ ReadSeek(a) \/ ReadWant(a)
  \/ ReadWaitOk(a) \/ ReadWaitFails(a) \/ ReadWaitClosed(a)
  \/ ReadCopy(a) \/ ReadCopyFails(a) \/ ReadNilBuffer(a)

NewStep(a) ==
  \/ NewIsClosed(a) \/ NewIsOpen(a)
  \/ CloseOld(a, "newOld") \/ CloseOldNil(a, "newOld")
  \/ NewDrop(a) \/ NewReset(a) \/ NewSpawn(a) \/ NewSpawnFails(a)
  \/ NewInstall(a)

CloseStep(a) ==
  \/ CloseAgain(a) \/ CloseCAS(a)
  \/ CloseBuffer(a) \/ CloseBufferFails(a) \/ CloseBufferNil(a)
  \/ CloseNoOld(a) \/ CloseHasOld(a)
  \/ CloseOld(a, "oldClose") \/ CloseOldNil(a, "oldClose") \/ CloseClear(a)

TransferCloseStep(a) ==
  \/ TransferCloseCAS(a) \/ TransferCloseAgain(a) \/ TransferCloseConn(a)
  \/ TransferCloseCancel(a) \/ TransferCloseWait(a)

CallerStep(a) == ReadStep(a) \/ NewStep(a) \/ CloseStep(a) \/ TransferCloseStep(a)

TransferStep(t) ==
  /\ StartStep(t) \/ CopyStep(t)
  /\ UNCHANGED <<streamVars, callerVars>>

Running == crashed = "no"

\* Nobody is inside the stream and no further call will be made, or the
\* process is gone; a transfer may be at rest with a full buffer.
Rest ==
  /\ ~Running \/ (calls = MaxTransfers /\ \A a \in Callers : pc[a] = "idle")
  /\ UNCHANGED vars

Next ==
  \/ Running /\ \E a \in Callers : CallReadAt(a) \/ CallClose(a) \/ CallerStep(a)
  \/ Running /\ \E t \in Transfers : TransferStep(t)
  \/ Rest

Spec == Init /\ [][Next]_vars

(***************************************************************************)
(* Fairness.  Goroutines are scheduled by the Go runtime, the mutex hands  *)
(* over to waiters, WaitForPosition has its ten second context, and every  *)
(* request and body read ends by the four hour Timeout of the http.Client. *)
(* Nobody is obliged to call the stream again.                             *)
(***************************************************************************)
StartGoroutine(t) == Running /\ StartStep(t) /\ UNCHANGED <<streamVars, callerVars>>
CopyGoroutine(t) == Running /\ CopyStep(t) /\ UNCHANGED <<streamVars, callerVars>>

Fairness ==
  /\ \A a \in Callers : WF_vars(Running /\ CallerStep(a))
  /\ \A t \in Transfers : WF_vars(StartGoroutine(t)) /\ WF_vars(CopyGoroutine(t))

FairSpec == Spec /\ Fairness

=============================================================================
