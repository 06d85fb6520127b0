-------------------------- MODULE StreamableHandle --------------------------
(***************************************************************************)
(* streamable/handle/main.go: an open file.  The FUSE server runs every    *)
(* request in a goroutine of its own, so reads of one handle run side by   *)
(* side, and beside Close, which Release and the Close of the node call.   *)
(*                                                                         *)
(* Read takes handle.mu for reading and nobody takes it for writing: it    *)
(* never blocks and is left out.  handle.stream is set to nil by a read    *)
(* that fails, so each later evaluation of the field can find nil; the     *)
(* FUSE server turns the panic of a handler into an error reply.  A step   *)
(* of the stream is a step of StreamContract.                              *)
(***************************************************************************)
EXTENDS BufferPool

CONSTANTS
  Handlers,    \* goroutines that serve requests on this handle
  NoHandler    \* not a handler: a buffer just made holds nobody's data

ASSUME HandlersAssumption == NoHandler \notin Handlers

VARIABLES
  pc,             \* control state of each handler
  handleClosed,   \* handle.closed
  streamSet,      \* handle.stream is not nil
  buffer,         \* the buffer its read has taken or its response refers to
  content,        \* whose data a buffer holds
  reply,          \* how the request that ended last has ended
  phase, closed, started, answer   \* the stream, as StreamContract sees it

S == INSTANCE StreamContract WITH Callers <- Handlers

streamVars == <<phase, closed, started, answer>>
bufferVars == <<pooled, buffer, content>>
vars == <<pc, handleClosed, streamSet, reply, bufferVars, streamVars>>

ReadPCs == {"load", "reading", "failed", "failedClose"}
PCs == ReadPCs \cup {"idle", "read", "reply", "close", "closeCheck", "closeLoad", "closing"}
Replies == {"none", "data", "error", "panic", "closed"}

Init ==
  /\ pc = [h \in Handlers |-> "idle"]
  /\ handleClosed = FALSE
  /\ streamSet = TRUE
  /\ buffer = [h \in Handlers |-> NoBuffer]
  /\ content = [b \in Buffers |-> NoHandler]
  /\ reply = "none"
  /\ pooled = {}
  /\ S!ContractInit

Referenced == pooled \cup {buffer[h] : h \in Handlers}

Goto(h, from, to) ==
  /\ pc[h] = from
  /\ pc' = [pc EXCEPT ![h] = to]

\* The handler returns without a buffer.
End(h, from, how) ==
  /\ Goto(h, from, "idle")
  /\ reply' = how
  /\ UNCHANGED bufferVars

\* The handler returns or panics; the deferred PutBuffer runs.
EndAndPut(h, from, how) ==
  /\ Goto(h, from, "idle")
  /\ reply' = how
  /\ PutBuffer(buffer[h])
  /\ buffer' = [buffer EXCEPT ![h] = NoBuffer]
  /\ UNCHANGED content

-----------------------------------------------------------------------------
(* Read. *)

CallRead(h) ==
  /\ Goto(h, "idle", "read")
  /\ UNCHANGED <<handleClosed, streamSet, reply, bufferVars, streamVars>>

ReadIsClosed(h) ==
  /\ handleClosed
  /\ End(h, "read", "error")
  /\ UNCHANGED <<handleClosed, streamSet, streamVars>>

\* No stream: Read calls Close, which finds nothing to close.
ReadNoStream(h) ==
  /\ ~handleClosed /\ ~streamSet
  /\ handleClosed' = TRUE
  /\ End(h, "read", "error")
  /\ UNCHANGED <<streamSet, streamVars>>

\* Seeded fault: the buffer is assigned to a variable of an inner scope.
ReadGetBuffer_Shadowed(h) ==
  /\ ~handleClosed /\ streamSet
  /\ Goto(h, "read", "load")
  /\ \E b \in Buffers : GetBuffer(b, Referenced)
  /\ UNCHANGED <<buffer, content, handleClosed, streamSet, reply, streamVars>>

ReadGetBuffer(h) ==
  /\ ~handleClosed /\ streamSet
  /\ Goto(h, "read", "load")
  /\ \E b \in Buffers :
       /\ GetBuffer(b, Referenced)
       /\ buffer' = [buffer EXCEPT ![h] = b]
  /\ UNCHANGED <<content, handleClosed, streamSet, reply, streamVars>>

ReadCall(h) ==
  /\ streamSet
  /\ Goto(h, "load", "reading")
  /\ S!ReadCalled(h)
  /\ UNCHANGED <<handleClosed, streamSet, reply, bufferVars>>

ReadCallNil(h) ==
  /\ ~streamSet
  /\ EndAndPut(h, "load", "panic")
  /\ UNCHANGED <<handleClosed, streamSet, streamVars>>

ReadAdmitted(h) ==
  /\ pc[h] = "reading"
  /\ S!Admit(h)
  /\ UNCHANGED <<pc, handleClosed, streamSet, reply, bufferVars>>

\* Inside ReadAt the stream starts its first download.
StreamStarts ==
  /\ S!Start
  /\ UNCHANGED <<pc, handleClosed, streamSet, reply, bufferVars>>

\* The data is in the buffer and the response refers to it; PutBuffer runs
\* before the server sends the response.
ReadReturns(h) ==
  /\ Goto(h, "reading", "reply")
  /\ S!ReadEnds(h) /\ answer' \in S!Data
  /\ content' = [content EXCEPT ![buffer[h]] = h]
  /\ PutBuffer(buffer[h])
  /\ UNCHANGED <<buffer, handleClosed, streamSet, reply>>

ReadFails(h) ==
  /\ Goto(h, "reading", "failed")
  /\ S!Refuse(h) \/ (S!ReadEnds(h) /\ answer' = "error")
  /\ UNCHANGED <<handleClosed, streamSet, reply, bufferVars>>

ReadPanics(h) ==
  /\ S!ReadPanics(h)
  /\ EndAndPut(h, "reading", "panic")
  /\ UNCHANGED <<handleClosed, streamSet>>

\* Seeded fault: the stream is forgotten before it is closed.
FailedCall_DropFirst(h) ==
  /\ streamSet
  /\ Goto(h, "failed", "failedClose")
  /\ S!CloseCalled(h)
  /\ streamSet' = FALSE
  /\ UNCHANGED <<handleClosed, reply, bufferVars>>

\* A failed read closes the stream.
FailedCall(h) ==
  /\ streamSet
  /\ Goto(h, "failed", "failedClose")
  /\ S!CloseCalled(h)
  /\ UNCHANGED <<handleClosed, streamSet, reply, bufferVars>>

FailedCallNil(h) ==
  /\ ~streamSet
  /\ EndAndPut(h, "failed", "panic")
  /\ UNCHANGED <<handleClosed, streamSet, streamVars>>

FailedDrop(h) ==
  /\ S!CloseEnds(h) /\ answer' # "panic"
  /\ streamSet' = FALSE
  /\ EndAndPut(h, "failedClose", "error")
  /\ UNCHANGED handleClosed

FailedPanics(h) ==
  /\ S!CloseEnds(h) /\ answer' = "panic"
  /\ EndAndPut(h, "failedClose", "panic")
  /\ UNCHANGED <<handleClosed, streamSet>>

\* The server copies the response to the kernel.
Respond(h) ==
  /\ Goto(h, "reply", "idle")
  /\ reply' = "data"
  /\ buffer' = [buffer EXCEPT ![h] = NoBuffer]
  /\ UNCHANGED <<pooled, content, handleClosed, streamSet, streamVars>>

-----------------------------------------------------------------------------
(* Close. *)

CallClose(h) ==
  /\ Goto(h, "idle", "close")
  /\ UNCHANGED <<handleClosed, streamSet, reply, bufferVars, streamVars>>

CloseAgain(h) ==
  /\ handleClosed
  /\ End(h, "close", "closed")
  /\ UNCHANGED <<handleClosed, streamSet, streamVars>>

CloseCAS(h) ==
  /\ ~handleClosed
  /\ handleClosed' = TRUE
  /\ Goto(h, "close", "closeCheck")
  /\ UNCHANGED <<streamSet, reply, bufferVars, streamVars>>

CloseNoStream(h) ==
  /\ ~streamSet
  /\ End(h, "closeCheck", "closed")
  /\ UNCHANGED <<handleClosed, streamSet, streamVars>>

\* Seeded fault: the handle is closed, its stream is not.
CloseHasStream_Leak(h) ==
  /\ streamSet
  /\ End(h, "closeCheck", "closed")
  /\ UNCHANGED <<handleClosed, streamSet, streamVars>>

CloseHasStream(h) ==
  /\ streamSet
  /\ Goto(h, "closeCheck", "closeLoad")
  /\ UNCHANGED <<handleClosed, streamSet, reply, bufferVars, streamVars>>

CloseCall(h) ==
  /\ streamSet
  /\ Goto(h, "closeLoad", "closing")
  /\ S!CloseCalled(h)
  /\ UNCHANGED <<handleClosed, streamSet, reply, bufferVars>>

CloseCallNil(h) ==
  /\ ~streamSet
  /\ End(h, "closeLoad", "panic")
  /\ UNCHANGED <<handleClosed, streamSet, streamVars>>

\* The stream's own CompareAndSwap, in either Close.
StreamCloses(h) ==
  /\ S!CloseBegins(h)
  /\ UNCHANGED <<pc, handleClosed, streamSet, reply, bufferVars>>

CloseReturns(h) ==
  /\ S!CloseEnds(h)
  /\ End(h, "closing", IF answer' = "panic" THEN "panic" ELSE "closed")
  /\ UNCHANGED <<handleClosed, streamSet>>

-----------------------------------------------------------------------------

ReadStep(h) ==
  \/ ReadIsClosed(h) \/ ReadNoStream(h) \/ ReadGetBuffer(h)
  \/ ReadCall(h) \/ ReadCallNil(h) \/ ReadAdmitted(h)
  \/ ReadReturns(h) \/ ReadFails(h) \/ ReadPanics(h)
  \/ FailedCall(h) \/ FailedCallNil(h) \/ FailedDrop(h) \/ FailedPanics(h)
  \/ Respond(h)

CloseStep(h) ==
  \/ CloseAgain(h) \/ CloseCAS(h) \/ CloseNoStream(h) \/ CloseHasStream(h)
  \/ CloseCall(h) \/ CloseCallNil(h) \/ StreamCloses(h) \/ CloseReturns(h)

Next ==
  \/ StreamStarts
  \/ \E h \in Handlers : CallRead(h) \/ CallClose(h) \/ ReadStep(h) \/ CloseStep(h)

Spec == Init /\ [][Next]_vars

-----------------------------------------------------------------------------

\* A handler refers to a buffer while it reads and until its response is sent.
Refers == \A h \in Handlers : buffer[h] # NoBuffer <=> pc[h] \in ReadPCs \cup {"reply"}

\* The type invariant.
TypeOK ==
  /\ pc \in [Handlers -> PCs]
  /\ handleClosed \in BOOLEAN /\ streamSet \in BOOLEAN
  /\ buffer \in [Handlers -> Buffers \cup {NoBuffer}]
  /\ Refers
  /\ content \in [Buffers -> Handlers \cup {NoHandler}]
  /\ reply \in Replies
  /\ pooled \subseteq Buffers
  /\ phase \in [Handlers -> S!Phases]
  /\ closed \in BOOLEAN /\ started \in BOOLEAN
  /\ answer \in S!Data \cup {"none", "error", "panic", "closed"}

\* A read has its buffer for itself until it returns: no other read holds it
\* and the pool cannot hand it out.
BufferExclusive ==
  \A h \in Handlers : pc[h] \in ReadPCs =>
    /\ buffer[h] \in Buffers \ pooled
    /\ \A g \in Handlers \ {h} : pc[g] \in ReadPCs => buffer[g] # buffer[h]

\* A handle that has lost its stream, or is closed with nobody inside, leaves
\* no open stream behind, whichever of Read and Close came first.
NoStreamLeaks ==
  /\ ~streamSet => closed
  /\ handleClosed /\ (\A h \in Handlers : pc[h] = "idle") => closed

\* The nil dereferences of Read and Close need a stream that is closed: a
\* handle that nobody closes and whose reads succeed panics at most in a read
\* that is to start the first download of its stream.
PanicOnlyAfterClose ==
  [][\A h \in Handlers : pc[h] # "idle" /\ pc'[h] = "idle" /\ reply' = "panic" =>
       closed \/ (pc[h] = "reading" /\ ~started)]_vars

-----------------------------------------------------------------------------
(* The contract of the handle: where a request stands, seen by its client. *)

StageOf(h) ==
  CASE pc[h] \in {"read", "load"} -> "asked"
    [] pc[h] = "reading" -> IF phase[h] = "admitted" THEN "served" ELSE "asked"
    [] pc[h] = "reply" -> "served"
    [] pc[h] \in {"failed", "failedClose"} -> "failing"
    [] pc[h] = "close" -> "closing"
    [] pc[h] \in {"closeCheck", "closeLoad", "closing"} -> "ending"
    [] OTHER -> "idle"

H == INSTANCE HandleContract WITH
       Clients <- Handlers,
       stage <- [h \in Handlers |-> StageOf(h)],
       shut <- handleClosed,
       over <- closed

\* To its clients the handle is one that serves, fails once and for all, and
\* is over when its Close returns, whatever the reads beside it do.
ImplementsHandleContract == H!ContractSpec

\* Every response carries the data of its own read.
ResponseIsOwn ==
  [][\A h \in Handlers : pc[h] = "reply" /\ pc'[h] = "idle" => content[buffer[h]] = h]_vars

=============================================================================
