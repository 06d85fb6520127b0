----------------------- MODULE StreamableHandleProofs -----------------------
(***************************************************************************)
(* Proofs about StreamableHandle, for any number of concurrent requests    *)
(* and of read buffers.                                                    *)
(***************************************************************************)
EXTENDS StreamableHandle, TLAPS

USE BuffersAssumption, HandlersAssumption

\* The inductive invariant: besides the two properties, who has set closed
\* and not yet reached the stream is still on its way to it, and who has data
\* to deliver has it from a download.
ClosePending ==
  handleClosed => closed \/ \E h \in Handlers : pc[h] \in {"closeCheck", "closeLoad", "closing"}

NilStreamClosed == ~streamSet => closed

StartedFirst == \A h \in Handlers : pc[h] = "reply" => started

\* A handler is in a call of the stream where the stream believes it is.
PhasesMatch ==
  \A h \in Handlers :
    /\ pc[h] = "reading" <=> phase[h] \in {"called", "admitted"}
    /\ pc[h] \in {"failedClose", "closing"} <=> phase[h] = "closing"

HandleInv ==
  /\ TypeOK
  /\ BufferExclusive
  /\ PhasesMatch
  /\ NilStreamClosed
  /\ ClosePending
  /\ StartedFirst

-----------------------------------------------------------------------------

\* What the stream may do to the variables of its contract.
LEMMA ContractTypes ==
  ASSUME TypeOK, NEW h \in Handlers,
         \/ S!ReadCalled(h) \/ S!CloseCalled(h) \/ S!Admit(h) \/ S!Refuse(h)
         \/ S!ReadEnds(h) \/ S!ReadPanics(h) \/ S!CloseBegins(h) \/ S!CloseEnds(h)
  PROVE  /\ phase' \in [Handlers -> S!Phases]
         /\ closed' \in BOOLEAN /\ started' \in BOOLEAN
         /\ answer' \in S!Data \cup {"none", "error", "panic", "closed"}
         /\ closed => closed'
         /\ UNCHANGED started
  BY DEF TypeOK, S!Phases, S!Data, S!ReadCalled, S!CloseCalled, S!Enter,
     S!Admit, S!Refuse, S!ReadEnds, S!ReadPanics, S!Ends, S!CloseBegins, S!CloseEnds

\* A step of one handler, seen from the control states.
LEMMA GotoType ==
  ASSUME TypeOK, NEW h \in Handlers, NEW from, NEW to \in PCs, Goto(h, from, to)
  PROVE  pc' \in [Handlers -> PCs]
  BY DEF TypeOK, Goto

LEMMA InitInv == Init => HandleInv
  BY DEF Init, HandleInv, TypeOK, Refers, PCs, Replies, S!ContractInit, S!Phases, S!Data,
     BufferExclusive, ReadPCs, PhasesMatch, NilStreamClosed, ClosePending,
     StartedFirst

\* Putting the buffer of a read that ends back into the pool.
LEMMA PutExclusive ==
  ASSUME TypeOK, BufferExclusive, NEW h \in Handlers, pc[h] \in ReadPCs,
         pooled' = pooled \cup ({buffer[h]} \ {NoBuffer}),
         \A g \in Handlers \ {h} : pc'[g] = pc[g] /\ buffer'[g] = buffer[g],
         pc'[h] \notin ReadPCs
  PROVE  BufferExclusive'
  BY DEF TypeOK, BufferExclusive

\* A step that moves a handler and touches no buffer.
LEMMA MoveExclusive ==
  ASSUME TypeOK, BufferExclusive, NEW h \in Handlers,
         UNCHANGED <<pooled, buffer>>,
         \A g \in Handlers \ {h} : pc'[g] = pc[g],
         pc'[h] \in ReadPCs => pc[h] \in ReadPCs
  PROVE  BufferExclusive'
  BY DEF TypeOK, BufferExclusive

-----------------------------------------------------------------------------
(* Types. *)

\* The download that starts changes nothing but started.
LEMMA StartOnly ==
  ASSUME TypeOK, StreamStarts
  PROVE  /\ UNCHANGED <<pc, handleClosed, streamSet, reply, bufferVars, phase, closed, answer>>
         /\ ~started /\ started'
         /\ \E h \in Handlers : phase[h] = "admitted"
  BY DEF StreamStarts, S!Start

\* A handler takes a buffer when it begins to read, and gives it up when it
\* ends or its response is sent.
LEMMA RefersStays ==
  ASSUME TypeOK, NEW h \in Handlers,
         CallRead(h) \/ CallClose(h) \/ ReadStep(h) \/ CloseStep(h)
  PROVE  Refers'
<1>1. CASE \/ ReadIsClosed(h) \/ ReadNoStream(h) \/ CloseAgain(h) \/ CloseNoStream(h)
           \/ CloseCallNil(h) \/ CloseReturns(h)
  <2>1. /\ UNCHANGED buffer
        /\ pc[h] \in {"read", "close", "closeCheck", "closeLoad", "closing"}
        /\ pc' = [pc EXCEPT ![h] = "idle"]
    BY <1>1 DEF ReadIsClosed, ReadNoStream, CloseAgain, CloseNoStream, CloseCallNil,
       CloseReturns, End, Goto, bufferVars
  <2>. QED
    BY <2>1 DEF TypeOK, Refers, ReadPCs
<1>2. CASE \/ ReadCallNil(h) \/ ReadPanics(h) \/ FailedCallNil(h) \/ FailedDrop(h)
           \/ FailedPanics(h) \/ Respond(h)
  <2>1. /\ buffer' = [buffer EXCEPT ![h] = NoBuffer]
        /\ pc' = [pc EXCEPT ![h] = "idle"]
    BY <1>2 DEF ReadCallNil, ReadPanics, FailedCallNil, FailedDrop, FailedPanics, Respond,
       EndAndPut, Goto
  <2>. QED
    BY <2>1 DEF TypeOK, Refers, ReadPCs
<1>3. CASE ReadGetBuffer(h)
  <2>1. PICK b \in Buffers : buffer' = [buffer EXCEPT ![h] = b]
    BY <1>3 DEF ReadGetBuffer
  <2>2. pc' = [pc EXCEPT ![h] = "load"]
    BY <1>3 DEF ReadGetBuffer, Goto
  <2>. QED
    BY <2>1, <2>2 DEF TypeOK, Refers, ReadPCs
<1>4. CASE \/ CallRead(h) \/ CallClose(h) \/ CloseCAS(h) \/ CloseHasStream(h)
           \/ CloseCall(h)
  <2>1. /\ UNCHANGED buffer
        /\ pc[h] \in {"idle", "close", "closeCheck", "closeLoad"}
        /\ \E to \in {"read", "close", "closeCheck", "closeLoad", "closing"} :
             pc' = [pc EXCEPT ![h] = to]
    BY <1>4 DEF CallRead, CallClose, CloseCAS, CloseHasStream, CloseCall, Goto, bufferVars
  <2>. QED
    BY <2>1 DEF TypeOK, Refers, ReadPCs
<1>5. CASE ReadCall(h) \/ ReadReturns(h) \/ ReadFails(h) \/ FailedCall(h)
  <2>1. /\ UNCHANGED buffer
        /\ pc[h] \in ReadPCs
        /\ \E to \in ReadPCs \cup {"reply"} : pc' = [pc EXCEPT ![h] = to]
    BY <1>5 DEF ReadCall, ReadReturns, ReadFails, FailedCall, Goto, bufferVars, ReadPCs
  <2>. QED
    BY <2>1 DEF TypeOK, Refers
<1>6. CASE ReadAdmitted(h) \/ StreamCloses(h)
  BY <1>6 DEF ReadAdmitted, StreamCloses, bufferVars, TypeOK, Refers
<1>. QED
  BY <1>1, <1>2, <1>3, <1>4, <1>5, <1>6 DEF ReadStep, CloseStep

LEMMA MovesKeepTypes ==
  ASSUME TypeOK, NEW h \in Handlers,
         \/ CallRead(h) \/ CallClose(h) \/ ReadCall(h) \/ ReadAdmitted(h)
         \/ ReadFails(h) \/ FailedCall(h) \/ CloseCAS(h) \/ CloseHasStream(h)
         \/ CloseCall(h) \/ StreamCloses(h)
  PROVE  TypeOK'
<1>1. pc' \in [Handlers -> PCs]
  BY GotoType DEF CallRead, CallClose, ReadCall, ReadAdmitted, ReadFails, FailedCall,
     CloseCAS, CloseHasStream, CloseCall, StreamCloses, PCs, ReadPCs, TypeOK
<1>2. /\ phase' \in [Handlers -> S!Phases]
      /\ closed' \in BOOLEAN /\ started' \in BOOLEAN
      /\ answer' \in S!Data \cup {"none", "error", "panic", "closed"}
  <2>1. CASE UNCHANGED streamVars
    BY <2>1 DEF streamVars, TypeOK
  <2>2. CASE ~UNCHANGED streamVars
    BY <2>2, ContractTypes DEF CallRead, CallClose, ReadCall, ReadAdmitted, ReadFails,
       FailedCall, CloseCAS, CloseHasStream, CloseCall, StreamCloses
  <2>. QED
    BY <2>1, <2>2
<1>3. /\ UNCHANGED <<streamSet, reply, bufferVars>>
      /\ handleClosed' \in BOOLEAN
  BY DEF CallRead, CallClose, ReadCall, ReadAdmitted, ReadFails, FailedCall,
     CloseCAS, CloseHasStream, CloseCall, StreamCloses, TypeOK
<1>4. Refers'
  BY RefersStays DEF ReadStep, CloseStep
<1>. QED
  BY <1>1, <1>2, <1>3, <1>4 DEF TypeOK, bufferVars

LEMMA EndsKeepTypes ==
  ASSUME TypeOK, BufferExclusive, NEW h \in Handlers,
         \/ ReadIsClosed(h) \/ ReadNoStream(h) \/ CloseAgain(h) \/ CloseNoStream(h)
         \/ CloseCallNil(h) \/ CloseReturns(h) \/ ReadCallNil(h) \/ ReadPanics(h)
         \/ FailedCallNil(h) \/ FailedDrop(h) \/ FailedPanics(h)
  PROVE  TypeOK'
<1>1. /\ phase' \in [Handlers -> S!Phases]
      /\ closed' \in BOOLEAN /\ started' \in BOOLEAN
      /\ answer' \in S!Data \cup {"none", "error", "panic", "closed"}
  <2>1. CASE UNCHANGED streamVars
    BY <2>1 DEF streamVars, TypeOK
  <2>2. CASE ~UNCHANGED streamVars
    BY <2>2, ContractTypes DEF ReadIsClosed, ReadNoStream, CloseAgain, CloseNoStream,
       CloseCallNil, CloseReturns, ReadCallNil, ReadPanics, FailedCallNil, FailedDrop,
       FailedPanics
  <2>. QED
    BY <2>1, <2>2
<1>2. handleClosed' \in BOOLEAN /\ streamSet' \in BOOLEAN
  BY DEF ReadIsClosed, ReadNoStream, CloseAgain, CloseNoStream, CloseCallNil,
     CloseReturns, ReadCallNil, ReadPanics, FailedCallNil, FailedDrop, FailedPanics, TypeOK
<1>3. /\ pc' \in [Handlers -> PCs]
      /\ reply' \in Replies
      /\ UNCHANGED content
  BY GotoType DEF ReadIsClosed, ReadNoStream, CloseAgain, CloseNoStream, CloseCallNil,
     CloseReturns, ReadCallNil, ReadPanics, FailedCallNil, FailedDrop, FailedPanics,
     End, EndAndPut, bufferVars, PCs, Replies
<1>4. pooled' \subseteq Buffers /\ buffer' \in [Handlers -> Buffers \cup {NoBuffer}]
  <2>1. CASE UNCHANGED bufferVars
    BY <2>1 DEF bufferVars, TypeOK
  <2>2. CASE \E from \in ReadPCs, how \in Replies : EndAndPut(h, from, how)
    BY <2>2 DEF EndAndPut, Goto, PutBuffer, BufferExclusive, TypeOK
  <2>. QED
    BY <2>1, <2>2 DEF ReadIsClosed, ReadNoStream, CloseAgain, CloseNoStream, CloseCallNil,
       CloseReturns, ReadCallNil, ReadPanics, FailedCallNil, FailedDrop, FailedPanics,
       End, ReadPCs, Replies
<1>5. Refers'
  BY RefersStays DEF ReadStep, CloseStep
<1>. QED
  BY <1>1, <1>2, <1>3, <1>4, <1>5 DEF TypeOK

LEMMA BuffersKeepTypes ==
  ASSUME TypeOK, BufferExclusive, NEW h \in Handlers,
         ReadGetBuffer(h) \/ ReadReturns(h) \/ Respond(h)
  PROVE  TypeOK'
<1>0. Refers'
  BY RefersStays DEF ReadStep
<1>1. CASE ReadGetBuffer(h)
  BY <1>0, <1>1, GotoType DEF ReadGetBuffer, GetBuffer, streamVars, TypeOK, PCs, ReadPCs
<1>2. CASE ReadReturns(h)
  <2>1. /\ pc' \in [Handlers -> PCs]
        /\ buffer[h] \in Buffers
    BY <1>2, GotoType DEF ReadReturns, Goto, PCs, BufferExclusive, ReadPCs
  <2>. QED
    BY <1>0, <1>2, <2>1, ContractTypes DEF ReadReturns, PutBuffer, TypeOK
<1>3. CASE Respond(h)
  BY <1>0, <1>3, GotoType DEF Respond, streamVars, TypeOK, PCs, Replies
<1>. QED
  BY <1>1, <1>2, <1>3

-----------------------------------------------------------------------------
(* The buffers. *)

LEMMA BuffersStayExclusive ==
  ASSUME TypeOK, BufferExclusive, NEW h \in Handlers,
         CallRead(h) \/ CallClose(h) \/ ReadStep(h) \/ CloseStep(h)
  PROVE  BufferExclusive'
<1>1. CASE ReadGetBuffer(h)
  <2>1. PICK b \in Buffers : GetBuffer(b, Referenced) /\ buffer' = [buffer EXCEPT ![h] = b]
    BY <1>1 DEF ReadGetBuffer
  <2>2. \A g \in Handlers \ {h} : pc[g] \in ReadPCs => buffer[g] # b
    BY <2>1 DEF GetBuffer, Referenced, BufferExclusive
  <2>. QED
    BY <1>1, <2>1, <2>2 DEF ReadGetBuffer, GetBuffer, Goto, BufferExclusive, TypeOK
<1>2. CASE ReadCallNil(h) \/ ReadPanics(h) \/ FailedCallNil(h) \/ FailedDrop(h) \/ FailedPanics(h)
  <2>1. \E from \in ReadPCs, how \in Replies : EndAndPut(h, from, how)
    BY <1>2 DEF ReadCallNil, ReadPanics, FailedCallNil, FailedDrop, FailedPanics, ReadPCs, Replies
  <2>. QED
    BY <2>1, PutExclusive DEF EndAndPut, Goto, PutBuffer, TypeOK, ReadPCs
<1>3. CASE ReadReturns(h)
  BY <1>3, PutExclusive DEF ReadReturns, Goto, PutBuffer, TypeOK, ReadPCs
<1>4. CASE Respond(h)
  BY <1>4 DEF Respond, Goto, BufferExclusive, TypeOK, ReadPCs
<1>5. CASE \/ ReadIsClosed(h) \/ ReadNoStream(h) \/ CloseAgain(h) \/ CloseNoStream(h)
           \/ CloseCallNil(h) \/ CloseReturns(h)
  BY <1>5, MoveExclusive DEF ReadIsClosed, ReadNoStream, CloseAgain, CloseNoStream,
     CloseCallNil, CloseReturns, End, Goto, bufferVars, TypeOK, ReadPCs
<1>6. CASE \/ CallRead(h) \/ CallClose(h) \/ ReadCall(h) \/ ReadAdmitted(h)
           \/ ReadFails(h) \/ FailedCall(h) \/ CloseCAS(h) \/ CloseHasStream(h)
           \/ CloseCall(h) \/ StreamCloses(h)
  BY <1>6, MoveExclusive DEF CallRead, CallClose, ReadCall, ReadAdmitted, ReadFails,
     FailedCall, CloseCAS, CloseHasStream, CloseCall, StreamCloses, Goto, bufferVars,
     TypeOK, ReadPCs
<1>. QED
  BY <1>1, <1>2, <1>3, <1>4, <1>5, <1>6 DEF ReadStep, CloseStep

-----------------------------------------------------------------------------
(* The calls of the stream. *)

InStream == {"reading", "failedClose", "closing"}

\* A step of a handler outside of the stream.
LEMMA StepsOutside ==
  ASSUME TypeOK, NEW h \in Handlers,
         \/ CallRead(h) \/ CallClose(h) \/ ReadIsClosed(h) \/ ReadNoStream(h)
         \/ ReadGetBuffer(h) \/ ReadCallNil(h) \/ FailedCallNil(h) \/ Respond(h)
         \/ CloseAgain(h) \/ CloseCAS(h) \/ CloseNoStream(h) \/ CloseHasStream(h)
         \/ CloseCallNil(h)
  PROVE  /\ UNCHANGED streamVars
         /\ pc[h] \notin InStream /\ pc'[h] \notin InStream
         /\ \A g \in Handlers \ {h} : pc'[g] = pc[g]
  BY DEF CallRead, CallClose, ReadIsClosed, ReadNoStream, ReadGetBuffer, ReadCallNil,
     FailedCallNil, Respond, CloseAgain, CloseCAS, CloseNoStream, CloseHasStream,
     CloseCallNil, End, EndAndPut, Goto, InStream, TypeOK, streamVars

\* A step into, inside or out of the stream.
LEMMA StepsInside ==
  ASSUME TypeOK, PhasesMatch, NEW h \in Handlers,
         \/ ReadCall(h) \/ ReadAdmitted(h) \/ ReadReturns(h) \/ ReadFails(h)
         \/ ReadPanics(h) \/ FailedCall(h) \/ FailedDrop(h) \/ FailedPanics(h)
         \/ CloseCall(h) \/ StreamCloses(h) \/ CloseReturns(h)
  PROVE  /\ \A g \in Handlers \ {h} : pc'[g] = pc[g] /\ phase'[g] = phase[g]
         /\ pc'[h] = "reading" <=> phase'[h] \in {"called", "admitted"}
         /\ pc'[h] \in {"failedClose", "closing"} <=> phase'[h] = "closing"
<1>1. CASE ReadCall(h) \/ FailedCall(h) \/ CloseCall(h)
  BY <1>1 DEF ReadCall, FailedCall, CloseCall, Goto, S!ReadCalled, S!CloseCalled, S!Enter, TypeOK
<1>2. CASE ReadAdmitted(h) \/ StreamCloses(h)
  BY <1>2 DEF ReadAdmitted, StreamCloses, S!Admit, S!CloseBegins, TypeOK, PhasesMatch
<1>3. CASE ReadReturns(h) \/ ReadFails(h)
  BY <1>3 DEF ReadReturns, ReadFails, Goto, S!ReadEnds, S!Refuse, S!Ends, TypeOK
<1>4. CASE ReadPanics(h) \/ FailedDrop(h) \/ FailedPanics(h)
  BY <1>4 DEF ReadPanics, FailedDrop, FailedPanics, EndAndPut, Goto, S!ReadPanics,
     S!CloseEnds, S!Ends, TypeOK
<1>5. CASE CloseReturns(h)
  BY <1>5 DEF CloseReturns, End, Goto, S!CloseEnds, S!Ends, TypeOK
<1>. QED
  BY <1>1, <1>2, <1>3, <1>4, <1>5

LEMMA PhasesStayMatched ==
  ASSUME TypeOK, PhasesMatch, NEW h \in Handlers,
         CallRead(h) \/ CallClose(h) \/ ReadStep(h) \/ CloseStep(h)
  PROVE  PhasesMatch'
<1>1. CASE \/ CallRead(h) \/ CallClose(h) \/ ReadIsClosed(h) \/ ReadNoStream(h)
           \/ ReadGetBuffer(h) \/ ReadCallNil(h) \/ FailedCallNil(h) \/ Respond(h)
           \/ CloseAgain(h) \/ CloseCAS(h) \/ CloseNoStream(h) \/ CloseHasStream(h)
           \/ CloseCallNil(h)
  BY <1>1, StepsOutside DEF InStream, PhasesMatch, streamVars
<1>2. CASE \/ ReadCall(h) \/ ReadAdmitted(h) \/ ReadReturns(h) \/ ReadFails(h)
           \/ ReadPanics(h) \/ FailedCall(h) \/ FailedDrop(h) \/ FailedPanics(h)
           \/ CloseCall(h) \/ StreamCloses(h) \/ CloseReturns(h)
  BY <1>2, StepsInside DEF PhasesMatch
<1>. QED
  BY <1>1, <1>2 DEF ReadStep, CloseStep

-----------------------------------------------------------------------------
(* The stream behind the handle. *)

\* closed is never taken back.
LEMMA ClosedStays ==
  ASSUME TypeOK, closed, [Next]_vars
  PROVE  closed'
<1>1. CASE UNCHANGED vars
  BY <1>1 DEF vars, streamVars
<1>2. CASE StreamStarts
  BY <1>2, StartOnly
<1>3. CASE \E h \in Handlers : CallRead(h) \/ CallClose(h) \/ ReadStep(h) \/ CloseStep(h)
  BY <1>3, ContractTypes DEF ReadStep, CloseStep, CallRead, CallClose,
     ReadIsClosed, ReadNoStream, ReadGetBuffer, ReadCall, ReadCallNil, ReadAdmitted,
     ReadReturns, ReadFails, ReadPanics, FailedCall, FailedCallNil, FailedDrop,
     FailedPanics, Respond, CloseAgain, CloseCAS, CloseNoStream, CloseHasStream,
     CloseCall, CloseCallNil, StreamCloses, CloseReturns, streamVars
<1>. QED
  BY <1>1, <1>2, <1>3 DEF Next

LEMMA NilStreamStaysClosed ==
  ASSUME TypeOK, NilStreamClosed, [Next]_vars
  PROVE  NilStreamClosed'
<1>1. CASE closed
  BY <1>1, ClosedStays DEF NilStreamClosed
<1>2. CASE ~closed /\ (StreamStarts \/ UNCHANGED vars)
  BY <1>2, StartOnly DEF NilStreamClosed, vars, streamVars
<1>3. CASE ~closed /\ \E h \in Handlers : CallRead(h) \/ CallClose(h) \/ ReadStep(h) \/ CloseStep(h)
  BY <1>3 DEF NilStreamClosed, ReadStep, CloseStep, CallRead, CallClose,
     ReadIsClosed, ReadNoStream, ReadGetBuffer, ReadCall, ReadCallNil, ReadAdmitted,
     ReadReturns, ReadFails, ReadPanics, FailedCall, FailedCallNil, FailedDrop,
     FailedPanics, Respond, CloseAgain, CloseCAS, CloseNoStream, CloseHasStream,
     CloseCall, CloseCallNil, StreamCloses, CloseReturns, streamVars, S!CloseEnds
<1>. QED
  BY <1>1, <1>2, <1>3 DEF Next

\* Data is delivered only after a download has started.
LEMMA StartedStaysFirst ==
  ASSUME TypeOK, StartedFirst, [Next]_vars
  PROVE  StartedFirst'
<1>1. CASE StreamStarts \/ UNCHANGED vars
  BY <1>1, StartOnly DEF StartedFirst, vars, streamVars
<1>2. CASE \E h \in Handlers : CallRead(h) \/ CallClose(h) \/ ReadStep(h) \/ CloseStep(h)
  <2>. PICK h \in Handlers : CallRead(h) \/ CallClose(h) \/ ReadStep(h) \/ CloseStep(h)
    BY <1>2
  <2>1. UNCHANGED started
    BY ContractTypes DEF ReadStep, CloseStep, CallRead, CallClose,
     ReadIsClosed, ReadNoStream, ReadGetBuffer, ReadCall, ReadCallNil, ReadAdmitted,
     ReadReturns, ReadFails, ReadPanics, FailedCall, FailedCallNil, FailedDrop,
     FailedPanics, Respond, CloseAgain, CloseCAS, CloseNoStream, CloseHasStream,
     CloseCall, CloseCallNil, StreamCloses, CloseReturns, streamVars
  <2>2. CASE ReadReturns(h)
    <3>1. started
      BY <2>2 DEF ReadReturns, S!ReadEnds, S!Ends
    <3>. QED
      BY <2>1, <3>1 DEF StartedFirst
  <2>3. CASE ~ReadReturns(h)
    <3>1. \A g \in Handlers : pc'[g] = "reply" => pc[g] = "reply"
      BY <2>3 DEF ReadStep, CloseStep, CallRead, CallClose, End, EndAndPut, Goto,
       ReadIsClosed, ReadNoStream, ReadGetBuffer, ReadCall, ReadCallNil, ReadAdmitted,
       ReadFails, ReadPanics, FailedCall, FailedCallNil, FailedDrop,
       FailedPanics, Respond, CloseAgain, CloseCAS, CloseNoStream, CloseHasStream,
       CloseCall, CloseCallNil, StreamCloses, CloseReturns, TypeOK
    <3>. QED
      BY <2>1, <3>1 DEF StartedFirst
  <2>. QED
    BY <2>2, <2>3
<1>. QED
  BY <1>1, <1>2 DEF Next

LEMMA CloseStaysPending ==
  ASSUME TypeOK, NilStreamClosed, ClosePending, [Next]_vars
  PROVE  ClosePending'
<1>. DEFINE Pending == {"closeCheck", "closeLoad", "closing"}
<1>1. CASE closed
  BY <1>1, ClosedStays DEF ClosePending
<1>2. CASE ~closed /\ (StreamStarts \/ UNCHANGED vars)
  BY <1>2, StartOnly DEF vars, streamVars, ClosePending
<1>3. CASE ~closed /\ \E h \in Handlers : CallRead(h) \/ CallClose(h) \/ ReadStep(h) \/ CloseStep(h)
  <2>. PICK h \in Handlers : CallRead(h) \/ CallClose(h) \/ ReadStep(h) \/ CloseStep(h)
    BY <1>3
  <2>1. streamSet
    BY <1>3 DEF NilStreamClosed
  <2>2. ASSUME pc[h] \in Pending PROVE pc'[h] \in Pending
    <3>1. CASE \/ CallRead(h) \/ CallClose(h) \/ ReadIsClosed(h) \/ ReadNoStream(h)
               \/ ReadGetBuffer(h) \/ ReadCall(h) \/ ReadCallNil(h) \/ ReadReturns(h)
               \/ ReadFails(h) \/ ReadPanics(h)
      BY <2>2, <3>1 DEF CallRead, CallClose, ReadIsClosed, ReadNoStream, ReadGetBuffer,
         ReadCall, ReadCallNil, ReadReturns, ReadFails, ReadPanics, End, EndAndPut, Goto
    <3>2. CASE \/ FailedCall(h) \/ FailedCallNil(h) \/ FailedDrop(h) \/ FailedPanics(h)
               \/ Respond(h) \/ CloseAgain(h) \/ CloseCAS(h)
      BY <2>2, <3>2 DEF FailedCall, FailedCallNil, FailedDrop, FailedPanics, Respond,
         CloseAgain, CloseCAS, End, EndAndPut, Goto
    <3>3. CASE CloseHasStream(h) \/ CloseCall(h)
      BY <3>3 DEF CloseHasStream, CloseCall, Goto, TypeOK
    <3>4. CASE CloseNoStream(h) \/ CloseCallNil(h) \/ CloseReturns(h)
      BY <1>3, <2>1, <3>4 DEF CloseNoStream, CloseCallNil, CloseReturns, S!CloseEnds
    <3>5. CASE ReadAdmitted(h) \/ StreamCloses(h)
      BY <2>2, <3>5 DEF ReadAdmitted, StreamCloses
    <3>. QED
      BY <3>1, <3>2, <3>3, <3>4, <3>5 DEF ReadStep, CloseStep
  <2>3. \A g \in Handlers \ {h} : pc'[g] = pc[g]
    BY DEF ReadStep, CloseStep, CallRead, CallClose, End, EndAndPut, Goto,
     ReadIsClosed, ReadNoStream, ReadGetBuffer, ReadCall, ReadCallNil, ReadAdmitted,
     ReadReturns, ReadFails, ReadPanics, FailedCall, FailedCallNil, FailedDrop,
     FailedPanics, Respond, CloseAgain, CloseCAS, CloseNoStream, CloseHasStream,
     CloseCall, CloseCallNil, StreamCloses, CloseReturns, TypeOK
  <2>4. handleClosed' => handleClosed \/ pc'[h] \in Pending
    BY <2>1 DEF ReadStep, CloseStep, CallRead, CallClose, Goto,
     ReadIsClosed, ReadNoStream, ReadGetBuffer, ReadCall, ReadCallNil, ReadAdmitted,
     ReadReturns, ReadFails, ReadPanics, FailedCall, FailedCallNil, FailedDrop,
     FailedPanics, Respond, CloseAgain, CloseCAS, CloseNoStream, CloseHasStream,
     CloseCall, CloseCallNil, StreamCloses, CloseReturns, TypeOK
  <2>. QED
    BY <1>3, <2>2, <2>3, <2>4 DEF ClosePending
<1>. QED
  BY <1>1, <1>2, <1>3 DEF Next

-----------------------------------------------------------------------------

LEMMA StepInv == HandleInv /\ [Next]_vars => HandleInv'
<1>. SUFFICES ASSUME HandleInv, [Next]_vars PROVE HandleInv'
  OBVIOUS
<1>1. TypeOK'
  <2>1. CASE UNCHANGED vars
    BY <2>1 DEF HandleInv, TypeOK, Refers, vars, bufferVars, streamVars
  <2>2. CASE StreamStarts
    BY <2>2, StartOnly DEF HandleInv, TypeOK, Refers, bufferVars
  <2>3. CASE Next /\ ~StreamStarts
    BY <2>3, MovesKeepTypes, EndsKeepTypes, BuffersKeepTypes
       DEF HandleInv, Next, ReadStep, CloseStep
  <2>. QED
    BY <2>1, <2>2, <2>3
<1>2. BufferExclusive'
  <2>1. CASE StreamStarts \/ UNCHANGED vars
    BY <2>1, StartOnly DEF HandleInv, BufferExclusive, vars, bufferVars
  <2>2. CASE \E h \in Handlers : CallRead(h) \/ CallClose(h) \/ ReadStep(h) \/ CloseStep(h)
    BY <2>2, BuffersStayExclusive DEF HandleInv
  <2>. QED
    BY <2>1, <2>2 DEF Next
<1>3. PhasesMatch'
  <2>1. CASE StreamStarts \/ UNCHANGED vars
    BY <2>1, StartOnly DEF HandleInv, PhasesMatch, vars, streamVars
  <2>2. CASE \E h \in Handlers : CallRead(h) \/ CallClose(h) \/ ReadStep(h) \/ CloseStep(h)
    BY <2>2, PhasesStayMatched DEF HandleInv
  <2>. QED
    BY <2>1, <2>2 DEF Next
<1>4. NilStreamClosed' /\ ClosePending' /\ StartedFirst'
  BY NilStreamStaysClosed, CloseStaysPending, StartedStaysFirst DEF HandleInv
<1>. QED
  BY <1>1, <1>2, <1>3, <1>4 DEF HandleInv

LEMMA Inductive == Spec => []HandleInv
  BY InitInv, StepInv, PTL DEF Spec

\* Types are kept by every step of every handler; that a buffer put back is a
\* buffer needs BufferExclusive.
THEOREM HandleTyping == Spec => []TypeOK
  BY Inductive, PTL DEF HandleInv

\* No two running reads share a buffer, nor does one read from a buffer the
\* pool may hand out, for any number of reads and buffers.
THEOREM BuffersExclusive == Spec => []BufferExclusive
  BY Inductive, PTL DEF HandleInv

\* Neither a lost nor a closed handle leaves an open stream behind.
THEOREM StreamsDoNotLeak == Spec => []NoStreamLeaks
<1>1. HandleInv => NoStreamLeaks
  BY DEF HandleInv, NilStreamClosed, ClosePending, NoStreamLeaks
<1>. QED
  BY <1>1, Inductive, PTL

\* A handler panics only on a stream that somebody has closed, or in a read
\* whose stream has not started a download yet.
THEOREM PanicsOnlyAfterClose == Spec => PanicOnlyAfterClose
<1>1. ASSUME HandleInv, [Next]_vars, NEW h \in Handlers,
             pc[h] # "idle", pc'[h] = "idle", reply' = "panic"
      PROVE  closed \/ (pc[h] = "reading" /\ ~started)
  <2>0. ~UNCHANGED pc
    BY <1>1
  <2>1. PICK g \in Handlers : CallRead(g) \/ CallClose(g) \/ ReadStep(g) \/ CloseStep(g)
    <3>1. ~StreamStarts /\ ~UNCHANGED vars
      BY <1>1, <2>0, StartOnly DEF HandleInv, vars
    <3>. QED
      BY <1>1, <3>1 DEF Next
  <2>2. g = h
    BY <1>1, <2>1, StepsOutside, StepsInside DEF HandleInv, ReadStep, CloseStep
  <2>3. CASE ReadPanics(h)
    BY <2>3 DEF ReadPanics, EndAndPut, Goto, S!ReadPanics
  <2>4. CASE ReadCallNil(h) \/ FailedCallNil(h) \/ CloseCallNil(h)
    BY <1>1, <2>4 DEF ReadCallNil, FailedCallNil, CloseCallNil, NilStreamClosed, HandleInv
  <2>5. CASE FailedPanics(h) \/ CloseReturns(h) \/ FailedDrop(h)
    BY <2>5 DEF FailedPanics, CloseReturns, FailedDrop, S!CloseEnds
  <2>6. CASE \/ CallRead(h) \/ CallClose(h) \/ ReadGetBuffer(h) \/ ReadCall(h)
             \/ ReadAdmitted(h) \/ ReadReturns(h) \/ ReadFails(h) \/ FailedCall(h)
             \/ CloseCAS(h) \/ CloseHasStream(h) \/ CloseCall(h) \/ StreamCloses(h)
    <3>1. \/ \E to \in PCs \ {"idle"} : pc' = [pc EXCEPT ![h] = to]
          \/ UNCHANGED pc
      BY <2>6 DEF CallRead, CallClose, ReadGetBuffer, ReadCall, ReadAdmitted, ReadReturns,
         ReadFails, FailedCall, CloseCAS, CloseHasStream, CloseCall, StreamCloses, Goto,
         PCs, ReadPCs
    <3>. QED
      BY <1>1, <3>1 DEF HandleInv, TypeOK
  <2>7. CASE \/ ReadIsClosed(h) \/ ReadNoStream(h) \/ Respond(h) \/ CloseAgain(h)
             \/ CloseNoStream(h)
    BY <1>1, <2>7 DEF ReadIsClosed, ReadNoStream, Respond, CloseAgain, CloseNoStream, End
  <2>. QED
    BY <2>1, <2>2, <2>3, <2>4, <2>5, <2>6, <2>7 DEF ReadStep, CloseStep
<1>2. HandleInv /\ [Next]_vars =>
        [\A h \in Handlers : pc[h] # "idle" /\ pc'[h] = "idle" /\ reply' = "panic" =>
           closed \/ (pc[h] = "reading" /\ ~started)]_vars
  BY <1>1
<1>. QED
  BY <1>2, Inductive, PTL DEF Spec, PanicOnlyAfterClose

-----------------------------------------------------------------------------
(* The handle implements its contract. *)

Stages == [h \in Handlers |-> StageOf(h)]

\* What a stage is, without the CASE.
LEMMA StageMeans ==
  ASSUME TypeOK, NEW h \in Handlers
  PROVE  /\ pc[h] \in {"read", "load"} => StageOf(h) = "asked"
         /\ pc[h] = "reading" /\ phase[h] = "admitted" => StageOf(h) = "served"
         /\ pc[h] = "reading" /\ phase[h] # "admitted" => StageOf(h) = "asked"
         /\ pc[h] = "reply" => StageOf(h) = "served"
         /\ pc[h] \in {"failed", "failedClose"} => StageOf(h) = "failing"
         /\ pc[h] = "close" => StageOf(h) = "closing"
         /\ pc[h] \in {"closeCheck", "closeLoad", "closing"} => StageOf(h) = "ending"
         /\ pc[h] = "idle" => StageOf(h) = "idle"
  BY DEF StageOf, TypeOK, PCs, ReadPCs

LEMMA StageMeansNext ==
  ASSUME TypeOK', NEW h \in Handlers
  PROVE  /\ pc'[h] \in {"read", "load"} => StageOf(h)' = "asked"
         /\ pc'[h] = "reading" /\ phase'[h] = "admitted" => StageOf(h)' = "served"
         /\ pc'[h] = "reading" /\ phase'[h] # "admitted" => StageOf(h)' = "asked"
         /\ pc'[h] = "reply" => StageOf(h)' = "served"
         /\ pc'[h] \in {"failed", "failedClose"} => StageOf(h)' = "failing"
         /\ pc'[h] = "close" => StageOf(h)' = "closing"
         /\ pc'[h] \in {"closeCheck", "closeLoad", "closing"} => StageOf(h)' = "ending"
         /\ pc'[h] = "idle" => StageOf(h)' = "idle"
  BY DEF StageOf, TypeOK, PCs, ReadPCs

\* A step moves the request of one handler.
LEMMA StageMoves ==
  ASSUME NEW h \in Handlers,
         \A g \in Handlers \ {h} : pc'[g] = pc[g] /\ phase'[g] = phase[g]
  PROVE  Stages' = [Stages EXCEPT ![h] = StageOf(h)']
<1>1. \A g \in Handlers \ {h} : StageOf(g)' = StageOf(g)
  BY DEF StageOf
<1>. QED
  BY <1>1 DEF Stages

\* The steps of the contract, over Stages.
LEMMA ContractMove ==
  ASSUME NEW h \in Handlers, NEW from, NEW to,
         StageOf(h) \in from, StageOf(h)' = to,
         \A g \in Handlers \ {h} : pc'[g] = pc[g] /\ phase'[g] = phase[g]
  PROVE  H!Move(h, from, to)
<1>1. Stages' = [Stages EXCEPT ![h] = to]
  BY StageMoves
<1>2. Stages[h] = StageOf(h)
  BY DEF Stages
<1>. QED
  BY <1>1, <1>2 DEF H!Move, Stages

\* A step that leaves the stage of every request where it was.
LEMMA ContractStays ==
  ASSUME NEW h \in Handlers, StageOf(h)' = StageOf(h),
         \A g \in Handlers \ {h} : pc'[g] = pc[g] /\ phase'[g] = phase[g]
  PROVE  Stages' = Stages
  BY StageMoves DEF Stages

LEMMA OutsideKeepsOthers ==
  ASSUME HandleInv, NEW h \in Handlers, CallRead(h) \/ CallClose(h) \/ ReadStep(h) \/ CloseStep(h)
  PROVE  \A g \in Handlers \ {h} : pc'[g] = pc[g] /\ phase'[g] = phase[g]
  BY StepsOutside, StepsInside DEF HandleInv, ReadStep, CloseStep, streamVars

\* The steps of a read, one by one.
LEMMA ReadImplements ==
  ASSUME HandleInv, HandleInv', NEW h \in Handlers, CallRead(h) \/ ReadStep(h)
  PROVE  H!ContractNext \/ UNCHANGED H!contractVars
<1>. USE DEF HandleInv
<1>0. \A g \in Handlers \ {h} : pc'[g] = pc[g] /\ phase'[g] = phase[g]
  BY OutsideKeepsOthers
<1>1. CASE CallRead(h)
  <2>1. pc[h] = "idle" /\ pc'[h] = "read"
    BY <1>1 DEF CallRead, Goto, TypeOK
  <2>2. H!Move(h, {"idle"}, "asked")
    BY <1>0, <2>1, StageMeans, StageMeansNext, ContractMove
  <2>. QED
    BY <1>1, <2>2 DEF CallRead, streamVars, H!Ask, H!ContractNext
<1>2. CASE ReadIsClosed(h) \/ ReadNoStream(h)
  <2>1. pc[h] = "read" /\ pc'[h] = "idle"
    BY <1>2 DEF ReadIsClosed, ReadNoStream, End, Goto, TypeOK
  <2>2. H!Move(h, {"asked"}, "idle")
    BY <1>0, <2>1, StageMeans, StageMeansNext, ContractMove
  <2>3. /\ handleClosed' /\ (handleClosed \/ closed)
        /\ UNCHANGED <<closed, started>> /\ reply' = "error"
    BY <1>2 DEF ReadIsClosed, ReadNoStream, End, streamVars, NilStreamClosed
  <2>. QED
    BY <2>2, <2>3 DEF H!Refuse, H!Answer, H!ContractNext
<1>3. CASE ReadGetBuffer(h) \/ ReadCall(h)
  <2>1. pc[h] \in {"read", "load"} /\ (pc'[h] = "load" \/ (pc'[h] = "reading" /\ phase'[h] = "called"))
    BY <1>3 DEF ReadGetBuffer, ReadCall, Goto, S!ReadCalled, S!Enter, TypeOK
  <2>2. Stages' = Stages
    BY <1>0, <2>1, StageMeans, StageMeansNext, ContractStays
  <2>. QED
    BY <1>3, <2>2 DEF ReadGetBuffer, ReadCall, S!ReadCalled, S!Enter, streamVars, Stages,
       H!contractVars
<1>4. CASE ReadCallNil(h)
  <2>1. pc[h] = "load" /\ pc'[h] = "idle"
    BY <1>4 DEF ReadCallNil, EndAndPut, Goto, TypeOK
  <2>2. H!Move(h, {"asked", "served", "failing", "ending"}, "idle")
    BY <1>0, <2>1, StageMeans, StageMeansNext, ContractMove
  <2>. QED
    BY <1>4, <2>2 DEF ReadCallNil, EndAndPut, streamVars, NilStreamClosed, H!Panic,
       H!Answer, H!ContractNext
<1>5. CASE ReadAdmitted(h)
  <2>1. /\ pc[h] = "reading" /\ phase[h] = "called"
        /\ pc'[h] = "reading" /\ phase'[h] = "admitted"
    BY <1>5 DEF ReadAdmitted, S!Admit, TypeOK
  <2>2. H!Move(h, {"asked"}, "served")
    BY <1>0, <2>1, StageMeans, StageMeansNext, ContractMove
  <2>. QED
    BY <1>5, <2>2 DEF ReadAdmitted, S!Admit, H!Serve, H!ContractNext
<1>6. CASE ReadReturns(h)
  <2>1. pc[h] = "reading" /\ phase[h] = "admitted" /\ pc'[h] = "reply"
    BY <1>6 DEF ReadReturns, Goto, S!ReadEnds, S!Ends, TypeOK
  <2>2. Stages' = Stages
    BY <1>0, <2>1, StageMeans, StageMeansNext, ContractStays
  <2>. QED
    BY <1>6, <2>2 DEF ReadReturns, S!ReadEnds, S!Ends, Stages, H!contractVars
<1>7. CASE ReadFails(h)
  <2>1. /\ pc[h] = "reading" /\ pc'[h] = "failed"
        /\ phase[h] = "admitted" \/ (phase[h] # "admitted" /\ closed)
    BY <1>7 DEF ReadFails, Goto, S!Refuse, S!ReadEnds, S!Ends, TypeOK
  <2>2. H!Move(h, {"served"}, "failing") \/ (closed /\ H!Move(h, {"asked"}, "failing"))
    BY <1>0, <2>1, StageMeans, StageMeansNext, ContractMove
  <2>3. UNCHANGED <<handleClosed, closed, started, reply>>
    BY <1>7 DEF ReadFails, S!Refuse, S!ReadEnds, S!Ends
  <2>. QED
    BY <2>2, <2>3 DEF H!Fail, H!ContractNext
<1>8. CASE ReadPanics(h)
  <2>1. pc[h] = "reading" /\ phase[h] = "admitted" /\ pc'[h] = "idle"
    BY <1>8 DEF ReadPanics, EndAndPut, Goto, S!ReadPanics, S!Ends, TypeOK
  <2>2. /\ H!Move(h, {"asked", "served", "failing", "ending"}, "idle")
        /\ H!Move(h, {"served"}, "idle")
    BY <1>0, <2>1, StageMeans, StageMeansNext, ContractMove
  <2>. QED
    BY <1>8, <2>2 DEF ReadPanics, EndAndPut, S!ReadPanics, S!Ends, H!Panic, H!Answer,
       H!ContractNext
<1>9. CASE FailedCall(h)
  <2>1. pc[h] = "failed" /\ pc'[h] = "failedClose"
    BY <1>9 DEF FailedCall, Goto, TypeOK
  <2>2. Stages' = Stages
    BY <1>0, <2>1, StageMeans, StageMeansNext, ContractStays
  <2>. QED
    BY <1>9, <2>2 DEF FailedCall, S!CloseCalled, S!Enter, Stages, H!contractVars
<1>10. CASE FailedDrop(h)
  <2>1. pc[h] = "failedClose" /\ pc'[h] = "idle"
    BY <1>10 DEF FailedDrop, EndAndPut, Goto, TypeOK
  <2>2. H!Move(h, {"failing"}, "idle")
    BY <1>0, <2>1, StageMeans, StageMeansNext, ContractMove
  <2>. QED
    BY <1>10, <2>2 DEF FailedDrop, EndAndPut, S!CloseEnds, S!Ends, H!FailureEnds,
       H!Answer, H!ContractNext
<1>11. CASE FailedCallNil(h) \/ FailedPanics(h)
  <2>1. pc[h] \in {"failed", "failedClose"} /\ pc'[h] = "idle"
    BY <1>11 DEF FailedCallNil, FailedPanics, EndAndPut, Goto, TypeOK
  <2>2. H!Move(h, {"asked", "served", "failing", "ending"}, "idle")
    BY <1>0, <2>1, StageMeans, StageMeansNext, ContractMove
  <2>3. closed /\ UNCHANGED <<closed, started, handleClosed>> /\ reply' = "panic"
    BY <1>11 DEF FailedCallNil, FailedPanics, EndAndPut, S!CloseEnds, S!Ends,
       NilStreamClosed, streamVars
  <2>. QED
    BY <2>2, <2>3 DEF H!Panic, H!Answer, H!ContractNext
<1>12. CASE Respond(h)
  <2>1. pc[h] = "reply" /\ pc'[h] = "idle"
    BY <1>12 DEF Respond, Goto, TypeOK
  <2>2. H!Move(h, {"served"}, "idle")
    BY <1>0, <2>1, StageMeans, StageMeansNext, ContractMove
  <2>. QED
    BY <1>12, <2>1, <2>2 DEF Respond, StartedFirst, streamVars, H!Deliver, H!Answer, H!ContractNext
<1>. QED
  BY <1>1, <1>2, <1>3, <1>4, <1>5, <1>6, <1>7, <1>8, <1>9, <1>10, <1>11, <1>12 DEF ReadStep

\* The steps of a Close, one by one.
LEMMA CloseImplements ==
  ASSUME HandleInv, HandleInv', NEW h \in Handlers, CallClose(h) \/ CloseStep(h)
  PROVE  H!ContractNext \/ UNCHANGED H!contractVars
<1>. USE DEF HandleInv
<1>0. \A g \in Handlers \ {h} : pc'[g] = pc[g] /\ phase'[g] = phase[g]
  BY OutsideKeepsOthers
<1>1. CASE CallClose(h)
  <2>1. pc[h] = "idle" /\ pc'[h] = "close"
    BY <1>1 DEF CallClose, Goto, TypeOK
  <2>2. H!Move(h, {"idle"}, "closing")
    BY <1>0, <2>1, StageMeans, StageMeansNext, ContractMove
  <2>. QED
    BY <1>1, <2>2 DEF CallClose, streamVars, H!AskClose, H!ContractNext
<1>2. CASE CloseAgain(h)
  <2>1. pc[h] = "close" /\ pc'[h] = "idle"
    BY <1>2 DEF CloseAgain, End, Goto, TypeOK
  <2>2. H!Move(h, {"closing"}, "idle")
    BY <1>0, <2>1, StageMeans, StageMeansNext, ContractMove
  <2>. QED
    BY <1>2, <2>2 DEF CloseAgain, End, streamVars, H!CloseAgain, H!Answer, H!ContractNext
<1>3. CASE CloseCAS(h)
  <2>1. pc[h] = "close" /\ pc'[h] = "closeCheck"
    BY <1>3 DEF CloseCAS, Goto, TypeOK
  <2>2. H!Move(h, {"closing"}, "ending")
    BY <1>0, <2>1, StageMeans, StageMeansNext, ContractMove
  <2>. QED
    BY <1>3, <2>2 DEF CloseCAS, streamVars, H!Shut, H!ContractNext
<1>4. CASE CloseHasStream(h) \/ CloseCall(h)
  <2>1. pc[h] \in {"closeCheck", "closeLoad"} /\ pc'[h] \in {"closeLoad", "closing"}
    BY <1>4 DEF CloseHasStream, CloseCall, Goto, TypeOK
  <2>2. Stages' = Stages
    BY <1>0, <2>1, StageMeans, StageMeansNext, ContractStays
  <2>. QED
    BY <1>4, <2>2 DEF CloseHasStream, CloseCall, S!CloseCalled, S!Enter, streamVars,
       Stages, H!contractVars
<1>5. CASE StreamCloses(h)
  <2>1. pc[h] \in {"failedClose", "closing"} /\ pc'[h] = pc[h]
    BY <1>5 DEF StreamCloses, S!CloseBegins, PhasesMatch
  <2>2. Stages' = Stages /\ StageOf(h) \in {"ending", "failing"}
    BY <1>0, <2>1, StageMeans, StageMeansNext, ContractStays
  <2>3. Stages[h] = StageOf(h)
    BY DEF Stages
  <2>. QED
    BY <1>5, <2>2, <2>3 DEF StreamCloses, S!CloseBegins, Stages, H!Over, H!ContractNext
<1>6. CASE CloseNoStream(h) \/ CloseReturns(h) \/ CloseCallNil(h)
  <2>1. pc[h] \in {"closeCheck", "closeLoad", "closing"} /\ pc'[h] = "idle"
    BY <1>6 DEF CloseNoStream, CloseReturns, CloseCallNil, End, Goto, TypeOK
  <2>2. /\ H!Move(h, {"ending"}, "idle")
        /\ H!Move(h, {"asked", "served", "failing", "ending"}, "idle")
    BY <1>0, <2>1, StageMeans, StageMeansNext, ContractMove
  <2>3. closed /\ UNCHANGED <<closed, started, handleClosed>> /\ reply' \in {"closed", "panic"}
    BY <1>6 DEF CloseNoStream, CloseReturns, CloseCallNil, End, S!CloseEnds, S!Ends,
       NilStreamClosed, streamVars
  <2>. QED
    BY <2>2, <2>3 DEF H!CloseEnds, H!Panic, H!Answer, H!ContractNext
<1>. QED
  BY <1>1, <1>2, <1>3, <1>4, <1>5, <1>6 DEF CloseStep

\* The first download starts in a read that is served.
LEMMA StartImplements ==
  ASSUME HandleInv, HandleInv', StreamStarts
  PROVE  H!Start
<1>1. /\ UNCHANGED <<pc, phase, closed, handleClosed, reply>>
      /\ ~started /\ started' = TRUE
  BY StartOnly DEF HandleInv, TypeOK
<1>2. PICK h \in Handlers : phase[h] = "admitted"
  BY StartOnly DEF HandleInv
<1>3. Stages[h] = "served"
  BY <1>2, StageMeans DEF HandleInv, PhasesMatch, Stages
<1>4. Stages' = Stages
  BY <1>1 DEF Stages, StageOf
<1>. QED
  BY <1>1, <1>3, <1>4 DEF H!Start, Stages

\* Every step of the handle is a step of its contract or none: data only for
\* a read served before the stream was closed, an error only from a handle
\* that is finished, and a Close that returns when the stream is closed.
THEOREM HandleImplementsContract == Spec => ImplementsHandleContract
<1>1. Init => H!ContractInit
  BY DEF Init, S!ContractInit, StageOf, H!ContractInit
<1>2. HandleInv /\ HandleInv' /\ [Next]_vars => [H!ContractNext]_(H!contractVars)
  <2>. SUFFICES ASSUME HandleInv, HandleInv', [Next]_vars
                PROVE  H!ContractNext \/ UNCHANGED H!contractVars
    OBVIOUS
  <2>1. CASE UNCHANGED vars
    BY <2>1 DEF vars, streamVars, StageOf, H!contractVars
  <2>2. CASE Next
    BY <2>2, ReadImplements, CloseImplements, StartImplements DEF Next, H!ContractNext
  <2>. QED
    BY <2>1, <2>2
<1>. QED
  BY <1>1, <1>2, Inductive, PTL DEF Spec, ImplementsHandleContract, H!ContractSpec

=============================================================================
