---------------------------- MODULE StreamProofs ----------------------------
(***************************************************************************)
(* Proofs about Stream, for every file size, window, number of callers and *)
(* of transfers, and whatever the ring buffer answers beyond an EOF marker.*)
(***************************************************************************)
EXTENDS StreamProps, FiniteSetTheorems, TLAPS

USE DEF Transfers

-----------------------------------------------------------------------------
(* The arithmetic. *)

\* A download starts inside the file and not after the position read.
LEMMA StartInFile ==
  ASSUME NEW seek \in 0..Size-1
  PROVE  /\ streamStartPosition(seek) \in 0..Size-1
         /\ streamStartPosition(seek) <= seek
  BY SizingAssumption
     DEF streamStartPosition, calculatePreloadSize, calculateBufferSize,
         BufferSize, Lesser, Greater

\* A window that has just been reset is empty.
LEMMA EmptyRange == \A n \in Int : n..n-1 = {}
  OBVIOUS

\* Updating one value of a function keeps its type.
LEMMA ExceptType ==
  ASSUME NEW S, NEW T, NEW f \in [S -> T], NEW x, NEW v \in T
  PROVE  [f EXCEPT ![x] = v] \in [S -> T]
  OBVIOUS

\* A small read can be served from the window a download for it fills: the
\* arithmetic behind WaitFitsWindow.
THEOREM RequestFitsWindow ==
  ASSUME NEW seek \in 0..Size-1, NEW len \in Nat, SmallRead(len)
  PROVE  LET wanted == requestedPosition(seek, len)
             first == streamStartPosition(seek)
         IN  \/ wanted < first + BufferSize
             \/ wanted = Size /\ Size <= first + BufferSize
  BY SizingAssumption
     DEF requestedPosition, streamStartPosition, calculatePreloadSize,
         calculateBufferSize, BufferSize, Lesser, Greater, SmallRead

-----------------------------------------------------------------------------
(* Types. *)

LEMMA InitTypeOK == Init => TypeOK
<1>. SUFFICES ASSUME Init PROVE TypeOK
  OBVIOUS
<1>1. BufOK
  <2>1. base..top-1 = {}
    BY DEF Init, BufInit
  <2>2. data \in [base..top-1 -> 0..Size-1]
    <3>1. data = [p \in {} |-> 0]
      BY DEF Init, BufInit
    <3>. QED
      BY <2>1, <3>1, Zenon
  <2>3. base \in 0..Size /\ top \in Nat /\ readPos \in Nat
    BY SizingAssumption DEF Init, BufInit
  <2>4. eof \in BOOLEAN /\ bufClosed \in BOOLEAN
    BY Zenon DEF Init, BufInit
  <2>. QED
    BY <2>2, <2>3, <2>4, Zenon DEF BufOK
<1>2. ConnOK
  BY SizingAssumption, SMT DEF Init, ConnInit, ConnOK
<1>3. TransferOK
  <2>1. held \in [Transfers -> 0..Size-1]
    BY SizingAssumption, SMT DEF Init, TransferInit
  <2>2. made \in Nat /\ epoch \in Nat
    BY DEF Init, TransferInit
  <2>3. /\ start \in [Transfers -> StartStates]
        /\ copy \in [Transfers -> CopyStates]
        /\ crashed \in CrashCauses
    BY DEF Init, TransferInit, StartStates, CopyStates, CrashCauses
  <2>4. /\ tClosed \in [Transfers -> BOOLEAN]
        /\ tCancelled \in [Transfers -> BOOLEAN]
        /\ tConn \in [Transfers -> BOOLEAN]
        /\ tBuffer \in [Transfers -> BOOLEAN]
    BY SMT DEF Init, TransferInit
  <2>5. pooled \in BOOLEAN /\ stale \in BOOLEAN
    BY Zenon DEF Init, TransferInit
  <2>6. marker \in Nat /\ outlived \subseteq Nat
    BY DEF Init, TransferInit
  <2>. QED
    BY <2>1, <2>2, <2>3, <2>4, <2>5, <2>6, Zenon DEF TransferOK
<1>4. StreamOK
  BY DEF Init, StreamInit, StreamOK
<1>5. CallerOK
  BY TransfersAssumption
     DEF Init, StreamInit, CallerOK, CallerPCs, Answers
<1>. QED
  BY <1>1, <1>2, <1>3, <1>4, <1>5 DEF TypeOK

\* The step functions of the caller module keep the types.
LEMMA GotoType ==
  ASSUME TypeOK, NEW a \in Callers, NEW from, NEW to \in CallerPCs,
         Goto(a, from, to)
  PROVE  CallerOK'
  BY DEF Goto, TypeOK, CallerOK

LEMMA PassType ==
  ASSUME TypeOK, NEW a \in Callers, NEW from, NEW to \in CallerPCs,
         Pass(a, from, to)
  PROVE  TypeOK'
<1>1. CallerOK'
  BY GotoType DEF Pass
<1>. QED
  BY <1>1 DEF Pass, TypeOK, BufOK, ConnOK, TransferOK, StreamOK,
     streamVars, transferVars, goVars, ownVars, histVars, connVars, bufVars

LEMMA ReturnType ==
  ASSUME TypeOK, NEW a \in Callers, NEW from, NEW how \in Answers,
         Return(a, from, how), transfer' \in Nat, BufOK'
  PROVE  TypeOK'
<1>1. CallerOK' /\ StreamOK'
  BY DEF Return, TypeOK, CallerOK, CallerPCs, StreamOK
<1>. QED
  BY <1>1 DEF Return, TypeOK, ConnOK, TransferOK,
     transferVars, goVars, ownVars, histVars, connVars

LEMMA LeaveType ==
  ASSUME TypeOK, NEW a \in Callers, NEW from, NEW how \in Answers,
         Leave(a, from, how)
  PROVE  TypeOK'
<1>1. BufOK' /\ transfer' \in Nat
  BY DEF Leave, TypeOK, BufOK, StreamOK, bufVars
<1>. QED
  BY <1>1, ReturnType DEF Leave

LEMMA ConnCloseType ==
  ASSUME ConnOK, NEW t, ConnClose(t)
  PROVE  ConnOK'
<1>1. connClosed' \in [Transfers -> BOOLEAN]
  BY ExceptType, Zenon DEF ConnClose, ConnOK
<1>2. body' \in [Transfers -> BOOLEAN]
  <2>1. (body[t] /\ connClosed[t]) \in BOOLEAN
    BY Zenon
  <2>. QED
    BY <2>1, ExceptType, Zenon DEF ConnClose, ConnOK
<1>. QED
  BY <1>1, <1>2, Zenon DEF ConnClose, ConnOK

LEMMA CallTypeOK ==
  ASSUME TypeOK, NEW a \in Callers, CallReadAt(a) \/ CallClose(a)
  PROVE  TypeOK'
<1>1. BufOK' /\ ConnOK' /\ TransferOK' /\ StreamOK'
  BY DEF CallReadAt, CallClose, Call, TypeOK, BufOK, ConnOK, TransferOK,
     StreamOK, streamVars, transferVars, goVars, ownVars, histVars, connVars,
     bufVars
<1>2. CallerOK'
  BY TransfersAssumption
     DEF CallReadAt, CallClose, Call, TypeOK, CallerOK, CallerPCs, ReadPCs,
         ClosePCs
<1>. QED
  BY <1>1, <1>2 DEF TypeOK

LEMMA ReadTypeOK ==
  ASSUME TypeOK, NEW a \in Callers, ReadStep(a)
  PROVE  TypeOK'
<1>. USE DEF CallerPCs, ReadPCs, Answers
<1>1. CASE ReadLock(a)
  <2>1. CallerOK'
    BY <1>1, GotoType DEF ReadLock
  <2>. QED
    BY <1>1, <2>1 DEF ReadLock, TypeOK, BufOK, ConnOK, TransferOK, StreamOK,
       transferVars, goVars, ownVars, histVars, connVars, bufVars
<1>2. CASE ReadIsClosed(a) \/ ReadWaitFails(a) \/ ReadCopyFails(a)
  BY <1>2, LeaveType DEF ReadIsClosed, ReadWaitFails, ReadCopyFails
<1>3. CASE ReadSeek(a) \/ ReadWant(a) \/ ReadWaitOk(a) \/ ReadWaitClosed(a)
  BY <1>3, PassType DEF ReadSeek, ReadWant, ReadWaitOk, ReadWaitClosed
<1>4. CASE ReadCopy(a)
  <2>1. AnswerOf(a) \in Answers
    BY DEF AnswerOf
  <2>2. Seek(a) \in Nat /\ req[a][2] \in Nat
    BY <1>4, RequestsAssumption, SizingAssumption
       DEF TypeOK, CallerOK, NoRequest, Seek
  <2>3. BufOK'
    BY <1>4, <2>2
       DEF ReadCopy, BufReadAt, ReadEnd, Lesser, Greater, TypeOK, BufOK
  <2>4. transfer' \in Nat
    BY <1>4 DEF ReadCopy, TypeOK, StreamOK
  <2>. QED
    BY <1>4, <2>1, <2>3, <2>4, ReturnType DEF ReadCopy
<1>5. CASE ReadNilBuffer(a)
  BY <1>5, LeaveType DEF ReadNilBuffer
<1>. QED
  BY <1>1, <1>2, <1>3, <1>4, <1>5 DEF ReadStep

LEMMA NewTypeOK ==
  ASSUME TypeOK, NEW a \in Callers, NewStep(a)
  PROVE  TypeOK'
<1>. USE DEF CallerPCs, ReadPCs, TransferClosePCs, Answers
<1>1. CASE NewIsClosed(a) \/ NewSpawnFails(a) \/ CloseOldNil(a, "newOld")
  BY <1>1, LeaveType DEF NewIsClosed, NewSpawnFails, CloseOldNil
<1>2. CASE NewIsOpen(a)
  BY <1>2, PassType DEF NewIsOpen
<1>3. CASE CloseOld(a, "newOld")
  <2>1. CallerOK'
    BY <1>3 DEF CloseOld, TypeOK, StreamOK, CallerOK
  <2>. QED
    BY <1>3, <2>1 DEF CloseOld, TypeOK, BufOK, ConnOK, TransferOK, StreamOK,
       streamVars, transferVars, goVars, ownVars, histVars, connVars, bufVars
<1>4. CASE NewDrop(a)
  <2>1. CallerOK'
    BY <1>4, GotoType DEF NewDrop
  <2>. QED
    BY <1>4, <2>1 DEF NewDrop, TypeOK, BufOK, ConnOK, TransferOK, StreamOK,
       transferVars, goVars, ownVars, histVars, connVars, bufVars
<1>5. CASE NewReset(a)
  <2>1. CallerOK'
    BY <1>5, GotoType DEF NewReset
  <2>2. streamStartPosition(Seek(a)) \in 0..Size-1
    BY StartInFile, RequestsAssumption, SizingAssumption
       DEF TypeOK, CallerOK, NoRequest, Seek
  <2>3. BufOK'
    <3>1. data' \in [base'..top'-1 -> 0..Size-1]
      <4>. DEFINE first == streamStartPosition(Seek(a))
      <4>1. base' = first /\ top' = first /\ data' = [p \in {} |-> 0]
        BY <1>5, Zenon DEF NewReset, ResetToPosition
      <4>2. first \in Int
        BY <2>2
      <4>. HIDE DEF first
      <4>3. first..first-1 = {}
        BY <4>2, EmptyRange
      <4>. QED
        BY <4>1, <4>3, Zenon
    <3>2. base' \in 0..Size /\ top' \in Nat /\ readPos' \in Nat
      BY <1>5, <2>2, SizingAssumption DEF NewReset, ResetToPosition
    <3>3. eof' \in BOOLEAN /\ bufClosed' \in BOOLEAN
      BY <1>5, Zenon DEF NewReset, ResetToPosition, TypeOK, BufOK
    <3>. QED
      BY <3>1, <3>2, <3>3, Zenon DEF BufOK
  <2>4. ConnOK'
    <3>1. offset' \in [Transfers -> 0..Size]
      <4>1. streamStartPosition(Seek(a)) \in 0..Size
        BY <2>2, SizingAssumption
      <4>. QED
        BY <1>5, <4>1, ExceptType, Zenon
           DEF NewReset, NewConnection, TypeOK, ConnOK
    <3>. QED
      BY <1>5, <3>1, Zenon DEF NewReset, NewConnection, TypeOK, ConnOK
  <2>5. TransferOK'
    <3>1. epoch' \in Nat /\ marker' \in Nat
      BY <1>5 DEF NewReset, TypeOK, TransferOK
    <3>2. stale' \in BOOLEAN
      BY <1>5, Zenon DEF NewReset
    <3>. QED
      BY <1>5, <3>1, <3>2, Zenon
         DEF NewReset, TypeOK, TransferOK, goVars, ownVars
  <2>6. StreamOK'
    BY <1>5 DEF NewReset, TypeOK, StreamOK, streamVars
  <2>. QED
    BY <2>1, <2>3, <2>4, <2>5, <2>6 DEF TypeOK
<1>6. CASE NewSpawn(a)
  <2>1. CallerOK'
    BY <1>6, GotoType DEF NewSpawn
  <2>2. TransferOK'
    <3>1. made' \in Nat
      BY <1>6 DEF NewSpawn, NewTransfer, TypeOK, TransferOK
    <3>2. /\ start' \in [Transfers -> StartStates]
          /\ tConn' \in [Transfers -> BOOLEAN]
          /\ tBuffer' \in [Transfers -> BOOLEAN]
      BY <1>6, ExceptType, Zenon
         DEF NewSpawn, NewTransfer, TypeOK, TransferOK, StreamOK, StartStates
    <3>. QED
      BY <1>6, <3>1, <3>2, Zenon
         DEF NewSpawn, NewTransfer, TypeOK, TransferOK, histVars
  <2>. QED
    BY <1>6, <2>1, <2>2 DEF NewSpawn, TypeOK, BufOK, ConnOK, StreamOK,
       streamVars, connVars, bufVars
<1>7. CASE NewInstall(a)
  <2>1. CallerOK'
    BY <1>7, GotoType DEF NewInstall
  <2>. QED
    BY <1>7, <2>1 DEF NewInstall, TypeOK, BufOK, ConnOK, TransferOK, StreamOK,
       transferVars, goVars, ownVars, histVars, connVars, bufVars
<1>. QED
  BY <1>1, <1>2, <1>3, <1>4, <1>5, <1>6, <1>7 DEF NewStep

LEMMA CloseTypeOK ==
  ASSUME TypeOK, NEW a \in Callers, CloseStep(a)
  PROVE  TypeOK'
<1>. USE DEF CallerPCs, ClosePCs, TransferClosePCs, Answers
<1>1. CASE CloseAgain(a) \/ CloseNoOld(a) \/ CloseOldNil(a, "oldClose")
  BY <1>1, LeaveType DEF CloseAgain, CloseNoOld, CloseOldNil
<1>2. CASE CloseHasOld(a)
  BY <1>2, PassType DEF CloseHasOld
<1>3. CASE CloseCAS(a) \/ CloseBufferNil(a)
  <2>1. CallerOK'
    BY <1>3, GotoType DEF CloseCAS, CloseBufferNil
  <2>. QED
    BY <1>3, <2>1, Zenon DEF CloseCAS, CloseBufferNil, TypeOK, BufOK, ConnOK,
       TransferOK, StreamOK, transferVars, goVars, ownVars, histVars,
       connVars, bufVars
<1>4. CASE CloseBuffer(a)
  <2>1. CallerOK'
    BY <1>4, GotoType DEF CloseBuffer
  <2>2. BufOK'
    BY <1>4, Zenon DEF CloseBuffer, BufClose, TypeOK, BufOK
  <2>. QED
    BY <1>4, <2>1, <2>2 DEF CloseBuffer, TypeOK, ConnOK, TransferOK, StreamOK,
       streamVars, transferVars, goVars, ownVars, histVars, connVars
<1>5. CASE CloseBufferFails(a)
  <2>1. BufOK' /\ transfer' \in Nat
    BY <1>5, Zenon
       DEF CloseBufferFails, BufClose, TypeOK, BufOK, StreamOK, bufVars
  <2>. QED
    BY <1>5, <2>1, ReturnType DEF CloseBufferFails
<1>6. CASE CloseOld(a, "oldClose")
  <2>1. CallerOK'
    BY <1>6 DEF CloseOld, TypeOK, StreamOK, CallerOK
  <2>. QED
    BY <1>6, <2>1 DEF CloseOld, TypeOK, BufOK, ConnOK, TransferOK, StreamOK,
       streamVars, transferVars, goVars, ownVars, histVars, connVars, bufVars
<1>7. CASE CloseClear(a)
  <2>1. BufOK' /\ transfer' \in Nat
    BY <1>7 DEF CloseClear, TypeOK, BufOK, bufVars
  <2>. QED
    BY <1>7, <2>1, ReturnType DEF CloseClear
<1>. QED
  BY <1>1, <1>2, <1>3, <1>4, <1>5, <1>6, <1>7 DEF CloseStep

LEMMA TransferCloseTypeOK ==
  ASSUME TypeOK, NEW a \in Callers, TransferCloseStep(a)
  PROVE  TypeOK'
<1>. USE DEF CallerPCs, ReadPCs, ClosePCs, TransferClosePCs
<1>1. CASE TransferCloseCAS(a) \/ TransferCloseCancel(a)
  <2>1. CallerOK'
    BY <1>1, GotoType DEF TransferCloseCAS, TransferCloseCancel
  <2>2. TransferOK'
    BY <1>1, ExceptType, Zenon DEF TransferCloseCAS, TransferCloseCancel,
       TransferCAS, TransferCancel, TypeOK, TransferOK, goVars, histVars
  <2>. QED
    BY <1>1, <2>1, <2>2 DEF TransferCloseCAS, TransferCloseCancel, TypeOK,
       BufOK, ConnOK, StreamOK, streamVars, connVars, bufVars
<1>2. CASE TransferCloseAgain(a) \/ TransferCloseWait(a)
  <2>1. TransferCloseReturn(a, pc[a])
    BY <1>2 DEF TransferCloseAgain, TransferCloseWait, TransferCloseReturn
  <2>2. CallerOK'
    BY <2>1 DEF TransferCloseReturn, TypeOK, CallerOK
  <2>3. /\ UNCHANGED <<epoch, stale, marker>>
        /\ outlived' \in {outlived, outlived \cup {target[a]}}
    BY <1>2 DEF TransferCloseAgain, TransferCloseWait, histVars
  <2>4. outlived' \subseteq Nat
    BY <2>3 DEF TypeOK, TransferOK, CallerOK
  <2>. QED
    BY <2>1, <2>2, <2>3, <2>4 DEF TransferCloseReturn,
       TypeOK, BufOK, ConnOK, TransferOK, StreamOK,
       streamVars, goVars, ownVars, connVars, bufVars
<1>3. CASE TransferCloseConn(a)
  <2>1. CallerOK'
    BY <1>3, GotoType DEF TransferCloseConn
  <2>2. ConnOK'
    BY <1>3, ConnCloseType DEF TransferCloseConn, TypeOK
  <2>. QED
    BY <1>3, <2>1, <2>2 DEF TransferCloseConn, TypeOK, BufOK, TransferOK,
       StreamOK, streamVars, transferVars, goVars, ownVars, histVars, bufVars
<1>. QED
  BY <1>1, <1>2, <1>3 DEF TransferCloseStep

LEMMA StartTypeOK ==
  ASSUME TypeOK, NEW t \in Transfers, StartStep(t),
         UNCHANGED <<streamVars, callerVars>>
  PROVE  TypeOK'
<1>. USE DEF StartStates, CopyStates, CrashCauses
<1>1. StreamOK' /\ CallerOK'
  BY DEF TypeOK, StreamOK, CallerOK, streamVars, callerVars
<1>2. CASE StartRun(t) \/ StartDone(t)
  <2>1. TransferOK'
    BY <1>2, ExceptType, Zenon
       DEF StartRun, StartDone, TypeOK, TransferOK, ownVars, histVars
  <2>. QED
    BY <1>1, <1>2, <2>1
       DEF StartRun, StartDone, TypeOK, BufOK, ConnOK, connVars, bufVars
<1>3. CASE StartCancelled(t)
  <2>1. TransferOK'
    BY <1>3, ExceptType, Zenon
       DEF StartCancelled, TypeOK, TransferOK, histVars
  <2>2. ConnOK'
    BY <1>3, ConnCloseType DEF StartCancelled, TypeOK
  <2>. QED
    BY <1>1, <1>3, <2>1, <2>2 DEF StartCancelled, TypeOK, BufOK, bufVars
<1>4. CASE StartMark(t)
  <2>3. marker' \in Nat
    BY <1>4, TransfersAssumption DEF StartMark, TypeOK, TransferOK
  <2>1. TransferOK'
    BY <1>4, <2>3, ExceptType, Zenon
       DEF StartMark, TypeOK, TransferOK, ownVars
  <2>2. BufOK'
    <3>1. (eof \/ ~bufClosed) \in BOOLEAN
      BY Zenon
    <3>. QED
      BY <1>4, <3>1, Zenon DEF StartMark, WriteEOFMarker, TypeOK, BufOK
  <2>. QED
    BY <1>1, <1>4, <2>1, <2>2 DEF StartMark, TypeOK, ConnOK, connVars
<1>5. CASE StartMarkNil(t)
  BY <1>1, <1>5 DEF StartMarkNil, TypeOK, TransferOK, BufOK, ConnOK,
     ownVars, histVars, connVars, bufVars
<1>. QED
  BY <1>2, <1>3, <1>4, <1>5 DEF StartStep

LEMMA CopyTypeOK ==
  ASSUME TypeOK, NEW t \in Transfers, CopyStep(t),
         UNCHANGED <<streamVars, callerVars>>
  PROVE  TypeOK'
<1>. USE DEF CopyStates, CrashCauses
<1>1. StreamOK' /\ CallerOK'
  BY DEF TypeOK, StreamOK, CallerOK, streamVars, callerVars
<1>2. CASE \/ CopyGetPointer(t) \/ CopyReadNil(t) \/ CopyWriteNil(t)
  BY <1>1, <1>2 DEF CopyGetPointer, CopyReadNil, CopyWriteNil, CopyCrash,
     TypeOK, TransferOK, BufOK, ConnOK, ownVars, histVars, connVars, bufVars
<1>3. CASE \/ CopyCancelled(t) \/ CopyRequestFails(t)
           \/ CopyBodyEnds(t) \/ CopyWriteClosed(t)
  <2>1. TransferOK'
    BY <1>3, ExceptType, Zenon
       DEF CopyCancelled, CopyRequestFails, CopyBodyEnds, CopyWriteClosed,
           CopyEnd, TypeOK, TransferOK, ownVars, histVars
  <2>. QED
    BY <1>1, <1>3, <2>1
       DEF CopyCancelled, CopyRequestFails, CopyBodyEnds, CopyWriteClosed,
           TypeOK, BufOK, ConnOK, connVars, bufVars
<1>4. CASE \/ CopyGet(t) \/ CopyContinue(t) \/ CopyRead(t) \/ CopyRecheck(t)
  <2>1. PICK to \in CopyStates :
          CopyGoto(t, copy[t], to) /\ UNCHANGED held
    BY <1>4 DEF CopyGet, CopyContinue, CopyRead, CopyRecheck, CopyGoto
  <2>2. TransferOK'
    BY <1>4, <2>1, ExceptType, Zenon
       DEF CopyGet, CopyContinue, CopyRead, CopyRecheck, CopyGoto,
           TypeOK, TransferOK, ownVars, histVars
  <2>. QED
    BY <1>1, <1>4, <2>2 DEF CopyGet, CopyContinue, CopyRead, CopyRecheck,
       TypeOK, BufOK, ConnOK, connVars, bufVars
<1>5. CASE CopyResponse(t)
  <2>1. TransferOK'
    BY <1>5, ExceptType, Zenon
       DEF CopyResponse, CopyGoto, TypeOK, TransferOK, ownVars, histVars
  <2>2. ConnOK'
    BY <1>5, ExceptType, Zenon DEF CopyResponse, ConnOpenBody, TypeOK, ConnOK
  <2>. QED
    BY <1>1, <1>5, <2>1, <2>2 DEF CopyResponse, TypeOK, BufOK, bufVars
<1>6. CASE CopyReceive(t)
  <2>1. offset[t] \in 0..Size-1 /\ offset[t] + 1 \in 0..Size
    BY <1>6, SizingAssumption DEF CopyReceive, TypeOK, ConnOK
  <2>2. TransferOK'
    BY <1>6, <2>1, ExceptType, Zenon
       DEF CopyReceive, CopyGoto, TypeOK, TransferOK, ownVars, histVars
  <2>3. ConnOK'
    BY <1>6, <2>1, ExceptType, Zenon
       DEF CopyReceive, ConnDeliver, TypeOK, ConnOK
  <2>. QED
    BY <1>1, <1>6, <2>2, <2>3 DEF CopyReceive, TypeOK, BufOK, bufVars
<1>7. CASE CopyWrite(t)
  <2>1. held[t] \in 0..Size-1
    BY DEF TypeOK, TransferOK
  <2>2. BufOK'
    BY <1>7, <2>1 DEF CopyWrite, BufWrite, TypeOK, BufOK
  <2>3. (stale \/ t # epoch) \in BOOLEAN
    BY Zenon
  <2>4. TransferOK'
    BY <1>7, <2>3, ExceptType, Zenon
       DEF CopyWrite, CopyGoto, CopyEnd, TypeOK, TransferOK, ownVars
  <2>. QED
    BY <1>1, <1>7, <2>2, <2>4 DEF CopyWrite, TypeOK, ConnOK, connVars
<1>. QED
  BY <1>2, <1>3, <1>4, <1>5, <1>6, <1>7 DEF CopyStep

\* Every variable keeps its type, for every instance of the constants.
THEOREM Typing == Spec => []TypeOK
<1>1. TypeOK /\ [Next]_vars => TypeOK'
  <2>. SUFFICES ASSUME TypeOK, [Next]_vars PROVE TypeOK'
    OBVIOUS
  <2>1. CASE UNCHANGED vars
    BY <2>1 DEF vars, TypeOK, BufOK, ConnOK, TransferOK, StreamOK, CallerOK,
       streamVars, callerVars, transferVars, goVars, ownVars, histVars,
       connVars, bufVars
  <2>2. CASE \E a \in Callers : CallReadAt(a) \/ CallClose(a) \/ CallerStep(a)
    BY <2>2, CallTypeOK, ReadTypeOK, NewTypeOK, CloseTypeOK,
       TransferCloseTypeOK DEF CallerStep
  <2>3. CASE \E t \in Transfers : TransferStep(t)
    BY <2>3, StartTypeOK, CopyTypeOK DEF TransferStep
  <2>. QED
    BY <2>1, <2>2, <2>3 DEF Next, Rest
<1>. QED
  BY <1>1, InitTypeOK, PTL DEF Spec

\* A step of one caller leaves the control state of the others alone.
LEMMA OwnStep ==
  ASSUME TypeOK, NEW a \in Callers, NEW b \in Callers, a # b, CallerStep(b)
  PROVE  pc'[a] = pc[a]
BY DEF CallerStep, ReadStep, NewStep, CloseStep, TransferCloseStep,
   ReadLock, ReadIsClosed, ReadSeek, ReadWant, ReadWaitOk, ReadWaitFails,
   ReadWaitClosed, ReadCopy, ReadCopyFails, ReadNilBuffer, NewIsClosed, NewSpawnFails,
   NewIsOpen, NewDrop, NewReset, NewSpawn, NewInstall, CloseOld, CloseOldNil,
   CloseAgain, CloseCAS, CloseBuffer, CloseBufferFails, CloseBufferNil,
   CloseNoOld, CloseHasOld, CloseClear, TransferCloseCAS, TransferCloseAgain,
   TransferCloseConn, TransferCloseCancel, TransferCloseWait,
   TransferCloseReturn, Goto, Pass, Leave, Return, TypeOK, CallerOK

-----------------------------------------------------------------------------
(* The lock. *)

LEMMA LockStep ==
  ASSUME TypeOK, LockInv, NEW a \in Callers,
         CallReadAt(a) \/ CallClose(a) \/ CallerStep(a)
  PROVE  LockInv'
<1>. USE CallersAssumption DEF TypeOK, CallerOK, StreamOK, CallerPCs, ReadPCs,
         ClosePCs, TransferClosePCs, HoldPCs, LockInv, streamVars
<1>1. CASE CallReadAt(a) \/ CallClose(a)
  BY <1>1 DEF CallReadAt, CallClose, Call
<1>2. CASE ReadStep(a)
  <2>1. CASE ReadLock(a)
    BY <2>1 DEF ReadLock, Goto
  <2>2. CASE ReadIsClosed(a) \/ ReadWaitFails(a) \/ ReadCopyFails(a)
             \/ ReadNilBuffer(a) \/ ReadCopy(a)
    BY <2>2 DEF ReadIsClosed, ReadWaitFails, ReadCopyFails, ReadNilBuffer,
       ReadCopy, Leave, Return
  <2>3. CASE ReadSeek(a) \/ ReadWant(a) \/ ReadWaitOk(a) \/ ReadWaitClosed(a)
    BY <2>3 DEF ReadSeek, ReadWant, ReadWaitOk, ReadWaitClosed, Pass, Goto
  <2>. QED
    BY <1>2, <2>1, <2>2, <2>3 DEF ReadStep
<1>3. CASE NewStep(a)
  <2>1. CASE NewIsClosed(a) \/ NewSpawnFails(a) \/ CloseOldNil(a, "newOld")
    BY <2>1 DEF NewIsClosed, NewSpawnFails, CloseOldNil, Leave, Return
  <2>2. CASE NewIsOpen(a)
    BY <2>2 DEF NewIsOpen, Pass, Goto
  <2>3. CASE CloseOld(a, "newOld")
    BY <2>3 DEF CloseOld
  <2>4. CASE NewDrop(a) \/ NewReset(a) \/ NewSpawn(a) \/ NewInstall(a)
    BY <2>4 DEF NewDrop, NewReset, NewSpawn, NewInstall, Goto
  <2>. QED
    BY <1>3, <2>1, <2>2, <2>3, <2>4 DEF NewStep
<1>4. CASE CloseStep(a)
  <2>1. CASE CloseAgain(a) \/ CloseNoOld(a) \/ CloseOldNil(a, "oldClose")
             \/ CloseBufferFails(a) \/ CloseClear(a)
    BY <2>1 DEF CloseAgain, CloseNoOld, CloseOldNil, CloseBufferFails,
       CloseClear, Leave, Return
  <2>2. CASE CloseHasOld(a) \/ CloseCAS(a) \/ CloseBuffer(a) \/ CloseBufferNil(a)
    BY <2>2 DEF CloseHasOld, CloseCAS, CloseBuffer, CloseBufferNil, Pass, Goto
  <2>3. CASE CloseOld(a, "oldClose")
    BY <2>3 DEF CloseOld
  <2>. QED
    BY <1>4, <2>1, <2>2, <2>3 DEF CloseStep
<1>5. CASE TransferCloseStep(a)
  BY <1>5 DEF TransferCloseStep, TransferCloseCAS, TransferCloseAgain,
     TransferCloseConn, TransferCloseCancel, TransferCloseWait,
     TransferCloseReturn, Goto
<1>. QED
  BY <1>1, <1>2, <1>3, <1>4, <1>5 DEF CallerStep

\* Whoever is inside ReadAt holds stream.mu; whoever is past the
\* CompareAndSwap of Close has set closed.
THEOREM Locking == Spec => []LockInv
<1>1. Init => LockInv
  BY CallersAssumption DEF Init, StreamInit, LockInv, HoldPCs, ClosePCs,
     TransferClosePCs
<1>2. TypeOK /\ LockInv /\ [Next]_vars => LockInv'
  <2>. SUFFICES ASSUME TypeOK, LockInv, [Next]_vars PROVE LockInv'
    OBVIOUS
  <2>1. CASE UNCHANGED <<streamVars, callerVars>>
    BY <2>1 DEF LockInv, streamVars, callerVars
  <2>. QED
    BY <2>1, LockStep DEF Next, Rest, TransferStep, vars
<1>. QED
  BY <1>1, <1>2, Typing, PTL DEF Spec

-----------------------------------------------------------------------------
(* Panics of a caller. *)

LEMMA PanicStep ==
  ASSUME TypeOK, LockInv, PanicInv, NEW a \in Callers,
         CallReadAt(a) \/ CallClose(a) \/ CallerStep(a)
  PROVE  PanicInv'
<1>. USE DEF TypeOK, CallerOK, StreamOK, ClosePCs, HoldPCs, LockInv, PanicInv,
         streamVars
<1>1. CASE CallReadAt(a) \/ CallClose(a)
  BY <1>1 DEF CallReadAt, CallClose, Call
<1>2. CASE ReadStep(a)
  <2>1. CASE ReadLock(a)
    BY <2>1 DEF ReadLock, Goto
  <2>2. CASE ReadIsClosed(a) \/ ReadWaitFails(a) \/ ReadCopyFails(a)
             \/ ReadNilBuffer(a)
    BY <2>2 DEF ReadIsClosed, ReadWaitFails, ReadCopyFails, ReadNilBuffer,
       Leave, Return
  <2>3. CASE ReadCopy(a)
    BY <2>3 DEF ReadCopy, Return, AnswerOf
  <2>4. CASE ReadSeek(a) \/ ReadWant(a) \/ ReadWaitOk(a) \/ ReadWaitClosed(a)
    BY <2>4 DEF ReadSeek, ReadWant, ReadWaitOk, ReadWaitClosed, Pass, Goto
  <2>. QED
    BY <1>2, <2>1, <2>2, <2>3, <2>4 DEF ReadStep
<1>3. CASE NewStep(a)
  <2>1. CASE NewIsClosed(a) \/ NewSpawnFails(a) \/ CloseOldNil(a, "newOld")
    BY <2>1 DEF NewIsClosed, NewSpawnFails, CloseOldNil, Leave, Return
  <2>2. CASE NewIsOpen(a)
    BY <2>2 DEF NewIsOpen, Pass, Goto
  <2>3. CASE CloseOld(a, "newOld")
    BY <2>3 DEF CloseOld
  <2>4. CASE NewDrop(a) \/ NewInstall(a)
    <3>1. \A c \in Callers : pc'[c] # "newOld"
      BY <2>4 DEF NewDrop, NewInstall, Goto
    <3>. QED
      BY <2>4, <3>1 DEF NewDrop, NewInstall, Goto
  <2>5. CASE NewReset(a) \/ NewSpawn(a)
    BY <2>5 DEF NewReset, NewSpawn, Goto
  <2>. QED
    BY <1>3, <2>1, <2>2, <2>3, <2>4, <2>5 DEF NewStep
<1>4. CASE CloseStep(a)
  <2>1. CASE CloseAgain(a) \/ CloseNoOld(a) \/ CloseOldNil(a, "oldClose")
             \/ CloseBufferFails(a) \/ CloseClear(a)
    BY <2>1 DEF CloseAgain, CloseNoOld, CloseOldNil, CloseBufferFails,
       CloseClear, Leave, Return
  <2>2. CASE CloseHasOld(a) \/ CloseCAS(a) \/ CloseBuffer(a) \/ CloseBufferNil(a)
    BY <2>2 DEF CloseHasOld, CloseCAS, CloseBuffer, CloseBufferNil, Pass, Goto
  <2>3. CASE CloseOld(a, "oldClose")
    BY <2>3 DEF CloseOld
  <2>. QED
    BY <1>4, <2>1, <2>2, <2>3 DEF CloseStep
<1>5. CASE TransferCloseStep(a)
  BY <1>5 DEF TransferCloseStep, TransferCloseCAS, TransferCloseAgain,
     TransferCloseConn, TransferCloseCancel, TransferCloseWait,
     TransferCloseReturn, Goto
<1>. QED
  BY <1>1, <1>2, <1>3, <1>4, <1>5 DEF CallerStep

LEMMA PanicInductive == Spec => []PanicInv
<1>1. Init => PanicInv
  BY DEF Init, StreamInit, PanicInv
<1>2. TypeOK /\ LockInv /\ PanicInv /\ [Next]_vars => PanicInv'
  <2>. SUFFICES ASSUME TypeOK, LockInv, PanicInv, [Next]_vars PROVE PanicInv'
    OBVIOUS
  <2>1. CASE UNCHANGED <<streamVars, callerVars>>
    BY <2>1 DEF PanicInv, streamVars, callerVars
  <2>. QED
    BY <2>1, PanicStep DEF Next, Rest, TransferStep, vars
<1>. QED
  BY <1>1, <1>2, Typing, Locking, PTL DEF Spec

\* The uses of a nil pointer, and the missing logger, are the only panics.
LEMMA PanicsAre ==
  ASSUME TypeOK, NEW a \in Callers, CallerStep(a), Panics(a)
  PROVE  \/ ReadNilBuffer(a) \/ NewSpawnFails(a)
         \/ CloseOldNil(a, "newOld") \/ CloseOldNil(a, "oldClose")
<1>. USE DEF Panics, TypeOK, CallerOK
<1>1. CASE ReadStep(a)
  BY <1>1 DEF ReadStep, ReadLock, ReadIsClosed, ReadSeek, ReadWant, ReadWaitOk,
     ReadWaitFails, ReadWaitClosed, ReadCopy, ReadCopyFails, AnswerOf, Goto,
     Pass, Leave, Return
<1>2. CASE NewStep(a)
  BY <1>2 DEF NewStep, NewIsClosed, NewIsOpen, NewDrop, NewReset, NewSpawn,
     NewInstall, CloseOld, Goto, Pass, Leave, Return
<1>3. CASE CloseStep(a)
  BY <1>3 DEF CloseStep, CloseAgain, CloseCAS, CloseBuffer, CloseBufferFails,
     CloseBufferNil, CloseNoOld, CloseHasOld, CloseOld, CloseClear, Goto, Pass,
     Leave, Return
<1>4. CASE TransferCloseStep(a)
  BY <1>4 DEF TransferCloseStep, TransferCloseCAS, TransferCloseAgain,
     TransferCloseConn, TransferCloseCancel, TransferCloseWait,
     TransferCloseReturn, Goto
<1>. QED
  BY <1>1, <1>2, <1>3, <1>4 DEF CallerStep

\* A method of the stream panics only when a Close overlaps it, or in the
\* first newTransfer of the stream, for want of a logger.
THEOREM PanicsOnlyByClose == Spec => PanicOnlyByClose
<1>1. ASSUME TypeOK, LockInv, PanicInv, [Next]_vars, NEW a \in Callers, Panics(a)
      PROVE  closed \/ (pc[a] = "spawn" /\ made = 0)
  <2>1. ~(UNCHANGED callerVars)
    BY <1>1 DEF Panics, callerVars
  <2>2. PICK b \in Callers : CallReadAt(b) \/ CallClose(b) \/ CallerStep(b)
    BY <1>1, <2>1 DEF Next, Rest, TransferStep, vars
  <2>3. b = a /\ CallerStep(a)
    BY <1>1, <2>2, OwnStep
       DEF Panics, TypeOK, CallerOK, CallReadAt, CallClose, Call
  <2>4. CASE NewSpawnFails(a)
    BY <2>4 DEF NewSpawnFails, Leave, Return
  <2>5. CASE ReadNilBuffer(a)
    BY <1>1, <2>5 DEF ReadNilBuffer, PanicInv
  <2>6. CASE CloseOldNil(a, "newOld")
    BY <1>1, <2>6 DEF CloseOldNil, Leave, Return, PanicInv
  <2>7. CASE CloseOldNil(a, "oldClose")
    BY <1>1, <2>7 DEF CloseOldNil, Leave, Return, LockInv, ClosePCs
  <2>. QED
    BY <1>1, <2>3, <2>4, <2>5, <2>6, <2>7, PanicsAre
<1>2. TypeOK /\ LockInv /\ PanicInv /\ [Next]_vars
        => [\A a \in Callers : Panics(a) => closed \/ (pc[a] = "spawn" /\ made = 0)]_vars
  BY <1>1
<1>. QED
  BY <1>2, Typing, Locking, PanicInductive, PTL DEF Spec, PanicOnlyByClose

-----------------------------------------------------------------------------
(* The window. *)

LEMMA WindowFrame ==
  ASSUME WindowInv, UNCHANGED <<start, copy, held, epoch, stale, made>>,
         UNCHANGED <<offset, base, top, data>>
  PROVE  WindowInv'
  BY DEF WindowInv

LEMMA WindowCallerStep ==
  ASSUME TypeOK, WindowInv, NEW a \in Callers,
         CallReadAt(a) \/ CallClose(a) \/ CallerStep(a)
  PROVE  WindowInv'
<1>. USE DEF transferVars, goVars, ownVars, histVars, connVars, bufVars
<1>1. CASE CallReadAt(a) \/ CallClose(a)
  BY <1>1, WindowFrame DEF CallReadAt, CallClose, Call
<1>2. CASE ReadStep(a)
  BY <1>2, WindowFrame DEF ReadStep, ReadLock, ReadIsClosed, ReadSeek, ReadWant,
     ReadWaitOk, ReadWaitFails, ReadWaitClosed, ReadCopy, ReadCopyFails,
     ReadNilBuffer, BufReadAt, Leave, Return, Pass
<1>3. CASE NewReset(a)
  <2>. DEFINE first == streamStartPosition(Seek(a))
  <2>1. first \in 0..Size-1
    BY StartInFile, RequestsAssumption, SizingAssumption
       DEF TypeOK, CallerOK, NoRequest, Seek
  <2>. HIDE DEF first
  <2>2. /\ base' = first /\ top' = first /\ epoch' = made + 1
        /\ offset' = [offset EXCEPT ![made + 1] = first]
        /\ UNCHANGED <<start, copy, held, made>>
    BY <1>3 DEF NewReset, NewConnection, ResetToPosition, first
  <2>3. base'..top'-1 = {}
    BY <2>1, <2>2, EmptyRange
  <2>4. \A t \in Transfers : t = epoch' => copy[t] = "none" /\ offset'[t] = first
    BY <2>2, TransfersAssumption DEF TypeOK, TransferOK, ConnOK, WindowInv
  <2>. QED
    BY <2>2, <2>3, <2>4 DEF WindowInv
<1>4. CASE NewSpawn(a)
  BY <1>4, TransfersAssumption DEF NewSpawn, NewTransfer, TypeOK, TransferOK, WindowInv
<1>5. CASE NewStep(a) /\ ~NewReset(a) /\ ~NewSpawn(a)
  BY <1>5, WindowFrame DEF NewStep, NewIsClosed, NewSpawnFails, NewIsOpen, CloseOld,
     CloseOldNil, NewDrop, NewInstall, Leave, Return, Pass
<1>6. CASE CloseStep(a)
  BY <1>6, WindowFrame DEF CloseStep, CloseAgain, CloseCAS, CloseBuffer,
     CloseBufferFails, CloseBufferNil, CloseNoOld, CloseHasOld, CloseOld,
     CloseOldNil, CloseClear, BufClose, Leave, Return, Pass
<1>7. CASE TransferCloseStep(a)
  BY <1>7, WindowFrame DEF TransferCloseStep, TransferCloseCAS,
     TransferCloseAgain, TransferCloseConn, TransferCloseCancel,
     TransferCloseWait, TransferCloseReturn, ConnClose, TransferCAS,
     TransferCancel, Pass
<1>. QED
  BY <1>1, <1>2, <1>3, <1>4, <1>5, <1>6, <1>7 DEF CallerStep

LEMMA WindowStartStep ==
  ASSUME TypeOK, WindowInv, NEW t \in Transfers, StartStep(t)
  PROVE  WindowInv'
<1>. USE DEF TypeOK, TransferOK, WindowInv, ownVars, histVars, connVars, bufVars
<1>1. CASE StartRun(t)
  BY <1>1 DEF StartRun
<1>2. CASE StartCancelled(t)
  BY <1>2 DEF StartCancelled, ConnClose
<1>3. CASE StartDone(t)
  BY <1>3 DEF StartDone, ConnClose
<1>4. CASE StartMark(t) \/ StartMarkNil(t)
  BY <1>4 DEF StartMark, StartMarkNil, WriteEOFMarker
<1>. QED
  BY <1>1, <1>2, <1>3, <1>4 DEF StartStep

LEMMA WindowCopyStep ==
  ASSUME TypeOK, WindowInv, NEW t \in Transfers, CopyStep(t)
  PROVE  WindowInv'
<1>. USE DEF TypeOK, TransferOK, ConnOK, BufOK, WindowInv,
         ownVars, histVars, connVars, bufVars
<1>0. ASSUME copy' = [copy EXCEPT ![t] = copy'[t]], copy[t] \notin {"none", "write", "end"},
             copy'[t] # "write",
             UNCHANGED <<base, top, data, epoch, stale, made, start, offset, held>>
      PROVE  WindowInv'
  BY <1>0
<1>1. CASE CopyGetPointer(t) \/ CopyReadNil(t) \/ CopyWriteNil(t)
  BY <1>1 DEF CopyGetPointer, CopyReadNil, CopyWriteNil, CopyCrash
<1>2. CASE CopyCancelled(t) \/ CopyRequestFails(t) \/ CopyBodyEnds(t)
  BY <1>0, <1>2 DEF CopyCancelled, CopyRequestFails, CopyBodyEnds, CopyEnd
<1>6. CASE CopyWriteClosed(t)
  BY <1>6 DEF CopyWriteClosed, CopyEnd
<1>3. CASE CopyGet(t) \/ CopyContinue(t) \/ CopyRead(t) \/ CopyRecheck(t)
  BY <1>0, <1>3 DEF CopyGet, CopyContinue, CopyRead, CopyRecheck, CopyGoto
<1>7. CASE CopyResponse(t)
  BY <1>0, <1>7 DEF CopyResponse, ConnOpenBody, CopyGoto
<1>4. CASE CopyReceive(t)
  BY <1>4 DEF CopyReceive, ConnDeliver, CopyGoto
<1>5. CASE CopyWrite(t)
  <2>1. /\ top' = top + 1 /\ base' = base /\ copy[t] = "write"
        /\ data' = [p \in base..top |-> IF p = top THEN held[t] ELSE data[p]]
        /\ stale' = (stale \/ t # epoch)
        /\ UNCHANGED <<epoch, made, start, offset, held>>
        /\ copy' \in {[copy EXCEPT ![t] = "loop"], [copy EXCEPT ![t] = "end"]}
    BY <1>5 DEF CopyWrite, BufWrite, CopyGoto, CopyEnd
  <2>2. ASSUME ~stale' PROVE \A p \in base'..top'-1 : data'[p] = p
    <3>1. ~stale /\ t = epoch
      BY <2>1, <2>2, Zenon
    <3>2. held[t] = top /\ \A p \in base..top-1 : data[p] = p
      BY <2>1, <3>1
    <3>3. base'..top'-1 = base..top
      BY <2>1
    <3>. QED
      BY <2>1, <3>2, <3>3
  <2>3. ASSUME ~stale', NEW u \in Transfers, u = epoch'
        PROVE  /\ copy'[u] \notin {"write", "end"} => offset'[u] = top'
               /\ copy'[u] = "write" => held'[u] = top' /\ offset'[u] = top' + 1
    BY <2>1, <2>3
  <2>4. \A u \in Transfers : start'[u] \in {"none", "spawned"} => copy'[u] = "none"
    BY <2>1
  <2>. QED
    BY <2>1, <2>2, <2>3, <2>4
<1>. QED
  BY <1>1, <1>2, <1>3, <1>4, <1>5, <1>6, <1>7 DEF CopyStep

LEMMA WindowInductive == Spec => []WindowInv
<1>1. Init => WindowInv
  BY EmptyRange DEF Init, BufInit, TransferInit, WindowInv
<1>2. TypeOK /\ WindowInv /\ [Next]_vars => WindowInv'
  <2>. SUFFICES ASSUME TypeOK, WindowInv, [Next]_vars PROVE WindowInv'
    OBVIOUS
  <2>1. CASE UNCHANGED vars
    BY <2>1, WindowFrame DEF vars, transferVars, goVars, ownVars, histVars,
       connVars, bufVars
  <2>2. CASE \E a \in Callers : CallReadAt(a) \/ CallClose(a) \/ CallerStep(a)
    BY <2>2, WindowCallerStep
  <2>3. CASE \E t \in Transfers : TransferStep(t)
    BY <2>3, WindowStartStep, WindowCopyStep DEF TransferStep
  <2>. QED
    BY <2>1, <2>2, <2>3 DEF Next, Rest
<1>. QED
  BY <1>1, <1>2, Typing, PTL DEF Spec

\* As long as no superseded copyData writes, every unit of the window is the
\* one of its own position of the file.
THEOREM WindowsExact == Spec => []WindowExact
<1>1. WindowInv => WindowExact
  BY DEF WindowInv, WindowExact
<1>. QED
  BY <1>1, WindowInductive, PTL

\* A caller at "read" that hands out units copies them from the buffer.
LEMMA LeavesRead ==
  ASSUME NEW a \in Callers, CallerStep(a), pc[a] = "read", pc'[a] = "idle",
         answer' \in {"alien", "short"}
  PROVE  ReadCopy(a)
BY DEF CallerStep, ReadStep, NewStep, CloseStep, TransferCloseStep,
   ReadLock, ReadIsClosed, ReadSeek, ReadWant, ReadWaitOk, ReadWaitFails,
   ReadWaitClosed, ReadCopyFails, ReadNilBuffer, NewIsClosed, NewSpawnFails,
   NewIsOpen, NewDrop, NewReset, NewSpawn, NewInstall, CloseOld, CloseOldNil,
   CloseAgain, CloseCAS, CloseBuffer, CloseBufferFails, CloseBufferNil,
   CloseNoOld, CloseHasOld, CloseClear, TransferCloseCAS, TransferCloseAgain,
   TransferCloseConn, TransferCloseCancel, TransferCloseWait,
   TransferCloseReturn, Goto, Pass, Leave, Return

\* A ReadAt that returns units has copied them from the buffer in that step.
LEMMA ReturnsCopy ==
  ASSUME TypeOK, [Next]_vars, ReadReturns, answer' \in {"alien", "short"}
  PROVE  \E a \in Callers : ReadCopy(a)
<1>1. PICK a \in Callers : pc[a] = "read" /\ pc'[a] = "idle"
  BY DEF ReadReturns
<1>2. ~(UNCHANGED callerVars)
  BY <1>1 DEF callerVars
<1>3. PICK b \in Callers : CallReadAt(b) \/ CallClose(b) \/ CallerStep(b)
  BY <1>2 DEF Next, Rest, TransferStep, vars
<1>4. b = a /\ CallerStep(a)
  BY <1>1, <1>3, OwnStep DEF TypeOK, CallerOK, CallReadAt, CallClose, Call
<1>. QED
  BY <1>1, <1>4, LeavesRead

\* What a read copies out of an exact window are units of its own positions.
LEMMA AlienNeedsStale ==
  ASSUME TypeOK, WindowInv, NEW a \in Callers, ReadCopy(a), answer' = "alien"
  PROVE  stale
<1>1. AnswerOf(a) = "alien" /\ Readable(Seek(a))
  BY DEF ReadCopy, BufReadAt, Return
<1>2. PICK p \in Seek(a)..ReadEnd(Seek(a), req[a][2])-1 : data[p] # p
  BY <1>1 DEF AnswerOf
<1>3. Seek(a) \in Nat /\ req[a][2] \in Nat
  BY RequestsAssumption, SizingAssumption
     DEF TypeOK, CallerOK, NoRequest, Seek
<1>4. base <= Seek(a)
  BY <1>1, <1>3, SizingAssumption
     DEF Readable, Oldest, BufferSize, calculateBufferSize, Lesser, Greater,
         TypeOK, BufOK
<1>5. ReadEnd(Seek(a), req[a][2]) <= Greater(Seek(a), top)
  BY <1>3 DEF ReadEnd, Lesser, Greater, TypeOK, BufOK
<1>6. p \in base..top-1
  <2>1. base \in Nat /\ top \in Nat
    BY SizingAssumption DEF TypeOK, BufOK
  <2>2. p \in Nat /\ Seek(a) <= p /\ p < ReadEnd(Seek(a), req[a][2])
    BY <1>2, <1>3, <2>1 DEF ReadEnd, Lesser, Greater
  <2>3. p < top
    BY <1>3, <2>1, <2>2 DEF ReadEnd, Lesser, Greater
  <2>. QED
    BY <1>3, <1>4, <2>1, <2>2, <2>3
<1>. QED
  BY <1>2, <1>6 DEF WindowInv

\* A read hands out units of another position only from a window a
\* superseded copyData has written to.
THEOREM AliensOnlyFromSuperseded == Spec => AlienOnlyFromSuperseded
<1>1. TypeOK /\ WindowInv /\ [Next]_vars
        => [(ReadReturns /\ answer' = "alien") => stale]_vars
  BY ReturnsCopy, AlienNeedsStale
<1>. QED
  BY <1>1, Typing, WindowInductive, PTL DEF Spec, AlienOnlyFromSuperseded

\* What a goroutine of a transfer does to the rest of the stream: nothing to
\* the callers, and to the buffer nothing but a Write or the EOF marker.
LEMMA TransferKeeps ==
  ASSUME NEW t \in Transfers, TransferStep(t)
  PROVE  /\ UNCHANGED <<streamVars, callerVars>>
         /\ UNCHANGED <<base, made, tClosed, tCancelled, tBuffer, epoch, outlived>>
  BY DEF TransferStep, StartStep, CopyStep, StartRun, StartCancelled,
     StartDone, StartMark, StartMarkNil, CopyGet, CopyGetPointer,
     CopyCancelled, CopyContinue, CopyReadNil, CopyRead, CopyRecheck,
     CopyResponse, CopyRequestFails, CopyReceive, CopyBodyEnds, CopyWrite,
     CopyWriteClosed, CopyWriteNil, BufWrite, WriteEOFMarker, ownVars,
     histVars, bufVars

-----------------------------------------------------------------------------
(* Open transfers. *)

LEMMA OpenFrame ==
  ASSUME OpenInv, UNCHANGED <<made, tClosed, closed, transfer, mu, pc, target>>
  PROVE  OpenInv'
  BY DEF OpenInv, OneOpenTransfer, IsOpen, Making, MakePCs

\* A step of somebody who does not hold the lock, and makes no transfer.
LEMMA OpenOtherStep ==
  ASSUME OpenInv, mu' = mu, UNCHANGED <<made, tClosed>>,
         mu \in Callers => pc'[mu] = pc[mu] /\ target'[mu] = target[mu],
         closed => closed',
         transfer' = transfer \/ (transfer' = 0 /\ closed)
  PROVE  OpenInv'
  BY DEF OpenInv, OneOpenTransfer, IsOpen, Making, MakePCs

LEMMA OpenReadStep ==
  ASSUME TypeOK, LockInv, OpenInv, NEW a \in Callers,
         CallReadAt(a) \/ CallClose(a) \/ ReadStep(a)
  PROVE  OpenInv'
<1>. USE DEF TypeOK, CallerOK, StreamOK, HoldPCs, LockInv, OpenInv,
         OneOpenTransfer, IsOpen, Making, MakePCs, TransferClosePCs,
         streamVars, transferVars, ownVars
<1>1. CASE CallReadAt(a) \/ CallClose(a)
  BY <1>1, CallersAssumption DEF CallReadAt, CallClose, Call
<1>2. CASE ReadLock(a)
  BY <1>2, CallersAssumption DEF ReadLock, Goto
<1>3. CASE ReadIsClosed(a) \/ ReadWaitFails(a) \/ ReadCopyFails(a) \/ ReadCopy(a)
  BY <1>3, CallersAssumption DEF ReadIsClosed, ReadWaitFails, ReadCopyFails,
     ReadCopy, Leave, Return
<1>4. CASE ReadNilBuffer(a)
  BY <1>4, CallersAssumption DEF ReadNilBuffer, Leave, Return
<1>5. CASE ReadSeek(a) \/ ReadWant(a) \/ ReadWaitOk(a) \/ ReadWaitClosed(a)
  BY <1>5 DEF ReadSeek, ReadWant, ReadWaitOk, ReadWaitClosed, Pass, Goto
<1>. QED
  BY <1>1, <1>2, <1>3, <1>4, <1>5 DEF ReadStep

LEMMA OpenNewStep ==
  ASSUME TypeOK, LockInv, PanicInv, OpenInv, NEW a \in Callers, NewStep(a)
  PROVE  OpenInv'
<1>. USE DEF TypeOK, CallerOK, StreamOK, TransferOK, HoldPCs, LockInv, OpenInv,
         OneOpenTransfer, IsOpen, Making, MakePCs, TransferClosePCs,
         streamVars, transferVars, ownVars
<1>1. CASE NewIsClosed(a)
  BY <1>1, CallersAssumption DEF NewIsClosed, Leave, Return
<1>9. CASE NewSpawnFails(a)
  BY <1>9, CallersAssumption DEF NewSpawnFails, Leave, Return
<1>7. CASE CloseOldNil(a, "newOld")
  BY <1>7, CallersAssumption DEF CloseOldNil, Leave, Return
<1>2. CASE NewIsOpen(a)
  BY <1>2 DEF NewIsOpen, Pass, Goto
<1>3. CASE CloseOld(a, "newOld")
  BY <1>3 DEF CloseOld
<1>4. CASE NewDrop(a)
  BY <1>4 DEF NewDrop, Goto
<1>8. CASE NewReset(a)
  BY <1>8 DEF NewReset, Goto
<1>5. CASE NewSpawn(a)
  BY <1>5 DEF NewSpawn, NewTransfer, Goto
<1>6. CASE NewInstall(a)
  BY <1>6 DEF NewInstall, Goto
<1>. QED
  BY <1>1, <1>2, <1>3, <1>4, <1>5, <1>6, <1>7, <1>8, <1>9 DEF NewStep

LEMMA OpenCloseStep ==
  ASSUME TypeOK, LockInv, OpenInv, NEW a \in Callers, CloseStep(a)
  PROVE  OpenInv'
<1>. USE DEF TypeOK, CallerOK, HoldPCs, ClosePCs, TransferClosePCs, LockInv,
         streamVars, transferVars, ownVars
<1>1. pc[a] \in ClosePCs /\ mu # a
  BY DEF CloseStep, CloseAgain, CloseNoOld, CloseOldNil, CloseBufferFails,
     CloseClear, CloseHasOld, CloseCAS, CloseBuffer, CloseBufferNil, CloseOld,
     Leave, Return, Pass, Goto
<1>2. CASE CloseAgain(a) \/ CloseNoOld(a) \/ CloseOldNil(a, "oldClose")
           \/ CloseBufferFails(a)
  BY <1>1, <1>2, OpenOtherStep DEF CloseAgain, CloseNoOld, CloseOldNil,
     CloseBufferFails, Leave, Return
<1>3. CASE CloseClear(a)
  BY <1>1, <1>3, OpenOtherStep DEF CloseClear, Return
<1>4. CASE CloseHasOld(a) \/ CloseCAS(a) \/ CloseBuffer(a) \/ CloseBufferNil(a)
  BY <1>1, <1>4, OpenOtherStep DEF CloseHasOld, CloseCAS, CloseBuffer,
     CloseBufferNil, Pass, Goto
<1>5. CASE CloseOld(a, "oldClose")
  BY <1>1, <1>5, OpenOtherStep DEF CloseOld
<1>. QED
  BY <1>2, <1>3, <1>4, <1>5 DEF CloseStep

LEMMA OpenTransferCloseStep ==
  ASSUME TypeOK, LockInv, OpenInv, NEW a \in Callers, TransferCloseStep(a)
  PROVE  OpenInv'
<1>. USE DEF TypeOK, CallerOK, TransferOK, streamVars, transferVars, ownVars
<1>1. CASE TransferCloseCAS(a)
  BY <1>1 DEF TransferCloseCAS, TransferCAS, Goto, OpenInv, OneOpenTransfer,
     IsOpen, Making, MakePCs, TransferClosePCs
<1>2. CASE (TransferCloseAgain(a) \/ TransferCloseWait(a)) /\ mu = a
  <2>1. /\ pc[a] \in {"tCAS", "tWait"} /\ pc' = [pc EXCEPT ![a] = "drop"]
        /\ pc[a] = "tCAS" => tClosed[target[a]]
        /\ UNCHANGED <<mu, closed, transfer, made, tClosed>>
    BY <1>2 DEF TransferCloseAgain, TransferCloseWait, TransferCloseReturn
  <2>2. \A t \in Transfers : ~IsOpen(t)
    BY <1>2, <2>1
       DEF OpenInv, IsOpen, Making, MakePCs, TransferClosePCs
  <2>. QED
    BY <2>1, <2>2 DEF OpenInv, OneOpenTransfer, IsOpen
<1>3. CASE (TransferCloseAgain(a) \/ TransferCloseWait(a)) /\ mu # a
  BY <1>3, OpenOtherStep
     DEF TransferCloseAgain, TransferCloseWait, TransferCloseReturn
<1>4. CASE TransferCloseConn(a) \/ TransferCloseCancel(a)
  <2>1. /\ \/ pc[a] = "tConn" /\ pc' = [pc EXCEPT ![a] = "tCancel"]
           \/ pc[a] = "tCancel" /\ pc' = [pc EXCEPT ![a] = "tWait"]
        /\ UNCHANGED <<mu, closed, transfer, made, tClosed, target>>
    BY <1>4 DEF TransferCloseConn, TransferCloseCancel, TransferCancel, Goto
  <2>. QED
    BY <2>1 DEF OpenInv, OneOpenTransfer, IsOpen, Making, MakePCs,
       TransferClosePCs
<1>. QED
  BY <1>1, <1>2, <1>3, <1>4 DEF TransferCloseStep

LEMMA OpenInductive == Spec => []OpenInv
<1>1. Init => OpenInv
  BY DEF Init, TransferInit, StreamInit, OpenInv, OneOpenTransfer, IsOpen
<1>2. TypeOK /\ LockInv /\ PanicInv /\ OpenInv /\ [Next]_vars => OpenInv'
  <2>. SUFFICES ASSUME TypeOK, LockInv, PanicInv, OpenInv, [Next]_vars
                PROVE  OpenInv'
    OBVIOUS
  <2>1. CASE UNCHANGED vars
    BY <2>1, OpenFrame DEF vars, streamVars, callerVars, transferVars, ownVars
  <2>2. CASE \E a \in Callers : CallReadAt(a) \/ CallClose(a) \/ CallerStep(a)
    BY <2>2, OpenReadStep, OpenNewStep, OpenCloseStep, OpenTransferCloseStep
       DEF CallerStep
  <2>3. CASE \E t \in Transfers : TransferStep(t)
    BY <2>3, TransferKeeps, OpenFrame DEF streamVars, callerVars
  <2>. QED
    BY <2>1, <2>2, <2>3 DEF Next, Rest
<1>. QED
  BY <1>1, <1>2, Typing, Locking, PanicInductive, PTL DEF Spec

\* A stream never has two transfers that nobody has closed.
THEOREM OneTransferOpen == Spec => []OneOpenTransfer
<1>1. OpenInv => OneOpenTransfer
  BY DEF OpenInv
<1>. QED
  BY <1>1, OpenInductive, PTL

-----------------------------------------------------------------------------
(* The place a reader waits for. *)

LEMMA ResetFrame ==
  ASSUME ResetInv, base' = base, NEW a \in Callers,
         \A b \in Callers \ {a} : pc'[b] = pc[b] /\ req'[b] = req[b],
         pc'[a] \in {"spawn", "install"} =>
           pc[a] \in {"spawn", "install"} /\ req'[a] = req[a]
  PROVE  ResetInv'
  BY DEF ResetInv, Seek

LEMMA ResetStep ==
  ASSUME TypeOK, LockInv, ResetInv, NEW a \in Callers,
         CallReadAt(a) \/ CallClose(a) \/ CallerStep(a)
  PROVE  ResetInv'
<1>. USE DEF TypeOK, CallerOK, bufVars
<1>1. CASE CallReadAt(a) \/ CallClose(a)
  BY <1>1, ResetFrame DEF CallReadAt, CallClose, Call
<1>2. CASE ReadStep(a)
  BY <1>2, ResetFrame DEF ReadStep, ReadLock, ReadIsClosed, ReadSeek, ReadWant,
     ReadWaitOk, ReadWaitFails, ReadWaitClosed, ReadCopy, ReadCopyFails,
     ReadNilBuffer, BufReadAt, Leave, Return, Pass, Goto
<1>3. CASE NewReset(a)
  <2>1. \A b \in Callers \ {a} : pc'[b] = pc[b] /\ pc[b] \notin {"spawn", "install"}
    BY <1>3 DEF NewReset, Goto, LockInv, HoldPCs
  <2>2. base' = streamStartPosition(Seek(a)) /\ req' = req
    BY <1>3 DEF NewReset, ResetToPosition, Goto
  <2>. QED
    BY <2>1, <2>2 DEF ResetInv, Seek
<1>4. CASE NewStep(a) /\ ~NewReset(a)
  BY <1>4, ResetFrame DEF NewStep, NewIsClosed, NewSpawnFails, NewIsOpen, CloseOld,
     CloseOldNil, NewDrop, NewSpawn, NewInstall, Leave, Return, Pass, Goto
<1>5. CASE CloseStep(a)
  BY <1>5, ResetFrame DEF CloseStep, CloseAgain, CloseCAS, CloseBuffer,
     CloseBufferFails, CloseBufferNil, CloseNoOld, CloseHasOld, CloseOld,
     CloseOldNil, CloseClear, BufClose, Leave, Return, Pass, Goto
<1>6. CASE TransferCloseStep(a)
  BY <1>6, ResetFrame DEF TransferCloseStep, TransferCloseCAS,
     TransferCloseAgain, TransferCloseConn, TransferCloseCancel,
     TransferCloseWait, TransferCloseReturn, Pass, Goto
<1>. QED
  BY <1>1, <1>2, <1>3, <1>4, <1>5, <1>6 DEF CallerStep

\* A small read that starts a download is served from the window of that
\* download without anybody reading first.
THEOREM SmallReadsFit == Spec => []WaitFitsWindow
<1>1. Init => ResetInv
  BY DEF Init, StreamInit, ResetInv
<1>2. TypeOK /\ LockInv /\ ResetInv /\ [Next]_vars => ResetInv'
  <2>. SUFFICES ASSUME TypeOK, LockInv, ResetInv, [Next]_vars PROVE ResetInv'
    OBVIOUS
  <2>1. CASE UNCHANGED <<base, callerVars>>
    BY <2>1 DEF ResetInv, Seek, callerVars
  <2>. QED
    BY <2>1, ResetStep, TransferKeeps DEF Next, Rest, vars, bufVars
<1>3. TypeOK /\ ResetInv => WaitFitsWindow
  <2>. SUFFICES ASSUME TypeOK, ResetInv, NEW a \in Callers,
                       pc[a] \in {"spawn", "install"}, SmallRead(req[a][2])
                PROVE  /\ base <= Seek(a)
                       /\ \/ Wanted(a) < base + BufferSize
                          \/ Wanted(a) = Size /\ Size <= base + BufferSize
    BY DEF WaitFitsWindow
  <2>1. base = streamStartPosition(Seek(a))
    BY DEF ResetInv
  <2>2. Seek(a) \in 0..Size-1 /\ req[a][2] \in Nat
    BY RequestsAssumption, SizingAssumption DEF TypeOK, CallerOK, NoRequest, Seek
  <2>3. base <= Seek(a)
    BY <2>1, <2>2, StartInFile
  <2>4. \/ Wanted(a) < base + BufferSize
        \/ Wanted(a) = Size /\ Size <= base + BufferSize
    BY <2>1, <2>2, RequestFitsWindow DEF Wanted, Seek
  <2>. QED
    BY <2>3, <2>4
<1>. QED
  BY <1>1, <1>2, <1>3, Typing, Locking, PTL DEF Spec

-----------------------------------------------------------------------------
(* What a reader has waited for. *)

LEMMA WaitedFrame ==
  ASSUME TypeOK, WaitedInv, NEW a \in Callers, top <= top', eof => eof', closed => closed',
         \A b \in Callers \ {a} : pc'[b] = pc[b] /\ req'[b] = req[b],
         pc'[a] = "read" => pc[a] = "read" /\ req'[a] = req[a],
         top' \in Nat
  PROVE  WaitedInv'
<1>. SUFFICES ASSUME NEW b \in Callers, pc'[b] = "read", ~closed', ~eof'
              PROVE  Wanted(b)' < top'
  BY DEF WaitedInv
<1>1. pc[b] = "read" /\ req'[b] = req[b]
  OBVIOUS
<1>2. req[b][1] \in Nat /\ req[b][2] \in Nat
  BY RequestsAssumption, SizingAssumption DEF TypeOK, CallerOK, NoRequest
<1>3. Wanted(b) < top /\ Wanted(b)' = Wanted(b)
  BY <1>1 DEF WaitedInv, Wanted
<1>4. Wanted(b) \in Nat
  BY <1>2, SizingAssumption DEF Wanted, requestedPosition, Lesser
<1>. QED
  BY <1>3, <1>4 DEF TypeOK, BufOK

LEMMA WaitedStep ==
  ASSUME TypeOK, LockInv, WaitedInv, NEW a \in Callers,
         CallReadAt(a) \/ CallClose(a) \/ CallerStep(a)
  PROVE  WaitedInv'
<1>. USE DEF TypeOK, CallerOK, BufOK, bufVars, streamVars
<1>1. CASE CallReadAt(a) \/ CallClose(a)
  <2>1. /\ UNCHANGED <<top, eof>> /\ (closed => closed')
        /\ \A b \in Callers \ {a} : pc'[b] = pc[b] /\ req'[b] = req[b]
        /\ pc'[a] # "read"
    BY <1>1 DEF CallReadAt, CallClose, Call
  <2>. QED
    BY <2>1, WaitedFrame
<1>2. CASE ReadStep(a)
  <2>1. CASE ReadWant(a) \/ ReadWaitOk(a) \/ ReadWaitClosed(a)
    <3>1. /\ UNCHANGED <<closed, eof, top, req>>
          /\ \A b \in Callers \ {a} : pc'[b] = pc[b]
      BY <2>1 DEF ReadWant, ReadWaitOk, ReadWaitClosed, Pass, Goto
    <3>2. pc'[a] = "read" => closed \/ IsPositionAvailable(Wanted(a))
      BY <2>1 DEF ReadWant, ReadWaitOk, ReadWaitClosed, Pass, Goto
    <3>. QED
      BY <3>1, <3>2 DEF WaitedInv, Wanted, IsPositionAvailable
  <2>2. CASE ReadLock(a) \/ ReadIsClosed(a) \/ ReadSeek(a) \/ ReadWaitFails(a)
             \/ ReadCopy(a) \/ ReadCopyFails(a) \/ ReadNilBuffer(a)
    <3>1. /\ UNCHANGED <<top, eof>> /\ (closed => closed')
          /\ \A b \in Callers \ {a} : pc'[b] = pc[b] /\ req'[b] = req[b]
          /\ pc'[a] # "read"
      BY <2>2 DEF ReadLock, ReadIsClosed, ReadSeek, ReadWaitFails,
         ReadCopy, ReadCopyFails, ReadNilBuffer, BufReadAt, Leave, Return, Pass, Goto
    <3>. QED
      BY <3>1, WaitedFrame
  <2>. QED
    BY <1>2, <2>1, <2>2 DEF ReadStep
<1>3. CASE NewReset(a)
  <2>1. \A b \in Callers : pc'[b] # "read"
    BY <1>3 DEF NewReset, Goto, LockInv, HoldPCs
  <2>. QED
    BY <2>1 DEF WaitedInv
<1>4. CASE NewStep(a) /\ ~NewReset(a)
  <2>1. /\ UNCHANGED <<top, eof>> /\ (closed => closed')
        /\ \A b \in Callers \ {a} : pc'[b] = pc[b] /\ req'[b] = req[b]
        /\ pc'[a] # "read"
    BY <1>4 DEF NewStep, NewIsClosed, NewSpawnFails, NewIsOpen, CloseOld,
       CloseOldNil, NewDrop, NewSpawn, NewInstall, Leave, Return, Pass, Goto
  <2>. QED
    BY <2>1, WaitedFrame
<1>5. CASE CloseStep(a)
  <2>1. /\ UNCHANGED <<top, eof>> /\ (closed => closed')
        /\ \A b \in Callers \ {a} : pc'[b] = pc[b] /\ req'[b] = req[b]
        /\ pc'[a] # "read"
    BY <1>5 DEF CloseStep, CloseAgain, CloseCAS, CloseBuffer,
       CloseBufferFails, CloseBufferNil, CloseNoOld, CloseHasOld, CloseOld,
       CloseOldNil, CloseClear, BufClose, Leave, Return, Pass, Goto
  <2>. QED
    BY <2>1, WaitedFrame
<1>6. CASE TransferCloseStep(a)
  <2>1. /\ UNCHANGED <<top, eof>> /\ (closed => closed')
        /\ \A b \in Callers \ {a} : pc'[b] = pc[b] /\ req'[b] = req[b]
        /\ pc'[a] # "read"
    BY <1>6 DEF TransferCloseStep, TransferCloseCAS,
       TransferCloseAgain, TransferCloseConn, TransferCloseCancel,
       TransferCloseWait, TransferCloseReturn, Pass, Goto
  <2>. QED
    BY <2>1, WaitedFrame
<1>. QED
  BY <1>1, <1>2, <1>3, <1>4, <1>5, <1>6 DEF CallerStep

\* A download only adds to the window.
LEMMA TransferAdds ==
  ASSUME TypeOK, NEW t \in Transfers, TransferStep(t)
  PROVE  top' \in Nat /\ top <= top' /\ (eof => eof')
  BY DEF TransferStep, StartStep, CopyStep, StartRun, StartCancelled,
     StartDone, StartMark, StartMarkNil, CopyGet, CopyGetPointer,
     CopyCancelled, CopyContinue, CopyReadNil, CopyRead, CopyRecheck,
     CopyResponse, CopyRequestFails, CopyReceive, CopyBodyEnds, CopyWrite,
     CopyWriteClosed, CopyWriteNil, BufWrite, WriteEOFMarker, bufVars, TypeOK, BufOK

LEMMA WaitedInductive == Spec => []WaitedInv
<1>1. Init => WaitedInv
  BY DEF Init, StreamInit, WaitedInv
<1>2. TypeOK /\ LockInv /\ WaitedInv /\ [Next]_vars => WaitedInv'
  <2>. SUFFICES ASSUME TypeOK, LockInv, WaitedInv, [Next]_vars PROVE WaitedInv'
    OBVIOUS
  <2>1. CASE UNCHANGED vars
    BY <2>1 DEF WaitedInv, Wanted, vars, callerVars, streamVars, bufVars
  <2>2. ASSUME NEW t \in Transfers, TransferStep(t) PROVE WaitedInv'
    <3>1. PICK a : a \in Callers \/ Callers = {}
      OBVIOUS
    <3>2. UNCHANGED <<closed, pc, req>>
      BY <2>2, TransferKeeps DEF streamVars, callerVars
    <3>. QED
      BY <2>2, <3>1, <3>2, TransferAdds, WaitedFrame DEF WaitedInv
  <2>. QED
    BY <2>1, <2>2, WaitedStep DEF Next, Rest
<1>. QED
  BY <1>1, <1>2, Typing, Locking, PTL DEF Spec

-----------------------------------------------------------------------------
(* Panics of a goroutine. *)

LEMMA CrashFrame ==
  ASSUME TypeOK, CrashInv, crashed' = crashed, closed => closed',
         UNCHANGED <<start, tConn, tBuffer>>,
         \A t \in Transfers : tCancelled[t] => tCancelled'[t]
  PROVE  CrashInv'
  BY DEF CrashInv, CrashOnlyByClose

LEMMA CrashCallerStep ==
  ASSUME TypeOK, PanicInv, CrashInv, NEW a \in Callers,
         CallReadAt(a) \/ CallClose(a) \/ CallerStep(a)
  PROVE  CrashInv'
<1>. USE DEF transferVars, goVars, ownVars, streamVars
<1>1. CASE CallReadAt(a) \/ CallClose(a)
  BY <1>1, CrashFrame DEF CallReadAt, CallClose, Call
<1>2. CASE ReadStep(a)
  BY <1>2, CrashFrame DEF ReadStep, ReadLock, ReadIsClosed, ReadSeek, ReadWant,
     ReadWaitOk, ReadWaitFails, ReadWaitClosed, ReadCopy, ReadCopyFails,
     ReadNilBuffer, Leave, Return, Pass
<1>3. CASE NewSpawn(a)
  BY <1>3 DEF NewSpawn, NewTransfer, CrashInv, CrashOnlyByClose, PanicInv,
     TypeOK, TransferOK
<1>4. CASE NewStep(a) /\ ~NewSpawn(a)
  BY <1>4, CrashFrame DEF NewStep, NewIsClosed, NewSpawnFails, NewIsOpen, CloseOld,
     CloseOldNil, NewDrop, NewReset, NewInstall, Leave, Return, Pass
<1>5. CASE CloseStep(a)
  BY <1>5, CrashFrame DEF CloseStep, CloseAgain, CloseCAS, CloseBuffer,
     CloseBufferFails, CloseBufferNil, CloseNoOld, CloseHasOld, CloseOld,
     CloseOldNil, CloseClear, Leave, Return, Pass
<1>6. CASE TransferCloseStep(a)
  <2>1. CASE TransferCloseCancel(a)
    <3>1. \A t \in Transfers : tCancelled[t] => tCancelled'[t]
      BY <2>1 DEF TransferCloseCancel, TransferCancel, TypeOK, TransferOK
    <3>. QED
      BY <2>1, <3>1, CrashFrame DEF TransferCloseCancel, TransferCancel
  <2>2. CASE ~TransferCloseCancel(a)
    BY <1>6, <2>2, CrashFrame DEF TransferCloseStep, TransferCloseCAS,
       TransferCloseAgain, TransferCloseConn, TransferCloseWait,
       TransferCloseReturn, TransferCAS, Pass
  <2>. QED
    BY <2>1, <2>2
<1>. QED
  BY <1>1, <1>2, <1>3, <1>4, <1>5, <1>6 DEF CallerStep

LEMMA CrashTransferStep ==
  ASSUME TypeOK, WindowInv, CrashInv, NEW t \in Transfers, TransferStep(t)
  PROVE  CrashInv'
<1>. USE DEF TypeOK, TransferOK, CrashInv, CrashOnlyByClose, streamVars,
         ownVars, histVars
<1>1. UNCHANGED <<streamVars, tCancelled, tBuffer>>
  BY TransferKeeps
<1>2. CASE StartRun(t) \/ StartDone(t) \/ StartMark(t)
  BY <1>1, <1>2 DEF StartRun, StartDone, StartMark
<1>3. CASE StartCancelled(t)
  BY <1>1, <1>3 DEF StartCancelled
<1>4. CASE StartMarkNil(t)
  BY <1>1, <1>4 DEF StartMarkNil
<1>5. CASE CopyStep(t)
  <2>1. UNCHANGED <<start, tConn>>
    BY <1>5 DEF CopyStep, CopyGet, CopyGetPointer, CopyCancelled, CopyContinue,
       CopyReadNil, CopyRead, CopyRecheck, CopyResponse, CopyRequestFails,
       CopyReceive, CopyBodyEnds, CopyWrite, CopyWriteClosed, CopyWriteNil,
       CopyGoto, CopyEnd, CopyCrash
  <2>2. copy[t] # "none" => start[t] # "none"
    BY DEF WindowInv
  <2>3. CASE CopyReadNil(t) \/ CopyWriteNil(t)
    BY <1>1, <2>1, <2>2, <2>3 DEF CopyReadNil, CopyWriteNil, CopyCrash
  <2>4. CASE CopyGetPointer(t)
    BY <1>1, <2>1, <2>4 DEF CopyGetPointer, CopyCrash
  <2>5. CASE crashed' = crashed
    BY <1>1, <2>1, <2>5
  <2>. QED
    BY <1>5, <2>3, <2>4, <2>5 DEF CopyStep, CopyGet, CopyCancelled,
       CopyContinue, CopyRead, CopyRecheck, CopyResponse, CopyRequestFails,
       CopyReceive, CopyBodyEnds, CopyWrite, CopyWriteClosed, CopyGoto, CopyEnd
<1>. QED
  BY <1>2, <1>3, <1>4, <1>5 DEF TransferStep, StartStep

\* A goroutine dereferences a nil connection or buffer only when somebody has
\* closed the stream or the transfer it works for.
THEOREM CrashesOnlyByClose == Spec => []CrashOnlyByClose
<1>1. Init => CrashInv
  BY DEF Init, TransferInit, CrashInv, CrashOnlyByClose
<1>2. TypeOK /\ PanicInv /\ WindowInv /\ CrashInv /\ [Next]_vars => CrashInv'
  <2>. SUFFICES ASSUME TypeOK, PanicInv, WindowInv, CrashInv, [Next]_vars
                PROVE  CrashInv'
    OBVIOUS
  <2>1. CASE UNCHANGED vars
    BY <2>1, CrashFrame DEF vars, streamVars, transferVars, goVars, ownVars
  <2>. QED
    BY <2>1, CrashCallerStep, CrashTransferStep DEF Next, Rest
<1>3. CrashInv => CrashOnlyByClose
  BY DEF CrashInv
<1>. QED
  BY <1>1, <1>2, <1>3, Typing, PanicInductive, WindowInductive, PTL DEF Spec

-----------------------------------------------------------------------------
(* How many downloads there are. *)

\* What a step of a makes of the other callers.
LEMMA OthersStay ==
  ASSUME TypeOK, NEW a \in Callers, CallReadAt(a) \/ CallClose(a) \/ CallerStep(a)
  PROVE  \A b \in Callers \ {a} : pc'[b] = pc[b] /\ (mu' = b <=> mu = b)
<1>1. \A b \in Callers \ {a} : pc'[b] = pc[b]
  BY OwnStep DEF TypeOK, CallerOK, CallReadAt, CallClose, Call
<1>2. mu' = mu \/ (mu = NoCaller /\ mu' = a) \/ (mu = a /\ mu' = NoCaller)
  BY DEF CallReadAt, CallClose, Call, CallerStep, ReadStep, NewStep, CloseStep,
     TransferCloseStep, ReadLock, ReadIsClosed, ReadSeek, ReadWant, ReadWaitOk,
     ReadWaitFails, ReadWaitClosed, ReadCopy, ReadCopyFails, ReadNilBuffer,
     NewIsClosed, NewSpawnFails, NewIsOpen, NewDrop, NewReset, NewSpawn, NewInstall, CloseOld,
     CloseOldNil, CloseAgain, CloseCAS, CloseBuffer, CloseBufferFails,
     CloseBufferNil, CloseNoOld, CloseHasOld, CloseClear, TransferCloseCAS,
     TransferCloseAgain, TransferCloseConn, TransferCloseCancel,
     TransferCloseWait, TransferCloseReturn, Pass, Leave, Return, streamVars
<1>. QED
  BY <1>1, <1>2, CallersAssumption

\* A step of a keeps the count when a has not become one that may start a
\* download without a call, nor started one it was not counted for.
LEMMA CountFrame ==
  ASSUME TypeOK, TypeOK', CountInv, NEW a \in Callers,
         \A b \in Callers \ {a} : pc'[b] = pc[b] /\ (mu' = b <=> mu = b),
         \/ (a \in Coming' => a \in Coming) /\ made' = made /\ calls' >= calls
         \/ a \notin Coming /\ made' = made /\ calls' = calls + 1
         \/ a \in Coming /\ a \notin Coming' /\ made' = made + 1 /\ calls' = calls
  PROVE  CountInv'
<1>. DEFINE Others == Coming \ {a}
<1>1. Coming' \ {a} = Others
  BY DEF Coming
<1>2. /\ IsFiniteSet(Others)
      /\ Cardinality(Others) = IF a \in Coming THEN Cardinality(Coming) - 1 ELSE Cardinality(Coming)
  BY FS_RemoveElement DEF CountInv
<1>3. Coming' = IF a \in Coming' THEN Others \cup {a} ELSE Others
  BY <1>1
<1>4. /\ IsFiniteSet(Coming')
      /\ Cardinality(Coming') = IF a \in Coming' THEN Cardinality(Others) + 1 ELSE Cardinality(Others)
  <2>1. CASE a \in Coming'
    <3>1. IsFiniteSet(Others \cup {a}) /\ Cardinality(Others \cup {a}) = Cardinality(Others) + 1
      <4>1. a \notin Others
        OBVIOUS
      <4>. HIDE DEF Others
      <4>. QED
        BY <1>2, <4>1, FS_AddElement
    <3>. QED
      BY <1>3, <2>1, <3>1
  <2>2. CASE a \notin Coming'
    BY <1>2, <1>3, <2>2
  <2>. QED
    BY <2>1, <2>2
<1>5. /\ Cardinality(Coming) \in Nat /\ Cardinality(Coming') \in Nat
      /\ made \in Nat /\ calls \in Nat /\ made' \in Nat /\ calls' \in Nat
  BY <1>4, FS_CardinalityType, TransfersAssumption DEF CountInv, TypeOK, TransferOK, CallerOK
<1>6. made' + Cardinality(Coming') <= calls'
  BY <1>2, <1>4, <1>5 DEF CountInv
<1>. QED
  BY <1>4, <1>6 DEF CountInv

LEMMA CountStep ==
  ASSUME TypeOK, TypeOK', LockInv, CountInv, NEW a \in Callers,
         CallReadAt(a) \/ CallClose(a) \/ CallerStep(a)
  PROVE  CountInv'
<1>. USE DEF TypeOK, CallerOK, Coming, ClosePCs, HoldPCs, TransferClosePCs, LockInv,
         streamVars, transferVars, ownVars
<1>0. /\ \A b \in Callers \ {a} : pc'[b] = pc[b] /\ (mu' = b <=> mu = b)
      /\ calls \in Int
  BY OthersStay, TransfersAssumption
<1>1. CASE CallReadAt(a) \/ CallClose(a)
  <2>1. a \notin Coming /\ made' = made /\ calls' = calls + 1
    BY <1>1 DEF CallReadAt, CallClose, Call
  <2>. QED
    BY <1>0, <2>1, CountFrame
<1>2. CASE ReadStep(a)
  <2>1. a \in Coming' => a \in Coming
    BY <1>2 DEF ReadStep, ReadLock, ReadIsClosed, ReadSeek, ReadWant, ReadWaitOk,
       ReadWaitFails, ReadWaitClosed, ReadCopy, ReadCopyFails, ReadNilBuffer,
       Leave, Return, Pass, Goto
  <2>2. made' = made /\ calls' = calls
    BY <1>2 DEF ReadStep, ReadLock, ReadIsClosed, ReadSeek, ReadWant, ReadWaitOk,
       ReadWaitFails, ReadWaitClosed, ReadCopy, ReadCopyFails, ReadNilBuffer,
       Leave, Return, Pass, Goto
  <2>. QED
    BY <1>0, <2>1, <2>2, CountFrame
<1>3. CASE NewSpawn(a)
  <2>1. a \in Coming /\ a \notin Coming' /\ made' = made + 1 /\ calls' = calls
    BY <1>3 DEF NewSpawn, NewTransfer, Goto
  <2>. QED
    BY <1>0, <2>1, CountFrame
<1>4. CASE NewStep(a) /\ ~NewSpawn(a)
  <2>1. a \in Coming' => a \in Coming
    BY <1>4 DEF NewStep, NewIsClosed, NewSpawnFails, NewIsOpen, CloseOld, CloseOldNil, NewDrop,
       NewReset, NewInstall, Leave, Return, Pass, Goto
  <2>2. made' = made /\ calls' = calls
    BY <1>4 DEF NewStep, NewIsClosed, NewSpawnFails, NewIsOpen, CloseOld, CloseOldNil, NewDrop,
       NewReset, NewInstall, Leave, Return, Pass, Goto
  <2>. QED
    BY <1>0, <2>1, <2>2, CountFrame
<1>5. CASE CloseStep(a)
  <2>1. a \in Coming' => a \in Coming
    BY <1>5 DEF CloseStep, CloseAgain, CloseCAS, CloseBuffer, CloseBufferFails,
       CloseBufferNil, CloseNoOld, CloseHasOld, CloseOld, CloseOldNil, CloseClear,
       Leave, Return, Pass, Goto
  <2>2. made' = made /\ calls' = calls
    BY <1>5 DEF CloseStep, CloseAgain, CloseCAS, CloseBuffer, CloseBufferFails,
       CloseBufferNil, CloseNoOld, CloseHasOld, CloseOld, CloseOldNil, CloseClear,
       Leave, Return, Pass, Goto
  <2>. QED
    BY <1>0, <2>1, <2>2, CountFrame
<1>6. CASE TransferCloseStep(a)
  <2>1. a \in Coming' => a \in Coming
    BY <1>6 DEF TransferCloseStep, TransferCloseCAS, TransferCloseAgain, TransferCloseConn,
       TransferCloseCancel, TransferCloseWait, TransferCloseReturn, Goto
  <2>2. made' = made /\ calls' = calls
    BY <1>6 DEF TransferCloseStep, TransferCloseCAS, TransferCloseAgain, TransferCloseConn,
       TransferCloseCancel, TransferCloseWait, TransferCloseReturn, TransferCAS,
       TransferCancel, Goto
  <2>. QED
    BY <1>0, <2>1, <2>2, CountFrame
<1>. QED
  BY <1>1, <1>2, <1>3, <1>4, <1>5, <1>6 DEF CallerStep

LEMMA CountInductive == Spec => []CountInv
<1>1. Init => CountInv
  <2>. SUFFICES ASSUME Init PROVE CountInv
    OBVIOUS
  <2>1. Coming = {}
    BY DEF Init, StreamInit, Coming, TransferClosePCs
  <2>. QED
    BY <2>1, FS_EmptySet DEF Init, StreamInit, TransferInit, CountInv
<1>2. TypeOK /\ TypeOK' /\ LockInv /\ CountInv /\ [Next]_vars => CountInv'
  <2>. SUFFICES ASSUME TypeOK, TypeOK', LockInv, CountInv, [Next]_vars
                PROVE  CountInv'
    OBVIOUS
  <2>1. CASE UNCHANGED <<pc, mu, made, calls>>
    <3>1. Coming' = Coming
      BY <2>1 DEF Coming
    <3>. QED
      BY <2>1, <3>1 DEF CountInv
  <2>2. CASE \E a \in Callers : CallReadAt(a) \/ CallClose(a) \/ CallerStep(a)
    BY <2>2, CountStep
  <2>3. CASE \E t \in Transfers : TransferStep(t)
    BY <2>1, <2>3, TransferKeeps DEF streamVars, callerVars
  <2>. QED
    BY <2>1, <2>2, <2>3 DEF Next, Rest, vars, streamVars, callerVars, transferVars, ownVars
<1>. QED
  BY <1>1, <1>2, Typing, Locking, PTL DEF Spec

\* A stream never has made more transfers than it has been called.
THEOREM OneDownloadPerCall == Spec => [](made <= calls)
<1>1. TypeOK /\ CountInv => made <= calls
  <2>. SUFFICES ASSUME TypeOK, CountInv PROVE made <= calls
    OBVIOUS
  <2>1. made \in Nat /\ calls \in Nat /\ Cardinality(Coming) \in Nat
    BY FS_CardinalityType, TransfersAssumption DEF CountInv, TypeOK, TransferOK, CallerOK
  <2>. QED
    BY <2>1 DEF CountInv
<1>. QED
  BY <1>1, Typing, CountInductive, PTL

\* Every transfer that was made is one the model has.
LEMMA MadeInRange ==
  ASSUME TypeOK, CountInv
  PROVE  made \in Nat /\ \A t \in 1..made : t \in Transfers
<1>1. made \in Nat /\ calls \in 0..MaxTransfers /\ Cardinality(Coming) \in Nat
  BY FS_CardinalityType DEF CountInv, TypeOK, TransferOK, CallerOK
<1>2. made <= MaxTransfers
  BY <1>1, TransfersAssumption DEF CountInv
<1>. QED
  BY <1>1, <1>2, TransfersAssumption

-----------------------------------------------------------------------------
(* Who waits, and for whom. *)

LEMMA TargetFrame ==
  ASSUME TargetInv, TypeOK, NEW a \in Callers,
         UNCHANGED <<made, start, tClosed, tCancelled>>,
         transfer' = transfer \/ transfer' = 0 \/ transfer' = made,
         \A b \in Callers \ {a} : pc'[b] = pc[b] /\ target'[b] = target[b],
         pc'[a] \notin TransferClosePCs
  PROVE  TargetInv'
<1>1. transfer' <= made'
  BY DEF TargetInv, TypeOK, TransferOK
<1>. QED
  BY <1>1 DEF TargetInv

LEMMA TargetStep ==
  ASSUME TypeOK, CountInv, TargetInv, NEW a \in Callers,
         CallReadAt(a) \/ CallClose(a) \/ CallerStep(a)
  PROVE  TargetInv'
<1>. USE DEF TypeOK, CallerOK, TransferClosePCs, streamVars, transferVars, goVars, ownVars
<1>1. CASE CallReadAt(a) \/ CallClose(a)
  BY <1>1, TargetFrame DEF CallReadAt, CallClose, Call
<1>2. CASE ReadStep(a)
  BY <1>2, TargetFrame DEF ReadStep, ReadLock, ReadIsClosed, ReadSeek, ReadWant, ReadWaitOk,
     ReadWaitFails, ReadWaitClosed, ReadCopy, ReadCopyFails, ReadNilBuffer,
     Leave, Return, Pass, Goto
<1>3. CASE NewSpawn(a)
  <2>1. /\ made' = made + 1 /\ start' = [start EXCEPT ![made + 1] = "spawned"]
        /\ pc' = [pc EXCEPT ![a] = "install"]
        /\ UNCHANGED <<transfer, tClosed, tCancelled, target>>
    BY <1>3 DEF NewSpawn, NewTransfer, Goto
  <2>2. made \in Nat /\ transfer \in Nat /\ \A t \in Transfers : t \in Nat
    BY TransfersAssumption DEF TransferOK, StreamOK
  <2>3. \A t \in Transfers : t <= made' => start'[t] # "none"
    BY <2>1, <2>2 DEF TargetInv, TransferOK
  <2>4. \A n \in 1..made : n \in 1..made'
    BY <2>1, <2>2
  <2>5. transfer' <= made'
    BY <2>1, <2>2 DEF TargetInv
  <2>. QED
    BY <2>1, <2>3, <2>4, <2>5 DEF TargetInv
<1>4. CASE CloseOld(a, "newOld") \/ CloseOld(a, "oldClose")
  <2>1. /\ pc' = [pc EXCEPT ![a] = "tCAS"] /\ target' = [target EXCEPT ![a] = transfer]
        /\ transfer # 0
        /\ UNCHANGED <<transfer, made, start, tClosed, tCancelled>>
    BY <1>4 DEF CloseOld
  <2>2. transfer \in 1..made
    BY <2>1 DEF TargetInv, TransferOK, StreamOK
  <2>. QED
    BY <2>1, <2>2 DEF TargetInv
<1>5. CASE NewStep(a) /\ ~NewSpawn(a) /\ ~CloseOld(a, "newOld")
  BY <1>5, TargetFrame DEF NewStep, NewIsClosed, NewSpawnFails, NewIsOpen, CloseOldNil, NewDrop,
     NewReset, NewInstall, Leave, Return, Pass, Goto
<1>6. CASE CloseStep(a) /\ ~CloseOld(a, "oldClose")
  BY <1>6, TargetFrame DEF CloseStep, CloseAgain, CloseCAS, CloseBuffer, CloseBufferFails,
     CloseBufferNil, CloseNoOld, CloseHasOld, CloseOldNil, CloseClear, Leave, Return, Pass, Goto
<1>7. CASE TransferCloseCAS(a)
  <2>1. /\ pc[a] = "tCAS" /\ pc' = [pc EXCEPT ![a] = "tConn"]
        /\ tClosed' = [tClosed EXCEPT ![target[a]] = TRUE]
        /\ UNCHANGED <<transfer, made, start, tCancelled, target>>
    BY <1>7 DEF TransferCloseCAS, TransferCAS, Goto
  <2>2. target[a] \in Transfers
    BY <2>1, MadeInRange DEF TargetInv
  <2>3. \A t : tClosed[t] /\ t \in Transfers => tClosed'[t]
    BY <2>1 DEF TransferOK
  <2>4. tClosed'[target[a]]
    BY <2>1, <2>2 DEF TransferOK
  <2>5. \A b \in Callers : pc[b] \in TransferClosePCs => target[b] \in Transfers
    BY MadeInRange DEF TargetInv
  <2>. QED
    BY <2>1, <2>3, <2>4, <2>5 DEF TargetInv
<1>8. CASE TransferCloseCancel(a)
  <2>1. /\ pc[a] = "tCancel" /\ pc' = [pc EXCEPT ![a] = "tWait"]
        /\ tCancelled' = [tCancelled EXCEPT ![target[a]] = TRUE]
        /\ UNCHANGED <<transfer, made, start, tClosed, target>>
    BY <1>8 DEF TransferCloseCancel, TransferCancel, Goto
  <2>2. target[a] \in Transfers /\ tClosed[target[a]]
    BY <2>1, MadeInRange DEF TargetInv
  <2>3. \A t \in Transfers : tCancelled'[t] => tClosed[t]
    BY <2>1, <2>2 DEF TargetInv, TransferOK
  <2>4. \A t \in Transfers : tCancelled[t] => tCancelled'[t]
    BY <2>1 DEF TransferOK
  <2>5. tCancelled'[target[a]]
    BY <2>1, <2>2 DEF TransferOK
  <2>6. \A b \in Callers : pc[b] \in TransferClosePCs => target[b] \in Transfers
    BY MadeInRange DEF TargetInv
  <2>. QED
    BY <2>1, <2>3, <2>4, <2>5, <2>6 DEF TargetInv
<1>9. CASE TransferCloseConn(a)
  BY <1>9 DEF TransferCloseConn, Goto, TargetInv
<1>10. CASE TransferCloseAgain(a) \/ TransferCloseWait(a)
  BY <1>10, TargetFrame DEF TransferCloseAgain, TransferCloseWait, TransferCloseReturn
<1>. QED
  BY <1>1, <1>2, <1>3, <1>4, <1>5, <1>6, <1>7, <1>8, <1>9, <1>10
     DEF CallerStep, NewStep, CloseStep, TransferCloseStep

LEMMA TargetTransferStep ==
  ASSUME TypeOK, TargetInv, NEW t \in Transfers, TransferStep(t)
  PROVE  TargetInv'
<1>1. UNCHANGED <<transfer, made, tClosed, tCancelled, pc, target>>
  BY TransferKeeps DEF streamVars, callerVars
<1>2. \A u \in Transfers : start[u] # "none" => start'[u] # "none"
  BY DEF TransferStep, StartStep, CopyStep, StartRun, StartCancelled, StartDone, StartMark,
     StartMarkNil, CopyGet, CopyGetPointer, CopyCancelled, CopyContinue, CopyReadNil, CopyRead,
     CopyRecheck, CopyResponse, CopyRequestFails, CopyReceive, CopyBodyEnds, CopyWrite,
     CopyWriteClosed, CopyWriteNil, CopyGoto, CopyEnd, CopyCrash, TypeOK, TransferOK
<1>. QED
  BY <1>1, <1>2 DEF TargetInv

LEMMA TargetInductive == Spec => []TargetInv
<1>1. Init => TargetInv
  BY DEF Init, StreamInit, TransferInit, TargetInv, TransferClosePCs
<1>2. TypeOK /\ CountInv /\ TargetInv /\ [Next]_vars => TargetInv'
  <2>. SUFFICES ASSUME TypeOK, CountInv, TargetInv, [Next]_vars PROVE TargetInv'
    OBVIOUS
  <2>1. CASE UNCHANGED vars
    BY <2>1 DEF TargetInv, vars, streamVars, callerVars, transferVars, goVars, ownVars
  <2>. QED
    BY <2>1, TargetStep, TargetTransferStep DEF Next, Rest
<1>. QED
  BY <1>1, <1>2, Typing, CountInductive, PTL DEF Spec

\* Whoever waits in the Close of a transfer waits for one that exists, is
\* cancelled, and whose goroutine start was scheduled, so that its wait ends
\* whatever the copy beside it is blocked in.
THEOREM WaitersCancelFirst == Spec => []WaitsForCancelled
<1>1. TypeOK /\ CountInv /\ TargetInv => WaitsForCancelled
  <2>. SUFFICES ASSUME TypeOK, CountInv, TargetInv, NEW a \in Callers, pc[a] = "tWait"
                PROVE  /\ target[a] \in Transfers
                       /\ tCancelled[target[a]] /\ start[target[a]] # "none"
    BY DEF WaitsForCancelled
  <2>1. target[a] \in 1..made /\ tCancelled[target[a]]
    BY DEF TargetInv, TransferClosePCs
  <2>2. target[a] \in Transfers
    BY <2>1, MadeInRange
  <2>. QED
    BY <2>1, <2>2 DEF TargetInv
<1>. QED
  BY <1>1, Typing, CountInductive, TargetInductive, PTL

-----------------------------------------------------------------------------
(* A stream that is not disturbed. *)

\* What has been closed stays closed.
LEMMA ClosesStay ==
  ASSUME TypeOK, [Next]_vars
  PROVE  /\ closed => closed'
         /\ \A t \in Transfers : tClosed[t] => tClosed'[t]
<1>1. closed => closed'
  <2>1. ASSUME NEW a \in Callers, CallReadAt(a) \/ CallClose(a) PROVE closed' = closed
    BY <2>1 DEF CallReadAt, CallClose, Call, streamVars
  <2>2. ASSUME NEW a \in Callers, ReadStep(a) PROVE closed' = closed
    BY <2>2 DEF ReadStep, ReadLock, ReadIsClosed, ReadSeek, ReadWant, ReadWaitOk, ReadWaitFails,
       ReadWaitClosed, ReadCopy, ReadCopyFails, ReadNilBuffer, Pass, Goto, Leave, Return, streamVars
  <2>3. ASSUME NEW a \in Callers, NewStep(a) PROVE closed' = closed
    BY <2>3 DEF NewStep, NewIsClosed, NewSpawnFails, NewIsOpen, NewDrop, NewReset, NewSpawn, NewInstall, CloseOld,
       CloseOldNil, Pass, Goto, Leave, Return, streamVars
  <2>4. ASSUME NEW a \in Callers, CloseStep(a) PROVE closed => closed'
    BY <2>4 DEF CloseStep, CloseAgain, CloseCAS, CloseBuffer, CloseBufferFails, CloseBufferNil,
       CloseNoOld, CloseHasOld, CloseOld, CloseOldNil, CloseClear, Pass, Goto, Leave, Return, streamVars
  <2>5. ASSUME NEW a \in Callers, TransferCloseStep(a) PROVE closed' = closed
    BY <2>5 DEF TransferCloseStep, TransferCloseCAS, TransferCloseAgain, TransferCloseConn,
       TransferCloseCancel, TransferCloseWait, TransferCloseReturn, streamVars
  <2>. QED
    BY <2>1, <2>2, <2>3, <2>4, <2>5, TransferKeeps DEF Next, Rest, CallerStep, streamVars, vars
<1>2. \A t \in Transfers : tClosed[t] => tClosed'[t]
  <2>1. CASE \E a \in Callers : TransferCloseCAS(a)
    BY <2>1 DEF TransferCloseCAS, TransferCAS, TypeOK, TransferOK
  <2>2. CASE UNCHANGED tClosed
    BY <2>2
  <2>. QED
    BY <2>1, <2>2, TransferKeeps DEF Next, Rest, CallReadAt, CallClose, Call, CallerStep,
     ReadStep, NewStep, CloseStep,
     TransferCloseStep, ReadLock, ReadIsClosed, ReadSeek, ReadWant, ReadWaitOk,
     ReadWaitFails, ReadWaitClosed, ReadCopy, ReadCopyFails, ReadNilBuffer,
     NewIsClosed, NewSpawnFails, NewIsOpen, NewDrop, NewReset, NewSpawn, NewTransfer, NewInstall, CloseOld,
     CloseOldNil, CloseAgain, CloseCAS, CloseBuffer, CloseBufferFails,
     CloseBufferNil, CloseNoOld, CloseHasOld, CloseClear,
     TransferCloseAgain, TransferCloseConn, TransferCloseCancel, TransferCancel,
     TransferCloseWait, TransferCloseReturn, Pass, Leave, Return, transferVars, ownVars, vars
<1>. QED
  BY <1>1, <1>2

\* Only a ReadAt of the buffer answers with units.
LEMMA OnlyReadsAnswer ==
  ASSUME NEW a \in Callers, CallReadAt(a) \/ CallClose(a) \/ CallerStep(a),
         answer # "alien", answer' = "alien"
  PROVE  ReadCopy(a)
  BY DEF CallReadAt, CallClose, Call, CallerStep, ReadStep, NewStep, CloseStep,
     TransferCloseStep, ReadLock, ReadIsClosed, ReadSeek, ReadWant, ReadWaitOk,
     ReadWaitFails, ReadWaitClosed, ReadCopyFails, ReadNilBuffer,
     NewIsClosed, NewSpawnFails, NewIsOpen, NewDrop, NewReset, NewSpawn, NewInstall, CloseOld,
     CloseOldNil, CloseAgain, CloseCAS, CloseBuffer, CloseBufferFails,
     CloseBufferNil, CloseNoOld, CloseHasOld, CloseClear, TransferCloseCAS,
     TransferCloseAgain, TransferCloseConn, TransferCloseCancel,
     TransferCloseWait, TransferCloseReturn, Goto, Pass, Leave, Return

\* What the callers do to the transfers beside making and closing them.
LEMMA CallersKeepGoroutines ==
  ASSUME NEW a \in Callers, CallReadAt(a) \/ CallClose(a) \/ CallerStep(a)
  PROVE  /\ UNCHANGED <<copy, pooled, crashed>>
         /\ stale' => stale
         /\ ~NewReset(a) => epoch' = epoch /\ marker' = marker
         /\ ~NewSpawn(a) => made' = made /\ start' = start
         /\ ~TransferCloseWait(a) => outlived' = outlived
  BY DEF CallReadAt, CallClose, Call, CallerStep, ReadStep, NewStep, CloseStep,
     TransferCloseStep, ReadLock, ReadIsClosed, ReadSeek, ReadWant, ReadWaitOk,
     ReadWaitFails, ReadWaitClosed, ReadCopy, ReadCopyFails, ReadNilBuffer,
     NewIsClosed, NewSpawnFails, NewIsOpen, NewDrop, NewReset, NewSpawn, NewTransfer, NewInstall, CloseOld,
     CloseOldNil, CloseAgain, CloseCAS, CloseBuffer, CloseBufferFails,
     CloseBufferNil, CloseNoOld, CloseHasOld, CloseClear, TransferCloseCAS, TransferCAS,
     TransferCloseAgain, TransferCloseConn, TransferCloseCancel, TransferCancel,
     TransferCloseWait, TransferCloseReturn, Pass, Leave, Return, transferVars, goVars,
     ownVars, histVars

\* Which transfer the window belongs to.
LEMMA EpochStep ==
  ASSUME TypeOK, LockInv, OpenInv, FaultInv, NEW a \in Callers,
         CallReadAt(a) \/ CallClose(a) \/ CallerStep(a),
         closed => closed', \A t \in Transfers : tClosed[t] => tClosed'[t]
  PROVE  /\ \A b \in Callers : pc'[b] = "spawn" => epoch' = made' + 1
         /\ \A t \in Transfers : IsOpen(t)' => closed' \/ epoch' = t
<1>. USE DEF TypeOK, CallerOK, HoldPCs, LockInv
<1>1. \A b \in Callers \ {a} : pc'[b] = pc[b]
  BY OthersStay
<1>2. CASE NewReset(a)
  <2>1. /\ pc[a] = "reset" /\ mu = a /\ made' = made /\ epoch' = made + 1
        /\ pc' = [pc EXCEPT ![a] = "spawn"] /\ UNCHANGED <<closed, tClosed>>
    BY <1>2 DEF NewReset, Goto, ownVars, streamVars
  <2>2. \A t \in Transfers : IsOpen(t) => closed
    BY <2>1 DEF OpenInv, Making, MakePCs
  <2>. QED
    BY <2>1, <2>2 DEF IsOpen
<1>3. CASE NewSpawn(a)
  <2>1. /\ pc[a] = "spawn" /\ mu = a /\ epoch = made + 1 /\ made' = made + 1 /\ epoch' = epoch
        /\ pc' = [pc EXCEPT ![a] = "install"] /\ UNCHANGED <<closed, tClosed>>
    BY <1>3 DEF NewSpawn, NewTransfer, Goto, histVars, streamVars, FaultInv
  <2>2. \A b \in Callers : pc'[b] # "spawn"
    BY <1>1, <2>1
  <2>3. \A t \in Transfers : t <= made + 1 => t <= made \/ t = made + 1
    BY TransfersAssumption DEF TransferOK
  <2>4. \A t \in Transfers : IsOpen(t)' => IsOpen(t) \/ t = epoch
    BY <2>1, <2>3 DEF IsOpen
  <2>. QED
    BY <2>1, <2>2, <2>4 DEF FaultInv
<1>4. CASE ~NewReset(a) /\ ~NewSpawn(a)
  <2>1. epoch' = epoch /\ made' = made
    BY <1>4, CallersKeepGoroutines
  <2>2. pc'[a] = "spawn" => pc[a] = "spawn"
    BY <1>4 DEF CallReadAt, CallClose, Call, CallerStep, ReadStep, NewStep, CloseStep,
     TransferCloseStep, ReadLock, ReadIsClosed, ReadSeek, ReadWant, ReadWaitOk,
     ReadWaitFails, ReadWaitClosed, ReadCopy, ReadCopyFails, ReadNilBuffer,
     NewIsClosed, NewSpawnFails, NewIsOpen, NewDrop, NewInstall, CloseOld,
     CloseOldNil, CloseAgain, CloseCAS, CloseBuffer, CloseBufferFails,
     CloseBufferNil, CloseNoOld, CloseHasOld, CloseClear, TransferCloseCAS,
     TransferCloseAgain, TransferCloseConn, TransferCloseCancel,
     TransferCloseWait, TransferCloseReturn, Goto, Pass, Leave, Return
  <2>3. \A t \in Transfers : IsOpen(t)' => IsOpen(t)
    BY <2>1 DEF IsOpen
  <2>. QED
    BY <1>1, <2>1, <2>2, <2>3 DEF FaultInv
<1>. QED
  BY <1>2, <1>3, <1>4

LEMMA FaultCallerStep ==
  ASSUME TypeOK, LockInv, WindowInv, OpenInv, FaultInv, NEW a \in Callers,
         CallReadAt(a) \/ CallClose(a) \/ CallerStep(a), NothingClosed' => NothingClosed,
         closed => closed', \A t \in Transfers : tClosed[t] => tClosed'[t]
  PROVE  FaultInv'
<1>1. answer' = "alien" => answer = "alien" \/ stale
  BY OnlyReadsAnswer, AlienNeedsStale
<1>2. UNCHANGED <<copy, pooled, crashed>> /\ (stale' => stale)
  BY CallersKeepGoroutines
<1>3. crashed' = "pool" \/ stale' \/ answer' = "alien" => ~NothingClosed'
  BY <1>1, <1>2 DEF FaultInv
<1>4. pooled' => \E t \in Transfers : copy'[t] = "end"
  BY <1>2 DEF FaultInv
<1>. QED
  BY <1>3, <1>4, EpochStep DEF FaultInv

\* Two transfers that are not closed are one.
LEMMA FaultTransferStep ==
  ASSUME TypeOK, WindowInv, OpenInv, FaultInv, NEW t \in Transfers, TransferStep(t)
  PROVE  FaultInv'
<1>. USE DEF TypeOK, TransferOK
<1>1. /\ UNCHANGED <<closed, pc, answer, made, tClosed, epoch>>
      /\ NothingClosed' <=> NothingClosed
  BY TransferKeeps DEF streamVars, callerVars, NothingClosed
<1>2. copy[t] # "none" => t <= made
  BY TransfersAssumption DEF WindowInv
<1>3. crashed' = "pool" => crashed = "pool" \/ (pooled /\ copy[t] = "get")
  BY DEF TransferStep, StartStep, CopyStep, StartRun, StartCancelled, StartDone, StartMark,
     StartMarkNil, CopyGet, CopyGetPointer, CopyCancelled, CopyContinue, CopyReadNil, CopyRead,
     CopyRecheck, CopyResponse, CopyRequestFails, CopyReceive, CopyBodyEnds, CopyWrite,
     CopyWriteClosed, CopyWriteNil, CopyGoto, CopyEnd, CopyCrash
<1>4. stale' => stale \/ (copy[t] = "write" /\ t # epoch)
  BY DEF TransferStep, StartStep, CopyStep, StartRun, StartCancelled, StartDone, StartMark,
     StartMarkNil, CopyGet, CopyGetPointer, CopyCancelled, CopyContinue, CopyReadNil, CopyRead,
     CopyRecheck, CopyResponse, CopyRequestFails, CopyReceive, CopyBodyEnds, CopyWrite,
     CopyWriteClosed, CopyWriteNil, CopyGoto, CopyEnd, CopyCrash, histVars
<1>5. \/ UNCHANGED pooled
      \/ copy' = [copy EXCEPT ![t] = "end"]
  BY Zenon DEF TransferStep, StartStep, CopyStep, StartRun, StartCancelled, StartDone, StartMark,
     StartMarkNil, CopyGet, CopyGetPointer, CopyCancelled, CopyContinue, CopyReadNil, CopyRead,
     CopyRecheck, CopyResponse, CopyRequestFails, CopyReceive, CopyBodyEnds, CopyWrite,
     CopyWriteClosed, CopyWriteNil, CopyGoto, CopyEnd, CopyCrash
<1>6. \A u \in Transfers : copy[u] = "end" => copy'[u] = "end"
  <2>1. CASE StartRun(t)
    <3>1. copy[t] = "none" /\ copy' = [copy EXCEPT ![t] = "get"]
      BY <2>1 DEF StartRun, WindowInv
    <3>. QED
      BY <3>1
  <2>2. CASE StartCancelled(t) \/ StartDone(t) \/ StartMark(t) \/ StartMarkNil(t)
    <3>1. UNCHANGED copy
      BY <2>2 DEF StartCancelled, StartDone, StartMark, StartMarkNil
    <3>. QED
      BY <3>1
  <2>3. CASE CopyStep(t)
    BY <2>3 DEF CopyStep, CopyGet, CopyGetPointer, CopyCancelled, CopyContinue, CopyReadNil,
       CopyRead, CopyRecheck, CopyResponse, CopyRequestFails, CopyReceive, CopyBodyEnds,
       CopyWrite, CopyWriteClosed, CopyWriteNil, CopyGoto, CopyEnd, CopyCrash
  <2>. QED
    BY <2>1, <2>2, <2>3 DEF TransferStep, StartStep
<1>7. pooled /\ copy[t] = "get" => ~NothingClosed
  <2>. SUFFICES ASSUME pooled, copy[t] = "get", NothingClosed PROVE FALSE
    OBVIOUS
  <2>1. PICK u \in Transfers : copy[u] = "end"
    BY DEF FaultInv
  <2>2. u <= made
    BY <2>1, TransfersAssumption DEF WindowInv
  <2>3. IsOpen(t) /\ IsOpen(u)
    BY <1>2, <2>2 DEF IsOpen, NothingClosed
  <2>. QED
    BY <2>1, <2>3 DEF OpenInv, OneOpenTransfer
<1>8. copy[t] = "write" /\ t # epoch => ~NothingClosed
  BY <1>2 DEF FaultInv, IsOpen, NothingClosed
<1>9. crashed' = "pool" \/ stale' \/ answer' = "alien" => ~NothingClosed'
  BY <1>1, <1>3, <1>4, <1>7, <1>8 DEF FaultInv
<1>10. pooled' => \E u \in Transfers : copy'[u] = "end"
  <2>1. CASE UNCHANGED pooled
    <3>1. pooled' => pooled
      BY <2>1
    <3>. QED
      BY <3>1, <1>6 DEF FaultInv
  <2>2. CASE copy' = [copy EXCEPT ![t] = "end"]
    BY <2>2
  <2>. QED
    BY <1>5, <2>1, <2>2
<1>11. \A u \in Transfers : IsOpen(u)' => IsOpen(u)
  BY <1>1 DEF IsOpen
<1>. QED
  BY <1>1, <1>9, <1>10, <1>11 DEF FaultInv

LEMMA FaultInductive == Spec => []FaultInv
<1>1. Init => FaultInv
  BY DEF Init, StreamInit, TransferInit, FaultInv, IsOpen
<1>2. TypeOK /\ LockInv /\ WindowInv /\ OpenInv /\ FaultInv /\ [Next]_vars => FaultInv'
  <2>. SUFFICES ASSUME TypeOK, LockInv, WindowInv, OpenInv, FaultInv, [Next]_vars
                PROVE  FaultInv'
    OBVIOUS
  <2>0. /\ closed => closed'
        /\ \A t \in Transfers : tClosed[t] => tClosed'[t]
        /\ NothingClosed' => NothingClosed
    BY ClosesStay DEF NothingClosed
  <2>1. CASE UNCHANGED vars
    BY <2>1 DEF FaultInv, IsOpen, NothingClosed, vars, streamVars, callerVars, transferVars,
       goVars, ownVars, histVars
  <2>. QED
    BY <2>0, <2>1, FaultCallerStep, FaultTransferStep DEF Next, Rest
<1>. QED
  BY <1>1, <1>2, Typing, Locking, WindowInductive, OpenInductive, PTL DEF Spec

\* As long as nobody closes the stream and it has closed no transfer of its
\* own, no goroutine crashes, the window is exact, and no read gets a unit of
\* another position: the faults of this code need a seek or a Close.
THEOREM FaultsNeedClose == Spec => []FaultsOnlyByClose
<1>1. CrashOnlyByClose /\ FaultInv => FaultsOnlyByClose
  BY DEF FaultInv, FaultsOnlyByClose
<1>. QED
  BY <1>1, CrashesOnlyByClose, FaultInductive, PTL

-----------------------------------------------------------------------------
(* Short answers. *)

\* What the callers do to the buffer's contents: they reset it.
LEMMA CallersKeepBuffer ==
  ASSUME NEW a \in Callers, CallReadAt(a) \/ CallClose(a) \/ CallerStep(a),
         ~NewReset(a)
  PROVE  UNCHANGED <<base, top, eof>>
  BY DEF CallReadAt, CallClose, Call, CallerStep, ReadStep, NewStep, CloseStep,
     TransferCloseStep, ReadLock, ReadIsClosed, ReadSeek, ReadWant, ReadWaitOk,
     ReadWaitFails, ReadWaitClosed, ReadCopy, ReadCopyFails, ReadNilBuffer,
     NewIsClosed, NewSpawnFails, NewIsOpen, NewDrop, NewSpawn, NewInstall,
     CloseOld, CloseOldNil, CloseAgain, CloseCAS, CloseBuffer,
     CloseBufferFails, CloseBufferNil, CloseNoOld, CloseHasOld, CloseClear,
     TransferCloseCAS, TransferCloseAgain, TransferCloseConn,
     TransferCloseCancel, TransferCloseWait, TransferCloseReturn, BufReadAt,
     BufClose, Pass, Leave, Return, bufVars

LEMMA FilledInductive == Spec => []FilledInv
<1>1. Init => FilledInv
  BY DEF Init, BufInit, FilledInv
<1>2. TypeOK /\ WindowInv /\ FilledInv /\ [Next]_vars => FilledInv'
  <2>. SUFFICES ASSUME TypeOK, WindowInv, FilledInv, [Next]_vars
                PROVE  FilledInv'
    OBVIOUS
  <2>1. CASE UNCHANGED vars
    BY <2>1 DEF FilledInv, vars, transferVars, ownVars, bufVars
  <2>2. ASSUME NEW a \in Callers, CallReadAt(a) \/ CallClose(a) \/ CallerStep(a)
        PROVE  FilledInv'
    <3>1. CASE NewReset(a)
      <4>. DEFINE first == streamStartPosition(Seek(a))
      <4>1. top' = first /\ base' = first /\ ~eof'
        BY <3>1 DEF NewReset, ResetToPosition
      <4>2. first \in 0..Size-1
        BY StartInFile, RequestsAssumption, SizingAssumption
           DEF TypeOK, CallerOK, NoRequest, Seek
      <4>. HIDE DEF first
      <4>. QED
        BY <4>1, <4>2, SizingAssumption DEF FilledInv
    <3>2. CASE NewSpawn(a)
      <4>1. made' = made + 1
        BY <3>2 DEF NewSpawn, NewTransfer
      <4>. QED
        BY <4>1 DEF FilledInv, TypeOK, TransferOK
    <3>3. CASE ~NewReset(a) /\ ~NewSpawn(a)
      BY <2>2, <3>3, CallersKeepBuffer, CallersKeepGoroutines DEF FilledInv
    <3>. QED
      BY <3>1, <3>2, <3>3
  <2>3. ASSUME NEW t \in Transfers, TransferStep(t) PROVE FilledInv'
    <3>1. UNCHANGED <<base, made>>
      BY <2>3, TransferKeeps
    <3>2. UNCHANGED <<top, eof>> \/ copy[t] = "write" \/ start[t] = "mark"
      BY <2>3 DEF TransferStep, StartStep, CopyStep, StartRun, StartCancelled,
         StartDone, StartMark, StartMarkNil, CopyGet, CopyGetPointer,
         CopyCancelled, CopyContinue, CopyReadNil, CopyRead, CopyRecheck,
         CopyResponse, CopyRequestFails, CopyReceive, CopyBodyEnds, CopyWrite,
         CopyWriteClosed, CopyWriteNil, CopyGoto, CopyEnd, bufVars
    <3>3. copy[t] = "write" \/ start[t] = "mark" => made > 0
      BY TransfersAssumption DEF WindowInv, TypeOK, TransferOK
    <3>. QED
      BY <3>1, <3>2, <3>3 DEF FilledInv
  <2>. QED
    BY <2>1, <2>2, <2>3 DEF Next, Rest
<1>. QED
  BY <1>1, <1>2, Typing, WindowInductive, PTL DEF Spec

\* As long as nobody closes the stream only the reader inside newTransfer
\* closes a transfer.
LEMMA OneInside ==
  ASSUME LockInv, ~closed, NEW a \in Callers, NEW b \in Callers,
         pc[a] \in HoldPCs \cup TransferClosePCs,
         pc[b] \in HoldPCs \cup TransferClosePCs
  PROVE  a = b /\ mu = a
  BY DEF LockInv

\* A step that keeps what an open stream knows of its installed transfer.
LEMMA InstalledFrame ==
  ASSUME TypeOK, LockInv, InstalledInv, closed => closed', NEW a \in Callers,
         UNCHANGED <<made, tClosed, transfer, epoch>>,
         \A b \in Callers \ {a} :
           pc'[b] = pc[b] /\ target'[b] = target[b] /\ (mu' = b <=> mu = b),
         pc'[a] \notin MakePCs, pc[a] \notin MakePCs
  PROVE  InstalledInv'
<1>1. Making' => Making
  BY DEF Making
<1>2. Making => Making'
  BY DEF Making
<1>. QED
  BY <1>1, <1>2 DEF InstalledInv, MakePCs, TransferClosePCs

LEMMA InstalledNewStep ==
  ASSUME TypeOK, CountInv, CountInv', TypeOK', LockInv, PanicInv, FaultInv,
         InstalledInv, ~closed, NEW a \in Callers, NewStep(a)
  PROVE  InstalledInv'
<1>. USE DEF TypeOK, CallerOK, StreamOK, TransferOK, HoldPCs, LockInv,
         Making, MakePCs, TransferClosePCs, streamVars, transferVars, ownVars,
         goVars, histVars
<1>1. CASE NewIsClosed(a)
  BY <1>1 DEF NewIsClosed
<1>2. CASE CloseOldNil(a, "newOld")
  BY <1>2 DEF CloseOldNil, Leave, Return, PanicInv
<1>3. CASE NewSpawnFails(a)
  BY <1>3, CallersAssumption DEF NewSpawnFails, Leave, Return, InstalledInv
<1>4. CASE NewIsOpen(a)
  BY <1>4 DEF NewIsOpen, Pass, Goto, InstalledInv
<1>5. CASE CloseOld(a, "newOld")
  BY <1>5 DEF CloseOld, InstalledInv
<1>6. CASE NewDrop(a)
  BY <1>6 DEF NewDrop, Goto, InstalledInv
<1>7. CASE NewReset(a)
  BY <1>7 DEF NewReset, Goto, InstalledInv
<1>8. CASE NewSpawn(a)
  <2>1. /\ pc[a] = "spawn" /\ mu = a /\ epoch = made + 1 /\ made' = made + 1
        /\ pc' = [pc EXCEPT ![a] = "install"]
        /\ UNCHANGED <<mu, closed, transfer, tClosed, epoch, target>>
    BY <1>8 DEF NewSpawn, NewTransfer, Goto, FaultInv
  <2>2. made' \in Transfers /\ made' > made
    <3>1. Cardinality(Coming') \in Nat /\ calls' \in 0..MaxTransfers
      BY FS_CardinalityType DEF CountInv
    <3>. QED
      BY <2>1, <3>1, TransfersAssumption DEF CountInv
  <2>3. ~tClosed[made']
    BY <2>2 DEF InstalledInv
  <2>. QED
    BY <2>1, <2>3, TransfersAssumption DEF InstalledInv
<1>9. CASE NewInstall(a)
  BY <1>9 DEF NewInstall, Goto, InstalledInv
<1>. QED
  BY <1>1, <1>2, <1>3, <1>4, <1>5, <1>6, <1>7, <1>8, <1>9 DEF NewStep

LEMMA InstalledTransferCloseStep ==
  ASSUME TypeOK, CountInv, LockInv, TargetInv, InstalledInv,
         NEW a \in Callers, TransferCloseStep(a)
  PROVE  InstalledInv'
<1>. USE DEF TypeOK, CallerOK, StreamOK, TransferOK, HoldPCs, LockInv,
         Making, MakePCs, TransferClosePCs, streamVars, transferVars, ownVars,
         goVars, histVars
<1>1. CASE TransferCloseCAS(a)
  <2>1. /\ pc[a] = "tCAS" /\ pc' = [pc EXCEPT ![a] = "tConn"]
        /\ tClosed' = [tClosed EXCEPT ![target[a]] = TRUE]
        /\ UNCHANGED <<mu, closed, transfer, made, epoch, target>>
    BY <1>1 DEF TransferCloseCAS, TransferCAS, Goto
  <2>2. target[a] \in 1..made
    BY <2>1 DEF TargetInv
  <2>3. \A t \in Transfers : t > made' => ~tClosed'[t]
    BY <2>1, <2>2 DEF InstalledInv
  <2>. QED
    BY <2>1, <2>3 DEF InstalledInv
<1>2. CASE TransferCloseAgain(a) \/ TransferCloseWait(a)
  <2>1. /\ pc[a] \in {"tCAS", "tWait"}
        /\ pc' = [pc EXCEPT ![a] = IF mu = a THEN "drop" ELSE "clear"]
        /\ target' = [target EXCEPT ![a] = 0]
        /\ UNCHANGED <<mu, closed, transfer, made, tClosed, epoch>>
    BY <1>2 DEF TransferCloseAgain, TransferCloseWait, TransferCloseReturn
  <2>2. ~closed => mu = a
    BY <2>1
  <2>. QED
    BY <2>1, <2>2 DEF InstalledInv
<1>3. CASE TransferCloseConn(a) \/ TransferCloseCancel(a)
  <2>1. /\ \/ pc[a] = "tConn" /\ pc' = [pc EXCEPT ![a] = "tCancel"]
           \/ pc[a] = "tCancel" /\ pc' = [pc EXCEPT ![a] = "tWait"]
        /\ UNCHANGED <<mu, closed, transfer, made, tClosed, epoch, target>>
    BY <1>3 DEF TransferCloseConn, TransferCloseCancel, TransferCancel, Goto
  <2>. QED
    BY <2>1 DEF InstalledInv
<1>. QED
  BY <1>1, <1>2, <1>3 DEF TransferCloseStep

\* A step of Close either finds the stream closed or closes it.
LEMMA CloseIsClosed ==
  ASSUME TypeOK, LockInv, NEW a \in Callers, CloseStep(a)
  PROVE  closed'
  BY DEF CloseStep, CloseAgain, CloseCAS, CloseBuffer, CloseBufferFails,
     CloseBufferNil, CloseNoOld, CloseHasOld, CloseOld, CloseOldNil,
     CloseClear, Leave, Return, Pass, Goto, LockInv, ClosePCs, streamVars

LEMMA InstalledInductive == Spec => []InstalledInv
<1>1. Init => InstalledInv
  BY DEF Init, TransferInit, StreamInit, InstalledInv, TransferClosePCs
<1>2. TypeOK /\ TypeOK' /\ CountInv /\ CountInv' /\ LockInv /\ PanicInv
        /\ TargetInv /\ FaultInv /\ InstalledInv /\ [Next]_vars
          => InstalledInv'
  <2>. SUFFICES ASSUME TypeOK, TypeOK', CountInv, CountInv', LockInv, PanicInv,
                       TargetInv, FaultInv, InstalledInv, [Next]_vars
                PROVE  InstalledInv'
    OBVIOUS
  <2>0. closed => closed'
    BY ClosesStay
  <2>1. CASE UNCHANGED <<made, tClosed, epoch, streamVars, callerVars>>
    BY <2>1 DEF InstalledInv, Making, streamVars, callerVars
  <2>2. ASSUME NEW t \in Transfers, TransferStep(t) PROVE InstalledInv'
    BY <2>1, <2>2, TransferKeeps
  <2>3. ASSUME NEW a \in Callers, CallReadAt(a) \/ CallClose(a) \/ ReadStep(a)
        PROVE  InstalledInv'
    <3>1. /\ \A b \in Callers \ {a} : pc'[b] = pc[b] /\ (mu' = b <=> mu = b)
          /\ UNCHANGED <<made, epoch>>
      BY <2>3, OthersStay, CallersKeepGoroutines
         DEF CallerStep, ReadStep, CallReadAt, CallClose, Call, ReadLock,
             ReadIsClosed, ReadSeek, ReadWant, ReadWaitOk, ReadWaitFails,
             ReadWaitClosed, ReadCopy, ReadCopyFails, ReadNilBuffer, Goto,
             Pass, Leave, Return, transferVars, ownVars, histVars
    <3>2. UNCHANGED <<tClosed, transfer, target>>
      BY <2>3 DEF ReadStep, CallReadAt, CallClose, Call, ReadLock,
         ReadIsClosed, ReadSeek, ReadWant, ReadWaitOk, ReadWaitFails,
         ReadWaitClosed, ReadCopy, ReadCopyFails, ReadNilBuffer, Goto, Pass,
         Leave, Return, streamVars, transferVars, ownVars
    <3>3. CASE pc[a] = "reset"
      <4>1. closed
        BY <2>3, <3>3 DEF ReadStep, CallReadAt, CallClose, Call, ReadLock,
           ReadIsClosed, ReadSeek, ReadWant, ReadWaitOk, ReadWaitFails,
           ReadWaitClosed, ReadCopy, ReadCopyFails, ReadNilBuffer, Goto, Pass,
           Leave, Return, PanicInv
      <4>. QED
        BY <2>0, <3>1, <3>2, <4>1 DEF InstalledInv
    <3>4. CASE pc[a] # "reset"
      <4>1. pc[a] \notin MakePCs /\ pc'[a] \notin MakePCs
        BY <2>3, <3>4 DEF ReadStep, CallReadAt, CallClose, Call, ReadLock,
           ReadIsClosed, ReadSeek, ReadWant, ReadWaitOk, ReadWaitFails,
           ReadWaitClosed, ReadCopy, ReadCopyFails, ReadNilBuffer, Goto, Pass,
           Leave, Return, MakePCs, TransferClosePCs, TypeOK, CallerOK
      <4>. QED
        BY <2>0, <3>1, <3>2, <4>1, InstalledFrame
    <3>. QED
      BY <3>3, <3>4
  <2>4. ASSUME NEW a \in Callers, NewStep(a) PROVE InstalledInv'
    <3>1. CASE closed
      <4>1. \A t \in Transfers : t > made' => ~tClosed'[t]
        <5>1. tClosed' = tClosed
          BY <2>4 DEF NewStep, NewIsClosed, NewSpawnFails, NewIsOpen, CloseOld,
             CloseOldNil, NewDrop, NewReset, NewSpawn, NewTransfer, NewInstall,
             Pass, Leave, Return, transferVars, ownVars
        <5>2. made' = made \/ made' = made + 1
          BY <2>4, CallersKeepGoroutines DEF CallerStep, NewSpawn, NewTransfer
        <5>. QED
          BY <5>1, <5>2, TransfersAssumption DEF InstalledInv, TypeOK, TransferOK
      <4>. QED
        BY <2>0, <3>1, <4>1 DEF InstalledInv
    <3>. QED
      BY <2>4, <3>1, InstalledNewStep
  <2>5. ASSUME NEW a \in Callers, CloseStep(a) PROVE InstalledInv'
    <3>1. UNCHANGED <<made, tClosed>>
      BY <2>5 DEF CloseStep, CloseAgain, CloseCAS, CloseBuffer,
         CloseBufferFails, CloseBufferNil, CloseNoOld, CloseHasOld, CloseOld,
         CloseOldNil, CloseClear, Leave, Return, Pass, transferVars, ownVars
    <3>. QED
      BY <2>5, <3>1, CloseIsClosed DEF InstalledInv
  <2>. QED
    BY <2>1, <2>2, <2>3, <2>4, <2>5, InstalledTransferCloseStep
       DEF Next, Rest, CallerStep, vars, transferVars, ownVars, histVars
<1>. QED
  BY <1>1, <1>2, Typing, CountInductive, Locking, PanicInductive,
     TargetInductive, FaultInductive, PTL DEF Spec

\* A step that writes no marker and ends no Close of a transfer.
LEMMA MarkFrame ==
  ASSUME MarkInv, closed => closed', NEW a \in Callers,
         UNCHANGED <<eof, marker, start, epoch, outlived>>,
         \A b \in Callers \ {a} : pc'[b] = pc[b],
         pc'[a] \notin {"drop", "reset"} \/ pc[a] = "drop"
  PROVE  MarkInv'
  BY DEF MarkInv, Settled

LEMMA MarkNewStep ==
  ASSUME TypeOK, LockInv, PanicInv, WindowInv, FaultInv, InstalledInv, MarkInv,
         ~closed, NEW a \in Callers, NewStep(a)
  PROVE  MarkInv'
<1>. USE DEF TypeOK, CallerOK, StreamOK, TransferOK
<1>1. CASE NewIsClosed(a)
  BY <1>1 DEF NewIsClosed
<1>2. CASE CloseOldNil(a, "newOld")
  BY <1>2 DEF CloseOldNil, Leave, Return, PanicInv
<1>3. CASE NewSpawnFails(a) \/ CloseOld(a, "newOld") \/ NewInstall(a) \/ NewDrop(a)
  <2>1. /\ UNCHANGED <<closed, eof, marker, start, epoch, outlived>>
        /\ \A b \in Callers \ {a} : pc'[b] = pc[b]
        /\ pc'[a] \notin {"drop", "reset"} \/ pc[a] = "drop"
    BY <1>3 DEF NewSpawnFails, CloseOld, NewInstall, NewDrop, Goto, Leave,
       Return, streamVars, transferVars, goVars, histVars, bufVars
  <2>. QED
    BY <2>1, MarkFrame
<1>4. CASE NewIsOpen(a)
  <2>1. /\ UNCHANGED <<closed, eof, marker, start, epoch, outlived>>
        /\ pc[a] = "new" /\ \A b \in Callers \ {a} : pc'[b] = pc[b]
        /\ pc'[a] = IF transfer = 0 THEN "reset" ELSE "newOld"
    BY <1>4 DEF NewIsOpen, Pass, Goto, streamVars, transferVars, goVars,
       histVars, bufVars
  <2>2. ~Making
    BY <2>1 DEF LockInv, HoldPCs, Making, MakePCs, TransferClosePCs
  <2>3. transfer = 0 => \A t \in Transfers : start[t] = "none"
    BY <2>2, TransfersAssumption DEF InstalledInv, WindowInv
  <2>. QED
    BY <2>1, <2>3 DEF MarkInv, Settled
<1>5. CASE NewReset(a)
  <2>1. /\ pc[a] = "reset" /\ marker' = 0 /\ ~eof' /\ epoch' = made + 1
        /\ pc' = [pc EXCEPT ![a] = "spawn"]
        /\ UNCHANGED <<closed, start, outlived>>
    BY <1>5 DEF NewReset, ResetToPosition, Goto, streamVars, goVars
  <2>2. 0 \notin Transfers
    BY TransfersAssumption
  <2>3. \A t \in Transfers : Settled(t)
    BY <2>1 DEF MarkInv
  <2>. QED
    BY <2>1, <2>2, <2>3 DEF MarkInv, Settled
<1>6. CASE NewSpawn(a)
  <2>1. /\ pc[a] = "spawn" /\ epoch = made + 1
        /\ pc' = [pc EXCEPT ![a] = "install"]
        /\ start' = [start EXCEPT ![made + 1] = "spawned"]
        /\ UNCHANGED <<closed, eof, marker, epoch, outlived>>
    BY <1>6 DEF NewSpawn, NewTransfer, Goto, FaultInv, streamVars, histVars, bufVars
  <2>2. \A t \in Transfers : t = made + 1 => start[t] = "none"
    BY TransfersAssumption DEF WindowInv
  <2>3. \A b \in Callers : pc'[b] \notin {"drop", "reset"}
    BY <2>1 DEF LockInv, HoldPCs
  <2>4. marker \in Transfers => start'[marker] = "end"
    BY <2>1, <2>2 DEF MarkInv
  <2>5. \A t \in Transfers : t # epoch => start'[t] = start[t]
    BY <2>1
  <2>. QED
    BY <2>1, <2>3, <2>4, <2>5 DEF MarkInv, Settled
<1>. QED
  BY <1>1, <1>2, <1>3, <1>4, <1>5, <1>6 DEF NewStep

\* Of a closed stream only this is known: who has set eof.
LEMMA MarkNewClosed ==
  ASSUME TypeOK, WindowInv, MarkInv, closed, closed', NEW a \in Callers, NewStep(a)
  PROVE  MarkInv'
<1>1. CASE NewReset(a)
  <2>1. marker' = 0 /\ ~eof'
    BY <1>1 DEF NewReset, ResetToPosition
  <2>. QED
    BY <2>1, TransfersAssumption DEF MarkInv
<1>2. CASE NewSpawn(a)
  <2>1. /\ start' = [start EXCEPT ![made + 1] = "spawned"]
        /\ UNCHANGED <<eof, marker>>
    BY <1>2 DEF NewSpawn, NewTransfer, histVars, bufVars
  <2>2. \A t \in Transfers : t = made + 1 => start[t] = "none"
    BY TransfersAssumption DEF WindowInv, TypeOK, TransferOK
  <2>. QED
    BY <2>1, <2>2 DEF MarkInv, TypeOK, TransferOK
<1>3. CASE ~NewReset(a) /\ ~NewSpawn(a)
  <2>1. UNCHANGED <<eof, marker, start>>
    BY <1>3, CallersKeepGoroutines, CallersKeepBuffer DEF CallerStep
  <2>. QED
    BY <2>1 DEF MarkInv
<1>. QED
  BY <1>1, <1>2, <1>3

LEMMA MarkTransferCloseStep ==
  ASSUME TypeOK, LockInv, InstalledInv, MarkInv,
         NEW a \in Callers, TransferCloseStep(a)
  PROVE  MarkInv'
<1>. USE DEF TypeOK, CallerOK, streamVars, transferVars, goVars, histVars, bufVars
<1>1. CASE TransferCloseCAS(a) \/ TransferCloseConn(a) \/ TransferCloseCancel(a)
  <2>1. /\ UNCHANGED <<closed, eof, marker, start, epoch, outlived>>
        /\ \A b \in Callers \ {a} : pc'[b] = pc[b]
        /\ pc'[a] \notin {"drop", "reset"}
    BY <1>1 DEF TransferCloseCAS, TransferCloseConn, TransferCloseCancel, Goto
  <2>. QED
    BY <2>1, MarkFrame
<1>2. CASE TransferCloseAgain(a)
  <2>1. /\ pc[a] = "tCAS" /\ tClosed[target[a]]
        /\ UNCHANGED <<closed, eof, marker, start, epoch, outlived>>
    BY <1>2 DEF TransferCloseAgain, TransferCloseReturn
  <2>2. closed
    BY <2>1 DEF InstalledInv
  <2>. QED
    BY <2>1, <2>2 DEF MarkInv
<1>3. CASE TransferCloseWait(a)
  <2>1. /\ pc[a] = "tWait" /\ start[target[a]] \in {"spawned", "end"}
        /\ \A b \in Callers \ {a} : pc'[b] = pc[b]
        /\ outlived \subseteq outlived'
        /\ start[target[a]] = "spawned" => target[a] \in outlived'
        /\ UNCHANGED <<closed, eof, marker, start, epoch>>
    BY <1>3 DEF TransferCloseWait, TransferCloseReturn, WaitGroupIsZero
  <2>2. ~closed => target[a] = epoch
    BY <2>1 DEF InstalledInv, TransferClosePCs
  <2>3. \A t \in Transfers : Settled(t) => Settled(t)'
    BY <2>1 DEF Settled
  <2>4. ~closed => \A t \in Transfers : Settled(t)'
    BY <2>1, <2>2, <2>3 DEF MarkInv, Settled
  <2>. QED
    BY <2>1, <2>3, <2>4 DEF MarkInv
<1>. QED
  BY <1>1, <1>2, <1>3 DEF TransferCloseStep

LEMMA MarkTransferStep ==
  ASSUME TypeOK, MarkInv, NEW t \in Transfers, TransferStep(t)
  PROVE  MarkInv'
<1>. USE DEF TypeOK, TransferOK
<1>1. UNCHANGED <<closed, pc, epoch, outlived>>
  BY TransferKeeps DEF streamVars, callerVars
<1>2. CASE StartMark(t)
  <2>1. /\ start[t] = "mark" /\ start' = [start EXCEPT ![t] = "end"]
        /\ marker' = IF eof \/ bufClosed THEN marker ELSE t
        /\ eof' = (eof \/ ~bufClosed)
    BY <1>2 DEF StartMark, WriteEOFMarker
  <2>2. \A u \in Transfers : Settled(u) => Settled(u)'
    BY <1>1, <2>1 DEF Settled
  <2>3. Settled(t) => t \in outlived
    BY <2>1 DEF Settled
  <2>4. marker' \in Transfers => start'[marker'] = "end"
    BY <2>1 DEF MarkInv
  <2>5. eof' => marker' \in Transfers
    BY <2>1 DEF MarkInv
  <2>6. ~closed => marker' \in {0, epoch} \cup outlived
    BY <2>1, <2>3 DEF MarkInv
  <2>. QED
    BY <1>1, <2>2, <2>4, <2>5, <2>6 DEF MarkInv
<1>3. CASE ~StartMark(t)
  <2>1. UNCHANGED <<eof, marker>>
    BY <1>3 DEF TransferStep, StartStep, CopyStep, StartRun, StartCancelled,
       StartDone, StartMarkNil, CopyGet, CopyGetPointer, CopyCancelled,
       CopyContinue, CopyReadNil, CopyRead, CopyRecheck, CopyResponse,
       CopyRequestFails, CopyReceive, CopyBodyEnds, CopyWrite,
       CopyWriteClosed, CopyWriteNil, BufWrite, bufVars, histVars
  <2>2. /\ \A u \in Transfers : Settled(u) => Settled(u)'
        /\ \A u \in Transfers : start[u] = "end" => start'[u] = "end"
    BY <1>1, <1>3 DEF TransferStep, StartStep, CopyStep, StartRun,
       StartCancelled, StartDone, StartMarkNil, CopyGet, CopyGetPointer,
       CopyCancelled, CopyContinue, CopyReadNil, CopyRead, CopyRecheck,
       CopyResponse, CopyRequestFails, CopyReceive, CopyBodyEnds, CopyWrite,
       CopyWriteClosed, CopyWriteNil, CopyGoto, CopyEnd, CopyCrash, Settled
  <2>. QED
    BY <1>1, <2>1, <2>2 DEF MarkInv
<1>. QED
  BY <1>2, <1>3

LEMMA MarkInductive == Spec => []MarkInv
<1>1. Init => MarkInv
  BY TransfersAssumption
     DEF Init, BufInit, TransferInit, StreamInit, MarkInv, Settled
<1>2. TypeOK /\ LockInv /\ PanicInv /\ WindowInv /\ FaultInv /\ InstalledInv
        /\ MarkInv /\ [Next]_vars => MarkInv'
  <2>. SUFFICES ASSUME TypeOK, LockInv, PanicInv, WindowInv, FaultInv,
                       InstalledInv, MarkInv, [Next]_vars
                PROVE  MarkInv'
    OBVIOUS
  <2>0. closed => closed'
    BY ClosesStay
  <2>1. CASE UNCHANGED vars
    BY <2>1 DEF MarkInv, Settled, vars, streamVars, callerVars, transferVars,
       goVars, histVars, bufVars
  <2>2. ASSUME NEW a \in Callers,
               CallReadAt(a) \/ CallClose(a) \/ ReadStep(a) \/ CloseStep(a)
        PROVE  MarkInv'
    <3>1. /\ \A b \in Callers \ {a} : pc'[b] = pc[b]
          /\ ~NewReset(a) /\ ~NewSpawn(a) /\ ~TransferCloseWait(a)
               => UNCHANGED <<eof, marker, start, epoch, outlived>>
      BY <2>2, OthersStay, CallersKeepGoroutines, CallersKeepBuffer DEF CallerStep
    <3>2. /\ ~NewReset(a) /\ ~NewSpawn(a) /\ ~TransferCloseWait(a)
          /\ pc'[a] \notin {"drop", "reset"}
      BY <2>2 DEF TypeOK, CallerOK, CallReadAt, CallClose, Call, ReadStep,
         CloseStep, NewReset, NewSpawn, TransferCloseWait, TransferCloseReturn,
         ReadLock, ReadIsClosed, ReadSeek, ReadWant, ReadWaitOk, ReadWaitFails,
         ReadWaitClosed, ReadCopy, ReadCopyFails, ReadNilBuffer, CloseAgain,
         CloseCAS, CloseBuffer, CloseBufferFails, CloseBufferNil, CloseNoOld,
         CloseHasOld, CloseOld, CloseOldNil, CloseClear, Goto, Pass, Leave,
         Return
    <3>. QED
      BY <2>0, <3>1, <3>2, MarkFrame
  <2>3. ASSUME NEW a \in Callers, NewStep(a) PROVE MarkInv'
    BY <2>0, <2>3, MarkNewStep, MarkNewClosed
  <2>. QED
    BY <2>1, <2>2, <2>3, MarkTransferCloseStep, MarkTransferStep
       DEF Next, Rest, CallerStep
<1>. QED
  BY <1>1, <1>2, Typing, Locking, PanicInductive, WindowInductive,
     FaultInductive, InstalledInductive, PTL DEF Spec

\* A read that comes back with fewer units than it asked for has met a Close,
\* the end of its own download, or the marker of a superseded start that had
\* not run yet when the Close of its transfer returned.
THEOREM ShortReadsAtEnd == Spec => ShortOnlyAtEnd
<1>1. ASSUME TypeOK, WaitedInv, MarkInv, [Next]_vars, ReadReturns, answer' = "short"
      PROVE  \/ closed
             \/ marker = epoch /\ epoch \in Transfers /\ start[epoch] = "end"
             \/ marker \in outlived
  <2>1. PICK a \in Callers : ReadCopy(a)
    BY <1>1, ReturnsCopy
  <2>2. AnswerOf(a) = "short" /\ pc[a] = "read"
    BY <1>1, <2>1 DEF ReadCopy, Return
  <2>3. ReadEnd(Seek(a), req[a][2]) < Wanted(a)
    BY <2>2 DEF AnswerOf
  <2>4. Seek(a) \in Nat /\ req[a][2] \in Nat
    BY <1>1, RequestsAssumption, SizingAssumption
       DEF TypeOK, CallerOK, NoRequest, Seek
  <2>6. Size \in Nat /\ top \in Nat
    BY <1>1, SizingAssumption DEF TypeOK, BufOK
  <2>5. ~(Wanted(a) < top)
    BY <2>3, <2>4, <2>6 DEF ReadEnd, Wanted, Seek, requestedPosition, Lesser, Greater
  <2>7. eof \/ closed
    BY <1>1, <2>2, <2>5 DEF WaitedInv
  <2>8. 0 \notin Transfers
    BY TransfersAssumption
  <2>. QED
    BY <1>1, <2>7, <2>8 DEF MarkInv
<1>2. TypeOK /\ WaitedInv /\ MarkInv /\ [Next]_vars
        => [(ReadReturns /\ answer' = "short") =>
              \/ closed
              \/ marker = epoch /\ epoch \in Transfers /\ start[epoch] = "end"
              \/ marker \in outlived]_vars
  BY <1>1
<1>. QED
  BY <1>2, Typing, WaitedInductive, MarkInductive, PTL DEF Spec, ShortOnlyAtEnd

-----------------------------------------------------------------------------
(* The stream implements its contract. *)

LEMMA RequestStep ==
  ASSUME TypeOK, LockInv, RequestInv, NEW a \in Callers,
         CallReadAt(a) \/ CallClose(a) \/ CallerStep(a)
  PROVE  RequestInv'
<1>. USE CallersAssumption DEF TypeOK, CallerOK, StreamOK, ClosePCs, HoldPCs,
         TransferClosePCs, LockInv, RequestInv, streamVars
<1>1. CASE CallReadAt(a) \/ CallClose(a)
  <2>1. \A r \in Requests : r # NoRequest
    BY RequestsAssumption DEF NoRequest
  <2>. QED
    BY <1>1, <2>1 DEF CallReadAt, CallClose, Call
<1>2. CASE ReadStep(a)
  <2>1. CASE ReadLock(a)
    BY <2>1 DEF ReadLock, Goto
  <2>2. CASE ReadIsClosed(a) \/ ReadWaitFails(a) \/ ReadCopyFails(a)
             \/ ReadNilBuffer(a) \/ ReadCopy(a)
    BY <2>2 DEF ReadIsClosed, ReadWaitFails, ReadCopyFails, ReadNilBuffer,
       ReadCopy, Leave, Return
  <2>3. CASE ReadSeek(a) \/ ReadWant(a) \/ ReadWaitOk(a) \/ ReadWaitClosed(a)
    BY <2>3 DEF ReadSeek, ReadWant, ReadWaitOk, ReadWaitClosed, Pass, Goto
  <2>. QED
    BY <1>2, <2>1, <2>2, <2>3 DEF ReadStep
<1>3. CASE NewStep(a)
  <2>1. CASE NewIsClosed(a) \/ NewSpawnFails(a) \/ CloseOldNil(a, "newOld")
    BY <2>1 DEF NewIsClosed, NewSpawnFails, CloseOldNil, Leave, Return
  <2>2. CASE NewIsOpen(a)
    BY <2>2 DEF NewIsOpen, Pass, Goto
  <2>3. CASE CloseOld(a, "newOld")
    BY <2>3 DEF CloseOld
  <2>4. CASE NewDrop(a) \/ NewReset(a) \/ NewSpawn(a) \/ NewInstall(a)
    BY <2>4 DEF NewDrop, NewReset, NewSpawn, NewInstall, Goto
  <2>. QED
    BY <1>3, <2>1, <2>2, <2>3, <2>4 DEF NewStep
<1>4. CASE CloseStep(a)
  <2>1. CASE CloseAgain(a) \/ CloseNoOld(a) \/ CloseOldNil(a, "oldClose")
             \/ CloseBufferFails(a) \/ CloseClear(a)
    BY <2>1 DEF CloseAgain, CloseNoOld, CloseOldNil, CloseBufferFails,
       CloseClear, Leave, Return
  <2>2. CASE CloseHasOld(a) \/ CloseCAS(a) \/ CloseBuffer(a) \/ CloseBufferNil(a)
    BY <2>2 DEF CloseHasOld, CloseCAS, CloseBuffer, CloseBufferNil, Pass, Goto
  <2>3. CASE CloseOld(a, "oldClose")
    BY <2>3 DEF CloseOld
  <2>. QED
    BY <1>4, <2>1, <2>2, <2>3 DEF CloseStep
<1>5. CASE TransferCloseStep(a)
  BY <1>5 DEF TransferCloseStep, TransferCloseCAS, TransferCloseAgain,
     TransferCloseConn, TransferCloseCancel, TransferCloseWait,
     TransferCloseReturn, Pass, Goto
<1>. QED
  BY <1>1, <1>2, <1>3, <1>4, <1>5 DEF CallerStep

LEMMA RequestInductive == Spec => []RequestInv
<1>1. Init => RequestInv
  BY DEF Init, StreamInit, RequestInv, HoldPCs, ClosePCs, TransferClosePCs
<1>2. TypeOK /\ LockInv /\ RequestInv /\ [Next]_vars => RequestInv'
  <2>. SUFFICES ASSUME TypeOK, LockInv, RequestInv, [Next]_vars
                PROVE  RequestInv'
    OBVIOUS
  <2>1. CASE UNCHANGED <<streamVars, callerVars>>
    BY <2>1 DEF RequestInv, streamVars, callerVars
  <2>. QED
    BY <2>1, RequestStep DEF Next, Rest, TransferStep, vars
<1>. QED
  BY <1>1, <1>2, Typing, Locking, PTL DEF Spec

\* A step that keeps the phase of every caller, and nothing else of the
\* contract's state changes.
LEMMA Stutters ==
  ASSUME closed' = closed, answer' = answer, made' = made,
         \A a \in Callers : PhaseOf(a)' = PhaseOf(a)
  PROVE  UNCHANGED Contract!contractVars
  BY DEF Contract!contractVars, phaseBar

LEMMA MovesOne ==
  ASSUME NEW a \in Callers, NEW to, PhaseOf(a)' = to,
         \A b \in Callers \ {a} : PhaseOf(b)' = PhaseOf(b)
  PROVE  phaseBar' = [phaseBar EXCEPT ![a] = to]
  BY DEF phaseBar

\* What a method that returns means to the contract.
LEMMA ReturnEnds ==
  ASSUME TypeOK, NEW a \in Callers, NEW from, from # "idle", NEW how,
         Return(a, from, how)
  PROVE  /\ phaseBar[a] = PhaseOf(a)
         /\ phaseBar' = [phaseBar EXCEPT ![a] = "idle"]
         /\ answer' = how /\ closed' = closed /\ made' = made
<1>1. PhaseOf(a)' = "idle" /\ \A b \in Callers \ {a} : PhaseOf(b)' = PhaseOf(b)
  BY DEF Return, PhaseOf, TypeOK, CallerOK
<1>. QED
  BY <1>1, MovesOne DEF Return, phaseBar, transferVars, ownVars

LEMMA GotoPhase ==
  ASSUME TypeOK, NEW a \in Callers, NEW from, NEW to, Goto(a, from, to),
         from \notin {"idle", "lock"}, to \notin {"idle", "lock"}
  PROVE  answer' = answer /\ \A b \in Callers : PhaseOf(b)' = PhaseOf(b)
  BY DEF Goto, PhaseOf, TypeOK, CallerOK

LEMMA ContractCalls ==
  ASSUME TypeOK, RequestInv, NEW a \in Callers, CallReadAt(a) \/ CallClose(a)
  PROVE  Contract!ReadCalled(a) \/ Contract!CloseCalled(a)
<1>1. /\ closed' = closed /\ answer' = answer /\ made' = made
      /\ phaseBar[a] = "idle"
  BY DEF CallReadAt, CallClose, Call, streamVars, transferVars, ownVars,
     phaseBar, PhaseOf
<1>2. \A b \in Callers \ {a} : PhaseOf(b)' = PhaseOf(b)
  BY DEF CallReadAt, CallClose, Call, PhaseOf, TypeOK, CallerOK
<1>3. CASE CallReadAt(a)
  <2>1. PhaseOf(a)' = "called"
    <3>1. \A r \in Requests : r # NoRequest
      BY RequestsAssumption DEF NoRequest
    <3>. QED
      BY <1>3, <3>1 DEF CallReadAt, Call, PhaseOf, TypeOK, CallerOK
  <2>. QED
    BY <1>1, <1>2, <2>1, MovesOne DEF Contract!ReadCalled, Contract!Enter
<1>4. CASE CallClose(a)
  <2>1. PhaseOf(a)' = "closing"
    BY <1>4 DEF CallClose, Call, PhaseOf, RequestInv, TypeOK, CallerOK
  <2>. QED
    BY <1>1, <1>2, <2>1, MovesOne DEF Contract!CloseCalled, Contract!Enter
<1>. QED
  BY <1>3, <1>4

\* What a read can be served from, a transfer has put there.
LEMMA ReadableFilled ==
  ASSUME TypeOK, FilledInv, NEW a \in Callers, Readable(Seek(a))
  PROVE  made > 0
<1>1. Seek(a) \in Nat /\ base \in Nat /\ top \in Nat
  BY RequestsAssumption, SizingAssumption
     DEF TypeOK, BufOK, CallerOK, NoRequest, Seek
<1>2. top > base \/ eof
  BY <1>1, SizingAssumption
     DEF Readable, Oldest, BufferSize, calculateBufferSize, Lesser, Greater
<1>. QED
  BY <1>2 DEF FilledInv

LEMMA ContractReads ==
  ASSUME TypeOK, PanicInv, FilledInv, RequestInv, NEW a \in Callers, ReadStep(a)
  PROVE  \/ Contract!Admit(a) \/ Contract!Refuse(a) \/ Contract!ReadEnds(a)
         \/ Contract!ReadPanics(a) \/ UNCHANGED Contract!contractVars
<1>. USE DEF Contract!Ends, Contract!Data
<1>1. CASE ReadLock(a)
  <2>1. phaseBar[a] = "called" /\ PhaseOf(a)' = "admitted"
    BY <1>1 DEF ReadLock, Goto, phaseBar, PhaseOf, RequestInv, TypeOK, CallerOK
  <2>2. \A b \in Callers \ {a} : PhaseOf(b)' = PhaseOf(b)
    BY <1>1 DEF ReadLock, Goto, PhaseOf, TypeOK, CallerOK
  <2>. QED
    BY <1>1, <2>1, <2>2, MovesOne
       DEF ReadLock, Goto, transferVars, ownVars, Contract!Admit
<1>2. CASE ReadIsClosed(a)
  <2>1. phaseBar[a] = "called"
    BY <1>2 DEF ReadIsClosed, Leave, Return, phaseBar, PhaseOf, RequestInv
  <2>. QED
    BY <1>2, <2>1, ReturnEnds DEF ReadIsClosed, Leave, Contract!Refuse
<1>3. CASE ReadWaitFails(a) \/ ReadCopyFails(a)
  <2>1. PICK from \in {"wait", "read"} : Return(a, from, "error")
    BY <1>3 DEF ReadWaitFails, ReadCopyFails, Leave
  <2>2. phaseBar[a] = "admitted"
    BY <2>1 DEF Return, phaseBar, PhaseOf, RequestInv, HoldPCs
  <2>. QED
    BY <2>1, <2>2, ReturnEnds DEF Contract!ReadEnds
<1>6. CASE ReadCopy(a)
  <2>1. PICK how \in {"full", "short", "alien"} : Return(a, "read", how)
    BY <1>6 DEF ReadCopy, AnswerOf
  <2>2. phaseBar[a] = "admitted"
    BY <2>1 DEF Return, phaseBar, PhaseOf, RequestInv, HoldPCs
  <2>3. made > 0
    BY <1>6, ReadableFilled DEF ReadCopy, BufReadAt
  <2>. QED
    BY <2>1, <2>2, <2>3, ReturnEnds DEF Contract!ReadEnds
<1>4. CASE ReadNilBuffer(a)
  <2>1. PICK from \in {"seek", "reset", "want", "read"} : Return(a, from, "panic")
    BY <1>4 DEF ReadNilBuffer, Leave
  <2>2. phaseBar[a] = "admitted"
    BY <2>1 DEF Return, phaseBar, PhaseOf, RequestInv, HoldPCs
  <2>3. closed
    BY <1>4 DEF ReadNilBuffer, PanicInv
  <2>. QED
    BY <2>1, <2>2, <2>3, ReturnEnds DEF Contract!ReadPanics
<1>5. CASE ReadSeek(a) \/ ReadWant(a) \/ ReadWaitOk(a) \/ ReadWaitClosed(a)
  BY <1>5, GotoPhase, Stutters
     DEF ReadSeek, ReadWant, ReadWaitOk, ReadWaitClosed, Pass, streamVars,
         transferVars, ownVars
<1>. QED
  BY <1>1, <1>2, <1>3, <1>4, <1>5, <1>6 DEF ReadStep

LEMMA ContractNews ==
  ASSUME TypeOK, PanicInv, RequestInv, NEW a \in Callers, NewStep(a)
  PROVE  \/ Contract!ReadEnds(a) \/ Contract!ReadPanics(a) \/ Contract!Start
         \/ UNCHANGED Contract!contractVars
<1>. USE DEF Contract!Ends, Contract!Data
<1>1. CASE NewIsClosed(a) \/ NewSpawnFails(a) \/ CloseOldNil(a, "newOld")
  <2>1. PICK from \in {"new", "newOld", "spawn"} : \E how \in {"error", "panic"} :
          Return(a, from, how) /\ (how = "panic" => closed \/ ~(made > 0))
    BY <1>1 DEF NewIsClosed, NewSpawnFails, CloseOldNil, Leave, Return, PanicInv
  <2>2. phaseBar[a] = "admitted"
    BY <2>1 DEF Return, phaseBar, PhaseOf, RequestInv, HoldPCs
  <2>. QED
    BY <2>1, <2>2, ReturnEnds DEF Contract!ReadEnds, Contract!ReadPanics
<1>2. CASE CloseOld(a, "newOld")
  <2>1. \A b \in Callers : PhaseOf(b)' = PhaseOf(b)
    BY <1>2 DEF CloseOld, PhaseOf, TypeOK, CallerOK
  <2>. QED
    BY <1>2, <2>1, Stutters DEF CloseOld, streamVars, transferVars, ownVars
<1>3. CASE NewIsOpen(a) \/ NewDrop(a) \/ NewReset(a) \/ NewInstall(a)
  BY <1>3, GotoPhase, Stutters
     DEF NewIsOpen, NewDrop, NewReset, NewInstall, Pass, streamVars,
         transferVars, ownVars
<1>4. CASE NewSpawn(a)
  <2>1. /\ UNCHANGED <<closed, answer>> /\ made' = made + 1 /\ made \in Nat
        /\ \A b \in Callers : PhaseOf(b)' = PhaseOf(b)
    BY <1>4, GotoPhase
       DEF NewSpawn, NewTransfer, streamVars, TypeOK, TransferOK
  <2>2. phaseBar' = phaseBar
    BY <2>1 DEF phaseBar
  <2>3. phaseBar[a] = "admitted"
    BY <1>4 DEF NewSpawn, Goto, phaseBar, PhaseOf, RequestInv, HoldPCs
  <2>4. CASE made > 0
    <3>1. (made > 0)' = (made > 0)
      BY <2>1, <2>4
    <3>. QED
      BY <2>1, <2>2, <3>1 DEF Contract!contractVars
  <2>5. CASE ~(made > 0)
    <3>1. (made > 0)' = TRUE
      BY <2>1
    <3>. QED
      BY <2>1, <2>2, <2>3, <2>5, <3>1 DEF Contract!Start
  <2>. QED
    BY <2>4, <2>5
<1>. QED
  BY <1>1, <1>2, <1>3, <1>4 DEF NewStep

LEMMA ContractCloses ==
  ASSUME TypeOK, LockInv, RequestInv, NEW a \in Callers,
         CloseStep(a) \/ TransferCloseStep(a)
  PROVE  \/ Contract!CloseBegins(a) \/ Contract!CloseEnds(a)
         \/ UNCHANGED Contract!contractVars
<1>1. CASE CloseAgain(a) \/ CloseNoOld(a) \/ CloseOldNil(a, "oldClose")
           \/ CloseBufferFails(a) \/ CloseClear(a)
  <2>1. PICK from \in ClosePCs : \E how \in {"closed", "error", "panic"} :
          Return(a, from, how)
    BY <1>1 DEF CloseAgain, CloseNoOld, CloseOldNil, CloseBufferFails,
       CloseClear, Leave, ClosePCs
  <2>2. closed
    BY <1>1 DEF CloseAgain, CloseNoOld, CloseOldNil, CloseBufferFails,
       CloseClear, Leave, Return, ClosePCs, LockInv
  <2>3. phaseBar[a] = "closing"
    BY <2>1 DEF Return, phaseBar, PhaseOf, RequestInv, ClosePCs
  <2>. QED
    BY <2>1, <2>2, <2>3, ReturnEnds
       DEF Contract!CloseEnds, Contract!Ends, ClosePCs
<1>2. CASE CloseCAS(a)
  <2>1. phaseBar[a] = "closing"
    BY <1>2 DEF CloseCAS, Goto, phaseBar, PhaseOf, RequestInv, ClosePCs
  <2>2. answer' = answer /\ made' = made /\ phaseBar' = phaseBar
    BY <1>2, GotoPhase DEF CloseCAS, phaseBar, transferVars, ownVars
  <2>. QED
    BY <1>2, <2>1, <2>2 DEF CloseCAS, Contract!CloseBegins
<1>3. CASE CloseHasOld(a) \/ CloseBuffer(a) \/ CloseBufferNil(a)
  BY <1>3, GotoPhase, Stutters
     DEF CloseHasOld, CloseBuffer, CloseBufferNil, Pass, streamVars,
         transferVars, ownVars
<1>4. CASE CloseOld(a, "oldClose")
  <2>1. \A b \in Callers : PhaseOf(b)' = PhaseOf(b)
    BY <1>4 DEF CloseOld, PhaseOf, TypeOK, CallerOK
  <2>. QED
    BY <1>4, <2>1, Stutters DEF CloseOld, streamVars, transferVars, ownVars
<1>5. CASE TransferCloseAgain(a) \/ TransferCloseWait(a)
  <2>1. \A b \in Callers : PhaseOf(b)' = PhaseOf(b)
    BY <1>5 DEF TransferCloseAgain, TransferCloseWait, TransferCloseReturn,
       PhaseOf, TypeOK, CallerOK
  <2>. QED
    BY <1>5, <2>1, Stutters
       DEF TransferCloseAgain, TransferCloseWait, TransferCloseReturn,
           streamVars, ownVars
<1>6. CASE TransferCloseCAS(a) \/ TransferCloseConn(a) \/ TransferCloseCancel(a)
  BY <1>6, GotoPhase, Stutters
     DEF TransferCloseCAS, TransferCAS, TransferCloseConn, TransferCloseCancel,
         TransferCancel, streamVars, transferVars, ownVars
<1>. QED
  BY <1>1, <1>2, <1>3, <1>4, <1>5, <1>6 DEF CloseStep, TransferCloseStep

\* Whatever its transfers and its buffer do, a stream does to its callers what
\* StreamContract says and nothing else.
THEOREM StreamImplementsContract == Spec => ImplementsContract
<1>1. Init => Contract!ContractInit
  BY DEF Init, StreamInit, TransferInit, Contract!ContractInit, phaseBar, PhaseOf
<1>2. TypeOK /\ LockInv /\ PanicInv /\ FilledInv /\ RequestInv /\ [Next]_vars
        => [Contract!ContractNext]_Contract!contractVars
  <2>. SUFFICES ASSUME TypeOK, LockInv, PanicInv, FilledInv, RequestInv,
                       [Next]_vars
                PROVE  Contract!ContractNext \/ UNCHANGED Contract!contractVars
    OBVIOUS
  <2>1. CASE UNCHANGED <<streamVars, callerVars, made>>
    BY <2>1, Stutters DEF PhaseOf, streamVars, callerVars
  <2>2. CASE \E a \in Callers : CallReadAt(a) \/ CallClose(a) \/ CallerStep(a)
    BY <2>2, ContractCalls, ContractReads, ContractNews, ContractCloses
       DEF CallerStep, Contract!ContractNext
  <2>. QED
    BY <2>1, <2>2, TransferKeeps DEF Next, Rest, vars, transferVars, ownVars
<1>. QED
  BY <1>1, <1>2, Typing, Locking, PanicInductive, FilledInductive,
     RequestInductive, PTL
     DEF Spec, ImplementsContract, Contract!ContractSpec

=============================================================================
