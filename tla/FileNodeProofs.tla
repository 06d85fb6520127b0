--------------------------- MODULE FileNodeProofs ---------------------------
(***************************************************************************)
(* Proofs about FileNode, for any number of concurrent Opens.              *)
(***************************************************************************)
EXTENDS FileNode, TLAPS

\* Close has begun.
Begun == closer # "idle"

\* What Close has set says how far it is.
FlagInv ==
  /\ nodeClosed <=> Begun
  /\ serviceClosed => Begun
  /\ ~serviceSet => Begun

\* A handle that was returned before Close is in the list until Close ranges
\* over it, then in the hands of a goroutine of Close, and then closed.
EarlyInv ==
  /\ closer \in {"idle", "service", "drop", "range"} => early \subseteq handles \cup lost
  /\ closer = "wait" => early \subseteq closing \cup handleClosed \cup lost
  /\ closer = "end" => early \subseteq handleClosed \cup lost

\* The places a nil handle gets to on its way into the list that Close reads.
NilInv ==
  /\ \A o \in Openers : pc[o] \in {"append", "store"} /\ mine[o] = NilHandle => Begun
  /\ \A o \in Openers : pc[o] \in {"append", "store"} /\ mine[o] = NilHandle => overlap
  /\ \A o \in Openers : NilHandle \in snapshot[o] => Begun /\ overlap
  /\ NilHandle \in handles \cup closing => Begun /\ overlap
  /\ closer = "crashed" => overlap

\* An Open that is past the check of nodeClosed was inside when Close began.
InsideInv ==
  \A o \in Openers :
    Begun /\ pc[o] \in {"service", "new", "append", "store"} => overlap

NodeInv ==
  /\ TypeOK /\ FlagInv /\ EarlyInv /\ NilInv /\ InsideInv
  /\ BadAnswerOnlyByClose

-----------------------------------------------------------------------------
(* Types. *)

LEMMA InitInv == Init => NodeInv
<1>1. Init => TypeOK
  <2>. SUFFICES ASSUME Init PROVE TypeOK
    OBVIOUS
  <2>1. /\ mine \in [Openers -> 0..made] /\ snapshot \in [Openers -> SUBSET (0..made)]
        /\ pc \in [Openers -> {"idle", "node", "service", "new", "append", "store"}]
    BY DEF Init, NilHandle
  <2>2. opens \in 0..MaxOpens /\ made \in Nat
    <3>1. opens = 0 /\ made = 0
      BY DEF Init
    <3>. QED
      BY <3>1, OpensAssumption DEF OpensAssumption
  <2>4. /\ nodeClosed \in BOOLEAN /\ serviceClosed \in BOOLEAN /\ serviceSet \in BOOLEAN
        /\ overlap \in BOOLEAN
    BY DEF Init
  <2>3. handles = {} /\ lost = {} /\ early = {} /\ closing = {} /\ handleClosed = {}
        /\ closer = "idle" /\ outcome = "none"
    BY DEF Init
  <2>. QED
    BY <2>1, <2>2, <2>3, <2>4 DEF TypeOK
<1>2. Init => FlagInv /\ EarlyInv /\ InsideInv /\ BadAnswerOnlyByClose
  BY DEF Init, FlagInv, EarlyInv, InsideInv, Begun, BadAnswerOnlyByClose
<1>3. Init => NilInv
  BY DEF Init, NilInv
<1>. QED
  BY <1>1, <1>2, <1>3 DEF NodeInv

LEMMA OpenKeepsTypes == ASSUME TypeOK, NEW o \in Openers, OpenStep(o) PROVE TypeOK'
<1>1. CASE CallOpen(o)
  <2>1. opens' \in 0..MaxOpens
    BY <1>1, OpensAssumption DEF CallOpen, TypeOK, OpensAssumption
  <2>. QED
    BY <1>1, <2>1 DEF CallOpen, Goto, TypeOK, nodeVars, closeVars
<1>2. CASE OpenIsClosed(o) \/ ServiceIsNil(o) \/ NewLoggerFails(o)
  BY <1>2 DEF OpenIsClosed, ServiceIsNil, NewLoggerFails, Fail, Goto, TypeOK, nodeVars, closeVars
<1>3. CASE OpenIsOpen(o)
  BY <1>3 DEF OpenIsOpen, Pass, Goto, TypeOK, nodeVars, closeVars
<1>8. CASE ServiceFound(o)
  BY <1>8 DEF ServiceFound, Pass, Goto, TypeOK, nodeVars, closeVars
<1>7. CASE ServiceIsClosed(o)
  BY <1>7 DEF ServiceIsClosed, Pass, Goto, TypeOK, nodeVars, closeVars
<1>4. CASE NewHandle(o)
  <2>1. made' = made + 1 /\ 0..made \subseteq 0..made' /\ 1..made \subseteq 1..made'
    BY <1>4 DEF NewHandle, TypeOK
  <2>2. mine' \in [Openers -> 0..made']
    BY <1>4, <2>1 DEF NewHandle, TypeOK
  <2>3. snapshot' \in [Openers -> SUBSET (0..made')]
    BY <1>4, <2>1 DEF NewHandle, TypeOK
  <2>. QED
    BY <1>4, <2>1, <2>2, <2>3 DEF NewHandle, Goto, TypeOK, nodeVars, closeVars
<1>5. CASE AppendLoad(o)
  BY <1>5 DEF AppendLoad, Goto, TypeOK, nodeVars, closeVars
<1>6. CASE AppendStore(o)
  <2>1. mine[o] \in 0..made /\ snapshot[o] \subseteq 0..made
    BY DEF TypeOK
  <2>2. /\ handles' \subseteq 0..made /\ lost' \subseteq 0..made /\ early' \subseteq 0..made
        /\ outcome' \in {"handle", "nil"}
    BY <1>6, <2>1 DEF AppendStore, TypeOK
  <2>3. /\ mine' \in [Openers -> 0..made] /\ snapshot' \in [Openers -> SUBSET (0..made)]
        /\ pc' \in [Openers -> {"idle", "node", "service", "new", "append", "store"}]
    BY <1>6 DEF AppendStore, Goto, TypeOK, NilHandle
  <2>. QED
    BY <1>6, <2>2, <2>3 DEF AppendStore, TypeOK, nodeVars, closeVars
<1>. QED
  BY <1>1, <1>2, <1>3, <1>4, <1>5, <1>6, <1>7, <1>8 DEF OpenStep

LEMMA CloseKeepsTypes == ASSUME TypeOK, CloseStep PROVE TypeOK'
<1>1. CASE \E h \in 1..made : HandleCloses(h)
  BY <1>1 DEF HandleCloses, CloserGoto, TypeOK, openVars, nodeVars
<1>2. CASE CloseCAS \/ CloseService \/ CloseDropService
  BY <1>2 DEF CloseCAS, CloseService, CloseDropService, CloserGoto, TypeOK, openVars, nodeVars
<1>3. CASE CloseRange \/ HandleIsNil \/ CloseEnd
  BY <1>3 DEF CloseRange, HandleIsNil, CloseEnd, CloserGoto, TypeOK, openVars, nodeVars
<1>. QED
  BY <1>1, <1>2, <1>3 DEF CloseStep

-----------------------------------------------------------------------------
(* The other parts of the invariant. *)

LEMMA FlagsStay ==
  ASSUME FlagInv, Next PROVE FlagInv'
<1>1. CASE \E o \in Openers : OpenStep(o)
  BY <1>1 DEF OpenStep, CallOpen, OpenIsClosed, OpenIsOpen, ServiceIsNil, NewLoggerFails, ServiceFound,
     ServiceIsClosed, NewHandle, AppendLoad, AppendStore, Fail, Pass, FlagInv, Begun,
     nodeVars, closeVars
<1>2. CASE CloseStep
  BY <1>2 DEF CloseStep, CloseCAS, CloseService, CloseDropService, CloseRange,
     HandleCloses, HandleIsNil, CloseEnd, CloserGoto, FlagInv, Begun, nodeVars
<1>3. CASE Rest
  BY <1>3 DEF Rest, vars, FlagInv, Begun, nodeVars, closeVars
<1>. QED
  BY <1>1, <1>2, <1>3 DEF Next

\* An Open moves no handle out of reach of Close: what its append writes over
\* is counted as lost.
LEMMA OpenKeepsEarly ==
  ASSUME TypeOK, FlagInv, EarlyInv, NEW o \in Openers, OpenStep(o)
  PROVE  EarlyInv'
<1>1. CASE AppendStore(o)
  <2>1. handles \cup lost \subseteq handles' \cup lost'
    BY <1>1 DEF AppendStore
  <2>2. lost \subseteq lost'
    BY <1>1 DEF AppendStore
  <2>3. UNCHANGED <<closer, closing, handleClosed>>
    BY <1>1 DEF AppendStore, closeVars
  <2>4. CASE Begun
    BY <1>1, <2>1, <2>2, <2>3, <2>4 DEF AppendStore, FlagInv, EarlyInv, Begun
  <2>5. CASE ~Begun
    <3>1. early' = early \cup {mine[o]} /\ mine[o] \in handles'
      BY <1>1, <2>5 DEF AppendStore, FlagInv
    <3>. QED
      BY <2>1, <2>3, <2>5, <3>1 DEF EarlyInv, Begun
  <2>. QED
    BY <2>4, <2>5
<1>2. CASE ~AppendStore(o)
  BY <1>2 DEF OpenStep, CallOpen, OpenIsClosed, OpenIsOpen, ServiceIsNil, NewLoggerFails, ServiceFound,
     ServiceIsClosed, NewHandle, AppendLoad, Fail, Pass, EarlyInv, closeVars
<1>. QED
  BY <1>1, <1>2

LEMMA CloseKeepsEarly ==
  ASSUME EarlyInv, CloseStep PROVE EarlyInv'
  BY DEF CloseStep, CloseCAS, CloseService, CloseDropService, CloseRange, HandleCloses,
     HandleIsNil, CloseEnd, CloserGoto, EarlyInv

\* A nil handle comes only from a service that is closed, and only to an Open
\* that was inside when Close began.
LEMMA OpenKeepsNil ==
  ASSUME TypeOK, FlagInv, NilInv, InsideInv, NEW o \in Openers, OpenStep(o)
  PROVE  NilInv' /\ InsideInv'
<1>1. UNCHANGED <<closer, closing, overlap>>
  BY DEF OpenStep, CallOpen, OpenIsClosed, OpenIsOpen, ServiceIsNil, NewLoggerFails, ServiceFound,
     ServiceIsClosed, NewHandle, AppendLoad, AppendStore, Fail, Pass, closeVars
<1>2. InsideInv'
  BY <1>1 DEF OpenStep, CallOpen, OpenIsClosed, OpenIsOpen, ServiceIsNil, NewLoggerFails, ServiceFound,
     ServiceIsClosed, NewHandle, AppendLoad, AppendStore, Fail, Pass, Goto, InsideInv,
     FlagInv, Begun, TypeOK
<1>3. NilInv'
  <2>1. CASE AppendLoad(o)
    BY <1>1, <2>1 DEF AppendLoad, Goto, NilInv, Begun, TypeOK
  <2>2. CASE AppendStore(o)
    BY <1>1, <2>2 DEF AppendStore, Goto, NilInv, Begun, TypeOK
  <2>3. CASE NewHandle(o)
    <3>1. made + 1 # NilHandle
      BY DEF TypeOK, NilHandle
    <3>. QED
      BY <1>1, <2>3, <3>1 DEF NewHandle, Goto, NilInv, Begun, TypeOK
  <2>4. CASE ServiceIsClosed(o)
    BY <1>1, <2>4 DEF ServiceIsClosed, Pass, Goto, NilInv, InsideInv, FlagInv, Begun, TypeOK
  <2>5. CASE CallOpen(o) \/ OpenIsClosed(o) \/ OpenIsOpen(o) \/ ServiceIsNil(o) \/ NewLoggerFails(o) \/ ServiceFound(o)
    BY <1>1, <2>5 DEF CallOpen, OpenIsClosed, OpenIsOpen, ServiceIsNil, NewLoggerFails, ServiceFound,
       Fail, Pass, Goto, NilInv, Begun, TypeOK
  <2>. QED
    BY <2>1, <2>2, <2>3, <2>4, <2>5 DEF OpenStep
<1>. QED
  BY <1>2, <1>3

LEMMA CloseKeepsNil ==
  ASSUME TypeOK, NilInv, InsideInv, CloseStep
  PROVE  NilInv' /\ InsideInv'
<1>1. UNCHANGED <<pc, mine, snapshot>>
  BY DEF CloseStep, CloseCAS, CloseService, CloseDropService, CloseRange, HandleCloses,
     HandleIsNil, CloseEnd, CloserGoto, openVars
<1>2. Begun'
  BY DEF CloseStep, CloseCAS, CloseService, CloseDropService, CloseRange, HandleCloses,
     HandleIsNil, CloseEnd, CloserGoto, Begun
<1>3. CASE CloseCAS
  <2>1. ~Begun /\ handles' = handles /\ closing' = closing /\ closer' # "crashed"
    BY <1>3 DEF CloseCAS, CloserGoto, Begun
  <2>2. overlap' = \E o \in Openers : pc[o] # "idle"
    BY <1>3 DEF CloseCAS
  <2>. QED
    BY <1>1, <1>2, <2>1, <2>2 DEF NilInv, InsideInv
<1>4. CASE ~CloseCAS
  <2>1. Begun /\ overlap' = overlap
    BY <1>4 DEF CloseStep, CloseService, CloseDropService, CloseRange, HandleCloses,
       HandleIsNil, CloseEnd, CloserGoto, Begun
  <2>2. handles' \cup closing' \subseteq handles \cup closing
    BY <1>4 DEF CloseStep, CloseService, CloseDropService, CloseRange, HandleCloses,
       HandleIsNil, CloseEnd, CloserGoto
  <2>3. closer' = "crashed" => NilHandle \in closing \/ closer = "crashed"
    BY <1>4 DEF CloseStep, CloseService, CloseDropService, CloseRange, HandleCloses,
       HandleIsNil, CloseEnd, CloserGoto
  <2>. QED
    BY <1>1, <1>2, <2>1, <2>2, <2>3 DEF NilInv, InsideInv
<1>. QED
  BY <1>3, <1>4

LEMMA AnswersStay ==
  ASSUME TypeOK, FlagInv, NilInv, BadAnswerOnlyByClose, Next
  PROVE  BadAnswerOnlyByClose'
<1>1. ASSUME NEW o \in Openers, OpenStep(o) PROVE BadAnswerOnlyByClose'
  BY <1>1 DEF OpenStep, CallOpen, OpenIsClosed, OpenIsOpen, ServiceIsNil, NewLoggerFails, ServiceFound,
     ServiceIsClosed, NewHandle, AppendLoad, AppendStore, Fail, Pass, Goto,
     BadAnswerOnlyByClose, FlagInv, NilInv, nodeVars
<1>2. CASE CloseStep
  BY <1>2 DEF CloseStep, CloseCAS, CloseService, CloseDropService, CloseRange,
     HandleCloses, HandleIsNil, CloseEnd, CloserGoto, BadAnswerOnlyByClose, openVars, nodeVars
<1>3. CASE Rest
  BY <1>3 DEF Rest, vars, BadAnswerOnlyByClose, openVars, nodeVars
<1>. QED
  BY <1>1, <1>2, <1>3 DEF Next

-----------------------------------------------------------------------------

LEMMA StepInv == NodeInv /\ [Next]_vars => NodeInv'
<1>. SUFFICES ASSUME NodeInv, [Next]_vars PROVE NodeInv'
  OBVIOUS
<1>1. CASE UNCHANGED vars
  BY <1>1 DEF NodeInv, TypeOK, FlagInv, EarlyInv, NilInv, InsideInv, Begun,
     BadAnswerOnlyByClose, vars, nodeVars, openVars, closeVars
<1>2. CASE Next /\ ~UNCHANGED vars
  <2>1. TypeOK' /\ EarlyInv' /\ NilInv' /\ InsideInv'
    BY <1>2, OpenKeepsTypes, CloseKeepsTypes, OpenKeepsEarly, CloseKeepsEarly,
       OpenKeepsNil, CloseKeepsNil DEF Next, Rest, NodeInv
  <2>. QED
    BY <1>2, <2>1, FlagsStay, AnswersStay DEF NodeInv
<1>. QED
  BY <1>1, <1>2

LEMMA Inductive == Spec => []NodeInv
  BY InitInv, StepInv, PTL DEF Spec

\* The lists and the states of a node keep their types.
THEOREM NodeTyping == Spec => []TypeOK
  BY Inductive, PTL DEF NodeInv

\* With any number of Opens beside it, a Close that has run to its end has
\* closed every handle that was returned before it began, but those an append
\* of another Open has written over.
THEOREM EarlyHandlesAreClosed == Spec => []CloseReachesHandles
<1>1. NodeInv => CloseReachesHandles
  BY DEF NodeInv, EarlyInv, CloseReachesHandles
<1>. QED
  BY <1>1, Inductive, PTL

\* No Open answers with nil or panics before Close has begun.
THEOREM BadAnswersOnlyByClose == Spec => []BadAnswerOnlyByClose
  BY Inductive, PTL DEF NodeInv

\* The nil handle that ends the process comes from an Open that was inside
\* when Close began.
THEOREM CrashesOnlyByOverlap == Spec => []CrashOnlyByOverlap
<1>1. NodeInv => CrashOnlyByOverlap
  BY DEF NodeInv, NilInv, CrashOnlyByOverlap
<1>. QED
  BY <1>1, Inductive, PTL

\* What is nil to a caller of Open, or to Close, comes from their overlap
\* (file/node/main.go, Open and Close; file/handle/service/main.go, New).
THEOREM FaultsNeedClose == Spec => []FaultsOnlyByClose
  BY BadAnswersOnlyByClose, CrashesOnlyByOverlap, PTL DEF FaultsOnlyByClose

-----------------------------------------------------------------------------
(* The promise of a list. *)

LEMMA OpenIsList ==
  ASSUME NodeInv, Running, NEW o \in Openers, OpenStep(o)
  PROVE  List!Next \/ UNCHANGED List!listVars
<1>1. phaseBar # "crashed" /\ (phaseBar = "open" <=> ~nodeClosed)
  BY DEF Running, phaseBar, NodeInv, FlagInv, Begun, TypeOK
<1>2. UNCHANGED <<phaseBar, handleClosed>>
  BY DEF OpenStep, CallOpen, OpenIsClosed, OpenIsOpen, ServiceIsNil, NewLoggerFails, ServiceFound,
     ServiceIsClosed, NewHandle, AppendLoad, AppendStore, Fail, Pass, closeVars, phaseBar
<1>3. CASE AppendStore(o)
  <2>1. lost \subseteq lost' /\ early' = IF nodeClosed THEN early ELSE early \cup {mine[o]}
    BY <1>3 DEF AppendStore
  <2>. QED
    BY <1>1, <1>2, <2>1 DEF List!Next, List!Give, List!Miss
<1>4. CASE ~AppendStore(o)
  <2>1. UNCHANGED <<early, lost>>
    BY <1>4 DEF OpenStep, CallOpen, OpenIsClosed, OpenIsOpen, ServiceIsNil, NewLoggerFails, ServiceFound,
       ServiceIsClosed, NewHandle, AppendLoad, Fail, Pass
  <2>. QED
    BY <1>2, <2>1 DEF List!listVars
<1>. QED
  BY <1>3, <1>4

LEMMA CloseIsList ==
  ASSUME NodeInv, CloseStep
  PROVE  List!Next \/ UNCHANGED List!listVars
<1>1. UNCHANGED <<early, lost>>
  BY DEF CloseStep, CloseCAS, CloseService, CloseDropService, CloseRange, HandleCloses,
     HandleIsNil, CloseEnd, CloserGoto
<1>2. CASE CloseCAS
  BY <1>1, <1>2 DEF CloseCAS, CloserGoto, phaseBar, List!Next, List!Begin
<1>3. CASE CloseService \/ CloseDropService \/ CloseRange
  BY <1>1, <1>3 DEF CloseService, CloseDropService, CloseRange, CloserGoto, phaseBar,
     List!listVars
<1>4. CASE \E h \in 1..made : HandleCloses(h)
  BY <1>1, <1>4 DEF HandleCloses, CloserGoto, phaseBar, List!Next, List!Shut
<1>5. CASE HandleIsNil
  BY <1>1, <1>5 DEF HandleIsNil, CloserGoto, phaseBar, List!Next, List!Crash
<1>6. CASE CloseEnd
  <2>1. early \subseteq handleClosed \cup lost
    BY <1>6 DEF CloseEnd, CloserGoto, NodeInv, EarlyInv
  <2>. QED
    BY <1>1, <1>6, <2>1 DEF CloseEnd, CloserGoto, phaseBar, List!Next, List!End
<1>. QED
  BY <1>2, <1>3, <1>4, <1>5, <1>6 DEF CloseStep

\* The node of an ordinary file keeps the promise of a list of handles.
THEOREM NodeImplementsList == Spec => ImplementsClosedList
<1>1. Init => List!Init
  BY DEF Init, List!Init, phaseBar
<1>2. NodeInv /\ [Next]_vars => [List!Next]_List!listVars
  <2>. SUFFICES ASSUME NodeInv, [Next]_vars PROVE List!Next \/ UNCHANGED List!listVars
    OBVIOUS
  <2>1. CASE UNCHANGED vars
    BY <2>1 DEF vars, closeVars, phaseBar, List!listVars
  <2>. QED
    BY <2>1, OpenIsList, CloseIsList DEF Next, Rest
<1>. QED
  BY <1>1, <1>2, Inductive, PTL DEF Spec, ImplementsClosedList, List!ListSpec

=============================================================================
