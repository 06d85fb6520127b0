-------------------------- MODULE FileHandleProofs --------------------------
(***************************************************************************)
(* Proofs about FileHandle, for any number of goroutines, places and       *)
(* Writes, and any size.                                                   *)
(***************************************************************************)
EXTENDS FileHandle, TLAPS

\* A Write belongs to one handler, and has not ended while it does; it is
\* carried out late only when its handler has given up on it.
OwnerInv ==
  /\ \A g, h \in Handlers : op[g] = "write" /\ op[h] = "write" /\ write[g] = write[h] => g = h
  /\ \A h \in Handlers : op[h] = "write" =>
       /\ outcome[write[h]] = "none"
       /\ place[write[h]] = offset[h]
       /\ write[h] \in late => reply[h] = "timeout"

\* A Write that is over is not carried out late.
EndedInv ==
  /\ \A w \in late : outcome[w] \notin {"ok", "error"}
  /\ \A w, v \in Writes : v \in before[w] => outcome[v] \in {"ok", "error"}
  /\ \A h \in Handlers : since[h] \subseteq Acknowledged

\* The numbers that no Write has had yet.
FreshInv ==
  \A w \in Writes : w > writes =>
    /\ outcome[w] = "none" /\ w \notin late
    /\ \A h \in Handlers : write[h] # w

\* AcknowledgedWriteStays, from the moment the server has answered.
AnsweredInv ==
  \A h \in Handlers : op[h] = "write" /\ reply[h] = "ok" => IsRecent(content[offset[h]], write[h])

WriteInv == OwnerInv /\ EndedInv /\ FreshInv /\ AnsweredInv /\ AcknowledgedWriteStays /\ ReadsAreRegular
HandleInv == TypeOK /\ WriteInv

USE DEF Units, Reads, Ops, Nothing, Over, Acknowledged, IsRecent, Goto, Pending

-----------------------------------------------------------------------------

LEMMA InitInv == Init => HandleInv
<1>. SUFFICES ASSUME Init PROVE HandleInv
  OBVIOUS
<1>1. TypeOK
  <2>1. 0 \in Places /\ 0 \in 0..MaxWrites /\ 0 \notin Writes
    BY WritesAssumption DEF Places, Writes
  <2>2. writes = 0 /\ DataOK
    BY DEF Init, DataOK
  <2>. QED
    BY <2>1, <2>2 DEF Init, TypeOK
<1>2. WriteInv
  BY DEF Init, WriteInv, OwnerInv, EndedInv, FreshInv, AnsweredInv, AcknowledgedWriteStays, ReadsAreRegular
<1>. QED
  BY <1>1, <1>2 DEF HandleInv

\* A Read begins.
LEMMA CallReadStep ==
  ASSUME HandleInv, NEW h \in Handlers, NEW how \in Reads, NEW o \in Places, CallRead(h, how, o)
  PROVE  HandleInv'
<1>. USE DEF HandleInv, WriteInv, CallRead
<1>0. DataOK'
  BY DEF TypeOK, DataOK
<1>1. TypeOK'
  BY <1>0 DEF TypeOK
<1>2. OwnerInv' /\ EndedInv' /\ FreshInv' /\ AnsweredInv'
  BY DEF TypeOK, OwnerInv, EndedInv, FreshInv, AnsweredInv
<1>3. AcknowledgedWriteStays'
  BY DEF TypeOK, AcknowledgedWriteStays
<1>4. ReadsAreRegular'
  BY DEF TypeOK, ReadsAreRegular
<1>. QED
  BY <1>1, <1>2, <1>3, <1>4

\* A Write begins, with a number no Write had.
LEMMA CallWriteStep ==
  ASSUME HandleInv, NEW h \in Handlers, NEW o \in Places, CallWrite(h, o)
  PROVE  HandleInv'
<1>. USE DEF HandleInv, WriteInv, CallWrite
<1>1. writes + 1 \in Writes /\ writes + 1 > writes /\ writes + 1 \in 0..MaxWrites
  BY WritesAssumption DEF TypeOK, Writes
<1>2. /\ outcome[writes + 1] = "none" /\ writes + 1 \notin late
      /\ \A g \in Handlers : write[g] # writes + 1
      /\ \A w \in Writes : writes + 1 \notin before[w]
      /\ \A g \in Handlers : writes + 1 \notin since[g]
  BY <1>1 DEF TypeOK, EndedInv, FreshInv
<1>0. DataOK'
  BY <1>1 DEF TypeOK, DataOK
<1>3. TypeOK'
  BY <1>0, <1>1, <1>2 DEF TypeOK
<1>4. OwnerInv'
  BY <1>1, <1>2 DEF TypeOK, OwnerInv
<1>5. EndedInv'
  BY <1>1, <1>2 DEF TypeOK, EndedInv
<1>8. FreshInv'
  <2>1. \A w \in Writes : w > writes' => w > writes /\ w # writes + 1
    BY WritesAssumption DEF TypeOK, Writes
  <2>. QED
    BY <1>1, <2>1 DEF TypeOK, FreshInv
<1>6. AnsweredInv' /\ AcknowledgedWriteStays'
  BY <1>1, <1>2 DEF TypeOK, AnsweredInv, AcknowledgedWriteStays
<1>7. ReadsAreRegular'
  BY <1>1, <1>2 DEF TypeOK, EndedInv, ReadsAreRegular
<1>. QED
  BY <1>3, <1>4, <1>5, <1>6, <1>7, <1>8

\* The steps that change neither the file nor what a Write or a Read has got.
QuietStep(h) == CallFlush(h) \/ LockAnnounced(h) \/ Send(h) \/ Close

LEMMA QuietStepInv ==
  ASSUME HandleInv, NEW h \in Handlers, QuietStep(h)
  PROVE  HandleInv'
<1>. USE DEF HandleInv, WriteInv, QuietStep, CallFlush, LockAnnounced, Send, Close, callVars, histVars
<1>0. DataOK'
  BY DEF TypeOK, DataOK
<1>1. TypeOK'
  <2>1. CASE CallFlush(h)
    BY <1>0, <2>1 DEF TypeOK
  <2>2. CASE LockAnnounced(h)
    BY <1>0, <2>2 DEF TypeOK
  <2>3. CASE Send(h)
    BY <1>0, <2>3 DEF TypeOK
  <2>4. CASE Close
    BY <1>0, <2>4 DEF TypeOK
  <2>. QED
    BY <2>1, <2>2, <2>3, <2>4
<1>2. OwnerInv' /\ EndedInv' /\ FreshInv' /\ AnsweredInv'
  BY DEF TypeOK, OwnerInv, EndedInv, FreshInv, AnsweredInv
<1>3. AcknowledgedWriteStays'
  BY DEF TypeOK, AcknowledgedWriteStays
<1>4. ReadsAreRegular'
  BY DEF TypeOK, ReadsAreRegular
<1>. QED
  BY <1>1, <1>2, <1>3, <1>4

\* A request ends: a Write that ends "ok" has been answered so.
LEMMA EndStep ==
  ASSUME HandleInv, NEW h \in Handlers, NEW from, NEW how \in {"ok", "error", "timeout"},
         from # "idle", End(h, from, how),
         op[h] = "write" /\ how # "timeout" => write[h] \notin late,
         op[h] = "write" /\ how = "ok" => reply[h] = "ok"
  PROVE  HandleInv'
<1>. USE DEF HandleInv, WriteInv, End, Ended
<1>0. DataOK'
  BY DEF TypeOK, DataOK
<1>1. TypeOK'
  <2>1. 0 \notin Writes
    BY DEF Writes
  <2>2. outcome' \in [Writes -> {"none", "ok", "error", "timeout"}]
    BY DEF TypeOK
  <2>3. \A g \in Handlers :
          /\ pc'[g] = "idle" <=> op'[g] = "none"
          /\ op'[g] = "write" <=> write'[g] \in Writes
          /\ reply'[g] # "none" => pc'[g] = "request"
    BY <2>1 DEF TypeOK
  <2>4. 0 \in Places
    BY WritesAssumption DEF Places
  <2>. QED
    BY <1>0, <2>2, <2>3, <2>4 DEF TypeOK
<1>2. op[h] = "write" => write[h] \in Writes
  BY DEF TypeOK
<1>3. OwnerInv'
  BY <1>2 DEF TypeOK, OwnerInv
<1>4. EndedInv' /\ FreshInv'
  BY <1>2 DEF TypeOK, OwnerInv, EndedInv, FreshInv
<1>5. AnsweredInv'
  BY DEF TypeOK, AnsweredInv
<1>6. AcknowledgedWriteStays'
  BY <1>2 DEF TypeOK, OwnerInv, AnsweredInv, AcknowledgedWriteStays
<1>7. ReadsAreRegular'
  BY DEF TypeOK, ReadsAreRegular
<1>. QED
  BY <1>1, <1>3, <1>4, <1>5, <1>6, <1>7

LEMMA EndingInv ==
  ASSUME HandleInv, NEW h \in Handlers, Flushed(h) \/ IsClosed(h) \/ Return(h)
  PROVE  HandleInv'
<1>1. op[h] = "write" => (write[h] \in late => reply[h] = "timeout")
  BY DEF HandleInv, WriteInv, OwnerInv
<1>2. CASE Flushed(h)
  BY <1>2, EndStep DEF Flushed
<1>3. CASE IsClosed(h)
  BY <1>1, <1>3, EndStep DEF IsClosed, End, HandleInv, TypeOK
<1>4. CASE Return(h)
  <2>1. reply[h] \in {"ok", "error", "timeout"}
    BY <1>4 DEF Return, HandleInv, TypeOK
  <2>. QED
    BY <1>1, <1>4, <2>1, EndStep DEF Return
<1>. QED
  BY <1>2, <1>3, <1>4

-----------------------------------------------------------------------------
(* The file server. *)

\* A Read finds every acknowledged Write within the file.
LEMMA ServerReadsStep ==
  ASSUME HandleInv, NEW h \in Handlers, ServerReads(h)
  PROVE  HandleInv'
<1>. USE DEF HandleInv, WriteInv, ServerReads, histVars
<1>. DEFINE got == [o \in {p \in Asked(h) : Within(p)} |-> content[o]]
<1>1. Asked(h) \subseteq Places
  BY DEF TypeOK, Asked
<1>2. TypeOK'
  <2>1. got \in [DOMAIN got -> Units] /\ DOMAIN got \subseteq Places
    BY <1>1 DEF TypeOK
  <2>2. data' = [data EXCEPT ![h] = got]
    OBVIOUS
  <2>3. DataOK'
    BY <2>1, <2>2 DEF TypeOK, DataOK
  <2>. QED
    BY <2>3 DEF TypeOK
<1>3. OwnerInv' /\ EndedInv' /\ FreshInv' /\ AnsweredInv'
  BY DEF TypeOK, OwnerInv, EndedInv, FreshInv, AnsweredInv
<1>4. AcknowledgedWriteStays'
  BY DEF TypeOK, AcknowledgedWriteStays
<1>5. ASSUME NEW w \in since[h], place[w] \in Asked(h)
      PROVE  place[w] \in DOMAIN got /\ IsRecent(got[place[w]], w)
  <2>0. 0 \notin Writes
    BY DEF Writes
  <2>1. w \in Acknowledged /\ IsRecent(content[place[w]], w)
    BY <1>5 DEF TypeOK, EndedInv, AcknowledgedWriteStays
  <2>2. place[w] \in Places /\ content[place[w]] # 0
    BY <2>0, <2>1 DEF TypeOK
  <2>3. Within(place[w])
    BY <2>2, WritesAssumption DEF Within, Places
  <2>. QED
    BY <1>5, <2>1, <2>3
<1>6. ReadsAreRegular'
  <2>. SUFFICES ASSUME NEW g \in Handlers, reply'[g] = "ok", op[g] \in Reads, NEW w \in since[g],
                       IF op[g] = "read" THEN place[w] = offset[g] ELSE place[w] < Size
                PROVE  place[w] \in DOMAIN data'[g] /\ IsRecent(data'[g][place[w]], w)
    BY DEF ReadsAreRegular
  <2>1. CASE g = h
    <3>1. place[w] \in Asked(h)
      BY <2>1 DEF TypeOK, Asked
    <3>2. data'[h] = got
      BY DEF TypeOK, DataOK
    <3>. QED
      BY <2>1, <3>1, <3>2, <1>5
  <2>2. CASE g # h
    BY <2>2 DEF TypeOK, ReadsAreRegular
  <2>. QED
    BY <2>1, <2>2
<1>. QED
  BY <1>2, <1>3, <1>4, <1>6

\* A Write that is carried out has not ended, so no Write has it before it.
LEMMA ServerWritesStep ==
  ASSUME HandleInv, NEW h \in Handlers, ServerWrites(h)
  PROVE  HandleInv'
<1>. USE DEF HandleInv, WriteInv, ServerWrites, histVars
<1>0. DataOK'
  BY DEF TypeOK, DataOK
<1>1. TypeOK'
  BY <1>0 DEF TypeOK
<1>2. /\ write[h] \in Writes /\ write[h] \notin late
      /\ \A w \in Writes : write[h] \notin before[w]
  BY DEF TypeOK, OwnerInv, EndedInv
<1>3. OwnerInv' /\ EndedInv' /\ FreshInv'
  BY <1>2 DEF TypeOK, OwnerInv, EndedInv, FreshInv
<1>4. AnsweredInv'
  BY <1>2 DEF TypeOK, AnsweredInv
<1>5. AcknowledgedWriteStays'
  BY <1>2 DEF TypeOK, AcknowledgedWriteStays
<1>6. ReadsAreRegular'
  BY DEF TypeOK, ReadsAreRegular
<1>. QED
  BY <1>1, <1>3, <1>4, <1>5, <1>6

LEMMA LateWriteStep ==
  ASSUME HandleInv, NEW w \in Writes, LateWrite(w)
  PROVE  HandleInv'
<1>. USE DEF HandleInv, WriteInv, LateWrite, callVars, histVars
<1>0. DataOK'
  BY DEF TypeOK, DataOK
<1>1. TypeOK'
  BY <1>0 DEF TypeOK
<1>2. \A v \in Writes : w \notin before[v]
  BY DEF TypeOK, EndedInv
<1>3. OwnerInv' /\ EndedInv' /\ FreshInv'
  BY DEF TypeOK, OwnerInv, EndedInv, FreshInv
<1>4. AnsweredInv'
  BY <1>2 DEF TypeOK, AnsweredInv
<1>5. AcknowledgedWriteStays'
  BY <1>2 DEF TypeOK, AcknowledgedWriteStays
<1>6. ReadsAreRegular'
  BY DEF TypeOK, ReadsAreRegular
<1>. QED
  BY <1>1, <1>3, <1>4, <1>5, <1>6

\* A request fails, or its caller gives up on it.
LEMMA NoAnswerStep ==
  ASSUME HandleInv, NEW h \in Handlers, ServerFails(h) \/ Timeout(h)
  PROVE  HandleInv'
<1>. USE DEF HandleInv, WriteInv, ServerFails, Timeout, histVars
<1>1. op[h] = "write" => write[h] \in Writes
  BY DEF TypeOK
<1>0. DataOK'
  BY DEF TypeOK, DataOK
<1>2. TypeOK'
  BY <1>0, <1>1 DEF TypeOK
<1>3. OwnerInv' /\ EndedInv' /\ FreshInv' /\ AnsweredInv'
  BY <1>1 DEF TypeOK, OwnerInv, EndedInv, FreshInv, AnsweredInv
<1>4. AcknowledgedWriteStays'
  BY DEF TypeOK, AcknowledgedWriteStays
<1>5. ReadsAreRegular'
  BY DEF TypeOK, ReadsAreRegular
<1>. QED
  BY <1>2, <1>3, <1>4, <1>5

-----------------------------------------------------------------------------

LEMMA NextInv == HandleInv /\ [Next]_vars => HandleInv'
<1>. SUFFICES ASSUME HandleInv, [Next]_vars PROVE HandleInv'
  OBVIOUS
<1>0. 0 \in Places
  BY WritesAssumption DEF Places
<1>1. CASE UNCHANGED vars
  BY <1>1 DEF vars, callVars, histVars, HandleInv, TypeOK, DataOK, WriteInv, OwnerInv, EndedInv, FreshInv,
              AnsweredInv, AcknowledgedWriteStays, ReadsAreRegular
<1>2. ASSUME NEW h \in Handlers, NEW o \in Places, CallWrite(h, o) \/ CallRead(h, "read", o)
      PROVE  HandleInv'
  BY <1>2, CallWriteStep, CallReadStep
<1>3. ASSUME NEW h \in Handlers,
             CallRead(h, "readAll", 0) \/ CallFlush(h) \/ HandlerStep(h) \/ RequestEnds(h)
      PROVE  HandleInv'
  <2>1. CASE CallRead(h, "readAll", 0)
    BY <1>0, <2>1, CallReadStep
  <2>2. CASE CallFlush(h) \/ LockAnnounced(h) \/ Send(h)
    BY <2>2, QuietStepInv DEF QuietStep
  <2>3. CASE Flushed(h) \/ IsClosed(h) \/ Return(h)
    BY <2>3, EndingInv
  <2>4. CASE RequestEnds(h)
    BY <2>4, ServerReadsStep, ServerWritesStep, NoAnswerStep DEF RequestEnds
  <2>. QED
    BY <1>3, <2>1, <2>2, <2>3, <2>4 DEF HandlerStep
<1>4. ASSUME NEW w \in Writes, LateWrite(w) PROVE HandleInv'
  BY <1>4, LateWriteStep
<1>5. CASE Close
  <2>1. CASE Handlers = {}
    BY <1>5, <2>1 DEF Close, callVars, histVars, HandleInv, TypeOK, DataOK, WriteInv, OwnerInv, EndedInv, FreshInv,
                      AnsweredInv, AcknowledgedWriteStays, ReadsAreRegular
  <2>2. CASE Handlers # {}
    BY <1>5, <2>2, QuietStepInv DEF QuietStep
  <2>. QED
    BY <2>1, <2>2
<1>. QED
  BY <1>1, <1>2, <1>3, <1>4, <1>5 DEF Next

LEMMA SpecInv == Spec => []HandleInv
BY InitInv, NextInv, PTL DEF Spec

\* Every variable keeps its type, and a handler has an answer only while its
\* request runs.
THEOREM TypeCorrect == Spec => []TypeOK
<1>1. HandleInv => TypeOK
  BY DEF HandleInv
<1>. QED
  BY <1>1, SpecInv, PTL

\* The file never goes back to a Write that an acknowledged one has replaced,
\* whatever timeouts and late Writes there are.
THEOREM AcknowledgedWrites == Spec => []AcknowledgedWriteStays
<1>1. HandleInv => AcknowledgedWriteStays
  BY DEF HandleInv, WriteInv
<1>. QED
  BY <1>1, SpecInv, PTL

\* Read and ReadAll return every Write acknowledged before them, but for what
\* ReadAll does not ask for: the places past the size of the node.
THEOREM RegularReads == Spec => []ReadsAreRegular
<1>1. HandleInv => ReadsAreRegular
  BY DEF HandleInv, WriteInv
<1>. QED
  BY <1>1, SpecInv, PTL

\* Both at once: what the clients of the handle see is regular.
THEOREM RegularService == Spec => []RegularFile
  BY AcknowledgedWrites, RegularReads, PTL DEF RegularFile

-----------------------------------------------------------------------------
(* The handle implements the atomic file. *)

\* Only a Read has data.
SeenInv ==
  /\ data = [h \in Handlers |-> data[h]]
  /\ \A h \in Handlers : op[h] \notin Reads => data[h] = Nothing

\* A Write is late only when its caller has given up on it.
LateInv == \A w \in late : Answered(w, {"timeout"})

RefineInv == HandleInv /\ SeenInv /\ LateInv

Effects == [w \in Writes |-> EffectOf(w)]
Stages == [h \in Handlers |-> StageOf(h)]
AskedPlaces == [h \in Handlers |-> AskedOf(h)]

\* Only h takes a step: the requests of the other handlers stay as they are.
Alone(h) ==
  \A g \in Handlers \ {h} :
    op'[g] = op[g] /\ write'[g] = write[g] /\ reply'[g] = reply[g] /\ offset'[g] = offset[g]

\* What is answered to the other Writes does not change.
LEMMA AnsweredFrame ==
  ASSUME NEW w, NEW answers, NEW h \in Handlers, Alone(h),
         ~(op[h] = "write" /\ write[h] = w), ~(op'[h] = "write" /\ write'[h] = w),
         outcome'[w] = outcome[w]
  PROVE  Answered(w, answers)' <=> Answered(w, answers)
  BY DEF Alone, Answered

LEMMA EffectFrame ==
  ASSUME NEW w, NEW h \in Handlers, Alone(h),
         ~(op[h] = "write" /\ write[h] = w), ~(op'[h] = "write" /\ write'[h] = w),
         outcome'[w] = outcome[w], w \in late' <=> w \in late, w > writes' <=> w > writes
  PROVE  EffectOf(w)' = EffectOf(w)
<1>1. /\ Answered(w, {"error"})' <=> Answered(w, {"error"})
      /\ Answered(w, {"ok", "timeout"})' <=> Answered(w, {"ok", "timeout"})
  BY AnsweredFrame
<1>. QED
  BY <1>1 DEF EffectOf

\* What has become of a Write whose caller waits for the answer.
LEMMA EffectOwned ==
  ASSUME HandleInv, NEW h \in Handlers, op[h] = "write"
  PROVE  EffectOf(write[h]) =
           IF reply[h] = "error" THEN "never"
           ELSE IF reply[h] \in {"ok", "timeout"} /\ write[h] \notin late THEN "done"
           ELSE "pending"
<1>1. write[h] \in Writes /\ ~(write[h] > writes) /\ outcome[write[h]] = "none"
  BY DEF HandleInv, WriteInv, TypeOK, OwnerInv, FreshInv
<1>2. ASSUME NEW answers, "none" \notin answers
      PROVE  Answered(write[h], answers) <=> reply[h] \in answers
  BY <1>1, <1>2 DEF Answered, HandleInv, WriteInv, OwnerInv
<1>3. /\ Answered(write[h], {"error"}) <=> reply[h] = "error"
      /\ Answered(write[h], {"ok", "timeout"}) <=> reply[h] \in {"ok", "timeout"}
  BY <1>2
<1>. QED
  BY <1>1, <1>3 DEF EffectOf

LEMMA EffectOwnedNext ==
  ASSUME HandleInv', NEW h \in Handlers, op'[h] = "write"
  PROVE  EffectOf(write[h])' =
           IF reply'[h] = "error" THEN "never"
           ELSE IF reply'[h] \in {"ok", "timeout"} /\ write'[h] \notin late' THEN "done"
           ELSE "pending"
<1>1. write'[h] \in Writes /\ ~(write'[h] > writes') /\ outcome'[write'[h]] = "none"
  BY DEF HandleInv, WriteInv, TypeOK, OwnerInv, FreshInv
<1>2. ASSUME NEW answers, "none" \notin answers
      PROVE  Answered(write[h], answers)' <=> reply'[h] \in answers
  BY <1>1, <1>2 DEF Answered, HandleInv, WriteInv, OwnerInv
<1>3. /\ Answered(write[h], {"error"})' <=> reply'[h] = "error"
      /\ Answered(write[h], {"ok", "timeout"})' <=> reply'[h] \in {"ok", "timeout"}
  BY <1>2
<1>. QED
  BY <1>1, <1>3 DEF EffectOf

\* A Write that has ended, and of whom no handler knows any more.
LEMMA EffectEndedNext ==
  ASSUME HandleInv', NEW w \in Writes, ~(w > writes'),
         outcome'[w] \in {"ok", "error", "timeout"}
  PROVE  EffectOf(w)' =
           IF outcome'[w] = "error" THEN "never"
           ELSE IF w \notin late' THEN "done"
           ELSE "pending"
<1>1. \A h \in Handlers : ~(op'[h] = "write" /\ write'[h] = w)
  BY DEF HandleInv, WriteInv, OwnerInv
<1>. QED
  BY <1>1 DEF EffectOf, Answered

LEMMA ReadFrame ==
  ASSUME TypeOK, NEW h \in Handlers, Alone(h)
  PROVE  /\ Stages' = [Stages EXCEPT ![h] = StageOf(h)']
         /\ AskedPlaces' = [AskedPlaces EXCEPT ![h] = AskedOf(h)']
<1>1. \A g \in Handlers \ {h} : StageOf(g)' = StageOf(g) /\ AskedOf(g)' = AskedOf(g)
  BY DEF Alone, StageOf, AskedOf, Asked
<1>. QED
  BY <1>1 DEF Stages, AskedPlaces

\* The step of a Write is no step of a Read.
LEMMA NoReadStep ==
  ASSUME TypeOK, SeenInv, SeenInv', NEW h \in Handlers, Alone(h),
         op[h] \notin Reads, op'[h] \notin Reads,
         \A g \in Handlers \ {h} : data'[g] = data[g]
  PROVE  Stages' = Stages /\ AskedPlaces' = AskedPlaces /\ data' = data
<1>1. StageOf(h)' = StageOf(h) /\ AskedOf(h)' = AskedOf(h)
  BY DEF StageOf, AskedOf
<1>2. Stages' = Stages /\ AskedPlaces' = AskedPlaces
  BY <1>1, ReadFrame DEF Stages, AskedPlaces
<1>3. \A g \in Handlers : data'[g] = data[g]
  BY DEF SeenInv
<1>. QED
  BY <1>2, <1>3 DEF SeenInv

\* A step of h leaves every Write but its own where it was.
LEMMA EffectsFrame ==
  ASSUME NEW h \in Handlers, Alone(h), NEW own \in Writes,
         op[h] = "write" => write[h] = own, op'[h] = "write" => write'[h] = own,
         \A w \in Writes \ {own} :
           /\ outcome'[w] = outcome[w]
           /\ w \in late' <=> w \in late
           /\ w > writes' <=> w > writes
  PROVE  Effects' = [Effects EXCEPT ![own] = EffectOf(own)']
<1>1. \A w \in Writes \ {own} : EffectOf(w)' = EffectOf(w)
  BY EffectFrame
<1>. QED
  BY <1>1 DEF Effects

\* The step of a Read is no step of a Write.
LEMMA NoWriteStep ==
  ASSUME NEW h \in Handlers, Alone(h), op[h] # "write", op'[h] # "write",
         UNCHANGED <<outcome, late, writes>>
  PROVE  Effects' = Effects
<1>1. \A w \in Writes : EffectOf(w)' = EffectOf(w)
  BY EffectFrame
<1>. QED
  BY <1>1 DEF Effects

-----------------------------------------------------------------------------
(* The two invariants of the mapping. *)

LEMMA StepAlone ==
  ASSUME TypeOK, NEW h \in Handlers,
         \/ \E o \in Places : CallWrite(h, o)
         \/ \E how \in Reads, o \in Places : CallRead(h, how, o)
         \/ CallFlush(h) \/ HandlerStep(h) \/ RequestEnds(h)
  PROVE  /\ Alone(h)
         /\ \A g \in Handlers \ {h} : data'[g] = data[g]
  BY DEF TypeOK, DataOK, Alone, CallWrite, CallRead, CallFlush, HandlerStep, RequestEnds,
     LockAnnounced, Flushed, IsClosed, Send, Return, End, Ended, ServerReads, ServerWrites,
     ServerFails, Timeout, histVars

LEMMA SeenStep ==
  ASSUME TypeOK, SeenInv, NEW h \in Handlers,
         \/ \E o \in Places : CallWrite(h, o)
         \/ \E how \in Reads, o \in Places : CallRead(h, how, o)
         \/ CallFlush(h) \/ HandlerStep(h) \/ RequestEnds(h)
  PROVE  SeenInv'
<1>1. data' = [g \in Handlers |-> data'[g]]
  BY DEF SeenInv, CallWrite, CallRead, CallFlush, HandlerStep, RequestEnds,
     LockAnnounced, Flushed, IsClosed, Send, Return, End, Ended, ServerReads, ServerWrites,
     ServerFails, Timeout
<1>2. op'[h] \notin Reads => data'[h] = Nothing
  BY DEF TypeOK, DataOK, SeenInv, CallWrite, CallRead, CallFlush, HandlerStep, RequestEnds,
     LockAnnounced, Flushed, IsClosed, Send, Return, End, Ended, ServerReads, ServerWrites,
     ServerFails, Timeout
<1>3. \A g \in Handlers \ {h} : op'[g] = op[g] /\ data'[g] = data[g]
  BY StepAlone DEF Alone
<1>. QED
  BY <1>1, <1>2, <1>3 DEF SeenInv

LEMMA LateStep ==
  ASSUME HandleInv, LateInv, NEW h \in Handlers,
         \/ \E o \in Places : CallWrite(h, o)
         \/ \E how \in Reads, o \in Places : CallRead(h, how, o)
         \/ CallFlush(h) \/ HandlerStep(h) \/ RequestEnds(h)
  PROVE  LateInv'
<1>. USE DEF HandleInv, WriteInv
<1>. SUFFICES ASSUME NEW w \in late' PROVE Answered(w, {"timeout"})'
  BY DEF LateInv
<1>1. Alone(h)
  BY StepAlone
<1>2. CASE ~(op[h] = "write" /\ write[h] = w)
  <2>1. w \in late /\ w \in Writes
    BY <1>2 DEF TypeOK, CallWrite, CallRead, CallFlush, HandlerStep, RequestEnds, Pending,
       LockAnnounced, Flushed, IsClosed, Send, Return, End, Ended, ServerReads, ServerWrites,
       ServerFails, Timeout
  <2>2. ~(op'[h] = "write" /\ write'[h] = w) /\ outcome'[w] = outcome[w]
    <3>1. CASE \E o \in Places : CallWrite(h, o)
      <4>1. writes + 1 > writes /\ writes + 1 # w
        BY <2>1 DEF TypeOK, FreshInv
      <4>. QED
        BY <3>1, <4>1 DEF TypeOK, CallWrite
    <3>2. CASE \E how \in Reads, o \in Places : CallRead(h, how, o)
      BY <3>2 DEF TypeOK, CallRead
    <3>3. CASE CallFlush(h) \/ HandlerStep(h) \/ RequestEnds(h)
      <4>1. 0 \notin Writes
        BY DEF Writes
      <4>. QED
        BY <1>2, <2>1, <3>3, <4>1 DEF TypeOK, CallFlush, HandlerStep, RequestEnds, LockAnnounced,
           Flushed, IsClosed, Send, Return, End, Ended, ServerReads, ServerWrites, ServerFails,
           Timeout, histVars
    <3>. QED
      BY <3>1, <3>2, <3>3
  <2>. QED
    BY <1>1, <1>2, <2>1, <2>2, AnsweredFrame DEF LateInv
<1>3. CASE op[h] = "write" /\ write[h] = w
  <2>1. w \in late => reply[h] = "timeout"
    BY <1>3 DEF OwnerInv
  <2>2. CASE Timeout(h)
    BY <1>3, <2>2 DEF Timeout, Answered, TypeOK
  <2>3. CASE Return(h)
    BY <1>3, <2>1, <2>3 DEF Return, End, Ended, Answered, TypeOK
  <2>4. CASE ~Timeout(h) /\ ~Return(h)
    <3>1. w \in late
      BY <2>4 DEF CallWrite, CallRead, CallFlush, HandlerStep, RequestEnds,
       LockAnnounced, Flushed, IsClosed, Send, End, Ended, ServerReads, ServerWrites, ServerFails
    <3>2. pc[h] = "request" /\ reply[h] = "timeout"
      BY <2>1, <3>1 DEF TypeOK
    <3>. QED
      BY <2>4, <3>2 DEF CallWrite, CallRead, CallFlush, HandlerStep, RequestEnds, Pending,
       LockAnnounced, Flushed, IsClosed, Send, End, Ended, ServerReads, ServerWrites, ServerFails
  <2>. QED
    BY <2>2, <2>3, <2>4
<1>. QED
  BY <1>2, <1>3

LEMMA RefineStep == RefineInv /\ [Next]_vars => RefineInv'
<1>. SUFFICES ASSUME RefineInv, [Next]_vars PROVE RefineInv'
  OBVIOUS
<1>0. HandleInv'
  BY NextInv DEF RefineInv
<1>1. CASE UNCHANGED vars \/ Close \/ \E w \in Writes : LateWrite(w)
  <2>1. UNCHANGED <<op, write, reply, data, outcome>> /\ late' \subseteq late
    BY <1>1 DEF vars, Close, LateWrite, callVars, histVars
  <2>. QED
    BY <1>0, <2>1 DEF RefineInv, SeenInv, LateInv, Answered
<1>2. ASSUME NEW h \in Handlers,
             \/ \E o \in Places : CallWrite(h, o)
             \/ \E how \in Reads, o \in Places : CallRead(h, how, o)
             \/ CallFlush(h) \/ HandlerStep(h) \/ RequestEnds(h)
      PROVE  RefineInv'
  BY <1>0, <1>2, SeenStep, LateStep DEF RefineInv, HandleInv
<1>3. 0 \in Places
  BY WritesAssumption DEF Places
<1>. QED
  BY <1>1, <1>2, <1>3 DEF Next

LEMMA Mapped == Spec => []RefineInv
<1>1. Init => RefineInv
  BY InitInv DEF Init, RefineInv, SeenInv, LateInv
<1>. QED
  BY <1>1, RefineStep, PTL DEF Spec

-----------------------------------------------------------------------------
(* Step by step. *)

Implemented == File!FileNext \/ UNCHANGED <<File!fileVars, File!readVars>>

\* The mapped variables, all of them.
LEMMA MapStutter ==
  ASSUME UNCHANGED <<content, place, outcome, data>>,
         Effects' = Effects, Stages' = Stages, AskedPlaces' = AskedPlaces
  PROVE  Implemented
  BY DEF Implemented, File!fileVars, File!readVars, Effects, Stages, AskedPlaces

LEMMA CallReadImplements ==
  ASSUME RefineInv, RefineInv', NEW h \in Handlers, NEW how \in Reads, NEW o \in Places,
         CallRead(h, how, o)
  PROVE  Implemented
<1>. USE DEF RefineInv, HandleInv
<1>1. Alone(h)
  BY StepAlone
<1>2. op[h] = "none" /\ op'[h] = how /\ reply'[h] = "none"
  BY DEF CallRead, TypeOK
<1>3. StageOf(h) = "idle" /\ StageOf(h)' = "asked"
  BY <1>2 DEF StageOf
<1>4. AskedOf(h)' \in SUBSET Places
  BY DEF AskedOf, Asked, TypeOK
<1>5. Effects' = Effects
  BY <1>1, <1>2, NoWriteStep DEF CallRead
<1>6. /\ Stages' = [Stages EXCEPT ![h] = "asked"]
      /\ AskedPlaces' = [AskedPlaces EXCEPT ![h] = AskedOf(h)']
      /\ Stages[h] = "idle"
  BY <1>1, <1>3, ReadFrame DEF Stages
<1>7. UNCHANGED File!fileVars
  BY <1>5 DEF CallRead, File!fileVars, Effects
<1>8. File!CallRead(h, AskedOf(h)')
  BY <1>6, <1>7 DEF CallRead, File!CallRead, File!Advance, Stages, AskedPlaces
<1>. QED
  BY <1>4, <1>8 DEF Implemented, File!FileNext

LEMMA CallWriteImplements ==
  ASSUME RefineInv, RefineInv', NEW h \in Handlers, NEW o \in Places, CallWrite(h, o)
  PROVE  Implemented
<1>. USE DEF RefineInv, HandleInv
<1>. PICK w : w = writes + 1
  OBVIOUS
<1>1. w \in Writes /\ w > writes /\ ~(w > writes')
  BY WritesAssumption DEF CallWrite, TypeOK, Writes
<1>2. /\ op[h] = "none" /\ op'[h] = "write" /\ write'[h] = w
      /\ reply'[h] = "none"
  BY DEF CallWrite, TypeOK
<1>3. Alone(h) /\ \A g \in Handlers \ {h} : data'[g] = data[g]
  BY StepAlone
<1>4. Stages' = Stages /\ AskedPlaces' = AskedPlaces /\ data' = data
  BY <1>2, <1>3, NoReadStep
<1>5. \A v \in Writes \ {w} : v > writes' <=> v > writes
  BY DEF CallWrite, TypeOK, Writes
<1>6. Effects' = [Effects EXCEPT ![w] = EffectOf(w)']
  BY <1>1, <1>2, <1>3, <1>5, EffectsFrame DEF CallWrite
<1>7. EffectOf(w)' = "pending"
  BY <1>2, EffectOwnedNext
<1>8. Effects[w] = "none"
  BY <1>1 DEF Effects, EffectOf
<1>9. File!CallWrite(w, o)
  BY <1>4, <1>6, <1>7, <1>8 DEF CallWrite, File!CallWrite, File!Becomes, File!readVars,
     Effects, Stages, AskedPlaces
<1>. QED
  BY <1>1, <1>9 DEF Implemented, File!FileNext

\* Steps before a request is sent, and the ones of a Flush.
LEMMA QuietImplements ==
  ASSUME RefineInv, RefineInv', NEW h \in Handlers,
         CallFlush(h) \/ LockAnnounced(h) \/ Flushed(h) \/ Send(h)
  PROVE  Implemented
<1>. USE DEF RefineInv, HandleInv
<1>1. Alone(h) /\ \A g \in Handlers \ {h} : data'[g] = data[g]
  BY StepAlone DEF HandlerStep
<1>2. CASE CallFlush(h) \/ LockAnnounced(h) \/ Flushed(h)
  <2>1. /\ op[h] \notin Reads /\ op'[h] \notin Reads
        /\ op[h] # "write" /\ op'[h] # "write"
    BY <1>2 DEF CallFlush, LockAnnounced, Flushed, End, Ended, TypeOK
  <2>2. UNCHANGED <<content, place, outcome, late, writes>>
    BY <1>2, <2>1 DEF CallFlush, LockAnnounced, Flushed, End, Ended, histVars
  <2>. QED
    BY <1>1, <2>1, <2>2, NoReadStep, NoWriteStep, MapStutter
<1>3. CASE Send(h)
  <2>1. UNCHANGED <<op, offset, write, reply, data, content, late, writes, outcome, place>>
    BY <1>3 DEF Send, histVars
  <2>2. Effects' = Effects /\ Stages' = Stages /\ AskedPlaces' = AskedPlaces
    BY <2>1 DEF Effects, Stages, AskedPlaces, EffectOf, Answered, StageOf, AskedOf, Asked
  <2>. QED
    BY <2>1, <2>2, MapStutter
<1>. QED
  BY <1>2, <1>3

\* A Read ends, with or without an answer.
LEMMA ReadEndImplements ==
  ASSUME RefineInv, RefineInv', NEW h \in Handlers, NEW from, NEW how,
         End(h, from, how), op[h] \in Reads, Alone(h)
  PROVE  Implemented
<1>. USE DEF RefineInv, HandleInv, End, Ended
<1>1. op'[h] = "none" /\ UNCHANGED <<content, place, outcome, late, writes>>
  BY DEF TypeOK
<1>2. Effects' = Effects
  BY <1>1, NoWriteStep
<1>3. StageOf(h)' = "idle" /\ AskedOf(h)' = {} /\ StageOf(h) \in {"asked", "seen", "failed"}
  BY <1>1 DEF StageOf, AskedOf
<1>4. /\ Stages' = [Stages EXCEPT ![h] = "idle"]
      /\ AskedPlaces' = [AskedPlaces EXCEPT ![h] = {}]
      /\ Stages[h] \in {"asked", "seen", "failed"}
  BY <1>3, ReadFrame DEF Stages
<1>5. UNCHANGED File!fileVars
  BY <1>1, <1>2 DEF File!fileVars, Effects
<1>6. File!EndRead(h)
  BY <1>4, <1>5 DEF File!EndRead, File!Advance, File!Nothing, Stages, AskedPlaces
<1>. QED
  BY <1>6 DEF Implemented, File!FileNext

\* A Write ends: refused because the handle is closed, or as it was answered.
LEMMA WriteEndImplements ==
  ASSUME RefineInv, RefineInv', NEW h \in Handlers, NEW from,
         NEW how \in {"ok", "error", "timeout"},
         End(h, from, how), op[h] = "write", Alone(h),
         \A g \in Handlers \ {h} : data'[g] = data[g],
         reply[h] = how \/ (reply[h] = "none" /\ how = "error")
  PROVE  Implemented
<1>. USE DEF RefineInv, HandleInv, WriteInv, End, Ended
<1>. PICK w : w = write[h]
  OBVIOUS
<1>1. /\ w \in Writes /\ outcome[w] = "none" /\ ~(w > writes)
      /\ w \in late => reply[h] = "timeout"
  BY DEF TypeOK, OwnerInv, FreshInv
<1>2. /\ op'[h] = "none" /\ outcome' = [outcome EXCEPT ![w] = how]
      /\ outcome'[w] = how
      /\ UNCHANGED <<content, place, late, writes>>
  BY <1>1 DEF TypeOK
<1>3. Stages' = Stages /\ AskedPlaces' = AskedPlaces /\ data' = data
  BY <1>2, NoReadStep
<1>4. Effects' = [Effects EXCEPT ![w] = EffectOf(w)']
  BY <1>1, <1>2, EffectsFrame
<1>5. EffectOf(w)' = IF how = "error" THEN "never" ELSE IF w \notin late THEN "done" ELSE "pending"
  BY <1>1, <1>2, EffectEndedNext
<1>6. Effects[w] = IF reply[h] = "error" THEN "never"
                   ELSE IF reply[h] \in {"ok", "timeout"} /\ w \notin late THEN "done"
                   ELSE "pending"
  BY <1>1, EffectOwned DEF Effects
<1>7. UNCHANGED File!readVars
  BY <1>3 DEF File!readVars, Stages, AskedPlaces
<1>8. CASE reply[h] = "none"
  <2>1. how = "error" /\ Effects[w] = "pending" /\ Effects' = [Effects EXCEPT ![w] = "never"]
    BY <1>4, <1>5, <1>6, <1>8
  <2>2. File!Abort(w)
    BY <1>1, <1>2, <1>7, <2>1 DEF File!Abort, File!Becomes, Effects
  <2>. QED
    BY <1>1, <2>2 DEF Implemented, File!FileNext
<1>9. CASE reply[h] = how
  <2>1. EffectOf(w)' = Effects[w] /\ Effects' = Effects
    BY <1>1, <1>4, <1>5, <1>6, <1>9 DEF Effects
  <2>2. \/ how = "ok" /\ Effects[w] = "done"
        \/ how = "error" /\ Effects[w] = "never"
        \/ how = "timeout" /\ Effects[w] \in {"pending", "done"}
    BY <1>1, <1>6, <1>9
  <2>3. File!Tell(w, how)
    BY <1>1, <1>2, <1>7, <2>1, <2>2 DEF File!Tell, Effects
  <2>. QED
    BY <1>1, <2>3 DEF Implemented, File!FileNext
<1>. QED
  BY <1>8, <1>9

LEMMA EndImplements ==
  ASSUME RefineInv, RefineInv', NEW h \in Handlers, IsClosed(h) \/ Return(h)
  PROVE  Implemented
<1>. USE DEF RefineInv, HandleInv
<1>1. Alone(h) /\ \A g \in Handlers \ {h} : data'[g] = data[g]
  BY StepAlone DEF HandlerStep
<1>2. PICK from \in {"lock", "request"}, how \in {"ok", "error", "timeout"} :
        /\ End(h, from, how)
        /\ reply[h] = how \/ (reply[h] = "none" /\ how = "error")
  BY DEF IsClosed, Return, End, TypeOK
<1>3. CASE op[h] \in Reads
  BY <1>1, <1>2, <1>3, ReadEndImplements
<1>4. CASE op[h] = "write"
  BY <1>1, <1>2, <1>4, WriteEndImplements
<1>5. CASE op[h] \in {"none", "flush"}
  <2>1. op'[h] = "none" /\ UNCHANGED <<content, place, outcome, late, writes>>
    BY <1>2, <1>5 DEF End, Ended, TypeOK
  <2>. QED
    BY <1>1, <1>5, <2>1, NoReadStep, NoWriteStep, MapStutter
<1>. QED
  BY <1>3, <1>4, <1>5 DEF TypeOK

-----------------------------------------------------------------------------

\* The instant a Read sees is the one the server answers at.
LEMMA ServerReadsImplements ==
  ASSUME RefineInv, RefineInv', NEW h \in Handlers, ServerReads(h)
  PROVE  Implemented
<1>. USE DEF RefineInv, HandleInv, ServerReads
<1>1. Alone(h)
  BY StepAlone DEF RequestEnds
<1>2. /\ op[h] \in Reads /\ op' = op /\ offset' = offset
      /\ reply[h] = "none" /\ reply'[h] = "ok"
      /\ UNCHANGED <<content, place, outcome, late, writes>>
  BY DEF TypeOK, histVars
<1>3. Effects' = Effects
  BY <1>1, <1>2, NoWriteStep
<1>4. StageOf(h) = "asked" /\ StageOf(h)' = "seen" /\ AskedOf(h)' = AskedOf(h) /\ AskedOf(h) = Asked(h)
  BY <1>2 DEF StageOf, AskedOf, Asked
<1>5. /\ Stages' = [Stages EXCEPT ![h] = "seen"] /\ Stages[h] = "asked"
      /\ AskedPlaces' = AskedPlaces /\ AskedPlaces[h] = Asked(h)
  BY <1>1, <1>4, ReadFrame DEF Stages, AskedPlaces
<1>6. UNCHANGED File!fileVars
  BY <1>2, <1>3 DEF File!fileVars, Effects
<1>7. \A o : File!Within(o) <=> Within(o)
  BY DEF File!Within, Within
<1>8. File!See(h)
  BY <1>5, <1>6, <1>7 DEF File!See, File!Advance, Stages, AskedPlaces
<1>. QED
  BY <1>8 DEF Implemented, File!FileNext

LEMMA ServerWritesImplements ==
  ASSUME RefineInv, RefineInv', NEW h \in Handlers, ServerWrites(h)
  PROVE  Implemented
<1>. USE DEF RefineInv, HandleInv, WriteInv, ServerWrites
<1>. DEFINE w == write[h]
<1>1. Alone(h) /\ \A g \in Handlers \ {h} : data'[g] = data[g]
  BY StepAlone DEF RequestEnds
<1>2. /\ op[h] = "write" /\ op' = op /\ write' = write
      /\ reply[h] = "none" /\ reply'[h] = "ok"
      /\ UNCHANGED <<place, outcome, late, writes>>
  BY DEF TypeOK, histVars
<1>3. w \in Writes /\ place[w] = offset[h] /\ w \notin late
  BY <1>2 DEF TypeOK, OwnerInv
<1>4. Stages' = Stages /\ AskedPlaces' = AskedPlaces /\ data' = data
  BY <1>1, <1>2, NoReadStep
<1>5. Effects' = [Effects EXCEPT ![w] = EffectOf(w)']
  BY <1>1, <1>2, <1>3, EffectsFrame
<1>6. EffectOf(w)' = "done" /\ Effects[w] = "pending"
  BY <1>2, <1>3, EffectOwned, EffectOwnedNext DEF Effects
<1>7. File!TakeEffect(w)
  BY <1>2, <1>3, <1>4, <1>5, <1>6 DEF File!TakeEffect, File!Becomes, File!readVars,
     Effects, Stages, AskedPlaces
<1>. QED
  BY <1>3, <1>7 DEF Implemented, File!FileNext

LEMMA LateWriteImplements ==
  ASSUME RefineInv, NEW w \in Writes, LateWrite(w)
  PROVE  Implemented
<1>. USE DEF RefineInv, HandleInv, WriteInv, LateWrite, callVars, histVars
<1>1. \A v, answers : Answered(v, answers)' <=> Answered(v, answers)
  BY DEF Answered
<1>2. /\ ~(w > writes) /\ Answered(w, {"timeout"}) /\ ~Answered(w, {"error"})
  BY DEF FreshInv, LateInv, Answered, EndedInv, OwnerInv
<1>3. Answered(w, {"ok", "timeout"})
  BY <1>2 DEF Answered
<1>4. EffectOf(w) = "pending" /\ EffectOf(w)' = "done"
  BY <1>1, <1>2, <1>3 DEF EffectOf
<1>5. \A v \in Writes \ {w} : EffectOf(v)' = EffectOf(v)
  BY <1>1 DEF EffectOf
<1>6. Effects' = [Effects EXCEPT ![w] = "done"] /\ Effects[w] = "pending"
  BY <1>4, <1>5 DEF Effects
<1>7. Stages' = Stages /\ AskedPlaces' = AskedPlaces
  BY DEF Stages, AskedPlaces, StageOf, AskedOf, Asked
<1>8. File!TakeEffect(w)
  BY <1>6, <1>7 DEF File!TakeEffect, File!Becomes, File!readVars, Effects, Stages, AskedPlaces
<1>. QED
  BY <1>8 DEF Implemented, File!FileNext

\* A request that is not carried out, or whose caller has given up on it.
LEMMA NoAnswerImplements ==
  ASSUME RefineInv, RefineInv', NEW h \in Handlers, ServerFails(h) \/ Timeout(h)
  PROVE  Implemented
<1>. USE DEF RefineInv, HandleInv, WriteInv
<1>1. Alone(h) /\ \A g \in Handlers \ {h} : data'[g] = data[g]
  BY StepAlone DEF RequestEnds
<1>2. /\ UNCHANGED <<op, offset, write, data, content, place, outcome, writes>>
      /\ reply'[h] \in {"error", "timeout"} /\ reply[h] \in {"none", "ok"}
  BY DEF ServerFails, Timeout, histVars, TypeOK
<1>3. CASE op[h] \in Reads
  <2>1. Effects' = Effects
    BY <1>1, <1>2, <1>3, NoWriteStep DEF ServerFails, Timeout
  <2>2. /\ StageOf(h)' = "failed" /\ StageOf(h) \in {"asked", "seen"}
        /\ AskedOf(h)' = AskedOf(h)
    BY <1>2, <1>3 DEF StageOf, AskedOf, Asked
  <2>3. /\ Stages' = [Stages EXCEPT ![h] = "failed"] /\ Stages[h] \in {"asked", "seen"}
        /\ AskedPlaces' = AskedPlaces
    BY <1>1, <2>2, ReadFrame DEF Stages, AskedPlaces
  <2>4. UNCHANGED File!fileVars
    BY <1>2, <2>1 DEF File!fileVars, Effects
  <2>5. File!Fail(h)
    BY <1>2, <2>3, <2>4 DEF File!Fail, File!Advance, Stages, AskedPlaces
  <2>. QED
    BY <2>5 DEF Implemented, File!FileNext
<1>4. CASE op[h] = "write"
  <2>. DEFINE w == write[h]
  <2>1. w \in Writes /\ (w \in late => reply[h] = "timeout") /\ outcome[w] = "none"
    BY <1>4 DEF TypeOK, OwnerInv
  <2>2. Stages' = Stages /\ AskedPlaces' = AskedPlaces /\ data' = data
    BY <1>1, <1>2, <1>4, NoReadStep
  <2>3. \A v \in Writes \ {w} : v \in late' <=> v \in late
    BY DEF ServerFails, Timeout
  <2>4. Effects' = [Effects EXCEPT ![w] = EffectOf(w)']
    BY <1>1, <1>2, <2>1, <2>3, EffectsFrame
  <2>5. Effects[w] = IF reply[h] = "ok" THEN "done" ELSE "pending"
    BY <1>2, <1>4, <2>1, EffectOwned DEF Effects
  <2>6. CASE ServerFails(h)
    <3>1. reply[h] = "none" /\ reply'[h] = "error"
      BY <2>6 DEF ServerFails, TypeOK
    <3>2. EffectOf(w)' = "never" /\ Effects[w] = "pending"
      BY <1>2, <1>4, <2>5, <3>1, EffectOwnedNext
    <3>3. File!Abort(w)
      BY <1>2, <2>2, <2>4, <3>2 DEF File!Abort, File!Becomes, File!readVars, Effects,
         Stages, AskedPlaces
    <3>. QED
      BY <2>1, <3>3 DEF Implemented, File!FileNext
  <2>7. CASE Timeout(h)
    <3>1. reply'[h] = "timeout" /\ (w \in late' <=> reply[h] = "none")
      BY <1>2, <1>4, <2>1, <2>7 DEF Timeout, TypeOK
    <3>2. EffectOf(w)' = Effects[w]
      BY <1>2, <1>4, <2>5, <3>1, EffectOwnedNext
    <3>3. Effects' = Effects
      BY <2>1, <2>4, <3>2 DEF Effects
    <3>. QED
      BY <1>2, <2>2, <3>3, MapStutter
  <2>. QED
    BY <2>6, <2>7
<1>5. CASE op[h] \in {"none", "flush"}
  <2>1. late' = late
    BY <1>5 DEF ServerFails, Timeout
  <2>. QED
    BY <1>1, <1>2, <1>5, <2>1, NoReadStep, NoWriteStep, MapStutter
<1>. QED
  BY <1>3, <1>4, <1>5 DEF TypeOK

\* Whatever timeouts, late Writes and closes there are, every Write is atomic,
\* happens at most once, has happened when it is acknowledged and never does
\* when it has failed, and every Read sees one state of the file.
THEOREM FileImplementsAtomicFile == Spec => ImplementsAtomicFile
<1>1. Init => File!FileInit
  <2>. SUFFICES ASSUME Init PROVE File!FileInit
    OBVIOUS
  <2>1. \A w \in Writes : EffectOf(w) = "none"
    BY DEF Init, EffectOf, Writes
  <2>2. \A h \in Handlers : StageOf(h) = "idle" /\ AskedOf(h) = {}
    BY DEF Init, StageOf, AskedOf
  <2>. QED
    BY <2>1, <2>2 DEF Init, File!FileInit, File!Nothing
<1>2. RefineInv /\ RefineInv' /\ [Next]_vars
        => [File!FileNext]_(<<File!fileVars, File!readVars>>)
  <2>. SUFFICES ASSUME RefineInv, RefineInv', [Next]_vars PROVE Implemented
    BY DEF Implemented
  <2>0. 0 \in Places
    BY WritesAssumption DEF Places
  <2>1. CASE UNCHANGED vars \/ Close
    <3>1. UNCHANGED <<op, offset, write, reply, data, content, late, writes, outcome, place>>
      BY <2>1 DEF vars, Close, callVars, histVars
    <3>2. Effects' = Effects /\ Stages' = Stages /\ AskedPlaces' = AskedPlaces
      BY <3>1 DEF Effects, Stages, AskedPlaces, EffectOf, Answered, StageOf, AskedOf, Asked
    <3>. QED
      BY <3>1, <3>2, MapStutter
  <2>2. ASSUME NEW h \in Handlers, NEW o \in Places, CallWrite(h, o) \/ CallRead(h, "read", o)
        PROVE  Implemented
    BY <2>2, CallWriteImplements, CallReadImplements
  <2>3. ASSUME NEW h \in Handlers,
               CallRead(h, "readAll", 0) \/ CallFlush(h) \/ HandlerStep(h) \/ RequestEnds(h)
        PROVE  Implemented
    <3>1. CASE CallRead(h, "readAll", 0)
      BY <2>0, <3>1, CallReadImplements
    <3>2. CASE CallFlush(h) \/ HandlerStep(h)
      BY <3>2, QuietImplements, EndImplements DEF HandlerStep
    <3>3. CASE RequestEnds(h)
      BY <3>3, ServerReadsImplements, ServerWritesImplements, NoAnswerImplements DEF RequestEnds
    <3>. QED
      BY <2>3, <3>1, <3>2, <3>3
  <2>4. ASSUME NEW w \in Writes, LateWrite(w) PROVE Implemented
    BY <2>4, LateWriteImplements
  <2>. QED
    BY <2>1, <2>2, <2>3, <2>4 DEF Next
<1>. QED
  BY <1>1, <1>2, Mapped, PTL DEF Spec, ImplementsAtomicFile, File!FileSpec

=============================================================================
