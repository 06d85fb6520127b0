----------------------------- MODULE FileHandle -----------------------------
(***************************************************************************)
(* file/handle/main.go with ReadFile and WriteFile of the gRPC client: the *)
(* requests on one open file, and the remote file behind it.               *)
(*                                                                         *)
(* Read, ReadAll and Write hold handle.mu for reading across their request *)
(* to the file server, so any number of them run at once; Flush, Fsync and *)
(* Release take it for writing and do nothing else, so they return when    *)
(* the requests that run have been answered.  A sync.RWMutex admits no     *)
(* reader while a writer waits.  Close takes no lock.                      *)
(*                                                                         *)
(* A request ends after ten seconds, or when the connection is lost; the   *)
(* server may carry out a write whose caller has given up, even after      *)
(* later writes.  An error is the server's refusal.  A write replaces      *)
(* one unit of the file: a unit is the number of the write it comes from.  *)
(* A Write may lengthen the file; ReadAll asks for as much as the file had *)
(* when its node was made, whatever has been written since.                *)
(***************************************************************************)
EXTENDS Naturals, FiniteSets

CONSTANTS
  Handlers,     \* goroutines that serve requests on the handle
  MaxPlace,     \* bound: the last place in the file that is read or written
  Size,         \* node.size: how long the file was when its node was made
  MaxWrites     \* bound: how many Writes a behaviour has

ASSUME WritesAssumption == MaxPlace \in Nat /\ Size \in Nat /\ MaxWrites \in Nat

VARIABLES
  closed,       \* handle.closed
  pc,           \* control state of each handler
  op,           \* what it has been called for
  offset,       \* where its Read or Write goes
  write,        \* the number of its Write
  reply,        \* the answer it has got
  data,         \* the units a Read has got, by their places
  content,      \* the remote file
  late,         \* the Writes whose callers have given up on them
  writes,       \* how many Writes have been called
  outcome,      \* how each Write has ended
  place,        \* history: where each Write went
  before,       \* history: the Writes that were over when it began
  since         \* history: the Writes that were acknowledged when a Read began

callVars == <<pc, op, offset, write, reply, data>>
histVars == <<outcome, place, before, since>>
vars == <<closed, callVars, content, late, writes, histVars>>

Reads == {"read", "readAll"}
Ops == Reads \cup {"none", "write", "flush"}
Writes == 1..MaxWrites
Units == Writes \cup {0}     \* 0 is what the file has at first
Places == 0..MaxPlace
Nothing == [o \in {} |-> 0]

Init ==
  /\ closed = FALSE
  /\ pc = [h \in Handlers |-> "idle"]
  /\ op = [h \in Handlers |-> "none"]
  /\ offset = [h \in Handlers |-> 0]
  /\ write = [h \in Handlers |-> 0]
  /\ reply = [h \in Handlers |-> "none"]
  /\ data = [h \in Handlers |-> Nothing]
  /\ content = [o \in Places |-> 0]
  /\ late = {} /\ writes = 0
  /\ outcome = [w \in Writes |-> "none"]
  /\ place = [w \in Writes |-> 0]
  /\ before = [w \in Writes |-> {}]
  /\ since = [h \in Handlers |-> {}]

-----------------------------------------------------------------------------

Goto(h, from, to) ==
  /\ pc[h] = from
  /\ pc' = [pc EXCEPT ![h] = to]

\* The Writes the server has answered: none of them is carried out later.
Over == {w \in Writes : outcome[w] \in {"ok", "error"}}

Acknowledged == {w \in Writes : outcome[w] = "ok"}

\* Read at o, or ReadAll.
CallRead(h, how, o) ==
  /\ Goto(h, "idle", "lock")
  /\ op' = [op EXCEPT ![h] = how]
  /\ offset' = [offset EXCEPT ![h] = o]
  /\ since' = [since EXCEPT ![h] = Acknowledged]
  /\ UNCHANGED <<closed, write, reply, data, content, late, writes, outcome, place, before>>

CallWrite(h, o) ==
  /\ writes < MaxWrites
  /\ writes' = writes + 1
  /\ Goto(h, "idle", "lock")
  /\ op' = [op EXCEPT ![h] = "write"]
  /\ offset' = [offset EXCEPT ![h] = o]
  /\ write' = [write EXCEPT ![h] = writes + 1]
  /\ place' = [place EXCEPT ![writes + 1] = o]
  /\ before' = [before EXCEPT ![writes + 1] = Over]
  /\ UNCHANGED <<closed, reply, data, content, late, outcome, since>>

\* Flush, Fsync or Release.
CallFlush(h) ==
  /\ Goto(h, "idle", "lock")
  /\ op' = [op EXCEPT ![h] = "flush"]
  /\ UNCHANGED <<closed, offset, write, reply, data, content, late, writes, histVars>>

\* Seeded fault: readers pass a writer that waits.
CanRead_Always(h) == op[h] # "flush"

\* mu.RLock returns: no writer waits.
CanRead(h) ==
  /\ op[h] # "flush"
  /\ \A g \in Handlers : ~(pc[g] = "wait" /\ op[g] = "flush")

\* mu.Lock announces the writer, and then waits for the readers that are inside.
LockAnnounced(h) ==
  /\ op[h] = "flush"
  /\ \A g \in Handlers : ~(pc[g] = "wait" /\ op[g] = "flush")
  /\ Goto(h, "lock", "wait")
  /\ UNCHANGED <<closed, op, offset, write, reply, data, content, late, writes, histVars>>

ReadersGone(h) == \A g \in Handlers : pc[g] # "request"

Ended(h, how) ==
  /\ outcome' = IF op[h] = "write" THEN [outcome EXCEPT ![write[h]] = how] ELSE outcome
  /\ op' = [op EXCEPT ![h] = "none"]
  /\ offset' = [offset EXCEPT ![h] = 0]
  /\ write' = [write EXCEPT ![h] = 0]
  /\ data' = [data EXCEPT ![h] = Nothing]
  /\ since' = [since EXCEPT ![h] = {}]
  /\ UNCHANGED <<closed, content, late, writes, place, before>>

\* Seeded fault: the answer is still there when the next request begins.
End_KeepReply(h, from, how) == Goto(h, from, "idle") /\ Ended(h, how) /\ UNCHANGED reply

\* A Write that ends how; a Read is forgotten.
End(h, from, how) ==
  /\ Goto(h, from, "idle") /\ Ended(h, how)
  /\ reply' = [reply EXCEPT ![h] = "none"]

Flushed(h) == op[h] = "flush" /\ ReadersGone(h) /\ End(h, "wait", "ok")

IsClosed(h) == CanRead(h) /\ closed /\ End(h, "lock", "error")

Send(h) ==
  /\ CanRead(h) /\ ~closed
  /\ Goto(h, "lock", "request")
  /\ UNCHANGED <<closed, op, offset, write, reply, data, content, late, writes, histVars>>

-----------------------------------------------------------------------------
(* The file server, and the answer. *)

Pending(h) == pc[h] = "request" /\ reply[h] = "none"

\* How long the file is: a Write past its end has lengthened it.
Within(o) == o < Size \/ \E p \in Places : o <= p /\ content[p] # 0

\* Seeded fault: ReadAll leaves out the last place.
Asked_OffByOne(h) == IF op[h] = "read" THEN {offset[h]} ELSE {o \in Places : o + 1 < Size}

Asked(h) == IF op[h] = "read" THEN {offset[h]} ELSE {o \in Places : o < Size}

ServerReads(h) ==
  /\ Pending(h) /\ op[h] \in Reads
  /\ reply' = [reply EXCEPT ![h] = "ok"]
  /\ data' = [data EXCEPT ![h] = [o \in {p \in Asked(h) : Within(p)} |-> content[o]]]
  /\ UNCHANGED <<closed, pc, op, offset, write, content, late, writes, histVars>>

ServerWrites(h) ==
  /\ Pending(h) /\ op[h] = "write"
  /\ reply' = [reply EXCEPT ![h] = "ok"]
  /\ content' = [content EXCEPT ![offset[h]] = write[h]]
  /\ UNCHANGED <<closed, pc, op, offset, write, data, late, writes, histVars>>

ServerFails(h) ==
  /\ Pending(h)
  /\ reply' = [reply EXCEPT ![h] = "error"]
  /\ UNCHANGED <<closed, pc, op, offset, write, data, content, late, writes, histVars>>

\* Seeded fault: a Write is sent once more when its time is over.
Timeout_SendAgain(h) ==
  /\ pc[h] = "request" /\ reply[h] \in {"none", "ok"}
  /\ reply' = [reply EXCEPT ![h] = "timeout"]
  /\ late' = IF op[h] = "write" THEN late \cup {write[h]} ELSE late
  /\ UNCHANGED <<closed, pc, op, offset, write, data, content, writes, histVars>>

\* The ten seconds are over, or the connection lost, before the answer is there.
Timeout(h) ==
  /\ pc[h] = "request" /\ reply[h] \in {"none", "ok"}
  /\ reply' = [reply EXCEPT ![h] = "timeout"]
  /\ late' = IF Pending(h) /\ op[h] = "write" THEN late \cup {write[h]} ELSE late
  /\ UNCHANGED <<closed, pc, op, offset, write, data, content, writes, histVars>>

LateWrite(w) ==
  /\ w \in late
  /\ late' = late \ {w}
  /\ content' = [content EXCEPT ![place[w]] = w]
  /\ UNCHANGED <<closed, callVars, writes, histVars>>

\* Seeded fault: Write returns nil, whatever the client says.
Return_NoError(h) ==
  /\ reply[h] # "none"
  /\ End(h, "request", "ok")

Return(h) ==
  /\ reply[h] # "none"
  /\ End(h, "request", reply[h])

Close ==
  /\ ~closed
  /\ closed' = TRUE
  /\ UNCHANGED <<callVars, content, late, writes, histVars>>

-----------------------------------------------------------------------------

HandlerStep(h) ==
  \/ LockAnnounced(h) \/ Flushed(h) \/ IsClosed(h) \/ Send(h) \/ Return(h)

RequestEnds(h) == ServerReads(h) \/ ServerWrites(h) \/ ServerFails(h) \/ Timeout(h)

Next ==
  \/ \E h \in Handlers :
       \/ \E o \in Places : CallWrite(h, o) \/ CallRead(h, "read", o)
       \/ CallRead(h, "readAll", 0) \/ CallFlush(h)
       \/ HandlerStep(h) \/ RequestEnds(h)
  \/ \E w \in Writes : LateWrite(w)
  \/ Close

Spec == Init /\ [][Next]_vars

\* The scheduler runs every goroutine that can run, and no request takes more
\* than ten seconds.
FairSpec ==
  /\ Spec
  /\ \A h \in Handlers : WF_vars(HandlerStep(h)) /\ WF_vars(RequestEnds(h))

-----------------------------------------------------------------------------

\* A Read gets units that Writes have put into places of the file.
DataOK ==
  /\ DOMAIN data = Handlers
  /\ \A h \in Handlers : data[h] \in [DOMAIN data[h] -> Units] /\ DOMAIN data[h] \subseteq Places

TypeOK ==
  /\ closed \in BOOLEAN
  /\ pc \in [Handlers -> {"idle", "lock", "wait", "request"}]
  /\ op \in [Handlers -> Ops]
  /\ offset \in [Handlers -> Places]
  /\ write \in [Handlers -> Units]
  /\ \A h \in Handlers :
       /\ pc[h] = "idle" <=> op[h] = "none"
       /\ op[h] = "write" <=> write[h] \in Writes
       /\ reply[h] # "none" => pc[h] = "request"
  /\ reply \in [Handlers -> {"none", "ok", "error", "timeout"}]
  /\ DataOK
  /\ content \in [Places -> Units]
  /\ late \subseteq Writes /\ writes \in 0..MaxWrites
  /\ outcome \in [Writes -> {"none", "ok", "error", "timeout"}]
  /\ place \in [Writes -> Places]
  /\ before \in [Writes -> SUBSET Writes]
  /\ since \in [Handlers -> SUBSET Writes]

\* What w has put in its place, or a Write that was not over when w began.
IsRecent(unit, w) == unit \in Writes \ before[w]

\* An acknowledged Write stays until another one replaces it that was not over
\* when it began: the remote file never goes back to a Write that was.
AcknowledgedWriteStays == \A w \in Acknowledged : IsRecent(content[place[w]], w)

\* A Read at the place of a Write that had been acknowledged before returns it
\* or a later one, and so does ReadAll, but for what lies past the size its node
\* was made with (the size is never asked for again).
ReadsAreRegular ==
  \A h \in Handlers : reply[h] = "ok" /\ op[h] \in Reads =>
    \A w \in since[h] :
      (IF op[h] = "read" THEN place[w] = offset[h] ELSE place[w] < Size) =>
        /\ place[w] \in DOMAIN data[h]
        /\ IsRecent(data[h][place[w]], w)

\* To its clients the handle is such a file, and no place goes back to a Write.
RegularFile == AcknowledgedWriteStays /\ ReadsAreRegular

-----------------------------------------------------------------------------
(* The atomic file: what has become of a Write that has been called. *)

\* Its caller waits for the answer, which is one of these.
Answered(w, answers) ==
  \/ outcome[w] \in answers
  \/ \E h \in Handlers : op[h] = "write" /\ write[h] = w /\ reply[h] \in answers

EffectOf(w) ==
  IF w > writes THEN "none"
  ELSE IF Answered(w, {"error"}) THEN "never"
  ELSE IF Answered(w, {"ok", "timeout"}) /\ w \notin late THEN "done"
  ELSE "pending"

StageOf(h) ==
  IF op[h] \notin Reads THEN "idle"
  ELSE IF reply[h] = "none" THEN "asked"
  ELSE IF reply[h] = "ok" THEN "seen"
  ELSE "failed"

AskedOf(h) == IF op[h] \in Reads THEN Asked(h) ELSE {}

File == INSTANCE AtomicFile WITH
          Clients <- Handlers,
          file <- content,
          effect <- [w \in Writes |-> EffectOf(w)],
          stage <- [h \in Handlers |-> StageOf(h)],
          asked <- [h \in Handlers |-> AskedOf(h)],
          seen <- data

\* Beside timeouts, late Writes and closes every Write is atomic and happens
\* at most once, and every Read sees one state of the file.
ImplementsAtomicFile == File!FileSpec

\* A Flush returns, however many reads follow each other.
FlushReturns == \A h \in Handlers : pc[h] = "wait" ~> pc[h] = "idle"

=============================================================================
