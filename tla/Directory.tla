----------------------------- MODULE Directory ------------------------------
(***************************************************************************)
(* directory/node/main.go, directory/handle/main.go and its service: the   *)
(* operations of a directory, most of them one or more requests to the     *)
(* file server of RemoteTree, and the handles it gives out.                *)
(*                                                                         *)
(* An operation holds node.mu from its first line to its return: for       *)
(* reading in Lookup and Open, for writing in the others, and across its   *)
(* requests.  Every Lookup of a directory makes a new node with a mutex of *)
(* its own, so several nodes may stand for the same remote directory.      *)
(* Rename locks the node it moves from and not the one it moves to.        *)
(*                                                                         *)
(* ReadDirAll is an operation of a handle and takes no lock of the node.   *)
(* It has no answer for ENOENT but a listing without entries.  Open stores *)
(* its handle by append, under the lock for reading; Close takes no lock   *)
(* and closes the handles of the list one after the other.                 *)
(*                                                                         *)
(* Create asks for the name it has created, then makes a file node for     *)
(* what it finds: New asks for the size, Open may find the node closed by  *)
(* the registry.  The node of a Lookup is told by the kind of the id.  The *)
(* node of a directory, which Lookup and Mkdir make, has a logger and      *)
(* services of its own, whose registry asks for the root of the file       *)
(* server: when one of them fails, by an error or a panic, so does the     *)
(* operation.  The services and the registry are those of module Registry. *)
(***************************************************************************)
EXTENDS RemoteTree, FiniteSets, SequencesExt

CONSTANTS
  Nodes,        \* directory nodes
  DirectoryOf,  \* the remote directory of each of them
  RootNode,     \* the root of the mount, which Rename can be given
  Requests,     \* the operations the kernel can ask for
  OpenNode,     \* the node that the kernel has opened once at the start
  MaxCalls,     \* bound: how many operations a behaviour has
  MaxCloses     \* bound: how many nodes are closed

ASSUME NodesAssumption ==
  /\ DirectoryOf \in [Nodes -> Directories] /\ RootNode \notin Nodes /\ OpenNode \in Nodes
  /\ MaxCalls \in Nat /\ MaxCloses \in Nat
  /\ \A q \in Requests :
       /\ q.op \in {"open", "readdir", "lookup", "remove", "rename", "create", "mkdir", "link"}
       /\ q.node \in Nodes
       /\ q.op \notin {"open", "readdir"} => q.name \in Names
       /\ q.op = "rename" => q.to \in Nodes \cup {RootNode} /\ q.newName \in Names
       /\ q.op = "link" => q.old \in DOMAIN FirstKinds

VARIABLES
  handles,    \* node.handles of each node
  closer,     \* control state of its Close
  closing,    \* the handles its Close still has before it
  made,       \* handles 1..made exist
  shut,       \* the handles that are closed
  pc,         \* control state of each caller
  call,       \* the operation of each caller
  outcome,    \* how its operation has ended
  result,     \* the id of the node it has returned
  using,      \* the handle it has made or reads from
  snapshot,   \* the node.handles its append has read
  listing,    \* the type of each name in the listing it has returned
  calls,      \* how many operations have been called
  serial,     \* history: the number of each caller's operation
  done,       \* history: how often its change has been carried out
  created,    \* history: the id its Create has made
  fresh,      \* history: the names that are as its Lookup or ReadDirAll has read them
  early,      \* history: the handles each node has returned before its Close
  lost        \* history: the handles an append has written over

nodeVars == <<handles, made, early, lost>>
closeVars == <<closer, closing, shut>>
callVars == <<pc, call, outcome, result>>
listVars == <<using, snapshot, listing>>
histVars == <<serial, done, created>>
vars == <<treeVars, rpcVars, nodeVars, closeVars, callVars, listVars, calls, histVars, fresh>>

NoCall == [op |-> "none"]
WaitPCs == {"main", "find", "info", "list"}          \* a request is under way
HoldPCs == {"append", "store", "main", "find", "info"}  \* node.mu is held

NoListing == [name \in Names |-> "none"]

Init ==
  /\ RemoteInit
  /\ handles = [n \in Nodes |-> IF n = OpenNode THEN <<1>> ELSE <<>>] /\ made = 1
  /\ closer = [n \in Nodes |-> "open"]
  /\ closing = [n \in Nodes |-> <<>>] /\ shut = {}
  /\ pc = [c \in Callers |-> "idle"]
  /\ call = [c \in Callers |-> NoCall]
  /\ outcome = [c \in Callers |-> "none"]
  /\ result = [c \in Callers |-> NoEntry]
  /\ using = [c \in Callers |-> 0]
  /\ snapshot = [c \in Callers |-> <<>>]
  /\ listing = [c \in Callers |-> NoListing]
  /\ calls = 0
  /\ serial = [c \in Callers |-> 0]
  /\ done = [c \in Callers |-> 0]
  /\ created = [c \in Callers |-> NoEntry]
  /\ fresh = [c \in Callers |-> {}]
  /\ early = [n \in Nodes |-> ToSet(handles[n])] /\ lost = [n \in Nodes |-> {}]

-----------------------------------------------------------------------------

Goto(c, from, to) ==
  /\ pc[c] = from
  /\ pc' = [pc EXCEPT ![c] = to]

\* The operation returns; its lock is released.
End(c, from, how, id) ==
  /\ Goto(c, from, "idle")
  /\ outcome' = [outcome EXCEPT ![c] = how]
  /\ result' = [result EXCEPT ![c] = id]
  /\ UNCHANGED <<treeVars, closeVars, call, using, calls, histVars, fresh>>

Return(c, from, how, id) == End(c, from, how, id) /\ UNCHANGED <<nodeVars, snapshot, listing>>

\* The next request of the operation.
Ask(c, from, to, r) ==
  /\ Goto(c, from, to)
  /\ Send(c, r)
  /\ UNCHANGED <<treeVars, nodeVars, closeVars, call, outcome, result, listVars>>
  /\ UNCHANGED <<calls, histVars, fresh>>

\* The handles that Opens of node n have returned.
Given(n) == ToSet(handles[n]) \cup lost[n]

\* Operation q is called, with handle h if it is one of a handle.
Call(c, q, h) ==
  /\ calls < MaxCalls
  /\ IF q.op = "readdir" THEN h \in Given(q.node) ELSE h = 0
  /\ calls' = calls + 1
  /\ Goto(c, "idle", IF q.op = "readdir" THEN "handle" ELSE "lock")
  /\ call' = [call EXCEPT ![c] = q]
  /\ outcome' = [outcome EXCEPT ![c] = "none"]
  /\ result' = [result EXCEPT ![c] = NoEntry]
  /\ using' = [using EXCEPT ![c] = h]
  /\ listing' = [listing EXCEPT ![c] = NoListing]
  /\ fresh' = [fresh EXCEPT ![c] = {}]
  /\ serial' = [serial EXCEPT ![c] = calls + 1]
  /\ done' = [done EXCEPT ![c] = 0]
  /\ created' = [created EXCEPT ![c] = NoEntry]
  /\ UNCHANGED <<treeVars, rpcVars, nodeVars, closeVars, snapshot>>

Reads(c) == call[c].op \in {"lookup", "open"}

\* Seeded fault: every operation locks the node for reading.
CanLock_Shared(c) == pc[c] = "lock"

\* node.mu can be taken: for reading beside readers only, else alone.
CanLock(c) ==
  /\ pc[c] = "lock"
  /\ \A d \in Callers \ {c} :
       pc[d] \in HoldPCs /\ call[d].node = call[c].node => Reads(c) /\ Reads(d)

Closed(n) == closer[n] # "open"

IsClosed(c) ==
  /\ CanLock(c) /\ Closed(call[c].node)
  /\ Return(c, "lock", "refused", NoEntry)
  /\ UNCHANGED rpcVars

\* Rename: newDir is not a *Node.  Link: oldNode is no StreamableNode, which
\* asks for methods that file nodes have as well.
ToRoot(c) == call[c].op = "rename" /\ call[c].to = RootNode
WrongType(c) ==
  \/ ToRoot(c)
  \/ call[c].op = "link" /\ kinds[call[c].old] \notin {"streamable", "file"}

Rejected(c) ==
  /\ CanLock(c) /\ ~Closed(call[c].node) /\ WrongType(c)
  /\ Return(c, "lock", "rejected", NoEntry)
  /\ UNCHANGED rpcVars

-----------------------------------------------------------------------------
(* Open. *)

\* The handle has no logger.
NewFails(c) ==
  /\ CanLock(c) /\ call[c].op = "open" /\ ~Closed(call[c].node)
  /\ Return(c, "lock", "error", NoEntry)
  /\ UNCHANGED rpcVars

NewHandle(c) ==
  /\ CanLock(c) /\ call[c].op = "open" /\ ~Closed(call[c].node)
  /\ Goto(c, "lock", "append")
  /\ made' = made + 1
  /\ using' = [using EXCEPT ![c] = made + 1]
  /\ UNCHANGED <<treeVars, rpcVars, handles, early, lost, closeVars, call, outcome, result>>
  /\ UNCHANGED <<snapshot, listing, calls, histVars, fresh>>

AppendLoad(c) ==
  /\ Goto(c, "append", "store")
  /\ snapshot' = [snapshot EXCEPT ![c] = handles[call[c].node]]
  /\ UNCHANGED <<treeVars, rpcVars, nodeVars, closeVars, call, outcome, result>>
  /\ UNCHANGED <<using, listing, calls, histVars, fresh>>

\* node.handles = append(...), and Open returns the handle.
AppendStore(c) ==
  LET n == call[c].node
      written == Append(snapshot[c], using[c]) IN
  /\ End(c, "store", "ok", NoEntry)
  /\ handles' = [handles EXCEPT ![n] = written]
  /\ lost' = [lost EXCEPT ![n] = @ \cup (ToSet(handles[n]) \ ToSet(written))]
  /\ early' = IF Closed(n) THEN early ELSE [early EXCEPT ![n] = @ \cup {using[c]}]
  /\ snapshot' = [snapshot EXCEPT ![c] = <<>>]
  /\ UNCHANGED <<rpcVars, made, listing>>

-----------------------------------------------------------------------------
(* The requests. *)

RequestOf(c) ==
  LET q == call[c]
      to == IF q.op = "rename" THEN q.to ELSE q.node IN
  [op |-> q.op, caller |-> c, serial |-> serial[c],
   dir |-> DirectoryOf[q.node], name |-> q.name,
   newDir |-> DirectoryOf[to], newName |-> IF q.op = "rename" THEN q.newName ELSE q.name,
   id |-> IF q.op = "link" THEN q.old ELSE NoEntry]

LookupOf(c) == [RequestOf(c) EXCEPT !.op = "lookup"]
InfoOf(c, id) == [RequestOf(c) EXCEPT !.op = "info", !.id = id]

ListOf(c) ==
  [op |-> "readdir", caller |-> c, serial |-> serial[c],
   dir |-> DirectoryOf[call[c].node], id |-> NoEntry]

Begin(c) ==
  /\ CanLock(c) /\ call[c].op # "open" /\ ~Closed(call[c].node) /\ ~WrongType(c)
  /\ Ask(c, "lock", "main", RequestOf(c))

\* ReadDirAll: the lock of the handle is never taken for writing.
HandleIsClosed(c) ==
  /\ using[c] \in shut
  /\ Return(c, "handle", "refused", NoEntry)
  /\ UNCHANGED rpcVars

ListBegin(c) ==
  /\ using[c] \notin shut
  /\ Ask(c, "handle", "list", ListOf(c))

-----------------------------------------------------------------------------
(* The answers. *)

Ok(c) == reply[c].status = "ok"
Got(c) == reply[c].id

\* An error of the file server is returned as it is, but that Lookup tells
\* ENOENT and EAGAIN apart.
Error(c, from) ==
  /\ reply[c].status \notin {"none", "ok"}
  /\ Return(c, from, reply[c].status, NoEntry)
  /\ Receive(c)

\* Seeded fault: an operation that has no answer is asked for once more.
MainFails_Retry(c) ==
  IF reply[c].status = "timeout"
  THEN Ask(c, "main", "main", RequestOf(c))
  ELSE Error(c, "main")

MainFails(c) == Error(c, "main")

\* Seeded fault: the operation returns and its request is not cancelled.
ChangeDone_NoCancel(c) ==
  /\ Ok(c) /\ call[c].op \in Changes \ {"create"}
  /\ Return(c, "main", "ok", Got(c))
  /\ UNCHANGED rpcVars

\* Remove, Rename, Mkdir and Link return.
ChangeDone(c) ==
  /\ Ok(c) /\ call[c].op \in Changes \ {"create"}
  /\ Return(c, "main", "ok", Got(c))
  /\ Receive(c)

KindOf(id) == IF id = NoEntry THEN "file" ELSE kinds[id]

\* directoryNodeService.New fails: a Mkdir has made its directory by then.
NewNodeFails(c) ==
  /\ Ok(c)
  /\ call[c].op = "mkdir" \/ (call[c].op = "lookup" /\ KindOf(Got(c)) = "directory")
  /\ Return(c, "main", "error", NoEntry)
  /\ Receive(c)

\* A directory or a symbolic link.
LookupDone(c) ==
  /\ Ok(c) /\ Reads(c) /\ KindOf(Got(c)) \in {"directory", "symlink"}
  /\ Return(c, "main", "ok", Got(c))
  /\ Receive(c)

\* Unknown file mode.
LookupUnknown(c) ==
  /\ Ok(c) /\ Reads(c) /\ KindOf(Got(c)) = "other"
  /\ Return(c, "main", "ENOENT", NoEntry)
  /\ Receive(c)

\* Seeded fault: the node of a file is made without its size.
LookupFile_NoInfo(c) ==
  /\ Ok(c) /\ Reads(c) /\ KindOf(Got(c)) \in {"file", "streamable"}
  /\ Return(c, "main", "ok", Got(c))
  /\ Receive(c)

LookupFile(c) ==
  /\ Ok(c) /\ Reads(c) /\ KindOf(Got(c)) \in {"file", "streamable"}
  /\ Ask(c, "main", "info", InfoOf(c, Got(c)))

CreateDone(c) ==
  /\ Ok(c) /\ call[c].op = "create"
  /\ Ask(c, "main", "find", LookupOf(c))

FindFails(c) == Error(c, "find")

Found(c) ==
  /\ Ok(c)
  /\ Ask(c, "find", "info", InfoOf(c, Got(c)))

InfoFails(c) == Error(c, "info")

\* The node is made, and for Create opened.
InfoDone(c) ==
  /\ Ok(c)
  /\ Return(c, "info", "ok", Got(c))
  /\ Receive(c)

\* The node of a Create is closed before it is open.
OpenFails(c) ==
  /\ Ok(c) /\ call[c].op = "create"
  /\ Return(c, "info", "error", NoEntry)
  /\ Receive(c)

\* ReadDirAll returns listing l.
Lists(c, l) ==
  /\ End(c, "list", "ok", NoEntry)
  /\ listing' = [listing EXCEPT ![c] = l]
  /\ Receive(c)
  /\ UNCHANGED <<nodeVars, snapshot>>

\* Seeded fault: an entry of an unknown mode is listed as a file.
ListDone_Default(c) ==
  /\ Ok(c)
  /\ Lists(c, [name \in Names |->
       LET id == reply[c].names[name] IN
       IF id # NoEntry /\ kinds[id] = "other" THEN "file" ELSE TypeOf(id)])

ListDone(c) ==
  /\ Ok(c)
  /\ Lists(c, [name \in Names |-> TypeOf(reply[c].names[name])])

\* ENOENT is not returned: the listing has no entries.
ListGone(c) == reply[c].status = "ENOENT" /\ Lists(c, NoListing)

ListFails(c) == reply[c].status # "ENOENT" /\ Error(c, "list")

-----------------------------------------------------------------------------
(* Close. *)

CloserGoto(n, from, to) ==
  /\ closer[n] = from
  /\ closer' = [closer EXCEPT ![n] = to]
  /\ UNCHANGED <<treeVars, rpcVars, nodeVars, callVars, listVars, calls, histVars, fresh>>

CloseCAS(n) ==
  /\ Cardinality({m \in Nodes : Closed(m)}) < MaxCloses
  /\ CloserGoto(n, "open", "range")
  /\ UNCHANGED <<closing, shut>>

\* Seeded fault: the range leaves the newest handle out.
CloseRange_Short(n) ==
  /\ CloserGoto(n, "range", "closing")
  /\ closing' = [closing EXCEPT ![n] = IF handles[n] = <<>> THEN <<>> ELSE Front(handles[n])]
  /\ UNCHANGED shut

\* range evaluates node.handles once.
CloseRange(n) ==
  /\ CloserGoto(n, "range", "closing")
  /\ closing' = [closing EXCEPT ![n] = handles[n]]
  /\ UNCHANGED shut

HandleCloses(n) ==
  /\ closing[n] # <<>>
  /\ CloserGoto(n, "closing", "closing")
  /\ shut' = shut \cup {Head(closing[n])}
  /\ closing' = [closing EXCEPT ![n] = Tail(@)]

CloseEnd(n) ==
  /\ closing[n] = <<>>
  /\ CloserGoto(n, "closing", "end")
  /\ UNCHANGED <<closing, shut>>

-----------------------------------------------------------------------------
(* The file server, and what its steps mean to the callers. *)

Place(c, name) == <<DirectoryOf[call[c].node], name>>

\* The operations of the callers in `answered` have been answered: what is
\* held is what they have read, until it changes.
Look(answered) ==
  /\ LET same == {p \in Directories \X Names : Held(p)' = Held(p)} IN
     fresh' = [c \in Callers |->
       {name \in IF c \in answered THEN Names ELSE fresh[c] : Place(c, name) \in same}]
  /\ UNCHANGED <<nodeVars, closeVars, callVars, listVars, calls, serial>>

Looking(c) ==
  \/ pc[c] = "main" /\ call[c].op = "lookup"
  \/ pc[c] = "list"

\* The change of request r has been carried out: count it for its call.
Count(r) ==
  LET mine == {c \in Callers : r.caller = c /\ r.serial = serial[c] /\ r.op \in Changes} IN
  /\ done' = [c \in Callers |-> IF c \in mine THEN done[c] + 1 ELSE done[c]]
  /\ created' = [c \in Callers |->
       IF c \in mine /\ r.op = "create" THEN Len(kinds) + 1 ELSE created[c]]

NotCounted == UNCHANGED <<done, created>>

RemoteStep ==
  \/ \E c \in Callers :
       LET looking == IF Looking(c) THEN {c} ELSE {} IN
       \/ ServerCarries(c) /\ Count(request[c]) /\ Look(looking)
       \/ (ServerRefuses(c) \/ ServerEmpty(c)) /\ NotCounted /\ Look(looking)
       \/ (ServerFails(c) \/ Timeout(c)) /\ NotCounted /\ Look({})
  \/ \E r \in late : LateCarries(r) /\ Count(r) /\ Look({})
  \/ \E r \in late : LateDrops(r) /\ NotCounted /\ Look({})

CallerStep(c) ==
  \/ \E q \in Requests, h \in 0..made : Call(c, q, h)
  \/ IsClosed(c) \/ Rejected(c) \/ Begin(c)
  \/ NewFails(c) \/ NewHandle(c) \/ AppendLoad(c) \/ AppendStore(c)
  \/ HandleIsClosed(c) \/ ListBegin(c) \/ ListDone(c) \/ ListGone(c) \/ ListFails(c)
  \/ MainFails(c) \/ ChangeDone(c) \/ NewNodeFails(c) \/ LookupDone(c) \/ LookupUnknown(c) \/ LookupFile(c)
  \/ CreateDone(c) \/ FindFails(c) \/ Found(c)
  \/ InfoFails(c) \/ InfoDone(c) \/ OpenFails(c)

CloseStep(n) == CloseCAS(n) \/ CloseRange(n) \/ HandleCloses(n) \/ CloseEnd(n)

\* Every call has returned.
Rest ==
  /\ calls = MaxCalls /\ \A c \in Callers : pc[c] = "idle"
  /\ UNCHANGED vars

Next ==
  \/ \E c \in Callers : CallerStep(c)
  \/ \E n \in Nodes : CloseStep(n)
  \/ RemoteStep
  \/ Rest

Spec == Init /\ [][Next]_vars

-----------------------------------------------------------------------------

TreeOK ==
  /\ kinds \in Seq(Kinds)
  /\ entry \in [Directories \X Names -> {NoEntry} \cup Ids]

Handles == 1..made

ListsOK ==
  /\ made \in Nat /\ shut \subseteq Handles
  /\ handles \in [Nodes -> Seq(Handles)] /\ closing \in [Nodes -> Seq(Handles)]
  /\ early \in [Nodes -> SUBSET Handles] /\ lost \in [Nodes -> SUBSET Handles]
  /\ closer \in [Nodes -> {"open", "range", "closing", "end"}]
  /\ using \in [Callers -> {0} \cup Handles] /\ snapshot \in [Callers -> Seq(Handles)]

CallsOK ==
  /\ pc \in [Callers -> {"idle", "lock", "handle"} \cup HoldPCs \cup WaitPCs]
  /\ call \in [Callers -> Requests \cup {NoCall}]
  /\ outcome \in [Callers -> {"none", "ok", "refused", "rejected", "ENOENT", "error", "timeout"}]
  /\ result \in [Callers -> {NoEntry} \cup Ids] /\ created \in [Callers -> {NoEntry} \cup Ids]
  /\ listing \in [Callers -> [Names -> Types]] /\ fresh \in [Callers -> SUBSET Names]
  /\ calls \in 0..MaxCalls /\ serial \in [Callers -> 0..MaxCalls]

\* A caller has a request exactly where it waits for one, and an answer only then.
RequestsOK ==
  \A c \in Callers :
    /\ pc[c] \in WaitPCs <=> request[c] # NoRequest
    /\ reply[c] # NoReply =>
         /\ request[c] # NoRequest
         /\ reply[c].id \in {NoEntry} \cup Ids
         /\ reply[c].names \in [Names -> {NoEntry} \cup Ids]

TypeOK == TreeOK /\ ListsOK /\ CallsOK /\ RequestsOK

\* What an operation returns is true of the file server: a change that is
\* reported as done has been carried out once, one that was refused or
\* rejected never, and one that has failed not at all, unless it has timed out,
\* is a Create whose later requests have failed, or a Mkdir that could not make
\* the node of its new directory.
OutcomeIsTrue ==
  \A c \in Callers :
    call[c].op \in Changes =>
      /\ done[c] <= 1
      /\ outcome[c] = "ok" => done[c] = 1
      /\ outcome[c] \in {"refused", "rejected"} => done[c] = 0
      /\ outcome[c] = "ENOENT" => done[c] = 0 \/ call[c].op = "create"
      /\ outcome[c] = "error" => done[c] = 0 \/ call[c].op \in {"create", "mkdir"}

\* Between the requests of a Create the entry it is about changes only by a
\* late request, through another node of the directory, or by a Rename out
\* of another directory.
LockProtects ==
  [][\A c \in Callers :
       call[c].op = "create" /\ pc[c] \in HoldPCs /\ created[c] # NoEntry
         /\ entry'[At(RequestOf(c))] # entry[At(RequestOf(c))] =>
       \/ late' # late
       \/ \E d \in Callers \ {c} :
            /\ reply'[d] # reply[d]
            /\ call[d].node # call[c].node]_vars

\* A Lookup that the file server answers without a node returns none: the
\* size of id zero is not to be had.
LookupReturnsANode ==
  \A c \in Callers : call[c].op = "lookup" /\ outcome[c] = "ok" => result[c] # NoEntry

\* A listing and a Lookup of one remote directory agree, through whichever
\* nodes they were asked for, about a name that holds the same since either
\* was answered: Lookup finds what the listing shows, with its type, and
\* nothing that it leaves out.  In particular a listing without entries hides
\* nothing but a directory that is gone.
ListingAgreesWithLookup ==
  \A c, d \in Callers :
    LET name == call[d].name IN
    /\ call[c].op = "readdir" /\ outcome[c] = "ok"
    /\ call[d].op = "lookup" /\ outcome[d] \in {"ok", "ENOENT"}
    /\ DirectoryOf[call[c].node] = DirectoryOf[call[d].node]
    /\ name \in fresh[c] \cap fresh[d]
    => listing[c][name] = IF outcome[d] = "ok" THEN TypeOf(result[d]) ELSE "none"

phaseBar(n) ==
  CASE closer[n] = "open" -> "open" [] closer[n] = "end" -> "closed" [] OTHER -> "closing"

List(n) == INSTANCE ClosedList WITH
  phase <- phaseBar(n), given <- early[n], shut <- shut, missed <- lost[n]

\* Every node keeps the promise of a list of handles: what it has returned
\* before its Close is closed when that ends, or was written over by an append.
\* This is \A n \in Nodes : List(n)!ListSpec, with the quantifiers where TLC
\* can evaluate them.
ImplementsClosedList ==
  /\ \A n \in Nodes : List(n)!Init
  /\ [][\A n \in Nodes : [List(n)!Next]_(List(n)!listVars)]_vars

\* The operation of caller c, with what it asks of the tree.  Open asks nothing,
\* nor does a Rename to the root of the mount.
AsksNothing(c) == call[c].op = "open" \/ ToRoot(c)
OperationOf(c) ==
  CASE pc[c] = "idle" -> NoCall
    [] pc[c] # "idle" /\ AsksNothing(c) -> [op |-> call[c].op, caller |-> c, serial |-> serial[c]]
    [] pc[c] # "idle" /\ call[c].op = "readdir" -> ListOf(c)
    [] OTHER -> RequestOf(c)

\* Their changes can still be carried out.
Undecided ==
  {c \in Callers :
     /\ call[c].op \in Changes /\ ~ToRoot(c)
     /\ pc[c] = "lock" \/ (pc[c] = "main" /\ reply[c] = NoReply)}

\* What a Lookup, a ReadDirAll, a Mkdir or the second half of a Create knows.
FoundBy(c) ==
  LET answered == reply[c].status = "ok" IN
  CASE pc[c] = "main" /\ call[c].op = "lookup" /\ answered -> {Got(c)}
    [] pc[c] = "main" /\ call[c].op = "mkdir" /\ answered -> {Got(c)} \ {NoEntry}
    [] pc[c] = "main" /\ call[c].op = "lookup" /\ reply[c].status = "ENOENT" -> {NoEntry}
    [] pc[c] = "find" /\ answered -> {Got(c)}
    [] pc[c] = "info" /\ reply[c].status \in {"none", "ok", "error"} -> {request[c].id}
    [] pc[c] = "info" /\ reply[c].status = "ENOENT" -> {NoEntry}
    [] pc[c] = "list" /\ reply[c].status \in {"ok", "ENOENT"} -> {reply[c].names}
    [] OTHER -> {}

Promise == INSTANCE AtomicTree WITH
  op <- [c \in Callers |-> OperationOf(c)],
  pending <- late \cup {RequestOf(c) : c \in Undecided},
  done <- [c \in Callers |-> IF pc[c] = "idle" THEN 0 ELSE done[c]],
  seen <- [c \in Callers |-> FoundBy(c)]

\* The operations on directories implement AtomicTree, whichever nodes they go
\* through and whatever times out: a change is carried out at one instant and
\* at most once, before it is reported as done and not after it is reported as
\* failed, and an answer is what was there at an instant of the call.  What is
\* reported as failed has not been done, but for the Create or the Mkdir that
\* fails after its effect and the change that has timed out.
ImplementsAtomicTree == Promise!PromiseSpec

=============================================================================
