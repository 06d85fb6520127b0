-------------------------- MODULE DirectoryProofs ---------------------------
(***************************************************************************)
(* Proofs about Directory, for any number of callers, nodes, operations    *)
(* and handles, and any tree.                                              *)
(***************************************************************************)
EXTENDS Directory, SequenceTheorems, TLAPS

Status == {"ok", "ENOENT", "error", "timeout"}

\* A request names a place of the tree.
Sound(r) == r.op \in Changes \cup {"lookup"} => At(r) \in Directories \X Names

\* The request a caller waits for is the one its operation has come to.
RequestInv(c) ==
  /\ pc[c] = "lock" => call[c].op \notin {"none", "readdir"}
  /\ pc[c] = "handle" => call[c].op = "readdir"
  /\ pc[c] \in {"append", "store"} => call[c].op = "open" /\ using[c] \in Handles
  /\ pc[c] = "main" => request[c] = RequestOf(c) /\ call[c].op \in Changes \cup {"lookup"}
  /\ pc[c] = "find" => request[c] = LookupOf(c) /\ call[c].op = "create"
  /\ pc[c] = "info" => \E id \in {NoEntry} \cup Ids : request[c] = InfoOf(c, id)
  /\ pc[c] = "info" => call[c].op \in {"create", "lookup"}
  /\ pc[c] = "list" => request[c] = ListOf(c) /\ call[c].op = "readdir"
  /\ request[c] # NoRequest => Sound(request[c])
  /\ reply[c] # NoReply => reply[c].status \in Status

\* How often the change of a caller's operation has been carried out.
DoneInv(c) ==
  /\ done[c] \in {0, 1}
  /\ created[c] # NoEntry => done[c] = 1
  /\ pc[c] \in {"find", "info"} /\ call[c].op = "create" => done[c] = 1
  /\ call[c].op \in Changes =>
       /\ pc[c] = "lock" => done[c] = 0
       /\ pc[c] = "main" /\ reply[c].status \in {"none", "ENOENT", "error"} => done[c] = 0
       /\ pc[c] = "main" /\ Ok(c) => done[c] = 1
       /\ outcome[c] = "ok" => done[c] = 1
       /\ outcome[c] \in {"refused", "rejected"} => done[c] = 0
       /\ outcome[c] = "ENOENT" => done[c] = 0 \/ call[c].op = "create"
       /\ outcome[c] = "error" => done[c] = 0 \/ call[c].op \in {"create", "mkdir"}
  /\ pc[c] # "idle" => outcome[c] = "none"

\* A size is had for the node it was asked for, and for none with id zero.
InfoInv(c) ==
  /\ pc[c] = "info" /\ Ok(c) => reply[c].id \in Ids /\ reply[c].id = request[c].id
  /\ call[c].op = "lookup" /\ outcome[c] = "ok" => result[c] # NoEntry

There(c, name) == Held(Place(c, name))
Seen(c, name) == TypeOf(There(c, name))

\* What a ReadDirAll or a Lookup has read is what is there, for as long as its
\* name is fresh; and no size is refused of what is there.
FreshInv(c) ==
  /\ \A name \in fresh[c] : call[c].op = "readdir" =>
       /\ pc[c] = "list" /\ Ok(c) => TypeOf(reply[c].names[name]) = Seen(c, name)
       /\ pc[c] = "list" /\ reply[c].status = "ENOENT" => Seen(c, name) = "none"
       /\ outcome[c] = "ok" => listing[c][name] = Seen(c, name)
  /\ call[c].op = "lookup" /\ call[c].name \in fresh[c] =>
       LET there == There(c, call[c].name) IN
       /\ pc[c] = "main" /\ Ok(c) => reply[c].id = there
       /\ pc[c] = "main" /\ reply[c].status = "ENOENT" => there = NoEntry
       /\ pc[c] = "info" => request[c].id = there
       /\ pc[c] = "info" /\ reply[c].status = "ENOENT" => there = NoEntry
       /\ outcome[c] = "ok" => TypeOf(result[c]) = TypeOf(there)
       /\ outcome[c] = "ENOENT" => TypeOf(there) = "none"

GivenUp(c) ==
  \/ pc[c] = "main" /\ reply[c].status = "timeout"
  \/ pc[c] = "idle" /\ outcome[c] = "timeout"

\* A late request is that of an earlier operation, or of one that has given up
\* on it and has not seen it carried out.
LateInv ==
  \A r \in late :
    /\ r.op \in Changes /\ Sound(r) /\ r.caller \in Callers
    /\ r.serial \in Nat /\ r.serial <= serial[r.caller]
    /\ r.serial = serial[r.caller] =>
         /\ r = RequestOf(r.caller) /\ call[r.caller].op \in Changes
         /\ done[r.caller] = 0 /\ GivenUp(r.caller)

\* Callers that hold one node at a time are readers.
LockInv ==
  \A c, d \in Callers :
    c # d /\ {pc[c], pc[d]} \subseteq HoldPCs /\ call[c].node = call[d].node => Reads(c) /\ Reads(d)

Domains == DOMAIN request = Callers /\ DOMAIN reply = Callers /\ DOMAIN done = Callers
Serials == \A c \in Callers : serial[c] <= calls

\* Where a handle is that was returned before Close.
EarlyInv(n) ==
  /\ closer[n] \in {"open", "range"} => early[n] \subseteq ToSet(handles[n]) \cup lost[n]
  /\ closer[n] = "closing" => early[n] \subseteq ToSet(closing[n]) \cup shut \cup lost[n]
  /\ closer[n] = "end" => early[n] \subseteq shut \cup lost[n]

CallInv(c) == RequestInv(c) /\ DoneInv(c) /\ InfoInv(c) /\ FreshInv(c)
CallsInv == \A c \in Callers : CallInv(c)
DirectoryInv ==
  /\ TypeOK /\ Domains /\ Serials /\ CallsInv /\ LateInv /\ LockInv
  /\ \A n \in Nodes : EarlyInv(n)

-----------------------------------------------------------------------------
(* Sequences of handles, and types. *)

LEMMA SetOfAppend ==
  ASSUME NEW S, NEW s \in Seq(S), NEW e \in S
  PROVE  /\ Append(s, e) \in Seq(S)
         /\ ToSet(Append(s, e)) = ToSet(s) \cup {e}
<1>1. /\ DOMAIN Append(s, e) = 1..(Len(s) + 1) /\ DOMAIN s = 1..Len(s) /\ Len(s) \in Nat
      /\ \A i \in 1..Len(s) : Append(s, e)[i] = s[i]
      /\ Append(s, e)[Len(s) + 1] = e /\ Append(s, e) \in Seq(S)
  BY AppendProperties, LenProperties
<1>. QED
  BY <1>1 DEF ToSet

LEMMA SetOfTail ==
  ASSUME NEW S, NEW s \in Seq(S), s # <<>>
  PROVE  /\ Tail(s) \in Seq(S) /\ Head(s) \in S
         /\ ToSet(s) \subseteq {Head(s)} \cup ToSet(Tail(s))
<1>1. /\ Tail(s) \in Seq(S) /\ Len(Tail(s)) = Len(s) - 1
      /\ \A i \in 1..Len(Tail(s)) : Tail(s)[i] = s[i + 1]
      /\ Head(s) = s[1] /\ Head(s) \in S
      /\ Len(s) \in Nat /\ Len(s) # 0
      /\ DOMAIN s = 1..Len(s) /\ DOMAIN Tail(s) = 1..Len(Tail(s))
  BY HeadTailProperties, EmptySeq, LenProperties
<1>2. ASSUME NEW i \in DOMAIN s PROVE s[i] = Head(s) \/ s[i] \in ToSet(Tail(s))
  <2>1. CASE i = 1
    BY <1>1, <2>1
  <2>2. CASE i # 1
    <3>1. i - 1 \in DOMAIN Tail(s) /\ (i - 1) + 1 = i
      BY <1>1, <2>2
    <3>2. Tail(s)[i - 1] = s[i]
      BY <1>1, <3>1
    <3>. QED
      BY <3>1, <3>2 DEF ToSet
  <2>. QED
    BY <2>1, <2>2
<1>. QED
  BY <1>1, <1>2 DEF ToSet

LEMMA SeqGrows == ASSUME NEW S, NEW T, S \subseteq T PROVE Seq(S) \subseteq Seq(T)
  <1>. SUFFICES ASSUME NEW s \in Seq(S) PROVE s \in Seq(T)
    OBVIOUS
  <1>1. s = [i \in 1..Len(s) |-> s[i]] /\ Len(s) \in Nat /\ \A i \in 1..Len(s) : s[i] \in S
    BY LenProperties, ElementOfSeq
  <1>2. s \in [1..Len(s) -> T]
    BY <1>1
  <1>. QED
    BY <1>1, <1>2, SeqDef

LEMMA NoNode == ASSUME TypeOK PROVE NoEntry \notin Ids /\ Ids = 1..Len(kinds) /\ Len(kinds) \in Nat
<1>1. kinds \in Seq(Kinds)
  BY DEF TypeOK, TreeOK
<1>2. Ids = 1..Len(kinds) /\ Len(kinds) \in Nat
  BY <1>1, LenProperties DEF Ids
<1>. QED
  BY <1>2 DEF NoEntry

LEMMA InitInv == Init => DirectoryInv
<1>. SUFFICES ASSUME Init PROVE DirectoryInv
  OBVIOUS
<1>. USE DEF Init, RemoteInit, TreeInit
<1>0. Handles = {1} /\ ToSet(<<1>>) = {1} /\ ToSet(<<>>) = {}
  BY DEF Handles, ToSet
<1>1. TreeOK
  BY TreeAssumption DEF TreeOK, TreeAssumption, Ids
<1>2. ListsOK
  <2>1. <<1>> \in Seq({1}) /\ <<>> \in Seq({1})
    OBVIOUS
  <2>2. handles \in [Nodes -> Seq(Handles)] /\ \A n \in Nodes : ToSet(handles[n]) \subseteq Handles
    BY <1>0, <2>1
  <2>. QED
    BY <1>0, <2>1, <2>2 DEF ListsOK
<1>3. CallsOK
  <2>1. 0 \in 0..MaxCalls
    BY NodesAssumption DEF NodesAssumption
  <2>. QED
    BY <2>1 DEF CallsOK, NoListing, Types
<1>4. RequestsOK
  BY DEF RequestsOK, WaitPCs, NoReply
<1>5. Domains /\ Serials /\ LateInv /\ LockInv
  BY DEF Domains, Serials, LateInv, LockInv, HoldPCs
<1>6. CallsInv
  BY DEF CallsInv, CallInv, RequestInv, DoneInv, InfoInv, FreshInv, NoCall, Changes, Ok, NoReply, NoRequest
<1>7. \A n \in Nodes : EarlyInv(n)
  BY DEF EarlyInv
<1>. QED
  BY <1>1, <1>2, <1>3, <1>4, <1>5, <1>6, <1>7 DEF DirectoryInv, TypeOK

-----------------------------------------------------------------------------
(* The steps of a caller. *)

\* What a step leaves alone of caller d.
Untouched(d) ==
  /\ pc'[d] = pc[d] /\ call'[d] = call[d] /\ outcome'[d] = outcome[d] /\ result'[d] = result[d]
  /\ using'[d] = using[d] /\ listing'[d] = listing[d] /\ fresh'[d] = fresh[d]
  /\ serial'[d] = serial[d] /\ done'[d] = done[d] /\ created'[d] = created[d]
  /\ request'[d] = request[d] /\ reply'[d] = reply[d]

\* The forms a step of a caller can have, but for a call and for Open.
Returns(c) ==
  \E from \in {"lock", "handle"} \cup WaitPCs,
     how \in {"ok", "refused", "rejected", "ENOENT", "error", "timeout"}, id \in {NoEntry} \cup Ids :
    /\ Return(c, from, how, id)
    /\ \/ from \notin WaitPCs /\ UNCHANGED rpcVars
       \/ Receive(c)
Asks(c) ==
  \E from \in {"lock", "handle"} \cup WaitPCs, to \in WaitPCs : \E r :
    Ask(c, from, to, r) /\ r # NoRequest
Answers(c) == \E l \in [Names -> Types] : Lists(c, l)
Opens(c) == NewHandle(c) \/ AppendLoad(c) \/ AppendStore(c)
Calls(c) == \E q \in Requests, h \in 0..made : Call(c, q, h)

LEMMA RequestsDiffer ==
  ASSUME NEW c \in Callers
  PROVE  /\ RequestOf(c).op = call[c].op /\ RequestOf(c).id = IF call[c].op = "link" THEN call[c].old ELSE NoEntry
         /\ RequestOf(c).caller = c /\ RequestOf(c).serial = serial[c]
         /\ At(RequestOf(c)) = <<DirectoryOf[call[c].node], call[c].name>>
         /\ LookupOf(c).op = "lookup" /\ At(LookupOf(c)) = At(RequestOf(c))
         /\ \A id : InfoOf(c, id).op = "info" /\ InfoOf(c, id).id = id
         /\ ListOf(c).op = "readdir" /\ ListOf(c).dir = DirectoryOf[call[c].node]
         /\ \A r : r.op # "none" => r # NoRequest
<1>1. NoRequest.op = "none"
  BY DEF NoRequest
<1>. QED
  BY <1>1 DEF RequestOf, LookupOf, InfoOf, ListOf, At

LEMMA Replies ==
  ASSUME DirectoryInv, NEW c \in Callers, reply[c].status # "none"
  PROVE  reply[c] # NoReply /\ reply[c].status \in Status /\ reply[c].id \in {NoEntry} \cup Ids
         /\ reply[c].names \in [Names -> {NoEntry} \cup Ids]
<1>1. reply[c] # NoReply
  BY DEF NoReply
<1>2. reply[c].status \in Status
  BY <1>1 DEF DirectoryInv, CallsInv, CallInv, RequestInv
<1>3. reply[c].id \in {NoEntry} \cup Ids /\ reply[c].names \in [Names -> {NoEntry} \cup Ids]
  BY <1>1 DEF DirectoryInv, TypeOK, RequestsOK
<1>. QED
  BY <1>1, <1>2, <1>3

LEMMA TypesAreTypes == \A id \in {NoEntry} \cup Ids : TypeOf(id) \in Types
  BY DEF TypeOf, Types

LEMMA Shapes ==
  ASSUME DirectoryInv, NEW c \in Callers, CallerStep(c)
  PROVE  Calls(c) \/ Returns(c) \/ Asks(c) \/ Answers(c) \/ Opens(c)
<1>1. CASE IsClosed(c) \/ Rejected(c) \/ NewFails(c) \/ HandleIsClosed(c)
  BY <1>1 DEF IsClosed, Rejected, NewFails, HandleIsClosed, Returns, WaitPCs
<1>2. ASSUME NEW from \in WaitPCs, Error(c, from) PROVE Returns(c)
  <2>1. reply[c].status \in Status
    BY <1>2, Replies DEF Error
  <2>. QED
    BY <1>2, <2>1 DEF Error, Returns, Status
<1>3. CASE MainFails(c) \/ FindFails(c) \/ InfoFails(c) \/ ListFails(c)
  BY <1>2, <1>3 DEF MainFails, FindFails, InfoFails, ListFails, WaitPCs
<1>4. CASE ChangeDone(c) \/ NewNodeFails(c) \/ LookupDone(c) \/ LookupUnknown(c) \/ InfoDone(c) \/ OpenFails(c)
  <2>1. Got(c) \in {NoEntry} \cup Ids
    BY <1>4, Replies DEF ChangeDone, NewNodeFails, LookupDone, LookupUnknown, InfoDone, OpenFails, Ok, Got
  <2>. QED
    BY <1>4, <2>1 DEF ChangeDone, NewNodeFails, LookupDone, LookupUnknown, InfoDone, OpenFails, Returns, WaitPCs
<1>5. CASE Begin(c)
  <2>1. call[c].op # "none"
    BY <1>5 DEF Begin, CanLock, DirectoryInv, CallsInv, CallInv, RequestInv
  <2>2. RequestOf(c) # NoRequest
    BY <2>1, RequestsDiffer
  <2>. QED
    BY <1>5, <2>2 DEF Begin, Asks, WaitPCs
<1>6. CASE ListBegin(c)
  BY <1>6, RequestsDiffer DEF ListBegin, Asks, WaitPCs
<1>7. CASE LookupFile(c) \/ CreateDone(c) \/ Found(c)
  BY <1>7, RequestsDiffer DEF LookupFile, CreateDone, Found, Asks, WaitPCs
<1>8. CASE ListDone(c) \/ ListGone(c)
  <2>1. NoListing \in [Names -> Types]
    BY DEF NoListing, Types
  <2>2. ASSUME Ok(c) PROVE [name \in Names |-> TypeOf(reply[c].names[name])] \in [Names -> Types]
    BY <2>2, Replies, TypesAreTypes DEF Ok
  <2>. QED
    BY <1>8, <2>1, <2>2 DEF ListDone, ListGone, Answers
<1>. QED
  BY <1>1, <1>3, <1>4, <1>5, <1>6, <1>7, <1>8 DEF CallerStep, Calls, Opens

LEMMA CallerFrame ==
  ASSUME DirectoryInv, NEW c \in Callers, CallerStep(c)
  PROVE  /\ UNCHANGED <<treeVars, late, closeVars>>
         /\ \A d \in Callers \ {c} : Untouched(d)
<1>. USE DEF DirectoryInv, TypeOK, CallsOK, ListsOK, Domains, Untouched, Goto, rpcVars, closeVars,
             nodeVars, histVars, listVars, callVars
<1>1. CASE Calls(c)
  BY <1>1 DEF Calls, Call
<1>2. CASE Returns(c)
  BY <1>2 DEF Returns, Return, End, Receive
<1>3. CASE Asks(c)
  BY <1>3 DEF Asks, Ask, Send
<1>4. CASE Answers(c)
  BY <1>4 DEF Answers, Lists, End, Receive
<1>5. CASE Opens(c)
  BY <1>5 DEF Opens, NewHandle, AppendLoad, AppendStore, End
<1>. QED
  BY <1>1, <1>2, <1>3, <1>4, <1>5, Shapes


LEMMA CallerKeepsLists ==
  ASSUME DirectoryInv, NEW c \in Callers, CallerStep(c)
  PROVE  ListsOK' /\ made <= made'
<1>. USE DEF DirectoryInv, TypeOK, closeVars, nodeVars, listVars
<1>0. made \in Nat /\ (made' = made => Handles' = Handles)
  BY DEF ListsOK, Handles
<1>1. CASE Calls(c)
  <2>1. PICK q \in Requests, h \in 0..made : Call(c, q, h)
    BY <1>1 DEF Calls
  <2>2. h \in {0} \cup Handles
    BY <1>0 DEF Handles
  <2>3. using' \in [Callers -> {0} \cup Handles]
    BY <2>1, <2>2 DEF Call, ListsOK
  <2>. QED
    BY <1>0, <2>1, <2>3 DEF Call, ListsOK
<1>2. CASE Returns(c) \/ Asks(c) \/ Answers(c)
  BY <1>0, <1>2 DEF Returns, Return, Asks, Ask, Answers, Lists, End, ListsOK
<1>3. CASE NewHandle(c)
  <2>1. made' = made + 1 /\ Handles \subseteq Handles' /\ made + 1 \in Handles'
    BY <1>0, <1>3 DEF NewHandle, Handles
  <2>2. Seq(Handles) \subseteq Seq(Handles')
    BY <2>1, SeqGrows
  <2>3. using' \in [Callers -> {0} \cup Handles']
    BY <1>3, <2>1 DEF NewHandle, ListsOK
  <2>4. UNCHANGED <<handles, closing, early, lost, closer, shut, snapshot>>
    BY <1>3 DEF NewHandle
  <2>. QED
    BY <1>0, <2>1, <2>2, <2>3, <2>4 DEF ListsOK
<1>4. CASE AppendLoad(c)
  <2>1. call[c].node \in Nodes
    BY <1>4, NodesAssumption DEF AppendLoad, Goto, CallsInv, CallInv, RequestInv, CallsOK, NodesAssumption, NoCall
  <2>. QED
    BY <1>0, <1>4, <2>1 DEF AppendLoad, ListsOK
<1>5. CASE AppendStore(c)
  <2>1. call[c].node \in Nodes /\ using[c] \in Handles
    BY <1>5, NodesAssumption DEF AppendStore, End, Goto, CallsInv, CallInv, RequestInv, CallsOK, NodesAssumption, NoCall
  <2>2. snapshot[c] \in Seq(Handles) /\ handles[call[c].node] \in Seq(Handles)
    BY <2>1 DEF ListsOK
  <2>3. Append(snapshot[c], using[c]) \in Seq(Handles)
    BY <2>1, <2>2, SetOfAppend
  <2>4. ToSet(handles[call[c].node]) \subseteq Handles
    BY <2>2, LenProperties, ElementOfSeq DEF ToSet
  <2>5. handles' \in [Nodes -> Seq(Handles)]
    BY <1>5, <2>1, <2>3 DEF AppendStore, ListsOK
  <2>6. lost' \in [Nodes -> SUBSET Handles]
    BY <1>5, <2>1, <2>4 DEF AppendStore, ListsOK
  <2>7. early' \in [Nodes -> SUBSET Handles]
    BY <1>5, <2>1 DEF AppendStore, ListsOK
  <2>8. snapshot' \in [Callers -> Seq(Handles)]
    <3>1. <<>> \in Seq(Handles)
      OBVIOUS
    <3>. QED
      BY <1>5, <3>1 DEF AppendStore, ListsOK
  <2>9. UNCHANGED <<made, closer, closing, shut, using>>
    BY <1>5 DEF AppendStore, End
  <2>. QED
    BY <1>0, <2>5, <2>6, <2>7, <2>8, <2>9 DEF ListsOK
<1>. QED
  BY <1>1, <1>2, <1>3, <1>4, <1>5, Shapes DEF Opens

LEMMA CallerKeepsTypes ==
  ASSUME DirectoryInv, NEW c \in Callers, CallerStep(c)
  PROVE  TypeOK' /\ Domains' /\ Serials'
<1>. USE DEF DirectoryInv, TypeOK, Domains, Serials, Goto, rpcVars, histVars, listVars, callVars
<1>0. TreeOK' /\ Ids' = Ids
  BY CallerFrame DEF TreeOK, Ids, treeVars
<1>1. CASE Calls(c)
  <2>1. PICK q \in Requests, h \in 0..made : Call(c, q, h)
    BY <1>1 DEF Calls
  <2>2. calls + 1 \in 0..MaxCalls
    BY <2>1, NodesAssumption DEF Call, CallsOK, NodesAssumption
  <2>3. CallsOK'
    BY <1>0, <2>1, <2>2 DEF Call, CallsOK, NoListing, Types
  <2>4. RequestsOK'
    BY <1>0, <2>1 DEF Call, CallsOK, RequestsOK, WaitPCs
  <2>5. Domains' /\ Serials'
    BY <2>1, <2>2 DEF Call, CallsOK
  <2>. QED
    BY <1>0, <2>3, <2>4, <2>5, CallerKeepsLists
<1>2. CASE Returns(c)
  <2>1. CallsOK'
    BY <1>0, <1>2 DEF Returns, Return, End, CallsOK
  <2>2. RequestsOK'
    BY <1>0, <1>2 DEF Returns, Return, End, Receive, CallsOK, RequestsOK, WaitPCs
  <2>3. Domains' /\ Serials'
    BY <1>2 DEF Returns, Return, End, Receive, CallsOK
  <2>. QED
    BY <1>0, <2>1, <2>2, <2>3, CallerKeepsLists
<1>3. CASE Asks(c)
  <2>1. CallsOK'
    BY <1>0, <1>3 DEF Asks, Ask, CallsOK
  <2>2. RequestsOK'
    BY <1>0, <1>3 DEF Asks, Ask, Send, CallsOK, RequestsOK, WaitPCs
  <2>3. Domains' /\ Serials'
    BY <1>3 DEF Asks, Ask, Send, CallsOK
  <2>. QED
    BY <1>0, <2>1, <2>2, <2>3, CallerKeepsLists
<1>4. CASE Answers(c)
  <2>1. CallsOK'
    BY <1>0, <1>4 DEF Answers, Lists, End, CallsOK
  <2>2. RequestsOK'
    BY <1>0, <1>4 DEF Answers, Lists, End, Receive, CallsOK, RequestsOK, WaitPCs
  <2>3. Domains' /\ Serials'
    BY <1>4 DEF Answers, Lists, End, Receive, CallsOK
  <2>. QED
    BY <1>0, <2>1, <2>2, <2>3, CallerKeepsLists
<1>5. CASE Opens(c)
  <2>1. CallsOK'
    <3>1. CASE NewHandle(c)
      BY <1>0, <3>1 DEF NewHandle, CallsOK, HoldPCs
    <3>2. CASE AppendLoad(c)
      BY <1>0, <3>2 DEF AppendLoad, CallsOK, HoldPCs
    <3>3. CASE AppendStore(c)
      BY <1>0, <3>3 DEF AppendStore, End, CallsOK
    <3>. QED
      BY <1>5, <3>1, <3>2, <3>3 DEF Opens
  <2>2. RequestsOK'
    BY <1>0, <1>5 DEF Opens, NewHandle, AppendLoad, AppendStore, End, CallsOK, RequestsOK, WaitPCs
  <2>3. Domains' /\ Serials'
    BY <1>5 DEF Opens, NewHandle, AppendLoad, AppendStore, End, CallsOK
  <2>. QED
    BY <1>0, <2>1, <2>2, <2>3, CallerKeepsLists
<1>. QED
  BY <1>1, <1>2, <1>3, <1>4, <1>5, Shapes

-----------------------------------------------------------------------------
(* What a step of a caller means to the others. *)

\* What can be read in the tree is the same after a step.
SameTree == UNCHANGED treeVars

LEMMA TreeStays ==
  ASSUME SameTree
  PROVE  /\ Ids' = Ids /\ \A id : TypeOf(id)' = TypeOf(id)
         /\ \A p : Held(p)' = Held(p)
<1>1. Ids' = Ids /\ \A id : TypeOf(id)' = TypeOf(id)
  BY DEF SameTree, treeVars, Ids, TypeOf
<1>2. \A d : Alive(d)' = Alive(d)
  BY DEF SameTree, treeVars, Alive
<1>. QED
  BY <1>1, <1>2 DEF Held, SameTree, treeVars, NoEntry

LEMMA UntouchedStays ==
  ASSUME SameTree, made \in Nat, made' \in Nat, made <= made', NEW d \in Callers, CallInv(d), Untouched(d)
  PROVE  CallInv(d)'
<1>. USE DEF Untouched
<1>1. /\ RequestOf(d)' = RequestOf(d) /\ LookupOf(d)' = LookupOf(d) /\ ListOf(d)' = ListOf(d)
      /\ \A id : InfoOf(d, id)' = InfoOf(d, id)
  BY DEF RequestOf, LookupOf, ListOf, InfoOf
<1>2. RequestInv(d)'
  <2>1. Handles \subseteq Handles'
    BY DEF Handles
  <2>. QED
    BY <1>1, <2>1, TreeStays DEF CallInv, RequestInv
<1>3. DoneInv(d)' /\ InfoInv(d)'
  BY TreeStays DEF CallInv, DoneInv, InfoInv, Ok
<1>4. \A name : There(d, name)' = There(d, name) /\ Seen(d, name)' = Seen(d, name)
  BY TreeStays DEF There, Seen, Place
<1>5. FreshInv(d)'
  BY <1>4, TreeStays DEF CallInv, FreshInv, Ok
<1>. QED
  BY <1>2, <1>3, <1>5 DEF CallInv

-----------------------------------------------------------------------------
(* What it means to its operation. *)

LEMMA CallKeepsInv ==
  ASSUME DirectoryInv, NEW c \in Callers, Calls(c)
  PROVE  CallInv(c)'
<1>. PICK q \in Requests, h \in 0..made : Call(c, q, h)
  BY DEF Calls
<1>1. /\ call'[c] = q /\ pc'[c] = (IF q.op = "readdir" THEN "handle" ELSE "lock")
      /\ outcome'[c] = "none" /\ fresh'[c] = {} /\ done'[c] = 0 /\ created'[c] = NoEntry
      /\ request'[c] = request[c] /\ reply'[c] = reply[c]
  BY DEF Call, Goto, DirectoryInv, TypeOK, CallsOK, Domains, rpcVars
<1>2. request[c] = NoRequest /\ reply[c] = NoReply
  BY DEF Call, Goto, DirectoryInv, TypeOK, RequestsOK, WaitPCs
<1>3. q.op # "none"
  BY NodesAssumption DEF NodesAssumption
<1>. QED
  BY <1>1, <1>2, <1>3 DEF CallInv, RequestInv, DoneInv, InfoInv, FreshInv

\* The variables of the caller after it has returned, and before.
LEMMA AfterReturn ==
  ASSUME DirectoryInv, NEW c \in Callers, NEW from, NEW how, NEW id,
         End(c, from, how, id), (UNCHANGED rpcVars /\ from \notin WaitPCs) \/ Receive(c)
  PROVE  /\ pc[c] = from /\ pc'[c] = "idle" /\ outcome'[c] = how /\ result'[c] = id
         /\ call'[c] = call[c] /\ fresh'[c] = fresh[c] /\ done'[c] = done[c] /\ created'[c] = created[c]
         /\ request'[c] = NoRequest /\ reply'[c] = NoReply /\ SameTree
<1>1. from \notin WaitPCs => request[c] = NoRequest /\ reply[c] = NoReply
  BY DEF End, Goto, DirectoryInv, TypeOK, RequestsOK
<1>. QED
  BY <1>1 DEF End, Goto, DirectoryInv, TypeOK, CallsOK, Domains, rpcVars, histVars, Receive, SameTree


\* All that is left to show of an operation that has returned.
LEMMA ReturnKeepsInv ==
  ASSUME DirectoryInv, NEW c \in Callers, NEW from, NEW how, NEW id, Return(c, from, how, id),
         (UNCHANGED rpcVars /\ from \notin WaitPCs) \/ Receive(c),
         call[c].op \in Changes =>
           /\ how = "ok" => done[c] = 1
           /\ how \in {"refused", "rejected"} => done[c] = 0
           /\ how = "ENOENT" => done[c] = 0 \/ call[c].op = "create"
           /\ how = "error" => done[c] = 0 \/ call[c].op \in {"create", "mkdir"},
         call[c].op = "readdir" => how # "ok",
         call[c].op = "lookup" /\ how = "ok" => id # NoEntry,
         call[c].op = "lookup" /\ call[c].name \in fresh[c] =>
           /\ how = "ok" => TypeOf(id) = Seen(c, call[c].name)
           /\ how = "ENOENT" => Seen(c, call[c].name) = "none"
  PROVE  CallInv(c)'
<1>1. /\ pc'[c] = "idle" /\ outcome'[c] = how /\ result'[c] = id
      /\ call'[c] = call[c] /\ fresh'[c] = fresh[c] /\ done'[c] = done[c] /\ created'[c] = created[c]
      /\ request'[c] = NoRequest /\ reply'[c] = NoReply /\ SameTree
  BY AfterReturn DEF Return
<1>2. \A name : There(c, name)' = There(c, name) /\ Seen(c, name)' = Seen(c, name)
  BY <1>1, TreeStays DEF There, Seen, Place
<1>3. CallInv(c)
  BY DEF DirectoryInv, CallsInv
<1>4. RequestInv(c)'
  BY <1>1 DEF RequestInv
<1>5. DoneInv(c)' /\ InfoInv(c)'
  BY <1>1, <1>3 DEF CallInv, DoneInv, InfoInv
<1>6. FreshInv(c)'
  BY <1>1, <1>2, <1>3, TreeStays DEF FreshInv, Seen
<1>. QED
  BY <1>4, <1>5, <1>6 DEF CallInv

\* An operation that ends before its first request.
LEMMA RefusalKeepsInv ==
  ASSUME DirectoryInv, NEW c \in Callers, IsClosed(c) \/ Rejected(c) \/ NewFails(c) \/ HandleIsClosed(c)
  PROVE  CallInv(c)'
<1>1. CallInv(c)
  BY DEF DirectoryInv, CallsInv
<1>2. PICK from \in {"lock", "handle"}, how \in {"refused", "rejected", "error"} :
        /\ Return(c, from, how, NoEntry) /\ UNCHANGED rpcVars
        /\ how = "error" => call[c].op = "open"
  BY DEF IsClosed, Rejected, NewFails, HandleIsClosed
<1>3. pc[c] = from
  BY <1>2 DEF Return, End, Goto
<1>4. call[c].op \in Changes => done[c] = 0 /\ how # "error"
  BY <1>1, <1>2, <1>3 DEF CallInv, RequestInv, DoneInv, Changes
<1>. QED
  BY <1>2, <1>4, ReturnKeepsInv DEF WaitPCs

LEMMA ErrorKeepsInv ==
  ASSUME DirectoryInv, NEW c \in Callers, NEW from \in WaitPCs, Error(c, from),
         from = "list" => reply[c].status # "ENOENT"
  PROVE  CallInv(c)'
<1>1. CallInv(c)
  BY DEF DirectoryInv, CallsInv
<1>2. pc[c] = from /\ reply[c].status \in {"ENOENT", "error", "timeout"}
  BY Replies DEF Error, Return, End, Goto, Status
<1>3. call[c].op \in Changes /\ reply[c].status \in {"ENOENT", "error"} => done[c] = 0 \/ call[c].op = "create"
  BY <1>1, <1>2 DEF CallInv, RequestInv, DoneInv, WaitPCs, Changes
<1>4. call[c].op = "lookup" /\ call[c].name \in fresh[c] /\ reply[c].status = "ENOENT"
        => Seen(c, call[c].name) = "none"
  <2>1. TypeOf(NoEntry) = "none"
    BY DEF TypeOf
  <2>. QED
    BY <1>1, <1>2, <2>1 DEF CallInv, RequestInv, FreshInv, WaitPCs, Seen
<1>. QED
  BY <1>2, <1>3, <1>4, ReturnKeepsInv DEF Error

LEMMA ChangeKeepsInv ==
  ASSUME DirectoryInv, NEW c \in Callers, ChangeDone(c)
  PROVE  CallInv(c)'
<1>1. done[c] = 1 /\ call[c].op \in Changes
  BY DEF DirectoryInv, CallsInv, CallInv, DoneInv, ChangeDone, Return, End, Goto
<1>2. call[c].op \notin {"readdir", "lookup"}
  BY <1>1 DEF Changes
<1>. QED
  BY <1>1, <1>2, ReturnKeepsInv DEF ChangeDone

LEMMA NewNodeKeepsInv ==
  ASSUME DirectoryInv, NEW c \in Callers, NewNodeFails(c)
  PROVE  CallInv(c)'
<1>1. call[c].op \in {"mkdir", "lookup"} /\ Return(c, "main", "error", NoEntry) /\ Receive(c)
  BY DEF NewNodeFails
<1>2. call[c].op \notin {"readdir"} /\ (call[c].op \in Changes => call[c].op = "mkdir")
  BY <1>1 DEF Changes
<1>. QED
  BY <1>1, <1>2, ReturnKeepsInv

LEMMA LookupKeepsInv ==
  ASSUME DirectoryInv, NEW c \in Callers, LookupDone(c) \/ LookupUnknown(c)
  PROVE  CallInv(c)'
<1>1. CallInv(c)
  BY DEF DirectoryInv, CallsInv
<1>2. pc[c] = "main" /\ Ok(c) /\ call[c].op = "lookup"
  BY <1>1 DEF CallInv, RequestInv, LookupDone, LookupUnknown, Reads, Return, End, Goto, Changes
<1>3. Got(c) # NoEntry
  BY DEF LookupDone, LookupUnknown, KindOf
<1>4. LookupUnknown(c) => TypeOf(Got(c)) = "none"
  BY <1>3 DEF LookupUnknown, KindOf, TypeOf
<1>5. call[c].name \in fresh[c] => TypeOf(Got(c)) = Seen(c, call[c].name)
  BY <1>1, <1>2 DEF CallInv, FreshInv, Got, Seen
<1>6. "lookup" \notin Changes
  BY DEF Changes
<1>7. CASE LookupDone(c)
  BY <1>2, <1>3, <1>5, <1>6, <1>7, ReturnKeepsInv DEF LookupDone
<1>8. CASE LookupUnknown(c)
  BY <1>2, <1>4, <1>5, <1>6, <1>8, ReturnKeepsInv DEF LookupUnknown
<1>. QED
  BY <1>7, <1>8

LEMMA InfoKeepsInv ==
  ASSUME DirectoryInv, NEW c \in Callers, InfoDone(c) \/ OpenFails(c)
  PROVE  CallInv(c)'
<1>1. CallInv(c)
  BY DEF DirectoryInv, CallsInv
<1>2. pc[c] = "info" /\ Ok(c) /\ call[c].op \in {"lookup", "create"}
  BY <1>1 DEF CallInv, RequestInv, InfoDone, OpenFails, Return, End, Goto
<1>3. Got(c) # NoEntry /\ Got(c) = request[c].id
  BY <1>1, <1>2, NoNode DEF CallInv, InfoInv, Got, DirectoryInv
<1>4. call[c].op = "lookup" /\ call[c].name \in fresh[c] => TypeOf(Got(c)) = Seen(c, call[c].name)
  BY <1>1, <1>2, <1>3 DEF CallInv, FreshInv, Seen
<1>5. call[c].op \in Changes => done[c] = 1 /\ call[c].op = "create"
  BY <1>1, <1>2 DEF CallInv, DoneInv, Changes
<1>6. CASE InfoDone(c)
  BY <1>2, <1>3, <1>4, <1>5, <1>6, ReturnKeepsInv DEF InfoDone
<1>7. CASE OpenFails(c)
  BY <1>2, <1>3, <1>4, <1>5, <1>7, ReturnKeepsInv DEF OpenFails
<1>. QED
  BY <1>6, <1>7

LEMMA ListingKeepsInv ==
  ASSUME DirectoryInv, NEW c \in Callers, ListDone(c) \/ ListGone(c)
  PROVE  CallInv(c)'
<1>1. CallInv(c)
  BY DEF DirectoryInv, CallsInv
<1>2. PICK l : Lists(c, l) /\ \/ Ok(c) /\ l = [name \in Names |-> TypeOf(reply[c].names[name])]
                              \/ reply[c].status = "ENOENT" /\ l = NoListing
  BY DEF ListDone, ListGone
<1>3. pc[c] = "list" /\ call[c].op = "readdir"
  BY <1>1, <1>2 DEF CallInv, RequestInv, Lists, End, Goto
<1>4. /\ pc'[c] = "idle" /\ outcome'[c] = "ok"
      /\ call'[c] = call[c] /\ fresh'[c] = fresh[c] /\ done'[c] = done[c] /\ created'[c] = created[c]
      /\ request'[c] = NoRequest /\ reply'[c] = NoReply /\ SameTree
  BY <1>2, AfterReturn DEF Lists
<1>5. \A name : Seen(c, name)' = Seen(c, name)
  BY <1>4, TreeStays DEF There, Seen, Place
<1>6. listing'[c] = l /\ fresh[c] \subseteq Names
  BY <1>2 DEF Lists, DirectoryInv, TypeOK, CallsOK
<1>7. \A name \in fresh[c] : l[name] = Seen(c, name)
  BY <1>1, <1>2, <1>3, <1>6 DEF CallInv, FreshInv, NoListing
<1>8. RequestInv(c)' /\ DoneInv(c)' /\ InfoInv(c)'
  BY <1>1, <1>3, <1>4 DEF CallInv, RequestInv, DoneInv, InfoInv, Changes
<1>9. FreshInv(c)'
  BY <1>3, <1>4, <1>5, <1>6, <1>7 DEF FreshInv
<1>. QED
  BY <1>8, <1>9 DEF CallInv


LEMMA AfterAsk ==
  ASSUME DirectoryInv, NEW c \in Callers, NEW from, NEW to, NEW r, Ask(c, from, to, r)
  PROVE  /\ pc[c] = from /\ pc'[c] = to /\ request'[c] = r /\ reply'[c] = NoReply
         /\ call'[c] = call[c] /\ outcome'[c] = outcome[c] /\ fresh'[c] = fresh[c] /\ result'[c] = result[c]
         /\ done'[c] = done[c] /\ created'[c] = created[c] /\ listing'[c] = listing[c] /\ SameTree
         /\ RequestOf(c)' = RequestOf(c) /\ LookupOf(c)' = LookupOf(c) /\ ListOf(c)' = ListOf(c)
         /\ \A id : InfoOf(c, id)' = InfoOf(c, id)
         /\ \A name : There(c, name)' = There(c, name) /\ Seen(c, name)' = Seen(c, name)
<1>1. /\ pc[c] = from /\ pc'[c] = to /\ request'[c] = r /\ reply'[c] = NoReply
      /\ call'[c] = call[c] /\ outcome'[c] = outcome[c] /\ fresh'[c] = fresh[c] /\ result'[c] = result[c]
      /\ done'[c] = done[c] /\ created'[c] = created[c] /\ listing'[c] = listing[c] /\ SameTree
      /\ serial'[c] = serial[c]
  BY DEF Ask, Goto, DirectoryInv, TypeOK, CallsOK, Domains, histVars, listVars, Send, SameTree
<1>2. /\ RequestOf(c)' = RequestOf(c) /\ LookupOf(c)' = LookupOf(c) /\ ListOf(c)' = ListOf(c)
      /\ \A id : InfoOf(c, id)' = InfoOf(c, id)
  BY <1>1 DEF RequestOf, LookupOf, ListOf, InfoOf
<1>3. \A name : There(c, name)' = There(c, name) /\ Seen(c, name)' = Seen(c, name)
  BY <1>1, TreeStays DEF There, Seen, Place
<1>. QED
  BY <1>1, <1>2, <1>3

\* The places that operations name.
LEMMA OperationPlaces ==
  ASSUME DirectoryInv, NEW c \in Callers, call[c].op \notin {"none", "open", "readdir"}
  PROVE  /\ call[c].op \in Changes \cup {"lookup"}
         /\ At(RequestOf(c)) \in Directories \X Names
<1>1. call[c] \in Requests
  BY DEF DirectoryInv, TypeOK, CallsOK, NoCall
<1>2. /\ call[c].op \in Changes \cup {"lookup"} /\ call[c].name \in Names
      /\ DirectoryOf[call[c].node] \in Directories
  BY <1>1, NodesAssumption DEF NodesAssumption, Changes
<1>. QED
  BY <1>2, RequestsDiffer

LEMMA BeginKeepsInv ==
  ASSUME DirectoryInv, NEW c \in Callers, Begin(c) \/ ListBegin(c)
  PROVE  CallInv(c)'
<1>1. CallInv(c)
  BY DEF DirectoryInv, CallsInv
<1>2. CASE Begin(c)
  <2>1. pc[c] = "lock" /\ call[c].op \notin {"none", "open", "readdir"}
    BY <1>1, <1>2 DEF CallInv, RequestInv, Begin, CanLock
  <2>2. call[c].op \in Changes \cup {"lookup"} /\ Sound(RequestOf(c))
    BY <2>1, OperationPlaces DEF Sound
  <2>3. Ask(c, "lock", "main", RequestOf(c))
    BY <1>2 DEF Begin
  <2>4. RequestInv(c)'
    BY <2>2, <2>3, AfterAsk DEF RequestInv, Sound, At
  <2>5. DoneInv(c)' /\ InfoInv(c)'
    BY <1>1, <2>1, <2>3, AfterAsk DEF CallInv, DoneInv, InfoInv, NoReply, Ok
  <2>6. FreshInv(c)'
    BY <1>1, <2>1, <2>2, <2>3, AfterAsk, TreeStays DEF CallInv, DoneInv, FreshInv, NoReply, Ok, Changes
  <2>. QED
    BY <2>4, <2>5, <2>6 DEF CallInv
<1>3. CASE ListBegin(c)
  <2>1. Ask(c, "handle", "list", ListOf(c)) /\ pc[c] = "handle"
    BY <1>3 DEF ListBegin, Ask, Goto
  <2>2. call[c].op = "readdir"
    BY <1>1, <2>1 DEF CallInv, RequestInv
  <2>3. Sound(ListOf(c))
    BY RequestsDiffer DEF Sound, Changes
  <2>4. RequestInv(c)'
    BY <2>1, <2>2, <2>3, AfterAsk DEF RequestInv, Sound, At
  <2>5. DoneInv(c)' /\ InfoInv(c)'
    BY <1>1, <2>1, <2>2, AfterAsk DEF CallInv, DoneInv, InfoInv, NoReply, Ok, Changes
  <2>6. FreshInv(c)'
    BY <1>1, <2>1, <2>2, AfterAsk, TreeStays DEF CallInv, DoneInv, FreshInv, NoReply, Ok
  <2>. QED
    BY <2>4, <2>5, <2>6 DEF CallInv
<1>. QED
  BY <1>2, <1>3

LEMMA NextKeepsInv ==
  ASSUME DirectoryInv, NEW c \in Callers, LookupFile(c) \/ CreateDone(c) \/ Found(c)
  PROVE  CallInv(c)'
<1>1. CallInv(c)
  BY DEF DirectoryInv, CallsInv, CallInv
<1>2. \A id : Sound(InfoOf(c, id))
  BY RequestsDiffer DEF Sound, Changes
<1>3. CASE LookupFile(c)
  <2>1. Ask(c, "main", "info", InfoOf(c, Got(c))) /\ pc[c] = "main" /\ Ok(c)
    BY <1>3 DEF LookupFile, Ask, Goto
  <2>2. call[c].op = "lookup" /\ Got(c) \in {NoEntry} \cup Ids
    BY <1>1, <1>3, <2>1, Replies DEF CallInv, RequestInv, LookupFile, Reads, Changes, Ok, Got
  <2>3. RequestInv(c)'
    BY <1>2, <2>1, <2>2, AfterAsk, TreeStays DEF RequestInv, Sound, At
  <2>4. DoneInv(c)' /\ InfoInv(c)'
    BY <1>1, <2>1, <2>2, AfterAsk DEF CallInv, DoneInv, InfoInv, NoReply, Ok, Changes
  <2>5. call[c].name \in fresh[c] => Got(c) = There(c, call[c].name)
    BY <1>1, <2>1, <2>2 DEF CallInv, FreshInv, Got
  <2>6. InfoOf(c, Got(c)).id = Got(c)
    BY RequestsDiffer
  <2>7. FreshInv(c)'
    BY <1>1, <2>1, <2>2, <2>5, <2>6, AfterAsk, TreeStays DEF CallInv, DoneInv, FreshInv, NoReply, Ok
  <2>. QED
    BY <2>3, <2>4, <2>7 DEF CallInv
<1>4. CASE CreateDone(c)
  <2>1. Ask(c, "main", "find", LookupOf(c)) /\ pc[c] = "main" /\ Ok(c) /\ call[c].op = "create"
    BY <1>4 DEF CreateDone, Ask, Goto
  <2>2. Sound(LookupOf(c))
    BY <2>1, OperationPlaces, RequestsDiffer DEF Sound
  <2>3. RequestInv(c)'
    BY <2>1, <2>2, AfterAsk DEF RequestInv, Sound, At
  <2>4. DoneInv(c)' /\ InfoInv(c)' /\ FreshInv(c)'
    BY <1>1, <2>1, AfterAsk DEF CallInv, DoneInv, InfoInv, FreshInv, NoReply, Ok, Changes
  <2>. QED
    BY <2>3, <2>4 DEF CallInv
<1>5. CASE Found(c)
  <2>1. Ask(c, "find", "info", InfoOf(c, Got(c))) /\ pc[c] = "find" /\ Ok(c)
    BY <1>5 DEF Found, Ask, Goto
  <2>2. call[c].op = "create" /\ Got(c) \in {NoEntry} \cup Ids
    BY <1>1, <2>1, Replies DEF CallInv, RequestInv, Ok, Got
  <2>3. RequestInv(c)'
    BY <1>2, <2>1, <2>2, AfterAsk, TreeStays DEF RequestInv, Sound, At
  <2>4. DoneInv(c)' /\ InfoInv(c)' /\ FreshInv(c)'
    BY <1>1, <2>1, <2>2, AfterAsk DEF CallInv, DoneInv, InfoInv, FreshInv, NoReply, Ok, Changes
  <2>. QED
    BY <2>3, <2>4 DEF CallInv
<1>. QED
  BY <1>3, <1>4, <1>5

LEMMA OpenKeepsInv ==
  ASSUME DirectoryInv, NEW c \in Callers, Opens(c)
  PROVE  CallInv(c)'
<1>1. CallInv(c) /\ made \in Nat
  BY DEF DirectoryInv, CallsInv, TypeOK, ListsOK
<1>2. /\ pc[c] \in {"lock", "append", "store"} /\ call[c].op = "open"
      /\ pc'[c] \in {"append", "store", "idle"} /\ outcome'[c] \in {"none", "ok"}
      /\ pc'[c] # "idle" => outcome'[c] = "none" /\ using'[c] \in Handles'
      /\ call'[c] = call[c] /\ fresh'[c] = fresh[c] /\ done'[c] = done[c] /\ created'[c] = created[c]
      /\ request'[c] = request[c] /\ reply'[c] = reply[c] /\ SameTree
  <2>. USE <1>1 DEF DirectoryInv, TypeOK, CallsOK, ListsOK, Goto, rpcVars, histVars, SameTree,
                    CallInv, RequestInv, DoneInv
  <2>1. CASE NewHandle(c)
    <3>1. made + 1 \in Handles'
      BY <2>1 DEF NewHandle, Handles
    <3>. QED
      BY <2>1, <3>1 DEF NewHandle, CanLock
  <2>2. CASE AppendLoad(c)
    <3>1. Handles' = Handles
      BY <2>2 DEF AppendLoad, Handles, nodeVars
    <3>. QED
      BY <2>2, <3>1 DEF AppendLoad
  <2>3. CASE AppendStore(c)
    BY <2>3 DEF AppendStore, End
  <2>. QED
    BY <2>1, <2>2, <2>3 DEF Opens
<1>3. request[c] = NoRequest /\ reply[c] = NoReply
  BY <1>2 DEF DirectoryInv, TypeOK, RequestsOK, WaitPCs
<1>4. RequestInv(c)'
  BY <1>2, <1>3 DEF RequestInv
<1>5. DoneInv(c)' /\ InfoInv(c)' /\ FreshInv(c)'
  BY <1>1, <1>2, <1>3 DEF CallInv, DoneInv, InfoInv, FreshInv, Changes
<1>. QED
  BY <1>4, <1>5 DEF CallInv

LEMMA CallerKeepsCalls ==
  ASSUME DirectoryInv, NEW c \in Callers, CallerStep(c)
  PROVE  CallsInv'
<1>1. CallInv(c)'
  <2>1. CASE MainFails(c) \/ FindFails(c) \/ InfoFails(c) \/ ListFails(c)
    BY <2>1, ErrorKeepsInv DEF MainFails, FindFails, InfoFails, ListFails, WaitPCs
  <2>. QED
    BY <2>1, CallKeepsInv, RefusalKeepsInv, ChangeKeepsInv, NewNodeKeepsInv, LookupKeepsInv, InfoKeepsInv, ListingKeepsInv,
       BeginKeepsInv, NextKeepsInv, OpenKeepsInv DEF CallerStep, Calls, Opens
<1>2. ASSUME NEW d \in Callers \ {c} PROVE CallInv(d)'
  <2>1. Untouched(d) /\ SameTree
    BY CallerFrame DEF SameTree
  <2>2. made \in Nat /\ made' \in Nat /\ made <= made'
    BY CallerKeepsLists DEF DirectoryInv, TypeOK, ListsOK
  <2>3. CallInv(d)
    BY DEF DirectoryInv, CallsInv
  <2>. QED
    BY <2>1, <2>2, <2>3, UntouchedStays
<1>. QED
  BY <1>1, <1>2 DEF CallsInv

\* A caller that has given up on its request goes on to return.
LEMMA GivenUpStays ==
  ASSUME DirectoryInv, NEW c \in Callers, CallerStep(c), ~Calls(c)
  PROVE  /\ serial'[c] = serial[c] /\ call'[c] = call[c] /\ done'[c] = done[c]
         /\ GivenUp(c) => GivenUp(c)'
<1>. USE DEF DirectoryInv, TypeOK, CallsOK, Domains, Goto, histVars
<1>1. serial'[c] = serial[c] /\ call'[c] = call[c] /\ done'[c] = done[c]
  <2>1. CASE Returns(c) \/ Answers(c)
    BY <2>1 DEF Returns, Return, Answers, Lists, End
  <2>2. CASE Asks(c)
    BY <2>2 DEF Asks, Ask
  <2>3. CASE Opens(c)
    BY <2>3 DEF Opens, NewHandle, AppendLoad, AppendStore, End
  <2>. QED
    BY <2>1, <2>2, <2>3, Shapes
<1>2. ASSUME GivenUp(c) PROVE GivenUp(c)'
  <2>1. (pc[c] \in {"idle", "main"} /\ ~Ok(c)) \/ pc[c] = "idle"
    BY <1>2 DEF GivenUp, Ok
  <2>2. pc[c] # "idle"
    BY Shapes DEF Returns, Return, Answers, Lists, End, Asks, Ask, Opens, NewHandle, CanLock,
                  AppendLoad, AppendStore, WaitPCs
  <2>3. pc[c] = "main" /\ reply[c].status = "timeout" /\ ~Ok(c)
    BY <1>2, <2>2 DEF GivenUp, Ok
  <2>4. MainFails(c)
    BY <2>3 DEF CallerStep, Calls, IsClosed, Rejected, Begin, NewFails, NewHandle, CanLock, AppendLoad,
       AppendStore, HandleIsClosed, ListBegin, ListDone, ListGone, ListFails, ChangeDone, NewNodeFails, LookupDone,
       LookupUnknown, LookupFile, CreateDone, FindFails, Found, InfoFails, InfoDone, OpenFails, Error,
       Lists, Return, End, Ask
  <2>. QED
    BY <2>3, <2>4 DEF MainFails, Error, Return, End, GivenUp
<1>. QED
  BY <1>1, <1>2

LEMMA CallerKeepsLate ==
  ASSUME DirectoryInv, NEW c \in Callers, CallerStep(c)
  PROVE  LateInv'
<1>1. late' = late
  BY CallerFrame
<1>. SUFFICES ASSUME NEW r \in late
     PROVE  /\ r.op \in Changes /\ Sound(r) /\ r.caller \in Callers
            /\ r.serial \in Nat /\ r.serial <= serial'[r.caller]
            /\ r.serial = serial'[r.caller] =>
                 /\ r = RequestOf(r.caller)' /\ call'[r.caller].op \in Changes
                 /\ done'[r.caller] = 0 /\ GivenUp(r.caller)'
  BY <1>1 DEF LateInv, Sound, At
<1>2. /\ r.op \in Changes /\ Sound(r) /\ r.caller \in Callers
      /\ r.serial \in Nat /\ r.serial <= serial[r.caller]
      /\ r.serial = serial[r.caller] =>
           /\ r = RequestOf(r.caller) /\ call[r.caller].op \in Changes
           /\ done[r.caller] = 0 /\ GivenUp(r.caller)
  BY DEF DirectoryInv, LateInv
<1>3. CASE r.caller # c
  <2>1. Untouched(r.caller)
    BY <1>2, <1>3, CallerFrame
  <2>2. RequestOf(r.caller)' = RequestOf(r.caller) /\ (GivenUp(r.caller) => GivenUp(r.caller)')
    BY <2>1 DEF Untouched, RequestOf, GivenUp
  <2>. QED
    BY <1>2, <2>1, <2>2 DEF Untouched
<1>4. CASE r.caller = c /\ Calls(c)
  <2>1. serial[c] \in Nat /\ calls \in Nat /\ serial[c] <= calls
    BY NodesAssumption DEF DirectoryInv, Serials, TypeOK, CallsOK, NodesAssumption
  <2>2. serial'[c] = calls + 1
    BY <1>4 DEF Calls, Call, DirectoryInv, TypeOK, CallsOK
  <2>. QED
    BY <1>2, <1>4, <2>1, <2>2
<1>5. CASE r.caller = c /\ ~Calls(c)
  <2>1. RequestOf(c)' = RequestOf(c)
    BY <1>5, GivenUpStays DEF RequestOf
  <2>. QED
    BY <1>2, <1>5, <2>1, GivenUpStays
<1>. QED
  BY <1>3, <1>4, <1>5

\* The step that sends a request is one of five.
LEMMA WhoAsks ==
  ASSUME DirectoryInv, NEW c \in Callers, CallerStep(c), Asks(c)
  PROVE  \/ Begin(c) /\ pc'[c] = "main"
         \/ ListBegin(c) /\ pc'[c] = "list"
         \/ CreateDone(c) /\ pc'[c] = "find"
         \/ (LookupFile(c) \/ Found(c)) /\ pc'[c] = "info"
<1>. USE DEF Goto
<1>1. /\ pc'[c] \in {"main", "find", "info", "list"}
      /\ \A to : [pc EXCEPT ![c] = to][c] = to
  BY DEF Asks, Ask, WaitPCs, DirectoryInv, TypeOK, CallsOK
<1>2. ASSUME NEW from, NEW how, NEW id, Return(c, from, how, id) PROVE FALSE
  BY <1>1, <1>2 DEF Return, End
<1>3. ASSUME NEW l, Lists(c, l) PROVE FALSE
  BY <1>1, <1>3 DEF Lists, End
<1>4. ~(\E q \in Requests, h \in 0..made : Call(c, q, h))
  BY <1>1 DEF Call
<1>5. ~NewHandle(c) /\ ~AppendLoad(c) /\ ~AppendStore(c)
  BY <1>1 DEF NewHandle, AppendLoad, AppendStore, End
<1>6. ~IsClosed(c) /\ ~Rejected(c) /\ ~NewFails(c) /\ ~HandleIsClosed(c)
  BY <1>2 DEF IsClosed, Rejected, NewFails, HandleIsClosed
<1>7. ~MainFails(c) /\ ~FindFails(c) /\ ~InfoFails(c) /\ ~ListFails(c)
  BY <1>2 DEF MainFails, FindFails, InfoFails, ListFails, Error
<1>8. ~ChangeDone(c) /\ ~NewNodeFails(c) /\ ~LookupDone(c) /\ ~LookupUnknown(c) /\ ~InfoDone(c) /\ ~OpenFails(c)
  BY <1>2 DEF ChangeDone, NewNodeFails, LookupDone, LookupUnknown, InfoDone, OpenFails
<1>9. ~ListDone(c) /\ ~ListGone(c)
  BY <1>3 DEF ListDone, ListGone
<1>10. Begin(c) \/ ListBegin(c) \/ LookupFile(c) \/ CreateDone(c) \/ Found(c)
  BY <1>4, <1>5, <1>6, <1>7, <1>8, <1>9 DEF CallerStep
<1>. QED
  BY <1>1, <1>10 DEF Begin, ListBegin, LookupFile, CreateDone, Found, Ask

LEMMA CallerHolds ==
  ASSUME DirectoryInv, NEW c \in Callers, CallerStep(c), pc'[c] \in HoldPCs
  PROVE  call'[c] = call[c] /\ (pc[c] \in HoldPCs \/ CanLock(c))
<1>. USE DEF DirectoryInv, TypeOK, CallsOK, Goto, HoldPCs
<1>1. CASE Calls(c)
  BY <1>1 DEF Calls, Call
<1>2. CASE ~Calls(c)
  <2>1. call'[c] = call[c]
    BY <1>2, GivenUpStays
  <2>2. CASE Returns(c) \/ Answers(c)
    BY <2>2 DEF Returns, Return, Answers, Lists, End
  <2>3. CASE Opens(c)
    BY <2>1, <2>3 DEF Opens, NewHandle, AppendLoad, AppendStore, End
  <2>4. CASE Asks(c)
    <3>1. Begin(c) \/ LookupFile(c) \/ CreateDone(c) \/ Found(c)
      BY <2>4, WhoAsks
    <3>. QED
      BY <2>1, <3>1 DEF Begin, LookupFile, CreateDone, Found, Ask
  <2>. QED
    BY <1>2, <2>2, <2>3, <2>4, Shapes
<1>. QED
  BY <1>1, <1>2

LEMMA CallerKeepsLock ==
  ASSUME DirectoryInv, NEW c \in Callers, CallerStep(c)
  PROVE  LockInv'
<1>1. \A d \in Callers \ {c} : pc'[d] = pc[d] /\ call'[d] = call[d]
  BY CallerFrame DEF Untouched
<1>2. ASSUME NEW d \in Callers \ {c}, {pc'[c], pc'[d]} \subseteq HoldPCs, call'[c].node = call'[d].node
      PROVE  Reads(c)' /\ Reads(d)'
  <2>1. call'[c] = call[c] /\ (pc[c] \in HoldPCs \/ CanLock(c))
    BY <1>2, CallerHolds
  <2>2. Reads(c) /\ Reads(d)
    BY <1>1, <1>2, <2>1 DEF DirectoryInv, LockInv, CanLock
  <2>. QED
    BY <1>1, <2>1, <2>2 DEF Reads
<1>3. ASSUME NEW d \in Callers \ {c}, NEW e \in Callers \ {c}, d # e,
             {pc'[d], pc'[e]} \subseteq HoldPCs, call'[d].node = call'[e].node
      PROVE  Reads(d)' /\ Reads(e)'
  BY <1>1, <1>3 DEF DirectoryInv, LockInv, Reads
<1>. QED
  BY <1>2, <1>3 DEF LockInv

LEMMA CallerKeepsEarly ==
  ASSUME DirectoryInv, NEW c \in Callers, CallerStep(c), NEW n \in Nodes
  PROVE  EarlyInv(n)'
<1>. USE DEF DirectoryInv, TypeOK
<1>1. UNCHANGED <<closer, closing, shut>>
  BY CallerFrame DEF closeVars
<1>2. CASE UNCHANGED <<handles, early, lost>>
  BY <1>1, <1>2 DEF EarlyInv
<1>3. CASE AppendStore(c)
  <2>1. call[c].node \in Nodes /\ using[c] \in Handles
    BY <1>3, NodesAssumption DEF AppendStore, End, Goto, CallsInv, CallInv, RequestInv, CallsOK, NodesAssumption, NoCall
  <2>2. snapshot[c] \in Seq(Handles)
    BY <2>1 DEF ListsOK
  <2>3. using[c] \in ToSet(Append(snapshot[c], using[c]))
    BY <2>1, <2>2, SetOfAppend
  <2>4. CASE n # call[c].node
    <3>1. handles'[n] = handles[n] /\ early'[n] = early[n] /\ lost'[n] = lost[n]
      BY <1>3, <2>1, <2>4 DEF AppendStore, ListsOK
    <3>. QED
      BY <1>1, <3>1 DEF EarlyInv
  <2>5. CASE n = call[c].node
    <3>1. /\ handles'[n] = Append(snapshot[c], using[c])
          /\ lost'[n] = lost[n] \cup (ToSet(handles[n]) \ ToSet(Append(snapshot[c], using[c])))
          /\ early'[n] = IF closer[n] = "open" THEN early[n] \cup {using[c]} ELSE early[n]
      BY <1>3, <2>1, <2>5 DEF AppendStore, ListsOK, Closed
    <3>2. using[c] \in ToSet(handles'[n])
      BY <2>3, <3>1
    <3>3. ToSet(handles[n]) \cup lost[n] \subseteq ToSet(handles'[n]) \cup lost'[n] /\ lost[n] \subseteq lost'[n]
      BY <3>1
    <3>. QED
      BY <1>1, <3>1, <3>2, <3>3 DEF EarlyInv
  <2>. QED
    BY <2>4, <2>5
<1>. QED
  BY <1>2, <1>3, Shapes DEF Calls, Call, Returns, Return, Asks, Ask, Answers, Lists, Opens, NewHandle, AppendLoad, nodeVars

LEMMA CallerKeepsInv ==
  ASSUME DirectoryInv, NEW c \in Callers, CallerStep(c)
  PROVE  DirectoryInv'
BY CallerKeepsTypes, CallerKeepsCalls, CallerKeepsLate, CallerKeepsLock, CallerKeepsEarly DEF DirectoryInv


-----------------------------------------------------------------------------
(* The steps of Close. *)

LEMMA CloseFrame ==
  ASSUME NEW n \in Nodes, CloseStep(n)
  PROVE  UNCHANGED <<treeVars, rpcVars, nodeVars, callVars, listVars, calls, histVars, fresh>>
BY DEF CloseStep, CloseCAS, CloseRange, HandleCloses, CloseEnd, CloserGoto

LEMMA CloseKeepsTypes ==
  ASSUME DirectoryInv, NEW n \in Nodes, CloseStep(n)
  PROVE  TypeOK' /\ Domains' /\ Serials'
<1>. USE DEF DirectoryInv, TypeOK
<1>1. Ids' = Ids /\ Handles' = Handles
  BY CloseFrame DEF treeVars, nodeVars, Ids, Handles
<1>2. closer' \in [Nodes -> {"open", "range", "closing", "end"}]
  BY DEF CloseStep, CloseCAS, CloseRange, HandleCloses, CloseEnd, CloserGoto, ListsOK
<1>3. closing' \in [Nodes -> Seq(Handles)] /\ shut' \subseteq Handles
  <2>1. CASE CloseCAS(n) \/ CloseEnd(n)
    BY <2>1 DEF CloseCAS, CloseEnd, ListsOK
  <2>2. CASE CloseRange(n)
    BY <2>2 DEF CloseRange, ListsOK
  <2>3. CASE HandleCloses(n)
    <3>1. Tail(closing[n]) \in Seq(Handles) /\ Head(closing[n]) \in Handles
      BY <2>3, SetOfTail DEF HandleCloses, ListsOK
    <3>. QED
      BY <2>3, <3>1 DEF HandleCloses, ListsOK
  <2>. QED
    BY <2>1, <2>2, <2>3 DEF CloseStep
<1>4. ListsOK'
  BY <1>1, <1>2, <1>3, CloseFrame DEF ListsOK, nodeVars, listVars
<1>5. TreeOK' /\ CallsOK' /\ RequestsOK'
  BY <1>1, CloseFrame DEF TreeOK, CallsOK, RequestsOK, treeVars, rpcVars, callVars, listVars, histVars
<1>6. Domains' /\ Serials'
  BY CloseFrame DEF Domains, Serials, rpcVars, histVars
<1>. QED
  BY <1>4, <1>5, <1>6

LEMMA CloseKeepsEarly ==
  ASSUME DirectoryInv, NEW n \in Nodes, CloseStep(n), NEW m \in Nodes
  PROVE  EarlyInv(m)'
<1>. USE DEF DirectoryInv, TypeOK, ListsOK, CloserGoto
<1>1. UNCHANGED <<handles, early, lost>>
  BY CloseFrame DEF nodeVars
<1>2. shut \subseteq shut'
  BY DEF CloseStep, CloseCAS, CloseRange, HandleCloses, CloseEnd
<1>3. CASE m # n
  <2>1. closer'[m] = closer[m] /\ closing'[m] = closing[m]
    BY <1>3 DEF CloseStep, CloseCAS, CloseRange, HandleCloses, CloseEnd
  <2>. QED
    BY <1>1, <1>2, <2>1 DEF EarlyInv
<1>4. CASE m = n
  <2>1. CASE CloseCAS(n)
    BY <1>1, <1>4, <2>1 DEF EarlyInv, CloseCAS
  <2>2. CASE CloseRange(n)
    BY <1>1, <1>2, <1>4, <2>2 DEF EarlyInv, CloseRange
  <2>3. CASE HandleCloses(n)
    <3>1. ToSet(closing[n]) \subseteq {Head(closing[n])} \cup ToSet(Tail(closing[n]))
      BY <2>3, SetOfTail DEF HandleCloses
    <3>2. /\ closer[n] = "closing" /\ closer'[n] = "closing"
          /\ shut' = shut \cup {Head(closing[n])} /\ closing'[n] = Tail(closing[n])
      BY <2>3 DEF HandleCloses
    <3>. QED
      BY <1>1, <1>4, <3>1, <3>2 DEF EarlyInv
  <2>4. CASE CloseEnd(n)
    <3>1. ToSet(closing[n]) = {}
      BY <2>4 DEF CloseEnd, ToSet
    <3>. QED
      BY <1>1, <1>4, <2>4, <3>1 DEF EarlyInv, CloseEnd
  <2>. QED
    BY <2>1, <2>2, <2>3, <2>4 DEF CloseStep
<1>. QED
  BY <1>3, <1>4

LEMMA CloseKeepsInv ==
  ASSUME DirectoryInv, NEW n \in Nodes, CloseStep(n)
  PROVE  DirectoryInv'
<1>0. \A d \in Callers : Untouched(d)
  BY CloseFrame DEF Untouched, rpcVars, callVars, listVars, histVars
<1>1. CallsInv'
  <2>1. made \in Nat /\ made' = made /\ SameTree
    BY CloseFrame DEF nodeVars, DirectoryInv, TypeOK, ListsOK, SameTree
  <2>. QED
    BY <1>0, <2>1, UntouchedStays DEF DirectoryInv, CallsInv
<1>2. LateInv'
  <2>1. UNCHANGED <<late, serial, call, done, pc, outcome>>
    BY CloseFrame DEF rpcVars, callVars, histVars
  <2>2. ASSUME NEW c \in Callers PROVE RequestOf(c)' = RequestOf(c) /\ GivenUp(c)' = GivenUp(c)
    BY <1>0, <2>1, <2>2 DEF RequestOf, GivenUp, Untouched
  <2>. QED
    BY <2>1, <2>2 DEF DirectoryInv, LateInv, Sound, At
<1>3. LockInv'
  BY CloseFrame DEF DirectoryInv, LockInv, Reads, callVars
<1>. QED
  BY <1>1, <1>2, <1>3, CloseKeepsTypes, CloseKeepsEarly DEF DirectoryInv


-----------------------------------------------------------------------------
(* The steps of the file server. *)

\* An id keeps its type, and new ones come after the others.
Grown ==
  /\ TreeOK' /\ Ids \subseteq Ids'
  /\ \A id \in {NoEntry} \cup Ids : TypeOf(id)' = TypeOf(id)

LEMMA TreeGrows ==
  ASSUME TypeOK, NEW r, Sound(r), Accepts(r), Carry(r), r.op \in Changes \cup {"lookup", "info", "readdir"}
  PROVE  /\ Grown
         /\ r.op \in {"create", "mkdir"} => Len(kinds) + 1 \in Ids'
         /\ r.op \notin Changes => SameTree
<1>. USE DEF TypeOK, TreeOK
<1>1. Ids = 1..Len(kinds) /\ Len(kinds) \in Nat /\ NoEntry \notin Ids
  BY NoNode
<1>2. CASE r.op \in {"create", "mkdir"}
  <2>1. PICK kind \in Kinds : kinds' = Append(kinds, kind)
    BY <1>2 DEF Carry, Kinds
  <2>2. /\ kinds' \in Seq(Kinds) /\ DOMAIN kinds' = 1..(Len(kinds) + 1)
        /\ \A i \in 1..Len(kinds) : kinds'[i] = kinds[i]
    BY <2>1, AppendProperties, LenProperties
  <2>3. Ids \subseteq Ids' /\ Len(kinds) + 1 \in Ids'
    BY <1>1, <2>2 DEF Ids
  <2>4. \A id \in {NoEntry} \cup Ids : TypeOf(id)' = TypeOf(id)
    BY <1>1, <2>2 DEF TypeOf
  <2>5. entry' = [entry EXCEPT ![At(r)] = Len(kinds) + 1]
    BY <1>2 DEF Carry
  <2>6. entry' \in [Directories \X Names -> {NoEntry} \cup Ids']
    BY <2>3, <2>5
  <2>. QED
    BY <1>2, <2>2, <2>3, <2>4, <2>6 DEF Grown, Changes
<1>3. CASE r.op \in {"link", "remove", "rename"}
  <2>1. kinds' = kinds /\ Ids' = Ids
    BY <1>3 DEF Carry, Ids
  <2>2. entry' \in [Directories \X Names -> {NoEntry} \cup Ids]
    <3>1. CASE r.op = "link"
      BY <3>1 DEF Carry, Accepts
    <3>2. CASE r.op = "remove"
      BY <3>2 DEF Carry
    <3>3. CASE r.op = "rename"
      <4>1. At(r) \in Directories \X Names
        BY <3>3 DEF Sound, Changes
      <4>2. entry[At(r)] \in {NoEntry} \cup Ids
        BY <4>1
      <4>. QED
        BY <3>3, <4>2 DEF Carry
    <3>. QED
      BY <1>3, <3>1, <3>2, <3>3
  <2>3. \A id : TypeOf(id)' = TypeOf(id)
    BY <2>1 DEF TypeOf
  <2>. QED
    BY <1>3, <2>1, <2>2, <2>3 DEF Grown, Changes
<1>4. CASE r.op \in {"lookup", "info", "readdir"}
  <2>1. SameTree
    BY <1>4 DEF Carry, SameTree
  <2>. QED
    BY <1>4, <2>1, TreeStays DEF Grown, SameTree, treeVars
<1>. QED
  BY <1>2, <1>3, <1>4 DEF Changes

LEMMA SameGrows == ASSUME TypeOK, SameTree PROVE Grown
  BY TreeStays DEF Grown, SameTree, treeVars, TypeOK, TreeOK

\* A caller with a request, and the request.
LEMMA Waiting ==
  ASSUME DirectoryInv, NEW c \in Callers, request[c] # NoRequest
  PROVE  LET r == request[c] IN
         /\ pc[c] \in WaitPCs /\ outcome[c] = "none" /\ r.caller = c /\ r.serial = serial[c] /\ Sound(r)
         /\ r.op \in Changes \cup {"lookup", "info", "readdir"}
         /\ r.op \in Changes => pc[c] = "main" /\ r = RequestOf(c) /\ call[c].op = r.op
         /\ pc[c] = "main" => r = RequestOf(c) /\ call[c].op = r.op
         /\ r.op = "lookup" => pc[c] \in {"main", "find"} /\ At(r) = Place(c, call[c].name)
         /\ r.op = "info" <=> pc[c] = "info"
         /\ r.op = "readdir" <=> pc[c] = "list"
         /\ r.op = "readdir" => r.dir = DirectoryOf[call[c].node] /\ r.dir \in Directories
         /\ r.op \notin {"link"} => r.id \in {NoEntry} \cup Ids
<1>1. CallInv(c) /\ pc[c] \in WaitPCs
  BY DEF DirectoryInv, CallsInv, TypeOK, RequestsOK
<1>2. RequestInv(c) /\ outcome[c] = "none" /\ Sound(request[c])
  BY <1>1 DEF CallInv, RequestInv, DoneInv, WaitPCs
<1>3. CASE pc[c] = "main"
  <2>1. request[c] = RequestOf(c) /\ call[c].op \in Changes \cup {"lookup"}
    BY <1>2, <1>3 DEF RequestInv
  <2>. QED
    BY <1>1, <1>2, <1>3, <2>1, RequestsDiffer DEF Changes, Place
<1>4. CASE pc[c] = "find"
  <2>1. request[c] = LookupOf(c)
    BY <1>2, <1>4 DEF RequestInv
  <2>2. LookupOf(c).caller = c /\ LookupOf(c).serial = serial[c] /\ LookupOf(c).id = RequestOf(c).id
    BY RequestsDiffer DEF LookupOf, RequestOf
  <2>3. call[c].op = "create"
    BY <1>2, <1>4 DEF RequestInv
  <2>. QED
    BY <1>1, <1>2, <1>4, <2>1, <2>2, <2>3, RequestsDiffer DEF Changes, Place
<1>5. CASE pc[c] = "info"
  <2>1. PICK id \in {NoEntry} \cup Ids : request[c] = InfoOf(c, id)
    BY <1>2, <1>5 DEF RequestInv
  <2>2. InfoOf(c, id).caller = c /\ InfoOf(c, id).serial = serial[c]
    BY RequestsDiffer DEF InfoOf, RequestOf
  <2>. QED
    BY <1>1, <1>2, <1>5, <2>1, <2>2, RequestsDiffer DEF Changes
<1>6. CASE pc[c] = "list"
  <2>1. request[c] = ListOf(c) /\ call[c].op = "readdir"
    BY <1>2, <1>6 DEF RequestInv
  <2>2. ListOf(c).caller = c /\ ListOf(c).serial = serial[c] /\ ListOf(c).id = NoEntry
    BY DEF ListOf
  <2>3. call[c].node \in Nodes
    BY <2>1, NodesAssumption DEF DirectoryInv, TypeOK, CallsOK, NodesAssumption, NoCall
  <2>4. DirectoryOf[call[c].node] \in Directories
    BY <2>3, NodesAssumption DEF NodesAssumption
  <2>. QED
    BY <1>1, <1>2, <1>6, <2>1, <2>2, <2>4, RequestsDiffer DEF Changes
<1>. QED
  BY <1>1, <1>3, <1>4, <1>5, <1>6 DEF WaitPCs


\* What a step of the file server leaves to the callers, when those in
\* `answered` have been answered.
LEMMA LookFrame ==
  ASSUME DirectoryInv, NEW answered, Look(answered)
  PROVE  /\ UNCHANGED <<nodeVars, closeVars, callVars, listVars, calls, serial>>
         /\ fresh' \in [Callers -> SUBSET Names]
         /\ \A d \in Callers \ answered : fresh'[d] \subseteq fresh[d]
         /\ \A d \in Callers : \A name \in fresh'[d] :
              Place(d, name) \in Directories \X Names /\ There(d, name)' = There(d, name)
<1>1. UNCHANGED <<nodeVars, closeVars, callVars, listVars, calls, serial>>
  BY DEF Look
<1>2. fresh \in [Callers -> SUBSET Names]
  BY DEF DirectoryInv, TypeOK, CallsOK
<1>3. fresh' \in [Callers -> SUBSET Names]
  BY <1>2 DEF Look
<1>4. \A d \in Callers \ answered : fresh'[d] \subseteq fresh[d]
  BY DEF Look
<1>5. ASSUME NEW d \in Callers, NEW name \in fresh'[d]
      PROVE  Place(d, name) \in Directories \X Names /\ There(d, name)' = There(d, name)
  <2>1. Place(d, name) \in {p \in Directories \X Names : Held(p)' = Held(p)}
    BY <1>5 DEF Look
  <2>2. Place(d, name)' = Place(d, name)
    BY <1>1 DEF Place, callVars
  <2>. QED
    BY <2>1, <2>2 DEF There, Held
<1>. QED
  BY <1>1, <1>3, <1>4, <1>5

\* Its type is the same too.
LEMMA SeenStays ==
  ASSUME DirectoryInv, Grown, NEW d \in Callers, NEW name,
         Place(d, name) \in Directories \X Names, There(d, name)' = There(d, name)
  PROVE  There(d, name) \in {NoEntry} \cup Ids /\ Seen(d, name)' = Seen(d, name)
<1>1. There(d, name) \in {NoEntry} \cup Ids
  BY DEF There, Held, DirectoryInv, TypeOK, TreeOK
<1>. QED
  BY <1>1 DEF Seen, Grown, TypeOf

\* A caller that gets no answer.
Bystander(d) ==
  /\ request'[d] = request[d] /\ reply'[d] = reply[d]
  /\ done'[d] = done[d] /\ created'[d] = created[d]

LEMMA SameRequests ==
  ASSUME UNCHANGED <<call, serial>>, NEW d
  PROVE  /\ RequestOf(d)' = RequestOf(d) /\ LookupOf(d)' = LookupOf(d) /\ ListOf(d)' = ListOf(d)
         /\ \A id : InfoOf(d, id)' = InfoOf(d, id)
BY DEF RequestOf, LookupOf, ListOf, InfoOf

LEMMA BystanderStays ==
  ASSUME DirectoryInv, Grown, NEW answered, Look(answered), NEW d \in Callers \ answered, Bystander(d)
  PROVE  CallInv(d)'
<1>1. CallInv(d)
  BY DEF DirectoryInv, CallsInv
<1>2. /\ pc' = pc /\ call' = call /\ outcome' = outcome /\ result' = result /\ serial' = serial
      /\ using' = using /\ listing' = listing /\ Handles' = Handles
  BY LookFrame DEF callVars, listVars, nodeVars, Handles
<1>3. RequestInv(d)'
  BY <1>1, <1>2, SameRequests DEF CallInv, RequestInv, Bystander, Grown, Sound, At
<1>4. DoneInv(d)' /\ InfoInv(d)'
  BY <1>1, <1>2 DEF CallInv, DoneInv, InfoInv, Bystander, Ok, Grown
<1>5. /\ fresh'[d] \subseteq fresh[d]
      /\ \A name \in fresh'[d] :
           /\ There(d, name)' = There(d, name) /\ There(d, name) \in {NoEntry} \cup Ids
           /\ Seen(d, name)' = Seen(d, name)
  BY LookFrame, SeenStays
<1>6. fresh[d] \subseteq Names /\ result[d] \in {NoEntry} \cup Ids
  BY DEF DirectoryInv, TypeOK, CallsOK
<1>7. Ok(d) => reply[d].id \in {NoEntry} \cup Ids /\ reply[d].names \in [Names -> {NoEntry} \cup Ids]
  BY Replies DEF Ok
<1>9. FreshInv(d)'
  <2>1. ASSUME NEW name \in fresh'[d], call[d].op = "readdir"
        PROVE  /\ pc[d] = "list" /\ Ok(d) => TypeOf(reply[d].names[name])' = Seen(d, name)'
               /\ pc[d] = "list" /\ reply[d].status = "ENOENT" => Seen(d, name)' = "none"
               /\ outcome[d] = "ok" => listing[d][name] = Seen(d, name)'
    <3>1. name \in fresh[d] /\ name \in Names /\ Seen(d, name)' = Seen(d, name)
      BY <1>5, <1>6, <2>1
    <3>2. Ok(d) => TypeOf(reply[d].names[name])' = TypeOf(reply[d].names[name])
      <4>1. Ok(d) => reply[d].names[name] \in {NoEntry} \cup Ids
        BY <1>7, <3>1
      <4>2. reply[d].names[name]' = reply[d].names[name]
        BY DEF Bystander
      <4>. QED
        BY <4>1, <4>2 DEF Grown, TypeOf
    <3>. QED
      BY <1>1, <2>1, <3>1, <3>2 DEF CallInv, FreshInv
  <2>2. ASSUME call[d].op = "lookup", call[d].name \in fresh'[d]
        PROVE  LET there == There(d, call[d].name) IN
               /\ pc[d] = "main" /\ Ok(d) => reply[d].id = there'
               /\ pc[d] = "main" /\ reply[d].status = "ENOENT" => there' = NoEntry
               /\ pc[d] = "info" => request[d].id = there'
               /\ pc[d] = "info" /\ reply[d].status = "ENOENT" => there' = NoEntry
               /\ outcome[d] = "ok" => TypeOf(result[d])' = TypeOf(there)'
               /\ outcome[d] = "ENOENT" => TypeOf(there)' = "none"
    <3>1. call[d].name \in fresh[d] /\ There(d, call[d].name)' = There(d, call[d].name)
          /\ Seen(d, call[d].name)' = Seen(d, call[d].name)
      <4>1. call[d].name' = call[d].name
        BY <1>2
      <4>. QED
        BY <1>5, <2>2, <4>1 DEF There, Seen, Place
    <3>2. TypeOf(result[d])' = TypeOf(result[d])
      BY <1>2, <1>6 DEF Grown, TypeOf
    <3>. QED
      BY <1>1, <2>2, <3>1, <3>2 DEF CallInv, FreshInv, Seen
  <2>3. call'[d] = call[d] /\ pc'[d] = pc[d] /\ outcome'[d] = outcome[d] /\ listing'[d] = listing[d]
        /\ Ok(d)' = Ok(d) /\ reply'[d] = reply[d]
    BY <1>2 DEF Ok, Bystander
  <2>. QED
    BY <2>1, <2>2, <2>3, <1>2 DEF FreshInv, Bystander
<1>. QED
  BY <1>3, <1>4, <1>9 DEF CallInv


LEMMA CountFrame ==
  ASSUME DirectoryInv, NEW r, Count(r)
  PROVE  /\ DOMAIN done' = Callers /\ DOMAIN created' = Callers
         /\ \A d \in Callers :
              IF r.caller = d /\ r.serial = serial[d] /\ r.op \in Changes
              THEN done'[d] = done[d] + 1 /\ created'[d] = (IF r.op = "create" THEN Len(kinds) + 1 ELSE created[d])
              ELSE done'[d] = done[d] /\ created'[d] = created[d]
BY DEF Count

\* The answers to a request that is carried out.
LEMMA AnswerForms ==
  ASSUME NEW r, NEW a \in AnswersTo(r)
  PROVE  /\ a.status = "ok" /\ a.names = Answer(r).names
         /\ a.id = Answer(r).id \/ (r.op = "mkdir" /\ a.id = NoEntry /\ EmptyReplies)
<1>1. PICK id, names : Answer(r) = [status |-> "ok", id |-> id, names |-> names]
  BY DEF Answer
<1>. QED
  BY <1>1 DEF AnswersTo

\* A caller that has been answered with a, and the answers there are.
LEMMA Replied ==
  ASSUME DirectoryInv, NEW c \in Callers, NEW a, Reply(c, a)
  PROVE  /\ request[c] # NoRequest /\ reply[c] = NoReply /\ reply[c].status = "none" /\ ~Ok(c)
         /\ reply'[c] = a /\ request' = request /\ late' = late /\ DOMAIN reply' = Callers
         /\ \A d \in Callers \ {c} : reply'[d] = reply[d] /\ request'[d] = request[d]
BY DEF Reply, Pending, DirectoryInv, Domains, NoReply, Ok

\* What an answer of status "ok" or "ENOENT" has to say of the tree.
TrueAnswer(c, a) ==
  /\ pc[c] = "list" /\ a.status = "ok" => \A name \in Names : TypeOf(a.names[name]) = Seen(c, name)
  /\ pc[c] = "list" /\ a.status = "ENOENT" => \A name \in Names : Seen(c, name) = "none"
  /\ pc[c] = "main" /\ call[c].op = "lookup" /\ a.status = "ok" => a.id = There(c, call[c].name)
  /\ pc[c] = "main" /\ call[c].op = "lookup" /\ a.status = "ENOENT" => There(c, call[c].name) = NoEntry

LEMMA AnswerStays ==
  ASSUME DirectoryInv, Grown, NEW c \in Callers, NEW a, request[c] # NoRequest, request' = request,
         reply'[c] = a, a.status \in Status,
         a.id \in {NoEntry} \cup Ids', a.names \in [Names -> {NoEntry} \cup Ids],
         NEW looking, Look(looking),
         looking = (IF Looking(c) THEN {c} ELSE {}) \/ (looking = {} /\ a.status \notin {"ok", "ENOENT"}),
         a.status \in {"ok", "ENOENT"} => TrueAnswer(c, a),
         a.status \in {"ok", "ENOENT"} /\ Looking(c) => SameTree,
         pc[c] = "info" =>
           /\ a.status = "ok" => a.id \in Ids /\ a.id = request[c].id
           /\ a.status = "ENOENT" => request[c].id = NoEntry \/ ~Reached(request[c].id)
  PROVE  RequestInv(c)' /\ InfoInv(c)' /\ FreshInv(c)'
<1>1. CallInv(c)
  BY DEF DirectoryInv, CallsInv
<1>2. /\ pc' = pc /\ call' = call /\ outcome' = outcome /\ serial' = serial /\ result' = result
      /\ using' = using /\ listing' = listing /\ Handles' = Handles
  BY LookFrame DEF callVars, listVars, nodeVars, Handles
<1>3. pc[c] \in WaitPCs /\ outcome[c] = "none"
  BY Waiting
<1>4. RequestInv(c)'
  BY <1>1, <1>2, <1>3, SameRequests DEF CallInv, RequestInv, Grown, Sound, At
<1>5. InfoInv(c)'
  BY <1>1, <1>2, <1>3 DEF CallInv, InfoInv, Ok, Grown
<1>6. /\ \A name \in fresh'[c] :
           /\ There(c, name)' = There(c, name) /\ Seen(c, name)' = Seen(c, name)
           /\ name \in Names /\ Place(c, name) \in Directories \X Names
      /\ c \notin looking => fresh'[c] \subseteq fresh[c]
  <2>1. fresh' \in [Callers -> SUBSET Names]
    BY LookFrame
  <2>. QED
    BY <2>1, LookFrame, SeenStays
<1>7. ASSUME NEW name \in fresh'[c]
      PROVE  /\ pc[c] = "list" /\ a.status = "ok" => TypeOf(a.names[name])' = Seen(c, name)'
             /\ pc[c] = "list" /\ a.status = "ENOENT" => Seen(c, name)' = "none"
  <2>1. a.names[name] \in {NoEntry} \cup Ids
    BY <1>6, <1>7
  <2>2. a' = a
    OBVIOUS
  <2>3. TypeOf(a.names[name])' = TypeOf(a.names[name])
    BY <2>1, <2>2 DEF Grown, TypeOf
  <2>. QED
    BY <1>6, <1>7, <2>3 DEF TrueAnswer
<1>8. ASSUME call[c].op = "lookup", call[c].name \in fresh'[c]
      PROVE  LET there == There(c, call[c].name) IN
             /\ pc[c] = "main" /\ a.status = "ok" => a.id = there'
             /\ pc[c] = "main" /\ a.status = "ENOENT" => there' = NoEntry
             /\ pc[c] = "info" => request[c].id = there'
             /\ pc[c] = "info" /\ a.status = "ENOENT" => there' = NoEntry
  <2>1. There(c, call[c].name)' = There(c, call[c].name)
    <3>1. call[c].name' = call[c].name
      BY <1>2
    <3>. QED
      BY <1>6, <1>8, <3>1 DEF There, Place
  <2>2. CASE pc[c] = "main" /\ a.status \in {"ok", "ENOENT"}
    BY <1>8, <2>1, <2>2 DEF TrueAnswer
  <2>3. CASE pc[c] = "info"
    <3>1. c \notin looking
      BY <2>3 DEF Looking
    <3>2. request[c].id = There(c, call[c].name)
      BY <1>1, <1>6, <1>8, <2>3, <3>1 DEF CallInv, FreshInv
    <3>3. a.status = "ENOENT" => There(c, call[c].name) = NoEntry
      BY <1>6, <1>8, <2>3, <3>2 DEF There, Reached
    <3>. QED
      BY <2>1, <2>3, <3>2, <3>3
  <2>. QED
    BY <2>2, <2>3
<1>9. FreshInv(c)'
  BY <1>2, <1>3, <1>7, <1>8 DEF FreshInv, Ok
<1>. QED
  BY <1>4, <1>5, <1>9


\* A request that is carried out, for its caller.
LEMMA CarriedStays ==
  ASSUME DirectoryInv, NEW c \in Callers, ServerCarries(c), Count(request[c]),
         Look(IF Looking(c) THEN {c} ELSE {})
  PROVE  /\ Grown /\ CallInv(c)'
         /\ \A d \in Callers \ {c} : Bystander(d)
         /\ reply'[c].id \in {NoEntry} \cup Ids' /\ reply'[c].names \in [Names -> {NoEntry} \cup Ids]
<1>. DEFINE r == request[c]
            a == reply'[c]
<1>0. PICK answer \in AnswersTo(r) : Reply(c, answer)
  BY DEF ServerCarries
<1>1. /\ r # NoRequest /\ reply[c].status = "none" /\ request' = request
      /\ \A d \in Callers \ {c} : reply'[d] = reply[d]
      /\ a.status = "ok" /\ a.names = Answer(r).names
      /\ a.id = Answer(r).id \/ (r.op = "mkdir" /\ a.id = NoEntry)
  BY <1>0, Replied, AnswerForms
<1>2. /\ pc[c] \in WaitPCs /\ outcome[c] = "none" /\ r.caller = c /\ r.serial = serial[c] /\ Sound(r)
      /\ r.op \in Changes \cup {"lookup", "info", "readdir"}
      /\ r.op \in Changes => pc[c] = "main" /\ call[c].op = r.op
      /\ pc[c] = "main" => call[c].op = r.op
      /\ r.op = "lookup" => At(r) = Place(c, call[c].name)
      /\ r.op = "info" <=> pc[c] = "info"
      /\ r.op = "readdir" <=> pc[c] = "list"
      /\ r.op = "readdir" => r.dir = DirectoryOf[call[c].node] /\ r.dir \in Directories
      /\ r.op \notin {"link"} => r.id \in {NoEntry} \cup Ids
  BY <1>1, Waiting
<1>3. /\ Grown /\ (r.op \in {"create", "mkdir"} => Len(kinds) + 1 \in Ids')
      /\ (r.op \notin Changes => SameTree) /\ Accepts(r)
  BY <1>2, TreeGrows DEF ServerCarries, DirectoryInv
<1>4. \A d \in Callers \ {c} : Bystander(d)
  BY <1>1, <1>2, CountFrame DEF Bystander
<1>5. NoNames \in [Names -> {NoEntry} \cup Ids]
  BY DEF NoNames
<1>6. a.names \in [Names -> {NoEntry} \cup Ids]
  <2>1. CASE r.op = "readdir"
    <3>1. \A name \in Names : entry[<<r.dir, name>>] \in {NoEntry} \cup Ids
      BY <1>2, <2>1 DEF DirectoryInv, TypeOK, TreeOK
    <3>. QED
      BY <1>1, <2>1, <3>1 DEF Answer
  <2>2. CASE r.op # "readdir"
    BY <1>1, <1>5, <2>2 DEF Answer
  <2>. QED
    BY <2>1, <2>2
<1>7. a.status = "ok" /\ a.id \in {NoEntry} \cup Ids'
  <2>1. CASE r.op \in {"create", "mkdir"}
    BY <1>1, <1>3, <2>1 DEF Answer
  <2>2. CASE r.op = "lookup"
    <3>1. At(r) \in Directories \X Names
      BY <1>2, <2>2 DEF Sound
    <3>2. entry[At(r)] \in {NoEntry} \cup Ids
      BY <3>1 DEF DirectoryInv, TypeOK, TreeOK
    <3>. QED
      BY <1>1, <1>3, <2>2, <3>2 DEF Answer, Grown
  <2>3. CASE r.op \notin {"create", "mkdir", "lookup"}
    <3>1. a.id = r.id
      BY <1>1, <2>3 DEF Answer
    <3>2. r.id \in {NoEntry} \cup Ids
      BY <1>2, <1>3 DEF Accepts
    <3>. QED
      BY <1>1, <1>3, <3>1, <3>2 DEF Grown
  <2>. QED
    BY <1>1, <2>1, <2>2, <2>3
<1>8. TrueAnswer(c, a)
  <2>1. ASSUME pc[c] = "list", NEW name \in Names PROVE TypeOf(a.names[name]) = Seen(c, name)
    <3>1. Answer(r).names = [n \in Names |-> entry[<<r.dir, n>>]]
      BY <1>2, <2>1 DEF Answer
    <3>2. a.names[name] = entry[Place(c, name)] /\ Alive(Place(c, name)[1])
      BY <1>1, <1>2, <1>3, <2>1, <3>1 DEF Accepts, Place
    <3>. QED
      BY <3>2 DEF Seen, There, Held
  <2>2. ASSUME pc[c] = "main", call[c].op = "lookup" PROVE a.id = There(c, call[c].name)
    <3>1. r.op = "lookup" /\ At(r) = Place(c, call[c].name)
      BY <1>2, <2>2
    <3>2. a.id = entry[Place(c, call[c].name)] /\ Alive(Place(c, call[c].name)[1])
      BY <1>1, <1>3, <3>1 DEF Answer, Accepts, At
    <3>. QED
      BY <3>2 DEF There, Held
  <2>. QED
    BY <1>7, <2>1, <2>2 DEF TrueAnswer
<1>9. Looking(c) => SameTree
  BY <1>2, <1>3 DEF Looking, Changes
<1>10. pc[c] = "info" => a.id \in Ids /\ a.id = r.id
  BY <1>1, <1>2, <1>3 DEF Accepts, Answer
<1>11. RequestInv(c)' /\ InfoInv(c)' /\ FreshInv(c)'
  BY <1>1, <1>3, <1>6, <1>7, <1>8, <1>9, <1>10, AnswerStays DEF Status
<1>12. DoneInv(c)'
  <2>1. DoneInv(c) /\ pc' = pc /\ call' = call /\ outcome' = outcome
    BY LookFrame DEF DirectoryInv, CallsInv, CallInv, callVars
  <2>2. CASE r.op \in Changes
    <3>1. done'[c] = done[c] + 1
      BY <1>2, <2>2, CountFrame
    <3>2. done[c] = 0 /\ pc[c] = "main"
      BY <1>1, <1>2, <2>1, <2>2 DEF DoneInv
    <3>. QED
      BY <1>1, <1>2, <1>7, <2>1, <3>1, <3>2 DEF DoneInv, Ok
  <2>3. CASE r.op \notin Changes
    <3>1. done'[c] = done[c] /\ created'[c] = created[c]
      BY <1>2, <2>3, CountFrame
    <3>. QED
      BY <1>1, <1>2, <1>7, <2>1, <2>3, <3>1 DEF DoneInv, Ok
  <2>. QED
    BY <2>2, <2>3
<1>. QED
  BY <1>1, <1>3, <1>4, <1>6, <1>7, <1>11, <1>12 DEF CallInv

\* A request that is not.
LEMMA NotCarriedStays ==
  ASSUME DirectoryInv, NEW c \in Callers, NotCounted, NEW looking, Look(looking), SameTree,
         \/ (ServerRefuses(c) \/ ServerEmpty(c)) /\ looking = IF Looking(c) THEN {c} ELSE {}
         \/ (ServerFails(c) \/ Timeout(c)) /\ looking = {}
  PROVE  /\ CallInv(c)' /\ \A d \in Callers \ {c} : Bystander(d)
         /\ reply'[c].id \in {NoEntry} \cup Ids' /\ reply'[c].names \in [Names -> {NoEntry} \cup Ids]
<1>. DEFINE r == request[c]
            a == reply'[c]
<1>1. NoNames \in [Names -> {NoEntry} \cup Ids]
  BY DEF NoNames
<1>2. /\ r # NoRequest /\ request' = request
      /\ \A d \in Callers \ {c} : reply'[d] = reply[d]
      /\ a.id = NoEntry /\ (r.op # "readdir" \/ a.status # "ok" => a.names = NoNames)
      /\ a.status \in Status
      /\ a.status = "ok" => r.op = "lookup"
      /\ a.status \in {"ok", "ENOENT"} => ~Accepts(r) \/ (r.op = "info" /\ ~Reached(r.id))
      /\ a.status # "timeout" => reply[c].status = "none"
  <2>1. CASE ServerRefuses(c)
    BY <2>1, Replied DEF ServerRefuses, Refuses, Failure, Status
  <2>2. CASE ServerFails(c)
    BY <2>2, Replied DEF ServerFails, Failure, Status
  <2>3. CASE ServerEmpty(c)
    BY <2>3, Replied DEF ServerEmpty, Answer, Status
  <2>4. CASE Timeout(c)
    BY <2>4 DEF Timeout, Failure, Status, DirectoryInv, Domains
  <2>. QED
    BY <2>1, <2>2, <2>3, <2>4
<1>3. /\ pc[c] \in WaitPCs /\ outcome[c] = "none" /\ Sound(r)
      /\ pc[c] = "main" => call[c].op = r.op
      /\ r.op = "lookup" => At(r) = Place(c, call[c].name)
      /\ r.op = "info" <=> pc[c] = "info"
      /\ r.op = "readdir" <=> pc[c] = "list"
      /\ r.op = "readdir" => r.dir = DirectoryOf[call[c].node]
      /\ r.op \notin {"link"} => r.id \in {NoEntry} \cup Ids
  BY <1>2, Waiting
<1>4. \A d \in Callers : done'[d] = done[d] /\ created'[d] = created[d]
  BY DEF NotCounted
<1>5. a.names \in [Names -> {NoEntry} \cup Ids]
  BY <1>1, <1>2
<1>6. TypeOf(NoEntry) = "none"
  BY DEF TypeOf
<1>7. a.status \in {"ok", "ENOENT"} => TrueAnswer(c, a)
  <2>1. ASSUME a.status \in {"ok", "ENOENT"}, pc[c] = "list", NEW name \in Names
        PROVE  a.status = "ENOENT" /\ Seen(c, name) = "none"
    <3>1. ~Alive(Place(c, name)[1])
      BY <1>2, <1>3, <2>1 DEF Accepts, Place
    <3>. QED
      BY <1>2, <1>3, <1>6, <2>1, <3>1 DEF Seen, There, Held
  <2>2. ASSUME a.status \in {"ok", "ENOENT"}, pc[c] = "main", call[c].op = "lookup"
        PROVE  There(c, call[c].name) = NoEntry
    <3>1. r.op = "lookup" /\ At(r) = Place(c, call[c].name)
      BY <1>3, <2>2
    <3>2. ~Alive(Place(c, call[c].name)[1]) \/ entry[Place(c, call[c].name)] = NoEntry
      BY <1>2, <2>2, <3>1 DEF Accepts, At
    <3>. QED
      BY <3>2 DEF There, Held
  <2>. QED
    BY <1>2, <2>1, <2>2 DEF TrueAnswer
<1>8. pc[c] = "info" => a.status # "ok" /\ (a.status = "ENOENT" => r.id = NoEntry \/ ~Reached(r.id))
  BY <1>2, <1>3 DEF Accepts
<1>9. looking = (IF Looking(c) THEN {c} ELSE {}) \/ (looking = {} /\ a.status \notin {"ok", "ENOENT"})
  <2>1. CASE ServerFails(c)
    BY <2>1, Replied DEF ServerFails, Failure
  <2>2. CASE Timeout(c)
    BY <2>2 DEF Timeout, Failure, DirectoryInv, Domains
  <2>. QED
    BY <2>1, <2>2
<1>10. RequestInv(c)' /\ InfoInv(c)' /\ FreshInv(c)'
  BY <1>2, <1>5, <1>7, <1>8, <1>9, AnswerStays, SameGrows DEF DirectoryInv
<1>11. DoneInv(c)'
  <2>1. DoneInv(c) /\ pc' = pc /\ call' = call /\ outcome' = outcome
    BY LookFrame DEF DirectoryInv, CallsInv, CallInv, callVars
  <2>2. pc[c] = "main" /\ call[c].op \in Changes => a.status # "ok"
    BY <1>2, <1>3 DEF Changes
  <2>. QED
    BY <1>2, <1>3, <1>4, <2>1, <2>2 DEF DoneInv, Ok, Status
<1>. QED
  BY <1>2, <1>4, <1>5, <1>10, <1>11 DEF CallInv, Bystander


\* The types, when the answer of a caller, if it has had one, is of the right type.
LEMMA RemoteKeepsTypes ==
  ASSUME DirectoryInv, Grown, NEW answered, Look(answered), request' = request, DOMAIN reply' = Callers,
         DOMAIN done' = Callers, created' \in [Callers -> {NoEntry} \cup Ids'],
         \A d \in Callers :
           \/ reply'[d] = reply[d]
           \/ /\ request[d] # NoRequest
              /\ reply'[d].id \in {NoEntry} \cup Ids' /\ reply'[d].names \in [Names -> {NoEntry} \cup Ids]
  PROVE  TypeOK' /\ Domains' /\ Serials'
<1>1. UNCHANGED <<nodeVars, closeVars, callVars, listVars, calls, serial>> /\ fresh' \in [Callers -> SUBSET Names]
  BY LookFrame
<1>2. TreeOK' /\ Ids \subseteq Ids' /\ Handles' = Handles
  BY <1>1 DEF Grown, nodeVars, Handles
<1>3. ListsOK'
  BY <1>1, <1>2 DEF DirectoryInv, TypeOK, ListsOK, nodeVars, closeVars, listVars
<1>4. CallsOK'
  BY <1>1, <1>2 DEF DirectoryInv, TypeOK, CallsOK, callVars, listVars
<1>5. RequestsOK'
  BY <1>1, <1>2 DEF DirectoryInv, TypeOK, RequestsOK, callVars
<1>6. Domains' /\ Serials'
  BY <1>1 DEF DirectoryInv, Domains, Serials
<1>. QED
  BY <1>2, <1>3, <1>4, <1>5, <1>6 DEF TypeOK

LEMMA RemoteKeepsOthers ==
  ASSUME DirectoryInv, NEW answered, Look(answered)
  PROVE  LockInv' /\ \A n \in Nodes : EarlyInv(n)'
<1>1. UNCHANGED <<nodeVars, closeVars, callVars>>
  BY LookFrame
<1>. QED
  BY <1>1 DEF DirectoryInv, LockInv, Reads, EarlyInv, nodeVars, closeVars, callVars

\* A late request stays one while its caller goes without an answer.
LEMMA LateStays ==
  ASSUME DirectoryInv, NEW answered, Look(answered), late' \subseteq late,
         \A r \in late' : r.serial = serial[r.caller] => Bystander(r.caller)
  PROVE  LateInv'
<1>1. pc' = pc /\ call' = call /\ outcome' = outcome /\ serial' = serial
  BY LookFrame DEF callVars
<1>2. \A d : RequestOf(d)' = RequestOf(d)
  BY <1>1, SameRequests
<1>. SUFFICES ASSUME NEW r \in late'
     PROVE  /\ r.op \in Changes /\ Sound(r) /\ r.caller \in Callers
            /\ r.serial \in Nat /\ r.serial <= serial[r.caller]
            /\ r.serial = serial[r.caller] =>
                 /\ r = RequestOf(r.caller)' /\ call[r.caller].op \in Changes
                 /\ done'[r.caller] = 0 /\ GivenUp(r.caller)'
  BY <1>1 DEF LateInv, Sound, At
<1>3. CASE r.serial = serial[r.caller]
  <2>1. r = RequestOf(r.caller)' /\ done'[r.caller] = 0 /\ GivenUp(r.caller)'
    BY <1>1, <1>2, <1>3 DEF DirectoryInv, LateInv, Bystander, GivenUp
  <2>. QED
    BY <1>3, <2>1 DEF DirectoryInv, LateInv
<1>4. CASE r.serial # serial[r.caller]
  BY <1>4 DEF DirectoryInv, LateInv
<1>. QED
  BY <1>3, <1>4

\* A caller that still waits has no late request of its own.
LEMMA PendingIsNotLate ==
  ASSUME DirectoryInv, NEW c \in Callers, request[c] # NoRequest, reply[c].status # "timeout",
         NEW r \in late, r.serial = serial[r.caller]
  PROVE  r.caller \in Callers \ {c}
<1>1. GivenUp(r.caller) /\ r.caller \in Callers
  BY DEF DirectoryInv, LateInv
<1>2. pc[c] # "idle"
  BY Waiting DEF WaitPCs
<1>. QED
  BY <1>1, <1>2 DEF GivenUp

LEMMA AnswerKeepsInv ==
  ASSUME DirectoryInv, NEW c \in Callers,
         LET looking == IF Looking(c) THEN {c} ELSE {} IN
         \/ ServerCarries(c) /\ Count(request[c]) /\ Look(looking)
         \/ (ServerRefuses(c) \/ ServerEmpty(c)) /\ NotCounted /\ Look(looking)
         \/ ServerFails(c) /\ NotCounted /\ Look({})
  PROVE  DirectoryInv'
<1>1. /\ request' = request /\ late' = late /\ DOMAIN reply' = Callers
      /\ request[c] # NoRequest /\ reply[c].status = "none"
      /\ \A d \in Callers \ {c} : reply'[d] = reply[d]
  BY Replied DEF ServerCarries, ServerRefuses, ServerEmpty, ServerFails
<1>2. PICK answered : Look(answered) /\ answered \subseteq {c}
  OBVIOUS
<1>3. /\ Grown /\ CallInv(c)' /\ \A d \in Callers \ {c} : Bystander(d)
      /\ reply'[c].id \in {NoEntry} \cup Ids' /\ reply'[c].names \in [Names -> {NoEntry} \cup Ids]
      /\ DOMAIN done' = Callers /\ created' \in [Callers -> {NoEntry} \cup Ids']
  <2>1. created \in [Callers -> {NoEntry} \cup Ids]
    BY DEF DirectoryInv, TypeOK, CallsOK
  <2>2. CASE ServerCarries(c) /\ Count(request[c]) /\ Look(IF Looking(c) THEN {c} ELSE {})
    <3>1. request[c].op = "create" => Len(kinds) + 1 \in Ids'
      <4>1. /\ Sound(request[c]) /\ request[c].op \in Changes \cup {"lookup", "info", "readdir"}
        BY <1>1, Waiting
      <4>. QED
        BY <2>2, <4>1, TreeGrows DEF ServerCarries, DirectoryInv
    <3>2. Grown
      BY <2>2, CarriedStays
    <3>3. created' \in [Callers -> {NoEntry} \cup Ids']
      BY <2>1, <2>2, <3>1, <3>2 DEF Count, Grown
    <3>4. DOMAIN done' = Callers
      BY <2>2, CountFrame
    <3>. QED
      BY <2>2, <3>3, <3>4, CarriedStays
  <2>3. CASE \/ (ServerRefuses(c) \/ ServerEmpty(c)) /\ NotCounted /\ Look(IF Looking(c) THEN {c} ELSE {})
             \/ ServerFails(c) /\ NotCounted /\ Look({})
    <3>1. SameTree /\ done' = done /\ created' = created
      BY <2>3 DEF ServerRefuses, ServerEmpty, ServerFails, SameTree, NotCounted
    <3>2. Grown
      BY <3>1, SameGrows DEF DirectoryInv
    <3>3. DOMAIN done' = Callers /\ created' \in [Callers -> {NoEntry} \cup Ids']
      BY <2>1, <3>1, <3>2 DEF Grown, DirectoryInv, Domains
    <3>4. CASE (ServerRefuses(c) \/ ServerEmpty(c)) /\ NotCounted /\ Look(IF Looking(c) THEN {c} ELSE {})
      BY <3>1, <3>2, <3>3, <3>4, NotCarriedStays
    <3>5. CASE ServerFails(c) /\ NotCounted /\ Look({})
      BY <3>1, <3>2, <3>3, <3>5, NotCarriedStays
    <3>. QED
      BY <2>3, <3>4, <3>5
  <2>. QED
    BY <2>2, <2>3
<1>4. \A d \in Callers \ {c} : CallInv(d)'
  BY <1>2, <1>3, BystanderStays
<1>5. TypeOK' /\ Domains' /\ Serials'
  BY <1>1, <1>2, <1>3, RemoteKeepsTypes
<1>6. LateInv'
  <2>1. \A r \in late' : r.serial = serial[r.caller] => Bystander(r.caller)
    BY <1>1, <1>3, PendingIsNotLate
  <2>. QED
    BY <1>1, <1>2, <2>1, LateStays
<1>. QED
  BY <1>2, <1>3, <1>4, <1>5, <1>6, RemoteKeepsOthers DEF DirectoryInv, CallsInv


LEMMA TimeoutKeepsInv ==
  ASSUME DirectoryInv, NEW c \in Callers, Timeout(c), NotCounted, Look({})
  PROVE  DirectoryInv'
<1>1. /\ request[c] # NoRequest /\ request' = request /\ SameTree /\ DOMAIN reply' = Callers
      /\ reply[c].status # "timeout" /\ reply'[c].status = "timeout"
      /\ \A d \in Callers \ {c} : reply'[d] = reply[d]
  BY DEF Timeout, SameTree, DirectoryInv, Domains, Failure
<1>2. Grown /\ done' = done /\ created' = created
  BY <1>1, SameGrows DEF NotCounted, DirectoryInv
<1>3. /\ CallInv(c)' /\ \A d \in Callers \ {c} : Bystander(d)
      /\ reply'[c].id \in {NoEntry} \cup Ids' /\ reply'[c].names \in [Names -> {NoEntry} \cup Ids]
  BY <1>1, NotCarriedStays
<1>4. \A d \in Callers \ {c} : CallInv(d)'
  BY <1>2, <1>3, BystanderStays
<1>5. TypeOK' /\ Domains' /\ Serials'
  <2>1. DOMAIN done' = Callers /\ created' \in [Callers -> {NoEntry} \cup Ids']
    BY <1>2 DEF DirectoryInv, Domains, TypeOK, CallsOK, Grown
  <2>. QED
    BY <1>1, <1>2, <1>3, <2>1, RemoteKeepsTypes
<1>6. /\ pc' = pc /\ call' = call /\ serial' = serial
  BY LookFrame DEF callVars
<1>7. \A d : RequestOf(d)' = RequestOf(d)
  BY <1>6, SameRequests
<1>8. LateInv'
  <2>. SUFFICES ASSUME NEW r \in late'
       PROVE  /\ r.op \in Changes /\ Sound(r) /\ r.caller \in Callers
              /\ r.serial \in Nat /\ r.serial <= serial[r.caller]
              /\ r.serial = serial[r.caller] =>
                   /\ r = RequestOf(r.caller)' /\ call[r.caller].op \in Changes
                   /\ done'[r.caller] = 0 /\ GivenUp(r.caller)'
    BY <1>6 DEF LateInv, Sound, At
  <2>1. CASE r \in late
    <3>1. CASE r.serial = serial[r.caller]
      <4>1. r.caller \in Callers \ {c}
        BY <1>1, <2>1, <3>1, PendingIsNotLate
      <4>2. GivenUp(r.caller) /\ r = RequestOf(r.caller) /\ done[r.caller] = 0
        BY <2>1, <3>1 DEF DirectoryInv, LateInv
      <4>3. outcome' = outcome
        BY LookFrame DEF callVars
      <4>4. GivenUp(r.caller)'
        BY <1>1, <1>6, <4>1, <4>2, <4>3 DEF GivenUp
      <4>. QED
        BY <1>2, <1>7, <2>1, <3>1, <4>2, <4>4 DEF DirectoryInv, LateInv
    <3>2. CASE r.serial # serial[r.caller]
      BY <2>1, <3>2 DEF DirectoryInv, LateInv
    <3>. QED
      BY <3>1, <3>2
  <2>2. CASE r \notin late
    <3>1. r = request[c] /\ r.op \in Changes /\ reply[c] = NoReply
      BY <2>2 DEF Timeout, Pending
    <3>2. /\ Sound(r) /\ r.caller = c /\ r.serial = serial[c] /\ pc[c] = "main" /\ r = RequestOf(c)
          /\ call[c].op \in Changes
      BY <1>1, <3>1, Waiting
    <3>3. done[c] = 0
      BY <3>1, <3>2 DEF DirectoryInv, CallsInv, CallInv, DoneInv, NoReply
    <3>4. serial[c] \in Nat /\ serial[c] <= serial[c]
      BY NodesAssumption DEF DirectoryInv, TypeOK, CallsOK, NodesAssumption
    <3>5. GivenUp(c)'
      BY <1>1, <1>6, <3>2 DEF GivenUp
    <3>. QED
      BY <1>2, <1>7, <3>1, <3>2, <3>3, <3>4, <3>5
  <2>. QED
    BY <2>1, <2>2
<1>. QED
  BY <1>3, <1>4, <1>5, <1>8, RemoteKeepsOthers DEF DirectoryInv, CallsInv

\* The change of a caller that has given up is carried out.
LEMMA LateCountStays ==
  ASSUME DirectoryInv, Grown, Look({}), NEW c \in Callers, GivenUp(c), request' = request, reply' = reply,
         done[c] = 0, done'[c] = 1, call[c].op \in Changes
  PROVE  CallInv(c)'
<1>1. /\ pc' = pc /\ call' = call /\ outcome' = outcome /\ serial' = serial /\ result' = result
      /\ using' = using /\ listing' = listing /\ Handles' = Handles
  BY LookFrame DEF callVars, listVars, nodeVars, Handles
<1>2. CallInv(c)
  BY DEF DirectoryInv, CallsInv
<1>3. RequestInv(c)'
  BY <1>1, <1>2, SameRequests DEF CallInv, RequestInv, Grown, Sound, At
<1>4. call[c].op \notin {"readdir", "lookup"}
  BY DEF Changes
<1>5. InfoInv(c)' /\ FreshInv(c)'
  BY <1>1, <1>2, <1>4 DEF CallInv, InfoInv, FreshInv, Ok, Grown, GivenUp
<1>6. DoneInv(c)'
  BY <1>1, <1>2 DEF CallInv, DoneInv, Ok, GivenUp
<1>. QED
  BY <1>3, <1>5, <1>6 DEF CallInv

LEMMA LateCarriesKeepsInv ==
  ASSUME DirectoryInv, NEW r \in late, LateCarries(r), Count(r), Look({})
  PROVE  DirectoryInv'
<1>1. request' = request /\ reply' = reply /\ late' = late \ {r} /\ DOMAIN reply' = Callers
  BY DEF LateCarries, DirectoryInv, Domains
<1>2. /\ r.op \in Changes /\ Sound(r)
      /\ r.serial = serial[r.caller] =>
           /\ r = RequestOf(r.caller) /\ call[r.caller].op \in Changes
           /\ done[r.caller] = 0 /\ GivenUp(r.caller)
  BY DEF DirectoryInv, LateInv
<1>3. Grown /\ (r.op \in {"create", "mkdir"} => Len(kinds) + 1 \in Ids')
  BY <1>2, TreeGrows DEF LateCarries, DirectoryInv
<1>4. ASSUME NEW d \in Callers, ~(r.caller = d /\ r.serial = serial[d]) PROVE Bystander(d)
  BY <1>1, <1>4, CountFrame DEF Bystander
<1>5. ASSUME NEW d \in Callers PROVE CallInv(d)'
  <2>1. CASE r.caller = d /\ r.serial = serial[d]
    <3>1. done'[d] = 1
      BY <1>2, <2>1, CountFrame
    <3>. QED
      BY <1>1, <1>2, <1>3, <2>1, <3>1, LateCountStays
  <2>2. CASE ~(r.caller = d /\ r.serial = serial[d])
    BY <1>3, <1>4, <2>2, BystanderStays
  <2>. QED
    BY <2>1, <2>2
<1>6. TypeOK' /\ Domains' /\ Serials'
  <2>1. created' \in [Callers -> {NoEntry} \cup Ids']
    BY <1>3 DEF Count, Grown, DirectoryInv, TypeOK, CallsOK
  <2>2. DOMAIN done' = Callers
    BY CountFrame
  <2>. QED
    BY <1>1, <1>3, <2>1, <2>2, RemoteKeepsTypes
<1>7. ASSUME NEW s \in late', s.serial = serial[s.caller] PROVE Bystander(s.caller)
  <2>1. s \in late /\ s # r
    BY <1>1, <1>7
  <2>2. s = RequestOf(s.caller) /\ s.caller \in Callers
    BY <1>7, <2>1 DEF DirectoryInv, LateInv
  <2>3. ~(r.caller = s.caller /\ r.serial = serial[s.caller])
    BY <1>2, <2>1, <2>2
  <2>. QED
    BY <1>4, <2>2, <2>3
<1>8. LateInv'
  BY <1>1, <1>7, LateStays
<1>. QED
  BY <1>5, <1>6, <1>8, RemoteKeepsOthers DEF DirectoryInv, CallsInv

LEMMA LateDropsKeepsInv ==
  ASSUME DirectoryInv, NEW r \in late, LateDrops(r), NotCounted, Look({})
  PROVE  DirectoryInv'
<1>1. /\ request' = request /\ reply' = reply /\ late' \subseteq late /\ SameTree
      /\ done' = done /\ created' = created /\ DOMAIN reply' = Callers
  BY DEF LateDrops, SameTree, NotCounted, DirectoryInv, Domains
<1>2. Grown /\ \A d : Bystander(d)
  BY <1>1, SameGrows DEF DirectoryInv, Bystander
<1>3. \A d \in Callers : CallInv(d)'
  BY <1>2, BystanderStays
<1>4. TypeOK' /\ Domains' /\ Serials'
  <2>1. DOMAIN done' = Callers /\ created' \in [Callers -> {NoEntry} \cup Ids']
    BY <1>1, <1>2 DEF DirectoryInv, Domains, TypeOK, CallsOK, Grown
  <2>. QED
    BY <1>1, <1>2, <2>1, RemoteKeepsTypes
<1>. QED
  BY <1>1, <1>2, <1>3, <1>4, LateStays, RemoteKeepsOthers DEF DirectoryInv, CallsInv

-----------------------------------------------------------------------------

LEMMA StepKeepsInv == DirectoryInv /\ [Next]_vars => DirectoryInv'
<1>. SUFFICES ASSUME DirectoryInv, [Next]_vars PROVE DirectoryInv'
  OBVIOUS
<1>1. ASSUME NEW c \in Callers, CallerStep(c) PROVE DirectoryInv'
  BY <1>1, CallerKeepsInv
<1>2. ASSUME NEW n \in Nodes, CloseStep(n) PROVE DirectoryInv'
  BY <1>2, CloseKeepsInv
<1>3. CASE RemoteStep
  <2>1. ASSUME NEW c \in Callers,
               LET looking == IF Looking(c) THEN {c} ELSE {} IN
               \/ ServerCarries(c) /\ Count(request[c]) /\ Look(looking)
               \/ (ServerRefuses(c) \/ ServerEmpty(c)) /\ NotCounted /\ Look(looking)
               \/ ServerFails(c) /\ NotCounted /\ Look({})
        PROVE  DirectoryInv'
    BY <2>1, AnswerKeepsInv
  <2>2. ASSUME NEW c \in Callers, Timeout(c), NotCounted, Look({}) PROVE DirectoryInv'
    BY <2>2, TimeoutKeepsInv
  <2>3. ASSUME NEW r \in late, LateCarries(r), Count(r), Look({}) PROVE DirectoryInv'
    BY <2>3, LateCarriesKeepsInv
  <2>4. ASSUME NEW r \in late, LateDrops(r), NotCounted, Look({}) PROVE DirectoryInv'
    BY <2>4, LateDropsKeepsInv
  <2>. QED
    BY <1>3, <2>1, <2>2, <2>3, <2>4 DEF RemoteStep
<1>4. CASE UNCHANGED vars
  <2>1. SameTree /\ UNCHANGED <<rpcVars, nodeVars, closeVars, callVars, listVars, calls, histVars, fresh>>
    BY <1>4 DEF vars, SameTree
  <2>2. Ids' = Ids /\ Handles' = Handles /\ made \in Nat /\ made' = made
    BY <2>1, TreeStays DEF nodeVars, Handles, DirectoryInv, TypeOK, ListsOK
  <2>3. TypeOK'
    BY <2>1, <2>2 DEF DirectoryInv, TypeOK, TreeOK, ListsOK, CallsOK, RequestsOK, SameTree, treeVars, rpcVars,
       nodeVars, closeVars, callVars, listVars, histVars
  <2>4. Domains' /\ Serials' /\ LateInv' /\ LockInv' /\ \A n \in Nodes : EarlyInv(n)'
    BY <2>1 DEF DirectoryInv, Domains, Serials, LateInv, Sound, At, RequestOf, GivenUp, LockInv, Reads, EarlyInv,
       rpcVars, nodeVars, closeVars, callVars, histVars
  <2>5. CallsInv'
    BY <2>1, <2>2, UntouchedStays DEF DirectoryInv, CallsInv, Untouched, rpcVars, callVars, listVars, histVars
  <2>. QED
    BY <2>3, <2>4, <2>5 DEF DirectoryInv
<1>. QED
  BY <1>1, <1>2, <1>3, <1>4 DEF Next, Rest

\* What holds of an operation, of the tree and of the handles holds all along.
THEOREM Inductive == Spec => []DirectoryInv
BY InitInv, StepKeepsInv, PTL DEF Spec

\* The tree, the requests, the operations and the lists of handles are what
\* they are declared to be: a caller has a request exactly where it waits for one.
THEOREM DirectoryTyping == Spec => []TypeOK
<1>1. DirectoryInv => TypeOK
  BY DEF DirectoryInv
<1>. QED
  BY <1>1, Inductive, PTL

\* What an operation reports is what the file server has done (Create, Mkdir,
\* Remove, Rename and Link of directory/node/main.go), for any number of
\* callers, and although requests are carried out after their timeout: only a
\* Create and a Mkdir can fail after their effect, as what comes next does.
THEOREM OutcomesAreTrue == Spec => []OutcomeIsTrue
<1>1. DirectoryInv => OutcomeIsTrue
  BY DEF DirectoryInv, CallsInv, CallInv, DoneInv, OutcomeIsTrue
<1>. QED
  BY <1>1, Inductive, PTL

\* A Lookup returns no node for an answer without one: New needs the size.
THEOREM LookupsReturnNodes == Spec => []LookupReturnsANode
<1>1. DirectoryInv => LookupReturnsANode
  BY DEF DirectoryInv, CallsInv, CallInv, InfoInv, LookupReturnsANode
<1>. QED
  BY <1>1, Inductive, PTL

\* A listing of ReadDirAll and a Lookup agree about a name that has not changed:
\* both are what can be seen in the tree for as long as the name is fresh.
THEOREM ListingsAgreeWithLookups == Spec => []ListingAgreesWithLookup
<1>1. ASSUME DirectoryInv PROVE ListingAgreesWithLookup
  <2>. SUFFICES ASSUME NEW c \in Callers, NEW d \in Callers,
                       call[c].op = "readdir", outcome[c] = "ok",
                       call[d].op = "lookup", outcome[d] \in {"ok", "ENOENT"},
                       DirectoryOf[call[c].node] = DirectoryOf[call[d].node],
                       call[d].name \in fresh[c] \cap fresh[d]
                PROVE  listing[c][call[d].name] = IF outcome[d] = "ok" THEN TypeOf(result[d]) ELSE "none"
    BY DEF ListingAgreesWithLookup
  <2>1. listing[c][call[d].name] = Seen(c, call[d].name)
    BY <1>1 DEF DirectoryInv, CallsInv, CallInv, FreshInv
  <2>2. Seen(d, call[d].name) = IF outcome[d] = "ok" THEN TypeOf(result[d]) ELSE "none"
    BY <1>1 DEF DirectoryInv, CallsInv, CallInv, FreshInv, Seen
  <2>3. Seen(c, call[d].name) = Seen(d, call[d].name)
    BY DEF Seen, There, Place
  <2>. QED
    BY <2>1, <2>2, <2>3
<1>. QED
  BY <1>1, Inductive, PTL


\* The lock of a node protects the entry a Create is about, from the answer to
\* its first request to its return: only a late request, or one sent through
\* another node, can change it.
THEOREM LocksProtect == Spec => LockProtects
<1>1. ASSUME DirectoryInv, [Next]_vars, NEW c \in Callers,
             call[c].op = "create", pc[c] \in HoldPCs, created[c] # NoEntry,
             entry'[At(RequestOf(c))] # entry[At(RequestOf(c))]
      PROVE  \/ late' # late
             \/ \E d \in Callers \ {c} : reply'[d] # reply[d] /\ call[d].node # call[c].node
  <2>1. ~SameTree
    BY <1>1 DEF SameTree, treeVars
  <2>2. ~\E d \in Callers : CallerStep(d)
    BY <1>1, <2>1, CallerFrame DEF SameTree
  <2>3. ~\E n \in Nodes : CloseStep(n)
    BY <2>1, CloseFrame DEF SameTree
  <2>4. RemoteStep
    BY <1>1, <2>1, <2>2, <2>3 DEF Next, Rest, vars, SameTree
  <2>5. CASE \E r \in late : LateCarries(r) \/ LateDrops(r)
    BY <2>5 DEF LateCarries, LateDrops
  <2>6. CASE ~\E r \in late : LateCarries(r) \/ LateDrops(r)
    <3>1. PICK d \in Callers : ServerCarries(d)
      BY <2>1, <2>4, <2>6 DEF RemoteStep, ServerRefuses, ServerEmpty, ServerFails, Timeout, SameTree
    <3>2. request[d] # NoRequest /\ reply[d] = NoReply /\ reply[d].status = "none" /\ reply'[d].status = "ok"
      BY <1>1, <3>1, Replied, AnswerForms DEF ServerCarries
    <3>3. request[d].op \in Changes
      BY <1>1, <2>1, <3>1, <3>2, Waiting, TreeGrows DEF ServerCarries, DirectoryInv
    <3>4. pc[d] = "main" /\ call[d].op \in Changes
      BY <1>1, <3>2, <3>3, Waiting
    <3>5. DoneInv(c) /\ DoneInv(d)
      BY <1>1 DEF DirectoryInv, CallsInv, CallInv
    <3>6. d # c
      BY <1>1, <3>2, <3>4, <3>5 DEF DoneInv
    <3>7. call[d].node # call[c].node
      BY <1>1, <3>4, <3>6 DEF DirectoryInv, LockInv, Reads, HoldPCs
    <3>. QED
      BY <3>2, <3>6, <3>7
  <2>. QED
    BY <2>5, <2>6
<1>2. DirectoryInv /\ [Next]_vars =>
        [\A c \in Callers :
           call[c].op = "create" /\ pc[c] \in HoldPCs /\ created[c] # NoEntry
             /\ entry'[At(RequestOf(c))] # entry[At(RequestOf(c))] =>
           \/ late' # late
           \/ \E d \in Callers \ {c} :
                /\ reply'[d] # reply[d]
                /\ call[d].node # call[c].node]_vars
  BY <1>1
<1>. QED
  BY <1>2, Inductive, PTL DEF Spec, LockProtects

-----------------------------------------------------------------------------
(* The list of handles of a node. *)

\* What a step does to the list of a node: the abstract step, or none.
LEMMA ListSteps ==
  ASSUME DirectoryInv, [Next]_vars, NEW n \in Nodes
  PROVE  [List(n)!Next]_(List(n)!listVars)
<1>. USE DEF DirectoryInv, TypeOK, List!listVars, phaseBar
<1>1. ASSUME NEW c \in Callers, CallerStep(c), ~AppendStore(c) PROVE UNCHANGED List(n)!listVars
  <2>1. UNCHANGED <<closer, shut>>
    BY <1>1, CallerFrame DEF closeVars
  <2>2. UNCHANGED <<early, lost>>
    BY <1>1, Shapes DEF Calls, Call, Returns, Return, Asks, Ask, Answers, Lists, Opens, NewHandle, AppendLoad, nodeVars
  <2>. QED
    BY <2>1, <2>2
<1>2. ASSUME NEW c \in Callers, AppendStore(c) PROVE [List(n)!Next]_(List(n)!listVars)
  <2>1. UNCHANGED <<closer, shut>>
    BY <1>2 DEF AppendStore, End, closeVars
  <2>2. CASE n # call[c].node
    <3>1. early'[n] = early[n] /\ lost'[n] = lost[n]
      BY <1>2, <2>2 DEF AppendStore, ListsOK
    <3>. QED
      BY <2>1, <3>1
  <2>3. CASE n = call[c].node
    <3>1. lost[n] \subseteq lost'[n]
      BY <1>2, <2>3 DEF AppendStore, ListsOK
    <3>2. CASE closer[n] = "open"
      <4>1. early'[n] = early[n] \cup {using[c]}
        BY <1>2, <2>3, <3>2 DEF AppendStore, ListsOK, Closed
      <4>2. List(n)!Give
        BY <2>1, <3>1, <3>2, <4>1 DEF List!Give
      <4>. QED
        BY <3>2, <4>2 DEF List!Next
    <3>3. CASE closer[n] # "open"
      <4>1. early' = early
        BY <1>2, <2>3, <3>3 DEF AppendStore, Closed
      <4>2. List(n)!Miss
        BY <2>1, <3>1, <4>1 DEF List!Miss
      <4>3. phaseBar(n) # "crashed"
        OBVIOUS
      <4>. QED
        BY <4>2, <4>3 DEF List!Next
    <3>. QED
      BY <3>2, <3>3
  <2>. QED
    BY <2>2, <2>3
<1>3. ASSUME NEW m \in Nodes, CloseStep(m) PROVE [List(n)!Next]_(List(n)!listVars)
  <2>1. UNCHANGED <<early, lost>>
    BY <1>3, CloseFrame DEF nodeVars
  <2>2. shut \subseteq shut'
    BY <1>3 DEF CloseStep, CloseCAS, CloseRange, HandleCloses, CloseEnd
  <2>3. CASE phaseBar(n)' = phaseBar(n)
    <3>1. List(n)!Shut /\ phaseBar(n) # "crashed"
      BY <2>1, <2>2, <2>3 DEF List!Shut
    <3>. QED
      BY <3>1 DEF List!Next
  <2>4. CASE phaseBar(n)' # phaseBar(n)
    <3>1. m = n /\ (CloseCAS(n) \/ CloseEnd(n))
      BY <1>3, <2>4 DEF CloseStep, CloseCAS, CloseRange, HandleCloses, CloseEnd, CloserGoto, ListsOK
    <3>2. CASE CloseCAS(n)
      <4>1. List(n)!Begin
        BY <2>1, <3>2 DEF CloseCAS, CloserGoto, ListsOK, List!Begin
      <4>. QED
        BY <3>2, <4>1 DEF List!Next, CloseCAS, CloserGoto
    <3>3. CASE CloseEnd(n)
      <4>1. ToSet(closing[n]) = {} /\ closer[n] = "closing"
        BY <3>3 DEF CloseEnd, CloserGoto, ToSet
      <4>2. early[n] \subseteq shut \cup lost[n]
        BY <4>1 DEF EarlyInv
      <4>3. List(n)!End
        BY <2>1, <3>3, <4>2 DEF CloseEnd, CloserGoto, ListsOK, List!End
      <4>. QED
        BY <4>1, <4>3 DEF List!Next
    <3>. QED
      BY <3>1, <3>2, <3>3
  <2>. QED
    BY <2>3, <2>4
<1>4. CASE RemoteStep
  <2>1. UNCHANGED <<nodeVars, closeVars>>
    BY <1>4, LookFrame DEF RemoteStep
  <2>. QED
    BY <2>1 DEF nodeVars, closeVars
<1>5. CASE UNCHANGED vars
  BY <1>5 DEF vars, nodeVars, closeVars
<1>. QED
  BY <1>1, <1>2, <1>3, <1>4, <1>5 DEF Next, Rest

\* Every node keeps the promise of ClosedList about the handles it has
\* returned: Open's append under the lock for reading may lose some of them,
\* and Close closes all the others.
THEOREM NodesImplementLists == Spec => ImplementsClosedList
<1>1. Init => \A n \in Nodes : List(n)!Init
  BY DEF Init, List!Init, phaseBar
<1>2. DirectoryInv /\ [Next]_vars => [\A n \in Nodes : [List(n)!Next]_(List(n)!listVars)]_vars
  BY ListSteps
<1>. QED
  BY <1>1, <1>2, Inductive, PTL DEF Spec, ImplementsClosedList

-----------------------------------------------------------------------------
(* The operations as AtomicTree has them. *)

\* What they keep, beside DirectoryInv, until they return.
KeptInv(c) ==
  /\ pc[c] = "main" => ~ToRoot(c)
  /\ call[c].op \notin Changes => done[c] = 0
  /\ pc[c] = "main" /\ call[c].op = "mkdir" /\ Ok(c) => reply[c].id # NoEntry \/ EmptyReplies
  /\ pc[c] = "list" /\ reply[c].status = "ENOENT" => reply[c].names = NoNames
  /\ pc[c] = "info" /\ call[c].op = "lookup" /\ request[c].id # NoEntry =>
       TypeOf(request[c].id) = "file"

LEMMA InitKept == Init => \A c \in Callers : KeptInv(c)
BY DEF Init, RemoteInit, KeptInv, NoCall, NoReply, NoRequest, Changes

LEMMA CallerKeepsKept ==
  ASSUME DirectoryInv, NEW c \in Callers, CallerStep(c), NEW d \in Callers, KeptInv(d)
  PROVE  KeptInv(d)'
<1>1. SameTree /\ \A b \in Callers \ {c} : Untouched(b)
  BY CallerFrame DEF SameTree
<1>2. CASE d # c
  <2>1. Untouched(d)
    BY <1>1, <1>2
  <2>. QED
    BY <1>1, <2>1, TreeStays DEF KeptInv, Untouched, ToRoot, Ok, SameTree, treeVars
<1>3. CASE d = c
  <2>. USE <1>3 DEF DirectoryInv, TypeOK, CallsOK, Domains, Goto, KeptInv, Ok, histVars, callVars
  <2>1. CASE Calls(c)
    BY <2>1 DEF Calls, Call
  <2>2. CASE Returns(c)
    BY <2>2 DEF Returns, Return, End, Receive
  <2>3. CASE Answers(c)
    BY <2>3 DEF Answers, Lists, End, Receive
  <2>4. CASE Opens(c)
    BY <2>4 DEF Opens, NewHandle, AppendLoad, AppendStore, End
  <2>5. CASE Asks(c)
    <3>0. pc'[c] \in WaitPCs /\ reply'[c] = NoReply /\ NoReply.status = "none"
      BY <2>5 DEF Asks, Ask, Send, NoReply
    <3>1. call' = call /\ done' = done /\ ToRoot(c)' = ToRoot(c)
      BY <2>5 DEF Asks, Ask, ToRoot
    <3>2. CASE pc'[c] = "main"
      <4>1. Begin(c)
        BY <2>5, <3>2, WhoAsks
      <4>. QED
        BY <3>0, <3>1, <3>2, <4>1 DEF Begin, WrongType
    <3>3. CASE pc'[c] = "info" /\ call[c].op = "lookup"
      <4>1. LookupFile(c)
        BY <2>5, <3>3, WhoAsks DEF Found, Ask, CallsInv, CallInv, RequestInv
      <4>2. request'[c] = InfoOf(c, Got(c)) /\ InfoOf(c, Got(c)).id = Got(c)
        BY <4>1, RequestsDiffer DEF LookupFile, Ask, Send
      <4>3. DEFINE id == Got(c)
      <4>4. id # NoEntry => TypeOf(id) = "file"
        BY <4>1 DEF LookupFile, KindOf, TypeOf
      <4>5. request'[c].id = id
        BY <4>2
      <4>6. TypeOf(request[c].id)' = TypeOf(request'[c].id)
        BY <1>1 DEF TypeOf, SameTree, treeVars
      <4>7. request'[c].id # NoEntry => TypeOf(request[c].id)' = "file"
        BY <4>4, <4>5, <4>6
      <4>8. pc'[c] = "info" /\ pc'[c] # "main" /\ pc'[c] # "list"
        BY <3>3
      <4>. QED
        BY <3>1, <4>7, <4>8 DEF KeptInv
    <3>. QED
      BY <3>0, <3>1, <3>2, <3>3
  <2>. QED
    BY <2>1, <2>2, <2>3, <2>4, <2>5, Shapes
<1>. QED
  BY <1>2, <1>3

\* A change that is counted is the change of its caller's operation.
LEMMA CountsItsOwn ==
  ASSUME DirectoryInv, NEW r, Count(r), NEW d \in Callers, call[d].op \notin Changes,
         \/ \E c \in Callers : request[c] = r /\ r # NoRequest
         \/ r \in late
  PROVE  done'[d] = done[d]
<1>1. r.caller = d /\ r.serial = serial[d] => call[d].op \in Changes \/ r.op \notin Changes
  BY Waiting DEF DirectoryInv, LateInv
<1>. QED
  BY <1>1, CountFrame

LEMMA RemoteKeepsKept ==
  ASSUME DirectoryInv, RemoteStep, NEW d \in Callers, KeptInv(d)
  PROVE  KeptInv(d)'
<1>1. UNCHANGED <<pc, call, serial>>
  BY LookFrame DEF RemoteStep, callVars
<1>2. request' = request /\ Grown
  <2>1. ASSUME NEW c \in Callers, ServerCarries(c) PROVE request' = request /\ Grown
    <3>1. request[c] # NoRequest /\ request' = request
      BY <2>1 DEF ServerCarries, Reply, Pending
    <3>. QED
      BY <2>1, <3>1, Waiting, TreeGrows DEF ServerCarries, DirectoryInv
  <2>2. ASSUME NEW c \in Callers, ServerRefuses(c) \/ ServerEmpty(c) \/ ServerFails(c) \/ Timeout(c)
        PROVE  request' = request /\ Grown
    BY <2>2, SameGrows DEF ServerRefuses, ServerEmpty, ServerFails, Timeout, Reply, SameTree, DirectoryInv
  <2>3. ASSUME NEW r \in late, LateCarries(r) PROVE request' = request /\ Grown
    BY <2>3, TreeGrows DEF LateCarries, DirectoryInv, LateInv
  <2>4. ASSUME NEW r \in late, LateDrops(r) PROVE request' = request /\ Grown
    BY <2>4, SameGrows DEF LateDrops, SameTree, DirectoryInv
  <2>. QED
    BY <2>1, <2>2, <2>3, <2>4 DEF RemoteStep
<1>3. call[d].op \notin Changes => done'[d] = done[d]
  <2>1. ASSUME NEW c \in Callers, ServerCarries(c), Count(request[c]), call[d].op \notin Changes
        PROVE  done'[d] = done[d]
    BY <2>1, CountsItsOwn DEF ServerCarries, Reply, Pending
  <2>2. ASSUME NEW r \in late, Count(r), call[d].op \notin Changes PROVE done'[d] = done[d]
    BY <2>2, CountsItsOwn
  <2>. QED
    BY <2>1, <2>2 DEF RemoteStep, NotCounted
<1>4. pc[d] = "info" => TypeOf(request[d].id)' = TypeOf(request[d].id)
  <2>1. pc[d] = "info" => request[d].id \in {NoEntry} \cup Ids
    BY RequestsDiffer DEF DirectoryInv, CallsInv, CallInv, RequestInv
  <2>. QED
    BY <1>2, <2>1 DEF Grown, TypeOf
<1>5. \/ reply'[d] = reply[d]
      \/ /\ reply'[d].status = "ENOENT" => reply'[d].names = NoNames
         /\ call[d].op = "mkdir" /\ pc[d] = "main" /\ reply'[d].status = "ok" =>
              reply'[d].id # NoEntry \/ EmptyReplies
  <2>1. ASSUME NEW c \in Callers, ServerCarries(c), d = c,
               call[d].op = "mkdir", pc[d] = "main"
        PROVE  (reply'[d].id # NoEntry \/ EmptyReplies) /\ reply'[d].status = "ok"
    <3>1. request[c].op = "mkdir"
      BY <2>1, Waiting DEF ServerCarries, Reply, Pending
    <3>2. reply'[c].status = "ok" /\ (reply'[c].id = Answer(request[c]).id \/ EmptyReplies)
      BY <2>1, Replied, AnswerForms DEF ServerCarries
    <3>3. Len(kinds) + 1 # NoEntry
      BY NoNode DEF DirectoryInv, NoEntry
    <3>. QED
      BY <2>1, <3>1, <3>2, <3>3 DEF Answer
  <2>2. ASSUME NEW c \in Callers, ServerCarries(c), d = c PROVE reply'[d].status = "ok"
    BY <2>2, Replied, AnswerForms DEF ServerCarries
  <2>3. ASSUME NEW c \in Callers, ServerEmpty(c), d = c
        PROVE  reply'[d].status = "ok" /\ ~(call[d].op = "mkdir" /\ pc[d] = "main")
    <3>1. request[c].op = "lookup" /\ request[c] # NoRequest
      BY <2>3 DEF ServerEmpty, Reply, Pending
    <3>2. reply'[d].status = "ok"
      BY <2>3, Replied DEF ServerEmpty, Answer
    <3>. QED
      BY <2>3, <3>1, <3>2, Waiting
  <2>4. ASSUME NEW c \in Callers, ServerRefuses(c) \/ ServerFails(c) \/ Timeout(c), d = c
        PROVE  reply'[d].names = NoNames /\ reply'[d].status # "ok"
    BY <2>4 DEF ServerRefuses, ServerFails, Timeout, Reply, Failure, DirectoryInv, Domains
  <2>5. ASSUME NEW c \in Callers, d # c,
               ServerCarries(c) \/ ServerEmpty(c) \/ ServerRefuses(c) \/ ServerFails(c) \/ Timeout(c)
        PROVE  reply'[d] = reply[d]
    BY <2>5 DEF ServerCarries, ServerEmpty, ServerRefuses, ServerFails, Timeout, Reply, DirectoryInv, Domains
  <2>6. CASE \E r \in late : LateCarries(r) \/ LateDrops(r)
    BY <2>6 DEF LateCarries, LateDrops
  <2>7. ASSUME NEW c \in Callers,
               ServerCarries(c) \/ ServerEmpty(c) \/ ServerRefuses(c) \/ ServerFails(c) \/ Timeout(c)
        PROVE  \/ reply'[d] = reply[d]
               \/ /\ reply'[d].status = "ENOENT" => reply'[d].names = NoNames
                  /\ call[d].op = "mkdir" /\ pc[d] = "main" /\ reply'[d].status = "ok" =>
                       reply'[d].id # NoEntry \/ EmptyReplies
    BY <2>1, <2>2, <2>3, <2>4, <2>5, <2>7
  <2>. QED
    BY <2>6, <2>7 DEF RemoteStep
<1>. QED
  BY <1>1, <1>2, <1>3, <1>4, <1>5 DEF KeptInv, ToRoot, Ok

LEMMA StepKeepsKept ==
  ASSUME DirectoryInv, [Next]_vars, \A c \in Callers : KeptInv(c)
  PROVE  \A c \in Callers : KeptInv(c)'
<1>. SUFFICES ASSUME NEW d \in Callers PROVE KeptInv(d)'
  OBVIOUS
<1>1. ASSUME NEW c \in Callers, CallerStep(c) PROVE KeptInv(d)'
  BY <1>1, CallerKeepsKept
<1>2. CASE RemoteStep
  BY <1>2, RemoteKeepsKept
<1>3. CASE (\E n \in Nodes : CloseStep(n)) \/ UNCHANGED vars
  <2>1. SameTree /\ UNCHANGED <<rpcVars, callVars, histVars>>
    BY <1>3, CloseFrame DEF vars, SameTree
  <2>. QED
    BY <2>1, TreeStays DEF KeptInv, ToRoot, Ok, SameTree, treeVars, rpcVars, callVars, histVars
<1>. QED
  BY <1>1, <1>2, <1>3 DEF Next, Rest

AllKept == \A c \in Callers : KeptInv(c)

\* The pending changes of the operations.
Asked == late \cup {RequestOf(c) : c \in Undecided}

\* How often the change of an operation that has not returned has been carried out.
DoneNow(c) == IF pc[c] = "idle" THEN 0 ELSE done[c]

LEMMA Operations ==
  ASSUME DirectoryInv, NEW c \in Callers, KeptInv(c)
  PROVE  /\ pc[c] = "idle" => OperationOf(c) = NoCall
         /\ pc[c] # "idle" => /\ OperationOf(c).op = call[c].op /\ OperationOf(c) # NoCall
                              /\ OperationOf(c).caller = c /\ OperationOf(c).serial = serial[c]
         /\ pc[c] \in {"main", "find", "info"} \/ c \in Undecided => OperationOf(c) = RequestOf(c)
         /\ pc[c] = "list" => OperationOf(c) = ListOf(c)
         /\ c \in Undecided => pc[c] \in {"lock", "main"} /\ call[c].op \in Changes
<1>1. RequestInv(c)
  BY DEF DirectoryInv, CallsInv, CallInv
<1>2. pc[c] \in {"idle", "lock", "handle"} \cup HoldPCs \cup WaitPCs
  BY DEF DirectoryInv, TypeOK, CallsOK
<1>3. pc[c] = "lock" => call[c].op \notin {"none", "readdir"}
  BY <1>1 DEF RequestInv
<1>4. /\ pc[c] \in {"append", "store"} => call[c].op = "open"
      /\ pc[c] \in {"handle", "list"} => call[c].op = "readdir"
      /\ pc[c] \in {"main", "find", "info"} => call[c].op \in Changes \cup {"lookup"}
      /\ pc[c] \in {"find", "info"} => call[c].op \in {"create", "lookup"}
  BY <1>1 DEF RequestInv, Changes
<1>5. pc[c] \in {"main", "find", "info"} => ~AsksNothing(c)
  BY <1>4 DEF KeptInv, AsksNothing, ToRoot, Changes
<1>6. call[c].op = "readdir" => ~AsksNothing(c)
  BY DEF AsksNothing, ToRoot
<1>7. c \in Undecided => pc[c] \in {"lock", "main"} /\ call[c].op \in Changes /\ ~AsksNothing(c)
  BY DEF Undecided, AsksNothing, Changes
<1>8. pc[c] # "idle" => call[c].op # "none"
  BY <1>2, <1>3, <1>4 DEF HoldPCs, WaitPCs, Changes
<1>9. pc[c] # "idle" => /\ OperationOf(c).op = call[c].op
                        /\ OperationOf(c).caller = c /\ OperationOf(c).serial = serial[c]
  <2>1. CASE AsksNothing(c)
    <3>1. pc[c] # "idle" => OperationOf(c) = [op |-> call[c].op, caller |-> c, serial |-> serial[c]]
      BY <1>6, <2>1 DEF OperationOf
    <3>. QED
      BY <3>1
  <2>2. CASE ~AsksNothing(c) /\ call[c].op = "readdir"
    BY <2>2 DEF OperationOf, ListOf
  <2>3. CASE ~AsksNothing(c) /\ call[c].op # "readdir"
    BY <2>3, RequestsDiffer DEF OperationOf
  <2>. QED
    BY <2>1, <2>2, <2>3
<1>10. pc[c] # "idle" => OperationOf(c) # NoCall
  BY <1>8, <1>9 DEF NoCall
<1>11. pc[c] \in {"main", "find", "info"} \/ c \in Undecided => OperationOf(c) = RequestOf(c)
  BY <1>4, <1>5, <1>7 DEF OperationOf, Changes
<1>12. pc[c] = "list" => OperationOf(c) = ListOf(c)
  BY <1>4, <1>6 DEF OperationOf
<1>. QED
  BY <1>7, <1>9, <1>10, <1>11, <1>12 DEF OperationOf

\* A pending change is that of one operation at most.
LEMMA AskedOnce ==
  ASSUME DirectoryInv, AllKept, NEW r \in Asked
  PROVE  /\ r.caller \in Callers /\ r.op \in Changes
         /\ r.serial \in Nat /\ r.serial <= serial[r.caller] /\ r.serial <= calls
         /\ \A c \in Callers :
              OperationOf(c) = r <=> pc[c] # "idle" /\ r.caller = c /\ r.serial = serial[c]
<1>0. \A c \in Callers : serial[c] \in Nat /\ calls \in Nat /\ serial[c] <= calls
  BY NodesAssumption DEF DirectoryInv, TypeOK, CallsOK, Serials, NodesAssumption
<1>1. CASE r \in late
  <2>1. /\ r.caller \in Callers /\ r.op \in Changes /\ r.serial \in Nat /\ r.serial <= serial[r.caller]
        /\ r.serial = serial[r.caller] => r = RequestOf(r.caller) /\ GivenUp(r.caller)
    BY <1>1 DEF DirectoryInv, LateInv
  <2>2. ASSUME NEW c \in Callers, pc[c] # "idle", r.caller = c, r.serial = serial[c]
        PROVE  OperationOf(c) = r
    <3>1. pc[c] = "main" /\ r = RequestOf(c)
      BY <2>1, <2>2 DEF GivenUp
    <3>. QED
      BY <3>1, Operations DEF AllKept
  <2>3. ASSUME NEW c \in Callers, OperationOf(c) = r
        PROVE  pc[c] # "idle" /\ r.caller = c /\ r.serial = serial[c]
    <3>1. NoCall.op \notin Changes
      BY DEF NoCall, Changes
    <3>. QED
      BY <2>1, <2>3, <3>1, Operations DEF AllKept
  <2>. QED
    BY <1>0, <2>1, <2>2, <2>3
<1>2. CASE r \notin late
  <2>1. PICK d \in Undecided : r = RequestOf(d)
    BY <1>2 DEF Asked
  <2>2. d \in Callers
    BY DEF Undecided
  <2>3. /\ r.caller = d /\ r.serial = serial[d] /\ r.op = call[d].op /\ call[d].op \in Changes
        /\ pc[d] # "idle" /\ OperationOf(d) = r
    BY <2>1, <2>2, RequestsDiffer, Operations DEF AllKept
  <2>4. ASSUME NEW c \in Callers, OperationOf(c) = r
        PROVE  c = d
    <3>1. NoCall.op \notin Changes
      BY DEF NoCall, Changes
    <3>. QED
      BY <2>3, <2>4, <3>1, Operations DEF AllKept
  <2>. QED
    BY <1>0, <2>2, <2>3, <2>4
<1>. QED
  BY <1>1, <1>2

\* What a step leaves alone of an operation.
AsBefore(d) ==
  /\ OperationOf(d)' = OperationOf(d) /\ RequestOf(d)' = RequestOf(d)
  /\ d \in Undecided' <=> d \in Undecided
  /\ FoundBy(d)' = FoundBy(d) /\ DoneNow(d)' = DoneNow(d)

LEMMA UntouchedIsAsBefore == ASSUME NEW d \in Callers, Untouched(d) PROVE AsBefore(d)
<1>1. RequestOf(d)' = RequestOf(d) /\ ListOf(d)' = ListOf(d)
  BY DEF Untouched, RequestOf, ListOf
<1>2. ToRoot(d)' = ToRoot(d) /\ AsksNothing(d)' = AsksNothing(d)
  BY DEF Untouched, ToRoot, AsksNothing
<1>3. OperationOf(d)' = OperationOf(d)
  BY <1>1, <1>2 DEF Untouched, OperationOf
<1>4. d \in Undecided' <=> d \in Undecided
  BY <1>2 DEF Untouched, Undecided
<1>. QED
  BY <1>1, <1>3, <1>4 DEF AsBefore, Untouched, FoundBy, Got, DoneNow

LEMMA AskedStays ==
  ASSUME \A d \in Callers : RequestOf(d)' = RequestOf(d) /\ (d \in Undecided' <=> d \in Undecided), late' = late
  PROVE  Asked' = Asked
<1>1. Undecided \subseteq Callers /\ Undecided' \subseteq Callers
  BY DEF Undecided
<1>2. Undecided' = Undecided
  BY <1>1
<1>3. {RequestOf(c) : c \in Undecided}' = {RequestOf(c) : c \in Undecided}
  BY <1>1, <1>2
<1>. QED
  BY <1>3 DEF Asked

\* A step that leaves everything alone is none of AtomicTree.
LEMMA Stutters ==
  ASSUME SameTree, UNCHANGED <<late, outcome, result, listing>>, \A d \in Callers : AsBefore(d)
  PROVE  UNCHANGED Promise!promiseVars
<1>1. Asked' = Asked
  BY AskedStays DEF AsBefore
<1>. QED
  BY <1>1 DEF Promise!promiseVars, Promise!treeVars, Promise!answerVars, SameTree, treeVars, AsBefore, Asked, DoneNow

\* The operation of c returns with `how`, node id and listing l.
LEMMA ReturnMaps ==
  ASSUME DirectoryInv, AllKept, NEW c \in Callers, \A d \in Callers \ {c} : AsBefore(d),
         SameTree, late' = late, pc[c] # "idle", pc'[c] = "idle",
         NEW how, NEW id, NEW l,
         outcome' = [outcome EXCEPT ![c] = how], result' = [result EXCEPT ![c] = id],
         listing' = [listing EXCEPT ![c] = l],
         how = "timeout" => c \notin Undecided,
         how # "timeout" => ~GivenUp(c),
         IF how = "ok" THEN Promise!Returned(c, id, l) ELSE Promise!Failed(c, how)
  PROVE  Promise!Returns(c, outcome'[c], result'[c], listing'[c])
<1>1. DOMAIN outcome = Callers /\ DOMAIN result = Callers /\ DOMAIN listing = Callers
  BY DEF DirectoryInv, TypeOK, CallsOK
<1>2. outcome'[c] = how /\ result'[c] = id /\ listing'[c] = l
  BY <1>1
<1>3. OperationOf(c) # NoCall /\ OperationOf(c)' = NoCall /\ FoundBy(c)' = {} /\ DoneNow(c)' = 0 /\ c \notin Undecided'
  BY Operations DEF AllKept, OperationOf, FoundBy, DoneNow, Undecided
<1>4. Asked' = IF how = "timeout" THEN Asked ELSE Asked \ {OperationOf(c)}
  <2>1. Undecided' = Undecided \ {c} /\ \A d \in Undecided' : RequestOf(d)' = RequestOf(d)
    BY <1>3 DEF AsBefore, Undecided
  <2>2. Asked' = late \cup {RequestOf(d) : d \in Undecided \ {c}}
    BY <2>1 DEF Asked
  <2>3. CASE how = "timeout"
    BY <2>2, <2>3 DEF Asked
  <2>4. CASE how # "timeout"
    <3>1. ASSUME NEW r \in late PROVE r # OperationOf(c)
      <4>1. r.serial = serial[r.caller] => GivenUp(r.caller)
        BY DEF DirectoryInv, LateInv
      <4>. QED
        BY <2>4, <4>1, Operations DEF AllKept
    <3>2. ASSUME NEW d \in Undecided, d # c PROVE RequestOf(d) # OperationOf(c)
      BY <3>2, Operations, RequestsDiffer DEF AllKept, Undecided
    <3>3. c \in Undecided => RequestOf(c) = OperationOf(c)
      BY Operations DEF AllKept
    <3>. QED
      BY <2>2, <2>4, <3>1, <3>2, <3>3 DEF Asked
  <2>. QED
    BY <2>3, <2>4
<1>5. [d \in Callers |-> OperationOf(d)]' = [[d \in Callers |-> OperationOf(d)] EXCEPT ![c] = NoCall]
  <2>1. \A d \in Callers : OperationOf(d)' = IF d = c THEN NoCall ELSE OperationOf(d)
    BY <1>3 DEF AsBefore
  <2>. QED
    BY <2>1
<1>6. [d \in Callers |-> DoneNow(d)]' = [[d \in Callers |-> DoneNow(d)] EXCEPT ![c] = 0]
  BY <1>3 DEF AsBefore
<1>7. [d \in Callers |-> FoundBy(d)]' = [[d \in Callers |-> FoundBy(d)] EXCEPT ![c] = {}]
  BY <1>3 DEF AsBefore
<1>8. NoCall = Promise!NoOp
  BY DEF NoCall, Promise!NoOp
<1>. QED
  BY <1>2, <1>3, <1>4, <1>5, <1>6, <1>7, <1>8 DEF Promise!Returns, Promise!treeVars, SameTree, treeVars, Asked, DoneNow

LEMMA CallMaps ==
  ASSUME DirectoryInv, AllKept, NEW c \in Callers, Calls(c)
  PROVE  Promise!Calls(c)
<1>1. PICK q \in Requests, h \in 0..made : Call(c, q, h)
  BY DEF Calls
<1>2. CallerStep(c)
  BY <1>1 DEF CallerStep
<1>3. \A d \in Callers \ {c} : AsBefore(d)
  BY <1>2, CallerFrame, UntouchedIsAsBefore
<1>4. /\ pc[c] = "idle" /\ pc'[c] \in {"lock", "handle"} /\ serial'[c] = calls + 1 /\ call'[c] = q
      /\ pc'[c] = "handle" <=> q.op = "readdir"
      /\ done'[c] = 0 /\ late' = late /\ SameTree
      /\ outcome' = [outcome EXCEPT ![c] = "none"] /\ result' = [result EXCEPT ![c] = NoEntry]
      /\ listing' = [listing EXCEPT ![c] = NoListing]
  BY <1>1, CallerFrame DEF Call, Goto, SameTree, rpcVars, DirectoryInv, TypeOK, CallsOK, Domains, nodeVars
<1>5. OperationOf(c) = NoCall /\ FoundBy(c) = {} /\ FoundBy(c)' = {} /\ DoneNow(c) = 0 /\ DoneNow(c)' = 0
      /\ c \notin Undecided
  BY <1>4, Operations DEF AllKept, FoundBy, DoneNow, Undecided
<1>6. c \in Undecided' => OperationOf(c)' = RequestOf(c)' /\ OperationOf(c)'.op \in Changes
  <2>1. c \in Undecided' => /\ call'[c].op \in Changes /\ ~ToRoot(c)' /\ pc'[c] = "lock"
    BY <1>4 DEF Undecided
  <2>2. c \in Undecided' => OperationOf(c)' = RequestOf(c)'
    BY <2>1 DEF OperationOf, AsksNothing, Changes
  <2>3. RequestOf(c)'.op = call'[c].op
    BY DEF RequestOf
  <2>. QED
    BY <2>1, <2>2, <2>3
<1>7. OperationOf(c)'.caller = c /\ OperationOf(c)'.serial = calls + 1
  <2>1. CASE AsksNothing(c)'
    <3>1. pc'[c] # "idle" /\ call'[c].op # "readdir"
      BY <1>4, <2>1 DEF AsksNothing, ToRoot
    <3>2. OperationOf(c)' = [op |-> call'[c].op, caller |-> c, serial |-> serial'[c]]
      BY <2>1, <3>1 DEF OperationOf
    <3>. QED
      BY <1>4, <3>2
  <2>2. CASE ~AsksNothing(c)' /\ q.op = "readdir"
    BY <1>4, <2>2 DEF OperationOf, ListOf
  <2>3. CASE ~AsksNothing(c)' /\ q.op # "readdir"
    BY <1>4, <2>3 DEF OperationOf, RequestOf
  <2>. QED
    BY <2>1, <2>2, <2>3
<1>8. OperationOf(c)' \notin Asked
  <2>1. \A r \in Asked : r.serial \in Nat /\ r.serial <= calls
    BY AskedOnce
  <2>2. calls \in Nat
    BY NodesAssumption DEF DirectoryInv, TypeOK, CallsOK, NodesAssumption
  <2>. QED
    BY <1>7, <2>1, <2>2
<1>9. \/ Asked' = Asked
      \/ OperationOf(c)'.op \in Changes /\ Asked' = Asked \cup {OperationOf(c)'}
  <2>1. Undecided \subseteq Callers \ {c} /\ Undecided' \subseteq Callers
    BY <1>5 DEF Undecided
  <2>2. \A d \in Undecided : d \in Undecided' /\ RequestOf(d)' = RequestOf(d)
    BY <1>3, <2>1 DEF AsBefore
  <2>3. \A d \in Undecided' : d = c \/ d \in Undecided
    BY <1>3, <2>1 DEF AsBefore
  <2>4. CASE c \in Undecided'
    <3>1. Undecided' = Undecided \cup {c}
      BY <2>2, <2>3, <2>4
    <3>2. {RequestOf(d) : d \in Undecided}' = {RequestOf(d) : d \in Undecided} \cup {RequestOf(c)'}
      BY <2>2, <3>1
    <3>. QED
      BY <1>4, <1>6, <2>4, <3>2 DEF Asked
  <2>5. CASE c \notin Undecided'
    <3>1. Undecided' = Undecided
      BY <2>2, <2>3, <2>5
    <3>2. {RequestOf(d) : d \in Undecided}' = {RequestOf(d) : d \in Undecided}
      BY <2>2, <3>1
    <3>. QED
      BY <1>4, <3>2 DEF Asked
  <2>. QED
    BY <2>4, <2>5
<1>10. [d \in Callers |-> OperationOf(d)]' = [[d \in Callers |-> OperationOf(d)] EXCEPT ![c] = OperationOf(c)']
  BY <1>3 DEF AsBefore
<1>11. [d \in Callers |-> DoneNow(d)]' = [d \in Callers |-> DoneNow(d)]
       /\ [d \in Callers |-> FoundBy(d)]' = [d \in Callers |-> FoundBy(d)]
  BY <1>3, <1>5 DEF AsBefore
<1>12. NoCall = Promise!NoOp /\ NoListing = Promise!NoListing
  BY DEF NoCall, Promise!NoOp, NoListing, Promise!NoListing
<1>. QED
  BY <1>4, <1>5, <1>8, <1>9, <1>10, <1>11, <1>12
  DEF Promise!Calls, Promise!treeVars, SameTree, treeVars, Asked, DoneNow, Promise!Changes, Changes, Promise!NoEntry, NoEntry

LEMMA Successes ==
  ASSUME DirectoryInv, AllKept, NEW c \in Callers, pc[c] # "idle", NEW id, NEW l,
         call[c].op = "create" => done[c] = 1 /\ id # NoEntry /\ FoundBy(c) = {id},
         call[c].op = "mkdir" => done[c] = 1 /\ IF id = NoEntry THEN EmptyReplies ELSE FoundBy(c) = {id},
         call[c].op \in {"remove", "rename", "link"} => done[c] = 1,
         call[c].op = "lookup" => TypeOf(id) # "none" /\ FoundBy(c) = {id},
         call[c].op = "readdir" => \E s \in FoundBy(c) : l = [name \in Names |-> TypeOf(s[name])],
         call[c].op \in Changes \cup {"lookup", "readdir", "open"}
  PROVE  Promise!Returned(c, id, l)
<1>1. OperationOf(c).op = call[c].op
  BY Operations DEF AllKept
<1>2. \A i : Promise!TypeOf(i) = TypeOf(i)
  BY DEF Promise!TypeOf, TypeOf, Promise!NoEntry, NoEntry
<1>3. Promise!NoEntry = NoEntry
  BY DEF Promise!NoEntry, NoEntry
<1>. QED
  BY <1>1, <1>2, <1>3 DEF Promise!Returned, Changes

LEMMA Failures ==
  ASSUME DirectoryInv, AllKept, NEW c \in Callers, pc[c] # "idle", NEW how,
         how \in {"refused", "rejected"} => done[c] = 0,
         how = "ENOENT" => done[c] = 0 \/ call[c].op = "create",
         how = "error" => done[c] = 0 \/ call[c].op \in {"create", "mkdir"},
         how = "ENOENT" /\ call[c].op = "lookup" => \E id \in FoundBy(c) : TypeOf(id) = "none"
  PROVE  Promise!Failed(c, how)
<1>1. OperationOf(c).op = call[c].op
  BY Operations DEF AllKept
<1>2. \A i : Promise!TypeOf(i) = TypeOf(i)
  BY DEF Promise!TypeOf, TypeOf, Promise!NoEntry, NoEntry
<1>. QED
  BY <1>1, <1>2 DEF Promise!Failed

\* Return, with what ReturnMaps asks of it.
LEMMA ReturnStep ==
  ASSUME DirectoryInv, AllKept, NEW c \in Callers, CallerStep(c),
         NEW from \in {"lock", "handle"} \cup WaitPCs, NEW how, NEW id, Return(c, from, how, id),
         how = "timeout" => c \notin Undecided,
         how # "timeout" => ~GivenUp(c),
         IF how = "ok" THEN Promise!Returned(c, id, listing[c]) ELSE Promise!Failed(c, how)
  PROVE  Promise!PromiseNext
<1>1. SameTree /\ late' = late /\ \A d \in Callers \ {c} : AsBefore(d)
  BY CallerFrame, UntouchedIsAsBefore DEF SameTree
<1>2. /\ pc[c] # "idle" /\ pc'[c] = "idle"
      /\ outcome' = [outcome EXCEPT ![c] = how] /\ result' = [result EXCEPT ![c] = id]
      /\ listing' = listing
  BY DEF Return, End, Goto, WaitPCs, DirectoryInv, TypeOK, CallsOK
<1>3. listing' = [listing EXCEPT ![c] = listing[c]]
  BY <1>2 DEF DirectoryInv, TypeOK, CallsOK
<1>4. Promise!Returns(c, outcome'[c], result'[c], listing'[c])
  BY <1>1, <1>2, <1>3, ReturnMaps
<1>. QED
  BY <1>4 DEF Promise!PromiseNext

LEMMA RefusalMaps ==
  ASSUME DirectoryInv, AllKept, NEW c \in Callers, CallerStep(c),
         IsClosed(c) \/ Rejected(c) \/ NewFails(c) \/ HandleIsClosed(c)
  PROVE  Promise!PromiseNext
<1>1. PICK from \in {"lock", "handle"}, how \in {"refused", "rejected", "error"} :
        /\ pc[c] = from /\ Return(c, from, how, NoEntry)
        /\ how = "error" => call[c].op = "open"
  BY DEF IsClosed, Rejected, NewFails, HandleIsClosed, CanLock, Return, End, Goto
<1>2. KeptInv(c) /\ DoneInv(c) /\ RequestInv(c)
  BY DEF AllKept, DirectoryInv, CallsInv, CallInv
<1>3. done[c] = 0
  BY <1>1, <1>2 DEF KeptInv, DoneInv, RequestInv, Changes
<1>4. ~GivenUp(c)
  BY <1>1 DEF GivenUp
<1>5. Promise!Failed(c, how)
  BY <1>1, <1>3, Failures
<1>. QED
  BY <1>1, <1>4, <1>5, ReturnStep

LEMMA ErrorMaps ==
  ASSUME DirectoryInv, AllKept, NEW c \in Callers, CallerStep(c), NEW from \in WaitPCs, Error(c, from)
  PROVE  Promise!PromiseNext
<1>. DEFINE how == reply[c].status
<1>1. pc[c] = from /\ how \in {"ENOENT", "error", "timeout"} /\ Return(c, from, how, NoEntry) /\ reply[c] # NoReply
  BY Replies DEF Error, Return, End, Goto, Status
<1>2. KeptInv(c) /\ DoneInv(c) /\ RequestInv(c) /\ InfoInv(c)
  BY DEF AllKept, DirectoryInv, CallsInv, CallInv
<1>3. how \in {"ENOENT", "error"} => done[c] = 0 \/ call[c].op = "create"
  BY <1>1, <1>2 DEF KeptInv, DoneInv, RequestInv, Changes, WaitPCs
<1>4. how = "ENOENT" /\ call[c].op = "lookup" => \E id \in FoundBy(c) : TypeOf(id) = "none"
  <2>1. ASSUME how = "ENOENT", call[c].op = "lookup" PROVE FoundBy(c) = {NoEntry}
    <3>1. CASE pc[c] = "main"
      BY <2>1, <3>1 DEF FoundBy
    <3>2. CASE pc[c] = "info"
      BY <2>1, <3>2 DEF FoundBy
    <3>. QED
      BY <1>1, <1>2, <2>1, <3>1, <3>2 DEF RequestInv, WaitPCs
  <2>2. TypeOf(NoEntry) = "none"
    BY DEF TypeOf
  <2>. QED
    BY <2>1, <2>2
<1>5. Promise!Failed(c, how) /\ how # "ok"
  BY <1>1, <1>3, <1>4, Failures DEF WaitPCs
<1>6. how = "timeout" => c \notin Undecided
  BY <1>1 DEF Undecided, WaitPCs
<1>7. how # "timeout" => ~GivenUp(c)
  BY <1>1 DEF GivenUp, WaitPCs
<1>. QED
  BY <1>1, <1>5, <1>6, <1>7, ReturnStep

LEMMA SuccessMaps ==
  ASSUME DirectoryInv, AllKept, NEW c \in Callers, CallerStep(c),
         ChangeDone(c) \/ LookupDone(c) \/ InfoDone(c)
  PROVE  Promise!PromiseNext
<1>1. PICK from \in {"main", "info"} : pc[c] = from /\ Return(c, from, "ok", Got(c)) /\ Ok(c)
  BY DEF ChangeDone, LookupDone, InfoDone, Return, End, Goto
<1>2. KeptInv(c) /\ DoneInv(c) /\ RequestInv(c) /\ InfoInv(c) /\ Got(c) \in {NoEntry} \cup Ids
  BY <1>1, Replies DEF AllKept, DirectoryInv, CallsInv, CallInv, Ok, Got
<1>3. ~GivenUp(c)
  BY <1>1 DEF GivenUp, Ok
<1>4. Promise!Returned(c, Got(c), listing[c])
  <2>1. CASE ChangeDone(c)
    <3>1. pc[c] = "main" /\ call[c].op \in Changes \ {"create"} /\ done[c] = 1
      BY <1>1, <1>2, <2>1 DEF ChangeDone, Return, End, Goto, DoneInv
    <3>2. call[c].op = "mkdir" => IF Got(c) = NoEntry THEN EmptyReplies ELSE FoundBy(c) = {Got(c)}
      BY <1>1, <1>2, <3>1 DEF KeptInv, FoundBy, Ok, Got
    <3>. QED
      BY <3>1, <3>2, Successes DEF Changes
  <2>2. CASE LookupDone(c)
    <3>1. pc[c] = "main" /\ call[c].op = "lookup"
      BY <1>2, <2>2 DEF LookupDone, Return, End, Goto, RequestInv, Reads, Changes
    <3>2. TypeOf(Got(c)) # "none"
      BY <2>2 DEF LookupDone, KindOf, TypeOf
    <3>3. FoundBy(c) = {Got(c)}
      BY <1>1, <3>1 DEF FoundBy, Ok, Got
    <3>. QED
      BY <3>1, <3>2, <3>3, Successes
  <2>3. CASE InfoDone(c)
    <3>1. pc[c] = "info" /\ call[c].op \in {"create", "lookup"}
      BY <1>2, <2>3 DEF InfoDone, Return, End, Goto, RequestInv
    <3>2. Got(c) = request[c].id /\ Got(c) \in Ids /\ Got(c) # NoEntry /\ FoundBy(c) = {Got(c)}
      BY <1>1, <1>2, <3>1, NoNode DEF InfoInv, Got, Ok, FoundBy, DirectoryInv
    <3>3. call[c].op = "create" => done[c] = 1
      BY <1>2, <3>1 DEF DoneInv
    <3>4. call[c].op = "lookup" => TypeOf(Got(c)) # "none"
      BY <1>2, <3>1, <3>2 DEF KeptInv
    <3>. QED
      BY <3>1, <3>2, <3>3, <3>4, Successes DEF Changes
  <2>. QED
    BY <2>1, <2>2, <2>3
<1>. QED
  BY <1>1, <1>3, <1>4, ReturnStep DEF WaitPCs

LEMMA LateFailureMaps ==
  ASSUME DirectoryInv, AllKept, NEW c \in Callers, CallerStep(c),
         NewNodeFails(c) \/ LookupUnknown(c) \/ OpenFails(c)
  PROVE  Promise!PromiseNext
<1>1. PICK from \in {"main", "info"}, how \in {"ENOENT", "error"} :
        /\ pc[c] = from /\ Return(c, from, how, NoEntry) /\ Ok(c)
        /\ how = "ENOENT" => LookupUnknown(c) /\ from = "main"
        /\ how = "error" => call[c].op \in {"create", "mkdir", "lookup"}
  BY DEF NewNodeFails, LookupUnknown, OpenFails, Return, End, Goto
<1>2. KeptInv(c) /\ RequestInv(c)
  BY DEF AllKept, DirectoryInv, CallsInv, CallInv
<1>3. ~GivenUp(c)
  BY <1>1 DEF GivenUp, Ok
<1>4. ASSUME how = "ENOENT"
      PROVE  /\ call[c].op = "lookup" /\ done[c] = 0
             /\ \E id \in FoundBy(c) : TypeOf(id) = "none"
  <2>1. call[c].op = "lookup" /\ done[c] = 0
    BY <1>1, <1>2, <1>4 DEF LookupUnknown, Reads, RequestInv, KeptInv, Changes
  <2>2. FoundBy(c) = {Got(c)}
    BY <1>1, <1>4, <2>1 DEF FoundBy, Ok, Got
  <2>3. TypeOf(Got(c)) = "none"
    BY <1>1, <1>4 DEF LookupUnknown, KindOf, TypeOf
  <2>. QED
    BY <2>1, <2>2, <2>3
<1>5. Promise!Failed(c, how)
  <2>1. call[c].op = "lookup" => done[c] = 0
    BY <1>2 DEF KeptInv, Changes
  <2>. QED
    BY <1>1, <1>4, <2>1, Failures
<1>. QED
  BY <1>1, <1>3, <1>5, ReturnStep DEF WaitPCs

LEMMA ListingMaps ==
  ASSUME DirectoryInv, AllKept, NEW c \in Callers, CallerStep(c), ListDone(c) \/ ListGone(c)
  PROVE  Promise!PromiseNext
<1>. DEFINE l == [name \in Names |-> TypeOf(reply[c].names[name])]
<1>1. KeptInv(c) /\ RequestInv(c) /\ pc[c] = "list"
  BY DEF AllKept, DirectoryInv, CallsInv, CallInv, ListDone, ListGone, Lists, End, Goto
<1>2. Lists(c, l)
  <2>1. CASE ListDone(c)
    BY <2>1 DEF ListDone
  <2>2. CASE ListGone(c)
    <3>1. reply[c].names = NoNames
      BY <1>1, <2>2 DEF KeptInv, ListGone
    <3>2. l = NoListing
      BY <3>1 DEF NoNames, NoListing, TypeOf
    <3>. QED
      BY <2>2, <3>2 DEF ListGone
  <2>. QED
    BY <2>1, <2>2
<1>3. FoundBy(c) = {reply[c].names}
  BY <1>1 DEF FoundBy, ListDone, ListGone, Ok
<1>4. call[c].op = "readdir" /\ pc[c] # "idle"
  BY <1>1 DEF RequestInv
<1>5. Promise!Returned(c, NoEntry, l)
  <2>1. \E s \in FoundBy(c) : l = [name \in Names |-> TypeOf(s[name])]
    BY <1>3
  <2>. QED
    BY <1>4, <2>1, Successes
<1>6. SameTree /\ late' = late /\ \A d \in Callers \ {c} : AsBefore(d)
  BY CallerFrame, UntouchedIsAsBefore DEF SameTree
<1>7. /\ pc'[c] = "idle" /\ outcome' = [outcome EXCEPT ![c] = "ok"]
      /\ result' = [result EXCEPT ![c] = NoEntry] /\ listing' = [listing EXCEPT ![c] = l]
  BY <1>2 DEF Lists, End, Goto, DirectoryInv, TypeOK, CallsOK
<1>8. ~GivenUp(c)
  BY <1>1 DEF GivenUp
<1>9. Promise!Returns(c, outcome'[c], result'[c], listing'[c])
  BY <1>4, <1>5, <1>6, <1>7, <1>8, ReturnMaps
<1>. QED
  BY <1>9 DEF Promise!PromiseNext

LEMMA OpenMaps ==
  ASSUME DirectoryInv, AllKept, NEW c \in Callers, CallerStep(c), Opens(c)
  PROVE  Promise!PromiseNext
<1>1. SameTree /\ late' = late /\ \A d \in Callers \ {c} : AsBefore(d)
  BY CallerFrame, UntouchedIsAsBefore DEF SameTree
<1>2. call[c].op = "open"
  BY DEF Opens, NewHandle, AppendLoad, AppendStore, End, Goto, DirectoryInv, CallsInv, CallInv, RequestInv
<1>3. CASE NewHandle(c) \/ AppendLoad(c)
  <2>1. /\ UNCHANGED <<call, serial, done, outcome, result, listing, rpcVars>>
        /\ pc[c] \in {"lock", "append"} /\ pc'[c] \in {"append", "store"}
    BY <1>3 DEF NewHandle, AppendLoad, CanLock, Goto, DirectoryInv, TypeOK, CallsOK, histVars
  <2>2. RequestOf(c)' = RequestOf(c)
    BY <2>1, SameRequests
  <2>3. OperationOf(c)' = OperationOf(c)
    BY <1>2, <2>1 DEF OperationOf, AsksNothing
  <2>4. c \notin Undecided /\ c \notin Undecided' /\ FoundBy(c) = {} /\ FoundBy(c)' = {}
    BY <1>2, <2>1 DEF Undecided, FoundBy, Changes
  <2>5. AsBefore(c)
    BY <2>1, <2>2, <2>3, <2>4 DEF AsBefore, DoneNow
  <2>6. UNCHANGED Promise!promiseVars
    BY <1>1, <2>1, <2>5, Stutters
  <2>. QED
    BY <2>6 DEF Promise!PromiseNext
<1>4. CASE AppendStore(c)
  <2>1. /\ pc[c] = "store" /\ pc'[c] = "idle" /\ outcome' = [outcome EXCEPT ![c] = "ok"]
        /\ result' = [result EXCEPT ![c] = NoEntry] /\ listing' = listing
    BY <1>4 DEF AppendStore, End, Goto, DirectoryInv, TypeOK, CallsOK
  <2>2. listing' = [listing EXCEPT ![c] = listing[c]]
    BY <2>1 DEF DirectoryInv, TypeOK, CallsOK
  <2>3. ~GivenUp(c)
    BY <2>1 DEF GivenUp
  <2>4. Promise!Returned(c, NoEntry, listing[c])
    BY <1>2, <2>1, Successes
  <2>5. Promise!Returns(c, outcome'[c], result'[c], listing'[c])
    BY <1>1, <2>1, <2>2, <2>3, <2>4, ReturnMaps
  <2>. QED
    BY <2>5 DEF Promise!PromiseNext
<1>. QED
  BY <1>3, <1>4 DEF Opens

\* The requests after the first are part of the operation, and none of
\* AtomicTree's steps.
LEMMA AskMaps ==
  ASSUME DirectoryInv, AllKept, NEW c \in Callers, CallerStep(c),
         Begin(c) \/ ListBegin(c) \/ LookupFile(c) \/ CreateDone(c) \/ Found(c)
  PROVE  Promise!PromiseNext
<1>1. SameTree /\ late' = late /\ \A d \in Callers \ {c} : AsBefore(d)
  BY CallerFrame, UntouchedIsAsBefore DEF SameTree
<1>2. /\ UNCHANGED <<call, serial, done, outcome, result, listing>>
      /\ reply'[c] = NoReply /\ NoReply.status = "none"
  BY DEF Begin, ListBegin, LookupFile, CreateDone, Found, Ask, Send, listVars, histVars, DirectoryInv, Domains, NoReply
<1>3. RequestOf(c)' = RequestOf(c) /\ ListOf(c)' = ListOf(c) /\ ToRoot(c)' = ToRoot(c) /\ AsksNothing(c)' = AsksNothing(c)
  BY <1>2, SameRequests DEF ToRoot, AsksNothing
<1>4. RequestInv(c)
  BY DEF DirectoryInv, CallsInv, CallInv
<1>5. pc[c] # "idle" /\ pc'[c] # "idle" /\ OperationOf(c)' = OperationOf(c) /\ DoneNow(c)' = DoneNow(c)
  <2>1. pc[c] # "idle" /\ pc'[c] # "idle"
    BY DEF Begin, ListBegin, LookupFile, CreateDone, Found, Ask, Goto, DirectoryInv, TypeOK, CallsOK
  <2>. QED
    BY <1>2, <1>3, <2>1 DEF OperationOf, DoneNow
<1>6. (c \in Undecided' <=> c \in Undecided) /\ FoundBy(c)' = FoundBy(c)
  <2>1. CASE Begin(c)
    <3>1. pc[c] = "lock" /\ pc'[c] = "main"
      BY <2>1 DEF Begin, Ask, Goto, DirectoryInv, TypeOK, CallsOK
    <3>. QED
      BY <1>2, <1>3, <3>1 DEF Undecided, FoundBy
  <2>2. CASE ListBegin(c)
    <3>1. pc[c] = "handle" /\ pc'[c] = "list"
      BY <2>2 DEF ListBegin, Ask, Goto, DirectoryInv, TypeOK, CallsOK
    <3>. QED
      BY <1>2, <1>3, <3>1 DEF Undecided, FoundBy
  <2>3. CASE LookupFile(c)
    <3>1. pc[c] = "main" /\ pc'[c] = "info" /\ call[c].op = "lookup" /\ Ok(c)
      BY <1>4, <2>3 DEF LookupFile, Reads, RequestInv, Changes, Ask, Goto, DirectoryInv, TypeOK, CallsOK
    <3>2. request'[c].id = Got(c)
      BY <2>3, RequestsDiffer DEF LookupFile, Ask, Send, DirectoryInv, Domains
    <3>3. FoundBy(c) = {Got(c)} /\ FoundBy(c)' = {Got(c)}
      BY <1>2, <3>1, <3>2 DEF FoundBy, Ok
    <3>4. c \notin Undecided /\ c \notin Undecided'
      BY <1>2, <3>1 DEF Undecided, Changes
    <3>. QED
      BY <3>3, <3>4
  <2>4. CASE CreateDone(c)
    <3>1. pc[c] = "main" /\ pc'[c] = "find" /\ call[c].op = "create" /\ Ok(c)
      BY <2>4 DEF CreateDone, Ask, Goto, DirectoryInv, TypeOK, CallsOK
    <3>2. reply[c] # NoReply
      BY <1>2, <3>1 DEF Ok
    <3>3. FoundBy(c) = {} /\ FoundBy(c)' = {}
      BY <1>2, <3>1 DEF FoundBy, Ok
    <3>4. c \notin Undecided /\ c \notin Undecided'
      BY <1>2, <3>1, <3>2 DEF Undecided
    <3>. QED
      BY <3>3, <3>4
  <2>5. CASE Found(c)
    <3>1. pc[c] = "find" /\ pc'[c] = "info" /\ Ok(c)
      BY <2>5 DEF Found, Ask, Goto, DirectoryInv, TypeOK, CallsOK
    <3>2. request'[c].id = Got(c)
      BY <2>5, RequestsDiffer DEF Found, Ask, Send, DirectoryInv, Domains
    <3>3. FoundBy(c) = {Got(c)} /\ FoundBy(c)' = {Got(c)}
      BY <1>2, <3>1, <3>2 DEF FoundBy, Ok
    <3>4. c \notin Undecided /\ c \notin Undecided'
      BY <3>1 DEF Undecided
    <3>. QED
      BY <3>3, <3>4
  <2>. QED
    BY <2>1, <2>2, <2>3, <2>4, <2>5
<1>7. AsBefore(c)
  BY <1>3, <1>5, <1>6 DEF AsBefore
<1>8. UNCHANGED Promise!promiseVars
  BY <1>1, <1>2, <1>7, Stutters
<1>. QED
  BY <1>8 DEF Promise!PromiseNext

LEMMA CallerMaps ==
  ASSUME DirectoryInv, AllKept, NEW c \in Callers, CallerStep(c)
  PROVE  Promise!PromiseNext
<1>1. CASE Calls(c)
  BY <1>1, CallMaps DEF Promise!PromiseNext
<1>2. CASE MainFails(c) \/ FindFails(c) \/ InfoFails(c) \/ ListFails(c)
  BY <1>2, ErrorMaps DEF MainFails, FindFails, InfoFails, ListFails, WaitPCs
<1>3. CASE IsClosed(c) \/ Rejected(c) \/ NewFails(c) \/ HandleIsClosed(c)
  BY <1>3, RefusalMaps
<1>4. CASE ChangeDone(c) \/ LookupDone(c) \/ InfoDone(c)
  BY <1>4, SuccessMaps
<1>5. CASE NewNodeFails(c) \/ LookupUnknown(c) \/ OpenFails(c)
  BY <1>5, LateFailureMaps
<1>6. CASE ListDone(c) \/ ListGone(c)
  BY <1>6, ListingMaps
<1>7. CASE Opens(c)
  BY <1>7, OpenMaps
<1>8. CASE Begin(c) \/ ListBegin(c) \/ LookupFile(c) \/ CreateDone(c) \/ Found(c)
  BY <1>8, AskMaps
<1>. QED
  BY <1>1, <1>2, <1>3, <1>4, <1>5, <1>6, <1>7, <1>8 DEF CallerStep, Calls, Opens

-----------------------------------------------------------------------------
(* The steps of the file server as AtomicTree has them. *)

\* The definitions of FileTree are those of AtomicTree.
LEMMA TreesAgree ==
  /\ Promise!treeVars = treeVars /\ Promise!Changes = Changes /\ Promise!NoEntry = NoEntry
  /\ \A r : Promise!At(r) = At(r) /\ Promise!To(r) = To(r)
  /\ \A r : Promise!Accepts(r) <=> Accepts(r)
  /\ \A r : Promise!Carry(r) <=> Carry(r)
  /\ \A d : Promise!Alive(d) <=> Alive(d)
  /\ \A p : Promise!Held(p) = Held(p)
  /\ \A id : Promise!Reached(id) <=> Reached(id)
<1>1. /\ Promise!treeVars = treeVars /\ Promise!Changes = Changes /\ Promise!NoEntry = NoEntry
      /\ Promise!Ids = Ids
  BY DEF Promise!treeVars, treeVars, Promise!Changes, Changes, Promise!NoEntry, NoEntry, Promise!Ids, Ids
<1>2. \A r : Promise!At(r) = At(r) /\ Promise!To(r) = To(r)
  BY DEF Promise!At, At, Promise!To, To
<1>3. \A d : Promise!Alive(d) <=> Alive(d)
  BY DEF Promise!Alive, Alive
<1>4. \A r : Promise!Accepts(r) <=> Accepts(r)
  BY <1>1, <1>2, <1>3 DEF Promise!Accepts, Accepts
<1>5. \A r : Promise!Carry(r) <=> Carry(r)
  BY DEF Promise!Carry, Carry, Promise!At, At, Promise!To, To, Promise!treeVars, treeVars, Promise!NoEntry, NoEntry
<1>6. \A p : Promise!Held(p) = Held(p)
  BY <1>1, <1>3 DEF Promise!Held, Held
<1>7. \A id : Promise!Reached(id) <=> Reached(id)
  BY <1>6 DEF Promise!Reached, Reached
<1>. QED
  BY <1>1, <1>2, <1>3, <1>4, <1>5, <1>6, <1>7

\* A step of the file server leaves the operations alone, but for the answer of one.
LEMMA RemoteFrame ==
  ASSUME DirectoryInv, NEW looking, Look(looking)
  PROVE  /\ UNCHANGED <<pc, call, serial, outcome, result, listing>>
         /\ \A d \in Callers : OperationOf(d)' = OperationOf(d) /\ RequestOf(d)' = RequestOf(d)
         /\ \A d \in Callers : reply'[d] = reply[d] /\ request'[d] = request[d] =>
              FoundBy(d)' = FoundBy(d) /\ (d \in Undecided' <=> d \in Undecided)
<1>1. UNCHANGED <<pc, call, serial, outcome, result, listing>>
  BY LookFrame DEF callVars, listVars
<1>2. \A d : /\ RequestOf(d)' = RequestOf(d) /\ ListOf(d)' = ListOf(d)
             /\ ToRoot(d)' = ToRoot(d) /\ AsksNothing(d)' = AsksNothing(d)
  BY <1>1, SameRequests DEF ToRoot, AsksNothing
<1>3. \A d \in Callers : OperationOf(d)' = OperationOf(d)
  BY <1>1, <1>2 DEF OperationOf
<1>4. ASSUME NEW d \in Callers, reply'[d] = reply[d], request'[d] = request[d]
      PROVE  FoundBy(d)' = FoundBy(d) /\ (d \in Undecided' <=> d \in Undecided)
  BY <1>1, <1>2, <1>4 DEF FoundBy, Undecided, Got
<1>. QED
  BY <1>1, <1>2, <1>3, <1>4

LEMMA CountMaps ==
  ASSUME DirectoryInv, AllKept, NEW r \in Asked, Count(r), UNCHANGED pc
  PROVE  \A d \in Callers : DoneNow(d)' = IF OperationOf(d) = r THEN DoneNow(d) + 1 ELSE DoneNow(d)
BY AskedOnce, CountFrame DEF DoneNow

LEMMA NotCountedMaps ==
  ASSUME DirectoryInv, AllKept, NEW r, r.op \notin Changes, Count(r), UNCHANGED pc
  PROVE  \A d \in Callers : DoneNow(d)' = DoneNow(d)
BY CountFrame DEF DoneNow

\* A change takes effect, and its caller has the answer or has left.
LEMMA EffectMaps ==
  ASSUME DirectoryInv, AllKept, NEW r \in Asked, Accepts(r), Carry(r), Count(r), NEW looking, Look(looking),
         Asked' = Asked \ {r},
         \/ \A d \in Callers : FoundBy(d)' = FoundBy(d)
         \/ r.op = "mkdir" /\ \E c \in Callers :
              /\ OperationOf(c) = r
              /\ \A d \in Callers : FoundBy(d)' = IF d = c THEN {Len(kinds) + 1} ELSE FoundBy(d)
  PROVE  Promise!PromiseNext
<1>1. /\ UNCHANGED <<pc, outcome, result, listing>>
      /\ \A d \in Callers : OperationOf(d)' = OperationOf(d)
  BY RemoteFrame
<1>2. \A d \in Callers : DoneNow(d)' = IF OperationOf(d) = r THEN DoneNow(d) + 1 ELSE DoneNow(d)
  BY <1>1, CountMaps
<1>3. [d \in Callers |-> OperationOf(d)]' = [d \in Callers |-> OperationOf(d)]
  BY <1>1
<1>4. \/ [d \in Callers |-> FoundBy(d)]' = [d \in Callers |-> FoundBy(d)]
      \/ r.op = "mkdir" /\ \E c \in Callers :
           /\ OperationOf(c) = r
           /\ [d \in Callers |-> FoundBy(d)]' = [[d \in Callers |-> FoundBy(d)] EXCEPT ![c] = {Len(kinds) + 1}]
  <2>1. CASE \A d \in Callers : FoundBy(d)' = FoundBy(d)
    BY <2>1
  <2>2. ASSUME NEW c \in Callers, \A d \in Callers : FoundBy(d)' = IF d = c THEN {Len(kinds) + 1} ELSE FoundBy(d)
        PROVE  [d \in Callers |-> FoundBy(d)]' = [[d \in Callers |-> FoundBy(d)] EXCEPT ![c] = {Len(kinds) + 1}]
    BY <2>2
  <2>. QED
    BY <2>1, <2>2
<1>5. [d \in Callers |-> DoneNow(d)]'
        = [d \in Callers |-> IF [e \in Callers |-> OperationOf(e)][d] = r
                             THEN [e \in Callers |-> DoneNow(e)][d] + 1 ELSE [e \in Callers |-> DoneNow(e)][d]]
  BY <1>2
<1>6. Promise!Accepts(r) /\ Promise!Carry(r)
  BY TreesAgree
<1>7. Promise!TakesEffect(r)
  BY <1>1, <1>3, <1>4, <1>5, <1>6 DEF Promise!TakesEffect, Promise!answerVars, Asked, DoneNow
<1>. QED
  BY <1>7 DEF Promise!PromiseNext, Asked

LEMMA DropMaps ==
  ASSUME DirectoryInv, AllKept, NEW r \in Asked, SameTree, NotCounted, NEW looking, Look(looking),
         Asked' = Asked \ {r}, \A d \in Callers : FoundBy(d)' = FoundBy(d)
  PROVE  Promise!PromiseNext
<1>1. /\ UNCHANGED <<pc, outcome, result, listing>>
      /\ \A d \in Callers : OperationOf(d)' = OperationOf(d) /\ DoneNow(d)' = DoneNow(d)
  BY RemoteFrame DEF NotCounted, DoneNow
<1>2. Promise!treeVars' = Promise!treeVars
  BY DEF Promise!treeVars, SameTree, treeVars
<1>3. Promise!Drops(r)
  BY <1>1, <1>2 DEF Promise!Drops, Promise!answerVars, Asked, DoneNow
<1>. QED
  BY <1>3 DEF Promise!PromiseNext, Asked

\* Caller c is told what is there, or forgets it.
LEMMA LookMaps ==
  ASSUME DirectoryInv, AllKept, NEW c \in Callers, SameTree, NEW looking, Look(looking),
         \A d \in Callers : DoneNow(d)' = DoneNow(d), Asked' = Asked,
         \A d \in Callers \ {c} : FoundBy(d)' = FoundBy(d),
         \/ FoundBy(c)' = {}
         \/ /\ (pc[c] = "main" /\ call[c].op = "lookup") \/ pc[c] = "find"
            /\ FoundBy(c)' = {Promise!Held(Place(c, call[c].name))}
         \/ /\ pc[c] = "list"
            /\ FoundBy(c)' = {[name \in Names |-> Promise!Held(Place(c, name))]}
  PROVE  Promise!PromiseNext
<1>1. /\ UNCHANGED <<pc, outcome, result, listing>>
      /\ \A d \in Callers : OperationOf(d)' = OperationOf(d)
  BY RemoteFrame
<1>2. [d \in Callers |-> FoundBy(d)]' = [[d \in Callers |-> FoundBy(d)] EXCEPT ![c] = FoundBy(c)']
  OBVIOUS
<1>3. Promise!treeVars' = Promise!treeVars
  BY DEF Promise!treeVars, SameTree, treeVars
<1>4. /\ [d \in Callers |-> OperationOf(d)]' = [d \in Callers |-> OperationOf(d)]
      /\ [d \in Callers |-> DoneNow(d)]' = [d \in Callers |-> DoneNow(d)]
  BY <1>1
<1>5. RequestInv(c) /\ DoneInv(c)
  BY DEF DirectoryInv, CallsInv, CallInv
<1>6. CASE FoundBy(c)' = {}
  <2>1. Promise!Forgets(c)
    BY <1>1, <1>2, <1>3, <1>4, <1>6 DEF Promise!Forgets, Promise!answerVars, Asked, DoneNow
  <2>. QED
    BY <2>1 DEF Promise!PromiseNext
<1>7. CASE /\ (pc[c] = "main" /\ call[c].op = "lookup") \/ pc[c] = "find"
           /\ FoundBy(c)' = {Promise!Held(Place(c, call[c].name))}
  <2>1. OperationOf(c) = RequestOf(c)
    BY <1>7, Operations DEF AllKept
  <2>2. OperationOf(c).op = "lookup" \/ (OperationOf(c).op = "create" /\ DoneNow(c) = 1)
    BY <1>5, <1>7, <2>1, RequestsDiffer DEF RequestInv, DoneInv, DoneNow
  <2>3. Promise!At(OperationOf(c)) = Place(c, call[c].name)
    BY <2>1, RequestsDiffer, TreesAgree DEF Place
  <2>4. Promise!Looks(c)
    BY <1>1, <1>2, <1>3, <1>4, <1>7, <2>2, <2>3 DEF Promise!Looks, Promise!answerVars, Asked, DoneNow
  <2>. QED
    BY <2>4 DEF Promise!PromiseNext
<1>8. CASE /\ pc[c] = "list"
           /\ FoundBy(c)' = {[name \in Names |-> Promise!Held(Place(c, name))]}
  <2>1. OperationOf(c) = ListOf(c)
    BY <1>8, Operations DEF AllKept
  <2>2. OperationOf(c).op = "readdir" /\ OperationOf(c).dir = DirectoryOf[call[c].node]
    BY <2>1, RequestsDiffer
  <2>3. FoundBy(c)' = {[name \in Names |-> Promise!Held(<<OperationOf(c).dir, name>>)]}
    BY <1>8, <2>2 DEF Place
  <2>5. [d \in Callers |-> OperationOf(d)][c] = OperationOf(c)
    OBVIOUS
  <2>6. [d \in Callers |-> FoundBy(d)]' = [[d \in Callers |-> FoundBy(d)] EXCEPT ![c] =
           {[name \in Names |-> Promise!Held(<<[d \in Callers |-> OperationOf(d)][c].dir, name>>)]}]
    BY <1>2, <2>3, <2>5
  <2>7. UNCHANGED <<Promise!treeVars, [d \in Callers |-> OperationOf(d)], Asked,
                    [d \in Callers |-> DoneNow(d)], Promise!answerVars>>
    BY <1>1, <1>3, <1>4 DEF Promise!answerVars
  <2>4. Promise!Looks(c)
    BY <2>2, <2>5, <2>6, <2>7 DEF Promise!Looks, Asked, DoneNow
  <2>. QED
    BY <2>4 DEF Promise!PromiseNext
<1>. QED
  BY <1>6, <1>7, <1>8

\* Caller c is told that what it has found is no longer there.
LEMMA MissMaps ==
  ASSUME DirectoryInv, AllKept, NEW c \in Callers, pc[c] = "info", SameTree, NEW looking, Look(looking),
         \A d \in Callers : DoneNow(d)' = DoneNow(d), Asked' = Asked,
         \A d \in Callers \ {c} : FoundBy(d)' = FoundBy(d),
         NEW id \in FoundBy(c), ~Reached(id), FoundBy(c)' = {NoEntry}
  PROVE  Promise!PromiseNext
<1>1. /\ UNCHANGED <<pc, outcome, result, listing>>
      /\ \A d \in Callers : OperationOf(d)' = OperationOf(d)
  BY RemoteFrame
<1>2. [d \in Callers |-> FoundBy(d)]' = [[d \in Callers |-> FoundBy(d)] EXCEPT ![c] = {Promise!NoEntry}]
  BY TreesAgree
<1>3. Promise!treeVars' = Promise!treeVars
  BY DEF Promise!treeVars, SameTree, treeVars
<1>4. /\ [d \in Callers |-> OperationOf(d)]' = [d \in Callers |-> OperationOf(d)]
      /\ [d \in Callers |-> DoneNow(d)]' = [d \in Callers |-> DoneNow(d)]
  BY <1>1
<1>5. OperationOf(c).op \in {"create", "lookup"}
  <2>1. call[c].op \in {"create", "lookup"}
    BY DEF DirectoryInv, CallsInv, CallInv, RequestInv
  <2>. QED
    BY <2>1, Operations DEF AllKept
<1>6. \E i \in FoundBy(c) : ~Promise!Reached(i)
  BY TreesAgree
<1>7. Promise!Misses(c)
  BY <1>1, <1>2, <1>3, <1>4, <1>5, <1>6 DEF Promise!Misses, Promise!answerVars, Asked, DoneNow
<1>. QED
  BY <1>7 DEF Promise!PromiseNext

\* What is pending when the request of c has been answered, and before.
LEMMA AnsweredPending ==
  ASSUME DirectoryInv, AllKept, NEW c \in Callers, request[c] # NoRequest, reply[c] = NoReply,
         NEW looking, Look(looking), reply'[c] # NoReply, request' = request,
         \A d \in Callers \ {c} : reply'[d] = reply[d]
  PROVE  /\ \A d \in Callers \ {c} : FoundBy(d)' = FoundBy(d)
         /\ c \notin Undecided' /\ (c \in Undecided <=> request[c].op \in Changes)
         /\ request[c].op \in Changes => request[c] = RequestOf(c) /\ request[c] \in Asked
         /\ late' = late => Asked' = Asked \ {request[c]}
<1>1. \A d \in Callers : RequestOf(d)' = RequestOf(d)
  BY RemoteFrame
<1>2. \A d \in Callers \ {c} : FoundBy(d)' = FoundBy(d) /\ (d \in Undecided' <=> d \in Undecided)
  BY RemoteFrame
<1>3. pc' = pc /\ pc[c] \in WaitPCs
  BY RemoteFrame, Waiting
<1>4. c \notin Undecided'
  BY <1>3 DEF Undecided, WaitPCs
<1>5. /\ request[c].op \in Changes => pc[c] = "main" /\ request[c] = RequestOf(c) /\ call[c].op = request[c].op
      /\ pc[c] = "main" => call[c].op = request[c].op
      /\ request[c].caller = c
  BY Waiting
<1>6. c \in Undecided <=> request[c].op \in Changes
  <2>1. pc[c] # "lock" /\ (pc[c] = "main" => ~ToRoot(c))
    BY <1>3 DEF AllKept, KeptInv, WaitPCs
  <2>. QED
    BY <1>5, <2>1 DEF Undecided
<1>7. request[c].op \in Changes => request[c] = RequestOf(c) /\ request[c] \in Asked
  BY <1>5, <1>6 DEF Asked
<1>8. ASSUME late' = late PROVE Asked' = Asked \ {request[c]}
  <2>1. request[c] \notin late
    <3>1. request[c] \in late => request[c].op \in Changes /\ GivenUp(request[c].caller)
      BY <1>5, Waiting DEF DirectoryInv, LateInv
    <3>. QED
      BY <1>3, <1>5, <3>1 DEF GivenUp, NoReply, WaitPCs
  <2>2. Undecided' = Undecided \ {c}
    BY <1>2, <1>4 DEF Undecided
  <2>3. \A d \in Undecided \ {c} : RequestOf(d)' = RequestOf(d) /\ RequestOf(d) # request[c]
    BY <1>1, <1>5, RequestsDiffer DEF Undecided
  <2>4. c \in Undecided => RequestOf(c) = request[c]
    BY <1>6, <1>7
  <2>5. {RequestOf(d) : d \in Undecided}' = {RequestOf(d) : d \in Undecided} \ {request[c]}
    BY <2>2, <2>3, <2>4
  <2>. QED
    BY <1>8, <2>1, <2>5 DEF Asked
<1>. QED
  BY <1>2, <1>4, <1>6, <1>7, <1>8

\* A request that changes nothing leaves the pending changes alone.
LEMMA AnsweredLook ==
  ASSUME DirectoryInv, AllKept, NEW c \in Callers, request[c] # NoRequest, request[c].op \notin Changes
  PROVE  request[c] \notin Asked
BY AskedOnce

LEMMA RemoteStutters ==
  ASSUME DirectoryInv, SameTree, Asked' = Asked, NEW looking, Look(looking),
         \A d \in Callers : DoneNow(d)' = DoneNow(d) /\ FoundBy(d)' = FoundBy(d)
  PROVE  Promise!PromiseNext
<1>1. /\ UNCHANGED <<outcome, result, listing>>
      /\ \A d \in Callers : OperationOf(d)' = OperationOf(d)
  BY RemoteFrame
<1>2. UNCHANGED Promise!promiseVars
  BY <1>1 DEF Promise!promiseVars, Promise!treeVars, Promise!answerVars, SameTree, treeVars, Asked, DoneNow
<1>. QED
  BY <1>2 DEF Promise!PromiseNext

LEMMA ServerMaps ==
  ASSUME DirectoryInv, AllKept, NEW c \in Callers,
         LET looking == IF Looking(c) THEN {c} ELSE {} IN
         \/ ServerCarries(c) /\ Count(request[c]) /\ Look(looking)
         \/ (ServerRefuses(c) \/ ServerEmpty(c)) /\ NotCounted /\ Look(looking)
         \/ ServerFails(c) /\ NotCounted /\ Look({})
  PROVE  Promise!PromiseNext
<1>. DEFINE r == request[c]
<1>0. PICK looking : Look(looking)
  OBVIOUS
<1>1. /\ r # NoRequest /\ reply[c] = NoReply /\ request' = request /\ late' = late
      /\ \A d \in Callers \ {c} : reply'[d] = reply[d]
  BY Replied DEF ServerCarries, ServerRefuses, ServerEmpty, ServerFails
<1>2. /\ ServerCarries(c) =>
           /\ reply'[c].status = "ok" /\ reply'[c].names = Answer(r).names
           /\ reply'[c].id = Answer(r).id \/ (r.op = "mkdir" /\ reply'[c].id = NoEntry)
      /\ ServerRefuses(c) => reply'[c] = Failure("ENOENT")
      /\ ServerEmpty(c) => reply'[c] = [Answer(r) EXCEPT !.id = NoEntry]
      /\ ServerFails(c) => reply'[c] = Failure("error")
  <2>1. CASE ServerCarries(c)
    <3>1. PICK answer \in AnswersTo(r) : Reply(c, answer)
      BY <2>1 DEF ServerCarries
    <3>2. reply'[c] = answer
      BY <3>1, Replied
    <3>3. \A a \in AnswersTo(r) : a.status = "ok" /\ a # Failure("ENOENT") /\ a # Failure("error")
      BY AnswerForms DEF Failure
    <3>4. ~ServerRefuses(c) /\ ~ServerFails(c) /\ ~ServerEmpty(c)
      BY <2>1, <3>2, <3>3, Replied DEF ServerCarries, ServerRefuses, ServerEmpty, ServerFails
    <3>. QED
      BY <3>2, <3>4, AnswerForms
  <2>2. CASE ~ServerCarries(c)
    BY <2>2, Replied DEF ServerRefuses, ServerEmpty, ServerFails
  <2>. QED
    BY <2>1, <2>2
<1>3. /\ ServerCarries(c) => reply'[c].status = "ok"
      /\ ServerRefuses(c) => reply'[c].status = "ENOENT" /\ reply'[c].names = NoNames
      /\ ServerEmpty(c) => reply'[c].status = "ok" /\ reply'[c].id = NoEntry
      /\ ServerFails(c) => reply'[c].status = "error"
  <2>1. ServerEmpty(c) => reply'[c].status = "ok" /\ reply'[c].id = NoEntry
    <3>1. PICK id, names : Answer(r) = [status |-> "ok", id |-> id, names |-> names]
      BY DEF Answer
    <3>. QED
      BY <1>2, <3>1
  <2>2. /\ Failure("ENOENT").status = "ENOENT" /\ Failure("ENOENT").names = NoNames
        /\ Failure("error").status = "error"
    BY DEF Failure
  <2>. QED
    BY <1>2, <2>1, <2>2
<1>4. reply'[c] # NoReply
  BY <1>3 DEF NoReply
<1>5. /\ \A d \in Callers \ {c} : FoundBy(d)' = FoundBy(d)
      /\ r.op \in Changes => r = RequestOf(c) /\ r \in Asked
      /\ Asked' = Asked \ {r}
  BY <1>0, <1>1, <1>4, AnsweredPending
<1>6. /\ pc' = pc /\ call' = call /\ pc[c] \in WaitPCs
      /\ r.op \in Changes \cup {"lookup", "info", "readdir"}
      /\ r.op \in Changes => pc[c] = "main" /\ call[c].op = r.op
      /\ pc[c] = "main" => call[c].op = r.op
      /\ r.op = "lookup" => pc[c] \in {"main", "find"} /\ At(r) = Place(c, call[c].name)
      /\ r.op = "info" <=> pc[c] = "info"
      /\ r.op = "readdir" <=> pc[c] = "list"
      /\ r.op = "readdir" => r.dir = DirectoryOf[call[c].node]
  BY <1>0, <1>1, Waiting, RemoteFrame
<1>7. /\ ServerCarries(c) => Accepts(r) /\ Carry(r) /\ Count(r)
      /\ ~ServerCarries(c) => SameTree /\ NotCounted
  <2>0. ServerCarries(c) => ~ServerRefuses(c) /\ ~ServerEmpty(c) /\ ~ServerFails(c)
    <3>1. ServerCarries(c) => ~ServerEmpty(c)
      BY DEF ServerCarries, ServerEmpty
    <3>. QED
      BY <1>3, <3>1
  <2>1. ServerCarries(c) => Count(r)
    BY <2>0
  <2>2. ServerCarries(c) => Accepts(r) /\ Carry(r)
    BY DEF ServerCarries
  <2>. QED
    BY <2>1, <2>2 DEF ServerRefuses, ServerEmpty, ServerFails, SameTree
<1>8. CASE r.op \in Changes
  <2>1. /\ r = OperationOf(c) /\ FoundBy(c) = {}
    <3>1. FoundBy(c) = {}
      BY <1>1, <1>6, <1>8 DEF FoundBy, NoReply
    <3>. QED
      BY <1>5, <1>6, <1>8, <3>1, Operations DEF AllKept
  <2>2. CASE ServerCarries(c)
    <3>1. FoundBy(c)' = {} \/ (r.op = "mkdir" /\ FoundBy(c)' = {Len(kinds) + 1})
      <4>1. CASE r.op = "mkdir"
        <5>1. reply'[c].id \in {Len(kinds) + 1, NoEntry} /\ Len(kinds) + 1 # NoEntry
          BY <1>2, <2>2, <4>1, NoNode DEF Answer, DirectoryInv, NoEntry
        <5>. QED
          BY <1>3, <1>6, <1>8, <2>2, <4>1, <5>1 DEF FoundBy, Got
      <4>2. CASE r.op # "mkdir"
        <5>1. pc'[c] = "main" /\ call'[c].op \notin {"mkdir", "lookup"}
          BY <1>6, <1>8, <4>2 DEF Changes
        <5>. QED
          BY <4>2, <5>1 DEF FoundBy
      <4>. QED
        BY <4>1, <4>2
    <3>2. CASE r.op = "mkdir" /\ FoundBy(c)' = {Len(kinds) + 1}
      <4>1. \A d \in Callers : FoundBy(d)' = IF d = c THEN {Len(kinds) + 1} ELSE FoundBy(d)
        BY <1>5, <3>1, <3>2
      <4>2. Accepts(r) /\ Carry(r) /\ Count(r)
        BY <1>7, <2>2
      <4>. QED
        BY <1>0, <1>5, <1>8, <2>1, <3>2, <4>1, <4>2, EffectMaps
    <3>3. CASE FoundBy(c)' = {}
      <4>1. \A d \in Callers : FoundBy(d)' = FoundBy(d)
        BY <1>5, <2>1, <3>3
      <4>2. Accepts(r) /\ Carry(r) /\ Count(r)
        BY <1>7, <2>2
      <4>. QED
        BY <1>0, <1>5, <1>8, <4>1, <4>2, EffectMaps
    <3>. QED
      BY <3>1, <3>2, <3>3
  <2>3. CASE ~ServerCarries(c)
    <3>1. reply'[c].status \in {"ENOENT", "error"}
      BY <1>3, <1>8, <2>3 DEF ServerEmpty, Changes
    <3>2. FoundBy(c)' = {}
      BY <1>6, <1>8, <3>1 DEF FoundBy, Changes
    <3>3. \A d \in Callers : FoundBy(d)' = FoundBy(d)
      BY <1>5, <2>1, <3>2
    <3>. QED
      BY <1>0, <1>5, <1>7, <1>8, <2>3, <3>3, DropMaps
  <2>. QED
    BY <2>2, <2>3
<1>9. CASE r.op \notin Changes
  <2>1. SameTree /\ Asked' = Asked /\ \A d \in Callers : DoneNow(d)' = DoneNow(d)
    <3>1. Asked' = Asked
      BY <1>1, <1>5, <1>9, AnsweredLook
    <3>2. CASE ServerCarries(c)
      <4>1. SameTree
        BY <1>6, <1>9, <3>2 DEF ServerCarries, Carry, SameTree, Changes
      <4>2. Count(r)
        BY <1>7, <3>2
      <4>. QED
        BY <1>6, <1>9, <3>1, <4>1, <4>2, NotCountedMaps
    <3>3. CASE ~ServerCarries(c)
      BY <1>6, <1>7, <3>1, <3>3 DEF NotCounted, DoneNow
    <3>. QED
      BY <3>2, <3>3
  <2>2. CASE r.op = "info"
    <3>1. pc[c] = "info" /\ FoundBy(c) = {r.id} /\ r.id \in {NoEntry} \cup Ids
      BY <1>1, <1>6, <2>2, Waiting DEF FoundBy, NoReply
    <3>2. CASE FoundBy(c)' = FoundBy(c)
      <4>1. \A d \in Callers : FoundBy(d)' = FoundBy(d)
        BY <1>5, <3>2
      <4>. QED
        BY <1>0, <1>1, <2>1, <4>1, RemoteStutters
    <3>3. CASE FoundBy(c)' # FoundBy(c)
      <4>1. ServerRefuses(c)
        BY <1>1, <1>3, <1>6, <3>1, <3>3 DEF FoundBy
      <4>2. FoundBy(c)' = {NoEntry} /\ ~Reached(r.id)
        BY <1>3, <1>6, <2>2, <3>1, <3>3, <4>1 DEF FoundBy, ServerRefuses, Refuses, Accepts
      <4>. QED
        BY <1>0, <1>5, <2>1, <3>1, <4>2, MissMaps
    <3>. QED
      BY <3>2, <3>3
  <2>3. CASE r.op = "lookup"
    <3>1. Promise!Held(Place(c, call[c].name)) = IF Accepts(r) THEN entry[At(r)] ELSE NoEntry
      <4>1. At(r)[1] = r.dir /\ At(r) = Place(c, call[c].name)
        BY <1>6, <2>3 DEF At
      <4>2. Accepts(r) <=> Alive(r.dir) /\ entry[At(r)] # NoEntry
        BY <2>3 DEF Accepts
      <4>3. Promise!Held(At(r)) = IF Alive(r.dir) THEN entry[At(r)] ELSE NoEntry
        BY <4>1, TreesAgree DEF Held
      <4>. QED
        BY <4>1, <4>2, <4>3
    <3>2. CASE FoundBy(c)' = {}
      BY <1>0, <1>5, <2>1, <3>2, LookMaps
    <3>3. CASE FoundBy(c)' # {}
      <4>1. FoundBy(c)' = {Promise!Held(Place(c, call[c].name))}
        <5>1. CASE ServerCarries(c)
          <6>1. reply'[c].id = entry[At(r)] /\ Accepts(r)
            BY <1>2, <1>7, <2>3, <5>1 DEF Answer
          <6>. QED
            BY <1>3, <1>6, <2>3, <3>1, <3>3, <5>1, <6>1 DEF FoundBy, Got
        <5>2. CASE ServerEmpty(c)
          BY <1>3, <1>6, <2>3, <3>1, <3>3, <5>2 DEF FoundBy, Got, ServerEmpty
        <5>3. CASE ServerRefuses(c)
          BY <1>3, <1>6, <2>3, <3>1, <3>3, <5>3 DEF FoundBy, ServerRefuses, Refuses
        <5>4. CASE ServerFails(c)
          BY <1>3, <1>6, <2>3, <3>3, <5>4 DEF FoundBy
        <5>. QED
          BY <5>1, <5>2, <5>3, <5>4
      <4>2. (pc[c] = "main" /\ call[c].op = "lookup") \/ pc[c] = "find"
        BY <1>6, <2>3
      <4>. QED
        BY <1>0, <1>5, <2>1, <4>1, <4>2, LookMaps
    <3>. QED
      BY <3>2, <3>3
  <2>4. CASE r.op = "readdir"
    <3>1. \A name \in Names : Promise!Held(Place(c, name)) = IF Accepts(r) THEN entry[<<r.dir, name>>] ELSE NoEntry
      BY <1>6, <2>4, TreesAgree DEF Held, Accepts, Place
    <3>2. CASE FoundBy(c)' = {}
      BY <1>0, <1>5, <2>1, <3>2, LookMaps
    <3>3. CASE FoundBy(c)' # {}
      <4>1. FoundBy(c)' = {reply'[c].names}
        BY <1>6, <2>4, <3>3 DEF FoundBy
      <4>2. reply'[c].names = [name \in Names |-> Promise!Held(Place(c, name))]
        <5>1. CASE ServerCarries(c)
          <6>1. reply'[c].names = [name \in Names |-> entry[<<r.dir, name>>]] /\ Accepts(r)
            <7>1. Answer(r).names = [name \in Names |-> entry[<<r.dir, name>>]]
              BY <2>4 DEF Answer
            <7>. QED
              BY <1>2, <1>7, <5>1, <7>1
          <6>. QED
            BY <3>1, <6>1
        <5>2. CASE ServerRefuses(c)
          BY <1>3, <2>4, <3>1, <5>2 DEF NoNames, ServerRefuses, Refuses
        <5>3. CASE ServerFails(c) \/ ServerEmpty(c)
          BY <1>3, <1>6, <2>4, <3>3, <5>3 DEF FoundBy, ServerEmpty
        <5>. QED
          BY <5>1, <5>2, <5>3
      <4>3. FoundBy(c)' = {[name \in Names |-> Promise!Held(Place(c, name))]}
        BY <4>1, <4>2
      <4>. QED
        BY <1>0, <1>5, <1>6, <2>1, <2>4, <4>3, LookMaps
    <3>. QED
      BY <3>2, <3>3
  <2>. QED
    BY <1>6, <1>9, <2>2, <2>3, <2>4
<1>. QED
  BY <1>8, <1>9

LEMMA TimeoutMaps ==
  ASSUME DirectoryInv, AllKept, NEW c \in Callers, Timeout(c), NotCounted, Look({})
  PROVE  Promise!PromiseNext
<1>. DEFINE r == request[c]
<1>1. /\ r # NoRequest /\ request' = request /\ SameTree
      /\ reply'[c].status = "timeout" /\ reply'[c] # NoReply
      /\ \A d \in Callers \ {c} : reply'[d] = reply[d]
  BY DEF Timeout, SameTree, DirectoryInv, Domains, Failure, NoReply
<1>2. /\ pc' = pc /\ pc[c] \in WaitPCs
      /\ \A d \in Callers : DoneNow(d)' = DoneNow(d)
      /\ \A d \in Callers : RequestOf(d)' = RequestOf(d)
  BY <1>1, Waiting, RemoteFrame DEF NotCounted, DoneNow
<1>3. \A d \in Callers \ {c} : FoundBy(d)' = FoundBy(d) /\ (d \in Undecided' <=> d \in Undecided)
  BY <1>1, RemoteFrame
<1>4. c \notin Undecided'
  BY <1>1, <1>2 DEF Undecided, WaitPCs
<1>5. Asked' = Asked
  <2>1. CASE c \in Undecided
    <3>1. reply[c] = NoReply /\ Pending(c)
      BY <1>1, <1>2, <2>1 DEF Undecided, WaitPCs, Pending
    <3>2. r.op \in Changes /\ r = RequestOf(c)
      BY <1>1, <2>1, <3>1, AnsweredPending
    <3>3. late' = late \cup {RequestOf(c)}
      BY <3>1, <3>2 DEF Timeout
    <3>4. Undecided' = Undecided \ {c}
      BY <1>3, <1>4 DEF Undecided
    <3>5. {RequestOf(d) : d \in Undecided}' \cup {RequestOf(c)} = {RequestOf(d) : d \in Undecided}
      BY <1>2, <2>1, <3>4 DEF Undecided
    <3>. QED
      BY <3>3, <3>5 DEF Asked
  <2>2. CASE c \notin Undecided
    <3>1. late' = late
      BY <1>1, <2>2, AnsweredPending DEF Timeout, Pending
    <3>. QED
      BY <1>2, <1>3, <1>4, <2>2, <3>1, AskedStays
  <2>. QED
    BY <2>1, <2>2
<1>6. FoundBy(c)' = {}
  BY <1>1, <1>2 DEF FoundBy
<1>. QED
  BY <1>1, <1>2, <1>3, <1>5, <1>6, LookMaps

\* A late request is pending, and no other operation's.
LEMMA LateMaps ==
  ASSUME DirectoryInv, AllKept, NEW r \in late,
         \/ LateCarries(r) /\ Count(r) /\ Look({})
         \/ LateDrops(r) /\ NotCounted /\ Look({})
  PROVE  Promise!PromiseNext
<1>1. request' = request /\ reply' = reply /\ late' = late \ {r} /\ Look({})
  BY DEF LateCarries, LateDrops
<1>2. /\ \A d \in Callers : RequestOf(d)' = RequestOf(d)
      /\ \A d \in Callers : FoundBy(d)' = FoundBy(d) /\ (d \in Undecided' <=> d \in Undecided)
  BY <1>1, RemoteFrame
<1>3. r \in Asked
  BY DEF Asked
<1>4. Asked' = Asked \ {r}
  <2>1. Undecided' = Undecided
    BY <1>2 DEF Undecided
  <2>2. {RequestOf(d) : d \in Undecided}' = {RequestOf(d) : d \in Undecided}
    BY <1>2, <2>1 DEF Undecided
  <2>3. ASSUME NEW d \in Undecided PROVE RequestOf(d) # r
    <3>1. d \in Callers /\ (pc[d] = "lock" \/ (pc[d] = "main" /\ reply[d] = NoReply))
      BY DEF Undecided
    <3>2. ~GivenUp(d)
      BY <3>1 DEF GivenUp, NoReply
    <3>3. r.serial = serial[r.caller] => GivenUp(r.caller)
      BY DEF DirectoryInv, LateInv
    <3>. QED
      BY <3>1, <3>2, <3>3, RequestsDiffer
  <2>. QED
    BY <1>1, <2>2, <2>3 DEF Asked
<1>5. CASE LateCarries(r) /\ Count(r)
  BY <1>1, <1>2, <1>3, <1>4, <1>5, EffectMaps DEF LateCarries
<1>6. CASE LateDrops(r) /\ NotCounted
  BY <1>1, <1>2, <1>3, <1>4, <1>6, DropMaps DEF LateDrops, SameTree
<1>. QED
  BY <1>5, <1>6

-----------------------------------------------------------------------------

LEMMA InitMaps == Init => Promise!PromiseInit
<1>. SUFFICES ASSUME Init PROVE Promise!PromiseInit
  OBVIOUS
<1>1. \A c \in Callers : OperationOf(c) = NoCall /\ DoneNow(c) = 0 /\ FoundBy(c) = {} /\ c \notin Undecided
  BY DEF Init, OperationOf, DoneNow, FoundBy, Undecided
<1>2. late \cup {RequestOf(c) : c \in Undecided} = {}
  BY <1>1 DEF Init, RemoteInit, Undecided
<1>3. Promise!TreeInit
  BY DEF Init, RemoteInit, TreeInit, Promise!TreeInit
<1>. QED
  BY <1>1, <1>2, <1>3 DEF Init, Promise!PromiseInit, DoneNow, NoCall, Promise!NoOp, NoEntry, Promise!NoEntry,
     NoListing, Promise!NoListing

LEMMA StepMaps ==
  ASSUME DirectoryInv, AllKept, [Next]_vars
  PROVE  [Promise!PromiseNext]_(Promise!promiseVars)
<1>1. ASSUME NEW c \in Callers, CallerStep(c) PROVE Promise!PromiseNext
  BY <1>1, CallerMaps
<1>2. CASE RemoteStep
  <2>1. ASSUME NEW c \in Callers,
               LET looking == IF Looking(c) THEN {c} ELSE {} IN
               \/ ServerCarries(c) /\ Count(request[c]) /\ Look(looking)
               \/ (ServerRefuses(c) \/ ServerEmpty(c)) /\ NotCounted /\ Look(looking)
               \/ ServerFails(c) /\ NotCounted /\ Look({})
        PROVE  Promise!PromiseNext
    BY <2>1, ServerMaps
  <2>2. ASSUME NEW c \in Callers, Timeout(c), NotCounted, Look({}) PROVE Promise!PromiseNext
    BY <2>2, TimeoutMaps
  <2>3. ASSUME NEW r \in late,
               \/ LateCarries(r) /\ Count(r) /\ Look({})
               \/ LateDrops(r) /\ NotCounted /\ Look({})
        PROVE  Promise!PromiseNext
    BY <2>3, LateMaps
  <2>. QED
    BY <1>2, <2>1, <2>2, <2>3 DEF RemoteStep
<1>3. CASE (\E n \in Nodes : CloseStep(n)) \/ UNCHANGED vars
  <2>1. SameTree /\ UNCHANGED <<rpcVars, callVars, listVars, histVars>>
    BY <1>3, CloseFrame DEF vars, SameTree
  <2>2. \A d \in Callers : AsBefore(d)
    <3>. SUFFICES ASSUME NEW d \in Callers PROVE AsBefore(d)
      OBVIOUS
    <3>1. /\ RequestOf(d)' = RequestOf(d) /\ ListOf(d)' = ListOf(d)
          /\ ToRoot(d)' = ToRoot(d) /\ AsksNothing(d)' = AsksNothing(d)
      BY <2>1, SameRequests DEF callVars, histVars, ToRoot, AsksNothing
    <3>. QED
      BY <2>1, <3>1 DEF AsBefore, OperationOf, Undecided, FoundBy, Got, DoneNow, callVars, histVars, rpcVars
  <2>3. UNCHANGED Promise!promiseVars
    BY <2>1, <2>2, Stutters DEF rpcVars, callVars, listVars
  <2>. QED
    BY <2>3
<1>. QED
  BY <1>1, <1>2, <1>3 DEF Next, Rest

\* The operations of directory/node/main.go and ReadDirAll keep the promise of
\* AtomicTree, for any number of callers, of nodes for one directory, and of
\* requests that are carried out after their timeout: every change takes
\* effect at one instant and at most once, before it is reported as done and
\* never after it is reported as failed; what is reported as failed has had no
\* effect, but for a timeout, a Create whose later requests fail and a Mkdir
\* without a node for its directory; every answer was true at an instant of
\* the call.
THEOREM OperationsAreAtomic == Spec => ImplementsAtomicTree
<1>1. Init => AllKept
  BY InitKept DEF AllKept
<1>2. DirectoryInv /\ AllKept /\ [Next]_vars => AllKept'
  BY StepKeepsKept DEF AllKept
<1>3. Init => Promise!PromiseInit
  BY InitMaps
<1>4. DirectoryInv /\ AllKept /\ [Next]_vars => [Promise!PromiseNext]_(Promise!promiseVars)
  BY StepMaps
<1>. QED
  BY <1>1, <1>2, <1>3, <1>4, Inductive, PTL DEF Spec, ImplementsAtomicTree, Promise!PromiseSpec

=============================================================================
