--------------------------- MODULE RegistryProofs ---------------------------
(***************************************************************************)
(* Proofs about Registry, for any number of lookers, file servers and      *)
(* lookups; and about System, which puts it into the process of Shutdown.  *)
(***************************************************************************)
EXTENDS System, SequenceTheorems, FiniteSetTheorems, TLAPS

\* What a looker has got on its way to New: the Registry of its service, and
\* for a directory the Registries of the three services of the new node.
Flow(l) ==
  /\ call[l].parent # Root => nodes[call[l].parent].kind = "directory"
  /\ pc[l] \in {"idle", "lookup", "lock"} => found[l] = <<>>
  /\ pc[l] \in {"lock", "info", "add", "store"} => target[l] # 0
  /\ pc[l] # "idle" /\ call[l].parent = Root => call[l].kind = "directory"
  /\ pc[l] \in {"get", "missing", "writing"} => Len(found[l]) <= 2 /\ call[l].kind = "directory"
  /\ pc[l] = "info" => call[l].kind # "directory"
  /\ pc[l] \in {"add", "store"} /\ call[l].kind = "directory" => Len(found[l]) = 3
  /\ target[l] = 0 => found[l] = <<>>

FlowInv == \A l \in Lookers : Flow(l)

\* A Registry that instances holds is under one name.
NamesInv ==
  \A x, y \in Names : instances[x] = instances[y] /\ instances[x] # 0 => x = y

TypeInv == TypeOK /\ FlowInv /\ NamesInv

\* What Close has set says how far it is.
CloseInv ==
  /\ closer = "idle" => visited = {}
  /\ closer \in {"idle", "range", "end"} => closing = {}
  /\ closer = "drop" => \A x \in Names \ visited : instances[x] # current
  /\ closer = "end" => pending \subseteq visited

\* A node that was returned before Close, and whose Registry is still found: it
\* is in the list until Close comes to that Registry, and then with a goroutine
\* of Close.
EarlyInv ==
  \A n \in early, x \in Names :
    instances[x] = nodes[n].home =>
      /\ closer # "idle" => x \in pending
      /\ \/ n \in lost \cup closing \cup nodeClosed
         \/ n \in lists[nodes[n].home] /\ x \notin visited

\* No two lookers are inside New of the same service.
LockInv ==
  \A l, m \in Lookers :
    l # m /\ pc[l] \in LockedPCs /\ pc[m] \in LockedPCs => ~SameService(l, m)

\* Until Close an append has read what is in the list but for the nodes of other
\* services, and the list has what it has read but for nodes written over.
SnapshotInv ==
  \A l \in Lookers :
    closer = "idle" /\ pc[l] = "store" =>
      /\ snapshot[l] \subseteq lists[target[l]] \cup lost
      /\ call[l].parent # Root =>
           \A n \in lists[target[l]] :
             Service(n) = <<call[l].parent, call[l].kind>> => n \in snapshot[l] \cup lost

RegistryInv == TypeInv /\ CloseInv /\ EarlyInv /\ LockInv /\ SnapshotInv

-----------------------------------------------------------------------------
(* Types. *)

LEMMA InitTypes == Init => TypeInv
<1>. SUFFICES ASSUME Init PROVE TypeInv
  OBVIOUS
<1>1. NoCall \in [parent : {0}, kind : Kinds, client : Clients]
  BY ClientsAssumption DEF NoCall, Root, Kinds, ClientsAssumption
<1>2. Len(nodes) = 0 /\ Len(lists) = 0 /\ NodeIds = {} /\ DOMAIN lists = {}
  BY DEF Init, NodeIds
<1>3. ListsOK
  BY <1>2 DEF Init, ListsOK
<1>4. NodesOK
  BY <1>2 DEF Init, NodesOK
<1>5. LookersOK
  <2>1. lookups \in 0..MaxLookups
    <3>1. lookups = 0
      BY DEF Init
    <3>. QED
      BY <3>1, ClientsAssumption DEF ClientsAssumption
  <2>2. /\ pc \in [Lookers -> {"idle", "lookup", "lock"} \cup LockedPCs]
        /\ target \in [Lookers -> 0..Len(lists)]
        /\ found \in [Lookers -> Seq(DOMAIN lists)]
        /\ snapshot \in [Lookers -> SUBSET NodeIds]
    BY <1>2 DEF Init
  <2>3. call \in [Lookers -> [parent : 0..Len(nodes), kind : Kinds, client : Clients]]
    BY <1>1, <1>2 DEF Init
  <2>. QED
    BY <2>1, <2>2, <2>3 DEF LookersOK
<1>6. CloseOK
  <2>1. current = 0 /\ closer = "idle" /\ pending = {} /\ visited = {}
        /\ nodeClosed = {} /\ closing = {} /\ early = {} /\ lost = {}
    BY DEF Init
  <2>2. crashed \in BOOLEAN
    BY DEF Init
  <2>. QED
    BY <1>2, <2>1, <2>2 DEF CloseOK
<1>7. FlowInv
  <2>1. NoCall.parent = Root
    BY DEF NoCall
  <2>. QED
    BY <2>1 DEF Init, Flow, FlowInv
<1>8. NamesInv
  BY DEF Init, NamesInv
<1>. QED
  BY <1>3, <1>4, <1>5, <1>6, <1>7, <1>8 DEF TypeInv, TypeOK

LEMMA NodeFields ==
  ASSUME NodesOK, NEW n \in NodeIds
  PROVE  nodes[n] \in [parent : Nat, kind : Kinds, client : Clients, home : Nat,
                       services : [Kinds -> Nat]]
<1>. DEFINE Fields == [parent : Nat, kind : Kinds, client : Clients, home : Nat,
                       services : [Kinds -> Nat]]
<1>1. nodes \in Seq(Fields)
  BY DEF NodesOK
<1>. HIDE DEF Fields
<1>2. nodes[n] \in Fields
  BY <1>1 DEF NodeIds
<1>. QED
  BY <1>2 DEF Fields

LEMMA NoCallType == NoCall \in [parent : {0}, kind : Kinds, client : Clients]
  BY ClientsAssumption DEF NoCall, Root, Kinds, ClientsAssumption

\* A Lookup that ends with an error.
LEMMA FailType ==
  ASSUME TypeInv, NEW l \in Lookers, NEW from, Fail(l, from)
  PROVE  TypeInv'
<1>1. LookersOK'
  <2>1. call' \in [Lookers -> [parent : 0..Len(nodes), kind : Kinds, client : Clients]]
    <3>1. NoCall \in [parent : 0..Len(nodes), kind : Kinds, client : Clients]
      BY NoCallType DEF TypeInv, TypeOK, NodesOK
    <3>. QED
      BY <3>1 DEF Fail, Forget, TypeInv, TypeOK, LookersOK
  <2>2. target' \in [Lookers -> 0..Len(lists)]
    BY DEF Fail, Forget, TypeInv, TypeOK, LookersOK, ListsOK
  <2>3. found' \in [Lookers -> Seq(DOMAIN lists)]
    BY DEF Fail, Forget, TypeInv, TypeOK, LookersOK
  <2>4. /\ pc' \in [Lookers -> {"idle", "lookup", "lock"} \cup LockedPCs]
        /\ snapshot' \in [Lookers -> SUBSET NodeIds]
        /\ lookups' \in 0..MaxLookups
        /\ UNCHANGED <<nodes, lists>>
    BY DEF Fail, Goto, Forget, TypeInv, TypeOK, LookersOK
  <2>. QED
    BY <2>1, <2>2, <2>3, <2>4 DEF LookersOK, NodeIds
<1>2. ListsOK' /\ NodesOK' /\ CloseOK' /\ NamesInv'
  BY DEF Fail, TypeInv, TypeOK, ListsOK, NodesOK, CloseOK, NamesInv, NodeIds, closeVars, histVars
<1>3. FlowInv'
  <2>1. NoCall.parent = Root
    BY DEF NoCall
  <2>. QED
    BY <2>1 DEF Fail, Goto, Forget, Flow, FlowInv, TypeInv, TypeOK, LookersOK
<1>. QED
  BY <1>1, <1>2, <1>3 DEF TypeInv, TypeOK

\* A step that changes nothing but the control state of a looker.
LEMMA PassType ==
  ASSUME TypeInv, NEW l \in Lookers,
         \/ RootFound(l) \/ Lock(l) \/ InstanceMissing(l) \/ InstanceWrites(l) \/ InfoAnswers(l)
  PROVE  TypeInv'
<1>1. /\ UNCHANGED <<instances, lists, nodes, nodeClosed, lookVars, lookups, closeVars,
                     crashed, histVars>>
      /\ pc' \in [Lookers -> {"idle", "lookup", "lock"} \cup LockedPCs]
  BY DEF RootFound, Lock, InstanceMissing, InstanceWrites, InfoAnswers, Pass, Goto, AfterLock,
     TypeInv, TypeOK, LookersOK, LockedPCs
<1>2. ListsOK' /\ NodesOK' /\ LookersOK' /\ CloseOK' /\ NamesInv'
  BY <1>1 DEF TypeInv, TypeOK, ListsOK, NodesOK, LookersOK, CloseOK, NamesInv, NodeIds,
     lookVars, closeVars, histVars
<1>3. FlowInv'
  <2>1. Len(<<>>) = 0
    OBVIOUS
  <2>2. ASSUME NEW m \in Lookers, m # l PROVE pc'[m] = pc[m]
    BY <2>2 DEF RootFound, Lock, InstanceMissing, InstanceWrites, InfoAnswers, Pass, Goto,
       TypeInv, TypeOK, LookersOK
  <2>3. CASE RootFound(l)
    BY <1>1, <2>1, <2>2, <2>3 DEF RootFound, Pass, Goto, Flow, FlowInv, TypeInv, TypeOK,
       LookersOK, lookVars
  <2>4. CASE Lock(l)
    BY <1>1, <2>1, <2>2, <2>4 DEF Lock, AfterLock, Pass, Goto, Flow, FlowInv, TypeInv, TypeOK,
       LookersOK, lookVars
  <2>5. CASE InstanceMissing(l) \/ InstanceWrites(l)
    BY <1>1, <2>2, <2>5 DEF InstanceMissing, InstanceWrites, Pass, Goto, Flow, FlowInv, TypeInv,
       TypeOK, LookersOK, lookVars
  <2>6. CASE InfoAnswers(l)
    BY <1>1, <2>2, <2>6 DEF InfoAnswers, Pass, Goto, Flow, FlowInv, TypeInv, TypeOK,
       LookersOK, lookVars
  <2>. QED
    BY <2>3, <2>4, <2>5, <2>6
<1>. QED
  BY <1>2, <1>3 DEF TypeInv, TypeOK

\* The lookers a step leaves alone keep what they have got: nodes are never
\* taken back.
LEMMA OthersFlow ==
  ASSUME TypeInv, NEW l \in Lookers,
         \A m \in Lookers \ {l} :
           pc'[m] = pc[m] /\ call'[m] = call[m] /\ target'[m] = target[m] /\ found'[m] = found[m],
         \A n \in NodeIds : nodes'[n] = nodes[n],
         Flow(l)'
  PROVE  FlowInv'
<1>. SUFFICES ASSUME NEW m \in Lookers, m # l PROVE Flow(m)'
  BY DEF FlowInv
<1>1. Flow(m) /\ call[m].parent \in 0..Len(nodes)
  BY DEF TypeInv, TypeOK, LookersOK, FlowInv
<1>2. call[m].parent # Root => nodes'[call[m].parent] = nodes[call[m].parent]
  BY <1>1 DEF NodeIds, Root
<1>. QED
  BY <1>1, <1>2 DEF Flow

LEMMA CallType ==
  ASSUME TypeInv, NEW l \in Lookers, CallRoot(l) \/ CallDirectory(l)
  PROVE  TypeInv'
<1>. PICK request \in [parent : 0..Len(nodes), kind : Kinds, client : Clients] :
       /\ CallLookup(l, request)
       /\ request.parent # Root => nodes[request.parent].kind = "directory"
       /\ request.parent = Root => request.kind = "directory"
  <2>1. Len(nodes) \in Nat
    BY DEF TypeInv, TypeOK, NodesOK
  <2>2. CASE CallRoot(l)
    <3>. PICK c \in Clients : CallLookup(l, [parent |-> Root, kind |-> "directory", client |-> c])
      BY <2>2 DEF CallRoot
    <3>1. [parent |-> Root, kind |-> "directory", client |-> c]
            \in [parent : 0..Len(nodes), kind : Kinds, client : Clients]
      BY <2>1 DEF Root, Kinds
    <3>. QED
      BY <3>1
  <2>3. CASE CallDirectory(l)
    <3>. PICK n \in NodeIds, k \in Kinds :
           /\ nodes[n].kind = "directory"
           /\ CallLookup(l, [parent |-> n, kind |-> k, client |-> nodes[n].client])
      BY <2>3 DEF CallDirectory
    <3>1. nodes[n].client \in Clients
      BY NodeFields DEF TypeInv, TypeOK
    <3>2. [parent |-> n, kind |-> k, client |-> nodes[n].client]
            \in [parent : 0..Len(nodes), kind : Kinds, client : Clients]
      BY <2>1, <3>1 DEF NodeIds
    <3>3. n # Root
      BY DEF NodeIds, Root
    <3>. QED
      BY <3>2, <3>3
  <2>. QED
    BY <2>2, <2>3
<1>1. /\ call' \in [Lookers -> [parent : 0..Len(nodes), kind : Kinds, client : Clients]]
      /\ pc' \in [Lookers -> {"idle", "lookup", "lock"} \cup LockedPCs]
      /\ pc[l] = "idle" /\ pc'[l] = "lookup" /\ call'[l] = request
      /\ \A m \in Lookers \ {l} : pc'[m] = pc[m] /\ call'[m] = call[m]
      /\ UNCHANGED <<instances, lists, nodes, nodeClosed, target, found, snapshot, closeVars,
                     crashed, histVars>>
  BY DEF CallLookup, Goto, TypeInv, TypeOK, LookersOK
<1>2. lookups' \in 0..MaxLookups
  BY ClientsAssumption DEF ClientsAssumption, CallLookup, TypeInv, TypeOK, LookersOK
<1>3. ListsOK' /\ NodesOK' /\ LookersOK' /\ CloseOK' /\ NamesInv'
  BY <1>1, <1>2 DEF TypeInv, TypeOK, ListsOK, NodesOK, LookersOK, CloseOK, NamesInv, NodeIds,
     closeVars, histVars
<1>4. Flow(l)'
  <2>1. Flow(l)
    BY DEF TypeInv, FlowInv
  <2>. QED
    BY <1>1, <2>1 DEF Flow
<1>5. FlowInv'
  BY <1>1, <1>4, OthersFlow
<1>. QED
  BY <1>3, <1>5 DEF TypeInv, TypeOK

LEMMA DirectoryFoundType ==
  ASSUME TypeInv, NEW l \in Lookers, DirectoryFound(l)
  PROVE  TypeInv'
<1>. DEFINE service == nodes[call[l].parent].services[call[l].kind]
<1>1. service \in DOMAIN lists
  <2>1. call[l].parent \in NodeIds /\ call[l].kind \in Kinds
    BY DEF DirectoryFound, Root, NodeIds, TypeInv, TypeOK, LookersOK
  <2>2. nodes[call[l].parent].kind = "directory"
    BY DEF DirectoryFound, Flow, FlowInv, TypeInv
  <2>. QED
    BY <2>1, <2>2 DEF TypeInv, TypeOK, NodesOK
<1>2. service \in 1..Len(lists)
  BY <1>1 DEF TypeInv, TypeOK, ListsOK
<1>3. /\ target' \in [Lookers -> 0..Len(lists)]
      /\ pc' \in [Lookers -> {"idle", "lookup", "lock"} \cup LockedPCs]
      /\ pc[l] = "lookup" /\ pc'[l] = "lock" /\ target'[l] = service
      /\ \A m \in Lookers \ {l} : pc'[m] = pc[m] /\ target'[m] = target[m]
      /\ UNCHANGED <<instances, lists, nodes, nodeClosed, call, found, snapshot, lookups,
                     closeVars, crashed, histVars>>
  BY <1>2 DEF DirectoryFound, Goto, TypeInv, TypeOK, LookersOK
<1>4. ListsOK' /\ NodesOK' /\ LookersOK' /\ CloseOK' /\ NamesInv'
  BY <1>3 DEF TypeInv, TypeOK, ListsOK, NodesOK, LookersOK, CloseOK, NamesInv, NodeIds,
     closeVars, histVars
<1>5. Flow(l)'
  <2>1. Flow(l)
    BY DEF TypeInv, FlowInv
  <2>. QED
    BY <1>2, <1>3, <2>1 DEF Flow
<1>6. FlowInv'
  BY <1>3, <1>5, OthersFlow
<1>. QED
  BY <1>4, <1>6 DEF TypeInv, TypeOK

\* GetInstance makes a Registry, or finds one.
LEMMA ListsGrow ==
  ASSUME TypeInv, NEW l \in Lookers, InstanceFound(l) \/ InstanceWritten(l)
  PROVE  /\ Len(lists) \in Nat /\ Len(lists') \in Nat /\ Len(lists) <= Len(lists')
         /\ DOMAIN lists = 1..Len(lists) /\ DOMAIN lists' = 1..Len(lists')
         /\ \A r \in DOMAIN lists : lists'[r] = lists[r]
         /\ \A r \in DOMAIN lists' \ DOMAIN lists : lists'[r] = {}
         /\ lists' \in Seq(SUBSET Nat)
         /\ Name(l) \in Names
         /\ instances' \in [Names -> 0..Len(lists')]
<1>1. lists \in Seq(SUBSET Nat) /\ instances \in [Names -> 0..Len(lists)]
  BY DEF TypeInv, TypeOK, ListsOK
<1>2. Name(l) \in Names
  <2>1. call[l].client \in Clients
    BY DEF TypeInv, TypeOK, LookersOK
  <2>. QED
    BY <2>1, ClientsAssumption DEF ClientsAssumption, Name
<1>3. CASE InstanceFound(l)
  BY <1>1, <1>2, <1>3 DEF InstanceFound
<1>4. CASE InstanceWritten(l)
  BY <1>1, <1>2, <1>4 DEF InstanceWritten
<1>. QED
  BY <1>3, <1>4

LEMMA GotType ==
  ASSUME TypeInv, NEW l \in Lookers, InstanceFound(l) \/ InstanceWritten(l)
  PROVE  TypeInv'
<1>. PICK from \in {"get", "writing"}, r \in DOMAIN lists' : Got(l, from, r)
  <2>1. CASE InstanceFound(l)
    <3>1. instances[Name(l)] \in DOMAIN lists'
      BY <2>1, ListsGrow DEF InstanceFound, TypeInv, TypeOK, ListsOK
    <3>. QED
      BY <2>1, <3>1 DEF InstanceFound
  <2>2. CASE InstanceWritten(l)
    <3>1. Len(lists) + 1 \in DOMAIN lists'
      BY <2>2, ListsGrow DEF InstanceWritten
    <3>. QED
      BY <2>2, <3>1 DEF InstanceWritten
  <2>. QED
    BY <2>1, <2>2
<1>1. /\ pc' \in [Lookers -> {"idle", "lookup", "lock"} \cup LockedPCs]
      /\ pc[l] = from
      /\ pc'[l] = IF target[l] # 0 /\ Len(found[l]) = 2 THEN "add" ELSE "get"
      /\ \A m \in Lookers \ {l} : pc'[m] = pc[m]
      /\ UNCHANGED <<nodes, nodeClosed, call, snapshot, lookups, closeVars, crashed, histVars>>
  BY DEF Got, Goto, TypeInv, TypeOK, LookersOK, LockedPCs
<1>2. /\ target' \in [Lookers -> 0..Len(lists')]
      /\ target'[l] = IF target[l] = 0 THEN r ELSE target[l]
      /\ \A m \in Lookers \ {l} : target'[m] = target[m]
  <2>1. target \in [Lookers -> 0..Len(lists')]
    BY ListsGrow DEF TypeInv, TypeOK, LookersOK
  <2>. QED
    BY <2>1, ListsGrow DEF Got
<1>3. /\ found' \in [Lookers -> Seq(DOMAIN lists')]
      /\ found'[l] = IF target[l] = 0 THEN found[l] ELSE Append(found[l], r)
      /\ \A m \in Lookers \ {l} : found'[m] = found[m]
  <2>1. DOMAIN lists \subseteq DOMAIN lists'
    BY ListsGrow
  <2>2. found \in [Lookers -> Seq(DOMAIN lists')]
    BY <2>1 DEF TypeInv, TypeOK, LookersOK
  <2>3. Append(found[l], r) \in Seq(DOMAIN lists')
    BY <2>2, AppendProperties
  <2>. QED
    BY <2>2, <2>3 DEF Got
<1>4. ListsOK'
  BY <1>1, ListsGrow DEF ListsOK, TypeInv, TypeOK, NodeIds
<1>5. NodesOK'
  <2>1. DOMAIN lists \subseteq DOMAIN lists'
    BY ListsGrow
  <2>. QED
    BY <1>1, <2>1 DEF NodesOK, TypeInv, TypeOK, NodeIds
<1>6. LookersOK'
  BY <1>1, <1>2, <1>3 DEF LookersOK, TypeInv, TypeOK, NodeIds
<1>7. CloseOK'
  <2>1. current \in 0..Len(lists')
    BY ListsGrow DEF CloseOK, TypeInv, TypeOK
  <2>. QED
    BY <1>1, <2>1 DEF CloseOK, TypeInv, TypeOK, NodeIds, closeVars, histVars
<1>8. NamesInv'
  <2>1. CASE InstanceFound(l)
    BY <2>1 DEF InstanceFound, NamesInv, TypeInv
  <2>2. CASE InstanceWritten(l)
    BY <2>2, ListsGrow DEF InstanceWritten, NamesInv, TypeInv, TypeOK, ListsOK
  <2>. QED
    BY <2>1, <2>2
<1>9. Flow(l)'
  <2>1. Flow(l) /\ found[l] \in Seq(DOMAIN lists)
    BY DEF TypeInv, TypeOK, LookersOK, FlowInv
  <2>2. r # 0
    BY ListsGrow
  <2>3. CASE target[l] = 0
    BY <1>1, <1>2, <1>3, <2>1, <2>2, <2>3 DEF Flow
  <2>4. CASE target[l] # 0
    <3>1. Len(found[l]) \in Nat /\ Len(found[l]) <= 2
      BY <1>1, <2>1, LenProperties DEF Flow
    <3>4. Len(found'[l]) = Len(found[l]) + 1
      <4>1. found[l] \in Seq(DOMAIN lists')
        BY <2>1, ListsGrow
      <4>. QED
        BY <1>3, <2>4, <4>1, AppendProperties
    <3>2. CASE Len(found[l]) = 2
      BY <1>1, <1>2, <1>3, <2>1, <2>4, <3>2, <3>4 DEF Flow
    <3>3. CASE Len(found[l]) # 2
      <4>1. Len(found'[l]) <= 2
        <5>1. \A i \in Nat : i <= 2 /\ i # 2 => i + 1 <= 2
          OBVIOUS
        <5>2. Len(found[l]) + 1 <= 2
          BY <3>1, <3>3, <5>1, Zenon
        <5>. QED
          BY <3>4, <5>2, Zenon
      <4>2. pc'[l] = "get" /\ target'[l] # 0 /\ call[l].kind = "directory"
        BY <1>1, <1>2, <2>1, <2>4, <3>3 DEF Flow
      <4>. QED
        BY <1>1, <2>1, <4>1, <4>2 DEF Flow
    <3>. QED
      BY <3>2, <3>3
  <2>. QED
    BY <2>3, <2>4
<1>10. FlowInv'
  <2>1. \A n \in NodeIds : nodes'[n] = nodes[n]
    BY <1>1
  <2>. QED
    BY <1>1, <1>2, <1>3, <1>9, <2>1, OthersFlow
<1>. QED
  BY <1>4, <1>5, <1>6, <1>7, <1>8, <1>10 DEF TypeInv, TypeOK

\* An append works on a Registry that exists.
LEMMA TargetExists ==
  ASSUME TypeInv, NEW l \in Lookers, pc[l] \in {"add", "store"}
  PROVE  target[l] \in DOMAIN lists /\ lists[target[l]] \subseteq NodeIds
<1>1. target[l] \in 1..Len(lists)
  <2>1. target[l] # 0
    BY DEF TypeInv, FlowInv, Flow
  <2>2. target[l] \in 0..Len(lists) /\ Len(lists) \in Nat
    BY DEF TypeInv, TypeOK, LookersOK, ListsOK
  <2>. QED
    BY <2>1, <2>2
<1>. QED
  BY <1>1 DEF TypeInv, TypeOK, ListsOK

LEMMA AddLoadType ==
  ASSUME TypeInv, NEW l \in Lookers, AddLoad(l)
  PROVE  TypeInv'
<1>1. lists[target[l]] \subseteq NodeIds
  BY TargetExists DEF AddLoad, Goto
<1>2. /\ snapshot' \in [Lookers -> SUBSET NodeIds]
      /\ pc' \in [Lookers -> {"idle", "lookup", "lock"} \cup LockedPCs]
      /\ pc[l] = "add" /\ pc'[l] = "store"
      /\ \A m \in Lookers \ {l} : pc'[m] = pc[m]
      /\ UNCHANGED <<instances, lists, nodes, nodeClosed, call, target, found, lookups,
                     closeVars, crashed, histVars>>
  BY <1>1 DEF AddLoad, Goto, TypeInv, TypeOK, LookersOK, LockedPCs
<1>3. ListsOK' /\ NodesOK' /\ LookersOK' /\ CloseOK' /\ NamesInv'
  BY <1>2 DEF TypeInv, TypeOK, ListsOK, NodesOK, LookersOK, CloseOK, NamesInv, NodeIds,
     closeVars, histVars
<1>4. Flow(l)'
  <2>1. Flow(l)
    BY DEF TypeInv, FlowInv
  <2>. QED
    BY <1>2, <2>1 DEF Flow
<1>5. FlowInv'
  BY <1>2, <1>4, OthersFlow
<1>. QED
  BY <1>3, <1>5 DEF TypeInv, TypeOK

\* The node an append adds.
LEMMA NewNodeType ==
  ASSUME TypeInv, NEW l \in Lookers, pc[l] = "store"
  PROVE  /\ NewNode(l) \in [parent : Nat, kind : Kinds, client : Clients, home : Nat,
                            services : [Kinds -> Nat]]
         /\ NewNode(l).parent \in 0..Len(nodes)
         /\ NewNode(l).home \in DOMAIN lists
         /\ NewNode(l).kind = "directory" => NewNode(l).services \in [Kinds -> DOMAIN lists]
<1>1. /\ Len(nodes) \in Nat /\ Len(lists) \in Nat /\ DOMAIN lists = 1..Len(lists)
      /\ call[l].parent \in 0..Len(nodes) /\ call[l].kind \in Kinds /\ call[l].client \in Clients
  BY DEF TypeInv, TypeOK, LookersOK, NodesOK, ListsOK
<1>2. target[l] \in DOMAIN lists
  BY TargetExists
<1>3. CASE call[l].kind = "directory"
  <2>1. /\ found[l][1] \in DOMAIN lists /\ found[l][2] \in DOMAIN lists
        /\ found[l][3] \in DOMAIN lists
    <3>1. found[l] \in Seq(DOMAIN lists) /\ Len(found[l]) = 3
      BY <1>3 DEF TypeInv, TypeOK, LookersOK, FlowInv, Flow
    <3>. QED
      BY <3>1, LenProperties
  <2>2. Services(l) = [k \in Kinds |-> CASE k = "directory" -> found[l][1]
                                         [] k = "streamable" -> found[l][2]
                                         [] OTHER -> found[l][3]]
    BY <1>3 DEF Services, Kinds
  <2>3. Services(l) \in [Kinds -> DOMAIN lists]
    BY <2>1, <2>2 DEF Kinds
  <2>4. Services(l) \in [Kinds -> Nat]
    BY <1>1, <2>3
  <2>. QED
    BY <1>1, <1>2, <2>3, <2>4 DEF NewNode
<1>4. CASE call[l].kind # "directory"
  <2>1. Services(l) \in [Kinds -> Nat]
    BY <1>4 DEF Services
  <2>. QED
    BY <1>1, <1>2, <1>4, <2>1 DEF NewNode
<1>. QED
  BY <1>3, <1>4

\* What an append changes.
LEMMA StoreEffect ==
  ASSUME TypeInv, NEW l \in Lookers, AddStore(l)
  PROVE  /\ Len(nodes) \in Nat /\ Len(nodes') = Len(nodes) + 1
         /\ NodeIds' = NodeIds \cup {Len(nodes) + 1}
         /\ nodes'[Len(nodes) + 1] = NewNode(l)
         /\ \A n \in NodeIds : n # Len(nodes) + 1 /\ nodes'[n] = nodes[n]
         /\ target[l] \in DOMAIN lists
         /\ lists' \in Seq(SUBSET Nat)
         /\ Len(lists') = Len(lists) /\ DOMAIN lists' = DOMAIN lists
         /\ lists'[target[l]] = snapshot[l] \cup {Len(nodes) + 1}
         /\ \A r \in DOMAIN lists : r # target[l] => lists'[r] = lists[r]
         /\ snapshot[l] \subseteq NodeIds
<1>1. target[l] \in DOMAIN lists
  BY TargetExists DEF AddStore, Goto
<1>2. Len(nodes) \in Nat /\ snapshot[l] \subseteq NodeIds
  BY DEF TypeInv, TypeOK, NodesOK, LookersOK
<1>3. snapshot[l] \cup {Len(nodes) + 1} \subseteq Nat
  BY <1>2 DEF NodeIds
<1>4. /\ lists' \in Seq(SUBSET Nat)
      /\ Len(lists') = Len(lists) /\ DOMAIN lists' = DOMAIN lists
      /\ lists'[target[l]] = snapshot[l] \cup {Len(nodes) + 1}
      /\ \A r \in DOMAIN lists : r # target[l] => lists'[r] = lists[r]
  <2>1. lists' = [lists EXCEPT ![target[l]] = snapshot[l] \cup {Len(nodes) + 1}]
    BY DEF AddStore
  <2>2. lists \in Seq(SUBSET Nat)
    BY DEF TypeInv, TypeOK, ListsOK
  <2>. QED
    BY <1>1, <1>3, <2>1, <2>2, ExceptSeq
<1>5. /\ Len(nodes') = Len(nodes) + 1
      /\ nodes'[Len(nodes) + 1] = NewNode(l)
      /\ \A n \in 1..Len(nodes) : nodes'[n] = nodes[n]
  <2>. DEFINE Fields == [parent : Nat, kind : Kinds, client : Clients, home : Nat,
                         services : [Kinds -> Nat]]
  <2>1. nodes \in Seq(Fields)
    BY DEF TypeInv, TypeOK, NodesOK
  <2>2. NewNode(l) \in Fields
    BY NewNodeType DEF AddStore, Goto
  <2>3. nodes' = Append(nodes, NewNode(l))
    BY DEF AddStore
  <2>. HIDE DEF Fields
  <2>. QED
    BY <2>1, <2>2, <2>3, AppendProperties
<1>. QED
  BY <1>1, <1>2, <1>4, <1>5 DEF NodeIds

LEMMA AddStoreType ==
  ASSUME TypeInv, NEW l \in Lookers, AddStore(l)
  PROVE  TypeInv'
<1>1. Len(nodes) \in Nat /\ Len(lists) \in Nat /\ NodeIds \subseteq NodeIds'
  BY StoreEffect DEF TypeInv, TypeOK, ListsOK
<1>2. ListsOK'
  <2>1. \A r \in DOMAIN lists : lists'[r] \subseteq NodeIds'
    <3>. SUFFICES ASSUME NEW r \in DOMAIN lists PROVE lists'[r] \subseteq NodeIds'
      OBVIOUS
    <3>1. CASE r = target[l]
      BY <3>1, StoreEffect
    <3>2. CASE r # target[l]
      BY <1>1, <3>2, StoreEffect DEF TypeInv, TypeOK, ListsOK
    <3>. QED
      BY <3>1, <3>2
  <2>. QED
    BY <2>1, StoreEffect DEF ListsOK, TypeInv, TypeOK, AddStore
<1>3. NodesOK'
  <2>1. nodes' \in Seq([parent : Nat, kind : Kinds, client : Clients, home : Nat,
                        services : [Kinds -> Nat]])
    <3>. DEFINE Fields == [parent : Nat, kind : Kinds, client : Clients, home : Nat,
                           services : [Kinds -> Nat]]
    <3>1. nodes \in Seq(Fields)
      BY DEF TypeInv, TypeOK, NodesOK
    <3>2. NewNode(l) \in Fields
      BY NewNodeType DEF AddStore, Goto
    <3>3. nodes' = Append(nodes, NewNode(l))
      BY DEF AddStore
    <3>. HIDE DEF Fields
    <3>4. nodes' \in Seq(Fields)
      BY <3>1, <3>2, <3>3, AppendProperties
    <3>. QED
      BY <3>4 DEF Fields
  <2>2. ASSUME NEW n \in NodeIds'
        PROVE  /\ nodes'[n].parent \in 0..(n - 1)
               /\ nodes'[n].home \in DOMAIN lists'
               /\ nodes'[n].kind = "directory" => nodes'[n].services \in [Kinds -> DOMAIN lists']
    <3>1. CASE n \in NodeIds
      BY <3>1, StoreEffect DEF TypeInv, TypeOK, NodesOK
    <3>2. CASE n \notin NodeIds
      <4>1. n = Len(nodes) + 1 /\ nodes'[n] = NewNode(l) /\ DOMAIN lists' = DOMAIN lists
        BY <2>2, <3>2, StoreEffect
      <4>2. n - 1 = Len(nodes)
        BY <1>1, <4>1
      <4>. QED
        BY <4>1, <4>2, NewNodeType DEF AddStore, Goto
    <3>. QED
      BY <3>1, <3>2
  <2>. QED
    BY <2>1, <2>2 DEF NodesOK
<1>4. LookersOK'
  <2>1. call' \in [Lookers -> [parent : 0..Len(nodes'), kind : Kinds, client : Clients]]
    <3>1. 0..Len(nodes) \subseteq 0..Len(nodes') /\ 0 \in 0..Len(nodes')
      BY StoreEffect
    <3>2. NoCall \in [parent : 0..Len(nodes'), kind : Kinds, client : Clients]
      BY <3>1, NoCallType
    <3>3. call \in [Lookers -> [parent : 0..Len(nodes'), kind : Kinds, client : Clients]]
      BY <3>1 DEF TypeInv, TypeOK, LookersOK
    <3>. QED
      BY <3>2, <3>3 DEF AddStore, Forget
  <2>2. target' \in [Lookers -> 0..Len(lists')] /\ found' \in [Lookers -> Seq(DOMAIN lists')]
    BY <1>1, StoreEffect DEF AddStore, Forget, TypeInv, TypeOK, LookersOK
  <2>3. snapshot' \in [Lookers -> SUBSET NodeIds']
    BY <1>1 DEF AddStore, Forget, TypeInv, TypeOK, LookersOK
  <2>4. pc' \in [Lookers -> {"idle", "lookup", "lock"} \cup LockedPCs] /\ UNCHANGED lookups
    BY DEF AddStore, Goto, TypeInv, TypeOK, LookersOK
  <2>. QED
    BY <2>1, <2>2, <2>3, <2>4 DEF LookersOK, TypeInv, TypeOK
<1>5. CloseOK'
  <2>1. early' \subseteq NodeIds' /\ lost' \subseteq NodeIds'
    BY StoreEffect DEF AddStore, TypeInv, TypeOK, CloseOK, ListsOK
  <2>. QED
    BY <1>1, <2>1, StoreEffect DEF CloseOK, TypeInv, TypeOK, AddStore, closeVars
<1>6. NamesInv'
  BY DEF AddStore, NamesInv, TypeInv
<1>7. Flow(l)'
  <2>1. NoCall.parent = Root
    BY DEF NoCall
  <2>. QED
    BY <2>1 DEF AddStore, Goto, Forget, Flow, TypeInv, TypeOK, LookersOK
<1>8. FlowInv'
  <2>1. \A n \in NodeIds : nodes'[n] = nodes[n]
    BY StoreEffect
  <2>2. \A m \in Lookers \ {l} :
          pc'[m] = pc[m] /\ call'[m] = call[m] /\ target'[m] = target[m] /\ found'[m] = found[m]
    BY DEF AddStore, Goto, Forget, TypeInv, TypeOK, LookersOK
  <2>. QED
    BY <1>7, <2>1, <2>2, OthersFlow
<1>. QED
  BY <1>2, <1>3, <1>4, <1>5, <1>6, <1>8 DEF TypeInv, TypeOK

\* Close, and the end of a process whose map is used while it is written.
LEMMA CloseType ==
  ASSUME TypeInv, CloseStep \/ MapFault
  PROVE  TypeInv'
<1>1. UNCHANGED <<instances, nodes, pc, lookVars, lookups>>
  BY DEF CloseStep, MapFault, CloseCalled, RangeNext, DropList, NodeCloses, CloseWaits, RangeEnd,
     Closer
<1>2. /\ lists' \in Seq(SUBSET Nat) /\ Len(lists') = Len(lists) /\ DOMAIN lists' = DOMAIN lists
      /\ \A r \in DOMAIN lists : lists'[r] \subseteq lists[r]
  <2>1. lists \in Seq(SUBSET Nat)
    BY DEF TypeInv, TypeOK, ListsOK
  <2>2. CASE DropList
    <3>1. lists' = [lists EXCEPT ![current] = {}] /\ {} \in SUBSET Nat
      BY <2>2 DEF DropList
    <3>2. DOMAIN lists = 1..Len(lists)
      BY <2>1
    <3>3. CASE current \in 1..Len(lists)
      BY <2>1, <3>1, <3>2, <3>3, ExceptSeq
    <3>4. CASE current \notin 1..Len(lists)
      <4>1. lists \in [1..Len(lists) -> SUBSET Nat]
        BY <2>1, LenProperties
      <4>2. lists' = lists
        BY <3>1, <3>4, <4>1
      <4>. QED
        BY <2>1, <4>2
    <3>. QED
      BY <3>3, <3>4
  <2>3. CASE UNCHANGED lists
    BY <2>1, <2>3
  <2>. QED
    BY <2>2, <2>3 DEF CloseStep, MapFault, CloseCalled, RangeNext, NodeCloses, CloseWaits, RangeEnd
<1>3. ListsOK' /\ NodesOK' /\ LookersOK' /\ NamesInv'
  BY <1>1, <1>2 DEF TypeInv, TypeOK, ListsOK, NodesOK, LookersOK, NamesInv, NodeIds, lookVars
<1>4. CloseOK'
  <2>1. CASE CloseCalled
    BY <1>1, <1>2, <2>1 DEF CloseCalled, Closer, TypeInv, TypeOK, CloseOK, NodeIds, histVars
  <2>2. ASSUME NEW x \in Names, RangeNext(x) PROVE CloseOK'
    <3>1. instances[x] \in 1..Len(lists) /\ instances[x] \in 0..Len(lists)
      BY <2>2 DEF RangeNext, TypeInv, TypeOK, ListsOK
    <3>2. lists[instances[x]] \subseteq NodeIds
      BY <3>1 DEF TypeInv, TypeOK, ListsOK
    <3>. QED
      BY <1>1, <1>2, <2>2, <3>1, <3>2 DEF RangeNext, Closer, TypeInv, TypeOK, CloseOK, NodeIds,
         histVars
  <2>3. CASE DropList
    BY <1>1, <1>2, <2>3 DEF DropList, Closer, TypeInv, TypeOK, CloseOK, NodeIds, histVars
  <2>4. ASSUME NEW n \in NodeIds, NodeCloses(n) PROVE CloseOK'
    BY <1>1, <1>2, <2>4 DEF NodeCloses, TypeInv, TypeOK, CloseOK, NodeIds, histVars
  <2>5. CASE CloseWaits
    <3>1. 0 \in 0..Len(lists')
      BY <1>2 DEF TypeInv, TypeOK, ListsOK
    <3>. QED
      BY <1>1, <1>2, <2>5, <3>1 DEF CloseWaits, Closer, TypeInv, TypeOK, CloseOK, NodeIds, histVars
  <2>6. CASE RangeEnd
    BY <1>1, <1>2, <2>6 DEF RangeEnd, Closer, TypeInv, TypeOK, CloseOK, NodeIds, histVars
  <2>7. CASE MapFault
    BY <1>1, <1>2, <2>7 DEF MapFault, TypeInv, TypeOK, CloseOK, NodeIds, closeVars, histVars
  <2>. QED
    BY <2>1, <2>2, <2>3, <2>4, <2>5, <2>6, <2>7 DEF CloseStep
<1>5. FlowInv'
  BY <1>1 DEF TypeInv, FlowInv, Flow, lookVars
<1>. QED
  BY <1>3, <1>4, <1>5 DEF TypeInv, TypeOK

LEMMA StepType == TypeInv /\ [Next]_vars => TypeInv'
<1>. SUFFICES ASSUME TypeInv, [Next]_vars PROVE TypeInv'
  OBVIOUS
<1>1. ASSUME NEW l \in Lookers, LookStep(l) PROVE TypeInv'
  <2>1. CASE CallRoot(l) \/ CallDirectory(l)
    BY <2>1, CallType
  <2>2. CASE DirectoryIsClosed(l) \/ LookupFails(l) \/ InstanceFails(l) \/ InfoFails(l)
    BY <2>2, FailType DEF DirectoryIsClosed, LookupFails, InstanceFails, InfoFails
  <2>3. CASE \/ RootFound(l) \/ Lock(l) \/ InstanceMissing(l) \/ InstanceWrites(l)
             \/ InfoAnswers(l)
    BY <2>3, PassType
  <2>4. CASE DirectoryFound(l)
    BY <2>4, DirectoryFoundType
  <2>5. CASE InstanceFound(l) \/ InstanceWritten(l)
    BY <2>5, GotType
  <2>6. CASE AddLoad(l)
    BY <2>6, AddLoadType
  <2>7. CASE AddStore(l)
    BY <2>7, AddStoreType
  <2>. QED
    BY <1>1, <2>1, <2>2, <2>3, <2>4, <2>5, <2>6, <2>7 DEF LookStep
<1>2. CASE CloseStep \/ MapFault
  BY <1>2, CloseType
<1>3. CASE UNCHANGED vars
  BY <1>3 DEF vars, lookVars, closeVars, histVars, TypeInv, TypeOK, ListsOK, NodesOK, LookersOK,
     CloseOK, FlowInv, Flow, NamesInv, NodeIds
<1>. QED
  BY <1>1, <1>2, <1>3 DEF Next, Rest

-----------------------------------------------------------------------------
(* Close and the nodes returned before it. *)

\* What a step of a looker leaves to Close.
LEMMA LookKeepsClose ==
  ASSUME TypeInv, NEW l \in Lookers, LookStep(l)
  PROVE  /\ UNCHANGED <<nodeClosed, closeVars>>
         /\ \A x \in Names : instances'[x] = instances[x] \/ instances'[x] = Len(lists) + 1
<1>1. UNCHANGED <<nodeClosed, closeVars>>
  BY DEF LookStep, CallRoot, CallDirectory, CallLookup, DirectoryIsClosed, LookupFails, RootFound,
     DirectoryFound, Lock, InstanceFails, InstanceFound, InstanceMissing, InstanceWrites,
     InstanceWritten, InfoFails, InfoAnswers, AddLoad, AddStore, Pass, Fail, Got
<1>2. CASE InstanceWritten(l)
  BY <1>1, <1>2 DEF InstanceWritten, TypeInv, TypeOK, ListsOK
<1>3. CASE UNCHANGED instances
  BY <1>1, <1>3
<1>4. InstanceWritten(l) \/ UNCHANGED instances
  BY DEF LookStep, CallRoot, CallDirectory, CallLookup, DirectoryIsClosed, LookupFails, RootFound,
     DirectoryFound, Lock, InstanceFails, InstanceFound, InstanceMissing, InstanceWrites,
     InfoFails, InfoAnswers, AddLoad, AddStore, Pass, Fail, Got
<1>. QED
  BY <1>1, <1>2, <1>3, <1>4

LEMMA LookKeepsCloseInv ==
  ASSUME TypeInv, CloseInv, NEW l \in Lookers, LookStep(l)
  PROVE  CloseInv'
<1>1. current # Len(lists) + 1
  <2>1. current \in 0..Len(lists) /\ Len(lists) \in Nat
    BY DEF TypeInv, TypeOK, CloseOK, ListsOK
  <2>. QED
    BY <2>1
<1>. QED
  BY <1>1, LookKeepsClose DEF CloseInv, closeVars

LEMMA CloseKeepsCloseInv ==
  ASSUME TypeInv, CloseInv, CloseStep \/ MapFault
  PROVE  CloseInv'
<1>1. CASE CloseCalled
  BY <1>1 DEF CloseCalled, Closer, CloseInv
<1>2. ASSUME NEW x \in Names, RangeNext(x) PROVE CloseInv'
  <2>1. \A y \in Names \ visited' : instances'[y] # current'
    BY <1>2 DEF RangeNext, Closer, TypeInv, NamesInv
  <2>. QED
    BY <1>2, <2>1 DEF RangeNext, Closer, CloseInv
<1>3. CASE DropList \/ CloseWaits \/ RangeEnd
  BY <1>3 DEF DropList, CloseWaits, RangeEnd, Closer, CloseInv
<1>4. ASSUME NEW n \in NodeIds, NodeCloses(n) PROVE CloseInv'
  BY <1>4 DEF NodeCloses, CloseInv
<1>5. CASE MapFault
  BY <1>5 DEF MapFault, closeVars, CloseInv
<1>. QED
  BY <1>1, <1>2, <1>3, <1>4, <1>5 DEF CloseStep

\* A node is in a Registry that exists.
LEMMA HomeIsMade ==
  ASSUME TypeInv, NEW n \in NodeIds
  PROVE  nodes[n].home \in 1..Len(lists) /\ nodes[n].home # Len(lists) + 1
<1>1. nodes[n].home \in DOMAIN lists
  BY DEF TypeInv, TypeOK, NodesOK
<1>2. DOMAIN lists = 1..Len(lists) /\ Len(lists) \in Nat
  BY DEF TypeInv, TypeOK, ListsOK
<1>. QED
  BY <1>1, <1>2

LEMMA HomeExists ==
  ASSUME TypeInv, NEW n \in early
  PROVE  n \in NodeIds /\ nodes[n].home \in 1..Len(lists)
<1>1. n \in NodeIds
  BY DEF TypeInv, TypeOK, CloseOK
<1>. QED
  BY <1>1, HomeIsMade

LEMMA LookKeepsEarly ==
  ASSUME TypeInv, CloseInv, EarlyInv, NEW l \in Lookers, LookStep(l)
  PROVE  EarlyInv'
<1>. SUFFICES ASSUME NEW n \in early', NEW x \in Names, instances'[x] = nodes'[n].home
              PROVE  /\ closer' # "idle" => x \in pending'
                     /\ \/ n \in lost' \cup closing' \cup nodeClosed'
                        \/ n \in lists'[nodes'[n].home] /\ x \notin visited'
  BY DEF EarlyInv
<1>1. CASE AddStore(l)
  <2>1. CASE n \in early
    <3>1. nodes'[n].home = nodes[n].home /\ nodes[n].home \in DOMAIN lists
      BY <1>1, <2>1, HomeExists, StoreEffect DEF TypeInv, TypeOK, ListsOK
    <3>2. instances[x] = nodes[n].home
      BY <1>1, <3>1 DEF AddStore
    <3>3. n \in lists[nodes[n].home] => n \in lists'[nodes[n].home] \/ n \in lost'
      <4>1. CASE nodes[n].home = target[l]
        BY <1>1, <4>1, StoreEffect DEF AddStore
      <4>2. CASE nodes[n].home # target[l]
        BY <1>1, <3>1, <4>2, StoreEffect
      <4>. QED
        BY <4>1, <4>2
    <3>4. lost \subseteq lost' /\ UNCHANGED <<nodeClosed, closeVars>>
      BY <1>1 DEF AddStore
    <3>. QED
      BY <2>1, <3>1, <3>2, <3>3, <3>4 DEF EarlyInv, closeVars
  <2>2. CASE n \notin early
    <3>1. n = Len(nodes) + 1 /\ closer = "idle"
      BY <1>1, <2>2 DEF AddStore
    <3>2. nodes'[n].home = target[l] /\ n \in lists'[target[l]]
      <4>1. NewNode(l).home = target[l]
        BY DEF NewNode
      <4>. QED
        BY <1>1, <3>1, <4>1, StoreEffect
    <3>. QED
      BY <1>1, <3>1, <3>2 DEF AddStore, closeVars, CloseInv
  <2>. QED
    BY <2>1, <2>2
<1>2. CASE InstanceFound(l) \/ InstanceWritten(l)
  <2>1. UNCHANGED <<nodes, nodeClosed, closeVars, histVars>>
    BY <1>2 DEF InstanceFound, InstanceWritten, Got
  <2>2. n \in early /\ nodes'[n].home = nodes[n].home
    BY <2>1 DEF histVars
  <2>3. nodes[n].home \in 1..Len(lists) /\ Len(lists) \in Nat
    BY <2>2, HomeExists DEF TypeInv, TypeOK, ListsOK
  <2>4. instances[x] = nodes[n].home
    <3>1. nodes[n].home # Len(lists) + 1
      BY <2>3
    <3>. QED
      BY <2>2, <3>1, LookKeepsClose
  <2>5. lists'[nodes[n].home] = lists[nodes[n].home]
    BY <1>2, <2>3, ListsGrow
  <2>. QED
    BY <2>1, <2>2, <2>4, <2>5 DEF EarlyInv, closeVars, histVars
<1>3. CASE UNCHANGED <<instances, lists, nodes, nodeClosed, closeVars, histVars>>
  BY <1>3 DEF EarlyInv, closeVars, histVars
<1>4. \/ AddStore(l) \/ InstanceFound(l) \/ InstanceWritten(l)
      \/ UNCHANGED <<instances, lists, nodes, nodeClosed, closeVars, histVars>>
  BY DEF LookStep, CallRoot, CallDirectory, CallLookup, DirectoryIsClosed, LookupFails, RootFound,
     DirectoryFound, Lock, InstanceFails, InstanceMissing, InstanceWrites, InfoFails, InfoAnswers,
     AddLoad, Pass, Fail
<1>. QED
  BY <1>1, <1>2, <1>3, <1>4

LEMMA CloseKeepsEarly ==
  ASSUME TypeInv, CloseInv, EarlyInv, CloseStep \/ MapFault
  PROVE  EarlyInv'
<1>. SUFFICES ASSUME NEW n \in early', NEW x \in Names, instances'[x] = nodes'[n].home
              PROVE  /\ closer' # "idle" => x \in pending'
                     /\ \/ n \in lost' \cup closing' \cup nodeClosed'
                        \/ n \in lists'[nodes'[n].home] /\ x \notin visited'
  BY DEF EarlyInv
<1>1. UNCHANGED <<instances, nodes, histVars>>
  BY DEF CloseStep, MapFault, CloseCalled, RangeNext, DropList, NodeCloses, CloseWaits, RangeEnd,
     Closer
<1>2. n \in early /\ instances[x] = nodes[n].home /\ nodes'[n].home = nodes[n].home
  BY <1>1 DEF histVars
<1>3. nodes[n].home \in 1..Len(lists)
  BY <1>2, HomeExists
<1>4. /\ closer # "idle" => x \in pending
      /\ n \in lost \cup closing \cup nodeClosed \/ (n \in lists[nodes[n].home] /\ x \notin visited)
  BY <1>2 DEF EarlyInv
<1>5. CASE CloseCalled
  <2>1. nodes[n].home # 0
    BY <1>3 DEF TypeInv, TypeOK, ListsOK
  <2>. QED
    BY <1>1, <1>2, <1>4, <1>5, <2>1 DEF CloseCalled, Closer, histVars
<1>6. ASSUME NEW y \in Names, RangeNext(y)
      PROVE  /\ closer' # "idle" => x \in pending'
             /\ \/ n \in lost' \cup closing' \cup nodeClosed'
                \/ n \in lists'[nodes'[n].home] /\ x \notin visited'
  <2>1. closing = {} /\ closer # "idle"
    BY <1>6 DEF RangeNext, Closer, CloseInv
  <2>2. CASE x = y
    BY <1>1, <1>2, <1>4, <1>6, <2>1, <2>2 DEF RangeNext, Closer, histVars
  <2>3. CASE x # y
    BY <1>1, <1>2, <1>4, <1>6, <2>1, <2>3 DEF RangeNext, Closer, histVars
  <2>. QED
    BY <2>2, <2>3
<1>7. CASE DropList
  <2>1. x \notin visited => nodes[n].home # current
    BY <1>2, <1>7 DEF DropList, Closer, CloseInv
  <2>2. x \notin visited => lists'[nodes[n].home] = lists[nodes[n].home]
    BY <1>3, <1>7, <2>1 DEF DropList, TypeInv, TypeOK, ListsOK
  <2>. QED
    BY <1>1, <1>2, <1>4, <1>7, <2>2 DEF DropList, Closer, histVars
<1>8. ASSUME NEW k \in NodeIds, NodeCloses(k)
      PROVE  /\ closer' # "idle" => x \in pending'
             /\ \/ n \in lost' \cup closing' \cup nodeClosed'
                \/ n \in lists'[nodes'[n].home] /\ x \notin visited'
  BY <1>1, <1>2, <1>4, <1>8 DEF NodeCloses, histVars
<1>9. CASE CloseWaits \/ RangeEnd
  BY <1>1, <1>2, <1>4, <1>9 DEF CloseWaits, RangeEnd, Closer, histVars
<1>10. CASE MapFault
  BY <1>1, <1>2, <1>4, <1>10 DEF MapFault, closeVars, histVars
<1>. QED
  BY <1>5, <1>6, <1>7, <1>8, <1>9, <1>10 DEF CloseStep

-----------------------------------------------------------------------------
(* The lock of a service and the appends. *)

\* What a step of a looker does to the locks.
LEMMA LookLocks ==
  ASSUME TypeInv, NEW l \in Lookers, LookStep(l)
  PROVE  /\ \A m \in Lookers \ {l} : pc'[m] = pc[m] /\ call'[m] = call[m]
         /\ \/ pc'[l] \notin LockedPCs
            \/ pc[l] \in LockedPCs /\ call'[l] = call[l]
            \/ call'[l].parent = Root
            \/ call'[l] = call[l] /\ \A m \in Lookers : pc[m] \in LockedPCs => ~SameService(l, m)
<1>. USE DEF TypeInv, TypeOK, LookersOK, Goto
<1>1. CASE CallRoot(l) \/ CallDirectory(l)
  <2>1. PICK request : CallLookup(l, request)
    BY <1>1 DEF CallRoot, CallDirectory
  <2>. QED
    BY <2>1 DEF CallLookup, LockedPCs
<1>2. CASE DirectoryIsClosed(l) \/ LookupFails(l) \/ InstanceFails(l) \/ InfoFails(l)
  BY <1>2 DEF DirectoryIsClosed, LookupFails, InstanceFails, InfoFails, Fail, Forget, LockedPCs
<1>3. CASE RootFound(l) \/ Lock(l)
  BY <1>3 DEF RootFound, Lock, Pass, lookVars
<1>4. CASE InstanceMissing(l) \/ InstanceWrites(l) \/ InfoAnswers(l)
  BY <1>4 DEF InstanceMissing, InstanceWrites, InfoAnswers, Pass, lookVars, LockedPCs
<1>5. CASE DirectoryFound(l)
  BY <1>5 DEF DirectoryFound, LockedPCs
<1>6. CASE InstanceFound(l) \/ InstanceWritten(l)
  <2>1. PICK from, r : from \in {"get", "writing"} /\ Got(l, from, r)
    BY <1>6 DEF InstanceFound, InstanceWritten
  <2>. QED
    BY <2>1 DEF Got, LockedPCs
<1>7. CASE AddLoad(l)
  BY <1>7 DEF AddLoad, LockedPCs
<1>8. CASE AddStore(l)
  BY <1>8 DEF AddStore, Forget, LockedPCs
<1>. QED
  BY <1>1, <1>2, <1>3, <1>4, <1>5, <1>6, <1>7, <1>8 DEF LookStep

LEMMA LookKeepsLock ==
  ASSUME TypeInv, LockInv, NEW l \in Lookers, LookStep(l)
  PROVE  LockInv'
<1>. SUFFICES ASSUME NEW k \in Lookers, NEW m \in Lookers, k # m,
                     pc'[k] \in LockedPCs, pc'[m] \in LockedPCs, SameService(k, m)'
              PROVE  FALSE
  BY DEF LockInv
<1>1. SameService(m, k)'
  BY DEF SameService
<1>2. CASE k # l /\ m # l
  <2>1. pc'[k] = pc[k] /\ call'[k] = call[k] /\ pc'[m] = pc[m] /\ call'[m] = call[m]
    BY <1>2, LookLocks
  <2>. QED
    BY <2>1 DEF LockInv, SameService
<1>3. ASSUME NEW o \in Lookers, o # l, pc'[l] \in LockedPCs, pc'[o] \in LockedPCs,
             SameService(l, o)'
      PROVE  FALSE
  <2>1. pc'[o] = pc[o] /\ call'[o] = call[o]
    BY <1>3, LookLocks
  <2>2. call'[l].parent # Root
    BY <1>3 DEF SameService
  <2>3. call'[l] = call[l] => SameService(l, o)
    BY <1>3, <2>1 DEF SameService
  <2>. QED
    BY <1>3, <2>1, <2>2, <2>3, LookLocks DEF LockInv
<1>. QED
  BY <1>1, <1>2, <1>3

\* The part of SnapshotInv about one looker.
Snap(l) ==
  closer = "idle" /\ pc[l] = "store" =>
    /\ snapshot[l] \subseteq lists[target[l]] \cup lost
    /\ call[l].parent # Root =>
         \A n \in lists[target[l]] :
           Service(n) = <<call[l].parent, call[l].kind>> => n \in snapshot[l] \cup lost

\* An append of l keeps what m has read.
LEMMA StoreKeepsSnap ==
  ASSUME RegistryInv, NEW l \in Lookers, AddStore(l), NEW m \in Lookers, m # l
  PROVE  Snap(m)'
<1>. SUFFICES ASSUME closer' = "idle", pc'[m] = "store" PROVE Snap(m)'
  BY DEF Snap
<1>1. /\ pc[m] = "store" /\ pc[l] = "store" /\ closer = "idle"
      /\ call'[m] = call[m] /\ target'[m] = target[m] /\ snapshot'[m] = snapshot[m]
      /\ lost' = lost \cup (lists[target[l]] \ (snapshot[l] \cup {Len(nodes) + 1}))
  BY DEF AddStore, Goto, Forget, closeVars, RegistryInv, TypeInv, TypeOK, LookersOK
<1>2. Snap(l) /\ Snap(m)
  BY DEF RegistryInv, SnapshotInv, Snap
<1>3. target[m] \in DOMAIN lists /\ lists[target[m]] \subseteq NodeIds
  BY <1>1, TargetExists DEF RegistryInv
<1>4. ASSUME NEW n \in NodeIds PROVE Service(n)' = Service(n)
  BY StoreEffect DEF Service, RegistryInv
<1>5. CASE target[m] # target[l]
  <2>1. lists'[target[m]] = lists[target[m]]
    BY <1>3, <1>5, StoreEffect DEF RegistryInv
  <2>. QED
    BY <1>1, <1>2, <1>3, <1>4, <2>1 DEF Snap
<1>6. CASE target[m] = target[l]
  <2>1. lists'[target[m]] = snapshot[l] \cup {Len(nodes) + 1} /\ snapshot[l] \subseteq NodeIds
    BY <1>6, StoreEffect DEF RegistryInv
  <2>2. snapshot'[m] \subseteq lists'[target'[m]] \cup lost'
    BY <1>1, <1>2, <1>6, <2>1 DEF Snap
  <2>3. ASSUME call[m].parent # Root, NEW n \in lists'[target[m]],
               Service(n)' = <<call[m].parent, call[m].kind>>
        PROVE  n \in snapshot[m] \cup lost'
    <3>1. CASE n \in snapshot[l]
      <4>1. Service(n) = <<call[m].parent, call[m].kind>>
        BY <1>4, <2>1, <2>3, <3>1
      <4>2. n \in lists[target[m]] \cup lost
        BY <1>1, <1>2, <1>6, <3>1 DEF Snap
      <4>. QED
        BY <1>1, <1>2, <2>3, <4>1, <4>2 DEF Snap
    <3>2. CASE n = Len(nodes) + 1
      <4>1. Service(n)' = <<call[l].parent, call[l].kind>>
        <5>1. NewNode(l).parent = call[l].parent /\ NewNode(l).kind = call[l].kind
          BY DEF NewNode
        <5>2. nodes'[n] = NewNode(l)
          BY <3>2, StoreEffect DEF RegistryInv
        <5>. QED
          BY <5>1, <5>2 DEF Service
      <4>2. SameService(m, l)
        BY <2>3, <4>1 DEF SameService
      <4>. QED
        BY <1>1, <4>2 DEF RegistryInv, LockInv, LockedPCs
    <3>. QED
      BY <2>1, <2>3, <3>1, <3>2
  <2>. QED
    BY <1>1, <2>2, <2>3 DEF Snap
<1>. QED
  BY <1>5, <1>6

LEMMA LookKeepsSnapshots ==
  ASSUME RegistryInv, NEW l \in Lookers, LookStep(l)
  PROVE  SnapshotInv'
<1>. SUFFICES ASSUME NEW m \in Lookers PROVE Snap(m)'
  BY DEF SnapshotInv, Snap
<1>1. Snap(m) /\ TypeInv
  BY DEF RegistryInv, SnapshotInv, Snap
<1>2. CASE AddStore(l)
  <2>1. m = l => pc'[m] = "idle"
    BY <1>1, <1>2 DEF AddStore, Goto, TypeInv, TypeOK, LookersOK
  <2>. QED
    BY <1>2, <2>1, StoreKeepsSnap DEF Snap
<1>3. CASE AddLoad(l)
  <2>1. CASE m = l
    BY <1>1, <1>3, <2>1 DEF AddLoad, Snap, TypeInv, TypeOK, LookersOK, histVars
  <2>2. CASE m # l
    BY <1>1, <1>3, <2>2 DEF AddLoad, Goto, Snap, Service, TypeInv, TypeOK, LookersOK, histVars,
       closeVars
  <2>. QED
    BY <2>1, <2>2
<1>4. CASE InstanceFound(l) \/ InstanceWritten(l)
  <2>1. PICK from, r : from \in {"get", "writing"} /\ Got(l, from, r)
    BY <1>4 DEF InstanceFound, InstanceWritten
  <2>2. m = l => pc'[m] # "store"
    BY <1>1, <2>1 DEF Got, Goto, TypeInv, TypeOK, LookersOK
  <2>3. m # l => pc'[m] = pc[m] /\ target'[m] = target[m]
    BY <1>1, <2>1 DEF Got, Goto, TypeInv, TypeOK, LookersOK
  <2>4. UNCHANGED <<nodes, call, snapshot, closeVars, histVars>>
    BY <2>1 DEF Got
  <2>5. pc[m] = "store" => lists'[target[m]] = lists[target[m]]
    BY <1>1, <1>4, TargetExists, ListsGrow
  <2>. QED
    BY <1>1, <2>2, <2>3, <2>4, <2>5 DEF Snap, Service, closeVars, histVars
<1>5. CASE \/ CallRoot(l) \/ CallDirectory(l) \/ DirectoryIsClosed(l) \/ LookupFails(l)
           \/ RootFound(l) \/ DirectoryFound(l) \/ Lock(l) \/ InstanceFails(l)
           \/ InstanceMissing(l) \/ InstanceWrites(l) \/ InfoFails(l) \/ InfoAnswers(l)
  <2>1. UNCHANGED <<lists, nodes, closeVars, histVars>>
    BY <1>5 DEF CallRoot, CallDirectory, CallLookup, DirectoryIsClosed, LookupFails, RootFound,
       DirectoryFound, Lock, InstanceFails, InstanceMissing, InstanceWrites, InfoFails,
       InfoAnswers, Pass, Fail
  <2>2. m = l => pc'[m] # "store"
    BY <1>1, <1>5 DEF CallRoot, CallDirectory, CallLookup, DirectoryIsClosed, LookupFails,
       RootFound, DirectoryFound, Lock, AfterLock, InstanceFails, InstanceMissing, InstanceWrites,
       InfoFails, InfoAnswers, Pass, Fail, Goto, TypeInv, TypeOK, LookersOK
  <2>3. m # l => /\ pc'[m] = pc[m] /\ call'[m] = call[m] /\ target'[m] = target[m]
                 /\ snapshot'[m] = snapshot[m]
    BY <1>1, <1>5 DEF CallRoot, CallDirectory, CallLookup, DirectoryIsClosed, LookupFails,
       RootFound, DirectoryFound, Lock, InstanceFails, InstanceMissing, InstanceWrites, InfoFails,
       InfoAnswers, Pass, Fail, Forget, Goto, TypeInv, TypeOK, LookersOK, lookVars
  <2>. QED
    BY <1>1, <2>1, <2>2, <2>3 DEF Snap, Service, closeVars, histVars
<1>. QED
  BY <1>2, <1>3, <1>4, <1>5 DEF LookStep

LEMMA CloseKeepsLock ==
  ASSUME LockInv, SnapshotInv, CloseStep \/ MapFault
  PROVE  LockInv' /\ SnapshotInv'
<1>1. UNCHANGED <<nodes, pc, call, target, snapshot, lost>>
  BY DEF CloseStep, MapFault, CloseCalled, RangeNext, DropList, NodeCloses, CloseWaits, RangeEnd,
     Closer, lookVars, histVars
<1>2. closer' = "idle" => closer = "idle" /\ UNCHANGED lists
  BY DEF CloseStep, MapFault, CloseCalled, RangeNext, DropList, NodeCloses, CloseWaits, RangeEnd,
     Closer, closeVars
<1>3. LockInv'
  BY <1>1 DEF LockInv, SameService
<1>4. SnapshotInv'
  BY <1>1, <1>2 DEF SnapshotInv, Service
<1>. QED
  BY <1>3, <1>4

-----------------------------------------------------------------------------
(* The theorems. *)

LEMMA InitInv == Init => RegistryInv
<1>. SUFFICES ASSUME Init PROVE RegistryInv
  OBVIOUS
<1>1. CloseInv /\ EarlyInv
  BY DEF Init, CloseInv, EarlyInv
<1>2. LockInv /\ SnapshotInv
  BY DEF Init, LockInv, SnapshotInv, LockedPCs
<1>. QED
  BY <1>1, <1>2, InitTypes DEF RegistryInv

LEMMA StepInv == RegistryInv /\ [Next]_vars => RegistryInv'
<1>. SUFFICES ASSUME RegistryInv, [Next]_vars PROVE RegistryInv'
  OBVIOUS
<1>1. TypeInv'
  BY StepType DEF RegistryInv
<1>2. ASSUME NEW l \in Lookers, LookStep(l)
      PROVE  CloseInv' /\ EarlyInv' /\ LockInv' /\ SnapshotInv'
  BY <1>2, LookKeepsCloseInv, LookKeepsEarly, LookKeepsLock, LookKeepsSnapshots DEF RegistryInv
<1>3. CASE CloseStep \/ MapFault
  BY <1>1, <1>3, CloseKeepsCloseInv, CloseKeepsEarly, CloseKeepsLock DEF RegistryInv
<1>4. CASE UNCHANGED vars
  <2>1. CloseInv' /\ EarlyInv'
    BY <1>4 DEF vars, closeVars, histVars, CloseInv, EarlyInv, RegistryInv
  <2>2. LockInv' /\ SnapshotInv'
    BY <1>4 DEF vars, lookVars, closeVars, histVars, LockInv, SameService, SnapshotInv, Service,
       RegistryInv
  <2>. QED
    BY <1>1, <2>1, <2>2 DEF RegistryInv
<1>. QED
  BY <1>1, <1>2, <1>3, <1>4 DEF Next, Rest, RegistryInv

LEMMA Inductive == Spec => []RegistryInv
  BY InitInv, StepInv, PTL DEF Spec

\* The lists, the nodes and what a looker has found keep their types: the
\* services of a directory refer to Registries that exist.
THEOREM RegistryTyping == Spec => []TypeOK
<1>1. RegistryInv => TypeOK
  BY DEF RegistryInv, TypeInv
<1>. QED
  BY <1>1, Inductive, PTL

\* With any number of lookups and file servers beside it, a Close that has run
\* to its end has closed every node that was returned before it began, but
\* those an append has written over and those of a Registry the map has lost.
THEOREM CloseReaches == Spec => []CloseReachesNodes
<1>1. RegistryInv => CloseReachesNodes
  BY DEF RegistryInv, CloseInv, EarlyInv, CloseReachesNodes, Listed
<1>. QED
  BY <1>1, Inductive, PTL

\* Until Close begins, an append writes over nodes of other services only, or
\* comes from the root, whose services nothing shares.
THEOREM LossesAcrossServices == Spec => LossOnlyAcrossServices
<1>. DEFINE LossOK ==
       closer = "idle" => \A n \in lost' \ lost :
         \E l \in Lookers :
           /\ pc[l] = "store" /\ pc'[l] = "idle"
           /\ call[l].parent = Root \/ Service(n) # <<call[l].parent, call[l].kind>>
<1>1. ASSUME RegistryInv, [Next]_vars PROVE [LossOK]_vars
  <2>. SUFFICES ASSUME closer = "idle", NEW n \in lost' \ lost
                PROVE  \E l \in Lookers :
                         /\ pc[l] = "store" /\ pc'[l] = "idle"
                         /\ \/ call[l].parent = Root
                            \/ Service(n) # <<call[l].parent, call[l].kind>>
    OBVIOUS
  <2>1. PICK l \in Lookers : AddStore(l)
    BY <1>1 DEF Next, Rest, LookStep, CallRoot, CallDirectory, CallLookup, DirectoryIsClosed,
       LookupFails, RootFound, DirectoryFound, Lock, InstanceFails, InstanceFound, InstanceMissing,
       InstanceWrites, InstanceWritten, InfoFails, InfoAnswers, AddLoad, Pass, Fail, Got, CloseStep,
       MapFault, CloseCalled, RangeNext, DropList, NodeCloses, CloseWaits, RangeEnd, Closer, vars,
       histVars
  <2>2. pc[l] = "store" /\ pc'[l] = "idle"
    BY <1>1, <2>1 DEF AddStore, Goto, RegistryInv, TypeInv, TypeOK, LookersOK
  <2>3. n \in lists[target[l]] /\ n \notin snapshot[l] /\ n \notin lost
    BY <2>1 DEF AddStore
  <2>. QED
    BY <1>1, <2>2, <2>3 DEF RegistryInv, SnapshotInv
<1>2. RegistryInv /\ [Next]_vars => [LossOK]_vars
  BY <1>1
<1>3. LossOnlyAcrossServices <=> [][LossOK]_vars
  BY DEF LossOnlyAcrossServices
<1>. QED
  BY <1>2, <1>3, Inductive, PTL DEF Spec

-----------------------------------------------------------------------------
(* No node is closed twice. *)

\* A node is in the list of one Registry only, whoever writes it.
HomeInv ==
  /\ \A r \in DOMAIN lists, n \in NodeIds : n \in lists[r] => nodes[n].home = r
  /\ \A l \in Lookers, n \in NodeIds :
       pc[l] = "store" /\ n \in snapshot[l] => nodes[n].home = target[l]

\* Close has come to the Registry of each node whose Close has been started, and
\* does not come to it again.
OnceInv ==
  /\ HomeInv
  /\ \A n \in closing \cup nodeClosed, x \in Names :
       instances[x] = nodes[n].home => x \in visited
  /\ NodesClosedOnce

LEMMA StoreKeepsHome ==
  ASSUME TypeInv, HomeInv, NEW l \in Lookers, AddStore(l)
  PROVE  HomeInv'
<1>0. /\ Len(nodes) + 1 \notin NodeIds /\ NodeIds' = NodeIds \cup {Len(nodes) + 1}
      /\ nodes'[Len(nodes) + 1].home = target[l]
      /\ \A n \in NodeIds : nodes'[n] = nodes[n]
  <2>1. NewNode(l).home = target[l]
    BY DEF NewNode
  <2>2. nodes'[Len(nodes) + 1] = NewNode(l) /\ \A n \in NodeIds : nodes'[n] = nodes[n]
    BY StoreEffect
  <2>3. Len(nodes) \in Nat /\ Len(nodes') = Len(nodes) + 1
    BY DEF AddStore, TypeInv, TypeOK, NodesOK
  <2>. QED
    BY <2>1, <2>2, <2>3 DEF NodeIds
<1>1. /\ DOMAIN lists' = DOMAIN lists
      /\ lists'[target[l]] = snapshot[l] \cup {Len(nodes) + 1}
      /\ \A r \in DOMAIN lists \ {target[l]} : lists'[r] = lists[r]
  BY StoreEffect DEF AddStore
<1>2. pc[l] = "store" /\ snapshot[l] \subseteq NodeIds
  BY DEF AddStore, Goto, TypeInv, TypeOK, LookersOK
<1>3. ASSUME NEW r \in DOMAIN lists', NEW n \in NodeIds', n \in lists'[r]
      PROVE  nodes'[n].home = r
  <2>1. lists[r] \subseteq NodeIds
    BY <1>1, <1>3 DEF TypeInv, TypeOK, ListsOK
  <2>. QED
    BY <1>0, <1>1, <1>2, <1>3, <2>1 DEF HomeInv
<1>4. ASSUME NEW m \in Lookers, NEW n \in NodeIds', pc'[m] = "store", n \in snapshot'[m]
      PROVE  nodes'[n].home = target'[m]
  <2>1. m # l /\ pc[m] = "store" /\ snapshot'[m] = snapshot[m] /\ target'[m] = target[m]
    BY <1>4 DEF AddStore, Goto, Forget, TypeInv, TypeOK, LookersOK
  <2>2. n \in NodeIds
    BY <1>4, <2>1 DEF TypeInv, TypeOK, LookersOK
  <2>. QED
    BY <1>0, <1>4, <2>1, <2>2 DEF HomeInv
<1>. QED
  BY <1>3, <1>4 DEF HomeInv

LEMMA LookKeepsHome ==
  ASSUME TypeInv, HomeInv, NEW l \in Lookers, LookStep(l)
  PROVE  HomeInv'
<1>1. CASE AddStore(l)
  BY <1>1, StoreKeepsHome
<1>2. ASSUME UNCHANGED nodes,
             \A r \in DOMAIN lists' : (r \in DOMAIN lists /\ lists'[r] = lists[r]) \/ lists'[r] = {},
             \A m \in Lookers :
               pc'[m] = "store" =>
                 \/ pc[m] = "store" /\ snapshot'[m] = snapshot[m] /\ target'[m] = target[m]
                 \/ target'[m] \in DOMAIN lists /\ snapshot'[m] = lists[target'[m]]
      PROVE  HomeInv'
  BY <1>2 DEF HomeInv, NodeIds
<1>3. CASE AddLoad(l)
  <2>1. target[l] \in DOMAIN lists
    BY <1>3, TargetExists DEF AddLoad, Goto
  <2>2. \A m \in Lookers :
          IF m = l THEN snapshot'[m] = lists[target[m]]
                   ELSE pc'[m] = pc[m] /\ snapshot'[m] = snapshot[m]
    BY <1>3 DEF AddLoad, Goto, TypeInv, TypeOK, LookersOK
  <2>3. UNCHANGED <<nodes, lists, target>>
    BY <1>3 DEF AddLoad
  <2>. QED
    BY <1>2, <2>1, <2>2, <2>3
<1>4. CASE InstanceFound(l) \/ InstanceWritten(l)
  <2>1. PICK from, r : from \in {"get", "writing"} /\ Got(l, from, r)
    BY <1>4 DEF InstanceFound, InstanceWritten
  <2>2. UNCHANGED <<nodes, snapshot>>
    BY <2>1 DEF Got
  <2>3. \A m \in Lookers : pc'[m] = "store" => pc[m] = "store" /\ target'[m] = target[m]
    BY <2>1 DEF Got, Goto, TypeInv, TypeOK, LookersOK
  <2>4. \A r1 \in DOMAIN lists' :
          (r1 \in DOMAIN lists /\ lists'[r1] = lists[r1]) \/ lists'[r1] = {}
    BY <1>4, ListsGrow
  <2>. QED
    BY <1>2, <2>2, <2>3, <2>4
<1>5. CASE \/ CallRoot(l) \/ CallDirectory(l) \/ DirectoryIsClosed(l) \/ LookupFails(l)
           \/ RootFound(l) \/ DirectoryFound(l) \/ Lock(l) \/ InstanceFails(l)
           \/ InstanceMissing(l) \/ InstanceWrites(l) \/ InfoFails(l) \/ InfoAnswers(l)
  <2>1. UNCHANGED <<lists, nodes>>
    BY <1>5 DEF CallRoot, CallDirectory, CallLookup, DirectoryIsClosed, LookupFails, RootFound,
       DirectoryFound, Lock, InstanceFails, InstanceMissing, InstanceWrites, InfoFails,
       InfoAnswers, Pass, Fail
  <2>2. pc'[l] # "store"
    BY <1>5 DEF CallRoot, CallDirectory, CallLookup, DirectoryIsClosed, LookupFails,
       RootFound, DirectoryFound, Lock, AfterLock, InstanceFails, InstanceMissing, InstanceWrites,
       InfoFails, InfoAnswers, Pass, Fail, Goto, TypeInv, TypeOK, LookersOK
  <2>3. \A m \in Lookers \ {l} :
          pc'[m] = pc[m] /\ target'[m] = target[m] /\ snapshot'[m] = snapshot[m]
    BY <1>5 DEF CallRoot, CallDirectory, CallLookup, DirectoryIsClosed, LookupFails,
       RootFound, DirectoryFound, Lock, InstanceFails, InstanceMissing, InstanceWrites,
       InfoFails, InfoAnswers, Pass, Fail, Forget, Goto, TypeInv, TypeOK, LookersOK, lookVars
  <2>. QED
    BY <1>2, <2>1, <2>2, <2>3
<1>. QED
  BY <1>1, <1>3, <1>4, <1>5 DEF LookStep

LEMMA CloseKeepsHome ==
  ASSUME TypeInv, HomeInv, CloseStep \/ MapFault
  PROVE  HomeInv'
<1>1. UNCHANGED <<nodes, pc, target, snapshot>>
  BY DEF CloseStep, MapFault, CloseCalled, RangeNext, DropList, NodeCloses, CloseWaits, RangeEnd,
     Closer, lookVars
<1>2. \A r \in DOMAIN lists' : r \in DOMAIN lists /\ lists'[r] \in {lists[r], {}}
  BY DEF CloseStep, MapFault, CloseCalled, RangeNext, DropList, NodeCloses, CloseWaits, RangeEnd,
     TypeInv, TypeOK, ListsOK
<1>. QED
  BY <1>1, <1>2 DEF HomeInv, NodeIds

\* A Lookup takes no node back.
LEMMA NodesStay ==
  ASSUME TypeInv, NEW l \in Lookers, LookStep(l), NEW n \in NodeIds
  PROVE  n \in NodeIds' /\ nodes'[n] = nodes[n]
<1>1. CASE AddStore(l)
  BY <1>1, StoreEffect
<1>2. CASE ~AddStore(l)
  <2>1. UNCHANGED nodes
    BY <1>2 DEF LookStep, CallRoot, CallDirectory, CallLookup, DirectoryIsClosed, LookupFails,
       RootFound, DirectoryFound, Lock, InstanceFails, InstanceFound, InstanceMissing,
       InstanceWrites, InstanceWritten, InfoFails, InfoAnswers, AddLoad, Pass, Fail, Got
  <2>. QED
    BY <2>1 DEF NodeIds
<1>. QED
  BY <1>1, <1>2

LEMMA LookKeepsOnce ==
  ASSUME TypeInv, OnceInv, NEW l \in Lookers, LookStep(l)
  PROVE  OnceInv'
<1>1. UNCHANGED <<nodeClosed, closing, visited>>
  BY LookKeepsClose DEF closeVars
<1>2. ASSUME NEW n \in closing \cup nodeClosed, NEW x \in Names, instances'[x] = nodes'[n].home
      PROVE  x \in visited
  <2>1. n \in NodeIds
    BY DEF TypeInv, TypeOK, CloseOK
  <2>2. nodes'[n] = nodes[n]
    BY <2>1, NodesStay
  <2>3. nodes[n].home # Len(lists) + 1
    BY <2>1, HomeIsMade
  <2>. QED
    BY <1>2, <2>2, <2>3, LookKeepsClose DEF OnceInv
<1>. QED
  BY <1>1, <1>2, LookKeepsHome DEF OnceInv, NodesClosedOnce

LEMMA CloseKeepsOnce ==
  ASSUME TypeInv, CloseInv, OnceInv, CloseStep \/ MapFault
  PROVE  OnceInv'
<1>0. HomeInv' /\ UNCHANGED <<instances, nodes>>
  BY CloseKeepsHome DEF OnceInv, CloseStep, MapFault, CloseCalled, RangeNext, DropList, NodeCloses,
     CloseWaits, RangeEnd, Closer
<1>1. CASE CloseCalled \/ DropList \/ CloseWaits \/ RangeEnd \/ MapFault
  <2>1. UNCHANGED <<closing, nodeClosed, visited>>
    BY <1>1 DEF CloseCalled, DropList, CloseWaits, RangeEnd, MapFault, closeVars
  <2>. QED
    BY <1>0, <2>1 DEF OnceInv, NodesClosedOnce
<1>2. ASSUME NEW n \in NodeIds, NodeCloses(n) PROVE OnceInv'
  <2>1. /\ UNCHANGED visited /\ n \in closing
        /\ closing' = closing \ {n} /\ nodeClosed' = nodeClosed \cup {n}
    BY <1>2 DEF NodeCloses
  <2>. QED
    BY <1>0, <2>1 DEF OnceInv, NodesClosedOnce
<1>3. ASSUME NEW x \in Names, RangeNext(x) PROVE OnceInv'
  <2>1. /\ instances[x] # 0 /\ x \notin visited /\ closer = "range"
        /\ visited' = visited \cup {x} /\ closing' = lists[instances[x]]
        /\ UNCHANGED nodeClosed
    BY <1>3 DEF RangeNext, Closer
  <2>2. instances[x] \in DOMAIN lists /\ lists[instances[x]] \subseteq NodeIds
    BY <2>1 DEF TypeInv, TypeOK, ListsOK
  <2>3. \A n \in closing' : nodes[n].home = instances[x]
    BY <2>1, <2>2 DEF OnceInv, HomeInv
  <2>4. NodesClosedOnce'
    BY <2>1, <2>3 DEF OnceInv, NodesClosedOnce
  <2>5. ASSUME NEW n \in closing' \cup nodeClosed', NEW y \in Names,
               instances'[y] = nodes'[n].home
        PROVE  y \in visited'
    <3>1. CASE n \in closing'
      BY <1>0, <2>1, <2>3, <2>5, <3>1 DEF TypeInv, NamesInv
    <3>2. CASE n \in nodeClosed
      BY <1>0, <2>1, <2>5, <3>2 DEF OnceInv
    <3>. QED
      BY <2>1, <2>5, <3>1, <3>2
  <2>. QED
    BY <1>0, <2>4, <2>5 DEF OnceInv
<1>. QED
  BY <1>1, <1>2, <1>3 DEF CloseStep

\* For any number of lookups and file servers the registries start the Close of
\* a node once only.
THEOREM NodesAreClosedOnce == Spec => []NodesClosedOnce
<1>1. Init => OnceInv
  BY DEF Init, OnceInv, HomeInv, NodesClosedOnce, NodeIds
<1>2. RegistryInv /\ OnceInv /\ [Next]_vars => OnceInv'
  <2>. SUFFICES ASSUME RegistryInv, OnceInv, [Next]_vars PROVE OnceInv'
    OBVIOUS
  <2>1. CASE UNCHANGED vars
    BY <2>1 DEF vars, lookVars, closeVars, OnceInv, HomeInv, NodesClosedOnce, NodeIds
  <2>. QED
    BY <2>1, LookKeepsOnce, CloseKeepsOnce DEF Next, Rest, RegistryInv
<1>3. OnceInv => NodesClosedOnce
  BY DEF OnceInv
<1>. QED
  BY <1>1, <1>2, <1>3, Inductive, PTL DEF Spec

-----------------------------------------------------------------------------
(* The promise of a list. *)

\* A Registry the map has forgotten is not found again.
LEMMA OrphansStay ==
  ASSUME TypeInv, NEW l \in Lookers, LookStep(l)
  PROVE  Orphans \subseteq Orphans'
<1>. SUFFICES ASSUME NEW n \in Orphans PROVE n \in Orphans'
  OBVIOUS
<1>1. n \in NodeIds
  BY DEF Orphans
<1>2. n \in NodeIds' /\ nodes'[n] = nodes[n]
  BY <1>1, NodesStay
<1>3. nodes[n].home # Len(lists) + 1
  BY <1>1, HomeIsMade, Zenon
<1>. QED
  BY <1>2, <1>3, LookKeepsClose DEF Orphans, Listed

\* What a looker does to the list that the registries are together.
LEMMA LookSeen ==
  ASSUME TypeInv, NEW l \in Lookers, LookStep(l)
  PROVE  /\ UNCHANGED <<nodeClosed, closer, crashed>>
         /\ IF AddStore(l)
            THEN /\ lost \subseteq lost'
                 /\ early' = IF closer = "idle" THEN early \cup {Len(nodes) + 1} ELSE early
            ELSE UNCHANGED <<early, lost>>
  BY LookKeepsClose
     DEF LookStep, CallRoot, CallDirectory, CallLookup, DirectoryIsClosed, LookupFails, RootFound,
     DirectoryFound, Lock, InstanceFails, InstanceFound, InstanceMissing, InstanceWrites,
     InstanceWritten, InfoFails, InfoAnswers, AddLoad, AddStore, Pass, Fail, Got, histVars, closeVars

LEMMA LookIsList ==
  ASSUME TypeInv, ~crashed, NEW l \in Lookers, LookStep(l)
  PROVE  List!Next \/ UNCHANGED List!listVars
<1>1. /\ UNCHANGED <<nodeClosed, closer, crashed>>
      /\ IF AddStore(l)
         THEN /\ lost \subseteq lost'
              /\ early' = IF closer = "idle" THEN early \cup {Len(nodes) + 1} ELSE early
         ELSE UNCHANGED <<early, lost>>
  BY LookSeen
<1>2. UNCHANGED phaseBar /\ phaseBar # "crashed" /\ (closer = "idle" => phaseBar = "open")
  BY <1>1 DEF phaseBar
<1>3. lost \cup Orphans \subseteq (lost \cup Orphans)'
  BY <1>1, OrphansStay
<1>. QED
  BY <1>1, <1>2, <1>3 DEF List!Next, List!Give, List!Miss

\* Every early node is closed or missed when registry.Close has been everywhere.
LEMMA RangeEndMeetsAll ==
  ASSUME CloseInv, EarlyInv, TypeInv, RangeEnd
  PROVE  early \subseteq nodeClosed \cup (lost \cup Orphans)
  BY HomeExists DEF RangeEnd, Closer, CloseInv, EarlyInv, Orphans, Listed

LEMMA CloseIsList ==
  ASSUME CloseInv, EarlyInv, TypeInv, ~crashed, CloseStep \/ MapFault
  PROVE  List!Next \/ UNCHANGED List!listVars
<1>1. UNCHANGED <<early, lost, nodes, instances>>
  BY DEF CloseStep, CloseCalled, RangeNext, DropList, NodeCloses, CloseWaits, RangeEnd, Closer,
     MapFault, histVars
<1>2. UNCHANGED Orphans
  BY <1>1 DEF Orphans, NodeIds, Listed
<1>3. CASE CloseCalled
  BY <1>1, <1>2, <1>3 DEF CloseCalled, Closer, phaseBar, List!Next, List!Begin
<1>4. CASE DropList \/ CloseWaits \/ \E x \in Names : RangeNext(x)
  BY <1>1, <1>2, <1>4 DEF DropList, CloseWaits, RangeNext, Closer, phaseBar, List!listVars
<1>5. CASE \E n \in NodeIds : NodeCloses(n)
  BY <1>1, <1>2, <1>5 DEF NodeCloses, phaseBar, List!Next, List!Shut
<1>6. CASE MapFault
  <2>1. crashed' /\ UNCHANGED nodeClosed
    BY <1>6 DEF MapFault
  <2>2. phaseBar' = "crashed"
    BY <2>1 DEF phaseBar
  <2>. QED
    BY <1>1, <1>2, <2>1, <2>2 DEF List!Next, List!Crash
<1>7. CASE RangeEnd
  <2>1. early \subseteq nodeClosed \cup (lost \cup Orphans)
    BY <1>7, RangeEndMeetsAll
  <2>. QED
    BY <1>1, <1>2, <1>7, <2>1 DEF RangeEnd, Closer, phaseBar, List!Next, List!End
<1>. QED
  BY <1>3, <1>4, <1>5, <1>6, <1>7 DEF CloseStep

\* All registries together keep the promise of a list of nodes.
THEOREM RegistriesImplementList == Spec => ImplementsClosedList
<1>1. Init => List!Init
  BY DEF Init, List!Init, phaseBar, Orphans, NodeIds
<1>2. RegistryInv /\ [Next]_vars => [List!Next]_List!listVars
  <2>. SUFFICES ASSUME RegistryInv, [Next]_vars PROVE List!Next \/ UNCHANGED List!listVars
    OBVIOUS
  <2>1. CASE UNCHANGED vars
    BY <2>1 DEF vars, closeVars, histVars, phaseBar, Orphans, NodeIds, Listed, List!listVars
  <2>. QED
    BY <2>1, LookIsList, CloseIsList DEF Next, Rest, RegistryInv
<1>. QED
  BY <1>1, <1>2, Inductive, PTL DEF Spec, ImplementsClosedList, List!ListSpec

-----------------------------------------------------------------------------
(* The process with its registries. *)

ProcessProofs == INSTANCE ShutdownProofs WITH
  Nodes <- 1..MaxLookups, MaxSignals <- MaxLookups,
  phase <- phaseBar, given <- early, shut <- early \cap nodeClosed, missed <- lost \cup Orphans

\* The Lookups that run.
Busy == {l \in Lookers : pc[l] # "idle"}

\* Every node has had a Lookup of its own.
CountInv == IsFiniteSet(Busy) /\ Len(nodes) + Cardinality(Busy) <= lookups

LEMMA LookCounts ==
  ASSUME TypeInv, NEW l \in Lookers, LookStep(l)
  PROVE  \/ /\ pc[l] = "idle" /\ Busy' = Busy \cup {l}
            /\ lookups' = lookups + 1 /\ UNCHANGED nodes
         \/ /\ pc[l] # "idle" /\ Busy' = Busy \ {l}
            /\ UNCHANGED lookups /\ Len(nodes') <= Len(nodes) + 1
         \/ Busy' = Busy /\ UNCHANGED <<lookups, nodes>>
<1>0. pc \in [Lookers -> {"idle", "lookup", "lock"} \cup LockedPCs] /\ Len(nodes) \in Nat
  BY DEF TypeInv, TypeOK, LookersOK, NodesOK
<1>1. ASSUME NEW from, NEW to, Goto(l, from, to), from # "idle", to # "idle"
      PROVE  Busy' = Busy
  BY <1>0, <1>1 DEF Goto, Busy
<1>2. ASSUME NEW from, Goto(l, from, "idle"), from # "idle"
      PROVE  pc[l] # "idle" /\ Busy' = Busy \ {l}
  BY <1>0, <1>2 DEF Goto, Busy
<1>3. CASE CallRoot(l) \/ CallDirectory(l)
  <2>1. PICK request : CallLookup(l, request)
    BY <1>3 DEF CallRoot, CallDirectory
  <2>2. pc[l] = "idle" /\ Busy' = Busy \cup {l}
    BY <1>0, <2>1 DEF CallLookup, Goto, Busy
  <2>. QED
    BY <2>1, <2>2 DEF CallLookup
<1>4. CASE DirectoryIsClosed(l) \/ LookupFails(l) \/ InstanceFails(l) \/ InfoFails(l)
  <2>1. PICK from \in {"lookup", "get", "info"} : Fail(l, from)
    BY <1>4 DEF DirectoryIsClosed, LookupFails, InstanceFails, InfoFails
  <2>. QED
    BY <1>0, <1>2, <2>1 DEF Fail
<1>5. CASE AddStore(l)
  BY <1>0, <1>2, <1>5 DEF AddStore, NodesOK, TypeInv, TypeOK
<1>6. CASE \/ RootFound(l) \/ Lock(l) \/ InstanceMissing(l) \/ InstanceWrites(l)
           \/ InfoAnswers(l)
  <2>1. PICK from \in {"lookup", "lock", "get", "missing", "info"},
             to \in {"get", "info", "missing", "writing", "add"} : Pass(l, from, to)
    BY <1>6 DEF RootFound, Lock, AfterLock, InstanceMissing, InstanceWrites, InfoAnswers
  <2>. QED
    BY <1>1, <2>1 DEF Pass
<1>7. CASE DirectoryFound(l)
  BY <1>1, <1>7 DEF DirectoryFound
<1>8. CASE InstanceFound(l) \/ InstanceWritten(l)
  <2>1. PICK from \in {"get", "writing"} : \E r : Got(l, from, r)
    BY <1>8 DEF InstanceFound, InstanceWritten
  <2>2. PICK to \in {"add", "get"} : Goto(l, from, to)
    BY <2>1 DEF Got
  <2>. QED
    BY <1>1, <2>1, <2>2 DEF Got
<1>9. CASE AddLoad(l)
  BY <1>1, <1>9 DEF AddLoad
<1>. QED
  BY <1>3, <1>4, <1>5, <1>6, <1>7, <1>8, <1>9 DEF LookStep

LEMMA StepCounts == RegistryInv /\ CountInv /\ [Next]_vars => CountInv'
<1>. SUFFICES ASSUME RegistryInv, CountInv, [Next]_vars PROVE CountInv'
  OBVIOUS
<1>0. /\ Len(nodes) \in Nat /\ lookups \in Nat /\ Cardinality(Busy) \in Nat /\ TypeInv
      /\ Len(nodes') \in Nat
  <2>1. TypeInv /\ TypeInv'
    BY StepInv DEF RegistryInv
  <2>2. Len(nodes) \in Nat /\ Len(nodes') \in Nat
    BY <2>1 DEF TypeInv, TypeOK, NodesOK
  <2>3. lookups \in Nat
    BY <2>1, ClientsAssumption DEF ClientsAssumption, TypeInv, TypeOK, LookersOK
  <2>4. Cardinality(Busy) \in Nat
    BY FS_CardinalityType DEF CountInv
  <2>. QED
    BY <2>1, <2>2, <2>3, <2>4
<1>1. ASSUME NEW l \in Lookers, LookStep(l) PROVE CountInv'
  <2>1. CASE /\ pc[l] = "idle" /\ Busy' = Busy \cup {l}
             /\ lookups' = lookups + 1 /\ UNCHANGED nodes
    <3>1. l \notin Busy
      BY <2>1 DEF Busy
    <3>2. IsFiniteSet(Busy') /\ Cardinality(Busy') = Cardinality(Busy) + 1
      BY <2>1, <3>1, FS_AddElement DEF CountInv
    <3>. QED
      BY <1>0, <2>1, <3>2 DEF CountInv
  <2>2. CASE /\ pc[l] # "idle" /\ Busy' = Busy \ {l}
             /\ UNCHANGED lookups /\ Len(nodes') <= Len(nodes) + 1
    <3>1. l \in Busy
      BY <2>2 DEF Busy
    <3>2. IsFiniteSet(Busy') /\ Cardinality(Busy') = Cardinality(Busy) - 1
      BY <2>2, <3>1, FS_RemoveElement DEF CountInv
    <3>. QED
      BY <1>0, <2>2, <3>2 DEF CountInv
  <2>3. CASE Busy' = Busy /\ UNCHANGED <<lookups, nodes>>
    BY <2>3 DEF CountInv
  <2>. QED
    BY <1>0, <1>1, <2>1, <2>2, <2>3, LookCounts
<1>2. CASE CloseStep \/ MapFault
  <2>1. UNCHANGED <<nodes, pc, lookups>>
    BY <1>2 DEF CloseStep, MapFault, CloseCalled, RangeNext, DropList, NodeCloses, CloseWaits,
       RangeEnd, Closer
  <2>. QED
    BY <2>1 DEF CountInv, Busy
<1>3. CASE UNCHANGED vars
  BY <1>3 DEF vars, CountInv, Busy
<1>. QED
  BY <1>1, <1>2, <1>3 DEF Next, Rest

LEMMA InitCounts == Init => CountInv
<1>. SUFFICES ASSUME Init PROVE CountInv
  OBVIOUS
<1>1. Busy = {} /\ Len(nodes) = 0 /\ lookups = 0
  BY DEF Init, Busy
<1>. QED
  BY <1>1, FS_EmptySet DEF CountInv

\* What the process shows of the registries: a fault of the map has ended it,
\* Serve has not begun before main starts it, and no Lookup outlives it.
LinkInv ==
  /\ crashed => proc = "broken"
  /\ main \in {"start", "spawn"} => serve = "none"
  /\ HandlersServed

SystemInv == RegistryInv /\ CountInv /\ LinkInv

\* Each step of the system is a step of Registry or leaves it alone.
LEMMA SystemStepsRegistry ==
  ASSUME LinkInv, [SystemNext]_systemVars
  PROVE  [Next]_vars
<1>1. CASE Process!Running /\ ProcessStep
  BY <1>1 DEF ProcessStep
<1>2. ASSUME Process!Running PROVE ~crashed
  BY <1>2 DEF LinkInv, Process!Running
<1>3. CASE /\ Process!Running
           /\ \E w \in Process!Closers : RegistryCloseBegins(w) \/ RegistryCloseEnds(w)
  BY <1>2, <1>3 DEF RegistryCloseBegins, RegistryCloseEnds, Next, CloseStep
<1>4. CASE Process!Running /\ (RegistryCloses \/ Looks \/ MapFaults)
  BY <1>2, <1>4 DEF RegistryCloses, Looks, MapFaults, Next, CloseStep
<1>5. CASE SystemRest \/ UNCHANGED systemVars
  BY <1>5 DEF SystemRest, systemVars
<1>. QED
  BY <1>1, <1>3, <1>4, <1>5 DEF SystemNext

\* Only main and Serve change what Serve has come to.
LEMMA ProcessKeepsLink ==
  ASSUME LinkInv, Process!Running, ProcessStep
  PROVE  LinkInv'
<1>0. UNCHANGED <<crashed, pc>> /\ ~crashed
  BY DEF ProcessStep, vars, LinkInv, Process!Running
<1>1. ASSUME UNCHANGED <<serve, root>>,
             main' \in {"start", "spawn"} => main \in {"start", "spawn"}
      PROVE  LinkInv'
  BY <1>0, <1>1 DEF LinkInv, HandlersServed, Process!Serving
<1>2. ASSUME \A l \in Lookers : pc[l] = "idle",
             main' \in {"start", "spawn"} => serve' = "none"
      PROVE  LinkInv'
  BY <1>0, <1>2 DEF LinkInv, HandlersServed
<1>3. ASSUME serve # "serving" PROVE \A l \in Lookers : pc[l] = "idle"
  BY <1>3 DEF LinkInv, HandlersServed, Process!Serving
<1>4. CASE Process!MainStep
  <2>1. CASE Process!GoServe
    BY <1>2, <1>3, <2>1 DEF LinkInv, Process!GoServe, Process!MainGoto
  <2>2. CASE ~Process!GoServe
    BY <1>1, <1>4, <2>2
       DEF Process!MainStep, Process!MainGoto, Process!Mount, Process!MountFails,
           Process!MountedFails, Process!GoWaitForExit, Process!ServerDropFS, Process!Unmounts, Process!UnmountBusy,
           Process!SleepEnds, Process!UnmountFails, Process!CloseConnection, Process!Exit,
           Process!serveVars
  <2>. QED
    BY <2>1, <2>2
<1>5. CASE \/ Process!Notify \/ Process!Cancel \/ Process!Signal \/ Process!Destroy
           \/ Process!Umount \/ \E w \in Process!Closers : FSClose(w)
           \/ \E u \in Users : Process!UserOpens(u) \/ Process!UserCloses(u)
  BY <1>1, <1>5
     DEF Process!MainGoto, Process!CloseGoto, Process!Notify, Process!Cancel, Process!Signal,
         Process!Destroy, Process!Umount, Process!UserOpens, Process!UserCloses, FSClose,
         Process!FSCloseAgain, Process!FSCloseCAS, Process!FSCloseRoot, Process!FSCloseDrop,
         Process!serveVars
<1>6. CASE \/ Process!ServeLoads \/ Process!ServeRoot \/ Process!ServeRootNil
           \/ Process!ServeRootFails
  <2>1. serve \in {"config", "root"} /\ UNCHANGED main
    BY <1>6 DEF Process!ServeGoto, Process!ServeLoads, Process!ServeRoot, Process!ServeRootNil,
       Process!ServeRootFails
  <2>. QED
    BY <1>2, <1>3, <2>1 DEF LinkInv
<1>7. CASE ServeReturns
  <2>1. serve = "serving" /\ UNCHANGED main /\ \A l \in Lookers : pc[l] = "idle"
    BY <1>7 DEF ServeReturns, Process!ServeGoto, Process!ServeEnds, Process!ServeFails
  <2>. QED
    BY <1>2, <2>1 DEF LinkInv
<1>. QED
  BY <1>4, <1>5, <1>6, <1>7 DEF ProcessStep

LEMMA SystemKeepsLink ==
  ASSUME TypeInv, LinkInv, [SystemNext]_systemVars
  PROVE  LinkInv'
<1>1. CASE Process!Running /\ ProcessStep
  BY <1>1, ProcessKeepsLink
<1>2. CASE \E w \in Process!Closers : RegistryCloseBegins(w) \/ RegistryCloseEnds(w)
  <2>1. UNCHANGED <<proc, main, serve, root, crashed, pc>>
    BY <1>2 DEF RegistryCloseBegins, RegistryCloseEnds, CloseCalled, RangeEnd, Closer,
       Process!CloseGoto, Process!serveVars
  <2>. QED
    BY <2>1 DEF LinkInv, HandlersServed, Process!Serving
<1>3. CASE RegistryCloses
  <2>1. UNCHANGED <<proc, main, serve, root, crashed, pc>>
    BY <1>3 DEF RegistryCloses, DropList, CloseWaits, RangeNext, NodeCloses, Closer,
       Process!NodeStep, Process!serveVars
  <2>. QED
    BY <2>1 DEF LinkInv, HandlersServed, Process!Serving
<1>4. CASE Looks
  <2>1. Process!Serving /\ UNCHANGED <<proc, main, serve, root>>
    BY <1>4 DEF Looks, Process!NodeStep, Process!serveVars
  <2>2. UNCHANGED crashed
    BY <1>4, LookSeen DEF Looks
  <2>. QED
    BY <2>1, <2>2 DEF LinkInv, HandlersServed, Process!Serving
<1>5. CASE MapFaults
  <2>1. proc' = "broken" /\ UNCHANGED <<main, serve, root, pc>>
    BY <1>5 DEF MapFaults, MapFault, Process!NodeStep, Process!serveVars
  <2>. QED
    BY <2>1 DEF LinkInv, HandlersServed, Process!Serving
<1>6. CASE SystemRest \/ UNCHANGED systemVars
  <2>1. UNCHANGED <<proc, main, serve, root, crashed, pc>>
    BY <1>6 DEF SystemRest, systemVars, vars, Process!Rest, Process!vars, Process!serveVars
  <2>. QED
    BY <2>1 DEF LinkInv, HandlersServed, Process!Serving
<1>. QED
  BY <1>1, <1>2, <1>3, <1>4, <1>5, <1>6 DEF SystemNext

LEMMA SystemInitInv == SystemInit => SystemInv
<1>. SUFFICES ASSUME SystemInit PROVE SystemInv
  OBVIOUS
<1>1. RegistryInv
  BY InitInv DEF SystemInit
<1>2. LinkInv
  BY DEF SystemInit, Init, Process!Init, LinkInv, HandlersServed
<1>3. CountInv
  BY InitCounts DEF SystemInit
<1>. QED
  BY <1>1, <1>2, <1>3 DEF SystemInv

LEMMA SystemStepInv == SystemInv /\ [SystemNext]_systemVars => SystemInv'
  BY SystemStepsRegistry, SystemKeepsLink, StepInv, StepCounts DEF SystemInv, RegistryInv

LEMMA SystemInductive == SystemSpec => []SystemInv
  BY SystemInitInv, SystemStepInv, PTL DEF SystemSpec

\* The registries in a process do nothing that they do not do alone.
THEOREM SystemImplementsRegistry == SystemSpec => ImplementsRegistry
<1>1. SystemInit => Init
  BY DEF SystemInit
<1>2. SystemInv /\ [SystemNext]_systemVars => [Next]_vars
  BY SystemStepsRegistry DEF SystemInv
<1>. QED
  BY <1>1, <1>2, SystemInductive, PTL DEF SystemSpec, Spec, ImplementsRegistry

\* No Lookup runs before Serve has its root or after it has returned.
THEOREM LookupsAreServed == SystemSpec => []HandlersServed
<1>1. SystemInv => HandlersServed
  BY DEF SystemInv, LinkInv
<1>. QED
  BY <1>1, SystemInductive, PTL

-----------------------------------------------------------------------------
(* The process in the place of Shutdown. *)

\* The nodes are those Shutdown is told of.
LEMMA NodesInBound == SystemInv => NodeIds \subseteq 1..MaxLookups
<1>. SUFFICES ASSUME RegistryInv, CountInv PROVE NodeIds \subseteq 1..MaxLookups
  BY DEF SystemInv
<1>1. /\ Len(nodes) \in Nat /\ lookups \in 0..MaxLookups /\ MaxLookups \in Nat
      /\ Cardinality(Busy) \in Nat
  BY ClientsAssumption, FS_CardinalityType
     DEF ClientsAssumption, CountInv, RegistryInv, TypeInv, TypeOK, LookersOK, NodesOK
<1>2. Len(nodes) <= MaxLookups
  BY <1>1 DEF CountInv
<1>. QED
  BY <1>1, <1>2 DEF NodeIds

LEMMA LooksStepShutdown ==
  ASSUME SystemInv, SystemInv', Process!Running, Looks
  PROVE  [Process!Next]_(Process!vars)
<1>. PICK l \in Lookers : LookStep(l)
  BY DEF Looks
<1>0. RegistryInv /\ RegistryInv' /\ TypeInv /\ ~crashed
      /\ NodeIds \subseteq 1..MaxLookups /\ NodeIds' \subseteq 1..MaxLookups
  <2>1. (NodeIds \subseteq 1..MaxLookups)'
    BY NodesInBound, PTL
  <2>. QED
    BY <2>1, NodesInBound DEF SystemInv, LinkInv, RegistryInv, Process!Running
<1>1. /\ UNCHANGED <<nodeClosed, closer, crashed>>
      /\ IF AddStore(l)
         THEN /\ lost \subseteq lost'
              /\ early' = IF closer = "idle" THEN early \cup {Len(nodes) + 1} ELSE early
         ELSE UNCHANGED <<early, lost>>
  BY <1>0, LookSeen
<1>2. UNCHANGED phaseBar
  BY <1>1 DEF phaseBar
<1>3. lost \cup Orphans \subseteq (lost \cup Orphans)'
  BY <1>0, <1>1, OrphansStay
<1>4. early' \in SUBSET (1..MaxLookups) /\ (lost \cup Orphans)' \in SUBSET (1..MaxLookups)
  <2>1. early' \subseteq NodeIds' /\ lost' \subseteq NodeIds' /\ Orphans' \subseteq NodeIds'
    BY <1>0 DEF RegistryInv, TypeInv, TypeOK, CloseOK, Orphans
  <2>. QED
    BY <1>0, <2>1
<1>5. UNCHANGED (early \cap nodeClosed)
  <2>1. Len(nodes) + 1 \notin nodeClosed
    <3>1. Len(nodes) \in Nat /\ nodeClosed \subseteq 1..Len(nodes)
      BY <1>0 DEF TypeInv, TypeOK, NodesOK, CloseOK, NodeIds
    <3>. QED
      BY <3>1
  <2>. QED
    BY <1>1, <2>1
<1>6. Process!Serving /\ Process!NodeStep /\ UNCHANGED proc
  BY DEF Looks
<1>7. CASE UNCHANGED early
  <2>1. Process!NodesMissed
    BY <1>2, <1>3, <1>4, <1>5, <1>6, <1>7 DEF Process!NodesMissed, Process!Registries!Miss
  <2>. QED
    BY <2>1 DEF Process!Next
<1>8. CASE early' = early \cup {Len(nodes) + 1} /\ closer = "idle"
  <2>1. phaseBar = "open"
    BY <1>0, <1>8 DEF phaseBar
  <2>2. Process!NodeGiven
    BY <1>2, <1>3, <1>4, <1>5, <1>6, <1>8, <2>1 DEF Process!NodeGiven, Process!Registries!Give
  <2>. QED
    BY <2>2 DEF Process!Next
<1>. QED
  BY <1>1, <1>7, <1>8

\* A node that came after registry.Close began does not count.
LEMMA ClosesStepShutdown ==
  ASSUME SystemInv, Process!Running, RegistryCloses
  PROVE  [Process!Next]_(Process!vars)
<1>0. RegistryInv /\ ~crashed /\ NodeIds \subseteq 1..MaxLookups
  BY NodesInBound DEF SystemInv, LinkInv, Process!Running
<1>1. UNCHANGED <<early, lost, nodes, instances, crashed>>
  BY DEF RegistryCloses, RangeNext, DropList, NodeCloses, CloseWaits, Closer, histVars
<1>2. UNCHANGED (lost \cup Orphans)
  BY <1>1 DEF Orphans, NodeIds, Listed
<1>3. UNCHANGED phaseBar
  BY <1>1 DEF RegistryCloses, RangeNext, DropList, NodeCloses, CloseWaits, Closer, phaseBar
<1>4. Process!NodeStep /\ UNCHANGED proc
  BY DEF RegistryCloses
<1>5. CASE UNCHANGED (early \cap nodeClosed)
  <2>1. UNCHANGED Process!vars
    BY <1>1, <1>2, <1>3, <1>4, <1>5
       DEF Process!NodeStep, Process!vars, Process!fsVars, Process!nodeVars, Process!serveVars,
           Process!serverVars, Process!kernelVars
  <2>. QED
    BY <2>1
<1>6. ASSUME NEW n \in NodeIds, NodeCloses(n) PROVE [Process!Next]_(Process!vars)
  <2>1. CASE n \in early \ nodeClosed
    <3>1. phaseBar = "closing"
      BY <1>0, <1>6 DEF NodeCloses, RegistryInv, TypeInv, TypeOK, CloseOK, CloseInv, phaseBar
    <3>2. n \in 1..MaxLookups /\ n \in early \ (early \cap nodeClosed)
      BY <1>0, <2>1
    <3>3. (early \cap nodeClosed)' = (early \cap nodeClosed) \cup {n}
      BY <1>1, <1>6, <2>1 DEF NodeCloses
    <3>4. Process!NodeCloses(n)
      BY <1>1, <1>2, <1>3, <1>4, <3>1, <3>2, <3>3 DEF Process!NodeCloses
    <3>. QED
      BY <3>2, <3>4 DEF Process!Next
  <2>2. CASE n \notin early \ nodeClosed
    <3>1. UNCHANGED (early \cap nodeClosed)
      BY <1>1, <1>6, <2>2 DEF NodeCloses
    <3>. QED
      BY <1>5, <3>1
  <2>. QED
    BY <2>1, <2>2
<1>7. CASE DropList \/ CloseWaits \/ \E x \in Names : RangeNext(x)
  <2>1. UNCHANGED nodeClosed
    BY <1>7 DEF RangeNext, DropList, CloseWaits
  <2>. QED
    BY <1>1, <1>5, <2>1
<1>. QED
  BY <1>6, <1>7 DEF RegistryCloses

LEMMA FaultStepsShutdown ==
  ASSUME SystemInv, Process!Running, MapFaults
  PROVE  [Process!Next]_(Process!vars)
<1>1. Process!Serving
  BY DEF SystemInv, LinkInv, HandlersServed, MapFaults, MapFault
<1>2. UNCHANGED <<early, lost, nodes, instances, nodeClosed>> /\ crashed'
  BY DEF MapFaults, MapFault, histVars
<1>3. phaseBar' = "crashed" /\ UNCHANGED (lost \cup Orphans) /\ UNCHANGED (early \cap nodeClosed)
  BY <1>2 DEF phaseBar, Orphans, NodeIds, Listed
<1>4. Process!NodesCrash
  BY <1>1, <1>2, <1>3 DEF MapFaults, Process!NodesCrash, Process!Registries!Crash
<1>. QED
  BY <1>4 DEF Process!Next

\* registry.Close returns with the early nodes closed or missed: the promise of
\* the list, which Shutdown takes for granted.
LEMMA CallStepsShutdown ==
  ASSUME SystemInv, Process!Running,
         NEW w \in Process!Closers, RegistryCloseBegins(w) \/ RegistryCloseEnds(w)
  PROVE  [Process!Next]_(Process!vars)
<1>0. RegistryInv /\ ~crashed
  BY DEF SystemInv, LinkInv, Process!Running
<1>1. UNCHANGED <<early, lost, nodes, instances, nodeClosed, crashed>>
  BY DEF RegistryCloseBegins, RegistryCloseEnds, CloseCalled, RangeEnd, Closer, histVars
<1>2. UNCHANGED (early \cap nodeClosed) /\ UNCHANGED (lost \cup Orphans)
  BY <1>1 DEF Orphans, NodeIds, Listed
<1>3. CASE RegistryCloseBegins(w)
  <2>1. phaseBar = "open" /\ phaseBar' = "closing"
    BY <1>0, <1>1, <1>3 DEF RegistryCloseBegins, CloseCalled, Closer, phaseBar
  <2>2. Process!FSCloseRegistry(w)
    BY <1>1, <1>2, <1>3, <2>1 DEF RegistryCloseBegins, Process!FSCloseRegistry
  <2>. QED
    BY <2>2 DEF Process!CloseStep, Process!Next
<1>4. CASE RegistryCloseEnds(w)
  <2>1. phaseBar = "closing" /\ phaseBar' = "closed"
    BY <1>0, <1>1, <1>4 DEF RegistryCloseEnds, RangeEnd, Closer, phaseBar
  <2>2. early \subseteq (early \cap nodeClosed) \cup (lost \cup Orphans)
    BY <1>0, <1>4, RangeEndMeetsAll DEF RegistryCloseEnds, RegistryInv
  <2>3. Process!FSCloseEnds(w)
    BY <1>1, <1>2, <1>4, <2>1, <2>2 DEF RegistryCloseEnds, Process!FSCloseEnds
  <2>. QED
    BY <2>3 DEF Process!CloseStep, Process!Next
<1>. QED
  BY <1>3, <1>4

LEMMA SystemStepsShutdown ==
  ASSUME SystemInv, SystemInv', [SystemNext]_systemVars
  PROVE  [Process!Next]_(Process!vars)
<1>1. CASE Process!Running /\ ProcessStep
  BY <1>1 DEF ProcessStep, ServeReturns, FSClose, Process!ServeStep, Process!CloseStep, Process!Next
<1>2. CASE /\ Process!Running
           /\ \E w \in Process!Closers : RegistryCloseBegins(w) \/ RegistryCloseEnds(w)
  BY <1>2, CallStepsShutdown
<1>3. CASE Process!Running /\ (RegistryCloses \/ Looks \/ MapFaults)
  BY <1>3, LooksStepShutdown, ClosesStepShutdown, FaultStepsShutdown
<1>4. CASE SystemRest
  BY <1>4 DEF SystemRest, Process!Next
<1>5. CASE UNCHANGED systemVars
  BY <1>5 DEF systemVars, vars, closeVars, histVars, phaseBar, Orphans, NodeIds, Listed,
     Process!vars, Process!fsVars, Process!nodeVars, Process!serveVars, Process!serverVars,
     Process!kernelVars
<1>. QED
  BY <1>1, <1>2, <1>3, <1>4, <1>5 DEF SystemNext

\* The process with the registries of Registry does nothing that Shutdown does
\* not allow the process with a closed list.
THEOREM SystemImplementsShutdown == SystemSpec => ImplementsShutdown
<1>1. SystemInit => Process!Init
  BY DEF SystemInit
<1>2. SystemInv /\ SystemInv' /\ [SystemNext]_systemVars => [Process!Next]_(Process!vars)
  BY SystemStepsShutdown
<1>. QED
  BY <1>1, <1>2, SystemInductive, PTL DEF SystemSpec, Process!Spec, ImplementsShutdown

\* The module of the proofs about Shutdown speaks of the same process.
LEMMA SameProcess == Process!Spec => ProcessProofs!Spec
<1>1. Process!Init => ProcessProofs!Init
  BY DEF Process!Init, ProcessProofs!Init, Process!Registries!Init, ProcessProofs!Registries!Init,
     Process!Closers, ProcessProofs!Closers
<1>2. [Process!Next]_(Process!vars) => [ProcessProofs!Next]_(ProcessProofs!vars)
  BY DEF Process!Next, ProcessProofs!Next, Process!MainStep, ProcessProofs!MainStep,
         Process!CloseStep, ProcessProofs!CloseStep, Process!ServeStep,
         ProcessProofs!ServeStep, Process!Running, ProcessProofs!Running, Process!Rest,
         ProcessProofs!Rest, Process!vars, ProcessProofs!vars, Process!nodeVars,
         ProcessProofs!nodeVars, Process!fsVars, ProcessProofs!fsVars, Process!serveVars,
         ProcessProofs!serveVars, Process!serverVars, ProcessProofs!serverVars,
         Process!kernelVars, ProcessProofs!kernelVars, Process!Closers,
         ProcessProofs!Closers, Process!MainGoto, ProcessProofs!MainGoto, Process!Mount,
         ProcessProofs!Mount, Process!MountFails, ProcessProofs!MountFails, Process!MountedFails,
         ProcessProofs!MountedFails, Process!GoServe,
         ProcessProofs!GoServe, Process!GoWaitForExit, ProcessProofs!GoWaitForExit,
         Process!Notify, ProcessProofs!Notify, Process!Signal, ProcessProofs!Signal,
         Process!Cancel, ProcessProofs!Cancel, Process!CloseGoto, ProcessProofs!CloseGoto,
         Process!FSCloseAgain, ProcessProofs!FSCloseAgain, Process!FSCloseCAS,
         ProcessProofs!FSCloseCAS, Process!FSCloseRoot, ProcessProofs!FSCloseRoot,
         Process!FSCloseDrop, ProcessProofs!FSCloseDrop, Process!FSCloseRegistry,
         ProcessProofs!FSCloseRegistry, Process!FSCloseEnds, ProcessProofs!FSCloseEnds,
         Process!ServerDropFS, ProcessProofs!ServerDropFS, Process!Unmounts,
         ProcessProofs!Unmounts, Process!UnmountBusy, ProcessProofs!UnmountBusy,
         Process!SleepEnds, ProcessProofs!SleepEnds, Process!UnmountFails,
         ProcessProofs!UnmountFails, Process!CloseConnection, ProcessProofs!CloseConnection,
         Process!Exit, ProcessProofs!Exit, Process!ServeGoto, ProcessProofs!ServeGoto,
         Process!ServeLoads, ProcessProofs!ServeLoads, Process!ServeRoot,
         ProcessProofs!ServeRoot, Process!ServeRootNil, ProcessProofs!ServeRootNil,
         Process!ServeRootFails, ProcessProofs!ServeRootFails, Process!ServeEnds,
         ProcessProofs!ServeEnds, Process!ServeFails, ProcessProofs!ServeFails,
         Process!Destroy, ProcessProofs!Destroy, Process!Serving, ProcessProofs!Serving,
         Process!NodeStep, ProcessProofs!NodeStep, Process!NodeGiven,
         ProcessProofs!NodeGiven, Process!NodesMissed, ProcessProofs!NodesMissed,
         Process!NodeCloses, ProcessProofs!NodeCloses, Process!NodesCrash,
         ProcessProofs!NodesCrash, Process!UserOpens, ProcessProofs!UserOpens,
         Process!UserCloses, ProcessProofs!UserCloses, Process!Umount, ProcessProofs!Umount,
         Process!Registries!Give, ProcessProofs!Registries!Give, Process!Registries!Miss,
         ProcessProofs!Registries!Miss, Process!Registries!Crash,
         ProcessProofs!Registries!Crash
<1>. QED
  BY <1>1, <1>2, PTL DEF Process!Spec, ProcessProofs!Spec

\* With everything beside it that a process does, main returns with the nodes
\* closed that Lookups had returned, but those the Registries have lost, or
\* while Destroy closes them.
THEOREM SystemClosesNodes == SystemSpec => []EarlyNodesClosedAtExit
<1>1. SystemSpec => []ProcessProofs!NodesClosedAtExit
  <2>1. MaxLookups \in Nat
    BY ClientsAssumption DEF ClientsAssumption
  <2>2. ProcessProofs!Spec => []ProcessProofs!NodesClosedAtExit
    BY <2>1, ProcessProofs!NodesAreClosed DEF ProcessProofs!ShutdownAssumption
  <2>3. SystemSpec => Process!Spec
    BY SystemImplementsShutdown DEF ImplementsShutdown
  <2>. QED
    BY <2>2, <2>3, SameProcess, PTL
<1>2. SystemInv /\ ProcessProofs!NodesClosedAtExit => EarlyNodesClosedAtExit
  BY DEF ProcessProofs!NodesClosedAtExit, EarlyNodesClosedAtExit, Orphans
<1>. QED
  BY <1>1, <1>2, SystemInductive, PTL

\* main and Destroy do not call registry.Close twice.
THEOREM RegistryIsClosedOnce == SystemSpec => []RegistryClosedOnce
<1>1. SystemSpec => []ProcessProofs!ShutdownInv
  <2>1. MaxLookups \in Nat
    BY ClientsAssumption DEF ClientsAssumption
  <2>2. ProcessProofs!Spec => []ProcessProofs!ShutdownInv
    BY <2>1, ProcessProofs!Inductive DEF ProcessProofs!ShutdownAssumption
  <2>3. SystemSpec => Process!Spec
    BY SystemImplementsShutdown DEF ImplementsShutdown
  <2>. QED
    BY <2>2, <2>3, SameProcess, PTL
<1>2. SystemInv /\ ProcessProofs!ShutdownInv => RegistryClosedOnce
  <2>. SUFFICES ASSUME SystemInv, ProcessProofs!ShutdownInv, Process!Running
                PROVE  RegistryClosedOnce
    BY DEF RegistryClosedOnce
  <2>1. /\ \A w \in Process!Closers :
             /\ closePC[w] = "registry" => phaseBar = "open"
             /\ closePC[w] = "nodes" => phaseBar = "closing"
        /\ closePC["main"] # "nodes" \/ closePC["destroy"] # "nodes"
    BY DEF ProcessProofs!ShutdownInv, ProcessProofs!NodesInv, ProcessProofs!WorkInv,
       ProcessProofs!WorkPCs, ProcessProofs!Closers, ProcessProofs!Running, Process!Closers,
       Process!Running
  <2>2. ~crashed /\ closer \in {"idle", "range", "drop", "wait", "end"}
    BY DEF SystemInv, LinkInv, Process!Running, RegistryInv, TypeInv, TypeOK, CloseOK
  <2>. QED
    BY <2>1, <2>2 DEF phaseBar, RegistryClosedOnce
<1>. QED
  BY <1>1, <1>2, SystemInductive, PTL

=============================================================================
