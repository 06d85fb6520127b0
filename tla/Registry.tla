------------------------------ MODULE Registry ------------------------------
(***************************************************************************)
(* registry/main.go with the node services that fill it, and the lookups   *)
(* that reach them from the root and from a directory.                     *)
(*                                                                         *)
(* Each file server has a Registry, found in the map instances under the   *)
(* name of its remote root.  A directory node keeps three services, one    *)
(* for each kind of child, and each service the Registry its GetInstance   *)
(* has returned; the root makes a new service for every lookup.  A service *)
(* makes one node at a time, but Add and the map have no lock: append      *)
(* reads registry.nodes and writes it back, and the Go runtime may end a   *)
(* process that uses a map while another goroutine writes it.              *)
(*                                                                         *)
(* CloseNodes, called once at shutdown, closes the nodes of each Registry. *)
(* No one closes the root, its services, or a Registry itself, so lookups  *)
(* go on meanwhile.  A request to a file server answers or fails; a panic  *)
(* of a lookup (GetInstance) is answered with an error and drops its lock. *)
(***************************************************************************)
EXTENDS Naturals, Sequences

CONSTANTS
  Lookers,      \* goroutines that serve Lookup
  Clients,      \* file servers of the configuration
  Names,        \* names of remote roots
  RootName,     \* the name of the root of each file server
  MaxLookups    \* bound: how many Lookups a behaviour can make

ASSUME ClientsAssumption ==
  Clients # {} /\ RootName \in [Clients -> Names] /\ MaxLookups \in Nat

VARIABLES
  instances,    \* instances: a number for each name, 0 when it is missing
  lists,        \* registry.nodes of each Registry made so far
  nodes,        \* the nodes made so far
  nodeClosed,   \* the nodes whose Close has run
  pc,           \* control state of each looker
  call,         \* what the Lookup of each looker asks for
  target,       \* the Registry of the service it calls, 0 before that is known
  found,        \* the Registries of the three services of the node it makes
  snapshot,     \* the registry.nodes its append has read
  lookups,      \* how many Lookups have been called
  closer,       \* control state of Close
  pending,      \* the names Close has to visit; others may be visited, too
  visited,      \* the names Close has visited
  current,      \* the Registry whose CloseNodes runs
  closing,      \* the nodes whose Close has been started
  crashed,      \* the runtime has ended the process
  early,        \* history: the nodes returned before Close has begun
  lost          \* history: the nodes an append has written over

lookVars == <<call, target, found, snapshot>>
closeVars == <<closer, pending, visited, current, closing>>
histVars == <<early, lost>>
vars == <<instances, lists, nodes, nodeClosed, pc, lookVars, lookups, closeVars,
          crashed, histVars>>

Root == 0
Kinds == {"directory", "streamable", "file"}
NoCall == [parent |-> Root, kind |-> "directory", client |-> CHOOSE c \in Clients : TRUE]
NodeIds == 1..Len(nodes)

\* A looker with these control states is inside New of its service.
LockedPCs == {"get", "missing", "writing", "info", "add", "store"}

Init ==
  /\ instances = [x \in Names |-> 0]
  /\ lists = <<>> /\ nodes = <<>> /\ nodeClosed = {}
  /\ pc = [l \in Lookers |-> "idle"]
  /\ call = [l \in Lookers |-> NoCall]
  /\ target = [l \in Lookers |-> 0]
  /\ found = [l \in Lookers |-> <<>>]
  /\ snapshot = [l \in Lookers |-> {}]
  /\ lookups = 0
  /\ closer = "idle" /\ pending = {} /\ visited = {} /\ current = 0 /\ closing = {}
  /\ crashed = FALSE
  /\ early = {} /\ lost = {}

-----------------------------------------------------------------------------
(* Lookup, down to New of a service. *)

Goto(l, from, to) ==
  /\ pc[l] = from
  /\ pc' = [pc EXCEPT ![l] = to]

\* The looker forgets its call.
Forget(l) ==
  /\ target' = [target EXCEPT ![l] = 0]
  /\ found' = [found EXCEPT ![l] = <<>>]
  /\ snapshot' = [snapshot EXCEPT ![l] = {}]
  /\ call' = [call EXCEPT ![l] = NoCall]

\* Lookup answers with an error.
Fail(l, from) ==
  /\ Goto(l, from, "idle")
  /\ Forget(l)
  /\ UNCHANGED <<instances, lists, nodes, nodeClosed, lookups, closeVars, crashed, histVars>>

\* A step that changes nothing but the looker's control state.
Pass(l, from, to) ==
  /\ Goto(l, from, to)
  /\ UNCHANGED <<instances, lists, nodes, nodeClosed, lookVars, lookups, closeVars,
                 crashed, histVars>>

CallLookup(l, request) ==
  /\ lookups < MaxLookups
  /\ lookups' = lookups + 1
  /\ Goto(l, "idle", "lookup")
  /\ call' = [call EXCEPT ![l] = request]
  /\ UNCHANGED <<instances, lists, nodes, nodeClosed, target, found, snapshot, closeVars,
                 crashed, histVars>>

CallRoot(l) ==
  \E c \in Clients : CallLookup(l, [parent |-> Root, kind |-> "directory", client |-> c])

\* The kernel asks in a directory it has got, for a name of any kind.
CallDirectory(l) ==
  \E p \in NodeIds, k \in Kinds :
    /\ nodes[p].kind = "directory"
    /\ CallLookup(l, [parent |-> p, kind |-> k, client |-> nodes[p].client])

DirectoryIsClosed(l) == call[l].parent \in nodeClosed /\ Fail(l, "lookup")

\* The file server does not know the name, or does not answer.
LookupFails(l) == Fail(l, "lookup")

\* The root makes a service for the client.
RootFound(l) == call[l].parent = Root /\ Pass(l, "lookup", "get")

DirectoryFound(l) ==
  /\ call[l].parent # Root /\ call[l].parent \notin nodeClosed
  /\ Goto(l, "lookup", "lock")
  /\ target' = [target EXCEPT ![l] = nodes[call[l].parent].services[call[l].kind]]
  /\ UNCHANGED <<instances, lists, nodes, nodeClosed, call, found, snapshot, lookups,
                 closeVars, crashed, histVars>>

\* m is inside New of the service that l calls.
SameService(l, m) ==
  /\ call[l].parent # Root
  /\ call[m].parent = call[l].parent /\ call[m].kind = call[l].kind

AfterLock(l) == IF call[l].kind = "directory" THEN "get" ELSE "info"

\* Seeded fault: New does not lock the service.
Lock_Free(l) == Pass(l, "lock", AfterLock(l))

Lock(l) ==
  /\ \A m \in Lookers : pc[m] \in LockedPCs => ~SameService(l, m)
  /\ Pass(l, "lock", AfterLock(l))

-----------------------------------------------------------------------------
(* GetInstance: once for the service of the root, then for the services of  *)
(* the new directory. *)

Name(l) == RootName[call[l].client]

\* GetInstance returns registry r.
Got(l, from, r) ==
  /\ Goto(l, from, IF target[l] # 0 /\ Len(found[l]) = 2 THEN "add" ELSE "get")
  /\ IF target[l] = 0
     THEN target' = [target EXCEPT ![l] = r] /\ UNCHANGED found
     ELSE found' = [found EXCEPT ![l] = Append(@, r)] /\ UNCHANGED target
  /\ UNCHANGED <<nodes, nodeClosed, call, snapshot, lookups, closeVars, crashed, histVars>>

\* Root fails, and GetInstance panics.
InstanceFails(l) == Fail(l, "get")

InstanceFound(l) ==
  /\ instances[Name(l)] # 0
  /\ Got(l, "get", instances[Name(l)])
  /\ UNCHANGED <<instances, lists>>

InstanceMissing(l) == instances[Name(l)] = 0 /\ Pass(l, "get", "missing")

InstanceWrites(l) == Pass(l, "missing", "writing")

InstanceWritten(l) ==
  /\ Got(l, "writing", Len(lists) + 1)
  /\ lists' = Append(lists, {})
  /\ instances' = [instances EXCEPT ![Name(l)] = Len(lists) + 1]

\* A map is used while it is written.
MapFault ==
  /\ \E l \in Lookers :
       /\ pc[l] = "writing"
       /\ \/ closer = "range"
          \/ \E m \in Lookers \ {l} : pc[m] \in {"get", "missing", "writing"}
  /\ crashed' = TRUE
  /\ UNCHANGED <<instances, lists, nodes, nodeClosed, pc, lookVars, lookups, closeVars,
                 histVars>>

-----------------------------------------------------------------------------
(* The new node, and Add. *)

InfoFails(l) == Fail(l, "info")
InfoAnswers(l) == Pass(l, "info", "add")

AddLoad(l) ==
  /\ Goto(l, "add", "store")
  /\ snapshot' = [snapshot EXCEPT ![l] = lists[target[l]]]
  /\ UNCHANGED <<instances, lists, nodes, nodeClosed, call, target, found, lookups,
                 closeVars, crashed, histVars>>

\* Seeded fault: New keeps no services in the directory.
Services_None(l) == [k \in Kinds |-> 0]

\* The services of the node l makes: a file has none.
Services(l) ==
  IF call[l].kind = "directory"
  THEN [directory |-> found[l][1], streamable |-> found[l][2], file |-> found[l][3]]
  ELSE [k \in Kinds |-> 0]

NewNode(l) ==
  [parent |-> call[l].parent, kind |-> call[l].kind, client |-> call[l].client,
   home |-> target[l], services |-> Services(l)]

\* registry.nodes = append(...), and Lookup returns the node.
AddStore(l) ==
  LET n == Len(nodes) + 1
      written == snapshot[l] \cup {n} IN
  /\ Goto(l, "store", "idle")
  /\ nodes' = Append(nodes, NewNode(l))
  /\ lists' = [lists EXCEPT ![target[l]] = written]
  /\ lost' = lost \cup (lists[target[l]] \ written)
  /\ early' = IF closer = "idle" THEN early \cup {n} ELSE early
  /\ Forget(l)
  /\ UNCHANGED <<instances, nodeClosed, lookups, closeVars, crashed>>

-----------------------------------------------------------------------------
(* registry.Close. *)

Closer(from, to) ==
  /\ closer = from
  /\ closer' = to
  /\ UNCHANGED <<instances, nodes, pc, lookVars, lookups, crashed, histVars>>

\* range over instances: a name that is added meanwhile may be met or not.
CloseCalled ==
  /\ Closer("idle", "range")
  /\ pending' = {x \in Names : instances[x] # 0}
  /\ UNCHANGED <<lists, nodeClosed, visited, current, closing>>

\* CloseNodes starts one goroutine for each node of the list,
RangeNext(x) ==
  /\ instances[x] # 0 /\ x \notin visited
  /\ Closer("range", "drop")
  /\ visited' = visited \cup {x}
  /\ current' = instances[x]
  /\ closing' = lists[instances[x]]
  /\ UNCHANGED <<lists, nodeClosed, pending>>

\* drops the list,
DropList ==
  /\ Closer("drop", "wait")
  /\ lists' = [lists EXCEPT ![current] = {}]
  /\ UNCHANGED <<nodeClosed, pending, visited, current, closing>>

NodeCloses(n) ==
  /\ n \in closing
  /\ closing' = closing \ {n}
  /\ nodeClosed' = nodeClosed \cup {n}
  /\ UNCHANGED <<instances, lists, nodes, pc, lookVars, lookups, closer, pending, visited,
                 current, crashed, histVars>>

\* Seeded fault: CloseNodes does not wait.
CloseWaits_Not ==
  /\ Closer("wait", "range")
  /\ current' = 0
  /\ UNCHANGED <<lists, nodeClosed, pending, visited, closing>>

\* and waits for the goroutines.
CloseWaits ==
  /\ closing = {}
  /\ Closer("wait", "range")
  /\ current' = 0
  /\ UNCHANGED <<lists, nodeClosed, pending, visited, closing>>

RangeEnd ==
  /\ pending \subseteq visited
  /\ Closer("range", "end")
  /\ UNCHANGED <<lists, nodeClosed, pending, visited, current, closing>>

-----------------------------------------------------------------------------

LookStep(l) ==
  \/ CallRoot(l) \/ CallDirectory(l)
  \/ DirectoryIsClosed(l) \/ LookupFails(l) \/ RootFound(l) \/ DirectoryFound(l)
  \/ Lock(l)
  \/ InstanceFails(l) \/ InstanceFound(l) \/ InstanceMissing(l)
  \/ InstanceWrites(l) \/ InstanceWritten(l)
  \/ InfoFails(l) \/ InfoAnswers(l) \/ AddLoad(l) \/ AddStore(l)

CloseStep ==
  \/ CloseCalled \/ DropList \/ CloseWaits \/ RangeEnd
  \/ \E x \in Names : RangeNext(x)
  \/ \E n \in NodeIds : NodeCloses(n)

\* The process is gone, or the nodes are closed and no Lookup is left to run.
Rest ==
  /\ \/ crashed
     \/ closer = "end" /\ lookups = MaxLookups /\ \A l \in Lookers : pc[l] = "idle"
  /\ UNCHANGED vars

Next ==
  \/ ~crashed /\ \E l \in Lookers : LookStep(l)
  \/ ~crashed /\ CloseStep
  \/ ~crashed /\ MapFault
  \/ Rest

Spec == Init /\ [][Next]_vars

-----------------------------------------------------------------------------

Service(n) == <<nodes[n].parent, nodes[n].kind>>

ListsOK ==
  /\ lists \in Seq(SUBSET Nat)
  /\ \A r \in DOMAIN lists : lists[r] \subseteq NodeIds
  /\ instances \in [Names -> 0..Len(lists)]

NodesOK ==
  /\ nodes \in Seq([parent : Nat, kind : Kinds, client : Clients, home : Nat,
                    services : [Kinds -> Nat]])
  /\ \A n \in NodeIds :
       /\ nodes[n].parent \in 0..(n - 1)
       /\ nodes[n].home \in DOMAIN lists
       /\ nodes[n].kind = "directory" => nodes[n].services \in [Kinds -> DOMAIN lists]

LookersOK ==
  /\ pc \in [Lookers -> {"idle", "lookup", "lock"} \cup LockedPCs]
  /\ call \in [Lookers -> [parent : 0..Len(nodes), kind : Kinds, client : Clients]]
  /\ target \in [Lookers -> 0..Len(lists)]
  /\ found \in [Lookers -> Seq(DOMAIN lists)]
  /\ snapshot \in [Lookers -> SUBSET NodeIds]
  /\ lookups \in 0..MaxLookups

CloseOK ==
  /\ nodeClosed \subseteq NodeIds /\ closing \subseteq NodeIds
  /\ early \subseteq NodeIds /\ lost \subseteq NodeIds
  /\ closer \in {"idle", "range", "drop", "wait", "end"}
  /\ pending \subseteq Names /\ visited \subseteq Names
  /\ current \in 0..Len(lists)
  /\ crashed \in BOOLEAN

TypeOK == ListsOK /\ NodesOK /\ LookersOK /\ CloseOK

\* A Registry that GetInstance still finds.
Listed(r) == \E x \in Names : instances[x] = r

\* A Close that has run to its end has closed every node a Lookup returned
\* before it began, but those an append of another Lookup has written over and
\* those of a Registry that two first Lookups made at the same time.
CloseReachesNodes ==
  closer = "end" =>
    \A n \in early : n \in nodeClosed \/ n \in lost \/ ~Listed(nodes[n].home)

\* The registries close no node twice, which FileNode, StreamableNode and
\* Directory count on: not even an append that brings a dropped list back makes
\* CloseNodes start the Close of a node that is closed.
NodesClosedOnce == closing \cap nodeClosed = {}

\* The lock of a service does its work: until Close drops the lists, an append
\* writes over nodes of other services only.
LossOnlyAcrossServices ==
  [][closer = "idle" => \A n \in lost' \ lost :
       \E l \in Lookers :
         /\ pc[l] = "store" /\ pc'[l] = "idle"
         /\ call[l].parent = Root \/ Service(n) # <<call[l].parent, call[l].kind>>]_vars

phaseBar ==
  IF crashed THEN "crashed"
  ELSE CASE closer = "idle" -> "open" [] closer = "end" -> "closed" [] OTHER -> "closing"

\* The nodes of a Registry the map has forgotten.
Orphans == {n \in NodeIds : ~Listed(nodes[n].home)}

List == INSTANCE ClosedList WITH
  phase <- phaseBar, given <- early, shut <- nodeClosed,
  missed <- lost \cup Orphans

\* The registries together keep the promise of a list of nodes: no node is made
\* open again or given back to a Registry, and Close ends only when every early
\* node is closed, written over, or of a Registry the map has forgotten.
ImplementsClosedList == List!ListSpec

=============================================================================
