--------------------------- MODULE StreamableNode ---------------------------
(***************************************************************************)
(* streamable/node/main.go and streamable/handle/service/main.go: a video  *)
(* file, its handle service and the stream factory behind it.              *)
(*                                                                         *)
(* Open runs in a goroutine per request and holds node.mu for reading      *)
(* only; Close, called once by the registry at shutdown, takes no lock.    *)
(* append reads node.handles and writes it back, so two Opens can lose the *)
(* handle of one of them.  handleService.New returns nil without an error  *)
(* once the service is closed, and dereferences streamFactory, which Close *)
(* sets to nil: the FUSE server answers the panic of a handler with an     *)
(* error, the panic of Close ends the process.                             *)
(*                                                                         *)
(* A handle is a number here, live while its stream is open (see           *)
(* StreamableHandle); Release is the kernel's.  GetStreamUrl is a request  *)
(* with a ten second timeout: it answers or fails.                         *)
(***************************************************************************)
EXTENDS UrlCache, Sequences

CONSTANTS
  Openers,       \* goroutines that serve Open
  MaxHandles     \* bound: how many Opens a behaviour can make

ASSUME HandlesAssumption == MaxHandles \in Nat

VARIABLES
  nodeClosed,      \* node.closed
  serviceClosed,   \* service.closed
  factorySet,      \* service.streamFactory is not nil
  handles,         \* node.handles, 0 for a nil handle
  pc,              \* control state of each opener
  url,             \* the url its getStreamUrl has
  mine,            \* the handle its handleService.New has returned
  snapshot,        \* the node.handles its append has read
  opens,           \* how many Opens have been called
  made,            \* handles 1..made exist
  live,            \* the handles whose stream is open
  returned,        \* the handles the kernel has been given
  closer,          \* control state of Close
  todo,            \* the handles Close has still to visit
  raced,           \* history: an append wrote over one it had not read
  early,           \* history: the handles returned before Close has begun
  overlap,         \* history: an Open was inside when Close began
  outcome          \* how the Open that ended last has ended

nodeVars == <<nodeClosed, serviceClosed, factorySet>>
openVars == <<pc, url, mine, snapshot, outcome>>
handleVars == <<made, live>>
closeVars == <<closer, todo>>
histVars == <<raced, early, overlap>>
vars == <<now, factoryVars, nodeVars, handles, openVars, opens, handleVars, returned,
          closeVars, histVars>>

OpenPCs == {"node", "service", "factory", "cache", "cached", "rpc", "storeUrl",
            "storeExpiration", "storeBoth", "handle", "append", "store"}
Handles == 1..MaxHandles

Init ==
  /\ UrlInit
  /\ nodeClosed = FALSE /\ serviceClosed = FALSE /\ factorySet = TRUE
  /\ handles = <<>>
  /\ pc = [o \in Openers |-> "idle"]
  /\ url = [o \in Openers |-> NoUrl]
  /\ mine = [o \in Openers |-> 0]
  /\ snapshot = [o \in Openers |-> <<>>]
  /\ outcome = "none"
  /\ opens = 0 /\ made = 0
  /\ live = {} /\ returned = {}
  /\ closer = "idle" /\ todo = <<>>
  /\ raced = FALSE /\ early = {} /\ overlap = FALSE

-----------------------------------------------------------------------------
(* Open, down to the stream factory. *)

Goto(o, from, to) ==
  /\ pc[o] = from
  /\ pc' = [pc EXCEPT ![o] = to]

\* A step that changes nothing but the opener's control state.
Pass(o, from, to) ==
  /\ Goto(o, from, to)
  /\ UNCHANGED <<now, factoryVars, nodeVars, handles, url, mine, snapshot, outcome>>
  /\ UNCHANGED <<opens, handleVars, returned, closeVars, histVars>>

\* Open returns no handle.
Fail(o, from, how) ==
  /\ Goto(o, from, "idle")
  /\ outcome' = how
  /\ url' = [url EXCEPT ![o] = NoUrl]
  /\ UNCHANGED <<now, factoryVars, nodeVars, handles, mine, snapshot>>
  /\ UNCHANGED <<opens, handleVars, returned, closeVars, histVars>>

CallOpen(o) ==
  /\ opens < MaxHandles
  /\ opens' = opens + 1
  /\ Goto(o, "idle", "node")
  /\ UNCHANGED <<now, factoryVars, nodeVars, handles, url, mine, snapshot, outcome>>
  /\ UNCHANGED <<handleVars, returned, closeVars, histVars>>

OpenIsClosed(o) == nodeClosed /\ Fail(o, "node", "error")

\* Seeded fault: Open does not ask whether the node is closed.
OpenIsOpen_NoCheck(o) == Pass(o, "node", "service")

OpenIsOpen(o) == ~nodeClosed /\ Pass(o, "node", "service")

\* handleService.New returns nil, nil.
ServiceIsClosed(o) ==
  /\ serviceClosed
  /\ Goto(o, "service", "append")
  /\ mine' = [mine EXCEPT ![o] = 0]
  /\ UNCHANGED <<now, factoryVars, nodeVars, handles, url, snapshot, outcome>>
  /\ UNCHANGED <<opens, handleVars, returned, closeVars, histVars>>

ServiceIsOpen(o) == ~serviceClosed /\ Pass(o, "service", "factory")

\* No logger can be made for the handle.
NewLoggerFails(o) == ~serviceClosed /\ Fail(o, "service", "error")

\* NewStream on a nil factory.
FactoryIsNil(o) == ~factorySet /\ Fail(o, "factory", "panic")

FactoryIsClosed(o) == factorySet /\ factoryClosed /\ Fail(o, "factory", "error")

FactoryIsOpen(o) == factorySet /\ ~factoryClosed /\ Pass(o, "factory", "cache")

-----------------------------------------------------------------------------
(* getStreamUrl. *)

CacheHit(o) == CacheIsFresh /\ Pass(o, "cache", "cached")
CacheMiss(o) == ~CacheIsFresh /\ Pass(o, "cache", "rpc")

\* return factory.cachedItem.url evaluates the field once more.
CacheReturn(o) ==
  /\ Goto(o, "cached", "handle")
  /\ url' = [url EXCEPT ![o] = cachedUrl]
  /\ UNCHANGED <<now, factoryVars, nodeVars, handles, mine, snapshot, outcome>>
  /\ UNCHANGED <<opens, handleVars, returned, closeVars, histVars>>

UrlAnswer(o) ==
  /\ Goto(o, "rpc", "storeBoth")
  /\ url' = [url EXCEPT ![o] = now]
  /\ UNCHANGED <<now, factoryVars, nodeVars, handles, mine, snapshot, outcome>>
  /\ UNCHANGED <<opens, handleVars, returned, closeVars, histVars>>

UrlFails(o) == Fail(o, "rpc", "error")

StoreUrlField(o) ==
  /\ Goto(o, "storeBoth", "storeExpiration") \/ Goto(o, "storeUrl", "handle")
  /\ StoreUrl(url[o])
  /\ UNCHANGED <<now, nodeVars, handles, url, mine, snapshot, outcome>>
  /\ UNCHANGED <<opens, handleVars, returned, closeVars, histVars>>

StoreExpirationField(o) ==
  /\ Goto(o, "storeBoth", "storeUrl") \/ Goto(o, "storeExpiration", "handle")
  /\ StoreExpiration
  /\ UNCHANGED <<now, nodeVars, handles, url, mine, snapshot, outcome>>
  /\ UNCHANGED <<opens, handleVars, returned, closeVars, histVars>>

-----------------------------------------------------------------------------
(* The new handle, and append. *)

\* Seeded fault: the counter is not advanced.
NewHandle_SameId(o) ==
  /\ Goto(o, "handle", "append")
  /\ mine' = [mine EXCEPT ![o] = made + 1]
  /\ live' = live \cup {made + 1}
  /\ UNCHANGED <<now, factoryVars, nodeVars, handles, url, snapshot, outcome>>
  /\ UNCHANGED <<opens, made, returned, closeVars, histVars>>

NewHandle(o) ==
  /\ Goto(o, "handle", "append")
  /\ made' = made + 1
  /\ mine' = [mine EXCEPT ![o] = made + 1]
  /\ live' = live \cup {made + 1}
  /\ UNCHANGED <<now, factoryVars, nodeVars, handles, url, snapshot, outcome>>
  /\ UNCHANGED <<opens, returned, closeVars, histVars>>

AppendLoad(o) ==
  /\ Goto(o, "append", "store")
  /\ snapshot' = [snapshot EXCEPT ![o] = handles]
  /\ UNCHANGED <<now, factoryVars, nodeVars, handles, url, mine, outcome>>
  /\ UNCHANGED <<opens, handleVars, returned, closeVars, histVars>>

\* The kernel gets the handle, if it is not nil.
Hand(h) ==
  /\ returned' = returned \cup ({h} \ {0})
  /\ early' = IF nodeClosed THEN early ELSE early \cup ({h} \ {0})

\* Seeded fault: the node does not keep its handle.
AppendStore_Forgotten(o) ==
  /\ Goto(o, "store", "idle")
  /\ outcome' = IF mine[o] = 0 THEN "nil" ELSE "handle"
  /\ Hand(mine[o])
  /\ url' = [url EXCEPT ![o] = NoUrl]
  /\ mine' = [mine EXCEPT ![o] = 0]
  /\ snapshot' = [snapshot EXCEPT ![o] = <<>>]
  /\ UNCHANGED <<now, factoryVars, nodeVars, handles, opens, handleVars, closeVars, raced, overlap>>

\* node.handles = append(...), and Open returns the handle.
AppendStore(o) ==
  /\ Goto(o, "store", "idle")
  /\ handles' = Append(snapshot[o], mine[o])
  /\ raced' = (raced \/ handles # snapshot[o])
  /\ outcome' = IF mine[o] = 0 THEN "nil" ELSE "handle"
  /\ Hand(mine[o])
  /\ url' = [url EXCEPT ![o] = NoUrl]
  /\ mine' = [mine EXCEPT ![o] = 0]
  /\ snapshot' = [snapshot EXCEPT ![o] = <<>>]
  /\ UNCHANGED <<now, factoryVars, nodeVars, opens, handleVars, closeVars, overlap>>

-----------------------------------------------------------------------------
(* Close of the node, and of its handle service. *)

CloserGoto(from, to) ==
  /\ closer = from
  /\ closer' = to
  /\ UNCHANGED <<now, handles, openVars, opens, made, returned, raced, early>>

CloseCAS ==
  /\ CloserGoto("idle", "service")
  /\ nodeClosed' = TRUE
  /\ overlap' = (\E o \in Openers : pc[o] # "idle")
  /\ UNCHANGED <<factoryVars, serviceClosed, factorySet, live, todo>>

CloseService ==
  /\ CloserGoto("service", "factory")
  /\ serviceClosed' = TRUE
  /\ UNCHANGED <<factoryVars, nodeClosed, factorySet, live, todo, overlap>>

CloseFactory ==
  /\ CloserGoto("factory", "drop")
  /\ FactoryClose
  /\ UNCHANGED <<nodeVars, live, todo, overlap>>

CloseDropFactory ==
  /\ CloserGoto("drop", "range")
  /\ factorySet' = FALSE
  /\ UNCHANGED <<factoryVars, nodeClosed, serviceClosed, live, todo, overlap>>

\* range evaluates node.handles once.
CloseRange ==
  /\ CloserGoto("range", "visit")
  /\ todo' = handles
  /\ UNCHANGED <<factoryVars, nodeVars, live, overlap>>

CloseVisit ==
  /\ todo # <<>> /\ Head(todo) # 0
  /\ CloserGoto("visit", "visit")
  /\ live' = live \ {Head(todo)}
  /\ todo' = Tail(todo)
  /\ UNCHANGED <<factoryVars, nodeVars, overlap>>

CloseVisitNil ==
  /\ todo # <<>> /\ Head(todo) = 0
  /\ CloserGoto("visit", "crashed")
  /\ UNCHANGED <<factoryVars, nodeVars, live, todo, overlap>>

CloseEnd ==
  /\ todo = <<>>
  /\ CloserGoto("visit", "end")
  /\ UNCHANGED <<factoryVars, nodeVars, live, todo, overlap>>

-----------------------------------------------------------------------------

\* The kernel releases a handle it has been given.
Release(h) ==
  /\ h \in returned \cap live
  /\ live' = live \ {h}
  /\ UNCHANGED <<now, factoryVars, nodeVars, handles, openVars, opens, made, returned,
                 closeVars, histVars>>

\* Minutes pass: longer than any step between an answer and its use.
Tick ==
  /\ now < MaxTime
  /\ \A o \in Openers : pc[o] \notin {"cached", "storeBoth", "storeUrl", "storeExpiration"}
  /\ now' = now + 1
  /\ UNCHANGED <<factoryVars, nodeVars, handles, openVars, opens, handleVars, returned,
                 closeVars, histVars>>

OpenStep(o) ==
  \/ CallOpen(o) \/ OpenIsClosed(o) \/ OpenIsOpen(o)
  \/ ServiceIsClosed(o) \/ ServiceIsOpen(o) \/ NewLoggerFails(o)
  \/ FactoryIsNil(o) \/ FactoryIsClosed(o) \/ FactoryIsOpen(o)
  \/ CacheHit(o) \/ CacheMiss(o) \/ CacheReturn(o)
  \/ UrlAnswer(o) \/ UrlFails(o) \/ StoreUrlField(o) \/ StoreExpirationField(o)
  \/ NewHandle(o) \/ AppendLoad(o) \/ AppendStore(o)

CloseStep ==
  \/ CloseCAS \/ CloseService \/ CloseFactory \/ CloseDropFactory
  \/ CloseRange \/ CloseVisit \/ CloseVisitNil \/ CloseEnd

Running == closer # "crashed"

\* The process is gone, or the node is closed and no Open is left to run.
Rest ==
  /\ ~Running \/ (closer = "end" /\ opens = MaxHandles /\ \A o \in Openers : pc[o] = "idle")
  /\ UNCHANGED vars

Next ==
  \/ Running /\ \E o \in Openers : OpenStep(o)
  \/ Running /\ CloseStep
  \/ Running /\ \E h \in Handles : Release(h)
  \/ Running /\ Tick
  \/ Rest

Spec == Init /\ [][Next]_vars

-----------------------------------------------------------------------------

TypeOK ==
  /\ now \in 0..MaxTime
  /\ cachedUrl \in Nat \cup {NoUrl} /\ expiration \in Nat
  /\ factoryClosed \in BOOLEAN
  /\ nodeClosed \in BOOLEAN /\ serviceClosed \in BOOLEAN /\ factorySet \in BOOLEAN
  /\ made \in Nat /\ opens \in 0..MaxHandles
  /\ handles \in Seq(0..made) /\ todo \in Seq(0..made)
  /\ pc \in [Openers -> OpenPCs \cup {"idle"}]
  /\ url \in [Openers -> Nat \cup {NoUrl}]
  /\ mine \in [Openers -> 0..made]
  /\ snapshot \in [Openers -> Seq(0..made)]
  /\ live \subseteq 1..made /\ returned \subseteq 1..made /\ early \subseteq returned
  /\ closer \in {"idle", "service", "factory", "drop", "range", "visit", "end", "crashed"}
  /\ raced \in BOOLEAN /\ overlap \in BOOLEAN
  /\ outcome \in {"none", "handle", "nil", "error", "panic"}

\* A Close that has run to its end leaves no stream of a handle open that was
\* returned before it began, unless two appends have raced.
CloseReachesHandles == closer = "end" /\ ~raced => early \cap live = {}

\* An Open answers with nil, or panics, only when Close has begun.
BadAnswerOnlyByClose == outcome \in {"nil", "panic"} => nodeClosed

\* Close meets a nil handle, and ends the process, only when an Open was
\* inside as it began.
CrashOnlyByOverlap == closer = "crashed" => overlap

\* What is nil to a caller of Open, or to Close, comes from their overlap.
FaultsOnlyByClose == BadAnswerOnlyByClose /\ CrashOnlyByOverlap

\* A url from the cache is younger than TTL, unless another Open has stored
\* the expiration of its url and not yet the url itself.
OldUrlOnlyByRace ==
  [][\A o \in Openers : pc[o] = "cached" /\ pc'[o] = "handle" =>
       cachedUrl + TTL > now \/ \E p \in Openers : pc[p] = "storeUrl"]_vars

phaseBar ==
  CASE closer = "idle" -> "open" [] closer = "end" -> "closed" [] closer = "crashed" -> "crashed"
    [] OTHER -> "closing"

\* The list is answerable for no handle once two appends have raced.
List == INSTANCE ClosedList WITH
  phase <- phaseBar, given <- early, shut <- (1..made) \ live,
  missed <- IF raced THEN early ELSE {}

\* The node keeps the promise of a list of handles: it counts none as given once
\* Close has begun, a stream that is closed is not opened again, and Close ends
\* only when no stream of an early handle is open or appends have raced.
ImplementsClosedList == List!ListSpec

=============================================================================
