------------------------------ MODULE FileNode ------------------------------
(***************************************************************************)
(* file/node/main.go and file/handle/service/main.go: an ordinary file and *)
(* the handles it has opened.                                              *)
(*                                                                         *)
(* Open runs in a goroutine per request and holds node.mu for reading      *)
(* only; Close, called once by the registry at shutdown, takes no lock.    *)
(* It sets handleService to nil, closes each handle in a goroutine of its  *)
(* own and waits for them before it drops the list.  Once the service is   *)
(* closed its New returns nil without an error.  A panic of Open is        *)
(* answered with an error, one in a goroutine of Close ends the process.   *)
(*                                                                         *)
(* A handle is a number; what it does with a request is module FileHandle. *)
(***************************************************************************)
EXTENDS Naturals, Sequences

CONSTANTS
  Openers,     \* goroutines that serve Open
  MaxOpens     \* bound: how many Opens a behaviour can make

ASSUME OpensAssumption == MaxOpens \in Nat

VARIABLES
  nodeClosed,      \* node.closed
  serviceClosed,   \* closed of the handle service
  serviceSet,      \* node.handleService is not nil
  handles,         \* node.handles as a set, 0 for a nil handle
  pc,              \* control state of each opener
  mine,            \* the handle its handleService.New has returned
  snapshot,        \* the node.handles its append has read
  opens,           \* how many Opens have been called
  made,            \* handles 1..made exist
  handleClosed,    \* the handles that are closed
  closer,          \* control state of Close
  closing,         \* the handles whose Close has been started
  outcome,         \* how the Open that ended last has ended
  early,           \* history: the handles returned before Close has begun
  lost,            \* history: the handles an append has written over
  overlap          \* history: an Open was inside when Close began

nodeVars == <<nodeClosed, serviceClosed, serviceSet>>
openVars == <<pc, mine, snapshot, outcome>>
closeVars == <<handleClosed, closer, closing>>
vars == <<nodeVars, handles, openVars, opens, made, closeVars, early, lost, overlap>>

NilHandle == 0

Init ==
  /\ nodeClosed = FALSE /\ serviceClosed = FALSE /\ serviceSet = TRUE
  /\ handles = {}
  /\ pc = [o \in Openers |-> "idle"]
  /\ mine = [o \in Openers |-> NilHandle]
  /\ snapshot = [o \in Openers |-> {}]
  /\ outcome = "none"
  /\ opens = 0 /\ made = 0
  /\ handleClosed = {} /\ closer = "idle" /\ closing = {}
  /\ early = {} /\ lost = {} /\ overlap = FALSE

-----------------------------------------------------------------------------
(* Open. *)

Goto(o, from, to) ==
  /\ pc[o] = from
  /\ pc' = [pc EXCEPT ![o] = to]

\* Open returns no handle.
Fail(o, from, how) ==
  /\ Goto(o, from, "idle")
  /\ outcome' = how
  /\ UNCHANGED <<nodeVars, handles, mine, snapshot, opens, made, closeVars, early, lost, overlap>>

\* A step that changes nothing but the opener's control state.
Pass(o, from, to) ==
  /\ Goto(o, from, to)
  /\ UNCHANGED <<nodeVars, handles, mine, snapshot, outcome, opens, made, closeVars>>
  /\ UNCHANGED <<early, lost, overlap>>

CallOpen(o) ==
  /\ opens < MaxOpens
  /\ opens' = opens + 1
  /\ Goto(o, "idle", "node")
  /\ UNCHANGED <<nodeVars, handles, mine, snapshot, outcome, made, closeVars, early, lost, overlap>>

OpenIsClosed(o) == nodeClosed /\ Fail(o, "node", "error")

\* Seeded fault: Open does not ask whether the node is closed.
OpenIsOpen_NoCheck(o) == Pass(o, "node", "service")

OpenIsOpen(o) == ~nodeClosed /\ Pass(o, "node", "service")

\* New is called on a nil service.
ServiceIsNil(o) == ~serviceSet /\ Fail(o, "service", "panic")

ServiceFound(o) == serviceSet /\ Pass(o, "service", "new")

\* handleService.New returns nil, nil.
ServiceIsClosed(o) ==
  /\ serviceClosed
  /\ Pass(o, "new", "append")

\* No logger can be made for the handle.
NewLoggerFails(o) == ~serviceClosed /\ Fail(o, "new", "error")

\* Seeded fault: incrementId is not advanced.
NewHandle_SameId(o) ==
  /\ ~serviceClosed
  /\ Goto(o, "new", "append")
  /\ mine' = [mine EXCEPT ![o] = made + 1]
  /\ UNCHANGED <<nodeVars, handles, snapshot, outcome, opens, made, closeVars, early, lost, overlap>>

NewHandle(o) ==
  /\ ~serviceClosed
  /\ Goto(o, "new", "append")
  /\ made' = made + 1
  /\ mine' = [mine EXCEPT ![o] = made + 1]
  /\ UNCHANGED <<nodeVars, handles, snapshot, outcome, opens, closeVars, early, lost, overlap>>

AppendLoad(o) ==
  /\ Goto(o, "append", "store")
  /\ snapshot' = [snapshot EXCEPT ![o] = handles]
  /\ UNCHANGED <<nodeVars, handles, mine, outcome, opens, made, closeVars, early, lost, overlap>>

\* node.handles = append(...), and Open returns the handle.
AppendStore(o) ==
  LET written == snapshot[o] \cup {mine[o]} IN
  /\ Goto(o, "store", "idle")
  /\ handles' = written
  /\ lost' = lost \cup (handles \ written)
  /\ early' = IF nodeClosed THEN early ELSE early \cup {mine[o]}
  /\ outcome' = IF mine[o] = NilHandle THEN "nil" ELSE "handle"
  /\ mine' = [mine EXCEPT ![o] = NilHandle]
  /\ snapshot' = [snapshot EXCEPT ![o] = {}]
  /\ UNCHANGED <<nodeVars, opens, made, closeVars, overlap>>

-----------------------------------------------------------------------------
(* Close. *)

CloserGoto(from, to) ==
  /\ closer = from
  /\ closer' = to
  /\ UNCHANGED <<openVars, opens, made, early, lost>>

CloseCAS ==
  /\ CloserGoto("idle", "service")
  /\ nodeClosed' = TRUE
  /\ overlap' = (\E o \in Openers : pc[o] # "idle")
  /\ UNCHANGED <<serviceClosed, serviceSet, handles, handleClosed, closing>>

CloseService ==
  /\ CloserGoto("service", "drop")
  /\ serviceClosed' = TRUE
  /\ UNCHANGED <<nodeClosed, serviceSet, handles, handleClosed, closing, overlap>>

CloseDropService ==
  /\ CloserGoto("drop", "range")
  /\ serviceSet' = FALSE
  /\ UNCHANGED <<nodeClosed, serviceClosed, handles, handleClosed, closing, overlap>>

\* range evaluates node.handles once; each handle gets a goroutine.
CloseRange ==
  /\ CloserGoto("range", "wait")
  /\ closing' = handles
  /\ UNCHANGED <<nodeVars, handles, handleClosed, overlap>>

HandleCloses(h) ==
  /\ h \in closing \ {NilHandle}
  /\ CloserGoto("wait", "wait")
  /\ handleClosed' = handleClosed \cup {h}
  /\ closing' = closing \ {h}
  /\ UNCHANGED <<nodeVars, handles, overlap>>

\* Close is called on a nil handle.
HandleIsNil ==
  /\ NilHandle \in closing
  /\ CloserGoto("wait", "crashed")
  /\ UNCHANGED <<nodeVars, handles, handleClosed, closing, overlap>>

\* Seeded fault: Close does not wait for the goroutines.
CloseEnd_NoWait ==
  /\ CloserGoto("wait", "end")
  /\ handles' = {}
  /\ UNCHANGED <<nodeVars, handleClosed, closing, overlap>>

CloseEnd ==
  /\ closing = {}
  /\ CloserGoto("wait", "end")
  /\ handles' = {}
  /\ UNCHANGED <<nodeVars, handleClosed, closing, overlap>>

-----------------------------------------------------------------------------

OpenStep(o) ==
  \/ CallOpen(o) \/ OpenIsClosed(o) \/ OpenIsOpen(o)
  \/ ServiceIsNil(o) \/ ServiceFound(o) \/ ServiceIsClosed(o)
  \/ NewLoggerFails(o) \/ NewHandle(o) \/ AppendLoad(o) \/ AppendStore(o)

CloseStep ==
  \/ CloseCAS \/ CloseService \/ CloseDropService \/ CloseRange
  \/ \E h \in 1..made : HandleCloses(h)
  \/ HandleIsNil \/ CloseEnd

Running == closer # "crashed"

\* The process is gone, or the node is closed and no Open is left to run.
Rest ==
  /\ ~Running \/ (closer = "end" /\ opens = MaxOpens /\ \A o \in Openers : pc[o] = "idle")
  /\ UNCHANGED vars

Next ==
  \/ Running /\ \E o \in Openers : OpenStep(o)
  \/ Running /\ CloseStep
  \/ Rest

Spec == Init /\ [][Next]_vars

-----------------------------------------------------------------------------

TypeOK ==
  /\ nodeClosed \in BOOLEAN /\ serviceClosed \in BOOLEAN /\ serviceSet \in BOOLEAN
  /\ opens \in 0..MaxOpens /\ made \in Nat
  /\ handles \subseteq 0..made /\ lost \subseteq 0..made /\ early \subseteq 0..made
  /\ closing \subseteq 0..made /\ handleClosed \subseteq 1..made
  /\ pc \in [Openers -> {"idle", "node", "service", "new", "append", "store"}]
  /\ mine \in [Openers -> 0..made]
  /\ snapshot \in [Openers -> SUBSET (0..made)]
  /\ closer \in {"idle", "service", "drop", "range", "wait", "end", "crashed"}
  /\ outcome \in {"none", "handle", "nil", "error", "panic"}
  /\ overlap \in BOOLEAN

\* A Close that has run to its end has closed every handle that was returned
\* before it began, but those an append of another Open has written over.
CloseReachesHandles == closer = "end" => early \subseteq handleClosed \cup lost

\* An Open answers with nil, or panics, only when Close has begun.
BadAnswerOnlyByClose == outcome \in {"nil", "panic"} => nodeClosed

\* Close meets a nil handle, and ends the process, only when an Open was
\* inside as it began.
CrashOnlyByOverlap == closer = "crashed" => overlap

\* What is nil to a caller of Open, or to Close, comes from their overlap.
FaultsOnlyByClose == BadAnswerOnlyByClose /\ CrashOnlyByOverlap

phaseBar ==
  CASE closer = "idle" -> "open" [] closer = "end" -> "closed" [] closer = "crashed" -> "crashed"
    [] OTHER -> "closing"

List == INSTANCE ClosedList WITH
  phase <- phaseBar, given <- early, shut <- handleClosed, missed <- lost

\* The node keeps the promise of a list of handles: it counts none as given once
\* Close has begun, and Close ends only when each is closed or written over.
ImplementsClosedList == List!ListSpec

=============================================================================
