--------------------------- MODULE ShutdownProofs ---------------------------
(***************************************************************************)
(* Proofs about Shutdown, for any programs and signals.                    *)
(***************************************************************************)
EXTENDS Shutdown, TLAPS

\* Control states of a FileSystem.Close that does the work.
WorkPCs == {"root", "drop", "registry", "nodes"}

\* One Close does the work, and the root service and the registries tell how
\* far it is; when no one is at it the nodes are closed.
WorkInv ==
  /\ \A w \in Closers : closePC[w] \in WorkPCs \cup {"end"} => fsClosed
  /\ \A v, w \in Closers : closePC[v] \in WorkPCs /\ closePC[w] \in WorkPCs => v = w
  /\ ~fsClosed => rootService = "open"
  /\ \A w \in Closers : closePC[w] = "root" => rootService = "open"
  /\ \A w \in Closers : closePC[w] = "drop" => rootService = "closed"

\* The registries are closed by whoever does the work, and by no one before.
NodesInv ==
  /\ phase = "crashed" <=> proc = "broken"
  /\ Running =>
       /\ ~fsClosed => phase = "open"
       /\ \A w \in Closers : closePC[w] \in {"root", "drop", "registry"} => phase = "open"
       /\ \A w \in Closers : closePC[w] = "nodes" => phase = "closing"
  /\ fsClosed => phase \in {"closed", "crashed"} \/ \E w \in Closers : closePC[w] \in WorkPCs
  /\ phase = "closed" => given \subseteq shut \cup missed

\* How far main is says what has become of the mount and its connection.
MainInv ==
  /\ main = "start" => mount = "none"
  /\ main \in {"start", "spawn"} => serve = "none"
  /\ main \in {"start", "spawn", "spawnWaiter", "wait"} => closePC["main"] = "idle"
  /\ ~connection => main \in {"start", "exit"} \/ ~Running
  /\ main \in {"unmount", "sleep", "connection", "exit"} => closePC["main"] = "end"
  /\ proc = "exited" => closePC["main"] = "end"
  /\ main \in {"connection", "exit"} => mount # "mounted" \/ failed # {}

\* Serve has no root before it serves.
ServeInv == serve \in {"none", "config", "root"} => root = "none"

ShutdownInv ==
  /\ TypeOK /\ WorkInv /\ NodesInv /\ MainInv /\ ServeInv
  /\ MountLeftOnlyByFailure /\ ServingDoesNotCrash

USE DEF Closers, WorkPCs, nodeVars, fsVars, serveVars, serverVars, kernelVars, Running

-----------------------------------------------------------------------------

LEMMA InitInv == Init => ShutdownInv
<1>. SUFFICES ASSUME Init PROVE ShutdownInv
  OBVIOUS
<1>1. TypeOK
  <2>1. signals \in 0..MaxSignals
    BY ShutdownAssumption DEF Init, ShutdownAssumption
  <2>. QED
    BY <2>1 DEF Init, Registries!Init, TypeOK
<1>2. WorkInv /\ MainInv /\ ServeInv /\ MountLeftOnlyByFailure /\ ServingDoesNotCrash
  BY DEF Init, WorkInv, MainInv, ServeInv, MountLeftOnlyByFailure, ServingDoesNotCrash
<1>3. NodesInv
  BY DEF Init, Registries!Init, NodesInv
<1>. QED
  BY <1>1, <1>2, <1>3 DEF ShutdownInv

\* main, apart from FileSystem.Close.
LEMMA MainKeeps == ASSUME ShutdownInv, Running, MainStep PROVE ShutdownInv'
<1>. USE DEF ShutdownInv, MainGoto, Mount, MountFails, MountedFails, GoServe, GoWaitForExit,
         ServerDropFS, Unmounts, UnmountBusy, SleepEnds, UnmountFails, CloseConnection, Exit
<1>1. TypeOK'
  <2>1. CASE Mount
    BY <2>1 DEF TypeOK
  <2>2. CASE MountFails
    BY <2>2 DEF TypeOK
  <2>3. CASE GoServe
    BY <2>3 DEF TypeOK
  <2>4. CASE GoWaitForExit
    BY <2>4 DEF TypeOK
  <2>5. CASE ServerDropFS
    <3>1. serverFS' \in BOOLEAN
      BY <2>5, Zenon
    <3>2. /\ main' = "unmount"
          /\ UNCHANGED <<proc, waiter, signals, failed, fsVars, serveVars, connection, kernelVars>>
      BY <2>5, Zenon
    <3>. QED
      BY <3>1, <3>2 DEF TypeOK
  <2>6. CASE Unmounts
    BY <2>6 DEF TypeOK
  <2>7. CASE UnmountBusy
    BY <2>7 DEF TypeOK
  <2>8. CASE SleepEnds
    BY <2>8 DEF TypeOK
  <2>9. CASE UnmountFails
    BY <2>9 DEF TypeOK
  <2>10. CASE CloseConnection
    <3>1. connection' \in BOOLEAN
      BY <2>10, Zenon
    <3>2. /\ main' = "exit"
          /\ UNCHANGED <<proc, waiter, signals, failed, fsVars, serveVars, serverFS, kernelVars>>
      BY <2>10, Zenon
    <3>. QED
      BY <3>1, <3>2 DEF TypeOK
  <2>11. CASE Exit
    BY <2>11 DEF TypeOK
  <2>12. CASE MountedFails
    BY <2>12 DEF TypeOK, MainInv
  <2>. QED
    BY <2>1, <2>2, <2>3, <2>4, <2>5, <2>6, <2>7, <2>8, <2>9, <2>10, <2>11, <2>12 DEF MainStep
<1>2. WorkInv' /\ ServeInv'
  <2>1. UNCHANGED <<closePC, fsClosed, rootService, root>>
    BY DEF MainStep
  <2>2. serve' = serve \/ serve = "none"
    BY DEF MainInv, MainStep
  <2>. QED
    BY <2>1, <2>2 DEF WorkInv, ServeInv
<1>5. NodesInv'
  <2>1. UNCHANGED <<closePC, fsClosed, nodeVars>> /\ proc' # "broken"
    BY DEF MainStep
  <2>. QED
    BY <2>1 DEF NodesInv
<1>3. MainInv'
  BY DEF MainInv, TypeOK, MainStep
<1>4. MountLeftOnlyByFailure' /\ ServingDoesNotCrash'
  <2>1. CASE MountFails \/ MountedFails
    BY <2>1 DEF MainInv, ServeInv, MountLeftOnlyByFailure, ServingDoesNotCrash
  <2>2. CASE ~MountFails /\ ~MountedFails
    BY <2>2 DEF MainStep, MainInv, MountLeftOnlyByFailure, ServingDoesNotCrash
  <2>. QED
    BY <2>1, <2>2
<1>. QED
  BY <1>1, <1>2, <1>3, <1>4, <1>5

\* Signals, Destroy and an unmount from outside.
LEMMA EventKeeps ==
  ASSUME ShutdownInv, Running, Notify \/ Cancel \/ Signal \/ Destroy \/ Umount
  PROVE  ShutdownInv'
<1>. USE DEF ShutdownInv, MainGoto, CloseGoto, Notify, Cancel, Signal, Destroy, Umount
<1>1. TypeOK'
  <2>1. signals' \in 0..MaxSignals
    BY ShutdownAssumption DEF TypeOK, ShutdownAssumption
  <2>2. /\ proc' \in {"running", "killed"}
        /\ waiter' \in {"none", "start", "listen", "cancel", "end"}
        /\ main' = main \/ main' = "close"
        /\ closePC' \in [Closers -> {"idle", "cas", "root", "drop", "registry", "nodes", "end"}]
    BY DEF TypeOK
  <2>3. /\ UNCHANGED <<failed, fsClosed, rootService, nodeVars, serveVars, serverVars>>
        /\ UNCHANGED <<users, mount>> \/ (users' = {} /\ mount' = "gone")
    BY DEF TypeOK
  <2>. QED
    BY <2>1, <2>2, <2>3 DEF TypeOK
<1>2. WorkInv' /\ NodesInv'
  <2>1. UNCHANGED <<fsClosed, rootService, nodeVars>> /\ proc' # "broken"
    OBVIOUS
  <2>2. \A w \in Closers : closePC'[w] = closePC[w] \/ (closePC'[w] = "cas" /\ closePC[w] = "idle")
    BY DEF TypeOK, MainInv
  <2>. QED
    BY <2>1, <2>2 DEF WorkInv, NodesInv
<1>3. MainInv' /\ ServeInv'
  BY DEF MainInv, ServeInv, TypeOK
<1>4. MountLeftOnlyByFailure' /\ ServingDoesNotCrash'
  BY DEF MountLeftOnlyByFailure, ServingDoesNotCrash
<1>. QED
  BY <1>1, <1>2, <1>3, <1>4

\* The second Close returns at once, and the first one never meets a nil root
\* service; when it returns the nodes are closed.
LEMMA CloseKeeps ==
  ASSUME ShutdownInv, Running, NEW w \in Closers, CloseStep(w)
  PROVE  ShutdownInv'
<1>. USE DEF ShutdownInv, CloseStep, CloseGoto, FSCloseAgain, FSCloseCAS, FSCloseRoot, FSCloseDrop,
         FSCloseRegistry, FSCloseEnds
<1>1. UNCHANGED proc
  BY DEF WorkInv
<1>0. /\ closePC' \in [Closers -> {"idle", "cas", "root", "drop", "registry", "nodes", "end"}]
      /\ \A v \in Closers \ {w} : closePC'[v] = closePC[v]
  BY DEF TypeOK
<1>2. TypeOK'
  <2>1. /\ UNCHANGED <<main, waiter, signals, failed, serveVars, serverVars, kernelVars>>
        /\ fsClosed' \in BOOLEAN /\ rootService' \in {"open", "closed", "nil"}
        /\ phase' \in {"open", "closing", "closed"} \cup {phase}
        /\ UNCHANGED <<given, shut, missed>>
    BY DEF TypeOK
  <2>. QED
    BY <1>0, <1>1, <2>1 DEF TypeOK
<1>3. WorkInv'
  <2>1. CASE FSCloseAgain(w)
    BY <1>0, <2>1 DEF WorkInv, TypeOK
  <2>2. CASE FSCloseCAS(w)
    BY <1>0, <2>2 DEF WorkInv, TypeOK
  <2>3. CASE FSCloseRoot(w) \/ FSCloseDrop(w) \/ FSCloseRegistry(w) \/ FSCloseEnds(w)
    BY <1>0, <2>3 DEF WorkInv, TypeOK
  <2>. QED
    BY <2>1, <2>2, <2>3
<1>6. NodesInv'
  <2>1. CASE FSCloseAgain(w)
    BY <1>0, <1>1, <2>1 DEF NodesInv, WorkInv, TypeOK
  <2>2. CASE FSCloseCAS(w) \/ FSCloseRoot(w) \/ FSCloseDrop(w)
    BY <1>0, <1>1, <2>2 DEF NodesInv, WorkInv, TypeOK
  <2>3. CASE FSCloseRegistry(w)
    BY <1>0, <1>1, <2>3 DEF NodesInv, WorkInv, TypeOK
  <2>4. CASE FSCloseEnds(w)
    BY <1>0, <1>1, <2>4 DEF NodesInv, WorkInv, TypeOK
  <2>. QED
    BY <2>1, <2>2, <2>3, <2>4
<1>4. MainInv' /\ ServeInv'
  BY <1>1 DEF MainInv, ServeInv, TypeOK
<1>5. MountLeftOnlyByFailure' /\ ServingDoesNotCrash'
  BY <1>1 DEF MountLeftOnlyByFailure, ServingDoesNotCrash
<1>. QED
  BY <1>2, <1>3, <1>4, <1>5, <1>6

\* What the registries do beside the rest.
LEMMA NodesKeep ==
  ASSUME ShutdownInv, Running,
         NodeGiven \/ NodesMissed \/ NodesCrash \/ \E x \in Nodes : NodeCloses(x)
  PROVE  ShutdownInv'
<1>. USE DEF ShutdownInv, NodeStep, Serving
<1>1. CASE NodeGiven \/ NodesMissed \/ \E x \in Nodes : NodeCloses(x)
  <2>1. /\ UNCHANGED <<proc, main, waiter, signals, failed, closePC, fsClosed, rootService>>
        /\ UNCHANGED <<serveVars, serverVars, kernelVars, phase>>
    BY <1>1 DEF NodeGiven, NodesMissed, NodeCloses, Registries!Give, Registries!Miss
  <2>2. /\ given' \subseteq Nodes /\ shut' \subseteq Nodes /\ missed' \subseteq Nodes
        /\ phase = "closed" => given' \subseteq shut' \cup missed'
    BY <1>1 DEF NodeGiven, NodesMissed, NodeCloses, Registries!Give, Registries!Miss, TypeOK,
       NodesInv
  <2>. QED
    BY <2>1, <2>2 DEF TypeOK, WorkInv, NodesInv, MainInv, ServeInv, MountLeftOnlyByFailure,
       ServingDoesNotCrash
<1>2. CASE NodesCrash
  <2>1. /\ UNCHANGED <<main, waiter, signals, failed, closePC, fsClosed, rootService>>
        /\ UNCHANGED <<serveVars, serverVars, kernelVars, given, shut, missed>>
        /\ phase' = "crashed" /\ proc' = "broken"
    BY <1>2 DEF NodesCrash, Registries!Crash
  <2>. QED
    BY <2>1 DEF TypeOK, WorkInv, NodesInv, MainInv, ServeInv, MountLeftOnlyByFailure,
       ServingDoesNotCrash
<1>. QED
  BY <1>1, <1>2

LEMMA ServeKeeps == ASSUME ShutdownInv, Running, ServeStep PROVE ShutdownInv'
<1>. USE DEF ShutdownInv, ServeGoto, ServeLoads, ServeRoot, ServeRootNil, ServeRootFails,
         ServeEnds, ServeFails
<1>1. TypeOK'
  <2>1. CASE ServeLoads
    BY <2>1 DEF TypeOK
  <2>2. CASE ServeRoot
    BY <2>2 DEF TypeOK
  <2>3. CASE ServeRootNil
    BY <2>3 DEF TypeOK
  <2>4. CASE ServeRootFails
    BY <2>4 DEF TypeOK
  <2>5. CASE ServeEnds
    BY <2>5 DEF TypeOK
  <2>6. CASE ServeFails
    BY <2>6 DEF TypeOK
  <2>. QED
    BY <2>1, <2>2, <2>3, <2>4, <2>5, <2>6 DEF ServeStep
<1>2. WorkInv' /\ NodesInv' /\ ServeInv'
  BY DEF ServeStep, WorkInv, NodesInv, ServeInv
<1>3. MainInv'
  BY DEF ServeStep, MainInv
<1>4. MountLeftOnlyByFailure' /\ ServingDoesNotCrash'
  BY DEF ServeStep, MainInv, ServeInv, MountLeftOnlyByFailure, ServingDoesNotCrash
<1>. QED
  BY <1>1, <1>2, <1>3, <1>4

LEMMA UserKeeps ==
  ASSUME ShutdownInv, Running, NEW u \in Users, UserOpens(u) \/ UserCloses(u)
  PROVE  ShutdownInv'
<1>. USE DEF ShutdownInv, UserOpens, UserCloses
<1>1. TypeOK'
  <2>1. users' \subseteq Users /\ (users' # {} => mount = "mounted")
    BY DEF TypeOK
  <2>2. UNCHANGED <<proc, main, waiter, signals, failed, fsVars, serveVars, serverVars, mount>>
    OBVIOUS
  <2>. QED
    BY <2>1, <2>2 DEF TypeOK
<1>2. WorkInv' /\ NodesInv' /\ MainInv' /\ ServeInv' /\ MountLeftOnlyByFailure' /\ ServingDoesNotCrash'
  BY DEF WorkInv, NodesInv, MainInv, ServeInv, MountLeftOnlyByFailure, ServingDoesNotCrash
<1>. QED
  BY <1>1, <1>2

LEMMA StepInv == ShutdownInv /\ [Next]_vars => ShutdownInv'
<1>. SUFFICES ASSUME ShutdownInv, [Next]_vars PROVE ShutdownInv'
  OBVIOUS
<1>1. CASE UNCHANGED vars
  BY <1>1 DEF vars, ShutdownInv, TypeOK, WorkInv, NodesInv, MainInv, ServeInv, MountLeftOnlyByFailure,
     ServingDoesNotCrash
<1>. QED
  BY <1>1, MainKeeps, EventKeeps, CloseKeeps, NodesKeep, ServeKeeps, UserKeeps DEF Next, Rest

LEMMA Inductive == Spec => []ShutdownInv
  BY InitInv, StepInv, PTL DEF Spec

-----------------------------------------------------------------------------

\* Every control state and flag of the process keeps its type.
THEOREM ShutdownTyping == Spec => []TypeOK
  BY Inductive, PTL DEF ShutdownInv

\* For any programs and signals, the mount outlives the process only after a
\* call that has failed (of unmount, Root, Serve, or while the file system was
\* made), an early signal, a signal that overtook Serve, or a crash of the nodes.
THEOREM MountsLeftByFailure == Spec => []MountLeftOnlyByFailure
  BY Inductive, PTL DEF ShutdownInv

\* main returns with the nodes closed, or with Destroy at closing them.
THEOREM NodesAreClosed == Spec => []NodesClosedAtExit
<1>1. ShutdownInv => NodesClosedAtExit
  BY DEF ShutdownInv, WorkInv, NodesInv, MainInv, NodesClosedAtExit
<1>. QED
  BY <1>1, Inductive, PTL

\* No Close of the file system crashes a Serve that has its root.
THEOREM ServeSurvivesClose == Spec => []ServingDoesNotCrash
  BY Inductive, PTL DEF ShutdownInv

\* The process uses its registries as ClosedList lets it: although main and
\* Destroy both close the file system, registry.Close is called when the list
\* is open, so once, and it returns when the list is closing.  What the call does
\* to the nodes is the promise of ClosedList; when it is called is up to
\* FileSystem.Close, and NodesInv says that the test of closed is enough.
THEOREM RegistriesAreUsedAsPromised == Spec => Registries!ListSpec
<1>1. Init => Registries!Init
  BY DEF Init
<1>2. ShutdownInv /\ [Next]_vars => [Registries!Next]_(Registries!listVars)
  <2>. SUFFICES ASSUME ShutdownInv, [Next]_vars
                PROVE  [Registries!Next]_(Registries!listVars)
    OBVIOUS
  <2>. USE DEF Registries!listVars, Registries!Next
  <2>1. CASE UNCHANGED vars
    BY <2>1 DEF vars
  <2>2. CASE Running /\ (MainStep \/ ServeStep \/ Notify \/ Cancel \/ Signal \/ Destroy \/ Umount)
    <3>1. CASE MainStep
      BY <3>1 DEF MainStep, Mount, MountFails, MountedFails, GoServe, GoWaitForExit, ServerDropFS, Unmounts,
         UnmountBusy, SleepEnds, UnmountFails, CloseConnection, Exit
    <3>2. CASE ServeStep
      BY <3>2 DEF ServeStep, ServeGoto, ServeLoads, ServeRoot, ServeRootNil, ServeRootFails,
         ServeEnds, ServeFails
    <3>3. CASE Notify \/ Cancel \/ Signal \/ Destroy \/ Umount
      BY <3>3 DEF CloseGoto, Notify, Cancel, Signal, Destroy, Umount
    <3>. QED
      BY <2>2, <3>1, <3>2, <3>3
  <2>3. ASSUME Running, NEW w \in Closers, CloseStep(w)
        PROVE  [Registries!Next]_(Registries!listVars)
    <3>1. phase # "crashed"
      BY <2>3 DEF ShutdownInv, NodesInv
    <3>2. CASE FSCloseRegistry(w)
      <4>1. phase = "open"
        BY <2>3, <3>2 DEF ShutdownInv, NodesInv, FSCloseRegistry, CloseGoto
      <4>. QED
        BY <3>1, <3>2, <4>1 DEF FSCloseRegistry, Registries!Begin
    <3>3. CASE FSCloseEnds(w)
      <4>1. phase = "closing"
        BY <2>3, <3>3 DEF ShutdownInv, NodesInv, FSCloseEnds, CloseGoto
      <4>. QED
        BY <3>1, <3>3, <4>1 DEF FSCloseEnds, Registries!End
    <3>4. CASE FSCloseAgain(w) \/ FSCloseCAS(w) \/ FSCloseRoot(w) \/ FSCloseDrop(w)
      BY <3>4 DEF FSCloseAgain, FSCloseCAS, FSCloseRoot, FSCloseDrop
    <3>. QED
      BY <2>3, <3>2, <3>3, <3>4 DEF CloseStep
  <2>4. CASE Running /\ (NodeGiven \/ NodesMissed \/ NodesCrash \/ \E x \in Nodes : NodeCloses(x))
    <3>1. phase # "crashed"
      BY <2>4 DEF ShutdownInv, NodesInv
    <3>2. CASE NodeGiven \/ NodesMissed \/ NodesCrash
      BY <3>1, <3>2 DEF NodeGiven, NodesMissed, NodesCrash
    <3>3. CASE \E x \in Nodes : NodeCloses(x)
      BY <3>1, <3>3 DEF NodeCloses, Registries!Shut
    <3>. QED
      BY <2>4, <3>2, <3>3
  <2>5. CASE Running /\ \E u \in Users : UserOpens(u) \/ UserCloses(u)
    BY <2>5 DEF UserOpens, UserCloses
  <2>. QED
    BY <2>1, <2>2, <2>3, <2>4, <2>5 DEF Next, Rest
<1>. QED
  BY <1>1, <1>2, Inductive, PTL DEF Spec, Registries!ListSpec

=============================================================================
