------------------------------ MODULE Shutdown ------------------------------
(***************************************************************************)
(* main.go, fuse/main.go, fuse/service/main.go and fs/main.go: the process *)
(* from the mount to its end.                                              *)
(*                                                                         *)
(* Goroutines: main; waitForExit, which turns the first signal into the    *)
(* cancellation main waits for; Serve, which asks the file system for its  *)
(* root and then serves the kernel; and, when the kernel sends one, the    *)
(* handler of a Destroy request.  FileSystem.Close has two callers, main   *)
(* and Destroy, and does its work for the first of them.                   *)
(*                                                                         *)
(* External: the kernel, the FUSE library and the programs that use the    *)
(* file system.  Unmounting fails as busy while a program has a file or a  *)
(* directory open; Serve ends without an error when the mount is gone, and *)
(* with one when its connection is closed, or at any other time.  A panic  *)
(* in a handler is answered with an error, any other ends the process, and *)
(* so does logger.Fatal.  Programs open and close things as often as they  *)
(* like.                                                                   *)
(*                                                                         *)
(* The nodes that Lookups return, and what a call of registry.Close does   *)
(* to them, are taken from ClosedList, which Registry implements: they do  *)
(* here what ClosedList lets them do while the kernel is served or the     *)
(* nodes are closed.  Its crash is a list that two goroutines write at     *)
(* once, or the panic of a node that is being closed (modules Registry,    *)
(* FileNode, StreamableNode).  When registry.Close is called, and that it  *)
(* is called once, is up to this module.                                   *)
(***************************************************************************)
EXTENDS Naturals, FiniteSets

CONSTANTS
  Users,       \* programs that use the file system
  Nodes,       \* nodes that Lookups can return
  MaxSignals   \* bound: how many signals the process gets

ASSUME ShutdownAssumption == MaxSignals \in Nat

VARIABLES
  proc,           \* the process runs, or how it has ended
  main,           \* control state of main
  waiter,         \* control state of waitForExit
  serve,          \* control state of Serve
  closePC,        \* control state of FileSystem.Close for each caller
  signals,        \* how many signals have been sent
  serverFS,       \* server.fileSystem is not nil
  connection,     \* server.connection is open
  fsClosed,       \* fileSystem.closed
  rootService,    \* fileSystem.rootNodeService: "open", "closed" or "nil"
  root,           \* the node Serve has got from Root
  phase,          \* the registries: open, closing, closed or crashed
  given,          \* the nodes Lookups have returned before registry.Close
  shut,           \* those that are closed
  missed,         \* those that an append or a second Registry has lost
  mount,          \* "none", "mounted" or "gone"
  users,          \* the programs that have something open
  failed          \* history: the calls that have failed

nodeVars == <<phase, given, shut, missed>>
fsVars == <<closePC, fsClosed, rootService, nodeVars>>
serveVars == <<serve, root>>
serverVars == <<serverFS, connection>>
kernelVars == <<mount, users>>
vars == <<proc, main, waiter, signals, failed, fsVars, serveVars, serverVars, kernelVars>>

Closers == {"main", "destroy"}

Registries == INSTANCE ClosedList

Init ==
  /\ proc = "running" /\ main = "start" /\ waiter = "none" /\ serve = "none"
  /\ closePC = [w \in Closers |-> "idle"]
  /\ signals = 0
  /\ serverFS = TRUE /\ connection = FALSE
  /\ fsClosed = FALSE /\ rootService = "open" /\ root = "none"
  /\ Registries!Init /\ given = {}
  /\ mount = "none" /\ users = {}
  /\ failed = {}

-----------------------------------------------------------------------------
(* main, until it waits. *)

MainGoto(from, to) ==
  /\ main = from
  /\ main' = to

\* fuse.Mount, and the file system and its server are made.
Mount ==
  /\ MainGoto("start", "spawn")
  /\ mount' = "mounted"
  /\ connection' = TRUE
  /\ UNCHANGED <<proc, waiter, signals, failed, fsVars, serveVars, serverFS, users>>

\* The logger cannot be made, a panic; or fuse.Mount fails, logger.Fatal.
MountFails ==
  /\ MainGoto("start", "end")
  /\ proc' \in {"crashed", "fatal"}
  /\ failed' = failed \cup {"mount"}
  /\ UNCHANGED <<waiter, signals, fsVars, serveVars, serverVars, kernelVars>>

\* After fuse.Mount the factory of the root node service fails, logger.Fatal;
\* or the logger of the file system cannot be made, a panic.
MountedFails ==
  /\ MainGoto("start", "end")
  /\ mount' = "mounted"
  /\ connection' = TRUE
  /\ proc' \in {"crashed", "fatal"}
  /\ failed' = failed \cup {"construct"}
  /\ UNCHANGED <<waiter, signals, fsVars, serveVars, serverFS, users>>

GoServe ==
  /\ MainGoto("spawn", "spawnWaiter")
  /\ serve' = "config"
  /\ UNCHANGED <<proc, waiter, signals, failed, fsVars, root, serverVars, kernelVars>>

GoWaitForExit ==
  /\ MainGoto("spawnWaiter", "wait")
  /\ waiter' = "start"
  /\ UNCHANGED <<proc, signals, failed, fsVars, serveVars, serverVars, kernelVars>>

\* signal.Notify, the receive and cancel.
Notify ==
  /\ waiter = "start"
  /\ waiter' = "listen"
  /\ UNCHANGED <<proc, main, signals, failed, fsVars, serveVars, serverVars, kernelVars>>

\* Before Notify a signal ends the process; after it only the first one counts.
Signal ==
  /\ signals < MaxSignals
  /\ signals' = signals + 1
  /\ IF waiter \in {"none", "start"}
     THEN proc' = "killed" /\ UNCHANGED waiter
     ELSE waiter' = (IF waiter = "listen" THEN "cancel" ELSE waiter) /\ UNCHANGED proc
  /\ UNCHANGED <<main, failed, fsVars, serveVars, serverVars, kernelVars>>

Cancel ==
  /\ waiter = "cancel"
  /\ waiter' = "end"
  /\ MainGoto("wait", "close")
  /\ closePC' = [closePC EXCEPT !["main"] = "cas"]
  /\ UNCHANGED <<proc, signals, failed, fsClosed, rootService, nodeVars, serveVars,
                 serverVars, kernelVars>>

-----------------------------------------------------------------------------
(* FileSystem.Close, called by main and by Destroy. *)

CloseGoto(w, from, to) ==
  /\ closePC[w] = from
  /\ closePC' = [closePC EXCEPT ![w] = to]
  /\ UNCHANGED <<main, waiter, signals, failed, serveVars, serverVars, kernelVars>>

FSCloseAgain(w) ==
  /\ fsClosed
  /\ CloseGoto(w, "cas", "end")
  /\ UNCHANGED <<proc, fsClosed, rootService, nodeVars>>

\* Seeded fault: the second Close does the work again.
FSCloseCAS_Always(w) ==
  /\ CloseGoto(w, "cas", "root")
  /\ fsClosed' = TRUE
  /\ UNCHANGED <<proc, rootService, nodeVars>>

FSCloseCAS(w) ==
  /\ ~fsClosed
  /\ CloseGoto(w, "cas", "root")
  /\ fsClosed' = TRUE
  /\ UNCHANGED <<proc, rootService, nodeVars>>

\* rootNodeService.Close(), a panic if it is nil.
FSCloseRoot(w) ==
  /\ CloseGoto(w, "root", IF rootService = "nil" THEN "end" ELSE "drop")
  /\ rootService' = IF rootService = "nil" THEN "nil" ELSE "closed"
  /\ proc' = IF rootService = "nil" /\ w = "main" THEN "crashed" ELSE proc
  /\ UNCHANGED <<fsClosed, nodeVars>>

FSCloseDrop(w) ==
  /\ CloseGoto(w, "drop", "registry")
  /\ rootService' = "nil"
  /\ UNCHANGED <<proc, fsClosed, nodeVars>>

\* Seeded fault: Close leaves the registries alone.
FSCloseRegistry_Not(w) ==
  /\ CloseGoto(w, "registry", "end")
  /\ UNCHANGED <<proc, fsClosed, rootService, nodeVars>>

\* registry.Close()
FSCloseRegistry(w) ==
  /\ CloseGoto(w, "registry", "nodes")
  /\ phase' = "closing"
  /\ UNCHANGED <<proc, fsClosed, rootService, given, shut, missed>>

\* It returns when every node it has found is closed.
FSCloseEnds(w) ==
  /\ given \subseteq shut \cup missed
  /\ CloseGoto(w, "nodes", "end")
  /\ phase' = "closed"
  /\ UNCHANGED <<proc, fsClosed, rootService, given, shut, missed>>

-----------------------------------------------------------------------------
(* Server.Close. *)

ServerDropFS ==
  /\ closePC["main"] = "end"
  /\ MainGoto("close", "unmount")
  /\ serverFS' = FALSE
  /\ UNCHANGED <<proc, waiter, signals, failed, fsVars, serveVars, connection, kernelVars>>

\* Seeded fault: the file system is detached from the programs that use it.
Unmounts_Lazily ==
  /\ mount = "mounted"
  /\ MainGoto("unmount", "connection")
  /\ mount' = "gone"
  /\ UNCHANGED <<proc, waiter, signals, failed, fsVars, serveVars, serverVars, users>>

Unmounts ==
  /\ mount = "mounted" /\ users = {}
  /\ MainGoto("unmount", "connection")
  /\ mount' = "gone"
  /\ UNCHANGED <<proc, waiter, signals, failed, fsVars, serveVars, serverVars, users>>

\* Seeded fault: a busy mount point is treated as any other error.
UnmountBusy_GivesUp ==
  /\ mount = "mounted" /\ users # {}
  /\ MainGoto("unmount", "connection")
  /\ UNCHANGED <<proc, waiter, signals, failed, fsVars, serveVars, serverVars, kernelVars>>

\* The mount point is busy: one second later it tries again.
UnmountBusy ==
  /\ mount = "mounted" /\ users # {}
  /\ MainGoto("unmount", "sleep")
  /\ UNCHANGED <<proc, waiter, signals, failed, fsVars, serveVars, serverVars, kernelVars>>

SleepEnds ==
  /\ MainGoto("sleep", "unmount")
  /\ UNCHANGED <<proc, waiter, signals, failed, fsVars, serveVars, serverVars, kernelVars>>

\* Seeded fault: any error is a reason to try again.
UnmountFails_Retries ==
  /\ MainGoto("unmount", "sleep")
  /\ failed' = failed \cup {"unmount"}
  /\ UNCHANGED <<proc, waiter, signals, fsVars, serveVars, serverVars, kernelVars>>

\* Any other error; the mount may be gone already.
UnmountFails ==
  /\ MainGoto("unmount", "connection")
  /\ failed' = failed \cup {"unmount"}
  /\ UNCHANGED <<proc, waiter, signals, fsVars, serveVars, serverVars, kernelVars>>

CloseConnection ==
  /\ MainGoto("connection", "exit")
  /\ connection' = FALSE
  /\ UNCHANGED <<proc, waiter, signals, failed, fsVars, serveVars, serverFS, kernelVars>>

Exit ==
  /\ MainGoto("exit", "end")
  /\ proc' = "exited"
  /\ UNCHANGED <<waiter, signals, failed, fsVars, serveVars, serverVars, kernelVars>>

-----------------------------------------------------------------------------
(* Serve. *)

ServeGoto(from, to) ==
  /\ serve = from
  /\ serve' = to
  /\ UNCHANGED <<main, waiter, signals, fsVars, serverVars, kernelVars>>

\* Serve loads server.fileSystem; Root on a nil file system panics.
ServeLoads ==
  /\ ServeGoto("config", IF serverFS THEN "root" ELSE "end")
  /\ proc' = IF serverFS THEN proc ELSE "crashed"
  /\ UNCHANGED <<root, failed>>

\* New of a closed root node service returns nil, nil.
ServeRoot ==
  /\ rootService # "nil"
  /\ ServeGoto("root", "serving")
  /\ root' = IF rootService = "open" THEN "node" ELSE "nil"
  /\ UNCHANGED <<proc, failed>>

ServeRootNil ==
  /\ rootService = "nil"
  /\ ServeGoto("root", "end")
  /\ proc' = "crashed"
  /\ UNCHANGED <<root, failed>>

\* The repository of file servers cannot be made: logger.Fatal.
ServeRootFails ==
  /\ rootService = "open"
  /\ ServeGoto("root", "end")
  /\ proc' = "fatal"
  /\ failed' = failed \cup {"root"}
  /\ UNCHANGED root

ServeEnds ==
  /\ mount = "gone"
  /\ ServeGoto("serving", "end")
  /\ UNCHANGED <<proc, root, failed>>

\* Serve returns an error: logger.Fatal.  That it does so when Server.Close has
\* closed the connection is no failure of its own.
ServeFails ==
  /\ ServeGoto("serving", "end")
  /\ proc' = "fatal"
  /\ failed' = IF connection THEN failed \cup {"serve"} ELSE failed
  /\ UNCHANGED root

\* The kernel sends Destroy when the mount is gone.
Destroy ==
  /\ serve = "serving" /\ mount = "gone"
  /\ CloseGoto("destroy", "idle", "cas")
  /\ UNCHANGED <<proc, fsClosed, rootService, nodeVars>>

-----------------------------------------------------------------------------
(* The nodes. *)

Serving == serve = "serving" /\ root = "node"

NodeStep ==
  UNCHANGED <<main, waiter, signals, failed, closePC, fsClosed, rootService, serveVars,
              serverVars, kernelVars>>

\* A Lookup returns a node, and its append may lose others.
NodeGiven ==
  /\ Serving
  /\ given' \in SUBSET Nodes /\ missed' \in SUBSET Nodes
  /\ Registries!Give
  /\ NodeStep /\ UNCHANGED proc

\* An append beside the Close loses nodes, or the map forgets a Registry.
NodesMissed ==
  /\ Serving
  /\ missed' \in SUBSET Nodes
  /\ Registries!Miss
  /\ NodeStep /\ UNCHANGED proc

\* A goroutine of CloseNodes has closed node x.
NodeCloses(x) ==
  /\ phase = "closing" /\ x \in given \ shut
  /\ shut' = shut \cup {x}
  /\ NodeStep /\ UNCHANGED <<proc, phase, given, missed>>

\* Two goroutines are at one map or list, or a node panics while it is closed.
NodesCrash ==
  /\ Serving \/ (root = "node" /\ phase = "closing")
  /\ Registries!Crash
  /\ proc' = "broken"
  /\ NodeStep

-----------------------------------------------------------------------------
(* The users. *)

UserOpens(u) ==
  /\ mount = "mounted" /\ serve = "serving" /\ root = "node" /\ connection
  /\ u \notin users
  /\ users' = users \cup {u}
  /\ UNCHANGED <<proc, main, waiter, signals, failed, fsVars, serveVars, serverVars, mount>>

UserCloses(u) ==
  /\ u \in users
  /\ users' = users \ {u}
  /\ UNCHANGED <<proc, main, waiter, signals, failed, fsVars, serveVars, serverVars, mount>>

\* An administrator unmounts the file system.
Umount ==
  /\ mount = "mounted" /\ users = {}
  /\ mount' = "gone"
  /\ UNCHANGED <<proc, main, waiter, signals, failed, fsVars, serveVars, serverVars, users>>

-----------------------------------------------------------------------------

MainStep ==
  \/ Mount \/ MountFails \/ MountedFails \/ GoServe \/ GoWaitForExit
  \/ ServerDropFS \/ Unmounts \/ UnmountBusy \/ SleepEnds \/ UnmountFails
  \/ CloseConnection \/ Exit

CloseStep(w) ==
  \/ FSCloseAgain(w) \/ FSCloseCAS(w) \/ FSCloseRoot(w) \/ FSCloseDrop(w)
  \/ FSCloseRegistry(w) \/ FSCloseEnds(w)

ServeStep ==
  \/ ServeLoads \/ ServeRoot \/ ServeRootNil \/ ServeRootFails \/ ServeEnds \/ ServeFails

Running == proc = "running"

\* The process is gone, or waits for a signal that does not come.
Rest ==
  /\ ~Running \/ (main = "wait" /\ waiter = "listen" /\ mount = "gone" /\ serve = "end")
  /\ UNCHANGED vars

Next ==
  \/ Running /\ (MainStep \/ ServeStep \/ Notify \/ Cancel \/ Signal \/ Destroy \/ Umount)
  \/ Running /\ \E w \in Closers : CloseStep(w)
  \/ Running /\ (NodeGiven \/ NodesMissed \/ NodesCrash \/ \E x \in Nodes : NodeCloses(x))
  \/ Running /\ \E u \in Users : UserOpens(u) \/ UserCloses(u)
  \/ Rest

Spec == Init /\ [][Next]_vars

\* The scheduler runs every goroutine that can run.
ProcessFairness ==
  /\ WF_vars(Running /\ MainStep)
  /\ WF_vars(Running /\ (Notify \/ Cancel))
  /\ \A w \in Closers : WF_vars(Running /\ CloseStep(w))
  /\ \A x \in Nodes : WF_vars(Running /\ x \notin missed /\ NodeCloses(x))

\* A program that has something open closes it one day.
FairSpec == Spec /\ ProcessFairness /\ \A u \in Users : WF_vars(Running /\ UserCloses(u))

-----------------------------------------------------------------------------

TypeOK ==
  /\ proc \in {"running", "exited", "fatal", "killed", "crashed", "broken"}
  /\ main \in {"start", "spawn", "spawnWaiter", "wait", "close", "unmount", "sleep",
               "connection", "exit", "end"}
  /\ waiter \in {"none", "start", "listen", "cancel", "end"}
  /\ serve \in {"none", "config", "root", "serving", "end"}
  /\ closePC \in [Closers -> {"idle", "cas", "root", "drop", "registry", "nodes", "end"}]
  /\ signals \in 0..MaxSignals
  /\ serverFS \in BOOLEAN /\ connection \in BOOLEAN
  /\ fsClosed \in BOOLEAN /\ phase \in {"open", "closing", "closed", "crashed"}
  /\ given \subseteq Nodes /\ shut \subseteq Nodes /\ missed \subseteq Nodes
  /\ rootService \in {"open", "closed", "nil"} /\ root \in {"none", "nil", "node"}
  /\ mount \in {"none", "mounted", "gone"}
  /\ users \subseteq Users /\ (users # {} => mount = "mounted")
  /\ failed \subseteq {"mount", "construct", "root", "serve", "unmount"}

\* A process that ends leaves its mount in place only when a call has failed
\* (unmounting, Root, Serve, or what is made after fuse.Mount), when a signal
\* came before anyone listened, when the signal overtook the start of Serve, or
\* when the nodes have brought it down.  That Server.Close closes the connection
\* under a Serve that is at work is no reason.
MountLeftOnlyByFailure ==
  ~Running /\ mount = "mounted" =>
    failed # {} \/ proc \in {"killed", "broken"} \/ (proc = "crashed" /\ root = "none")

\* When main returns, every node that a Lookup has returned before the close
\* is closed or was lost by its Registry, unless Destroy is still closing them.
NodesClosedAtExit ==
  proc = "exited" =>
    given \subseteq shut \cup missed \/ closePC["destroy"] \notin {"idle", "end"}

\* Closing the file system takes nothing away that a Serve needs which has its
\* root: then only the nodes can bring the process down.
ServingDoesNotCrash == proc = "crashed" => root = "none"

\* From some time on no program opens anything.
OpensCease == <>[][users' \subseteq users]_users

\* Once programs have stopped opening things, a signal that waitForExit has
\* received ends the process.  Without that the signal may be in vain: unmount
\* tries again for as long as it finds something open, and Server.Close does not
\* keep the programs that overlap from opening more.
SignalEndsProcess == OpensCease => (waiter = "cancel" ~> ~Running)

=============================================================================
