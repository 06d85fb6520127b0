------------------------------- MODULE System -------------------------------
(***************************************************************************)
(* The process of module Shutdown with the registries of module Registry   *)
(* in the place of the list that Shutdown takes from ClosedList.           *)
(*                                                                         *)
(* What each module only assumes of the other holds here because the other *)
(* one does it: a Lookup runs while the kernel is served, registry.Close   *)
(* is called by the FileSystem.Close that does the work and returns to it, *)
(* and a fault of the map ends the process.  The panic of a node that is   *)
(* being closed is left out: Registry has none, Shutdown allows it.        *)
(*                                                                         *)
(* External: Serve of the FUSE library returns when the handlers it has    *)
(* started are done.                                                       *)
(***************************************************************************)
EXTENDS Registry

CONSTANT Users   \* programs that use the file system

\* The process, as in Shutdown.
VARIABLES proc, main, waiter, serve, closePC, signals, serverFS, connection,
          fsClosed, rootService, root, mount, users, failed

\* One bound serves for the Lookups and the signals.
Process == INSTANCE Shutdown WITH
  Nodes <- 1..MaxLookups, MaxSignals <- MaxLookups,
  phase <- phaseBar, given <- early, shut <- early \cap nodeClosed, missed <- lost \cup Orphans

systemVars == <<vars, proc, main, waiter, serve, closePC, signals, serverFS, connection,
                fsClosed, rootService, root, mount, users, failed>>

SystemInit == Init /\ Process!Init

-----------------------------------------------------------------------------

\* Serve returns, when no handler is left.
ServeReturns ==
  /\ \A l \in Lookers : pc[l] = "idle"
  /\ Process!ServeEnds \/ Process!ServeFails

\* FileSystem.Close, but for registry.Close.
FSClose(w) ==
  \/ Process!FSCloseAgain(w) \/ Process!FSCloseCAS(w)
  \/ Process!FSCloseRoot(w) \/ Process!FSCloseDrop(w)

\* The process goes on, and leaves its registries alone.
ProcessStep ==
  /\ UNCHANGED vars
  /\ \/ Process!MainStep \/ Process!Notify \/ Process!Cancel \/ Process!Signal
     \/ Process!ServeLoads \/ Process!ServeRoot \/ Process!ServeRootNil
     \/ Process!ServeRootFails \/ ServeReturns \/ Process!Destroy \/ Process!Umount
     \/ \E w \in Process!Closers : FSClose(w)
     \/ \E u \in Users : Process!UserOpens(u) \/ Process!UserCloses(u)

\* registry.Close is called, and returns.
RegistryCloseBegins(w) ==
  /\ CloseCalled
  /\ Process!CloseGoto(w, "registry", "nodes")
  /\ UNCHANGED <<proc, fsClosed, rootService>>

RegistryCloseEnds(w) ==
  /\ RangeEnd
  /\ Process!CloseGoto(w, "nodes", "end")
  /\ UNCHANGED <<proc, fsClosed, rootService>>

\* In between it closes the nodes,
RegistryCloses ==
  /\ \/ DropList \/ CloseWaits
     \/ \E x \in Names : RangeNext(x)
     \/ \E n \in NodeIds : NodeCloses(n)
  /\ Process!NodeStep /\ UNCHANGED proc

\* while Lookups go on as long as the kernel is served.
Looks ==
  /\ Process!Serving
  /\ \E l \in Lookers : LookStep(l)
  /\ Process!NodeStep /\ UNCHANGED proc

\* The Go runtime ends the process.
MapFaults ==
  /\ MapFault
  /\ proc' = "broken"
  /\ Process!NodeStep

SystemRest == UNCHANGED vars /\ Process!Rest

SystemNext ==
  \/ Process!Running /\ ProcessStep
  \/ Process!Running /\ \E w \in Process!Closers : RegistryCloseBegins(w) \/ RegistryCloseEnds(w)
  \/ Process!Running /\ (RegistryCloses \/ Looks \/ MapFaults)
  \/ SystemRest

SystemSpec == SystemInit /\ [][SystemNext]_systemVars

-----------------------------------------------------------------------------

\* The registries in the process do what Registry lets them do alone.
ImplementsRegistry == Spec

\* The process with its registries does what Shutdown lets it do with a list.
ImplementsShutdown == Process!Spec

\* A node that a Lookup has returned before registry.Close began is closed when
\* main returns, unless Destroy is still at the nodes, an append of another
\* Lookup has written the node over, or its Registry was the second one that
\* two first Lookups made at the same time.
EarlyNodesClosedAtExit ==
  proc = "exited" /\ closePC["destroy"] \in {"idle", "end"} =>
    \A n \in early : n \in nodeClosed \/ n \in lost \/ ~Listed(nodes[n].home)

\* registry.Close is called once: whoever comes to call it finds that it has not
\* been called, and whoever is inside is the one who called it.
RegistryClosedOnce ==
  Process!Running =>
    /\ \A w \in Process!Closers :
         /\ closePC[w] = "registry" => closer = "idle"
         /\ closePC[w] = "nodes" => closer \notin {"idle", "end"}
    /\ closePC["main"] # "nodes" \/ closePC["destroy"] # "nodes"

\* A Lookup runs only while Serve serves the kernel: none has begun
\* before it has its root, and none is left when it returns.
HandlersServed == (\E l \in Lookers : pc[l] # "idle") => Process!Serving

=============================================================================
