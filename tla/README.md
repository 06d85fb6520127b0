# A verification project for Fuse Video Streamer

TLA+ modules that model the parts of fuse_video_streamer where concurrency,
failure and ordering decide whether a player gets the right bytes, TLC
configurations that check them on small instances, and TLAPS proofs of the
results that hold for every size.

Line numbers refer to the files of this repository; `stream/main.go:181` is
`src/stream/main.go`, line 181. `filesystem/server/provider/fuse/filesystem/` is
abbreviated `fs/`.

## 1. The system

A FUSE file system forwards directory and file operations to file servers over
gRPC. A video file ("streamable") is read by HTTP range requests to a url the
file server gives out.

    kernel -- FUSE server -- nodes and handles (fs/...) -- gRPC client -- file server
                                  |
                             stream factory -- url cache
                                  |
                               stream -- ring buffer -- transfer -- connection -- media server

| component | state | operations | hard because |
|---|---|---|---|
| Stream (`stream/main.go`) | mutex, closed flag, buffer and transfer pointers | ReadAt, Close | ReadAt holds the mutex, Close takes none and clears the pointers ReadAt uses |
| Transfer (`stream/transfer/main.go`) | closed flag, context, connection pointer, WaitGroup, buffer pool | NewTransfer, start, copyData, Close | two goroutines per transfer; Close waits for one of them only; successive transfers share the ring buffer |
| Connection (`stream/connection/main.go`) | closed flag, body | NewConnection, Read, Close | the request is sent by the first Read, which Close can overtake |
| Ring buffer (library `ring_buffer_go`) | window of the file, EOF marker | IsPositionAvailable, WaitForPosition, ReadAt, Write, ResetToPosition, Close | blocks writers when full and readers until data is there |
| Stream factory (`stream/factory/main.go`) | cached url and its expiration | NewStream, Close | the cache is read and written without a lock |
| Streamable handle (`fs/streamable/handle/main.go`) | closed flag, stream pointer | Read, Release, Close | concurrent reads; one that fails takes the stream away from the others |
| Read buffer pool (`.../fuse/pool/main.go`) | buffers shared by all handles | GetBuffer, PutBuffer | a response outlives the read that owns its buffer |
| Streamable node and handle service (`fs/streamable/`) | list of handles, closed flags, factory pointer | Open, Close | append under a read lock; a service that returns nil without an error |
| File node and handle (`fs/file/`) | size, list of handles | Open, Read, Write, Flush, Close | size read once; Close clears what Open uses |
| Directory node and handle (`fs/directory/`) | list of handles | Open, ReadDirAll, Lookup, Create, Mkdir, Remove, Rename, Link, Close | remote calls with a timeout, two calls per Create; append under a read lock; ReadDirAll without the lock of the node |
| Root node (`fs/root/`) | list of file servers | Lookup, ReadDirAll | calls every file server's Root |
| Registry (`.../fuse/registry/main.go`) | every node made so far | GetInstance, Add, CloseNodes | no lock at all |
| Server, file system, main | mount, connection | Serve, Close, unmount | shutdown beside running requests |
| gRPC client, repository | connections | one request per operation | ten second timeouts |
| Logger, configuration | open files | NewLogger, Close | side effects only |

### What makes each part correct

* Stream: a read gets units of the positions it asked for, or an error; a read
  that starts a download can be served from it; at most one download is open;
  nothing panics unless the stream is being closed or gets no logger for its first
  download; a read comes back short only at the end of what is there; closing releases every
  download and every waiting call; after Close reads are refused.
* Transfer and connection: no nil dereference, no goroutine that never ends.
* Handle and pool: a response carries the data of its own read; a buffer has one
  user; a handle that is closed or has failed leaves no open stream.
* Node and factory: every handle the kernel has got is closed by Close; a url is
  not older than its expiration says.
* Tree and shutdown: every node is closed once, the process ends, a request that
  is cut short is reported as failed.

`PROJECT.json` lists under "hazards" where each of these can go wrong.

## 2. Modules

| module | models | about |
|---|---|---|
| `StreamSizing` | the arithmetic of `stream/main.go` | buffer size, preload, start of a download, position a read waits for; one unit is what one read of the response body delivers |
| `RingBuffer` | the library, from its uses in `src/stream` | a window `base..top-1` with the file offset of each stored unit |
| `Connection` | `stream/connection/main.go` | extends RingBuffer; connection t belongs to transfer t |
| `Transfer` | `stream/transfer/main.go` | extends Connection; one control state for `start`, one for `copyData` per transfer |
| `Stream` | `stream/main.go` | extends Transfer; one control state per caller, one action per step between two uses of shared state; Init, Next, Spec, fairness |
| `StreamContract` | the promise of a stream | abstract: phases of callers, closed, whether a download was started, the last answer |
| `StreamProps` | | type invariant, properties, inductive invariants, refinement mapping `phaseBar` |
| `StreamProofs` | | the theorems about the stream |
| `ClosedList` | the promise of every list that is closed at shutdown | abstract: the phase, what was given out, what is shut, what the list has missed |
| `BufferPool` | `.../fuse/pool/main.go` | which buffers the pool can hand out |
| `HandleContract` | the promise of an open video file | abstract: stages of requests, shut, over, the last reply |
| `StreamableHandle` | `fs/streamable/handle/main.go` | extends BufferPool, INSTANCEs StreamContract: each call of the stream is a step of the contract |
| `StreamableHandleProofs` | | the theorems about the handle |
| `UrlCache` | `stream/factory/main.go` | the cached url, with the two fields stored apart |
| `StreamableNode` | `fs/streamable/node`, `fs/streamable/handle/service` | extends UrlCache; Open and Close of a node |
| `StreamableNodeProofs` | | the theorems about the node of a video file |
| `FileNode` | `fs/file/node`, `fs/file/handle/service` | Open and Close of an ordinary file |
| `FileNodeProofs` | | the theorems about the file node |
| `AtomicFile` | the promise of an open ordinary file | abstract: a Write takes effect at one instant, a Read sees the file of one instant |
| `FileHandle` | `fs/file/handle` | Read, ReadAll, Write, Flush and Release of one open file, and the remote file with its length |
| `FileHandleProofs` | | the theorems about the file handle |
| `Registry` | `.../fuse/registry/main.go`, the node services, both Lookups as far as they make nodes | lists of nodes, the map of registries, Close |
| `RegistryProofs` | | the theorems about the registry and about System |
| `FileTree` | the file server, from its uses in the gRPC client | directories, entries and their types; which changes it accepts and what they do |
| `AtomicTree` | the promise of the operations on directories | extends FileTree; abstract: changes take effect at one instant, answers are true at one instant |
| `RemoteTree` | the gRPC client (`grpc/internal/filesystem/main.go`) | extends FileTree; one request per caller, timeouts, requests carried out late |
| `Directory` | `fs/directory/node`, `fs/directory/handle` and its service | extends RemoteTree; the operations that look up, list and change entries, the handles and Close |
| `DirectoryProofs` | | the theorems about the directory |
| `Shutdown` | `main.go`, `.../fuse/main.go`, `.../fuse/service/main.go`, `fs/main.go` | the process from its mount to its end |
| `ShutdownProofs` | | the theorems about the shutdown |
| `System` | `main.go`, `.../fuse/`, `.../fuse/registry/main.go` together | Registry in the process of Shutdown, in the place of the list Shutdown assumes |
| `MC*` | | constants and symmetry for TLC |

Operators whose name ends in `_Something` after a source name (for example
`NewIsOpen_KeepOld`) are seeded faults: variants of the definition that follows
them with a plausible bug. They are used by no specification; `PROJECT.json`
("mutants") names the property each of them breaks.

### How the stream is cut into steps

`ReadAt` and `Close` run in any number of callers. Every load of
`stream.buffer` or `stream.transfer` is a step, because Close clears both
without the lock; checks that directly follow one another are one step. A load
that finds nil is an action of its own (`ReadNilBuffer`, `CloseOldNil`) with the
answer "panic". `transfer.Close`, reached from `newTransfer` and from `Close`,
is a sequence of four steps (`tCAS`, `tConn`, `tCancel`, `tWait`). In a transfer,
`start` and `copyData` interleave with everything; a nil dereference there ends
the process (`crashed`), after which nothing moves.

Four history variables follow a window. `epoch` and `stale` say whether it has been
written by a transfer other than the one it was reset for; `marker` is the transfer
whose `start` has put the EOF marker into it, and `outlived` holds the transfers whose
Close has returned before their `start` had run: `wg.Add(1)` is called in `start` itself
(`stream/transfer/main.go:65`), so such a Close finds nothing to wait for, and the marker
of that `start` lands in the window of a successor whose download still runs.

Two package variables are shared by all streams of the process, and the model of one
stream leaves open what the others do to them. A `Get` of the 64 KiB pool may always
return the pointer that a copyData of another stream has put there (`CopyGetPointer`, the
process ends by "others"); `pooled` only says that this stream has put one itself. The
logger named "Transfer" is made by the first `NewTransfer` of the process and kept, so a
stream that has made a transfer finds it; before that `NewTransfer` may panic
(`NewSpawnFails`, `stream/transfer/main.go:42`), inside a ReadAt of an open stream.

The ring buffer is not in this repository. The module's header lists what the
calls in `src/stream` determine about it; the one point they leave open, whether
a position beyond an EOF marker counts as available, is the constant
`EofAnswers`: the runs take both values, and the proofs hold for both.

### Open files

The streamable handle is written against `StreamContract`, not against the
detailed stream: ImplementsContract in the run `stream_progress` and the theorem
`StreamImplementsContract` justify it. Two facts live there and not in the
stream: the response refers to a pooled buffer after `PutBuffer` (`ReadReturns`,
`Respond`), and `handle.stream` is tested and loaded again later.

What the FUSE server in turn may rely on is `HandleContract`: data goes to a read that
was served before the handle was over, an error is the end of the handle, a panic
needs a handle that is over or, in a read, a stream without a download so far, and the Close that shuts it returns only when it
is. ImplementsHandleContract maps `handle.closed` to `shut` and the closed stream to `over`.

Both kinds of node treat a handle as a number. `append` is a load and a store,
since it runs under a read lock. In `StreamableNode` time is counted in ticks of
minutes; no tick falls between an answer of the file server and the assignment
of the cache (`Tick`). A handle service that is closed answers with nil and no
error; Close ends the process when it meets such a handle.

`FileHandle` keeps `handle.mu` as the control states of its goroutines: a request
that runs holds the lock for reading, a flush that has announced itself keeps
new readers out (`CanRead`). The remote file has a length and one unit per place,
and a unit is the number of the Write it comes from. A Write may lengthen the
file; the node has asked for its size once, when it was made, and `ReadAll` asks
for that much for ever after. `AtomicFile` is the same file without locks, requests
and deadlines: a Write takes effect once, between its call and its
acknowledgement, or later, or never, when its caller was timed out; a Read answers with
the file of one instant of its call. ImplementsAtomicFile takes the step of the server
for that instant.

### Lists that are closed

Nodes keep their handles in a list and registries their nodes, and Close goes
through the list. `ClosedList` says what that promises: while the list is open,
things are given out; nothing shut is opened again; Close begins once, and ends
only when everything given out before it began is shut or has been missed by
the list. The process may end instead. `FileNode`, `StreamableNode`, `Registry`
and `Directory` implement it (ImplementsClosedList), and differ in what they miss:

| module | things | missed |
|---|---|---|
| `FileNode`, `Directory` | handles | those written over by an append that raced with another (`lost`) |
| `StreamableNode` | handles, by their streams | all, once two appends have raced (`raced`) |
| `Registry` | nodes | those written over, and those of a Registry the map has forgotten (`Orphans`) |

### The tree

`Directory` follows an operation from its lock to its return, request by request.
The server carries out a request in one step of its own; when the caller has given up
on it (`Timeout`) it may still be carried out (`late`, `LateCarries`). An error of
the server means that it has not carried out the request. It may answer a Lookup or a
Mkdir without a node, which the client turns into the node of id zero (`AnswersTo`,
`ServerEmpty`); it may give or refuse the size of what is no longer in the tree (`Refuses`).
A directory that was found or made needs a node of its own, which can fail on its
registry or its loggers after the answer: a Mkdir then reports an error although its directory
exists (`NewNodeFails`, `fs/directory/node/main.go:256`). Several
nodes may stand for one directory, because every Lookup makes a new node, and a
directory may be removed while there are nodes of it (`Alive`).

Open makes a handle and appends it as a load and a store, since it holds the lock
for reading only. ReadDirAll is an operation of the handle, takes no lock of the node,
and answers ENOENT by a listing without entries. Close takes no lock, and closes
the handles it finds one after the other. The history variable `fresh` holds the
names that are still as a Lookup or a ReadDirAll has read them: a name leaves it
when what can be seen under it changes, and ListingAgreesWithLookup compares what two
operations say of a name that is fresh for both.

`AtomicTree` says what a caller can rely on, without nodes, locks, requests and
deadlines: a change takes effect at one instant and at most once, before it is
reported as done, never after it is reported as failed, and possibly later when it is
reported as timed out. What is reported as failed has had no effect, but for a Create and a
Mkdir, which may fail on what comes after their effect. A Lookup, a listing, and the second half of a Create answer
with what was there at one instant of their call. ImplementsAtomicTree maps `Directory` to it:
`OperationOf` is the operation of a caller from its call to its return; a change
is pending while its request can still be carried out (`Undecided`, and every
`late` one); and `FoundBy` is what the last answer of the server has told, so that a
Lookup may look twice (`GetFileInfo` after the first answer), a timeout forgets, and what has
been found may be gone by the second look (`Misses`).

`Registry` follows the same Lookups where `Directory` leaves them: which service
they use, how it finds its Registry, and how the new node gets into a list, up
to the Close at shutdown. The two modules share no variable: what a Lookup
answers does not depend on the lists, and which list a node gets into does not
depend on the remote tree beyond "found" and "failed", which are free choices in
`Registry`.

`Shutdown` takes the registries as their promise, not in detail: its `Registries` is an
instance of `ClosedList`. `FSCloseRegistry` begins the Close of that list and
`FSCloseEnds` waits for its end (`WaitGroup.Wait` in CloseNodes). Neither asks whether the list is
open or closing, as the code does not: that the list is closed once is a theorem
(`RegistriesAreUsedAsPromised`). In between the goroutines
close one node each (`NodeCloses`). While Serve runs, Lookups give out nodes
until the Close begins (`NodeGiven`; later ones do not count) and may lose some beside it
(`NodesMissed`).
What can fail fails at any time: the logger and the mount (`MountFails`), what is made between
the mount and the start of Serve (`MountedFails`), the root that Serve asks for (`ServeRootFails`), Serve
itself (`ServeFails`) and the unmount (`UnmountFails`); `failed` remembers which did. (The
factory of the root node service, `.../fuse/service/main.go:53`, returns no error as it stands; the
code's Fatal for it is modelled all the same.)
`NodesCrash` is what `Registry` and the nodes call a crash: the process is then "broken".
`Registry` implements that list (ImplementsClosedList), and `StreamableNode`,
`FileNode` and `Directory` are the detailed versions of one node's Close. Programs that keep
something open, which an unmount waits for, are counted and not followed to their handles.

`System` puts the two together: Registry's variables and those of Shutdown, each step
one of Registry, one of Shutdown, or one of both (`RegistryCloseBegins`,
`RegistryCloseEnds`, `MapFaults`). What each module takes from the other becomes a
step of the other: the call of registry.Close is one of FileSystem.Close and no longer free, its
return is the end of Registry's range and no longer what ClosedList promises, and a
Lookup runs only while Serve serves, which is external: Serve of the FUSE library returns
when its handlers are done. `Process` is Shutdown with its list replaced: nodes that Lookups return
after the Close has begun are not counted, and lost nodes and `Orphans` are missed.

## 3. Runs

| run | result | what it shows |
|---|---|---|
| `stream_safety` | pass | TypeOK, WindowExact, OneOpenTransfer, FaultsOnlyByClose, AlienOnlyFromSuperseded, ShortOnlyAtEnd, PanicOnlyByClose with two callers, three calls and three transfers |
| `stream_progress` | pass | under fairness on a wider file: the stream implements StreamContract (ImplementsContract), CallsReturn, ClosedStreamQuiesces, WaitFitsWindow |
| `stream_alien` | violation | a seek can return bytes of the old position |
| `stream_pool` | violation | the 64 KiB pool returns a pointer where a slice is expected |
| `handle_safety` | pass | TypeOK, BufferExclusive, NoStreamLeaks with three requests at a time; the handle implements HandleContract (ImplementsHandleContract) |
| `handle_response` | violation | a response carries another read's data |
| `node` | pass | TypeOK, FaultsOnlyByClose, OldUrlOnlyByRace, ImplementsClosedList with three Opens while the url expires |
| `file_node` | pass | TypeOK, FaultsOnlyByClose, ImplementsClosedList with four Opens |
| `file_handle` | pass | TypeOK, RegularFile, FlushReturns with writes that time out, arrive late and lengthen the file; the handle implements AtomicFile (ImplementsAtomicFile) |
| `registry` | pass | TypeOK, LossOnlyAcrossServices, ImplementsClosedList with lookups beside Close |
| `directory` | pass | TypeOK, LookupReturnsANode, ListingAgreesWithLookup, LockProtects, ImplementsClosedList with timeouts, late requests, removed directories and a Close; the operations implement AtomicTree (ImplementsAtomicTree) |
| `shutdown` | pass | TypeOK, MountLeftOnlyByFailure, NodesClosedAtExit, ServingDoesNotCrash, SignalEndsProcess with signals at any time and two nodes |

Many of the passing properties have the form "only by": the code does lose a
handle, leave a mount or answer with nil in some interleavings, and the property
says exactly in which. A change that opens another way breaks it.
In the nodes, FaultsOnlyByClose is BadAnswerOnlyByClose and CrashOnlyByOverlap together.
In the stream it says that no goroutine of a download finds its connection or buffer nil, or a pointer of
its own stream in the pool, nor the window gets a unit of another position, until a Close or
a seek has closed a transfer; the pointers of other streams it leaves open, as the code does.
PanicOnlyByClose lets a method panic when a Close has begun, or in the first newTransfer of the stream, which may
get no logger. ShortOnlyAtEnd leaves a short read three reasons: a Close, a window whose own download is
over, or the marker of an outlived `start`; any other superseded `start` has marked the window
before it was reset.
RegularFile is AcknowledgedWriteStays and ReadsAreRegular together.

Some properties are proved and not run, because a run checks a stronger one:
CloseReachesHandles and CloseReachesNodes, the state form of what
ImplementsClosedList says of the end of Close; CrashOnlyByClose, a part of
FaultsOnlyByClose; PanicOnlyAfterClose, AcknowledgedWriteStays, ReadsAreRegular and
OutcomeIsTrue, which speak of what the contracts of handle, file and tree promise.

`system.cfg` is not among the runs of `PROJECT.json`, since all it checks of System is
proved. It shows the same on an instance, with two Lookups at one file server, a
program and two signals (343 181 states): the invariants CloseReachesNodes, NodesClosedOnce,
EarlyNodesClosedAtExit, RegistryClosedOnce and HandlersServed, and the two refinements.

### What the violations say

* `stream_alien`: `start` does not wait for `copyData` when the transfer is
  cancelled, so `transfer.Close` returns while `copyData` can still write. The
  next window then begins with units of the old one. `AlienOnlyFromSuperseded`
  and the theorem `WindowsExact` say that this is the only way: without a write
  of a superseded copyData every window is exact.
* `stream_pool`: `bufferPool.Put(&buf)` stores a `*[]byte`. The first `Get` that
  returns it panics in a goroutine nobody recovers. The run shows it with the pointers of
  one stream; the pool is that of the process, and any stream can meet them.
* `handle_response`: `PutBuffer` is deferred in `Read`, the FUSE server sends the
  response afterwards.

### Seen while modelling

Facts the models contain and no run refutes:

* `start` clears `transfer.connection` while `copyData` is between its check of
  the context and its use of the field (`stream/transfer/main.go:76`); the process
  ends. FaultsOnlyByClose says that only a Close or a seek can bring it about.
* The README says an open file makes a final request for its url (line 24); the
  factory answers from its cache for fifteen minutes. OldUrlOnlyByRace bounds
  the age.
* unmount tries again without bound as long as a program keeps something open, and
  a second signal is taken by the channel and read by nobody. Server.Close does not keep
  programs from opening more while it retries, so that it is not enough that each closes what it
  has opened: two that open in overlap keep the mount busy for ever. SignalEndsProcess is
  therefore about behaviours in which programs stop opening at some time (`OpensCease`).
* Any error of Serve ends the process by logger.Fatal with the file system mounted, as does
  what fails between the mount and Serve; MountLeftOnlyByFailure counts these as failures.
* A Mkdir can report an error, or return a node of id zero, after its directory was made.
* A read can come back short in the middle of a download, by the EOF marker of an outlived
  `start`; a player then sees the end of the file too early.
* An umount from outside ends Serve but leaves main waiting for a signal
  (`Rest` of Shutdown).
* The root node is closed by nobody, nor are the node services; so Lookups go on
  while the nodes are closed, and the nodes they make then stay open.
* Two first Lookups at a file server can make two Registries, of which the map
  keeps one (`Orphans` in Registry).
* Create may return another file than the one it has created, when another node
  of the directory, a Rename out of another directory or a late request comes between its
  requests (LockProtects).
* ReadAll leaves out what acknowledged Writes have put behind the size the file had when
  its node was made (`fs/file/node/main.go:78`). RegularFile and AtomicFile speak of
  the places that were asked for.
* An empty listing may mean that the directory is gone
  (`fs/directory/handle/main.go:66` makes one of ENOENT).
* Two Opens in one directory can lose a handle, which then stays open after Close;
  a handle of a directory holds nothing but its flags, so nothing leaks.

### Bounds

* File of three units, buffer of two, preload of one; or four, three, one. Then
  the window covers a part of the file only, the floor at zero and the end of
  the file are both reached, a seek inside the window, before it and behind it
  all occur, and a writer meets a full buffer.
* `MaxTransfers` bounds transfers and calls: three are the first that let two
  superseded transfers meet a third window (`stream_safety`); `stream_progress`
  has two, as a seek and the Close after it are what must not hang. Two callers
  suffice for a Close beside a ReadAt; a third would only queue on the mutex.
* Handle: three requests at a time (two reads and a Close, or three reads), as
  many buffers as requests; requests repeat without bound.
* Nodes: three (streamable) or four (file) Opens by three goroutines and one
  Close, which are enough for two racing appends beside a finished Open; three
  ticks with a TTL of two, so that a url expires and another is fetched.
* File handle: two goroutines and two Writes at two places of a file that is one
  unit long at first: a Write that times out, is overtaken by an acknowledged one
  and arrives late, and one that lengthens the file, with reads and flushes without
  bound.
* Registry: two goroutines, two file servers, three Lookups: two at the root
  race for the map, or one at the root is followed by two in the directory it
  returned, whose services share a Registry.
* Directory: two callers, three operations out of fourteen, on three nodes of two
  remote directories, one of which can be removed. They form two workloads, and the
  constraints `OneWorkload` and `KeepsToIt` keep a behaviour to one of them: changes of
  one entry, with every operation on the name that a Create is about and one of each kind
  that is rejected before its request; or Opens, listings and Lookups in a directory in
  which a name is renamed, and which is removed and closed, one of its handles being
  open at the start. In the first no node is closed, as no handle is open.
* Shutdown: two programs that open and close without bound, two nodes, two signals: a second
  signal comes when the first has been taken, and a program opens something while unmount waits
  for another, and one node is given out or lost while another is closed.
* `stream_safety`, `handle_safety`, `directory`, `registry` and the node runs use
  symmetry of the goroutines (and buffers), which no action tells apart. Runs
  with liveness properties use none.

### Fairness

Three specifications assume any.

* Stream, `FairSpec`: weak fairness of each caller, of each `start` and of each
  `copyData`. The Go scheduler runs every goroutine that can run; `sync.Mutex`
  does not starve a waiter; `WaitForPosition` has a context of ten seconds and
  the HTTP client a timeout of four hours, so the waits that nobody answers end
  as well (`ReadWaitFails`, `CopyBodyEnds`). No fairness is assumed for the call
  of an operation or for data arriving.
* FileHandle, `FairSpec`: weak fairness of each goroutine and of the end of its
  request, which has a context of ten seconds. A late Write need never arrive.
* Shutdown, `FairSpec`: weak fairness of main, of waitForExit, of each caller
  of FileSystem.Close and of the goroutine that CloseNodes has started for a node, and that a program that has something open closes it one day. The
  last is an assumption on the environment, and so is `OpensCease`, which SignalEndsProcess has as
  its hypothesis: from some time on no program opens anything. Without either it does
  not hold, since unmount retries while the mount is busy (`.../fuse/main.go:77`). No fairness is assumed
  of Serve, of lookups or of a failure.

## 4. Proofs

`StreamProofs` proves, for every `Size`, `SmallVideoBuffer`, `MaxPreloadSize`,
`MaxTransfers`, set of callers and of requests satisfying the named assumptions
(sizes positive, requests inside the file):

* `Typing`, `WindowsExact`, `OneTransferOpen`, `CrashesOnlyByClose`, `FaultsNeedClose`, `SmallReadsFit`: the invariants of
  `stream_safety` and WaitFitsWindow of `stream_progress`;
* `OneDownloadPerCall`, that there are never more downloads than calls, and
  `WaitersCancelFirst`, that whoever waits for a transfer has cancelled it before;
* `AliensOnlyFromSuperseded`, `ShortReadsAtEnd` and `PanicsOnlyByClose`: the action properties;
* `StreamImplementsContract`: the refinement, step by step.

The argument. TypeOK is inductive: what it needs is `StartInFile`, that a download
starts inside the file. `LockInv` says who holds `stream.mu` where and that whoever
is inside Close has set closed. `PanicInv` adds that a nil buffer, or a nil
transfer in front of `stream.transfer.Close()`, needs a Close. `WindowInv` follows
the one unit between body and buffer: the download of the current epoch delivers
the position the next Write fills, `offset[t] = top`, or holds it,
`held[t] = top`; WindowExact alone is not inductive, since it says nothing of
what the next Write stores. `OpenInv` says where the open transfer is: in
`stream.transfer`, or in the hands of the caller that is making it or closing
it; OneOpenTransfer follows since that caller holds the lock. `ResetInv` ties
the base of the window to the position the waiting caller has asked for, and
`RequestFitsWindow` is the arithmetic that remains. `WaitedInv` says that a caller in
front of its ReadAt of the buffer finds the position it has asked for, unless the window
has an EOF marker or the stream is being closed: only the holder of the lock can take it away. Whose marker that is
`MarkInv` says. A marker that is not of the window's own download needs a `start` that could still write one
after the reset; `newTransfer` resets only when `transfer.Close` has returned, which waits for every
`start` that has run, so that each older transfer is `Settled`: it has no `start`, its `start` has ended, or it
is outlived. `InstalledInv` is what makes the argument go through every older transfer: an open stream keeps
the one transfer it has installed, which is the one of the window, and closes it before it makes the next. `FilledInv`
says that only a transfer puts anything into the buffer, so that an answer with data comes from a stream that has
started a download, as StreamContract has it. `CrashInv` and `RequestInv`
are the same for the pointers of a transfer and for the arguments of a call. `CountInv`
counts the transfers that callers are still about to make, `TargetInv` follows the
transfer a caller closes from its pointer to the wait for `start`, and `FaultInv` adds to
FaultsOnlyByClose that the pool has a pointer only from a copyData that has
ended and that the open transfer is the one the window was reset for.

`StreamableHandleProofs` proves `HandleTyping`, `BuffersExclusive`,
`StreamsDoNotLeak` and `PanicsOnlyAfterClose` for any number of requests and
buffers. TypeOK and BufferExclusive need one another (what is put back must be
a buffer). NoStreamLeaks is not inductive: `ClosePending` adds that whoever
has set `handle.closed` and has not yet reached the stream is still on its way. `HandleImplementsContract` is
the refinement of HandleContract, one lemma per action; it needs `PhasesMatch`, that a
request is inside a call of the stream exactly when the stream has it so, to
know that a failed read finds the handle over.

`FileNodeProofs` proves `NodeTyping`, `EarlyHandlesAreClosed`,
`BadAnswersOnlyByClose`, `CrashesOnlyByOverlap`, `FaultsNeedClose` (both of these)
and the refinement `NodeImplementsList` for any number of Opens.
CloseReachesHandles speaks of the end of Close only; `EarlyInv` says where an
early handle is at each step before: in the list, then with a goroutine of Close,
then closed, or written over. `FlagInv` says how far Close is when a flag is set.
`NilInv` follows a nil handle from the service through `mine`, a snapshot and the
list to Close, and `InsideInv` that an Open past its check of `node.closed` when
Close has begun is an overlap.

`StreamableNodeProofs` proves `NodeTyping`, `CloseReaches`, `BadAnswersAreLate`,
`CrashNeedsOverlap`, `FaultsNeedClose`, the refinement `NodeImplementsList` and the
action property `OldUrlNeedsRace` for any number of
Opens and any time to live. All but the last go the way of `FileNodeProofs`, with the
one list that Close visits in order in place of the goroutines. `UrlInv` carries
the last: the expiration belongs to the cached url or to an older one
(`expiration <= cachedUrl + TTL`) except while an Open is between storing the
expiration and storing the url. It needs that the clock does not tick between an
answer and its two stores, the assumption of section 2.

`RegistryProofs` proves `RegistryTyping`, `CloseReaches`, `LossesAcrossServices`
and the refinement `RegistriesImplementList` for any number of lookers, file servers and lookups.
TypeOK needs `Flow`, what a looker has found at each of its steps (an append has
a Registry, a new directory three), and `NamesInv`, that no Registry is under
two names. CloseReachesNodes follows from `EarlyInv`, where an early node is at
each step of Close, with `CloseInv`: Close has come to the Registry it empties, and
leaves none before its goroutines are done. LossOnlyAcrossServices follows from
`LockInv`, that no two lookers are inside New of one service, and `SnapshotInv`:
what an append has read is the list but for nodes of other services, in one
direction, and but for nodes that are lost already, in the other. Both are
needed, since an append may put back a node that a third one has written over.

`NodesAreClosedOnce` says that CloseNodes starts the Close of a node once only, which the
modules of the nodes assume. An append that has read a list before it was dropped
brings closed nodes back into it; `HomeInv` says that they are in the list of one
Registry only, and `OnceInv` that Close has been at that Registry and does not come again.

About `System` it proves, for any lookups, file servers, programs and signals,
`SystemImplementsRegistry`, `SystemImplementsShutdown`, `RegistryIsClosedOnce` (main and
Destroy do not call registry.Close twice, and who waits for it has called it) and
`SystemClosesNodes`: when main returns, every node that a Lookup returned before
the Close is closed, written over by an append or of a Registry the map has lost, or Destroy is
still at it. `LinkInv` is what the two halves know of each other: a fault of the map has ended
the process, and a Lookup that runs is served. `CountInv` says that each node has
had a Lookup of its own, so that Shutdown's bounded set of nodes is large enough.
The return of registry.Close maps to the end of the list by `RangeEndMeetsAll`. The theorems of
`ShutdownProofs` then hold of System by instantiation (`ProcessProofs`).

In the four proofs that a module implements ClosedList each action is one step of the list or a stutter; the
step `End` of the list is where the invariants about early handles and nodes are
used, and `Give` needs that a handle has a number of its own.

`FileHandleProofs` proves `TypeCorrect`, `AcknowledgedWrites`, `RegularReads`, both as
`RegularService`, and the refinement `FileImplementsAtomicFile` for any number of goroutines, places and Writes and any size. AcknowledgedWriteStays
speaks of Writes that have returned; `AnsweredInv` is the same from the moment
the server has answered. It needs `OwnerInv`, that a Write is carried out late only
when its goroutine has given up on it, and `EndedInv`, that no Write that was
acknowledged or refused is ever late. The refinement maps the call, the step of the
server and the return of a request to the call, the effect and the answer of the
atomic file, a late Write that is carried out or lost to its effect or its end, and
the lock to stutters. It needs `SeenInv`, that only a Read holds data, and `LateInv`,
that the caller of a late Write has been told of a timeout.

`ShutdownProofs` proves `ShutdownTyping`, `MountsLeftByFailure`, `NodesAreClosed`,
`ServeSurvivesClose` and `RegistriesAreUsedAsPromised` for any programs, nodes
and signals. The last says that the process does to its registries nothing but what
`ClosedList` allows; with `RegistriesImplementList` it is why the one may stand for the
other. The steps `FSCloseRegistry` and `FSCloseEnds` do not ask for the phase of the list, so the
theorem rests on `NodesInv`: whichever of main and Destroy is in front of registry.Close, the
list is open, and whichever waits for its end, it is closing. It fails when FileSystem.Close does not test its flag (`FSCloseCAS_Always`). `WorkInv` says that one
Close of the file system does the work and how far it is, `MainInv` what main's
position says of the mount and the connection, `ServeInv` that Serve has no root
before it serves. A Close that finds the flag set returns before the work is
done; so NodesClosedAtExit has to leave out an exit while Destroy is still inside
its Close, and `WorkInv` gives the rest: with nobody at work, the nodes are closed.

`DirectoryProofs` proves `DirectoryTyping`, `OutcomesAreTrue`, `LookupsReturnNodes`,
`ListingsAgreeWithLookups`, the action property `LocksProtect` and the refinements
`NodesImplementLists` and `OperationsAreAtomic` for any number of callers, nodes, operations and handles and any
tree, with any number of timeouts and late requests. `RequestInv` says that the
request a caller waits for is the one its operation has come to. `DoneInv` counts how
often the change of an operation has been carried out, and `LateInv` says that a late
request belongs to an earlier operation or to one that has given up and has not
seen it carried out; neither is inductive without the other. `FreshInv` ties the
reply, the request for the size and the listing of a caller to the entry of the tree,
as long as it is fresh. `LockInv` says that two callers inside one node are
both readers, `EarlyInv` where a handle returned before Close is. `Inductive` combines
them. The invariant is kept by the requests and by the tree separately: a step of the
tree carries out one request (`ServerCarries`, `LateCarries`), and `Grown` says what that leaves as it was.

`OperationsAreAtomic` is the refinement of AtomicTree. Its steps: a return is
`Returns`; a change that the server carries out, in time or late, is `TakesEffect`; one
that it refuses, or that is lost, is `Drops`; an answer to a Lookup, a listing or
the second half of a Create is `Looks`; a timeout that comes after such an answer is
`Forgets`; the locks, the handles and the Close are stutters. Two facts carry it beside `DirectoryInv`:
`AskedOnce`, that a pending change belongs to one operation at most, so that when it
takes effect nobody else's count goes up; and `KeptInv`, what an operation keeps from an
earlier answer: only changes are counted, a Mkdir that succeeded has the id it has
made or none, and a Lookup at its second request asks for what its first has found. A refusal of the second request
says that what the first has found is no longer in the tree (`Misses`); for the same reason `FreshInv` follows the
id that was found, and not only its type.

Only model-checked: the liveness properties CallsReturn, ClosedStreamQuiesces,
FlushReturns and SignalEndsProcess, since temporal reasoning under fairness is beyond
the prover. Every invariant, action property and refinement of a passing run is
stated by a theorem.

## 5. Not modelled, and the plan

Not modelled: the layout of messages and logs, the TLS and HTTP transport, the
size classes of buffers that `calculateBufferSize` makes unreachable, the
unused `stream/pool.go` and `stream/map.go`, the generated gRPC code. Symlinks,
attributes, ReadDirAll of the root and Readlink keep no state: each is one request
and its answer. The list of clients and the configuration are made once and
read afterwards. The loggers are files that are opened and written; their map is
read and written without a lock, which is among the hazards. A logger that cannot be
made is modelled wherever the code has an exit or a panic for it; making a stream and its factory
cannot fail (`stream.New` returns no error). The EOF marker is assumed to need no space in the
ring buffer, as the library is not in the repository. An error of `buffer.Close`, after which a stream's Close gives up its transfer
(`stream/main.go:150`), is a step of the model (`CloseBufferFails`) about which nothing is promised.

Servers are assumed to honour the Range header (`connection/main.go:97` also
accepts status 200), and the media server to accept a url until its fifteen minutes
are over (`stream/factory/main.go:45`). The code holds neither check nor recovery for
the two, so a property could only repeat the assumption.

What could come next:

1. The composition of `FileNode` with `FileHandle`, as `System` composes `Shutdown` and
   `Registry`; and the nodes in detail in the place of `NodeCloses`.
2. `Logger`: the map of open loggers, with the accesses the Go runtime ends the
   process for.
