---------------------------- MODULE StreamProps ----------------------------
(***************************************************************************)
(* What is asked of a stream.                                              *)
(***************************************************************************)
EXTENDS Stream, FiniteSets

\* The type invariant of the stream, its transfers and their connections.
BufOK ==
  /\ base \in 0..Size /\ top \in Nat /\ readPos \in Nat
  /\ data \in [base..top-1 -> 0..Size-1]
  /\ eof \in BOOLEAN /\ bufClosed \in BOOLEAN

ConnOK ==
  /\ connClosed \in [Transfers -> BOOLEAN]
  /\ body \in [Transfers -> BOOLEAN]
  /\ offset \in [Transfers -> 0..Size]

TransferOK ==
  /\ made \in Nat /\ epoch \in Nat
  /\ tClosed \in [Transfers -> BOOLEAN]
  /\ tCancelled \in [Transfers -> BOOLEAN]
  /\ tConn \in [Transfers -> BOOLEAN]
  /\ tBuffer \in [Transfers -> BOOLEAN]
  /\ start \in [Transfers -> StartStates]
  /\ copy \in [Transfers -> CopyStates]
  /\ held \in [Transfers -> 0..Size-1]
  /\ pooled \in BOOLEAN
  /\ crashed \in CrashCauses
  /\ stale \in BOOLEAN /\ marker \in Nat /\ outlived \subseteq Nat

StreamOK ==
  /\ mu \in Callers \cup {NoCaller}
  /\ closed \in BOOLEAN /\ bufferSet \in BOOLEAN
  /\ transfer \in Nat

CallerPCs == ReadPCs \cup ClosePCs \cup TransferClosePCs \cup {"idle"}

CallerOK ==
  /\ pc \in [Callers -> CallerPCs]
  /\ req \in [Callers -> Requests \cup {NoRequest}]
  /\ target \in [Callers -> Nat]
  /\ answer \in Answers
  /\ calls \in 0..MaxTransfers

TypeOK == BufOK /\ ConnOK /\ TransferOK /\ StreamOK /\ CallerOK

-----------------------------------------------------------------------------
(* What the window holds and what a read hands out. *)

\* Unless a superseded copyData has written after the last reset, every unit
\* of the window is the one of its own position: the range request, the reset
\* and the order in which newTransfer makes them agree.
WindowExact == ~stale => \A p \in base..top-1 : data[p] = p

\* The step in which some ReadAt of the buffer returns.
ReadReturns == \E a \in Callers : pc[a] = "read" /\ pc'[a] = "idle"

\* A read hands out a unit of another position only while the window it read
\* from holds the write of a superseded copyData.
AlienOnlyFromSuperseded ==
  [][(ReadReturns /\ answer' = "alien") => stale]_vars

\* No read ever hands out a unit of another position of the file.
NoAlienUnits == answer # "alien"

\* A read comes back with fewer units than it asked for only from a stream
\* that is being closed, from a window whose own download is over, or from one
\* marked by a start that had not run when the Close of its transfer returned:
\* every other superseded start has marked the window before the reset.
ShortOnlyAtEnd ==
  [][(ReadReturns /\ answer' = "short") =>
       \/ closed
       \/ marker = epoch /\ epoch \in Transfers /\ start[epoch] = "end"
       \/ marker \in outlived]_vars

\* A reader that starts a download can be served from it without reading
\* first: the position it waits for is inside the window the buffer holds
\* from the reset on, or is the end of the file right after that window.
\* (The kernel asks for far less than the 48 MiB next to the preload.)
SmallRead(len) == len + calculatePreloadSize(BufferSize) < SmallVideoBuffer

WaitFitsWindow ==
  \A a \in Callers :
    (pc[a] \in {"spawn", "install"} /\ SmallRead(req[a][2])) =>
      /\ base <= Seek(a)
      /\ \/ Wanted(a) < base + BufferSize
         \/ Wanted(a) = Size /\ Size <= base + BufferSize

-----------------------------------------------------------------------------
(* Transfers. *)

\* At most one transfer of a stream has not been closed: newTransfer never
\* opens a download beside one that nobody has closed.
IsOpen(t) == t <= made /\ ~tClosed[t]

OneOpenTransfer == \A t, u \in Transfers : IsOpen(t) /\ IsOpen(u) => t = u

-----------------------------------------------------------------------------
(* Panics. *)

\* The step in which a method of the stream panics.
Panics(a) == pc[a] # "idle" /\ pc'[a] = "idle" /\ answer' = "panic"

\* A method of the stream panics only when a Close overlaps it, or in the
\* first newTransfer of the stream, which may get no logger: once the stream
\* has started a download, what a ReadAt finds nil a Close has taken away.
PanicOnlyByClose ==
  [][\A a \in Callers : Panics(a) => closed \/ (pc[a] = "spawn" /\ made = 0)]_vars

\* The nil connection or nil buffer that ends the process needs a transfer
\* that somebody closes: a download that runs to its end undisturbed is safe.
CrashOnlyByClose ==
  crashed \in {"connection", "buffer"} => closed \/ \E t \in Transfers : tCancelled[t]

\* A stream that nobody closes and that has closed no transfer of its own runs
\* as written: its goroutines find nothing nil, no read gets a unit of another
\* position, and its only copyData does not meet a pointer of its own in the
\* pool.  (A pointer that another stream's copyData has put there ends the
\* process at any time, whatever this stream does.)
NothingClosed == ~closed /\ \A t \in Transfers : ~tClosed[t]

FaultsOnlyByClose ==
  /\ CrashOnlyByClose
  /\ crashed = "pool" \/ stale \/ answer = "alien" => ~NothingClosed

\* Every value a copyData takes from the buffer pool is a byte slice, also
\* after earlier transfers of its stream.
PoolHoldsSlices == crashed # "pool"

-----------------------------------------------------------------------------
(* The promise to the callers. *)

\* A ReadAt is admitted when it takes the lock and finds the stream open.
PhaseOf(a) ==
  IF pc[a] = "idle" THEN "idle"
  ELSE IF req[a] = NoRequest THEN "closing"
  ELSE IF pc[a] = "lock" THEN "called" ELSE "admitted"

phaseBar == [a \in Callers |-> PhaseOf(a)]

Contract == INSTANCE StreamContract WITH phase <- phaseBar, started <- made > 0

\* The stream implements StreamContract: reads that begin after a Close get an
\* error, whatever the transfers and the buffer are doing, and so on.
ImplementsContract == Contract!ContractSpec

-----------------------------------------------------------------------------
(* Progress. *)

\* Every method call ends, also the ones that wait for a transfer to close.
CallsReturn == \A a \in Callers : pc[a] # "idle" ~> (pc[a] = "idle" \/ ~Running)

\* Once the buffer is closed every goroutine of every transfer comes to its
\* end, also of the ones no Close has reached.
ClosedStreamQuiesces ==
  \A t \in Transfers :
    (bufClosed /\ start[t] # "none") ~>
      ((start[t] = "end" /\ copy[t] = "end") \/ ~Running)

-----------------------------------------------------------------------------
(* The inductive invariant behind the safety properties above; module       *)
(* StreamProofs shows that every step keeps it.                            *)

HoldPCs == {"seek", "new", "newOld", "drop", "reset", "spawn", "install",
            "want", "wait", "read"}

\* Who is inside ReadAt holds the lock, who is inside Close has set closed.
LockInv ==
  \A a \in Callers :
    /\ pc[a] \in HoldPCs => mu = a
    /\ mu = a => pc[a] \in HoldPCs \cup TransferClosePCs
    /\ pc[a] \in ClosePCs \ {"cas"} => closed
    /\ pc[a] \in TransferClosePCs /\ mu # a => closed

\* Only Close takes away what a ReadAt has checked.
PanicInv ==
  /\ ~bufferSet => closed
  /\ \A a \in Callers : pc[a] = "newOld" /\ transfer = 0 => closed

\* Only a transfer puts anything into the buffer.
FilledInv == top > base \/ eof => made > 0

\* The download the window was reset for delivers the position the next
\* Write fills; transfers that do not exist yet have no goroutine.
WindowInv ==
  /\ \A t \in Transfers : t > made => start[t] = "none"
  /\ \A t \in Transfers : start[t] \in {"none", "spawned"} => copy[t] = "none"
  /\ ~stale =>
       /\ \A p \in base..top-1 : data[p] = p
       /\ \A t \in Transfers : t = epoch =>
            /\ copy[t] \notin {"write", "end"} => offset[t] = top
            /\ copy[t] = "write" => held[t] = top /\ offset[t] = top + 1

\* Where the transfer is that has not been closed, if there is one.
MakePCs == TransferClosePCs \cup {"drop", "reset", "spawn", "install"}

Making == mu \in Callers /\ pc[mu] \in MakePCs

OpenInv ==
  /\ OneOpenTransfer
  /\ \A t \in Transfers : IsOpen(t) =>
       /\ closed \/ t = transfer \/ Making
       /\ Making => \/ pc[mu] = "tCAS" /\ t = target[mu]
                    \/ pc[mu] = "install" /\ t = made
       /\ mu \in Callers /\ pc[mu] = "newOld" => transfer \in {0, t}

\* An open stream keeps the transfer it has installed open, outside the
\* newTransfer that replaces it; without one it has not started any.
InstalledInv ==
  /\ \A t \in Transfers : t > made => ~tClosed[t]
  /\ ~closed =>
       /\ transfer # 0 => transfer = epoch
       /\ ~Making => IF transfer = 0 THEN made = 0 ELSE ~tClosed[transfer]
       /\ \A a \in Callers :
            /\ pc[a] \in TransferClosePCs => target[a] = epoch
            /\ pc[a] = "tCAS" => ~tClosed[target[a]]
            /\ pc[a] \in {"reset", "spawn", "install"} => transfer = 0
            /\ pc[a] = "install" => made = epoch /\ ~tClosed[made]

\* Only a start that is outlived, and the one of the current download, can
\* still write an EOF marker.
Settled(t) == start[t] \in {"none", "end"} \/ t \in outlived

MarkInv ==
  /\ eof => marker \in Transfers
  /\ marker \in Transfers => start[marker] = "end"
  /\ ~closed =>
       /\ marker \in {0, epoch} \cup outlived
       /\ \A t \in Transfers : Settled(t) \/ t = epoch
       /\ \A a \in Callers : pc[a] \in {"drop", "reset"} => \A t \in Transfers : Settled(t)

\* Who has reset the window for its own read is still in front of it.
ResetInv ==
  \A a \in Callers : pc[a] \in {"spawn", "install"} => base = streamStartPosition(Seek(a))

\* Who is about to read finds the position it has asked for.
WaitedInv ==
  \A a \in Callers : pc[a] = "read" => closed \/ eof \/ Wanted(a) < top

\* What a goroutine may find nil has been taken away by a Close.
CrashInv ==
  /\ CrashOnlyByClose
  /\ \A t \in Transfers : start[t] # "none" =>
       /\ tConn[t] \/ tCancelled[t]
       /\ tBuffer[t] \/ closed

\* Who has a request is in a ReadAt, who has none in a Close.
RequestInv ==
  \A a \in Callers :
    /\ pc[a] \in HoldPCs \cup {"lock"} => req[a] # NoRequest
    /\ pc[a] \in ClosePCs \cup {"idle"} => req[a] = NoRequest
    /\ pc[a] \in TransferClosePCs => (mu = a <=> req[a] # NoRequest)

\* The ReadAts that may still start a download.
Coming ==
  {a \in Callers : \/ pc[a] \in {"lock", "seek", "new", "newOld", "drop", "reset", "spawn"}
                   \/ pc[a] \in TransferClosePCs /\ mu = a}

\* A ReadAt starts one download at most.
CountInv == IsFiniteSet(Coming) /\ made + Cardinality(Coming) <= calls

\* Who closes a transfer closes one there is, and waits only for one that is
\* cancelled and whose goroutine start therefore comes to its end.
WaitsForCancelled ==
  \A a \in Callers : pc[a] = "tWait" =>
    /\ target[a] \in Transfers
    /\ tCancelled[target[a]] /\ start[target[a]] # "none"

TargetInv ==
  /\ transfer <= made
  /\ \A t \in Transfers : t <= made => start[t] # "none"
  /\ \A t \in Transfers : tCancelled[t] => tClosed[t]
  /\ \A a \in Callers : pc[a] \in TransferClosePCs =>
       /\ target[a] \in 1..made
       /\ pc[a] # "tCAS" => tClosed[target[a]]
       /\ pc[a] = "tWait" => tCancelled[target[a]]

\* The stream's pointers in the pool are of copyDatas that have ended; the
\* window belongs to the transfer that is open.
FaultInv ==
  /\ crashed = "pool" \/ stale \/ answer = "alien" => ~NothingClosed
  /\ pooled => \E t \in Transfers : copy[t] = "end"
  /\ \A a \in Callers : pc[a] = "spawn" => epoch = made + 1
  /\ \A t \in Transfers : IsOpen(t) => closed \/ epoch = t

StreamInv ==
  /\ CountInv /\ TargetInv /\ FaultInv
  /\ RequestInv /\ ResetInv /\ WaitedInv /\ CrashInv
  /\ LockInv /\ PanicInv /\ FilledInv /\ WindowInv /\ OpenInv
  /\ InstalledInv /\ MarkInv

=============================================================================
