------------------------------ MODULE Transfer ------------------------------
(***************************************************************************)
(* stream/transfer/main.go: the two goroutines of a transfer.              *)
(*                                                                         *)
(*   start     waits for the cancellation of the transfer or for the end   *)
(*             of the copy, then writes the EOF marker;                    *)
(*   copyData  reads the connection and writes the ring buffer until one   *)
(*             of them fails.                                              *)
(*                                                                         *)
(* start does not wait for copyData after a cancellation, so a superseded  *)
(* copyData can still be inside Read or Write when the buffer is reset     *)
(* for its successor.  The variables epoch and stale record that: epoch is *)
(* the transfer the last reset was made for, stale that another one has    *)
(* written since.                                                          *)
(*                                                                         *)
(* Simplifications: an error and the end of the response body are one      *)
(* outcome (start writes the marker after both), messages are not logged,  *)
(* and one unit is whatever a single Read delivers.                        *)
(*                                                                         *)
(* The buffer pool and the loggers are package variables: all streams of   *)
(* the process share them, and what the other streams have done to them is *)
(* left open.  A finished copyData puts a pointer into the pool that the   *)
(* next Get cannot convert to a byte slice: pooled says that one of this   *)
(* stream has, and one of another stream may have at any time.  The logger *)
(* of the transfers is made by the first NewTransfer of the process and    *)
(* kept, so that a stream that has made a transfer has it for good.        *)
(***************************************************************************)
EXTENDS Connection

VARIABLES
  made,        \* transfers 1..made exist
  tClosed,     \* transfer.closed
  tCancelled,  \* transfer.context is done
  tConn,       \* transfer.connection is not nil
  tBuffer,     \* transfer.buffer is not nil
  start,       \* control state of the goroutine start
  copy,        \* control state of the goroutine copyData
  held,        \* the unit copyData has read and not yet written
  pooled,      \* an earlier copyData of this stream has put a pointer
  crashed,     \* "no", or what the panic of a goroutine was caused by
  epoch,       \* history: the transfer the last reset was made for
  stale,       \* history: a transfer other than epoch wrote since then
  marker,      \* history: the transfer whose start set eof since then
  outlived     \* history: transfers whose Close returned before start ran

goVars == <<start, copy, held, pooled, crashed>>
ownVars == <<made, tClosed, tCancelled, tConn, tBuffer>>
histVars == <<epoch, stale, marker, outlived>>
transferVars == <<goVars, ownVars, histVars>>

StartStates == {"none", "spawned", "select", "mark", "end"}
CopyStates == {"none", "get", "loop", "read", "request", "body", "write", "end"}
CrashCauses == {"no", "pool", "others", "connection", "buffer"}

TransferInit ==
  /\ made = 0
  /\ tClosed = [t \in Transfers |-> FALSE]
  /\ tCancelled = [t \in Transfers |-> FALSE]
  /\ tConn = [t \in Transfers |-> FALSE]
  /\ tBuffer = [t \in Transfers |-> FALSE]
  /\ start = [t \in Transfers |-> "none"]
  /\ copy = [t \in Transfers |-> "none"]
  /\ held = [t \in Transfers |-> 0]
  /\ pooled = FALSE
  /\ crashed = "no"
  /\ epoch = 0
  /\ stale = FALSE
  /\ marker = 0
  /\ outlived = {}


\* Seeded fault: the connection is not assigned.
NewTransfer_NoConnection(t, bufferIsSet) ==
  /\ made' = t
  /\ tBuffer' = [tBuffer EXCEPT ![t] = bufferIsSet]
  /\ start' = [start EXCEPT ![t] = "spawned"]
  /\ UNCHANGED <<tClosed, tCancelled, tConn, copy, held, pooled, crashed>>

\* NewTransfer(buffer, connection): bufferIsSet is whether the interface
\* value handed in was not nil.  The goroutine start has not run yet.
\* (The panic of a NewTransfer that gets no logger is NewSpawnFails.)
NewTransfer(t, bufferIsSet) ==
  /\ made' = t
  /\ tConn' = [tConn EXCEPT ![t] = TRUE]
  /\ tBuffer' = [tBuffer EXCEPT ![t] = bufferIsSet]
  /\ start' = [start EXCEPT ![t] = "spawned"]
  /\ UNCHANGED <<tClosed, tCancelled, copy, held, pooled, crashed>>

-----------------------------------------------------------------------------
(* The goroutine start. *)

\* wg.Add(1) and go copyData: only from here on does wg.Wait wait.
StartRun(t) ==
  /\ start[t] = "spawned"
  /\ start' = [start EXCEPT ![t] = "select"]
  /\ copy' = [copy EXCEPT ![t] = "get"]
  /\ UNCHANGED <<held, pooled, crashed>>
  /\ UNCHANGED <<ownVars, histVars, connVars, bufVars>>

StartCancelled(t) ==
  /\ start[t] = "select"
  /\ tCancelled[t]
  /\ start' = [start EXCEPT ![t] = "mark"]
  /\ ConnClose(t)
  /\ tConn' = [tConn EXCEPT ![t] = FALSE]
  /\ UNCHANGED <<copy, held, pooled, crashed>>
  /\ UNCHANGED <<made, tClosed, tCancelled, tBuffer, histVars, bufVars>>

StartDone(t) ==
  /\ start[t] = "select"
  /\ copy[t] = "end"
  /\ start' = [start EXCEPT ![t] = "mark"]
  /\ UNCHANGED <<copy, held, pooled, crashed>>
  /\ UNCHANGED <<ownVars, histVars, connVars, bufVars>>

StartMark(t) ==
  /\ start[t] = "mark"
  /\ tBuffer[t]
  /\ WriteEOFMarker
  /\ start' = [start EXCEPT ![t] = "end"]
  /\ marker' = IF eof \/ bufClosed THEN marker ELSE t
  /\ UNCHANGED <<copy, held, pooled, crashed>>
  /\ UNCHANGED <<epoch, stale, outlived, ownVars, connVars>>

StartMarkNil(t) ==
  /\ start[t] = "mark"
  /\ ~tBuffer[t]
  /\ crashed' = "buffer"
  /\ UNCHANGED <<start, copy, held, pooled>>
  /\ UNCHANGED <<ownVars, histVars, connVars, bufVars>>

StartStep(t) ==
  \/ StartRun(t) \/ StartCancelled(t) \/ StartDone(t)
  \/ StartMark(t) \/ StartMarkNil(t)

-----------------------------------------------------------------------------
(* The goroutine copyData. *)

CopyGoto(t, from, to) ==
  /\ copy[t] = from
  /\ copy' = [copy EXCEPT ![t] = to]
  /\ UNCHANGED <<start, pooled, crashed>>

\* done <- err; return; the deferred Put leaves &buf in the pool.
CopyEnd(t, from) ==
  /\ copy[t] = from
  /\ copy' = [copy EXCEPT ![t] = "end"]
  /\ pooled' = TRUE
  /\ UNCHANGED <<start, held, crashed>>

CopyCrash(t, from, cause) ==
  /\ copy[t] = from
  /\ crashed' = cause
  /\ UNCHANGED <<start, copy, held, pooled>>

CopyGet(t) ==
  /\ CopyGoto(t, "get", "loop")
  /\ UNCHANGED <<held, ownVars, histVars, connVars, bufVars>>

\* sync.Pool hands out any pooled value, whoever has put it, or makes a new
\* one: here a pointer of an earlier transfer of this stream, or of another.
CopyGetPointer(t) ==
  /\ \/ pooled /\ CopyCrash(t, "get", "pool")
     \/ CopyCrash(t, "get", "others")
  /\ UNCHANGED <<ownVars, histVars, connVars, bufVars>>

CopyCancelled(t) ==
  /\ tCancelled[t]
  /\ CopyEnd(t, "loop")
  /\ UNCHANGED <<ownVars, histVars, connVars, bufVars>>

CopyContinue(t) ==
  /\ ~tCancelled[t]
  /\ CopyGoto(t, "loop", "read")
  /\ UNCHANGED <<held, ownVars, histVars, connVars, bufVars>>

\* transfer.connection.Read: start may have set the field to nil.
CopyReadNil(t) ==
  /\ ~tConn[t]
  /\ CopyCrash(t, "read", "connection")
  /\ UNCHANGED <<ownVars, histVars, connVars, bufVars>>

\* Read of a closed connection returns 0, nil; else it reads the body there
\* is, or sends the request.
CopyRead(t) ==
  /\ tConn[t]
  /\ CopyGoto(t, "read", IF connClosed[t] THEN "loop"
                         ELSE IF body[t] THEN "body" ELSE "request")
  /\ UNCHANGED <<held, ownVars, histVars, connVars, bufVars>>

\* The second check of closed, under connection.mu.
CopyRecheck(t) ==
  /\ connClosed[t]
  /\ CopyGoto(t, "request", "loop")
  /\ UNCHANGED <<held, ownVars, histVars, connVars, bufVars>>

\* client.Do fails with the cancelled context of a closed connection.
CopyResponse(t) ==
  /\ ~connClosed[t]
  /\ CopyGoto(t, "request", "body")
  /\ ConnOpenBody(t)
  /\ UNCHANGED <<held, ownVars, histVars, bufVars>>

\* client.Do fails, or the status is neither 206 nor 200.
CopyRequestFails(t) ==
  /\ CopyEnd(t, "request")
  /\ UNCHANGED <<ownVars, histVars, connVars, bufVars>>

CopyReceive(t) ==
  /\ offset[t] < Size
  /\ CopyGoto(t, "body", "write")
  /\ held' = [held EXCEPT ![t] = offset[t]]
  /\ ConnDeliver(t)
  /\ UNCHANGED <<ownVars, histVars, bufVars>>

\* The body ends, or fails at any time.
CopyBodyEnds(t) ==
  /\ CopyEnd(t, "body")
  /\ UNCHANGED <<ownVars, histVars, connVars, bufVars>>

\* transfer.buffer.Write waits for space.  The Read that delivered the unit
\* may also have returned an error, which ends the loop.
CopyWrite(t) ==
  /\ tBuffer[t] /\ ~bufClosed
  /\ BufWrite(held[t])
  /\ stale' = (stale \/ t # epoch)
  /\ UNCHANGED <<epoch, marker, outlived, ownVars, connVars>>
  /\ \/ CopyGoto(t, "write", "loop") /\ UNCHANGED held
     \/ CopyEnd(t, "write")

CopyWriteClosed(t) ==
  /\ tBuffer[t] /\ bufClosed
  /\ CopyEnd(t, "write")
  /\ UNCHANGED <<ownVars, histVars, connVars, bufVars>>

CopyWriteNil(t) ==
  /\ ~tBuffer[t]
  /\ CopyCrash(t, "write", "buffer")
  /\ UNCHANGED <<ownVars, histVars, connVars, bufVars>>

CopyStep(t) ==
  \/ CopyGet(t) \/ CopyGetPointer(t) \/ CopyCancelled(t) \/ CopyContinue(t)
  \/ CopyReadNil(t) \/ CopyRead(t) \/ CopyRecheck(t)
  \/ CopyResponse(t) \/ CopyRequestFails(t)
  \/ CopyReceive(t) \/ CopyBodyEnds(t)
  \/ CopyWrite(t) \/ CopyWriteClosed(t) \/ CopyWriteNil(t)

-----------------------------------------------------------------------------
(* transfer.Close, one action per step; the caller's control state is in   *)
(* module Stream.                                                          *)

TransferCAS(t) ==
  /\ tClosed' = [tClosed EXCEPT ![t] = TRUE]
  /\ UNCHANGED <<made, tCancelled, tConn, tBuffer>>

\* Seeded fault: Close never cancels the context.
TransferCancel_Forgotten(t) == t = t /\ UNCHANGED ownVars

TransferCancel(t) ==
  /\ tCancelled' = [tCancelled EXCEPT ![t] = TRUE]
  /\ UNCHANGED <<made, tClosed, tConn, tBuffer>>

\* Seeded fault: Close does not wait.
WaitGroupIsZero_Always(t) == t \in Transfers

\* The WaitGroup is zero: start has returned, or has not reached wg.Add.
WaitGroupIsZero(t) == start[t] \in {"spawned", "end"}

=============================================================================
