----------------------------- MODULE RingBuffer -----------------------------
(***************************************************************************)
(* The contract of github.com/sushydev/ring_buffer_go as the stream        *)
(* package relies on it (the library itself is not part of the             *)
(* repository).  A window of the file: positions base .. top-1 have been   *)
(* written since the last ResetToPosition, and data[p] is the file offset  *)
(* of the unit stored at position p; a correct window has data[p] = p.     *)
(* At most BufferSize positions are kept.                                  *)
(*                                                                         *)
(* What the uses in src/stream determine:                                  *)
(*  - a fresh or reset buffer answers "not available" for its own start    *)
(*    position, else the first read of a file would start no download;     *)
(*  - the end of the file becomes available with the EOF marker, else the  *)
(*    last read of every file would run into its timeout;                  *)
(*  - writing the EOF marker does not wait for space, else the wg.Wait of  *)
(*    a transfer that fills the buffer would never return;                 *)
(*  - Write waits while BufferSize unread units are stored, and fails once *)
(*    the buffer is closed ("Buffer is closed").                           *)
(* What they leave open is the constant EofAnswers: whether a position     *)
(* beyond an EOF marker counts as available.                               *)
(***************************************************************************)
EXTENDS StreamSizing

CONSTANT EofAnswers

ASSUME EofAssumption == EofAnswers \in BOOLEAN

VARIABLES
  base,       \* the position of the last reset
  top,        \* the next position a Write fills
  data,       \* data[p] is the file offset stored at position p
  readPos,    \* where the last ReadAt ended; later positions are unread
  eof,        \* the EOF marker has been written since the last reset
  bufClosed   \* the buffer has been closed

bufVars == <<base, top, data, readPos, eof, bufClosed>>

BufInit ==
  /\ base = 0 /\ top = 0 /\ readPos = 0
  /\ data = [p \in {} |-> 0]
  /\ eof = FALSE
  /\ bufClosed = FALSE

\* The oldest position that has not been overwritten.
Oldest == Greater(base, top - BufferSize)

IsPositionAvailable(pos) ==
  /\ ~bufClosed
  /\ Oldest <= pos
  /\ \/ pos < top
     \/ eof /\ (pos = top \/ EofAnswers)

ResetToPosition(pos) ==
  /\ base' = pos /\ top' = pos /\ readPos' = pos
  /\ data' = [p \in {} |-> 0]
  /\ eof' = FALSE
  /\ UNCHANGED bufClosed

HasSpace == top - readPos < BufferSize

BufWrite(x) ==
  /\ HasSpace
  /\ data' = [p \in base..top |-> IF p = top THEN x ELSE data[p]]
  /\ top' = top + 1
  /\ UNCHANGED <<base, readPos, eof, bufClosed>>

WriteEOFMarker ==
  /\ eof' = (eof \/ ~bufClosed)
  /\ UNCHANGED <<base, top, data, readPos, bufClosed>>

\* ReadAt finds something to answer: stored units, or the end of the file.
Readable(seek) ==
  /\ ~bufClosed
  /\ Oldest <= seek
  /\ seek < top \/ eof

\* The end of what ReadAt copies out for a request of len units.
ReadEnd(seek, len) == Greater(seek, Lesser(seek + len, top))

BufReadAt(seek, len) ==
  /\ Readable(seek)
  /\ readPos' = ReadEnd(seek, len)
  /\ UNCHANGED <<base, top, data, eof, bufClosed>>

BufClose ==
  /\ bufClosed' = TRUE
  /\ UNCHANGED <<base, top, data, readPos, eof>>

=============================================================================
