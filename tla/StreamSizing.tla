---------------------------- MODULE StreamSizing ----------------------------
(***************************************************************************)
(* The integer arithmetic of stream/main.go: how large the ring buffer of  *)
(* a stream is, how far before the requested position a download starts,   *)
(* and which position a read has to wait for.  One unit is what a single   *)
(* read of the response body delivers; the real constants are 64 MiB       *)
(* (SmallVideoBuffer) and 16 MiB (MaxPreloadSize).                         *)
(***************************************************************************)
EXTENDS Integers

CONSTANTS
  Size,              \* stream.size, the size of the file
  SmallVideoBuffer,  \* upper bound of the ring buffer
  MaxPreloadSize     \* upper bound of the preload before a seek position

ASSUME SizingAssumption ==
  /\ Size \in Nat \ {0}
  /\ SmallVideoBuffer \in Nat \ {0}
  /\ MaxPreloadSize \in Nat

Lesser(a, b) == IF a <= b THEN a ELSE b
Greater(a, b) == IF a >= b THEN a ELSE b

calculateBufferSize(fileSize) == Lesser(fileSize, SmallVideoBuffer)

calculatePreloadSize(bufferSize) == Lesser(bufferSize \div 2, MaxPreloadSize)

BufferSize == calculateBufferSize(Size)

\* Seeded faults: the floor at zero forgotten, and min written for max.
streamStartPosition_NoFloor(seek) == seek - calculatePreloadSize(BufferSize)
streamStartPosition_Min(seek) == Lesser(0, seek - calculatePreloadSize(BufferSize))

streamStartPosition(seek) ==
  Greater(0, seek - calculatePreloadSize(BufferSize))

requestedPosition(seek, len) == Lesser(seek + len, Size)

=============================================================================
