----------------------------- MODULE BufferPool -----------------------------
(***************************************************************************)
(* filesystem/server/provider/fuse/pool/main.go: the pool of read buffers  *)
(* that all file handles share.  Every file size gets the same 64 MiB      *)
(* buffers, so there is one pool.                                          *)
(***************************************************************************)
EXTENDS FiniteSets

CONSTANTS
  Buffers,    \* identities of read buffers
  NoBuffer    \* not a buffer

ASSUME BuffersAssumption == NoBuffer \notin Buffers

VARIABLE pooled   \* the buffers in the pool

\* Seeded fault: the buffer stays in the pool.
GetBuffer_Shared(b, referenced) ==
  /\ b \in pooled \/ b \in Buffers \ referenced
  /\ pooled' = pooled

\* Get returns a pooled buffer, or makes one: a buffer nobody refers to.
GetBuffer(b, referenced) ==
  /\ b \in pooled \/ b \in Buffers \ referenced
  /\ pooled' = pooled \ {b}

\* A nil buffer is not pooled.
PutBuffer(b) == pooled' = pooled \cup ({b} \ {NoBuffer})

=============================================================================
