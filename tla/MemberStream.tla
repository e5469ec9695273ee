---------------------------- MODULE MemberStream ----------------------------
(***************************************************************************)
(* The incremental member stream of mpq-stream.c: a logical position over  *)
(* the sectors of one member, and a one-sector cache that a read fills on  *)
(* demand.  The stream owns a private clone of its archive, so nobody else *)
(* touches this state.                                                     *)
(*                                                                         *)
(* The byte at logical position p of the member is the number p; Junk is   *)
(* any other byte.  buffer is stream->buffer, its length                   *)
(* stream->buffer_size.  A read is the loop of libmpq__reader_stream_read, *)
(* one ReadSector or ReadSectorFails step for each turn of the loop.       *)
(***************************************************************************)
EXTENDS Integers, Sequences, FiniteSetsExt

CONSTANTS BlockSize,     \* archive->block_size
          Size,          \* unpacked size of the member
          Single,        \* the member is one unit (LIBMPQ_FLAG_SINGLE)
          Direct,        \* raw, unencrypted member: sectors are read straight
                         \* into the stream buffer
          Damaged,       \* sectors whose stored bytes fail their checksum or
                         \* do not unpack, on every load
          Truncated,     \* sectors that unpack without an error to one byte
                         \* less than their size
          ReadFaults,    \* backing reads and allocations may fail
          MaxRead        \* longest read the callers ask for

ASSUME StreamAssumption ==
    /\ BlockSize \in Nat \ {0} /\ Size \in Nat /\ MaxRead \in Nat
    /\ Single \in BOOLEAN /\ Direct \in BOOLEAN /\ ReadFaults \in BOOLEAN
    /\ Direct => Damaged = {} /\ Truncated = {}

VARIABLES position,      \* stream->position
          buffer,        \* stream->buffer
          block_valid,   \* stream->block_valid
          cached_block,  \* stream->cached_block
          block_size,    \* stream->block_size, bytes decoded for cached_block
          want,          \* size argument of the current or last read
          out,           \* caller bytes filled by it, *transferred = Len(out)
          status         \* "idle", "busy", "ok" or "error"

vars == <<position, buffer, block_valid, cached_block, block_size,
          want, out, status>>

Junk == -1

\* cached_block is UINT32_MAX before the first load.
NoBlock == -1

\* libmpq__reader_count_file_blocks
BlockCount == IF Single THEN 1 ELSE (Size + BlockSize - 1) \div BlockSize

Blocks == 0..(BlockCount - 1)

\* libmpq__block_size_unpacked
UnpackedSize(b) ==
    CASE Single -> Size
      [] ~Single /\ b < BlockCount - 1 -> BlockSize
      [] OTHER -> Size - BlockSize * b

\* The sector that holds the position, and the position of its first byte.
BlockAt(p) == IF BlockCount = 1 THEN 0 ELSE p \div BlockSize
Base(b) == IF BlockCount = 1 THEN 0 ELSE b * BlockSize

DecodedSize(b) == IF b \in Truncated THEN UnpackedSize(b) - 1 ELSE UnpackedSize(b)

\* The first Len(bytes) bytes of buf replaced by bytes.
Overlay(buf, bytes) ==
    [i \in 1..Len(buf) |-> IF i <= Len(bytes) THEN bytes[i] ELSE buf[i]]

\* The buffer after the realloc that makes room for sector b.
Grown(b) ==
    buffer \o [i \in 1..(IF UnpackedSize(b) > Len(buffer)
                         THEN UnpackedSize(b) - Len(buffer) ELSE 0) |-> Junk]

Init ==
    /\ position = 0
    /\ buffer = <<>>
    /\ block_valid = FALSE
    /\ cached_block = NoBlock
    /\ block_size = 0
    /\ want = 0
    /\ out = <<>>
    /\ status = "idle"

ReadStart(n) ==
    /\ status # "busy"
    /\ want' = n
    /\ out' = <<>>
    /\ status' = "busy"
    /\ UNCHANGED <<position, buffer, block_valid, cached_block, block_size>>

MoreToRead == status = "busy" /\ Len(out) < want /\ position < Size

\* Mutant: the error for an exhausted sector is forgotten.
CopyOutWithoutEmptyCheck(buf, bsize, b) ==
    LET offset == position - Base(b)
        count  == Min({want - Len(out), bsize - offset, Size - position})
    IN  /\ out' = out \o SubSeq(buf, offset + 1, offset + count)
        /\ position' = position + count
        /\ UNCHANGED status

\* The body of the loop once sector b is in buf with bsize decoded bytes.
CopyOut(buf, bsize, b) ==
    LET offset == position - Base(b)
        count  == Min({want - Len(out), bsize - offset, Size - position})
    IN  IF offset >= bsize
        THEN /\ status' = "error"
             /\ UNCHANGED <<position, out>>
        ELSE /\ out' = out \o SubSeq(buf, offset + 1, offset + count)
             /\ position' = position + count
             /\ UNCHANGED status

\* Mutant: the cache is trusted whatever sector it holds.
CacheHitAnySector(b) == block_valid

CacheHit(b) == block_valid /\ cached_block = b

\* One turn of the loop whose stream_load_block succeeds.
ReadSector ==
    LET b == BlockAt(position)
        loaded == Overlay(Grown(b), [i \in 1..DecodedSize(b) |-> Base(b) + i - 1])
    IN  /\ MoreToRead
        /\ \/ /\ CacheHit(b)
              /\ CopyOut(buffer, block_size, b)
              /\ UNCHANGED <<buffer, block_valid, cached_block, block_size>>
           \/ /\ ~CacheHit(b)
              /\ b \notin Damaged
              /\ buffer' = loaded
              /\ cached_block' = b
              /\ block_size' = DecodedSize(b)
              /\ block_valid' = TRUE
              /\ CopyOut(loaded, DecodedSize(b), b)
        /\ UNCHANGED want


\* What a failed load leaves in the buffer.  Decoding a damaged sector
\* overwrites a prefix before it fails, the whole sector when only the
\* checksum is wrong.  A failed backing read reaches the buffer only when the
\* sector is read straight into it.
AfterFailedLoad(b) ==
    LET clobbered == {Overlay(Grown(b), [i \in 1..k |-> Junk]) : k \in 0..UnpackedSize(b)}
    IN  (IF b \in Damaged THEN clobbered ELSE {})
            \cup (IF ReadFaults THEN {buffer, Grown(b)} ELSE {})
            \cup (IF ReadFaults /\ Direct THEN clobbered ELSE {})

\* One turn of the loop whose stream_load_block fails: the error returns with
\* what was transferred before it.
ReadSectorFails ==
    LET b == BlockAt(position)
    IN  /\ MoreToRead
        /\ ~CacheHit(b)
        /\ buffer' \in AfterFailedLoad(b)
        /\ status' = "error"
        /\ UNCHANGED <<position, block_valid, cached_block, block_size, want, out>>

ReadReturn ==
    /\ status = "busy"
    /\ ~MoreToRead
    /\ status' = "ok"
    /\ UNCHANGED <<position, buffer, block_valid, cached_block, block_size, want, out>>

\* libmpq__reader_stream_seek: an unknown origin or a target outside the
\* member leaves the position alone.
Seek(base, offset) ==
    /\ status # "busy"
    /\ base + offset \in 0..Size
    /\ position' = base + offset
    /\ UNCHANGED <<buffer, block_valid, cached_block, block_size, want, out, status>>

SeekAny ==
    \E base \in {0, position, Size} : \E offset \in (-Size)..Size : Seek(base, offset)

Next ==
    \/ \E n \in 0..MaxRead : ReadStart(n)
    \/ ReadSector
    \/ ReadSectorFails
    \/ ReadReturn
    \/ SeekAny

\* The caller's thread runs a read to its end.
Fairness == WF_vars(ReadSector \/ ReadSectorFails \/ ReadReturn)

Spec == Init /\ [][Next]_vars /\ Fairness


\* Every byte a read hands out is the member's byte at that position, however
\* the earlier reads ended: "bytes from a failing sector are not transferred"
\* (docs/man3/libmpq__stream_read.3).
DeliveredBytesAreTheMembers ==
    status = "busy" =>
        \A i \in 1..Len(out) : out[i] = position - Len(out) + i - 1

LF == INSTANCE LogicalFile

\* The stream is a seekable file: reads deliver the bytes after the position
\* in order, come up short only at the end or with an error, and move the
\* position by exactly what they delivered.
ImplementsLogicalFile == LF!Spec

\* The loop of libmpq__reader_stream_read ends for every member, also when a
\* sector unpacks to less than its size and yields no byte at the position.
ReadReturns == (status = "busy") ~> (status # "busy")
=============================================================================
