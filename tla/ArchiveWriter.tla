--------------------------- MODULE ArchiveWriter ---------------------------
(***************************************************************************)
(* The archive writer of mpq-writer.c over its output file: members are    *)
(* begun, written sector by sector, finished or aborted, and the archive   *)
(* is finalized.  Any write may stop half way.  ArchiveTables has the name *)
(* table and the keys; here a block entry is only where the data lies.     *)
(*                                                                         *)
(* The file is a sequence of cells, one for a byte, a table entry, a       *)
(* checksum or a table of the archive; positions count from 0.  A sector   *)
(* of some bytes of a member, packed to n cells, is n cells that say so; a *)
(* sector of n bytes that stays raw is the same with n parts.  request is  *)
(* what the caller passes to writer_file_begin.                            *)
(***************************************************************************)
EXTENDS Integers, Sequences, FiniteSets, FiniteSetsExt

CONSTANTS SectorSize,      \* write_sector_size
          Request,         \* [size, single, packed, crc, prefix]: members that
                           \* are asked for; prefix is the size of patch info
          Capacity,        \* write_capacity
          Tables,          \* number of tables: hash, block and, in version
                           \* two, extended block table
          Limit,           \* UINT32_MAX
          HighLimit,       \* UINT16_MAX, for the high part of an offset
          Version,         \* 1 or 2
          Persist,         \* a caller goes on with a member after a failed write
          MaxAttempts,     \* bound: members begun
          MaxFaults        \* bound: failures

ASSUME WriterAssumption ==
    /\ SectorSize \in Nat \ {0} /\ Capacity \in Nat /\ Limit \in Nat /\ HighLimit \in Nat
    /\ Tables \in Nat /\ MaxAttempts \in Nat /\ MaxFaults \in Nat
    /\ Version \in {1, 2} /\ Persist \in BOOLEAN
    /\ \A r \in Request :
         /\ r.size \in Nat /\ r.prefix \in Nat
         /\ r.single \in BOOLEAN /\ r.packed \in BOOLEAN /\ r.crc \in BOOLEAN

VARIABLES file,            \* cells of the output file
          pos,             \* position of archive->fp
          writer,          \* write_current
          block,           \* entries of the block table in use
          wanted,          \* members to be generated, from the creation options
          phase,           \* "writing", the steps of closing, "closed", "failed"
          attempts,        \* history: members begun
          accepted,        \* history: attempts whose finish reported success
          faults           \* history: failures

vars == <<file, pos, writer, block, wanted, phase, attempts, accepted, faults>>

\* The header, then the tables.
First == 1 + Tables

Hole == [hole |-> TRUE]

NoWriter == [active |-> FALSE]

Cells(f, from, n) == SubSeq(f, from + 1, from + n)

\* The file with cells written at position p.
Put(f, p, cells) ==
    IF cells = <<>> THEN f
    ELSE [i \in 1..Max({Len(f), p + Len(cells)}) |->
            IF i \in (p + 1)..(p + Len(cells)) THEN cells[i - p]
            ELSE IF i <= Len(f) THEN f[i] ELSE Hole]

Ceiling(size) == (size + SectorSize - 1) \div SectorSize

HasTable(r) == r.packed /\ ~r.single

\* Offset table entries of a member with n sectors.
TableSize(r, n) == IF HasTable(r) THEN n + 1 + (IF r.crc THEN 1 ELSE 0) ELSE 0

\* n cells that hold bytes from..from+length-1 of a member.
Sector(of, from, length, n) ==
    [p \in 1..n |-> [of |-> of, from |-> from, length |-> length, part |-> p, parts |-> n]]

Prefix(of, n) == [p \in 1..n |-> [of |-> of, prefix |-> p]]

\* A checksum stands for the packed sector it is made from.
Checksums(sums, n) == [p \in 1..n |-> [sums |-> sums, part |-> p, parts |-> n]]

Offsets(offsets) == [i \in 1..Len(offsets) |-> [offset |-> offsets[i]]]

Init ==
    /\ file = [i \in 1..First |-> Hole]
    /\ pos = First
    /\ writer = NoWriter
    /\ block = <<>>
    /\ wanted \in SUBSET {"listfile", "attributes"}
    /\ phase = "writing"
    /\ attempts = 0
    /\ accepted = {}
    /\ faults = 0

-----------------------------------------------------------------------------
(* Writing to the file.  A write that breaks leaves k cells and moves the  *)
(* position past them.                                                     *)

WriteAt(p, cells) ==
    /\ file' = Put(file, p, cells)
    /\ pos' = p + Len(cells)
    /\ UNCHANGED faults

WriteBreaks(p, cells) ==
    /\ faults < MaxFaults
    /\ \E k \in 0..(Len(cells) - 1) :
         /\ file' = Put(file, p, SubSeq(cells, 1, k))
         /\ pos' = p + k
    /\ faults' = faults + 1

\* The cells are written, and the step after the write fails.
Spoiled(p, cells) ==
    /\ faults < MaxFaults
    /\ file' = Put(file, p, cells)
    /\ pos' = p + Len(cells)
    /\ faults' = faults + 1

-----------------------------------------------------------------------------
(* writer_file_begin.                                                      *)

\* The new writer: checksums are only kept for sectors with an offset table.
NewWriter(r) ==
    LET opt == [r EXCEPT !.crc = @ /\ HasTable(r) /\ r.size # 0]
        n   == IF r.single THEN 1 ELSE Max({1, Ceiling(r.size)})
    IN  [active |-> TRUE, of |-> attempts + 1, request |-> opt, written |-> 0,
         data_size |-> 0, sector_index |-> 0, block_count |-> n,
         payload_offset |-> pos + r.prefix, packed_total |-> 0,
         offsets |-> [i \in 1..TableSize(opt, n) |-> IF i = 1 THEN TableSize(opt, n) ELSE 0],
         sums |-> [i \in 1..n |-> <<>>], stage |-> "data"]

\* The prefix is written and room is left for the offset table.
Begin(r) ==
    LET w == NewWriter(r)
    IN  /\ file' = Put(file, pos, Prefix(w.of, r.prefix))
        /\ pos' = w.payload_offset + Len(w.offsets)
        /\ writer' = w
        /\ UNCHANGED faults

\* The prefix is cut short, or there is no memory for the offset table.
BeginFails(r) ==
    /\ \/ WriteBreaks(pos, Prefix(attempts + 1, r.prefix))
       \/ Spoiled(pos, Prefix(attempts + 1, r.prefix))
    /\ UNCHANGED writer

\* Entries kept back for the members that finalization adds.
Kept == IF "attributes" \in wanted THEN Cardinality(wanted) ELSE 0

BeginMember(r) ==
    /\ phase = "writing"
    /\ ~writer.active
    /\ Len(block) < Capacity - Kept
    /\ attempts < MaxAttempts
    /\ Begin(r) \/ BeginFails(r)
    /\ attempts' = attempts + 1
    /\ UNCHANGED <<block, wanted, phase, accepted>>

-----------------------------------------------------------------------------
(* A failing call ends a member, except that after a failed write the      *)
(* caller still holds the writer.  Members of finalization are added by    *)
(* libmpq__writer_file_add, which gives up, and finalization with it.      *)

GiveUp ==
    /\ writer' = NoWriter
    /\ phase' = IF phase = "writing" THEN phase ELSE "failed"

\* stream_flush_sector: the sizes a sector may be packed to; packing is kept
\* only if it saves something.
Packings(w) == IF w.request.packed /\ w.data_size > 0 THEN 1..w.data_size ELSE {w.data_size}

PackedSector(w, n) == Sector(w.of, w.written - w.data_size, w.data_size, n)

\* Mutant: the checksum goes to the following sector, the last one to none.
NotedChecksumShifted(w, cells) ==
    [w EXCEPT !.offsets = IF HasTable(w.request)
                          THEN [@ EXCEPT ![w.sector_index + 1] = pos - w.payload_offset]
                          ELSE @,
              !.sums = [@ EXCEPT ![Min({w.sector_index + 2, w.block_count})] = cells]]

\* The place of the sector and its checksum are noted before it is written.
Noted(w, cells) ==
    [w EXCEPT !.offsets = IF HasTable(w.request)
                          THEN [@ EXCEPT ![w.sector_index + 1] = pos - w.payload_offset]
                          ELSE @,
              !.sums = [@ EXCEPT ![w.sector_index + 1] = cells]]

\* The sector of w is written, packed to n cells, and the writer goes on.
Flush(w, n) ==
    /\ w.sector_index < w.block_count
    /\ WriteAt(pos, PackedSector(w, n))

Flushed(w, n) ==
    [Noted(w, PackedSector(w, n)) EXCEPT !.packed_total = @ + n,
                                         !.sector_index = @ + 1, !.data_size = 0]

\* One sector too many is refused before anything is written.  A first sector
\* that turns out not to be the WAVE data it was announced as is spoiled after.
FlushFails(w, how, n) ==
    \/ /\ how = "refused" /\ w.sector_index >= w.block_count
       /\ UNCHANGED <<file, pos, faults>>
    \/ /\ how = "broken" /\ w.sector_index < w.block_count
       /\ WriteBreaks(pos, PackedSector(w, n))
    \/ /\ how = "spoiled" /\ w.sector_index = 0 /\ HasTable(w.request)
       /\ Spoiled(pos, PackedSector(w, n))

Unflushed(w, how, n) ==
    IF how = "refused" THEN w
    ELSE [Noted(w, PackedSector(w, n)) EXCEPT !.packed_total = @ + IF how = "spoiled" THEN n ELSE 0]

Failures == {"refused", "broken", "spoiled"}

-----------------------------------------------------------------------------
(* libmpq__writer_file_write: one turn of its loop, which takes n bytes    *)
(* into the sector buffer and flushes it when it is full.  A call with     *)
(* more bytes is several turns.                                            *)

InUse == writer.active /\ (writer.stage = "data" \/ (writer.stage = "failed" /\ Persist))

Turn(n) ==
    /\ InUse
    /\ writer.written < writer.request.size
    /\ n \in 0..Min({SectorSize - writer.data_size, writer.request.size - writer.written})
    /\ n = 0 => writer.data_size = SectorSize

Filled(n) == [writer EXCEPT !.data_size = @ + n, !.written = @ + n, !.stage = "data"]

Write(n) ==
    /\ Turn(n)
    /\ LET w == Filled(n)
       IN  IF w.data_size = SectorSize
           THEN \E k \in Packings(w) : Flush(w, k) /\ writer' = Flushed(w, k)
           ELSE writer' = w /\ UNCHANGED <<file, pos, faults>>
    /\ UNCHANGED <<block, wanted, phase, attempts, accepted>>

WriteFails(n) ==
    /\ Turn(n)
    /\ Filled(n).data_size = SectorSize
    /\ \E how \in Failures, k \in Packings(Filled(n)) :
         /\ FlushFails(Filled(n), how, k)
         /\ IF phase = "writing"
            THEN /\ writer' = [Unflushed(Filled(n), how, k) EXCEPT !.stage = "failed"]
                 /\ UNCHANGED phase
            ELSE GiveUp
    /\ UNCHANGED <<block, wanted, attempts, accepted>>

Abort ==
    /\ phase = "writing"
    /\ writer.active /\ writer.stage \in {"data", "failed"}
    /\ writer' = NoWriter
    /\ UNCHANGED <<file, pos, block, wanted, phase, attempts, accepted, faults>>

-----------------------------------------------------------------------------
(* libmpq__writer_file_finish and stream_finish: the last sector, then the *)
(* checksums, then the offset table and the entry.                         *)

MustFlush == writer.data_size # 0 \/ writer.request.size = 0

Total(w) == w.packed_total + Len(w.offsets)

\* offsets[block_count], the end of the sectors, when all of them are there and
\* the table can hold it.
Finishing(w) ==
    IF \/ w.written # w.request.size
       \/ w.sector_index # w.block_count
       \/ HasTable(w.request) /\ Total(w) > Limit
    THEN GiveUp
    ELSE /\ writer' = [w EXCEPT !.stage = "sums",
                          !.offsets = IF HasTable(w.request)
                                      THEN [@ EXCEPT ![w.block_count + 1] = Total(w)]
                                      ELSE @]
         /\ UNCHANGED phase

Finish ==
    /\ InUse
    /\ IF MustFlush
       THEN \E k \in Packings(writer) : Flush(writer, k) /\ Finishing(Flushed(writer, k))
       ELSE Finishing(writer) /\ UNCHANGED <<file, pos, faults>>
    /\ UNCHANGED <<block, wanted, attempts, accepted>>

FinishFails ==
    /\ InUse
    /\ MustFlush
    /\ \E how \in Failures, k \in Packings(writer) : FlushFails(writer, how, k)
    /\ GiveUp
    /\ UNCHANGED <<block, wanted, attempts, accepted>>

\* stream_write_checksums
FinishChecksums ==
    /\ writer.active /\ writer.stage = "sums"
    /\ IF writer.request.crc
       THEN \E n \in 1..writer.block_count :
              \/ /\ Total(writer) + n > Limit
                 /\ GiveUp
                 /\ UNCHANGED <<file, pos, faults>>
              \/ /\ Total(writer) + n <= Limit
                 /\ WriteAt(pos, Checksums(writer.sums, n))
                 /\ writer' = [writer EXCEPT !.stage = "table", !.packed_total = @ + n,
                                 !.offsets = [@ EXCEPT ![writer.block_count + 2] =
                                                 writer.offsets[writer.block_count + 1] + n]]
                 /\ UNCHANGED phase
              \/ /\ Total(writer) + n <= Limit
                 /\ WriteBreaks(pos, Checksums(writer.sums, n))
                 /\ GiveUp
       ELSE writer' = [writer EXCEPT !.stage = "table"] /\ UNCHANGED <<file, pos, phase, faults>>
    /\ UNCHANGED <<block, wanted, attempts, accepted>>

TooLarge(w) == w.payload_offset > Limit \/ Total(w) > Limit \/ w.request.size > Limit

\* An entry too large for the block table is an error, in a version two archive
\* only when the high part of its offset does not fit either.
Refused(w) ==
    \/ w.request.prefix # 0 /\ Total(w) + w.request.prefix > Limit
    \/ TooLarge(w) /\ (Version = 1 \/ w.payload_offset \div (Limit + 1) > HighLimit)

\* For a patch member the code enters the size of the patched result; its
\* reader takes the size of the stored data from the prefix instead.
EntryOf(w) ==
    [offset |-> w.payload_offset - w.request.prefix,
     packed_size |-> Total(w) + w.request.prefix,
     unpacked_size |-> w.request.size, request |-> w.request, of |-> w.of]

\* The phase that follows when finalization has added its member.
Continued(p) == CASE p = "listfile" -> "attributes" [] p = "attributes" -> "tables" [] OTHER -> p

FinishTableFails ==
    /\ writer.active /\ writer.stage = "table"
    /\ \/ WriteBreaks(writer.payload_offset, Offsets(writer.offsets))
       \/ /\ Refused(writer)
          /\ file' = Put(file, writer.payload_offset, Offsets(writer.offsets))
          /\ pos' = writer.payload_offset + Total(writer)
          /\ UNCHANGED faults
    /\ GiveUp
    /\ UNCHANGED <<block, wanted, attempts, accepted>>

\* Mutant: the append position is not restored after the offset table.
FinishTableNoSeek ==
    /\ writer.active /\ writer.stage = "table"
    /\ ~Refused(writer)
    /\ WriteAt(IF HasTable(writer.request) THEN writer.payload_offset ELSE pos,
               Offsets(writer.offsets))
    /\ block' = IF TooLarge(writer) THEN block ELSE Append(block, EntryOf(writer))
    /\ accepted' = accepted \cup {writer.of}
    /\ writer' = NoWriter
    /\ phase' = Continued(phase)
    /\ UNCHANGED <<wanted, attempts>>


\* Success.  In a version two archive also where no entry is made.
FinishTable ==
    /\ writer.active /\ writer.stage = "table"
    /\ ~Refused(writer)
    /\ file' = Put(file, writer.payload_offset, Offsets(writer.offsets))
    /\ pos' = writer.payload_offset + Total(writer)
    /\ block' = IF TooLarge(writer) THEN block ELSE Append(block, EntryOf(writer))
    /\ accepted' = accepted \cup {writer.of}
    /\ writer' = NoWriter
    /\ phase' = Continued(phase)
    /\ UNCHANGED <<wanted, attempts, faults>>

-----------------------------------------------------------------------------
(* libmpq__archive_close and finalize_archive.                             *)

\* A member that is still being written is aborted, and so is the archive.
Close ==
    /\ phase = "writing"
    /\ writer.active => writer.stage \in {"data", "failed"}
    /\ phase' = IF writer.active THEN "failed" ELSE "listfile"
    /\ writer' = NoWriter
    /\ UNCHANGED <<file, pos, block, wanted, attempts, accepted, faults>>

\* (listfile) is a raw single unit, (attributes) is packed in sectors and never
\* empty.
Generated ==
    {[size |-> r.size, single |-> phase = "listfile", packed |-> phase = "attributes",
      crc |-> FALSE, prefix |-> 0]
        : r \in {q \in Request : phase = "attributes" => q.size > 0}}

BeginGenerated ==
    /\ phase \in wanted
    /\ ~writer.active
    /\ \E r \in Generated :
         \/ /\ Len(block) < Capacity
            /\ Begin(r)
            /\ attempts' = attempts + 1
            /\ UNCHANGED phase
         \/ /\ Len(block) >= Capacity
            /\ phase' = "failed"
            /\ UNCHANGED <<file, pos, writer, attempts, faults>>
    /\ UNCHANGED <<block, wanted, accepted>>

SkipGenerated ==
    /\ phase \in {"listfile", "attributes"} \ wanted
    /\ phase' = Continued(phase)
    /\ UNCHANGED <<file, pos, writer, block, wanted, attempts, accepted, faults>>

Table(i) == [table |-> i, entries |-> block]
Header(end) == [archive_size |-> end]

IsStored(i) == file[i + 1] = Table(i)

\* The tables in order, each in its place.
WriteTable ==
    /\ phase = "tables"
    /\ \E i \in 1..Tables :
         /\ ~IsStored(i) /\ \A j \in 1..(i - 1) : IsStored(j)
         /\ \/ WriteAt(i, <<Table(i)>>) /\ UNCHANGED phase
            \/ WriteBreaks(i, <<Table(i)>>) /\ phase' = "failed"
    /\ UNCHANGED <<writer, block, wanted, attempts, accepted>>

\* Mutant: the header may precede the tables.
WriteHeaderEarly ==
    /\ phase = "tables"
    /\ file[1] = Hole
    /\ Len(file) <= Limit /\ WriteAt(0, <<Header(Len(file))>>)
    /\ phase' = IF \A i \in 1..Tables : IsStored(i) THEN "closed" ELSE phase
    /\ UNCHANGED <<writer, block, wanted, attempts, accepted>>

\* The header makes the file an archive.
WriteHeader ==
    /\ phase = "tables"
    /\ \A i \in 1..Tables : IsStored(i)
    /\ \/ /\ Len(file) <= Limit
          /\ WriteAt(0, <<Header(Len(file))>>)
          /\ phase' = "closed"
       \/ /\ Len(file) <= Limit
          /\ WriteBreaks(0, <<Header(Len(file))>>)
          /\ phase' = "failed"
       \/ /\ Len(file) > Limit
          /\ phase' = "failed"
          /\ UNCHANGED <<file, pos, faults>>
    /\ UNCHANGED <<writer, block, wanted, attempts, accepted>>

Next ==
    \/ \E r \in Request : BeginMember(r)
    \/ \E n \in 0..SectorSize : Write(n) \/ WriteFails(n)
    \/ Abort
    \/ Finish \/ FinishFails
    \/ FinishChecksums
    \/ FinishTable \/ FinishTableFails
    \/ Close
    \/ BeginGenerated \/ SkipGenerated
    \/ WriteTable \/ WriteHeader

Spec == Init /\ [][Next]_vars

-----------------------------------------------------------------------------
(* Reading a member back (mpq-reader.c).                                   *)

\* libmpq__reader_count_file_blocks
BlockCount(e) == IF e.request.single THEN 1 ELSE Ceiling(e.unpacked_size)

\* libmpq__block_size_unpacked
UnpackedSize(e, i) ==
    IF e.request.single THEN e.unpacked_size
    ELSE Min({SectorSize, e.unpacked_size - i * SectorSize})

\* Where the packed data starts: patch members have their info in front.
Payload(e) == e.offset + e.request.prefix
PackedSize(e) == e.packed_size - e.request.prefix

\* Sector boundaries: from the stored table, or made up from the sizes.
Boundary(f, e, i) ==
    IF HasTable(e.request) THEN f[Payload(e) + i + 1].offset
    ELSE IF e.request.single THEN (IF i = 0 THEN 0 ELSE PackedSize(e))
    ELSE IF i = BlockCount(e) THEN e.unpacked_size ELSE i * SectorSize

\* libmpq__reader_offsets_acquire accepts the table.
TableAccepted(f, e) ==
    LET n == TableSize(e.request, BlockCount(e))
    IN  HasTable(e.request) =>
          /\ n <= PackedSize(e)
          /\ \A i \in 0..(n - 1) : "offset" \in DOMAIN f[Payload(e) + i + 1]
          /\ Boundary(f, e, 0) = n
          /\ \A i \in 1..BlockCount(e) :
               Boundary(f, e, i) \in Boundary(f, e, i - 1)..PackedSize(e)

Stored(f, e, i) ==
    Cells(f, Payload(e) + Boundary(f, e, i), Boundary(f, e, i + 1) - Boundary(f, e, i))

\* A sector that unpacks to the bytes of its place.
SectorReads(f, e, i) ==
    LET cells == Stored(f, e, i)
    IN  /\ Boundary(f, e, i + 1) <= PackedSize(e)
        /\ cells = Sector(e.of, i * SectorSize, UnpackedSize(e, i), Len(cells))
        /\ e.request.packed \/ Len(cells) = UnpackedSize(e, i)

\* The checksum table fits the stored sectors.
ChecksumsFit(f, e) ==
    LET n     == BlockCount(e)
        cells == Stored(f, e, n)
    IN  e.request.crc => cells = Checksums([i \in 1..n |-> Stored(f, e, i - 1)], Len(cells))

ReadsBack(f, e) ==
    /\ TableAccepted(f, e)
    /\ \A i \in 0..(BlockCount(e) - 1) : SectorReads(f, e, i)
    /\ ChecksumsFit(f, e)

-----------------------------------------------------------------------------

Extent(e) == e.offset .. (e.offset + e.packed_size - 1)

\* No member lies in the tables or in another one, and whatever is written next
\* comes after all of them: not even a write that broke, an aborted member or a
\* failed finish moves the append position back into a member.
ExtentsDisjoint ==
    /\ \A i \in 1..Len(block) : block[i].offset >= First
    /\ \A i, j \in 1..Len(block) : i < j => Extent(block[i]) \cap Extent(block[j]) = {}
    /\ phase = "writing" => \A i \in 1..Len(block) : block[i].offset + block[i].packed_size <= pos

\* Every entry reads back as the bytes its member was given, whatever members
\* were aborted or failed before, between and after.
MembersReadBack == \A i \in 1..Len(block) : ReadsBack(file, block[i])


\* A file with a header is a complete archive: tables with every entry, every
\* member there, wherever closing was cut short.
HeaderMeansComplete ==
    file[1] # Hole =>
        /\ \A i \in 1..Tables : IsStored(i)
        /\ \A i \in 1..Len(block) : ReadsBack(file, block[i])
=============================================================================
