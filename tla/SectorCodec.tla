---------------------------- MODULE SectorCodec ----------------------------
(***************************************************************************)
(* The codec chain of one sector, mpq-compression.c: the writer tries the  *)
(* requested codecs in a fixed order and keeps each one that saves enough, *)
(* stores the mask of those it kept in front of the bytes, or stores the   *)
(* sector raw; the reader tells the two forms apart by their size, and     *)
(* undoes the mask in the reverse order.                                   *)
(*                                                                         *)
(* Bytes are abstracted to their number and to the codecs applied to them: *)
(* layers[k] is the k-th codec kept and the size it left.  A codec undoes  *)
(* its own output exactly; what it makes of anything else is Junk.         *)
(***************************************************************************)
EXTENDS Integers, SequencesExt

CONSTANTS SectorSizes    \* sizes of the sectors the writer encodes

ASSUME SectorAssumption == SectorSizes \subseteq Nat \ {0}

VARIABLES sector,        \* the call's arguments, or NoSector
          turn,          \* index into the table of codecs
          layers,        \* what is applied to data so far
          stored         \* [mask, layers, size] of the result, or Nothing

svars == <<sector, turn, layers, stored>>

\* masks of libmpq__compression_encode_sector
EncodeOrder == <<"sparse", "wave_mono", "wave_stereo", "huffman",
                 "zlib", "pkzip", "bzip2">>

\* dcmp_table
DecodeOrder == <<"bzip2", "pkzip", "zlib", "huffman",
                 "wave_stereo", "wave_mono", "sparse">>

Codecs == Range(EncodeOrder)

\* The method byte of an LZMA sector, 0x12, is also the mask of these two.
LzmaMethod == {"zlib", "bzip2"}

\* LIBMPQ_LZMA_TOTAL_OVERHEAD
LzmaOverhead == 15

NoSector == [size |-> 0]
Nothing  == [mask |-> {}, layers |-> <<>>, size |-> 0]
Junk     == [layers |-> <<[codec |-> "junk", size |-> 0]>>, size |-> 0]

\* libmpq__compression_allowed
Allowed(version, mask, policy) ==
    CASE mask = {"lzma"} -> version = 2
      [] mask # {"lzma"} /\ "lzma" \in mask -> FALSE
      [] OTHER ->
           /\ ~("sparse" \in mask /\ mask \cap {"wave_mono", "wave_stereo"} # {})
           /\ ~({"wave_mono", "wave_stereo"} \subseteq mask)
           /\ ~(version = 2 /\ LzmaMethod \subseteq mask)
           /\ version = 2 /\ policy = "standard" =>
                mask \in {{}, {"zlib"}, {"pkzip"}, {"bzip2"}, {"sparse"},
                          {"sparse", "zlib"}, {"sparse", "bzip2"},
                          {"huffman", "wave_mono"}, {"huffman", "wave_stereo"}}

\* The sizes compression_stage may make of n bytes; it may also fail.
StageSizes(codec, n) ==
    CASE codec = "sparse"      -> IF n < 7 THEN {} ELSE {5, n - 2}
      [] codec = "wave_mono"   -> IF n % 2 # 0 THEN {} ELSE {3 + n \div 2}
      [] codec = "wave_stereo" -> IF n % 4 # 0 THEN {} ELSE {4 + n \div 2}
      [] codec = "huffman"     -> {4} \cup {k \in {n - 2, n + 1} : k >= 4}
      [] OTHER                 -> {6, n + 5} \cup {k \in {n - 1} : k >= 6}

SizeOf(whole, ls) == IF ls = <<>> THEN whole ELSE Last(ls).size

SectorInit ==
    /\ sector = NoSector /\ turn = 0 /\ layers = <<>> /\ stored = Nothing

\* The call is refused unless the policy allows what it requests.  One that runs
\* out of memory on the way has no result and is not followed further.
BeginSector(requested, version, policy, n) ==
    /\ sector = NoSector
    /\ Allowed(version, requested, policy)
    /\ sector' = [requested |-> requested, version |-> version,
                  policy |-> policy, size |-> n]
    /\ turn' = 1
    /\ UNCHANGED <<layers, stored>>

Now == EncodeOrder[turn]

Current == SizeOf(sector.size, layers)

Staging ==
    /\ sector # NoSector /\ stored = Nothing
    /\ sector.requested # {"lzma"} /\ turn <= Len(EncodeOrder)

\* A codec that was not asked for.
SkipStage ==
    /\ Staging /\ Now \notin sector.requested
    /\ turn' = turn + 1
    /\ UNCHANGED <<sector, layers, stored>>

\* The data is kept when a stage fails, or saves fewer than two bytes.
DropStage ==
    /\ Staging /\ Now \in sector.requested
    /\ turn' = turn + 1
    /\ UNCHANGED <<sector, layers, stored>>

\* Mutant: a stage that saves one byte is kept.
KeepStageOneByte ==
    /\ Staging /\ Now \in sector.requested
    /\ \E n \in StageSizes(Now, Current) :
          /\ n < Current
          /\ layers' = Append(layers, [codec |-> Now, size |-> n])
    /\ turn' = turn + 1
    /\ UNCHANGED <<sector, stored>>

KeepStage ==
    /\ Staging /\ Now \in sector.requested
    /\ \E n \in StageSizes(Now, Current) :
          /\ n <= Current - (IF Current >= 2 THEN 2 ELSE Current)
          /\ layers' = Append(layers, [codec |-> Now, size |-> n])
    /\ turn' = turn + 1
    /\ UNCHANGED <<sector, stored>>

\* Mutant: what is left of an allowed chain is taken to be allowed.
FinishSectorUnchecked ==
    /\ sector # NoSector /\ stored = Nothing /\ turn > Len(EncodeOrder)
    /\ LET mask == {layers[k].codec : k \in DOMAIN layers}
           size == SizeOf(sector.size, layers)
       IN stored' =
            IF mask = {} \/ size + 1 >= sector.size
            THEN [mask |-> {}, layers |-> layers, size |-> size]
            ELSE [mask |-> mask, layers |-> layers, size |-> size + 1]
    /\ UNCHANGED <<sector, turn, layers>>

\* The mask kept must itself be allowed, otherwise the input is restored; the
\* mask byte must still leave the result shorter than the input.
FinishSector ==
    /\ sector # NoSector /\ stored = Nothing /\ turn > Len(EncodeOrder)
    /\ LET mask  == {layers[k].codec : k \in DOMAIN layers}
           kept  == Allowed(sector.version, mask, sector.policy)
           final == IF kept THEN layers ELSE <<>>
           size  == SizeOf(sector.size, final)
       IN stored' =
            IF ~kept \/ mask = {} \/ size + 1 >= sector.size
            THEN [mask |-> {}, layers |-> final, size |-> size]
            ELSE [mask |-> mask, layers |-> final, size |-> size + 1]
    /\ UNCHANGED <<sector, turn, layers>>

\* encode_lzma: raw when it cannot win, otherwise under its own method byte.
EncodeLzma ==
    /\ sector # NoSector /\ stored = Nothing /\ sector.requested = {"lzma"}
    /\ \E n \in {0} \cup 1..(sector.size - LzmaOverhead - 1) :
          stored' =
            IF n = 0
            THEN [mask |-> {}, layers |-> <<>>, size |-> sector.size]
            ELSE [mask |-> LzmaMethod, size |-> LzmaOverhead + n,
                  layers |-> <<[codec |-> "lzma", size |-> LzmaOverhead + n - 1]>>]
    /\ UNCHANGED <<sector, turn, layers>>

\* One backend on the current bytes: it takes off its own layer when what it
\* uncovers fits in the output.  The two wave codecs return the samples only
\* approximately, which leaves no other codec's bytes under them intact.
Peel(ls, codec, whole) ==
    LET under == IF ls = <<>> THEN <<>> ELSE Front(ls)
    IN IF /\ ls # <<>> /\ Last(ls).codec = codec
          /\ SizeOf(whole, under) <= whole
          /\ codec \in {"wave_mono", "wave_stereo"} => under = <<>>
       THEN under ELSE Junk.layers

\* libmpq__compression_decompress_multi: every stage writes into a buffer of
\* the sector's size.
DecompressMulti(block, whole, version) ==
    LET chain == SelectSeq(DecodeOrder, LAMBDA c : c \in block.mask)
        one(ls, c) == Peel(ls, c, whole)
    IN IF version = 2 /\ block.mask = LzmaMethod
       THEN Peel(block.layers, "lzma", whole)
       ELSE FoldLeft(one, block.layers, chain)

\* libmpq__compression_decompress_block: only a block shorter than the sector
\* is taken for a compressed one.
DecompressBlock(block, whole, version) ==
    IF block.size < whole
    THEN LET ls == DecompressMulti(block, whole, version)
         IN [layers |-> ls, size |-> SizeOf(whole, ls)]
    ELSE [layers |-> block.layers, size |-> whole]

SectorNext ==
    \/ \E requested \in SUBSET (Codecs \cup {"lzma"}),
          version \in {1, 2}, policy \in {"standard", "extended"},
          n \in SectorSizes :
            BeginSector(requested, version, policy, n)
    \/ SkipStage \/ DropStage \/ KeepStage \/ FinishSector \/ EncodeLzma

----------------------------------------------------------------------------
(* Properties                                                              *)

\* Whatever combination of stages the writer kept or dropped, the reader,
\* which knows only the stored bytes, the sector's size and the archive's
\* version, gets the sector back (a wave stage up to its loss): raw and
\* compressed forms, LZMA's method and the mask that spells the same byte,
\* are never confused.
SectorReadsBack ==
    stored # Nothing =>
      DecompressBlock(stored, sector.size, sector.version)
         = [layers |-> <<>>, size |-> sector.size]

\* A sector is never stored under a method its archive version and policy
\* forbid, although stages of an allowed chain may be dropped one by one, and
\* never takes more room than the sector itself.
StoredMethodAllowed ==
    stored # Nothing =>
      /\ stored.size <= sector.size
      /\ IF stored.layers # <<>> /\ Last(stored.layers).codec = "lzma"
         THEN Allowed(sector.version, {"lzma"}, sector.policy)
         ELSE Allowed(sector.version, stored.mask, sector.policy)
=============================================================================
