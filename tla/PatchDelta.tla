----------------------------- MODULE PatchDelta -----------------------------
(***************************************************************************)
(* How a patch member is made from the old and the new content of a file:  *)
(* patch_writer_payload (mpq-patch-writer.c) tries two encodings of the    *)
(* difference, packs each with a run-length code, decodes a smaller one    *)
(* the way the reader does (patch_apply_internal, mpq-patch-reader.c) and  *)
(* keeps it only if that gives the new content.  One turn of each loop is  *)
(* a step.                                                                 *)
(*                                                                         *)
(* A stream is a sequence of cells: a byte, or one field of the header or  *)
(* of a control tuple.  A cell holds 0..Byte-1, so Byte stands for 256     *)
(* where a cell is a byte and for 2^32 where it is a field.                *)
(***************************************************************************)
EXTENDS Integers, Sequences, FiniteSetsExt

CONSTANTS Byte,
          MinSuffix,       \* 16: shorter common suffixes are not worth a splice
          Lead,            \* 4: cells in front of the run-length code
          Limit,           \* the largest size the patch headers can hold
          Input,           \* pairs of an old and a new content
          None

\* The longest run: the upper half of the commands announces literals.
MaxRun == Byte \div 2

Content == Seq(0..(Byte - 1))

ASSUME DeltaAssumption ==
    /\ Byte \in Nat /\ Byte > 1 /\ Byte = 2 * MaxRun
    /\ MinSuffix \in Nat /\ Lead \in Nat /\ Limit \in Nat
    /\ \A pair \in Input : /\ {pair.before, pair.after} \subseteq Content
                           /\ {Len(pair.before), Len(pair.after)} \subseteq 0..(Byte - 1)
    /\ None \notin Content

VARIABLES pc,
          file,            \* the old and the new content
          splice,          \* which encoding is being tried
          raw,             \* the difference, not packed
          input, rle,      \* patch_bsd0_rle: cells of raw consumed, its output
          read, decoded,   \* patch_expand_rle: cells of rle consumed, its output
          at,              \* patch_apply_bsd0: positions in its four inputs
          output,          \* and its output
          best             \* the smallest encoding that decoded correctly

vars == <<pc, file, splice, raw, input, rle, read, decoded, at, output, best>>

before == file.before
after == file.after

AtStart == [control |-> 0, delta |-> 0, extra |-> 0, source |-> 0]

Init ==
    /\ file \in Input
    /\ pc = "encode" /\ splice = 0 /\ best = None
    /\ raw = <<>> /\ input = 0 /\ rle = <<>> /\ read = 0 /\ decoded = <<>>
    /\ at = AtStart /\ output = <<>>

-----------------------------------------------------------------------------
(* The two encodings: a header, control tuples, differences to the old     *)
(* content, literal cells.  A tuple says how many differences to add to    *)
(* the old content, how many literals follow, and how far to move in the   *)
(* old content then.                                                       *)

Magic == 1
HeaderSize == 4
Tuple == 3

Lesser(m, n) == IF m < n THEN m ELSE n

Part(s, from, count) == SubSeq(s, from + 1, from + count)

Difference(from, count) ==
    [i \in 1..count |-> (after[from + i] - before[from + i]) % Byte]

Stream(controls, differences, literals) ==
    <<Magic, Len(controls), Len(differences), Len(after)>> \o controls \o differences \o literals

Aligned ==
    LET overlap == Lesser(Len(before), Len(after))
        rest == Len(after) - overlap
    IN  Stream(<<overlap, rest, 0>>, Difference(0, overlap), Part(after, overlap, rest))

Prefix ==
    Max({n \in 0..Lesser(Len(before), Len(after)) : \A i \in 1..n : before[i] = after[i]})

\* The common suffix does not reach into the common prefix.
Suffix ==
    Max({n \in 0..(Lesser(Len(before), Len(after)) - Prefix) :
            \A i \in 0..(n - 1) : before[Len(before) - i] = after[Len(after) - i]})

OldMiddle == Len(before) - Prefix - Suffix

TupleUnless(empty, tuple) == IF empty THEN <<>> ELSE tuple

Spliced ==
    LET middle == Len(after) - Prefix - Suffix
        overlap == Lesser(OldMiddle, middle)
        inserted == middle - overlap
    IN  Stream(TupleUnless(Prefix = 0, <<0, Prefix, Prefix>>)
                   \o TupleUnless(middle = 0, <<overlap, inserted, OldMiddle - overlap>>)
                   \o TupleUnless(Suffix = 0, <<0, Suffix, 0>>),
               Difference(Prefix, overlap),
               Part(after, 0, Prefix) \o Part(after, Prefix + overlap, inserted)
                   \o Part(after, Prefix + middle, Suffix))

\* libmpq__patch_bsd0_encode gives up the splice without an error.
WorthSplicing ==
    /\ Suffix >= MinSuffix
    /\ ~(Prefix = 0 /\ Suffix = Len(after))
    /\ OldMiddle < MaxRun

\* The move is stored as sign and magnitude.
Move(cell) == IF cell >= MaxRun THEN -(cell - MaxRun) ELSE cell

-----------------------------------------------------------------------------
(* The writer.                                                             *)

Encodes == Len(after) # 0 /\ (splice = 0 \/ WorthSplicing)

Encode ==
    /\ pc = "encode" /\ splice < 2 /\ Encodes
    /\ raw' = IF splice = 0 THEN Aligned ELSE Spliced
    /\ pc' = "pack" /\ input' = 0 /\ rle' = [i \in 1..Lead |-> 0]
    /\ UNCHANGED <<file, splice, read, decoded, at, output, best>>

\* The loop over the encodings goes on to the next one, or ends.
TryNext == splice' = splice + 1 /\ pc' = "encode"

Skip ==
    /\ pc = "encode" /\ splice < 2 /\ ~Encodes
    /\ TryNext
    /\ UNCHANGED <<file, raw, input, rle, read, decoded, at, output, best>>

\* The length of the run of zero or of other cells at the front of the rest.
RunLength ==
    Max({n \in 1..Lesser(MaxRun, Len(raw) - input) :
            \A i \in 1..n : (raw[input + i] = 0) = (raw[input + 1] = 0)})

\* Mutant: a run may be one longer than its command can say.
PackLongRun ==
    LET count == Max({n \in 1..Lesser(MaxRun + 1, Len(raw) - input) :
                        \A i \in 1..n : (raw[input + i] = 0) = (raw[input + 1] = 0)})
    IN  /\ pc = "pack" /\ input < Len(raw)
        /\ rle' = IF raw[input + 1] = 0
                  THEN Append(rle, (count - 1) % MaxRun)
                  ELSE Append(rle, MaxRun + ((count - 1) % MaxRun)) \o Part(raw, input, count)
        /\ input' = input + count
        /\ UNCHANGED <<pc, file, splice, raw, read, decoded, at, output, best>>

Pack ==
    /\ pc = "pack" /\ input < Len(raw)
    /\ rle' = IF raw[input + 1] = 0
              THEN Append(rle, RunLength - 1)
              ELSE Append(rle, MaxRun + RunLength - 1) \o Part(raw, input, RunLength)
    /\ input' = input + RunLength
    /\ UNCHANGED <<pc, file, splice, raw, read, decoded, at, output, best>>

\* Headers and prefix take the same room in every candidate, and in the copy of
\* the new content that is the alternative.
BestSize == IF best = None THEN Len(after) ELSE Len(best.rle)

Contends == Len(raw) <= Limit /\ Len(rle) <= Limit /\ Len(rle) < BestSize

\* Mutant: the cells in front of the run-length code are read as commands.
OfferFromStart ==
    /\ pc = "pack" /\ input = Len(raw)
    /\ IF Contends
       THEN /\ pc' = IF Len(rle) = Len(raw) THEN "open" ELSE "expand"
            /\ decoded' = IF Len(rle) = Len(raw) THEN rle ELSE <<>>
            /\ read' = 0
            /\ UNCHANGED splice
       ELSE TryNext /\ UNCHANGED <<read, decoded>>
    /\ UNCHANGED <<file, raw, input, rle, at, output, best>>

\* A stream of the announced length is taken as it is.
Offer ==
    /\ pc = "pack" /\ input = Len(raw)
    /\ IF Contends
       THEN /\ pc' = IF Len(rle) = Len(raw) THEN "open" ELSE "expand"
            /\ decoded' = IF Len(rle) = Len(raw) THEN rle ELSE <<>>
            /\ read' = Lead
            /\ UNCHANGED splice
       ELSE TryNext /\ UNCHANGED <<read, decoded>>
    /\ UNCHANGED <<file, raw, input, rle, at, output, best>>

-----------------------------------------------------------------------------
(* The reader's decoder; a failure makes the writer drop the candidate.    *)

Refuse == TryNext /\ UNCHANGED <<file, raw, input, rle, read, decoded, at, output, best>>

Expanding == read < Len(rle) /\ Len(decoded) < Len(raw)

Expand ==
    LET command == rle[read + 1]
        literal == command >= MaxRun
        count == (command % MaxRun) + 1
        fits == /\ count <= Len(raw) - Len(decoded)
                /\ literal => count <= Len(rle) - read - 1
    IN  /\ pc = "expand" /\ Expanding
        /\ IF fits
           THEN /\ decoded' = decoded \o (IF literal THEN Part(rle, read + 1, count)
                                                     ELSE [i \in 1..count |-> 0])
                /\ read' = read + 1 + (IF literal THEN count ELSE 0)
                /\ UNCHANGED <<pc, file, splice, raw, input, rle, at, output, best>>
           ELSE Refuse

Expanded ==
    /\ pc = "expand" /\ ~Expanding
    /\ IF read = Len(rle) /\ Len(decoded) = Len(raw)
       THEN /\ pc' = "open"
            /\ UNCHANGED <<file, splice, raw, input, rle, read, decoded, at, output, best>>
       ELSE Refuse

ControlSize == decoded[2]
DeltaSize == decoded[3]
ExtraSize == Len(decoded) - HeaderSize - ControlSize - DeltaSize

\* The header names the blocks, which fill the stream.
Open ==
    /\ pc = "open"
    /\ IF /\ Len(decoded) >= HeaderSize /\ decoded[1] = Magic /\ decoded[4] = Len(after)
          /\ ControlSize + DeltaSize <= Len(decoded) - HeaderSize
       THEN /\ pc' = "apply" /\ at' = AtStart /\ output' = <<>>
            /\ UNCHANGED <<file, splice, raw, input, rle, read, decoded, best>>
       ELSE Refuse

OldCell(i) == IF i < Len(before) THEN before[i + 1] ELSE 0

Apply ==
    LET field(i) == decoded[HeaderSize + at.control + i]
        add == field(1)
        copy == field(2)
        inBounds ==
            /\ ControlSize - at.control >= Tuple
            /\ add <= Len(after) - Len(output) /\ add <= DeltaSize - at.delta /\ at.source >= 0
            /\ copy <= Len(after) - Len(output) - add /\ copy <= ExtraSize - at.extra
            /\ add + copy # 0
        delta == HeaderSize + ControlSize + at.delta
        extra == HeaderSize + ControlSize + DeltaSize + at.extra
    IN  /\ pc = "apply" /\ Len(output) < Len(after)
        /\ IF inBounds
           THEN /\ output' = output
                       \o [i \in 1..add |-> (decoded[delta + i] + OldCell(at.source + i - 1)) % Byte]
                       \o Part(decoded, extra, copy)
                /\ at' = [control |-> at.control + Tuple, delta |-> at.delta + add,
                          extra |-> at.extra + copy,
                          source |-> at.source + add + Move(field(3))]
                /\ UNCHANGED <<pc, file, splice, raw, input, rle, read, decoded, best>>
           ELSE Refuse

\* Mutant: a stream that uses up its blocks is trusted.
JudgeTrusting ==
    /\ pc = "apply" /\ Len(output) = Len(after)
    /\ best' = IF at.control = ControlSize /\ at.delta = DeltaSize /\ at.extra = ExtraSize
               THEN [raw |-> raw, rle |-> rle] ELSE best
    /\ TryNext
    /\ UNCHANGED <<file, raw, input, rle, read, decoded, at, output>>

\* The blocks are used up, the digest fits, and the writer compares once more.
Judge ==
    /\ pc = "apply" /\ Len(output) = Len(after)
    /\ best' = IF /\ at.control = ControlSize /\ at.delta = DeltaSize /\ at.extra = ExtraSize
                  /\ output = after
               THEN [raw |-> raw, rle |-> rle] ELSE best
    /\ TryNext
    /\ UNCHANGED <<file, raw, input, rle, read, decoded, at, output>>

Finish ==
    /\ pc = "encode" /\ splice = 2
    /\ pc' = "done"
    /\ UNCHANGED <<file, splice, raw, input, rle, read, decoded, at, output, best>>

Next == \/ Encode \/ Skip \/ Pack \/ Offer \/ Expand \/ Expanded
        \/ Open \/ Apply \/ Judge \/ Finish
        \/ pc = "done" /\ UNCHANGED vars

Spec == Init /\ [][Next]_vars
-----------------------------------------------------------------------------
(* What a difference stream means, tuple by tuple: the state after k tuples *)
(* is the new content so far and where the tuples have got to.             *)

Meaning(s) ==
    LET tuples == s[2] \div Tuple
        field(k, i) == s[HeaderSize + Tuple * (k - 1) + i]
        deltas == HeaderSize + s[2]
        extras == deltas + s[3]
        after_tuple[k \in 0..tuples] ==
            IF k = 0 THEN [text |-> <<>>, delta |-> 0, extra |-> 0, source |-> 0]
            ELSE LET n == after_tuple[k - 1]
                     add == field(k, 1)
                     copy == field(k, 2)
                 IN  [text |-> n.text
                         \o [i \in 1..add |-> (s[deltas + n.delta + i] + OldCell(n.source + i - 1)) % Byte]
                         \o Part(s, extras + n.extra, copy),
                      delta |-> n.delta + add, extra |-> n.extra + copy,
                      source |-> n.source + add + Move(field(k, 3))]
    IN  after_tuple[tuples].text

\* The encoding that patch_writer_payload returns describes the new content, so
\* a reader of the patch that has the old content arrives at the new one.
BestDecodes == best # None => Meaning(best.raw) = after

\* What patch_expand_rle has produced so far is the beginning of what
\* patch_bsd0_rle packed; the decoder never takes packed cells for the stream.
PackedRecovered ==
    /\ pc = "expand" => decoded = Part(raw, 0, Len(decoded))
    /\ pc \in {"open", "apply"} => decoded = raw

\* Decoding rejects a candidate of patch_writer_payload only for one reason:
\* the splice stores the length of the common prefix as a signed move, and the
\* prefix is too long for that.
OnlyLongPrefixRejected ==
    [][(pc \in {"expand", "open", "apply"} /\ pc' = "encode" /\ best' = best)
          => (splice = 1 /\ Prefix >= MaxRun)]_vars
=============================================================================
