--------------------------- MODULE ArchiveTables ---------------------------
(***************************************************************************)
(* The hash and block tables of one archive over its life: the writer      *)
(* enters members and, when it finalizes, the generated (listfile) and     *)
(* (attributes) (mpq-writer.c); afterwards update transactions replace,    *)
(* remove and rename members (update_apply in mpq-update.c).  An action is *)
(* a call that succeeds; one that fails leaves the tables on disk alone.   *)
(*                                                                         *)
(* A block holds the member's data and its encryption key, Plain when it   *)
(* is not encrypted.  The writer makes the key from the name with slashes  *)
(* turned into backslashes, a read by name from the name as it is given;   *)
(* both use the whole path.  The data of (listfile) is a                   *)
(* set of names; the data of (attributes) maps each block to the digest    *)
(* recorded for it, and a digest stands for the data it was made from.     *)
(***************************************************************************)
EXTENDS HashTable, FiniteSets

CONSTANTS Value,           \* data of ordinary members
          Listfile, Attributes, Signature,
          FileKey,         \* FileKey[n]: the key file_key makes from n
          ReadKey,         \* ReadKey[n]: the key a read by name makes from n
          Plain, Zero,
          WithListfile,    \* LIBMPQ_ARCHIVE_CREATE_LISTFILE was given
          WithAttributes   \* the archive is created with attributes

Reserved == {Listfile, Attributes, Signature}
Member == Name \ Reserved

\* Names without a forward slash.
Native == {n \in Name : FileKey[n] = ReadKey[n]}

ASSUME TablesAssumption ==
    /\ Reserved \subseteq Name
    /\ \A n \in Name : Plain \notin {FileKey[n], ReadKey[n]}
    /\ Variant # {} /\ Block \subseteq Nat
    /\ Zero \notin Value
    /\ WithListfile \in BOOLEAN /\ WithAttributes \in BOOLEAN

\* Locale and platform zero.
Neutral == CHOOSE x \in Variant : TRUE

VARIABLES phase,           \* "writing", "listed" while finalizing, "written"
          hash,            \* mpq_hash
          block            \* mpq_block, with the stored data

vars == <<phase, hash, block>>

\* A block table entry and its data.  The flag is LIBMPQ_FLAG_EXISTS.
Content(v, k) == [exists |-> TRUE, data |-> v, key |-> k]
Empty == [exists |-> FALSE, data |-> Zero, key |-> Plain]

Used == {b \in Block : block[b].exists}

LiveNames == {hash[s].name : s \in {r \in Slot : IsEntry(hash, r)}}

BlockOf(n) == Lookup(hash, n).block

\* libmpq__file_number succeeds.
Resolves(n) == Found(hash, n) /\ block[BlockOf(n)].exists

\* Reading the member by name gives v: its key fits the name.
Reads(t, blocks, n, v) ==
    /\ Found(t, n)
    /\ LET stored == blocks[Lookup(t, n).block]
       IN  stored.exists /\ stored.key \in {Plain, ReadKey[n]} /\ stored.data = v

\* Every entry leads to a block, which a read by the entry's own name decrypts
\* when the name is one of names.
Readable(t, blocks, names) ==
    \A s \in Slot : IsEntry(t, s) =>
        /\ blocks[t[s].block].exists
        /\ t[s].name \in names => blocks[t[s].block].key \in {Plain, ReadKey[t[s].name]}

Init ==
    /\ phase = "writing"
    /\ hash = [s \in Slot |-> Free]
    /\ block = [b \in Block |-> Empty]

-----------------------------------------------------------------------------
(* The writer.                                                             *)

\* Entries kept back for the members that finalization adds.
Kept == IF WithAttributes THEN 1 + (IF WithListfile THEN 1 ELSE 0) ELSE 0

\* writer_file_begin compares name and variant along the probe.
Duplicate(n, x) ==
    \E i \in Slot : Reaches(hash, n, i) /\ Holds(hash, n, i) /\ hash[Probe(n, i)].variant = x

\* stream_finish takes the next block and the first free slot of the probe.
Enter(n, x, content) ==
    \E i \in Slot, b \in Block \ Used :
        /\ \A c \in Block \ Used : b <= c
        /\ FreeAt(hash, n, i)
        /\ hash' = [hash EXCEPT ![Probe(n, i)] = [name |-> n, variant |-> x, block |-> b]]
        /\ block' = [block EXCEPT ![b] = content]

Add(n, x, v, encrypt) ==
    /\ phase = "writing"
    /\ Cardinality(Used) < Cardinality(Block) - Kept
    /\ ~Duplicate(n, x)
    /\ Enter(n, x, Content(v, IF encrypt THEN FileKey[n] ELSE Plain))
    /\ UNCHANGED phase

\* Archives of other tools may name one block twice.
Alias(n, x, b) ==
    /\ phase = "writing"
    /\ ~Duplicate(n, x)
    /\ b \in Used /\ block[b].key \in {Plain, ReadKey[n]} /\ block[b].data \in Value
    /\ \E i \in Slot :
         /\ FreeAt(hash, n, i)
         /\ hash' = [hash EXCEPT ![Probe(n, i)] = [name |-> n, variant |-> x, block |-> b]]
    /\ UNCHANGED <<phase, block>>

\* libmpq__signature_configure enters the empty signature right away.
Sign ==
    /\ phase = "writing"
    /\ Signature \notin LiveNames
    /\ Cardinality(Used) < Cardinality(Block) - Kept
    /\ Enter(Signature, Neutral, Content(Zero, Plain))
    /\ UNCHANGED phase

\* finalize_archive lists what has been entered, and (attributes) in advance.
FinalizeListfile ==
    /\ phase = "writing"
    /\ IF WithListfile
       THEN Enter(Listfile, Neutral,
                  Content(LiveNames \cup (IF WithAttributes THEN {Attributes} ELSE {}), Plain))
       ELSE UNCHANGED <<hash, block>>
    /\ phase' = "listed"

\* The digests were taken while the members were written; the signature has
\* none, and (attributes) cannot have its own.
FinalizeAttributes ==
    /\ phase = "listed"
    /\ IF WithAttributes
       THEN Enter(Attributes, Neutral,
                  Content([b \in Block |-> IF b \in Used THEN block[b].data ELSE Zero], Plain))
       ELSE UNCHANGED <<hash, block>>
    /\ phase' = "written"

-----------------------------------------------------------------------------
(* update_apply.  (listfile), (attributes) and (signature) are looked up   *)
(* before the edit and must not share their blocks.                        *)

Editable(n) ==
    /\ phase = "written"
    /\ Resolves(n)
    /\ \A r \in Reserved : Resolves(r) => SoleReference(hash, BlockOf(r))

IsBlockOf(n, b) == Resolves(n) /\ BlockOf(n) = b

\* Mutant: (attributes) keeps the digest of the old (listfile).
RebuildOldListDigest(entries, blocks, digests, names) ==
    LET updated == [b \in Block |->
            IF IsBlockOf(Signature, b) \/ IsBlockOf(Attributes, b) THEN Zero ELSE digests[b]]
    IN  /\ hash' = [s \in Slot |->
              IF IsEntry(entries, s) /\ IsBlockOf(Signature, entries[s].block)
              THEN Deleted ELSE entries[s]]
        /\ block' = [b \in Block |->
              IF IsBlockOf(Attributes, b) THEN Content(updated, Plain)
              ELSE IF IsBlockOf(Listfile, b) THEN Content(names, Plain)
              ELSE IF IsBlockOf(Signature, b) THEN Empty ELSE blocks[b]]
        /\ UNCHANGED phase

\* The tables with entries and blocks after the edit proper.  The signature is
\* stripped; (listfile) is packed again with names, then (attributes) with the
\* digests of the old one brought up to date.
Rebuild(entries, blocks, digests, names) ==
    LET updated == [b \in Block |->
            IF IsBlockOf(Signature, b) \/ IsBlockOf(Attributes, b) THEN Zero
            ELSE IF IsBlockOf(Listfile, b) THEN names ELSE digests[b]]
    IN  /\ hash' = [s \in Slot |->
              IF IsEntry(entries, s) /\ IsBlockOf(Signature, entries[s].block)
              THEN Deleted ELSE entries[s]]
        /\ block' = [b \in Block |->
              IF IsBlockOf(Attributes, b) THEN Content(updated, Plain)
              ELSE IF IsBlockOf(Listfile, b) THEN Content(names, Plain)
              ELSE IF IsBlockOf(Signature, b) THEN Empty ELSE blocks[b]]
        /\ UNCHANGED phase

Digests == IF Resolves(Attributes) THEN block[BlockOf(Attributes)].data
           ELSE [b \in Block |-> Zero]

Names == IF Resolves(Listfile) THEN block[BlockOf(Listfile)].data \ {Signature} ELSE {}

\* The slot that update_hash_slot finds for the block of n.
SlotOf(n, s) == IsEntry(hash, s) /\ hash[s].name = n /\ hash[s].block = BlockOf(n)
FirstSlotOf(n, s) == SlotOf(n, s) /\ \A r \in 0..(s - 1) : ~SlotOf(n, r)

\* The new data is packed into the block of the old.
Replace(n, v, encrypt) ==
    /\ Editable(n)
    /\ SoleReference(hash, BlockOf(n))
    /\ Rebuild(hash,
               [block EXCEPT ![BlockOf(n)] = Content(v, IF encrypt THEN FileKey[n] ELSE Plain)],
               [Digests EXCEPT ![BlockOf(n)] = v],
               Names \cup {n})
    /\ Reads(hash', block', n, v)

\* Mutant: the slot of a removed entry becomes free.
RemoveFrees(n) ==
    /\ Editable(n)
    /\ \E s \in Slot :
         /\ FirstSlotOf(n, s)
         /\ LET entries == [hash EXCEPT ![s] = Free]
                gone    == ~Referenced(entries, BlockOf(n))
            IN  Rebuild(entries,
                        IF gone THEN [block EXCEPT ![BlockOf(n)] = Empty] ELSE block,
                        IF gone THEN [Digests EXCEPT ![BlockOf(n)] = Zero] ELSE Digests,
                        Names \ {n})
    /\ ~Found(hash', n)

\* Mutant: the block goes although another entry uses it.
RemoveSharedBlock(n) ==
    /\ Editable(n)
    /\ \E s \in Slot :
         /\ FirstSlotOf(n, s)
         /\ Rebuild([hash EXCEPT ![s] = Deleted],
                    [block EXCEPT ![BlockOf(n)] = Empty],
                    [Digests EXCEPT ![BlockOf(n)] = Zero],
                    Names \ {n})
    /\ ~Found(hash', n)

\* The block goes with its last name.  The edit is refused when another variant
\* still answers to the name.
Remove(n) ==
    /\ Editable(n)
    /\ \E s \in Slot :
         /\ FirstSlotOf(n, s)
         /\ LET entries == [hash EXCEPT ![s] = Deleted]
                gone    == ~Referenced(entries, BlockOf(n))
            IN  Rebuild(entries,
                        IF gone THEN [block EXCEPT ![BlockOf(n)] = Empty] ELSE block,
                        IF gone THEN [Digests EXCEPT ![BlockOf(n)] = Zero] ELSE Digests,
                        Names \ {n})
    /\ ~Found(hash', n)

\* Mutant: the new name may already be taken.
RenameOverExisting(n, m) ==
    /\ Editable(n)
    /\ LET old == block[BlockOf(n)]
       IN  /\ Reads(hash, block, n, old.data)
           /\ old.key # Plain => SoleReference(hash, BlockOf(n))
           /\ \E s, i \in Slot :
                /\ FirstSlotOf(n, s)
                /\ VacantAt([hash EXCEPT ![s] = Deleted], m, i)
                /\ Rebuild([hash EXCEPT ![s] = Deleted,
                                        ![Probe(m, i)] = [hash[s] EXCEPT !.name = m]],
                           [block EXCEPT ![BlockOf(n)] =
                               IF old.key = Plain THEN old ELSE Content(old.data, FileKey[m])],
                           Digests,
                           (Names \ {n}) \cup {m})
           /\ Reads(hash', block', m, old.data)
    /\ ~Found(hash', n)

\* Mutant: the old name stays in (listfile).
RenameKeepsListed(n, m) ==
    /\ Editable(n)
    /\ ~Found(hash, m)
    /\ LET old == block[BlockOf(n)]
       IN  /\ Reads(hash, block, n, old.data)
           /\ old.key # Plain => SoleReference(hash, BlockOf(n))
           /\ \E s, i \in Slot :
                /\ FirstSlotOf(n, s)
                /\ VacantAt([hash EXCEPT ![s] = Deleted], m, i)
                /\ Rebuild([hash EXCEPT ![s] = Deleted,
                                        ![Probe(m, i)] = [hash[s] EXCEPT !.name = m]],
                           [block EXCEPT ![BlockOf(n)] =
                               IF old.key = Plain THEN old ELSE Content(old.data, FileKey[m])],
                           Digests,
                           Names \cup {m})
           /\ Reads(hash', block', m, old.data)
    /\ ~Found(hash', n)

\* An encrypted member is packed again under the key of its new name.
Rename(n, m) ==
    /\ Editable(n)
    /\ ~Found(hash, m)
    /\ LET old == block[BlockOf(n)]
       IN  /\ Reads(hash, block, n, old.data)
           /\ old.key # Plain => SoleReference(hash, BlockOf(n))
           /\ \E s, i \in Slot :
                /\ FirstSlotOf(n, s)
                /\ VacantAt([hash EXCEPT ![s] = Deleted], m, i)
                /\ Rebuild([hash EXCEPT ![s] = Deleted,
                                        ![Probe(m, i)] = [hash[s] EXCEPT !.name = m]],
                           [block EXCEPT ![BlockOf(n)] =
                               IF old.key = Plain THEN old ELSE Content(old.data, FileKey[m])],
                           Digests,
                           (Names \ {n}) \cup {m})
           /\ Reads(hash', block', m, old.data)
    /\ ~Found(hash', n)

Next ==
    \/ \E n \in Member, x \in Variant, v \in Value, encrypt \in BOOLEAN : Add(n, x, v, encrypt)
    \/ \E n \in Member, x \in Variant, b \in Block : Alias(n, x, b)
    \/ Sign
    \/ FinalizeListfile
    \/ FinalizeAttributes
    \/ \E n \in Member, v \in Value, encrypt \in BOOLEAN : Replace(n, v, encrypt)
    \/ \E n \in Member : Remove(n)
    \/ \E n, m \in Member : Rename(n, m)

Spec == Init /\ [][Next]_vars

-----------------------------------------------------------------------------

\* Every entry can be found: no deletion or reuse of a slot, by the writer or
\* by an update, ever opens a free slot in front of an entry on its probe.
EntriesReachable == Reachable(hash)

\* Every entry leads to a block that exists and that reading by the entry's own
\* name decrypts, also after renaming and when entries share a block.  Names
\* with forward slashes are left to NamesReadBack.
MembersReadable == Readable(hash, block, Native)

\* The same for every name: "Slash normalization matches MPQ's Windows-oriented
\* name hashing" (file_key in mpq-writer.c), so a member can be read back under
\* the name it was written with.
NamesReadBack == Readable(hash, block, Name)

\* In a finished archive a (listfile) names exactly the members there are.
ListfileExact ==
    phase = "written" /\ Resolves(Listfile) =>
        block[BlockOf(Listfile)].data \cap Member = LiveNames \cap Member

\* In a finished archive (attributes) has the digest of every member but the
\* signature and itself, and none for a block that is no longer used.
AttributesCurrent ==
    phase = "written" /\ Resolves(Attributes) =>
        \A b \in Block : block[BlockOf(Attributes)].data[b] =
            IF b \in Used /\ ~IsBlockOf(Attributes, b) THEN block[b].data ELSE Zero

\* What the name lookup yields, as an ArchiveBody.
bodyBar == [n \in Member |-> IF Resolves(n) THEN block[BlockOf(n)].data ELSE Zero]

AB == INSTANCE ArchiveBody WITH Absent <- Zero, body <- bodyBar

\* Seen through libmpq__file_number, every call changes exactly the member it
\* names, in the way it promises, and no other member appears or vanishes.
ImplementsArchiveBody == AB!Spec
=============================================================================
