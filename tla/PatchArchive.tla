---------------------------- MODULE PatchArchive ----------------------------
(***************************************************************************)
(* Archives as the patch code sees them, and what a patch archive changes. *)
(* An archive is its hash table and its blocks in the order they were      *)
(* appended.  A block of kind "file" holds the data of a member; kind      *)
(* "patch" (LIBMPQ_FILE_FLAG_PATCH_FILE) holds what the member must be     *)
(* before and what it is after; kind "delete" is a delete marker.  The     *)
(* data of (listfile) is a set of names, the data of (attributes) a set of *)
(* columns and one row per block.                                          *)
(*                                                                         *)
(* A name stands for its hashes.  Names below a directory of a patch, its  *)
(* namespace, are names of their own: Under[n] is n without the directory. *)
(***************************************************************************)
EXTENDS HashTable, Sequences, FiniteSets

CONSTANTS Value,           \* data of members
          Listfile, Attributes, Signature,
          Metadata,        \* (patch_metadata)
          SubMetadata,     \* (patch_metadata) below the directory
          Under,           \* logical names of the names below the directory
          Neutral,         \* the variant of generated members
          Root, Sub,       \* the two prefixes: none, the directory
          None

\* patch_known_internal
Generated == {Listfile, Attributes, Signature, Metadata}

Ordinary == Name \ Generated

ASSUME PatchAssumption ==
    /\ Generated \cup {SubMetadata} \cup DOMAIN Under \subseteq Name
    /\ SubMetadata \notin Generated \cup DOMAIN Under
    /\ \A n \in DOMAIN Under : Under[n] \in Ordinary \cup {Listfile}
    /\ \A m, n \in DOMAIN Under : Under[m] = Under[n] => m = n
    /\ Neutral \in Variant
    /\ Root # Sub /\ None \notin Value \cup {Root, Sub} \cup Slot

Stored(kind, data) == [kind |-> kind, data |-> data]

\* A row of (attributes): a digest stands for the data it was made from.
NoRow == [digest |-> None, time |-> 0, bit |-> 0]

-----------------------------------------------------------------------------
(* Lookups.                                                                *)

\* patch_live_hash
Live(a, s) == IsEntry(a.hash, s) /\ a.hash[s].block \in DOMAIN a.blocks

BlockAt(a, s) == a.blocks[a.hash[s].block]

\* patch_hash_slot scans the table from its first slot for an identity ...
SlotsOf(a, n, x) == {s \in Slot : Live(a, s) /\ a.hash[s].name = n /\ a.hash[s].variant = x}

\* ... patch_internal_slot and patch_hash_present for a name.
NameSlots(a, n) == {s \in Slot : Live(a, s) /\ a.hash[s].name = n}

First(slots) == IF slots = {} THEN None
                ELSE CHOOSE s \in slots : \A r \in slots : s <= r

Present(a, n) == NameSlots(a, n) # {}

\* libmpq__file_number and a read of the member.
ReadNamed(a, n) == a.blocks[Lookup(a.hash, n).block].data

\* libmpq__attributes_load
HasRows(a) == Found(a.hash, Attributes)
Columns(a) == IF HasRows(a) THEN ReadNamed(a, Attributes).columns ELSE {}

\* libmpq__attributes_get; a short table has no row for the last blocks.
RowAt(a, b) ==
    IF HasRows(a) /\ b \in DOMAIN ReadNamed(a, Attributes).rows
    THEN ReadNamed(a, Attributes).rows[b] ELSE NoRow

\* patch_attribute_for_identity
RowOf(a, n, x) ==
    IF SlotsOf(a, n, x) = {} THEN NoRow ELSE RowAt(a, a.hash[First(SlotsOf(a, n, x))].block)

-----------------------------------------------------------------------------
(* The entries of a patch.  A layer is a patch archive and the prefix the  *)
(* caller gives with it, or None.                                          *)

\* patch_entries: the list gives some entries their name.
Listed(p) == IF Found(p.hash, Listfile) THEN ReadNamed(p, Listfile) ELSE {}

\* patch_prepare_entries: the directories of the listed metadata paths.
Discovered(p) ==
    {IF n = Metadata THEN Root ELSE Sub :
        n \in {m \in {Metadata, SubMetadata} \cap Listed(p) : Present(p, m)}}

Prefix(layer) ==
    IF layer.prefix # None THEN layer.prefix
    ELSE IF Discovered(layer.archive) # {} THEN CHOOSE q \in Discovered(layer.archive) : TRUE
    ELSE Root

\* Entries that describe the patch itself.
Internal(layer, s) ==
    LET n == layer.archive.hash[s].name
    IN  \/ n \in Generated
        \/ n = SubMetadata /\ (Prefix(layer) = Sub \/ n \in Listed(layer.archive))

Named(layer, s) == layer.archive.hash[s].name \in Listed(layer.archive)

\* Below a namespace only the names of the namespace take part.
Counts(layer, s) ==
    /\ Live(layer.archive, s) /\ ~Internal(layer, s)
    /\ Prefix(layer) = Sub => layer.archive.hash[s].name \in DOMAIN Under

Logical(layer, s) ==
    LET n == layer.archive.hash[s].name IN IF Prefix(layer) = Sub THEN Under[n] ELSE n

\* The prefixes agree, and below a namespace every entry has its name.
Prepared(layer) ==
    /\ Discovered(layer.archive) \subseteq {Prefix(layer)}
    /\ Prefix(layer) = Sub =>
         \A s \in Slot : Live(layer.archive, s) /\ ~Internal(layer, s) => Named(layer, s)

\* patch_apply_layer refuses an archive that nothing marks as a patch.
Detected(layer) ==
    \/ Found(layer.archive.hash, Metadata)
    \/ Discovered(layer.archive) # {}
    \/ \E s \in Slot : Live(layer.archive, s) /\ BlockAt(layer.archive, s).kind # "file"
=============================================================================
