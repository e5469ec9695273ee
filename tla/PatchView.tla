----------------------------- MODULE PatchView -----------------------------
(***************************************************************************)
(* A patched view (mpq-patch-reader.c): libmpq__patch_view_open_sources    *)
(* copies the base to a temporary file and patch_apply_layer rewrites it   *)
(* once per layer.  A layer is applied to a second temporary, the          *)
(* candidate: members are appended and the tables of `target' changed      *)
(* entry by entry, while the members below are read from `lower', the      *)
(* file of the view so far.  Then the candidate takes the place of that    *)
(* file.  Every call may fail; the files of a failed call are removed,     *)
(* and the removal may fail too.                                           *)
(***************************************************************************)
EXTENDS PatchArchive

CONSTANTS File,            \* temporary files
          MaxLeaks,        \* bound: removals that fail
          Absent, Partial  \* no such file, a file still being written

VARIABLES pc,
          base,            \* the archive the view was opened on
          layers,          \* the patches to apply, in this order
          applied,         \* how many have been applied
          slot,            \* patch_apply_layer: next entry of the patch
          own, candidate,  \* the file of the view, the file of the layer
          target,          \* the tables of the layer
          changed,         \* rows of the entries staged, changed_rows
          mutated,
          dir,             \* the directory of the temporaries
          leaked           \* the files whose removal failed

viewVars == <<pc, base, layers, applied, slot, own, candidate, target, changed, mutated, dir,
              leaked>>

ViewInit ==
    /\ pc = "closed" /\ base = None /\ layers = <<>> /\ applied = 0 /\ slot = 0
    /\ own = None /\ candidate = None /\ target = None
    /\ changed = [s \in Slot |-> None] /\ mutated = FALSE
    /\ dir = [f \in File |-> Absent] /\ leaked = {}

\* libmpq__directory_temporary_reopenable takes an unused name.
Fresh == CHOOSE f \in File : dir[f] = Absent

\* libmpq__directory_remove may fail, and the file stays.
Removed(files, kept) ==
    /\ Cardinality(leaked \cup kept) <= MaxLeaks
    /\ dir' = [f \in File |-> IF f \in files \ kept THEN Absent ELSE dir[f]]
    /\ leaked' = leaked \cup kept

-----------------------------------------------------------------------------
(* Opening and closing.                                                    *)

ViewBegin(b, ls) ==
    /\ pc = "closed" /\ ls # <<>>
    /\ pc' = "copy" /\ base' = b /\ layers' = ls
    /\ own' = Fresh /\ dir' = [dir EXCEPT ![Fresh] = Partial]
    /\ UNCHANGED <<applied, slot, candidate, target, changed, mutated, leaked>>

\* The copy keeps what surrounds the archive, signatures included.
CopyBase ==
    /\ pc = "copy"
    /\ pc' = "layer" /\ dir' = [dir EXCEPT ![own] = base]
    /\ UNCHANGED <<base, layers, applied, slot, own, candidate, target, changed, mutated, leaked>>

ViewOpen ==
    /\ pc = "layer" /\ applied = Len(layers)
    /\ pc' = "open"
    /\ UNCHANGED <<base, layers, applied, slot, own, candidate, target, changed, mutated, dir,
                   leaked>>

\* The cleanup of patch_apply_layer, then libmpq__patch_view_close.
Leave ==
    /\ \E kept \in SUBSET ({own, candidate} \ {None}) :
          Removed({own, candidate} \ {None}, kept)
    /\ pc' = "gone" /\ layers' = <<>> /\ applied' = 0 /\ slot' = 0
    /\ own' = None /\ candidate' = None /\ target' = None
    /\ changed' = [s \in Slot |-> None] /\ mutated' = FALSE
    /\ UNCHANGED base

\* A file cannot be read, written or closed, or what was read is refused.
ViewFail == pc \in {"copy", "layer", "stage", "publish"} /\ Leave

ViewClose == pc = "open" /\ Leave

-----------------------------------------------------------------------------
(* Applying a layer.                                                       *)

lower == dir[own]
layer == layers[applied + 1]
patch == layer.archive

BeginLayer ==
    /\ pc = "layer" /\ applied < Len(layers)
    /\ Prepared(layer) /\ Detected(layer)
    /\ pc' = "stage" /\ slot' = 0 /\ mutated' = FALSE
    /\ changed' = [s \in Slot |-> None]
    /\ target' = lower
    /\ candidate' = Fresh /\ dir' = [dir EXCEPT ![Fresh] = Partial]
    /\ UNCHANGED <<base, layers, applied, own, leaked>>

\* has_attributes and attribute_flags: the rows of the view so far, and the
\* patch bits of the patch.
KeepsRows == HasRows(lower) \/ "bit" \in Columns(patch)
RowColumns == Columns(lower) \cup (Columns(patch) \cap {"bit"})

name == Logical(layer, slot)
variant == patch.hash[slot].variant
block == BlockAt(patch, slot)

\* patch_read_incremental: what the difference is from and what it gives.
Incremental == block.data

Below == SlotsOf(lower, name, variant)

\* Mutant: the patch bit of the patch's own entry.
ChangedRowTheirBit(data) ==
    LET mine == RowOf(lower, name, variant)
        theirs == RowOf(patch, patch.hash[slot].name, variant)
    IN  [digest |-> data,
         time |-> IF "time" \in Columns(patch) THEN theirs.time ELSE mine.time,
         bit |-> theirs.bit]

\* The row of a changed member: its new digest, the time the patch gives or
\* else the time it had, and the patch bit it had.
ChangedRow(data) ==
    LET theirs == SlotsOf(patch, patch.hash[slot].name, variant)
        timed == /\ "time" \in Columns(patch)
                 /\ patch.hash[First(theirs)].block \in DOMAIN ReadNamed(patch, Attributes).rows
        mine == RowOf(lower, name, variant)
    IN  [digest |-> data,
         time |-> IF timed THEN RowOf(patch, patch.hash[slot].name, variant).time ELSE mine.time,
         bit |-> mine.bit]

Advance == pc = "stage" /\ slot \in Slot /\ slot' = slot + 1

Staged(hash, data) ==
    /\ target' = [target EXCEPT !.hash = hash, !.blocks = Append(@, Stored("file", data))]
    /\ changed' = [changed EXCEPT ![slot] = IF KeepsRows THEN ChangedRow(data) ELSE None]
    /\ mutated' = TRUE
    /\ UNCHANGED <<pc, base, layers, applied, own, candidate, dir, leaked>>

\* Entries of other namespaces, entries about the patch itself, and markers
\* for members that do not exist.
StagePass ==
    /\ Advance
    /\ Counts(layer, slot) => block.kind = "delete" /\ SlotsOf(target, name, variant) = {}
    /\ UNCHANGED <<pc, base, layers, applied, own, candidate, target, changed, mutated, dir,
                   leaked>>

\* Mutant: a deleted entry becomes a free slot.
StageDeleteToFree ==
    /\ Advance
    /\ Counts(layer, slot) /\ block.kind = "delete" /\ SlotsOf(target, name, variant) # {}
    /\ target' = IF Below = {} THEN target ELSE [target EXCEPT !.hash[First(Below)] = Free]
    /\ mutated' = TRUE
    /\ UNCHANGED <<pc, base, layers, applied, own, candidate, changed, dir, leaked>>

\* patch_delete_hash
StageDelete ==
    /\ Advance
    /\ Counts(layer, slot) /\ block.kind = "delete" /\ SlotsOf(target, name, variant) # {}
    /\ target' = IF Below = {} THEN target ELSE [target EXCEPT !.hash[First(Below)] = Deleted]
    /\ mutated' = TRUE
    /\ UNCHANGED <<pc, base, layers, applied, own, candidate, changed, dir, leaked>>

Repointed(hash, s, b) == [hash EXCEPT ![s].block = b]

\* A member that exists gets the whole file of the patch ...
StageWhole ==
    /\ Advance
    /\ Counts(layer, slot) /\ block.kind = "file" /\ Below # {}
    /\ Staged(Repointed(target.hash, First(Below), Len(target.blocks) + 1), block.data)

\* Mutant: the content below is not compared.
StageDifferenceUnchecked ==
    /\ Advance
    /\ Counts(layer, slot) /\ block.kind = "patch" /\ Below # {}
    /\ Staged(Repointed(target.hash, First(Below), Len(target.blocks) + 1), Incremental.after)

\* ... or its own data with the difference applied, which names its source.
StageDifference ==
    /\ Advance
    /\ Counts(layer, slot) /\ block.kind = "patch" /\ Below # {}
    /\ BlockAt(lower, First(Below)).data = Incremental.before
    /\ Staged(Repointed(target.hash, First(Below), Len(target.blocks) + 1), Incremental.after)

\* patch_insert_hash: a new member is found by its name, so it must have one.
StageInsert ==
    /\ Advance
    /\ Counts(layer, slot) /\ block.kind = "file" /\ Below = {} /\ Named(layer, slot)
    /\ \E i \in Slot :
          /\ VacantAt(target.hash, name, i)
          /\ Staged([target.hash EXCEPT ![Probe(name, i)] =
                        [name |-> name, variant |-> variant, block |-> Len(target.blocks) + 1]],
                    block.data)

-----------------------------------------------------------------------------
(* Finishing a layer.                                                      *)


\* The signature and the metadata of the archive below do not survive.
Unsigned(a) ==
    [a EXCEPT !.strong = FALSE,
              !.hash = [s \in Slot |-> IF Live(a, s) /\ a.hash[s].name \in {Signature, Metadata}
                                       THEN Deleted ELSE a.hash[s]]]

\* The names that patch_rewrite_listfile takes from the patch.
NewNames(a) ==
    {Logical(layer, s) : s \in {r \in Slot : Counts(layer, r) /\ Named(layer, r)
                                               /\ Logical(layer, r) \notin Generated
                                               /\ Present(a, Logical(layer, r))}}

\* Mutant: names of deleted members stay.
RewrittenKeepingAll(a) ==
    {n \in ReadNamed(lower, Listfile) : n \notin {Signature, Metadata}}
        \cup NewNames(a)
        \cup (IF KeepsRows /\ ~Present(a, Attributes) THEN {Attributes} ELSE {})

Rewritten(a) ==
    {n \in ReadNamed(lower, Listfile) : n \notin {Signature, Metadata} /\ Present(a, n)}
        \cup NewNames(a)
        \cup (IF KeepsRows /\ ~Present(a, Attributes) THEN {Attributes} ELSE {})

Relisted(a) ==
    IF ~Present(a, Listfile) THEN a
    ELSE [a EXCEPT !.hash = Repointed(@, First(NameSlots(a, Listfile)), Len(a.blocks) + 1),
                   !.blocks = Append(@, Stored("file", Rewritten(a)))]

\* libmpq__attributes_serialize_patch_bits writes the columns there are.
Written(row) ==
    [digest |-> IF "digest" \in RowColumns THEN row.digest ELSE None,
     time |-> IF "time" \in RowColumns THEN row.time ELSE 0,
     bit |-> IF "bit" \in RowColumns THEN row.bit ELSE 0]

\* patch_remap_attributes: the last entry of the patch for this identity.
Changes(n, x) ==
    {s \in Slot : /\ changed[s] # None
                  /\ Logical(layer, s) = n /\ patch.hash[s].variant = x}

Last(slots) == CHOOSE s \in slots : \A r \in slots : r <= s

\* Mutant: changed members keep the rows from below.
RemappedRowFromBelow(a, s) ==
    LET n == a.hash[s].name
    IN  IF n = Listfile THEN [NoRow EXCEPT !.digest = BlockAt(a, First(NameSlots(a, n))).data]
        ELSE RowOf(lower, n, a.hash[s].variant)

RemappedRow(a, s) ==
    LET n == a.hash[s].name
        x == a.hash[s].variant
    IN  IF n = Listfile THEN [NoRow EXCEPT !.digest = BlockAt(a, First(NameSlots(a, n))).data]
        ELSE IF Changes(n, x) # {} THEN changed[Last(Changes(n, x))]
        ELSE RowOf(lower, n, x)

Described(a) == {s \in Slot : Live(a, s) /\ a.hash[s].name # Attributes}

\* Members that share a block must agree on its row.
RowsAgree(a) ==
    \A r, s \in Described(a) :
        a.hash[r].block = a.hash[s].block => RemappedRow(a, r) = RemappedRow(a, s)

\* The row of (attributes) itself, the last block, is zero.
Remapped(a) ==
    [b \in 1..(Len(a.blocks) + 1) |->
        LET users == {s \in Described(a) : a.hash[s].block = b}
        IN  IF users = {} THEN NoRow ELSE Written(RemappedRow(a, First(users)))]

\* patch_rewrite_attributes repoints the entry or makes one.
RowSlots(a) ==
    IF Present(a, Attributes) THEN {First(NameSlots(a, Attributes))}
    ELSE {Probe(Attributes, i) : i \in {j \in Slot : VacantAt(a.hash, Attributes, j)}}

Attributed(a, s) ==
    [a EXCEPT !.hash[s] = [name |-> Attributes,
                           variant |-> IF IsEntry(a.hash, s) THEN a.hash[s].variant ELSE Neutral,
                           block |-> Len(a.blocks) + 1],
              !.blocks = Append(@, Stored("file", [columns |-> RowColumns, rows |-> Remapped(a)]))]

\* patch_write_tables: with its tables the candidate is an archive.
WriteTables == dir' = [dir EXCEPT ![candidate] = target']

\* A rewritten list replaces one that can be read.
FinishLayer ==
    LET a == Relisted(Unsigned(target))
    IN  /\ pc = "stage" /\ slot = Slots /\ mutated
        /\ Present(Unsigned(target), Listfile) => Found(lower.hash, Listfile)
        /\ \/ ~KeepsRows /\ target' = a
           \/ KeepsRows /\ RowsAgree(a) /\ \E s \in RowSlots(a) : target' = Attributed(a, s)
        /\ pc' = "publish"
        /\ WriteTables
        /\ UNCHANGED <<base, layers, applied, slot, own, candidate, changed, mutated, leaked>>

\* Mutant: the candidate of a layer that changed nothing stays behind.
DropLayerKeeping ==
    /\ pc = "stage" /\ slot = Slots /\ ~mutated
    /\ pc' = "layer" /\ applied' = applied + 1
    /\ candidate' = None /\ target' = None
    /\ UNCHANGED <<base, layers, slot, own, changed, mutated, dir, leaked>>

\* A layer that changed nothing leaves the view as it is, signature included.
DropLayer ==
    /\ pc = "stage" /\ slot = Slots /\ ~mutated
    /\ pc' = "layer" /\ applied' = applied + 1
    /\ candidate' = None /\ target' = None
    /\ \E kept \in SUBSET {candidate} : Removed({candidate}, kept)
    /\ UNCHANGED <<base, layers, slot, own, changed, mutated>>

\* The file below is removed first; when that fails, so does the call.
Publish ==
    /\ pc = "publish"
    /\ pc' = "layer" /\ applied' = applied + 1
    /\ Removed({own}, {})
    /\ own' = candidate /\ candidate' = None /\ target' = None
    /\ UNCHANGED <<base, layers, slot, changed, mutated>>

ViewStep ==
    \/ CopyBase \/ ViewOpen \/ ViewFail \/ ViewClose
    \/ BeginLayer \/ StagePass \/ StageDelete \/ StageWhole \/ StageDifference \/ StageInsert
    \/ FinishLayer \/ DropLayer \/ Publish
=============================================================================
