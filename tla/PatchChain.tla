----------------------------- MODULE PatchChain -----------------------------
(***************************************************************************)
(* A patch is made on one base and read, alone or between other patches,   *)
(* on the same base or on another.  PatchWriter and PatchView are          *)
(* different calls that meet in the files.                                 *)
(***************************************************************************)
EXTENDS PatchWriter, PatchView

CONSTANTS Bases,           \* archives a patch is made for
          Edited,          \* names that patches are made for
          Foreign,         \* layers made by other programs
          MaxLayers        \* bound: layers of one view

vars == <<writerVars, viewVars>>

Init == WriterInit /\ ViewInit

Ours == [archive |-> published, prefix |-> None]

\* Once there is a patch of ours, only the views that use it are new.
Chains ==
    LET available == IF published = None THEN Foreign ELSE Foreign \cup {Ours}
    IN  {ls \in UNION {[1..k -> available] : k \in 1..MaxLayers} :
            published # None => \E i \in DOMAIN ls : ls[i] = Ours}

Write ==
    /\ pc = "closed"
    /\ \/ \E b \in Bases : PatchBegin(b)
       \/ \E n \in Edited, v \in Value : PatchReplace(n, v)
       \/ \E n \in Edited : PatchRemove(n)
       \/ PatchFinish \/ PatchFinishFails \/ PatchAbort
    /\ UNCHANGED viewVars

\* Views are opened between sessions.
Read ==
    /\ session \in {"none", "finished"}
    /\ \/ pc = "closed" /\ \E b \in Bases, ls \in Chains : ViewBegin(b, ls)
       \/ ViewStep
    /\ UNCHANGED writerVars

\* A session that did not finish and a view that was left end a behaviour.
Done == (pc = "gone" \/ session \in {"failed", "aborted"}) /\ UNCHANGED vars

Next == Write \/ Read \/ Done

Spec == Init /\ [][Next]_vars

-----------------------------------------------------------------------------
(* What archives and layers mean.                                          *)

Identities(a) ==
    {[name |-> a.hash[s].name, variant |-> a.hash[s].variant] :
        s \in {r \in Slot : Live(a, r) /\ a.hash[r].name \in Ordinary}}

Contents(a) ==
    [id \in Identities(a) |-> BlockAt(a, First(SlotsOf(a, id.name, id.variant))).data]

LayerIdentity(l, s) == [name |-> Logical(l, s), variant |-> l.archive.hash[s].variant]

LayerChanges(l) ==
    LET taking == {s \in Slot : Counts(l, s) /\ Logical(l, s) \in Ordinary}
    IN  [id \in {LayerIdentity(l, s) : s \in taking} |->
            BlockAt(l.archive, CHOOSE s \in taking : LayerIdentity(l, s) = id)]

Settled == pc \in {"layer", "open"}

Building == pc \in {"layer", "stage", "publish"}

Stack == INSTANCE PatchStack WITH
    state <- IF Building THEN "building" ELSE IF pc = "copy" THEN "closed" ELSE pc,
    contents <- IF Building \/ pc = "open" THEN Contents(lower) ELSE <<>>,
    left <- IF Building \/ pc = "open"
            THEN [i \in 1..(Len(layers) - applied) |-> LayerChanges(layers[applied + i])]
            ELSE <<>>

-----------------------------------------------------------------------------
(* Properties.                                                             *)

\* A view is the base with a prefix of its layers laid over it, the layers
\* become visible one at a time and whole, and a difference is applied only
\* to the content it was made from (patch_apply_layer).
ImplementsPatchStack == Stack!Spec

\* Every member of a view is found by the probe of libmpq__file_number, and
\* by one entry only: markers leave deleted slots behind, new members and
\* (attributes) reuse them (patch_delete_hash, patch_insert_hash).
MembersReachable ==
    Settled => /\ Reachable(lower.hash)
               /\ \A s \in Slot : Live(lower, s) =>
                     Cardinality(SlotsOf(lower, lower.hash[s].name, lower.hash[s].variant)) = 1

\* A digest recorded in a view is that of the member it is found for, after
\* blocks were appended, shared blocks split and rows moved to other blocks
\* (patch_remap_attributes).
DigestsDescribe ==
    Settled => \A s \in Slot :
        Live(lower, s) => RowAt(lower, lower.hash[s].block).digest \in {None, BlockAt(lower, s).data}

\* A layer gives a member the time it brings along and otherwise leaves
\* times alone, and no layer changes a patch bit (patch_stage_hash).
TimesAndBitsInherited ==
    [][pc = "publish" /\ pc' = "layer" =>
         \A id \in Identities(lower) \cap Identities(lower') :
             LET was == RowOf(lower, id.name, id.variant)
                 is == RowOf(lower', id.name, id.variant)
                 theirs == {s \in Slot : Counts(layer, s) /\ LayerIdentity(layer, s) = id}
                 times == IF "time" \in Columns(patch)
                          THEN {RowAt(patch, patch.hash[s].block).time : s \in theirs} ELSE {}
             IN  /\ is.bit = was.bit
                 /\ HasRows(lower) =>
                       is.time \in (IF "time" \notin Columns(lower) THEN {0}
                                    ELSE IF times = {} THEN {was.time} ELSE times)]_vars

\* The list of a view names members that exist, and loses no name of a
\* member that still does (patch_rewrite_listfile).
ListFollowsMembers ==
    Settled /\ Found(lower.hash, Listfile) =>
        /\ \A n \in ReadNamed(lower, Listfile) : Present(lower, n)
        /\ \A n \in Listed(base) : Present(lower, n) => n \in ReadNamed(lower, Listfile)


\* No path out of opening or closing a view forgets a temporary file: what
\* remains is in use or was refused by the removal.
TemporariesAccountedFor ==
    \A f \in File : dir[f] # Absent => f \in {own, candidate} \cup leaked

\* A patch read on the base it was made for gives the base with the accepted
\* edits, whatever variants, list and rows the base has (libmpq__patch_finish,
\* libmpq__patch_view_open).
PatchedBaseIsEdited ==
    LET edit(id) == {i \in DOMAIN accepted : [name |-> accepted[i].name,
                                              variant |-> accepted[i].variant] = id}
        edited == [id \in {i \in Identities(base) : edit(i) = {} \/
                              \A j \in edit(i) : accepted[j].stored.kind = "patch"} |->
                     IF edit(id) = {} THEN Contents(base)[id]
                     ELSE accepted[CHOOSE j \in edit(id) : TRUE].stored.data.after]
    IN  pc = "open" /\ base = source /\ published # None
            /\ layers = <<Ours>>
        => Contents(lower) = edited
=============================================================================
