---------------------------- MODULE PatchWriter ----------------------------
(***************************************************************************)
(* The session that makes a patch archive (mpq-patch-writer.c): begin on a *)
(* base, stage differences and delete markers, then finish, which          *)
(* finalizes the archive and renames it over the destination, or abort.    *)
(* The difference itself is the subject of PatchDelta: here a patch block  *)
(* holds what the member was and what it becomes.                          *)
(***************************************************************************)
EXTENDS PatchArchive

CONSTANTS Capacity         \* LIBMPQ_PATCH_WRITER_CAPACITY, entries of the block table

VARIABLES session,         \* "none", "open", "finished", "failed" or "aborted"
          source,          \* the base the session was begun on
          made,            \* the archive being written
          written,         \* names of its blocks, write_names
          rows,            \* rows of its blocks, write_attributes
          staged,          \* the temporary: "absent", "present" or "leaked"
          published,       \* what the destination holds
          accepted         \* history: the edits that reported success

writerVars == <<session, source, made, written, rows, staged, published, accepted>>

EmptyArchive == [hash |-> [s \in Slot |-> Free], blocks |-> <<>>, strong |-> FALSE]

WriterInit ==
    /\ session = "none" /\ source = None /\ made = EmptyArchive /\ written = <<>> /\ rows = <<>>
    /\ staged = "absent" /\ published = None /\ accepted = <<>>

\* patch_writer_check_destination: the destination is not the base.
PatchBegin(b) ==
    /\ session = "none"
    /\ session' = "open" /\ source' = b /\ staged' = "present"
    /\ UNCHANGED <<made, written, rows, published, accepted>>

-----------------------------------------------------------------------------
(* Staging.                                                                *)

\* patch_writer_member: the name leads to a block, and no second entry of
\* the name shares it.
Resolves(n) ==
    /\ Found(source.hash, n)
    /\ Cardinality({s \in NameSlots(source, n) :
                        source.hash[s].block = Lookup(source.hash, n).block}) = 1

\* Mutant: entries of a patch have no locale and platform.
VariantOfNeutral(n) == Neutral

VariantOf(n) == Lookup(source.hash, n).variant

\* writer_file_begin: the identity is not entered yet.
Entered(a, n, x) ==
    \E i \in Slot : /\ Reaches(a.hash, n, i) /\ Holds(a.hash, n, i)
                    /\ a.hash[Probe(n, i)].variant = x

\* writer_file_begin keeps two blocks for the generated members.
Accepts(n, x) ==
    /\ Len(made.blocks) < Capacity - 2
    /\ n # Attributes
    /\ ~Entered(made, n, x)

Enter(a, n, x, i, stored) ==
    [a EXCEPT !.hash[Probe(n, i)] = [name |-> n, variant |-> x, block |-> Len(a.blocks) + 1],
              !.blocks = Append(@, stored)]

\* The row holds the digest of the result, not of the stored difference.
Stage(n, stored, digest) ==
    LET x == VariantOf(n)
    IN  /\ Accepts(n, x)
        /\ \E i \in Slot : FreeAt(made.hash, n, i) /\ made' = Enter(made, n, x, i, stored)
        /\ written' = Append(written, n)
        /\ rows' = Append(rows, [NoRow EXCEPT !.digest = digest])
        /\ accepted' = Append(accepted, [name |-> n, stored |-> stored,
                                              variant |-> Lookup(source.hash, n).variant])
        /\ UNCHANGED <<session, source, staged, published>>

PatchReplace(n, v) ==
    /\ session = "open" /\ Resolves(n)
    /\ Stage(n, Stored("patch", [before |-> ReadNamed(source, n), after |-> v]), v)

PatchRemove(n) ==
    /\ session = "open" /\ Resolves(n)
    /\ Stage(n, Stored("delete", None), None)

-----------------------------------------------------------------------------
(* Leaving the session.                                                    *)

\* finalize_archive: the list and the rows, which mark the differences.
PatchColumns == {"digest", "bit"}

ListOf == {written[i] : i \in DOMAIN written} \cup {Attributes}

RowsOf(a) ==
    [b \in 1..Capacity |->
        IF b \in DOMAIN rows
        THEN [rows[b] EXCEPT !.bit = IF a.blocks[b].kind = "patch" THEN 1 ELSE 0]
        ELSE IF b = Len(rows) + 1 THEN [NoRow EXCEPT !.digest = ListOf] ELSE NoRow]

Listing(i) == Enter(made, Listfile, Neutral, i, Stored("file", ListOf))

WithRows(a, i) ==
    Enter(a, Attributes, Neutral, i,
          Stored("file", [columns |-> PatchColumns, rows |-> RowsOf(a)]))

\* patch_writer_cleanup: finalized, closed and renamed over the destination.
PatchFinish ==
    /\ session = "open"
    /\ ~Entered(made, Listfile, Neutral)
    /\ \E i, j \in Slot : /\ FreeAt(made.hash, Listfile, i)
                          /\ FreeAt(Listing(i).hash, Attributes, j)
                          /\ published' = WithRows(Listing(i), j)
    /\ session' = "finished" /\ staged' = "absent"
    /\ UNCHANGED <<source, made, written, rows, accepted>>

\* The close or the rename fails, or the caller gives up: the temporary is
\* removed, if that works.
PatchLeave(how) ==
    /\ session = "open"
    /\ session' = how
    /\ staged' \in {"absent", "leaked"}
    /\ UNCHANGED <<source, made, written, rows, published, accepted>>

PatchFinishFails == PatchLeave("failed")

PatchAbort == PatchLeave("aborted")
=============================================================================
