---------------------------- MODULE MCPatchChain ----------------------------
(***************************************************************************)
(* Archives and layers for PatchChain: tables of six slots in which probes *)
(* collide and wrap, a full base, a base with shared blocks, variants and  *)
(* a deleted slot, and a base with a list but no rows.                     *)
(***************************************************************************)
EXTENDS PatchChain

CONSTANTS v1, v2, x1, x2

MCName == {"a", "b", "c", "sub\\a", "sub\\(patch_metadata)", "(listfile)", "(attributes)",
           "(signature)", "(patch_metadata)"}

MCStart ==
    [n \in MCName |-> CASE n \in {"a", "b"} -> 0
                        [] n \in {"c", "sub\\a"} -> 1
                        [] n \in {"(signature)", "(patch_metadata)"} -> 4
                        [] OTHER -> 5]

MCSubMetadata == "sub\\(patch_metadata)"

MCUnder == [n \in {"sub\\a"} |-> "a"]

Put(a, n, var, stored) ==
    LET i == CHOOSE j \in Slot : FreeAt(a.hash, n, j) IN Enter(a, n, var, i, stored)

Whole(v) == Stored("file", v)
From(u, v) == Stored("patch", [before |-> u, after |-> v])
Gone == Stored("delete", None)

Row(digest, time, bit) == [digest |-> digest, time |-> time, bit |-> bit]
Rows(columns, rs) == Stored("file", [columns |-> columns, rows |-> rs])

\* Archives from sequences of a name, a variant and a block.
Made(entries) ==
    LET after[i \in 0..Len(entries)] ==
            IF i = 0 THEN EmptyArchive
            ELSE Put(after[i - 1], entries[i][1], entries[i][2], entries[i][3])
    IN  after[Len(entries)]

FullList == {"a", "b", "(attributes)", "(signature)"}

Full ==
    [Made(<< <<"a", x1, Whole(v1)>>, <<"b", x1, Whole(v2)>>, <<"(signature)", x1, Whole(v1)>>,
             <<"(listfile)", x1, Whole(FullList)>>, <<"(patch_metadata)", x1, Whole(v1)>>,
             <<"(attributes)", x1,
               Rows({"digest", "time", "bit"},
                    <<Row(v1, 1, 0), Row(v2, 2, 1), Row(v1, 0, 0), Row(FullList, 0, 0),
                      Row(v1, 0, 0), NoRow>>)>> >>)
     EXCEPT !.strong = TRUE]

\* The entry of b shares the block of a.
Shared ==
    LET three == Made(<< <<"a", x1, Whole(v1)>>, <<"b", x1, Gone>>, <<"a", x2, Whole(v2)>> >>)
        rowed == Put(three, "(attributes)", x1,
                     Rows({"digest", "time"}, <<Row(v1, 1, 0), NoRow, Row(v2, 2, 0)>>))
    IN  [rowed EXCEPT !.hash = [s \in Slot |-> IF IsEntry(rowed.hash, s) /\ rowed.hash[s].name = "b"
                                               THEN [rowed.hash[s] EXCEPT !.block = 1]
                                               ELSE rowed.hash[s]]]

Plain ==
    LET listed == Made(<< <<"c", x1, Whole(v1)>>, <<"a", x1, Whole(v1)>>, <<"b", x2, Whole(v1)>>,
                          <<"(listfile)", x1, Whole({"a", "b"})>> >>)
    IN  [listed EXCEPT !.hash = [s \in Slot |-> IF IsEntry(listed.hash, s) /\ listed.hash[s].name = "c"
                                                THEN Deleted ELSE listed.hash[s]]]

MCBases == {Full, Shared, Plain}

Layer(entries, prefix) == [archive |-> Made(entries), prefix |-> prefix]

List(names) == <<"(listfile)", x1, Whole(names)>>
Mark == <<"(patch_metadata)", x1, Whole(v1)>>
SubMark == <<"sub\\(patch_metadata)", x1, Whole(v1)>>

MCForeign ==
    {\* A new member and a changed one.
     Layer(<< <<"c", x1, Whole(v1)>>, <<"a", x1, Whole(v2)>>, Mark, List({"a", "c"}) >>, None),
     \* A marker, then a new member in its place, with times and bits.
     Layer(<< <<"b", x1, Gone>>, <<"c", x1, Whole(v2)>>, List({"c"}),
              <<"(attributes)", x1, Rows({"time", "bit"},
                                        <<NoRow, Row(None, 9, 1), NoRow, NoRow>>)>> >>, None),
     \* A difference without a name, and times.
     Layer(<< <<"a", x1, From(v1, v2)>>,
              <<"(attributes)", x1, Rows({"time"}, <<Row(None, 9, 0)>>)>> >>, None),
     \* A namespace, with a member outside of it.
     Layer(<< <<"sub\\a", x1, Whole(v2)>>, <<"b", x1, Gone>>, SubMark,
              List({"sub\\a", "b", "sub\\(patch_metadata)"}) >>, None),
     \* The namespace the metadata names is not the one the caller names.
     Layer(<< <<"sub\\a", x1, Whole(v2)>>, SubMark,
              List({"sub\\a", "sub\\(patch_metadata)"}) >>, Root),
     \* A new member without a name.
     Layer(<< <<"c", x1, Whole(v1)>>, Mark >>, Root),
     \* A marker for a member that may not exist.
     Layer(<< <<"c", x1, Gone>> >>, None)}
=============================================================================
