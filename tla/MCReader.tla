------------------------------ MODULE MCReader ------------------------------
(***************************************************************************)
(* The reader, for TLC: calls on an archive with one member of every kind  *)
(* the reader treats differently, or the life of the sources under it and  *)
(* under its clones.  Every handle has tables and a source of its own, so  *)
(* the two parts share no state and are explored one at a time.            *)
(***************************************************************************)
EXTENDS MemberAccess, ByteSource, TLC

Form(sectored, single, encrypted, flag, damaged, short, guess) ==
    [sectored |-> sectored, single |-> single, encrypted |-> encrypted,
     flagged |-> flag, damaged |-> damaged, short |-> short, guess |-> guess]

MCKind ==
    [plain      |-> Form(TRUE,  FALSE, FALSE, FALSE, FALSE, FALSE, "none"),
     locked     |-> Form(TRUE,  FALSE, TRUE,  TRUE,  FALSE, FALSE, "none"),
     hidden     |-> Form(TRUE,  FALSE, TRUE,  FALSE, FALSE, FALSE, "right"),
     damaged    |-> Form(TRUE,  FALSE, FALSE, FALSE, TRUE,  FALSE, "none"),
     raw        |-> Form(FALSE, FALSE, TRUE,  TRUE,  FALSE, FALSE, "wrong"),
     single     |-> Form(FALSE, TRUE,  TRUE,  TRUE,  FALSE, FALSE, "none"),
     short      |-> Form(FALSE, FALSE, TRUE,  TRUE,  FALSE, TRUE,  "none"),
     attributes |-> Form(TRUE,  FALSE, TRUE,  TRUE,  FALSE, FALSE, "none"),
     signature  |-> Form(FALSE, FALSE, FALSE, FALSE, FALSE, FALSE, "none")]

MCMembers == DOMAIN MCKind

MCFileSizes == <<7, 4, 7>>

InodeSymmetry == Permutations(Inodes)

ReaderInit == Init /\ SourceInit

ReaderNext ==
    \/ /\ published = 1 /\ \A h \in Handles : opened[h] = Closed
       /\ Next
       /\ UNCHANGED fvars
    \/ /\ stack = <<>> /\ flagged = [m \in Members |-> Kind[m].flagged]
       /\ attributes = "unread"
       /\ SourceNext
       /\ UNCHANGED vars

ReaderSpec == ReaderInit /\ [][ReaderNext]_<<vars, fvars>>
=============================================================================
