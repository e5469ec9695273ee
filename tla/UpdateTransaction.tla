------------------------- MODULE UpdateTransaction -------------------------
(***************************************************************************)
(* Update transactions (mpq-update.c, the update calls of mpq-api.c and    *)
(* the directory primitives of mpq-file.c), run by concurrent processes    *)
(* over one destination path that other programs may replace or remove.    *)
(*                                                                         *)
(* The directory is dest, the inode the destination name is bound to, and  *)
(* temps, the inodes bound to temporary names.  A temporary has one        *)
(* unpredictable name, created with O_EXCL and never looked up by anybody  *)
(* else, so the inode stands for the name.  data is what each inode        *)
(* stores: Partial until a complete archive has been written to it.        *)
(* Programs replace the destination file, they do not rewrite it in place. *)
(*                                                                         *)
(* One action is a stretch of one call that shares no file with anybody,   *)
(* ended by the next operation others can observe: opening the             *)
(* destination, creating or removing a temporary, the identity check, the  *)
(* rename.  Any of these may fail, and a process may die between any two.  *)
(***************************************************************************)
EXTENDS ArchiveEdits, FiniteSets, Integers

CONSTANTS Handle,          \* update handles, each in a process of its own
          Inode,           \* inode numbers of the file system
          None, Partial,
          Deployed,        \* transports found at the destination path
          MaxEncodes,      \* bound: members one edit packs again, 3 in the code
          MaxLeaks,        \* bound: temporaries left behind in a behaviour
          OthersWrite,     \* other programs replace or remove the destination
          InodesRecycled   \* an inode number that a live handle has recorded
                           \* may be given to a new file once it is free

ASSUME UpdateAssumption ==
    /\ None \notin Inode /\ None \notin Handle
    /\ None \notin Body /\ None \notin Container
    /\ Partial \notin Container /\ Deployed \subseteq Form
    /\ OthersWrite \in BOOLEAN /\ InodesRecycled \in BOOLEAN
    /\ MaxEncodes \in Nat /\ MaxLeaks \in Nat

VARIABLES dest, data, temps,
          pc,              \* per handle: where its current call is
          txn,             \* per handle: struct mpq_update and call locals
          outcome,         \* per handle: how its last transaction ended
          leaked           \* history: temporaries left behind by a failed
                           \* removal or a dead process

fs == <<dest, data, temps>>
vars == <<dest, data, temps, pc, txn, outcome, leaked>>

\* base is the recorded identity.  source is the container the handle's input
\* file reads, reading whether that file is still open; source is kept
\* afterwards as history.  body is what the working copy holds, None until the
\* handle has taken its bytes from the destination.  sibling is the file built
\* beside the working copy: the rebuild of an edit, the encrypted file of an
\* MPQE commit.  packed is the one-member archive of update_encode.  moved is
\* history: the destination was rebound after base was recorded and before the
\* identity check.
Txn == [mpqe : BOOLEAN, base : Inode \cup {None},
        source : Container \cup {None}, reading : BOOLEAN,
        working : Inode \cup {None}, sibling : Inode \cup {None},
        packed : Inode \cup {None}, body : Body \cup {None},
        pending : Body \cup {None}, encodes : 0..MaxEncodes, dirty : BOOLEAN,
        succeeded : BOOLEAN, moved : BOOLEAN]

NoTxn == [mpqe |-> FALSE, base |-> None, source |-> None, reading |-> FALSE,
          working |-> None, sibling |-> None, packed |-> None, body |-> None,
          pending |-> None, encodes |-> 0, dirty |-> FALSE,
          succeeded |-> FALSE, moved |-> FALSE]

PC == {"idle", "begin", "copy", "decode", "open", "rebuild", "encode",
       "encrypt", "transform", "unlink", "identity", "publish", "discard",
       "crashed"}

Settled == {"idle", "crashed"}

\* The temporaries a handle would remove.
Owned(h) == {txn[h].working, txn[h].sibling, txn[h].packed} \ {None}

\* An inode is free when no name is bound to it and nobody holds it open.
Free ==
    {i \in Inode :
        /\ i \notin temps /\ i # dest
        /\ \A h \in Handle : txn[h].base = i =>
                              InodesRecycled /\ ~txn[h].reading}

\* What other programs put at the destination path.
Given == {c \in Container : c.form \in Deployed}

Init ==
    /\ dest \in Inode
    /\ data \in {[i \in Inode |-> IF i = dest THEN c ELSE Partial] : c \in Given}
    /\ temps = {}
    /\ pc = [h \in Handle |-> "idle"]
    /\ txn = [h \in Handle |-> NoTxn]
    /\ outcome = [h \in Handle |-> "idle"]
    /\ leaked = {}

-----------------------------------------------------------------------------
(* Steps shared by the calls.                                              *)

Goto(h, label) == pc' = [pc EXCEPT ![h] = label]

\* Mutant: temporaries are opened without O_EXCL.
CreateTemporaryShared(i) ==
    /\ i \in Free \cup temps
    /\ temps' = temps \cup {i}
    /\ data' = [data EXCEPT ![i] = Partial]

\* libmpq__directory_temporary: an empty file under a fresh name.
CreateTemporary(i) ==
    /\ i \in Free
    /\ temps' = temps \cup {i}
    /\ data' = [data EXCEPT ![i] = Partial]

\* Files that no handle will remove any more.
Leak(files) ==
    /\ Cardinality(leaked \cup files) <= MaxLeaks
    /\ leaked' = leaked \cup files

\* libmpq__directory_remove of a set of temporaries; those in left stay.
Remove(files, left) ==
    /\ left \subseteq files
    /\ temps' = temps \ (files \ left)
    /\ data' = [i \in Inode |-> IF i \in files \ left THEN Partial ELSE data[i]]
    /\ Leak(left)

\* A failing step of begin or commit goes on to the cleanup.
GiveUp(h) ==
    /\ Goto(h, "discard")
    /\ UNCHANGED <<fs, txn, outcome, leaked>>

\* The destination name is rebound to inode i, or to nothing.
Rebind(i, self) ==
    /\ dest' = i
    /\ txn' = [h \in Handle |->
                 IF h = self THEN NoTxn
                 ELSE [txn[h] EXCEPT !.moved =
                          @ \/ pc[h] \notin Settled \cup {"publish"}]]

-----------------------------------------------------------------------------
(* libmpq__update_begin and libmpq__update_begin_mpqe.                     *)

\* Validate and open the destination, record its identity.
Begin(h, mpqe) ==
    /\ pc[h] = "idle"
    /\ dest # None
    /\ txn' = [txn EXCEPT ![h] = [NoTxn EXCEPT
                  !.mpqe = mpqe, !.base = dest, !.source = data[dest],
                  !.reading = TRUE,
                  !.body = IF mpqe THEN None ELSE data[dest].body]]
    /\ Goto(h, "begin")
    /\ UNCHANGED <<fs, outcome, leaked>>

BeginRefused(h) ==
    /\ pc[h] = "idle"
    /\ outcome' = [outcome EXCEPT ![h] = "discarded"]
    /\ UNCHANGED <<fs, pc, txn, leaked>>

BeginTemporary(h) ==
    /\ pc[h] = "begin"
    /\ \E i \in Inode :
         /\ CreateTemporary(i)
         /\ txn' = [txn EXCEPT ![h] = [@ EXCEPT !.working = i]]
    /\ Goto(h, "copy")
    /\ UNCHANGED <<dest, outcome, leaked>>

\* An ordinary begin copies its input and checks that the copy opens as an
\* MPQ; for MPQE this stretch only closes the input.
BeginCopy(h) ==
    /\ pc[h] = "copy"
    /\ txn' = [txn EXCEPT ![h] = [@ EXCEPT !.reading = FALSE]]
    /\ \/ /\ txn[h].mpqe
          /\ Goto(h, "decode")
          /\ UNCHANGED data
       \/ /\ ~txn[h].mpqe
          /\ txn[h].source.form = "mpq"
          /\ data' = [data EXCEPT ![txn[h].working] = txn[h].source]
          /\ Goto(h, "open")
    /\ UNCHANGED <<dest, temps, outcome, leaked>>

\* An MPQE begin opens the path a second time, insists on the identity it
\* recorded and decodes that file into the working copy.
BeginDecode(h) ==
    /\ pc[h] = "decode"
    /\ dest # None
    /\ dest = txn[h].base
    /\ data[dest].form = "mpqe"
    /\ data' = [data EXCEPT ![txn[h].working] =
                    [form |-> "mpq", body |-> data[dest].body]]
    /\ txn' = [txn EXCEPT ![h] = [@ EXCEPT !.source = data[dest], !.body = data[dest].body]]
    /\ Goto(h, "open")
    /\ UNCHANGED <<dest, temps, outcome, leaked>>

BeginFails(h) ==
    /\ pc[h] \in {"begin", "copy", "decode"}
    /\ Goto(h, "discard")
    /\ txn' = [txn EXCEPT ![h] = [@ EXCEPT !.reading = FALSE]]
    /\ UNCHANGED <<fs, outcome, leaked>>

-----------------------------------------------------------------------------
(* update_apply: replace, remove and rename.  An edit that is rejected, or *)
(* that fails before it creates a file, changes nothing.                   *)

\* A replaced member is packed again, a renamed one only when it is
\* encrypted; so are (listfile) and (attributes) where the archive has them.
Encodes(b, new) ==
    {n \in 0..MaxEncodes :
        \/ new \in Replaced(b) /\ n >= 1
        \/ new \in Removed(b) /\ n <= 2
        \/ new \in Renamed(b)}

EditBegin(h) ==
    /\ pc[h] = "open"
    /\ \E i \in Inode, new \in Edited(txn[h].body) : \E n \in Encodes(txn[h].body, new) :
         /\ CreateTemporary(i)
         /\ txn' = [txn EXCEPT ![h] = [@ EXCEPT !.sibling = i, !.pending = new, !.encodes = n]]
    /\ Goto(h, "rebuild")
    /\ UNCHANGED <<dest, outcome, leaked>>

\* update_encode packs one member into a temporary archive of its own ...
EncodeBegin(h) ==
    /\ pc[h] = "rebuild"
    /\ txn[h].encodes > 0
    /\ \E i \in Inode :
         /\ CreateTemporary(i)
         /\ txn' = [txn EXCEPT ![h] = [@ EXCEPT !.packed = i]]
    /\ Goto(h, "encode")
    /\ UNCHANGED <<dest, outcome, leaked>>

\* ... copies the packed bytes and removes that archive, ignoring a failure.
EncodeEnd(h) ==
    /\ pc[h] = "encode"
    /\ \E left \in SUBSET {txn[h].packed} : Remove({txn[h].packed}, left)
    /\ txn' = [txn EXCEPT ![h] = [@ EXCEPT !.packed = None, !.encodes = txn[h].encodes - 1]]
    /\ Goto(h, "rebuild")
    /\ UNCHANGED <<dest, outcome>>

\* Mutant: the previous working copy is never removed.
EditAdoptKeepsOld(h) ==
    /\ pc[h] = "rebuild"
    /\ txn[h].encodes = 0
    /\ data' = [data EXCEPT ![txn[h].sibling] = [form |-> "mpq", body |-> txn[h].pending]]
    /\ txn' = [txn EXCEPT ![h] = [@ EXCEPT !.working = txn[h].sibling, !.sibling = None,
                                           !.body = txn[h].pending, !.pending = None,
                                           !.dirty = TRUE]]
    /\ Goto(h, "open")
    /\ UNCHANGED <<dest, temps, outcome, leaked>>

\* The rebuild is complete and validated: it becomes the working copy, and
\* the previous one is removed, ignoring a failure.
EditAdopt(h) ==
    /\ pc[h] = "rebuild"
    /\ txn[h].encodes = 0
    /\ \E left \in SUBSET {txn[h].working} :
         /\ temps' = temps \ ({txn[h].working} \ left)
         /\ data' = [i \in Inode |->
                       IF i = txn[h].sibling
                       THEN [form |-> "mpq", body |-> txn[h].pending]
                       ELSE IF i \in {txn[h].working} \ left THEN Partial ELSE data[i]]
         /\ Leak(left)
    /\ txn' = [txn EXCEPT ![h] = [@ EXCEPT !.working = txn[h].sibling, !.sibling = None,
                                           !.body = txn[h].pending, !.pending = None,
                                           !.dirty = TRUE]]
    /\ Goto(h, "open")
    /\ UNCHANGED <<dest, outcome>>

\* Mutant: the failure path adopts the unfinished rebuild.
EditFailsAdopts(h) ==
    /\ pc[h] = "rebuild"
    /\ Remove({txn[h].working}, {})
    /\ txn' = [txn EXCEPT ![h] = [@ EXCEPT !.working = txn[h].sibling, !.sibling = None,
                                           !.pending = None, !.encodes = 0]]
    /\ Goto(h, "open")
    /\ UNCHANGED <<dest, outcome>>

\* Any failure removes the unfinished files and keeps the working copy.
EditFails(h) ==
    /\ pc[h] \in {"rebuild", "encode"}
    /\ LET unfinished == {txn[h].sibling, txn[h].packed} \ {None}
       IN  \E left \in SUBSET unfinished : Remove(unfinished, left)
    /\ txn' = [txn EXCEPT ![h] = [@ EXCEPT !.sibling = None, !.packed = None,
                                           !.pending = None, !.encodes = 0]]
    /\ Goto(h, "open")
    /\ UNCHANGED <<dest, outcome>>

-----------------------------------------------------------------------------
(* libmpq__update_commit and libmpq__update_abort.                         *)

\* The working copy opens again, is flushed, given its mode and closed.  A
\* modified MPQE transaction has to encrypt it first.
Commit(h) ==
    /\ pc[h] = "open"
    /\ Goto(h, IF txn[h].mpqe /\ txn[h].dirty THEN "encrypt" ELSE "identity")
    /\ UNCHANGED <<fs, txn, outcome, leaked>>

EncryptedTemporary(h) ==
    /\ pc[h] = "encrypt"
    /\ \E i \in Inode :
         /\ CreateTemporary(i)
         /\ txn' = [txn EXCEPT ![h] = [@ EXCEPT !.sibling = i]]
    /\ Goto(h, "transform")
    /\ UNCHANGED <<dest, outcome, leaked>>

\* libmpq__writer_mpqe_transform_file, then the check that the result opens.
Transform(h) ==
    /\ pc[h] = "transform"
    /\ data' = [data EXCEPT ![txn[h].sibling] =
                    [form |-> "mpqe", body |-> data[txn[h].working].body]]
    /\ Goto(h, "unlink")
    /\ UNCHANGED <<dest, temps, txn, outcome, leaked>>

\* The plaintext has to be gone before anything is published.
UnlinkPlaintext(h) ==
    /\ pc[h] = "unlink"
    /\ Remove({txn[h].working}, {})
    /\ txn' = [txn EXCEPT ![h] = [@ EXCEPT !.working = None]]
    /\ Goto(h, "identity")
    /\ UNCHANGED <<dest, outcome>>

\* Mutant: the destination is not compared with the recorded identity.
IdentityUnchecked(h) ==
    /\ pc[h] = "identity"
    /\ IF txn[h].mpqe /\ ~txn[h].dirty
       THEN /\ Goto(h, "discard")
            /\ txn' = [txn EXCEPT ![h] = [@ EXCEPT !.succeeded = TRUE]]
       ELSE /\ Goto(h, "publish")
            /\ UNCHANGED txn
    /\ UNCHANGED <<fs, outcome, leaked>>

\* update_identity.  An unmodified MPQE transaction has nothing to publish.
Identity(h) ==
    /\ pc[h] = "identity"
    /\ dest = txn[h].base
    /\ IF txn[h].mpqe /\ ~txn[h].dirty
       THEN /\ Goto(h, "discard")
            /\ txn' = [txn EXCEPT ![h] = [@ EXCEPT !.succeeded = TRUE]]
       ELSE /\ Goto(h, "publish")
            /\ UNCHANGED txn
    /\ UNCHANGED <<fs, outcome, leaked>>

\* Mutant: an error is reported although the rename was done.
PublishReportsError(h) ==
    LET new == IF txn[h].mpqe THEN txn[h].sibling ELSE txn[h].working
    IN  /\ pc[h] = "publish"
        /\ Rebind(new, h)
        /\ temps' = temps \ {new}
        /\ data' = [i \in Inode |-> IF i = dest /\ i # new THEN Partial ELSE data[i]]
        /\ Goto(h, "idle")
        /\ outcome' = [outcome EXCEPT ![h] = "discarded"]
        /\ UNCHANGED leaked

\* libmpq__directory_replace.
Publish(h) ==
    LET new == IF txn[h].mpqe THEN txn[h].sibling ELSE txn[h].working
    IN  /\ pc[h] = "publish"
        /\ Rebind(new, h)
        /\ temps' = temps \ {new}
        /\ data' = [i \in Inode |-> IF i = dest /\ i # new THEN Partial ELSE data[i]]
        /\ Goto(h, "idle")
        /\ outcome' = [outcome EXCEPT ![h] = "committed"]
        /\ UNCHANGED leaked

CommitFails(h) ==
    /\ pc[h] \in {"open", "encrypt", "transform", "unlink", "identity", "publish"}
    /\ GiveUp(h)

Abort(h) ==
    /\ pc[h] = "open"
    /\ GiveUp(h)

\* update_cleanup, after the encrypted file of a failed MPQE commit.  A file
\* that cannot be removed turns success into an error.
Discard(h) ==
    /\ pc[h] = "discard"
    /\ \E left \in SUBSET Owned(h) :
         /\ Remove(Owned(h), left)
         /\ outcome' = [outcome EXCEPT ![h] =
                IF txn[h].succeeded /\ left = {} THEN "committed" ELSE "discarded"]
    /\ txn' = [txn EXCEPT ![h] = NoTxn]
    /\ Goto(h, "idle")
    /\ UNCHANGED dest

-----------------------------------------------------------------------------
(* The world around the library.                                           *)

\* The process dies; what it had created stays.
Crash(h) ==
    /\ pc[h] \notin Settled
    /\ Leak(Owned(h))
    /\ txn' = [txn EXCEPT ![h] = NoTxn]
    /\ Goto(h, "crashed")
    /\ UNCHANGED <<fs, outcome>>

ForeignReplace ==
    /\ OthersWrite
    /\ \E i \in Free, c \in Given :
         /\ Rebind(i, None)
         /\ data' = [j \in Inode |-> IF j = i THEN c
                                     ELSE IF j = dest THEN Partial ELSE data[j]]
    /\ UNCHANGED <<temps, pc, outcome, leaked>>

ForeignRemove ==
    /\ OthersWrite
    /\ dest # None
    /\ Rebind(None, None)
    /\ data' = [data EXCEPT ![dest] = Partial]
    /\ UNCHANGED <<temps, pc, outcome, leaked>>

Next ==
    \/ \E h \in Handle :
         \/ \E mpqe \in BOOLEAN : Begin(h, mpqe)
         \/ BeginRefused(h) \/ BeginTemporary(h) \/ BeginCopy(h)
         \/ BeginDecode(h) \/ BeginFails(h)
         \/ EditBegin(h) \/ EncodeBegin(h) \/ EncodeEnd(h)
         \/ EditAdopt(h) \/ EditFails(h)
         \/ Commit(h) \/ EncryptedTemporary(h) \/ Transform(h)
         \/ UnlinkPlaintext(h) \/ Identity(h) \/ Publish(h)
         \/ CommitFails(h) \/ Abort(h) \/ Discard(h) \/ Crash(h)
    \/ ForeignReplace
    \/ ForeignRemove

Spec == Init /\ [][Next]_vars

-----------------------------------------------------------------------------

TypeOK ==
    /\ dest \in Inode \cup {None}
    /\ data \in [Inode -> Container \cup {Partial}]
    /\ temps \subseteq Inode
    /\ pc \in [Handle -> PC]
    /\ txn \in [Handle -> Txn]
    /\ outcome \in [Handle -> {"idle", "committed", "discarded"}]
    /\ leaked \subseteq Inode

\* Whoever opens the destination finds a complete archive: no interleaving,
\* failure or crash lets an unfinished copy, rebuild or encrypted file appear
\* under the destination name.
DestinationComplete == dest # None => data[dest] \in Container

\* The working copy on disk is exactly the snapshot with the accepted edits
\* applied, also after an edit that failed half way and whatever the other
\* transactions remove, create or publish meanwhile.
WorkingCopyIntact ==
    \A h \in Handle : pc[h] \in {"open", "rebuild", "encode", "encrypt", "transform", "unlink"} =>
        data[txn[h].working] = [form |-> "mpq", body |-> txn[h].body]

\* No temporary is forgotten and none has two owners: each one belongs to one
\* running transaction, or a removal of it failed, or its process died.
TemporariesAccountedFor ==
    /\ temps = leaked \cup UNION {Owned(h) : h \in Handle}
    /\ \A h \in Handle : Owned(h) \cap leaked = {}
    /\ \A g, h \in Handle : g # h => Owned(g) \cap Owned(h) = {}

\* A transaction that reaches its rename found, at the identity check, the
\* very file it took its snapshot from: a replacement between begin and the
\* check is always noticed, provided the file system does not recycle the
\* number of the inode that was replaced.
ReplacementNoticed == \A h \in Handle : pc[h] = "publish" => ~txn[h].moved

\* The refinement mapping to AtomicUpdate.
Active(h) == txn[h].body # None

destBar == IF dest = None THEN None ELSE data[dest]
statusBar == [h \in Handle |-> IF Active(h) THEN "active"
                               ELSE IF pc[h] = "crashed" THEN "crashed" ELSE outcome[h]]
originalBar == [h \in Handle |-> IF Active(h) THEN txn[h].source ELSE None]
bodyBar == [h \in Handle |-> txn[h].body]

AU == INSTANCE AtomicUpdate WITH dest <- destBar, status <- statusBar,
                                 original <- originalBar, body <- bodyBar

\* The destination changes only by one atomic step of a transaction that then
\* reports success, to the snapshot with that transaction's edits applied and
\* in the transport it had; a transaction that reports an error, is aborted or
\* dies never changes it.  With OthersWrite = FALSE no other step may touch it.
ImplementsAtomicUpdate == AU!Spec
=============================================================================
