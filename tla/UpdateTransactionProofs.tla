---------------------- MODULE UpdateTransactionProofs ----------------------
(***************************************************************************)
(* Proofs about UpdateTransaction for any sets of handles, inodes, members *)
(* and values: the invariants its runs check on small instances, and that  *)
(* it implements AtomicUpdate.                                             *)
(***************************************************************************)
EXTENDS UpdateTransaction, TLAPS

-----------------------------------------------------------------------------
(* The inductive invariant.                                                *)

FilesOf(t) == {t.working, t.sibling, t.packed} \ {None}

Begun == {"begin", "copy", "decode"}
Editing == {"open", "rebuild", "encode"}
Committing == {"encrypt", "transform", "unlink", "identity", "publish"}

\* The file that a commit renames over the destination.
Replacement(t) == IF t.mpqe THEN t.sibling ELSE t.working

\* A transaction at label l has exactly the files that the calls before l
\* created, each a file of its own.
HasItsFiles(l, t) ==
    /\ l = "begin" => t.working = None
    /\ l \in {"copy", "decode"} \cup Editing \cup {"encrypt", "transform", "unlink"} =>
         t.working \in Inode
    /\ l \in Begun \cup {"open", "encrypt"} => t.sibling = None
    /\ l \in {"rebuild", "encode", "transform", "unlink"} => t.sibling \in Inode
    /\ IF l = "encode" THEN t.packed \in Inode ELSE t.packed = None
    /\ l \in {"identity", "publish"} =>
         IF t.mpqe /\ t.dirty THEN t.working = None /\ t.sibling \in Inode
         ELSE t.working \in Inode /\ t.sibling = None
    /\ t.working # None => t.working # t.sibling /\ t.working # t.packed
    /\ t.sibling # None => t.sibling # t.packed

\* What a transaction at label l knows of its snapshot and its edits.
KnowsItsSnapshot(l, t) ==
    /\ l \in Settled => t = NoTxn
    /\ l \notin Settled => t.source \in Container /\ t.base \in Inode
    /\ l \in Begun => ~t.dirty /\ (t.mpqe <=> t.body = None)
    /\ l = "decode" => t.mpqe
    /\ l \in Editing \cup Committing =>
         /\ t.body \in Body
         /\ t.source.form = IF t.mpqe THEN "mpqe" ELSE "mpq"
    /\ l \in {"rebuild", "encode"} => t.pending \in Edited(t.body)
    /\ l = "encode" => t.encodes > 0
    /\ l \in {"encrypt", "transform", "unlink"} => t.mpqe /\ t.dirty
    /\ l = "publish" => (t.mpqe => t.dirty)
    /\ ~t.dirty /\ t.body # None => t.body = t.source.body
    /\ t.succeeded => l = "discard" /\ t.body = t.source.body /\ t.body \in Body

\* What the files of a transaction at label l store.
FilesStore(l, t, d) ==
    /\ l \in {"open", "rebuild", "encode", "encrypt", "transform", "unlink"} =>
         d[t.working] = [form |-> "mpq", body |-> t.body]
    /\ l = "unlink" \/ (l \in {"identity", "publish"} /\ (t.mpqe => t.dirty)) =>
         d[Replacement(t)] = [form |-> t.source.form, body |-> t.body]

IInv ==
    /\ TypeOK
    /\ dest \notin temps
    /\ DestinationComplete
    /\ TemporariesAccountedFor
    /\ \A h \in Handle : /\ HasItsFiles(pc[h], txn[h])
                         /\ KnowsItsSnapshot(pc[h], txn[h])
                         /\ FilesStore(pc[h], txn[h], data)

-----------------------------------------------------------------------------
(* Facts about single definitions.                                         *)

\* An edit of update_apply makes a body of a body.
LEMMA EditedIsBody ==
    ASSUME NEW b \in Body
    PROVE  Edited(b) \subseteq Body
<1>1. Replaced(b) \subseteq Body
  <2>1. ASSUME NEW m \in Present(b)
        PROVE  {[b EXCEPT ![m] = v] : v \in Value} \subseteq Body
    BY Zenon DEF Present, Body
  <2> QED
    BY <2>1, Zenon DEF Replaced
<1>2. Removed(b) \subseteq Body
  BY Zenon DEF Removed, Present, Body
<1>3. Renamed(b) \subseteq Body
  <2>1. ASSUME NEW m \in Present(b)
        PROVE  {[b EXCEPT ![m] = Absent, ![n] = b[m]] : n \in Member \ Present(b)}
                   \subseteq Body
    BY Zenon DEF Present, Body
  <2> QED
    BY <2>1, Zenon DEF Renamed
<1> QED
  BY <1>1, <1>2, <1>3 DEF Edited

\* A handle outside a transaction is a record of struct mpq_update.
LEMMA NoTxnIsTxn == NoTxn \in Txn
  BY UpdateAssumption DEF NoTxn, Txn

\* A complete archive file is told from an unfinished one by its parts.
LEMMA ContainerParts ==
    /\ \A c \in Container : /\ c.form \in Form /\ c.body \in Body
                            /\ c # Partial /\ c # None
                            /\ c = [form |-> c.form, body |-> c.body]
    /\ \A f \in Form, b \in Body : [form |-> f, body |-> b] \in Container
  BY UpdateAssumption DEF Container

\* A step of one call that touches only files of its own transaction, or
\* files nobody had, preserves the invariant when the transaction itself is in
\* order afterwards: the other transactions cannot notice it.
LEMMA LocalStep ==
    ASSUME IInv,
           NEW h \in Handle, NEW t \in Txn, NEW l \in PC,
           txn' = [txn EXCEPT ![h] = t],
           pc' = [pc EXCEPT ![h] = l],
           outcome' \in [Handle -> {"idle", "committed", "discarded"}],
           dest' = dest,
           data' \in [Inode -> Container \cup {Partial}],
           \A i \in Inode : data'[i] # data[i] => i \in Free \cup Owned(h),
           FilesOf(t) \subseteq Free \cup Owned(h),
           leaked \subseteq leaked', leaked' \subseteq leaked \cup Owned(h),
           FilesOf(t) \cap leaked' = {},
           temps' = (temps \ Owned(h)) \cup FilesOf(t) \cup leaked',
           HasItsFiles(l, t), KnowsItsSnapshot(l, t), FilesStore(l, t, data')
    PROVE  IInv'
<1> USE UpdateAssumption
<1>1. /\ txn' \in [Handle -> Txn] /\ txn'[h] = t /\ pc'[h] = l
      /\ \A g \in Handle : g # h => txn'[g] = txn[g] /\ pc'[g] = pc[g]
  BY DEF IInv, TypeOK
<1>2. /\ Owned(h)' = FilesOf(t)
      /\ \A g \in Handle : g # h => Owned(g)' = Owned(g)
  BY <1>1 DEF Owned, FilesOf
<1>3. /\ \A g \in Handle : Owned(g) \subseteq temps
      /\ leaked \subseteq temps
      /\ \A g \in Handle : g # h => Owned(g) \cap Owned(h) = {}
      /\ dest \notin temps /\ temps \subseteq Inode
      /\ \A i \in Free : i \in Inode /\ i \notin temps /\ i # dest
  BY DEF IInv, TypeOK, TemporariesAccountedFor, Free
<1>4. TypeOK'
  BY <1>1, <1>3 DEF IInv, TypeOK
<1>5. (dest \notin temps)' /\ DestinationComplete'
  BY <1>3 DEF IInv, DestinationComplete, TypeOK
<1>6. TemporariesAccountedFor'
  <2>1. \A i : i \in temps <=> i \in leaked \/ \E g \in Handle : i \in Owned(g)
    BY DEF IInv, TemporariesAccountedFor
  <2>2. \A i : i \in temps' <=> i \in leaked' \/ \E g \in Handle : i \in Owned(g)'
    BY <1>2, <1>3, <2>1
  <2>3. \A g \in Handle : Owned(g)' \cap leaked' = {}
    BY <1>2, <1>3 DEF IInv, TemporariesAccountedFor
  <2>4. \A f, g \in Handle : f # g => Owned(f)' \cap Owned(g)' = {}
    BY <1>2, <1>3 DEF IInv, TemporariesAccountedFor
  <2> QED
    BY <2>2, <2>3, <2>4 DEF TemporariesAccountedFor
<1>7. ASSUME NEW g \in Handle
      PROVE  /\ HasItsFiles(pc'[g], txn'[g])
             /\ KnowsItsSnapshot(pc'[g], txn'[g])
             /\ FilesStore(pc'[g], txn'[g], data')
  <2>1. CASE g = h
    BY <2>1, <1>1
  <2>2. CASE g # h
    <3>1. HasItsFiles(pc[g], txn[g]) /\ KnowsItsSnapshot(pc[g], txn[g])
          /\ FilesStore(pc[g], txn[g], data)
      BY DEF IInv
    <3>2. \A i \in Inode : i \in Owned(g) => data'[i] = data[i]
      BY <2>2, <1>3
    <3>3. FilesStore(pc[g], txn[g], data')
      BY <3>1, <3>2 DEF FilesStore, HasItsFiles, Replacement, Owned, Editing
    <3> QED
      BY <2>2, <1>1, <3>1, <3>3
  <2> QED
    BY <2>1, <2>2
<1> QED
  BY <1>4, <1>5, <1>6, <1>7 DEF IInv

\* The invariant holds when nothing has begun.
LEMMA InitInv == Init => IInv
<1> USE UpdateAssumption
<1> SUFFICES ASSUME Init PROVE IInv
  OBVIOUS
<1>1. PICK c \in Given : data = [i \in Inode |-> IF i = dest THEN c ELSE Partial]
  BY DEF Init
<1>2. TypeOK
  BY <1>1, NoTxnIsTxn DEF Init, TypeOK, PC, Given
<1>3. dest \notin temps /\ DestinationComplete
  BY <1>1 DEF Init, DestinationComplete, Given
<1>4. \A h \in Handle : txn[h] = NoTxn /\ pc[h] = "idle" /\ Owned(h) = {}
  BY DEF Init, Owned, NoTxn
<1>5. TemporariesAccountedFor
  BY <1>4 DEF Init, TemporariesAccountedFor
<1>6. ASSUME NEW h \in Handle
      PROVE  /\ HasItsFiles(pc[h], txn[h])
             /\ KnowsItsSnapshot(pc[h], txn[h])
             /\ FilesStore(pc[h], txn[h], data)
  <2>1. HasItsFiles("idle", NoTxn)
    BY DEF HasItsFiles, NoTxn, Begun, Editing
  <2>2. KnowsItsSnapshot("idle", NoTxn)
    BY DEF KnowsItsSnapshot, NoTxn, Settled, Begun, Editing, Committing
  <2>3. FilesStore("idle", NoTxn, data)
    BY DEF FilesStore
  <2> QED
    BY <1>4, <2>1, <2>2, <2>3
<1> QED
  BY <1>2, <1>3, <1>5, <1>6 DEF IInv

\* What the invariant says of one transaction and its files.
LEMMA HandleFacts ==
    ASSUME IInv, NEW h \in Handle
    PROVE  /\ txn[h] \in Txn /\ pc[h] \in PC
           /\ Owned(h) = FilesOf(txn[h])
           /\ Owned(h) \subseteq temps /\ Owned(h) \cap leaked = {}
           /\ temps \subseteq Inode /\ leaked \subseteq temps
           /\ Free \subseteq Inode /\ Free \cap temps = {}
           /\ HasItsFiles(pc[h], txn[h])
           /\ KnowsItsSnapshot(pc[h], txn[h])
           /\ FilesStore(pc[h], txn[h], data)
  BY DEF IInv, TypeOK, TemporariesAccountedFor, Owned, FilesOf, Free

\* The three ways a step of a call treats files, each an instance of LocalStep:
\* it creates one, ...
LEMMA CreateStep ==
    ASSUME IInv, NEW h \in Handle, NEW t \in Txn, NEW l \in PC, NEW i \in Inode,
           CreateTemporary(i), Goto(h, l), txn' = [txn EXCEPT ![h] = t],
           UNCHANGED <<dest, outcome, leaked>>,
           FilesOf(t) = Owned(h) \cup {i},
           HasItsFiles(l, t), KnowsItsSnapshot(l, t), FilesStore(l, t, data')
    PROVE  IInv'
<1>1. /\ i \in Free /\ data' = [data EXCEPT ![i] = Partial] /\ temps' = temps \cup {i}
      /\ pc' = [pc EXCEPT ![h] = l] /\ dest' = dest /\ leaked' = leaked
      /\ outcome' \in [Handle -> {"idle", "committed", "discarded"}]
  BY DEF CreateTemporary, Goto, IInv, TypeOK
<1>2. /\ data' \in [Inode -> Container \cup {Partial}]
      /\ \A j \in Inode : data'[j] # data[j] => j \in Free \cup Owned(h)
  BY <1>1 DEF IInv, TypeOK
<1>3. /\ FilesOf(t) \cap leaked' = {}
      /\ temps' = (temps \ Owned(h)) \cup FilesOf(t) \cup leaked'
      /\ FilesOf(t) \subseteq Free \cup Owned(h)
  BY <1>1, HandleFacts
<1> QED
  BY <1>1, <1>2, <1>3, LocalStep, Zenon

\* ... it keeps its files, writing at most to them, ...
LEMMA KeepStep ==
    ASSUME IInv, NEW h \in Handle, NEW t \in Txn, NEW l \in PC,
           Goto(h, l), txn' = [txn EXCEPT ![h] = t],
           UNCHANGED <<dest, temps, outcome, leaked>>,
           data' \in [Inode -> Container \cup {Partial}],
           \A j \in Inode : data'[j] # data[j] => j \in Owned(h),
           FilesOf(t) = Owned(h),
           HasItsFiles(l, t), KnowsItsSnapshot(l, t), FilesStore(l, t, data')
    PROVE  IInv'
<1>1. /\ pc' = [pc EXCEPT ![h] = l] /\ dest' = dest /\ leaked' = leaked /\ temps' = temps
      /\ outcome' \in [Handle -> {"idle", "committed", "discarded"}]
  BY DEF Goto, IInv, TypeOK
<1>2. /\ FilesOf(t) \cap leaked' = {}
      /\ temps' = (temps \ Owned(h)) \cup FilesOf(t) \cup leaked'
      /\ FilesOf(t) \subseteq Free \cup Owned(h)
  BY <1>1, HandleFacts
<1> QED
  BY <1>1, <1>2, LocalStep, Zenon

\* ... or it removes some of them, successfully or not.
LEMMA RemoveStep ==
    ASSUME IInv, NEW h \in Handle, NEW t \in Txn, NEW l \in PC,
           NEW files \in SUBSET Owned(h), NEW left \in SUBSET files,
           Goto(h, l), txn' = [txn EXCEPT ![h] = t], dest' = dest,
           outcome' \in [Handle -> {"idle", "committed", "discarded"}],
           data' \in [Inode -> Container \cup {Partial}],
           \A j \in Inode : data'[j] # data[j] => j \in Owned(h),
           temps' = temps \ (files \ left), leaked' = leaked \cup left,
           FilesOf(t) = Owned(h) \ files,
           HasItsFiles(l, t), KnowsItsSnapshot(l, t), FilesStore(l, t, data')
    PROVE  IInv'
<1>1. pc' = [pc EXCEPT ![h] = l]
  BY DEF Goto
<1>2. /\ FilesOf(t) \cap leaked' = {}
      /\ temps' = (temps \ Owned(h)) \cup FilesOf(t) \cup leaked'
      /\ FilesOf(t) \subseteq Free \cup Owned(h)
      /\ leaked \subseteq leaked' /\ leaked' \subseteq leaked \cup Owned(h)
  BY HandleFacts
<1> QED
  BY <1>1, <1>2, LocalStep, Zenon

\* begin_source opens the destination: the handle owns no file yet.
LEMMA BeginInv ==
    ASSUME IInv, NEW h \in Handle, NEW mpqe \in BOOLEAN, Begin(h, mpqe)
    PROVE  IInv'
<1> USE UpdateAssumption
<1> DEFINE b == IF mpqe THEN None ELSE data[dest].body
           c == data[dest]
           t == [NoTxn EXCEPT !.mpqe = mpqe, !.base = dest, !.source = c,
                              !.reading = TRUE, !.body = b]
<1>1. dest \in Inode /\ data[dest] \in Container /\ data[dest].body \in Body
  BY ContainerParts DEF IInv, TypeOK, DestinationComplete, Begin
<1>2. /\ t \in Txn /\ t.source = data[dest] /\ t.base = dest /\ t.mpqe = mpqe
      /\ t.working = None /\ t.sibling = None /\ t.packed = None
      /\ t.body = IF mpqe THEN None ELSE data[dest].body
      /\ t.succeeded = FALSE /\ t.dirty = FALSE
  <2>1. b \in Body \cup {None} /\ c \in Container
    BY <1>1
  <2> HIDE DEF b, c
  <2>2. t \in Txn
    BY <2>1, <1>1, NoTxnIsTxn, Zenon DEF Txn
  <2>3. /\ t.source = c /\ t.base = dest /\ t.mpqe = mpqe /\ t.body = b
        /\ t.working = None /\ t.sibling = None /\ t.packed = None
        /\ t.succeeded = FALSE /\ t.dirty = FALSE
    BY DEF NoTxn
  <2> QED
    BY <2>2, <2>3 DEF b, c
<1>3. txn[h] = NoTxn /\ Owned(h) = {} /\ FilesOf(t) = {}
  <2>1. txn[h] = NoTxn
    BY HandleFacts DEF Begin, KnowsItsSnapshot, Settled
  <2> QED
    BY <2>1, <1>2 DEF Owned, FilesOf, NoTxn
<1>4. HasItsFiles("begin", t)
  BY <1>2 DEF HasItsFiles, Editing, Begun
<1>5. KnowsItsSnapshot("begin", t)
  BY <1>1, <1>2 DEF KnowsItsSnapshot, Settled, Begun, Editing, Committing
<1>6. FilesStore("begin", t, data)
  BY DEF FilesStore
<1>7. /\ txn' = [txn EXCEPT ![h] = t] /\ Goto(h, "begin") /\ data' = data
      /\ UNCHANGED <<dest, temps, outcome, leaked>>
      /\ data' \in [Inode -> Container \cup {Partial}]
  BY DEF Begin, fs, IInv, TypeOK
<1>8. "begin" \in PC
  BY DEF PC
<1> HIDE DEF t
<1> QED
  BY <1>2, <1>3, <1>4, <1>5, <1>6, <1>7, <1>8, KeepStep, Zenon

\* A begin that is refused has touched nothing.
LEMMA BeginRefusedInv ==
    ASSUME IInv, NEW h \in Handle, BeginRefused(h)
    PROVE  IInv'
<1>1. TypeOK'
  BY DEF IInv, TypeOK, BeginRefused, fs
<1> QED
  BY <1>1, Zenon DEF IInv, BeginRefused, fs, DestinationComplete, TemporariesAccountedFor, Owned

\* working_path creates the working copy.
LEMMA BeginTemporaryInv ==
    ASSUME IInv, NEW h \in Handle, BeginTemporary(h)
    PROVE  IInv'
<1> USE UpdateAssumption
<1>1. PICK i \in Inode : /\ CreateTemporary(i)
                         /\ txn' = [txn EXCEPT ![h] = [@ EXCEPT !.working = i]]
  BY Zenon DEF BeginTemporary
<1> DEFINE u == txn[h]
           t == [u EXCEPT !.working = i]
<1>2. /\ t \in Txn /\ t.source = u.source /\ t.base = u.base /\ t.mpqe = u.mpqe
      /\ t.working = i /\ t.sibling = u.sibling /\ t.packed = u.packed
      /\ t.body = u.body /\ t.dirty = u.dirty /\ t.succeeded = u.succeeded
  BY HandleFacts DEF Txn
<1>3. /\ u.working = None /\ u.sibling = None /\ u.packed = None
      /\ i \in Free
  BY HandleFacts, <1>1 DEF BeginTemporary, HasItsFiles, Begun, CreateTemporary
<1>4. Owned(h) = {} /\ FilesOf(t) = {i}
  BY <1>2, <1>3 DEF Owned, FilesOf
<1>5. HasItsFiles("copy", t)
  BY <1>2, <1>3 DEF HasItsFiles, Editing, Begun
<1>6. KnowsItsSnapshot("copy", t)
  BY <1>2, HandleFacts DEF BeginTemporary, KnowsItsSnapshot, Settled, Begun, Editing, Committing
<1>7. FilesStore("copy", t, data')
  BY DEF FilesStore
<1>8. /\ txn' = [txn EXCEPT ![h] = t] /\ Goto(h, "copy")
      /\ UNCHANGED <<dest, outcome, leaked>>
  BY <1>1, Zenon DEF BeginTemporary
<1>9. "copy" \in PC
  BY DEF PC
<1> HIDE DEF t, u
<1> QED
  BY <1>1, <1>2, <1>4, <1>5, <1>6, <1>7, <1>8, <1>9, CreateStep, Zenon

\* update_copy fills the working copy with the bytes of the open input.
LEMMA BeginCopyInv ==
    ASSUME IInv, NEW h \in Handle, BeginCopy(h)
    PROVE  IInv'
<1> USE UpdateAssumption
<1> DEFINE u == txn[h]
           t == [u EXCEPT !.reading = FALSE]
<1>1. /\ t \in Txn /\ t.source = u.source /\ t.base = u.base /\ t.mpqe = u.mpqe
      /\ t.working = u.working /\ t.sibling = u.sibling /\ t.packed = u.packed
      /\ t.body = u.body /\ t.dirty = u.dirty /\ t.succeeded = u.succeeded
      /\ u.mpqe \in BOOLEAN
  BY HandleFacts, ZenonT(60) DEF Txn
<1>2. /\ txn' = [txn EXCEPT ![h] = t] /\ UNCHANGED <<dest, temps, outcome, leaked>>
      /\ pc[h] = "copy" /\ "decode" \in PC /\ "open" \in PC
  BY DEF BeginCopy, PC
<1>3. /\ u.working \in Inode /\ u.working \in Owned(h)
      /\ u.sibling = None /\ u.packed = None
      /\ u.source \in Container /\ u.base \in Inode /\ (u.mpqe <=> u.body = None)
      /\ u.body # None => u.body \in Body
      /\ ~u.succeeded /\ ~u.dirty
      /\ ~u.dirty /\ u.body # None => u.body = u.source.body
  BY HandleFacts, <1>2 DEF HasItsFiles, KnowsItsSnapshot, Begun, Settled, Owned, Txn
<1>4. FilesOf(t) = Owned(h)
  BY <1>1, HandleFacts DEF FilesOf
<1>5. CASE u.mpqe
  <2>1. Goto(h, "decode") /\ data' = data
    BY <1>5 DEF BeginCopy
  <2>2. HasItsFiles("decode", t)
    BY <1>1, <1>3 DEF HasItsFiles, Begun, Editing
  <2>3. KnowsItsSnapshot("decode", t)
    BY <1>1, <1>3, <1>5 DEF KnowsItsSnapshot, Begun, Editing, Committing, Settled
  <2>4. FilesStore("decode", t, data')
    BY DEF FilesStore
  <2>5. data \in [Inode -> Container \cup {Partial}]
    BY DEF IInv, TypeOK
  <2> HIDE DEF t, u
  <2> QED
    BY <1>1, <1>2, <1>4, <2>1, <2>2, <2>3, <2>4, <2>5, KeepStep, Zenon
<1>6. CASE ~u.mpqe
  <2>1. /\ Goto(h, "open") /\ u.source.form = "mpq"
        /\ data' = [data EXCEPT ![u.working] = u.source]
    BY <1>6 DEF BeginCopy
  <2>2. HasItsFiles("open", t)
    BY <1>1, <1>3 DEF HasItsFiles, Begun, Editing
  <2>3. KnowsItsSnapshot("open", t)
    BY <1>1, <1>3, <1>6, <2>1 DEF KnowsItsSnapshot, Begun, Editing, Committing, Settled
  <2>4. /\ data' \in [Inode -> Container \cup {Partial}]
        /\ \A j \in Inode : data'[j] # data[j] => j \in Owned(h)
        /\ data'[u.working] = u.source
    BY <1>3, <2>1 DEF IInv, TypeOK
  <2>5. u.source = [form |-> "mpq", body |-> u.body]
    <3>1. u.body = u.source.body
      BY HandleFacts, <1>2, <1>3, <1>6 DEF BeginCopy, KnowsItsSnapshot, Begun
    <3> QED
      BY <3>1, <1>3, <2>1, ContainerParts
  <2>6. FilesStore("open", t, data')
    BY <2>4, <2>5, <1>1 DEF FilesStore
  <2> HIDE DEF t, u
  <2> QED
    BY <1>1, <1>2, <1>4, <2>1, <2>2, <2>3, <2>4, <2>6, KeepStep, Zenon
<1> QED
  BY <1>1, <1>5, <1>6

\* begin_mpqe decodes the destination into the working copy.
LEMMA BeginDecodeInv ==
    ASSUME IInv, NEW h \in Handle, BeginDecode(h)
    PROVE  IInv'
<1> USE UpdateAssumption
<1> DEFINE u == txn[h]
           c == data[dest]
           b == c.body
           t == [u EXCEPT !.source = c, !.body = b]
<1>1. /\ dest \in Inode /\ c \in Container /\ b \in Body /\ c.form = "mpqe"
      /\ [form |-> "mpq", body |-> b] \in Container
  BY ContainerParts DEF BeginDecode, IInv, DestinationComplete, TypeOK, Form
<1>2. /\ t \in Txn /\ t.source = c /\ t.base = u.base /\ t.mpqe = u.mpqe
      /\ t.working = u.working /\ t.sibling = u.sibling /\ t.packed = u.packed
      /\ t.body = b /\ t.dirty = u.dirty /\ t.succeeded = u.succeeded
      /\ u.mpqe \in BOOLEAN
  <2> HIDE DEF b, c
  <2> QED
    BY HandleFacts, <1>1, ZenonT(60) DEF Txn
<1>3. /\ txn' = [txn EXCEPT ![h] = t] /\ UNCHANGED <<dest, temps, outcome, leaked>>
      /\ pc[h] = "decode" /\ Goto(h, "open") /\ "open" \in PC
      /\ data' = [data EXCEPT ![u.working] = [form |-> "mpq", body |-> b]]
  BY DEF BeginDecode, PC
<1>4. /\ u.working \in Inode /\ u.working \in Owned(h)
      /\ u.sibling = None /\ u.packed = None
      /\ u.base \in Inode /\ ~u.succeeded
  BY HandleFacts, <1>3 DEF HasItsFiles, KnowsItsSnapshot, Begun, Settled, Owned
<1>5. u.mpqe
  BY HandleFacts, <1>3 DEF KnowsItsSnapshot
<1>6. FilesOf(t) = Owned(h)
  BY <1>2, HandleFacts DEF FilesOf
<1>7. HasItsFiles("open", t)
  BY <1>2, <1>4 DEF HasItsFiles, Begun, Editing
<1>8. KnowsItsSnapshot("open", t)
  BY <1>1, <1>2, <1>4, <1>5 DEF KnowsItsSnapshot, Begun, Editing, Committing, Settled
<1>9. /\ data' \in [Inode -> Container \cup {Partial}]
      /\ \A j \in Inode : data'[j] # data[j] => j \in Owned(h)
      /\ data'[u.working] = [form |-> "mpq", body |-> b]
  <2> HIDE DEF b, c
  <2> QED
    BY <1>1, <1>3, <1>4 DEF IInv, TypeOK
<1>10. FilesStore("open", t, data')
  BY <1>9, <1>2 DEF FilesStore
<1> HIDE DEF t, u
<1> QED
  BY <1>2, <1>3, <1>6, <1>7, <1>8, <1>9, <1>10, KeepStep, Zenon

\* A failing begin goes to the cleanup with what it has created.
LEMMA BeginFailsInv ==
    ASSUME IInv, NEW h \in Handle, BeginFails(h)
    PROVE  IInv'
<1> USE UpdateAssumption
<1> DEFINE u == txn[h]
           t == [u EXCEPT !.reading = FALSE]
<1>1. /\ t \in Txn /\ t.source = u.source /\ t.base = u.base /\ t.mpqe = u.mpqe
      /\ t.working = u.working /\ t.sibling = u.sibling /\ t.packed = u.packed
      /\ t.body = u.body /\ t.dirty = u.dirty /\ t.succeeded = u.succeeded
  BY HandleFacts, ZenonT(60) DEF Txn
<1>2. /\ txn' = [txn EXCEPT ![h] = t] /\ UNCHANGED <<dest, temps, outcome, leaked>>
      /\ pc[h] \in Begun /\ Goto(h, "discard") /\ "discard" \in PC /\ data' = data
      /\ data' \in [Inode -> Container \cup {Partial}]
  BY DEF BeginFails, Begun, PC, fs, IInv, TypeOK
<1>3. FilesOf(t) = Owned(h)
  BY <1>1, HandleFacts DEF FilesOf
<1>4. HasItsFiles("discard", t)
  BY <1>1, <1>2, HandleFacts DEF HasItsFiles, Begun, Editing
<1>5. KnowsItsSnapshot("discard", t)
  BY <1>1, <1>2, HandleFacts DEF KnowsItsSnapshot, Begun, Editing, Committing, Settled
<1>6. FilesStore("discard", t, data')
  BY DEF FilesStore
<1> HIDE DEF t, u
<1> QED
  BY <1>1, <1>2, <1>3, <1>4, <1>5, <1>6, KeepStep, Zenon

\* An open or committing transaction knows its snapshot.
LEMMA SnapshotFacts ==
    ASSUME IInv, NEW h \in Handle, pc[h] \in Editing \cup Committing
    PROVE  LET u == txn[h]
           IN  /\ u.body \in Body /\ u.source \in Container /\ u.base \in Inode
               /\ ~u.succeeded
               /\ u.source.form = IF u.mpqe THEN "mpqe" ELSE "mpq"
               /\ ~u.dirty => u.body = u.source.body
               /\ u.mpqe \in BOOLEAN /\ u.dirty \in BOOLEAN
<1> USE UpdateAssumption
<1>1. pc[h] \notin Settled /\ pc[h] # "discard"
  BY DEF Editing, Committing, Settled
<1>2. txn[h].mpqe \in BOOLEAN /\ txn[h].dirty \in BOOLEAN
  BY HandleFacts DEF Txn
<1> QED
  BY <1>1, <1>2, HandleFacts DEF KnowsItsSnapshot

\* Until an MPQE commit removes it, the working copy is on disk.
LEMMA WorkingFacts ==
    ASSUME IInv, NEW h \in Handle,
           pc[h] \in Editing \cup {"encrypt", "transform", "unlink"}
    PROVE  /\ txn[h].working \in Inode /\ txn[h].working \in Owned(h)
           /\ txn[h].working # txn[h].sibling /\ txn[h].working # txn[h].packed
           /\ data[txn[h].working] = [form |-> "mpq", body |-> txn[h].body]
<1>1. txn[h].working \in Inode
  BY HandleFacts DEF HasItsFiles
<1>2. /\ txn[h].working # None
      /\ txn[h].working # txn[h].sibling /\ txn[h].working # txn[h].packed
  BY <1>1, UpdateAssumption, HandleFacts DEF HasItsFiles
<1>3. data[txn[h].working] = [form |-> "mpq", body |-> txn[h].body]
  BY HandleFacts, Zenon DEF FilesStore, Editing
<1> QED
  BY <1>1, <1>2, <1>3 DEF Owned

\* update_apply creates the file for the rebuild.
LEMMA EditBeginInv ==
    ASSUME IInv, NEW h \in Handle, EditBegin(h)
    PROVE  IInv'
<1> USE UpdateAssumption
<1>1. PICK i \in Inode, new \in Edited(txn[h].body), n \in 0..MaxEncodes :
         /\ CreateTemporary(i)
         /\ txn' = [txn EXCEPT ![h] = [@ EXCEPT !.sibling = i, !.pending = new, !.encodes = n]]
  BY Zenon DEF EditBegin, Encodes
<1> DEFINE u == txn[h]
           t == [u EXCEPT !.sibling = i, !.pending = new, !.encodes = n]
<1>2. /\ pc[h] = "open" /\ Goto(h, "rebuild") /\ "rebuild" \in PC
      /\ UNCHANGED <<dest, outcome, leaked>>
      /\ txn' = [txn EXCEPT ![h] = t]
  BY <1>1, Zenon DEF EditBegin, PC
<1>3. /\ u.working \in Inode /\ u.working \in Owned(h)
      /\ u.sibling = None /\ u.packed = None
      /\ u.body \in Body /\ u.source \in Container /\ u.base \in Inode /\ ~u.succeeded
      /\ u.source.form = IF u.mpqe THEN "mpqe" ELSE "mpq"
      /\ ~u.dirty => u.body = u.source.body
      /\ data[u.working] = [form |-> "mpq", body |-> u.body]
  <2>1. u.sibling = None /\ u.packed = None
    BY HandleFacts, <1>2 DEF HasItsFiles
  <2> QED
    BY <2>1, <1>2, SnapshotFacts, WorkingFacts DEF Editing
<1>4. new \in Body
  BY <1>3, EditedIsBody
<1>5. /\ t \in Txn /\ t.source = u.source /\ t.base = u.base /\ t.mpqe = u.mpqe
      /\ t.working = u.working /\ t.sibling = i /\ t.packed = u.packed
      /\ t.body = u.body /\ t.dirty = u.dirty /\ t.succeeded = u.succeeded
      /\ t.pending = new
  BY HandleFacts, <1>4, Zenon DEF Txn
<1>6. i \in Free /\ i # u.working
  BY <1>1, <1>3, HandleFacts DEF CreateTemporary
<1>7. FilesOf(t) = Owned(h) \cup {i}
  BY <1>3, <1>5 DEF FilesOf, Owned
<1>8. HasItsFiles("rebuild", t)
  BY <1>3, <1>5, <1>6 DEF HasItsFiles, Begun, Editing
<1>9. KnowsItsSnapshot("rebuild", t)
  BY <1>3, <1>5 DEF KnowsItsSnapshot, Begun, Editing, Committing, Settled
<1>10. FilesStore("rebuild", t, data')
  <2>1. data'[u.working] = data[u.working]
    BY <1>1, <1>3, <1>6 DEF CreateTemporary, IInv, TypeOK
  <2> QED
    BY <2>1, <1>3, <1>5 DEF FilesStore
<1> HIDE DEF t, u
<1> QED
  BY <1>1, <1>2, <1>5, <1>7, <1>8, <1>9, <1>10, CreateStep, Zenon

\* update_encode creates its one-member archive.
LEMMA EncodeBeginInv ==
    ASSUME IInv, NEW h \in Handle, EncodeBegin(h)
    PROVE  IInv'
<1> USE UpdateAssumption
<1>1. PICK i \in Inode : /\ CreateTemporary(i)
                         /\ txn' = [txn EXCEPT ![h] = [@ EXCEPT !.packed = i]]
  BY Zenon DEF EncodeBegin
<1> DEFINE u == txn[h]
           t == [u EXCEPT !.packed = i]
<1>2. /\ pc[h] = "rebuild" /\ Goto(h, "encode") /\ "encode" \in PC
      /\ UNCHANGED <<dest, outcome, leaked>>
      /\ txn' = [txn EXCEPT ![h] = t]
  BY <1>1, Zenon DEF EncodeBegin, PC
<1>3. /\ u.working \in Inode /\ u.working \in Owned(h) /\ u.encodes > 0
      /\ u.sibling \in Inode /\ u.sibling \in Owned(h) /\ u.sibling # u.working
      /\ u.packed = None /\ u.pending \in Edited(u.body)
      /\ u.body \in Body /\ u.source \in Container /\ u.base \in Inode /\ ~u.succeeded
      /\ u.source.form = IF u.mpqe THEN "mpqe" ELSE "mpq"
      /\ ~u.dirty => u.body = u.source.body
      /\ data[u.working] = [form |-> "mpq", body |-> u.body]
  <2>1. u.sibling \in Inode /\ u.packed = None /\ u.pending \in Edited(u.body)
    BY HandleFacts, <1>2 DEF HasItsFiles, KnowsItsSnapshot
  <2>2. u.sibling \in Owned(h)
    BY <2>1 DEF Owned
  <2> QED
    BY <2>1, <2>2, <1>2, SnapshotFacts, WorkingFacts DEF Editing, EncodeBegin
<1>4. /\ t \in Txn /\ t.source = u.source /\ t.base = u.base /\ t.mpqe = u.mpqe
      /\ t.encodes = u.encodes
      /\ t.working = u.working /\ t.sibling = u.sibling /\ t.packed = i
      /\ t.body = u.body /\ t.dirty = u.dirty /\ t.succeeded = u.succeeded
      /\ t.pending = u.pending
  BY HandleFacts DEF Txn
<1>5. i \in Free /\ i # u.working /\ i # u.sibling
  BY <1>1, <1>3, HandleFacts DEF CreateTemporary
<1>6. FilesOf(t) = Owned(h) \cup {i}
  BY <1>3, <1>4 DEF FilesOf, Owned
<1>7. HasItsFiles("encode", t)
  BY <1>3, <1>4, <1>5 DEF HasItsFiles, Begun, Editing
<1>8. KnowsItsSnapshot("encode", t)
  BY <1>3, <1>4 DEF KnowsItsSnapshot, Begun, Editing, Committing, Settled
<1>9. FilesStore("encode", t, data')
  <2>1. data'[u.working] = data[u.working]
    BY <1>1, <1>3, <1>5 DEF CreateTemporary, IInv, TypeOK
  <2> QED
    BY <2>1, <1>3, <1>4 DEF FilesStore
<1> HIDE DEF t, u
<1> QED
  BY <1>1, <1>2, <1>4, <1>6, <1>7, <1>8, <1>9, CreateStep, Zenon

\* A removal leaves the other files of the directory as they are.
LEMMA RemoveFacts ==
    ASSUME IInv, NEW files \in SUBSET Inode, NEW left, Remove(files, left)
    PROVE  /\ left \in SUBSET files
           /\ temps' = temps \ (files \ left) /\ leaked' = leaked \cup left
           /\ data' \in [Inode -> Container \cup {Partial}]
           /\ \A j \in Inode : data'[j] # data[j] => j \in files
  BY DEF Remove, Leak, IInv, TypeOK

\* update_encode removes its one-member archive again.
LEMMA EncodeEndInv ==
    ASSUME IInv, NEW h \in Handle, EncodeEnd(h)
    PROVE  IInv'
<1> USE UpdateAssumption
<1> DEFINE u == txn[h]
           t == [u EXCEPT !.packed = None, !.encodes = u.encodes - 1]
           f == {u.packed}
<1>1. PICK left : Remove(f, left)
  BY DEF EncodeEnd
<1>2. /\ pc[h] = "encode" /\ Goto(h, "rebuild") /\ "rebuild" \in PC
      /\ UNCHANGED <<dest, outcome>> /\ txn' = [txn EXCEPT ![h] = t]
      /\ outcome' \in [Handle -> {"idle", "committed", "discarded"}]
  BY DEF EncodeEnd, PC, IInv, TypeOK
<1>3. /\ u.working \in Inode /\ u.sibling \in Inode /\ u.packed \in Inode
      /\ u.sibling # u.working /\ u.packed # u.working /\ u.packed # u.sibling
      /\ Owned(h) = {u.working, u.sibling, u.packed}
      /\ u.pending \in Edited(u.body)
      /\ u.body \in Body /\ u.source \in Container /\ u.base \in Inode /\ ~u.succeeded
      /\ u.source.form = IF u.mpqe THEN "mpqe" ELSE "mpq"
      /\ ~u.dirty => u.body = u.source.body
      /\ data[u.working] = [form |-> "mpq", body |-> u.body]
  <2>1. /\ u.sibling \in Inode /\ u.packed \in Inode /\ u.pending \in Edited(u.body)
        /\ u.packed # u.sibling
    BY HandleFacts, <1>2 DEF HasItsFiles, KnowsItsSnapshot
  <2>2. Owned(h) = {u.working, u.sibling, u.packed}
    BY <2>1, <1>2, WorkingFacts, Zenon DEF Owned, Editing
  <2> QED
    BY <2>1, <2>2, <1>2, SnapshotFacts, WorkingFacts DEF Editing
<1>4. /\ t \in Txn /\ t.source = u.source /\ t.base = u.base /\ t.mpqe = u.mpqe
      /\ t.working = u.working /\ t.sibling = u.sibling /\ t.packed = None
      /\ t.body = u.body /\ t.dirty = u.dirty /\ t.succeeded = u.succeeded
      /\ t.pending = u.pending
  <2>1. u.encodes - 1 \in 0..MaxEncodes
    BY HandleFacts, <1>2 DEF KnowsItsSnapshot, Txn
  <2> QED
    BY HandleFacts, <2>1, ZenonT(60) DEF Txn
<1>5. /\ FilesOf(t) = Owned(h) \ f /\ f \in SUBSET Inode /\ f \in SUBSET Owned(h)
      /\ u.working \notin f
  BY <1>3, <1>4 DEF FilesOf
<1>6. HasItsFiles("rebuild", t)
  BY <1>3, <1>4 DEF HasItsFiles, Begun, Editing
<1>7. KnowsItsSnapshot("rebuild", t)
  BY <1>3, <1>4 DEF KnowsItsSnapshot, Begun, Editing, Committing, Settled
<1> HIDE DEF f, t, u
<1>8. /\ left \in SUBSET f /\ temps' = temps \ (f \ left) /\ leaked' = leaked \cup left
      /\ data' \in [Inode -> Container \cup {Partial}]
      /\ \A j \in Inode : data'[j] # data[j] => j \in f
  <2>1. f \in SUBSET Inode
    BY <1>5
  <2> QED
    BY <1>1, <2>1, RemoveFacts, Zenon
<1>9. /\ \A j \in Inode : data'[j] # data[j] => j \in Owned(h)
      /\ data'[u.working] = data[u.working]
  BY <1>3, <1>5, <1>8
<1>10. FilesStore("rebuild", t, data')
  BY <1>9, <1>3, <1>4 DEF FilesStore
<1> QED
  BY <1>2, <1>4, <1>5, <1>6, <1>7, <1>8, <1>9, <1>10, RemoveStep, Zenon

\* update_apply adopts the rebuild and drops the previous working copy.
LEMMA EditAdoptInv ==
    ASSUME IInv, NEW h \in Handle, EditAdopt(h)
    PROVE  IInv'
<1> USE UpdateAssumption
<1> DEFINE u == txn[h]
           b == u.pending
           s == u.sibling
           t == [u EXCEPT !.working = s, !.sibling = None,
                          !.body = b, !.pending = None, !.dirty = TRUE]
<1>1. PICK left \in SUBSET {u.working} :
         /\ temps' = temps \ ({u.working} \ left)
         /\ data' = [i \in Inode |->
                       IF i = u.sibling THEN [form |-> "mpq", body |-> b]
                       ELSE IF i \in {u.working} \ left THEN Partial ELSE data[i]]
         /\ Leak(left)
  BY DEF EditAdopt
<1>2. /\ pc[h] = "rebuild" /\ Goto(h, "open") /\ "open" \in PC
      /\ dest' = dest /\ txn' = [txn EXCEPT ![h] = t]
      /\ outcome' \in [Handle -> {"idle", "committed", "discarded"}]
  BY DEF EditAdopt, PC, IInv, TypeOK
<1>3. /\ u.working \in Inode /\ u.sibling \in Inode /\ u.packed = None
      /\ u.sibling # u.working
      /\ Owned(h) = {u.working, u.sibling}
      /\ b \in Body
      /\ u.body \in Body /\ u.source \in Container /\ u.base \in Inode /\ ~u.succeeded
      /\ u.source.form = IF u.mpqe THEN "mpqe" ELSE "mpq"
  <2>1. u.sibling \in Inode /\ u.packed = None /\ u.pending \in Edited(u.body)
    BY HandleFacts, <1>2 DEF HasItsFiles, KnowsItsSnapshot
  <2>2. u.body \in Body
    BY <1>2, SnapshotFacts DEF Editing
  <2>3. b \in Body
    BY <2>1, <2>2, EditedIsBody
  <2>4. Owned(h) = {u.working, u.sibling}
    BY <2>1, <1>2, WorkingFacts, Zenon DEF Owned, Editing
  <2> QED
    BY <2>1, <2>3, <2>4, <1>2, SnapshotFacts, WorkingFacts, Zenon DEF Editing
<1>4. /\ t \in Txn /\ t.source = u.source /\ t.base = u.base /\ t.mpqe = u.mpqe
      /\ t.working = u.sibling /\ t.sibling = None /\ t.packed = None
      /\ t.body = b /\ t.dirty = TRUE /\ t.succeeded = u.succeeded
  <2>1. u \in Txn /\ s \in Inode /\ b \in Body
    BY HandleFacts, <1>3
  <2>2. u.packed = None /\ s = u.sibling
    BY <1>3
  <2> HIDE DEF u, b, s
  <2> QED
    BY <2>1, <2>2, ZenonT(60) DEF Txn
<1>5. FilesOf(t) = Owned(h) \ {u.working}
  BY <1>3, <1>4 DEF FilesOf
<1>6. HasItsFiles("open", t)
  BY <1>3, <1>4 DEF HasItsFiles, Begun, Editing
<1>7. KnowsItsSnapshot("open", t)
  BY <1>3, <1>4 DEF KnowsItsSnapshot, Begun, Editing, Committing, Settled
<1>8. /\ {u.working} \in SUBSET Owned(h)
      /\ temps' = temps \ ({u.working} \ left) /\ leaked' = leaked \cup left
  BY <1>1, <1>3 DEF Leak
<1>9. /\ data' \in [Inode -> Container \cup {Partial}]
      /\ \A j \in Inode : data'[j] # data[j] => j \in Owned(h)
      /\ data'[u.sibling] = [form |-> "mpq", body |-> b]
  <2>1. [form |-> "mpq", body |-> b] \in Container
    BY <1>3, ContainerParts DEF Form
  <2> HIDE DEF u, b
  <2> QED
    BY <2>1, <1>1, <1>3 DEF IInv, TypeOK
<1>10. FilesStore("open", t, data')
  BY <1>9, <1>4 DEF FilesStore
<1> HIDE DEF t, u, b
<1> QED
  BY <1>1, <1>2, <1>4, <1>5, <1>6, <1>7, <1>8, <1>9, <1>10, RemoveStep, Zenon

\* A failing edit drops its unfinished files and keeps the working copy.
LEMMA EditFailsInv ==
    ASSUME IInv, NEW h \in Handle, EditFails(h)
    PROVE  IInv'
<1> USE UpdateAssumption
<1> DEFINE u == txn[h]
           t == [u EXCEPT !.sibling = None, !.packed = None,
                          !.pending = None, !.encodes = 0]
           f == {u.sibling, u.packed} \ {None}
<1>1. PICK left : Remove(f, left)
  BY DEF EditFails
<1>2. /\ pc[h] \in {"rebuild", "encode"} /\ Goto(h, "open") /\ "open" \in PC
      /\ dest' = dest /\ txn' = [txn EXCEPT ![h] = t]
      /\ outcome' \in [Handle -> {"idle", "committed", "discarded"}]
  BY DEF EditFails, PC, IInv, TypeOK
<1>3. /\ u.working \in Inode /\ f \in SUBSET Owned(h) /\ f \in SUBSET Inode
      /\ Owned(h) \ f = {u.working} /\ u.working \notin f
      /\ u.body \in Body /\ u.source \in Container /\ u.base \in Inode /\ ~u.succeeded
      /\ u.source.form = IF u.mpqe THEN "mpqe" ELSE "mpq"
      /\ ~u.dirty => u.body = u.source.body
      /\ data[u.working] = [form |-> "mpq", body |-> u.body]
  <2>1. f \in SUBSET Owned(h) /\ Owned(h) \in SUBSET Inode
    BY HandleFacts DEF Owned
  <2>2. u.working \in Inode /\ u.working \notin f /\ Owned(h) \ f = {u.working}
    BY <1>2, WorkingFacts, Zenon DEF Owned, Editing
  <2> QED
    BY <2>1, <2>2, <1>2, SnapshotFacts, WorkingFacts DEF Editing
<1>4. /\ t \in Txn /\ t.source = u.source /\ t.base = u.base /\ t.mpqe = u.mpqe
      /\ t.working = u.working /\ t.sibling = None /\ t.packed = None
      /\ t.body = u.body /\ t.dirty = u.dirty /\ t.succeeded = u.succeeded
  <2>1. 0 \in 0..MaxEncodes
    OBVIOUS
  <2> QED
    BY HandleFacts, <2>1, ZenonT(60) DEF Txn
<1>5. FilesOf(t) = Owned(h) \ f
  BY <1>3, <1>4 DEF FilesOf
<1>6. HasItsFiles("open", t)
  BY <1>3, <1>4 DEF HasItsFiles, Begun, Editing
<1>7. KnowsItsSnapshot("open", t)
  BY <1>3, <1>4 DEF KnowsItsSnapshot, Begun, Editing, Committing, Settled
<1> HIDE DEF f
<1>8. /\ left \in SUBSET f /\ temps' = temps \ (f \ left) /\ leaked' = leaked \cup left
      /\ data' \in [Inode -> Container \cup {Partial}]
      /\ \A j \in Inode : data'[j] # data[j] => j \in f
  <2>1. f \in SUBSET Inode
    BY <1>3
  <2> QED
    BY <1>1, <2>1, RemoveFacts, Zenon
<1>9. /\ \A j \in Inode : data'[j] # data[j] => j \in Owned(h)
      /\ data'[u.working] = data[u.working]
  BY <1>3, <1>8
<1>10. FilesStore("open", t, data')
  BY <1>3, <1>9, <1>4 DEF FilesStore
<1> HIDE DEF t, u
<1> QED
  BY <1>2, <1>3, <1>4, <1>5, <1>6, <1>7, <1>8, <1>9, <1>10, RemoveStep, Zenon

\* A step that only moves on to another label.
LEMMA MoveStep ==
    ASSUME IInv, NEW h \in Handle, NEW l \in PC,
           Goto(h, l), UNCHANGED <<fs, txn, outcome, leaked>>,
           HasItsFiles(l, txn[h]), KnowsItsSnapshot(l, txn[h]), FilesStore(l, txn[h], data)
    PROVE  IInv'
<1> DEFINE t == txn[h]
<1>1. /\ t \in Txn /\ FilesOf(t) = Owned(h)
      /\ HasItsFiles(l, t) /\ KnowsItsSnapshot(l, t) /\ FilesStore(l, t, data')
      /\ UNCHANGED <<dest, temps, outcome, leaked>> /\ data' = data
      /\ data' \in [Inode -> Container \cup {Partial}]
  BY HandleFacts DEF fs, IInv, TypeOK
<1>2. txn' = [txn EXCEPT ![h] = t]
  BY DEF IInv, TypeOK
<1> HIDE DEF t
<1> QED
  BY <1>1, <1>2, KeepStep, Zenon

\* libmpq__update_commit starts from an open transaction.
LEMMA CommitInv ==
    ASSUME IInv, NEW h \in Handle, Commit(h)
    PROVE  IInv'
<1> USE UpdateAssumption
<1> DEFINE u == txn[h]
           l == IF u.mpqe /\ u.dirty THEN "encrypt" ELSE "identity"
<1>1. /\ pc[h] = "open" /\ Goto(h, l) /\ UNCHANGED <<fs, txn, outcome, leaked>>
      /\ l \in PC /\ l \in {"encrypt", "identity"}
      /\ (l = "encrypt" <=> u.mpqe /\ u.dirty)
  BY DEF Commit, PC
<1>2. u.sibling = None /\ u.packed = None
  BY HandleFacts, <1>1 DEF HasItsFiles
<1>3. /\ u.working \in Inode
      /\ data[u.working] = [form |-> "mpq", body |-> u.body]
      /\ u.body \in Body /\ u.source \in Container /\ u.base \in Inode /\ ~u.succeeded
      /\ u.source.form = IF u.mpqe THEN "mpqe" ELSE "mpq"
      /\ ~u.dirty => u.body = u.source.body
      /\ u.mpqe \in BOOLEAN /\ u.dirty \in BOOLEAN
  BY <1>1, SnapshotFacts, WorkingFacts DEF Editing
<1> HIDE DEF l, u
<1>4. HasItsFiles(l, u)
  BY <1>1, <1>2, <1>3 DEF HasItsFiles, Begun, Editing
<1>5. KnowsItsSnapshot(l, u)
  BY <1>1, <1>3 DEF KnowsItsSnapshot, Begun, Editing, Committing, Settled
<1>6. FilesStore(l, u, data)
  BY <1>1, <1>3 DEF FilesStore, Replacement
<1> QED
  BY <1>1, <1>4, <1>5, <1>6, MoveStep DEF u

\* commit_mpqe creates the encrypted file.
LEMMA EncryptedTemporaryInv ==
    ASSUME IInv, NEW h \in Handle, EncryptedTemporary(h)
    PROVE  IInv'
<1> USE UpdateAssumption
<1>1. PICK i \in Inode : /\ CreateTemporary(i)
                         /\ txn' = [txn EXCEPT ![h] = [@ EXCEPT !.sibling = i]]
  BY Zenon DEF EncryptedTemporary
<1> DEFINE u == txn[h]
           t == [u EXCEPT !.sibling = i]
<1>2. /\ pc[h] = "encrypt" /\ Goto(h, "transform") /\ "transform" \in PC
      /\ UNCHANGED <<dest, outcome, leaked>>
      /\ txn' = [txn EXCEPT ![h] = t]
  BY <1>1, Zenon DEF EncryptedTemporary, PC
<1>3. /\ u.working \in Inode /\ u.working \in Owned(h)
      /\ u.sibling = None /\ u.packed = None /\ u.mpqe /\ u.dirty
      /\ u.body \in Body /\ u.source \in Container /\ u.base \in Inode /\ ~u.succeeded
      /\ u.source.form = "mpqe"
      /\ data[u.working] = [form |-> "mpq", body |-> u.body]
  <2>1. u.sibling = None /\ u.packed = None /\ u.mpqe /\ u.dirty
    BY HandleFacts, <1>2 DEF HasItsFiles, KnowsItsSnapshot
  <2> QED
    BY <2>1, <1>2, SnapshotFacts, WorkingFacts DEF Committing
<1>4. /\ t \in Txn /\ t.source = u.source /\ t.base = u.base /\ t.mpqe = u.mpqe
      /\ t.working = u.working /\ t.sibling = i /\ t.packed = u.packed
      /\ t.body = u.body /\ t.dirty = u.dirty /\ t.succeeded = u.succeeded
  BY HandleFacts DEF Txn
<1>5. i \in Free /\ i # u.working
  BY <1>1, <1>3, HandleFacts DEF CreateTemporary
<1>6. FilesOf(t) = Owned(h) \cup {i}
  BY <1>3, <1>4 DEF FilesOf, Owned
<1>7. HasItsFiles("transform", t)
  BY <1>3, <1>4, <1>5 DEF HasItsFiles, Begun, Editing
<1>8. KnowsItsSnapshot("transform", t)
  BY <1>3, <1>4 DEF KnowsItsSnapshot, Begun, Editing, Committing, Settled
<1>9. FilesStore("transform", t, data')
  <2>1. data'[u.working] = data[u.working]
    BY <1>1, <1>3, <1>5 DEF CreateTemporary, IInv, TypeOK
  <2> QED
    BY <2>1, <1>3, <1>4 DEF FilesStore
<1> HIDE DEF t, u
<1> QED
  BY <1>1, <1>2, <1>4, <1>6, <1>7, <1>8, <1>9, CreateStep, Zenon

\* commit_mpqe encrypts the working copy.
LEMMA TransformInv ==
    ASSUME IInv, NEW h \in Handle, Transform(h)
    PROVE  IInv'
<1> USE UpdateAssumption
<1> DEFINE t == txn[h]
           c == [form |-> "mpqe", body |-> t.body]
<1>1. /\ pc[h] = "transform" /\ Goto(h, "unlink") /\ "unlink" \in PC
      /\ UNCHANGED <<dest, temps, txn, outcome, leaked>>
      /\ data' = [data EXCEPT ![t.sibling] =
                     [form |-> "mpqe", body |-> data[t.working].body]]
      /\ txn' = [txn EXCEPT ![h] = t]
  BY DEF Transform, PC, IInv, TypeOK
<1>2. /\ t.working \in Inode /\ t.working # t.sibling
      /\ t.sibling \in Inode /\ t.sibling \in Owned(h)
      /\ t.packed = None /\ t.mpqe /\ t.dirty /\ t.sibling # None
      /\ t.body \in Body /\ t.source \in Container /\ t.base \in Inode /\ ~t.succeeded
      /\ t.source.form = "mpqe"
      /\ data[t.working] = [form |-> "mpq", body |-> t.body]
  <2>1. t.sibling \in Inode /\ t.packed = None /\ t.mpqe /\ t.dirty
    BY HandleFacts, <1>1 DEF HasItsFiles, KnowsItsSnapshot
  <2>2. t.sibling \in Owned(h) /\ t.sibling # None
    BY <2>1 DEF Owned
  <2> QED
    BY <2>1, <2>2, <1>1, SnapshotFacts, WorkingFacts DEF Committing
<1>3. c \in Container /\ data' = [data EXCEPT ![t.sibling] = c]
  <2>1. c \in Container
    BY <1>2, ContainerParts DEF Form
  <2>2. data[t.working].body = t.body
    BY <1>2
  <2> QED
    BY <1>1, <2>1, <2>2, Zenon
<1>4. HasItsFiles("unlink", t)
  BY <1>2 DEF HasItsFiles, Begun, Editing
<1>5. KnowsItsSnapshot("unlink", t)
  BY <1>2 DEF KnowsItsSnapshot, Begun, Editing, Committing, Settled
<1>6. /\ data' \in [Inode -> Container \cup {Partial}]
      /\ \A j \in Inode : data'[j] # data[j] => j \in Owned(h)
      /\ data'[t.sibling] = c /\ data'[t.working] = data[t.working]
  <2> HIDE DEF c
  <2> QED
    BY <1>2, <1>3 DEF IInv, TypeOK
<1>7. FilesStore("unlink", t, data')
  BY <1>2, <1>6 DEF FilesStore, Replacement
<1>8. t \in Txn /\ FilesOf(t) = Owned(h)
  BY HandleFacts
<1> HIDE DEF t, c
<1> QED
  BY <1>1, <1>4, <1>5, <1>6, <1>7, <1>8, KeepStep, Zenon

\* commit_mpqe removes the plaintext; the encrypted file stays.
LEMMA UnlinkPlaintextInv ==
    ASSUME IInv, NEW h \in Handle, UnlinkPlaintext(h)
    PROVE  IInv'
<1> USE UpdateAssumption
<1> DEFINE u == txn[h]
           t == [u EXCEPT !.working = None]
           f == {u.working}
           left == {}
<1>1. /\ pc[h] = "unlink" /\ Goto(h, "identity") /\ "identity" \in PC
      /\ dest' = dest /\ txn' = [txn EXCEPT ![h] = t] /\ Remove(f, left)
      /\ outcome' \in [Handle -> {"idle", "committed", "discarded"}]
  BY DEF UnlinkPlaintext, PC, IInv, TypeOK
<1>2. /\ u.working \in Inode /\ u.working # u.sibling /\ u.working \in Owned(h)
      /\ u.sibling \in Inode /\ u.sibling # None
      /\ u.packed = None /\ u.mpqe /\ u.dirty
      /\ u.body \in Body /\ u.source \in Container /\ u.base \in Inode /\ ~u.succeeded
      /\ u.source.form = "mpqe"
      /\ data[u.sibling] = [form |-> u.source.form, body |-> u.body]
  <2>1. u.sibling \in Inode /\ u.packed = None /\ u.mpqe /\ u.dirty
    BY HandleFacts, <1>1 DEF HasItsFiles, KnowsItsSnapshot
  <2>2. data[u.sibling] = [form |-> u.source.form, body |-> u.body]
    BY <2>1, HandleFacts, <1>1, Zenon DEF FilesStore, Replacement
  <2> QED
    BY <2>1, <2>2, <1>1, SnapshotFacts, WorkingFacts, Zenon DEF Committing
<1>3. /\ t \in Txn /\ t.source = u.source /\ t.base = u.base /\ t.mpqe = u.mpqe
      /\ t.working = None /\ t.sibling = u.sibling /\ t.packed = u.packed
      /\ t.body = u.body /\ t.dirty = u.dirty /\ t.succeeded = u.succeeded
  BY HandleFacts DEF Txn
<1>4. /\ FilesOf(t) = Owned(h) \ f /\ f \in SUBSET Inode /\ f \in SUBSET Owned(h)
      /\ u.sibling \notin f
  BY <1>2, <1>3 DEF FilesOf, Owned
<1>5. HasItsFiles("identity", t)
  BY <1>2, <1>3 DEF HasItsFiles, Begun, Editing
<1>6. KnowsItsSnapshot("identity", t)
  BY <1>2, <1>3 DEF KnowsItsSnapshot, Begun, Editing, Committing, Settled
<1> HIDE DEF f, left
<1>7. /\ left \in SUBSET f /\ temps' = temps \ (f \ left) /\ leaked' = leaked \cup left
      /\ data' \in [Inode -> Container \cup {Partial}]
      /\ \A j \in Inode : data'[j] # data[j] => j \in f
  <2>1. f \in SUBSET Inode
    BY <1>4
  <2> QED
    BY <1>1, <2>1, RemoveFacts, Zenon
<1>8. /\ \A j \in Inode : data'[j] # data[j] => j \in Owned(h)
      /\ data'[u.sibling] = data[u.sibling]
  BY <1>2, <1>4, <1>7
<1>9. FilesStore("identity", t, data')
  BY <1>2, <1>3, <1>8 DEF FilesStore, Replacement
<1> HIDE DEF t, u
<1> QED
  BY <1>1, <1>3, <1>4, <1>5, <1>6, <1>7, <1>8, <1>9, RemoveStep, Zenon

\* update_identity lets the commit pass, or ends an unmodified MPQE one.
LEMMA IdentityInv ==
    ASSUME IInv, NEW h \in Handle, Identity(h)
    PROVE  IInv'
<1> USE UpdateAssumption
<1> DEFINE u == txn[h]
           t == [u EXCEPT !.succeeded = TRUE]
<1>1. pc[h] = "identity" /\ "publish" \in PC /\ "discard" \in PC
  BY DEF Identity, PC
<1>2. /\ u.body \in Body /\ u.source \in Container /\ u.base \in Inode /\ ~u.succeeded
      /\ u.source.form = IF u.mpqe THEN "mpqe" ELSE "mpq"
      /\ ~u.dirty => u.body = u.source.body
      /\ u.mpqe \in BOOLEAN /\ u.dirty \in BOOLEAN
  BY <1>1, SnapshotFacts DEF Committing
<1>3. HasItsFiles("identity", u) /\ FilesStore("identity", u, data)
  BY <1>1, HandleFacts
<1>4. CASE u.mpqe /\ ~u.dirty
  <2>1. /\ Goto(h, "discard") /\ txn' = [txn EXCEPT ![h] = t]
        /\ UNCHANGED <<dest, temps, outcome, leaked>> /\ data' = data
        /\ data' \in [Inode -> Container \cup {Partial}]
    BY <1>4 DEF Identity, fs, IInv, TypeOK
  <2>2. /\ t \in Txn /\ t.source = u.source /\ t.base = u.base /\ t.mpqe = u.mpqe
        /\ t.working = u.working /\ t.sibling = u.sibling /\ t.packed = u.packed
        /\ t.body = u.body /\ t.dirty = u.dirty
    BY HandleFacts, Zenon DEF Txn
  <2>3. FilesOf(t) = Owned(h)
    BY <2>2, HandleFacts DEF FilesOf
  <2>4. HasItsFiles("discard", t)
    BY <1>3, <2>2 DEF HasItsFiles, Begun, Editing
  <2>5. KnowsItsSnapshot("discard", t)
    BY <1>2, <1>4, <2>2 DEF KnowsItsSnapshot, Begun, Editing, Committing, Settled
  <2>6. FilesStore("discard", t, data')
    BY DEF FilesStore
  <2> HIDE DEF t, u
  <2> QED
    BY <1>1, <2>1, <2>2, <2>3, <2>4, <2>5, <2>6, KeepStep, Zenon
<1>5. CASE ~(u.mpqe /\ ~u.dirty)
  <2>1. Goto(h, "publish") /\ UNCHANGED <<fs, txn, outcome, leaked>>
    BY <1>5 DEF Identity
  <2>2. HasItsFiles("publish", u)
    BY <1>3 DEF HasItsFiles, Begun, Editing
  <2>3. KnowsItsSnapshot("publish", u)
    BY <1>2, <1>5 DEF KnowsItsSnapshot, Begun, Editing, Committing, Settled
  <2>4. FilesStore("publish", u, data)
    BY <1>3 DEF FilesStore
  <2> QED
    BY <1>1, <2>1, <2>2, <2>3, <2>4, MoveStep
<1> QED
  BY <1>4, <1>5

\* An abort or a failing commit goes to the cleanup with its files.
LEMMA GiveUpInv ==
    ASSUME IInv, NEW h \in Handle, pc[h] \in {"open"} \cup Committing, GiveUp(h)
    PROVE  IInv'
<1>1. /\ pc[h] # "encode" /\ pc[h] \notin Settled /\ pc[h] # "discard"
      /\ pc[h] \in Editing \cup Committing
  BY DEF Committing, Settled, Editing
<1>2. HasItsFiles("discard", txn[h])
  BY <1>1, HandleFacts DEF HasItsFiles, Begun, Editing
<1>3. KnowsItsSnapshot("discard", txn[h])
  BY <1>1, HandleFacts, SnapshotFacts DEF KnowsItsSnapshot, Begun, Editing, Committing, Settled
<1>4. FilesStore("discard", txn[h], data)
  BY DEF FilesStore
<1>5. /\ Goto(h, "discard") /\ UNCHANGED <<fs, txn, outcome, leaked>> /\ "discard" \in PC
  BY DEF GiveUp, PC
<1> QED
  BY <1>2, <1>3, <1>4, <1>5, MoveStep

\* A handle whose transaction has ended owns nothing.
LEMMA NoTxnFacts ==
    ASSUME NEW l \in Settled, NEW d
    PROVE  /\ l \in PC /\ NoTxn \in Txn /\ FilesOf(NoTxn) = {}
           /\ HasItsFiles(l, NoTxn) /\ KnowsItsSnapshot(l, NoTxn)
           /\ FilesStore(l, NoTxn, d)
<1> USE UpdateAssumption
<1>1. l \in PC /\ FilesOf(NoTxn) = {}
  BY DEF Settled, PC, NoTxn, FilesOf
<1>2. HasItsFiles(l, NoTxn)
  BY DEF HasItsFiles, NoTxn, Begun, Editing, Settled
<1>3. KnowsItsSnapshot(l, NoTxn)
  BY DEF KnowsItsSnapshot, NoTxn, Settled, Begun, Editing, Committing
<1>4. FilesStore(l, NoTxn, d)
  BY DEF FilesStore, Settled
<1> QED
  BY <1>1, <1>2, <1>3, <1>4, NoTxnIsTxn

\* update_cleanup removes what the transaction owns, as far as it can.
LEMMA DiscardInv ==
    ASSUME IInv, NEW h \in Handle, Discard(h)
    PROVE  IInv'
<1> DEFINE f == Owned(h)
<1>1. PICK left : /\ Remove(f, left)
                  /\ outcome' = [outcome EXCEPT ![h] =
                       IF txn[h].succeeded /\ left = {} THEN "committed" ELSE "discarded"]
  BY DEF Discard
<1>2. /\ Goto(h, "idle") /\ txn' = [txn EXCEPT ![h] = NoTxn] /\ dest' = dest
      /\ outcome' \in [Handle -> {"idle", "committed", "discarded"}]
      /\ "idle" \in Settled
  BY <1>1 DEF Discard, IInv, TypeOK, Settled
<1>3. f \in SUBSET Inode /\ f \in SUBSET Owned(h) /\ f = Owned(h)
  BY HandleFacts
<1> HIDE DEF f
<1>4. /\ left \in SUBSET f /\ temps' = temps \ (f \ left) /\ leaked' = leaked \cup left
      /\ data' \in [Inode -> Container \cup {Partial}]
      /\ \A j \in Inode : data'[j] # data[j] => j \in f
  <2>1. f \in SUBSET Inode
    BY <1>3
  <2> QED
    BY <1>1, <2>1, RemoveFacts, Zenon
<1>5. /\ "idle" \in PC /\ NoTxn \in Txn /\ FilesOf(NoTxn) = Owned(h) \ f
      /\ HasItsFiles("idle", NoTxn) /\ KnowsItsSnapshot("idle", NoTxn)
      /\ FilesStore("idle", NoTxn, data')
  BY <1>2, <1>3, NoTxnFacts
<1>6. \A j \in Inode : data'[j] # data[j] => j \in Owned(h)
  BY <1>3, <1>4
<1> QED
  BY <1>2, <1>3, <1>4, <1>5, <1>6, RemoveStep, Zenon

\* The process dies and its files become leaked.
LEMMA CrashInv ==
    ASSUME IInv, NEW h \in Handle, Crash(h)
    PROVE  IInv'
<1> DEFINE f == Owned(h)
<1>1. /\ Goto(h, "crashed") /\ txn' = [txn EXCEPT ![h] = NoTxn] /\ dest' = dest
      /\ outcome' \in [Handle -> {"idle", "committed", "discarded"}]
      /\ "crashed" \in Settled
      /\ data' = data /\ data' \in [Inode -> Container \cup {Partial}]
      /\ leaked' = leaked \cup f /\ temps' = temps \ (f \ f)
  BY DEF Crash, Leak, IInv, TypeOK, Settled, fs
<1>2. f \in SUBSET Owned(h) /\ f \in SUBSET f /\ f = Owned(h)
  OBVIOUS
<1> HIDE DEF f
<1> QED
  BY <1>1, <1>2, NoTxnFacts, RemoveStep, ZenonT(60)

\* Only the note that the destination moved changes in a handle when somebody
\* else rebinds the destination name.
LEMMA RebindFacts ==
    ASSUME IInv, NEW i, NEW self, Rebind(i, self), NEW g \in Handle, g # self
    PROVE  /\ txn'[g] \in Txn
           /\ txn'[g].mpqe = txn[g].mpqe /\ txn'[g].base = txn[g].base
           /\ txn'[g].source = txn[g].source /\ txn'[g].reading = txn[g].reading
           /\ txn'[g].working = txn[g].working /\ txn'[g].sibling = txn[g].sibling
           /\ txn'[g].packed = txn[g].packed /\ txn'[g].body = txn[g].body
           /\ txn'[g].pending = txn[g].pending /\ txn'[g].encodes = txn[g].encodes
           /\ txn'[g].dirty = txn[g].dirty /\ txn'[g].succeeded = txn[g].succeeded
           /\ pc[g] \in Settled => txn'[g] = txn[g]
           /\ txn'[g].moved = (txn[g].moved \/ pc[g] \notin Settled \cup {"publish"})
<1> DEFINE u == txn[g]
           m == u.moved \/ pc[g] \notin Settled \cup {"publish"}
           t == [u EXCEPT !.moved = m]
<1>1. txn'[g] = t
  BY DEF Rebind
<1>2. u \in Txn /\ m \in BOOLEAN
  BY HandleFacts
<1>3. pc[g] \in Settled => m = u.moved
  <2>1. u.moved \in BOOLEAN
    BY HandleFacts DEF Txn
  <2> QED
    BY <2>1, Zenon
<1> HIDE DEF u, m
<1>4. /\ t \in Txn
      /\ t.mpqe = u.mpqe /\ t.base = u.base /\ t.source = u.source
      /\ t.reading = u.reading /\ t.working = u.working /\ t.sibling = u.sibling
      /\ t.packed = u.packed /\ t.body = u.body /\ t.pending = u.pending
      /\ t.encodes = u.encodes /\ t.dirty = u.dirty /\ t.succeeded = u.succeeded
      /\ t.moved = m
  BY <1>2 DEF Txn
<1>5. m = u.moved => t = u
  BY <1>2 DEF Txn
<1> HIDE DEF t
<1> QED
  BY <1>1, <1>3, <1>4, <1>5 DEF u, m

\* So the other transactions stay in order when no file of theirs changes.
LEMMA OthersStay ==
    ASSUME IInv, NEW i, NEW self, Rebind(i, self), NEW g \in Handle, g # self,
           \A j \in Owned(g) : data'[j] = data[j]
    PROVE  /\ Owned(g)' = Owned(g)
           /\ HasItsFiles(pc[g], txn'[g])
           /\ KnowsItsSnapshot(pc[g], txn'[g])
           /\ FilesStore(pc[g], txn'[g], data')
<1> USE UpdateAssumption
<1> DEFINE u == txn[g]
           t == txn'[g]
<1>1. /\ t.mpqe = u.mpqe /\ t.base = u.base /\ t.source = u.source
      /\ t.working = u.working /\ t.sibling = u.sibling
      /\ t.packed = u.packed /\ t.body = u.body /\ t.pending = u.pending
      /\ t.encodes = u.encodes /\ t.dirty = u.dirty /\ t.succeeded = u.succeeded
      /\ pc[g] \in Settled => t = u
  BY RebindFacts
<1>2. Owned(g)' = Owned(g)
  BY <1>1 DEF Owned
<1>3. HasItsFiles(pc[g], u) /\ KnowsItsSnapshot(pc[g], u) /\ FilesStore(pc[g], u, data)
  BY HandleFacts
<1>4. Owned(g) = {u.working, u.sibling, u.packed} \ {None}
  BY DEF Owned
<1> HIDE DEF t, u
<1>5. HasItsFiles(pc[g], t)
  BY <1>1, <1>3, Zenon DEF HasItsFiles
<1>6. KnowsItsSnapshot(pc[g], t)
  BY <1>1, <1>3 DEF KnowsItsSnapshot
<1>7. FilesStore(pc[g], u, data')
  BY <1>3, <1>4 DEF FilesStore, HasItsFiles, Replacement, Editing
<1>8. FilesStore(pc[g], t, data')
  BY <1>1, <1>7 DEF FilesStore, Replacement
<1> QED
  BY <1>2, <1>5, <1>6, <1>8 DEF t

\* directory_replace makes the replacement the destination file.
LEMMA PublishInv ==
    ASSUME IInv, NEW h \in Handle, Publish(h)
    PROVE  IInv'
<1> USE UpdateAssumption
<1> DEFINE new == Replacement(txn[h])
<1>1. /\ pc[h] = "publish" /\ Rebind(new, h) /\ temps' = temps \ {new}
      /\ data' = [i \in Inode |-> IF i = dest /\ i # new THEN Partial ELSE data[i]]
      /\ Goto(h, "idle") /\ leaked' = leaked
      /\ outcome' = [outcome EXCEPT ![h] = "committed"]
  BY DEF Publish, Replacement
<1>2. /\ new \in Inode /\ Owned(h) = {new} /\ new \in temps /\ new \notin leaked
      /\ data[new] = [form |-> txn[h].source.form, body |-> txn[h].body]
      /\ data[new] \in Container
  <2>1. txn[h].packed = None /\ (txn[h].mpqe => txn[h].dirty)
    BY <1>1, HandleFacts, Zenon DEF HasItsFiles, KnowsItsSnapshot
  <2>2. IF txn[h].mpqe THEN txn[h].working = None /\ txn[h].sibling \in Inode
        ELSE txn[h].working \in Inode /\ txn[h].sibling = None
    BY <1>1, <2>1, HandleFacts, Zenon DEF HasItsFiles
  <2>3. new \in Inode /\ Owned(h) = {new}
    BY <2>1, <2>2 DEF Replacement, Owned
  <2>4. data[new] = [form |-> txn[h].source.form, body |-> txn[h].body]
    BY <1>1, <2>1, HandleFacts, Zenon DEF FilesStore
  <2>5. data[new] \in Container
    BY <1>1, <2>4, SnapshotFacts, ContainerParts DEF Committing
  <2> QED
    BY <2>3, <2>4, <2>5, HandleFacts, Zenon
<1> HIDE DEF new
<1>3. /\ dest' = new /\ txn'[h] = NoTxn
      /\ pc' \in [Handle -> PC] /\ pc'[h] = "idle"
      /\ \A g \in Handle : g # h => pc'[g] = pc[g]
  BY <1>1 DEF Rebind, Goto, IInv, TypeOK, PC
<1>4. data' \in [Inode -> Container \cup {Partial}] /\ data'[new] = data[new]
  BY <1>1, <1>2 DEF IInv, TypeOK
<1>5. /\ \A g \in Handle : g # h => \A j \in Owned(g) : data'[j] = data[j]
      /\ temps \subseteq Inode
  <2>1. ASSUME NEW g \in Handle, NEW j \in Owned(g) PROVE data'[j] = data[j]
    <3>1. j \in temps /\ j \in Inode /\ j # dest
      BY HandleFacts DEF IInv
    <3> QED
      BY <3>1, <1>1
  <2> QED
    BY <2>1 DEF IInv, TypeOK
<1>6. ASSUME NEW g \in Handle, g # h
      PROVE  /\ txn'[g] \in Txn /\ Owned(g)' = Owned(g)
             /\ HasItsFiles(pc'[g], txn'[g])
             /\ KnowsItsSnapshot(pc'[g], txn'[g])
             /\ FilesStore(pc'[g], txn'[g], data')
  <2>1. txn'[g] \in Txn
    BY <1>1, <1>6, RebindFacts
  <2>2. /\ Owned(g)' = Owned(g) /\ HasItsFiles(pc[g], txn'[g])
        /\ KnowsItsSnapshot(pc[g], txn'[g]) /\ FilesStore(pc[g], txn'[g], data')
    BY <1>1, <1>5, <1>6, OthersStay
  <2> QED
    BY <2>1, <2>2, <1>3, <1>6
<1>7. /\ txn'[h] \in Txn /\ Owned(h)' = {}
      /\ HasItsFiles(pc'[h], txn'[h])
      /\ KnowsItsSnapshot(pc'[h], txn'[h])
      /\ FilesStore(pc'[h], txn'[h], data')
  <2>1. "idle" \in Settled
    BY DEF Settled
  <2>2. Owned(h)' = {}
    BY <1>3 DEF Owned, NoTxn
  <2> QED
    BY <2>1, <2>2, <1>3, NoTxnFacts
<1>8. TypeOK'
  <2>1. \A g \in Handle : txn'[g] \in Txn
    BY <1>6, <1>7
  <2>2. txn' \in [Handle -> Txn]
    BY <2>1, <1>1 DEF Rebind
  <2>3. outcome' \in [Handle -> {"idle", "committed", "discarded"}]
    BY <1>1 DEF IInv, TypeOK
  <2> QED
    BY <2>2, <2>3, <1>1, <1>2, <1>3, <1>4, Zenon DEF IInv, TypeOK
<1>9. dest' \notin temps' /\ DestinationComplete'
  BY <1>1, <1>2, <1>3, <1>4 DEF DestinationComplete
<1>10. TemporariesAccountedFor'
  <2>1. \A j : j \in temps <=> j \in leaked \/ \E g \in Handle : j \in Owned(g)
    BY DEF IInv, TemporariesAccountedFor
  <2>2. \A g \in Handle : g # h => new \notin Owned(g)
    BY <1>2 DEF IInv, TemporariesAccountedFor
  <2>3. \A j : j \in temps' <=> j \in leaked' \/ \E g \in Handle : j \in Owned(g)'
    BY <1>1, <1>2, <1>6, <1>7, <2>1, <2>2
  <2>4. /\ \A g \in Handle : Owned(g)' \cap leaked' = {}
        /\ \A f, g \in Handle : f # g => Owned(f)' \cap Owned(g)' = {}
    BY <1>1, <1>6, <1>7 DEF IInv, TemporariesAccountedFor
  <2> QED
    BY <2>3, <2>4 DEF TemporariesAccountedFor
<1> QED
  BY <1>6, <1>7, <1>8, <1>9, <1>10 DEF IInv

\* Another program replaces or removes the destination file: a step that
\* writes no file of any transaction.
LEMMA ForeignInv ==
    ASSUME IInv, NEW i \in Inode \cup {None}, Rebind(i, None), i \notin temps,
           UNCHANGED <<temps, pc, outcome, leaked>>,
           data' \in [Inode -> Container \cup {Partial}],
           i # None => data'[i] \in Container,
           \A j \in temps : data'[j] = data[j]
    PROVE  IInv'
<1> USE UpdateAssumption
<1>1. \A g \in Handle : g # None /\ Owned(g) \subseteq temps
  BY HandleFacts
<1>2. ASSUME NEW g \in Handle
      PROVE  /\ txn'[g] \in Txn /\ Owned(g)' = Owned(g)
             /\ HasItsFiles(pc'[g], txn'[g])
             /\ KnowsItsSnapshot(pc'[g], txn'[g])
             /\ FilesStore(pc'[g], txn'[g], data')
  <2>1. txn'[g] \in Txn
    BY <1>1, RebindFacts
  <2>2. /\ Owned(g)' = Owned(g) /\ HasItsFiles(pc[g], txn'[g])
        /\ KnowsItsSnapshot(pc[g], txn'[g]) /\ FilesStore(pc[g], txn'[g], data')
    BY <1>1, OthersStay
  <2> QED
    BY <2>1, <2>2
<1>3. TypeOK'
  <2>1. txn' \in [Handle -> Txn]
    BY <1>2, Zenon DEF Rebind
  <2>2. dest' = i
    BY DEF Rebind
  <2> QED
    BY <2>1, <2>2 DEF IInv, TypeOK
<1>4. dest' \notin temps' /\ DestinationComplete'
  BY DEF Rebind, DestinationComplete
<1>5. TemporariesAccountedFor'
  <2>1. {Owned(g)' : g \in Handle} = {Owned(g) : g \in Handle}
    BY <1>2
  <2> QED
    BY <1>2, <2>1 DEF IInv, TemporariesAccountedFor
<1> QED
  BY <1>2, <1>3, <1>4, <1>5 DEF IInv

\* Another program renames its file over the destination.
LEMMA ForeignReplaceInv ==
    ASSUME IInv, ForeignReplace
    PROVE  IInv'
<1>1. PICK i \in Free, c \in Given :
         /\ Rebind(i, None)
         /\ data' = [j \in Inode |-> IF j = i THEN c
                                     ELSE IF j = dest THEN Partial ELSE data[j]]
         /\ UNCHANGED <<temps, pc, outcome, leaked>>
  BY DEF ForeignReplace
<1>2. /\ i \in Inode /\ i \notin temps /\ c \in Container
      /\ temps \subseteq Inode /\ dest \notin temps
  BY DEF Free, Given, IInv, TypeOK
<1>3. /\ data' \in [Inode -> Container \cup {Partial}] /\ data'[i] = c
      /\ \A j \in temps : data'[j] = data[j]
  BY <1>1, <1>2 DEF IInv, TypeOK
<1> QED
  BY <1>1, <1>2, <1>3, ForeignInv

\* Another program removes the destination.
LEMMA ForeignRemoveInv ==
    ASSUME IInv, ForeignRemove
    PROVE  IInv'
<1>1. /\ Rebind(None, None) /\ data' = [data EXCEPT ![dest] = Partial]
      /\ UNCHANGED <<temps, pc, outcome, leaked>>
  BY DEF ForeignRemove
<1>2. None \notin temps /\ temps \subseteq Inode /\ dest \notin temps
  BY UpdateAssumption DEF IInv, TypeOK
<1>3. /\ data' \in [Inode -> Container \cup {Partial}]
      /\ \A j \in temps : data'[j] = data[j]
  BY <1>1, <1>2, Zenon DEF IInv, TypeOK
<1> QED
  BY <1>1, <1>2, <1>3, ForeignInv

\* Every step preserves the invariant.
LEMMA NextInv == IInv /\ [Next]_vars => IInv'
<1> SUFFICES ASSUME IInv, [Next]_vars PROVE IInv'
  OBVIOUS
<1>1. ASSUME NEW h \in Handle, NEW mpqe \in BOOLEAN, Begin(h, mpqe) PROVE IInv'
  BY <1>1, BeginInv
<1>2. ASSUME NEW h \in Handle,
             \/ BeginRefused(h) \/ BeginTemporary(h) \/ BeginCopy(h)
             \/ BeginDecode(h) \/ BeginFails(h)
      PROVE  IInv'
  BY <1>2, BeginRefusedInv, BeginTemporaryInv, BeginCopyInv, BeginDecodeInv, BeginFailsInv
<1>3. ASSUME NEW h \in Handle,
             \/ EditBegin(h) \/ EncodeBegin(h) \/ EncodeEnd(h)
             \/ EditAdopt(h) \/ EditFails(h)
      PROVE  IInv'
  BY <1>3, EditBeginInv, EncodeBeginInv, EncodeEndInv, EditAdoptInv, EditFailsInv
<1>4. ASSUME NEW h \in Handle,
             \/ Commit(h) \/ EncryptedTemporary(h) \/ Transform(h)
             \/ UnlinkPlaintext(h) \/ Identity(h) \/ Publish(h)
      PROVE  IInv'
  BY <1>4, CommitInv, EncryptedTemporaryInv, TransformInv, UnlinkPlaintextInv,
     IdentityInv, PublishInv
<1>5. ASSUME NEW h \in Handle, CommitFails(h) \/ Abort(h)
      PROVE  IInv'
  BY <1>5, GiveUpInv DEF CommitFails, Abort, Committing
<1>6. ASSUME NEW h \in Handle, Discard(h) \/ Crash(h)
      PROVE  IInv'
  BY <1>6, DiscardInv, CrashInv
<1>7. CASE ForeignReplace \/ ForeignRemove
  BY <1>7, ForeignReplaceInv, ForeignRemoveInv
<1>8. CASE UNCHANGED vars
  <2>1. TypeOK' /\ (dest \notin temps)' /\ DestinationComplete'
    BY <1>8 DEF vars, IInv, TypeOK, DestinationComplete
  <2>2. TemporariesAccountedFor'
    BY <1>8 DEF vars, IInv, TemporariesAccountedFor, Owned
  <2> QED
    BY <2>1, <2>2, <1>8 DEF vars, IInv
<1> QED
  BY <1>1, <1>2, <1>3, <1>4, <1>5, <1>6, <1>7, <1>8 DEF Next

-----------------------------------------------------------------------------
(* The theorems.                                                           *)

\* The invariant holds in every reachable state.
LEMMA Invariance == Spec => []IInv
  BY InitInv, NextInv, PTL DEF Spec

\* Every variable keeps its type, whichever call, failure or crash happens.
THEOREM TypeCorrect == Spec => []TypeOK
<1>1. IInv => TypeOK
  BY DEF IInv
<1> QED
  BY <1>1, Invariance, PTL

\* Whatever the transactions, their failures and crashes and other programs
\* do, the file under the destination name is a complete archive.
THEOREM DestinationAlwaysComplete == Spec => []DestinationComplete
<1>1. IInv => DestinationComplete
  BY DEF IInv
<1> QED
  BY <1>1, Invariance, PTL

\* The working copy holds the snapshot with the accepted edits until commit
\* has turned it into the replacement.
THEOREM WorkingCopyAlwaysIntact == Spec => []WorkingCopyIntact
<1>1. IInv => WorkingCopyIntact
  BY Zenon DEF IInv, WorkingCopyIntact, FilesStore
<1> QED
  BY <1>1, Invariance, PTL

\* Every temporary has exactly one owner, or was left behind by a failed
\* removal or a crash.
THEOREM NoTemporaryLost == Spec => []TemporariesAccountedFor
<1>1. IInv => TemporariesAccountedFor
  BY DEF IInv
<1> QED
  BY <1>1, Invariance, PTL
=============================================================================
