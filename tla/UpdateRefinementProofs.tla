----------------------- MODULE UpdateRefinementProofs -----------------------
(***************************************************************************)
(* The proof that UpdateTransaction implements AtomicUpdate.               *)
(***************************************************************************)
EXTENDS UpdateTransactionProofs


\* A function that differs from f at most at h is f updated at h.
LEMMA UpdatedAt ==
    ASSUME NEW S, NEW f, NEW fp, NEW h \in S, NEW v,
           f = [x \in S |-> f[x]], fp = [x \in S |-> fp[x]],
           fp[h] = v, \A g \in S : g # h => fp[g] = f[g]
    PROVE  fp = [f EXCEPT ![h] = v]
  OBVIOUS

\* How the abstract state follows a step of one call that leaves the
\* destination file alone.
LEMMA BarStep ==
    ASSUME IInv, NEW h \in Handle, NEW t, NEW l, NEW o,
           txn' = [txn EXCEPT ![h] = t], Goto(h, l),
           outcome' = [outcome EXCEPT ![h] = o],
           dest' = dest, dest # None => data'[dest] = data[dest]
    PROVE  /\ destBar' = destBar
           /\ statusBar' = [statusBar EXCEPT ![h] =
                               IF t.body # None THEN "active"
                               ELSE IF l = "crashed" THEN "crashed" ELSE o]
           /\ originalBar' = [originalBar EXCEPT ![h] =
                               IF t.body # None THEN t.source ELSE None]
           /\ bodyBar' = [bodyBar EXCEPT ![h] = t.body]
<1>1. /\ txn'[h] = t /\ pc'[h] = l /\ outcome'[h] = o
      /\ \A g \in Handle : g # h => /\ txn'[g] = txn[g] /\ pc'[g] = pc[g]
                                    /\ outcome'[g] = outcome[g]
  BY DEF IInv, TypeOK, Goto
<1>2. destBar' = destBar
  BY DEF destBar
<1>3. statusBar' = [statusBar EXCEPT ![h] =
                       IF t.body # None THEN "active"
                       ELSE IF l = "crashed" THEN "crashed" ELSE o]
  <2>1. /\ statusBar = [g \in Handle |-> statusBar[g]]
        /\ statusBar' = [g \in Handle |-> statusBar'[g]]
    BY DEF statusBar
  <2>2. /\ statusBar'[h] = IF t.body # None THEN "active"
                            ELSE IF l = "crashed" THEN "crashed" ELSE o
        /\ \A g \in Handle : g # h => statusBar'[g] = statusBar[g]
    BY <1>1 DEF statusBar, Active
  <2> QED
    BY <2>1, <2>2, UpdatedAt
<1>4. originalBar' = [originalBar EXCEPT ![h] = IF t.body # None THEN t.source ELSE None]
  <2>1. /\ originalBar = [g \in Handle |-> originalBar[g]]
        /\ originalBar' = [g \in Handle |-> originalBar'[g]]
    BY DEF originalBar
  <2>2. /\ originalBar'[h] = IF t.body # None THEN t.source ELSE None
        /\ \A g \in Handle : g # h => originalBar'[g] = originalBar[g]
    BY <1>1 DEF originalBar, Active
  <2> QED
    BY <2>1, <2>2, UpdatedAt
<1>5. bodyBar' = [bodyBar EXCEPT ![h] = t.body]
  <2>1. /\ bodyBar = [g \in Handle |-> bodyBar[g]]
        /\ bodyBar' = [g \in Handle |-> bodyBar'[g]]
    BY DEF bodyBar
  <2>2. /\ bodyBar'[h] = t.body
        /\ \A g \in Handle : g # h => bodyBar'[g] = bodyBar[g]
    BY <1>1 DEF bodyBar
  <2> QED
    BY <2>1, <2>2, UpdatedAt
<1> QED
  BY <1>2, <1>3, <1>4, <1>5

\* A step that keeps the snapshot and the body, with the handle running
\* before and after it, is invisible.
LEMMA BarStutter ==
    ASSUME IInv, NEW h \in Handle, NEW t, NEW l,
           txn' = [txn EXCEPT ![h] = t], Goto(h, l),
           outcome' = outcome,
           dest' = dest, dest # None => data'[dest] = data[dest],
           t.body = txn[h].body, t.source = txn[h].source,
           pc[h] # "crashed", l # "crashed"
    PROVE  UNCHANGED AU!vars
<1>1. /\ txn'[h] = t /\ pc'[h] = l
      /\ \A g \in Handle : g # h => txn'[g] = txn[g] /\ pc'[g] = pc[g]
  BY DEF IInv, TypeOK, Goto
<1>2. ASSUME NEW g \in Handle
      PROVE  /\ statusBar'[g] = statusBar[g] /\ originalBar'[g] = originalBar[g]
             /\ bodyBar'[g] = bodyBar[g]
  BY <1>1 DEF statusBar, originalBar, bodyBar, Active
<1>3. statusBar' = statusBar
  BY <1>2 DEF statusBar
<1>4. originalBar' = originalBar
  BY <1>2 DEF originalBar
<1>5. bodyBar' = bodyBar
  BY <1>2 DEF bodyBar
<1>6. destBar' = destBar
  BY DEF destBar
<1> QED
  BY <1>3, <1>4, <1>5, <1>6 DEF AU!vars

\* The files a step of one call may touch never include the destination.
LEMMA DestinationApart ==
    ASSUME IInv
    PROVE  /\ dest \notin Free /\ dest \notin temps
           /\ \A h \in Handle : dest \notin Owned(h)
  BY HandleFacts DEF IInv, Free

\* The steps that are invisible at the destination: everything up to the
\* snapshot of an MPQE transaction, rebuilding, encrypting and checking.
LEMMA InvisibleSteps ==
    ASSUME IInv, NEW h \in Handle,
           \/ BeginTemporary(h) \/ BeginCopy(h) \/ BeginFails(h)
           \/ EditBegin(h) \/ EncodeBegin(h) \/ EncodeEnd(h) \/ EditFails(h)
           \/ Commit(h) \/ EncryptedTemporary(h) \/ Transform(h)
           \/ UnlinkPlaintext(h) \/ Identity(h) \/ CommitFails(h) \/ Abort(h)
    PROVE  UNCHANGED AU!vars
<1> USE UpdateAssumption
<1> DEFINE u == txn[h]
<1>0. /\ u \in Txn /\ dest \notin Free /\ dest \notin Owned(h) /\ Owned(h) \subseteq Inode
      /\ data = [i \in Inode |-> data[i]]
      /\ dest # None => dest \in Inode
  BY HandleFacts, DestinationApart DEF IInv, TypeOK
<1>1. ASSUME NEW i \in Inode, CreateTemporary(i), NEW l, l # "crashed", Goto(h, l),
             pc[h] # "crashed", dest' = dest, outcome' = outcome, NEW t,
             txn' = [txn EXCEPT ![h] = t], t.body = u.body, t.source = u.source
      PROVE  UNCHANGED AU!vars
  <2>1. dest # None => data'[dest] = data[dest]
    BY <1>0, <1>1 DEF CreateTemporary
  <2> QED
    BY <1>1, <2>1, BarStutter, Zenon
<1>2. CASE BeginTemporary(h)
  <2>1. PICK i \in Inode : /\ CreateTemporary(i)
                           /\ txn' = [txn EXCEPT ![h] = [@ EXCEPT !.working = i]]
    BY <1>2, Zenon DEF BeginTemporary
  <2> DEFINE t == [u EXCEPT !.working = i]
  <2>2. t.body = u.body /\ t.source = u.source /\ txn' = [txn EXCEPT ![h] = t]
    BY <1>0, <2>1 DEF Txn
  <2>3. pc[h] # "crashed" /\ Goto(h, "copy") /\ dest' = dest /\ outcome' = outcome
    BY <1>2 DEF BeginTemporary
  <2> HIDE DEF t, u
  <2> QED
    BY <1>1, <2>1, <2>2, <2>3, Zenon
<1>3. CASE BeginCopy(h) \/ BeginFails(h)
  <2> DEFINE t == [u EXCEPT !.reading = FALSE]
  <2>1. t.body = u.body /\ t.source = u.source
    BY <1>0 DEF Txn
  <2>2. PICK l : Goto(h, l) /\ l # "crashed"
    BY <1>3 DEF BeginCopy, BeginFails
  <2>3. /\ pc[h] # "crashed" /\ dest' = dest /\ outcome' = outcome
        /\ txn' = [txn EXCEPT ![h] = t]
    BY <1>3 DEF BeginCopy, BeginFails, fs
  <2>4. dest # None => data'[dest] = data[dest]
    <3>1. BeginCopy(h) => u.working \in Owned(h)
      BY HandleFacts DEF BeginCopy, HasItsFiles, Owned
    <3> QED
      BY <1>0, <1>3, <3>1 DEF BeginCopy, BeginFails, fs
  <2> HIDE DEF t
  <2> QED
    BY <2>1, <2>2, <2>3, <2>4, BarStutter, Zenon
<1>4. CASE EditBegin(h)
  <2>1. PICK i \in Inode, new \in Edited(txn[h].body), n \in 0..MaxEncodes :
           /\ CreateTemporary(i)
           /\ txn' = [txn EXCEPT ![h] = [@ EXCEPT !.sibling = i, !.pending = new, !.encodes = n]]
    BY <1>4, Zenon DEF EditBegin, Encodes
  <2> DEFINE t == [u EXCEPT !.sibling = i, !.pending = new, !.encodes = n]
  <2>2. t.body = u.body /\ t.source = u.source /\ txn' = [txn EXCEPT ![h] = t]
    BY <1>0, <2>1 DEF Txn
  <2>3. pc[h] # "crashed" /\ Goto(h, "rebuild") /\ dest' = dest /\ outcome' = outcome
    BY <1>4, Zenon DEF EditBegin
  <2> HIDE DEF t, u
  <2> QED
    BY <1>1, <2>1, <2>2, <2>3, Zenon
<1>5. CASE EncodeBegin(h)
  <2>1. PICK i \in Inode : /\ CreateTemporary(i)
                           /\ txn' = [txn EXCEPT ![h] = [@ EXCEPT !.packed = i]]
    BY <1>5, Zenon DEF EncodeBegin
  <2> DEFINE t == [u EXCEPT !.packed = i]
  <2>2. t.body = u.body /\ t.source = u.source /\ txn' = [txn EXCEPT ![h] = t]
    BY <1>0, <2>1 DEF Txn
  <2>3. pc[h] # "crashed" /\ Goto(h, "encode") /\ dest' = dest /\ outcome' = outcome
    BY <1>5 DEF EncodeBegin
  <2> HIDE DEF t, u
  <2> QED
    BY <1>1, <2>1, <2>2, <2>3, Zenon
<1>6. CASE EncryptedTemporary(h)
  <2>1. PICK i \in Inode : /\ CreateTemporary(i)
                           /\ txn' = [txn EXCEPT ![h] = [@ EXCEPT !.sibling = i]]
    BY <1>6, Zenon DEF EncryptedTemporary
  <2> DEFINE t == [u EXCEPT !.sibling = i]
  <2>2. t.body = u.body /\ t.source = u.source /\ txn' = [txn EXCEPT ![h] = t]
    BY <1>0, <2>1 DEF Txn
  <2>3. pc[h] # "crashed" /\ Goto(h, "transform") /\ dest' = dest /\ outcome' = outcome
    BY <1>6 DEF EncryptedTemporary
  <2> HIDE DEF t, u
  <2> QED
    BY <1>1, <2>1, <2>2, <2>3, Zenon
<1>7. CASE EncodeEnd(h)
  <2> DEFINE t == [u EXCEPT !.packed = None, !.encodes = u.encodes - 1]
  <2>1. t.body = u.body /\ t.source = u.source
    BY <1>0 DEF Txn
  <2>2. /\ pc[h] = "encode" /\ Goto(h, "rebuild") /\ dest' = dest /\ outcome' = outcome
        /\ txn' = [txn EXCEPT ![h] = t]
    BY <1>7 DEF EncodeEnd
  <2>3. u.packed # dest
    BY <1>0, <2>2, HandleFacts DEF HasItsFiles, Owned
  <2>4. dest # None => data'[dest] = data[dest]
    BY <1>0, <1>7, <2>3 DEF EncodeEnd, Remove
  <2> HIDE DEF t
  <2> QED
    BY <2>1, <2>2, <2>4, BarStutter, Zenon
<1>8. CASE EditFails(h)
  <2> DEFINE t == [u EXCEPT !.sibling = None, !.packed = None,
                            !.pending = None, !.encodes = 0]
  <2>1. t.body = u.body /\ t.source = u.source
    BY <1>0 DEF Txn
  <2>2. /\ pc[h] # "crashed" /\ Goto(h, "open") /\ dest' = dest /\ outcome' = outcome
        /\ txn' = [txn EXCEPT ![h] = t]
    BY <1>8 DEF EditFails
  <2>3. dest \notin {u.sibling, u.packed} \ {None}
    BY <1>0 DEF Owned
  <2>4. dest # None => data'[dest] = data[dest]
    BY <1>0, <1>8, <2>3 DEF EditFails, Remove
  <2> HIDE DEF t
  <2> QED
    BY <2>1, <2>2, <2>4, BarStutter, Zenon
<1>9. CASE Commit(h) \/ Transform(h) \/ CommitFails(h) \/ Abort(h)
  <2> DEFINE t == txn[h]
  <2>1. PICK l : Goto(h, l) /\ l # "crashed"
    BY <1>9 DEF Commit, Transform, CommitFails, Abort, GiveUp
  <2>2. /\ txn' = [txn EXCEPT ![h] = t]
        /\ dest' = dest /\ pc[h] # "crashed" /\ outcome' = outcome
    BY <1>9 DEF Commit, Transform, CommitFails, Abort, GiveUp, fs, IInv, TypeOK
  <2>3. dest # None => data'[dest] = data[dest]
    <3>1. Transform(h) => u.sibling \in Owned(h)
      BY HandleFacts DEF Transform, HasItsFiles, Owned
    <3> QED
      BY <1>0, <1>9, <3>1 DEF Commit, Transform, CommitFails, Abort, GiveUp, fs
  <2> QED
    BY <2>1, <2>2, <2>3, BarStutter, Zenon
<1>10. CASE UnlinkPlaintext(h)
  <2> DEFINE t == [u EXCEPT !.working = None]
  <2>1. t.body = u.body /\ t.source = u.source
    BY <1>0 DEF Txn
  <2>2. /\ pc[h] = "unlink" /\ Goto(h, "identity") /\ dest' = dest /\ outcome' = outcome
        /\ txn' = [txn EXCEPT ![h] = t]
    BY <1>10 DEF UnlinkPlaintext
  <2>3. u.working # dest
    BY <1>0, <2>2, WorkingFacts, Zenon
  <2>4. dest # None => data'[dest] = data[dest]
    BY <1>0, <1>10, <2>3 DEF UnlinkPlaintext, Remove
  <2> HIDE DEF t
  <2> QED
    BY <2>1, <2>2, <2>4, BarStutter, Zenon
<1>11. CASE Identity(h)
  <2> DEFINE t == IF u.mpqe /\ ~u.dirty THEN [u EXCEPT !.succeeded = TRUE] ELSE u
  <2>1. t.body = u.body /\ t.source = u.source
    BY <1>0 DEF Txn
  <2>2. PICK l : Goto(h, l) /\ l # "crashed"
    BY <1>11 DEF Identity
  <2>3. /\ pc[h] # "crashed" /\ dest' = dest /\ outcome' = outcome /\ data' = data
        /\ txn' = [txn EXCEPT ![h] = t]
    BY <1>11 DEF Identity, fs, IInv, TypeOK
  <2> HIDE DEF t
  <2> QED
    BY <2>1, <2>2, <2>3, BarStutter, Zenon
<1> QED
  BY <1>2, <1>3, <1>4, <1>5, <1>6, <1>7, <1>8, <1>9, <1>10, <1>11

\* A handle that has not taken its snapshot, and has not died, is settled in
\* the abstract state; one that has is active.
LEMMA BarFacts ==
    ASSUME IInv, NEW h \in Handle, pc[h] # "crashed"
    PROVE  /\ txn[h].body = None => statusBar[h] \in AU!Settled
           /\ txn[h].body # None => /\ statusBar[h] = "active"
                                    /\ originalBar[h] = txn[h].source
           /\ bodyBar[h] = txn[h].body
           /\ outcome[h] \in AU!Settled
  BY DEF IInv, TypeOK, statusBar, originalBar, bodyBar, Active, AU!Settled

\* Taking the snapshot: begin for an ordinary MPQ, the decode for an MPQE.
LEMMA SnapshotStep ==
    ASSUME IInv, NEW h \in Handle, pc[h] # "crashed", txn[h].body = None,
           dest # None, NEW t, NEW l, Goto(h, l), txn' = [txn EXCEPT ![h] = t],
           t.source = data[dest], t.body = data[dest].body,
           NEW o, outcome' = [outcome EXCEPT ![h] = o],
           dest' = dest, data'[dest] = data[dest]
    PROVE  AU!Begin(h)
<1> USE UpdateAssumption
<1>1. t.body # None
  BY ContainerParts DEF IInv, DestinationComplete
<1>2. /\ destBar' = destBar
      /\ statusBar' = [statusBar EXCEPT ![h] =
                          IF t.body # None THEN "active"
                          ELSE IF l = "crashed" THEN "crashed" ELSE o]
      /\ originalBar' = [originalBar EXCEPT ![h] = IF t.body # None THEN t.source ELSE None]
      /\ bodyBar' = [bodyBar EXCEPT ![h] = t.body]
  BY BarStep, Zenon
<1>3. destBar = data[dest] /\ destBar # None
  BY ContainerParts DEF destBar, IInv, DestinationComplete
<1> QED
  BY <1>1, <1>2, <1>3, BarFacts DEF AU!Begin

\* The end of a transaction that leaves the destination alone.
LEMMA CloseStep ==
    ASSUME IInv, NEW h \in Handle, pc[h] # "crashed",
           NEW l, NEW o, Goto(h, l), txn' = [txn EXCEPT ![h] = NoTxn],
           outcome' = [outcome EXCEPT ![h] = o],
           dest' = dest, dest # None => data'[dest] = data[dest]
    PROVE  LET s == IF l = "crashed" THEN "crashed" ELSE o
           IN  /\ destBar' = destBar
               /\ statusBar' = [statusBar EXCEPT ![h] = s]
               /\ txn[h].body # None => AU!Close(h, s)
               /\ txn[h].body = None => originalBar' = originalBar /\ bodyBar' = bodyBar
<1> DEFINE t == NoTxn
           s == IF l = "crashed" THEN "crashed" ELSE o
<1>1. t.body = None /\ txn' = [txn EXCEPT ![h] = t]
  BY DEF NoTxn
<1> HIDE DEF t
<1>2. /\ destBar' = destBar
      /\ statusBar' = [statusBar EXCEPT ![h] =
                          IF t.body # None THEN "active"
                          ELSE IF l = "crashed" THEN "crashed" ELSE o]
      /\ originalBar' = [originalBar EXCEPT ![h] = IF t.body # None THEN t.source ELSE None]
      /\ bodyBar' = [bodyBar EXCEPT ![h] = t.body]
  BY <1>1, BarStep, Zenon
<1>3. /\ destBar' = destBar /\ statusBar' = [statusBar EXCEPT ![h] = s]
      /\ originalBar' = [originalBar EXCEPT ![h] = None]
      /\ bodyBar' = [bodyBar EXCEPT ![h] = None]
  BY <1>1, <1>2
<1>4. ASSUME txn[h].body = None PROVE originalBar' = originalBar /\ bodyBar' = bodyBar
  <2>1. originalBar[h] = None /\ bodyBar[h] = None
    BY <1>4 DEF originalBar, bodyBar, Active
  <2>2. /\ originalBar = [g \in Handle |-> originalBar[g]]
        /\ bodyBar = [g \in Handle |-> bodyBar[g]]
    BY DEF originalBar, bodyBar
  <2> QED
    BY <1>3, <2>1, <2>2, Zenon
<1> QED
  BY <1>3, <1>4 DEF AU!Close

\* Another program acts: no handle changes in the abstract state.
LEMMA ForeignStep ==
    ASSUME IInv, IInv', NEW i, OthersWrite, Rebind(i, None), UNCHANGED <<pc, outcome>>
    PROVE  AU!Foreign
<1> USE UpdateAssumption
<1>1. ASSUME NEW g \in Handle
      PROVE  txn'[g].body = txn[g].body /\ txn'[g].source = txn[g].source
  BY RebindFacts
<1>2. ASSUME NEW g \in Handle
      PROVE  /\ statusBar'[g] = statusBar[g] /\ originalBar'[g] = originalBar[g]
             /\ bodyBar'[g] = bodyBar[g]
  BY <1>1 DEF statusBar, originalBar, bodyBar, Active
<1>3. statusBar' = statusBar
  BY <1>2 DEF statusBar
<1>4. originalBar' = originalBar
  BY <1>2 DEF originalBar
<1>5. bodyBar' = bodyBar
  BY <1>2 DEF bodyBar
<1>6. destBar' \in Container \cup {None}
  BY DEF destBar, IInv, DestinationComplete
<1> QED
  BY <1>3, <1>4, <1>5, <1>6 DEF AU!Foreign, Container, Form, Body, AU!Container, AU!Form, AU!Body

\* The rename is the one step in which a transaction changes the destination.
LEMMA PublishStep ==
    ASSUME IInv, NEW h \in Handle, Publish(h)
    PROVE  AU!Commit(h)
<1> USE UpdateAssumption
<1> DEFINE new == Replacement(txn[h])
<1>1. /\ pc[h] = "publish" /\ Rebind(new, h) /\ Goto(h, "idle")
      /\ data' = [i \in Inode |-> IF i = dest /\ i # new THEN Partial ELSE data[i]]
      /\ outcome' = [outcome EXCEPT ![h] = "committed"]
  BY DEF Publish, Replacement
<1>2. new \in Inode /\ data[new] = [form |-> txn[h].source.form, body |-> txn[h].body]
  <2>1. txn[h].mpqe => txn[h].dirty
    BY <1>1, HandleFacts DEF KnowsItsSnapshot
  <2>2. new \in Inode
    BY <1>1, <2>1, HandleFacts DEF HasItsFiles, Replacement
  <2> QED
    BY <1>1, <2>1, <2>2, HandleFacts, Zenon DEF FilesStore
<1>3. txn[h].body # None
  BY <1>1, SnapshotFacts DEF Committing
<1> HIDE DEF new
<1>4. destBar' = [form |-> txn[h].source.form, body |-> txn[h].body]
  <2>1. dest' = new /\ data'[new] = data[new] /\ new # None
    BY <1>1, <1>2 DEF Rebind
  <2> QED
    BY <2>1, <1>2 DEF destBar
<1>5. /\ txn'[h] = NoTxn /\ pc'[h] = "idle" /\ outcome'[h] = "committed"
      /\ NoTxn.body = None
      /\ \A g \in Handle : g # h => pc'[g] = pc[g] /\ outcome'[g] = outcome[g]
  BY <1>1 DEF Rebind, Goto, IInv, TypeOK, NoTxn
<1>6. ASSUME NEW g \in Handle, g # h
      PROVE  txn'[g].body = txn[g].body /\ txn'[g].source = txn[g].source
  BY <1>1, <1>6, RebindFacts
<1>7. statusBar' = [statusBar EXCEPT ![h] = "committed"]
  <2>1. /\ statusBar = [g \in Handle |-> statusBar[g]]
        /\ statusBar' = [g \in Handle |-> statusBar'[g]]
    BY DEF statusBar
  <2>2. /\ statusBar'[h] = "committed"
        /\ \A g \in Handle : g # h => statusBar'[g] = statusBar[g]
    BY <1>5, <1>6 DEF statusBar, Active
  <2> QED
    BY <2>1, <2>2, UpdatedAt
<1>8. originalBar' = [originalBar EXCEPT ![h] = None]
  <2>1. /\ originalBar = [g \in Handle |-> originalBar[g]]
        /\ originalBar' = [g \in Handle |-> originalBar'[g]]
    BY DEF originalBar
  <2>2. /\ originalBar'[h] = None
        /\ \A g \in Handle : g # h => originalBar'[g] = originalBar[g]
    BY <1>5, <1>6 DEF originalBar, Active
  <2> QED
    BY <2>1, <2>2, UpdatedAt
<1>9. bodyBar' = [bodyBar EXCEPT ![h] = None]
  <2>1. /\ bodyBar = [g \in Handle |-> bodyBar[g]]
        /\ bodyBar' = [g \in Handle |-> bodyBar'[g]]
    BY DEF bodyBar
  <2>2. /\ bodyBar'[h] = None
        /\ \A g \in Handle : g # h => bodyBar'[g] = bodyBar[g]
    BY <1>5, <1>6 DEF bodyBar
  <2> QED
    BY <2>1, <2>2, UpdatedAt
<1>10. statusBar[h] = "active" /\ originalBar[h] = txn[h].source /\ bodyBar[h] = txn[h].body
  BY <1>1, <1>3, BarFacts
<1> QED
  BY <1>4, <1>7, <1>8, <1>9, <1>10 DEF AU!Commit, AU!Close

\* Every step is a step of AtomicUpdate or leaves its state unchanged.
LEMMA RefinementStep ==
    ASSUME IInv, IInv', [Next]_vars
    PROVE  [AU!Next]_(AU!vars)
<1> USE UpdateAssumption
<1>1. ASSUME NEW h \in Handle, NEW mpqe \in BOOLEAN, Begin(h, mpqe)
      PROVE  [AU!Next]_(AU!vars)
  <2> DEFINE c == data[dest]
             b == IF mpqe THEN None ELSE c.body
             t == [NoTxn EXCEPT !.mpqe = mpqe, !.base = dest, !.source = c,
                                !.reading = TRUE, !.body = b]
             o == outcome[h]
  <2>1. /\ pc[h] = "idle" /\ dest # None /\ Goto(h, "begin")
        /\ txn' = [txn EXCEPT ![h] = t]
        /\ dest' = dest /\ data' = data
        /\ outcome' = [outcome EXCEPT ![h] = o]
    BY <1>1 DEF Begin, fs, IInv, TypeOK
  <2>2. t.source = c /\ t.body = b /\ NoTxn.body = None
    BY DEF NoTxn
  <2>3. txn[h].body = None
    BY <2>1, <2>2, HandleFacts DEF KnowsItsSnapshot, Settled
  <2>4. CASE ~mpqe
    <3>1. t.body = data[dest].body /\ t.source = data[dest]
      BY <2>2, <2>4
    <3> HIDE DEF t, o
    <3> QED
      BY <2>1, <2>3, <3>1, SnapshotStep, Zenon DEF AU!Next
  <2>5. CASE mpqe
    <3>1. t.body = None
      BY <2>2, <2>5
    <3> HIDE DEF t, o
    <3>2. /\ destBar' = destBar
          /\ statusBar' = [statusBar EXCEPT ![h] =
                              IF t.body # None THEN "active"
                              ELSE IF "begin" = "crashed" THEN "crashed" ELSE o]
          /\ originalBar' = [originalBar EXCEPT ![h] =
                              IF t.body # None THEN t.source ELSE None]
          /\ bodyBar' = [bodyBar EXCEPT ![h] = t.body]
      BY <2>1, BarStep, Zenon
    <3>3. statusBar[h] = o /\ originalBar[h] = None /\ bodyBar[h] = None
      BY <2>1, <2>3 DEF statusBar, originalBar, bodyBar, Active, o
    <3>4. /\ statusBar = [g \in Handle |-> statusBar[g]]
          /\ originalBar = [g \in Handle |-> originalBar[g]]
          /\ bodyBar = [g \in Handle |-> bodyBar[g]]
      BY DEF statusBar, originalBar, bodyBar
    <3>5. statusBar' = statusBar /\ originalBar' = originalBar /\ bodyBar' = bodyBar
      BY <3>1, <3>2, <3>3, <3>4, Zenon
    <3> QED
      BY <3>2, <3>5 DEF AU!vars
  <2> QED
    BY <2>4, <2>5
<1>2. ASSUME NEW h \in Handle, BeginRefused(h) PROVE AU!Refuse(h)
  <2>1. /\ pc[h] = "idle" /\ outcome' = [outcome EXCEPT ![h] = "discarded"]
        /\ dest' = dest /\ data' = data /\ txn' = txn /\ pc' = pc
    BY <1>2 DEF BeginRefused, fs
  <2>2. txn[h].body = None
    BY <2>1, HandleFacts DEF KnowsItsSnapshot, Settled, NoTxn
  <2>3. destBar' = destBar /\ originalBar' = originalBar /\ bodyBar' = bodyBar
    BY <2>1 DEF destBar, originalBar, bodyBar, Active
  <2>4. statusBar' = [statusBar EXCEPT ![h] = "discarded"]
    <3>1. /\ statusBar = [g \in Handle |-> statusBar[g]]
          /\ statusBar' = [g \in Handle |-> statusBar'[g]]
      BY DEF statusBar
    <3>2. /\ statusBar'[h] = "discarded"
          /\ \A g \in Handle : g # h => statusBar'[g] = statusBar[g]
      BY <2>1, <2>2 DEF statusBar, Active, IInv, TypeOK
    <3> QED
      BY <3>1, <3>2, UpdatedAt
  <2> QED
    BY <2>1, <2>2, <2>3, <2>4, BarFacts DEF AU!Refuse
<1>3. ASSUME NEW h \in Handle, BeginDecode(h) PROVE AU!Begin(h)
  <2> DEFINE c == data[dest]
             b == c.body
             t == [txn[h] EXCEPT !.source = c, !.body = b]
             o == outcome[h]
  <2>1. /\ pc[h] = "decode" /\ dest # None /\ Goto(h, "open")
        /\ txn' = [txn EXCEPT ![h] = t] /\ dest' = dest
        /\ outcome' = [outcome EXCEPT ![h] = o]
    BY <1>3 DEF BeginDecode, IInv, TypeOK
  <2>2. t.source = data[dest] /\ t.body = data[dest].body
    BY HandleFacts DEF Txn
  <2>3. txn[h].body = None /\ txn[h].working \in Owned(h)
    BY <2>1, HandleFacts DEF KnowsItsSnapshot, HasItsFiles, Begun, Owned
  <2>4. data'[dest] = data[dest]
    <3>1. dest \in Inode /\ dest # txn[h].working
      BY <2>1, <2>3, DestinationApart DEF IInv, TypeOK
    <3> QED
      BY <1>3, <3>1 DEF BeginDecode, IInv, TypeOK
  <2> HIDE DEF t, o
  <2> QED
    BY <2>1, <2>2, <2>3, <2>4, SnapshotStep, Zenon
<1>4. ASSUME NEW h \in Handle, EditAdopt(h) PROVE AU!Edit(h)
  <2> DEFINE s == txn[h].sibling
             b == txn[h].pending
             t == [txn[h] EXCEPT !.working = s, !.sibling = None,
                                 !.body = b, !.pending = None, !.dirty = TRUE]
             o == outcome[h]
  <2>1. /\ pc[h] = "rebuild" /\ Goto(h, "open") /\ dest' = dest
        /\ txn' = [txn EXCEPT ![h] = t]
        /\ outcome' = [outcome EXCEPT ![h] = o]
    BY <1>4 DEF EditAdopt, IInv, TypeOK
  <2>2. t.body = b /\ t.source = txn[h].source
    BY HandleFacts DEF Txn
  <2>3. b \in Edited(txn[h].body) /\ txn[h].body \in Body /\ s \in Owned(h)
    BY <2>1, HandleFacts, SnapshotFacts DEF KnowsItsSnapshot, HasItsFiles, Owned, Editing
  <2>4. b # None /\ txn[h].body # None
    BY <2>3, EditedIsBody
  <2>5. dest # None => data'[dest] = data[dest]
    <3>1. dest # s /\ dest # txn[h].working
      BY <2>1, <2>3, DestinationApart, WorkingFacts, Zenon DEF Editing
    <3>2. dest # None => dest \in Inode
      BY DEF IInv, TypeOK
    <3> QED
      BY <1>4, <3>1, <3>2 DEF EditAdopt
  <2> HIDE DEF t, o
  <2>6. /\ destBar' = destBar
        /\ statusBar' = [statusBar EXCEPT ![h] =
                            IF t.body # None THEN "active"
                            ELSE IF "open" = "crashed" THEN "crashed" ELSE o]
        /\ originalBar' = [originalBar EXCEPT ![h] =
                            IF t.body # None THEN t.source ELSE None]
        /\ bodyBar' = [bodyBar EXCEPT ![h] = t.body]
    BY <2>1, <2>5, BarStep, Zenon
  <2>7. /\ statusBar[h] = "active" /\ originalBar[h] = txn[h].source
        /\ bodyBar[h] = txn[h].body
    BY <2>1, <2>4, BarFacts
  <2>8. /\ statusBar = [g \in Handle |-> statusBar[g]]
        /\ originalBar = [g \in Handle |-> originalBar[g]]
    BY DEF statusBar, originalBar
  <2>9. statusBar' = statusBar /\ originalBar' = originalBar
    BY <2>2, <2>4, <2>6, <2>7, <2>8, Zenon
  <2>10. AU!Edited(bodyBar[h]) = Edited(txn[h].body)
    BY <2>7 DEF AU!Edited, AU!Replaced, AU!Removed, AU!Renamed, AU!Present,
       Edited, Replaced, Removed, Renamed, Present
  <2> QED
    BY <2>2, <2>3, <2>6, <2>7, <2>9, <2>10, Zenon DEF AU!Edit
<1>5. ASSUME NEW h \in Handle, Discard(h) PROVE AU!Next
  <2>1. PICK left : /\ Remove(Owned(h), left)
                    /\ outcome' = [outcome EXCEPT ![h] =
                         IF txn[h].succeeded /\ left = {} THEN "committed" ELSE "discarded"]
    BY <1>5 DEF Discard
  <2> DEFINE o == IF txn[h].succeeded /\ left = {} THEN "committed" ELSE "discarded"
  <2>2. /\ pc[h] = "discard" /\ Goto(h, "idle") /\ txn' = [txn EXCEPT ![h] = NoTxn]
        /\ outcome' = [outcome EXCEPT ![h] = o] /\ dest' = dest
    BY <1>5, <2>1, Zenon DEF Discard
  <2>3. dest # None => data'[dest] = data[dest]
    <3>1. dest \notin Owned(h) /\ (dest # None => dest \in Inode)
      BY DestinationApart DEF IInv, TypeOK
    <3> QED
      BY <2>1, <3>1 DEF Remove
  <2>4. \/ o = "discarded"
        \/ o = "committed" /\ txn[h].body \in Body /\ txn[h].body = txn[h].source.body
    BY <2>2, HandleFacts DEF KnowsItsSnapshot
  <2> HIDE DEF o
  <2>5. /\ destBar' = destBar /\ statusBar' = [statusBar EXCEPT ![h] = o]
        /\ txn[h].body # None => AU!Close(h, o)
        /\ txn[h].body = None => originalBar' = originalBar /\ bodyBar' = bodyBar
    BY <2>2, <2>3, CloseStep, Zenon
  <2>6. CASE txn[h].body = None
    <3>1. o = "discarded"
      BY <2>4, <2>6
    <3>2. AU!Refuse(h)
      BY <2>2, <2>5, <2>6, <3>1, BarFacts DEF AU!Refuse
    <3> QED
      BY <3>2 DEF AU!Next
  <2>7. CASE txn[h].body # None /\ o = "discarded"
    <3>1. AU!Discard(h)
      BY <2>2, <2>5, <2>7, BarFacts DEF AU!Discard
    <3> QED
      BY <3>1 DEF AU!Next
  <2>8. CASE txn[h].body # None /\ o = "committed"
    <3>1. AU!CommitUnchanged(h)
      BY <2>2, <2>4, <2>5, <2>8, BarFacts DEF AU!CommitUnchanged
    <3> QED
      BY <3>1 DEF AU!Next
  <2> QED
    BY <2>4, <2>6, <2>7, <2>8
<1>6. ASSUME NEW h \in Handle, Crash(h) PROVE AU!Next
  <2> DEFINE o == outcome[h]
  <2>1. /\ pc[h] \notin Settled /\ Goto(h, "crashed") /\ txn' = [txn EXCEPT ![h] = NoTxn]
        /\ outcome' = [outcome EXCEPT ![h] = o] /\ dest' = dest /\ data' = data
        /\ pc[h] # "crashed"
    BY <1>6 DEF Crash, fs, IInv, TypeOK, Settled
  <2> HIDE DEF o
  <2>2. /\ destBar' = destBar /\ statusBar' = [statusBar EXCEPT ![h] = "crashed"]
        /\ txn[h].body # None => AU!Close(h, "crashed")
        /\ txn[h].body = None => originalBar' = originalBar /\ bodyBar' = bodyBar
    BY <2>1, CloseStep, Zenon
  <2>3. CASE txn[h].body = None
    <3>1. AU!Refuse(h)
      BY <2>1, <2>2, <2>3, BarFacts DEF AU!Refuse
    <3> QED
      BY <3>1 DEF AU!Next
  <2>4. CASE txn[h].body # None
    <3>1. AU!Discard(h)
      BY <2>1, <2>2, <2>4, BarFacts DEF AU!Discard
    <3> QED
      BY <3>1 DEF AU!Next
  <2> QED
    BY <2>3, <2>4
<1>7. CASE ForeignReplace \/ ForeignRemove
  <2>1. PICK i : OthersWrite /\ Rebind(i, None) /\ UNCHANGED <<pc, outcome>>
    BY <1>7 DEF ForeignReplace, ForeignRemove
  <2> QED
    BY <2>1, ForeignStep DEF AU!Next
<1>8. CASE UNCHANGED vars
  BY <1>8 DEF vars, AU!vars, destBar, statusBar, originalBar, bodyBar, Active
<1>9. CASE Next
  <2>1. ASSUME NEW h \in Handle,
               \/ BeginRefused(h) \/ BeginDecode(h) \/ EditAdopt(h)
               \/ Publish(h) \/ Discard(h) \/ Crash(h)
        PROVE  AU!Next
    BY <2>1, <1>2, <1>3, <1>4, <1>5, <1>6, PublishStep DEF AU!Next
  <2> QED
    BY <1>1, <1>7, <1>9, <2>1, InvisibleSteps DEF Next
<1> QED
  BY <1>8, <1>9

\* The update transaction implements its promise for any number of handles:
\* the destination changes only by the one step of a transaction that then
\* reports success, to its snapshot with its edits applied.
THEOREM UpdateIsAtomic == Spec => ImplementsAtomicUpdate
<1>1. Init => AU!Init
  <2> SUFFICES ASSUME Init PROVE AU!Init
    OBVIOUS
  <2>1. IInv /\ dest # None
    BY InitInv, UpdateAssumption DEF Init
  <2>2. destBar \in AU!Container
    BY <2>1 DEF destBar, IInv, DestinationComplete, Container, Form, Body,
       AU!Container, AU!Form, AU!Body
  <2>3. \A h \in Handle : ~Active(h) /\ pc[h] = "idle" /\ outcome[h] = "idle"
                          /\ txn[h].body = None
    BY DEF Init, Active, NoTxn
  <2>4. /\ statusBar = [h \in Handle |-> "idle"]
        /\ originalBar = [h \in Handle |-> None]
        /\ bodyBar = [h \in Handle |-> None]
    BY <2>3 DEF statusBar, originalBar, bodyBar
  <2> QED
    BY <2>2, <2>4 DEF AU!Init
<1>2. IInv /\ IInv' /\ [Next]_vars => [AU!Next]_(AU!vars)
  BY RefinementStep
<1> QED
  BY <1>1, <1>2, Invariance, PTL DEF Spec, ImplementsAtomicUpdate, AU!Spec
=============================================================================
