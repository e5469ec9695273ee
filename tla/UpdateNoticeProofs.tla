------------------------ MODULE UpdateNoticeProofs ------------------------
(***************************************************************************)
(* The proof that a replaced destination is noticed by the identity check  *)
(* of a commit, on a file system that does not recycle inode numbers.      *)
(***************************************************************************)
EXTENDS UpdateTransactionProofs

\* While inode numbers are not recycled, the identity a transaction recorded
\* is never given to another file, and once the destination was rebound it
\* stays different from that identity.
NoticeInv ==
    \A h \in Handle : pc[h] \notin Settled =>
        /\ txn[h].base \in Inode /\ txn[h].base \notin temps
        /\ pc[h] # "publish" /\ txn[h].moved => dest # txn[h].base
        /\ pc[h] = "publish" => ~txn[h].moved

\* A step of one call that does not rebind the destination keeps the noticed
\* identity apart from every temporary.
LEMMA NoticeLocal ==
    ASSUME ~InodesRecycled, IInv, NoticeInv,
           NEW h \in Handle, NEW t, NEW l,
           txn' = [txn EXCEPT ![h] = t], Goto(h, l), dest' = dest,
           t.base = txn[h].base, t.moved = txn[h].moved,
           pc[h] \notin Settled, l # "publish",
           temps' \subseteq temps \cup Free
    PROVE  NoticeInv'
<1>1. /\ txn'[h] = t /\ pc'[h] = l
      /\ \A g \in Handle : g # h => txn'[g] = txn[g] /\ pc'[g] = pc[g]
  BY DEF IInv, TypeOK, Goto
<1>2. \A g \in Handle : pc[g] \notin Settled => txn[g].base \notin temps'
  BY DEF NoticeInv, Free
<1>3. pc[h] = "publish" => ~txn[h].moved
  BY DEF NoticeInv
<1> QED
  BY <1>1, <1>2, <1>3 DEF NoticeInv

\* A transaction that ends no longer has an identity to protect.
LEMMA NoticeEnd ==
    ASSUME IInv, NoticeInv, NEW h \in Handle, NEW l \in Settled,
           txn' = [txn EXCEPT ![h] = NoTxn], Goto(h, l), dest' = dest,
           temps' \subseteq temps
    PROVE  NoticeInv'
<1>1. /\ pc'[h] = l
      /\ \A g \in Handle : g # h => txn'[g] = txn[g] /\ pc'[g] = pc[g]
  BY DEF IInv, TypeOK, Goto
<1> QED
  BY <1>1 DEF NoticeInv

\* A rebinding of the destination to a file that is nobody's recorded
\* identity is noticed by every transaction that has not been checked yet.
LEMMA NoticeRebind ==
    ASSUME IInv, NoticeInv, NEW i, NEW self, Rebind(i, self),
           temps' \subseteq temps,
           \A g \in Handle : g # self => pc'[g] = pc[g],
           self \in Handle => pc'[self] \in Settled,
           \A g \in Handle : pc[g] \notin Settled => txn[g].base # i
    PROVE  NoticeInv'
<1> SUFFICES ASSUME NEW g \in Handle, pc'[g] \notin Settled
             PROVE  /\ txn'[g].base \in Inode /\ txn'[g].base \notin temps'
                    /\ pc'[g] # "publish" /\ txn'[g].moved => dest' # txn'[g].base
                    /\ pc'[g] = "publish" => ~txn'[g].moved
  BY DEF NoticeInv
<1>1. g # self /\ pc'[g] = pc[g]
  OBVIOUS
<1>2. /\ txn'[g].base = txn[g].base
      /\ txn'[g].moved = (txn[g].moved \/ pc[g] \notin Settled \cup {"publish"})
  BY <1>1, RebindFacts
<1>3. txn[g].moved \in BOOLEAN
  BY HandleFacts DEF Txn
<1>4. pc[g] = "publish" => ~txn'[g].moved
  <2> SUFFICES ASSUME pc[g] = "publish" PROVE ~txn'[g].moved
    OBVIOUS
  <2>1. ~txn[g].moved /\ ~(pc[g] \notin Settled \cup {"publish"})
    BY <1>1 DEF NoticeInv
  <2> QED
    BY <1>2, <2>1, Zenon
<1> QED
  BY <1>1, <1>2, <1>4 DEF NoticeInv, Rebind

\* Every step keeps the recorded identities apart from new files.
LEMMA NoticeNext ==
    ASSUME ~InodesRecycled, IInv, NoticeInv, [Next]_vars
    PROVE  NoticeInv'
<1> USE UpdateAssumption
<1>0. ASSUME NEW h \in Handle
      PROVE  txn[h] \in Txn
  BY <1>0, HandleFacts
<1>1. ASSUME NEW h \in Handle, NEW mpqe \in BOOLEAN, Begin(h, mpqe) PROVE NoticeInv'
  <2>1. /\ txn'[h].base = dest /\ txn'[h].moved = FALSE /\ pc'[h] = "begin"
        /\ \A g \in Handle : g # h => txn'[g] = txn[g] /\ pc'[g] = pc[g]
        /\ dest' = dest /\ temps' = temps /\ dest \in Inode
    BY <1>1 DEF IInv, TypeOK, Begin, Goto, fs, NoTxn
  <2> QED
    BY <2>1 DEF NoticeInv, IInv, Settled
<1>2. ASSUME NEW h \in Handle, BeginRefused(h) PROVE NoticeInv'
  BY <1>2 DEF BeginRefused, fs, NoticeInv
<1>3. ASSUME NEW h \in Handle, BeginTemporary(h) PROVE NoticeInv'
  <2>1. PICK i \in Inode : /\ CreateTemporary(i)
                           /\ txn' = [txn EXCEPT ![h] = [@ EXCEPT !.working = i]]
    BY <1>3, Zenon DEF BeginTemporary
  <2> DEFINE t == [txn[h] EXCEPT !.working = i]
  <2>2. t.base = txn[h].base /\ t.moved = txn[h].moved /\ txn' = [txn EXCEPT ![h] = t]
    BY <1>0, <2>1 DEF Txn
  <2>3. /\ Goto(h, "copy") /\ dest' = dest /\ pc[h] \notin Settled
        /\ temps' \subseteq temps \cup Free
    BY <1>3, <2>1 DEF BeginTemporary, CreateTemporary, Settled
  <2> HIDE DEF t
  <2> QED
    BY <2>2, <2>3, NoticeLocal, Zenon
<1>4. ASSUME NEW h \in Handle, BeginCopy(h) \/ BeginFails(h) PROVE NoticeInv'
  <2> DEFINE t == [txn[h] EXCEPT !.reading = FALSE]
  <2>1. t.base = txn[h].base /\ t.moved = txn[h].moved
    BY <1>0 DEF Txn
  <2>2. PICK l : Goto(h, l) /\ l # "publish"
    BY <1>4 DEF BeginCopy, BeginFails
  <2>3. /\ txn' = [txn EXCEPT ![h] = t]
        /\ dest' = dest /\ pc[h] \notin Settled /\ temps' \subseteq temps \cup Free
    BY <1>4 DEF BeginCopy, BeginFails, Settled, fs
  <2> HIDE DEF t
  <2> QED
    BY <2>1, <2>2, <2>3, NoticeLocal, Zenon
<1>5. ASSUME NEW h \in Handle, BeginDecode(h) PROVE NoticeInv'
  <2> DEFINE c == data[dest]
             b == c.body
             t == [txn[h] EXCEPT !.source = c, !.body = b]
  <2>1. t.base = txn[h].base /\ t.moved = txn[h].moved
    BY <1>0 DEF Txn
  <2>2. /\ txn' = [txn EXCEPT ![h] = t] /\ Goto(h, "open")
        /\ dest' = dest /\ pc[h] \notin Settled /\ temps' \subseteq temps \cup Free
    BY <1>5 DEF BeginDecode, Settled
  <2> HIDE DEF t
  <2> QED
    BY <2>1, <2>2, NoticeLocal, Zenon
<1>6. ASSUME NEW h \in Handle, EditBegin(h) PROVE NoticeInv'
  <2>1. PICK i \in Inode, new \in Edited(txn[h].body), n \in 0..MaxEncodes :
           /\ CreateTemporary(i)
           /\ txn' = [txn EXCEPT ![h] = [@ EXCEPT !.sibling = i, !.pending = new, !.encodes = n]]
    BY <1>6, Zenon DEF EditBegin, Encodes
  <2> DEFINE t == [txn[h] EXCEPT !.sibling = i, !.pending = new, !.encodes = n]
  <2>2. t.base = txn[h].base /\ t.moved = txn[h].moved /\ txn' = [txn EXCEPT ![h] = t]
    BY <1>0, <2>1 DEF Txn
  <2>3. /\ Goto(h, "rebuild") /\ dest' = dest /\ pc[h] \notin Settled
        /\ temps' \subseteq temps \cup Free
    BY <1>6, <2>1 DEF EditBegin, CreateTemporary, Settled
  <2> HIDE DEF t
  <2> QED
    BY <2>2, <2>3, NoticeLocal, Zenon
<1>7. ASSUME NEW h \in Handle, EncodeBegin(h) PROVE NoticeInv'
  <2>1. PICK i \in Inode : /\ CreateTemporary(i)
                           /\ txn' = [txn EXCEPT ![h] = [@ EXCEPT !.packed = i]]
    BY <1>7, Zenon DEF EncodeBegin
  <2> DEFINE t == [txn[h] EXCEPT !.packed = i]
  <2>2. t.base = txn[h].base /\ t.moved = txn[h].moved /\ txn' = [txn EXCEPT ![h] = t]
    BY <1>0, <2>1 DEF Txn
  <2>3. /\ Goto(h, "encode") /\ dest' = dest /\ pc[h] \notin Settled
        /\ temps' \subseteq temps \cup Free
    BY <1>7, <2>1 DEF EncodeBegin, CreateTemporary, Settled
  <2> HIDE DEF t
  <2> QED
    BY <2>2, <2>3, NoticeLocal, Zenon
<1>8. ASSUME NEW h \in Handle, EncodeEnd(h) PROVE NoticeInv'
  <2> DEFINE t == [txn[h] EXCEPT !.packed = None, !.encodes = txn[h].encodes - 1]
  <2>1. t.base = txn[h].base /\ t.moved = txn[h].moved
    BY <1>0 DEF Txn
  <2>2. /\ txn' = [txn EXCEPT ![h] = t] /\ Goto(h, "rebuild")
        /\ dest' = dest /\ pc[h] \notin Settled /\ temps' \subseteq temps \cup Free
    BY <1>8 DEF EncodeEnd, Settled, Remove
  <2> HIDE DEF t
  <2> QED
    BY <2>1, <2>2, NoticeLocal, Zenon
<1>9. ASSUME NEW h \in Handle, EditAdopt(h) PROVE NoticeInv'
  <2> DEFINE s == txn[h].sibling
             b == txn[h].pending
             t == [txn[h] EXCEPT !.working = s, !.sibling = None,
                                 !.body = b, !.pending = None, !.dirty = TRUE]
  <2>1. t.base = txn[h].base /\ t.moved = txn[h].moved
    BY <1>0 DEF Txn
  <2>2. /\ txn' = [txn EXCEPT ![h] = t] /\ Goto(h, "open")
        /\ dest' = dest /\ pc[h] \notin Settled /\ temps' \subseteq temps \cup Free
    BY <1>9 DEF EditAdopt, Settled
  <2> HIDE DEF t
  <2> QED
    BY <2>1, <2>2, NoticeLocal, Zenon
<1>10. ASSUME NEW h \in Handle, EditFails(h) PROVE NoticeInv'
  <2> DEFINE t == [txn[h] EXCEPT !.sibling = None, !.packed = None,
                                 !.pending = None, !.encodes = 0]
  <2>1. t.base = txn[h].base /\ t.moved = txn[h].moved
    BY <1>0 DEF Txn
  <2>2. /\ txn' = [txn EXCEPT ![h] = t] /\ Goto(h, "open")
        /\ dest' = dest /\ pc[h] \notin Settled /\ temps' \subseteq temps \cup Free
    BY <1>10 DEF EditFails, Settled, Remove
  <2> HIDE DEF t
  <2> QED
    BY <2>1, <2>2, NoticeLocal, Zenon
<1>11. ASSUME NEW h \in Handle, Commit(h) \/ Transform(h) \/ CommitFails(h) \/ Abort(h)
       PROVE  NoticeInv'
  <2> DEFINE t == txn[h]
  <2>1. PICK l : Goto(h, l) /\ l # "publish"
    BY <1>11 DEF Commit, Transform, CommitFails, Abort, GiveUp
  <2>2. /\ txn' = [txn EXCEPT ![h] = t]
        /\ dest' = dest /\ pc[h] \notin Settled /\ temps' \subseteq temps \cup Free
    BY <1>11 DEF Commit, Transform, CommitFails, Abort, GiveUp, Settled, fs, IInv, TypeOK
  <2> QED
    BY <2>1, <2>2, NoticeLocal, Zenon
<1>12. ASSUME NEW h \in Handle, EncryptedTemporary(h) PROVE NoticeInv'
  <2>1. PICK i \in Inode : /\ CreateTemporary(i)
                           /\ txn' = [txn EXCEPT ![h] = [@ EXCEPT !.sibling = i]]
    BY <1>12, Zenon DEF EncryptedTemporary
  <2> DEFINE t == [txn[h] EXCEPT !.sibling = i]
  <2>2. t.base = txn[h].base /\ t.moved = txn[h].moved /\ txn' = [txn EXCEPT ![h] = t]
    BY <1>0, <2>1 DEF Txn
  <2>3. /\ Goto(h, "transform") /\ dest' = dest /\ pc[h] \notin Settled
        /\ temps' \subseteq temps \cup Free
    BY <1>12, <2>1 DEF EncryptedTemporary, CreateTemporary, Settled
  <2> HIDE DEF t
  <2> QED
    BY <2>2, <2>3, NoticeLocal, Zenon
<1>13. ASSUME NEW h \in Handle, UnlinkPlaintext(h) PROVE NoticeInv'
  <2> DEFINE t == [txn[h] EXCEPT !.working = None]
  <2>1. t.base = txn[h].base /\ t.moved = txn[h].moved
    BY <1>0 DEF Txn
  <2>2. /\ txn' = [txn EXCEPT ![h] = t] /\ Goto(h, "identity")
        /\ dest' = dest /\ pc[h] \notin Settled /\ temps' \subseteq temps \cup Free
    BY <1>13 DEF UnlinkPlaintext, Settled, Remove
  <2> HIDE DEF t
  <2> QED
    BY <2>1, <2>2, NoticeLocal, Zenon
<1>14. ASSUME NEW h \in Handle, Identity(h) PROVE NoticeInv'
  <2>1. ~txn[h].moved /\ pc[h] \notin Settled
    BY <1>14 DEF Identity, NoticeInv, Settled
  <2>2. /\ txn'[h].base = txn[h].base /\ txn'[h].moved = txn[h].moved
        /\ \A g \in Handle : g # h => txn'[g] = txn[g] /\ pc'[g] = pc[g]
        /\ dest' = dest /\ temps' = temps
    <3> DEFINE t == [txn[h] EXCEPT !.succeeded = TRUE]
    <3>1. t.base = txn[h].base /\ t.moved = txn[h].moved
      BY <1>0 DEF Txn
    <3>2. txn' = txn \/ txn' = [txn EXCEPT ![h] = t]
      BY <1>14 DEF Identity
    <3> HIDE DEF t
    <3> QED
      BY <1>14, <3>1, <3>2 DEF Identity, Goto, fs, IInv, TypeOK
  <2> QED
    BY <2>1, <2>2 DEF NoticeInv
<1>15. ASSUME NEW h \in Handle, Publish(h) PROVE NoticeInv'
  <2> DEFINE i == IF txn[h].mpqe THEN txn[h].sibling ELSE txn[h].working
  <2>1. /\ Rebind(i, h) /\ temps' \subseteq temps /\ pc'[h] \in Settled
        /\ \A g \in Handle : g # h => pc'[g] = pc[g]
    BY <1>15 DEF Publish, Goto, Settled, IInv, TypeOK
  <2>2. i \in temps
    <3>1. txn[h].mpqe => txn[h].dirty
      BY <1>15, HandleFacts DEF Publish, KnowsItsSnapshot
    <3>2. i \in Inode
      BY <1>15, <3>1, HandleFacts DEF Publish, HasItsFiles
    <3>3. i \in Owned(h)
      BY <3>2 DEF Owned
    <3> QED
      BY <3>3, HandleFacts
  <2>3. \A g \in Handle : pc[g] \notin Settled => txn[g].base # i
    BY <2>2 DEF NoticeInv
  <2> HIDE DEF i
  <2> QED
    BY <2>1, <2>3, NoticeRebind
<1>16. ASSUME NEW h \in Handle, Discard(h) PROVE NoticeInv'
  BY <1>16, NoticeEnd, Zenon DEF Discard, Remove, Settled
<1>17. ASSUME NEW h \in Handle, Crash(h) PROVE NoticeInv'
  BY <1>17, NoticeEnd, Zenon DEF Crash, fs, Settled
<1>18. CASE ForeignReplace
  <2>1. PICK i \in Free : Rebind(i, None) /\ UNCHANGED <<temps, pc>>
    BY <1>18 DEF ForeignReplace
  <2>2. \A g \in Handle : txn[g].base # i
    BY <2>1 DEF Free
  <2> QED
    BY <2>1, <2>2, NoticeRebind
<1>19. CASE ForeignRemove
  <2>1. Rebind(None, None) /\ UNCHANGED <<temps, pc>>
    BY <1>19 DEF ForeignRemove
  <2>2. \A g \in Handle : pc[g] \notin Settled => txn[g].base # None
    BY DEF NoticeInv
  <2> QED
    BY <2>1, <2>2, NoticeRebind
<1>20. CASE UNCHANGED vars
  BY <1>20 DEF vars, NoticeInv
<1> QED
  BY <1>1, <1>2, <1>3, <1>4, <1>5, <1>6, <1>7, <1>8, <1>9, <1>10, <1>11, <1>12, <1>13,
     <1>14, <1>15, <1>16, <1>17, <1>18, <1>19, <1>20 DEF Next

\* Where inode numbers are not recycled under a live handle, every replacement
\* of the destination between begin and the identity check is noticed: no
\* transaction renames over a file it did not take its snapshot from.
THEOREM ReplacementAlwaysNoticed ==
    ASSUME ~InodesRecycled
    PROVE  Spec => []ReplacementNoticed
<1>1. Init => NoticeInv
  BY DEF Init, NoticeInv, Settled
<1>2. IInv /\ NoticeInv /\ [Next]_vars => NoticeInv'
  BY NoticeNext
<1>3. NoticeInv => ReplacementNoticed
  BY DEF NoticeInv, ReplacementNoticed, Settled
<1> QED
  BY <1>1, <1>2, <1>3, Invariance, PTL DEF Spec
=============================================================================
