------------------------ MODULE ArchiveTablesProofs ------------------------
(***************************************************************************)
(* For every table size, every set of names and every way their probes     *)
(* collide: no entry of the hash table is ever cut off from its probe, the *)
(* name lookup finds a name exactly when the table has an entry of it, and *)
(* every entry leads to a block that a read by its own name decrypts.      *)
(***************************************************************************)
EXTENDS ArchiveTables, WellFoundedInduction, TLAPS

USE HashAssumption, TablesAssumption

(***************************************************************************)
(* The hash table by itself.                                               *)
(***************************************************************************)

\* A probe stays inside the table.
LEMMA ProbeInTable == \A n \in Name : \A i \in Nat : Probe(n, i) \in Slot
<1> TAKE n \in Name
<1> TAKE i \in Nat
<1>1. Start[n] \in Nat
  BY DEF Slot
<1>2. (Start[n] + i) % Slots \in 0..(Slots - 1)
  BY <1>1
<1> QED
  BY <1>2 DEF Probe, Slot

\* Filling a vacant slot of the probe of n whose earlier slots are not free,
\* as the writer and update_insert_hash do, cuts nothing off.
LEMMA FillKeepsReachable ==
    ASSUME NEW t \in Table, Reachable(t), NEW n \in Name, NEW i \in Slot, NEW e \in Entry,
           e.name = n, ~IsEntry(t, Probe(n, i)),
           \A j \in 0..(i - 1) : t[Probe(n, j)] # Free
    PROVE  [t EXCEPT ![Probe(n, i)] = e] \in Table /\ Reachable([t EXCEPT ![Probe(n, i)] = e])
<1> DEFINE p == Probe(n, i)
           u == [t EXCEPT ![p] = e]
<1>1. p \in Slot /\ i \in Nat
  BY ProbeInTable DEF Slot
<1>2. u \in Table
  BY <1>1 DEF Table
<1>3. e # Free /\ e # Deleted
  OBVIOUS
<1>4. \A s \in Slot : u[s] = IF s = p THEN e ELSE t[s]
  BY <1>1 DEF Table
<1>5. \A s \in Slot : u[s] = Free => t[s] = Free
  BY <1>3, <1>4
<1> HIDE DEF u
<1>6. ASSUME NEW s \in Slot, IsEntry(u, s)
      PROVE  \E k \in Slot : Probe(u[s].name, k) = s /\ Reaches(u, u[s].name, k)
  <2>1. CASE s = p
    <3>1. u[s].name = n
      BY <2>1, <1>4
    <3>2. \A j \in 0..(i - 1) : Probe(n, j) \in Slot
      BY ProbeInTable DEF Slot
    <3>3. Reaches(u, n, i)
      BY <3>2, <1>5 DEF Reaches
    <3> QED
      BY <3>1, <3>3, <2>1
  <2>2. CASE s # p
    <3>1. u[s] = t[s] /\ IsEntry(t, s)
      BY <2>2, <1>4, <1>6 DEF IsEntry
    <3>2. PICK k \in Slot : Probe(t[s].name, k) = s /\ Reaches(t, t[s].name, k)
      BY <3>1 DEF Reachable
    <3>3. t[s].name \in Name
      BY <3>1 DEF Table, IsEntry, Entry
    <3>4. \A j \in 0..(k - 1) : Probe(t[s].name, j) \in Slot
      BY <3>3, ProbeInTable DEF Slot
    <3>5. Reaches(u, t[s].name, k)
      BY <3>2, <3>4, <1>5 DEF Reaches
    <3> QED
      BY <3>1, <3>2, <3>5
  <2> QED
    BY <2>1, <2>2
<1>7. Reachable(u)
  BY <1>6 DEF Reachable
<1> QED
  BY <1>2, <1>7 DEF u

\* Marking entries Deleted, as update_delete_hash does, cuts nothing off.
LEMMA DeleteKeepsReachable ==
    ASSUME NEW t \in Table, Reachable(t), NEW u \in Table,
           \A s \in Slot : u[s] = t[s] \/ u[s] = Deleted
    PROVE  Reachable(u)
<1>1. \A s \in Slot : u[s] = Free => t[s] = Free
  OBVIOUS
<1> SUFFICES ASSUME NEW s \in Slot, IsEntry(u, s)
             PROVE  \E k \in Slot : Probe(u[s].name, k) = s /\ Reaches(u, u[s].name, k)
  BY DEF Reachable
<1>2. u[s] = t[s] /\ IsEntry(t, s)
  BY DEF IsEntry
<1>3. PICK k \in Slot : Probe(t[s].name, k) = s /\ Reaches(t, t[s].name, k)
  BY <1>2 DEF Reachable
<1>4. t[s].name \in Name
  BY <1>2 DEF Table, IsEntry, Entry
<1>5. \A j \in 0..(k - 1) : Probe(t[s].name, j) \in Slot
  BY <1>4, ProbeInTable DEF Slot
<1>6. Reaches(u, t[s].name, k)
  BY <1>1, <1>3, <1>5 DEF Reaches
<1> QED
  BY <1>2, <1>3, <1>6

\* The first probe that holds n, if any does.
LEMMA FirstHolder ==
    ASSUME NEW t \in Table, NEW n \in Name, NEW k \in Slot, Holds(t, n, k)
    PROVE  \E i \in 0..k : Holds(t, n, i) /\ \A j \in 0..(i - 1) : ~Holds(t, n, j)
<1> DEFINE T == {i \in 0..k : Holds(t, n, i)}
<1>1. T \subseteq Nat /\ T # {}
  BY DEF Slot
<1>2. \E x \in T : \A y \in T : ~(<<y, x>> \in OpToRel(<, Nat))
  <2> HIDE DEF T
  <2> QED
    BY <1>1, NatLessThanWellFounded, WFMin
<1>3. PICK x \in T : \A y \in T : ~(<<y, x>> \in OpToRel(<, Nat))
  BY <1>2
<1>4. \A y \in T : ~(y < x)
  BY <1>1, <1>3, Zenon DEF OpToRel
<1> QED
  BY <1>1, <1>4 DEF Slot

\* libmpq__file_number_from_hash finds a name exactly when the table has an
\* entry of it, and then an entry of that name.
LEMMA LookupComplete ==
    ASSUME NEW t \in Table, Reachable(t), NEW n \in Name
    PROVE  /\ Found(t, n) <=> \E s \in Slot : IsEntry(t, s) /\ t[s].name = n
           /\ Found(t, n) => \E s \in Slot : IsEntry(t, s) /\ t[s].name = n /\ t[s] = Lookup(t, n)
<1>1. ASSUME NEW i \in Slot, FoundAt(t, n, i)
      PROVE  /\ Probe(n, i) \in Slot /\ IsEntry(t, Probe(n, i)) /\ t[Probe(n, i)].name = n
  BY <1>1, ProbeInTable DEF FoundAt, Holds, Slot
<1>2. ASSUME NEW s \in Slot, IsEntry(t, s), t[s].name = n PROVE Found(t, n)
  <2>1. PICK k \in Slot : Probe(n, k) = s /\ Reaches(t, n, k)
    BY <1>2 DEF Reachable
  <2>2. Holds(t, n, k)
    BY <1>2, <2>1 DEF Holds
  <2>3. PICK i \in 0..k : Holds(t, n, i) /\ \A j \in 0..(i - 1) : ~Holds(t, n, j)
    BY <2>2, FirstHolder
  <2>4. Reaches(t, n, i)
    BY <2>1, <2>3 DEF Reaches, Slot
  <2> QED
    BY <2>3, <2>4 DEF Found, FoundAt, Slot
<1>3. ASSUME Found(t, n)
      PROVE  \E s \in Slot : IsEntry(t, s) /\ t[s].name = n /\ t[s] = Lookup(t, n)
  <2> DEFINE i == CHOOSE k \in Slot : FoundAt(t, n, k)
  <2>1. i \in Slot /\ FoundAt(t, n, i)
    BY <1>3 DEF Found
  <2>2. Lookup(t, n) = t[Probe(n, i)]
    BY DEF Lookup
  <2> HIDE DEF i
  <2> QED
    BY <1>1, <2>1, <2>2
<1> QED
  BY <1>2, <1>3

(***************************************************************************)
(* The archive.                                                            *)
(***************************************************************************)

IInv ==
    /\ hash \in Table
    /\ DOMAIN block = Block
    /\ EntriesReachable
    /\ MembersReadable

\* An entry of a table has a name and a block.
LEMMA EntryType ==
    ASSUME NEW t \in Table, NEW s \in Slot, IsEntry(t, s)
    PROVE  t[s] \in Entry /\ t[s].name \in Name /\ t[s].block \in Block
BY DEF Table, IsEntry, Entry

\* A member that resolves is found in an entry of its name.
LEMMA ResolvedEntry ==
    ASSUME IInv, NEW n \in Name, Found(hash, n)
    PROVE  \E s \in Slot : IsEntry(hash, s) /\ hash[s].name = n /\ hash[s].block = BlockOf(n)
<1>1. PICK s \in Slot : IsEntry(hash, s) /\ hash[s].name = n /\ hash[s] = Lookup(hash, n)
  BY LookupComplete DEF IInv, EntriesReachable
<1> QED
  BY <1>1 DEF BlockOf

\* stream_finish enters a member.
LEMMA EnterInv ==
    ASSUME IInv, NEW n \in Name, NEW x \in Variant, NEW content, content.exists,
           content.key \in {Plain, FileKey[n]}, Enter(n, x, content)
    PROVE  IInv'
<1>1. PICK i \in Slot, b \in Block \ Used :
        /\ FreeAt(hash, n, i)
        /\ hash' = [hash EXCEPT ![Probe(n, i)] = [name |-> n, variant |-> x, block |-> b]]
        /\ block' = [block EXCEPT ![b] = content]
  BY Zenon DEF Enter
<1> DEFINE e == [name |-> n, variant |-> x, block |-> b]
<1>2. e \in Entry /\ e.name = n /\ e.block = b
  BY DEF Entry
<1> HIDE DEF e
<1>3. hash' = [hash EXCEPT ![Probe(n, i)] = e]
  BY <1>1 DEF e
<1>4. ~IsEntry(hash, Probe(n, i)) /\ \A j \in 0..(i - 1) : hash[Probe(n, j)] # Free
  BY <1>1 DEF FreeAt, IsEntry
<1>5. hash' \in Table /\ Reachable(hash')
  BY <1>2, <1>3, <1>4, FillKeepsReachable, Zenon DEF IInv, EntriesReachable
<1>6. DOMAIN block' = Block
  BY <1>1 DEF IInv
<1>7. Probe(n, i) \in Slot
  BY ProbeInTable DEF Slot
<1>8. ASSUME NEW s \in Slot, IsEntry(hash', s)
      PROVE  /\ block'[hash'[s].block].exists
             /\ hash'[s].name \in Native =>
                    block'[hash'[s].block].key \in {Plain, ReadKey[hash'[s].name]}
  <2>1. CASE s = Probe(n, i)
    <3>1. hash'[s] = e
      BY <2>1, <1>3, <1>7 DEF IInv, Table
    <3>2. block'[b] = content
      BY <1>1 DEF IInv
    <3> QED
      BY <3>1, <3>2, <1>2 DEF Native
  <2>2. CASE s # Probe(n, i)
    <3>1. hash'[s] = hash[s] /\ IsEntry(hash, s)
      BY <2>2, <1>3, <1>8 DEF IInv, Table, IsEntry
    <3>2. hash[s].block \in Used
      BY <3>1, EntryType DEF IInv, MembersReadable, Readable, Used
    <3>3. block'[hash[s].block] = block[hash[s].block]
      BY <1>1, <3>2 DEF IInv, Used
    <3> QED
      BY <3>1, <3>3 DEF IInv, MembersReadable, Readable
  <2> QED
    BY <2>1, <2>2
<1> QED
  BY <1>5, <1>6, <1>8 DEF IInv, EntriesReachable, MembersReadable, Readable

\* The trailing half of update_apply: the signature goes with its entries and
\* (listfile) and (attributes) are packed again.
LEMMA RebuildInv ==
    ASSUME NEW entries \in Table, Reachable(entries), NEW blocks, DOMAIN blocks = Block,
           Readable(entries, blocks, Native), NEW digests, NEW names,
           Rebuild(entries, blocks, digests, names)
    PROVE  IInv'
<1>1. \A s \in Slot : hash'[s] = IF IsEntry(entries, s) /\ IsBlockOf(Signature, entries[s].block)
                                THEN Deleted ELSE entries[s]
  BY DEF Rebuild
<1>2. hash' \in Table
  BY DEF Rebuild, Table
<1>3. Reachable(hash')
  BY <1>1, <1>2, DeleteKeepsReachable
<1>4. DOMAIN block' = Block
  BY DEF Rebuild
<1>5. ASSUME NEW b \in Block, ~IsBlockOf(Signature, b)
      PROVE  block'[b] = blocks[b] \/ (block'[b].exists /\ block'[b].key = Plain)
  BY <1>5 DEF Rebuild, Content
<1>6. ASSUME NEW s \in Slot, IsEntry(hash', s)
      PROVE  /\ block'[hash'[s].block].exists
             /\ hash'[s].name \in Native =>
                    block'[hash'[s].block].key \in {Plain, ReadKey[hash'[s].name]}
  <2>1. hash'[s] = entries[s] /\ IsEntry(entries, s) /\ ~IsBlockOf(Signature, entries[s].block)
    BY <1>1, <1>6 DEF IsEntry
  <2>2. entries[s].block \in Block
    BY <2>1, EntryType
  <2> QED
    BY <1>5, <2>1, <2>2, Zenon DEF Readable
<1> QED
  BY <1>2, <1>3, <1>4, <1>6 DEF IInv, EntriesReachable, MembersReadable, Readable

\* Replacing packs new data into a block that only the one entry uses.
LEMMA ReplaceInv ==
    ASSUME IInv, NEW n \in Member, NEW v \in Value, NEW encrypt \in BOOLEAN,
           Replace(n, v, encrypt)
    PROVE  IInv'
<1> DEFINE k == IF encrypt THEN FileKey[n] ELSE Plain
           blocks == [block EXCEPT ![BlockOf(n)] = Content(v, k)]
<1>1. n \in Name
  BY DEF Member
<1>2. PICK r \in Slot : IsEntry(hash, r) /\ hash[r].name = n /\ hash[r].block = BlockOf(n)
  BY <1>1, ResolvedEntry DEF Replace, Editable, Resolves
<1>3. BlockOf(n) \in Block
  BY <1>2, EntryType DEF IInv
<1>4. DOMAIN blocks = Block
  BY DEF IInv
<1>5. \A b \in Block : blocks[b] = IF b = BlockOf(n) THEN Content(v, k) ELSE block[b]
  BY <1>3 DEF IInv
<1>6. Content(v, k).exists /\ Content(v, k).key \in {Plain, FileKey[n]}
  BY DEF Content
<1>7. Rebuild(hash, blocks, [Digests EXCEPT ![BlockOf(n)] = v], Names \cup {n})
  BY DEF Replace
<1> HIDE DEF k, blocks
<1>8. Readable(hash, blocks, Native)
  <2> SUFFICES ASSUME NEW s \in Slot, IsEntry(hash, s)
               PROVE  /\ blocks[hash[s].block].exists
                      /\ hash[s].name \in Native =>
                             blocks[hash[s].block].key \in {Plain, ReadKey[hash[s].name]}
    BY DEF Readable
  <2>1. hash[s].block \in Block
    BY EntryType DEF IInv
  <2>2. CASE hash[s].block = BlockOf(n)
    <3>1. s = r
      BY <1>2, <2>2 DEF Replace, SoleReference
    <3> QED
      BY <1>2, <1>5, <1>6, <2>1, <2>2, <3>1, Zenon DEF Native
  <2>3. CASE hash[s].block # BlockOf(n)
    BY <1>5, <2>1, <2>3, Zenon DEF IInv, MembersReadable, Readable
  <2> QED
    BY <2>2, <2>3, Zenon
<1> QED
  BY <1>4, <1>7, <1>8, RebuildInv DEF IInv, EntriesReachable

\* Removing gives up the block only when no entry is left that uses it.
LEMMA RemoveInv ==
    ASSUME IInv, NEW n \in Member, Remove(n)
    PROVE  IInv'
<1>1. PICK s \in Slot :
        /\ FirstSlotOf(n, s)
        /\ LET entries == [hash EXCEPT ![s] = Deleted]
               gone    == ~Referenced(entries, BlockOf(n))
           IN  Rebuild(entries,
                       IF gone THEN [block EXCEPT ![BlockOf(n)] = Empty] ELSE block,
                       IF gone THEN [Digests EXCEPT ![BlockOf(n)] = Zero] ELSE Digests,
                       Names \ {n})
  BY Zenon DEF Remove
<1> DEFINE entries == [hash EXCEPT ![s] = Deleted]
           gone    == ~Referenced(entries, BlockOf(n))
           blocks  == IF gone THEN [block EXCEPT ![BlockOf(n)] = Empty] ELSE block
           digests == IF gone THEN [Digests EXCEPT ![BlockOf(n)] = Zero] ELSE Digests
<1>2. Rebuild(entries, blocks, digests, Names \ {n})
  BY <1>1
<1>3. entries \in Table /\ \A r \in Slot : entries[r] = IF r = s THEN Deleted ELSE hash[r]
  BY DEF IInv, Table
<1>4. DOMAIN blocks = Block
  BY DEF IInv
<1>5. \A b \in Block : (gone /\ b = BlockOf(n)) \/ blocks[b] = block[b]
  BY DEF IInv
<1>6. gone => ~Referenced(entries, BlockOf(n))
  OBVIOUS
<1> HIDE DEF entries, gone, blocks, digests
<1>7. Reachable(entries)
  BY <1>3, DeleteKeepsReachable DEF IInv, EntriesReachable
<1>8. Readable(entries, blocks, Native)
  <2> SUFFICES ASSUME NEW r \in Slot, IsEntry(entries, r)
               PROVE  /\ blocks[entries[r].block].exists
                      /\ entries[r].name \in Native =>
                             blocks[entries[r].block].key \in {Plain, ReadKey[entries[r].name]}
    BY DEF Readable
  <2>1. entries[r] = hash[r] /\ IsEntry(hash, r)
    BY <1>3 DEF IsEntry
  <2>2. entries[r].block \in Block /\ ~(gone /\ entries[r].block = BlockOf(n))
    BY <1>3, <1>6, EntryType DEF Referenced
  <2>3. blocks[entries[r].block] = block[hash[r].block]
    BY <1>5, <2>1, <2>2, Zenon
  <2> QED
    BY <2>1, <2>3 DEF IInv, MembersReadable, Readable
<1> QED
  BY <1>2, <1>3, <1>4, <1>7, <1>8, RebuildInv

\* Renaming moves the entry to a vacant slot of the new name's probe, and an
\* encrypted block, which no other entry uses, to the new name's key.
LEMMA RenameInv ==
    ASSUME IInv, NEW n \in Member, NEW m \in Member, Rename(n, m)
    PROVE  IInv'
<1> DEFINE old == block[BlockOf(n)]
           packed == IF old.key = Plain THEN old ELSE Content(old.data, FileKey[m])
           blocks == [block EXCEPT ![BlockOf(n)] = packed]
<1>1. PICK s \in Slot, i \in Slot :
        /\ FirstSlotOf(n, s)
        /\ VacantAt([hash EXCEPT ![s] = Deleted], m, i)
        /\ Rebuild([hash EXCEPT ![s] = Deleted, ![Probe(m, i)] = [hash[s] EXCEPT !.name = m]],
                   blocks, Digests, (Names \ {n}) \cup {m})
  BY Zenon DEF Rename
<1> DEFINE moved == [hash[s] EXCEPT !.name = m]
           without == [hash EXCEPT ![s] = Deleted]
           entries == [without EXCEPT ![Probe(m, i)] = moved]
<1>2. IsEntry(hash, s) /\ hash[s].block = BlockOf(n) /\ m \in Name
  BY <1>1 DEF FirstSlotOf, SlotOf, Member
<1>3. hash[s] \in Entry /\ BlockOf(n) \in Block
  BY <1>2, EntryType DEF IInv
<1>4. moved \in Entry /\ moved.name = m /\ moved.block = BlockOf(n)
  BY <1>2, <1>3 DEF Entry
<1>5. without \in Table /\ \A r \in Slot : without[r] = IF r = s THEN Deleted ELSE hash[r]
  BY DEF IInv, Table
<1>6. Rebuild(entries, blocks, Digests, (Names \ {n}) \cup {m})
  BY <1>1
<1>7. VacantAt(without, m, i)
  BY <1>1
<1>8. DOMAIN blocks = Block /\ \A b \in Block : blocks[b] = IF b = BlockOf(n) THEN packed ELSE block[b]
  BY <1>3 DEF IInv
<1>9. old.key # Plain => SoleReference(hash, BlockOf(n))
  BY DEF Rename
<1>10. old.exists
  BY <1>2 DEF IInv, MembersReadable, Readable
<1>11. packed.exists /\ packed.key \in {Plain, FileKey[m]} /\ (old.key = Plain => packed.key = Plain)
  BY <1>10 DEF Content
<1> HIDE DEF moved, without, packed, blocks
<1>12. Reachable(without)
  BY <1>5, DeleteKeepsReachable DEF IInv, EntriesReachable
<1>13. ~IsEntry(without, Probe(m, i)) /\ \A j \in 0..(i - 1) : without[Probe(m, j)] # Free
  BY <1>7 DEF VacantAt, IsEntry
<1>14. entries \in Table /\ Reachable(entries)
  BY <1>2, <1>4, <1>5, <1>12, <1>13, FillKeepsReachable
<1>15. Probe(m, i) \in Slot
  BY <1>2, ProbeInTable DEF Slot
<1>16. \A r \in Slot : entries[r] = IF r = Probe(m, i) THEN moved ELSE without[r]
  BY <1>5, <1>15 DEF Table
<1> HIDE DEF entries
<1>17. Readable(entries, blocks, Native)
  <2> SUFFICES ASSUME NEW r \in Slot, IsEntry(entries, r)
               PROVE  /\ blocks[entries[r].block].exists
                      /\ entries[r].name \in Native =>
                             blocks[entries[r].block].key \in {Plain, ReadKey[entries[r].name]}
    BY DEF Readable
  <2>1. CASE r = Probe(m, i)
    <3>1. entries[r] = moved
      BY <2>1, <1>16
    <3>2. blocks[BlockOf(n)] = packed
      BY <1>3, <1>8, Zenon
    <3> QED
      BY <3>1, <3>2, <1>4, <1>11 DEF Native
  <2>2. CASE r # Probe(m, i)
    <3>1. r # s /\ entries[r] = hash[r] /\ IsEntry(hash, r)
      BY <2>2, <1>5, <1>16 DEF IsEntry
    <3>2. hash[r].block \in Block
      BY <3>1, EntryType DEF IInv
    <3>3. CASE hash[r].block = BlockOf(n)
      <4>1. old.key = Plain
        BY <1>2, <1>9, <3>1, <3>3 DEF SoleReference
      <4> QED
        BY <1>8, <1>11, <3>1, <3>2, <3>3, <4>1, Zenon
    <3>4. CASE hash[r].block # BlockOf(n)
      BY <1>8, <3>1, <3>2, <3>4, Zenon DEF IInv, MembersReadable, Readable
    <3> QED
      BY <3>3, <3>4
  <2> QED
    BY <2>1, <2>2
<1> QED
  BY <1>6, <1>8, <1>14, <1>17, RebuildInv

\* A second name for a block keeps the invariant.
LEMMA AliasInv ==
    ASSUME IInv, NEW n \in Member, NEW x \in Variant, NEW b \in Block, Alias(n, x, b)
    PROVE  IInv'
<1>1. PICK i \in Slot :
        /\ FreeAt(hash, n, i)
        /\ hash' = [hash EXCEPT ![Probe(n, i)] = [name |-> n, variant |-> x, block |-> b]]
  BY Zenon DEF Alias
<1> DEFINE e == [name |-> n, variant |-> x, block |-> b]
<1>2. e \in Entry /\ e.name = n /\ e.block = b /\ n \in Name
  BY DEF Entry, Member
<1> HIDE DEF e
<1>3. hash' = [hash EXCEPT ![Probe(n, i)] = e]
  BY <1>1 DEF e
<1>4. ~IsEntry(hash, Probe(n, i)) /\ \A j \in 0..(i - 1) : hash[Probe(n, j)] # Free
  BY <1>1 DEF FreeAt, IsEntry
<1>5. hash' \in Table /\ Reachable(hash')
  BY <1>2, <1>3, <1>4, FillKeepsReachable, Zenon DEF IInv, EntriesReachable
<1>6. \A s \in Slot : hash'[s] = hash[s] \/ hash'[s] = e
  BY <1>3 DEF IInv, Table
<1>7. block' = block /\ block[b].exists /\ block[b].key \in {Plain, ReadKey[n]}
  BY DEF Alias, Used
<1>8. Readable(hash', block', Native)
  BY <1>2, <1>6, <1>7 DEF IInv, MembersReadable, Readable, IsEntry
<1> QED
  BY <1>5, <1>7, <1>8 DEF IInv, EntriesReachable, MembersReadable

\* Every step of the writer or of an update keeps the invariant.
LEMMA NextInv ==
    ASSUME IInv, [Next]_vars
    PROVE  IInv'
<1>1. Neutral \in Variant /\ Listfile \in Name /\ Attributes \in Name /\ Signature \in Name
  BY DEF Neutral, Reserved
<1>2. \A v, k : Content(v, k).exists /\ Content(v, k).key = k
  BY DEF Content
<1>3. ASSUME NEW n \in Member, NEW x \in Variant, NEW v \in Value, NEW encrypt \in BOOLEAN,
             Add(n, x, v, encrypt)
      PROVE  IInv'
  <2> DEFINE c == Content(v, IF encrypt THEN FileKey[n] ELSE Plain)
  <2>1. n \in Name /\ Enter(n, x, c)
    BY <1>3 DEF Add, Member
  <2>2. c.exists /\ c.key \in {Plain, FileKey[n]}
    BY DEF Content
  <2> HIDE DEF c
  <2> QED
    BY <2>1, <2>2, EnterInv
<1>4. CASE Sign
  BY <1>1, <1>2, <1>4, EnterInv DEF Sign
<1>5. CASE FinalizeListfile
  <2>1. CASE WithListfile
    <3> DEFINE d == LiveNames \cup (IF WithAttributes THEN {Attributes} ELSE {})
    <3>1. Enter(Listfile, Neutral, Content(d, Plain))
      BY <1>5, <2>1 DEF FinalizeListfile
    <3> HIDE DEF d
    <3> QED
      BY <1>1, <1>2, <3>1, EnterInv
  <2>2. CASE ~WithListfile
    BY <1>5, <2>2 DEF FinalizeListfile, IInv, EntriesReachable, MembersReadable
  <2> QED
    BY <2>1, <2>2
<1>6. CASE FinalizeAttributes
  <2>1. CASE WithAttributes
    <3> DEFINE d == [b \in Block |-> IF b \in Used THEN block[b].data ELSE Zero]
    <3>1. Enter(Attributes, Neutral, Content(d, Plain))
      BY <1>6, <2>1 DEF FinalizeAttributes
    <3> HIDE DEF d
    <3> QED
      BY <1>1, <1>2, <3>1, EnterInv
  <2>2. CASE ~WithAttributes
    BY <1>6, <2>2 DEF FinalizeAttributes, IInv, EntriesReachable, MembersReadable
  <2> QED
    BY <2>1, <2>2
<1>7. CASE UNCHANGED vars
  BY <1>7 DEF vars, IInv, EntriesReachable, MembersReadable
<1> QED
  BY <1>3, <1>4, <1>5, <1>6, <1>7, AliasInv, ReplaceInv, RemoveInv, RenameInv DEF Next

\* The invariant holds from the empty table on.
LEMMA Invariance == Spec => []IInv
<1>1. Init => IInv
  <2> SUFFICES ASSUME Init PROVE IInv
    OBVIOUS
  <2>1. hash \in Table /\ \A s \in Slot : ~IsEntry(hash, s)
    BY DEF Init, Table, IsEntry
  <2> QED
    BY <2>1 DEF Init, IInv, EntriesReachable, Reachable, MembersReadable, Readable
<1>2. IInv /\ [Next]_vars => IInv'
  BY NextInv
<1> QED
  BY <1>1, <1>2, PTL DEF Spec

\* Whatever the table size and however probes collide, wrap around, pass over
\* deleted slots or reuse them: no entry is ever cut off by a free slot.
THEOREM NoEntryCutOff == Spec => []EntriesReachable
BY Invariance, PTL DEF IInv

\* Whatever blocks entries share, no replacement, removal or renaming leaves an
\* entry whose block is gone or, for a name without a forward slash, packed
\* under the key of another name.
THEOREM MembersStayReadable == Spec => []MembersReadable
BY Invariance, PTL DEF IInv

\* libmpq__file_number finds every name the table has an entry of, and no other.
THEOREM LookupFindsEveryName == Spec => [](\A n \in Name : Found(hash, n) <=> n \in LiveNames)
<1>1. IInv => \A n \in Name : Found(hash, n) <=> n \in LiveNames
  BY LookupComplete DEF IInv, EntriesReachable, LiveNames
<1> QED
  BY <1>1, Invariance, PTL
=============================================================================
