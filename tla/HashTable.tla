----------------------------- MODULE HashTable -----------------------------
(***************************************************************************)
(* The name hash table of an archive: open addressing with linear probing. *)
(* A table maps each slot to Free, Deleted or an entry.  Entries hold two  *)
(* hashes of the name (here the name itself), a locale and platform pair   *)
(* (here the variant) and the index of the member's block.  Start[n] is    *)
(* the first hash of a name modulo the table size.                         *)
(***************************************************************************)
EXTENDS Integers

CONSTANTS Slots,           \* hash_table_count
          Name,
          Start,           \* Start[n]: the slot where the probe for n begins
          Variant,         \* locale and platform pairs
          Block,           \* indices of the block table
          Free,            \* LIBMPQ_HASH_FREE
          Deleted          \* LIBMPQ_HASH_DELETED

Slot == 0..(Slots - 1)

Entry == [name : Name, variant : Variant, block : Block]

ASSUME HashAssumption ==
    /\ Slots \in Nat \ {0}
    /\ Start \in [Name -> Slot]
    /\ Free \notin Entry /\ Deleted \notin Entry /\ Free # Deleted

Table == [Slot -> Entry \cup {Free, Deleted}]

\* The i-th slot that a search for n visits.
Probe(n, i) == (Start[n] + i) % Slots

IsEntry(t, s) == t[s] \notin {Free, Deleted}

\* The search for n gets past its first i probes.
Reaches(t, n, i) == \A j \in 0..(i - 1) : t[Probe(n, j)] # Free

Reachable(t) ==
    \A s \in Slot : IsEntry(t, s) =>
        \E i \in Slot : Probe(t[s].name, i) = s /\ Reaches(t, t[s].name, i)

Holds(t, n, i) == IsEntry(t, Probe(n, i)) /\ t[Probe(n, i)].name = n

\* libmpq__file_number_from_hash stops at the first entry of the name, whatever
\* its variant, and gives up at a free slot or after one turn.
FoundAt(t, n, i) ==
    /\ Reaches(t, n, i)
    /\ Holds(t, n, i)
    /\ \A j \in 0..(i - 1) : ~Holds(t, n, j)

Found(t, n) == \E i \in Slot : FoundAt(t, n, i)

Lookup(t, n) == t[Probe(n, CHOOSE i \in Slot : FoundAt(t, n, i))]

\* The writer fills the first free slot of the probe ...
FreeAt(t, n, i) ==
    /\ t[Probe(n, i)] = Free
    /\ \A j \in 0..(i - 1) : t[Probe(n, j)] # Free

\* ... an update also reuses the slot of a deleted entry on the way to it.
VacantAt(t, n, i) ==
    /\ ~IsEntry(t, Probe(n, i))
    /\ \A j \in 0..(i - 1) : IsEntry(t, Probe(n, j))

\* update_block_references, up to one.
SoleReference(t, b) ==
    \A r, s \in Slot : IsEntry(t, r) /\ IsEntry(t, s) /\ t[r].block = b /\ t[s].block = b
                          => r = s

Referenced(t, b) == \E s \in Slot : IsEntry(t, s) /\ t[s].block = b
=============================================================================
