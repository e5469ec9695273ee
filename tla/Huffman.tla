------------------------------ MODULE Huffman ------------------------------
(***************************************************************************)
(* The adaptive Huffman codec of mpq-huffman.c: an encoder that grows a    *)
(* tree while it emits a bit stream, and the decoder that must grow the    *)
(* same tree from the stream alone.  The input is chosen byte by byte, the *)
(* encoder closes the stream, then the decoder takes one symbol per step.  *)
(*                                                                         *)
(* A tree keeps its nodes, numbered as they leave the pool, in one list    *)
(* sorted by falling weight: the linked list of the code with its encoded  *)
(* links is the sequence order, its head the root and its tail ht->last.   *)
(* The two children of a node are neighbours in that list; child names the *)
(* one further from the head, which is the branch of bit 0.                *)
(*                                                                         *)
(* The encoder writes compression type 0 and no other.                     *)
(***************************************************************************)
EXTENDS Integers, SequencesExt

CONSTANTS Symbols,     \* the bytes the callers compress
          MaxInput,    \* longest input
          QuickBits,   \* bits of a quick-decode prefix: 7 in the code
          PathLimit,   \* a code this long is refused: 32 in the code
          Spare        \* room of the output beyond the input's length, for a
                       \* decoder that is an inner stage of a chain

ASSUME HuffmanAssumption ==
    /\ Symbols \subseteq 0..255 /\ MaxInput \in Nat /\ Spare \in Nat \ {0}
    /\ QuickBits \in Nat \ {0} /\ PathLimit \in Nat \ {0}

VARIABLES input,       \* in_buf up to the byte the encoder has reached
          coding,      \* "open", "closed" or "refused"
          tree,        \* the encoder's tree
          bits,        \* the bits it has written after the type byte
          history,     \* tree and bit count after each byte, for InStep
          decoder      \* the decoder, or NoDecoder

vars == <<input, coding, tree, bits, history, decoder>>

None == 0

\* The control symbols that follow the 256 literals.
EndMark == 256
Escape  == 257

\* huffman_initial_weights of compression type 0: the literals that start with
\* a weight, in the order of their values
Weighted == <<0, 255>>

InitialWeight == [s \in Range(Weighted) |-> IF s = 0 THEN 10 ELSE 2]

Alphabet == Symbols \cup Range(Weighted) \cup {EndMark, Escape}

----------------------------------------------------------------------------
(* The tree                                                                *)

\* libmpq__huffman_tree_init: no node, no symbol, generation one
EmptyTree ==
    [order |-> <<>>, weight |-> <<>>, sym |-> <<>>, parent |-> <<>>,
     child |-> <<>>, gen |-> 1, node |-> [s \in Alphabet |-> None]]

Size(t) == Len(t.weight)

Place(t, n) == CHOOSE i \in 1..Len(t.order) : t.order[i] = n

WeightAt(t, i) == t.weight[t.order[i]]

\* The next node of the pool with its symbol and weight, put at place i.
NewNode(t, s, w, i) ==
    LET n == Size(t) + 1
    IN [t EXCEPT !.order = InsertAt(@, i, n),   !.weight = Append(@, w),
                 !.sym = Append(@, s),          !.parent = Append(@, None),
                 !.child = Append(@, None)]

\* Searching from place i towards the head, just behind the first node that
\* weighs at least w, or at the head.
PlaceFor(t, i, w) == Max({0} \cup {k \in 1..i : WeightAt(t, k) >= w}) + 1

Heaviest(t) == Max({0} \cup Range(t.weight))

\* A weighted literal: at the head when it is no lighter than all before it.
AddLiteral(t, s) ==
    LET w == InitialWeight[s]
        i == IF w >= Heaviest(t) THEN 1 ELSE PlaceFor(t, Len(t.order), w)
    IN [NewNode(t, s, w, i) EXCEPT !.node[s] = Size(t) + 1]

\* A control symbol: weight one, at the tail.
AddControl(t, s) ==
    [NewNode(t, s, 1, Len(t.order) + 1) EXCEPT !.node[s] = Size(t) + 1]

\* The nodes at places k and k - 1 get a parent, placed by its weight.
PairUp(t, k) ==
    LET one    == t.order[k]
        two    == t.order[k - 1]
        w      == t.weight[one] + t.weight[two]
        i      == IF w >= Heaviest(t) THEN 1 ELSE PlaceFor(t, k - 2, w)
        n      == Size(t) + 1
    IN [NewNode(t, None, w, i) EXCEPT !.child[n] = one, !.parent[one] = n,
                                      !.parent[two] = n]

\* libmpq__huffman_tree_build
InitialTree ==
    LET literals == FoldLeft(AddLiteral, EmptyTree, Weighted)
        leaves   == FoldLeft(AddControl, literals, <<EndMark, Escape>>)
        n        == Size(leaves)
    IN FoldLeft(PairUp, leaves, [i \in 1..(n - 1) |-> n + 1 - i])

\* p_item1 of update_weights: the node furthest towards the head that node n
\* outweighs, with nothing as heavy in between; n itself when there is none.
Leader(t, n) ==
    t.order[PlaceFor(t, Place(t, n) - 1, t.weight[n])]

\* Mutant: the parents go on naming the child they had.
ExchangeKeepsChild(t, a, b) ==
    LET trade(n) == CASE n = a -> b [] n = b -> a [] OTHER -> n
    IN [t EXCEPT !.order = [i \in 1..Len(@) |-> trade(@[i])],
                 !.parent[a] = t.parent[b], !.parent[b] = t.parent[a],
                 !.gen = @ + 1]

\* Mutant: the entries of the quick-decode table stay in force.
ExchangeSameGeneration(t, a, b) ==
    LET trade(n) == CASE n = a -> b [] n = b -> a [] OTHER -> n
    IN [t EXCEPT !.order = [i \in 1..Len(@) |-> trade(@[i])],
                 !.parent[a] = t.parent[b], !.parent[b] = t.parent[a],
                 !.child = [n \in 1..Len(@) |-> trade(@[n])]]

\* The two nodes trade places in the list and under their parents.
Exchange(t, a, b) ==
    LET trade(n) == CASE n = a -> b [] n = b -> a [] OTHER -> n
    IN [t EXCEPT !.order = [i \in 1..Len(@) |-> trade(@[i])],
                 !.parent[a] = t.parent[b], !.parent[b] = t.parent[a],
                 !.child = [n \in 1..Len(@) |-> trade(@[n])],
                 !.gen = @ + 1]

\* libmpq__huffman_update_weights: node n and every ancestor gain one, and
\* each moves ahead of the nodes it now outweighs.
RECURSIVE UpdateWeights(_, _)
UpdateWeights(t, n) ==
    LET grown  == [t EXCEPT !.weight[n] = @ + 1]
        leader == Leader(grown, n)
        moved  == IF leader = n THEN grown ELSE Exchange(grown, n, leader)
    IN IF n = None THEN t ELSE UpdateWeights(moved, moved.parent[n])

\* huffman_insert_literal, and the escape branch of libmpq__huffman_decode:
\* the last node of the list becomes the parent of a copy of itself and of
\* the new literal, which then gains its first weight.
InsertLiteral(t, value) ==
    LET last    == Last(t.order)
        old     == Size(t) + 1
        literal == old + 1
        copied  == NewNode(t, t.sym[last], t.weight[last], Len(t.order) + 1)
        split   == NewNode(copied, value, 0, Len(t.order) + 2)
    IN UpdateWeights(
          [split EXCEPT !.parent[old] = last, !.parent[literal] = last,
                        !.child[last] = literal,
                        !.node[t.sym[last]] = old, !.node[value] = literal],
          literal)

\* The branch of node n that one bit selects.
Branch(t, n, bit) ==
    IF bit = 0 THEN t.child[n] ELSE t.order[Place(t, t.child[n]) - 1]

\* The bits from the root down to node n.
RECURSIVE Path(_, _)
Path(t, n) ==
    LET p == t.parent[n]
    IN IF p = None THEN <<>>
       ELSE Append(Path(t, p), IF Branch(t, p, 1) = n THEN 1 ELSE 0)

----------------------------------------------------------------------------
(* The encoder                                                             *)

\* value written least significant bit first
BitsOf(value, count) == [i \in 1..count |-> (value \div 2^(i - 1)) % 2]

\* What one input byte adds to the stream: the code of its symbol, or the
\* escape's and the byte itself when the tree does not know it yet.
CodeOf(t, value) ==
    IF t.node[value] # None THEN Path(t, t.node[value])
    ELSE Path(t, t.node[Escape]) \o BitsOf(value, 8)

\* Mutant: a new literal is not counted again for its own occurrence.
AfterSymbolOnce(t, value) ==
    IF t.node[value] # None THEN UpdateWeights(t, t.node[value])
    ELSE InsertLiteral(t, value)

\* The tree after one byte: a new literal is introduced first.
AfterSymbol(t, value) ==
    LET known == IF t.node[value] # None THEN t ELSE InsertLiteral(t, value)
    IN UpdateWeights(known, known.node[value])

\* huffman_encode_symbol refuses a path of PathLimit bits.
PathTooLong(t, symbol) ==
    LET n == IF t.node[symbol] # None THEN symbol ELSE Escape
    IN Len(Path(t, t.node[n])) >= PathLimit

NoDecoder == [status |-> "none"]

Init ==
    /\ input = <<>> /\ coding = "open" /\ bits = <<>>
    /\ tree = InitialTree
    /\ history = <<>>
    /\ decoder = NoDecoder

\* One turn of the loop of libmpq__huffman_encode.
EncodeByte(value) ==
    /\ coding = "open"
    /\ Len(input) < MaxInput
    /\ ~PathTooLong(tree, value)
    /\ input' = Append(input, value)
    /\ bits' = bits \o CodeOf(tree, value)
    /\ tree' = AfterSymbol(tree, value)
    /\ history' = Append(history, [tree |-> tree', bits |-> Len(bits')])
    /\ UNCHANGED <<coding, decoder>>

\* The call fails and its caller keeps the bytes as they are.
EncodeRefused(symbol) ==
    /\ coding = "open" /\ input # <<>>
    /\ PathTooLong(tree, symbol)
    /\ coding' = "refused"
    /\ UNCHANGED <<input, bits, tree, history, decoder>>

\* The bits of whole bytes, the last one filled up with zeros, and at least
\* four bytes with the type byte.
Padded(b) ==
    LET bytes == Max({4, 1 + (Len(b) + 7) \div 8})
    IN b \o [i \in 1..(8 * bytes - 8 - Len(b)) |-> 0]

\* The end mark and the padding.
CloseStream ==
    /\ coding = "open" /\ input # <<>>
    /\ ~PathTooLong(tree, EndMark)
    /\ coding' = "closed"
    /\ bits' = Padded(bits \o Path(tree, tree.node[EndMark]))
    /\ UNCHANGED <<input, tree, history, decoder>>

----------------------------------------------------------------------------
(* The decoder                                                             *)

NoEntry == [gen |-> 0, width |-> 0, sym |-> None, item |-> None]

\* libmpq__compression_decompress_huffman up to the first symbol; room is the
\* size of the output buffer.
OpenDecoder(room) ==
    /\ coding = "closed" /\ decoder = NoDecoder
    /\ decoder' = [status |-> "busy", tree |-> InitialTree, pos |-> 0,
                   out |-> <<>>, room |-> room,
                   quick |-> [p \in 0..(2^QuickBits - 1) |-> NoEntry]]
    /\ UNCHANGED <<input, coding, tree, bits, history>>

\* huffman_refill cannot supply this many bits.
Short(pos, count) == Len(bits) - pos < count

Number(pos, count) ==
    FoldRight(LAMBDA b, n : b + 2 * n, SubSeq(bits, pos + 1, pos + count), 0)

\* The walk from node n on the bits behind pos: the leaf, or None when the
\* stream ends first, the position behind its code, and the node reached
\* after QuickBits steps.
RECURSIVE Walk(_, _, _, _)
Walk(t, n, pos, steps) ==
    LET next == Branch(t, n, bits[pos + 1])
        rest == Walk(t, next, pos + 1, steps + 1)
        here == [rest EXCEPT !.item = IF steps + 1 = QuickBits THEN next ELSE @]
    IN CASE t.child[n] = None -> [leaf |-> n, pos |-> pos, item |-> None]
         [] t.child[n] # None /\ Short(pos, 1) ->
               [leaf |-> None, pos |-> pos, item |-> None]
         [] OTHER -> here

\* The next symbol by way of the quick-decode table, None when the stream is
\* too short for it, with the table after the lookup.
NextSymbol(d) ==
    LET prefix == Number(d.pos, QuickBits)
        entry  == d.quick[prefix]
        cached == entry.gen >= d.tree.gen
        root   == d.tree.order[1]
        walk   == IF cached THEN Walk(d.tree, entry.item, d.pos + QuickBits, 0)
                  ELSE Walk(d.tree, root, d.pos, 0)
        width  == walk.pos - d.pos
        filled == [gen |-> d.tree.gen, width |-> width,
                   sym |-> IF width > QuickBits THEN None ELSE d.tree.sym[walk.leaf],
                   item |-> IF width > QuickBits THEN walk.item ELSE None]
        slots  == IF width > QuickBits THEN {prefix}
                  ELSE {p \in DOMAIN d.quick : p % 2^width = prefix % 2^width}
        learnt == [p \in DOMAIN d.quick |->
                     IF p \in slots THEN filled ELSE d.quick[p]]
    IN CASE cached /\ entry.width <= QuickBits ->
               [ok |-> TRUE, sym |-> entry.sym, pos |-> d.pos + entry.width,
                quick |-> d.quick]
         [] (cached => entry.width > QuickBits) /\ walk.leaf = None ->
               [ok |-> FALSE, sym |-> None, pos |-> walk.pos, quick |-> d.quick]
         [] OTHER ->
               [ok |-> TRUE, sym |-> d.tree.sym[walk.leaf], pos |-> walk.pos,
                quick |-> IF cached THEN d.quick ELSE learnt]

Refuse == decoder' = [decoder EXCEPT !.status = "refused"]

\* The decoder after the literal value: it is written out, and the tree is
\* brought up to date unless that was the last byte asked for.
Deliver(d, value) ==
    LET out == Append(d.out, value)
    IN IF Len(out) = d.room THEN [d EXCEPT !.out = out, !.status = "done"]
       ELSE [d EXCEPT !.out = out,
                      !.tree = UpdateWeights(@, @.node[value])]

\* One turn of the loop of libmpq__huffman_decode.
DecodeSymbol ==
    /\ decoder.status = "busy"
    /\ LET next == NextSymbol(decoder)
           read == [decoder EXCEPT !.pos = next.pos, !.quick = next.quick]
           byte == Number(next.pos, 8)
       IN IF Short(decoder.pos, QuickBits) THEN Refuse
          ELSE IF ~next.ok THEN Refuse
          ELSE IF next.sym = Escape /\ Short(next.pos, 8) THEN Refuse
          ELSE decoder' =
             CASE next.sym = EndMark -> [read EXCEPT !.status = "done"]
               [] next.sym = Escape ->
                     Deliver([read EXCEPT !.pos = next.pos + 8,
                                          !.tree = InsertLiteral(@, byte)], byte)
               [] OTHER -> Deliver(read, next.sym)
    /\ UNCHANGED <<input, coding, tree, bits, history>>

Next ==
    \/ \E value \in Symbols : EncodeByte(value)
    \/ \E symbol \in Symbols \cup {EndMark} : EncodeRefused(symbol)
    \/ CloseStream
    \/ \E more \in {0, Spare} : OpenDecoder(Len(input) + more)
    \/ DecodeSymbol

Spec == Init /\ [][Next]_vars

----------------------------------------------------------------------------
(* Properties                                                              *)

\* The weights fall from the head of the list to its tail, the children of a
\* node are neighbours behind it whose weights add up to its own, and every
\* symbol's entry is the leaf that carries it: what the encoder's and the
\* decoder's updates of mpq-huffman.c must both keep for codes to be prefixes.
WellFormed(t) ==
    /\ \A i \in 1..(Len(t.order) - 1) : WeightAt(t, i) >= WeightAt(t, i + 1)
    /\ \A n \in 1..Size(t) : t.child[n] # None =>
          LET one == t.child[n]
              two == Branch(t, n, 1)
          IN /\ t.parent[one] = n /\ t.parent[two] = n
             /\ Place(t, n) < Place(t, two)
             /\ t.weight[n] = t.weight[one] + t.weight[two]
    /\ \A s \in DOMAIN t.node : t.node[s] # None =>
          t.child[t.node[s]] = None /\ t.sym[t.node[s]] = s

\* Both trees keep the sibling order at every symbol boundary.
TreesWellFormed ==
    /\ WellFormed(tree)
    /\ decoder # NoDecoder => WellFormed(decoder.tree)

\* The decoder has delivered what was encoded, its position is where the
\* encoder stood after as many bytes, and until the last byte asked for its
\* tree is the encoder's at that point, generation included.
InStep ==
    decoder # NoDecoder =>
      LET n == Len(decoder.out)
      IN /\ IsPrefix(decoder.out, input)
         /\ n > 0 /\ decoder.status = "busy" =>
               /\ decoder.tree = history[n].tree
               /\ decoder.pos = history[n].bits
         /\ decoder.status = "done" => decoder.out = input

\* An entry of the quick-decode table that the generation still vouches for
\* leads to the leaf the tree itself has for that prefix, although the table
\* is not cleared when a node is split or moved.
QuickTableCurrent ==
    decoder # NoDecoder =>
      \A p \in DOMAIN decoder.quick :
        LET entry == decoder.quick[p]
            step(n, b) == IF n = None THEN None
                          ELSE IF decoder.tree.child[n] = None THEN None
                          ELSE Branch(decoder.tree, n, b)
            down  == FoldLeft(step, decoder.tree.order[1],
                              BitsOf(p, IF entry.width > QuickBits
                                        THEN QuickBits ELSE entry.width))
        IN entry.gen >= decoder.tree.gen =>
             IF entry.width > QuickBits THEN entry.item = down
             ELSE /\ down # None
                  /\ decoder.tree.child[down] = None
                  /\ decoder.tree.sym[down] = entry.sym

\* mpq-huffman.c:255 promises that the decoder's traversal reaches the symbol
\* that was encoded: a closed stream is never refused.
EncodedIsDecoded == decoder.status # "refused"
=============================================================================
