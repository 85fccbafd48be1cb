-------------------------------- MODULE Huffman --------------------------------
(***************************************************************************)
(* The compression of file_compress_commands.c: a Huffman tree from the    *)
(* frequencies of the bytes, of which only the length of every code is     *)
(* kept, canonical codes made from the lengths on both sides, and bits     *)
(* packed into bytes.                                                      *)
(*                                                                         *)
(* A compressed file is [size, lengths, stream]; the magic number is left  *)
(* out, and so is the capacity of the buffers, see FitsTheBuffer.          *)
(***************************************************************************)
EXTENDS Integers, FiniteSets, SequencesExt

CONSTANTS
    Symbols,        \* 0 .. 255 in the code
    MaxCodeLength   \* 16 in the code

ASSUME HuffmanAssumption ==
    Symbols \subseteq Nat /\ IsFiniteSet(Symbols) /\ MaxCodeLength \in Nat \ {0}

Lengths == 1 .. MaxCodeLength
ByteBits == 8
None == 0       \* no node

Frequencies(text) ==
    [s \in Symbols |-> Cardinality({k \in DOMAIN text : text[k] = s})]

--------------------------------------------------------------------------------
(* The tree. *)

\* Mutant of FindMinimum: the frequencies are compared the other way round.
FindMaximum(nodes, used) ==
    LET left == DOMAIN nodes \ used
        most == {i \in left : \A j \in left : nodes[i].frequency >= nodes[j].frequency}
    IN  IF left = {} THEN None ELSE CHOOSE i \in most : \A j \in most : i <= j

\* The first of the nodes not used yet with the least frequency.
FindMinimum(nodes, used) ==
    LET left == DOMAIN nodes \ used
        least == {i \in left : \A j \in left : nodes[i].frequency <= nodes[j].frequency}
    IN  IF left = {} THEN None ELSE CHOOSE i \in least : \A j \in least : i <= j

\* The two nodes of least frequency get a common parent, if there are two.
Join(tree) ==
    LET first == FindMinimum(tree.nodes, tree.used)
        second == FindMinimum(tree.nodes, tree.used \cup {first})
        parent == [frequency |-> tree.nodes[first].frequency
                                     + tree.nodes[second].frequency,
                   left |-> first, right |-> second]
    IN  IF first = None \/ second = None THEN tree
        ELSE [nodes |-> Append(tree.nodes, parent),
              used |-> tree.used \cup {first, second}]

\* The symbols that occur, as leaves and in their order, then the inner
\* nodes, the root last.  A symbol that is alone gets a root of its own.
BuildTree(frequency) ==
    LET present == SetToSortSeq({s \in Symbols : frequency[s] > 0},
                                LAMBDA a, b : a < b)
        leaf(s) == [frequency |-> frequency[s], left |-> None, right |-> None]
        leaves == [k \in DOMAIN present |-> leaf(present[k])]
    IN  [symbol |-> present,
         nodes |-> IF Len(present) = 1
                   THEN Append(leaves, [leaves[1] EXCEPT !.left = 1])
                   ELSE FoldLeft(LAMBDA tree, s : Join(tree),
                                 [nodes |-> leaves, used |-> {}], present).nodes]

Depth(nodes) ==
    LET parent(i) == CHOOSE j \in DOMAIN nodes :
                        nodes[j].left = i \/ nodes[j].right = i
        depth[i \in DOMAIN nodes] ==
            IF i = Len(nodes) THEN 0 ELSE depth[parent(i)] + 1
    IN  depth

\* A leaf below MaxCodeLength is not reached, its symbol gets no code.
CodeLengths(tree) ==
    LET depth == Depth(tree.nodes)
    IN  [s \in Symbols |->
            IF \E k \in DOMAIN tree.symbol :
                  tree.symbol[k] = s /\ depth[k] <= MaxCodeLength
            THEN depth[CHOOSE k \in DOMAIN tree.symbol : tree.symbol[k] = s]
            ELSE 0]

--------------------------------------------------------------------------------
(* Canonical codes: those of one length are consecutive numbers. *)

OfLength(lengths, n) == {s \in Symbols : lengths[s] = n}

\* The least code of every length.
FirstCode(lengths) ==
    LET first[n \in Lengths] ==
            IF n = 1 THEN 0
            ELSE (first[n - 1] + Cardinality(OfLength(lengths, n - 1))) * 2
    IN  first

\* How many symbols before s have codes as long.
Rank(lengths, s) == Cardinality({r \in OfLength(lengths, lengths[s]) : r < s})

\* Mutant of CodeOf: all symbols of a length get its first code.
CodeOfRankless(lengths, s) ==
    LET code == FirstCode(lengths)[lengths[s]]
    IN  [k \in 1 .. lengths[s] |-> (code \div 2 ^ (lengths[s] - k)) % 2]

\* The bits of the code of s, the highest first.
CodeOf(lengths, s) ==
    LET code == FirstCode(lengths)[lengths[s]] + Rank(lengths, s)
    IN  [k \in 1 .. lengths[s] |-> (code \div 2 ^ (lengths[s] - k)) % 2]

\* Whole bytes, the last one filled with zeros.
Padded(bits) ==
    bits \o [k \in 1 .. (-Len(bits)) % ByteBits |-> 0]

\* Symbols without a code are left out.
BitsOf(lengths, text) ==
    FlattenSeq([k \in DOMAIN text |->
                   IF lengths[text[k]] = 0 THEN << >> ELSE CodeOf(lengths, text[k])])

Compress(text) ==
    LET lengths == CodeLengths(BuildTree(Frequencies(text)))
    IN  [size |-> Len(text), lengths |-> lengths,
         stream |-> Padded(BitsOf(lengths, text))]

--------------------------------------------------------------------------------
(* Reading it back. *)

\* Symbols by length of code, then in their order.
SortedSymbols(lengths) ==
    SetToSortSeq({s \in Symbols : lengths[s] > 0},
                 LAMBDA a, b : \/ lengths[a] < lengths[b]
                               \/ lengths[a] = lengths[b] /\ a < b)

\* One more bit at a time, until the number read is one of the codes of that
\* length.  [symbol, at] if it was found, at is behind its bits.
DecodeSymbol(lengths, stream, at) ==
    LET first == FirstCode(lengths)
        value[n \in 0 .. MaxCodeLength] ==
            IF n = 0 THEN 0 ELSE 2 * value[n - 1] + stream[at + n - 1]
        shorter(n) == Cardinality({s \in Symbols : lengths[s] \in 1 .. n - 1})
        isCode(n) == /\ at + n - 1 <= Len(stream)
                     /\ value[n] >= first[n]
                     /\ value[n] - first[n] < Cardinality(OfLength(lengths, n))
        found == {n \in Lengths : isCode(n) /\ \A m \in 1 .. n - 1 : ~isCode(m)}
    IN  {[symbol |-> SortedSymbols(lengths)[shorter(n) + value[n] - first[n] + 1],
          at |-> at + n] : n \in found}

\* The text, or << >> if that fails.
Decompress(file) ==
    LET step(read, k) ==
            IF \E d \in DecodeSymbol(file.lengths, file.stream, read.at) : TRUE
            THEN LET d == CHOOSE d \in DecodeSymbol(file.lengths, file.stream, read.at) :
                              TRUE
                 IN  [read EXCEPT !.text = Append(@, d.symbol), !.at = d.at]
            ELSE [read EXCEPT !.ok = FALSE]
        end == FoldLeft(step, [ok |-> TRUE, text |-> << >>, at |-> 1],
                        [k \in 1 .. file.size |-> k])
    IN  IF end.ok THEN end.text ELSE << >>
================================================================================
