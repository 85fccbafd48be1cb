--------------------------- MODULE DefragProofs ---------------------------
(***************************************************************************)
(* Proofs about Defrag, for every disk size, pointer-block size, number of *)
(* inodes and set of requests, and whatever disk accesses fail.            *)
(***************************************************************************)
EXTENDS Defrag, AllocProofs, FiniteSetTheorems, Extremes

--------------------------------------------------------------------------
(***************************************************************************)
(* The k-th element of a set of numbers.                                   *)
(***************************************************************************)
UpTo(S, c) == {d \in S : d <= c}

LEMMA UpToFinite ==
  ASSUME NEW S \in SUBSET Nat, IsFiniteSet(S), NEW c
  PROVE  /\ IsFiniteSet(UpTo(S, c))
         /\ Cardinality(UpTo(S, c)) \in Nat
         /\ Cardinality(UpTo(S, c)) <= Cardinality(S)
<1>1. UpTo(S, c) \in SUBSET S
  BY DEF UpTo
<1>2. IsFiniteSet(UpTo(S, c)) /\ Cardinality(UpTo(S, c)) <= Cardinality(S)
  BY <1>1, FS_Subset
<1>. QED  BY <1>2, FS_CardinalityType

\* There is a k-th element, unless the set has fewer.
LEMMA NthFits ==
  ASSUME NEW S \in SUBSET Nat, IsFiniteSet(S), NEW top \in Nat,
         \A x \in S : x <= top, NEW k \in 1 .. Cardinality(S)
  PROVE  Nth(S, k) \in S /\ Cardinality(UpTo(S, Nth(S, k))) = k
<1>. DEFINE rank(c) == Cardinality(UpTo(S, c))
            T == {c \in S : k <= rank(c)}
<1>1. Cardinality(S) \in Nat /\ k \in Nat \ {0} /\ k <= Cardinality(S)
  BY FS_CardinalityType
<1>2. \A c : rank(c) \in Nat
  BY UpToFinite
<1>3. \A R \in SUBSET S : R # {} => \E m \in R : \A x \in R : x <= m
  <2>. SUFFICES ASSUME NEW R \in SUBSET S, R # {}
                PROVE  \E m \in R : \A x \in R : x <= m
    OBVIOUS
  <2>1. R \in SUBSET Nat /\ \A x \in R : x <= top
    OBVIOUS
  <2>. QED  BY <2>1, GreatestNatural
<1>4. T # {}
  <2>1. S # {}
    BY <1>1, FS_EmptySet
  <2>2. PICK m \in S : \A x \in S : x <= m
    BY <1>3, <2>1
  <2>3. UpTo(S, m) = S
    BY <2>2 DEF UpTo
  <2>. QED  BY <1>1, <2>2, <2>3
<1>5. PICK c \in T : \A x \in T : c <= x
  <2>1. T \in SUBSET Nat
    OBVIOUS
  <2>. HIDE DEF T
  <2>. QED  BY <1>4, <2>1, LeastNatural
<1>6. c \in S /\ c \in Nat /\ k <= rank(c)
  BY <1>5
<1>7. rank(c) = k
  <2>. DEFINE B == {d \in S : d < c}
  <2>1. \A d \in S : d \in Nat
    OBVIOUS
  <2>2. UpTo(S, c) = B \cup {c} /\ c \notin B
    <3>1. \A d \in S : d <= c <=> d < c \/ d = c
      BY <1>6, <2>1
    <3>2. c \in S /\ ~(c < c)
      BY <1>6
    <3>. QED  BY <3>1, <3>2 DEF UpTo
  <2>3. IsFiniteSet(B)
    BY FS_Subset
  <2>4. rank(c) = Cardinality(B) + 1 /\ Cardinality(B) \in Nat
    BY <2>2, <2>3, FS_AddElement, FS_CardinalityType
  <2>5. ASSUME k <= Cardinality(B) PROVE FALSE
    <3>1. B # {}
      BY <1>1, <2>5, FS_EmptySet
    <3>2. PICK m \in B : \A x \in B : x <= m
      BY <1>3, <3>1
    <3>3. UpTo(S, m) = B
      <4>1. \A d \in S : d <= m <=> d < c
        <5>. TAKE d \in S
        <5>1. m \in Nat /\ d \in Nat /\ c \in Nat /\ m < c
          BY <1>6, <2>1
        <5>2. d < c => d <= m
          BY <3>2
        <5>. QED  BY <5>1, <5>2
      <4>. QED  BY <4>1 DEF UpTo
    <3>4. m \in T
      BY <2>5, <3>2, <3>3
    <3>. QED  BY <1>5, <1>6, <2>1, <3>2, <3>4
  <2>. HIDE DEF B
  <2>. QED  BY <1>1, <1>6, <2>4, <2>5
<1>. HIDE DEF T
<1>8. \E e \in S : Cardinality({d \in S : d <= e}) = k
  BY <1>6, <1>7 DEF UpTo
<1>. QED  BY <1>8 DEF Nth, UpTo

--------------------------------------------------------------------------
(***************************************************************************)
(* The pointer blocks of a file of n clusters are numbered.                *)
(***************************************************************************)
LEMMA BlockFields ==
  ASSUME NEW n, NEW b \in Blocks(n)
  PROVE  /\ b = [height |-> b.height, first |-> b.first]
         /\ b.height \in 1 .. 3 /\ b.first \in DirectPointers .. n - 1
         /\ b.height <= HeightOf(b.first)
         /\ (b.first - Before(HeightOf(b.first))) % Reach(b.height) = 0
BY DEF Blocks

LEMMA BlocksFinite ==
  ASSUME NEW n \in Nat
  PROVE  IsFiniteSet(Blocks(n)) /\ Cardinality(Blocks(n)) \in Nat
<1>. DEFINE All == [height : 1 .. 3, first : DirectPointers .. n - 1]
            Pairs == (1 .. 3) \X (DirectPointers .. n - 1)
            f == [q \in Pairs |-> [height |-> q[1], first |-> q[2]]]
<1>1. IsFiniteSet(1 .. 3) /\ IsFiniteSet(DirectPointers .. n - 1)
  <2>1. 1 \in Int /\ 3 \in Int /\ DirectPointers \in Int /\ n - 1 \in Int
    BY SizesAssumption
  <2>2. IsFiniteSet(1 .. 3)
    BY <2>1, FS_Interval
  <2>3. IsFiniteSet(DirectPointers .. n - 1)
    BY <2>1, FS_Interval
  <2>. QED  BY <2>2, <2>3
<1>2. IsFiniteSet(Pairs)
  BY <1>1, FS_Product, Zenon
<1>3. f \in Surjection(Pairs, All)
  <2>1. f \in [Pairs -> All]
    OBVIOUS
  <2>2. ASSUME NEW b \in All
        PROVE  \E q \in Pairs : f[q] = b
    <3>1. <<b.height, b.first>> \in Pairs /\ f[<<b.height, b.first>>] = b
      OBVIOUS
    <3>. QED  BY <3>1
  <2>. QED  BY <2>1, <2>2 DEF Surjection
<1>. HIDE DEF f, Pairs
<1>4. IsFiniteSet(All)
  BY <1>2, <1>3, FS_Surjection
<1>5. Blocks(n) \in SUBSET All
  BY DEF Blocks
<1>. HIDE DEF All
<1>6. IsFiniteSet(Blocks(n))
  BY <1>4, <1>5, FS_Subset
<1>. QED  BY <1>6, FS_CardinalityType

\* The blocks before b in the order of their allocation, and b.
Until(b, n) ==
  {c \in Blocks(n) :
     c.first < b.first \/ (c.first = b.first /\ c.height >= b.height)}

LEMMA PlaceFits ==
  ASSUME NEW n \in Nat, NEW b \in Blocks(n)
  PROVE  Place(b, n) \in 1 .. Cardinality(Blocks(n))
<1>1. IsFiniteSet(Blocks(n)) /\ Cardinality(Blocks(n)) \in Nat
  BY BlocksFinite
<1>2. Until(b, n) \in SUBSET Blocks(n)
  BY DEF Until
<1>3. IsFiniteSet(Until(b, n)) /\ Cardinality(Until(b, n)) <= Cardinality(Blocks(n))
  BY <1>1, <1>2, FS_Subset
<1>4. Cardinality(Until(b, n)) \in Nat
  BY <1>3, FS_CardinalityType
<1>5. b \in Until(b, n)
  BY BlockFields DEF Until
<1>6. Cardinality(Until(b, n)) # 0
  BY <1>3, <1>5, FS_EmptySet
<1>7. Place(b, n) = Cardinality(Until(b, n))
  BY DEF Place, Until
<1>. QED  BY <1>1, <1>3, <1>4, <1>6, <1>7

LEMMA PlaceOrder ==
  ASSUME NEW n \in Nat, NEW b \in Blocks(n), NEW c \in Blocks(n),
         c.first < b.first \/ (c.first = b.first /\ c.height > b.height)
  PROVE  Place(c, n) # Place(b, n)
<1>1. IsFiniteSet(Blocks(n))
  BY BlocksFinite
<1>2. /\ b.height \in Int /\ b.first \in Int
      /\ c.height \in Int /\ c.first \in Int
      /\ \A d \in Blocks(n) : d.height \in Int /\ d.first \in Int
  BY BlockFields, SizesAssumption
<1>3. Until(b, n) \in SUBSET Blocks(n) /\ b \in Until(b, n)
  BY <1>2 DEF Until
<1>4. Until(c, n) \in SUBSET Until(b, n)
  BY <1>2 DEF Until
<1>5. b \notin Until(c, n)
  BY <1>2 DEF Until
<1>6. IsFiniteSet(Until(b, n))
  BY <1>1, <1>3, FS_Subset
<1>7. Cardinality(Until(c, n)) # Cardinality(Until(b, n))
  BY <1>3, <1>4, <1>5, <1>6, FS_Subset
<1>. QED  BY <1>7 DEF Place, Until

LEMMA PlaceUnique ==
  ASSUME NEW n \in Nat, NEW b \in Blocks(n), NEW c \in Blocks(n),
         Place(b, n) = Place(c, n)
  PROVE  b = c
<1>1. /\ b.height \in Int /\ b.first \in Int
      /\ c.height \in Int /\ c.first \in Int
  BY BlockFields, SizesAssumption
<1>2. b.first = c.first /\ b.height = c.height
  BY <1>1, PlaceOrder
<1>. QED  BY <1>2, BlockFields

--------------------------------------------------------------------------
(***************************************************************************)
(* Which logical clusters a pointer block leads to.                        *)
(***************************************************************************)
LEMMA ReachType ==
  /\ \A h \in 0 .. 3 : Reach(h) \in Nat \ {0}
  /\ Reach(0) = 1
  /\ \A h \in 1 .. 3 : Reach(h) = PointersPerCluster * Reach(h - 1)
<1>. DEFINE p == PointersPerCluster
<1>1. p \in Nat \ {0} /\ p * p \in Nat \ {0}
  BY SizesAssumption
<1>2. p * p * p = p * (p * p) /\ p * p * p \in Nat \ {0}
  BY <1>1
<1>3. p * 1 = p
  BY <1>1
<1>. QED  BY <1>1, <1>2, <1>3 DEF Reach

\* The logical clusters of the tree of height h are those from Before(h) on.
LEMMA HeightRange ==
  ASSUME NEW l \in Nat, NEW h \in 1 .. 3
  PROVE  /\ HeightOf(l) = h <=>
              l >= Before(h) /\ (h < 3 => l < Before(h) + Reach(h))
         /\ HeightOf(l) = 0 <=> l < DirectPointers
         /\ DirectPointers <= Before(h)
<1>. DEFINE p == PointersPerCluster
<1>1. p \in Nat \ {0} /\ p * p \in Nat \ {0}
  BY SizesAssumption
<1>. QED  BY <1>1, SizesAssumption DEF HeightOf, Before, Reach

LEMMA MulLess ==
  ASSUME NEW p \in Nat, NEW a \in Nat, NEW b \in Nat, a < b
  PROVE  p * a + p <= p * b
<1>1. PICK k \in Nat : b = a + 1 + k
  <2>1. b - a - 1 \in Nat /\ b = a + 1 + (b - a - 1)
    OBVIOUS
  <2>. QED  BY <2>1
<1>2. p * b = p * a + p + p * k
  BY <1>1
<1>3. p * k \in Nat /\ p * a \in Nat
  OBVIOUS
<1>. QED  BY <1>2, <1>3

LEMMA MulMod ==
  ASSUME NEW p \in Nat \ {0}, NEW m \in Nat
  PROVE  (p * m) % p = 0 /\ (p * m) \div p = m
<1>. DEFINE a == p * m
            q == a \div p
            r == a % p
<1>1. a \in Nat
  OBVIOUS
<1>2. q \in Nat /\ r \in 0 .. p - 1 /\ a = p * q + r
  BY <1>1, DivMod
<1>3. 0 \in 0 .. p - 1
  OBVIOUS
<1>. HIDE DEF q, r
<1>4. p * m + 0 = p * q + r
  BY <1>2
<1>. QED  BY <1>2, <1>3, <1>4, OnePlace DEF q, r

\* The tree that a cluster hangs in: how many blocks of height h it can have.
LEMMA TreeBlocks ==
  ASSUME NEW H \in 1 .. 3, NEW h \in 1 .. 3, h <= H, H < 3
  PROVE  \E k \in Nat : Reach(H) = Reach(h) * k
<1>. DEFINE p == PointersPerCluster
<1>1. p \in Nat \ {0} /\ p * p \in Nat
  BY SizesAssumption
<1>2. Reach(1) = p /\ Reach(2) = p * p
  BY DEF Reach
<1>3. Reach(1) = Reach(1) * 1 /\ Reach(2) = Reach(1) * p /\ Reach(2) = Reach(2) * 1
  BY <1>1, <1>2
<1>4. (H = 1 /\ h = 1) \/ (H = 2 /\ h = 1) \/ (H = 2 /\ h = 2)
  OBVIOUS
<1>. QED  BY <1>1, <1>3, <1>4

\* A block begins a whole number of its own reach behind the first cluster of
\* its tree, and all it leads to is in that tree.
LEMMA BlockRange ==
  ASSUME NEW n \in Nat, NEW b \in Blocks(n)
  PROVE  \E k \in Nat :
           /\ b.first = Before(HeightOf(b.first)) + Reach(b.height) * k
           /\ \A x \in 0 .. Reach(b.height) - 1 :
                HeightOf(b.first + x) = HeightOf(b.first)
<1>. DEFINE f == b.first
            h == b.height
            H == HeightOf(b.first)
            R == Reach(b.height)
            B == Before(HeightOf(b.first))
            k == (b.first - Before(HeightOf(b.first))) \div Reach(b.height)
<1>1. f \in Nat /\ h \in 1 .. 3 /\ h <= H /\ (f - B) % R = 0
  BY BlockFields, SizesAssumption
<1>2. H \in 1 .. 3 /\ B \in Nat /\ R \in Nat \ {0}
  BY <1>1, HeightType, BeforeType, ReachType DEF Height
<1>3. f >= B /\ (H < 3 => f < B + Reach(H))
  BY <1>1, <1>2, HeightRange
<1>4. f - B \in Nat
  BY <1>1, <1>2, <1>3
<1>5. k \in Nat /\ f - B = R * k + 0
  BY <1>1, <1>2, <1>4, DivMod
<1>. HIDE DEF k
<1>6. R * k \in Nat /\ f = B + R * k
  BY <1>1, <1>2, <1>5
<1>7. ASSUME NEW x \in 0 .. R - 1
      PROVE  HeightOf(f + x) = H
  <2>1. f + x \in Nat /\ f + x >= B
    BY <1>1, <1>2, <1>3
  <2>2. CASE H = 3
    BY <1>2, <2>1, <2>2, HeightRange
  <2>3. CASE H < 3
    <3>1. PICK m \in Nat : Reach(H) = R * m
      BY <1>1, <1>2, <2>3, TreeBlocks
    <3>2. R * m \in Nat /\ R * k < R * m
      BY <1>2, <1>3, <1>6, <2>3, <3>1
    <3>3. k < m
      <4>1. CASE m = k
        BY <3>2, <4>1
      <4>2. CASE m < k
        <5>1. R * m + R <= R * k
          BY <1>2, <1>5, <4>2, MulLess
        <5>. QED  BY <1>2, <1>6, <3>2, <5>1
      <4>. QED  BY <1>5, <4>1, <4>2
    <3>4. R * k + R <= R * m
      BY <1>2, <1>5, <3>3, MulLess
    <3>5. f + x < B + Reach(H)
      BY <1>2, <1>6, <3>1, <3>2, <3>4
    <3>. QED  BY <1>2, <2>1, <3>5, HeightRange
  <2>. QED  BY <1>2, <2>2, <2>3
<1>. QED  BY <1>5, <1>6, <1>7

\* The places of a file of n clusters: its clusters and pointer blocks.
Node(n, h, l) ==
  l \in 0 .. n - 1 /\ (h = 0 \/ [height |-> h, first |-> l] \in Blocks(n))

LEMMA BlockMeans ==
  ASSUME NEW n, NEW h, NEW l
  PROVE  [height |-> h, first |-> l] \in Blocks(n) <=>
           /\ h \in 1 .. 3 /\ l \in DirectPointers .. n - 1
           /\ h <= HeightOf(l) /\ (l - Before(HeightOf(l))) % Reach(h) = 0
BY DEF Blocks

LEMMA HighNode ==
  ASSUME NEW n \in Nat, NEW h \in 1 .. 3, NEW l \in 0 .. n - 1,
         h <= HeightOf(l), (l - Before(HeightOf(l))) % Reach(h) = 0
  PROVE  Node(n, h, l)
<1>1. HeightOf(l) # 0 /\ l \in Nat
  BY HeightType DEF Height
<1>2. ~(l < DirectPointers)
  BY <1>1, HeightRange, 1 \in 1 .. 3
<1>3. l \in DirectPointers .. n - 1
  BY <1>1, <1>2, SizesAssumption
<1>. QED  BY <1>3, BlockMeans DEF Node

Child(b, s) == b.first + s * Reach(b.height - 1)

LEMMA ChildRange ==
  ASSUME NEW n \in Nat, NEW b \in Blocks(n), NEW s \in Slot
  PROVE  \E k \in Nat :
           /\ Child(b, s) = Before(HeightOf(b.first))
                 + Reach(b.height - 1) * (PointersPerCluster * k + s)
           /\ b.first = Before(HeightOf(b.first)) + Reach(b.height) * k
           /\ Child(b, s) \in Nat /\ Child(b, s) >= b.first
           /\ HeightOf(Child(b, s)) = HeightOf(b.first)
<1>. DEFINE f == b.first
            h == b.height
            r == Reach(b.height - 1)
            R == Reach(b.height)
            B == Before(HeightOf(b.first))
            p == PointersPerCluster
<1>1. f \in Nat /\ h \in 1 .. 3 /\ h - 1 \in 0 .. 3 /\ p \in Nat \ {0}
      /\ s \in Nat /\ s < p
  BY BlockFields, SizesAssumption DEF Slot
<1>2. B \in Nat
  BY BeforeType, HeightType
<1>3. r \in Nat \ {0} /\ R = p * r /\ R \in Nat
  BY <1>1, ReachType
<1>4. PICK k \in Nat : /\ f = B + R * k
                       /\ \A x \in 0 .. R - 1 : HeightOf(f + x) = HeightOf(f)
  BY BlockRange
<1>. HIDE DEF f, h, r, R, B
<1>5. r * s + r <= r * p
  BY <1>1, <1>3, MulLess
<1>6. s * r = r * s /\ r * s \in Nat /\ r * p = R
  BY <1>1, <1>3
<1>7. s * r \in 0 .. R - 1
  BY <1>3, <1>5, <1>6
<1>8. f + s * r = B + r * (p * k + s)
  BY <1>1, <1>2, <1>3, <1>4
<1>9. f + s * r \in Nat /\ f + s * r >= f
  BY <1>1, <1>6
<1>10. HeightOf(f + s * r) = HeightOf(f)
  BY <1>4, <1>7
<1>11. Child(b, s) = f + s * r
  BY DEF Child, f, r
<1>. QED  BY <1>4, <1>8, <1>9, <1>10, <1>11 DEF f, h, r, R, B

LEMMA ChildNode ==
  ASSUME NEW n \in Nat, NEW b \in Blocks(n), NEW s \in Slot, Child(b, s) < n
  PROVE  Node(n, b.height - 1, Child(b, s))
<1>. DEFINE l == Child(b, s)
            h == b.height - 1
            p == PointersPerCluster
<1>1. PICK k \in Nat : /\ l = Before(HeightOf(b.first)) + Reach(h) * (p * k + s)
                       /\ l \in Nat /\ HeightOf(l) = HeightOf(b.first)
  BY ChildRange
<1>2. b.height \in 1 .. 3 /\ b.height <= HeightOf(b.first)
      /\ HeightOf(b.first) \in Nat /\ Before(HeightOf(b.first)) \in Nat
  BY BlockFields, HeightType, BeforeType DEF Height
<1>3. h \in 0 .. 2 /\ h <= HeightOf(l)
  BY <1>1, <1>2
<1>. HIDE DEF l, h
<1>4. l \in 0 .. n - 1
  BY <1>1 DEF l
<1>5. CASE h = 0
  BY <1>4, <1>5 DEF Node, l, h
<1>6. CASE h # 0
  <2>1. h \in 1 .. 3 /\ Reach(h) \in Nat \ {0}
    BY <1>3, <1>6, ReachType
  <2>2. p * k + s \in Nat
    BY SizesAssumption DEF Slot
  <2>3. Reach(h) * (p * k + s) \in Nat
    BY <2>1, <2>2
  <2>4. l - Before(HeightOf(l)) = Reach(h) * (p * k + s)
    BY <1>1, <1>2, <2>3
  <2>5. (l - Before(HeightOf(l))) % Reach(h) = 0
    BY <2>1, <2>2, <2>4, MulMod
  <2>. QED  BY <1>3, <1>4, <2>1, <2>5, HighNode DEF l, h
<1>. QED  BY <1>5, <1>6

\* No two slots lead to the same place.
LEMMA ChildUnique ==
  ASSUME NEW n \in Nat, NEW b \in Blocks(n), NEW c \in Blocks(n),
         NEW s \in Slot, NEW t \in Slot,
         b.height = c.height, Child(b, s) = Child(c, t)
  PROVE  b = c /\ s = t
<1>. DEFINE B == Before(HeightOf(b.first))
            r == Reach(b.height - 1)
            R == Reach(b.height)
            p == PointersPerCluster
<1>1. PICK k \in Nat : /\ Child(b, s) = B + r * (p * k + s)
                       /\ b.first = B + R * k
                       /\ HeightOf(Child(b, s)) = HeightOf(b.first)
  BY ChildRange
<1>2. PICK m \in Nat : /\ Child(c, t) = Before(HeightOf(c.first)) + r * (p * m + t)
                       /\ c.first = Before(HeightOf(c.first)) + R * m
                       /\ HeightOf(Child(c, t)) = HeightOf(c.first)
  BY ChildRange
<1>3. HeightOf(c.first) = HeightOf(b.first)
  BY <1>1, <1>2
<1>4. Child(c, t) = B + r * (p * m + t) /\ c.first = B + R * m
  BY <1>2, <1>3
<1>5. /\ B \in Nat /\ r \in Nat \ {0} /\ p \in Nat \ {0}
      /\ s \in 0 .. p - 1 /\ t \in 0 .. p - 1
  <2>1. b.height - 1 \in 0 .. 3
    BY BlockFields
  <2>. QED  BY <2>1, BeforeType, HeightType, ReachType, SizesAssumption DEF Slot
<1>. HIDE DEF B, r, R, p
<1>6. p * k + s \in Nat /\ p * m + t \in Nat
  BY <1>5
<1>7. r * (p * k + s) \in Nat /\ r * (p * m + t) \in Nat
  BY <1>5, <1>6
<1>8. r * (p * k + s) + 0 = r * (p * m + t) + 0 /\ 0 \in 0 .. r - 1
  <2>. DEFINE x == r * (p * k + s)
              y == r * (p * m + t)
  <2>1. B + x = B + y /\ x \in Nat /\ y \in Nat
    BY <1>1, <1>4, <1>7
  <2>. HIDE DEF x, y
  <2>2. x + 0 = y + 0 /\ 0 \in 0 .. r - 1
    BY <1>5, <2>1
  <2>. QED  BY <2>2 DEF x, y
<1>9. p * k + s = p * m + t
  BY <1>5, <1>6, <1>8, OnePlace
<1>10. k = m /\ s = t
  BY <1>5, <1>9, OnePlace
<1>. QED  BY <1>1, <1>4, <1>10, BlockFields

\* The place a field of the inode leads to.
RootPlace(r) == IF r < DirectPointers THEN r ELSE Before(RootHeight(r))

LEMMA RootNode ==
  ASSUME NEW n \in Nat, NEW r \in Root
  PROVE  /\ RootHeight(r) \in 0 .. 3 /\ RootPlace(r) \in Nat
         /\ HeightOf(RootPlace(r)) = RootHeight(r)
         /\ RootPlace(r) < n => Node(n, RootHeight(r), RootPlace(r))
<1>. DEFINE h == RootHeight(r)
            l == RootPlace(r)
<1>1. CASE r < DirectPointers
  <2>1. h = 0 /\ l = r /\ l \in Nat
    BY <1>1, SizesAssumption DEF RootHeight, RootPlace, Root
  <2>. HIDE DEF h, l
  <2>2. HeightOf(l) = 0
    BY <1>1, <2>1, HeightRange, 1 \in 1 .. 3
  <2>3. l < n => Node(n, h, l)
    BY <2>1 DEF Node
  <2>. QED  BY <2>1, <2>2, <2>3 DEF h, l
<1>2. CASE ~(r < DirectPointers)
  <2>1. h \in 1 .. 3 /\ l = Before(h)
    BY <1>2, SizesAssumption DEF RootHeight, RootPlace, Root
  <2>2. l \in Nat /\ Reach(h) \in Nat \ {0}
    BY <2>1, BeforeType, ReachType DEF Height
  <2>. HIDE DEF h, l
  <2>3. HeightOf(l) = h
    <3>1. h < 3 => l < Before(h) + Reach(h)
      BY <2>1, <2>2
    <3>2. l >= Before(h)
      BY <2>1, <2>2
    <3>. QED  BY <2>1, <2>2, <3>1, <3>2, HeightRange
  <2>4. (l - Before(HeightOf(l))) % Reach(h) = 0
    <3>1. l - Before(HeightOf(l)) = Reach(h) * 0
      BY <2>1, <2>2, <2>3
    <3>. QED  BY <2>2, <3>1, MulMod
  <2>5. l < n => Node(n, h, l)
    BY <2>1, <2>2, <2>3, <2>4, HighNode
  <2>. QED  BY <2>1, <2>2, <2>3, <2>5 DEF h, l
<1>. QED  BY <1>1, <1>2

LEMMA RootUnique ==
  ASSUME NEW r \in Root, NEW q \in Root,
         RootHeight(r) = RootHeight(q), RootPlace(r) = RootPlace(q)
  PROVE  r = q
BY SizesAssumption DEF Root, RootHeight, RootPlace

\* The place of height h on the way to logical cluster l.
StartOf(l, h) ==
  IF h = 0 THEN l
  ELSE Before(HeightOf(l))
         + Reach(h) * ((l - Before(HeightOf(l))) \div Reach(h))

LEMMA Behind ==
  ASSUME NEW l \in Nat, HeightOf(l) # 0
  PROVE  /\ Before(HeightOf(l)) \in Nat /\ HeightOf(l) \in 1 .. 3
         /\ l - Before(HeightOf(l)) \in Nat
<1>1. HeightOf(l) \in 1 .. 3
  BY HeightType DEF Height
<1>2. Before(HeightOf(l)) \in Nat /\ l >= Before(HeightOf(l))
  BY <1>1, HeightRange, BeforeType, HeightType
<1>. QED  BY <1>1, <1>2

LEMMA StartNode ==
  ASSUME NEW n \in Nat, NEW l \in Nat, NEW h \in 0 .. HeightOf(l)
  PROVE  /\ StartOf(l, h) \in 0 .. l
         /\ HeightOf(StartOf(l, h)) = HeightOf(l)
         /\ StartOf(l, h) < n => Node(n, h, StartOf(l, h))
<1>. DEFINE B == Before(HeightOf(l))
            H == HeightOf(l)
            R == Reach(h)
            a == l - B
            q == a \div R
            f == StartOf(l, h)
<1>1. CASE h = 0
  BY <1>1 DEF StartOf, Node
<1>2. CASE h # 0
  <2>1. H \in 1 .. 3 /\ B \in Nat /\ a \in Nat
    <3>1. H \in Height
      BY HeightType
    <3>2. H # 0
      BY <1>2, <3>1 DEF Height
    <3>. QED  BY <3>2, Behind
  <2>2. h \in 1 .. 3 /\ h <= H
    BY <1>2, <2>1
  <2>3. R \in Nat \ {0}
    BY <2>2, ReachType
  <2>4. q \in Nat /\ a % R \in 0 .. R - 1 /\ a = R * q + (a % R)
    BY <2>1, <2>3, DivMod
  <2>5. f = B + R * q
    BY <1>2 DEF StartOf
  <2>6. l = B + a
    BY <2>1
  <2>. HIDE DEF q, a, f
  <2>7. R * q \in Nat
    BY <2>3, <2>4
  <2>8. f \in 0 .. l /\ f >= B
    BY <2>1, <2>4, <2>5, <2>6, <2>7
  <2>9. HeightOf(f) = H
    <3>1. l >= B /\ (H < 3 => l < B + Reach(H))
      BY <2>1, HeightRange
    <3>2. H < 3 => f < B + Reach(H)
      <4>1. Reach(H) \in Nat
        BY <2>1, ReachType
      <4>. QED  BY <2>1, <2>8, <3>1, <4>1
    <3>. QED  BY <2>1, <2>8, <3>2, HeightRange
  <2>10. (f - Before(HeightOf(f))) % R = 0
    <3>1. f - Before(HeightOf(f)) = R * q
      BY <2>1, <2>5, <2>7, <2>9
    <3>. QED  BY <2>3, <2>4, <3>1, MulMod
  <2>11. f < n => Node(n, h, f)
    BY <2>2, <2>8, <2>9, <2>10, HighNode
  <2>. QED  BY <2>8, <2>9, <2>11 DEF f
<1>. QED  BY <1>1, <1>2

LEMMA DivMul ==
  ASSUME NEW p \in Nat \ {0}, NEW r \in Nat \ {0}, NEW a \in Nat
  PROVE  a \div (p * r) = (a \div r) \div p
<1>. DEFINE R == p * r
            q == a \div r
            x == a % r
            q2 == q \div p
            y == q % p
            b == a \div R
            c == a % R
<1>1. q \in Nat /\ x \in 0 .. r - 1 /\ a = r * q + x
  BY DivMod
<1>2. R \in Nat \ {0}
  OBVIOUS
<1>3. b \in Nat /\ c \in 0 .. R - 1 /\ a = R * b + c
  BY <1>2, DivMod
<1>. HIDE DEF q, x, b, c
<1>4. q2 \in Nat /\ y \in 0 .. p - 1 /\ q = p * q2 + y
  BY <1>1, DivMod
<1>. HIDE DEF q2, y
<1>5. a = R * q2 + (r * y + x)
  BY <1>1, <1>4
<1>6. r * y + x \in 0 .. R - 1
  <2>1. y \in Nat /\ y < p
    BY <1>4
  <2>2. r * y + r <= r * p
    BY <2>1, MulLess
  <2>3. r * y \in Nat /\ r * p = R
    BY <2>1
  <2>. HIDE DEF R
  <2>. QED  BY <1>1, <1>2, <2>2, <2>3
<1>. HIDE DEF R
<1>7. b = q2
  <2>. DEFINE z == r * y + x
  <2>1. z \in 0 .. R - 1 /\ R * q2 + z = R * b + c
    BY <1>3, <1>5, <1>6
  <2>. HIDE DEF z
  <2>. QED  BY <1>2, <1>3, <1>4, <2>1, OnePlace
<1>. QED  BY <1>7 DEF b, q2, q, R

\* One step of the walk goes from a place to that of the slot it takes.
LEMMA StartChild ==
  ASSUME NEW l \in Nat, NEW h \in 0 .. HeightOf(l) - 1
  PROVE  StartOf(l, h) = StartOf(l, h + 1) + SlotOf(l, h) * Reach(h)
<1>. DEFINE B == Before(HeightOf(l))
            p == PointersPerCluster
            r == Reach(h)
            a == l - B
            q == a \div r
            q2 == q \div p
            y == q % p
<1>1. HeightOf(l) \in 1 .. 3 /\ B \in Nat /\ a \in Nat
  <2>1. HeightOf(l) \in Height
    BY HeightType
  <2>2. HeightOf(l) # 0
    BY <2>1 DEF Height
  <2>. QED  BY <2>2, Behind
<1>2. h \in 0 .. 2 /\ h + 1 \in 1 .. 3
  BY <1>1
<1>3. p \in Nat \ {0} /\ r \in Nat \ {0}
  BY <1>2, ReachType, SizesAssumption
<1>4. Reach(h + 1) = p * r
  BY <1>2, ReachType, h + 1 - 1 = h
<1>5. SlotOf(l, h) = y
  <2>1. Span(h) = r
    BY <1>2 DEF Span, Reach
  <2>. QED  BY <2>1 DEF SlotOf
<1>6. StartOf(l, h + 1) = B + (p * r) * q2
  <2>1. a \div (p * r) = q2
    BY <1>1, <1>3, DivMul
  <2>2. h + 1 # 0
    BY <1>2
  <2>. QED  BY <1>4, <2>1, <2>2 DEF StartOf
<1>7. q \in Nat /\ a % r \in 0 .. r - 1 /\ a = r * q + (a % r)
  BY <1>1, <1>3, DivMod
<1>8. StartOf(l, h) = B + r * q
  <2>1. CASE h = 0
    <3>1. r = 1
      BY <2>1, ReachType
    <3>2. a % r = 0
      BY <1>7, <3>1
    <3>. HIDE DEF q
    <3>3. r * q = q
      BY <1>7, <3>1
    <3>. QED  BY <1>1, <1>7, <2>1, <3>2, <3>3 DEF StartOf
  <2>2. CASE h # 0
    BY <2>2 DEF StartOf
  <2>. QED  BY <2>1, <2>2
<1>. HIDE DEF a, q
<1>9. q2 \in Nat /\ y \in 0 .. p - 1 /\ q = p * q2 + y
  BY <1>3, <1>7, DivMod
<1>. HIDE DEF q2, y, r, p, B
<1>10. r * q = (p * r) * q2 + y * r
  BY <1>3, <1>9
<1>11. (p * r) * q2 \in Nat /\ y * r \in Nat
  BY <1>3, <1>9
<1>12. StartOf(l, h) = StartOf(l, h + 1) + y * r
  BY <1>1, <1>6, <1>8, <1>10, <1>11
<1>. QED  BY <1>5, <1>12 DEF r

\* The first step takes the field of the inode.
LEMMA StartRoot ==
  ASSUME NEW l \in 0 .. Capacity - 1
  PROVE  StartOf(l, HeightOf(l)) = RootPlace(RootOf(l))
<1>1. l \in Nat /\ DirectPointers \in Nat /\ PointersPerCluster \in Nat \ {0}
  BY SizesAssumption
<1>2. CASE HeightOf(l) = 0
  <2>1. l < DirectPointers
    BY <1>1, <1>2, HeightRange, 1 \in 1 .. 3
  <2>. QED  BY <1>2, <2>1 DEF StartOf, RootOf, RootPlace
<1>3. CASE HeightOf(l) # 0
  <2>. DEFINE H == HeightOf(l)
              B == Before(HeightOf(l))
              R == Reach(H)
              a == l - B
  <2>1. H \in 1 .. 3 /\ B \in Nat /\ a \in Nat
    BY <1>1, <1>3, Behind
  <2>2. R \in Nat \ {0}
    BY <2>1, ReachType
  <2>3. a < R
    <3>1. CASE H < 3
      <4>1. l < B + R
        BY <1>1, <2>1, <3>1, HeightRange
      <4>. QED  BY <1>1, <2>1, <2>2, <4>1
    <3>2. CASE H = 3
      <4>1. Reach(3) = PointersPerCluster * (PointersPerCluster * PointersPerCluster)
        BY <1>1 DEF Reach
      <4>. QED  BY <3>2, <4>1, OffsetType
    <3>. QED  BY <2>1, <3>1, <3>2
  <2>4. a \div R = 0
    <3>1. a \in 0 .. R - 1
      BY <2>1, <2>2, <2>3
    <3>. QED  BY <2>2, <3>1, SmallDivMod
  <2>5. StartOf(l, H) = B
    <3>1. B + R * 0 = B
      BY <2>1, <2>2
    <3>. QED  BY <1>3, <2>4, <3>1 DEF StartOf
  <2>6. ~(RootOf(l) < DirectPointers)
    <3>1. RootOf(l) = DirectPointers + H - 1
      BY <1>3 DEF RootOf
    <3>. HIDE DEF H
    <3>. QED  BY <1>1, <2>1, <3>1
  <2>7. RootPlace(RootOf(l)) = B
    BY <1>1, <2>6, RootFits DEF RootPlace
  <2>. QED  BY <2>5, <2>7
<1>. QED  BY <1>2, <1>3

--------------------------------------------------------------------------
(***************************************************************************)
(* Where the clusters and pointer blocks of a moved file are put.          *)
(***************************************************************************)
Room(i, start) == Free \ RunAt(start, count[i])
BlockAt(i, start, b) == Nth(Room(i, start), Place(b, count[i]))
Built(i, start) == {BlockAt(i, start, b) : b \in Blocks(count[i])}

Target(i, start, h, l) ==
  CASE l >= count[i] -> 0
    [] l < count[i] /\ h = 0 -> start + l
    [] OTHER -> BlockAt(i, start, [height |-> h, first |-> l])

\* There is room for file i at start.
Roomy(i, start) ==
  /\ i \in Inode /\ count[i] \in Nat
  /\ start \in Cluster /\ FreeRun(start, count[i])
  /\ Cardinality(Room(i, start)) >= Cardinality(Blocks(count[i]))

LEMMA RoomFits ==
  ASSUME NEW i, NEW start
  PROVE  /\ Room(i, start) \in SUBSET Nat /\ IsFiniteSet(Room(i, start))
         /\ Cardinality(Room(i, start)) \in Nat
         /\ \A c \in Room(i, start) : c <= TotalClusters
<1>1. Room(i, start) \in SUBSET Nat
  BY DEF Room, Free, Cluster
<1>2. \A c \in Room(i, start) : c <= TotalClusters
  BY SizesAssumption DEF Room, Free, Cluster
<1>3. TotalClusters \in Nat
  BY SizesAssumption
<1>4. IsFiniteSet(Room(i, start))
  BY <1>1, <1>2, <1>3, FS_BoundedSetOfNaturals
<1>. QED  BY <1>1, <1>2, <1>4, FS_CardinalityType

LEMMA BlockPlace ==
  ASSUME NEW i, NEW start, Roomy(i, start), NEW b \in Blocks(count[i])
  PROVE  /\ BlockAt(i, start, b) \in Room(i, start)
         /\ Cardinality(UpTo(Room(i, start), BlockAt(i, start, b)))
              = Place(b, count[i])
<1>. DEFINE n == count[i]
            S == Room(i, start)
            k == Place(b, n)
<1>1. n \in Nat /\ Cardinality(S) >= Cardinality(Blocks(n))
  BY DEF Roomy
<1>2. k \in 1 .. Cardinality(Blocks(n)) /\ Cardinality(Blocks(n)) \in Nat
  BY <1>1, PlaceFits, BlocksFinite
<1>3. /\ S \in SUBSET Nat /\ IsFiniteSet(S) /\ Cardinality(S) \in Nat
      /\ TotalClusters \in Nat /\ \A x \in S : x <= TotalClusters
  BY RoomFits, SizesAssumption
<1>4. k \in 1 .. Cardinality(S)
  BY <1>1, <1>2, <1>3
<1>. HIDE DEF S, k
<1>5. Nth(S, k) \in S /\ Cardinality(UpTo(S, Nth(S, k))) = k
  BY <1>3, <1>4, NthFits
<1>. QED  BY <1>5 DEF BlockAt, S, k

LEMMA BlockUnique ==
  ASSUME NEW i, NEW start, Roomy(i, start),
         NEW b \in Blocks(count[i]), NEW c \in Blocks(count[i]),
         BlockAt(i, start, b) = BlockAt(i, start, c)
  PROVE  b = c
<1>1. Place(b, count[i]) = Place(c, count[i])
  BY BlockPlace
<1>2. count[i] \in Nat
  BY DEF Roomy
<1>. QED  BY <1>1, <1>2, PlaceUnique

\* What the places of the new file are.
LEMMA TargetFits ==
  ASSUME NEW i, NEW start, Roomy(i, start),
         NEW h, NEW l, Node(count[i], h, l)
  PROVE  /\ Target(i, start, h, l) \in Free
         /\ h = 0 => /\ Target(i, start, h, l) = start + l
                     /\ Target(i, start, h, l) \in RunAt(start, count[i])
         /\ h # 0 => /\ [height |-> h, first |-> l] \in Blocks(count[i])
                     /\ Target(i, start, h, l)
                          = BlockAt(i, start, [height |-> h, first |-> l])
                     /\ Target(i, start, h, l) \in Built(i, start)
                     /\ Target(i, start, h, l) \notin RunAt(start, count[i])
<1>1. /\ count[i] \in Nat /\ start \in Nat
      /\ RunAt(start, count[i]) \subseteq Free
  BY DEF Roomy, FreeRun, Cluster
<1>2. l \in 0 .. count[i] - 1 /\ ~(l >= count[i]) /\ l < count[i]
  BY <1>1 DEF Node
<1>3. CASE h = 0
  <2>1. Target(i, start, h, l) = start + l
    BY <1>2, <1>3 DEF Target
  <2>2. start + l \in RunAt(start, count[i])
    BY <1>1, <1>2 DEF RunAt
  <2>. QED  BY <1>1, <1>3, <2>1, <2>2
<1>4. CASE h # 0
  <2>. DEFINE b == [height |-> h, first |-> l]
  <2>1. b \in Blocks(count[i])
    BY <1>4 DEF Node
  <2>2. Target(i, start, h, l) = BlockAt(i, start, b)
    BY <1>2, <1>4 DEF Target
  <2>. HIDE DEF b
  <2>3. BlockAt(i, start, b) \in Room(i, start)
    BY <2>1, BlockPlace
  <2>. QED  BY <1>4, <2>1, <2>2, <2>3 DEF Room, Built, b
<1>. QED  BY <1>3, <1>4

LEMMA TargetUnique ==
  ASSUME NEW i, NEW start, Roomy(i, start), NEW h, NEW l, NEW g, NEW m,
         Node(count[i], h, l), Node(count[i], g, m),
         Target(i, start, h, l) = Target(i, start, g, m)
  PROVE  h = g /\ l = m
<1>1. CASE h = 0 \/ g = 0
  <2>1. h = 0 /\ g = 0
    <3>1. h = 0 => Target(i, start, h, l) \in RunAt(start, count[i])
      BY TargetFits
    <3>2. h # 0 => Target(i, start, h, l) \notin RunAt(start, count[i])
      BY TargetFits
    <3>3. g = 0 => Target(i, start, g, m) \in RunAt(start, count[i])
      BY TargetFits
    <3>4. g # 0 => Target(i, start, g, m) \notin RunAt(start, count[i])
      BY TargetFits
    <3>. QED  BY <1>1, <3>1, <3>2, <3>3, <3>4
  <2>2. start + l = start + m
    <3>1. h = 0 => Target(i, start, h, l) = start + l
      BY TargetFits
    <3>2. g = 0 => Target(i, start, g, m) = start + m
      BY TargetFits
    <3>. QED  BY <2>1, <3>1, <3>2
  <2>3. start \in Int /\ l \in Int /\ m \in Int
    BY DEF Roomy, Cluster, Node
  <2>. QED  BY <2>1, <2>2, <2>3
<1>2. CASE h # 0 /\ g # 0
  <2>1. /\ [height |-> h, first |-> l] \in Blocks(count[i])
        /\ [height |-> g, first |-> m] \in Blocks(count[i])
        /\ BlockAt(i, start, [height |-> h, first |-> l])
             = BlockAt(i, start, [height |-> g, first |-> m])
    BY <1>2, TargetFits
  <2>2. [height |-> h, first |-> l] = [height |-> g, first |-> m]
    BY <2>1, BlockUnique
  <2>3. /\ [height |-> h, first |-> l].height = h
        /\ [height |-> g, first |-> m].height = g
        /\ [height |-> h, first |-> l].first = l
        /\ [height |-> g, first |-> m].first = m
    OBVIOUS
  <2>. QED  BY <2>2, <2>3
<1>. QED  BY <1>1, <1>2

\* No place is the superblock's.
LEMMA TargetNotZero ==
  ASSUME IInv, NEW i, NEW start, Roomy(i, start), NEW h, NEW l \in Nat,
         h \in 0 .. 3, l < count[i] => Node(count[i], h, l)
  PROVE  /\ Target(i, start, h, l) \in Cluster
         /\ Target(i, start, h, l) = 0 <=> l >= count[i]
<1>1. 0 \in used /\ 0 \in Cluster
  BY SizesAssumption DEF IInv, PointersSound, Reserved, Cluster
<1>2. count[i] \in Nat
  BY DEF Roomy
<1>3. CASE l >= count[i]
  <2>1. Target(i, start, h, l) = 0
    BY <1>2, <1>3 DEF Target
  <2>. QED  BY <1>1, <1>3, <2>1
<1>4. CASE ~(l >= count[i])
  <2>1. Node(count[i], h, l)
    BY <1>2, <1>4
  <2>2. Target(i, start, h, l) \in Free
    BY <2>1, TargetFits
  <2>. QED  BY <1>1, <1>4, <2>2 DEF Free
<1>. QED  BY <1>3, <1>4

--------------------------------------------------------------------------
(***************************************************************************)
(* What a move does.                                                       *)
(***************************************************************************)
BlockWords(i, start, b) ==
  [t \in Slot |-> Target(i, start, b.height - 1, Child(b, t))]

\* The block that is put at cluster c.
BlockIn(i, start, c) == CHOOSE b \in Blocks(count[i]) : BlockAt(i, start, b) = c

LEMMA MovedIs ==
  ASSUME NEW i, NEW start, NEW bad, Moved(i, start, bad)
  PROVE  /\ used' = (used \cup RunAt(start, count[i]) \cup Built(i, start))
                      \ Freed(index[i].root, bad)
         /\ disk' = [c \in Cluster |->
                      IF c \in Built(i, start)
                      THEN BlockWords(i, start, BlockIn(i, start, c))
                      ELSE Copied(i, start, count[i])[c]]
         /\ level' = [c \in Cluster |->
                       CASE c \in Built(i, start) -> BlockIn(i, start, c).height
                         [] c \in RunAt(start, count[i]) -> 0
                         [] OTHER -> level[c]]
         /\ index' = [index EXCEPT ![i].root = [r \in Root |->
                        Target(i, start, RootHeight(r), RootPlace(r))]]
BY Zenon DEF Moved, Target, BlockAt, BlockIn, Room, Built, BlockWords, Child, RootPlace

\* Cluster l of a file, as the walk of a reader finds it.
LEMMA OldWalk ==
  ASSUME IInv, Idle, NEW i \in Inode, NEW l \in Nat
  PROVE  /\ LiveRoot(i) = index[i].root
         /\ Old(i, l) = Walk(disk, index[i].root, l, 0)
         /\ Old(i, l) \in Cluster
         /\ Old(i, l) # 0 => Old(i, l) \in used \ Reserved /\ level[Old(i, l)] = 0
<1>1. LiveRoot(i) = index[i].root
  BY SizesAssumption DEF Idle, NoInode, Inode, LiveRoot
<1>2. Old(i, l) = Walk(disk, index[i].root, l, 0)
  BY HeightType DEF Old, Resolve, Walk, Follow, FollowOn, Height
<1>3. 0 \in 0 .. HeightOf(l)
  BY HeightType DEF Height
<1>4. LET c == Walk(disk, LiveRoot(i), l, 0)
      IN  c \in Cluster /\ (c # 0 => c \in used \ Reserved /\ level[c] = 0)
  BY <1>3, WalkSound
<1>. QED  BY <1>1, <1>2, <1>4

\* A built block is told by where it is.
LEMMA BuiltBlock ==
  ASSUME NEW i, NEW start, Roomy(i, start), NEW b \in Blocks(count[i])
  PROVE  (CHOOSE c \in Blocks(count[i]) :
            BlockAt(i, start, c) = BlockAt(i, start, b)) = b
<1>. DEFINE c == CHOOSE c \in Blocks(count[i]) :
                   BlockAt(i, start, c) = BlockAt(i, start, b)
<1>1. c \in Blocks(count[i]) /\ BlockAt(i, start, c) = BlockAt(i, start, b)
  OBVIOUS
<1>. HIDE DEF c
<1>2. c = b
  BY <1>1, BlockUnique
<1>. QED  BY <1>2 DEF c

LEMMA PlacesFree ==
  ASSUME NEW i, NEW start, Roomy(i, start)
  PROVE  /\ RunAt(start, count[i]) \subseteq Free
         /\ Built(i, start) \subseteq Free
         /\ RunAt(start, count[i]) \cap Built(i, start) = {}
         /\ Free \subseteq Cluster
<1>1. \A b \in Blocks(count[i]) : BlockAt(i, start, b) \in Room(i, start)
  BY BlockPlace
<1>2. \A c \in Built(i, start) : c \in Room(i, start)
  BY <1>1 DEF Built
<1>. QED  BY <1>2 DEF Room, Roomy, FreeRun, Free

\* What is where in the clusters of the new file, and that nothing else is
\* touched.
LEMMA MoveMeans ==
  ASSUME NEW i, NEW start, NEW bad, Roomy(i, start), Moved(i, start, bad)
  PROVE  /\ used' = (used \cup (RunAt(start, count[i]) \cup Built(i, start)))
                      \ Freed(index[i].root, bad)
         /\ index' = [index EXCEPT ![i].root = [r \in Root |->
                        Target(i, start, RootHeight(r), RootPlace(r))]]
         /\ \A b \in Blocks(count[i]) :
              /\ disk'[BlockAt(i, start, b)] = BlockWords(i, start, b)
              /\ level'[BlockAt(i, start, b)] = b.height
         /\ \A c \in RunAt(start, count[i]) :
              disk'[c] = disk[Old(i, c - start)] /\ level'[c] = 0
         /\ \A c \in Cluster \ (RunAt(start, count[i]) \cup Built(i, start)) :
              disk'[c] = disk[c] /\ level'[c] = level[c]
         /\ disk' = [c \in Cluster |-> disk'[c]]
         /\ level' = [c \in Cluster |-> level'[c]]
<1>. DEFINE at_(c) == BlockIn(i, start, c)
            B == Built(i, start)
            R == RunAt(start, count[i])
            copied == Copied(i, start, count[i])
<1>1. /\ used' = (used \cup R \cup B) \ Freed(index[i].root, bad)
      /\ disk' = [c \in Cluster |-> IF c \in B THEN BlockWords(i, start, at_(c))
                                    ELSE copied[c]]
      /\ level' = [c \in Cluster |-> CASE c \in B -> at_(c).height
                                       [] c \in R -> 0
                                       [] OTHER -> level[c]]
      /\ index' = [index EXCEPT ![i].root = [r \in Root |->
                     Target(i, start, RootHeight(r), RootPlace(r))]]
  BY MovedIs
<1>2. R \subseteq Cluster /\ B \subseteq Cluster /\ R \cap B = {}
  BY PlacesFree
<1>3. \A b \in Blocks(count[i]) :
        BlockAt(i, start, b) \in B /\ at_(BlockAt(i, start, b)) = b
  BY BuiltBlock DEF Built, BlockIn
<1>4. \A c \in Cluster : copied[c] = IF c \in R THEN disk[Old(i, c - start)]
                                     ELSE disk[c]
  BY DEF Copied
<1>. DEFINE words(c) == BlockWords(i, start, at_(c))
<1>41. \A c \in Cluster : disk'[c] = IF c \in B THEN words(c) ELSE copied[c]
  BY <1>1
<1>42. \A c \in Cluster : c \in B => level'[c] = at_(c).height
  <2>1. \A c \in B : c \notin R /\ c \in Cluster
    BY <1>2
  <2>. DEFINE e(c) == at_(c).height
  <2>2. level' = [c \in Cluster |-> CASE c \in B -> e(c) [] c \in R -> 0
                                      [] OTHER -> level[c]]
    BY <1>1
  <2>. HIDE DEF B, R, at_, e
  <2>3. \A c \in Cluster : c \in B => level'[c] = e(c)
    BY <2>1, <2>2
  <2>. QED  BY <2>3 DEF e
<1>. HIDE DEF B, R, copied
<1>5. \A b \in Blocks(count[i]) :
        /\ disk'[BlockAt(i, start, b)] = BlockWords(i, start, b)
        /\ level'[BlockAt(i, start, b)] = b.height
  <2>. TAKE b \in Blocks(count[i])
  <2>1. BlockAt(i, start, b) \in B /\ BlockAt(i, start, b) \in Cluster
        /\ at_(BlockAt(i, start, b)) = b
    BY <1>2, <1>3
  <2>2. words(BlockAt(i, start, b)) = BlockWords(i, start, b)
    BY <2>1
  <2>. HIDE DEF words, at_
  <2>. QED  BY <1>41, <1>42, <2>1, <2>2
<1>6. \A c \in R : disk'[c] = disk[Old(i, c - start)] /\ level'[c] = 0
  <2>. TAKE c \in R
  <2>1. c \in Cluster /\ c \notin B
    BY <1>2
  <2>. QED  BY <1>1, <1>4, <2>1
<1>7. \A c \in Cluster \ (R \cup B) : disk'[c] = disk[c] /\ level'[c] = level[c]
  BY <1>1, <1>4
<1>8. used' = (used \cup (R \cup B)) \ Freed(index[i].root, bad)
  BY <1>1
<1>9. disk' = [c \in Cluster |-> disk'[c]] /\ level' = [c \in Cluster |-> level'[c]]
  BY <1>1
<1>. QED  BY <1>1, <1>5, <1>6, <1>7, <1>8, <1>9 DEF B, R

\* A free cluster is at most a place of the new file; its words, and the
\* heights, have their types.
LEMMA MoveTypes ==
  ASSUME IInv, Idle, NEW i \in Inode, NEW start, NEW bad, Roomy(i, start),
         Moved(i, start, bad)
  PROVE  disk' \in [Cluster -> [Slot -> Nat]] /\ level' \in [Cluster -> Height]
<1>. DEFINE B == Built(i, start)
            R == RunAt(start, count[i])
<1>0. TypeOK
  BY DEF IInv
<1>1. ASSUME NEW b \in Blocks(count[i])
      PROVE  /\ disk'[BlockAt(i, start, b)] \in [Slot -> Nat]
             /\ level'[BlockAt(i, start, b)] \in Height
  <2>1. count[i] \in Nat
    BY DEF Roomy
  <2>2. ASSUME NEW t \in Slot
        PROVE  Target(i, start, b.height - 1, Child(b, t)) \in Nat
    <3>1. Child(b, t) \in Nat
      BY <2>1, ChildRange
    <3>2. Child(b, t) < count[i] => Node(count[i], b.height - 1, Child(b, t))
      BY <2>1, ChildNode
    <3>3. b.height - 1 \in 0 .. 3
      BY BlockFields
    <3>4. Target(i, start, b.height - 1, Child(b, t)) \in Cluster
      BY <3>1, <3>2, <3>3, TargetNotZero
    <3>. QED  BY <3>4 DEF Cluster
  <2>3. BlockWords(i, start, b) \in [Slot -> Nat]
    BY <2>2 DEF BlockWords
  <2>. QED  BY <2>3, MoveMeans, BlockFields DEF Height
<1>2. ASSUME NEW c \in R
      PROVE  disk'[c] \in [Slot -> Nat] /\ level'[c] \in Height
  <2>1. c - start \in Nat
    BY DEF RunAt, Roomy, Cluster
  <2>2. Old(i, c - start) \in Cluster
    BY <2>1, OldWalk
  <2>3. disk[Old(i, c - start)] \in [Slot -> Nat]
    BY <1>0, <2>2 DEF TypeOK
  <2>4. disk'[c] = disk[Old(i, c - start)] /\ level'[c] = 0
    BY MoveMeans
  <2>. QED  BY <2>3, <2>4 DEF Height
<1>3. ASSUME NEW c \in Cluster
      PROVE  disk'[c] \in [Slot -> Nat] /\ level'[c] \in Height
  <2>1. CASE c \in B
    BY <1>1, <2>1 DEF Built
  <2>2. CASE c \in R
    BY <1>2, <2>2
  <2>3. CASE c \notin R \cup B
    <3>1. disk'[c] = disk[c] /\ level'[c] = level[c]
      BY <2>3, MoveMeans
    <3>. QED  BY <1>0, <3>1 DEF TypeOK
  <2>. QED  BY <2>1, <2>2, <2>3
<1>. DEFINE d == disk'
            e == level'
<1>4. d = [c \in Cluster |-> d[c]] /\ e = [c \in Cluster |-> e[c]]
  BY MoveMeans
<1>5. \A c \in Cluster : d[c] \in [Slot -> Nat] /\ e[c] \in Height
  BY <1>3
<1>. HIDE DEF d, e
<1>6. d \in [Cluster -> [Slot -> Nat]] /\ e \in [Cluster -> Height]
  BY <1>4, <1>5
<1>. QED  BY <1>6 DEF d, e

\* The pointers of the new file lead to places of it, each to another one.
RootTarget(i, start, r) == Target(i, start, RootHeight(r), RootPlace(r))

LEMMA RootTargetFits ==
  ASSUME IInv, NEW i, NEW start, Roomy(i, start), NEW r \in Root
  PROVE  /\ RootTarget(i, start, r) \in Cluster
         /\ RootTarget(i, start, r) # 0 =>
              Node(count[i], RootHeight(r), RootPlace(r))
         /\ RootPlace(r) < count[i] => RootTarget(i, start, r) # 0
<1>. DEFINE h == RootHeight(r)
            l == RootPlace(r)
<1>1. count[i] \in Nat
  BY DEF Roomy
<1>2. h \in 0 .. 3 /\ l \in Nat /\ (l < count[i] => Node(count[i], h, l))
  BY <1>1, RootNode
<1>. HIDE DEF h, l
<1>3. Target(i, start, h, l) \in Cluster /\ (Target(i, start, h, l) = 0 <=> l >= count[i])
  BY <1>2, TargetNotZero
<1>4. ~(l >= count[i]) <=> l < count[i]
  BY <1>1, <1>2
<1>. QED  BY <1>2, <1>3, <1>4 DEF RootTarget, h, l

LEMMA ChildTargetFits ==
  ASSUME IInv, NEW i, NEW start, Roomy(i, start),
         NEW b \in Blocks(count[i]), NEW t \in Slot
  PROVE  LET c == BlockWords(i, start, b)[t]
         IN  /\ c = Target(i, start, b.height - 1, Child(b, t))
             /\ c \in Cluster
             /\ c # 0 => Node(count[i], b.height - 1, Child(b, t))
             /\ Child(b, t) < count[i] => c # 0
<1>. DEFINE h == b.height - 1
            l == Child(b, t)
<1>1. count[i] \in Nat
  BY DEF Roomy
<1>2. h \in 0 .. 3 /\ l \in Nat /\ (l < count[i] => Node(count[i], h, l))
  BY <1>1, ChildRange, ChildNode, BlockFields
<1>. HIDE DEF h, l
<1>3. Target(i, start, h, l) \in Cluster /\ (Target(i, start, h, l) = 0 <=> l >= count[i])
  BY <1>2, TargetNotZero
<1>4. ~(l >= count[i]) <=> l < count[i]
  BY <1>1, <1>2
<1>5. BlockWords(i, start, b)[t] = Target(i, start, h, l)
  BY DEF BlockWords, h, l
<1>. QED  BY <1>2, <1>3, <1>4, <1>5 DEF h, l

LEMMA RootsDiffer ==
  ASSUME IInv, NEW i, NEW start, Roomy(i, start), NEW r \in Root, NEW q \in Root,
         RootTarget(i, start, r) # 0,
         RootTarget(i, start, r) = RootTarget(i, start, q)
  PROVE  r = q
<1>1. /\ Node(count[i], RootHeight(r), RootPlace(r))
      /\ Node(count[i], RootHeight(q), RootPlace(q))
  BY RootTargetFits
<1>2. RootHeight(r) = RootHeight(q) /\ RootPlace(r) = RootPlace(q)
  BY <1>1, TargetUnique DEF RootTarget
<1>. QED  BY <1>2, RootUnique

LEMMA ChildrenDiffer ==
  ASSUME IInv, NEW i, NEW start, Roomy(i, start),
         NEW b \in Blocks(count[i]), NEW c \in Blocks(count[i]),
         NEW s \in Slot, NEW t \in Slot,
         BlockWords(i, start, b)[s] # 0,
         BlockWords(i, start, b)[s] = BlockWords(i, start, c)[t]
  PROVE  b = c /\ s = t
<1>. DEFINE h == b.height - 1
            g == c.height - 1
            l == Child(b, s)
            m == Child(c, t)
<1>1. /\ BlockWords(i, start, b)[s] = Target(i, start, h, l)
      /\ Node(count[i], h, l)
  BY ChildTargetFits
<1>2. /\ BlockWords(i, start, c)[t] = Target(i, start, g, m)
      /\ Node(count[i], g, m)
  BY ChildTargetFits
<1>3. Target(i, start, h, l) = Target(i, start, g, m)
  BY <1>1, <1>2
<1>. HIDE DEF h, g, l, m
<1>4. h = g /\ l = m
  BY <1>1, <1>2, <1>3, TargetUnique
<1>5. b.height = c.height
  <2>1. b.height \in Int /\ c.height \in Int
    BY BlockFields
  <2>. QED  BY <1>4, <2>1 DEF h, g
<1>6. count[i] \in Nat
  BY DEF Roomy
<1>. QED  BY <1>4, <1>5, <1>6, ChildUnique DEF l, m

LEMMA RootNotChild ==
  ASSUME IInv, NEW i, NEW start, Roomy(i, start), NEW r \in Root,
         NEW b \in Blocks(count[i]), NEW t \in Slot,
         RootTarget(i, start, r) # 0
  PROVE  RootTarget(i, start, r) # BlockWords(i, start, b)[t]
<1>. DEFINE h == b.height - 1
            l == Child(b, t)
<1>. SUFFICES ASSUME RootTarget(i, start, r) = BlockWords(i, start, b)[t]
              PROVE  FALSE
  OBVIOUS
<1>1. /\ BlockWords(i, start, b)[t] = Target(i, start, h, l)
      /\ Node(count[i], h, l)
  BY ChildTargetFits
<1>2. Node(count[i], RootHeight(r), RootPlace(r))
  BY RootTargetFits
<1>3. RootHeight(r) = h /\ RootPlace(r) = l
  BY <1>1, <1>2, TargetUnique DEF RootTarget
<1>4. count[i] \in Nat
  BY DEF Roomy
<1>5. HeightOf(l) = h
  BY <1>3, <1>4, RootNode
<1>6. HeightOf(l) = HeightOf(b.first) /\ b.height <= HeightOf(b.first)
      /\ b.height \in Int
  BY <1>4, ChildRange, BlockFields
<1>. QED  BY <1>5, <1>6

--------------------------------------------------------------------------
(***************************************************************************)
(* A move keeps the invariant of the allocator.                            *)
(***************************************************************************)
NewClusters(i, start) == RunAt(start, count[i]) \cup Built(i, start)

\* The new clusters have the heights they are used at.
LEMMA NewHeights ==
  ASSUME NEW i, NEW start, NEW bad, Roomy(i, start), Moved(i, start, bad),
         NEW h, NEW l, Node(count[i], h, l)
  PROVE  /\ Target(i, start, h, l) \in NewClusters(i, start)
         /\ level'[Target(i, start, h, l)] = h
<1>1. CASE h = 0
  <2>1. Target(i, start, h, l) \in RunAt(start, count[i])
    BY <1>1, TargetFits
  <2>. QED  BY <1>1, <2>1, MoveMeans DEF NewClusters
<1>2. CASE h # 0
  <2>. DEFINE b == [height |-> h, first |-> l]
  <2>1. /\ b \in Blocks(count[i]) /\ Target(i, start, h, l) = BlockAt(i, start, b)
        /\ Target(i, start, h, l) \in Built(i, start)
    BY <1>2, TargetFits
  <2>2. b.height = h
    OBVIOUS
  <2>. HIDE DEF b
  <2>3. level'[BlockAt(i, start, b)] = b.height
    BY <2>1, MoveMeans
  <2>. QED  BY <2>1, <2>2, <2>3 DEF NewClusters
<1>. QED  BY <1>1, <1>2

\* What the state is made of after the move.
LEMMA AfterMove ==
  ASSUME IInv, Idle, NEW i \in Inode, NEW start, NEW bad, Roomy(i, start),
         Moved(i, start, bad), UNCHANGED call
  PROVE  LET F == Freed(index[i].root, bad)
         IN  /\ \A j \in Inode : LiveRoot(j) = index[j].root
             /\ \A j \in Inode \ {i} : LiveRoot(j)' = LiveRoot(j)
             /\ \A r \in Root : LiveRoot(i)'[r] = RootTarget(i, start, r)
             /\ used' = (used \ F) \cup NewClusters(i, start)
             /\ NewClusters(i, start) \cap used = {}
             /\ F \subseteq used \ Reserved
             /\ PointerBlocks' = (PointerBlocks \ F) \cup Built(i, start)
             /\ \A c \in used : disk'[c] = disk[c] /\ level'[c] = level[c]
<1>. DEFINE F == Freed(index[i].root, bad)
            N == NewClusters(i, start)
            B == Built(i, start)
            R == RunAt(start, count[i])
            root == [r \in Root |-> RootTarget(i, start, r)]
<1>1. call.inode \notin Inode /\ call' = call
  BY IdleTypes DEF Idle
<1>2. \A j \in Inode : LiveRoot(j) = index[j].root /\ LiveRoot(j)' = index'[j].root
  BY <1>1 DEF LiveRoot
<1>3. /\ used' = (used \cup N) \ F
      /\ index' = [index EXCEPT ![i].root = root]
  BY MoveMeans DEF NewClusters, RootTarget
<1>. HIDE DEF root
<1>4. \A j \in Inode \ {i} : index'[j].root = index[j].root
  BY <1>3
<1>5. index'[i].root = root
  BY <1>3 DEF IInv, TypeOK
<1>6. \A r \in Root : root[r] = RootTarget(i, start, r)
  BY DEF root
<1>7. R \subseteq Free /\ B \subseteq Free /\ R \cap B = {} /\ Free \subseteq Cluster
  BY PlacesFree
<1>8. N = R \cup B /\ N \cap used = {} /\ N \subseteq Cluster
  BY <1>7 DEF NewClusters, Free
<1>9. ASSUME NEW t \in F
      PROVE  t \in used \ Reserved
  <2>1. /\ t # 0
        /\ \/ \E r \in Root : t = LiveRoot(i)[r]
           \/ \E b \in PointerBlocks, s \in Slot : t = disk[b][s]
    BY FreedOwned
  <2>. QED  BY <2>1 DEF IInv, PointersSound
<1>. HIDE DEF F
<1>10. used' = (used \ F) \cup N
  BY <1>3, <1>8, <1>9
<1>11. \A c \in used : disk'[c] = disk[c] /\ level'[c] = level[c]
  <2>1. used \subseteq Cluster
    BY DEF IInv, TypeOK
  <2>. QED  BY <1>8, <2>1, MoveMeans
<1>12. \A c \in R : level'[c] = 0
  BY MoveMeans
<1>13. \A c \in B : level'[c] > 0
  <2>1. \A b \in Blocks(count[i]) : level'[BlockAt(i, start, b)] = b.height
    BY MoveMeans
  <2>2. \A b \in Blocks(count[i]) : b.height > 0
    BY BlockFields
  <2>3. \A b \in Blocks(count[i]) : level'[BlockAt(i, start, b)] > 0
    BY <2>1, <2>2
  <2>. QED  BY <2>3 DEF Built
<1>14. Reserved \subseteq used /\ Reserved' = Reserved
  BY DEF IInv, PointersSound, Reserved
<1>15. PointerBlocks' = {c \in used' \ Reserved : level'[c] > 0}
  BY <1>14 DEF PointerBlocks
<1>16. PointerBlocks = {c \in used \ Reserved : level[c] > 0}
  BY DEF PointerBlocks
<1>. HIDE DEF N, B, R
<1>17. PointerBlocks' = (PointerBlocks \ F) \cup B
  <2>1. ASSUME NEW c \in PointerBlocks'
        PROVE  c \in (PointerBlocks \ F) \cup B
    <3>1. c \in used' \ Reserved /\ level'[c] > 0
      BY <1>15
    <3>2. CASE c \in R
      BY <1>12, <3>1, <3>2
    <3>3. CASE c \in used \ F
      BY <1>11, <1>16, <3>1, <3>3
    <3>. QED  BY <1>8, <1>10, <3>1, <3>2, <3>3
  <2>2. ASSUME NEW c \in PointerBlocks \ F
        PROVE  c \in PointerBlocks'
    BY <1>10, <1>11, <1>15, <1>16, <2>2
  <2>3. ASSUME NEW c \in B
        PROVE  c \in PointerBlocks'
    BY <1>8, <1>10, <1>13, <1>14, <1>15, <2>3
  <2>. QED  BY <2>1, <2>2, <2>3
<1>. QED
  BY <1>2, <1>4, <1>5, <1>6, <1>8, <1>9, <1>10, <1>11, <1>17 DEF F, N, B

\* What of the old pointers stays leads to nothing that is freed.
LEMMA KeptPointers ==
  ASSUME IInv, Idle, NEW i \in Inode, NEW bad
  PROVE  LET F == Freed(index[i].root, bad)
         IN  /\ \A j \in Inode \ {i}, r \in Root :
                  LiveRoot(j)[r] # 0 => LiveRoot(j)[r] \in (used \ F) \ Reserved
             /\ \A b \in PointerBlocks \ F, s \in Slot :
                  disk[b][s] # 0 => disk[b][s] \in (used \ F) \ Reserved
<1>. DEFINE F == Freed(index[i].root, bad)
<1>1. \A t \in F :
        /\ t # 0
        /\ \/ \E r \in Root : t = LiveRoot(i)[r]
           \/ \E b \in PointerBlocks \cap F, s \in Slot : t = disk[b][s]
  BY FreedOwned
<1>. HIDE DEF F
<1>2. ASSUME NEW j \in Inode \ {i}, NEW r \in Root, LiveRoot(j)[r] # 0
      PROVE  LiveRoot(j)[r] \in (used \ F) \ Reserved
  BY <1>1, <1>2 DEF IInv, SingleOwner, PointersSound
<1>3. ASSUME NEW b \in PointerBlocks \ F, NEW s \in Slot, disk[b][s] # 0
      PROVE  disk[b][s] \in (used \ F) \ Reserved
  BY <1>1, <1>3 DEF IInv, SingleOwner, PointersSound
<1>. QED  BY <1>2, <1>3 DEF F

LEMMA MoveStep ==
  ASSUME IInv, Idle, NEW i \in Inode, NEW start, NEW bad, Roomy(i, start),
         Moved(i, start, bad), UNCHANGED <<call, at, ret>>
  PROVE  IInv'
<1>. DEFINE F == Freed(index[i].root, bad)
            N == NewClusters(i, start)
            B == Built(i, start)
            kept == PointerBlocks \ F
<1>1. /\ \A j \in Inode : LiveRoot(j) = index[j].root
      /\ \A j \in Inode \ {i} : LiveRoot(j)' = LiveRoot(j)
      /\ \A r \in Root : LiveRoot(i)'[r] = RootTarget(i, start, r)
      /\ used' = (used \ F) \cup N
      /\ N \cap used = {}
      /\ F \subseteq used \ Reserved
      /\ PointerBlocks' = kept \cup B
      /\ \A c \in used : disk'[c] = disk[c] /\ level'[c] = level[c]
  BY AfterMove
<1>2. /\ \A j \in Inode \ {i}, r \in Root :
           LiveRoot(j)[r] # 0 => LiveRoot(j)[r] \in (used \ F) \ Reserved
      /\ \A b \in kept, s \in Slot :
           disk[b][s] # 0 => disk[b][s] \in (used \ F) \ Reserved
  BY KeptPointers
<1>3. ASSUME NEW r \in Root, RootTarget(i, start, r) # 0
      PROVE  /\ RootTarget(i, start, r) \in N
             /\ level'[RootTarget(i, start, r)] = RootHeight(r)
  <2>1. Node(count[i], RootHeight(r), RootPlace(r))
    BY <1>3, RootTargetFits
  <2>. QED  BY <2>1, NewHeights DEF RootTarget
<1>4. \A b \in Blocks(count[i]) :
        /\ disk'[BlockAt(i, start, b)] = BlockWords(i, start, b)
        /\ level'[BlockAt(i, start, b)] = b.height
  BY MoveMeans
<1>5. ASSUME NEW b \in Blocks(count[i]), NEW s \in Slot,
             BlockWords(i, start, b)[s] # 0
      PROVE  /\ BlockWords(i, start, b)[s] \in N
             /\ level'[BlockWords(i, start, b)[s]] = b.height - 1
  <2>1. /\ BlockWords(i, start, b)[s] = Target(i, start, b.height - 1, Child(b, s))
        /\ Node(count[i], b.height - 1, Child(b, s))
    BY <1>5, ChildTargetFits
  <2>. QED  BY <2>1, NewHeights
<1>6. ASSUME NEW c \in B
      PROVE  \E b \in Blocks(count[i]) :
               c = BlockAt(i, start, b) /\ disk'[c] = BlockWords(i, start, b)
               /\ level'[c] = b.height
  BY <1>4 DEF Built
<1>7. kept \subseteq used \ Reserved
  BY DEF PointerBlocks
<1>8. Reserved' = Reserved /\ Reserved \subseteq used
  BY DEF Reserved, IInv, PointersSound
<1>9. N \cap Reserved = {}
  BY <1>1, <1>8
<1>. HIDE DEF F, N, B, kept
<1>10. TypeOK'
  <2>1. disk' \in [Cluster -> [Slot -> Nat]] /\ level' \in [Cluster -> Height]
    BY MoveTypes
  <2>2. used' \subseteq Cluster
    <3>1. N \subseteq Cluster
      BY PlacesFree DEF N, NewClusters
    <3>. QED  BY <1>1, <3>1 DEF IInv, TypeOK
  <2>3. index' \in [Inode -> [kind : Kind, root : [Root -> Cluster]]]
    <3>. DEFINE root == [r \in Root |-> RootTarget(i, start, r)]
    <3>1. root \in [Root -> Cluster]
      BY RootTargetFits
    <3>2. index' = [index EXCEPT ![i].root = root]
      BY MoveMeans DEF RootTarget
    <3>. HIDE DEF root
    <3>. QED  BY <3>1, <3>2 DEF IInv, TypeOK
  <2>. QED  BY <2>1, <2>2, <2>3 DEF IInv, TypeOK
<1>11. PointersSound'
  <2>1. Reserved \subseteq used'
    BY <1>1, <1>8
  <2>2. ASSUME NEW j \in Inode, NEW r \in Root, LiveRoot(j)'[r] # 0
        PROVE  /\ LiveRoot(j)'[r] \in used' \ Reserved
               /\ level'[LiveRoot(j)'[r]] = RootHeight(r)
    <3>1. CASE j = i
      BY <1>1, <1>3, <1>9, <2>2, <3>1
    <3>2. CASE j # i
      <4>1. LiveRoot(j)' = LiveRoot(j) /\ LiveRoot(j)[r] # 0
        BY <1>1, <2>2, <3>2
      <4>2. LiveRoot(j)[r] \in (used \ F) \ Reserved
        BY <1>2, <3>2, <4>1
      <4>3. level[LiveRoot(j)[r]] = RootHeight(r)
        BY <4>1 DEF IInv, PointersSound
      <4>. QED  BY <1>1, <4>1, <4>2, <4>3
    <3>. QED  BY <3>1, <3>2
  <2>3. ASSUME NEW b \in PointerBlocks', NEW s \in Slot, disk'[b][s] # 0
        PROVE  /\ disk'[b][s] \in used' \ Reserved
               /\ level'[disk'[b][s]] = level'[b] - 1
    <3>1. CASE b \in B
      <4>1. PICK a \in Blocks(count[i]) :
              disk'[b] = BlockWords(i, start, a) /\ level'[b] = a.height
        BY <1>6, <3>1
      <4>. QED  BY <1>1, <1>5, <1>9, <2>3, <4>1
    <3>2. CASE b \in kept
      <4>1. b \in used /\ b \in PointerBlocks
        BY <3>2 DEF kept, PointerBlocks
      <4>2. disk'[b] = disk[b] /\ level'[b] = level[b]
        BY <1>1, <4>1
      <4>3. disk[b][s] \in (used \ F) \ Reserved /\ level[disk[b][s]] = level[b] - 1
        BY <1>2, <2>3, <3>2, <4>1, <4>2 DEF IInv, PointersSound
      <4>. QED  BY <1>1, <4>2, <4>3
    <3>. QED  BY <1>1, <3>1, <3>2
  <2>. QED  BY <1>8, <2>1, <2>2, <2>3 DEF PointersSound
<1>12. SingleOwner'
  <2>1. \A j \in Inode, r \in Root :
          LiveRoot(j)'[r] # 0 => (LiveRoot(j)'[r] \in N <=> j = i)
    BY <1>1, <1>2, <1>3
  <2>2. \A b \in PointerBlocks', s \in Slot :
          disk'[b][s] # 0 => (disk'[b][s] \in N <=> b \in B)
    <3>. TAKE b \in PointerBlocks', s \in Slot
    <3>1. CASE b \in B
      BY <1>5, <1>6, <3>1
    <3>2. CASE b \notin B
      <4>1. b \in kept /\ disk'[b] = disk[b]
        BY <1>1, <1>7, <3>2
      <4>. QED  BY <1>1, <1>2, <3>2, <4>1
    <3>. QED  BY <3>1, <3>2
  <2>3. \A b \in PointerBlocks' : b \notin B =>
          b \in PointerBlocks /\ disk'[b] = disk[b]
    BY <1>1, <1>7 DEF kept
  <2>4. ASSUME NEW j \in Inode, NEW k \in Inode, NEW r \in Root, NEW q \in Root,
               LiveRoot(j)'[r] # 0, LiveRoot(j)'[r] = LiveRoot(k)'[q]
        PROVE  j = k /\ r = q
    <3>1. CASE j = i
      <4>1. k = i
        BY <2>1, <2>4, <3>1
      <4>. QED  BY <1>1, <2>4, <3>1, <4>1, RootsDiffer
    <3>2. CASE j # i
      <4>1. k # i
        BY <2>1, <2>4, <3>2
      <4>. QED  BY <1>1, <2>4, <3>2, <4>1 DEF IInv, SingleOwner
    <3>. QED  BY <3>1, <3>2
  <2>5. ASSUME NEW a \in PointerBlocks', NEW b \in PointerBlocks',
               NEW s \in Slot, NEW t \in Slot,
               disk'[a][s] # 0, disk'[a][s] = disk'[b][t]
        PROVE  a = b /\ s = t
    <3>1. CASE a \in B
      <4>1. b \in B
        BY <2>2, <2>5, <3>1
      <4>2. PICK e \in Blocks(count[i]) :
              a = BlockAt(i, start, e) /\ disk'[a] = BlockWords(i, start, e)
        BY <1>6, <3>1
      <4>3. PICK f \in Blocks(count[i]) :
              b = BlockAt(i, start, f) /\ disk'[b] = BlockWords(i, start, f)
        BY <1>6, <4>1
      <4>4. e = f /\ s = t
        BY <2>5, <4>2, <4>3, ChildrenDiffer
      <4>. QED  BY <4>2, <4>3, <4>4
    <3>2. CASE a \notin B
      <4>1. b \notin B
        BY <2>2, <2>5, <3>2
      <4>. QED  BY <2>3, <2>5, <3>2, <4>1 DEF IInv, SingleOwner
    <3>. QED  BY <3>1, <3>2
  <2>6. ASSUME NEW j \in Inode, NEW r \in Root, NEW b \in PointerBlocks',
               NEW s \in Slot, LiveRoot(j)'[r] # 0,
               LiveRoot(j)'[r] = disk'[b][s]
        PROVE  FALSE
    <3>1. CASE j = i
      <4>1. b \in B
        BY <2>1, <2>2, <2>6, <3>1
      <4>2. PICK e \in Blocks(count[i]) : disk'[b] = BlockWords(i, start, e)
        BY <1>6, <4>1
      <4>. QED  BY <1>1, <2>6, <3>1, <4>2, RootNotChild
    <3>2. CASE j # i
      <4>1. b \notin B
        BY <2>1, <2>2, <2>6, <3>2
      <4>2. LiveRoot(j)' = LiveRoot(j)
        BY <1>1, <3>2
      <4>. QED  BY <2>3, <2>6, <4>1, <4>2 DEF IInv, SingleOwner
    <3>. QED  BY <3>1, <3>2
  <2>7. Slot' = Slot /\ Root' = Root /\ Inode' = Inode
    BY DEF Slot, Root, Inode
  <2>. QED  BY <2>4, <2>5, <2>6, <2>7 DEF SingleOwner
<1>13. CursorSound'
  <2>1. call.inode \notin Inode
    BY IdleTypes DEF Idle
  <2>. QED  BY <2>1 DEF IInv, CursorSound, Idle, Walking
<1>. QED  BY <1>10, <1>11, <1>12, <1>13 DEF IInv

--------------------------------------------------------------------------
(***************************************************************************)
(* A command that gives up on a file has changed free clusters only.       *)
(***************************************************************************)
LEMMA UsedKept ==
  ASSUME IInv, NEW d, \A c \in used : d[c] = disk[c],
         NEW i \in Inode, NEW l \in Nat
  PROVE  /\ \A h \in 0 .. HeightOf(l) :
              Walk(d, LiveRoot(i), l, h) = Walk(disk, LiveRoot(i), l, h)
         /\ View(d, LiveRoot(i), l) = View(disk, LiveRoot(i), l)
<1>1. \A b \in PointerBlocks : d[b] = disk[b]
  BY DEF PointerBlocks
<1>2. \A h \in 0 .. HeightOf(l) :
        Walk(d, LiveRoot(i), l, h) = Walk(disk, LiveRoot(i), l, h)
  BY <1>1, WalkKept
<1>3. 0 \in 0 .. HeightOf(l)
  BY HeightType DEF Height
<1>4. LET c == Walk(disk, LiveRoot(i), l, 0) IN c # 0 => c \in used
  BY <1>3, WalkSound
<1>. QED  BY <1>2, <1>3, <1>4 DEF View

LEMMA ScratchSeen ==
  ASSUME IInv, Idle, UNCHANGED index, \A c \in used : disk'[c] = disk[c],
         NEW i \in Inode, NEW l \in Nat
  PROVE  Seen(i, l)' = Seen(i, l)
<1>1. LiveRoot(i) = index[i].root
  BY IdleTypes DEF Idle, LiveRoot
<1>. DEFINE d == disk'
<1>2. \A c \in used : d[c] = disk[c]
  OBVIOUS
<1>. HIDE DEF d
<1>3. View(d, LiveRoot(i), l) = View(disk, LiveRoot(i), l)
  BY <1>2, UsedKept
<1>4. Seen(i, l)' = View(d, index[i].root, l)
  BY DEF Seen, View, Walk, FollowOn, HeightOf, RootOf, SlotOf, d
<1>. QED  BY <1>1, <1>3, <1>4 DEF Seen

LEMMA ScratchStep ==
  ASSUME IInv, Idle, NEW N \in SUBSET Free, used' = used \cup N,
         disk' \in [Cluster -> [Slot -> Nat]], level' \in [Cluster -> Height],
         \A c \in used : disk'[c] = disk[c] /\ level'[c] = level[c],
         \A c \in N : level'[c] = 0,
         UNCHANGED <<index, call, at, ret>>
  PROVE  IInv'
<1>1. N \cap used = {} /\ N \subseteq Cluster
  BY DEF Free
<1>2. Reserved' = Reserved /\ Reserved \subseteq used
  BY DEF Reserved, IInv, PointersSound
<1>3. PointerBlocks' = PointerBlocks
  <2>1. PointerBlocks' = {c \in used' \ Reserved : level'[c] > 0}
    BY <1>2 DEF PointerBlocks
  <2>2. \A c \in N : ~(level'[c] > 0)
    OBVIOUS
  <2>. QED  BY <2>1, <2>2 DEF PointerBlocks
<1>4. PointerBlocks \subseteq used
  BY DEF PointerBlocks
<1>5. \A j \in Inode : LiveRoot(j)' = LiveRoot(j)
  BY DEF LiveRoot
<1>6. Slot' = Slot /\ Root' = Root /\ Inode' = Inode
  BY DEF Slot, Root, Inode
<1>7. TypeOK'
  BY <1>1 DEF IInv, TypeOK
<1>8. PointersSound'
  <2>1. ASSUME NEW j \in Inode, NEW r \in Root, LiveRoot(j)'[r] # 0
        PROVE  /\ LiveRoot(j)'[r] \in used' \ Reserved
               /\ level'[LiveRoot(j)'[r]] = RootHeight(r)
    BY <1>5, <2>1 DEF IInv, PointersSound
  <2>2. ASSUME NEW b \in PointerBlocks, NEW s \in Slot, disk'[b][s] # 0
        PROVE  /\ disk'[b][s] \in used' \ Reserved
               /\ level'[disk'[b][s]] = level'[b] - 1
    <3>1. disk'[b] = disk[b] /\ level'[b] = level[b]
      BY <1>4
    <3>. QED  BY <2>2, <3>1 DEF IInv, PointersSound
  <2>. QED  BY <1>2, <1>3, <2>1, <2>2 DEF PointersSound
<1>9. SingleOwner'
  <2>1. \A b \in PointerBlocks : disk'[b] = disk[b]
    BY <1>4
  <2>. QED  BY <1>3, <1>5, <1>6, <2>1 DEF IInv, SingleOwner
<1>10. CursorSound'
  <2>1. call.inode \notin Inode
    BY IdleTypes DEF Idle
  <2>. QED  BY <2>1 DEF IInv, CursorSound, Idle, Walking
<1>. QED  BY <1>7, <1>8, <1>9, <1>10 DEF IInv

LEMMA CopiedFits ==
  ASSUME IInv, Idle, NEW i \in Inode, count[i] \in Nat, NEW start \in Cluster,
         FreeRun(start, count[i]), NEW k \in 0 .. count[i]
  PROVE  /\ Copied(i, start, k) \in [Cluster -> [Slot -> Nat]]
         /\ \A c \in used : Copied(i, start, k)[c] = disk[c]
<1>1. RunAt(start, k) \subseteq Free
  BY DEF RunAt, FreeRun, Cluster
<1>2. ASSUME NEW c \in Cluster
      PROVE  (IF c \in RunAt(start, k) THEN disk[Old(i, c - start)] ELSE disk[c])
               \in [Slot -> Nat]
  <2>1. CASE c \in RunAt(start, k)
    <3>1. c - start \in Nat
      BY <2>1 DEF RunAt, Cluster
    <3>2. Old(i, c - start) \in Cluster
      BY <3>1, OldWalk
    <3>. QED  BY <2>1, <3>2 DEF IInv, TypeOK
  <2>2. CASE c \notin RunAt(start, k)
    BY <2>2 DEF IInv, TypeOK
  <2>. QED  BY <2>1, <2>2
<1>3. \A c \in used : c \in Cluster /\ c \notin RunAt(start, k)
  BY <1>1 DEF Free, IInv, TypeOK
<1>. QED  BY <1>2, <1>3 DEF Copied

LEMMA StopCopyingStep ==
  ASSUME IInv, NEW i \in Inode, count[i] \in Nat, StopCopying(i)
  PROVE  /\ IInv'
         /\ \A j \in Inode, l \in Logical : Seen(j, l)' = Seen(j, l)
         /\ Idle /\ UNCHANGED <<used, index, call, at, ret, size, count>>
         /\ \A c \in used : disk'[c] = disk[c] /\ level'[c] = level[c]
<1>1. /\ Idle /\ UNCHANGED <<used, level, index, call, at, ret, size, count>>
      /\ \E s \in Cluster, k \in 0 .. count[i] - 1 :
           FreeRun(s, count[i]) /\ disk' = Copied(i, s, k)
  BY DEF StopCopying, Visit
<1>2. PICK s \in Cluster, k \in 0 .. count[i] - 1 :
        FreeRun(s, count[i]) /\ disk' = Copied(i, s, k)
  BY <1>1
<1>3. k \in 0 .. count[i]
  OBVIOUS
<1>4. /\ disk' \in [Cluster -> [Slot -> Nat]]
      /\ \A c \in used : disk'[c] = disk[c]
  BY <1>1, <1>2, <1>3, CopiedFits
<1>5. /\ level' \in [Cluster -> Height] /\ used' = used \cup {} /\ {} \in SUBSET Free
      /\ \A c \in used : disk'[c] = disk[c] /\ level'[c] = level[c]
  BY <1>1, <1>4 DEF IInv, TypeOK
<1>6. IInv'
  BY <1>1, <1>4, <1>5, ScratchStep
<1>7. \A j \in Inode, l \in Logical : Seen(j, l)' = Seen(j, l)
  BY <1>1, <1>4, LogicalIn, ScratchSeen
<1>. QED  BY <1>1, <1>5, <1>6, <1>7

\* The pointer blocks that a failing move takes.
Taking(i, fault, s, k, N) ==
  /\ FreeRun(s, count[i])
  /\ N = {Nth(Room(i, s), m) : m \in 1 .. k}
  /\ k <= Cardinality(Room(i, s))
  /\ ~fault => k = Cardinality(Room(i, s)) /\ k < Cardinality(Blocks(count[i]))
  /\ used' = used \cup N
  /\ disk' = Copied(i, s, count[i])
  /\ level' = [c \in Cluster |-> IF c \in N THEN 0 ELSE level[c]]

LEMMA LoseBlocksMeans ==
  ASSUME IInv, NEW i \in Inode, count[i] \in Nat, NEW fault, LoseBlocks(i, fault)
  PROVE  /\ Idle /\ UNCHANGED <<index, call, at, ret, size, count>>
         /\ \E s \in Cluster, k \in 0 .. Cardinality(Blocks(count[i])),
               N \in SUBSET Free : Taking(i, fault, s, k, N)
<1>1. /\ Idle /\ UNCHANGED <<index, call, at, ret, size, count>>
      /\ \E s \in Cluster, k \in 0 .. Cardinality(Blocks(count[i])) :
           LET taken == {Nth(Room(i, s), m) : m \in 1 .. k}
           IN  /\ FreeRun(s, count[i])
               /\ k <= Cardinality(Room(i, s))
               /\ ~fault => k = Cardinality(Room(i, s))
                            /\ k < Cardinality(Blocks(count[i]))
               /\ used' = used \cup taken
               /\ disk' = Copied(i, s, count[i])
               /\ level' = [c \in Cluster |-> IF c \in taken THEN 0 ELSE level[c]]
  BY Zenon DEF LoseBlocks, Visit, Room
<1>2. PICK s \in Cluster, k \in 0 .. Cardinality(Blocks(count[i])) :
        LET taken == {Nth(Room(i, s), m) : m \in 1 .. k}
        IN  /\ FreeRun(s, count[i])
            /\ k <= Cardinality(Room(i, s))
            /\ ~fault => k = Cardinality(Room(i, s))
                         /\ k < Cardinality(Blocks(count[i]))
            /\ used' = used \cup taken
            /\ disk' = Copied(i, s, count[i])
            /\ level' = [c \in Cluster |-> IF c \in taken THEN 0 ELSE level[c]]
  BY <1>1, Zenon
<1>. DEFINE N == {Nth(Room(i, s), m) : m \in 1 .. k}
<1>3. /\ FreeRun(s, count[i])
      /\ k <= Cardinality(Room(i, s))
      /\ ~fault => k = Cardinality(Room(i, s))
                   /\ k < Cardinality(Blocks(count[i]))
      /\ used' = used \cup N
      /\ disk' = Copied(i, s, count[i])
      /\ level' = [c \in Cluster |-> IF c \in N THEN 0 ELSE level[c]]
  BY <1>2, Zenon
<1>4. N \in SUBSET Free
  <2>1. ASSUME NEW m \in 1 .. k
        PROVE  Nth(Room(i, s), m) \in Room(i, s)
    <3>. DEFINE S == Room(i, s)
    <3>1. /\ S \in SUBSET Nat /\ IsFiniteSet(S) /\ Cardinality(S) \in Nat
          /\ TotalClusters \in Nat /\ \A x \in S : x <= TotalClusters
      BY RoomFits, SizesAssumption
    <3>2. Cardinality(Blocks(count[i])) \in Nat
      BY BlocksFinite
    <3>3. m \in 1 .. Cardinality(S)
      BY <1>3, <3>1, <3>2
    <3>. HIDE DEF S
    <3>4. Nth(S, m) \in S
      BY <3>1, <3>3, NthFits
    <3>. QED  BY <3>4 DEF S
  <2>2. Room(i, s) \subseteq Free
    BY DEF Room
  <2>. QED  BY <2>1, <2>2
<1>. HIDE DEF N
<1>5. Taking(i, fault, s, k, N)
  BY <1>3 DEF Taking, N
<1>. QED  BY <1>1, <1>4, <1>5

LEMMA LoseBlocksStep ==
  ASSUME IInv, NEW i \in Inode, count[i] \in Nat, NEW fault, LoseBlocks(i, fault)
  PROVE  /\ IInv'
         /\ \A j \in Inode, l \in Logical : Seen(j, l)' = Seen(j, l)
         /\ Idle /\ UNCHANGED <<index, call, at, ret, size, count>>
         /\ \A c \in used : disk'[c] = disk[c] /\ level'[c] = level[c]
<1>1. Idle /\ UNCHANGED <<index, call, at, ret, size, count>>
  BY LoseBlocksMeans
<1>2. PICK s \in Cluster, k \in 0 .. Cardinality(Blocks(count[i])),
           N \in SUBSET Free : Taking(i, fault, s, k, N)
  BY LoseBlocksMeans
<1>3. /\ FreeRun(s, count[i])
      /\ used' = used \cup N
      /\ disk' = Copied(i, s, count[i])
      /\ level' = [c \in Cluster |-> IF c \in N THEN 0 ELSE level[c]]
  BY <1>2 DEF Taking
<1>4. count[i] \in 0 .. count[i]
  OBVIOUS
<1>5. /\ disk' \in [Cluster -> [Slot -> Nat]]
      /\ \A c \in used : disk'[c] = disk[c]
  BY <1>1, <1>3, <1>4, CopiedFits
<1>6. /\ level' \in [Cluster -> Height]
      /\ \A c \in used : level'[c] = level[c]
      /\ \A c \in N : level'[c] = 0
  BY <1>3 DEF IInv, TypeOK, Height, Free
<1>7. IInv'
  BY <1>1, <1>3, <1>5, <1>6, ScratchStep
<1>8. \A j \in Inode, l \in Logical : Seen(j, l)' = Seen(j, l)
  BY <1>1, <1>5, LogicalIn, ScratchSeen
<1>. QED  BY <1>1, <1>5, <1>6, <1>7, <1>8

LEMMA MoveAction ==
  ASSUME NEW i \in Inode, count[i] \in Nat, NEW bad, Move(i, bad)
  PROVE  /\ Idle /\ Movable(i) /\ UNCHANGED <<call, at, ret, size, count>>
         /\ \E start : Roomy(i, start) /\ Moved(i, start, bad)
<1>1. /\ Idle /\ Movable(i) /\ UNCHANGED <<call, at, ret, size, count>>
      /\ \E s \in Cluster :
           /\ FreeRun(s, count[i])
           /\ Cardinality(Free \ RunAt(s, count[i])) >= Cardinality(Blocks(count[i]))
           /\ Moved(i, s, bad)
  BY DEF Move, Visit
<1>. QED  BY <1>1 DEF Roomy, Room

--------------------------------------------------------------------------
(***************************************************************************)
(* The invariant.                                                          *)
(***************************************************************************)
\* The sizes of the files: none has more clusters than its size calls for, or
\* than its pointers reach, and a file has grown before a call writes to it.
SizesSound ==
  /\ size \in [Inode -> Nat] /\ count \in [Inode -> Nat] /\ todo \subseteq Inode
  /\ \A i \in Inode : /\ size[i] <= PointersPerCluster * Capacity
                      /\ count[i] <= ClustersFor(size[i])
  /\ ~Idle /\ Regular(call.inode) => call.off + call.len <= size[call.inode]

DInv == IInv /\ SizesSound

LEMMA ClustersForType ==
  ASSUME NEW a \in Nat
  PROVE  /\ ClustersFor(a) \in Nat
         /\ PointersPerCluster * ClustersFor(a) >= a
         /\ PointersPerCluster * ClustersFor(a) < a + PointersPerCluster
<1>. DEFINE p == PointersPerCluster
            x == a + p - 1
            q == x \div p
            r == x % p
<1>1. p \in Nat \ {0} /\ x \in Nat
  BY SizesAssumption
<1>2. q \in Nat /\ r \in 0 .. p - 1 /\ x = p * q + r
  BY <1>1, DivMod
<1>3. ClustersFor(a) = q
  BY DEF ClustersFor
<1>. HIDE DEF q, r
<1>. DEFINE y == p * q
<1>4. y \in Nat /\ a + p - 1 = y + r
  BY <1>1, <1>2
<1>. HIDE DEF y
<1>5. y >= a /\ y < a + p
  BY <1>1, <1>2, <1>4
<1>. QED  BY <1>2, <1>3, <1>5 DEF y

LEMMA ClustersForGrows ==
  ASSUME NEW a \in Nat, NEW b \in Nat, a <= b
  PROVE  ClustersFor(a) <= ClustersFor(b)
<1>. DEFINE p == PointersPerCluster
            m == ClustersFor(a)
            n == ClustersFor(b)
<1>1. m \in Nat /\ n \in Nat /\ p * m < a + p /\ p * n >= b /\ p \in Nat
  BY ClustersForType, SizesAssumption
<1>. HIDE DEF m, n
<1>2. ASSUME n < m PROVE FALSE
  <2>1. p * n + p <= p * m
    BY <1>1, <1>2, MulLess
  <2>2. p * n \in Nat /\ p * m \in Nat
    BY <1>1
  <2>. QED  BY <1>1, <2>1, <2>2
<1>3. m <= n
  BY <1>1, <1>2
<1>. QED  BY <1>3 DEF m, n

\* The clusters of a size that the pointers reach.
LEMMA ClustersForBound ==
  ASSUME NEW a \in Nat, NEW k \in Nat, a <= PointersPerCluster * k
  PROVE  ClustersFor(a) <= k
<1>. DEFINE p == PointersPerCluster
            m == ClustersFor(a)
<1>1. m \in Nat /\ p * m < a + p /\ p \in Nat
  BY ClustersForType, SizesAssumption
<1>. HIDE DEF m
<1>2. ASSUME k < m PROVE FALSE
  <2>1. p * k + p <= p * m
    BY <1>1, <1>2, MulLess
  <2>2. p * k \in Nat /\ p * m \in Nat
    BY <1>1
  <2>. QED  BY <1>1, <2>1, <2>2
<1>3. m <= k
  BY <1>1, <1>2
<1>. QED  BY <1>3 DEF m

LEMMA WholeCapacity == Capacity \in Nat /\ PointersPerCluster * Capacity \in Nat
<1>. DEFINE p == PointersPerCluster
<1>1. p \in Nat /\ p * p \in Nat /\ p * p * p \in Nat
  BY SizesAssumption
<1>2. Capacity \in Nat
  BY <1>1, SizesAssumption DEF Capacity
<1>. QED  BY <1>1, <1>2

\* A step of the files is one of the allocator.
LEMMA FileStepNext == FileStep => Next
BY DEF FileStep, Grow, CommitWrite, Empty, BeginWrite, Next, CallStep

\* While a call runs, its inode keeps its kind; a call that ends leaves the
\* kinds of the regular files alone.
LEMMA CallKinds ==
  ASSUME IInv, CallStep
  PROVE  /\ ~Idle
         /\ \/ /\ index' = index /\ call'.inode = call.inode
               /\ call'.off = call.off /\ call'.len = call.len
            \/ call' = NoCall
<1>1. CASE AllocateRoot \/ AllocateInBlock \/ Descend \/ WriteChunk
  BY <1>1
  DEF AllocateRoot, AllocateInBlock, Descend, WriteChunk, Walking, IInv, TypeOK
<1>2. CASE LosePointer \/ NoSpace \/ IoError \/ Commit
  BY <1>2 DEF LosePointer, NoSpace, IoError, Commit, Walking, Abort, EndCall
<1>. QED  BY <1>1, <1>2 DEF CallStep

LEMMA IdleAfter == call' = NoCall => Idle'
BY DEF Idle, NoCall, NoInode

LEMMA FileStepSizes ==
  ASSUME DInv, FileStep
  PROVE  SizesSound'
<1>0. IInv /\ SizesSound /\ Idle = (call.inode \notin Inode)
  BY SizesAssumption DEF DInv, IInv, TypeOK, Idle, NoInode, Inode
<1>1. todo' = todo /\ Inode' = Inode
  BY DEF FileStep, Inode
<1>2. CASE Grow \/ CommitWrite
  <2>1. size' = size
    BY <1>2 DEF Grow, CommitWrite
  <2>2. /\ count' \in [Inode -> Nat]
        /\ \A i \in Inode : count'[i] <= ClustersFor(size[i])
    <3>1. CASE count' = count
      BY <1>0, <3>1 DEF SizesSound
    <3>2. CASE count' = [count EXCEPT ![call.inode] =
                           ClustersFor(size[call.inode])]
      <4>1. \A i \in Inode : ClustersFor(size[i]) \in Nat
        BY <1>0, ClustersForType DEF SizesSound
      <4>2. \A i \in Inode : ClustersFor(size[i]) <= ClustersFor(size[i])
        BY <4>1
      <4>. DEFINE v == ClustersFor(size[call.inode])
      <4>3. call.inode \in Inode => v \in Nat
        BY <4>1
      <4>4. count' = [count EXCEPT ![call.inode] = v]
        BY <3>2
      <4>5. \A i \in Inode : i = call.inode => v = ClustersFor(size[i])
        OBVIOUS
      <4>. HIDE DEF v
      <4>6. count' \in [Inode -> Nat]
        BY <1>0, <4>3, <4>4 DEF SizesSound
      <4>7. \A i \in Inode : count'[i] = IF i = call.inode THEN v ELSE count[i]
        BY <1>0, <4>4 DEF SizesSound
      <4>. QED  BY <1>0, <4>2, <4>5, <4>6, <4>7 DEF SizesSound
    <3>. QED  BY <1>2, <3>1, <3>2 DEF Grow, CommitWrite
  <2>3. ~Idle' /\ Regular(call.inode)' =>
          call'.off + call'.len <= size[call'.inode]
    <3>1. CASE CallStep
      <4>1. CASE index' = index /\ call'.inode = call.inode
                 /\ call'.off = call.off /\ call'.len = call.len
        <5>1. ~Idle /\ (Regular(call.inode)' => Regular(call.inode))
          BY <1>0, <3>1, <4>1, CallKinds DEF Regular
        <5>. QED  BY <1>0, <4>1, <5>1 DEF SizesSound
      <4>2. CASE call' = NoCall
        BY <4>2, IdleAfter
      <4>. QED  BY <1>0, <3>1, <4>1, <4>2, CallKinds
    <3>2. ASSUME NEW i \in Inode, NEW q \in Request, NEW w \in Word,
                 BeginSymlink(i, q, w)
          PROVE  ~Regular(call.inode)'
      <4>1. /\ index' = [index EXCEPT ![i] = [kind |-> "symlink",
                                              root |-> NoPointers]]
            /\ call'.inode = i
        BY <3>2 DEF BeginSymlink, StartCall
      <4>2. index'[i].kind = "symlink"
        BY <1>0, <4>1 DEF IInv, TypeOK
      <4>. QED  BY <4>1, <4>2 DEF Regular
    <3>3. ASSUME NEW i \in Inode, NEW kind \in Kinds, Create(i, kind)
          PROVE  Idle'
      BY <3>3 DEF Create, Idle, NoInode
    <3>. QED
      BY <1>2, <3>1, <3>2, <3>3 DEF Grow, CommitWrite, CallStep
  <2>. QED
    BY <1>0, <1>1, <2>1, <2>2, <2>3 DEF SizesSound, Capacity, ClustersFor
<1>3. ASSUME NEW i \in Inode, Empty(i)
      PROVE  SizesSound'
  <2>1. /\ size' = [size EXCEPT ![i] = 0] /\ count' = [count EXCEPT ![i] = 0]
        /\ Idle'
    BY <1>3 DEF Empty, Truncate, Remove, RemoveDirectory, Idle, NoInode
  <2>2. ClustersFor(0) \in Nat
    BY ClustersForType
  <2>3. size' \in [Inode -> Nat] /\ count' \in [Inode -> Nat]
    BY <1>0, <2>1 DEF SizesSound
  <2>4. \A j \in Inode : /\ size'[j] = IF j = i THEN 0 ELSE size[j]
                         /\ count'[j] = IF j = i THEN 0 ELSE count[j]
    BY <1>0, <2>1 DEF SizesSound
  <2>5. PointersPerCluster * Capacity \in Nat
    BY WholeCapacity
  <2>6. \A j \in Inode : /\ size'[j] <= PointersPerCluster * Capacity
                         /\ count'[j] <= ClustersFor(size'[j])
    BY <1>0, <2>2, <2>4, <2>5 DEF SizesSound
  <2>. QED
    BY <1>0, <1>1, <2>1, <2>3, <2>6 DEF SizesSound, Capacity, ClustersFor
<1>4. ASSUME NEW i \in Inode, NEW q \in Request, NEW w \in Word,
             BeginWrite(i, q, w)
      PROVE  SizesSound'
  <2>1. /\ Idle /\ UNCHANGED <<index, count>>
        /\ call'.inode = i /\ call'.off = q.off /\ call'.len = q.len
    BY <1>4 DEF BeginWrite, Begin, StartCall
  <2>2. /\ q.off + q.len \in Nat
        /\ q.off + q.len <= PointersPerCluster * Capacity
    BY CapacityAssumption, InputAssumption
  <2>. DEFINE e == q.off + q.len
              s == IF Regular(i) /\ e > size[i] THEN e ELSE size[i]
  <2>3. size' = [size EXCEPT ![i] = s]
    BY <1>0, <1>4 DEF BeginWrite, SizesSound
  <2>4. s \in Nat /\ size[i] <= s /\ s <= PointersPerCluster * Capacity
        /\ (Regular(i) => e <= s)
    BY <1>0, <2>2 DEF SizesSound
  <2>. HIDE DEF s
  <2>5. /\ size' \in [Inode -> Nat]
        /\ \A j \in Inode : size'[j] = IF j = i THEN s ELSE size[j]
    BY <1>0, <2>3, <2>4 DEF SizesSound
  <2>6. \A j \in Inode : size[j] <= size'[j]
                         /\ size'[j] <= PointersPerCluster * Capacity
    BY <1>0, <2>4, <2>5 DEF SizesSound
  <2>7. \A j \in Inode : count'[j] <= ClustersFor(size'[j])
    <3>. TAKE j \in Inode
    <3>1. size[j] \in Nat /\ size'[j] \in Nat /\ size[j] <= size'[j]
      BY <1>0, <2>5, <2>6 DEF SizesSound
    <3>2. /\ ClustersFor(size[j]) <= ClustersFor(size'[j])
          /\ ClustersFor(size[j]) \in Nat /\ ClustersFor(size'[j]) \in Nat
      BY <3>1, ClustersForGrows, ClustersForType
    <3>. QED  BY <1>0, <2>1, <3>2 DEF SizesSound
  <2>8. Regular(call.inode)' => call'.off + call'.len <= size'[call'.inode]
    BY <2>1, <2>4, <2>5 DEF Regular
  <2>. QED
    BY <1>0, <1>1, <2>1, <2>5, <2>6, <2>7, <2>8
    DEF SizesSound, Capacity, ClustersFor
<1>. QED  BY <1>2, <1>3, <1>4 DEF FileStep

\* The command changes no size.
LEMMA SameSizes ==
  ASSUME DInv, Idle, UNCHANGED <<call, size, count>>, todo' \subseteq Inode
  PROVE  SizesSound'
<1>1. Idle' /\ Inode' = Inode
  BY DEF Idle, NoInode, Inode
<1>. QED  BY <1>1 DEF DInv, SizesSound, Capacity, ClustersFor

LEMMA VisitSizes ==
  ASSUME DInv, NEW i \in Inode, Visit(i)
  PROVE  SizesSound'
<1>1. Idle /\ UNCHANGED <<call, size, count>> /\ todo' \subseteq Inode
  BY DEF Visit, DInv, SizesSound
<1>. QED  BY <1>1, SameSizes

\* What changes no variable of the allocator.
LEMMA QuietStep ==
  ASSUME IInv, UNCHANGED vars
  PROVE  IInv'
<1>1. [Next]_vars
  OBVIOUS
<1>. QED  BY <1>1, NextStep

LEMMA DefragInit_ == DefragInit => DInv
<1>. SUFFICES ASSUME DefragInit
              PROVE  DInv
  OBVIOUS
<1>1. IInv
  BY InitInv DEF DefragInit
<1>2. /\ size = [i \in Inode |-> 0] /\ count = [i \in Inode |-> 0]
      /\ todo = {} /\ Idle
  BY DEF DefragInit, Init, Idle, NoCall
<1>3. 0 <= ClustersFor(0) /\ 0 <= PointersPerCluster * Capacity
  BY ClustersForType, WholeCapacity
<1>4. \A i \in Inode : /\ size[i] <= PointersPerCluster * Capacity
                       /\ count[i] <= ClustersFor(size[i])
  BY <1>2, <1>3
<1>5. SizesSound
  BY <1>2, <1>4 DEF SizesSound
<1>. QED  BY <1>1, <1>5 DEF DInv

LEMMA DefragStep == DInv /\ [DefragNext]_defragVars => DInv'
<1>. SUFFICES ASSUME DInv, [DefragNext]_defragVars
              PROVE  DInv'
  OBVIOUS
<1>1. IInv /\ \A i \in Inode : count[i] \in Nat
  BY DEF DInv, SizesSound
<1>2. CASE FileStep
  <2>1. IInv'
    BY <1>1, <1>2, FileStepNext, NextStep
  <2>. QED  BY <1>2, <2>1, FileStepSizes DEF DInv
<1>3. CASE StartDefrag
  <2>1. UNCHANGED vars /\ Idle /\ UNCHANGED <<call, size, count>> /\ todo' \subseteq Inode
    BY <1>3 DEF StartDefrag, vars
  <2>. QED  BY <1>1, <2>1, QuietStep, SameSizes DEF DInv
<1>4. ASSUME NEW i \in Inode, Leave(i)
      PROVE  DInv'
  <2>1. Visit(i) /\ UNCHANGED vars
    BY <1>4 DEF Leave, Visit, vars
  <2>. QED  BY <1>1, <2>1, QuietStep, VisitSizes DEF DInv
<1>5. ASSUME NEW i \in Inode, StopCopying(i)
      PROVE  DInv'
  <2>1. Visit(i)
    BY <1>5 DEF StopCopying
  <2>. QED  BY <1>1, <1>5, <2>1, StopCopyingStep, VisitSizes DEF DInv
<1>6. ASSUME NEW i \in Inode, NEW fault, LoseBlocks(i, fault)
      PROVE  DInv'
  <2>1. Visit(i)
    BY <1>6 DEF LoseBlocks
  <2>. QED  BY <1>1, <1>6, <2>1, LoseBlocksStep, VisitSizes DEF DInv
<1>7. ASSUME NEW i \in Inode, NEW bad, Move(i, bad)
      PROVE  DInv'
  <2>1. Visit(i)
    BY <1>7 DEF Move
  <2>2. /\ Idle /\ UNCHANGED <<call, at, ret>>
        /\ \E start : Roomy(i, start) /\ Moved(i, start, bad)
    BY <1>1, <1>7, MoveAction
  <2>3. IInv'
    BY <1>1, <2>2, MoveStep
  <2>. QED  BY <2>1, <2>3, VisitSizes DEF DInv
<1>8. CASE UNCHANGED defragVars
  <2>1. UNCHANGED vars /\ UNCHANGED <<index, call, size, count, todo>>
    BY <1>8 DEF defragVars, vars
  <2>2. SizesSound'
    BY <2>1 DEF DInv, SizesSound, Idle, NoInode, Inode, Regular, Capacity,
                ClustersFor
  <2>. QED  BY <1>1, <2>1, <2>2, QuietStep DEF DInv
<1>. QED  BY <1>2, <1>3, <1>4, <1>5, <1>6, <1>7, <1>8 DEF DefragNext

\* The invariant of the allocator, and the sizes of the files, hold while
\* files are written, removed and defragmented, whatever disk accesses fail.
THEOREM DefragInvariant == DefragSpec => []DInv
BY DefragInit_, DefragStep, PTL DEF DefragSpec

\* Defragmentation leaves no pointer that leads to a free cluster or to one
\* of another height, in no file and in no pointer block still in use.
THEOREM DefragPointersSound == DefragSpec => []PointersSound
<1>1. DInv => PointersSound
  BY DEF DInv, IInv
<1>. QED  BY <1>1, DefragInvariant, PTL

\* A file that is moved shares no cluster with another, or with itself.
THEOREM DefragSingleOwner == DefragSpec => []SingleOwner
<1>1. DInv => SingleOwner
  BY DEF DInv, IInv
<1>. QED  BY <1>1, DefragInvariant, PTL

--------------------------------------------------------------------------
(***************************************************************************)
(* What a reader finds in a file that has been moved.                      *)
(***************************************************************************)
\* The walk to a logical cluster meets its places, from the inode down.
LEMMA NewWalk ==
  ASSUME IInv, Idle, NEW i \in Inode, NEW start, NEW bad, Roomy(i, start),
         Moved(i, start, bad), UNCHANGED call, NEW l \in 0 .. Capacity - 1
  PROVE  \A h \in 0 .. HeightOf(l) :
           Walk(disk', index'[i].root, l, h) = Target(i, start, h, StartOf(l, h))
<1>. DEFINE n == count[i]
            H == HeightOf(l)
            W(h) == Walk(disk', index'[i].root, l, h)
            X(h) == Target(i, start, h, StartOf(l, h))
            T == {h \in 0 .. H : W(h) = X(h)}
<1>1. H \in 0 .. 3 /\ l \in Nat /\ n \in Nat
  BY HeightType DEF Height, Roomy
<1>2. /\ W(H) = index'[i].root[RootOf(l)]
      /\ \A h \in 0 .. H - 1 : W(h) = FollowOn(disk', W(h + 1), l, h)
  BY WalkSteps
<1>3. H \in T
  <2>1. RootOf(l) \in Root /\ RootHeight(RootOf(l)) = H
    BY <1>1, RootFits
  <2>2. StartOf(l, H) = RootPlace(RootOf(l))
    BY StartRoot
  <2>3. index'[i].root[RootOf(l)] = RootTarget(i, start, RootOf(l))
    <3>. DEFINE root == [r \in Root |-> RootTarget(i, start, r)]
    <3>1. index' = [index EXCEPT ![i].root = root]
      BY MoveMeans DEF RootTarget
    <3>. HIDE DEF root
    <3>2. index'[i].root = root
      BY <3>1 DEF IInv, TypeOK
    <3>. QED  BY <2>1, <3>2 DEF root
  <2>4. RootTarget(i, start, RootOf(l)) = X(H)
    BY <2>1, <2>2 DEF RootTarget
  <2>5. H \in 0 .. H
    BY <1>1
  <2>. HIDE DEF X, W, H
  <2>. QED  BY <1>2, <2>3, <2>4, <2>5
<1>4. ASSUME NEW h \in 0 .. H - 1, h + 1 \in T
      PROVE  h \in T
  <2>. DEFINE f == StartOf(l, h + 1)
              s == SlotOf(l, h)
              b == [height |-> h + 1, first |-> f]
  <2>1. /\ W(h) = FollowOn(disk', W(h + 1), l, h) /\ W(h + 1) = X(h + 1)
        /\ h \in 0 .. H /\ h + 1 \in 0 .. H /\ h \in 0 .. 2
    BY <1>1, <1>2, <1>4
  <2>2. f \in Nat /\ (f < n => Node(n, h + 1, f))
    BY <1>1, <2>1, StartNode
  <2>3. StartOf(l, h) = f + s * Reach(h) /\ StartOf(l, h) \in Nat
    BY <1>1, <2>1, StartChild, StartNode
  <2>4. s \in Slot /\ Reach(h) \in Nat
    BY <1>1, <2>1, SlotType, ReachType DEF Height
  <2>. HIDE DEF f, s, W
  <2>5. CASE ~(f < n)
    <3>1. f >= n
      BY <1>1, <2>2, <2>5
    <3>2. s * Reach(h) \in Nat
      BY <2>4 DEF Slot
    <3>3. StartOf(l, h) >= n
      BY <1>1, <2>2, <2>3, <3>1, <3>2
    <3>4. ~(f < n) /\ ~(StartOf(l, h) < n)
      BY <1>1, <2>3, <2>5, <3>3
    <3>5. X(h + 1) = 0
      BY <3>1, <3>4 DEF Target, f
    <3>6. X(h) = 0
      BY <3>3, <3>4 DEF Target
    <3>7. W(h) = 0
      BY <2>1, <3>5 DEF FollowOn
    <3>. QED  BY <2>1, <3>6, <3>7
  <2>6. CASE f < n
    <3>1. Node(n, h + 1, f)
      BY <2>2, <2>6
    <3>2. h + 1 # 0 /\ h + 1 \in 0 .. 3
      BY <2>1
    <3>3. b \in Blocks(n) /\ X(h + 1) = BlockAt(i, start, b)
      BY <3>1, <3>2, TargetFits DEF f
    <3>4. X(h + 1) # 0
      <4>1. ~(f >= n)
        BY <1>1, <2>2, <2>6
      <4>2. Target(i, start, h + 1, f) = 0 <=> f >= n
        BY <2>2, <3>2, TargetNotZero
      <4>. QED  BY <4>1, <4>2 DEF f
    <3>5. b.height = h + 1 /\ b.first = f /\ b.height - 1 = h
      BY <2>1
    <3>. HIDE DEF b
    <3>6. disk'[BlockAt(i, start, b)] = BlockWords(i, start, b)
      BY <3>3, MoveMeans
    <3>7. W(h) = BlockWords(i, start, b)[s]
      BY <2>1, <3>3, <3>4, <3>6 DEF FollowOn, s
    <3>8. BlockWords(i, start, b)[s] = Target(i, start, h, Child(b, s))
      BY <2>4, <3>5 DEF BlockWords
    <3>9. Child(b, s) = StartOf(l, h)
      BY <2>3, <3>5 DEF Child
    <3>. QED  BY <2>1, <3>7, <3>8, <3>9
  <2>. QED  BY <2>5, <2>6
<1>. HIDE DEF T, W, X, H
<1>5. \A h \in 0 .. H : h \in T
  BY <1>1, <1>3, <1>4, Downwards
<1>. QED  BY <1>5 DEF T, W, X, H

--------------------------------------------------------------------------
(***************************************************************************)
(* cluster_count covers the clusters of a file, as long as no disk access  *)
(* of a write fails and a write stays in one cluster.                      *)
(***************************************************************************)
\* The clusters that can be read lie before cluster_count, but for the one
\* that the running call writes.
CoverSound ==
  /\ ~Idle => (call.off % PointersPerCluster) + call.len <= PointersPerCluster
  /\ \A i \in Inode, l \in Logical :
       Regular(i) /\ Seen(i, l) # Hole =>
         \/ l < count[i]
         \/ i = call.inode /\ \E s \in Slot : Covers(call.len, l, s)

\* What FileStore allows of a step of a running call.
LEMMA StepOfCall ==
  ASSUME IInv, ~Idle, NEW i \in Inode, i = call.inode, [Abstract!Next]_(Abstract!vars),
         ret' = "ok" \/ call'.inode = call.inode
  PROVE  /\ \A j \in Inode \ {i}, l \in Logical : Seen(j, l)' = Seen(j, l)
         /\ \A l \in Logical :
              PartlyWritten(Seen(i, l), l, Seen(i, l)')
<1>2. /\ Writer.inode = i /\ Writer'.inode = call'.inode
      /\ Abstract!NoInode = NoInode /\ Abstract!Inode = Inode /\ i # NoInode
  BY DEF Writer, Abstract!NoInode, Abstract!Inode, Inode, NoInode, Idle
<1>3. /\ Files = [j \in Inode |-> [l \in Logical |-> Seen(j, l)]]
      /\ Files' = [j \in Inode |-> [l \in Logical |-> Seen(j, l)']]
  BY SeenFiles
<1>4. \A j \in Inode, l \in Logical :
        Files[j][l] = Seen(j, l) /\ Files'[j][l] = Seen(j, l)'
  BY <1>3
<1>5. \/ Files' = Files
      \/ /\ \A j \in Inode \ {i} : Files'[j] = Files[j]
         /\ \A l \in Logical : Abstract!Partial(Files[i][l], l, Files'[i][l])
  <2>1. ~Abstract!Begin /\ ~Abstract!Reset
    BY <1>2 DEF Abstract!Begin, Abstract!Reset
  <2>2. CASE Abstract!Progress
    BY <1>2, <2>2 DEF Abstract!Progress
  <2>3. CASE Abstract!End
    BY <1>2, <2>3 DEF Abstract!End
  <2>4. CASE UNCHANGED Abstract!vars
    BY <2>4 DEF Abstract!vars
  <2>. QED  BY <2>1, <2>2, <2>3, <2>4 DEF Abstract!Next
<1>6. CASE Files' = Files
  <2>1. \A j \in Inode, l \in Logical : Seen(j, l)' = Seen(j, l)
    BY <1>4, <1>6
  <2>. QED  BY <2>1 DEF PartlyWritten
<1>7. CASE /\ \A j \in Inode \ {i} : Files'[j] = Files[j]
           /\ \A l \in Logical : Abstract!Partial(Files[i][l], l, Files'[i][l])
  <2>1. \A j \in Inode \ {i}, l \in Logical : Seen(j, l)' = Seen(j, l)
    BY <1>4, <1>7
  <2>2. \A l \in Logical : PartlyWritten(Seen(i, l), l, Seen(i, l)')
    <3>. TAKE l \in Logical
    <3>1. Abstract!Partial(Files[i][l], l, Files'[i][l])
      BY <1>7
    <3>2. Files[i][l] = Seen(i, l) /\ Files'[i][l] = Seen(i, l)'
      BY <1>4
    <3>3. Abstract!Partial(Seen(i, l), l, Seen(i, l)')
      BY <3>1, <3>2
    <3>. QED  BY <3>3, PartialMeans
  <2>. QED  BY <2>1, <2>2
<1>. QED  BY <1>5, <1>6, <1>7

\* The cluster that a call of one cluster writes.
LEMMA OneCluster ==
  ASSUME NEW off \in Nat, NEW len \in Nat,
         (off % PointersPerCluster) + len <= PointersPerCluster,
         NEW l \in Nat, NEW s \in Slot,
         off <= l * PointersPerCluster + s, l * PointersPerCluster + s < off + len
  PROVE  l = off \div PointersPerCluster
<1>. DEFINE p == PointersPerCluster
            q == off \div p
            r == off % p
<1>1. p \in Nat \ {0} /\ s \in 0 .. p - 1 /\ l * p = p * l /\ p * l \in Nat
  BY SizesAssumption DEF Slot
<1>2. q \in Nat /\ r \in 0 .. p - 1 /\ off = p * q + r /\ r + len <= p
  BY <1>1, DivMod
<1>. HIDE DEF q, r
<1>3. p * q \in Nat
  BY <1>1, <1>2
<1>4. p * q + r <= p * l + s /\ p * l + s < p * q + p
  BY <1>1, <1>2, <1>3
<1>5. ~(q < l)
  <2>1. ASSUME q < l PROVE p * q + p <= p * l
    BY <1>1, <1>2, <2>1, MulLess
  <2>. QED  BY <1>1, <1>3, <1>4, <2>1
<1>6. ~(l < q)
  <2>1. ASSUME l < q PROVE p * l + p <= p * q
    BY <1>1, <1>2, <2>1, MulLess
  <2>. QED  BY <1>1, <1>2, <1>3, <1>4, <2>1
<1>7. l = q
  BY <1>2, <1>5, <1>6
<1>. QED  BY <1>7 DEF q

\* The words of a size lie in the clusters that it calls for.
LEMMA WordsCovered ==
  ASSUME NEW a \in Nat, NEW l \in Nat, NEW s \in Slot,
         l * PointersPerCluster + s < a
  PROVE  l < ClustersFor(a)
<1>. DEFINE p == PointersPerCluster
            m == ClustersFor(a)
<1>1. m \in Nat /\ p * m >= a /\ p \in Nat \ {0} /\ s \in Nat
  BY ClustersForType, SizesAssumption DEF Slot
<1>. HIDE DEF m
<1>2. p * l \in Nat /\ l * p = p * l /\ p * m \in Nat
  BY <1>1
<1>3. ASSUME m <= l PROVE FALSE
  <2>1. CASE m = l
    BY <1>1, <1>2, <2>1
  <2>2. CASE m < l
    <3>1. p * m + p <= p * l
      BY <1>1, <2>2, MulLess
    <3>. QED  BY <1>1, <1>2, <3>1
  <2>. QED  BY <1>1, <1>3, <2>1, <2>2
<1>4. l < m
  BY <1>1, <1>3
<1>. QED  BY <1>4 DEF m

LEMMA CoverAlone ==
  ASSUME IInv, CoverSound, ~Idle, NEW l \in Nat, NEW s \in Slot,
         Covers(call.len, l, s)
  PROVE  l = call.off \div PointersPerCluster
<1>1. call.off \in Nat /\ call.len \in Nat
  BY DEF IInv, TypeOK
<1>. QED  BY <1>1, OneCluster DEF CoverSound, Covers

\* A walk that comes to a missing pointer ends there.
LEMMA WalkStops ==
  ASSUME NEW d, NEW root, NEW l, NEW h \in 0 .. HeightOf(l),
         Walk(d, root, l, h) = 0
  PROVE  Walk(d, root, l, 0) = 0
<1>. DEFINE W(g) == Walk(d, root, l, g)
            T == {g \in 0 .. h : W(g) = 0}
<1>1. HeightOf(l) \in 0 .. 3
  BY HeightType DEF Height
<1>2. \A g \in 0 .. HeightOf(l) - 1 : W(g) = FollowOn(d, W(g + 1), l, g)
  BY <1>1 DEF Walk
<1>. HIDE DEF W
<1>3. h \in 0 .. 3 /\ 0 \in 0 .. h
  BY <1>1
<1>4. h \in T
  BY <1>1 DEF W
<1>5. ASSUME NEW g \in 0 .. h - 1, g + 1 \in T
      PROVE  g \in T
  <2>1. g \in 0 .. HeightOf(l) - 1 /\ g \in 0 .. h /\ W(g + 1) = 0
    BY <1>1, <1>5
  <2>2. W(g) = 0
    BY <1>2, <2>1 DEF FollowOn
  <2>. QED  BY <2>1, <2>2
<1>. HIDE DEF T
<1>6. \A g \in 0 .. h : g \in T
  BY <1>3, <1>4, <1>5, Downwards
<1>. QED  BY <1>3, <1>6 DEF T, W

\* A call that finds no space has not got to the cluster it was to write.
LEMMA NoSpaceHole ==
  ASSUME IInv, CopySound, CoverSound, NoSpace,
         NEW i \in Inode, i = call.inode, NEW l \in Logical, NEW s \in Slot,
         Covers(call.len, l, s)
  PROVE  Seen(i, l) = Hole
<1>1. Walking /\ Pointer = 0 /\ ~Idle
  BY DEF NoSpace, Walking
<1>2. /\ LiveRoot(i) = call.root
      /\ LogicalIndex \in 0 .. Capacity - 1
      /\ at.height \in 0 .. HeightOf(LogicalIndex)
      /\ Pointer = Walk(disk, call.root, LogicalIndex, at.height)
      /\ Offset \in Slot
      /\ call.off + call.done = LogicalIndex * PointersPerCluster + Offset
  BY <1>1, CallFacts
<1>3. call.off \in Nat /\ call.len \in Nat /\ call.done \in Nat
      /\ call.done < call.len
  BY <1>1 DEF IInv, TypeOK, Walking
<1>4. Covers(call.len, LogicalIndex, Offset)
  <2>. DEFINE o == LogicalIndex * PointersPerCluster + Offset
  <2>1. o = call.off + call.done
    BY <1>2
  <2>. HIDE DEF o
  <2>2. call.off <= o /\ o < call.off + call.len
    BY <1>3, <2>1
  <2>. QED  BY <2>2 DEF Covers, o
<1>5. l \in Nat /\ LogicalIndex \in Nat
  BY <1>2, LogicalIn
<1>6. l = LogicalIndex
  BY <1>1, <1>2, <1>4, <1>5, CoverAlone
<1>7. Walk(disk, call.root, l, 0) = 0
  BY <1>1, <1>2, <1>6, WalkStops
<1>8. View(disk, LiveRoot(i), l) = Hole
  BY <1>2, <1>7 DEF View
<1>. QED  BY <1>5, <1>8, IndexView DEF Seen

\* An inode and a disk that stay as they are.
LEMMA SameSeen ==
  ASSUME NEW i \in Inode, NEW l, disk' = disk, index'[i].root = index[i].root
  PROVE  Seen(i, l)' = Seen(i, l)
BY DEF Seen, View, Walk, FollowOn, HeightOf, RootOf, SlotOf

LEMMA NoneSeen ==
  ASSUME NEW i \in Inode, NEW l \in Logical, index'[i].root = NoPointers
  PROVE  Seen(i, l)' = Hole
<1>. DEFINE d == disk'
            root == index'[i].root
<1>1. Seen(i, l)' = View(d, root, l)
  BY DEF Seen, View, Walk, FollowOn, HeightOf, RootOf, SlotOf
<1>2. root = NoPointers
  OBVIOUS
<1>. HIDE DEF d, root
<1>. QED  BY <1>1, <1>2, NothingSeen

\* A step of a call that goes on.
LEMMA CoverGoesOn ==
  ASSUME IInv, CoverSound, ~Idle, [Abstract!Next]_(Abstract!vars),
         index' = index, count' = count, call'.inode = call.inode,
         call'.off = call.off, call'.len = call.len
  PROVE  CoverSound'
<1>. DEFINE k == call.inode
<1>1. k \in Inode /\ Inode' = Inode
  BY SizesAssumption DEF IInv, TypeOK, Idle, NoInode, Inode
<1>2. \A i \in Inode : Regular(i)' = Regular(i)
  BY DEF Regular
<1>3. \A l, s : Covers(call.len, l, s)' = Covers(call.len, l, s)
  BY DEF Covers
<1>4. ASSUME NEW i \in Inode, NEW l \in Logical, Regular(i), Seen(i, l)' # Hole
      PROVE  \/ l < count[i]
             \/ i = call.inode /\ \E s \in Slot : Covers(call.len, l, s)
  <2>1. PICK j \in Inode : j = call.inode
    BY <1>1
  <2>2. /\ \A m \in Inode \ {j}, n \in Logical : Seen(m, n)' = Seen(m, n)
        /\ \A n \in Logical : PartlyWritten(Seen(j, n), n, Seen(j, n)')
    BY <2>1, StepOfCall
  <2>3. CASE Seen(i, l)' = Seen(i, l)
    BY <1>4, <2>3 DEF CoverSound
  <2>4. CASE i = j /\ \E s \in Slot : Covers(call.len, l, s)
    BY <2>1, <2>4
  <2>5. i = j => PartlyWritten(Seen(i, l), l, Seen(i, l)')
    BY <2>2
  <2>. QED  BY <2>2, <2>3, <2>4, <2>5 DEF PartlyWritten
<1>5. ~Idle' /\ Slot' = Slot
  BY DEF Idle, NoInode, Slot
<1>. QED  BY <1>1, <1>2, <1>3, <1>4, <1>5 DEF CoverSound

\* A call that ends without success leaves the files as they are.
LEMMA CoverNoSpace ==
  ASSUME IInv, CopySound, CoverSound, NoSpace, count' = count
  PROVE  CoverSound'
<1>1. ~Idle /\ call' = NoCall /\ disk' = disk /\ Idle'
      /\ index' = IF index[call.inode].kind = "symlink"
                  THEN [index EXCEPT ![call.inode] = UnusedInode] ELSE index
  BY IdleAfter DEF NoSpace, Walking, Abort, EndCall
<1>2. Inode' = Inode
  BY DEF Inode
<1>3. ASSUME NEW i \in Inode, NEW l \in Logical, Regular(i)', Seen(i, l)' # Hole
      PROVE  l < count[i]
  <2>1. index'[i] = index[i]
    BY <1>1, <1>3 DEF Regular, UnusedInode, IInv, TypeOK
  <2>2. Seen(i, l)' = Seen(i, l) /\ Regular(i)
    BY <1>1, <1>3, <2>1, SameSeen DEF Regular
  <2>3. Seen(i, l) # Hole
    BY <1>3, <2>2
  <2>4. ~(i = call.inode /\ \E s \in Slot : Covers(call.len, l, s))
    BY <2>3, NoSpaceHole
  <2>. QED  BY <2>2, <2>3, <2>4 DEF CoverSound
<1>. QED  BY <1>1, <1>2, <1>3 DEF CoverSound

LEMMA CoverCommit ==
  ASSUME DInv, CoverSound, CommitWrite, [Abstract!Next]_(Abstract!vars)
  PROVE  CoverSound'
<1>0. IInv /\ SizesSound
  BY DEF DInv
<1>1. /\ ~Idle /\ call' = NoCall /\ Idle' /\ ret' = "ok"
      /\ index' = [index EXCEPT ![call.inode].root = call.root]
  BY IdleAfter DEF CommitWrite, Commit, EndCall
<1>2. PICK k \in Inode : k = call.inode
  BY <1>0, <1>1, SizesAssumption DEF IInv, TypeOK, Idle, NoInode, Inode
<1>3. /\ \A i \in Inode \ {k}, l \in Logical : Seen(i, l)' = Seen(i, l)
      /\ \A l \in Logical : PartlyWritten(Seen(k, l), l, Seen(k, l)')
  BY <1>0, <1>1, <1>2, StepOfCall
<1>4. \A i \in Inode : Regular(i)' <=> Regular(i)
  BY <1>0, <1>1 DEF Regular, IInv, TypeOK
<1>5. \A i \in Inode : i # k => count'[i] = count[i]
  BY <1>0, <1>2 DEF CommitWrite, SizesSound
<1>6. Regular(k) => count'[k] = ClustersFor(size[k])
  BY <1>0, <1>2 DEF CommitWrite, SizesSound
<1>7. ASSUME NEW i \in Inode, NEW l \in Logical, Regular(i), Seen(i, l)' # Hole
      PROVE  l < count'[i]
  <2>1. CASE i # k
    <3>1. Seen(i, l)' = Seen(i, l)
      BY <1>3, <2>1
    <3>. QED  BY <1>2, <1>5, <1>7, <2>1, <3>1 DEF CoverSound
  <2>2. CASE i = k
    <3>1. /\ count[k] \in Nat /\ size[k] \in Nat
          /\ count[k] <= ClustersFor(size[k]) /\ ClustersFor(size[k]) \in Nat
      BY <1>0, ClustersForType DEF SizesSound
    <3>2. l \in Nat
      BY LogicalIn
    <3>3. PartlyWritten(Seen(k, l), l, Seen(k, l)')
      BY <1>3
    <3>4. (l < count[k]) \/ \E s \in Slot : Covers(call.len, l, s)
      <4>1. CASE Seen(k, l)' = Seen(k, l)
        <5>1. Seen(k, l) # Hole /\ Regular(k)
          BY <1>7, <2>2, <4>1
        <5>. QED  BY <1>2, <5>1 DEF CoverSound
      <4>. QED  BY <3>3, <4>1 DEF PartlyWritten
    <3>5. ASSUME NEW s \in Slot, Covers(call.len, l, s)
          PROVE  l < ClustersFor(size[k])
      <4>1. /\ call.off + call.len <= size[k]
            /\ call.off + call.len \in Nat
        BY <1>0, <1>1, <1>2, <1>7, <2>2 DEF SizesSound, IInv, TypeOK
      <4>. DEFINE o == l * PointersPerCluster + s
      <4>2. o \in Nat
        <5>1. PointersPerCluster \in Nat /\ s \in Nat
          BY SizesAssumption DEF Slot
        <5>. QED  BY <3>2, <5>1
      <4>3. o < call.off + call.len
        BY <3>5 DEF Covers
      <4>. HIDE DEF o
      <4>4. o < size[k]
        BY <3>1, <4>1, <4>2, <4>3
      <4>. QED  BY <3>1, <3>2, <4>4, WordsCovered DEF o
    <3>6. l < ClustersFor(size[k])
      BY <3>1, <3>2, <3>4, <3>5
    <3>. QED  BY <1>6, <1>7, <2>2, <3>6
  <2>. QED  BY <2>1, <2>2
<1>8. Inode' = Inode
  BY DEF Inode
<1>. QED  BY <1>1, <1>4, <1>7, <1>8 DEF CoverSound

LEMMA CoverFileStep ==
  ASSUME DInv, CopySound, CoverSound, OneClusterWrites, FileStep
  PROVE  CoverSound'
<1>0. IInv /\ SizesSound /\ ~DiskFaults
  BY DEF DInv, OneClusterWrites
<1>1. [Abstract!Next]_(Abstract!vars)
  <2>1. [Next]_vars
    BY FileStepNext
  <2>. QED  BY <1>0, <2>1, FilesStep
<1>2. Inode' = Inode
  BY DEF Inode
<1>3. CASE Grow /\ (AllocateRoot \/ AllocateInBlock \/ Descend \/ WriteChunk)
  <2>1. /\ ~Idle /\ index' = index /\ count' = count /\ call'.inode = call.inode
        /\ call'.off = call.off /\ call'.len = call.len
    BY <1>0, <1>3
    DEF Grow, AllocateRoot, AllocateInBlock, Descend, WriteChunk, Walking,
        IInv, TypeOK
  <2>. QED  BY <1>0, <1>1, <2>1, CoverGoesOn
<1>4. CASE Grow /\ (LosePointer \/ NoSpace \/ IoError)
  <2>1. NoSpace /\ count' = count
    BY <1>0, <1>4 DEF Grow, LosePointer, IoError
  <2>. QED  BY <1>0, <2>1, CoverNoSpace
<1>5. CASE CommitWrite
  BY <1>1, <1>5, CoverCommit
\* From here on no call runs, and at most inode i changes.
<1>6. ASSUME NEW i \in Inode, Idle, disk' = disk,
             \A j \in Inode : j # i => index'[j] = index[j] /\ count'[j] = count[j],
             \/ index'[i] = index[i] /\ count'[i] = count[i]
             \/ Regular(i)' => index'[i].root = NoPointers,
             ~Idle' => (call'.off % PointersPerCluster) + call'.len
                         <= PointersPerCluster
      PROVE  CoverSound'
  <2>1. call.inode \notin Inode
    BY <1>6, IdleTypes DEF Idle
  <2>2. ASSUME NEW j \in Inode, NEW l \in Logical, Regular(j)', Seen(j, l)' # Hole
        PROVE  l < count'[j]
    <3>1. CASE index'[j] = index[j] /\ count'[j] = count[j]
      <4>1. Seen(j, l)' = Seen(j, l) /\ Regular(j)
        BY <1>6, <2>2, <3>1, SameSeen DEF Regular
      <4>. QED  BY <2>1, <2>2, <3>1, <4>1 DEF CoverSound
    <3>2. CASE index'[j].root = NoPointers
      BY <2>2, <3>2, NoneSeen
    <3>. QED  BY <1>6, <2>2, <3>1, <3>2
  <2>. QED  BY <1>2, <1>6, <2>2 DEF CoverSound
<1>7. ASSUME NEW i \in Inode, NEW q \in Request, NEW w \in Word,
             BeginSymlink(i, q, w), count' = count
      PROVE  CoverSound'
  <2>1. /\ Idle /\ disk' = disk
        /\ index' = [index EXCEPT ![i] = [kind |-> "symlink", root |-> NoPointers]]
        /\ call'.off = q.off /\ call'.len = q.len
    BY <1>7 DEF BeginSymlink, StartCall
  <2>2. /\ \A j \in Inode : j # i => index'[j] = index[j]
        /\ index'[i].root = NoPointers
    BY <1>0, <2>1 DEF IInv, TypeOK
  <2>3. (call'.off % PointersPerCluster) + call'.len <= PointersPerCluster
    BY <2>1 DEF OneClusterWrites
  <2>. QED  BY <1>6, <1>7, <2>1, <2>2, <2>3
<1>8. ASSUME NEW i \in Inode, NEW kind \in Kinds, Create(i, kind), count' = count
      PROVE  CoverSound'
  <2>1. /\ Idle /\ disk' = disk /\ Idle'
        /\ index' = [index EXCEPT ![i] = [kind |-> kind, root |-> NoPointers]]
    BY <1>8 DEF Create, Idle, NoInode
  <2>2. /\ \A j \in Inode : j # i => index'[j] = index[j]
        /\ index'[i].root = NoPointers
    BY <1>0, <2>1 DEF IInv, TypeOK
  <2>. QED  BY <1>6, <1>8, <2>1, <2>2
<1>9. ASSUME NEW i \in Inode, Empty(i)
      PROVE  CoverSound'
  <2>1. /\ Idle /\ disk' = disk /\ Idle'
        /\ \/ index' = [index EXCEPT ![i].root = NoPointers]
           \/ index' = [index EXCEPT ![i] = UnusedInode]
        /\ count' = [count EXCEPT ![i] = 0]
    BY <1>9 DEF Empty, Truncate, Remove, RemoveDirectory, Idle, NoInode
  <2>2. \A j \in Inode : j # i => index'[j] = index[j] /\ count'[j] = count[j]
    BY <1>0, <2>1 DEF IInv, TypeOK, SizesSound
  <2>3. index'[i].root = NoPointers
    BY <1>0, <2>1 DEF IInv, TypeOK, UnusedInode
  <2>. QED  BY <1>6, <2>1, <2>2, <2>3
<1>10. ASSUME NEW i \in Inode, NEW q \in Request, NEW w \in Word,
              BeginWrite(i, q, w)
       PROVE  CoverSound'
  <2>1. /\ Idle /\ disk' = disk /\ index' = index /\ count' = count
        /\ call'.off = q.off /\ call'.len = q.len
    BY <1>10 DEF BeginWrite, Begin, StartCall
  <2>2. (call'.off % PointersPerCluster) + call'.len <= PointersPerCluster
    BY <2>1 DEF OneClusterWrites
  <2>. QED  BY <1>6, <2>1, <2>2
<1>. QED
  BY <1>3, <1>4, <1>5, <1>7, <1>8, <1>9, <1>10 DEF FileStep, Grow

--------------------------------------------------------------------------
(***************************************************************************)
(* What a reader of the index sees when the command runs.                  *)
(***************************************************************************)
LEMMA SeenAfter ==
  ASSUME NEW i \in Inode, NEW l
  PROVE  Seen(i, l)' = View(disk', index'[i].root, l)
BY DEF Seen, View, Walk, FollowOn, HeightOf, RootOf, SlotOf

\* In its new place the file has the words that it had.
LEMMA MovedWords ==
  ASSUME IInv, Idle, NEW i \in Inode, NEW start, NEW bad, Roomy(i, start),
         Moved(i, start, bad), UNCHANGED call, 0 \notin OldClusters(i),
         NEW l \in Logical, l < count[i]
  PROVE  Seen(i, l)' = Seen(i, l)
<1>1. l \in 0 .. Capacity - 1 /\ l \in Nat /\ count[i] \in Nat
  BY LogicalIn, FilesAssumption DEF Roomy
<1>2. Old(i, l) = Walk(disk, index[i].root, l, 0) /\ Old(i, l) # 0
  <2>1. l \in 0 .. count[i] - 1
    BY <1>1
  <2>. QED  BY <1>1, <2>1, OldWalk DEF OldClusters
<1>3. Seen(i, l) = disk[Old(i, l)]
  BY <1>2 DEF Seen, View
<1>4. 0 \in 0 .. HeightOf(l)
  BY HeightType DEF Height
<1>5. StartOf(l, 0) = l
  BY DEF StartOf
<1>6. Walk(disk', index'[i].root, l, 0) = Target(i, start, 0, l)
  BY <1>1, <1>4, <1>5, NewWalk
<1>7. Target(i, start, 0, l) = start + l
  BY <1>1 DEF Target
<1>8. Target(i, start, 0, l) # 0
  <2>1. Node(count[i], 0, l)
    BY <1>1 DEF Node
  <2>2. Target(i, start, 0, l) = 0 <=> l >= count[i]
    BY <1>1, <2>1, TargetNotZero
  <2>. QED  BY <1>1, <2>2
<1>9. start + l \in RunAt(start, count[i]) /\ (start + l) - start = l
  BY <1>1 DEF RunAt, Roomy, Cluster
<1>10. disk'[start + l] = disk[Old(i, l)]
  <2>1. \A c \in RunAt(start, count[i]) : disk'[c] = disk[Old(i, c - start)]
    BY MoveMeans
  <2>. DEFINE c == start + l
  <2>2. c \in RunAt(start, count[i]) /\ c - start = l
    BY <1>9
  <2>. HIDE DEF c
  <2>3. disk'[c] = disk[Old(i, l)]
    BY <2>1, <2>2
  <2>. QED  BY <2>3 DEF c
<1>11. View(disk', index'[i].root, l) = disk'[start + l]
  BY <1>6, <1>7, <1>8 DEF View
<1>. QED  BY <1>3, <1>10, <1>11, SeenAfter

\* Behind its last cluster it has none, as before.
LEMMA MovedHoles ==
  ASSUME IInv, Idle, NEW i \in Inode, NEW start, NEW bad, Roomy(i, start),
         Moved(i, start, bad), UNCHANGED call,
         NEW l \in Logical, l >= count[i], Seen(i, l) = Hole
  PROVE  Seen(i, l)' = Seen(i, l)
<1>1. l \in 0 .. Capacity - 1 /\ l \in Nat /\ count[i] \in Nat
  BY LogicalIn, FilesAssumption DEF Roomy
<1>2. 0 \in 0 .. HeightOf(l) /\ StartOf(l, 0) = l
  BY HeightType DEF Height, StartOf
<1>3. Walk(disk', index'[i].root, l, 0) = Target(i, start, 0, l)
  BY <1>1, <1>2, NewWalk
<1>4. Target(i, start, 0, l) = 0
  BY <1>1 DEF Target
<1>. QED  BY <1>3, <1>4, SeenAfter DEF View

\* The other files keep theirs.
LEMMA MovedOthers ==
  ASSUME IInv, Idle, NEW i \in Inode, NEW start, NEW bad, Roomy(i, start),
         Moved(i, start, bad), UNCHANGED call,
         NEW j \in Inode \ {i}, NEW l \in Logical
  PROVE  Seen(j, l)' = Seen(j, l)
<1>1. \A c \in used : disk'[c] = disk[c]
  BY AfterMove
<1>2. LiveRoot(j) = index[j].root
  BY OldWalk, LogicalIn
<1>3. index'[j].root = index[j].root
  BY MoveMeans DEF IInv, TypeOK
<1>4. View(disk', LiveRoot(j), l) = View(disk, LiveRoot(j), l)
  <2>1. l \in Nat
    BY LogicalIn
  <2>. QED  BY <1>1, <2>1, UsedKept
<1>. QED  BY <1>2, <1>3, <1>4, SeenAfter DEF Seen

\* The files that the command has yet to visit are regular ones: nothing else
\* runs meanwhile.
FilesToVisit == \A i \in todo : Regular(i)

\* A step of the command: no file changes for a reader of the index.
Unseen ==
  /\ Idle /\ UNCHANGED <<call, ret, count>>
  /\ \A i \in Inode : index'[i].kind = index[i].kind
  /\ \A i \in Inode, l \in Logical : Seen(i, l)' = Seen(i, l)

LEMMA CoverKept ==
  ASSUME CoverSound, Unseen
  PROVE  CoverSound'
<1>1. Idle' /\ call.inode \notin Inode /\ Inode' = Inode
  BY IdleTypes DEF Unseen, Idle, NoInode, Inode
<1>2. ASSUME NEW i \in Inode, NEW l \in Logical, Regular(i)', Seen(i, l)' # Hole
      PROVE  l < count'[i]
  <2>1. Regular(i) /\ Seen(i, l) # Hole /\ count' = count
    BY <1>2 DEF Regular, Unseen
  <2>. QED  BY <1>1, <2>1 DEF CoverSound
<1>. QED  BY <1>1, <1>2 DEF CoverSound

LEMMA QuietUnseen ==
  ASSUME Idle, UNCHANGED <<disk, index, call, ret, count>>
  PROVE  Unseen
<1>1. \A i \in Inode, l \in Logical : Seen(i, l)' = Seen(i, l)
  BY SameSeen
<1>. QED  BY <1>1 DEF Unseen

LEMMA MoveUnseen ==
  ASSUME DInv, CoverSound, NEW i \in Inode, Regular(i), NEW bad, Move(i, bad)
  PROVE  Unseen
<1>0. IInv /\ count[i] \in Nat
  BY DEF DInv, SizesSound
<1>1. /\ Idle /\ Movable(i) /\ UNCHANGED <<call, at, ret, size, count>>
      /\ \E start : Roomy(i, start) /\ Moved(i, start, bad)
  BY <1>0, MoveAction
<1>2. PICK start : Roomy(i, start) /\ Moved(i, start, bad)
  BY <1>1
<1>3. 0 \notin OldClusters(i)
  BY <1>1 DEF Movable
<1>4. ASSUME NEW l \in Logical PROVE Seen(i, l)' = Seen(i, l)
  <2>1. CASE l < count[i]
    BY <1>0, <1>1, <1>2, <1>3, <2>1, MovedWords
  <2>2. CASE ~(l < count[i])
    <3>1. l >= count[i]
      BY <1>0, <2>2, LogicalIn
    <3>2. call.inode \notin Inode
      BY <1>1, IdleTypes DEF Idle
    <3>3. Seen(i, l) = Hole
      BY <2>2, <3>2 DEF CoverSound
    <3>. QED  BY <1>0, <1>1, <1>2, <3>1, <3>3, MovedHoles
  <2>. QED  BY <2>1, <2>2
<1>5. \A j \in Inode \ {i}, l \in Logical : Seen(j, l)' = Seen(j, l)
  BY <1>0, <1>1, <1>2, MovedOthers
<1>6. \A j \in Inode : index'[j].kind = index[j].kind
  <2>. DEFINE root == [r \in Root |-> Target(i, start, RootHeight(r), RootPlace(r))]
  <2>1. index' = [index EXCEPT ![i].root = root]
    BY <1>2, MoveMeans
  <2>. HIDE DEF root
  <2>. QED  BY <1>0, <2>1 DEF IInv, TypeOK
<1>. QED  BY <1>1, <1>4, <1>5, <1>6 DEF Unseen

LEMMA CommandUnseen ==
  ASSUME DInv, CoverSound, FilesToVisit, DefragNext, ~FileStep
  PROVE  Unseen /\ FilesToVisit'
<1>0. IInv /\ \A i \in Inode : count[i] \in Nat
  BY DEF DInv, SizesSound
<1>1. CASE StartDefrag
  BY <1>1, QuietUnseen DEF StartDefrag, FilesToVisit, Regular
<1>2. ASSUME NEW i \in Inode,
             \/ Leave(i) \/ StopCopying(i)
             \/ \E fault \in Faults : LoseBlocks(i, fault)
             \/ \E bad \in Unread : Move(i, bad)
      PROVE  Unseen /\ FilesToVisit'
  <2>1. Idle /\ i \in todo /\ todo' = todo \ {i}
        /\ UNCHANGED <<call, at, ret, size, count>>
    BY <1>2 DEF Leave, StopCopying, LoseBlocks, Move, Visit
  <2>2. Unseen
    <3>1. CASE Leave(i)
      BY <2>1, <3>1, QuietUnseen DEF Leave
    <3>2. CASE StopCopying(i)
      BY <1>0, <2>1, <3>2, StopCopyingStep DEF Unseen
    <3>3. ASSUME NEW fault, LoseBlocks(i, fault)
          PROVE  Unseen
      BY <1>0, <2>1, <3>3, LoseBlocksStep DEF Unseen
    <3>4. ASSUME NEW bad, Move(i, bad)
          PROVE  Unseen
      BY <2>1, <3>4, MoveUnseen DEF FilesToVisit
    <3>. QED  BY <1>2, <3>1, <3>2, <3>3, <3>4
  <2>3. todo \subseteq Inode
    BY DEF DInv, SizesSound
  <2>. QED  BY <2>1, <2>2, <2>3 DEF FilesToVisit, Unseen, Regular
<1>. QED  BY <1>1, <1>2 DEF DefragNext

--------------------------------------------------------------------------
(***************************************************************************)
(* The files.                                                              *)
(***************************************************************************)
\* The inductive invariant with what it says of the files.
FInv == DInv /\ CopySound /\ CoverSound /\ FilesToVisit

LEMMA FilesInit == DefragInit => FInv /\ Abstract!Init
<1>. SUFFICES ASSUME DefragInit PROVE FInv /\ Abstract!Init
  OBVIOUS
<1>1. DInv /\ CopySound /\ Abstract!Init
  BY DefragInit_, InitFiles DEF DefragInit
<1>2. Idle
  BY DEF DefragInit, Init, Idle, NoCall
<1>3. \A i \in Inode : ~Regular(i)
  BY DEF DefragInit, Init, Regular, UnusedInode
<1>4. CoverSound
  BY <1>2, <1>3 DEF CoverSound
<1>. QED  BY <1>1, <1>4 DEF FInv, FilesToVisit, DefragInit

LEMMA FilesNext ==
  OneClusterWrites /\ FInv /\ [DefragNext]_defragVars
    => FInv' /\ [Abstract!Next]_(Abstract!vars)
<1>. SUFFICES ASSUME OneClusterWrites, FInv, [DefragNext]_defragVars
              PROVE  FInv' /\ [Abstract!Next]_(Abstract!vars)
  OBVIOUS
<1>1. DInv /\ IInv /\ CopySound /\ CoverSound /\ FilesToVisit
  BY DEF FInv, DInv
<1>2. DInv'
  BY <1>1, DefragStep
<1>3. CASE FileStep
  <2>1. [Next]_vars
    BY <1>3, FileStepNext
  <2>2. CopySound' /\ [Abstract!Next]_(Abstract!vars)
    BY <1>1, <2>1, FilesStep
  <2>3. CoverSound'
    BY <1>1, <1>3, CoverFileStep
  <2>4. FilesToVisit'
    BY <1>3 DEF FileStep, FilesToVisit
  <2>. QED  BY <1>2, <2>2, <2>3, <2>4 DEF FInv
<1>4. CASE DefragNext /\ ~FileStep
  <2>1. Unseen /\ FilesToVisit'
    BY <1>1, <1>4, CommandUnseen
  <2>2. CoverSound'
    BY <1>1, <2>1, CoverKept
  <2>3. Idle'
    BY <2>1 DEF Unseen, Idle, NoInode
  <2>4. CopySound'
    BY <2>3 DEF CopySound
  <2>5. UNCHANGED Abstract!vars
    BY <2>1, StutterStep DEF Unseen
  <2>. QED  BY <1>2, <2>1, <2>2, <2>4, <2>5 DEF FInv
<1>5. CASE UNCHANGED defragVars
  <2>1. [Next]_vars
    BY <1>5 DEF vars, defragVars
  <2>2. CopySound' /\ [Abstract!Next]_(Abstract!vars)
    BY <1>1, <2>1, FilesStep
  <2>3. CoverSound'
    <3>1. disk' = disk /\ index' = index /\ call' = call /\ count' = count
      BY <1>5 DEF defragVars
    <3>2. \A i \in Inode, l \in Logical : Seen(i, l)' = Seen(i, l)
      BY <3>1, SameSeen
    <3>. QED
      BY <1>1, <3>1, <3>2
      DEF CoverSound, Idle, NoInode, Inode, Regular, Covers, Slot
  <2>4. FilesToVisit'
    BY <1>1, <1>5 DEF defragVars, FilesToVisit, Regular
  <2>. QED  BY <1>2, <2>2, <2>3, <2>4 DEF FInv
<1>. QED  BY <1>3, <1>4, <1>5

LEMMA CoverMeans == FInv => CountCoversFile
<1>. SUFFICES ASSUME FInv, Idle, NEW i \in Inode, NEW l \in Logical, Regular(i),
                     Resolve(index[i].root, l) # 0
              PROVE  l < count[i]
  BY DEF CountCoversFile
<1>1. IInv /\ CoverSound /\ l \in Nat
  BY LogicalIn DEF FInv, DInv
<1>2. Old(i, l) = Walk(disk, index[i].root, l, 0) /\ Old(i, l) \in Cluster
  BY <1>1, OldWalk
<1>3. Walk(disk, index[i].root, l, 0) # 0
  BY <1>2 DEF Old
<1>4. Seen(i, l) = disk[Old(i, l)] /\ disk[Old(i, l)] \in [Slot -> Nat]
  BY <1>1, <1>2, <1>3 DEF Seen, View, IInv, TypeOK
<1>5. Seen(i, l) # Hole
  BY <1>4, FilesAssumption
<1>6. call.inode \notin Inode
  BY IdleTypes DEF Idle
<1>. QED  BY <1>1, <1>5, <1>6 DEF CoverSound

\* No cluster of a regular file lies behind its cluster_count, as long as no
\* write is broken off by the disk and each stays in one cluster.  It is what
\* the command relies on: it moves cluster_count clusters and frees all.
THEOREM DefragCountCovers ==
  ASSUME OneClusterWrites
  PROVE  DefragSpec => []CountCoversFile
<1>1. DefragInit => FInv
  BY FilesInit
<1>2. FInv /\ [DefragNext]_defragVars => FInv'
  BY FilesNext
<1>. QED  BY <1>1, <1>2, CoverMeans, PTL DEF DefragSpec

\* The allocator still implements FileStore when its files are moved: defrag
\* changes no file for a reader of the index, whichever of its own disk
\* accesses fail and wherever it stops.
THEOREM DefragImplementsFileStore ==
  ASSUME OneClusterWrites
  PROVE  DefragSpec => ImplementsFileStore
<1>1. DefragInit => FInv /\ Abstract!Init
  BY FilesInit
<1>2. FInv /\ [DefragNext]_defragVars
        => FInv' /\ [Abstract!Next]_(Abstract!vars)
  BY FilesNext
<1>. QED  BY <1>1, <1>2, PTL DEF DefragSpec, ImplementsFileStore, Abstract!Spec

--------------------------------------------------------------------------
(***************************************************************************)
(* The clusters that get lost.                                             *)
(***************************************************************************)
\* Reachable, with the disk and the heights as arguments.
NextBelow(d, lv, S) ==
  S \cup UNION {{d[c][s] : s \in Slot} \ {0} : c \in {b \in S : lv[b] > 0}}

ReachIn(d, lv, root) ==
  NextBelow(d, lv, NextBelow(d, lv, NextBelow(d, lv, {root[r] : r \in Root} \ {0})))

LEMMA ReachIs ==
  ASSUME NEW i \in Inode
  PROVE  /\ Reachable(LiveRoot(i)) = ReachIn(disk, level, LiveRoot(i))
         /\ Reachable(LiveRoot(i))' = ReachIn(disk', level', LiveRoot(i)')
BY DEF Reachable, Below, Targets, ReachIn, NextBelow, Root, Slot

\* What an inode leads to is marked used, and stays as it is when the used
\* clusters do.
LEMMA ReachKept ==
  ASSUME IInv, NEW d, NEW lv, \A c \in used : d[c] = disk[c] /\ lv[c] = level[c],
         NEW i \in Inode
  PROVE  ReachIn(d, lv, LiveRoot(i)) = ReachIn(disk, level, LiveRoot(i))
<1>1. ASSUME NEW S, S \subseteq used \ Reserved
      PROVE  /\ NextBelow(d, lv, S) = NextBelow(disk, level, S)
             /\ NextBelow(disk, level, S) \subseteq used \ Reserved
  <2>1. {b \in S : lv[b] > 0} = {b \in S : level[b] > 0}
    BY <1>1
  <2>2. \A b \in {x \in S : level[x] > 0} :
           {d[b][s] : s \in Slot} \ {0} = {disk[b][s] : s \in Slot} \ {0}
    BY <1>1
  <2>3. \A b \in {x \in S : level[x] > 0} :
           {disk[b][s] : s \in Slot} \ {0} \subseteq used \ Reserved
    BY <1>1 DEF IInv, PointersSound, PointerBlocks
  <2>. QED  BY <1>1, <2>1, <2>2, <2>3 DEF NextBelow
<1>. DEFINE S == {LiveRoot(i)[r] : r \in Root} \ {0}
<1>2. S \subseteq used \ Reserved
  BY DEF IInv, PointersSound
<1>. HIDE DEF S
<1>. DEFINE T == NextBelow(disk, level, S)
<1>3. NextBelow(d, lv, S) = T /\ T \subseteq used \ Reserved
  BY <1>1, <1>2
<1>. HIDE DEF T
<1>. DEFINE U == NextBelow(disk, level, T)
<1>4. NextBelow(d, lv, T) = U /\ U \subseteq used \ Reserved
  BY <1>1, <1>3
<1>. HIDE DEF U
<1>5. NextBelow(d, lv, U) = NextBelow(disk, level, U)
  BY <1>1, <1>4
<1>. QED  BY <1>3, <1>4, <1>5 DEF ReachIn, S, T, U

\* What a walk comes to is reachable.
LEMMA WalkReached ==
  ASSUME NEW d, NEW lv, NEW root, NEW l \in Nat,
         NEW h \in 0 .. HeightOf(l), Walk(d, root, l, h) # 0,
         \A g \in 0 .. HeightOf(l) :
           Walk(d, root, l, g) # 0 => lv[Walk(d, root, l, g)] = g
  PROVE  Walk(d, root, l, h) \in ReachIn(d, lv, root)
<1>. DEFINE W(g) == Walk(d, root, l, g)
            H == HeightOf(l)
            S == {root[r] : r \in Root} \ {0}
            T == NextBelow(d, lv, S)
            U == NextBelow(d, lv, T)
            V == NextBelow(d, lv, U)
<1>1. H \in 0 .. 3
  BY HeightType DEF Height
<1>2. W(H) = root[RootOf(l)] /\ RootOf(l) \in Root
  BY <1>1, RootFits DEF Walk
<1>3. \A g \in 0 .. H - 1 : W(g) = FollowOn(d, W(g + 1), l, g)
  BY <1>1 DEF Walk
<1>4. \A g \in 0 .. H : W(g) # 0 => lv[W(g)] = g
  OBVIOUS
<1>5. \A g \in 0 .. H - 1 : SlotOf(l, g) \in Slot
  <2>1. \A g \in 0 .. H - 1 : g \in Height
    BY <1>1 DEF Height
  <2>. QED  BY <2>1, SlotType
<1>. HIDE DEF W, H
<1>6. ASSUME NEW X, NEW g \in 0 .. H - 1, W(g) # 0,
             W(g + 1) # 0 => W(g + 1) \in X
      PROVE  W(g) \in NextBelow(d, lv, X)
  <2>1. g + 1 \in 0 .. H /\ g + 1 > 0
    BY <1>1
  <2>2. W(g + 1) # 0 /\ W(g) = d[W(g + 1)][SlotOf(l, g)]
    BY <1>3, <1>6 DEF FollowOn
  <2>3. W(g + 1) \in {b \in X : lv[b] > 0}
    BY <1>4, <1>6, <2>1, <2>2
  <2>4. W(g) \in {d[W(g + 1)][s] : s \in Slot} \ {0}
    BY <1>5, <1>6, <2>2
  <2>. QED  BY <2>3, <2>4 DEF NextBelow
<1>7. W(H) # 0 => W(H) \in S
  BY <1>2
<1>8. S \subseteq V /\ T \subseteq V /\ U \subseteq V
  BY DEF NextBelow
<1>. HIDE DEF S, T, U, V
<1>9. ASSUME H - 1 \in 0 .. H - 1, W(H - 1) # 0 PROVE W(H - 1) \in T
  <2>1. (H - 1) + 1 = H
    BY <1>1
  <2>. QED  BY <1>6, <1>7, <1>9, <2>1 DEF T
<1>10. ASSUME H - 2 \in 0 .. H - 1, W(H - 2) # 0 PROVE W(H - 2) \in U
  <2>1. (H - 2) + 1 = H - 1 /\ H - 1 \in 0 .. H - 1
    BY <1>1, <1>10
  <2>. QED  BY <1>6, <1>9, <1>10, <2>1 DEF U
<1>11. ASSUME H - 3 \in 0 .. H - 1, W(H - 3) # 0 PROVE W(H - 3) \in V
  <2>1. (H - 3) + 1 = H - 2 /\ H - 2 \in 0 .. H - 1
    BY <1>1, <1>11
  <2>. QED  BY <1>6, <1>10, <1>11, <2>1 DEF V
<1>12. h \in 0 .. H /\ W(h) # 0
  BY DEF W, H
<1>13. h = H \/ h = H - 1 \/ h = H - 2 \/ h = H - 3
  BY <1>1, <1>12
<1>14. h # H => h \in 0 .. H - 1
  BY <1>1, <1>12
<1>15. W(h) \in V
  BY <1>7, <1>8, <1>9, <1>10, <1>11, <1>12, <1>13, <1>14
<1>. QED  BY <1>15 DEF ReachIn, S, T, U, V, W

\* A pointer block, or a cluster, is named by the first logical cluster below
\* it.
LEMMA StartOfNode ==
  ASSUME NEW n \in Nat, NEW h \in 0 .. 3, NEW f, Node(n, h, f)
  PROVE  /\ f \in 0 .. n - 1 /\ h \in 0 .. HeightOf(f) /\ StartOf(f, h) = f
<1>1. f \in 0 .. n - 1 /\ f \in Nat
  BY DEF Node
<1>2. CASE h = 0
  BY <1>1, <1>2, HeightType DEF StartOf, Height
<1>3. CASE h # 0
  <2>. DEFINE b == [height |-> h, first |-> f]
              B == Before(HeightOf(f))
              R == Reach(h)
  <2>1. b \in Blocks(n) /\ b.height = h /\ b.first = f
    BY <1>3 DEF Node
  <2>. HIDE DEF b
  <2>2. h <= HeightOf(f)
    BY <2>1, BlockFields
  <2>3. PICK k \in Nat : f = B + R * k
    BY <2>1, BlockRange
  <2>4. R \in Nat \ {0}
    BY ReachType
  <2>5. B \in Nat
    BY HeightType, BeforeType
  <2>6. (R * k) \div R = k
    BY <2>4, MulMod
  <2>7. f - B = R * k
    <3>. DEFINE x == R * k
    <3>1. x \in Nat
      BY <2>4
    <3>. HIDE DEF x
    <3>. QED  BY <2>3, <2>5, <3>1 DEF x
  <2>8. StartOf(f, h) = B + R * ((f - B) \div R)
    BY <1>3 DEF StartOf
  <2>9. StartOf(f, h) = f
    BY <2>3, <2>6, <2>7, <2>8
  <2>. QED  BY <1>1, <2>2, <2>9
<1>. QED  BY <1>1, <1>2, <1>3

\* All of the new place of a file can be reached from its inode.
LEMMA NewReached ==
  ASSUME IInv, Idle, NEW i \in Inode, count[i] <= Capacity,
         NEW start, NEW bad, Roomy(i, start), Moved(i, start, bad),
         UNCHANGED call
  PROVE  NewClusters(i, start) \subseteq ReachIn(disk', level', index'[i].root)
<1>. DEFINE n == count[i]
            root == index'[i].root
            d == disk'
            lv == level'
<1>1. n \in Nat
  BY DEF Roomy
<1>2. ASSUME NEW h \in 0 .. 3, NEW f, Node(n, h, f)
      PROVE  Target(i, start, h, f) \in ReachIn(d, lv, root)
  <2>1. f \in 0 .. n - 1 /\ h \in 0 .. HeightOf(f) /\ StartOf(f, h) = f
    BY <1>1, <1>2, StartOfNode
  <2>2. f \in 0 .. Capacity - 1 /\ f \in Nat
    BY <1>1, <2>1, WholeCapacity
  <2>3. \A g \in 0 .. HeightOf(f) :
          Walk(d, root, f, g) = Target(i, start, g, StartOf(f, g))
    BY <2>2, NewWalk
  <2>4. \A g \in 0 .. HeightOf(f) : Node(n, g, StartOf(f, g))
    <3>. TAKE g \in 0 .. HeightOf(f)
    <3>1. /\ StartOf(f, g) \in 0 .. f
          /\ StartOf(f, g) < n => Node(n, g, StartOf(f, g))
      BY <1>1, <2>2, StartNode
    <3>. QED  BY <1>1, <2>1, <3>1
  <2>5. \A g \in 0 .. HeightOf(f) : lv[Walk(d, root, f, g)] = g
    BY <2>3, <2>4, NewHeights
  <2>6. Walk(d, root, f, h) = Target(i, start, h, f)
    BY <2>1, <2>3
  <2>7. Target(i, start, h, f) # 0
    <3>1. Target(i, start, h, f) = 0 <=> f >= count[i]
      BY <1>2, <2>2, TargetNotZero
    <3>. QED  BY <1>1, <2>1, <3>1
  <2>. HIDE DEF d, root, lv
  <2>. QED  BY <2>1, <2>2, <2>5, <2>6, <2>7, WalkReached
<1>3. ASSUME NEW c \in RunAt(start, n)
      PROVE  c \in ReachIn(d, lv, root)
  <2>1. start \in Nat
    BY DEF Roomy, Cluster
  <2>2. c - start \in 0 .. n - 1 /\ start + (c - start) = c
    BY <1>1, <1>3, <2>1 DEF RunAt
  <2>. DEFINE f == c - start
  <2>. HIDE DEF f
  <2>3. f \in 0 .. n - 1 /\ start + f = c
    BY <2>2 DEF f
  <2>4. Node(n, 0, f) /\ Target(i, start, 0, f) = start + f
    BY <1>1, <2>3 DEF Node, Target
  <2>. QED  BY <1>2, <2>3, <2>4
<1>4. ASSUME NEW c \in Built(i, start)
      PROVE  c \in ReachIn(d, lv, root)
  <2>1. PICK b \in Blocks(n) : c = BlockAt(i, start, b)
    BY <1>4 DEF Built
  <2>2. /\ b = [height |-> b.height, first |-> b.first]
        /\ b.height \in 1 .. 3 /\ b.first \in DirectPointers .. n - 1
    BY <2>1, BlockFields
  <2>3. b.first \in 0 .. n - 1 /\ b.height # 0 /\ b.height \in 0 .. 3
    BY <1>1, <2>2, SizesAssumption
  <2>4. Node(n, b.height, b.first)
    BY <2>1, <2>2, <2>3 DEF Node
  <2>5. Target(i, start, b.height, b.first) = c
    BY <2>1, <2>2, <2>3, <2>4, TargetFits
  <2>. QED  BY <1>2, <2>3, <2>4, <2>5
<1>. QED  BY <1>3, <1>4 DEF NewClusters

--------------------------------------------------------------------------
\* An inode that keeps its pointers keeps what it leads to.
LEMMA KeptReach ==
  ASSUME IInv, \A c \in used : disk'[c] = disk[c] /\ level'[c] = level[c],
         NEW i \in Inode, LiveRoot(i)' = LiveRoot(i)
  PROVE  Reachable(LiveRoot(i))' = Reachable(LiveRoot(i))
BY ReachIs, ReachKept

\* When every inode keeps its pointers, no more is lost than was taken.
LEMMA LostTaken ==
  ASSUME IInv, \A c \in used : disk'[c] = disk[c] /\ level'[c] = level[c],
         \A i \in Inode : LiveRoot(i)' = LiveRoot(i),
         NEW N, used' = used \cup N
  PROVE  Leaked' \ Leaked \subseteq N
<1>1. \A i \in Inode : Reachable(LiveRoot(i))' = Reachable(LiveRoot(i))
  BY KeptReach
<1>2. /\ Leaked = (used \ Reserved) \ UNION {Reachable(LiveRoot(i)) : i \in Inode}
      /\ Leaked' = (used' \ Reserved) \ UNION {Reachable(LiveRoot(i))' : i \in Inode}
  BY DEF Leaked, Reserved, Inode
<1>. QED  BY <1>1, <1>2

\* A file that is moved, and whose old place could be read, loses nothing.
LEMMA MoveLosesNothing ==
  ASSUME IInv, Idle, NEW i \in Inode, count[i] <= Capacity,
         NEW start, Roomy(i, start), Moved(i, start, {}), UNCHANGED call
  PROVE  Leaked' \subseteq Leaked
<1>. DEFINE F == Freed(index[i].root, {})
            N == NewClusters(i, start)
<1>1. /\ LiveRoot(i) = index[i].root
      /\ \A j \in Inode \ {i} : LiveRoot(j)' = LiveRoot(j)
      /\ used' = (used \ F) \cup N
      /\ \A c \in used : disk'[c] = disk[c] /\ level'[c] = level[c]
  BY AfterMove
<1>2. LiveRoot(i)' = index'[i].root
  <2>1. call'.inode \notin Inode
    BY IdleTypes DEF Idle
  <2>. QED  BY <2>1 DEF LiveRoot
<1>3. Reachable(LiveRoot(i)) \subseteq F
  BY <1>1, FreedAll
<1>4. N \subseteq Reachable(LiveRoot(i))'
  BY <1>2, NewReached, ReachIs
<1>. HIDE DEF F, N
<1>5. \A j \in Inode \ {i} : Reachable(LiveRoot(j))' = Reachable(LiveRoot(j))
  BY <1>1, KeptReach
<1>6. /\ Leaked = (used \ Reserved) \ UNION {Reachable(LiveRoot(j)) : j \in Inode}
      /\ Leaked' = (used' \ Reserved) \ UNION {Reachable(LiveRoot(j))' : j \in Inode}
  BY DEF Leaked, Reserved, Inode
<1>7. ASSUME NEW c \in Leaked'
      PROVE  c \in Leaked
  <2>1. c \in used' \ Reserved /\ \A j \in Inode : c \notin Reachable(LiveRoot(j))'
    BY <1>6, <1>7
  <2>2. c \in used \ F
    BY <1>1, <1>4, <2>1
  <2>3. \A j \in Inode : c \notin Reachable(LiveRoot(j))
    BY <1>3, <1>5, <2>1, <2>2
  <2>. QED  BY <1>6, <2>1, <2>2, <2>3
<1>. QED  BY <1>7

\* The pointer blocks that are lost with a file that cannot be moved.
FewTaken(i, fault, N) ==
  /\ IsFiniteSet(N)
  /\ Cardinality(N) <= Cardinality(Blocks(count[i]))
  /\ ~fault => Cardinality(Free) < count[i] + Cardinality(Blocks(count[i]))

LEMMA TakenCount ==
  ASSUME IInv, NEW i \in Inode, count[i] \in Nat, NEW fault, NEW s \in Cluster,
         NEW k \in 0 .. Cardinality(Blocks(count[i])), NEW N \in SUBSET Free,
         Taking(i, fault, s, k, N)
  PROVE  FewTaken(i, fault, N)
<1>. DEFINE n == count[i]
            B == Cardinality(Blocks(n))
            R == Room(i, s)
<1>1. B \in Nat /\ k \in Nat /\ k <= B
  BY BlocksFinite
<1>2. IsFiniteSet(N) /\ Cardinality(N) <= k
  <2>. DEFINE f == [m \in 1 .. k |-> Nth(R, m)]
  <2>1. N = {Nth(R, m) : m \in 1 .. k}
    BY DEF Taking
  <2>2. f \in Surjection(1 .. k, N)
    BY <2>1 DEF Surjection
  <2>3. IsFiniteSet(1 .. k) /\ Cardinality(1 .. k) = k
    <3>1. 1 \in Int /\ k \in Int
      BY <1>1
    <3>2. /\ IsFiniteSet(1 .. k)
          /\ Cardinality(1 .. k) = IF 1 > k THEN 0 ELSE k - 1 + 1
      BY <3>1, FS_Interval
    <3>. QED  BY <1>1, <3>2
  <2>. HIDE DEF f
  <2>. QED  BY <2>2, <2>3, FS_Surjection
<1>3. Cardinality(N) <= B
  <2>1. Cardinality(N) \in Nat
    BY <1>2, FS_CardinalityType
  <2>. HIDE DEF B
  <2>. QED  BY <1>1, <1>2, <2>1
<1>4. ASSUME ~fault PROVE Cardinality(Free) < n + B
  <2>1. /\ Cardinality(R) < B
        /\ RunAt(s, n) \subseteq Free /\ R = Free \ RunAt(s, n)
    BY <1>4 DEF Taking, FreeRun, Room
  <2>2. IsFiniteSet(R) /\ Cardinality(R) \in Nat
    BY RoomFits
  <2>3. IsFiniteSet(RunAt(s, n)) /\ Cardinality(RunAt(s, n)) = n
    <3>1. s \in Int /\ s + n - 1 \in Int
      BY DEF Cluster
    <3>2. /\ IsFiniteSet(s .. s + n - 1)
          /\ Cardinality(s .. s + n - 1) =
               IF s > s + n - 1 THEN 0 ELSE (s + n - 1) - s + 1
      BY <3>1, FS_Interval
    <3>. QED  BY <3>1, <3>2 DEF RunAt, Cluster
  <2>4. Free = R \cup RunAt(s, n) /\ R \cap RunAt(s, n) = {}
    BY <2>1
  <2>. HIDE DEF R, B, n
  <2>5. Cardinality(Free) = Cardinality(R) + Cardinality(RunAt(s, n))
                              - Cardinality(R \cap RunAt(s, n))
    BY <2>2, <2>3, <2>4, FS_Union
  <2>6. Cardinality(Free) = Cardinality(R) + n
    <3>1. Cardinality(R \cap RunAt(s, n)) = 0 /\ n \in Nat
      BY <2>4, FS_EmptySet DEF n
    <3>2. Cardinality(Free) = Cardinality(R) + n - 0
      BY <2>3, <2>5, <3>1
    <3>. QED  BY <2>2, <3>1, <3>2
  <2>7. n \in Nat
    BY DEF n
  <2>. QED  BY <1>1, <2>1, <2>2, <2>6, <2>7
<1>. QED  BY <1>2, <1>3, <1>4 DEF FewTaken

--------------------------------------------------------------------------
\* What the steps of the command leave alone, whatever came before.
LEMMA CommandKinds ==
  ASSUME DInv, DefragNext, ~FileStep
  PROVE  /\ Idle /\ UNCHANGED <<call, ret>>
         /\ \A i \in Inode : index'[i].kind = index[i].kind
         /\ \/ UNCHANGED index
            \/ \E i \in todo : \A j \in Inode \ {i} : index'[j] = index[j]
         /\ todo' \subseteq todo \/ \A i \in todo' : Regular(i)
<1>0. IInv /\ todo \subseteq Inode /\ \A i \in Inode : count[i] \in Nat
  BY DEF DInv, SizesSound
<1>1. CASE StartDefrag
  BY <1>1 DEF StartDefrag
<1>2. ASSUME NEW i \in Inode,
             \/ Leave(i) \/ StopCopying(i)
             \/ \E fault \in Faults : LoseBlocks(i, fault)
      PROVE  UNCHANGED index /\ Visit(i)
  BY <1>2 DEF Leave, StopCopying, LoseBlocks
<1>3. ASSUME NEW i \in Inode, NEW bad, Move(i, bad)
      PROVE  /\ \A j \in Inode : index'[j].kind = index[j].kind
             /\ \A j \in Inode \ {i} : index'[j] = index[j]
             /\ Visit(i)
  <2>1. PICK start : Roomy(i, start) /\ Moved(i, start, bad)
    BY <1>0, <1>3, MoveAction
  <2>. DEFINE root == [r \in Root |-> Target(i, start, RootHeight(r), RootPlace(r))]
  <2>2. index' = [index EXCEPT ![i].root = root]
    BY <2>1, MoveMeans
  <2>. HIDE DEF root
  <2>. QED  BY <1>0, <1>3, <2>2 DEF Move, IInv, TypeOK
<1>. QED  BY <1>1, <1>2, <1>3 DEF DefragNext, Visit

\* The inductive invariant of the account of the losses.
LInv == DInv /\ UnusedEmpty /\ FilesToVisit

LEMMA LossInit == DefragInit => LInv
BY DefragInit_, EmptyInit DEF LInv, FilesToVisit, DefragInit

LEMMA LossNext == LInv /\ [DefragNext]_defragVars => LInv'
<1>. SUFFICES ASSUME LInv, [DefragNext]_defragVars PROVE LInv'
  OBVIOUS
<1>1. DInv /\ IInv /\ UnusedEmpty /\ FilesToVisit /\ todo \subseteq Inode
  BY DEF LInv, DInv, SizesSound
<1>2. DInv'
  BY <1>1, DefragStep
<1>3. CASE FileStep
  <2>1. UnusedEmpty'
    BY <1>1, <1>3, FileStepNext, EmptyNext
  <2>2. FilesToVisit'
    BY <1>3 DEF FileStep, FilesToVisit
  <2>. QED  BY <1>2, <2>1, <2>2 DEF LInv
<1>4. CASE DefragNext /\ ~FileStep
  <2>1. /\ Idle /\ UNCHANGED <<call, ret>>
        /\ \A i \in Inode : index'[i].kind = index[i].kind
        /\ \/ UNCHANGED index
           \/ \E i \in todo : \A j \in Inode \ {i} : index'[j] = index[j]
        /\ todo' \subseteq todo \/ \A i \in todo' : Regular(i)
    BY <1>1, <1>4, CommandKinds
  <2>2. FilesToVisit'
    <3>1. todo' \subseteq Inode
      BY <1>2 DEF DInv, SizesSound
    <3>. QED  BY <1>1, <2>1, <3>1 DEF FilesToVisit, Regular
  <2>3. \A i \in Inode : index[i].kind = "unused" => index'[i] = index[i]
    BY <1>1, <2>1 DEF FilesToVisit, Regular
  <2>4. Idle' /\ Inode' = Inode
    BY <2>1 DEF Idle, NoInode, Inode
  <2>5. UnusedEmpty'
    BY <1>1, <2>1, <2>3, <2>4 DEF UnusedEmpty
  <2>. QED  BY <1>2, <2>2, <2>5 DEF LInv
<1>5. CASE UNCHANGED defragVars
  BY <1>1, <1>2, <1>5 DEF defragVars, LInv, UnusedEmpty, Idle, NoInode, Inode,
     FilesToVisit, Regular
<1>. QED  BY <1>3, <1>4, <1>5

\* What a step of the allocator with the sizes of its files loses.
LEMMA FileLoss ==
  ASSUME LInv, ~DiskFaults, FileStep, ret' = "ok",
         ~\E i \in Inode : RemoveDirectory(i)
  PROVE  Leaked' \subseteq Leaked
<1>1. IInv /\ UnusedEmpty
  BY DEF LInv, DInv
<1>2. [Next]_vars
  BY FileStepNext
<1>3. CASE UNCHANGED vars
  BY <1>3 DEF vars, Leaked, LiveRoot, Reachable, Below, Targets, Inode, Reserved,
     Root, Slot
<1>4. CASE ~UNCHANGED vars
  BY <1>1, <1>2, <1>4, LossStep
<1>. QED  BY <1>3, <1>4

\* The form of LossesAccounted.
Accounted ==
  \/ Leaked' \subseteq Leaked
  \/ FileStep /\ (ret' # "ok" \/ \E i \in Inode : RemoveDirectory(i))
  \/ \E i \in Inode, bad \in Unread \ {{}} : Move(i, bad)
  \/ \E i \in Inode, fault \in Faults :
       /\ LoseBlocks(i, fault)
       /\ Cardinality(Leaked' \ Leaked) <= Cardinality(Blocks(count[i]))
       /\ \/ fault
          \/ Cardinality(Free) < count[i] + Cardinality(Blocks(count[i]))

LEMMA CommandLoss ==
  ASSUME DInv, DefragNext, ~FileStep
  PROVE  Accounted
<1>0. IInv /\ \A i \in Inode : count[i] \in Nat /\ count[i] <= Capacity
  <2>1. IInv /\ SizesSound
    BY DEF DInv
  <2>2. ASSUME NEW i \in Inode PROVE count[i] \in Nat /\ count[i] <= Capacity
    <3>1. /\ count[i] \in Nat /\ size[i] \in Nat
          /\ size[i] <= PointersPerCluster * Capacity
          /\ count[i] <= ClustersFor(size[i])
      BY <2>1 DEF SizesSound
    <3>2. ClustersFor(size[i]) <= Capacity /\ ClustersFor(size[i]) \in Nat
      BY <3>1, WholeCapacity, ClustersForBound, ClustersForType
    <3>. QED  BY <3>1, <3>2, WholeCapacity
  <2>. QED  BY <2>1, <2>2
<1>1. ASSUME Idle, UNCHANGED <<index, call>>
      PROVE  \A j \in Inode : LiveRoot(j)' = LiveRoot(j)
  BY <1>1 DEF LiveRoot
<1>2. ASSUME UNCHANGED <<used, index, call>>, Idle,
             \A c \in used : disk'[c] = disk[c] /\ level'[c] = level[c]
      PROVE  Accounted
  <2>1. used' = used \cup {}
    BY <1>2
  <2>2. Leaked' \ Leaked \subseteq {}
    BY <1>0, <1>1, <1>2, <2>1, LostTaken, Zenon
  <2>. QED  BY <2>2 DEF Accounted
<1>3. CASE StartDefrag
  BY <1>2, <1>3 DEF StartDefrag
<1>4. ASSUME NEW i \in Inode, Leave(i)
      PROVE  Accounted
  BY <1>2, <1>4 DEF Leave, Visit
<1>5. ASSUME NEW i \in Inode, StopCopying(i)
      PROVE  Accounted
  BY <1>0, <1>2, <1>5, StopCopyingStep
<1>6. ASSUME NEW i \in Inode, NEW fault \in Faults, LoseBlocks(i, fault)
      PROVE  Accounted
  <2>1. /\ Idle /\ UNCHANGED <<index, call, at, ret, size, count>>
        /\ \A c \in used : disk'[c] = disk[c] /\ level'[c] = level[c]
    BY <1>0, <1>6, LoseBlocksStep
  <2>2. PICK s \in Cluster, k \in 0 .. Cardinality(Blocks(count[i])),
             N \in SUBSET Free : Taking(i, fault, s, k, N)
    BY <1>0, <1>6, LoseBlocksMeans
  <2>3. used' = used \cup N
    BY <2>2 DEF Taking
  <2>4. Leaked' \ Leaked \subseteq N
    BY <1>0, <1>1, <2>1, <2>3, LostTaken
  <2>5. /\ IsFiniteSet(N)
        /\ Cardinality(N) <= Cardinality(Blocks(count[i]))
        /\ ~fault => Cardinality(Free) < count[i] + Cardinality(Blocks(count[i]))
    <3>1. IInv /\ count[i] \in Nat
      BY <1>0
    <3>2. FewTaken(i, fault, N)
      BY <2>2, <3>1, TakenCount
    <3>. QED  BY <3>2 DEF FewTaken
  <2>. DEFINE lost == Leaked' \ Leaked
              most == Cardinality(Blocks(count[i]))
  <2>6. IsFiniteSet(lost) /\ Cardinality(lost) <= Cardinality(N)
    BY <2>4, <2>5, FS_Subset
  <2>7. /\ Cardinality(lost) \in Nat /\ Cardinality(N) \in Nat
        /\ most \in Nat
    BY <1>0, <2>5, <2>6, FS_CardinalityType, BlocksFinite
  <2>8. Cardinality(lost) <= most
    <3>. HIDE DEF lost, most
    <3>1. Cardinality(N) <= most
      BY <2>5 DEF most
    <3>. QED  BY <2>6, <2>7, <3>1
  <2>. QED  BY <1>6, <2>5, <2>8 DEF Accounted
<1>7. ASSUME NEW i \in Inode, NEW bad \in Unread, Move(i, bad)
      PROVE  Accounted
  <2>1. CASE bad = {}
    <3>1. Idle /\ UNCHANGED call
          /\ \E start : Roomy(i, start) /\ Moved(i, start, {})
      BY <1>0, <1>7, <2>1, MoveAction
    <3>2. Leaked' \subseteq Leaked
      BY <1>0, <3>1, MoveLosesNothing
    <3>. QED  BY <3>2 DEF Accounted
  <2>2. CASE bad # {}
    BY <1>7, <2>2 DEF Accounted
  <2>. QED  BY <2>1, <2>2
<1>. QED  BY <1>3, <1>4, <1>5, <1>6, <1>7 DEF DefragNext

LEMMA AllAccounted ==
  ~DiskFaults /\ LInv /\ [DefragNext]_defragVars => [Accounted]_defragVars
<1>. SUFFICES ASSUME ~DiskFaults, LInv, DefragNext PROVE Accounted
  OBVIOUS
<1>1. CASE FileStep
  BY <1>1, FileLoss DEF Accounted
<1>2. CASE ~FileStep
  BY <1>2, CommandLoss DEF LInv
<1>. QED  BY <1>1, <1>2

\* As long as no disk access of a write or a truncation fails, clusters get
\* lost only with a write that found no space, with a directory that is
\* removed, and with a file that defrag could not move, then no more than its
\* pointer blocks, or moved without being able to read its old ones.
THEOREM DefragAccounted ==
  ASSUME ~DiskFaults
  PROVE  DefragSpec => LossesAccounted
<1>1. DefragInit => LInv
  BY LossInit
<1>2. LInv /\ [DefragNext]_defragVars => LInv'
  BY LossNext
<1>3. LInv /\ [DefragNext]_defragVars => [Accounted]_defragVars
  BY AllAccounted
<1>4. DefragSpec => [][Accounted]_defragVars
  BY <1>1, <1>2, <1>3, PTL DEF DefragSpec
<1>. QED  BY <1>4 DEF LossesAccounted, Accounted
================================================================================
