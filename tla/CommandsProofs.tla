----------------------------- MODULE CommandsProofs -----------------------------
(***************************************************************************)
(* Commands leave the names as sound as single calls do, wherever they     *)
(* stop: the tasks of a command are about paths that end in a name or as a *)
(* given path ends, and each task changes the names as one call may.       *)
(*                                                                         *)
(* Without links the names make a tree: a path leads along one chain of    *)
(* names, every call adds, removes or moves one place of the tree, and     *)
(* nothing in use is left without a name.                                  *)
(*                                                                         *)
(* Paths, and the lists that cp and rmdir read, are folds; what a fold is  *)
(* is shown once, by its last place.                                       *)
(***************************************************************************)
EXTENDS NamespaceProofs, Commands

--------------------------------------------------------------------------------
(* Folds.  What a step makes of the value so far and the next element is   *)
(* here a function h, of values in T and elements in D; FoldStep is what   *)
(* the fold over the elements at the places d is.                          *)

FoldOf(h, base, s) == FoldLeft(LAMBDA a, x : h[a, x], base, s)

FoldStep(h, base, s, g, d) ==
  IF d = {} THEN base ELSE h[g[d \ {Max(d)}], s[Max(d)]]

PlaceSets(s) == SUBSET DOMAIN s

Folding(D, T, base, h, s) == base \in T /\ h \in [T \X D -> T] /\ s \in Seq(D)

IsFold(h, base, s, g) == g = [d \in PlaceSets(s) |-> FoldStep(h, base, s, g, d)]

\* A set of places that is not empty has a last one, and fewer without it.
LEMMA LastPlace ==
  ASSUME NEW D, NEW s \in Seq(D), NEW d \in PlaceSets(s)
  PROVE  /\ IsFiniteSet(d) /\ Cardinality(d) \in Nat
         /\ d # {} => /\ Max(d) \in d /\ Max(d) \in 1 .. Len(s) /\ s[Max(d)] \in D
                      /\ d \ {Max(d)} \in PlaceSets(s)
                      /\ Cardinality(d \ {Max(d)}) = Cardinality(d) - 1
                      /\ \A k \in d : k <= Max(d)
<1>1. DOMAIN s = 1 .. Len(s) /\ Len(s) \in Nat /\ \A k \in 1 .. Len(s) : s[k] \in D
  OBVIOUS
<1>2. IsFiniteSet(1 .. Len(s))
  BY <1>1, FS_Interval
<1>3. d \subseteq 1 .. Len(s)
  BY <1>1 DEF PlaceSets
<1>4. IsFiniteSet(d) /\ Cardinality(d) \in Nat
  BY <1>2, <1>3, FS_Subset, FS_CardinalityType
<1>5. ASSUME d # {}
      PROVE  Max(d) \in d /\ \A k \in d : Max(d) >= k
  <2>1. d \in SUBSET Nat /\ \A k \in d : k <= Len(s)
    BY <1>1, <1>3
  <2>2. PICK m \in d : \A k \in d : k <= m
    BY <1>1, <1>5, <2>1, GreatestNatural
  <2>3. \A k \in d : m >= k
    BY <2>1, <2>2
  <2> QED  BY <2>3 DEF Max
<1>6. d # {} => Cardinality(d \ {Max(d)}) = Cardinality(d) - 1
  BY <1>4, <1>5, FS_RemoveElement
<1>7. d # {} => \A k \in d : k <= Max(d)
  BY <1>1, <1>3, <1>5
<1>8. d # {} => d \ {Max(d)} \in PlaceSets(s)
  BY DEF PlaceSets
<1> QED  BY <1>1, <1>3, <1>4, <1>5, <1>6, <1>7, <1>8

\* What holds of the empty set, and of a set if it holds of it without its
\* last place, holds of all.
LEMMA PlaceByPlace ==
  ASSUME NEW D, NEW s \in Seq(D), NEW T \in SUBSET PlaceSets(s), {} \in T,
         \A d \in PlaceSets(s) : d # {} /\ d \ {Max(d)} \in T => d \in T
  PROVE  T = PlaceSets(s)
<1> DEFINE Missing == {Cardinality(d) : d \in PlaceSets(s) \ T}
<1>1. SUFFICES ASSUME T # PlaceSets(s) PROVE FALSE
  OBVIOUS
<1>0. \A d \in PlaceSets(s) : Cardinality(d) \in Nat
  BY LastPlace
<1>2. Missing \in SUBSET Nat /\ Missing # {}
  BY <1>0, <1>1
<1>3. PICK n \in Missing : \A m \in Missing : n <= m
  BY <1>2, LeastNatural
<1>4. PICK d \in PlaceSets(s) \ T : n = Cardinality(d)
  OBVIOUS
<1>5. d # {} /\ d \ {Max(d)} \notin T
  BY <1>4
<1>6. /\ d \ {Max(d)} \in PlaceSets(s)
      /\ Cardinality(d \ {Max(d)}) = Cardinality(d) - 1
  BY <1>4, <1>5, LastPlace
<1>7. Cardinality(d \ {Max(d)}) \in Missing
  BY <1>5, <1>6
<1>8. n \in Nat /\ n <= Cardinality(d \ {Max(d)})
  BY <1>2, <1>3, <1>7
<1> HIDE DEF Missing
<1> QED  BY <1>4, <1>6, <1>8

\* There is a function of all sets of places that each step follows.
LEMMA FoldThere ==
  ASSUME NEW D, NEW T, NEW base, NEW h, NEW s, Folding(D, T, base, h, s)
  PROVE  \E g : IsFold(h, base, s, g) /\ \A d \in PlaceSets(s) : g[d] \in T
<1> USE DEF Folding
<1> DEFINE Upto(n) == {d \in PlaceSets(s) : Cardinality(d) <= n}
           Good(n) == \E g : /\ g = [d \in PlaceSets(s) |-> g[d]]
                             /\ \A d \in Upto(n) : g[d] = FoldStep(h, base, s, g, d)
           Bad == {n \in Nat : ~Good(n)}
<1>1. Good(0)
  <2> DEFINE g == [d \in PlaceSets(s) |-> base]
  <2>1. ASSUME NEW d \in Upto(0)
        PROVE  d = {}
    <3>1. IsFiniteSet(d) /\ Cardinality(d) \in Nat
      BY LastPlace
    <3>2. Cardinality(d) = 0
      BY <3>1
    <3> QED  BY <3>1, <3>2, FS_EmptySet
  <2>2. \A d \in Upto(0) : g[d] = FoldStep(h, base, s, g, d)
    BY <2>1 DEF FoldStep
  <2> QED  BY <2>2
<1>2. ASSUME NEW n \in Nat, Good(n)
      PROVE  Good(n + 1)
  <2>1. PICK g : /\ g = [d \in PlaceSets(s) |-> g[d]]
                 /\ \A d \in Upto(n) : g[d] = FoldStep(h, base, s, g, d)
    BY <1>2
  <2> DEFINE w == [d \in PlaceSets(s) |-> FoldStep(h, base, s, g, d)]
  <2>2. \A d \in Upto(n) : w[d] = g[d]
    BY <2>1
  <2>3. \A d \in Upto(n + 1) : d # {} => d \ {Max(d)} \in Upto(n)
    BY LastPlace
  <2> HIDE DEF w
  <2>4. ASSUME NEW d \in Upto(n + 1)
        PROVE  FoldStep(h, base, s, w, d) = FoldStep(h, base, s, g, d)
    <3>1. d # {} => w[d \ {Max(d)}] = g[d \ {Max(d)}]
      BY <2>2, <2>3
    <3> QED  BY <3>1, Zenon DEF FoldStep
  <2> USE DEF w
  <2> QED  BY <2>4
<1>3. \A n \in Nat : Good(n)
  <2> HIDE DEF Good
  <2>1. SUFFICES ASSUME Bad # {} PROVE FALSE
    OBVIOUS
  <2>2. PICK m \in Bad : \A k \in Bad : m <= k
    BY <2>1, LeastNatural
  <2>3. m # 0 /\ m - 1 \in Nat
    BY <1>1
  <2>4. Good(m - 1)
    BY <2>2, <2>3
  <2>5. Good(m)
    BY <1>2, <2>3, <2>4
  <2> QED  BY <2>5
<1>4. DOMAIN s \in PlaceSets(s) /\ Cardinality(DOMAIN s) \in Nat
  BY LastPlace DEF PlaceSets
<1>5. PICK g : /\ g = [d \in PlaceSets(s) |-> g[d]]
               /\ \A d \in Upto(Cardinality(DOMAIN s)) : g[d] = FoldStep(h, base, s, g, d)
  BY <1>3, <1>4
<1>6. \A d \in PlaceSets(s) : d \in Upto(Cardinality(DOMAIN s))
  <2>1. IsFiniteSet(DOMAIN s)
    BY <1>4, LastPlace
  <2> QED  BY <2>1, FS_Subset DEF PlaceSets
<1> HIDE DEF Upto, Good, Bad
<1>7. \A d \in PlaceSets(s) : g[d] = FoldStep(h, base, s, g, d)
  BY <1>5, <1>6
<1>8. g = [d \in PlaceSets(s) |-> FoldStep(h, base, s, g, d)]
  BY <1>5, <1>7
<1> DEFINE In == {d \in PlaceSets(s) : g[d] \in T}
<1>9. {} \in In
  <2>1. {} \in PlaceSets(s)
    BY DEF PlaceSets
  <2> QED  BY <1>7, <2>1 DEF FoldStep
<1>10. ASSUME NEW d \in PlaceSets(s), d # {}, d \ {Max(d)} \in In
       PROVE  d \in In
  <2>1. g[d] = h[g[d \ {Max(d)}], s[Max(d)]]
    BY <1>7, <1>10 DEF FoldStep
  <2>2. s[Max(d)] \in D /\ g[d \ {Max(d)}] \in T
    BY <1>10, LastPlace
  <2> QED  BY <2>1, <2>2
<1>11. In = PlaceSets(s)
  <2> HIDE DEF In
  <2>1. In \in SUBSET PlaceSets(s)
    BY DEF In
  <2> QED  BY <1>9, <1>10, <2>1, PlaceByPlace
<1> QED  BY <1>8, <1>11 DEF IsFold

\* A function that takes the steps of the fold.
Follows(T, h, base, s, v) ==
  \A d \in PlaceSets(s) :
     /\ d = {} => v[d] = base
     /\ d # {} /\ v[d \ {Max(d)}] \in T => v[d] = h[v[d \ {Max(d)}], s[Max(d)]]

\* The function of the fold follows the steps.
LEMMA FoldFollowed ==
  ASSUME NEW D, NEW T, NEW base, NEW h, NEW s, Folding(D, T, base, h, s),
         NEW v, IsFold(h, base, s, v)
  PROVE  Follows(T, h, base, s, v)
<1>1. \A d \in PlaceSets(s) : v[d] = FoldStep(h, base, s, v, d)
  BY DEF IsFold
<1> QED  BY <1>1 DEF Follows, FoldStep

\* Two functions that follow the same steps are the same.
LEMMA FoldsMeet ==
  ASSUME NEW D, NEW T, NEW base, NEW h, NEW s, Folding(D, T, base, h, s),
         NEW v, Follows(T, h, base, s, v), NEW w, Follows(T, h, base, s, w)
  PROVE  \A d \in PlaceSets(s) : v[d] \in T /\ v[d] = w[d]
<1> USE DEF Folding
<1> DEFINE Same == {d \in PlaceSets(s) : v[d] \in T /\ v[d] = w[d]}
<1>1. {} \in Same
  <2>1. {} \in PlaceSets(s)
    BY DEF PlaceSets
  <2> QED  BY <2>1 DEF Follows
<1>2. ASSUME NEW d \in PlaceSets(s), d # {}, d \ {Max(d)} \in Same
      PROVE  d \in Same
  <2>1. s[Max(d)] \in D
    BY <1>2, LastPlace
  <2>2. /\ v[d \ {Max(d)}] \in T /\ v[d \ {Max(d)}] = w[d \ {Max(d)}]
    BY <1>2
  <2>3. v[d] = h[v[d \ {Max(d)}], s[Max(d)]] /\ w[d] = h[w[d \ {Max(d)}], s[Max(d)]]
    BY <1>2, <2>2 DEF Follows
  <2> QED  BY <2>1, <2>2, <2>3
<1>3. Same = PlaceSets(s)
  <2> HIDE DEF Same
  <2>1. Same \in SUBSET PlaceSets(s)
    BY DEF Same
  <2> QED  BY <1>1, <1>2, <2>1, PlaceByPlace
<1> QED  BY <1>3

\* The fold is what any function that follows its steps is at all places.
LEMMA FoldValue ==
  ASSUME NEW D, NEW T, NEW base, NEW h, NEW s, Folding(D, T, base, h, s),
         NEW v, Follows(T, h, base, s, v)
  PROVE  v[DOMAIN s] = FoldOf(h, base, s) /\ v[DOMAIN s] \in T
<1> DEFINE w == CHOOSE g : g = [d \in SUBSET DOMAIN s |-> FoldStep(h, base, s, g, d)]
<1>1. FoldOf(h, base, s) = w[DOMAIN s]
  BY Zenon DEF FoldOf, FoldLeft, MapThenFoldSet, FoldStep
<1>2. IsFold(h, base, s, w)
  <2>1. PICK g : IsFold(h, base, s, g)
    BY FoldThere
  <2>2. g = [d \in SUBSET DOMAIN s |-> FoldStep(h, base, s, g, d)]
    BY <2>1 DEF IsFold, PlaceSets
  <2> QED  BY <2>2 DEF IsFold, PlaceSets
<1> HIDE DEF w
<1>3. Follows(T, h, base, s, w)
  BY <1>2, FoldFollowed
<1>4. DOMAIN s \in PlaceSets(s)
  BY DEF PlaceSets
<1> QED  BY <1>1, <1>3, <1>4, FoldsMeet

\* Nothing is folded to the base.
LEMMA FoldEmpty ==
  ASSUME NEW D, NEW T, NEW base, NEW h, Folding(D, T, base, h, << >>)
  PROVE  FoldOf(h, base, << >>) = base
<1>1. DOMAIN << >> = {}
  OBVIOUS
<1>2. PICK g : IsFold(h, base, << >>, g)
  BY FoldThere
<1>3. Follows(T, h, base, << >>, g)
  BY <1>1, <1>2, FoldFollowed
<1>4. g[DOMAIN << >>] = FoldOf(h, base, << >>)
  BY <1>1, <1>3, FoldValue
<1>5. {} \in PlaceSets(<< >>)
  BY DEF PlaceSets
<1>6. g[{}] = base
  BY <1>3, <1>5 DEF Follows
<1> QED  BY <1>1, <1>4, <1>6

\* One more element is one more step.
FoldGoesOn(h, base, s, x) ==
  FoldOf(h, base, Append(s, x)) = h[FoldOf(h, base, s), x]

LEMMA FoldAppend ==
  ASSUME NEW D, NEW T, NEW base, NEW h, NEW s, Folding(D, T, base, h, s),
         NEW x \in D
  PROVE  FoldGoesOn(h, base, s, x)
<1> DEFINE t == Append(s, x)
           n == Len(s)
<1>1. /\ Folding(D, T, base, h, t) /\ n \in Nat /\ DOMAIN t = 1 .. n + 1 /\ DOMAIN s = 1 .. n
      /\ t[n + 1] = x /\ \A k \in 1 .. n : t[k] = s[k]
  BY DEF Folding
<1> HIDE DEF t, n
<1>2. PICK g : IsFold(h, base, t, g)
  BY <1>1, FoldThere
<1>3. Follows(T, h, base, t, g)
  BY <1>1, <1>2, FoldFollowed
<1>4. Follows(T, h, base, s, g)
  <2>1. ASSUME NEW d \in PlaceSets(s), d # {}
        PROVE  t[Max(d)] = s[Max(d)]
    <3>1. Max(d) \in 1 .. n
      BY <2>1, LastPlace DEF n, Folding
    <3> QED  BY <1>1, <3>1
  <2>2. PlaceSets(s) \subseteq PlaceSets(t)
    BY <1>1 DEF PlaceSets
  <2> QED  BY <1>3, <2>1, <2>2 DEF Follows
<1>5. g[1 .. n] = FoldOf(h, base, s) /\ g[1 .. n] \in T
  BY <1>1, <1>4, FoldValue
<1>6. g[1 .. n + 1] = FoldOf(h, base, t)
  BY <1>1, <1>3, FoldValue
<1>7. DOMAIN t \in PlaceSets(t) /\ DOMAIN t # {}
  BY <1>1 DEF PlaceSets
<1>8. Max(DOMAIN t) = n + 1
  <2>1. Max(DOMAIN t) \in 1 .. n + 1 /\ \A k \in 1 .. n + 1 : k <= Max(DOMAIN t)
    BY <1>1, <1>7, LastPlace DEF Folding
  <2>2. n + 1 <= Max(DOMAIN t)
    BY <1>1, <2>1
  <2> QED  BY <1>1, <2>1, <2>2
<1>9. DOMAIN t \ {n + 1} = 1 .. n
  BY <1>1
<1>10. g[DOMAIN t] = h[g[1 .. n], x]
  BY <1>1, <1>3, <1>5, <1>7, <1>8, <1>9 DEF Follows
<1> QED  BY <1>1, <1>5, <1>6, <1>10 DEF t, FoldGoesOn

\* What steps do not leave, the fold does not leave.
LEMMA FoldType ==
  ASSUME NEW D, NEW T, NEW base, NEW h, NEW s, Folding(D, T, base, h, s)
  PROVE  FoldOf(h, base, s) \in T
<1>1. PICK g : IsFold(h, base, s, g)
  BY FoldThere
<1>2. Follows(T, h, base, s, g)
  BY <1>1, FoldFollowed
<1>3. g[DOMAIN s] = FoldOf(h, base, s) /\ g[DOMAIN s] \in T
  BY <1>2, FoldValue
<1> QED  BY <1>3

KeepStep == [p \in Seq(Names) \X Components |-> KeepComponent(p[1], p[2])]

\* The normal form of a path is a fold of names.
LEMMA NormalizeFolds ==
  ASSUME NEW path \in Seq(Components)
  PROVE  /\ Folding(Components, Seq(Names), << >>, KeepStep, path)
         /\ NormalizeFsPath(path) = FoldOf(KeepStep, << >>, path)
<1> DEFINE one(g, d) == IF d = {} THEN << >>
                        ELSE LET a == g[d \ {Max(d)}]
                                 x == path[Max(d)]
                             IN  KeepComponent(a, x)
           w == CHOOSE g : g = [d \in SUBSET DOMAIN path |-> one(g, d)]
<1>1. ASSUME NEW a \in Seq(Names), NEW x \in Components
      PROVE  /\ KeepComponent(a, x) \in Seq(Names)
             /\ KeepStep[a, x] = KeepComponent(a, x)
  <2>1. KeepComponent(a, x) \in Seq(Names)
    BY DEF KeepComponent, Front, Components, Dot, DotDot
  <2> QED  BY <2>1 DEF KeepStep
<1>2. Folding(Components, Seq(Names), << >>, KeepStep, path)
  <2>1. \A p \in Seq(Names) \X Components : p[1] \in Seq(Names) /\ p[2] \in Components
    OBVIOUS
  <2>2. KeepStep \in [Seq(Names) \X Components -> Seq(Names)]
    BY <1>1, <2>1 DEF KeepStep
  <2> QED  BY <2>2 DEF Folding
<1>3. PICK g : /\ IsFold(KeepStep, << >>, path, g)
               /\ \A d \in PlaceSets(path) : g[d] \in Seq(Names)
  BY <1>2, FoldThere
<1>4. ASSUME NEW d \in PlaceSets(path), d # {}
      PROVE  path[Max(d)] \in Components /\ d \ {Max(d)} \in PlaceSets(path)
  BY <1>4, LastPlace
<1>5. ASSUME NEW d \in PlaceSets(path)
      PROVE  FoldStep(KeepStep, << >>, path, g, d) = one(g, d)
  <2>1. CASE d = {}
    BY <2>1 DEF FoldStep
  <2>2. CASE d # {}
    <3>1. path[Max(d)] \in Components /\ g[d \ {Max(d)}] \in Seq(Names)
      BY <1>3, <1>4, <2>2
    <3>2. KeepStep[g[d \ {Max(d)}], path[Max(d)]] = one(g, d)
      BY <1>1, <2>2, <3>1
    <3> QED  BY <2>2, <3>2, Zenon DEF FoldStep
  <2> QED  BY <2>1, <2>2
<1>6. NormalizeFsPath(path) = w[DOMAIN path]
  BY Zenon DEF NormalizeFsPath, FoldLeft, MapThenFoldSet
<1>7. w = [d \in SUBSET DOMAIN path |-> one(w, d)]
  <2> HIDE DEF one
  <2>1. g = [d \in SUBSET DOMAIN path |-> one(g, d)]
    BY <1>3, <1>5 DEF IsFold, PlaceSets
  <2> QED  BY <2>1
<1>8. ASSUME NEW d \in PlaceSets(path)
      PROVE  w[d] = one(w, d)
  <2> HIDE DEF w, one
  <2> QED  BY <1>7 DEF PlaceSets
<1> HIDE DEF w
<1>9. Follows(Seq(Names), KeepStep, << >>, path, w)
  <2>1. ASSUME NEW d \in PlaceSets(path), d = {}
        PROVE  w[d] = << >>
    BY <1>8, <2>1
  <2>2. ASSUME NEW d \in PlaceSets(path), d # {}, w[d \ {Max(d)}] \in Seq(Names)
        PROVE  w[d] = KeepStep[w[d \ {Max(d)}], path[Max(d)]]
    BY <1>1, <1>4, <1>8, <2>2
  <2> QED  BY <2>1, <2>2 DEF Follows
<1> QED  BY <1>2, <1>6, <1>9, FoldValue

Symbol == Components \cup {Slash}

\* The slash is no component.
LEMMA SlashIsNone == Slash \notin Components
BY DirectoriesAssumption DEF Slash, Components, Dot, DotDot

TextStep == [p \in Seq(Symbol) \X Components |-> (p[1] \o <<Slash, p[2]>>)]

\* The text of a path is a fold of symbols.
LEMMA TextFolds ==
  ASSUME NEW path \in Seq(Components)
  PROVE  /\ Folding(Components, Seq(Symbol), << >>, TextStep, path)
         /\ TextOf(path) = FoldOf(TextStep, << >>, path)
<1> DEFINE one(g, d) == IF d = {} THEN << >>
                        ELSE LET a == g[d \ {Max(d)}]
                                 x == path[Max(d)]
                             IN  (a \o <<Slash, x>>)
           w == CHOOSE g : g = [d \in SUBSET DOMAIN path |-> one(g, d)]
<1>1. ASSUME NEW a \in Seq(Symbol), NEW x \in Components
      PROVE  /\ (a \o <<Slash, x>>) \in Seq(Symbol)
             /\ TextStep[a, x] = (a \o <<Slash, x>>)
  <2>1. a \o <<Slash, x>> \in Seq(Symbol)
    BY DEF Symbol
  <2> QED  BY <2>1 DEF TextStep
<1>2. Folding(Components, Seq(Symbol), << >>, TextStep, path)
  <2>1. \A p \in Seq(Symbol) \X Components : p[1] \in Seq(Symbol) /\ p[2] \in Components
    OBVIOUS
  <2>2. TextStep \in [Seq(Symbol) \X Components -> Seq(Symbol)]
    BY <1>1, <2>1 DEF TextStep
  <2> QED  BY <2>2 DEF Folding
<1>3. PICK g : /\ IsFold(TextStep, << >>, path, g)
               /\ \A d \in PlaceSets(path) : g[d] \in Seq(Symbol)
  BY <1>2, FoldThere
<1>4. ASSUME NEW d \in PlaceSets(path), d # {}
      PROVE  path[Max(d)] \in Components /\ d \ {Max(d)} \in PlaceSets(path)
  BY <1>4, LastPlace
<1>5. ASSUME NEW d \in PlaceSets(path)
      PROVE  FoldStep(TextStep, << >>, path, g, d) = one(g, d)
  <2>1. CASE d = {}
    BY <2>1 DEF FoldStep
  <2>2. CASE d # {}
    <3>1. path[Max(d)] \in Components /\ g[d \ {Max(d)}] \in Seq(Symbol)
      BY <1>3, <1>4, <2>2
    <3>2. TextStep[g[d \ {Max(d)}], path[Max(d)]] = one(g, d)
      BY <1>1, <2>2, <3>1
    <3> QED  BY <2>2, <3>2, Zenon DEF FoldStep
  <2> QED  BY <2>1, <2>2
<1>6. TextOf(path) = w[DOMAIN path]
  BY Zenon DEF TextOf, FoldLeft, MapThenFoldSet
<1>7. w = [d \in SUBSET DOMAIN path |-> one(w, d)]
  <2> HIDE DEF one
  <2>1. g = [d \in SUBSET DOMAIN path |-> one(g, d)]
    BY <1>3, <1>5 DEF IsFold, PlaceSets
  <2> QED  BY <2>1
<1>8. ASSUME NEW d \in PlaceSets(path)
      PROVE  w[d] = one(w, d)
  <2> HIDE DEF w, one
  <2> QED  BY <1>7 DEF PlaceSets
<1> HIDE DEF w
<1>9. Follows(Seq(Symbol), TextStep, << >>, path, w)
  <2>1. ASSUME NEW d \in PlaceSets(path), d = {}
        PROVE  w[d] = << >>
    BY <1>8, <2>1
  <2>2. ASSUME NEW d \in PlaceSets(path), d # {}, w[d \ {Max(d)}] \in Seq(Symbol)
        PROVE  w[d] = TextStep[w[d \ {Max(d)}], path[Max(d)]]
    BY <1>1, <1>4, <1>8, <2>2
  <2> QED  BY <2>1, <2>2 DEF Follows
<1> QED  BY <1>2, <1>6, <1>9, FoldValue

CopyStep == [p \in Seq(Symbol) \X Symbol |-> CopyComponent(p[1], p[2])]

\* The text without its dots is a fold.
LEMMA CopyFolds ==
  ASSUME NEW text \in Seq(Symbol)
  PROVE  /\ Folding(Symbol, Seq(Symbol), << >>, CopyStep, text)
         /\ FoldLeft(CopyComponent, << >>, text) = FoldOf(CopyStep, << >>, text)
<1> DEFINE one(g, d) == IF d = {} THEN << >>
                        ELSE LET a == g[d \ {Max(d)}]
                                 x == text[Max(d)]
                             IN  CopyComponent(a, x)
           w == CHOOSE g : g = [d \in SUBSET DOMAIN text |-> one(g, d)]
<1>1. ASSUME NEW a \in Seq(Symbol), NEW x \in Symbol
      PROVE  /\ CopyComponent(a, x) \in Seq(Symbol)
             /\ CopyStep[a, x] = CopyComponent(a, x)
  <2>1. CASE x = DotDot /\ Len(a) > 1
    <3>1. Front(a) \in Seq(Symbol)
      BY DEF Front
    <3>2. Front(a) # << >> => Front(Front(a)) \in Seq(Symbol)
      BY <3>1 DEF Front
    <3> HIDE DEF Front
    <3>3. CopyComponent(a, x)
            = IF Front(a) # << >> /\ Last(Front(a)) # Slash
              THEN Front(Front(a)) ELSE Front(a)
      BY <2>1 DEF CopyComponent, Dot, DotDot
    <3>4. CopyComponent(a, x) \in Seq(Symbol)
      BY <3>1, <3>2, <3>3
    <3> QED  BY <3>4 DEF CopyStep
  <2>2. CASE ~(x = DotDot /\ Len(a) > 1)
    <3>1. CopyComponent(a, x) \in {a, Append(a, x)}
      BY <2>2 DEF CopyComponent, Dot, DotDot
    <3>2. CopyComponent(a, x) \in Seq(Symbol)
      BY <3>1
    <3> QED  BY <3>2 DEF CopyStep
  <2> QED  BY <2>1, <2>2
<1>2. Folding(Symbol, Seq(Symbol), << >>, CopyStep, text)
  <2>1. \A p \in Seq(Symbol) \X Symbol : p[1] \in Seq(Symbol) /\ p[2] \in Symbol
    OBVIOUS
  <2>2. CopyStep \in [Seq(Symbol) \X Symbol -> Seq(Symbol)]
    BY <1>1, <2>1 DEF CopyStep
  <2> QED  BY <2>2 DEF Folding
<1>3. PICK g : /\ IsFold(CopyStep, << >>, text, g)
               /\ \A d \in PlaceSets(text) : g[d] \in Seq(Symbol)
  BY <1>2, FoldThere
<1>4. ASSUME NEW d \in PlaceSets(text), d # {}
      PROVE  text[Max(d)] \in Symbol /\ d \ {Max(d)} \in PlaceSets(text)
  BY <1>4, LastPlace
<1>5. ASSUME NEW d \in PlaceSets(text)
      PROVE  FoldStep(CopyStep, << >>, text, g, d) = one(g, d)
  <2>1. CASE d = {}
    BY <2>1 DEF FoldStep
  <2>2. CASE d # {}
    <3>1. text[Max(d)] \in Symbol /\ g[d \ {Max(d)}] \in Seq(Symbol)
      BY <1>3, <1>4, <2>2
    <3>2. CopyStep[g[d \ {Max(d)}], text[Max(d)]] = one(g, d)
      BY <1>1, <2>2, <3>1
    <3> QED  BY <2>2, <3>2, Zenon DEF FoldStep
  <2> QED  BY <2>1, <2>2
<1>6. FoldLeft(CopyComponent, << >>, text) = w[DOMAIN text]
  BY Zenon DEF FoldLeft, MapThenFoldSet
<1>7. w = [d \in SUBSET DOMAIN text |-> one(w, d)]
  <2> HIDE DEF one
  <2>1. g = [d \in SUBSET DOMAIN text |-> one(g, d)]
    BY <1>3, <1>5 DEF IsFold, PlaceSets
  <2> QED  BY <2>1
<1>8. ASSUME NEW d \in PlaceSets(text)
      PROVE  w[d] = one(w, d)
  <2> HIDE DEF w, one
  <2> QED  BY <1>7 DEF PlaceSets
<1> HIDE DEF w
<1>9. Follows(Seq(Symbol), CopyStep, << >>, text, w)
  <2>1. ASSUME NEW d \in PlaceSets(text), d = {}
        PROVE  w[d] = << >>
    BY <1>8, <2>1
  <2>2. ASSUME NEW d \in PlaceSets(text), d # {}, w[d \ {Max(d)}] \in Seq(Symbol)
        PROVE  w[d] = CopyStep[w[d \ {Max(d)}], text[Max(d)]]
    BY <1>1, <1>4, <1>8, <2>2
  <2> QED  BY <2>1, <2>2 DEF Follows
<1> QED  BY <1>2, <1>6, <1>9, FoldValue

WordStep == [p \in Seq(Components) \X Symbol |-> (IF p[2] = Slash THEN p[1] ELSE Append(p[1], p[2]))]

\* The words of a text are a fold of components.
LEMMA WordsFold ==
  ASSUME NEW text \in Seq(Symbol)
  PROVE  /\ Folding(Symbol, Seq(Components), << >>, WordStep, text)
         /\ WordsOf(text) = FoldOf(WordStep, << >>, text)
<1> DEFINE one(g, d) == IF d = {} THEN << >>
                        ELSE LET a == g[d \ {Max(d)}]
                                 x == text[Max(d)]
                             IN  (IF x = Slash THEN a ELSE Append(a, x))
           w == CHOOSE g : g = [d \in SUBSET DOMAIN text |-> one(g, d)]
<1>1. ASSUME NEW a \in Seq(Components), NEW x \in Symbol
      PROVE  /\ (IF x = Slash THEN a ELSE Append(a, x)) \in Seq(Components)
             /\ WordStep[a, x] = (IF x = Slash THEN a ELSE Append(a, x))
  <2>1. (IF x = Slash THEN a ELSE Append(a, x)) \in Seq(Components)
    BY DEF Symbol
  <2> QED  BY <2>1 DEF WordStep
<1>2. Folding(Symbol, Seq(Components), << >>, WordStep, text)
  <2>1. \A p \in Seq(Components) \X Symbol : p[1] \in Seq(Components) /\ p[2] \in Symbol
    OBVIOUS
  <2>2. WordStep \in [Seq(Components) \X Symbol -> Seq(Components)]
    BY <1>1, <2>1 DEF WordStep
  <2> QED  BY <2>2 DEF Folding
<1>3. PICK g : /\ IsFold(WordStep, << >>, text, g)
               /\ \A d \in PlaceSets(text) : g[d] \in Seq(Components)
  BY <1>2, FoldThere
<1>4. ASSUME NEW d \in PlaceSets(text), d # {}
      PROVE  text[Max(d)] \in Symbol /\ d \ {Max(d)} \in PlaceSets(text)
  BY <1>4, LastPlace
<1>5. ASSUME NEW d \in PlaceSets(text)
      PROVE  FoldStep(WordStep, << >>, text, g, d) = one(g, d)
  <2>1. CASE d = {}
    BY <2>1 DEF FoldStep
  <2>2. CASE d # {}
    <3>1. text[Max(d)] \in Symbol /\ g[d \ {Max(d)}] \in Seq(Components)
      BY <1>3, <1>4, <2>2
    <3>2. WordStep[g[d \ {Max(d)}], text[Max(d)]] = one(g, d)
      BY <1>1, <2>2, <3>1
    <3> QED  BY <2>2, <3>2, Zenon DEF FoldStep
  <2> QED  BY <2>1, <2>2
<1>6. WordsOf(text) = w[DOMAIN text]
  BY Zenon DEF WordsOf, FoldLeft, MapThenFoldSet
<1>7. w = [d \in SUBSET DOMAIN text |-> one(w, d)]
  <2> HIDE DEF one
  <2>1. g = [d \in SUBSET DOMAIN text |-> one(g, d)]
    BY <1>3, <1>5 DEF IsFold, PlaceSets
  <2> QED  BY <2>1
<1>8. ASSUME NEW d \in PlaceSets(text)
      PROVE  w[d] = one(w, d)
  <2> HIDE DEF w, one
  <2> QED  BY <1>7 DEF PlaceSets
<1> HIDE DEF w
<1>9. Follows(Seq(Components), WordStep, << >>, text, w)
  <2>1. ASSUME NEW d \in PlaceSets(text), d = {}
        PROVE  w[d] = << >>
    BY <1>8, <2>1
  <2>2. ASSUME NEW d \in PlaceSets(text), d # {}, w[d \ {Max(d)}] \in Seq(Components)
        PROVE  w[d] = WordStep[w[d \ {Max(d)}], text[Max(d)]]
    BY <1>1, <1>4, <1>8, <2>2
  <2> QED  BY <2>1, <2>2 DEF Follows
<1> QED  BY <1>2, <1>6, <1>9, FoldValue

\* Entries as they may be in a list, and those that have a name.
FitEntry == {e \in Entry : Fits(e)}
NamedEntry == {e \in Entry : e.name \in Names /\ e.inode # Root}

ListedStep == [p \in Seq(NamedEntry) \X FitEntry |->
                 (IF p[2].name > DotDot THEN Append(p[1], p[2]) ELSE p[1])]

\* The list without its dots is a fold of entries that have names.
LEMMA ListedFolds ==
  ASSUME NEW entries \in Seq(FitEntry)
  PROVE  /\ Folding(FitEntry, Seq(NamedEntry), << >>, ListedStep, entries)
         /\ WithoutDots(entries) = FoldOf(ListedStep, << >>, entries)
<1> DEFINE one(g, d) == IF d = {} THEN << >>
                        ELSE LET a == g[d \ {Max(d)}]
                                 x == entries[Max(d)]
                             IN  (IF x.name > DotDot THEN Append(a, x) ELSE a)
           w == CHOOSE g : g = [d \in SUBSET DOMAIN entries |-> one(g, d)]
<1>1. ASSUME NEW a \in Seq(NamedEntry), NEW x \in FitEntry
      PROVE  /\ (IF x.name > DotDot THEN Append(a, x) ELSE a) \in Seq(NamedEntry)
             /\ ListedStep[a, x] = (IF x.name > DotDot THEN Append(a, x) ELSE a)
  <2>1. x.name > DotDot => x \in NamedEntry
    BY DirectoriesAssumption DEF FitEntry, NamedEntry, Fits, Entry, Components, Dot, DotDot
  <2>2. (IF x.name > DotDot THEN Append(a, x) ELSE a) \in Seq(NamedEntry)
    BY <2>1
  <2> QED  BY <2>2 DEF ListedStep
<1>2. Folding(FitEntry, Seq(NamedEntry), << >>, ListedStep, entries)
  <2>1. \A p \in Seq(NamedEntry) \X FitEntry : p[1] \in Seq(NamedEntry) /\ p[2] \in FitEntry
    OBVIOUS
  <2>2. ListedStep \in [Seq(NamedEntry) \X FitEntry -> Seq(NamedEntry)]
    BY <1>1, <2>1 DEF ListedStep
  <2> QED  BY <2>2 DEF Folding
<1>3. PICK g : /\ IsFold(ListedStep, << >>, entries, g)
               /\ \A d \in PlaceSets(entries) : g[d] \in Seq(NamedEntry)
  BY <1>2, FoldThere
<1>4. ASSUME NEW d \in PlaceSets(entries), d # {}
      PROVE  entries[Max(d)] \in FitEntry /\ d \ {Max(d)} \in PlaceSets(entries)
  BY <1>4, LastPlace
<1>5. ASSUME NEW d \in PlaceSets(entries)
      PROVE  FoldStep(ListedStep, << >>, entries, g, d) = one(g, d)
  <2>1. CASE d = {}
    BY <2>1 DEF FoldStep
  <2>2. CASE d # {}
    <3>1. entries[Max(d)] \in FitEntry /\ g[d \ {Max(d)}] \in Seq(NamedEntry)
      BY <1>3, <1>4, <2>2
    <3>2. ListedStep[g[d \ {Max(d)}], entries[Max(d)]] = one(g, d)
      BY <1>1, <2>2, <3>1
    <3> QED  BY <2>2, <3>2, Zenon DEF FoldStep
  <2> QED  BY <2>1, <2>2
<1>6. WithoutDots(entries) = w[DOMAIN entries]
  BY Zenon DEF WithoutDots, FoldLeft, MapThenFoldSet
<1>7. w = [d \in SUBSET DOMAIN entries |-> one(w, d)]
  <2> HIDE DEF one
  <2>1. g = [d \in SUBSET DOMAIN entries |-> one(g, d)]
    BY <1>3, <1>5 DEF IsFold, PlaceSets
  <2> QED  BY <2>1
<1>8. ASSUME NEW d \in PlaceSets(entries)
      PROVE  w[d] = one(w, d)
  <2> HIDE DEF w, one
  <2> QED  BY <1>7 DEF PlaceSets
<1> HIDE DEF w
<1>9. Follows(Seq(NamedEntry), ListedStep, << >>, entries, w)
  <2>1. ASSUME NEW d \in PlaceSets(entries), d = {}
        PROVE  w[d] = << >>
    BY <1>8, <2>1
  <2>2. ASSUME NEW d \in PlaceSets(entries), d # {}, w[d \ {Max(d)}] \in Seq(NamedEntry)
        PROVE  w[d] = ListedStep[w[d \ {Max(d)}], entries[Max(d)]]
    BY <1>1, <1>4, <1>8, <2>2
  <2> QED  BY <2>1, <2>2 DEF Follows
<1> QED  BY <1>2, <1>6, <1>9, FoldValue

\* The normal form of a path has only names.
LEMMA Normalized ==
  ASSUME NEW path \in Seq(Components)
  PROVE  NormalizeFsPath(path) \in Seq(Names)
BY NormalizeFolds, FoldType

\* What is left of a list of entries are names, none of them the root's.
LEMMA ListedNames ==
  ASSUME NEW entries, EntryList(entries)
  PROVE  WithoutDots(entries) \in Seq(NamedEntry)
<1>1. entries \in Seq(Entry) /\ \A k \in 1 .. Len(entries) : Fits(entries[k])
  BY ListElements
<1>2. entries \in Seq(FitEntry)
  BY <1>1 DEF FitEntry
<1> QED  BY <1>2, ListedFolds, FoldType

\* The empty path leads to the root.
LEMMA NoComponents == RelativeComponents(<< >>) = << >>
<1>1. << >> \in Seq(Components) /\ << >> \in Seq(Symbol)
  OBVIOUS
<1>2. TextOf(<< >>) = << >>
  BY <1>1, TextFolds, FoldEmpty
<1>3. FoldLeft(CopyComponent, << >>, << >>) = << >>
  BY <1>1, CopyFolds, FoldEmpty
<1>4. WordsOf(<< >>) = << >>
  BY <1>1, WordsFold, FoldEmpty
<1> QED  BY <1>2, <1>3, <1>4 DEF RelativeComponents

\* So does the walk that starts with nothing.
LEMMA RootResolved ==
  ASSUME NEW f
  PROVE  ResolvePath(f, << >>) = Root
<1> DEFINE empty == << >>
           w == WalkStart(empty)
<1>1. empty \in Seq(Components) /\ Steps(empty) \in Nat
  <2>1. MaxLinks * MaxTarget \in Nat
    BY PathsAssumption
  <2> QED  BY <2>1 DEF Steps
<1>2. PICK g : /\ \A n \in 0 .. Steps(empty) : g[n] = Step(g, f, empty, n)
               /\ ResolvePath(f, empty) = IF g[Steps(empty)].ok
                                             /\ g[Steps(empty)].links < MaxLinks
                                          THEN g[Steps(empty)].at ELSE NoInode
  BY <1>1, Walked
<1>3. /\ w.rest = << >> /\ w.ok = TRUE /\ w.links = 0 /\ w.at = Root
  BY NoComponents DEF WalkStart
<1> HIDE DEF empty, w
<1>4. Advance(f, w) = w
  BY <1>3 DEF Advance
<1> DEFINE Bad == {n \in 0 .. Steps(empty) : g[n] # w}
<1>5. Bad = {}
  <2>1. SUFFICES ASSUME Bad # {} PROVE FALSE
    OBVIOUS
  <2>2. Bad \in SUBSET Nat
    BY <1>1
  <2>3. PICK m \in Bad : \A k \in Bad : m <= k
    BY <2>1, <2>2, LeastNatural
  <2>4. m # 0
    BY <1>2, <2>3 DEF Step, w
  <2>5. m - 1 \in 0 .. Steps(empty) /\ ~(m <= m - 1)
    BY <1>1, <2>3, <2>4
  <2>6. g[m - 1] = w
    BY <2>3, <2>5
  <2>7. g[m] = Advance(f, g[m - 1])
    BY <1>2, <2>3, <2>4, Zenon DEF Step
  <2> QED  BY <1>4, <2>3, <2>6, <2>7
<1>6. g[Steps(empty)] = w
  BY <1>1, <1>5
<1>7. MaxLinks \in Nat /\ MaxLinks > 0
  BY PathsAssumption
<1> QED  BY <1>2, <1>3, <1>6, <1>7 DEF empty

--------------------------------------------------------------------------------
(* What the tasks of a command are. *)

PathTask == [do : {"make", "create", "touch", "echo", "import", "pack"},
             path : ProperPath]
CopyTask == [do : {"copy", "list", "fill", "report"},
             from : ProperPath, to : ProperPath]
LinkTask == [do : {"link"}, target : Targets, to : ProperPath]
MoveTask == [do : {"move"}, from : ProperPath, to : ProperPath,
             directory : BOOLEAN]
DropTask == [do : {"drop", "free"}, dir : Inodes \cup {NoInode},
             name : Components, inode : Inodes \ {Root},
             path : ProperPath \cup {<< >>}]

DropTasks == IF "rmdir" \in Commands THEN DropTask ELSE {}
Task == PathTask \cup CopyTask \cup LinkTask \cup MoveTask \cup DropTasks

CInv == IInv /\ work \in Seq(Task)

\* What a task is about tells its fields.
LEMMA TaskKinds ==
  ASSUME NEW task \in Task
  PROVE  /\ task.do \in {"make", "create", "touch", "echo", "import", "pack"}
               => task \in PathTask
         /\ task.do \in {"copy", "list", "fill", "report"} => task \in CopyTask
         /\ task.do = "link" => task \in LinkTask
         /\ task.do = "move" => task \in MoveTask
         /\ task.do \in {"drop", "free"} =>
               "rmdir" \in Commands /\ task \in DropTask
BY DEF Task, DropTasks, PathTask, CopyTask, LinkTask, MoveTask, DropTask

LEMMA NamesAreEnds == Names \subseteq Ends /\ Names \subseteq Components
BY DEF Ends, Components

\* A name put behind a path.
LEMMA NameAppended ==
  ASSUME NEW path \in Seq(Components), NEW name \in Components, name \in Ends
  PROVE  Append(path, name) \in ProperPath
<1> DEFINE longer == Append(path, name)
<1>1. longer \in Seq(Components) /\ Len(longer) = Len(path) + 1
      /\ longer[Len(path) + 1] = name
  OBVIOUS
<1>2. longer # << >> /\ Last(longer) = name
  BY <1>1 DEF Last
<1> QED  BY <1>1, <1>2 DEF ProperPath

LEMMA ProperParts ==
  ASSUME NEW path \in ProperPath
  PROVE  /\ path \in Seq(Components) /\ path # << >>
         /\ Front(path) \in Seq(Components)
         /\ Last(path) \in Components /\ Last(path) \in Ends
<1>1. path \in Seq(Components) /\ path # << >> /\ Last(path) \in Ends
  BY DEF ProperPath
<1>2. Front(path) \in Seq(Components)
  BY <1>1 DEF Front
<1> QED  BY <1>1, <1>2, Given

LEMMA MakesTasks ==
  ASSUME NEW path \in Seq(Names)
  PROVE  Makes(path) \in Seq(PathTask)
<1>1. ASSUME NEW k \in 1 .. Len(path)
      PROVE  SubSeq(path, 1, k) \in ProperPath
  <2> DEFINE upper == SubSeq(path, 1, k)
  <2>1. upper \in Seq(Names) /\ Len(upper) = k /\ upper[k] = path[k]
        /\ path[k] \in Names
    OBVIOUS
  <2> HIDE DEF upper
  <2>2. upper # << >> /\ Last(upper) = path[k]
    BY <2>1 DEF Last
  <2>3. upper \in Seq(Components)
    BY <2>1, NamesAreEnds
  <2> QED  BY <2>1, <2>2, <2>3, NamesAreEnds DEF ProperPath, upper
<1>2. ASSUME NEW k \in 1 .. Len(path)
      PROVE  [do |-> "make", path |-> SubSeq(path, 1, k)] \in PathTask
  BY <1>1 DEF PathTask
<1>3. Len(path) \in Nat
  OBVIOUS
<1> QED  BY <1>2, <1>3 DEF Makes

LEMMA EnsureTasks ==
  ASSUME NEW path \in ProperPath
  PROVE  EnsureParents(path) \in Seq(PathTask)
<1>1. NormalizeFsPath(Front(path)) \in Seq(Names)
  BY ProperParts, Normalized
<1>2. EnsureParents(path) = << >>
      \/ EnsureParents(path) = Makes(NormalizeFsPath(Front(path)))
  BY Zenon DEF EnsureParents
<1>3. << >> \in Seq(PathTask)
  OBVIOUS
<1> QED  BY <1>1, <1>2, <1>3, MakesTasks

\* Where a copy or a move ends: below a directory that is there, and the
\* root always is.
LEMMA Destined ==
  ASSUME Sound(fs), NEW from \in ProperPath, NEW to \in ProperPath \cup {<< >>}
  PROVE  Destination(from, to) \in ProperPath
<1>1. Last(from) \in Components /\ Last(from) \in Ends
  BY ProperParts
<1>2. to \in Seq(Components)
  <2>1. << >> \in Seq(Components)
    OBVIOUS
  <2> QED  BY <2>1, Zenon DEF ProperPath
<1>3. CASE IsDirectory(ResolvePath(fs, to))
  BY <1>1, <1>2, <1>3, NameAppended DEF Destination
<1>4. CASE ~IsDirectory(ResolvePath(fs, to))
  <2>1. to # << >>
    BY <1>4, RootResolved, RootIsInode DEF IsDirectory, Sound, RootStays
  <2> QED  BY <1>4, <2>1 DEF Destination
<1> QED  BY <1>3, <1>4

--------------------------------------------------------------------------------
(* A file that a command fills. *)

\* Free clusters become clusters of one file.
LEMMA Spent ==
  ASSUME NEW f, Sound(f), NEW i \in Inodes \ {Root}, NEW given \in Nat,
         given <= f.space
  PROVE  Sound([f EXCEPT !.space = @ - given, !.node[i].clusters = @ + given])
<1> DEFINE g == [f EXCEPT !.space = @ - given, !.node[i].clusters = @ + given]
           held == f.node[i].clusters + given
           left == f.space - given
           n == [f.node[i] EXCEPT !.clusters = held]
<1>1. /\ f \in Table /\ f.space \in Nat /\ f.node[i] \in Node
      /\ f.node[i].clusters \in Nat /\ EntryList(f.node[i].entries)
  BY TableCounts DEF Sound, Counts
<1>2. held \in Nat /\ left \in Nat
  BY <1>1
<1>3. g = [f EXCEPT !.node[i] = n, !.space = left]
  BY <1>1 DEF Table
<1>4. held - f.node[i].clusters = given /\ left + given = f.space
  BY <1>1
<1> HIDE DEF held, left
<1>5. n \in Node /\ n.entries = f.node[i].entries /\ n.clusters = held
  BY <1>1, <1>2 DEF Node
<1> HIDE DEF n, g
<1>6. /\ g \in Table /\ g.node[i] = n /\ g.space = left
      /\ \A j \in Inodes : j # i => g.node[j] = f.node[j]
  BY <1>1, <1>2, <1>3, <1>5 DEF Table
<1>7. g.space + g.node[i].clusters <= f.space + f.node[i].clusters
  BY <1>1, <1>2, <1>4, <1>5, <1>6
<1>8. Sound(g)
  BY <1>1, <1>5, <1>6, <1>7, OneChanges
<1> QED  BY <1>8 DEF g

\* What Store does: the file is found or made, cut, and gets what there is.
LEMMA StoreSteps ==
  ASSUME NEW path, NEW asked, NEW truncate, Store(path, asked, truncate)
  PROVE  \E r \in IF ResolvePath(fs, path) # NoInode
                  THEN {[ok |-> TRUE, fs |-> fs, inode |-> ResolvePath(fs, path)]}
                  ELSE CreateFile(path) :
           \/ fs' = r.fs /\ work' = << >>
           \/ /\ r.ok /\ r.fs.node[r.inode].type = "regular"
              /\ \E f : \E given :
                    /\ f = r.fs \/ f = Truncate(r.fs, r.inode)
                    /\ given = IF asked > f.space THEN f.space ELSE asked
                    /\ fs' = [f EXCEPT !.space = @ - given,
                                       !.node[r.inode].clusters = @ + given]
                    /\ work' = Tail(work) \/ work' = << >>
<1> DEFINE outcomes ==
             IF ResolvePath(fs, path) # NoInode
             THEN {[ok |-> TRUE, fs |-> fs, inode |-> ResolvePath(fs, path)]}
             ELSE CreateFile(path)
           cut(r) == IF truncate THEN Truncate(r.fs, r.inode) ELSE r.fs
           taken(f) == IF asked > f.space THEN f.space ELSE asked
           grown(r, f) == [f EXCEPT !.space = @ - taken(f),
                                    !.node[r.inode].clusters = @ + taken(f)]
           stored(r) == /\ fs' = grown(r, cut(r))
                        /\ Done \/ (taken(cut(r)) < asked /\ GiveUp)
<1>1. \E r \in outcomes : IF ~r.ok \/ r.fs.node[r.inode].type # "regular"
                         THEN fs' = r.fs /\ GiveUp ELSE stored(r)
  BY DEF Store
<1>2. (Done => work' = Tail(work)) /\ (GiveUp => work' = << >>)
  BY DEF Done, GiveUp, Then
<1>3. \A r : cut(r) = r.fs \/ cut(r) = Truncate(r.fs, r.inode)
  BY Zenon
<1> HIDE DEF outcomes, cut
<1>4. PICK r \in outcomes : IF ~r.ok \/ r.fs.node[r.inode].type # "regular"
                           THEN fs' = r.fs /\ GiveUp ELSE stored(r)
  BY <1>1
<1>5. CASE ~r.ok \/ r.fs.node[r.inode].type # "regular"
  BY <1>2, <1>4, <1>5 DEF outcomes
<1>6. CASE r.ok /\ r.fs.node[r.inode].type = "regular"
  <2>1. stored(r)
    BY <1>4, <1>6
  <2>2. work' = Tail(work) \/ work' = << >>
    BY <1>2, <2>1
  <2> QED  BY <1>3, <1>4, <1>6, <2>1, <2>2, Zenon DEF outcomes
<1> QED  BY <1>5, <1>6

LEMMA FoundOrMade ==
  ASSUME Sound(fs), NEW path \in ProperPath,
         NEW r \in IF ResolvePath(fs, path) # NoInode
                   THEN {[ok |-> TRUE, fs |-> fs, inode |-> ResolvePath(fs, path)]}
                   ELSE CreateFile(path)
  PROVE  Sound(r.fs) /\ (r.ok => r.inode \in Inodes)
<1>1. CASE ResolvePath(fs, path) # NoInode
  <2>1. r.fs = fs /\ r.inode = ResolvePath(fs, path)
    BY <1>1
  <2>2. ResolvePath(fs, path) \in Inodes
    BY <1>1, ProperParts, Resolved
  <2> QED  BY <2>1, <2>2
<1>2. CASE ResolvePath(fs, path) = NoInode
  BY <1>2, FileCreated
<1> QED  BY <1>1, <1>2

LEMMA Stored ==
  ASSUME IInv, NEW path \in ProperPath, NEW asked \in Nat, NEW truncate,
         Store(path, asked, truncate), UNCHANGED opened
  PROVE  IInv' /\ (work' = Tail(work) \/ work' = << >>)
<1>1. Sound(fs)
  BY DEF IInv
<1>2. PICK r \in IF ResolvePath(fs, path) # NoInode
                 THEN {[ok |-> TRUE, fs |-> fs, inode |-> ResolvePath(fs, path)]}
                 ELSE CreateFile(path) :
           \/ fs' = r.fs /\ work' = << >>
           \/ /\ r.ok /\ r.fs.node[r.inode].type = "regular"
              /\ \E f : \E given :
                    /\ f = r.fs \/ f = Truncate(r.fs, r.inode)
                    /\ given = IF asked > f.space THEN f.space ELSE asked
                    /\ fs' = [f EXCEPT !.space = @ - given,
                                       !.node[r.inode].clusters = @ + given]
                    /\ work' = Tail(work) \/ work' = << >>
  BY StoreSteps, Zenon
<1>3. Sound(r.fs) /\ (r.ok => r.inode \in Inodes)
  BY <1>1, FoundOrMade
<1>4. CASE fs' = r.fs /\ work' = << >>
  BY <1>3, <1>4, TableStep
<1>5. ASSUME r.ok, r.fs.node[r.inode].type = "regular", NEW f, NEW given,
             f = r.fs \/ f = Truncate(r.fs, r.inode),
             given = IF asked > f.space THEN f.space ELSE asked,
             fs' = [f EXCEPT !.space = @ - given,
                             !.node[r.inode].clusters = @ + given],
             work' = Tail(work) \/ work' = << >>
      PROVE  IInv' /\ (work' = Tail(work) \/ work' = << >>)
  <2>1. r.inode \in Inodes \ {Root}
    BY <1>3, <1>5 DEF Sound, RootStays
  <2>2. Sound(f)
    BY <1>3, <1>5, <2>1, Truncated
  <2>3. f.space \in Nat
    BY <2>2, TableCounts DEF Sound
  <2>4. given \in Nat /\ given <= f.space
    BY <1>5, <2>3
  <2> DEFINE g == [f EXCEPT !.space = @ - given,
                            !.node[r.inode].clusters = @ + given]
  <2>5. Sound(g) /\ fs' = g
    BY <1>5, <2>1, <2>2, <2>4, Spent
  <2> HIDE DEF g
  <2>6. IInv'
    BY <2>5, TableStep
  <2> QED  BY <1>5, <2>6
<1> QED  BY <1>2, <1>4, <1>5

--------------------------------------------------------------------------------
(* Each task keeps the table, and leaves tasks. *)

LEMMA WorkLeft ==
  ASSUME NEW S, work \in Seq(S), work # << >>
  PROVE  /\ Head(work) \in S /\ Tail(work) \in Seq(S)
         /\ \A tasks \in Seq(S) : Then(tasks) => work' \in Seq(S)
         /\ Done => work' \in Seq(S)
         /\ GiveUp => work' \in Seq(S)
<1>1. Head(work) \in S /\ Tail(work) \in Seq(S) /\ << >> \in Seq(S)
  OBVIOUS
<1>2. \A tasks \in Seq(S) : tasks \o Tail(work) \in Seq(S)
  BY <1>1
<1> QED  BY <1>1, <1>2 DEF Then, Done, GiveUp

LEMMA TasksOfKind ==
  /\ Seq(PathTask) \subseteq Seq(Task)
  /\ PathTask \subseteq Task /\ CopyTask \subseteq Task /\ LinkTask \subseteq Task
  /\ MoveTask \subseteq Task
  /\ "rmdir" \in Commands => DropTask \subseteq Task
BY DEF Task, DropTasks

LEMMA CInvMake ==
  ASSUME CInv, work # << >>, Make(Head(work))
  PROVE  CInv'
<1> DEFINE task == Head(work)
           i == ResolvePath(fs, task.path)
<1>1. task \in Task /\ Sound(fs) /\ IInv /\ work \in Seq(Task)
  BY WorkLeft DEF CInv, IInv
<1>2. task.do \in {"make", "create"} /\ UNCHANGED opened
  BY DEF Make
<1>3. task.path \in ProperPath
  BY <1>1, <1>2, TaskKinds DEF PathTask
<1>4. (Done => work' \in Seq(Task)) /\ (GiveUp => work' \in Seq(Task))
  BY <1>1, WorkLeft
<1>5. CASE i # NoInode /\ task.do = "make"
  <2>1. (Done \/ GiveUp) /\ fs' = fs
    BY <1>5, Zenon DEF Make
  <2> QED  BY <1>1, <1>2, <1>4, <2>1, TableStep DEF CInv
<1>6. CASE ~(i # NoInode /\ task.do = "make")
  <2>1. PICK r \in MakeDirectory(fs, task.path) :
          fs' = r.fs /\ IF r.ok THEN Done ELSE GiveUp
    BY <1>6, Zenon DEF Make
  <2>2. Sound(r.fs)
    BY <1>1, <1>3, DirectoryMade
  <2> QED  BY <1>1, <1>2, <1>4, <2>1, <2>2, TableStep DEF CInv
<1> QED  BY <1>5, <1>6

LEMMA CInvStore ==
  ASSUME CInv, work # << >>, NEW path \in ProperPath, NEW asked \in Nat,
         NEW truncate, Store(path, asked, truncate), UNCHANGED opened
  PROVE  CInv'
<1>1. IInv' /\ (work' = Tail(work) \/ work' = << >>)
  BY Stored DEF CInv
<1>2. Tail(work) \in Seq(Task) /\ << >> \in Seq(Task)
  BY WorkLeft DEF CInv
<1> QED  BY <1>1, <1>2 DEF CInv

LEMMA CInvWrite ==
  ASSUME CInv, work # << >>, Write(Head(work))
  PROVE  CInv'
<1> DEFINE task == Head(work)
<1>1. task \in Task /\ IInv /\ Sound(fs) /\ work \in Seq(Task)
  BY WorkLeft DEF CInv, IInv
<1>2. task.do \in {"touch", "echo", "import", "pack"} /\ UNCHANGED opened
  BY DEF Write
<1>3. task.path \in ProperPath
  BY <1>1, <1>2, TaskKinds DEF PathTask
<1>4. \/ \E asked \in Nat : \E truncate : Store(task.path, asked, truncate)
      \/ GiveUp /\ UNCHANGED fs
  <2>1. 0 \in Nat /\ 1 \in Nat /\ 2 \in Nat /\ \A n \in 1 .. 2 : n \in Nat
    OBVIOUS
  <2> QED  BY <2>1, Zenon DEF Write
<1>5. CASE GiveUp /\ UNCHANGED fs
  <2>1. work' \in Seq(Task)
    BY <1>1, <1>5, WorkLeft
  <2> QED  BY <1>1, <1>2, <1>5, <2>1, TableStep DEF CInv
<1> HIDE DEF task
<1> QED  BY <1>2, <1>3, <1>4, <1>5, CInvStore

\* Only the tasks change.
LEMMA KeepsTable ==
  ASSUME CInv, Keep, work' \in Seq(Task)
  PROVE  CInv'
<1>1. IInv'
  BY TableStep DEF CInv, IInv, Keep
<1> QED  BY <1>1 DEF CInv

LEMMA EntryIsInode ==
  ASSUME Sound(fs), NEW path \in ProperPath
  PROVE  EntryAt(path) \in Inodes \cup {NoInode}
BY Parent, Found DEF EntryAt

LEMMA CopyTasks ==
  ASSUME NEW task \in CopyTask
  PROVE  /\ task.from \in ProperPath /\ task.to \in ProperPath
         /\ [task EXCEPT !.do = "list"] \in CopyTask
         /\ [task EXCEPT !.do = "fill"] \in CopyTask
BY DEF CopyTask

LEMMA TasksJoined ==
  /\ \A path \in ProperPath, task \in Task :
        Append(EnsureParents(path), task) \in Seq(Task)
  /\ \A path \in ProperPath, a \in Task, b \in Task :
        EnsureParents(path) \o <<a, b>> \in Seq(Task)
  /\ \A a \in Task : <<a>> \in Seq(Task)
  /\ \A a \in Task, b \in Task : <<a, b>> \in Seq(Task)
  /\ << >> \in Seq(Task)
<1>1. \A path \in ProperPath : EnsureParents(path) \in Seq(Task)
  BY EnsureTasks, TasksOfKind
<1> QED  BY <1>1

LEMMA CInvCopy ==
  ASSUME CInv, work # << >>, Copy(Head(work))
  PROVE  CInv'
<1> DEFINE task == Head(work)
           i == EntryAt(task.from)
           there == ResolvePath(fs, task.to)
           how == IF i = NoInode THEN "none" ELSE fs.node[i].type
           list == [task EXCEPT !.do = "list"]
           fill == [task EXCEPT !.do = "fill"]
           create == [do |-> "create", path |-> task.to]
           link == [do |-> "link", target |-> fs.node[i].target, to |-> task.to]
<1>1. task \in Task /\ Sound(fs) /\ work \in Seq(Task)
  BY WorkLeft DEF CInv, IInv
<1>2. task.do = "copy" /\ Keep
  BY DEF Copy
<1>3. task \in CopyTask
  BY <1>1, <1>2, TaskKinds
<1>4. /\ task.to \in ProperPath /\ list \in Task /\ fill \in Task
      /\ i \in Inodes \cup {NoInode}
  BY <1>1, <1>3, CopyTasks, TasksOfKind, EntryIsInode
<1>5. create \in Task
  BY <1>4, TasksOfKind DEF PathTask
<1>6. i # NoInode => link \in Task
  <2>1. SUFFICES ASSUME i # NoInode PROVE link \in Task
    OBVIOUS
  <2>2. fs.node[i] \in Node
    BY <1>1, <1>4, <2>1, TableCounts DEF Sound
  <2>3. fs.node[i].target \in Targets
    BY <2>2 DEF Node, Targets
  <2> QED  BY <1>4, <2>3, TasksOfKind DEF LinkTask
<1>7. \/ GiveUp
      \/ Then(Append(EnsureParents(task.to), fill))
      \/ how = "symlink" /\ Then(Append(EnsureParents(task.to), link))
      \/ Then(EnsureParents(task.to) \o <<create, list>>)
      \/ Then(<<list>>)
  BY Zenon DEF Copy
<1>8. how = "symlink" => i # NoInode
  OBVIOUS
<1> HIDE DEF task, i, there, how, list, fill, create, link
<1>9. work' \in Seq(Task)
  BY <1>1, <1>4, <1>5, <1>6, <1>7, <1>8, WorkLeft, TasksJoined
<1> QED  BY <1>2, <1>9, KeepsTable

\* What is listed of a directory are inodes under their names.
LEMMA ListedThere ==
  ASSUME Sound(fs), NEW i \in Inodes
  PROVE  /\ Listed(i) \in Seq(NamedEntry)
         /\ \A k \in DOMAIN Listed(i) :
               /\ Listed(i)[k].name \in Names
               /\ Listed(i)[k].inode \in Inodes \ {Root}
<1>1. EntryList(fs.node[i].entries)
  BY DEF Sound
<1>2. Listed(i) \in Seq(NamedEntry)
  BY <1>1, ListedNames DEF Listed
<1>3. \A k \in DOMAIN Listed(i) : Listed(i)[k] \in NamedEntry
  BY <1>2
<1> QED  BY <1>2, <1>3 DEF NamedEntry, Entry

LEMMA CInvList ==
  ASSUME CInv, work # << >>, List(Head(work))
  PROVE  CInv'
<1> DEFINE task == Head(work)
           i == ResolvePath(fs, task.from)
           copies == Copies(task, Listed(i))
<1>1. task \in Task /\ Sound(fs) /\ work \in Seq(Task)
  BY WorkLeft DEF CInv, IInv
<1>2. task.do = "list" /\ Keep /\ IF i = NoInode THEN GiveUp ELSE Then(copies)
  BY Zenon DEF List
<1>3. task \in CopyTask
  BY <1>1, <1>2, TaskKinds
<1>4. task.from \in ProperPath /\ task.to \in ProperPath
  BY <1>3, CopyTasks
<1>5. i \in Inodes \cup {NoInode}
  BY <1>1, <1>4, ProperParts, Resolved
<1>6. i # NoInode => copies \in Seq(Task)
  <2>1. SUFFICES ASSUME i \in Inodes PROVE copies \in Seq(CopyTask)
    BY <1>5, TasksOfKind
  <2> DEFINE s == Listed(i)
  <2>2. s \in Seq(NamedEntry) /\ \A k \in DOMAIN s : s[k].name \in Names
    BY <1>1, <2>1, ListedThere
  <2> DEFINE one(k) == [do |-> "copy", from |-> Append(task.from, s[k].name),
                        to |-> Append(task.to, s[k].name)]
  <2>3. copies = [k \in DOMAIN s |-> one(k)]
    BY DEF Copies
  <2> HIDE DEF s, copies
  <2>4. DOMAIN s = 1 .. Len(s) /\ Len(s) \in Nat
    BY <2>2
  <2>5. ASSUME NEW k \in DOMAIN s
        PROVE  one(k) \in CopyTask
    <3>1. s[k].name \in Components /\ s[k].name \in Ends
      BY <2>2, <2>5, NamesAreEnds
    <3>2. /\ Append(task.from, s[k].name) \in ProperPath
          /\ Append(task.to, s[k].name) \in ProperPath
      BY <1>4, <3>1, ProperParts, NameAppended
    <3> QED  BY <3>2 DEF CopyTask
  <2> HIDE DEF one
  <2> QED  BY <2>3, <2>4, <2>5
<1> HIDE DEF task, i, copies
<1>7. work' \in Seq(Task)
  BY <1>1, <1>2, <1>6, WorkLeft
<1> QED  BY <1>2, <1>7, KeepsTable

LEMMA CInvFill ==
  ASSUME CInv, work # << >>, Fill(Head(work))
  PROVE  CInv'
<1> DEFINE task == Head(work)
           i == ResolvePath(fs, task.from)
<1>1. task \in Task /\ Sound(fs) /\ IInv /\ work \in Seq(Task)
  BY WorkLeft DEF CInv, IInv
<1>2. /\ task.do = "fill" /\ UNCHANGED opened
      /\ IF i # NoInode /\ fs.node[i].type = "regular"
         THEN Store(task.to, fs.node[i].clusters, TRUE)
         ELSE GiveUp /\ UNCHANGED fs
  BY Zenon DEF Fill
<1>3. task \in CopyTask
  BY <1>1, <1>2, TaskKinds
<1>4. task.from \in ProperPath /\ task.to \in ProperPath
  BY <1>3, CopyTasks
<1>5. i \in Inodes \cup {NoInode}
  BY <1>1, <1>4, ProperParts, Resolved
<1> HIDE DEF task, i
<1>6. CASE i # NoInode /\ fs.node[i].type = "regular"
  <2>1. fs.node[i].clusters \in Nat
    BY <1>1, <1>5, <1>6, TableCounts DEF Sound, Counts
  <2> QED  BY <1>2, <1>4, <1>6, <2>1, CInvStore
<1>7. CASE ~(i # NoInode /\ fs.node[i].type = "regular")
  <2>1. GiveUp /\ UNCHANGED fs
    BY <1>2, <1>7
  <2>2. work' \in Seq(Task)
    BY <1>1, <2>1, WorkLeft
  <2> QED  BY <1>1, <1>2, <2>1, <2>2, TableStep DEF CInv
<1> QED  BY <1>6, <1>7

LEMMA CInvLink ==
  ASSUME CInv, work # << >>, Link(Head(work))
  PROVE  CInv'
<1> DEFINE task == Head(work)
<1>1. task \in Task /\ Sound(fs) /\ IInv /\ work \in Seq(Task)
  BY WorkLeft DEF CInv, IInv
<1>2. task.do = "link" /\ UNCHANGED opened
  BY DEF Link
<1>3. task.target \in Targets /\ task.to \in ProperPath
  BY <1>1, <1>2, TaskKinds DEF LinkTask
<1>4. PICK r \in MakeSymlink(fs, task.target, task.to) :
        fs' = r.fs /\ IF r.ok THEN Done ELSE GiveUp
  BY DEF Link
<1>5. Sound(r.fs)
  BY <1>1, <1>3, SymlinkMade
<1>6. work' \in Seq(Task)
  BY <1>1, <1>4, WorkLeft
<1> QED  BY <1>1, <1>2, <1>4, <1>5, <1>6, TableStep DEF CInv

LEMMA CInvMove ==
  ASSUME CInv, work # << >>, Move(Head(work))
  PROVE  CInv'
<1> DEFINE task == Head(work)
<1>1. task \in Task /\ Sound(fs) /\ IInv /\ work \in Seq(Task)
  BY WorkLeft DEF CInv, IInv
<1>2. /\ task.do = "move" /\ UNCHANGED opened /\ Done
      /\ \/ UNCHANGED fs
         \/ \E r \in Renamed(fs, task.from, task.to) : fs' = r.fs
  BY Zenon DEF Move
<1>3. task.from \in ProperPath /\ task.to \in ProperPath
  BY <1>1, <1>2, TaskKinds DEF MoveTask
<1>4. work' \in Seq(Task)
  BY <1>1, <1>2, WorkLeft
<1>5. CASE UNCHANGED fs
  BY <1>1, <1>2, <1>4, <1>5, TableStep DEF CInv
<1>6. ASSUME NEW r \in Renamed(fs, task.from, task.to), fs' = r.fs
      PROVE  CInv'
  <2>1. Sound(r.fs)
    BY <1>1, <1>3, Moved
  <2> QED  BY <1>1, <1>2, <1>4, <1>6, <2>1, TableStep DEF CInv
<1> QED  BY <1>2, <1>5, <1>6

\* The object of the task is freed, and its entry is removed if it is there.
LEMMA DroppedSound ==
  ASSUME Sound(fs), NEW task \in DropTask, NEW r \in Dropped(task)
  PROVE  Sound(r.fs)
<1> DEFINE f == TruncateAndFree(fs, task.inode)
           dir == IF task.path = << >> THEN task.dir ELSE ParentOf(f, task.path)
<1>1. /\ task.inode \in Inodes \ {Root} /\ task.dir \in Inodes \cup {NoInode}
      /\ task.path \in ProperPath \cup {<< >>}
  BY DEF DropTask
<1>2. Sound(f)
  BY <1>1, TruncatedAndFreed
<1>3. dir \in Inodes \cup {NoInode}
  BY <1>1, <1>2, Parent
<1>4. r \in IF dir = NoInode THEN {Failed(f)} ELSE RemoveEntry(f, dir, task.name)
  BY Zenon DEF Dropped
<1> HIDE DEF f, dir
<1>5. CASE dir = NoInode
  BY <1>2, <1>4, <1>5, Results
<1>6. CASE dir # NoInode
  BY <1>2, <1>3, <1>4, <1>6, Removed
<1> QED  BY <1>5, <1>6

LEMMA DropsTasks ==
  ASSUME Sound(fs), NEW i \in Inodes
  PROVE  Drops(i) \in Seq(DropTask)
<1> DEFINE s == Listed(i)
<1>1. /\ s \in Seq(NamedEntry)
      /\ \A k \in DOMAIN s : s[k].name \in Names /\ s[k].inode \in Inodes \ {Root}
  BY ListedThere
<1>2. Drops(i) = [k \in DOMAIN s |->
                    [do |-> "drop", dir |-> i, name |-> s[k].name,
                     inode |-> s[k].inode, path |-> << >>]]
  BY DEF Drops
<1> HIDE DEF s
<1>3. DOMAIN s = 1 .. Len(s) /\ Len(s) \in Nat
  BY <1>1
<1>4. ASSUME NEW k \in DOMAIN s
      PROVE  [do |-> "drop", dir |-> i, name |-> s[k].name,
              inode |-> s[k].inode, path |-> << >>] \in DropTask
  BY <1>1, <1>4, NamesAreEnds DEF DropTask
<1> QED  BY <1>2, <1>3, <1>4

LEMMA CInvDrop ==
  ASSUME CInv, work # << >>, Drop(Head(work))
  PROVE  CInv'
<1> DEFINE task == Head(work)
           free == [task EXCEPT !.do = "free"]
<1>1. task \in Task /\ Sound(fs) /\ IInv /\ work \in Seq(Task)
  BY WorkLeft DEF CInv, IInv
<1>2. task.do \in {"drop", "free"}
  BY DEF Drop
<1>3. task \in DropTask /\ "rmdir" \in Commands
  BY <1>1, <1>2, TaskKinds
<1>4. task.inode \in Inodes /\ free \in DropTask
  BY <1>3 DEF DropTask
<1>5. CASE task.do = "drop" /\ IsDirectory(task.inode)
  <2>1. Then(Append(Drops(task.inode), free)) /\ Keep
    BY <1>5, Zenon DEF Drop
  <2>2. Append(Drops(task.inode), free) \in Seq(DropTask)
    BY <1>1, <1>4, DropsTasks
  <2>3. Append(Drops(task.inode), free) \in Seq(Task)
    BY <1>3, <2>2, TasksOfKind
  <2>4. work' \in Seq(Task)
    BY <1>1, <2>1, <2>3, WorkLeft
  <2> QED  BY <2>1, <2>4, KeepsTable
<1>6. CASE ~(task.do = "drop" /\ IsDirectory(task.inode))
  <2>1. (\E r \in Dropped(task) : fs' = r.fs) /\ Done /\ UNCHANGED opened
    BY <1>6, Zenon DEF Drop
  <2>2. PICK r \in Dropped(task) : fs' = r.fs
    BY <2>1
  <2>3. Sound(r.fs)
    BY <1>1, <1>3, <2>2, DroppedSound
  <2>4. work' \in Seq(Task)
    BY <1>1, <2>1, WorkLeft
  <2> QED  BY <1>1, <2>1, <2>2, <2>3, <2>4, TableStep DEF CInv
<1> QED  BY <1>5, <1>6

--------------------------------------------------------------------------------
(* Each command starts with tasks. *)

LEMMA CInvPacked ==
  ASSUME CInv, NEW path \in ProperPath, NEW name \in Names, Keep,
         work' = << [do |-> "pack", path |-> Append(Front(path), name)] >>
  PROVE  CInv'
<1> DEFINE other == Append(Front(path), name)
           task == [do |-> "pack", path |-> other]
<1>1. other \in ProperPath
  BY ProperParts, NameAppended, NamesAreEnds
<1> HIDE DEF other
<1>2. task \in Task
  BY <1>1, TasksOfKind DEF PathTask
<1>3. work' = <<task>>
  BY DEF other
<1> HIDE DEF task
<1>4. work' \in Seq(Task)
  BY <1>2, <1>3
<1> QED  BY <1>4, KeepsTable

LEMMA CInvPath ==
  ASSUME CInv, NEW path \in ProperPath,
         \/ Mkdir(path) \/ Touch(path) \/ Echo(path) \/ Import(path)
         \/ Compress(path) \/ Decompress(path)
  PROVE  CInv'
<1>1. CASE Mkdir(path)
  <2>1. NormalizeFsPath(path) \in Seq(Names)
    BY ProperParts, Normalized
  <2>2. work' \in Seq(Task)
    BY <1>1, <2>1, MakesTasks, TasksOfKind DEF Mkdir
  <2> QED  BY <1>1, <2>2, KeepsTable DEF Mkdir
<1>2. CASE Touch(path) \/ Echo(path) \/ Import(path)
  <2>1. PICK do \in {"touch", "echo", "import"} :
          work' = Append(EnsureParents(path), [do |-> do, path |-> path])
    BY <1>2 DEF Touch, Echo, Import
  <2>2. [do |-> do, path |-> path] \in Task
    BY TasksOfKind DEF PathTask
  <2>3. work' \in Seq(Task)
    BY <2>1, <2>2, TasksJoined
  <2> QED  BY <1>2, <2>3, KeepsTable DEF Touch, Echo, Import
<1>3. CASE Compress(path)
  <2>1. Packed[Last(path)] \in Names
    BY <1>3, CommandsAssumption DEF Compress
  <2> QED  BY <1>3, <2>1, CInvPacked DEF Compress
<1>4. CASE Decompress(path)
  <2>1. PICK name \in DOMAIN Packed :
          work' = << [do |-> "pack", path |-> Append(Front(path), name)] >>
    BY <1>4 DEF Decompress
  <2>2. name \in Names /\ Keep
    BY <1>4, CommandsAssumption DEF Decompress
  <2> QED  BY <2>1, <2>2, CInvPacked
<1> QED  BY <1>1, <1>2, <1>3, <1>4

LEMMA CInvCp ==
  ASSUME CInv, NEW from \in ProperPath, NEW to \in ProperPath \cup {<< >>},
         Cp(from, to)
  PROVE  CInv'
<1> DEFINE final == Destination(from, to)
           copy == [do |-> "copy", from |-> from, to |-> final]
           report == [do |-> "report", from |-> from, to |-> final]
<1>1. final \in ProperPath
  BY Destined DEF CInv, IInv
<1>2. work' = <<copy, report>> /\ Keep
  BY DEF Cp
<1> HIDE DEF final
<1>3. copy \in Task /\ report \in Task
  BY <1>1, TasksOfKind DEF CopyTask
<1> HIDE DEF copy, report
<1> QED  BY <1>2, <1>3, TasksJoined, KeepsTable

LEMMA CInvMv ==
  ASSUME CInv, NEW from \in ProperPath, NEW to \in ProperPath \cup {<< >>},
         Mv(from, to)
  PROVE  CInv'
<1> DEFINE final == Destination(from, to)
           i == ResolvePath(fs, from)
           move == [do |-> "move", from |-> from, to |-> final,
                    directory |-> IsDirectory(i)]
<1>1. final \in ProperPath
  BY Destined DEF CInv, IInv
<1>2. /\ work' = IF final # to THEN <<move>> ELSE Append(EnsureParents(to), move)
      /\ Keep
  BY DEF Mv
<1>3. IsDirectory(i) \in BOOLEAN
  BY DEF IsDirectory
<1> HIDE DEF final, i
<1>4. move \in Task
  BY <1>1, <1>3, TasksOfKind DEF MoveTask
<1> HIDE DEF move
<1>5. work' \in Seq(Task)
  BY <1>1, <1>2, <1>4, TasksJoined
<1> QED  BY <1>2, <1>5, KeepsTable

LEMMA CInvRmdir ==
  ASSUME CInv, "rmdir" \in Commands, NEW path \in ProperPath, Rmdir(path)
  PROVE  CInv'
<1> DEFINE dir == ParentOf(fs, path)
           target == ResolvePath(fs, path)
           top == [do |-> "drop", dir |-> NoInode, name |-> Last(path),
                   inode |-> target, path |-> path]
<1>1. Sound(fs) /\ IInv /\ work \in Seq(Task)
  BY DEF CInv, IInv
<1>2. /\ dir \in Inodes \cup {NoInode} /\ target \in Inodes \cup {NoInode}
      /\ Last(path) \in Components
  BY <1>1, ProperParts, Parent, Resolved
<1>3. /\ IsDirectory(target) /\ target # Root
      /\ IF IsEmpty(fs, target)
         THEN /\ \E r \in IF dir = NoInode THEN {Failed(fs)}
                          ELSE RemoveEntry(fs, dir, Last(path)) :
                    fs' = IF r.ok THEN FreeInode(r.fs, target) ELSE r.fs
              /\ UNCHANGED <<opened, work>>
         ELSE work' = <<top>> /\ Keep
  BY Zenon DEF Rmdir
<1>4. target \in Inodes \ {Root}
  BY <1>2, <1>3 DEF IsDirectory
<1> HIDE DEF dir, target
<1>5. CASE IsEmpty(fs, target)
  <2>1. PICK r \in IF dir = NoInode THEN {Failed(fs)}
                   ELSE RemoveEntry(fs, dir, Last(path)) :
          fs' = IF r.ok THEN FreeInode(r.fs, target) ELSE r.fs
    BY <1>3, <1>5
  <2>2. Sound(r.fs)
    BY <1>1, <1>2, <2>1, Results, Removed
  <2>3. Sound(FreeInode(r.fs, target))
    BY <1>4, <2>2, InodeFreed
  <2>4. opened' = opened /\ work' = work
    BY <1>3, <1>5
  <2>5. IInv'
    BY <1>1, <2>1, <2>2, <2>3, <2>4, TableStep
  <2> QED  BY <1>1, <2>4, <2>5 DEF CInv
<1>6. CASE ~IsEmpty(fs, target)
  <2>1. top \in DropTask
    BY <1>2, <1>4 DEF DropTask
  <2>2. top \in Task
    BY <2>1, TasksOfKind
  <2> HIDE DEF top
  <2> QED  BY <1>3, <1>6, <2>2, TasksJoined, KeepsTable
<1> QED  BY <1>5, <1>6

LEMMA CInvStart == CInv /\ Start => CInv'
<1> SUFFICES ASSUME CInv, Start PROVE CInv'
  OBVIOUS
<1>1. CommandPaths \subseteq ProperPath
  BY GivenPaths, CommandsAssumption
<1>2. PICK path \in CommandPaths :
        \/ Mkdir(path) \/ Touch(path) \/ Echo(path) \/ Import(path)
        \/ Compress(path) \/ Decompress(path)
        \/ "rmdir" \in Commands /\ Rmdir(path)
        \/ \E to \in CommandPaths \cup {<< >>} : Cp(path, to) \/ Mv(path, to)
  BY DEF Start
<1>3. path \in ProperPath
  BY <1>1
<1>4. ASSUME NEW to \in CommandPaths \cup {<< >>}, Cp(path, to) \/ Mv(path, to)
      PROVE  CInv'
  <2>1. to \in ProperPath \cup {<< >>}
    BY <1>1
  <2> QED  BY <1>3, <1>4, <2>1, CInvCp, CInvMv
<1> QED  BY <1>2, <1>3, <1>4, CInvPath, CInvRmdir

LEMMA CInvContinue == CInv /\ Continue => CInv'
<1> SUFFICES ASSUME CInv, Continue PROVE CInv'
  OBVIOUS
<1>1. work # << >>
  BY DEF Continue
<1>2. \/ Make(Head(work)) \/ Write(Head(work)) \/ Copy(Head(work))
      \/ List(Head(work)) \/ Fill(Head(work)) \/ Link(Head(work))
      \/ Report(Head(work)) \/ Move(Head(work)) \/ Drop(Head(work))
  BY DEF Continue
<1>3. CASE Report(Head(work))
  <2>1. work' \in Seq(Task)
    BY <1>1, <1>3, WorkLeft DEF Report, CInv
  <2> QED  BY <1>3, <2>1, KeepsTable DEF Report
<1> QED
  BY <1>1, <1>2, <1>3, CInvMake, CInvWrite, CInvCopy, CInvList, CInvFill, CInvLink,
     CInvMove, CInvDrop

LEMMA CInvNext == CInv /\ [CommandsNext]_commandVars => CInv'
<1> SUFFICES ASSUME CInv, [CommandsNext]_commandVars PROVE CInv'
  OBVIOUS
<1>1. CASE Start \/ Continue
  BY <1>1, CInvStart, CInvContinue
<1>2. CASE [Next]_vars /\ UNCHANGED work
  BY <1>2, IInvNext DEF CInv
<1>3. CASE UNCHANGED commandVars
  BY <1>3, IInvNext DEF CInv, commandVars, vars
<1> QED  BY <1>1, <1>2, <1>3 DEF CommandsNext

\* The table keeps its form whatever commands are given and wherever their
\* tasks fail, and every task is about paths that may be asked for.
THEOREM CommandsInvariant == CommandsSpec => []CInv
<1>1. CommandsInit => CInv
  <2>1. << >> \in Seq(Task)
    OBVIOUS
  <2> QED  BY <2>1, IInvInit DEF CommandsInit, CInv
<1> QED  BY <1>1, CInvNext, PTL DEF CommandsSpec

\* Also while a command is half done every inode is of the form of the table
\* and no more clusters are free than the disk has.
THEOREM CommandsTypes == CommandsSpec => []TypeOK
<1>1. CInv => TypeOK
  BY AccountedTypes DEF CInv
<1> QED  BY <1>1, CommandsInvariant, PTL

\* No command, wherever it stops, gives a cluster back twice.
THEOREM CommandsAccounted == CommandsSpec => []SpaceNeverInvented
<1>1. CInv => SpaceNeverInvented
  BY AccountedTypes DEF CInv
<1> QED  BY <1>1, CommandsInvariant, PTL

--------------------------------------------------------------------------------
(* Names, while no directory outgrows one cluster.  rmdir is left out: it  *)
(* frees an object before its entry is removed, and removes the name that  *)
(* it was given even where that is the name of a link.                     *)

LEMMA SpentLists ==
  ASSUME NEW f, Sound(f), NEW i \in Inodes, NEW given
  PROVE  SameLists(f, [f EXCEPT !.space = @ - given, !.node[i].clusters = @ + given])
<1> DEFINE g == [f EXCEPT !.space = @ - given, !.node[i].clusters = @ + given]
           n == [f.node[i] EXCEPT !.clusters = @ + given]
<1>1. f \in Table /\ f.node[i] \in Node /\ f.node \in [Inodes -> Node]
  BY TableCounts DEF Sound, Table
<1>2. n.entries = f.node[i].entries /\ n.used = f.node[i].used
  BY <1>1 DEF Node
<1>3. g = [f EXCEPT !.node[i] = n, !.space = @ - given]
  BY <1>1 DEF Table
<1> HIDE DEF g, n
<1>4. g.node[i] = n /\ \A j \in Inodes : j # i => g.node[j] = f.node[j]
  BY <1>1, <1>3 DEF Table
<1>5. SameLists(f, g)
  BY <1>1, <1>2, <1>4, ListsLeft
<1> QED  BY <1>5 DEF g

LEMMA StoredTidy ==
  ASSUME OneClusterDirectories, Sound(fs), Tidy(fs), NEW path \in ProperPath,
         NEW asked, NEW truncate, Store(path, asked, truncate)
  PROVE  Tidy(fs)'
<1>1. PICK r \in IF ResolvePath(fs, path) # NoInode
                 THEN {[ok |-> TRUE, fs |-> fs, inode |-> ResolvePath(fs, path)]}
                 ELSE CreateFile(path) :
           \/ fs' = r.fs /\ work' = << >>
           \/ /\ r.ok /\ r.fs.node[r.inode].type = "regular"
              /\ \E f : \E given :
                    /\ f = r.fs \/ f = Truncate(r.fs, r.inode)
                    /\ given = IF asked > f.space THEN f.space ELSE asked
                    /\ fs' = [f EXCEPT !.space = @ - given,
                                       !.node[r.inode].clusters = @ + given]
                    /\ work' = Tail(work) \/ work' = << >>
  BY StoreSteps, Zenon
<1>2. Sound(r.fs) /\ (r.ok => r.inode \in Inodes)
  BY FoundOrMade
<1>3. Tidy(r.fs)
  <2>1. CASE ResolvePath(fs, path) # NoInode
    <3>1. r.fs = fs
      BY <2>1
    <3> QED  BY <3>1
  <2>2. CASE ResolvePath(fs, path) = NoInode
    BY <2>2, FileCreatedTidy
  <2> QED  BY <2>1, <2>2
<1>4. CASE fs' = r.fs /\ work' = << >>
  BY <1>3, <1>4, TidyAfter
<1>5. ASSUME r.ok, r.fs.node[r.inode].type = "regular", NEW f, NEW given,
             f = r.fs \/ f = Truncate(r.fs, r.inode),
             fs' = [f EXCEPT !.space = @ - given,
                             !.node[r.inode].clusters = @ + given]
      PROVE  Tidy(fs)'
  <2>1. r.inode \in Inodes \ {Root}
    BY <1>2, <1>5 DEF Sound, RootStays
  <2>2. Sound(f) /\ Tidy(f)
    BY <1>2, <1>3, <1>5, <2>1, Truncated, TruncateTidy
  <2> DEFINE g == [f EXCEPT !.space = @ - given,
                            !.node[r.inode].clusters = @ + given]
  <2>3. SameLists(f, g) /\ fs' = g
    BY <1>5, <2>1, <2>2, SpentLists
  <2> HIDE DEF g
  <2>4. Tidy(g)
    BY <2>2, <2>3, TidyLists
  <2> QED  BY <2>3, <2>4, TidyAfter
<1> QED  BY <1>1, <1>4, <1>5

\* Without rmdir nothing is dropped.
LEMMA NothingDropped ==
  ASSUME "rmdir" \notin Commands, CInv, Continue
  PROVE  ~Drop(Head(work))
BY WorkLeft, TaskKinds DEF CInv, Continue, Drop

\* A task changes the names as one call does, or not at all.
LEMMA TidyContinue ==
  ASSUME OneClusterDirectories, CInv, Tidy(fs), Continue, ~Drop(Head(work))
  PROVE  Tidy(fs)'
<1> DEFINE task == Head(work)
<1>1. task \in Task /\ Sound(fs) /\ work # << >>
  BY WorkLeft DEF CInv, IInv, Continue
<1>2. CASE UNCHANGED fs
  BY <1>1, <1>2, TidyAfter
<1>3. CASE Make(task)
  <2>1. task.path \in ProperPath
    BY <1>1, <1>3, TaskKinds DEF Make, PathTask
  <2>2. UNCHANGED fs \/ \E r \in MakeDirectory(fs, task.path) : fs' = r.fs
    BY <1>3, Zenon DEF Make
  <2>3. ASSUME NEW r \in MakeDirectory(fs, task.path), fs' = r.fs
        PROVE  Tidy(fs)'
    <3>1. Tidy(r.fs)
      BY <1>1, <2>1, DirectoryMadeTidy
    <3> QED  BY <2>3, <3>1, TidyAfter
  <2> QED  BY <1>2, <2>2, <2>3
<1>4. CASE Write(task)
  <2>1. task.path \in ProperPath
    BY <1>1, <1>4, TaskKinds DEF Write, PathTask
  <2>2. UNCHANGED fs \/ \E asked, truncate : Store(task.path, asked, truncate)
    BY <1>4, Zenon DEF Write
  <2> QED  BY <1>1, <1>2, <2>1, <2>2, StoredTidy
<1>5. CASE Fill(task)
  <2>1. task.to \in ProperPath
    BY <1>1, <1>5, TaskKinds DEF Fill, CopyTask
  <2>2. UNCHANGED fs \/ \E asked, truncate : Store(task.to, asked, truncate)
    BY <1>5, Zenon DEF Fill
  <2> QED  BY <1>1, <1>2, <2>1, <2>2, StoredTidy
<1>6. CASE Link(task)
  <2>1. task.to \in ProperPath /\ task.target \in Targets
    BY <1>1, <1>6, TaskKinds DEF Link, LinkTask
  <2>2. PICK r \in MakeSymlink(fs, task.target, task.to) : fs' = r.fs
    BY <1>6 DEF Link
  <2>3. Tidy(r.fs)
    BY <1>1, <2>1, SymlinkMadeTidy
  <2> QED  BY <2>2, <2>3, TidyAfter
<1>7. CASE Move(task)
  <2>1. task.from \in ProperPath /\ task.to \in ProperPath
    BY <1>1, <1>7, TaskKinds DEF Move, MoveTask
  <2>2. UNCHANGED fs \/ \E r \in Renamed(fs, task.from, task.to) : fs' = r.fs
    BY <1>7, Zenon DEF Move
  <2>3. ASSUME NEW r \in Renamed(fs, task.from, task.to), fs' = r.fs
        PROVE  Tidy(fs)'
    <3>1. Tidy(r.fs)
      BY <1>1, <2>1, MovedTidy
    <3> QED  BY <2>3, <3>1, TidyAfter
  <2> QED  BY <1>2, <2>2, <2>3
<1>8. CASE Copy(task) \/ List(task) \/ Report(task)
  <2>1. UNCHANGED fs
    BY <1>8 DEF Copy, List, Report, Keep
  <2> QED  BY <1>2, <2>1
<1> QED  BY <1>3, <1>4, <1>5, <1>6, <1>7, <1>8 DEF Continue

\* Without rmdir a command starts with nothing but its list of tasks.
LEMMA StartKeeps ==
  ASSUME "rmdir" \notin Commands, Start
  PROVE  UNCHANGED <<fs, opened>>
BY DEF Start, Mkdir, Touch, Echo, Import, Compress, Decompress, Cp, Mv, Keep

LEMMA TidyCommands ==
  OneClusterDirectories /\ "rmdir" \notin Commands
     => (CInv /\ Tidy(fs) /\ [CommandsNext]_commandVars => Tidy(fs)')
<1> SUFFICES ASSUME OneClusterDirectories, "rmdir" \notin Commands, CInv, Tidy(fs),
                    [CommandsNext]_commandVars
             PROVE  Tidy(fs)'
  OBVIOUS
<1>1. CASE Start
  <2>1. fs' = fs
    BY <1>1, StartKeeps
  <2> QED  BY <2>1, TidyAfter
<1>2. CASE Continue
  BY <1>2, TidyContinue, NothingDropped
<1>3. CASE [Next]_vars
  BY <1>3, TidyNext DEF CInv
<1>4. CASE UNCHANGED commandVars
  BY <1>4, TidyAfter DEF commandVars
<1> QED  BY <1>1, <1>2, <1>3, <1>4 DEF CommandsNext

THEOREM CommandsStayTidy ==
  OneClusterDirectories /\ "rmdir" \notin Commands
     => (CommandsSpec => [](CInv /\ Tidy(fs)))
<1> SUFFICES ASSUME OneClusterDirectories, "rmdir" \notin Commands
             PROVE  CommandsSpec => [](CInv /\ Tidy(fs))
  OBVIOUS
<1>1. CommandsInit => Tidy(fs)
  BY TidyInit DEF CommandsInit
<1>2. CInv /\ Tidy(fs) /\ [CommandsNext]_commandVars => Tidy(fs)'
  BY TidyCommands
<1> QED  BY <1>1, <1>2, CommandsInvariant, PTL DEF CommandsSpec

\* While a directory fits in a cluster, no command but rmdir, wherever it
\* stops, leaves a name that can be reached on an inode that is free again.
THEOREM CommandsLeadToUsed ==
  OneClusterDirectories /\ "rmdir" \notin Commands
     => (CommandsSpec => []NoDanglingEntries)
<1> SUFFICES ASSUME OneClusterDirectories, "rmdir" \notin Commands
             PROVE  CommandsSpec => []NoDanglingEntries
  OBVIOUS
<1>1. CInv /\ Tidy(fs) => NoDanglingEntries
  BY TidyNames DEF CInv, IInv
<1> QED  BY <1>1, CommandsStayTidy, PTL

\* While a directory fits in a cluster, cp and mv give no inode two names.
THEOREM CommandsKeepNamesApart ==
  OneClusterDirectories /\ "rmdir" \notin Commands
     => (CommandsSpec => []OneName)
<1> SUFFICES ASSUME OneClusterDirectories, "rmdir" \notin Commands
             PROVE  CommandsSpec => []OneName
  OBVIOUS
<1>1. CInv /\ Tidy(fs) => OneName
  BY TidyNames DEF CInv, IInv
<1> QED  BY <1>1, CommandsStayTidy, PTL

--------------------------------------------------------------------------------
(* The form of directories, and files that are open, while nothing         *)
(* disturbs a move.                                                        *)

LEMMA SpentForm ==
  ASSUME NEW f, Sound(f), NEW i \in Inodes, f.node[i].type = "regular",
         NEW given \in Nat, given <= f.space
  PROVE  LET g == [f EXCEPT !.space = @ - given, !.node[i].clusters = @ + given]
         IN  Stay(f, g) /\ (Upright(f) => Upright(g))
<1> DEFINE g == [f EXCEPT !.space = @ - given, !.node[i].clusters = @ + given]
           held == f.node[i].clusters + given
           left == f.space - given
           n == [f.node[i] EXCEPT !.clusters = held]
<1>1. /\ f \in Table /\ f.space \in Nat /\ f.node[i] \in Node
      /\ f.node[i].clusters \in Nat /\ f.node \in [Inodes -> Node]
  BY TableCounts DEF Sound, Counts, Table
<1>2. held \in Nat /\ left \in Nat
  BY <1>1
<1>3. g = [f EXCEPT !.node[i] = n, !.space = left]
  BY <1>1 DEF Table
<1> HIDE DEF held, left
<1>4. /\ n \in Node /\ n.entries = f.node[i].entries
      /\ n.used = f.node[i].used /\ n.type = f.node[i].type
  BY <1>1, <1>2 DEF Node
<1> HIDE DEF n, g
<1>5. /\ g \in Table /\ g.node[i] = n
      /\ \A j \in Inodes : j # i => g.node[j] = f.node[j]
  BY <1>1, <1>2, <1>3, <1>4 DEF Table
<1>6. f.node[i].type # "directory"
  OBVIOUS
<1>7. Stay(f, g) /\ (Upright(f) => Upright(g))
  BY <1>1, <1>4, <1>5, <1>6, OneKept
<1> QED  BY <1>7 DEF g

LEMMA StoredKept ==
  ASSUME Undisturbed, IInv, Tidy(fs), Kept, NEW path \in ProperPath,
         NEW asked \in Nat, NEW truncate, Store(path, asked, truncate),
         UNCHANGED opened
  PROVE  Kept'
<1>1. PICK r \in IF ResolvePath(fs, path) # NoInode
                 THEN {[ok |-> TRUE, fs |-> fs, inode |-> ResolvePath(fs, path)]}
                 ELSE CreateFile(path) :
           \/ fs' = r.fs /\ work' = << >>
           \/ /\ r.ok /\ r.fs.node[r.inode].type = "regular"
              /\ \E f : \E given :
                    /\ f = r.fs \/ f = Truncate(r.fs, r.inode)
                    /\ given = IF asked > f.space THEN f.space ELSE asked
                    /\ fs' = [f EXCEPT !.space = @ - given,
                                       !.node[r.inode].clusters = @ + given]
                    /\ work' = Tail(work) \/ work' = << >>
  BY StoreSteps, Zenon
<1>2. Sound(fs) /\ Upright(fs) /\ OneClusterDirectories
  BY DEF IInv, Kept, Undisturbed
<1>3. Sound(r.fs) /\ (r.ok => r.inode \in Inodes)
  BY <1>2, FoundOrMade
<1>4. Upright(r.fs) /\ Stay(fs, r.fs)
  <2>1. CASE ResolvePath(fs, path) # NoInode
    <3>1. r.fs = fs
      BY <2>1
    <3> QED  BY <1>2, <3>1 DEF Stay
  <2>2. CASE ResolvePath(fs, path) = NoInode
    BY <1>2, <2>2, FileCreatedForm
  <2> QED  BY <2>1, <2>2
<1>5. CASE fs' = r.fs /\ work' = << >>
  BY <1>4, <1>5, KeptStay
<1>6. ASSUME r.ok, r.fs.node[r.inode].type = "regular", NEW f, NEW given,
             f = r.fs \/ f = Truncate(r.fs, r.inode),
             given = IF asked > f.space THEN f.space ELSE asked,
             fs' = [f EXCEPT !.space = @ - given,
                             !.node[r.inode].clusters = @ + given]
      PROVE  Kept'
  <2>1. r.inode \in Inodes \ {Root}
    BY <1>3, <1>6 DEF Sound, RootStays
  <2>2. /\ Stay(r.fs, Truncate(r.fs, r.inode)) /\ Upright(Truncate(r.fs, r.inode))
        /\ SameTypes(r.fs, Truncate(r.fs, r.inode))
    BY <1>3, <1>4, <1>6, <2>1, TruncateForm
  <2>3. Sound(f)
    BY <1>3, <1>6, <2>1, Truncated
  <2>4. Upright(f) /\ Stay(fs, f) /\ f.node[r.inode].type = "regular"
    <3>1. CASE f = r.fs
      BY <1>4, <1>6, <3>1
    <3>2. CASE f = Truncate(r.fs, r.inode)
      <4>1. f.node[r.inode].type = r.fs.node[r.inode].type
        BY <2>1, <2>2, <3>2 DEF SameTypes
      <4>2. Stay(fs, f)
        BY <1>4, <2>2, <3>2, StayTwice
      <4> QED  BY <1>6, <2>2, <3>2, <4>1, <4>2
    <3> QED  BY <1>6, <3>1, <3>2
  <2>5. f.space \in Nat
    BY <2>3, TableCounts DEF Sound
  <2>6. given \in Nat /\ given <= f.space
    BY <1>6, <2>5
  <2> DEFINE g == [f EXCEPT !.space = @ - given,
                            !.node[r.inode].clusters = @ + given]
  <2>7. fs' = g
    BY <1>6
  <2>8. Stay(f, g) /\ (Upright(f) => Upright(g))
    BY <2>1, <2>3, <2>4, <2>6, SpentForm
  <2> HIDE DEF g
  <2>9. Stay(fs, g) /\ Upright(g)
    BY <2>4, <2>8, StayTwice
  <2> QED  BY <2>7, <2>9, KeptStay
<1> QED  BY <1>1, <1>5, <1>6

LEMMA KeptContinue ==
  ASSUME Undisturbed, CInv, Tidy(fs), Kept, Continue, ~Drop(Head(work))
  PROVE  Kept'
<1> DEFINE task == Head(work)
<1>1. /\ task \in Task /\ IInv /\ Sound(fs) /\ Upright(fs) /\ work # << >>
      /\ OneClusterDirectories
  BY WorkLeft DEF CInv, IInv, Kept, Continue, Undisturbed
<1>2. ASSUME UNCHANGED fs, UNCHANGED opened
      PROVE  Kept'
  <2>1. Stay(fs, fs)
    BY DEF Stay
  <2> QED  BY <1>1, <1>2, <2>1, KeptStay
<1>3. CASE Make(task)
  <2>1. task.path \in ProperPath
    BY <1>1, <1>3, TaskKinds DEF Make, PathTask
  <2>2. UNCHANGED fs \/ \E r \in MakeDirectory(fs, task.path) : fs' = r.fs
    BY <1>3, Zenon DEF Make
  <2>3. UNCHANGED opened
    BY <1>3 DEF Make
  <2>4. ASSUME NEW r \in MakeDirectory(fs, task.path), fs' = r.fs
        PROVE  Kept'
    <3>1. Upright(r.fs) /\ Stay(fs, r.fs)
      BY <1>1, <2>1, DirectoryMadeForm
    <3> QED  BY <1>1, <2>3, <2>4, <3>1, KeptStay
  <2> QED  BY <1>2, <2>2, <2>3, <2>4
<1>4. CASE Write(task)
  <2>1. task.path \in ProperPath
    BY <1>1, <1>4, TaskKinds DEF Write, PathTask
  <2>2. UNCHANGED fs \/ \E asked \in Nat : \E truncate :
                           Store(task.path, asked, truncate)
    <3>1. 0 \in Nat /\ 1 \in Nat /\ 2 \in Nat /\ \A n \in 1 .. 2 : n \in Nat
      OBVIOUS
    <3> QED  BY <1>4, <3>1, Zenon DEF Write
  <2>3. UNCHANGED opened
    BY <1>4 DEF Write
  <2> QED  BY <1>1, <1>2, <2>1, <2>2, <2>3, StoredKept
<1>5. CASE Fill(task)
  <2> DEFINE i == ResolvePath(fs, task.from)
  <2>1. task.to \in ProperPath /\ task.from \in ProperPath
    BY <1>1, <1>5, TaskKinds DEF Fill, CopyTask
  <2>2. /\ UNCHANGED opened
        /\ IF i # NoInode /\ fs.node[i].type = "regular"
           THEN Store(task.to, fs.node[i].clusters, TRUE)
           ELSE GiveUp /\ UNCHANGED fs
    BY <1>5, Zenon DEF Fill
  <2>3. i \in Inodes \cup {NoInode}
    BY <1>1, <2>1, ProperParts, Resolved
  <2> HIDE DEF i
  <2>4. i # NoInode => fs.node[i].clusters \in Nat
    BY <1>1, <2>3, TableCounts DEF Sound, Counts
  <2> QED  BY <1>1, <1>2, <2>1, <2>2, <2>4, StoredKept
<1>6. CASE Link(task)
  <2>1. task.to \in ProperPath /\ task.target \in Targets
    BY <1>1, <1>6, TaskKinds DEF Link, LinkTask
  <2>2. PICK r \in MakeSymlink(fs, task.target, task.to) : fs' = r.fs
    BY <1>6 DEF Link
  <2>3. UNCHANGED opened
    BY <1>6 DEF Link
  <2>4. Upright(r.fs) /\ Stay(fs, r.fs)
    BY <1>1, <2>1, SymlinkMadeForm
  <2> QED  BY <1>1, <2>2, <2>3, <2>4, KeptStay
<1>7. CASE Move(task)
  <2>1. task.from \in ProperPath /\ task.to \in ProperPath
    BY <1>1, <1>7, TaskKinds DEF Move, MoveTask
  <2>2. UNCHANGED fs \/ \E r \in Renamed(fs, task.from, task.to) : fs' = r.fs
    BY <1>7, Zenon DEF Move
  <2>3. UNCHANGED opened
    BY <1>7 DEF Move
  <2>4. ASSUME NEW r \in Renamed(fs, task.from, task.to), fs' = r.fs
        PROVE  Kept'
    <3>1. Upright(r.fs) /\ Stay(fs, r.fs)
      BY <1>1, <2>1, MovedForm
    <3> QED  BY <1>1, <2>3, <2>4, <3>1, KeptStay
  <2> QED  BY <1>2, <2>2, <2>3, <2>4
<1>8. CASE Copy(task) \/ List(task) \/ Report(task)
  <2>1. UNCHANGED fs /\ UNCHANGED opened
    BY <1>8 DEF Copy, List, Report, Keep
  <2> QED  BY <1>2, <2>1
<1> QED  BY <1>3, <1>4, <1>5, <1>6, <1>7, <1>8 DEF Continue

LEMMA KeptCommands ==
  Undisturbed /\ "rmdir" \notin Commands
     => (CInv /\ Tidy(fs) /\ Kept /\ [CommandsNext]_commandVars => Kept')
<1> SUFFICES ASSUME Undisturbed, "rmdir" \notin Commands, CInv, Tidy(fs), Kept,
                    [CommandsNext]_commandVars
             PROVE  Kept'
  OBVIOUS
<1>1. CASE Continue
  BY <1>1, KeptContinue, NothingDropped
<1>2. CASE [Next]_vars
  BY <1>2, KeptNext DEF CInv
<1>3. CASE Start \/ UNCHANGED commandVars
  <2>1. UNCHANGED vars
    BY <1>3, StartKeeps DEF commandVars, vars
  <2> QED  BY <2>1, KeptNext DEF CInv
<1> QED  BY <1>1, <1>2, <1>3 DEF CommandsNext

THEOREM CommandsStayUpright ==
  Undisturbed /\ "rmdir" \notin Commands
     => (CommandsSpec => [](CInv /\ Tidy(fs) /\ Kept))
<1> SUFFICES ASSUME Undisturbed, "rmdir" \notin Commands
             PROVE  CommandsSpec => [](CInv /\ Tidy(fs) /\ Kept)
  OBVIOUS
<1>1. OneClusterDirectories
  BY DEF Undisturbed
<1>2. CommandsSpec => [](CInv /\ Tidy(fs))
  BY <1>1, CommandsStayTidy
<1>3. CommandsInit => Kept
  BY KeptInit DEF CommandsInit
<1>4. CInv /\ Tidy(fs) /\ Kept /\ [CommandsNext]_commandVars => Kept'
  BY KeptCommands
<1> QED  BY <1>2, <1>3, <1>4, PTL DEF CommandsSpec

\* The ".." of a directory is the one it is entered in, also in a copy that
\* is half done and after every move.
THEOREM CommandsKeepDotDot ==
  Undisturbed /\ "rmdir" \notin Commands => (CommandsSpec => []DotDotIsParent)
<1> SUFFICES ASSUME Undisturbed, "rmdir" \notin Commands
             PROVE  CommandsSpec => []DotDotIsParent
  OBVIOUS
<1>1. CInv /\ Tidy(fs) /\ Kept => DotDotIsParent
  BY KeptShows DEF CInv
<1> QED  BY <1>1, CommandsStayUpright, PTL

\* No command but rmdir, which does not look, touches what is open.
THEOREM CommandsKeepOpenFiles ==
  Undisturbed /\ "rmdir" \notin Commands => (CommandsSpec => []OpenFilesStay)
<1> SUFFICES ASSUME Undisturbed, "rmdir" \notin Commands
             PROVE  CommandsSpec => []OpenFilesStay
  OBVIOUS
<1>1. CInv /\ Tidy(fs) /\ Kept => OpenFilesStay
  BY KeptShows DEF CInv
<1> QED  BY <1>1, CommandsStayUpright, PTL

--------------------------------------------------------------------------------
(* The two normal forms of a path, of path.c and of utils.c.               *)

\* The text of the path without its dots, see RelativeComponents.
Copied(path) == FoldLeft(CopyComponent, << >>, TextOf(path))

LEMMA NormalizeGrows ==
  ASSUME NEW path \in Seq(Components), NEW c \in Components
  PROVE  /\ NormalizeFsPath(path) \in Seq(Names)
         /\ NormalizeFsPath(Append(path, c)) = KeepComponent(NormalizeFsPath(path), c)
<1> DEFINE kept == NormalizeFsPath(path)
<1>1. Append(path, c) \in Seq(Components)
  OBVIOUS
<1>2. kept \in Seq(Names) /\ kept = FoldOf(KeepStep, << >>, path)
  BY NormalizeFolds, Normalized
<1>3. NormalizeFsPath(Append(path, c)) = KeepStep[kept, c]
  <2>1. Folding(Components, Seq(Names), << >>, KeepStep, path)
    BY NormalizeFolds
  <2>2. NormalizeFsPath(Append(path, c)) = FoldOf(KeepStep, << >>, Append(path, c))
    BY <1>1, NormalizeFolds
  <2>3. FoldOf(KeepStep, << >>, Append(path, c)) = KeepStep[FoldOf(KeepStep, << >>, path), c]
    <3>1. FoldGoesOn(KeepStep, << >>, path, c)
      BY <2>1, FoldAppend
    <3> QED  BY <3>1 DEF FoldGoesOn
  <2> QED  BY <1>2, <2>2, <2>3
<1> HIDE DEF kept
<1>4. KeepStep[kept, c] = KeepComponent(kept, c)
  BY <1>2 DEF KeepStep
<1> QED  BY <1>2, <1>3, <1>4 DEF kept

LEMMA TextGrows ==
  ASSUME NEW path \in Seq(Components), NEW c \in Components
  PROVE  /\ TextOf(path) \in Seq(Symbol)
         /\ TextOf(Append(path, c)) = Append(Append(TextOf(path), Slash), c)
<1> DEFINE text == TextOf(path)
<1>1. Append(path, c) \in Seq(Components)
  OBVIOUS
<1>2. text \in Seq(Symbol) /\ text = FoldOf(TextStep, << >>, path)
  BY TextFolds, FoldType
<1>3. TextOf(Append(path, c)) = TextStep[text, c]
  <2>1. Folding(Components, Seq(Symbol), << >>, TextStep, path)
    BY TextFolds
  <2>2. TextOf(Append(path, c)) = FoldOf(TextStep, << >>, Append(path, c))
    BY <1>1, TextFolds
  <2>3. FoldOf(TextStep, << >>, Append(path, c)) = TextStep[FoldOf(TextStep, << >>, path), c]
    <3>1. FoldGoesOn(TextStep, << >>, path, c)
      BY <2>1, FoldAppend
    <3> QED  BY <3>1 DEF FoldGoesOn
  <2> QED  BY <1>2, <2>2, <2>3
<1> HIDE DEF text
<1>4. TextStep[text, c] = text \o <<Slash, c>>
  BY <1>2 DEF TextStep
<1>5. Slash \in Symbol /\ c \in Symbol
  BY DEF Symbol
<1>6. text \o <<Slash, c>> = Append(Append(text, Slash), c)
  BY <1>2, <1>5
<1> QED  BY <1>2, <1>3, <1>4, <1>6 DEF text

LEMMA CopyGrows ==
  ASSUME NEW text \in Seq(Symbol), NEW x \in Symbol
  PROVE  /\ FoldLeft(CopyComponent, << >>, text) \in Seq(Symbol)
         /\ FoldLeft(CopyComponent, << >>, Append(text, x))
               = CopyComponent(FoldLeft(CopyComponent, << >>, text), x)
<1> DEFINE copy == FoldLeft(CopyComponent, << >>, text)
<1>1. Append(text, x) \in Seq(Symbol)
  OBVIOUS
<1>2. copy \in Seq(Symbol) /\ copy = FoldOf(CopyStep, << >>, text)
  BY CopyFolds, FoldType
<1>3. FoldLeft(CopyComponent, << >>, Append(text, x)) = CopyStep[copy, x]
  <2>1. Folding(Symbol, Seq(Symbol), << >>, CopyStep, text)
    BY CopyFolds
  <2>2. FoldLeft(CopyComponent, << >>, Append(text, x))
           = FoldOf(CopyStep, << >>, Append(text, x))
    BY <1>1, CopyFolds
  <2>3. FoldOf(CopyStep, << >>, Append(text, x)) = CopyStep[FoldOf(CopyStep, << >>, text), x]
    <3>1. FoldGoesOn(CopyStep, << >>, text, x)
      BY <2>1, FoldAppend
    <3> QED  BY <3>1 DEF FoldGoesOn
  <2> QED  BY <1>2, <2>2, <2>3
<1> HIDE DEF copy
<1>4. CopyStep[copy, x] = CopyComponent(copy, x)
  BY <1>2 DEF CopyStep
<1> QED  BY <1>2, <1>3, <1>4 DEF copy

LEMMA WordsGrow ==
  ASSUME NEW text \in Seq(Symbol), NEW x \in Symbol
  PROVE  /\ WordsOf(text) \in Seq(Components)
         /\ WordsOf(Append(text, x))
               = IF x = Slash THEN WordsOf(text) ELSE Append(WordsOf(text), x)
<1> DEFINE words == WordsOf(text)
<1>1. Append(text, x) \in Seq(Symbol)
  OBVIOUS
<1>2. words \in Seq(Components) /\ words = FoldOf(WordStep, << >>, text)
  BY WordsFold, FoldType
<1>3. WordsOf(Append(text, x)) = WordStep[words, x]
  <2>1. Folding(Symbol, Seq(Components), << >>, WordStep, text)
    BY WordsFold
  <2>2. WordsOf(Append(text, x)) = FoldOf(WordStep, << >>, Append(text, x))
    BY <1>1, WordsFold
  <2>3. FoldOf(WordStep, << >>, Append(text, x)) = WordStep[FoldOf(WordStep, << >>, text), x]
    <3>1. FoldGoesOn(WordStep, << >>, text, x)
      BY <2>1, FoldAppend
    <3> QED  BY <3>1 DEF FoldGoesOn
  <2> QED  BY <1>2, <2>2, <2>3
<1> HIDE DEF words
<1>4. WordStep[words, x] = IF x = Slash THEN words ELSE Append(words, x)
  BY <1>2 DEF WordStep
<1> QED  BY <1>2, <1>3, <1>4 DEF words

LEMMA CopiedGrows ==
  ASSUME NEW path \in Seq(Components), NEW c \in Components
  PROVE  /\ Copied(path) \in Seq(Symbol)
         /\ Copied(Append(path, c))
               = CopyComponent(Append(Copied(path), Slash), c)
<1> DEFINE text == TextOf(path)
<1>1. Slash \in Symbol /\ c \in Symbol
  BY DEF Symbol
<1>2. text \in Seq(Symbol) /\ TextOf(Append(path, c)) = Append(Append(text, Slash), c)
  BY TextGrows
<1>3. Append(text, Slash) \in Seq(Symbol)
  BY <1>1, <1>2
<1>4. Copied(path) = FoldLeft(CopyComponent, << >>, text)
  BY DEF Copied
<1>5. Copied(Append(path, c)) = FoldLeft(CopyComponent, << >>, Append(Append(text, Slash), c))
  BY <1>2 DEF Copied
<1> HIDE DEF text
<1>6. /\ Copied(path) \in Seq(Symbol)
      /\ FoldLeft(CopyComponent, << >>, Append(text, Slash))
            = CopyComponent(Copied(path), Slash)
  BY <1>1, <1>2, <1>4, CopyGrows
<1>7. FoldLeft(CopyComponent, << >>, Append(Append(text, Slash), c))
         = CopyComponent(CopyComponent(Copied(path), Slash), c)
  BY <1>1, <1>3, <1>6, CopyGrows
<1>8. CopyComponent(Copied(path), Slash) = Append(Copied(path), Slash)
  BY DEF CopyComponent, Slash, Dot, DotDot
<1> QED  BY <1>5, <1>6, <1>7, <1>8

\* A name, ".", and ".." behind a name.
LEMMA ComponentCopied ==
  ASSUME NEW text \in Seq(Symbol)
  PROVE  /\ \A c \in Names : CopyComponent(Append(text, Slash), c)
                                = Append(Append(text, Slash), c)
         /\ CopyComponent(Append(text, Slash), Dot) = Append(text, Slash)
         /\ CopyComponent(<<Slash>>, DotDot) = <<Slash>>
         /\ \A c \in Names :
               CopyComponent(Append(Append(Append(text, Slash), c), Slash), DotDot)
                  = Append(text, Slash)
<1>1. ASSUME NEW c \in Names
      PROVE  CopyComponent(Append(text, Slash), c) = Append(Append(text, Slash), c)
  <2>1. c # Dot /\ c # DotDot
    BY DirectoriesAssumption DEF Dot, DotDot
  <2> QED  BY <2>1 DEF CopyComponent
<1>2. CopyComponent(Append(text, Slash), Dot) = Append(text, Slash)
  BY DEF CopyComponent, Dot, DotDot
<1>3. CopyComponent(<<Slash>>, DotDot) = <<Slash>>
  <2>1. Len(<<Slash>>) = 1
    OBVIOUS
  <2> QED  BY <2>1 DEF CopyComponent, Dot, DotDot
<1>4. ASSUME NEW c \in Names
      PROVE  CopyComponent(Append(Append(Append(text, Slash), c), Slash), DotDot)
                = Append(text, Slash)
  <2> DEFINE one == Append(text, Slash)
             two == Append(one, c)
             all == Append(two, Slash)
  <2>1. Slash \in Symbol /\ c \in Symbol /\ c # Slash
    BY SlashIsNone DEF Symbol, Components
  <2>2. one \in Seq(Symbol) /\ two \in Seq(Symbol) /\ all \in Seq(Symbol)
        /\ Len(all) > 1 /\ two # << >>
    BY <2>1
  <2>3. Front(all) = two /\ Last(two) = c /\ Front(two) = one
    <3>1. \A s \in Seq(Symbol), x \in Symbol :
             SubSeq(Append(s, x), 1, Len(Append(s, x)) - 1) = s
             /\ Append(s, x)[Len(Append(s, x))] = x
      OBVIOUS
    <3> HIDE DEF one, two, all
    <3>2. all = Append(two, Slash) /\ two = Append(one, c)
      BY DEF all, two
    <3> QED  BY <2>1, <2>2, <3>1, <3>2 DEF Front, Last
  <2> HIDE DEF one, two, all
  <2>4. CopyComponent(all, DotDot) = one
    BY <2>1, <2>2, <2>3 DEF CopyComponent, Dot, DotDot
  <2> QED  BY <2>4 DEF one, two, all
<1> QED  BY <1>1, <1>2, <1>3, <1>4

\* The last component of a path and what is before it.
LEMMA PathSplit ==
  ASSUME NEW S, NEW path \in Seq(S), path # << >>
  PROVE  /\ Front(path) \in Seq(S) /\ Last(path) \in S
         /\ path = Append(Front(path), Last(path))
         /\ Len(Front(path)) = Len(path) - 1
         /\ \A k \in 1 .. Len(path) - 1 : Front(path)[k] = path[k]
         /\ Last(path) = path[Len(path)] /\ Len(path) \in Nat \ {0}
<1> DEFINE n == Len(path)
<1>1. n \in Nat \ {0}
  OBVIOUS
<1>2. /\ Front(path) = SubSeq(path, 1, n - 1) /\ Last(path) = path[n]
      /\ path[n] \in S
  BY <1>1 DEF Front, Last
<1>3. /\ SubSeq(path, 1, n - 1) \in Seq(S) /\ Len(SubSeq(path, 1, n - 1)) = n - 1
      /\ \A k \in 1 .. n - 1 : SubSeq(path, 1, n - 1)[k] = path[k]
  <2> DEFINE m == n - 1
  <2>1. m \in Nat /\ m <= Len(path) /\ 1 .. m \subseteq 1 .. Len(path)
    BY <1>1
  <2> HIDE DEF m
  <2>2. SubSeq(path, 1, m) \in Seq(S)
    BY <2>1
  <2>3. Len(SubSeq(path, 1, m)) = m
    BY <2>1
  <2>4. \A k \in 1 .. m : SubSeq(path, 1, m)[k] = path[k]
    BY <2>1
  <2> QED  BY <2>2, <2>3, <2>4 DEF m
<1>4. path = Append(SubSeq(path, 1, n - 1), path[n])
  BY <1>1
<1> QED  BY <1>1, <1>2, <1>3, <1>4

LEMMA NothingCopied ==
  Copied(<< >>) = << >> /\ NormalizeFsPath(<< >>) = << >> /\ WordsOf(<< >>) = << >>
<1>1. << >> \in Seq(Components) /\ << >> \in Seq(Symbol)
  OBVIOUS
<1>2. TextOf(<< >>) = << >>
  BY <1>1, TextFolds, FoldEmpty
<1>3. FoldLeft(CopyComponent, << >>, << >>) = << >>
  BY <1>1, CopyFolds, FoldEmpty
<1>4. WordsOf(<< >>) = << >>
  BY <1>1, WordsFold, FoldEmpty
<1>5. NormalizeFsPath(<< >>) = << >>
  BY <1>1, NormalizeFolds, FoldEmpty
<1> QED  BY <1>2, <1>3, <1>4, <1>5 DEF Copied

\* A path of names is its own normal form: nothing is taken back.
LEMMA PlainPath ==
  ASSUME NEW path \in Seq(Names)
  PROVE  RelativeComponents(path) = path
<1> DEFINE Fine(n) == \A p \in Seq(Names) : Len(p) = n => WordsOf(Copied(p)) = p
           Bad == {n \in Nat : ~Fine(n)}
<1>1. Bad = {}
  <2>1. SUFFICES ASSUME Bad # {} PROVE FALSE
    OBVIOUS
  <2>2. Bad \in SUBSET Nat
    OBVIOUS
  <2>3. PICK n \in Bad : \A m \in Bad : n <= m
    BY <2>1, <2>2, LeastNatural
  <2>4. PICK p \in Seq(Names) : Len(p) = n /\ WordsOf(Copied(p)) # p
    BY <2>3
  <2>5. p # << >>
    BY <2>4, NothingCopied
  <2> DEFINE q == Front(p)
             c == Last(p)
  <2>6. q \in Seq(Names) /\ c \in Names /\ p = Append(q, c) /\ Len(q) = n - 1
        /\ n - 1 \in Nat
    <3> HIDE DEF Fine, Bad
    <3>1. /\ q \in Seq(Names) /\ c \in Names /\ p = Append(q, c)
          /\ Len(q) = Len(p) - 1 /\ Len(p) \in Nat \ {0}
      BY <2>5, PathSplit
    <3>2. Len(p) = n
      BY <2>4
    <3> QED  BY <3>1, <3>2
  <2> HIDE DEF q, c
  <2>7. WordsOf(Copied(q)) = q
    <3>1. n - 1 \notin Bad
      BY <2>3, <2>6
    <3> QED  BY <2>6, <3>1
  <2> DEFINE text == Copied(q)
  <2>8. q \in Seq(Components) /\ c \in Components /\ c \in Symbol /\ Slash \in Symbol
        /\ c # Slash
    BY <2>6, SlashIsNone DEF Components, Symbol
  <2>9. /\ text \in Seq(Symbol)
        /\ Copied(p) = Append(Append(text, Slash), c)
    BY <2>6, <2>8, CopiedGrows, ComponentCopied
  <2> HIDE DEF text
  <2>10. WordsOf(Append(Append(text, Slash), c)) = Append(WordsOf(text), c)
    <3>1. Append(text, Slash) \in Seq(Symbol)
      BY <2>8, <2>9
    <3>2. WordsOf(Append(text, Slash)) = WordsOf(text)
      BY <2>8, <2>9, WordsGrow
    <3> QED  BY <2>8, <3>1, <3>2, WordsGrow
  <2> QED  BY <2>4, <2>6, <2>7, <2>9, <2>10 DEF text
<1>2. Len(path) \in Nat
  OBVIOUS
<1>3. WordsOf(Copied(path)) = path
  BY <1>1, <1>2
<1> QED  BY <1>3 DEF RelativeComponents, Copied

\* What is kept of a path in the two normal forms, and of one component more.
Agree(path) ==
  /\ WordsOf(Copied(path)) = NormalizeFsPath(path)
  /\ Len(NormalizeFsPath(path)) <= Len(path)

LEMMA AgreeName ==
  ASSUME NEW path \in Seq(Components), Agree(path), Len(path) < MaxDepth,
         NEW c \in Names
  PROVE  /\ Agree(Append(path, c))
         /\ Copied(Append(path, c)) = Append(Append(Copied(path), Slash), c)
         /\ NormalizeFsPath(Append(path, c)) = Append(NormalizeFsPath(path), c)
<1> DEFINE text == Copied(path)
           kept == NormalizeFsPath(path)
<1>1. c \in Components /\ c \in Symbol /\ Slash \in Symbol /\ c # Slash
      /\ c # Dot /\ c # DotDot
  BY SlashIsNone, DirectoriesAssumption DEF Components, Symbol, Dot, DotDot
<1>2. /\ text \in Seq(Symbol) /\ kept \in Seq(Names)
      /\ Copied(Append(path, c)) = Append(Append(text, Slash), c)
      /\ NormalizeFsPath(Append(path, c)) = KeepComponent(kept, c)
      /\ WordsOf(text) = kept /\ Len(kept) <= Len(path)
  BY <1>1, CopiedGrows, ComponentCopied, NormalizeGrows DEF Agree
<1> HIDE DEF text, kept
<1>3. Len(kept) < MaxDepth /\ Len(Append(path, c)) = Len(path) + 1
      /\ Len(Append(kept, c)) = Len(kept) + 1 /\ Len(kept) \in Nat /\ Len(path) \in Nat
  BY <1>2, PathsAssumption
<1>4. KeepComponent(kept, c) = Append(kept, c)
  BY <1>1, <1>3 DEF KeepComponent
<1>5. WordsOf(Append(Append(text, Slash), c)) = Append(kept, c)
  <2>1. Append(text, Slash) \in Seq(Symbol)
    BY <1>1, <1>2
  <2>2. WordsOf(Append(text, Slash)) = kept
    BY <1>1, <1>2, WordsGrow
  <2> QED  BY <1>1, <2>1, <2>2, WordsGrow
<1> QED  BY <1>2, <1>3, <1>4, <1>5 DEF Agree, text, kept

LEMMA AgreeDot ==
  ASSUME NEW path \in Seq(Components), Agree(path)
  PROVE  Agree(Append(path, Dot))
<1> DEFINE text == Copied(path)
           kept == NormalizeFsPath(path)
<1>1. Dot \in Components /\ Slash \in Symbol
  BY DEF Components, Symbol
<1>2. /\ text \in Seq(Symbol) /\ kept \in Seq(Names)
      /\ Copied(Append(path, Dot)) = Append(text, Slash)
      /\ NormalizeFsPath(Append(path, Dot)) = KeepComponent(kept, Dot)
      /\ WordsOf(text) = kept /\ Len(kept) <= Len(path)
  BY <1>1, CopiedGrows, ComponentCopied, NormalizeGrows DEF Agree
<1> HIDE DEF text, kept
<1>3. KeepComponent(kept, Dot) = kept
  BY DEF KeepComponent, Dot, DotDot
<1>4. WordsOf(Append(text, Slash)) = kept
  BY <1>1, <1>2, WordsGrow
<1>5. Len(Append(path, Dot)) = Len(path) + 1 /\ Len(kept) \in Nat /\ Len(path) \in Nat
  BY <1>2
<1> QED  BY <1>2, <1>3, <1>4, <1>5 DEF Agree

\* Only behind a name, or at the start, does ".." take back what it should.
LEMMA AgreeDotDot ==
  ASSUME NEW path \in Seq(Components), Agree(path), Len(path) < MaxDepth,
         NEW c \in Names
  PROVE  Agree(Append(Append(path, c), DotDot))
<1> DEFINE text == Copied(path)
           kept == NormalizeFsPath(path)
           longer == Append(path, c)
<1>1. c \in Components /\ DotDot \in Components /\ Slash \in Symbol
      /\ longer \in Seq(Components)
  BY DEF Components, Symbol
<1>2. /\ Copied(longer) = Append(Append(text, Slash), c)
      /\ NormalizeFsPath(longer) = Append(kept, c)
  BY AgreeName
<1>3. /\ text \in Seq(Symbol) /\ kept \in Seq(Names)
      /\ WordsOf(text) = kept /\ Len(kept) <= Len(path)
  BY <1>1, CopiedGrows, NormalizeGrows DEF Agree
<1>4. /\ Copied(Append(longer, DotDot))
            = CopyComponent(Append(Copied(longer), Slash), DotDot)
      /\ NormalizeFsPath(Append(longer, DotDot))
            = KeepComponent(NormalizeFsPath(longer), DotDot)
  BY <1>1, CopiedGrows, NormalizeGrows
<1>5. Len(Append(longer, DotDot)) = Len(path) + 2 /\ Len(path) \in Nat
  BY <1>1
<1> HIDE DEF text, kept, longer
<1>6. Copied(Append(longer, DotDot)) = Append(text, Slash)
  BY <1>2, <1>3, <1>4, ComponentCopied
<1>7. KeepComponent(Append(kept, c), DotDot) = kept
  <2>1. Append(kept, c) # << >> /\ Front(Append(kept, c)) = kept
    BY <1>3 DEF Front
  <2> QED  BY <2>1 DEF KeepComponent, Dot, DotDot
<1>8. WordsOf(Append(text, Slash)) = kept
  BY <1>1, <1>3, WordsGrow
<1>9. Len(kept) \in Nat
  BY <1>3
<1>10. Agree(Append(longer, DotDot))
  BY <1>2, <1>3, <1>4, <1>5, <1>6, <1>7, <1>8, <1>9 DEF Agree
<1> QED  BY <1>10 DEF longer

LEMMA AgreeAtStart == Agree(<<DotDot>>)
<1> DEFINE empty == << >>
<1>1. empty \in Seq(Components) /\ DotDot \in Components /\ Slash \in Symbol
      /\ empty \in Seq(Symbol)
  BY DEF Components, Symbol
<1>2. Copied(empty) = << >> /\ NormalizeFsPath(empty) = << >> /\ WordsOf(empty) = << >>
  BY NothingCopied
<1>3. /\ Copied(Append(empty, DotDot)) = CopyComponent(Append(Copied(empty), Slash), DotDot)
      /\ NormalizeFsPath(Append(empty, DotDot))
            = KeepComponent(NormalizeFsPath(empty), DotDot)
      /\ WordsOf(Append(empty, Slash)) = WordsOf(empty)
  BY <1>1, CopiedGrows, NormalizeGrows, WordsGrow
<1>4. Append(<< >>, DotDot) = <<DotDot>> /\ Append(<< >>, Slash) = <<Slash>>
      /\ Len(<< >>) = 0 /\ Len(<<DotDot>>) = 1
  OBVIOUS
<1>5. CopyComponent(<<Slash>>, DotDot) = <<Slash>>
  BY <1>1, ComponentCopied
<1>6. KeepComponent(<< >>, DotDot) = << >>
  BY DEF KeepComponent, Dot, DotDot
<1>7. Copied(<<DotDot>>) = <<Slash>> /\ NormalizeFsPath(<<DotDot>>) = << >>
      /\ WordsOf(<<Slash>>) = << >>
  BY <1>2, <1>3, <1>4, <1>5, <1>6
<1> QED  BY <1>4, <1>7 DEF Agree

\* A path that is not too deep, and in which no ".." stands directly behind
\* "." or "..", has one normal form: "cd" shows the directory that is looked
\* up, and mkdir makes what is opened later.
THEOREM NormalFormsMeet ==
  ASSUME NEW path \in Seq(Components), Len(path) <= MaxDepth
  PROVE  FormsAgree(path)
<1> DEFINE Fine(n) == \A p \in Seq(Components) :
                        Len(p) = n /\ n <= MaxDepth /\ ~DotsTogether(p) => Agree(p)
           Bad == {n \in Nat : ~Fine(n)}
<1>1. Bad = {}
  <2>1. SUFFICES ASSUME Bad # {} PROVE FALSE
    OBVIOUS
  <2>2. Bad \in SUBSET Nat
    OBVIOUS
  <2>3. PICK n \in Bad : \A m \in Bad : n <= m
    BY <2>1, <2>2, LeastNatural
  <2>4. PICK p \in Seq(Components) :
          Len(p) = n /\ n <= MaxDepth /\ ~DotsTogether(p) /\ ~Agree(p)
    BY <2>3
  <2>5. p # << >>
    <3>1. Agree(<< >>)
      BY NothingCopied DEF Agree
    <3> QED  BY <2>4, <3>1
  <2> DEFINE q == Front(p)
             c == Last(p)
  <2>6. /\ q \in Seq(Components) /\ c \in Components /\ p = Append(q, c)
        /\ Len(q) = n - 1 /\ n \in Nat \ {0} /\ c = p[n]
        /\ \A k \in 1 .. n - 1 : q[k] = p[k]
    <3> HIDE DEF Bad
    <3>1. /\ q \in Seq(Components) /\ c \in Components /\ p = Append(q, c)
          /\ Len(q) = Len(p) - 1 /\ Len(p) \in Nat \ {0} /\ c = p[Len(p)]
          /\ \A k \in 1 .. Len(p) - 1 : q[k] = p[k]
      BY <2>5, PathSplit
    <3>2. Len(p) = n
      BY <2>4
    <3> QED  BY <3>1, <3>2
  <2> HIDE DEF q, c
  <2>7. ~DotsTogether(q)
    <3>1. \A k \in 2 .. Len(q) : k \in 2 .. Len(p) /\ k \in 1 .. n - 1 /\ k - 1 \in 1 .. n - 1
      BY <2>4, <2>6
    <3> QED  BY <2>4, <2>6, <3>1 DEF DotsTogether
  <2>8. n - 1 \in Nat /\ n - 1 \notin Bad /\ MaxDepth \in Nat
    BY <2>3, <2>6, PathsAssumption
  <2>9. Agree(q) /\ Len(q) < MaxDepth
    BY <2>4, <2>6, <2>7, <2>8
  <2>10. CASE c \in Names
    BY <2>4, <2>6, <2>9, <2>10, AgreeName
  <2>11. CASE c = Dot
    BY <2>4, <2>6, <2>9, <2>11, AgreeDot
  <2>12. CASE c = DotDot /\ q = << >>
    <3>1. p = <<DotDot>>
      BY <2>6, <2>12
    <3> QED  BY <2>4, <3>1, AgreeAtStart
  <2>13. CASE c = DotDot /\ q # << >>
    <3> DEFINE u == Front(q)
               d == Last(q)
    <3>1. /\ u \in Seq(Components) /\ d \in Components /\ q = Append(u, d)
          /\ Len(u) = Len(q) - 1 /\ d = q[Len(q)] /\ Len(q) \in Nat \ {0}
          /\ \A k \in 1 .. Len(q) - 1 : u[k] = q[k]
      BY <2>6, <2>13, PathSplit
    <3> HIDE DEF u, d
    <3>2. n \in 2 .. Len(p) /\ n - 1 = Len(q) /\ n - 1 \in 1 .. n - 1
      BY <2>4, <2>6, <3>1
    <3>3. d = p[n - 1] /\ d \notin {Dot, DotDot}
      BY <2>4, <2>6, <2>13, <3>1, <3>2 DEF DotsTogether
    <3>4. d \in Names
      BY <3>1, <3>3 DEF Components
    <3>5. ~DotsTogether(u)
      <4>1. \A k \in 2 .. Len(u) : k \in 2 .. Len(q) /\ k \in 1 .. Len(q) - 1
                                   /\ k - 1 \in 1 .. Len(q) - 1
        BY <3>1
      <4> QED  BY <2>7, <3>1, <4>1 DEF DotsTogether
    <3>6. Len(u) \in Nat /\ Len(u) < n /\ Len(u) < MaxDepth
      BY <2>6, <2>9, <3>1, <2>8
    <3>7. Len(u) \notin Bad
      BY <2>3, <2>6, <3>6
    <3>8. Agree(u)
      BY <2>8, <3>1, <3>5, <3>6, <3>7
    <3>9. Agree(Append(Append(u, d), DotDot))
      BY <3>1, <3>4, <3>6, <3>8, AgreeDotDot
    <3> QED  BY <2>4, <2>6, <2>13, <3>1, <3>9
  <2>14. c \in Names \/ c = Dot \/ c = DotDot
    BY <2>6 DEF Components
  <2> QED  BY <2>10, <2>11, <2>12, <2>13, <2>14
<1>2. Len(path) \in Nat
  OBVIOUS
<1>3. ~DotsTogether(path) => Agree(path)
  BY <1>1, <1>2
<1> QED  BY <1>3 DEF FormsAgree, Agree, RelativeComponents, Copied

--------------------------------------------------------------------------------
(* Trees without links: a path of names leads along the names from the     *)
(* root, and two paths never to the same.                                  *)

\* Induction over the numbers from a to b.
LEMMA StepByStep ==
  ASSUME NEW a \in Nat, NEW b \in Nat, NEW S, a \in S,
         \A n \in a + 1 .. b : n - 1 \in S => n \in S
  PROVE  a .. b \subseteq S
<1> DEFINE Bad == a .. b \ S
<1>1. SUFFICES ASSUME Bad # {} PROVE FALSE
  OBVIOUS
<1>2. Bad \in SUBSET Nat
  OBVIOUS
<1>3. PICK n \in Bad : \A m \in Bad : n <= m
  BY <1>1, <1>2, LeastNatural
<1>4. n \in a + 1 .. b /\ n - 1 \in a .. b /\ n - 1 < n
  BY <1>3
<1>5. n - 1 \in S
  BY <1>3, <1>4
<1> QED  BY <1>3, <1>4, <1>5

Linkless(f) == \A i \in Inodes : f.node[i].type # "symlink"

Walker == [at : Inodes, rest : Seq(Names), links : {0}, ok : BOOLEAN]

\* A step of a walk that no link bends.
PlainStep(f, w, v) ==
  LET next == FindEntry(f, w.at, Head(w.rest))
  IN  v.rest = Tail(w.rest) /\ (v.ok <=> next # NoInode) /\ (v.ok => v.at = next)

LEMMA PlainAdvance ==
  ASSUME NEW f, Sound(f), Linkless(f), NEW w \in Walker
  PROVE  /\ Advance(f, w) \in Walker
         /\ w.rest = << >> \/ ~w.ok => Advance(f, w) = w
         /\ w.rest # << >> /\ w.ok => PlainStep(f, w, Advance(f, w))
<1>1. CASE w.rest = << >> \/ ~w.ok
  BY <1>1 DEF Advance
<1>2. CASE w.rest # << >> /\ w.ok
  <2> DEFINE name == Head(w.rest)
             next == FindEntry(f, w.at, name)
             rest == Tail(w.rest)
             left == [w EXCEPT !.rest = Tail(@)]
  <2>1. /\ name \in Names /\ rest \in Seq(Names) /\ w.links = 0 /\ w.at \in Inodes
        /\ w.ok = TRUE
    BY <1>2 DEF Walker
  <2>2. name \notin {Dot, DotDot}
    BY <2>1, DirectoriesAssumption DEF Dot, DotDot
  <2>3. Advance(f, w) = Enter(f, w, name)
    <3>1. ~(w.links >= MaxLinks)
      BY <2>1, PathsAssumption
    <3> QED  BY <1>2, <2>2, <3>1 DEF Advance
  <2>4. next \in Inodes \cup {NoInode}
    BY <2>1, Found
  <2>5. left = [at |-> w.at, rest |-> rest, links |-> 0, ok |-> TRUE]
    <3>1. w = [at |-> w.at, rest |-> w.rest, links |-> w.links, ok |-> w.ok]
      BY DEF Walker
    <3>2. [w EXCEPT !.rest = rest]
             = [at |-> w.at, rest |-> rest, links |-> w.links, ok |-> w.ok]
      <4> HIDE DEF rest
      <4> QED  BY <3>1
    <3> QED  BY <2>1, <3>2
  <2>6. Enter(f, w, name) = IF next = NoInode THEN [left EXCEPT !.ok = FALSE]
                            ELSE [left EXCEPT !.at = next]
    BY <2>2, <2>4 DEF Enter, Linkless
  <2> HIDE DEF left
  <2>7. Advance(f, w) = IF next = NoInode
                        THEN [at |-> w.at, rest |-> rest, links |-> 0, ok |-> FALSE]
                        ELSE [at |-> next, rest |-> rest, links |-> 0, ok |-> TRUE]
    BY <2>3, <2>5, <2>6
  <2> DEFINE v == Advance(f, w)
  <2>8. CASE next = NoInode
    <3>1. v = [at |-> w.at, rest |-> rest, links |-> 0, ok |-> FALSE]
      BY <2>7, <2>8
    <3> HIDE DEF v, next, rest
    <3>2. v \in Walker /\ v.rest = rest /\ v.ok = FALSE
      BY <2>1, <3>1 DEF Walker
    <3> QED  BY <1>2, <2>8, <3>2 DEF PlainStep, v, next, rest
  <2>9. CASE next # NoInode
    <3>1. v = [at |-> next, rest |-> rest, links |-> 0, ok |-> TRUE]
      BY <2>7, <2>9
    <3> HIDE DEF v, next, rest
    <3>2. v \in Walker /\ v.rest = rest /\ v.ok = TRUE /\ v.at = next
      BY <2>1, <2>4, <2>9, <3>1 DEF Walker
    <3> QED  BY <1>2, <2>9, <3>2 DEF PlainStep, v, next, rest
  <2> QED  BY <2>8, <2>9
<1> QED  BY <1>1, <1>2

\* The inodes on the way, NoInode behind a name that is not there.
Way(f, path, a) ==
  /\ a[0] = Root
  /\ \A n \in 1 .. Len(path) :
        a[n] = IF a[n - 1] = NoInode THEN NoInode ELSE FindEntry(f, a[n - 1], path[n])

\* What is left of a path after n of its names.
Remains(path, n, rest) ==
  /\ Len(rest) = Len(path) - n
  /\ \A k \in 1 .. Len(path) - n : rest[k] = path[n + k]

LEMMA WayThere ==
  ASSUME NEW f, Sound(f), Linkless(f), NEW path \in Seq(Names)
  PROVE  \E a : Way(f, path, a) /\ a[Len(path)] = ResolvePath(f, path)
<1>1. path \in Seq(Components) /\ RelativeComponents(path) = path
  BY PlainPath DEF Components
<1>2. PICK g : /\ \A n \in 0 .. Steps(path) : g[n] = Step(g, f, path, n)
               /\ ResolvePath(f, path) = IF g[Steps(path)].ok
                                             /\ g[Steps(path)].links < MaxLinks
                                          THEN g[Steps(path)].at ELSE NoInode
  BY <1>1, Walked
<1> DEFINE L == Len(path)
           Z == Steps(path)
<1>3. L \in Nat /\ Z \in Nat /\ L <= Z
  <2>1. MaxLinks * MaxTarget \in Nat
    BY PathsAssumption
  <2> QED  BY <2>1 DEF Steps
<1>4. g[0] = [at |-> Root, rest |-> path, links |-> 0, ok |-> TRUE]
  <2>1. 0 \in 0 .. Z
    BY <1>3
  <2>2. g[0] = Step(g, f, path, 0)
    BY <1>2, <2>1
  <2>3. Step(g, f, path, 0) = WalkStart(path)
    BY DEF Step
  <2>4. WalkStart(path) = [at |-> Root, rest |-> path, links |-> 0, ok |-> TRUE]
    BY <1>1 DEF WalkStart
  <2> QED  BY <2>2, <2>3, <2>4
<1>5. \A n \in 1 .. Z : g[n] = Advance(f, g[n - 1])
  BY <1>2, <1>3 DEF Step
<1> HIDE DEF Z
<1> DEFINE Fine(n) == /\ g[n] \in Walker
                      /\ g[n].ok => Remains(path, n, g[n].rest)
           S == {n \in 0 .. L : Fine(n)}
<1>6. Fine(0)
  <2>1. g[0] \in Walker /\ g[0].rest = path
    BY <1>4, RootIsInode DEF Walker
  <2>2. Remains(path, 0, path)
    BY <1>3 DEF Remains
  <2> QED  BY <2>1, <2>2
<1>7. ASSUME NEW n \in 1 .. L, Fine(n - 1)
      PROVE  /\ Fine(n)
             /\ g[n - 1].ok => PlainStep(f, g[n - 1], g[n])
                               /\ Head(g[n - 1].rest) = path[n]
             /\ ~g[n - 1].ok => ~g[n].ok
  <2> DEFINE w == g[n - 1]
             v == g[n]
  <2>1. v = Advance(f, w) /\ w \in Walker /\ (w.ok => Remains(path, n - 1, w.rest))
    BY <1>3, <1>5, <1>7
  <2>0. n \in Nat /\ n >= 1 /\ n <= L
    BY <1>3
  <2> HIDE DEF v, w
  <2>2. /\ v \in Walker
        /\ w.rest = << >> \/ ~w.ok => v = w
        /\ w.rest # << >> /\ w.ok => PlainStep(f, w, v)
    BY <2>1, PlainAdvance
  <2>3. ASSUME w.ok
        PROVE  PlainStep(f, w, v) /\ Remains(path, n, v.rest) /\ Head(w.rest) = path[n]
    <3>1. w.rest \in Seq(Names)
      BY <2>1 DEF Walker
    <3>2. Remains(path, n - 1, w.rest)
      BY <2>1, <2>3
    <3>3. Len(w.rest) = L - n + 1 /\ L - n + 1 >= 1
      BY <1>3, <2>0, <3>2 DEF Remains
    <3>4. w.rest # << >> /\ Head(w.rest) = w.rest[1]
      BY <3>1, <3>3
    <3>5. PlainStep(f, w, v) /\ v.rest = Tail(w.rest)
      BY <2>2, <2>3, <3>4 DEF PlainStep
    <3>6. Len(Tail(w.rest)) = L - n /\ \A k \in 1 .. L - n : Tail(w.rest)[k] = w.rest[k + 1]
      BY <1>3, <2>0, <3>1, <3>3, <3>4
    <3>7. \A k \in 0 .. L - n : k + 1 \in 1 .. L - (n - 1) /\ n - 1 + (k + 1) = n + k
      BY <1>3, <2>0
    <3>8. \A k \in 0 .. L - n : w.rest[k + 1] = path[n + k]
      <4> TAKE k \in 0 .. L - n
      <4> DEFINE m == k + 1
      <4>1. m \in 1 .. L - (n - 1) /\ n - 1 + m = n + k
        BY <3>7
      <4> HIDE DEF m
      <4>2. w.rest[m] = path[n - 1 + m]
        BY <3>2, <4>1 DEF Remains
      <4> QED  BY <4>1, <4>2 DEF m
    <3>9. w.rest[1] = path[n]
      <4>1. 1 \in 1 .. L - (n - 1) /\ n - 1 + 1 = n
        BY <1>3, <2>0
      <4>2. w.rest[1] = path[n - 1 + 1]
        BY <3>2, <4>1 DEF Remains
      <4> QED  BY <4>1, <4>2
    <3>10. Remains(path, n, v.rest)
      BY <1>3, <2>0, <3>5, <3>6, <3>8 DEF Remains
    <3> QED  BY <3>4, <3>5, <3>9, <3>10
  <2>4. ~w.ok => v = w
    BY <2>2
  <2> QED  BY <2>2, <2>3, <2>4 DEF v, w
<1>8. \A n \in 0 .. L : Fine(n)
  <2>1. 0 \in S
    BY <1>3, <1>6
  <2>2. \A n \in 0 + 1 .. L : n - 1 \in S => n \in S
    BY <1>3, <1>7
  <2> HIDE DEF Fine
  <2>3. 0 .. L \subseteq S
    <3> HIDE DEF S
    <3> QED  BY <1>3, <2>1, <2>2, StepByStep
  <2> QED  BY <2>3
<1> DEFINE a == [n \in 0 .. L |-> IF g[n].ok THEN g[n].at ELSE NoInode]
<1>9. a[0] = Root
  BY <1>3, <1>4
<1>10. ASSUME NEW n \in 1 .. L
       PROVE  a[n] = IF a[n - 1] = NoInode THEN NoInode
                     ELSE FindEntry(f, a[n - 1], path[n])
  <2>1. n - 1 \in 0 .. L /\ n \in 0 .. L
    BY <1>3
  <2>2. Fine(n - 1) /\ Fine(n)
    BY <1>8, <2>1
  <2>3. /\ g[n - 1].ok => PlainStep(f, g[n - 1], g[n]) /\ Head(g[n - 1].rest) = path[n]
        /\ ~g[n - 1].ok => ~g[n].ok
    BY <1>7, <2>2
  <2>4. /\ a[n - 1] = IF g[n - 1].ok THEN g[n - 1].at ELSE NoInode
        /\ a[n] = IF g[n].ok THEN g[n].at ELSE NoInode
    BY <2>1
  <2>5. g[n - 1].at # NoInode
    BY <2>2, RootIsInode DEF Walker
  <2> HIDE DEF a, Fine
  <2> QED  BY <2>3, <2>4, <2>5 DEF PlainStep
<1>11. \A n \in L .. Z : g[n] = g[L]
  <2> DEFINE T == {n \in L .. Z : g[n] = g[L]}
  <2>1. g[L] \in Walker /\ (g[L].ok => g[L].rest = << >>)
    <3>1. Fine(L)
      BY <1>3, <1>8
    <3>2. g[L].ok => Len(g[L].rest) = 0
      BY <1>3, <3>1 DEF Remains
    <3> QED  BY <3>1, <3>2 DEF Walker
  <2>2. \A n \in L + 1 .. Z : n - 1 \in T => n \in T
    <3>1. Advance(f, g[L]) = g[L]
      BY <2>1, PlainAdvance
    <3> QED  BY <1>3, <1>5, <3>1
  <2>3. L \in T
    BY <1>3
  <2>4. L .. Z \subseteq T
    <3> HIDE DEF T
    <3> QED  BY <1>3, <2>2, <2>3, StepByStep
  <2> QED  BY <2>4
<1>12. a[L] = ResolvePath(f, path)
  <2>1. g[Z] = g[L] /\ Fine(L) /\ L \in 0 .. L
    BY <1>3, <1>8, <1>11
  <2>2. g[Z].links < MaxLinks
    BY <2>1, PathsAssumption DEF Walker
  <2>3. ResolvePath(f, path) = IF g[L].ok THEN g[L].at ELSE NoInode
    BY <1>2, <2>1, <2>2 DEF Z
  <2> QED  BY <2>1, <2>3
<1> HIDE DEF a
<1> QED  BY <1>9, <1>10, <1>12 DEF Way

\* Two paths are the same up to the m-th name.
Alike(p, q, m) ==
  m \in Nat /\ m <= Len(p) /\ m <= Len(q) /\ \A k \in 1 .. m : p[k] = q[k]

LEMMA WaysMeet ==
  ASSUME NEW f, NEW p \in Seq(Names), NEW q \in Seq(Names), NEW a, NEW b,
         Way(f, p, a), Way(f, q, b), NEW m, Alike(p, q, m)
  PROVE  a[m] = b[m]
<1> USE DEF Alike
<1> DEFINE S == {n \in 0 .. m : a[n] = b[n]}
<1>1. 0 \in S
  BY DEF Way
<1>2. ASSUME NEW n \in 0 + 1 .. m, n - 1 \in S
      PROVE  n \in S
  <2>1. n \in 1 .. Len(p) /\ n \in 1 .. Len(q) /\ p[n] = q[n] /\ a[n - 1] = b[n - 1]
    BY <1>2
  <2>2. a[n] = b[n]
    BY <2>1, Zenon DEF Way
  <2> QED  BY <1>2, <2>2
<1>3. 0 .. m \subseteq S
  <2> HIDE DEF S
  <2> QED  BY <1>1, <1>2, StepByStep
<1>4. m \in 0 .. m
  OBVIOUS
<1>5. \A n \in S : a[n] = b[n]
  OBVIOUS
<1>6. m \in S
  <2> HIDE DEF S
  <2> QED  BY <1>3, <1>4
<1> HIDE DEF S
<1> QED  BY <1>5, <1>6

\* A path leads where its last name leads from where the rest leads.
LEMMA PlainResolved ==
  ASSUME NEW f, Sound(f), Linkless(f), NEW path \in Seq(Names), path # << >>
  PROVE  LET h == ResolvePath(f, Front(path))
         IN  ResolvePath(f, path) = IF h = NoInode THEN NoInode
                                    ELSE FindEntry(f, h, Last(path))
<1> DEFINE q == Front(path)
           n == Len(path)
<1>1. /\ q \in Seq(Names) /\ Len(q) = n - 1 /\ Last(path) = path[n] /\ n \in Nat \ {0}
      /\ \A k \in 1 .. n - 1 : q[k] = path[k]
  BY PathSplit
<1> HIDE DEF q
<1>2. PICK a : Way(f, path, a) /\ a[n] = ResolvePath(f, path)
  BY WayThere
<1>3. PICK b : Way(f, q, b) /\ b[n - 1] = ResolvePath(f, q)
  BY <1>1, WayThere
<1>4. a[n - 1] = b[n - 1]
  <2> DEFINE m == n - 1
  <2>1. Alike(path, q, m)
    BY <1>1 DEF Alike
  <2> HIDE DEF m
  <2>2. a[m] = b[m]
    BY <1>1, <1>2, <1>3, <2>1, WaysMeet
  <2> QED  BY <2>2 DEF m
<1>5. a[n] = IF a[n - 1] = NoInode THEN NoInode ELSE FindEntry(f, a[n - 1], path[n])
  <2>1. n \in 1 .. Len(path)
    BY <1>1
  <2> QED  BY <1>2, <2>1 DEF Way
<1> QED  BY <1>1, <1>2, <1>3, <1>4, <1>5 DEF q

\* The last name leads there, from where the rest leads.
LEMMA LastLeads ==
  ASSUME NEW f, Sound(f), Linkless(f), NEW path \in Seq(Names), path # << >>,
         ResolvePath(f, path) # NoInode
  PROVE  /\ ResolvePath(f, Front(path)) \in Inodes
         /\ Leads(f, ResolvePath(f, Front(path)), Last(path), ResolvePath(f, path))
<1> DEFINE h == ResolvePath(f, Front(path))
           name == Last(path)
<1>1. Front(path) \in Seq(Names) /\ name \in Names
  BY PathSplit
<1>2. Front(path) \in Seq(Components) /\ name \notin {Dot, DotDot}
  BY <1>1, DirectoriesAssumption DEF Components, Dot, DotDot
<1>3. ResolvePath(f, path) = IF h = NoInode THEN NoInode ELSE FindEntry(f, h, name)
  BY PlainResolved
<1>4. h \in Inodes
  BY <1>2, <1>3, Resolved
<1> HIDE DEF h, name
<1>5. Holds(f, h, name) /\ ResolvePath(f, path) = FindEntry(f, h, name)
  BY <1>3, <1>4, RootIsInode DEF FindEntry
<1>6. Leads(f, h, name, FindEntry(f, h, name))
  BY <1>2, <1>4, <1>5, FoundLeads
<1> QED  BY <1>4, <1>5, <1>6 DEF h, name

LEMMA NameLeadsOn ==
  ASSUME NEW f, Sound(f), Linkless(f), Tidy(f), NEW path \in Seq(Names),
         ResolvePath(f, path) \in Inodes, NEW name \in Names, NEW j,
         Leads(f, ResolvePath(f, path), name, j)
  PROVE  ResolvePath(f, Append(path, name)) = j
<1> DEFINE p == Append(path, name)
           h == ResolvePath(f, path)
<1>1. p \in Seq(Names) /\ p # << >> /\ Front(p) = path /\ Last(p) = name
  <2>1. Len(p) = Len(path) + 1
    OBVIOUS
  <2>2. SubSeq(p, 1, Len(p) - 1) = path /\ p[Len(p)] = name
    OBVIOUS
  <2>3. p \in Seq(Names)
    OBVIOUS
  <2>4. p # << >>
    <3>1. Len(path) \in Nat /\ Len(<< >>) = 0
      OBVIOUS
    <3>2. Len(p) # 0
      BY <2>1, <3>1
    <3> HIDE DEF p
    <3> QED  BY <3>1, <3>2
  <2> HIDE DEF p
  <2> QED  BY <2>2, <2>3, <2>4 DEF Front, Last
<1> HIDE DEF p
<1>2. ResolvePath(f, p) = IF h = NoInode THEN NoInode ELSE FindEntry(f, h, name)
  BY <1>1, PlainResolved
<1>3. FindEntry(f, h, name) = j
  BY LeadsFound DEF Tidy
<1> QED  BY <1>2, <1>3, RootIsInode DEF p

\* Two paths of names never lead to the same.
LEMMA PathsDiffer ==
  ASSUME NEW f, Sound(f), Linkless(f), Tidy(f), NEW p \in Seq(Names),
         NEW q \in Seq(Names), ResolvePath(f, p) = ResolvePath(f, q),
         ResolvePath(f, p) # NoInode
  PROVE  p = q
<1> DEFINE Same(n) == \A a, b \in Seq(Names) :
                         /\ Len(a) = n /\ ResolvePath(f, a) = ResolvePath(f, b)
                         /\ ResolvePath(f, a) # NoInode
                         => a = b
           Bad == {n \in Nat : ~Same(n)}
<1>1. ASSUME NEW a \in Seq(Names), a # << >>, ResolvePath(f, a) # NoInode
      PROVE  ResolvePath(f, a) # Root
  <2>1. /\ ResolvePath(f, Front(a)) \in Inodes
        /\ Leads(f, ResolvePath(f, Front(a)), Last(a), ResolvePath(f, a))
    BY <1>1, LastLeads
  <2>2. Last(a) \in Names
    BY <1>1, PathSplit
  <2>3. Last(a) \notin {Dot, DotDot}
    BY <2>2, DirectoriesAssumption DEF Dot, DotDot
  <2>4. FindEntry(f, ResolvePath(f, Front(a)), Last(a)) = ResolvePath(f, a)
    BY <2>1, LeadsFound DEF Tidy
  <2> QED  BY <2>1, <2>3, <2>4, Found
<1>2. SUFFICES ASSUME Bad # {} PROVE FALSE
  <2>1. Len(p) \in Nat
    OBVIOUS
  <2> QED  BY <2>1
<1>3. Bad \in SUBSET Nat
  OBVIOUS
<1>4. PICK n \in Bad : \A m \in Bad : n <= m
  BY <1>2, <1>3, LeastNatural
<1>5. PICK a, b \in Seq(Names) :
        /\ Len(a) = n /\ ResolvePath(f, a) = ResolvePath(f, b)
        /\ ResolvePath(f, a) # NoInode /\ a # b
  BY <1>4
<1>6. a # << >> /\ b # << >>
  BY <1>1, <1>5, RootResolved
<1> DEFINE c == Front(a)
           d == Front(b)
<1>7. /\ c \in Seq(Names) /\ d \in Seq(Names) /\ Len(c) = n - 1 /\ n - 1 \in Nat
      /\ a = Append(c, Last(a)) /\ b = Append(d, Last(b))
  <2>1. a \in Seq(Names) /\ b \in Seq(Names) /\ n = Len(a)
    BY <1>5
  <2>2. /\ c \in Seq(Names) /\ Len(c) = Len(a) - 1 /\ a = Append(c, Last(a))
        /\ Len(a) \in Nat \ {0}
    BY <1>6, <2>1, PathSplit
  <2>3. d \in Seq(Names) /\ b = Append(d, Last(b))
    BY <1>6, <2>1, PathSplit
  <2> HIDE DEF c, d
  <2> QED  BY <2>1, <2>2, <2>3
<1>8. /\ ResolvePath(f, c) \in Inodes /\ ResolvePath(f, d) \in Inodes
      /\ Leads(f, ResolvePath(f, c), Last(a), ResolvePath(f, a))
      /\ Leads(f, ResolvePath(f, d), Last(b), ResolvePath(f, b))
  BY <1>5, <1>6, LastLeads
<1>9. ResolvePath(f, c) = ResolvePath(f, d) /\ Last(a) = Last(b)
  BY <1>5, <1>8 DEF Tidy
<1> HIDE DEF c, d
<1>10. c = d
  <2>1. n - 1 \notin Bad
    BY <1>4, <1>7
  <2>2. Same(n - 1)
    BY <1>7, <2>1
  <2> QED  BY <1>7, <1>8, <1>9, <2>2, RootIsInode
<1> QED  BY <1>5, <1>7, <1>9, <1>10

--------------------------------------------------------------------------------
(* What a call may make of a tree.                                         *)

\* What is free has no entries.
Bare(f) == \A i \in Inodes : ~f.node[i].used => f.node[i].entries = << >>

ClosedNames(f, T) == \A h \in T : \A n, j : Leads(f, h, n, j) => j \in T

\* Every set that has the root and is closed has all inodes in use.
AllReached(f) ==
  \A T \in SUBSET Inodes :
     Root \in T /\ ClosedNames(f, T) => \A i \in Inodes : f.node[i].used => i \in T

Plain(f) ==
  /\ Sound(f) /\ Tidy(f) /\ Upright(f)
  /\ Linkless(f) /\ Bare(f) /\ AllReached(f)

\* All but i are in use as they were.
OthersStay(f, g, i) ==
  \A j \in Inodes :
     j # i => /\ g.node[j].used <=> f.node[j].used
              /\ f.node[j].used => g.node[j].type = f.node[j].type

IsUsedDirectory(f, h) ==
  h \in Inodes /\ f.node[h].used /\ f.node[h].type = "directory"

Same(f, g) == OthersStay(f, g, NoInode) /\ SameLeads(f, g)

\* A new inode i has the name n in h.
Added(f, g, h, n, i) ==
  /\ IsUsedDirectory(f, h) /\ n \in Names /\ \A j : ~Leads(f, h, n, j)
  /\ i \in Inodes \ {Root} /\ ~f.node[i].used /\ g.node[i].used
  /\ OthersStay(f, g, i)
  /\ \A a \in Inodes : \A m, j :
        Leads(g, a, m, j) <=> Leads(f, a, m, j) \/ (a = h /\ m = n /\ j = i)

\* The inode i, in which there are no names, has lost its name n in h.
Emptied(f, g, h, n, i) ==
  /\ h \in Inodes /\ Leads(f, h, n, i) /\ i \in Inodes \ {Root}
  /\ \A m, j : ~Leads(f, i, m, j)
  /\ ~g.node[i].used /\ OthersStay(f, g, i)
  /\ \A a \in Inodes : \A m, j :
        Leads(g, a, m, j) <=> Leads(f, a, m, j) /\ ~(a = h /\ m = n)

\* A closed set keeps k away from i.
Outside(f, k, i) ==
  \E T \in SUBSET Inodes : i \in T /\ ClosedNames(f, T) /\ k \notin T

\* The name of i is m in k now, and was n in h.
Shifted(f, g, h, n, k, m, i) ==
  /\ h \in Inodes /\ Leads(f, h, n, i) /\ i \in Inodes \ {Root}
  /\ IsUsedDirectory(f, k) /\ m \in Names /\ \A j : ~Leads(f, k, m, j)
  /\ Outside(f, k, i)
  /\ OthersStay(f, g, NoInode)
  /\ \A a \in Inodes : \A l, j :
        Leads(g, a, l, j) <=> \/ Leads(f, a, l, j) /\ ~(a = h /\ l = n)
                              \/ a = k /\ l = m /\ j = i

TreeStep(f, g) ==
  \/ Same(f, g)
  \/ \E h, n, i : Added(f, g, h, n, i) \/ Emptied(f, g, h, n, i)
  \/ \E h, n, k, m, i : Shifted(f, g, h, n, k, m, i)

LEMMA SameReaches ==
  ASSUME NEW f, NEW g, AllReached(f), Same(f, g)
  PROVE  AllReached(g)
<1> SUFFICES ASSUME NEW T \in SUBSET Inodes, Root \in T, ClosedNames(g, T),
                    NEW i \in Inodes, g.node[i].used
             PROVE  i \in T
  BY DEF AllReached
<1>1. ClosedNames(f, T)
  BY DEF ClosedNames, Same, SameLeads
<1>2. f.node[i].used
  BY RootIsInode DEF Same, OthersStay
<1> QED  BY <1>1, <1>2 DEF AllReached

LEMMA AddedReaches ==
  ASSUME NEW f, NEW g, AllReached(f), NEW h, NEW n, NEW i, Added(f, g, h, n, i)
  PROVE  AllReached(g)
<1> SUFFICES ASSUME NEW T \in SUBSET Inodes, Root \in T, ClosedNames(g, T),
                    NEW x \in Inodes, g.node[x].used
             PROVE  x \in T
  BY DEF AllReached
<1>1. ClosedNames(f, T)
  BY DEF ClosedNames, Added
<1>2. h \in T
  BY <1>1 DEF AllReached, Added, IsUsedDirectory
<1>3. i \in T
  BY <1>2 DEF Added, IsUsedDirectory, ClosedNames
<1>4. x # i => f.node[x].used
  BY DEF Added, OthersStay
<1> QED  BY <1>1, <1>3, <1>4 DEF AllReached

LEMMA DroppedReaches ==
  ASSUME NEW f, NEW g, AllReached(f), NEW h, NEW n, NEW i, Emptied(f, g, h, n, i),
         Tidy(f)
  PROVE  AllReached(g)
<1> SUFFICES ASSUME NEW T \in SUBSET Inodes, Root \in T, ClosedNames(g, T),
                    NEW x \in Inodes, g.node[x].used
             PROVE  x \in T
  BY DEF AllReached
<1> DEFINE U == T \cup {i}
<1>1. ASSUME NEW a \in U, NEW m, NEW j, Leads(f, a, m, j)
      PROVE  j \in U
  <2>1. a \in T /\ a \in Inodes
    BY <1>1 DEF Emptied
  <2>2. CASE a = h /\ m = n
    BY <1>1, <2>2 DEF Emptied, Tidy, Leads, Enters, Distinct
  <2>3. CASE ~(a = h /\ m = n)
    BY <1>1, <2>1, <2>3 DEF Emptied, ClosedNames
  <2> QED  BY <2>2, <2>3
<1>2. ClosedNames(f, U) /\ U \in SUBSET Inodes /\ Root \in U
  BY <1>1 DEF ClosedNames, Emptied
<1>3. x # i /\ f.node[x].used
  BY DEF Emptied, OthersStay
<1>4. x \in U
  <2> HIDE DEF U
  <2> QED  BY <1>2, <1>3 DEF AllReached
<1> QED  BY <1>3, <1>4

LEMMA ShiftedReaches ==
  ASSUME NEW f, NEW g, AllReached(f), Tidy(f), NEW h, NEW n, NEW k, NEW m, NEW i,
         Shifted(f, g, h, n, k, m, i)
  PROVE  AllReached(g)
<1> SUFFICES ASSUME NEW T \in SUBSET Inodes, Root \in T, ClosedNames(g, T),
                    NEW x \in Inodes, g.node[x].used
             PROVE  x \in T
  BY DEF AllReached
<1>1. PICK W \in SUBSET Inodes : i \in W /\ ClosedNames(f, W) /\ k \notin W
  BY DEF Shifted, Outside
<1>2. ASSUME NEW a \in T, NEW l, NEW j, Leads(f, a, l, j)
      PROVE  j \in T \/ j = i
  <2>1. CASE a = h /\ l = n
    BY <1>2, <2>1 DEF Shifted, Tidy, Leads, Enters, Distinct
  <2>2. CASE ~(a = h /\ l = n)
    BY <1>2, <2>2 DEF Shifted, ClosedNames
  <2> QED  BY <2>1, <2>2
<1>3. ClosedNames(f, T \cup W)
  BY <1>1, <1>2 DEF ClosedNames
<1>4. k \in T
  BY <1>1, <1>3 DEF AllReached, Shifted, IsUsedDirectory
<1>5. i \in T
  BY <1>4 DEF Shifted, IsUsedDirectory, ClosedNames
<1>6. ClosedNames(f, T)
  BY <1>2, <1>5 DEF ClosedNames
<1>7. f.node[x].used
  BY RootIsInode DEF Shifted, OthersStay
<1> QED  BY <1>6, <1>7 DEF AllReached

LEMMA StepReaches ==
  ASSUME NEW f, NEW g, AllReached(f), Tidy(f), TreeStep(f, g)
  PROVE  AllReached(g)
BY SameReaches, AddedReaches, DroppedReaches, ShiftedReaches DEF TreeStep

--------------------------------------------------------------------------------
(* What saving a directory makes of the names, to the name.                *)

\* No links, and nothing in what is free.
Simple(f) == Linkless(f) /\ Bare(f)

LEMMA SimpleListed ==
  ASSUME NEW f, Simple(f), NEW g, SameLists(f, g), SameTypes(f, g)
  PROVE  Simple(g) /\ Same(f, g)
<1>1. Simple(g)
  BY DEF Simple, Linkless, Bare, SameLists, SameTypes
<1>2. Same(f, g)
  BY DEF Same, OthersStay, SameLeads, Leads, SameLists, SameTypes
<1> QED  BY <1>1, <1>2

\* Whatever is taken away or added is in one directory that can be written.
Ready(f, dir) ==
  /\ dir \in Inodes /\ f.node[dir].used
  /\ f.node[dir].type = "directory" /\ f.node[dir].clusters >= 1

LEMMA SavedReady ==
  ASSUME OneClusterDirectories, ~WriteFaults, NEW f, Sound(f), Simple(f),
         NEW dir, Ready(f, dir), NEW new, EntryList(new), Distinct(new),
         NEW r \in SaveEntries(f, dir, new)
  PROVE  /\ r.ok /\ r.fs.node[dir].entries = new
         /\ \A i \in Inodes : i # dir => r.fs.node[i] = f.node[i]
         /\ SameUsed(f, r.fs) /\ SameTypes(f, r.fs)
         /\ Simple(r.fs) /\ Ready(r.fs, dir)
<1>1. dir \in Inodes /\ f.node[dir].clusters >= 1 /\ new \in Seq(Entry)
  BY DEF Ready, EntryList
<1>2. Clusters(new) <= 1
  BY <1>1, ShortList
<1>3. /\ \A i \in Inodes : i # dir => r.fs.node[i] = f.node[i]
      /\ r.fs.node[dir].type = f.node[dir].type
      /\ r.fs.node[dir].clusters >= f.node[dir].clusters
      /\ r.ok
  BY <1>1, <1>2, SavedRest
<1>4. AllOrNothing(f, dir, new, r)
  BY <1>1, <1>2, SavedWhole
<1>5. r.fs.node[dir].entries = new /\ SameUsed(f, r.fs)
  BY <1>3, <1>4 DEF AllOrNothing, SameUsed
<1>6. SameTypes(f, r.fs)
  BY <1>3 DEF SameTypes
<1>7. Sound(r.fs)
  BY <1>1, Saved
<1>8. r.fs.node[dir].clusters >= 1
  <2>1. r.fs.node[dir].clusters \in Nat /\ f.node[dir].clusters \in Nat
    BY <1>1, <1>7, TableCounts DEF Sound, Counts
  <2> QED  BY <1>1, <1>3, <2>1
<1>9. Simple(r.fs)
  BY <1>3, <1>5, <1>6 DEF Simple, Linkless, Bare, SameUsed, SameTypes, Ready
<1>10. Ready(r.fs, dir)
  BY <1>5, <1>6, <1>8 DEF Ready, SameUsed, SameTypes
<1> QED  BY <1>3, <1>5, <1>6, <1>9, <1>10

\* The directory named dir has i under the name.
Gained(f, g, dir, name, i) ==
  \A a \in Inodes : \A m, j :
     Leads(g, a, m, j) <=> Leads(f, a, m, j) \/ (a = dir /\ m = name /\ j = i)

LEMMA InsertLeads ==
  ASSUME OneClusterDirectories, ~WriteFaults, NEW f, Sound(f), Tidy(f), Simple(f),
         NEW dir, Ready(f, dir), NEW name \in Components \ {Dot, DotDot},
         ~Holds(f, dir, name), NEW i \in Inodes \ {Root},
         NEW r \in InsertEntry(f, dir, name, i)
  PROVE  /\ r.ok /\ Gained(f, r.fs, dir, name, i)
         /\ SameUsed(f, r.fs) /\ SameTypes(f, r.fs)
         /\ Simple(r.fs) /\ Ready(r.fs, dir)
<1> DEFINE old == f.node[dir].entries
           new == Insert(old, name, i)
<1>1. dir \in Inodes /\ f.node[dir].type = "directory"
  BY DEF Ready
<1>2. r \in SaveEntries(f, dir, new)
  BY <1>1 DEF InsertEntry
<1>3. EntryList(old) /\ Distinct(old) /\ old \in Seq(Entry)
  BY <1>1 DEF Sound, Tidy, EntryList
<1>4. EntryList(new)
  BY <1>3, ListInserted
<1>5. \A k \in 1 .. Len(old) : old[k].name # name
  <2>1. ~(Position(old, name) # {})
    BY <1>1, RootIsInode DEF Holds
  <2>2. DOMAIN old = 1 .. Len(old)
    BY <1>3
  <2> QED  BY <2>1, <2>2 DEF Position
<1> HIDE DEF old
<1>6. /\ Distinct(new)
      /\ \A n, j : Enters(new, n, j) => Enters(old, n, j) \/ (n = name /\ j = i)
      /\ \A n, j : Has(old, n, j) => Has(new, n, j)
  BY <1>3, <1>5, DistinctInserted
<1>7. Has(new, name, i)
  <2>1. PICK p \in 1 .. Len(old) + 1 :
          Len(new) = Len(old) + 1 /\ new[p] = [name |-> name, inode |-> i]
    BY <1>3, InsertShape
  <2> QED  BY <2>1 DEF Has
<1> HIDE DEF new
<1>8. \A n, j : Enters(new, n, j) <=> Enters(old, n, j) \/ (n = name /\ j = i)
  <2>1. \A n, j : Enters(old, n, j) => Enters(new, n, j)
    BY <1>6 DEF Enters, Has
  <2>2. Enters(new, name, i)
    BY <1>7 DEF Enters, Has
  <2> QED  BY <1>6, <2>1, <2>2
<1>9. /\ r.ok /\ r.fs.node[dir].entries = new
      /\ \A a \in Inodes : a # dir => r.fs.node[a] = f.node[a]
      /\ SameUsed(f, r.fs) /\ SameTypes(f, r.fs)
      /\ Simple(r.fs) /\ Ready(r.fs, dir)
  BY <1>2, <1>4, <1>6, SavedReady
<1>10. Gained(f, r.fs, dir, name, i)
  BY <1>8, <1>9 DEF Gained, Leads, old
<1> QED  BY <1>9, <1>10

\* The directory named dir has lost the name.
Lost(f, g, dir, name) ==
  \A a \in Inodes : \A m, j :
     Leads(g, a, m, j) <=> Leads(f, a, m, j) /\ ~(a = dir /\ m = name)

LEMMA EntryRemoved ==
  ASSUME OneClusterDirectories, ~WriteFaults, NEW f, Sound(f), Simple(f),
         \A a \in Inodes : Distinct(f.node[a].entries),
         NEW dir, Ready(f, dir), NEW name \in Components \ {Dot, DotDot},
         Holds(f, dir, name), NEW r \in RemoveEntry(f, dir, name)
  PROVE  /\ r.ok /\ Lost(f, r.fs, dir, name)
         /\ SameUsed(f, r.fs) /\ SameTypes(f, r.fs)
         /\ Simple(r.fs) /\ \A h : Ready(f, h) => Ready(r.fs, h)
         /\ \A a \in Inodes : /\ Distinct(r.fs.node[a].entries) /\ DotsKept(f, r.fs, a)
                              /\ a # dir => r.fs.node[a] = f.node[a]
<1> DEFINE old == f.node[dir].entries
           k == CHOOSE k \in Position(old, name) :
                   \A l \in Position(old, name) : k <= l
           new == RemoveAt(old, k)
<1>1. dir \in Inodes
  BY DEF Ready
<1>2. r \in SaveEntries(f, dir, new)
  BY Zenon DEF RemoveEntry
<1>3. EntryList(old) /\ Distinct(old) /\ old \in Seq(Entry)
  BY <1>1 DEF Sound, EntryList
<1>4. k \in 1 .. Len(old) /\ old[k].name = name
  <2>1. Position(old, name) # {}
    BY DEF Holds
  <2> QED  BY <1>3, <2>1, FirstOne
<1> HIDE DEF old, k
<1>5. EntryList(new)
  BY <1>3, <1>4, ListRemoved
<1>6. /\ Distinct(new)
      /\ \A n, j : Enters(new, n, j) => Enters(old, n, j) /\ n # name
      /\ \A n, j : Has(old, n, j) /\ n # name => Has(new, n, j)
  BY <1>3, <1>4, DistinctRemoved
<1> HIDE DEF new
<1>7. \A n, j : Enters(new, n, j) <=> Enters(old, n, j) /\ n # name
  <2>1. \A n, j : Enters(old, n, j) /\ n # name => Enters(new, n, j)
    BY <1>6 DEF Enters, Has
  <2> QED  BY <1>6, <2>1
<1>8. /\ r.ok /\ r.fs.node[dir].entries = new
      /\ \A a \in Inodes : a # dir => r.fs.node[a] = f.node[a]
      /\ SameUsed(f, r.fs) /\ SameTypes(f, r.fs)
      /\ Simple(r.fs) /\ Ready(r.fs, dir)
  BY <1>2, <1>5, <1>6, SavedReady
<1>9. Lost(f, r.fs, dir, name)
  BY <1>7, <1>8 DEF Lost, Leads, old
<1>10. \A h : Ready(f, h) => Ready(r.fs, h)
  BY <1>8 DEF Ready
<1>11. ASSUME NEW a \in Inodes
       PROVE  Distinct(r.fs.node[a].entries) /\ DotsKept(f, r.fs, a)
  BY <1>6, <1>8, <1>11 DEF DotsKept, old
<1> QED  BY <1>8, <1>9, <1>10, <1>11

LEMMA RemoveLeads ==
  ASSUME OneClusterDirectories, ~WriteFaults, NEW f, Sound(f), Tidy(f), Simple(f),
         NEW dir, Ready(f, dir), NEW name \in Components \ {Dot, DotDot},
         Holds(f, dir, name), NEW r \in RemoveEntry(f, dir, name)
  PROVE  /\ r.ok /\ Lost(f, r.fs, dir, name)
         /\ SameUsed(f, r.fs) /\ SameTypes(f, r.fs)
         /\ Simple(r.fs) /\ \A h : Ready(f, h) => Ready(r.fs, h)
BY EntryRemoved DEF Tidy

LEMMA MadeLeads ==
  ASSUME NEW f, Sound(f), Tidy(f), Simple(f), NEW i \in Inodes, ~f.node[i].used,
         NEW type \in {"regular", "directory"}
  PROVE  LET g == WithNode(f, i, type)
         IN  /\ SameLeads(f, g) /\ OthersStay(f, g, i) /\ Simple(g)
             /\ g.node[i].used /\ g.node[i].type = type
             /\ g.node[i].entries = << >>
             /\ \A j \in Inodes : j # i => g.node[j] = f.node[j]
<1> DEFINE g == WithNode(f, i, type)
           n == [FreeNode EXCEPT !.used = TRUE, !.type = type]
<1>1. f.node \in [Inodes -> Node] /\ f \in Table
  BY DEF Sound, Table
<1>2. n.used /\ n.entries = << >> /\ n.type = type
  BY DEF FreeNode
<1>3. g = [f EXCEPT !.node[i] = n]
  BY DEF WithNode
<1> HIDE DEF g, n
<1>4. g.node[i] = n /\ \A j \in Inodes : j # i => g.node[j] = f.node[j]
  BY <1>1, <1>3 DEF Table
<1>5. OthersStay(f, g, i)
  BY <1>4 DEF OthersStay
<1>6. f.node[i].entries = << >>
  BY DEF Simple, Bare
<1>7. SameLeads(f, g)
  BY <1>2, <1>4, <1>6 DEF SameLeads, Leads
<1>8. Simple(g)
  BY <1>2, <1>4 DEF Simple, Linkless, Bare
<1> QED  BY <1>2, <1>4, <1>5, <1>7, <1>8 DEF g

LEMMA FreedLeads ==
  ASSUME NEW f, Sound(f), Simple(f), NEW i \in Inodes,
         \A m, j : ~Leads(f, i, m, j)
  PROVE  LET g == FreeInode(f, i)
         IN  /\ SameLeads(f, g) /\ OthersStay(f, g, i) /\ Simple(g)
             /\ ~g.node[i].used
<1> DEFINE g == FreeInode(f, i)
<1>1. f.node \in [Inodes -> Node] /\ f \in Table
  BY DEF Sound, Table
<1>2. FreeNode.entries = << >> /\ ~FreeNode.used /\ FreeNode.type = "regular"
  BY DEF FreeNode
<1>3. g = [f EXCEPT !.node[i] = FreeNode]
  BY DEF FreeInode
<1> HIDE DEF g
<1>4. g.node[i] = FreeNode /\ \A j \in Inodes : j # i => g.node[j] = f.node[j]
  BY <1>1, <1>3 DEF Table
<1>5. OthersStay(f, g, i)
  BY <1>4 DEF OthersStay
<1>6. \A n, j : ~Enters(<< >>, n, j)
  BY DEF Enters
<1>7. SameLeads(f, g)
  BY <1>2, <1>4, <1>6 DEF SameLeads, Leads
<1>8. Simple(g)
  BY <1>2, <1>4 DEF Simple, Linkless, Bare
<1> QED  BY <1>2, <1>4, <1>5, <1>7, <1>8 DEF g

LEMMA TruncateLeads ==
  ASSUME NEW f, Sound(f), Simple(f), NEW i \in Inodes \ {Root},
         f.node[i].type # "directory"
  PROVE  /\ Simple(Truncate(f, i)) /\ Same(f, Truncate(f, i))
         /\ SameTypes(f, Truncate(f, i)) /\ SameLists(f, Truncate(f, i))
<1>1. SameTypes(f, Truncate(f, i))
  BY TruncateForm
<1>2. SameLists(f, Truncate(f, i))
  BY TruncateLists
<1> QED  BY <1>1, <1>2, SimpleListed

LEMMA DotsLeads ==
  ASSUME OneClusterDirectories, NEW f, Sound(f), Simple(f),
         NEW i \in Inodes, f.node[i].used, f.node[i].entries = << >>,
         NEW parent \in Inodes, NEW r \in CreateNew(f, i, parent)
  PROVE  /\ r.ok \in BOOLEAN /\ SameLeads(f, r.fs)
         /\ SameUsed(f, r.fs) /\ SameTypes(f, r.fs) /\ Simple(r.fs)
         /\ \A j \in Inodes : j # i => r.fs.node[j] = f.node[j]
<1> DEFINE one == [name |-> Dot, inode |-> i]
           two == [name |-> DotDot, inode |-> parent]
           new == <<one, two>>
<1>1. /\ Fits(one) /\ Fits(two) /\ one.name = Dot /\ two.name = DotDot
      /\ one.inode = i /\ two.inode = parent
  BY DEF Fits, Entry, Components
<1>2. r \in SaveEntries(f, i, new)
  BY Zenon DEF CreateNew
<1> HIDE DEF one, two
<1>3. /\ new \in Seq(Entry) /\ Len(new) = 2 /\ new[1] = one /\ new[2] = two
      /\ \A k \in 1 .. Len(new) : Fits(new[k])
  BY <1>1 DEF Fits
<1> HIDE DEF new
<1>4. EntryList(new)
  BY <1>3, ListElements
<1>5. Distinct(new)
  BY <1>1, <1>3 DEF Distinct, Dot, DotDot
<1>6. \A n, j : ~Enters(new, n, j)
  BY <1>1, <1>3 DEF Enters
<1>7. Clusters(new) <= 1
  BY <1>3, <1>5, ShortList
<1>8. AllOrNothing(f, i, new, r)
  BY <1>2, <1>4, <1>7, SavedWhole
<1>9. /\ \A j \in Inodes : j # i => r.fs.node[j] = f.node[j]
      /\ r.fs.node[i].type = f.node[i].type
  BY <1>2, <1>4, <1>7, SavedRest
<1>10. SameUsed(f, r.fs) /\ SameTypes(f, r.fs)
  BY <1>8, <1>9 DEF SameUsed, SameTypes, AllOrNothing, SameLists
<1>11. \A n, j : ~Enters(<< >>, n, j)
  BY DEF Enters
<1>12. SameLeads(f, r.fs)
  BY <1>6, <1>8, <1>9, <1>11 DEF SameLeads, Leads, AllOrNothing, SameLists
<1>13. Simple(r.fs)
  BY <1>9, <1>10 DEF Simple, Linkless, Bare, SameUsed, SameTypes
<1>14. r.ok \in BOOLEAN
  BY <1>2, <1>4, Saved
<1> QED  BY <1>9, <1>10, <1>12, <1>13, <1>14

LEMMA ReparentLeads ==
  ASSUME OneClusterDirectories, ~WriteFaults, NEW f, Sound(f), Tidy(f), Simple(f),
         NEW i \in Inodes \ {Root}, NEW from,
         f.node[i].type = "directory" => Ready(f, i) /\ Dotted(f, i, from),
         NEW to \in Inodes, NEW r \in Reparent(f, i, to)
  PROVE  /\ r.ok /\ SameLeads(f, r.fs) /\ Simple(r.fs)
         /\ SameUsed(f, r.fs) /\ SameTypes(f, r.fs)
         /\ \A h \in Inodes : Ready(f, h) => Ready(r.fs, h)
<1>1. CASE f.node[i].type # "directory"
  <2>1. r = Ok(f)
    BY <1>1 DEF Reparent
  <2>2. r.ok /\ r.fs = f
    BY <2>1, Results
  <2> QED  BY <2>2 DEF SameLeads, SameUsed, SameTypes
<1>2. CASE f.node[i].type = "directory"
  <2> DEFINE old == f.node[i].entries
             k == CHOOSE k \in Position(old, DotDot) :
                     \A l \in Position(old, DotDot) : k <= l
             new == [old EXCEPT ![k].inode = to]
  <2>1. r \in UpdateEntry(f, i, DotDot, to)
    BY <1>2 DEF Reparent
  <2>2. EntryList(old) /\ Distinct(old) /\ old \in Seq(Entry)
    BY DEF Sound, Tidy, EntryList
  <2>3. Position(old, DotDot) # {}
    BY <1>2, <2>2 DEF Dotted, Has, Position
  <2>4. Holds(f, i, DotDot)
    BY <2>3, RootIsInode DEF Holds
  <2>5. r \in SaveEntries(f, i, new)
    BY <2>1, <2>4, Zenon DEF UpdateEntry
  <2>6. k \in 1 .. Len(old) /\ old[k].name = DotDot
    BY <2>2, <2>3, FirstOne
  <2> HIDE DEF old, k
  <2>7. EntryList(new)
    BY <2>2, <2>6, ListUpdated
  <2>8. Distinct(new) /\ \A n, j : Enters(new, n, j) <=> Enters(old, n, j)
    BY <2>2, <2>6, DistinctUpdated
  <2> HIDE DEF new
  <2>9. /\ r.ok /\ r.fs.node[i].entries = new
        /\ \A j \in Inodes : j # i => r.fs.node[j] = f.node[j]
        /\ SameUsed(f, r.fs) /\ SameTypes(f, r.fs)
        /\ Simple(r.fs) /\ Ready(r.fs, i)
    BY <1>2, <2>5, <2>7, <2>8, SavedReady
  <2>10. SameLeads(f, r.fs)
    BY <2>8, <2>9 DEF SameLeads, Leads, old
  <2>11. \A h \in Inodes : Ready(f, h) => Ready(r.fs, h)
    BY <2>9 DEF Ready
  <2> QED  BY <2>9, <2>10, <2>11
<1> QED  BY <1>1, <1>2

--------------------------------------------------------------------------------
(* What each call makes of a tree without links.                           *)

LEMMA ReadyThere ==
  ASSUME NEW f, Sound(f), Tidy(f), Upright(f), Linkless(f),
         NEW path \in Seq(Names), NEW h, h = ResolvePath(f, path),
         h # NoInode, f.node[h].type = "directory"
  PROVE  Ready(f, h)
<1>1. path \in Seq(Components)
  BY DEF Components
<1>2. h \in Inodes
  BY <1>1, Resolved
<1>3. CASE path = << >>
  <2>1. h = Root
    BY <1>3, RootResolved
  <2> QED  BY <1>2, <2>1 DEF Ready, Sound, RootStays
<1>4. CASE path # << >>
  <2>1. /\ ResolvePath(f, Front(path)) \in Inodes
        /\ Leads(f, ResolvePath(f, Front(path)), Last(path), h)
    BY <1>4, LastLeads
  <2>2. f.node[h].used
    BY <2>1 DEF Tidy
  <2>3. Dotted(f, h, ResolvePath(f, Front(path)))
    BY <1>2, <2>1, RootIsInode DEF Upright, Parents
  <2>4. f.node[h].entries # << >>
    BY <2>3 DEF Dotted, Has
  <2> QED  BY <1>2, <2>2, <2>4 DEF Ready, Upright, Form
<1> QED  BY <1>3, <1>4

\* A path of names: its parent, and what is there.
LEMMA Placed ==
  ASSUME NEW f, Sound(f), Tidy(f), Upright(f), Linkless(f),
         NEW path \in Seq(Names) \ {<< >>}
  PROVE  LET h == ParentOf(f, path)
             name == Last(path)
         IN  /\ h = ResolvePath(f, Front(path)) /\ h \in Inodes \cup {NoInode}
             /\ name \in Names /\ name \in Components \ {Dot, DotDot}
             /\ path \in Seq(Components) /\ path \in ProperPath
             /\ h # NoInode /\ f.node[h].type = "directory" => Ready(f, h)
             /\ ResolvePath(f, path) = IF h = NoInode THEN NoInode
                                       ELSE FindEntry(f, h, name)
<1> DEFINE h == ParentOf(f, path)
           name == Last(path)
<1>1. path \in Seq(Names) /\ path # << >>
  OBVIOUS
<1>2. /\ Front(path) \in Seq(Names) /\ name \in Names
      /\ Len(Front(path)) = Len(path) - 1 /\ Len(path) \in Nat \ {0}
  BY <1>1, PathSplit
<1>3. name \in Components \ {Dot, DotDot}
  BY <1>2, DirectoriesAssumption DEF Components, Dot, DotDot
<1>4. path \in Seq(Components)
  BY DEF Components
<1>5. path \in ProperPath
  BY <1>1, <1>2, <1>4 DEF ProperPath, Ends
<1>6. h = ResolvePath(f, Front(path))
  <2>1. CASE Len(path) = 1
    <3>1. Front(path) = << >>
      BY <1>2, <2>1
    <3>2. h = Root
      BY <2>1 DEF ParentOf
    <3> QED  BY <3>1, <3>2, RootResolved
  <2>2. CASE Len(path) # 1
    BY <2>2 DEF ParentOf
  <2> QED  BY <2>1, <2>2
<1> HIDE DEF h
<1>7. h \in Inodes \cup {NoInode}
  BY <1>5, Parent DEF h
<1>8. h # NoInode /\ f.node[h].type = "directory" => Ready(f, h)
  BY <1>2, <1>6, ReadyThere
<1>9. ResolvePath(f, path) = IF h = NoInode THEN NoInode ELSE FindEntry(f, h, name)
  BY <1>1, <1>6, PlainResolved
<1> QED  BY <1>2, <1>3, <1>4, <1>5, <1>6, <1>7, <1>8, <1>9 DEF h

LEMMA NotHeld ==
  ASSUME NEW f, Sound(f), Tidy(f), NEW h \in Inodes, NEW name, ~Holds(f, h, name)
  PROVE  \A j : ~Leads(f, h, name, j)
BY LeadsFound DEF Tidy

LEMMA MadeAndFreed ==
  ASSUME NEW f, NEW g, NEW k, NEW i, OthersStay(f, g, i), OthersStay(g, k, i),
         ~f.node[i].used, ~k.node[i].used, SameLeads(f, g), SameLeads(g, k)
  PROVE  Same(f, k)
<1>1. OthersStay(f, k, NoInode)
  BY DEF OthersStay
<1>2. SameLeads(f, k)
  BY DEF SameLeads
<1> QED  BY <1>1, <1>2 DEF Same

LEMMA LikeOthers ==
  ASSUME NEW f, NEW g, NEW k, NEW i, OthersStay(f, g, i), SameUsed(g, k),
         SameTypes(g, k)
  PROVE  OthersStay(f, k, i)
BY DEF OthersStay, SameUsed, SameTypes

LEMMA CreateFileTree ==
  ASSUME OneClusterDirectories, ~WriteFaults, Plain(fs),
         NEW path \in Seq(Names) \ {<< >>}, NEW r \in CreateFile(path)
  PROVE  /\ Simple(r.fs)
         /\ r.ok => /\ Added(fs, r.fs, ParentOf(fs, path), Last(path), r.inode)
                    /\ r.fs.node[r.inode].type = "regular"
         /\ ~r.ok => Same(fs, r.fs)
<1> DEFINE h == ParentOf(fs, path)
           name == Last(path)
           i == AllocateInode(fs)
           g == WithNode(fs, i, "regular")
           res(s) == [ok |-> s.ok, inode |-> i,
                      fs |-> IF s.ok THEN s.fs ELSE FreeInode(s.fs, i)]
<1>1. /\ Sound(fs) /\ Tidy(fs) /\ Upright(fs) /\ Linkless(fs) /\ Simple(fs)
  BY DEF Plain, Simple
<1>2. /\ h = ResolvePath(fs, Front(path)) /\ h \in Inodes \cup {NoInode}
      /\ name \in Names /\ name \in Components \ {Dot, DotDot}
      /\ path \in Seq(Components)
      /\ h # NoInode /\ fs.node[h].type = "directory" => Ready(fs, h)
  BY <1>1, Placed
<1>3. /\ i \in Inodes \cup {NoInode}
      /\ i # NoInode => i \in Inodes \ {Root} /\ ~fs.node[i].used
  BY <1>1, Allocated
<1>4. CASE h = NoInode \/ i = NoInode
  <2>1. r.ok = FALSE /\ r.fs = fs
    BY <1>4 DEF CreateFile
  <2> QED  BY <1>1, <2>1 DEF Same, OthersStay, SameLeads
<1>5. CASE ~(h = NoInode \/ i = NoInode)
  <2>1. h \in Inodes /\ i \in Inodes \ {Root} /\ ~fs.node[i].used
    BY <1>2, <1>3, <1>5
  <2>2. r \in {res(s) : s \in InsertEntry(g, h, name, i)}
    BY <1>5, Zenon DEF CreateFile
  <2>3. h # i
    <3>1. Front(path) \in Seq(Names)
      BY PathSplit
    <3>2. Front(path) \in Seq(Components)
      BY <3>1 DEF Components
    <3>3. fs.node[h].used
      BY <1>1, <1>2, <1>5, <3>2, ResolvedUsed
    <3> QED  BY <2>1, <3>3
  <2> HIDE DEF h, name, i
  <2>4. /\ SameLeads(fs, g) /\ OthersStay(fs, g, i) /\ Simple(g)
        /\ g.node[i].used /\ g.node[i].type = "regular"
        /\ \A j \in Inodes : j # i => g.node[j] = fs.node[j]
    BY <1>1, <2>1, MadeLeads
  <2>5. Sound(g)
    BY <1>1, <2>1, NodeMade
  <2>6. Tidy(g)
    BY <1>1, <2>1, MadeTidy
  <2>7. PICK s \in InsertEntry(g, h, name, i) : r = res(s)
    BY <2>2, Zenon
  <2>8. r.ok = s.ok /\ r.inode = i
        /\ r.fs = IF s.ok THEN s.fs ELSE FreeInode(s.fs, i)
    BY <2>7
  <2>9. g.node[h] = fs.node[h]
    BY <2>1, <2>3, <2>4
  <2> HIDE DEF g
  <2>10. CASE fs.node[h].type # "directory" \/ Holds(fs, h, name)
    <3>1. g.node[h].type # "directory" \/ Holds(g, h, name)
      BY <2>9, <2>10 DEF Holds
    <3>2. s = Failed(g)
      BY <3>1 DEF InsertEntry
    <3>3. s.ok = FALSE /\ s.fs = g
      BY <3>2, Results
    <3>4. \A m, j : ~Leads(fs, i, m, j)
      BY <1>1, <2>1 DEF Simple, Bare, Leads, Enters
    <3>5. \A m, j : ~Leads(g, i, m, j)
      BY <2>1, <2>4, <3>4 DEF SameLeads
    <3> DEFINE k == FreeInode(g, i)
    <3>6. SameLeads(g, k) /\ OthersStay(g, k, i) /\ Simple(k) /\ ~k.node[i].used
      BY <2>1, <2>4, <2>5, <3>5, FreedLeads
    <3>7. r.ok = FALSE /\ r.fs = k
      BY <2>8, <3>3
    <3> HIDE DEF k
    <3>8. Same(fs, k)
      BY <2>1, <2>4, <3>6, MadeAndFreed
    <3> QED  BY <3>6, <3>7, <3>8
  <2>11. CASE ~(fs.node[h].type # "directory" \/ Holds(fs, h, name))
    <3>1. Ready(fs, h)
      BY <1>2, <1>5, <2>11 DEF h
    <3>2. Ready(g, h)
      BY <2>9, <3>1 DEF Ready
    <3>3. ~Holds(g, h, name)
      BY <2>9, <2>11 DEF Holds
    <3>4. /\ s.ok /\ Gained(g, s.fs, h, name, i)
          /\ SameUsed(g, s.fs) /\ SameTypes(g, s.fs) /\ Simple(s.fs)
      BY <1>2, <2>1, <2>4, <2>5, <2>6, <3>2, <3>3, InsertLeads DEF name
    <3>5. r.ok = TRUE /\ r.fs = s.fs
      BY <2>8, <3>4
    <3>6. OthersStay(fs, s.fs, i)
      BY <2>4, <3>4, LikeOthers
    <3>7. s.fs.node[i].used /\ s.fs.node[i].type = "regular"
      BY <2>1, <2>4, <3>4 DEF SameUsed, SameTypes
    <3>8. \A j : ~Leads(fs, h, name, j)
      BY <1>1, <2>1, <2>11, NotHeld
    <3>9. \A a \in Inodes : \A m, j :
             Leads(s.fs, a, m, j) <=>
                 Leads(fs, a, m, j) \/ (a = h /\ m = name /\ j = i)
      BY <2>4, <3>4 DEF Gained, SameLeads
    <3>10. IsUsedDirectory(fs, h)
      BY <3>1 DEF Ready, IsUsedDirectory
    <3>11. Added(fs, s.fs, h, name, i)
      BY <1>2, <2>1, <3>6, <3>7, <3>8, <3>9, <3>10 DEF Added, name
    <3> QED  BY <2>8, <3>4, <3>5, <3>7, <3>11 DEF h, name
  <2> QED  BY <2>10, <2>11
<1> QED  BY <1>4, <1>5

LEMMA MakeDirectoryTree ==
  ASSUME OneClusterDirectories, ~WriteFaults, Plain(fs),
         NEW path \in Seq(Names) \ {<< >>}, InDirectory(path),
         ResolvePath(fs, path) = NoInode, NEW r \in MakeDirectory(fs, path)
  PROVE  /\ Simple(r.fs)
         /\ \/ ~r.ok /\ Same(fs, r.fs)
            \/ \E i : /\ Added(fs, r.fs, ParentOf(fs, path), Last(path), i)
                      /\ r.fs.node[i].type = "directory"
<1> DEFINE h == ParentOf(fs, path)
           name == Last(path)
           i == AllocateInode(fs)
           g == WithNode(fs, i, "directory")
           after(s) == IF s.ok THEN InsertEntry(s.fs, h, name, i)
                       ELSE {Failed(FreeInode(s.fs, i))}
<1>1. /\ Sound(fs) /\ Tidy(fs) /\ Upright(fs) /\ Linkless(fs) /\ Simple(fs)
  BY DEF Plain, Simple
<1>2. /\ h \in Inodes \cup {NoInode}
      /\ name \in Names /\ name \in Components \ {Dot, DotDot}
      /\ h # NoInode /\ fs.node[h].type = "directory" => Ready(fs, h)
      /\ ResolvePath(fs, path) = IF h = NoInode THEN NoInode
                                 ELSE FindEntry(fs, h, name)
  BY <1>1, Placed
<1>3. /\ i \in Inodes \cup {NoInode}
      /\ i # NoInode => i \in Inodes \ {Root} /\ ~fs.node[i].used
  BY <1>1, Allocated
<1>4. CASE h = NoInode \/ i = NoInode
  <2>1. r = Failed(fs)
    BY <1>4, Zenon DEF MakeDirectory
  <2>2. r.fs = fs /\ ~r.ok
    BY <2>1, Results
  <2> QED  BY <1>1, <2>2 DEF Same, OthersStay, SameLeads
<1>5. CASE ~(h = NoInode \/ i = NoInode)
  <2>1. h \in Inodes /\ i \in Inodes \ {Root} /\ ~fs.node[i].used
    BY <1>2, <1>3, <1>5
  <2>2. r \in UNION {after(s) : s \in CreateNew(g, i, h)}
    BY <1>5, Zenon DEF MakeDirectory
  <2>3. Ready(fs, h)
    BY <1>2, <1>5 DEF InDirectory
  <2>4. h # i
    BY <2>1, <2>3 DEF Ready
  <2>5. ~Holds(fs, h, name)
    <3>1. FindEntry(fs, h, name) = NoInode
      BY <1>2, <1>5
    <3> HIDE DEF name, h
    <3>2. ASSUME Holds(fs, h, name) PROVE FALSE
      <4>1. Leads(fs, h, name, FindEntry(fs, h, name))
        BY <1>1, <1>2, <2>1, <3>2, FoundLeads
      <4>2. FindEntry(fs, h, name) \in Inodes
        BY <1>1, <2>1, <4>1, LeadsFound DEF Tidy
      <4> QED  BY <3>1, <4>2, RootIsInode
    <3> QED  BY <3>2
  <2> HIDE DEF h, name, i
  <2>6. /\ SameLeads(fs, g) /\ OthersStay(fs, g, i) /\ Simple(g)
        /\ g.node[i].used /\ g.node[i].type = "directory"
        /\ g.node[i].entries = << >>
        /\ \A j \in Inodes : j # i => g.node[j] = fs.node[j]
    BY <1>1, <2>1, MadeLeads
  <2>7. Sound(g)
    BY <1>1, <2>1, NodeMade
  <2>8. Tidy(g)
    BY <1>1, <2>1, MadeTidy
  <2> HIDE DEF g
  <2>9. PICK s \in CreateNew(g, i, h) : r \in after(s)
    BY <2>2, Zenon
  <2>10. /\ s.ok \in BOOLEAN /\ SameLeads(g, s.fs)
         /\ SameUsed(g, s.fs) /\ SameTypes(g, s.fs) /\ Simple(s.fs)
         /\ \A j \in Inodes : j # i => s.fs.node[j] = g.node[j]
    BY <2>1, <2>6, <2>7, DotsLeads
  <2>11. Sound(s.fs)
    BY <2>1, <2>7, DotsMade
  <2>12. Tidy(s.fs)
    BY <2>1, <2>7, <2>8, DotsTidy
  <2>13. s.fs.node[h] = fs.node[h]
    BY <2>1, <2>4, <2>6, <2>10
  <2>14. OthersStay(fs, s.fs, i) /\ SameLeads(fs, s.fs)
    BY <2>6, <2>10, LikeOthers DEF SameLeads
  <2>15. CASE ~s.ok
    <3>1. r = Failed(FreeInode(s.fs, i))
      BY <2>9, <2>15
    <3> DEFINE k == FreeInode(s.fs, i)
    <3>2. r.fs = k /\ ~r.ok
      BY <3>1, Results
    <3>3. \A m, j : ~Leads(fs, i, m, j)
      BY <1>1, <2>1 DEF Simple, Bare, Leads, Enters
    <3>4. \A m, j : ~Leads(s.fs, i, m, j)
      BY <2>1, <2>14, <3>3 DEF SameLeads
    <3>5. SameLeads(s.fs, k) /\ OthersStay(s.fs, k, i) /\ Simple(k) /\ ~k.node[i].used
      BY <2>1, <2>10, <2>11, <3>4, FreedLeads
    <3> HIDE DEF k
    <3>6. Same(fs, k)
      BY <2>1, <2>14, <3>5, MadeAndFreed
    <3> QED  BY <3>2, <3>5, <3>6
  <2>16. CASE s.ok
    <3>1. r \in InsertEntry(s.fs, h, name, i)
      BY <2>9, <2>16
    <3>2. Ready(s.fs, h)
      BY <2>3, <2>13 DEF Ready
    <3>3. ~Holds(s.fs, h, name)
      BY <2>5, <2>13 DEF Holds
    <3>4. /\ Gained(s.fs, r.fs, h, name, i)
          /\ SameUsed(s.fs, r.fs) /\ SameTypes(s.fs, r.fs) /\ Simple(r.fs)
      BY <1>2, <2>1, <2>10, <2>11, <2>12, <3>1, <3>2, <3>3, InsertLeads DEF name
    <3>5. OthersStay(fs, r.fs, i)
      BY <2>14, <3>4, LikeOthers
    <3>6. r.fs.node[i].used /\ r.fs.node[i].type = "directory"
      BY <2>1, <2>6, <2>10, <3>4 DEF SameUsed, SameTypes
    <3>7. \A j : ~Leads(fs, h, name, j)
      BY <1>1, <2>1, <2>5, NotHeld
    <3>8. \A a \in Inodes : \A m, j :
             Leads(r.fs, a, m, j) <=>
                 Leads(fs, a, m, j) \/ (a = h /\ m = name /\ j = i)
      BY <2>14, <3>4 DEF Gained, SameLeads
    <3>9. IsUsedDirectory(fs, h)
      BY <2>3 DEF Ready, IsUsedDirectory
    <3>10. Added(fs, r.fs, h, name, i)
      BY <1>2, <2>1, <3>5, <3>6, <3>7, <3>8, <3>9 DEF Added, name
    <3> QED  BY <3>4, <3>6, <3>10 DEF h, name
  <2> QED  BY <2>10, <2>15, <2>16
<1> QED  BY <1>4, <1>5

\* What has no more than two entries, "." and "..", or is no directory.
LEMMA NothingIn ==
  ASSUME NEW f, Sound(f), Tidy(f), Upright(f), NEW h \in Inodes, NEW n,
         NEW i \in Inodes, Leads(f, h, n, i),
         IsEmpty(f, i) \/ f.node[i].type # "directory"
  PROVE  \A m, j : ~Leads(f, i, m, j)
<1>1. CASE f.node[i].type # "directory"
  <2>1. f.node[i].entries = << >>
    BY <1>1 DEF Upright, Form
  <2> QED  BY <2>1 DEF Leads, Enters
<1>2. CASE f.node[i].type = "directory"
  <2> DEFINE s == f.node[i].entries
  <2>1. s \in Seq(Entry) /\ Len(s) <= 2
    BY <1>2, Entries DEF IsEmpty
  <2>2. Dotted(f, i, h)
    BY <1>2, RootIsInode DEF Upright, Parents
  <2>3. PICK k \in 1 .. Len(s) : s[k].name = Dot
    BY <2>2 DEF Dotted, Has
  <2>4. PICK l \in 1 .. Len(s) : s[l].name = DotDot
    BY <2>2 DEF Dotted, Has
  <2>5. k # l
    BY <2>3, <2>4 DEF Dot, DotDot
  <2>6. Len(s) \in Nat /\ k \in {1, 2} /\ l \in {1, 2}
    BY <2>1, <2>3, <2>4
  <2>7. \A m \in 1 .. Len(s) : m = k \/ m = l
    BY <2>1, <2>5, <2>6
  <2> QED  BY <2>3, <2>4, <2>7 DEF Leads, Enters
<1> QED  BY <1>1, <1>2

\* An entry taken out and its inode freed.
LEMMA TakenOut ==
  ASSUME NEW f, Sound(f), Tidy(f), NEW g, NEW k, NEW h \in Inodes, NEW name,
         NEW i \in Inodes \ {Root}, Leads(f, h, name, i),
         \A m, j : ~Leads(f, i, m, j),
         Lost(f, g, h, name), SameUsed(f, g), SameTypes(f, g),
         SameLeads(g, k), OthersStay(g, k, i), ~k.node[i].used
  PROVE  Emptied(f, k, h, name, i)
<1>1. OthersStay(f, k, i)
  BY DEF OthersStay, SameUsed, SameTypes
<1>2. \A a \in Inodes : \A m, j :
         Leads(k, a, m, j) <=> Leads(f, a, m, j) /\ ~(a = h /\ m = name)
  BY DEF Lost, SameLeads
<1> QED  BY <1>1, <1>2 DEF Emptied

LEMMA RemoveTree ==
  ASSUME OneClusterDirectories, ~WriteFaults, Plain(fs),
         NEW path \in Seq(Names) \ {<< >>},
         RemoveFile(path) \/ RemoveDirectory(path)
  PROVE  \E g, i : /\ fs' = g /\ Simple(g) /\ UNCHANGED opened
                   /\ ~IsInodeOpen(i)
                   /\ Emptied(fs, g, ParentOf(fs, path), Last(path), i)
<1> DEFINE h == ParentOf(fs, path)
           name == Last(path)
           i == FindEntry(fs, h, name)
<1>1. /\ Sound(fs) /\ Tidy(fs) /\ Upright(fs) /\ Linkless(fs) /\ Simple(fs)
  BY DEF Plain, Simple
<1>2. /\ h # NoInode /\ i # NoInode /\ ~IsInodeOpen(i) /\ UNCHANGED opened
      /\ IsEmpty(fs, i) \/ fs.node[i].type # "directory"
      /\ \E r \in RemoveEntry(fs, h, name) :
            \/ fs.node[i].type # "directory"
               /\ fs' = IF r.ok THEN TruncateAndFree(r.fs, i) ELSE r.fs
            \/ fs' = IF r.ok THEN FreeInode(r.fs, i) ELSE r.fs
  <2>1. CASE RemoveFile(path)
    BY <2>1, Zenon DEF RemoveFile
  <2>2. CASE RemoveDirectory(path)
    BY <2>2, Zenon DEF RemoveDirectory
  <2> QED  BY <2>1, <2>2
<1>3. /\ h \in Inodes \cup {NoInode}
      /\ name \in Names /\ name \in Components \ {Dot, DotDot}
      /\ fs.node[h].type = "directory" => Ready(fs, h)
  BY <1>1, <1>2, Placed
<1>4. h \in Inodes
  BY <1>2, <1>3
<1>5. Holds(fs, h, name) /\ i \in Inodes \ {Root}
  BY <1>1, <1>2, <1>3, Found DEF FindEntry
<1>6. Leads(fs, h, name, i)
  BY <1>1, <1>3, <1>4, <1>5, FoundLeads
<1> HIDE DEF i, h, name
<1>7. Ready(fs, h)
  <2>1. fs.node[h].entries # << >>
    BY <1>6 DEF Leads, Enters
  <2> QED  BY <1>1, <1>3, <1>4, <2>1 DEF Upright, Form
<1>8. \A m, j : ~Leads(fs, i, m, j)
  BY <1>1, <1>2, <1>4, <1>5, <1>6, NothingIn
<1>9. PICK r \in RemoveEntry(fs, h, name) :
        \/ fs.node[i].type # "directory"
           /\ fs' = IF r.ok THEN TruncateAndFree(r.fs, i) ELSE r.fs
        \/ fs' = IF r.ok THEN FreeInode(r.fs, i) ELSE r.fs
  BY <1>2
<1>10. /\ r.ok /\ Lost(fs, r.fs, h, name)
       /\ SameUsed(fs, r.fs) /\ SameTypes(fs, r.fs) /\ Simple(r.fs)
  BY <1>1, <1>3, <1>5, <1>7, RemoveLeads
<1>11. Sound(r.fs)
  BY <1>1, <1>4, Removed
<1>12. \A m, j : ~Leads(r.fs, i, m, j)
  BY <1>5, <1>8, <1>10 DEF Lost
<1>13. CASE fs' = FreeInode(r.fs, i)
  <2> DEFINE k == FreeInode(r.fs, i)
  <2>1. SameLeads(r.fs, k) /\ OthersStay(r.fs, k, i) /\ Simple(k) /\ ~k.node[i].used
    BY <1>5, <1>10, <1>11, <1>12, FreedLeads
  <2>2. fs' = k
    BY <1>13
  <2> HIDE DEF k
  <2>3. Emptied(fs, k, h, name, i)
    BY <1>1, <1>4, <1>5, <1>6, <1>8, <1>10, <2>1, TakenOut
  <2> QED  BY <1>2, <2>1, <2>2, <2>3 DEF h, name
<1>14. CASE fs' = TruncateAndFree(r.fs, i) /\ fs.node[i].type # "directory"
  <2> DEFINE cut == Truncate(r.fs, i)
             k == FreeInode(cut, i)
  <2>1. r.fs.node[i].type # "directory"
    BY <1>5, <1>10, <1>14 DEF SameTypes
  <2>2. Simple(cut) /\ Same(r.fs, cut)
    BY <1>5, <1>10, <1>11, <2>1, TruncateLeads
  <2>3. Sound(cut)
    BY <1>5, <1>11, Truncated
  <2>4. fs' = k
    BY <1>14 DEF TruncateAndFree
  <2> HIDE DEF cut
  <2>5. \A m, j : ~Leads(cut, i, m, j)
    BY <1>5, <1>12, <2>2 DEF Same, SameLeads
  <2>6. SameLeads(cut, k) /\ OthersStay(cut, k, i) /\ Simple(k) /\ ~k.node[i].used
    BY <1>5, <2>2, <2>3, <2>5, FreedLeads
  <2> HIDE DEF k
  <2>7. SameLeads(r.fs, k)
    BY <2>2, <2>6 DEF Same, SameLeads
  <2>8. OthersStay(r.fs, k, i)
    BY <2>2, <2>6, RootIsInode DEF Same, OthersStay
  <2>9. Emptied(fs, k, h, name, i)
    BY <1>1, <1>4, <1>5, <1>6, <1>8, <1>10, <2>6, <2>7, <2>8, TakenOut
  <2> QED  BY <1>2, <2>4, <2>6, <2>9 DEF h, name
<1> QED  BY <1>9, <1>10, <1>13, <1>14

LEMMA PrefixGrows ==
  ASSUME NEW p \in Seq(Names), NEW q \in Seq(Names), IsPrefix(p, q), NEW n \in Names
  PROVE  IsPrefix(p, Append(q, n))
<1> DEFINE t == Append(q, n)
<1>1. Len(p) \in Nat /\ Len(q) \in Nat /\ Len(p) <= Len(q)
  BY DEF IsPrefix
<1>2. t \in Seq(Names) /\ Len(t) = Len(q) + 1 /\ \A k \in 1 .. Len(q) : t[k] = q[k]
  OBVIOUS
<1> HIDE DEF t
<1>3. \A k \in 1 .. Len(p) : SubSeq(q, 1, Len(p))[k] = q[k]
  BY <1>1
<1>4. \A k \in 1 .. Len(p) : SubSeq(t, 1, Len(p))[k] = t[k]
  BY <1>1, <1>2
<1>5. SubSeq(p, 1, Len(p)) = SubSeq(q, 1, Len(p))
  BY DEF IsPrefix
<1>6. SubSeq(t, 1, Len(p)) = SubSeq(q, 1, Len(p))
  BY <1>1, <1>2, <1>3, <1>4
<1> QED  BY <1>1, <1>2, <1>5, <1>6 DEF IsPrefix, t

LEMMA PrefixOfItself ==
  ASSUME NEW p \in Seq(Names)
  PROVE  IsPrefix(p, p)
BY DEF IsPrefix

\* What old leads to has nothing inside but what paths with the prefix old
\* lead to.
LEMMA NotInside ==
  ASSUME NEW f, Sound(f), Tidy(f), Linkless(f), NEW old \in Seq(Names),
         ResolvePath(f, old) \in Inodes, NEW new \in Seq(Names) \ {<< >>},
         ~IsPrefix(old, new), ResolvePath(f, Front(new)) \in Inodes
  PROVE  Outside(f, ResolvePath(f, Front(new)), ResolvePath(f, old))
<1> DEFINE T == {j \in Inodes : \E q \in Seq(Names) :
                    IsPrefix(old, q) /\ ResolvePath(f, q) = j}
           to == ResolvePath(f, Front(new))
<1>1. ResolvePath(f, old) \in T
  BY PrefixOfItself
<1>2. ASSUME NEW h \in T, NEW n, NEW j, Leads(f, h, n, j)
      PROVE  j \in T
  <2>1. PICK q \in Seq(Names) : IsPrefix(old, q) /\ ResolvePath(f, q) = h
    OBVIOUS
  <2>2. h \in Inodes
    OBVIOUS
  <2> HIDE DEF T
  <2>3. j \in Inodes /\ n \in Components
    BY <1>2, <2>2, LeadsFound DEF Tidy
  <2>4. n \in Names
    BY <1>2, <2>3 DEF Leads, Enters, Components
  <2>5. ResolvePath(f, Append(q, n)) = j
    BY <1>2, <2>1, <2>2, <2>4, NameLeadsOn
  <2>6. Append(q, n) \in Seq(Names) /\ IsPrefix(old, Append(q, n))
    BY <2>1, <2>4, PrefixGrows
  <2> QED  BY <2>3, <2>5, <2>6 DEF T
<1>3. ClosedNames(f, T)
  <2> HIDE DEF T
  <2> QED  BY <1>2 DEF ClosedNames
<1>4. to \notin T
  <2>1. SUFFICES ASSUME NEW q \in Seq(Names), IsPrefix(old, q), ResolvePath(f, q) = to
                 PROVE  FALSE
    OBVIOUS
  <2>2. /\ Front(new) \in Seq(Names) /\ Last(new) \in Names
        /\ new = Append(Front(new), Last(new))
    BY PathSplit
  <2>3. q = Front(new)
    BY <2>1, <2>2, PathsDiffer, RootIsInode
  <2>4. IsPrefix(old, Append(q, Last(new)))
    BY <2>1, <2>2, PrefixGrows
  <2> QED  BY <2>2, <2>3, <2>4
<1>5. T \in SUBSET Inodes
  OBVIOUS
<1> HIDE DEF T
<1> QED  BY <1>1, <1>3, <1>4, <1>5 DEF Outside

LEMMA RenameTree ==
  ASSUME OneClusterDirectories, ~WriteFaults, NEW f, Plain(f),
         NEW old \in Seq(Names) \ {<< >>}, NEW new \in Seq(Names) \ {<< >>},
         ~IsPrefix(old, new) \/ f.node[ResolvePath(f, old)].type # "directory",
         ParentOf(f, new) # NoInode => f.node[ParentOf(f, new)].type = "directory",
         ~Holds(f, ParentOf(f, new), Last(new)),
         NEW r \in Renamed(f, old, new)
  PROVE  /\ Simple(r.fs)
         /\ \/ Same(f, r.fs)
            \/ /\ SameTypes(f, r.fs)
               /\ \E i : Shifted(f, r.fs, ParentOf(f, old), Last(old),
                                 ParentOf(f, new), Last(new), i)
<1> DEFINE from == ParentOf(f, old)
           to == ParentOf(f, new)
           n == Last(old)
           m == Last(new)
           i == FindEntry(f, from, n)
           moved(s) == IF s.ok THEN MoveEntry(s.fs, from, n, to, m, i) ELSE {s}
           linked(s) == UNION {moved(t) : t \in Relink(s.fs, i, from, to)}
           after(s) == IF s.ok THEN linked(s) ELSE {s}
<1>1. /\ Sound(f) /\ Tidy(f) /\ Upright(f) /\ Linkless(f) /\ Simple(f)
  BY DEF Plain, Simple
<1>2. CASE from = NoInode \/ to = NoInode \/ i = NoInode
  <2>1. r = Failed(f)
    BY <1>2, Zenon DEF Renamed
  <2>2. r.fs = f
    BY <2>1, Results
  <2> QED  BY <1>1, <2>2 DEF Same, OthersStay, SameLeads
<1>3. CASE ~(from = NoInode \/ to = NoInode \/ i = NoInode)
  <2>1. /\ from \in Inodes
        /\ n \in Names /\ n \in Components \ {Dot, DotDot}
        /\ f.node[from].type = "directory" => Ready(f, from)
        /\ ResolvePath(f, old) = i
    BY <1>1, <1>3, Placed
  <2>2. /\ to \in Inodes /\ to = ResolvePath(f, Front(new))
        /\ m \in Names /\ m \in Components \ {Dot, DotDot}
        /\ Ready(f, to)
    BY <1>1, <1>3, Placed
  <2>3. i \in Inodes \ {Root}
    BY <1>1, <1>3, <2>1, Found
  <2>4. Leads(f, from, n, i)
    <3>1. Holds(f, from, n)
      BY <1>3 DEF FindEntry
    <3> QED  BY <1>1, <2>1, <3>1, FoundLeads
  <2>5. r \in UNION {after(s) : s \in Reparent(f, i, to)}
    BY <1>3, Zenon DEF Renamed
  <2>6. Outside(f, to, i)
    <3>1. CASE ~IsPrefix(old, new)
      BY <1>1, <2>1, <2>2, <2>3, <3>1, NotInside
    <3>2. CASE f.node[i].type # "directory"
      <4>1. \A l, j : ~Leads(f, i, l, j)
        BY <1>1, <2>1, <2>3, <2>4, <3>2, NothingIn
      <4>2. to # i
        BY <2>2, <3>2 DEF Ready
      <4>3. {i} \in SUBSET Inodes /\ ClosedNames(f, {i}) /\ to \notin {i}
        BY <2>3, <4>1, <4>2 DEF ClosedNames
      <4> QED  BY <4>3 DEF Outside
    <3> QED  BY <2>1, <3>1, <3>2
  <2>7. ~Holds(f, to, m)
    OBVIOUS
  <2> HIDE DEF from, to, i, n, m
  <2>8. PICK s \in Reparent(f, i, to) : r \in after(s)
    BY <2>5, Zenon
  <2>9. Ready(f, from)
    <3>1. f.node[from].entries # << >>
      BY <2>4 DEF Leads, Enters
    <3> QED  BY <1>1, <2>1, <3>1 DEF Upright, Form
  <2>10. f.node[i].type = "directory" => Ready(f, i) /\ Dotted(f, i, from)
    <3> SUFFICES ASSUME f.node[i].type = "directory"
                 PROVE  Ready(f, i) /\ Dotted(f, i, from)
      OBVIOUS
    <3>1. Dotted(f, i, from)
      BY <1>1, <2>1, <2>3, <2>4, RootIsInode DEF Upright, Parents
    <3>2. f.node[i].entries # << >>
      BY <3>1 DEF Dotted, Has
    <3>3. f.node[i].used
      BY <1>1, <2>1, <2>4 DEF Tidy
    <3> QED  BY <1>1, <2>3, <3>1, <3>2, <3>3 DEF Ready, Upright, Form
  <2>11. /\ s.ok /\ SameLeads(f, s.fs) /\ Simple(s.fs)
         /\ SameUsed(f, s.fs) /\ SameTypes(f, s.fs)
         /\ Ready(s.fs, from) /\ Ready(s.fs, to)
    BY <1>1, <2>1, <2>2, <2>3, <2>8, <2>9, <2>10, ReparentLeads
  <2>12. Sound(s.fs)
    BY <1>1, <2>2, <2>3, <2>8, Reparented
  <2>13. Tidy(s.fs)
    BY <1>1, <2>2, <2>3, <2>8, ReparentedTidy
  <2>14. r \in MoveEntry(s.fs, from, n, to, m, i)
    <3>1. Relink(s.fs, i, from, to) = {Ok(s.fs)}
      BY <2>3, <2>11 DEF Relink, Simple, Linkless
    <3>2. r \in linked(s)
      BY <2>8, <2>11
    <3>3. r \in moved(Ok(s.fs))
      BY <3>1, <3>2
    <3> QED  BY <3>3, Results
  <2> DEFINE inserted(t) == IF t.ok THEN InsertEntry(t.fs, to, m, i) ELSE {t}
  <2>15. PICK t \in RemoveEntry(s.fs, from, n) : r \in inserted(t)
    BY <2>14, Zenon DEF MoveEntry
  <2>16. Leads(s.fs, from, n, i)
    BY <2>1, <2>4, <2>11 DEF SameLeads
  <2>17. Holds(s.fs, from, n)
    BY <2>1, <2>12, <2>13, <2>16, LeadsFound DEF Tidy
  <2>18. /\ t.ok /\ Lost(s.fs, t.fs, from, n)
         /\ SameUsed(s.fs, t.fs) /\ SameTypes(s.fs, t.fs)
         /\ Simple(t.fs) /\ Ready(t.fs, to)
    BY <2>1, <2>11, <2>12, <2>13, <2>15, <2>17, RemoveLeads
  <2>19. Sound(t.fs)
    BY <2>1, <2>12, <2>15, Removed
  <2>20. Tidy(t.fs)
    BY <2>1, <2>12, <2>13, <2>15, RemoveTidy
  <2>21. \A j : ~Leads(f, to, m, j)
    BY <1>1, <2>2, <2>7, NotHeld
  <2>22. ~Holds(t.fs, to, m)
    <3>1. \A j : ~Leads(t.fs, to, m, j)
      BY <2>2, <2>11, <2>18, <2>21 DEF SameLeads, Lost
    <3> QED  BY <2>2, <2>19, <3>1, FoundLeads
  <2>23. r \in InsertEntry(t.fs, to, m, i)
    BY <2>15, <2>18
  <2>24. /\ Gained(t.fs, r.fs, to, m, i)
         /\ SameUsed(t.fs, r.fs) /\ SameTypes(t.fs, r.fs) /\ Simple(r.fs)
    BY <2>2, <2>3, <2>18, <2>19, <2>20, <2>22, <2>23, InsertLeads
  <2>25. SameUsed(f, r.fs) /\ SameTypes(f, r.fs)
    BY <2>11, <2>18, <2>24 DEF SameUsed, SameTypes
  <2>26. \A a \in Inodes : \A l, j :
           Leads(r.fs, a, l, j) <=> \/ Leads(f, a, l, j) /\ ~(a = from /\ l = n)
                                    \/ a = to /\ l = m /\ j = i
    BY <2>11, <2>18, <2>24 DEF SameLeads, Lost, Gained
  <2>27. OthersStay(f, r.fs, NoInode)
    BY <2>25 DEF OthersStay, SameUsed, SameTypes
  <2>28. IsUsedDirectory(f, to)
    BY <2>2 DEF Ready, IsUsedDirectory
  <2>29. Shifted(f, r.fs, from, n, to, m, i)
    BY <2>1, <2>2, <2>3, <2>4, <2>6, <2>21, <2>26, <2>27, <2>28 DEF Shifted
  <2> QED  BY <2>24, <2>25, <2>29 DEF from, to, n, m
<1> QED  BY <1>2, <1>3

\* One descriptor more has i, or none had room.
Opens(o, p, i) ==
  \/ p = o
  \/ \E d \in Descriptors : o[d] = NoInode /\ p = [o EXCEPT ![d] = i]

\* A call, from the table f and the descriptors o to g and p.
CallStep(f, o, g, p) ==
  \/ /\ Same(f, g)
     /\ \/ p = o
        \/ \E d \in Descriptors : p = [o EXCEPT ![d] = NoInode]
        \/ \E i \in Inodes : /\ f.node[i].used /\ f.node[i].type = "regular"
                             /\ Opens(o, p, i)
  \/ \E h, n, i : /\ Added(f, g, h, n, i)
                  /\ \/ p = o
                     \/ g.node[i].type = "regular" /\ Opens(o, p, i)
  \/ \E h, n, i : /\ Emptied(f, g, h, n, i)
                  /\ p = o /\ \A d \in Descriptors : o[d] # i
  \/ \E h, n, k, m, i : Shifted(f, g, h, n, k, m, i) /\ p = o

CallMade == \E g, p : fs' = g /\ opened' = p /\ Simple(g) /\ CallStep(fs, opened, g, p)

LEMMA CallReaches ==
  ASSUME NEW f, NEW o, NEW g, NEW p, CallStep(f, o, g, p)
  PROVE  TreeStep(f, g)
BY DEF CallStep, TreeStep

LEMMA SameItself ==
  ASSUME NEW f
  PROVE  Same(f, f)
BY DEF Same, OthersStay, SameLeads

LEMMA AddedThenSame ==
  ASSUME NEW f, NEW g, NEW k, NEW h, NEW n, NEW i, Added(f, g, h, n, i), Same(g, k)
  PROVE  Added(f, k, h, n, i) /\ k.node[i].type = g.node[i].type
<1>1. k.node[i].used /\ k.node[i].type = g.node[i].type
  BY RootIsInode DEF Added, Same, OthersStay
<1>2. OthersStay(f, k, i)
  BY RootIsInode DEF Added, Same, OthersStay
<1>3. \A a \in Inodes : \A m, j :
        Leads(k, a, m, j) <=> Leads(f, a, m, j) \/ (a = h /\ m = n /\ j = i)
  BY DEF Added, Same, SameLeads
<1> QED  BY <1>1, <1>2, <1>3 DEF Added

\* Opening a file cuts it at most.
LEMMA OpenInodeTree ==
  ASSUME NEW f, Sound(f), Simple(f), NEW i \in Inodes,
         NEW truncate \in BOOLEAN, OpenInode(f, i, truncate)
  PROVE  \E g, p : /\ fs' = g /\ opened' = p /\ Simple(g) /\ Same(f, g)
                   /\ p # opened => f.node[i].type = "regular" /\ Opens(opened, p, i)
<1>1. CASE f.node[i].type # "regular"
  <2>1. fs' = f /\ opened' = opened
    BY <1>1, Zenon DEF OpenInode
  <2> QED  BY <2>1, SameItself
<1>2. CASE f.node[i].type = "regular"
  <2> DEFINE free == {d \in Descriptors : opened[d] = NoInode}
             d == CHOOSE d \in free : \A e \in free : d <= e
             p == IF free = {} THEN opened ELSE [opened EXCEPT ![d] = i]
             g == IF truncate THEN Truncate(f, i) ELSE f
  <2>1. fs' = g /\ opened' = p
    <3>1. fs' = g
      BY <1>2, Zenon DEF OpenInode
    <3>2. CASE free = {}
      BY <1>2, <3>2, Zenon DEF OpenInode
    <3>3. CASE free # {}
      BY <1>2, <3>3, Zenon DEF OpenInode
    <3> QED  BY <3>1, <3>2, <3>3
  <2>2. i \in Inodes \ {Root}
    BY <1>2 DEF Sound, RootStays
  <2>3. Simple(g) /\ Same(f, g)
    BY <1>2, <2>2, TruncateLeads, SameItself
  <2>4. Opens(opened, p, i)
    <3>1. CASE free = {}
      BY <3>1 DEF Opens
    <3>2. CASE free # {}
      <4>1. free \in SUBSET Nat
        BY NamespaceAssumption
      <4>2. \E e \in free : \A j \in free : e <= j
        BY <3>2, <4>1, LeastNatural
      <4>3. d \in free
        BY <4>2, Zenon
      <4> HIDE DEF d
      <4> QED  BY <3>2, <4>3 DEF Opens
    <3> QED  BY <3>1, <3>2
  <2> HIDE DEF g, p
  <2> QED  BY <1>2, <2>1, <2>3, <2>4
<1> QED  BY <1>1, <1>2

LEMMA OpenTree ==
  ASSUME OneClusterDirectories, ~WriteFaults, Plain(fs),
         NEW path \in Seq(Names) \ {<< >>}, NEW create \in BOOLEAN,
         NEW truncate \in BOOLEAN, Open(path, create, truncate)
  PROVE  CallMade
<1> DEFINE i == ResolvePath(fs, path)
<1>1. /\ Sound(fs) /\ Tidy(fs) /\ Upright(fs) /\ Linkless(fs) /\ Simple(fs)
  BY DEF Plain, Simple
<1>2. path \in Seq(Components) /\ path \in ProperPath
  BY <1>1, Placed
<1>3. i \in Inodes \cup {NoInode}
  BY <1>1, <1>2, Resolved
<1>4. CASE i # NoInode
  <2>1. OpenInode(fs, i, truncate) /\ i \in Inodes
    BY <1>3, <1>4, Zenon DEF Open
  <2>2. fs.node[i].used
    BY <1>1, <1>2, <1>4, ResolvedUsed
  <2> HIDE DEF i
  <2>3. PICK g, p : /\ fs' = g /\ opened' = p /\ Simple(g) /\ Same(fs, g)
                    /\ p # opened => fs.node[i].type = "regular" /\ Opens(opened, p, i)
    BY <1>1, <2>1, OpenInodeTree
  <2>4. CallStep(fs, opened, g, p)
    BY <2>1, <2>2, <2>3 DEF CallStep
  <2> QED  BY <2>3, <2>4 DEF CallMade
<1>5. CASE i = NoInode
  <2>1. PICK r \in CreateFile(path) :
          IF r.ok THEN OpenInode(r.fs, r.inode, truncate)
          ELSE fs' = r.fs /\ UNCHANGED opened
    BY <1>5, Zenon DEF Open
  <2>2. Sound(r.fs) /\ (r.ok => r.inode \in Inodes \ {Root})
    BY <1>1, <1>2, FileCreated
  <2>3. /\ Simple(r.fs)
        /\ r.ok => /\ Added(fs, r.fs, ParentOf(fs, path), Last(path), r.inode)
                   /\ r.fs.node[r.inode].type = "regular"
        /\ ~r.ok => Same(fs, r.fs)
    BY CreateFileTree
  <2>4. CASE r.ok
    <3>1. OpenInode(r.fs, r.inode, truncate) /\ r.inode \in Inodes
      BY <2>1, <2>2, <2>4
    <3>2. PICK g, p : /\ fs' = g /\ opened' = p /\ Simple(g) /\ Same(r.fs, g)
                      /\ p # opened => /\ r.fs.node[r.inode].type = "regular"
                                       /\ Opens(opened, p, r.inode)
      BY <2>2, <2>3, <3>1, OpenInodeTree
    <3>3. /\ Added(fs, g, ParentOf(fs, path), Last(path), r.inode)
          /\ g.node[r.inode].type = "regular"
      BY <2>3, <2>4, <3>2, AddedThenSame
    <3>4. CallStep(fs, opened, g, p)
      BY <3>2, <3>3 DEF CallStep
    <3> QED  BY <3>2, <3>4 DEF CallMade
  <2>5. CASE ~r.ok
    <3>1. fs' = r.fs /\ opened' = opened
      BY <2>1, <2>5
    <3>2. CallStep(fs, opened, r.fs, opened)
      BY <2>3, <2>5 DEF CallStep
    <3> QED  BY <2>3, <3>1, <3>2 DEF CallMade
  <2> QED  BY <2>4, <2>5
<1> QED  BY <1>4, <1>5

LEMMA WriteFileTree ==
  ASSUME IInv, Plain(fs), NEW d \in Descriptors, WriteFile(d)
  PROVE  CallMade
<1> DEFINE i == opened[d]
           g == [fs EXCEPT !.space = @ - 1, !.node[i].clusters = @ + 1]
<1>1. i \in Inodes /\ fs' = g /\ opened' = opened /\ Simple(fs)
  BY Zenon DEF WriteFile, IInv, Plain, Simple
<1>2. fs \in Table /\ fs.node[i] \in Node /\ fs.node \in [Inodes -> Node]
  BY <1>1, TableCounts DEF IInv, Sound, Table
<1> HIDE DEF i
<1> DEFINE held == fs.node[i].clusters + 1
           left == fs.space - 1
           n == [fs.node[i] EXCEPT !.clusters = held]
<1>3. g = [fs EXCEPT !.node[i] = n, !.space = left]
  BY <1>1, <1>2 DEF Table
<1> HIDE DEF held, left
<1>4. /\ n.entries = fs.node[i].entries
      /\ n.used = fs.node[i].used /\ n.type = fs.node[i].type
  BY <1>2 DEF Node
<1> HIDE DEF n, g
<1>5. g.node[i] = n /\ \A j \in Inodes : j # i => g.node[j] = fs.node[j]
  BY <1>1, <1>2, <1>3 DEF Table
<1>6. SameLists(fs, g) /\ SameTypes(fs, g)
  BY <1>1, <1>4, <1>5 DEF SameLists, SameTypes
<1>7. Simple(g) /\ Same(fs, g)
  BY <1>1, <1>6, SimpleListed
<1>8. CallStep(fs, opened, g, opened)
  BY <1>7 DEF CallStep
<1> QED  BY <1>1, <1>7, <1>8 DEF CallMade

\* Nothing fails but for want of room, nobody makes links, and programs
\* refrain from what they should.
Orderly ==
  /\ Undisturbed
  /\ LinkTargets = {} /\ Careless = {}
  /\ PathsGiven \subseteq Seq(Names)

LEMMA CallsMake == Orderly /\ IInv /\ Plain(fs) /\ [Next]_vars => CallMade
<1> SUFFICES ASSUME Orderly, IInv, Plain(fs), [Next]_vars
             PROVE  CallMade
  OBVIOUS
<1>1. /\ Sound(fs) /\ Tidy(fs) /\ Upright(fs) /\ Linkless(fs) /\ Simple(fs)
      /\ OneClusterDirectories /\ ~WriteFaults
  BY DEF Plain, Simple, Orderly, Undisturbed
<1> DEFINE Paths0 == Seq(Names) \ {<< >>}
<1>2. PathsGiven \subseteq Paths0
  BY NamespaceAssumption DEF Orderly
<1>3. ASSUME NEW path \in Paths0, NEW create \in BOOLEAN,
             NEW truncate \in BOOLEAN, Open(path, create, truncate)
      PROVE  CallMade
  BY <1>1, <1>3, OpenTree
<1>4. ASSUME NEW path \in Paths0, RemoveFile(path) \/ RemoveDirectory(path)
      PROVE  CallMade
  <2>1. PICK g, i : /\ fs' = g /\ Simple(g) /\ UNCHANGED opened
                    /\ ~IsInodeOpen(i)
                    /\ Emptied(fs, g, ParentOf(fs, path), Last(path), i)
    BY <1>1, <1>4, RemoveTree
  <2>2. CallStep(fs, opened, g, opened)
    BY <2>1 DEF CallStep, IsInodeOpen
  <2> QED  BY <2>1, <2>2 DEF CallMade
<1>5. ASSUME NEW path \in Paths0, MayMake(path), CreateDirectory(path)
      PROVE  CallMade
  <2>1. PICK r \in MakeDirectory(fs, path) : fs' = r.fs
    BY <1>5 DEF CreateDirectory
  <2>2. opened' = opened
    BY <1>5 DEF CreateDirectory
  <2>3. ResolvePath(fs, path) = NoInode /\ InDirectory(path)
    BY <1>5 DEF MayMake, Orderly
  <2>4. /\ Simple(r.fs)
        /\ \/ Same(fs, r.fs)
           \/ \E i : /\ Added(fs, r.fs, ParentOf(fs, path), Last(path), i)
                     /\ r.fs.node[i].type = "directory"
    BY <1>1, <2>3, MakeDirectoryTree
  <2>5. CallStep(fs, opened, r.fs, opened)
    BY <2>4 DEF CallStep
  <2> QED  BY <2>1, <2>2, <2>4, <2>5 DEF CallMade
<1>6. ASSUME NEW d \in Descriptors, Close(d)
      PROVE  CallMade
  <2>1. fs' = fs /\ opened' = [opened EXCEPT ![d] = NoInode]
    BY <1>6 DEF Close
  <2>2. CallStep(fs, opened, fs, [opened EXCEPT ![d] = NoInode])
    BY SameItself DEF CallStep
  <2> QED  BY <1>1, <2>1, <2>2 DEF CallMade
<1>7. ASSUME NEW d \in Descriptors, WriteFile(d)
      PROVE  CallMade
  BY <1>7, WriteFileTree
<1>8. ASSUME NEW old \in Paths0, NEW new \in Paths0, MayRename(old, new),
             Rename(old, new)
      PROVE  CallMade
  <2>1. PICK r \in Renamed(fs, old, new) : fs' = r.fs
    BY <1>8 DEF Rename
  <2>2. opened' = opened
    BY <1>8 DEF Rename
  <2>3. /\ ~IsPrefix(old, new) /\ ~Holds(fs, ParentOf(fs, new), Last(new))
        /\ ParentOf(fs, new) # NoInode
              => fs.node[ParentOf(fs, new)].type = "directory"
    BY <1>8 DEF MayRename, Orderly, IntoItself, InDirectory
  <2>4. /\ Simple(r.fs)
        /\ \/ Same(fs, r.fs)
           \/ \E i : Shifted(fs, r.fs, ParentOf(fs, old), Last(old),
                             ParentOf(fs, new), Last(new), i)
    BY <1>1, <2>3, RenameTree
  <2>5. CallStep(fs, opened, r.fs, opened)
    BY <2>4 DEF CallStep
  <2> QED  BY <2>1, <2>2, <2>4, <2>5 DEF CallMade
<1>9. CASE UNCHANGED vars
  <2>1. fs' = fs /\ opened' = opened
    BY <1>9 DEF vars
  <2>2. CallStep(fs, opened, fs, opened)
    BY SameItself DEF CallStep
  <2> QED  BY <1>1, <2>1, <2>2 DEF CallMade
<1>10. LinkTargets = {}
  BY DEF Orderly
<1> QED
  BY <1>2, <1>3, <1>4, <1>5, <1>6, <1>7, <1>8, <1>9, <1>10 DEF Next

LEMMA SimpleAfter ==
  ASSUME NEW f, Simple(f), fs' = f
  PROVE  Simple(fs)'
BY DEF Simple, Linkless, Bare

LEMMA ReachedAfter ==
  ASSUME NEW f, AllReached(f), fs' = f
  PROVE  AllReached(fs)'
BY DEF AllReached, ClosedNames, Leads, Enters

\* What the names keep through all calls.
Connected == IInv /\ Tidy(fs) /\ Kept /\ Simple(fs) /\ AllReached(fs)

LEMMA ConnectedPlain == Connected => Plain(fs) /\ Sound(fs)
BY DEF Connected, Plain, IInv, Kept, Simple

LEMMA ConnectedInit == Init => Connected
<1> SUFFICES ASSUME Init PROVE Connected
  OBVIOUS
<1> DEFINE root == [used |-> TRUE, type |-> "directory",
                    entries |-> << [name |-> Dot, inode |-> Root],
                                   [name |-> DotDot, inode |-> Root] >>,
                    clusters |-> 1, target |-> NoTarget]
           table == [i \in Inodes |-> IF i = Root THEN root ELSE FreeNode]
<1>1. fs.node = table
  BY DEF Init
<1>2. root.used /\ root.type = "directory"
  OBVIOUS
<1>3. ~FreeNode.used /\ FreeNode.type = "regular" /\ FreeNode.entries = << >>
  BY DEF FreeNode
<1> HIDE DEF root
<1>4. /\ fs.node[Root] = root
      /\ \A i \in Inodes : i # Root => fs.node[i] = FreeNode
  BY <1>1, RootIsInode
<1>5. Simple(fs)
  BY <1>2, <1>3, <1>4 DEF Simple, Linkless, Bare
<1>6. AllReached(fs)
  BY <1>3, <1>4 DEF AllReached
<1> QED  BY <1>5, <1>6, IInvInit, TidyInit, KeptInit DEF Connected

LEMMA ConnectedNext == Orderly /\ Connected /\ [Next]_vars => Connected'
<1> SUFFICES ASSUME Orderly, Connected, [Next]_vars
             PROVE  Connected'
  OBVIOUS
<1>1. Plain(fs) /\ IInv /\ Tidy(fs) /\ Kept /\ AllReached(fs)
  BY ConnectedPlain DEF Connected
<1>2. Undisturbed /\ OneClusterDirectories
  BY DEF Orderly, Undisturbed
<1>3. CallMade
  BY <1>1, CallsMake
<1>4. PICK g, p : fs' = g /\ Simple(g) /\ CallStep(fs, opened, g, p)
  BY <1>3 DEF CallMade
<1>5. AllReached(g)
  BY <1>1, <1>4, CallReaches, StepReaches
<1>6. Simple(fs)' /\ AllReached(fs)'
  BY <1>4, <1>5, SimpleAfter, ReachedAfter
<1>7. IInv' /\ Tidy(fs)' /\ Kept'
  BY <1>1, <1>2, IInvNext, TidyNext, KeptNext
<1> QED  BY <1>6, <1>7 DEF Connected

LEMMA ReachesReachable ==
  ASSUME Sound(fs), AllReached(fs)
  PROVE  NothingLost
<1>1. Root \in Reachable /\ Reachable \in SUBSET Inodes
  BY NamedFrom
<1>2. ClosedNames(fs, Reachable)
  BY LeadsOn DEF ClosedNames
<1> QED  BY <1>1, <1>2 DEF AllReached, NothingLost

LEMMA ConnectedShows == Connected => NothingLost
BY ConnectedPlain, ReachesReachable DEF Connected

\* The inductive invariant of trees without links: every inode in use can be
\* reached by names, and what is free has no entries.
THEOREM NamesStayConnected == Orderly => (Spec => []Connected)
<1> SUFFICES ASSUME Orderly PROVE Spec => []Connected
  OBVIOUS
<1>1. Connected /\ [Next]_vars => Connected'
  BY ConnectedNext
<1> QED  BY <1>1, ConnectedInit, PTL DEF Spec

\* Every inode in use can be reached by names: no call that stops half way
\* leaves a file or directory behind, and no move takes one out of the tree.
THEOREM NothingIsLost == Orderly => (Spec => []NothingLost)
<1> SUFFICES ASSUME Orderly PROVE Spec => []NothingLost
  OBVIOUS
<1> QED  BY NamesStayConnected, ConnectedShows, PTL

--------------------------------------------------------------------------------
(* The tree that the names make.                                           *)

IsPlace(f, i, p) ==
  p \in [dir : Inodes, name : Names] /\ Leads(f, p.dir, p.name, i)

\* Where the table f has i.
Where(f) ==
  [i \in Inodes |-> IF \E p \in [dir : Inodes, name : Names] : IsPlace(f, i, p)
                    THEN CHOOSE p : IsPlace(f, i, p) ELSE Nowhere]

Kinds(f) ==
  [i \in Inodes |-> IF f.node[i].used THEN f.node[i].type ELSE "none"]

LEMMA LeadsPlace ==
  ASSUME NEW f, Sound(f), Tidy(f), NEW h \in Inodes, NEW n, NEW i, Leads(f, h, n, i)
  PROVE  /\ i \in Inodes \ {Root} /\ n \in Names
         /\ IsPlace(f, i, [dir |-> h, name |-> n])
         /\ Where(f)[i] = [dir |-> h, name |-> n]
<1>1. i \in Inodes /\ n \in Components /\ FindEntry(f, h, n) = i
  BY LeadsFound DEF Tidy
<1>2. n \in Names /\ n \notin {Dot, DotDot}
  BY <1>1 DEF Leads, Enters, Components
<1>3. i # Root
  BY <1>1, <1>2, Found
<1> DEFINE q == [dir |-> h, name |-> n]
<1>4. q \in [dir : Inodes, name : Names] /\ q.dir = h /\ q.name = n
  BY <1>2
<1>5. IsPlace(f, i, q)
  BY <1>4 DEF IsPlace
<1>6. ASSUME NEW p, IsPlace(f, i, p)
      PROVE  p = q
  <2>1. p.dir \in Inodes /\ p = [dir |-> p.dir, name |-> p.name]
    BY <1>6 DEF IsPlace
  <2>2. p.dir = h /\ p.name = n
    BY <1>6, <2>1 DEF IsPlace, Tidy
  <2> QED  BY <2>1, <2>2
<1> HIDE DEF q
<1>7. (CHOOSE p : IsPlace(f, i, p)) = q
  BY <1>5, <1>6
<1>8. Where(f)[i] = q
  BY <1>1, <1>4, <1>5, <1>7 DEF Where
<1> QED  BY <1>1, <1>2, <1>3, <1>5, <1>8 DEF q

LEMMA UnnamedNowhere ==
  ASSUME NEW f, NEW i \in Inodes, Unnamed(f, i)
  PROVE  Where(f)[i] = Nowhere
BY DEF Where, IsPlace, Unnamed

\* What is somewhere is named there.
LEMMA WherePlace ==
  ASSUME NEW f, Sound(f), Tidy(f), NEW i \in Inodes, Where(f)[i] # Nowhere
  PROVE  /\ Where(f)[i] \in [dir : Inodes, name : Names]
         /\ Leads(f, Where(f)[i].dir, Where(f)[i].name, i)
<1>1. PICK p \in [dir : Inodes, name : Names] : IsPlace(f, i, p)
  BY DEF Where
<1>2. p.dir \in Inodes /\ p.name \in Names /\ Leads(f, p.dir, p.name, i)
  BY <1>1 DEF IsPlace
<1>3. Where(f)[i] = [dir |-> p.dir, name |-> p.name]
  BY <1>2, LeadsPlace
<1> QED  BY <1>2, <1>3

LEMMA PlaceIsSomewhere ==
  ASSUME NEW h \in Inodes, NEW n \in Names
  PROVE  [dir |-> h, name |-> n] # Nowhere
BY NowhereAssumption

\* The tree of the refinement is this one.
LEMMA TreeMeans == Connected => PlaceOf = Where(fs) /\ KindOf = Kinds(fs)
<1> SUFFICES ASSUME Connected PROVE PlaceOf = Where(fs) /\ KindOf = Kinds(fs)
  OBVIOUS
<1>1. /\ Sound(fs) /\ Tidy(fs) /\ Upright(fs) /\ Bare(fs)
  BY ConnectedPlain DEF Plain
<1>2. \A i \in Inodes : fs.node[i].used <=> i \in Reachable
  BY <1>1, ConnectedShows, ReachableClosed DEF NothingLost
<1>3. KindOf = Kinds(fs)
  BY <1>2, Zenon DEF KindOf, Kinds
<1> DEFINE there(dir, e) == [inode |-> e.inode, place |-> [dir |-> dir, name |-> e.name]]
           entered == UNION {{there(dir, e) : e \in Named(dir)} : dir \in Reachable}
           spot(i) == IF \E p \in entered : p.inode = i /\ i # Root
                    THEN (CHOOSE p \in entered : p.inode = i).place ELSE Nowhere
<1>4. PlaceOf = [i \in Inodes |-> spot(i)]
  BY Zenon DEF PlaceOf
<1>5. ASSUME NEW p \in entered
      PROVE  \E h \in Inodes : \E n : /\ p.place = [dir |-> h, name |-> n]
                                      /\ Leads(fs, h, n, p.inode)
  <2>1. PICK dir \in Reachable : \E e \in Named(dir) : p = there(dir, e)
    BY Zenon
  <2>2. PICK e \in Named(dir) : p = there(dir, e)
    BY <2>1
  <2>3. dir \in Inodes
    BY <1>1, NamedFrom
  <2>4. Leads(fs, dir, e.name, e.inode)
    BY <1>1, <2>3, NamedLeads
  <2>5. p.inode = e.inode /\ p.place = [dir |-> dir, name |-> e.name]
    BY <2>2
  <2> HIDE DEF entered
  <2> QED  BY <2>3, <2>4, <2>5
<1>6. ASSUME NEW h \in Inodes, NEW n, NEW i, Leads(fs, h, n, i)
      PROVE  \E p \in entered : p.inode = i
  <2> DEFINE s == fs.node[h].entries
  <2>1. s # << >>
    BY <1>6 DEF Leads, Enters
  <2>2. h \in Reachable
    BY <1>1, <1>2, <2>1 DEF Bare
  <2>3. PICK e \in Named(h) : e.inode = i
    BY <1>1, <1>6, LeadsNamed
  <2>4. there(h, e) \in {there(h, d) : d \in Named(h)}
    BY Zenon
  <2> HIDE DEF there
  <2>5. there(h, e) \in entered
    BY <2>2, <2>4
  <2>6. there(h, e).inode = i
    BY <2>3 DEF there
  <2> HIDE DEF entered
  <2> QED  BY <2>5, <2>6
<1> HIDE DEF entered
<1>7. ASSUME NEW i \in Inodes
      PROVE  spot(i) = Where(fs)[i]
  <2>1. CASE Unnamed(fs, i)
    <3>1. \A p \in entered : p.inode # i
      BY <1>5, <2>1 DEF Unnamed
    <3>2. spot(i) = Nowhere
      BY <3>1
    <3> QED  BY <2>1, <3>2, UnnamedNowhere
  <2>2. CASE ~Unnamed(fs, i)
    <3>1. PICK h, n : h \in Inodes /\ Leads(fs, h, n, i)
      BY <2>2 DEF Unnamed
    <3>2. i # Root
      BY <1>1, <3>1, LeadsPlace
    <3>3. \E p \in entered : p.inode = i
      BY <1>6, <3>1
    <3> DEFINE p == CHOOSE p \in entered : p.inode = i
    <3>4. p \in entered /\ p.inode = i /\ spot(i) = p.place
      BY <3>2, <3>3
    <3> HIDE DEF p
    <3>5. PICK k, m : /\ k \in Inodes /\ p.place = [dir |-> k, name |-> m]
                      /\ Leads(fs, k, m, i)
      BY <1>5, <3>4
    <3> HIDE DEF spot
    <3> QED  BY <1>1, <3>4, <3>5, LeadsPlace
  <2> QED  BY <2>1, <2>2
<1>8. PlaceOf = Where(fs)
  <2>1. Where(fs) = [i \in Inodes |-> Where(fs)[i]]
    BY DEF Where
  <2> HIDE DEF spot
  <2> QED  BY <1>4, <1>7, <2>1
<1> QED  BY <1>3, <1>8

\* What is named as before stays where it is.
LEMMA WhereMoves ==
  ASSUME NEW f, Sound(f), Tidy(f), NEW g, Sound(g), Tidy(g), NEW i,
         \A a \in Inodes : \A l, j :
            j # i => (Leads(g, a, l, j) <=> Leads(f, a, l, j))
  PROVE  /\ \A j \in Inodes : j # i => Where(g)[j] = Where(f)[j]
         /\ Where(g) = [Where(f) EXCEPT ![i] = Where(g)[i]]
<1>1. ASSUME NEW j \in Inodes, j # i
      PROVE  Where(g)[j] = Where(f)[j]
  <2>1. CASE Unnamed(f, j)
    <3>1. Unnamed(g, j)
      BY <1>1, <2>1 DEF Unnamed
    <3> QED  BY <2>1, <3>1, UnnamedNowhere
  <2>2. CASE ~Unnamed(f, j)
    <3>1. PICK a, l : a \in Inodes /\ Leads(f, a, l, j)
      BY <2>2 DEF Unnamed
    <3>2. Leads(g, a, l, j)
      BY <1>1, <3>1
    <3>3. Where(f)[j] = [dir |-> a, name |-> l]
      BY <3>1, LeadsPlace
    <3>4. Where(g)[j] = [dir |-> a, name |-> l]
      BY <3>1, <3>2, LeadsPlace
    <3> QED  BY <3>3, <3>4
  <2> QED  BY <2>1, <2>2
<1> DEFINE P == Where(f)
           Q == Where(g)
<1>2. /\ P = [j \in Inodes |-> P[j]] /\ Q = [j \in Inodes |-> Q[j]]
      /\ DOMAIN P = Inodes
  BY DEF Where
<1> HIDE DEF P, Q
<1>3. \A j \in Inodes : j # i => Q[j] = P[j]
  BY <1>1 DEF P, Q
<1>4. Q = [P EXCEPT ![i] = Q[i]]
  BY <1>2, <1>3
<1> QED  BY <1>1, <1>4 DEF P, Q

LEMMA KindsMove ==
  ASSUME NEW f, NEW g, NEW i, OthersStay(f, g, i)
  PROVE  /\ i \in Inodes =>
              Kinds(g) = [Kinds(f) EXCEPT ![i] = Kinds(g)[i]]
         /\ i = NoInode => Kinds(g) = Kinds(f)
<1>1. \A j \in Inodes : j # i => Kinds(g)[j] = Kinds(f)[j]
  BY DEF Kinds, OthersStay
<1> DEFINE P == Kinds(f)
           Q == Kinds(g)
<1>2. /\ P = [j \in Inodes |-> P[j]] /\ Q = [j \in Inodes |-> Q[j]]
      /\ DOMAIN P = Inodes
  BY DEF Kinds
<1> HIDE DEF P, Q
<1>3. \A j \in Inodes : j # i => Q[j] = P[j]
  BY <1>1 DEF P, Q
<1>4. Q = [P EXCEPT ![i] = Q[i]]
  BY <1>2, <1>3
<1>5. i = NoInode => Q = P
  BY <1>2, <1>3, RootIsInode
<1> QED  BY <1>4, <1>5 DEF P, Q

\* What a call makes of the tree P, with the kinds K, to Q and L.
LEMMA SameWhere ==
  ASSUME NEW f, Sound(f), Tidy(f), NEW g, Sound(g), Tidy(g), Same(f, g)
  PROVE  Where(g) = Where(f) /\ Kinds(g) = Kinds(f)
<1>1. \A j \in Inodes : j # NoInode => Where(g)[j] = Where(f)[j]
  BY WhereMoves DEF Same, SameLeads
<1>2. \A j \in Inodes : Where(g)[j] = Where(f)[j]
  BY <1>1, RootIsInode
<1>3. Where(g) = Where(f)
  <2> DEFINE P == Where(f)
             Q == Where(g)
  <2>1. P = [j \in Inodes |-> P[j]] /\ Q = [j \in Inodes |-> Q[j]]
    BY DEF Where
  <2> HIDE DEF P, Q
  <2>2. \A j \in Inodes : Q[j] = P[j]
    BY <1>2 DEF P, Q
  <2>3. Q = P
    BY <2>1, <2>2
  <2> QED  BY <2>3 DEF P, Q
<1>4. Kinds(g) = Kinds(f)
  BY KindsMove DEF Same
<1> QED  BY <1>3, <1>4

\* The place of a name that leads nowhere in a directory is free.
IsFree(f, h, n) ==
  /\ h \in Inodes /\ n \in Names /\ Kinds(f)[h] = "directory"
  /\ \A o \in Inodes : Where(f)[o] # [dir |-> h, name |-> n]

LEMMA FreePlace ==
  ASSUME NEW f, Sound(f), Tidy(f), NEW h, NEW n \in Names, IsUsedDirectory(f, h),
         \A j : ~Leads(f, h, n, j)
  PROVE  IsFree(f, h, n)
<1>1. h \in Inodes /\ Kinds(f)[h] = "directory"
  BY DEF IsUsedDirectory, Kinds
<1>2. ASSUME NEW o \in Inodes, Where(f)[o] = [dir |-> h, name |-> n]
      PROVE  FALSE
  <2>1. Where(f)[o] # Nowhere
    BY <1>1, <1>2, PlaceIsSomewhere
  <2>2. Leads(f, Where(f)[o].dir, Where(f)[o].name, o)
    BY <2>1, WherePlace
  <2>3. Where(f)[o].dir = h /\ Where(f)[o].name = n
    BY <1>2
  <2> QED  BY <2>2, <2>3
<1> QED  BY <1>1, <1>2 DEF IsFree

LEMMA AddedWhere ==
  ASSUME NEW f, Sound(f), Tidy(f), NEW g, Sound(g), Tidy(g), NEW h, NEW n, NEW i,
         Added(f, g, h, n, i)
  PROVE  /\ i \in Inodes \ {Root} /\ Where(f)[i] = Nowhere
         /\ Where(g) = [Where(f) EXCEPT ![i] = Where(g)[i]]
         /\ Where(g)[i] = [dir |-> h, name |-> n] /\ IsFree(f, h, n)
         /\ Kinds(g)[i] = g.node[i].type
         /\ Kinds(g) = [Kinds(f) EXCEPT ![i] = Kinds(g)[i]]
<1>1. i \in Inodes \ {Root} /\ h \in Inodes /\ n \in Names
  BY DEF Added, IsUsedDirectory
<1>2. Unnamed(f, i)
  BY DEF Added, Tidy, Unnamed
<1>3. Where(f)[i] = Nowhere
  BY <1>1, <1>2, UnnamedNowhere
<1>4. \A a \in Inodes : \A l, j :
        j # i => (Leads(g, a, l, j) <=> Leads(f, a, l, j))
  BY DEF Added
<1>5. Where(g) = [Where(f) EXCEPT ![i] = Where(g)[i]]
  BY <1>4, WhereMoves
<1>6. Leads(g, h, n, i)
  BY <1>1 DEF Added
<1>7. Where(g)[i] = [dir |-> h, name |-> n]
  BY <1>1, <1>6, LeadsPlace
<1>8. IsFree(f, h, n)
  BY <1>1, FreePlace DEF Added
<1>9. Kinds(g)[i] = g.node[i].type
  BY <1>1 DEF Kinds, Added
<1>10. Kinds(g) = [Kinds(f) EXCEPT ![i] = Kinds(g)[i]]
  BY <1>1, KindsMove DEF Added
<1> QED  BY <1>1, <1>3, <1>5, <1>7, <1>8, <1>9, <1>10

LEMMA EmptiedWhere ==
  ASSUME NEW f, Sound(f), Tidy(f), NEW g, Sound(g), Tidy(g), NEW h, NEW n, NEW i,
         Emptied(f, g, h, n, i)
  PROVE  /\ i \in Inodes \ {Root} /\ Where(f)[i] # Nowhere
         /\ Where(g) = [Where(f) EXCEPT ![i] = Where(g)[i]]
         /\ Where(g)[i] = Nowhere
         /\ \A c \in Inodes : Where(f)[c] # Nowhere => Where(f)[c].dir # i
         /\ Kinds(g)[i] = "none"
         /\ Kinds(g) = [Kinds(f) EXCEPT ![i] = Kinds(g)[i]]
<1>1. i \in Inodes \ {Root} /\ h \in Inodes /\ Leads(f, h, n, i)
  BY DEF Emptied
<1>2. n \in Names /\ Where(f)[i] = [dir |-> h, name |-> n]
  BY <1>1, LeadsPlace
<1>3. Where(f)[i] # Nowhere
  BY <1>1, <1>2, PlaceIsSomewhere
<1>4. \A j : Leads(f, h, n, j) => j = i
  BY <1>1, LeadsFound DEF Tidy
<1>5. \A a \in Inodes : \A l, j :
        j # i => (Leads(g, a, l, j) <=> Leads(f, a, l, j))
  BY <1>4 DEF Emptied
<1>6. Where(g) = [Where(f) EXCEPT ![i] = Where(g)[i]]
  BY <1>5, WhereMoves
<1>7. Unnamed(g, i)
  BY <1>1 DEF Unnamed, Emptied, Tidy
<1>8. Where(g)[i] = Nowhere
  BY <1>1, <1>7, UnnamedNowhere
<1>9. ASSUME NEW c \in Inodes, Where(f)[c] # Nowhere
      PROVE  Where(f)[c].dir # i
  BY <1>9, WherePlace DEF Emptied
<1>10. Kinds(g)[i] = "none"
  BY <1>1 DEF Kinds, Emptied
<1>11. Kinds(g) = [Kinds(f) EXCEPT ![i] = Kinds(g)[i]]
  BY <1>1, KindsMove DEF Emptied
<1> QED  BY <1>1, <1>3, <1>6, <1>8, <1>9, <1>10, <1>11

LEMMA ShiftedWhere ==
  ASSUME NEW f, Sound(f), Tidy(f), NEW g, Sound(g), Tidy(g), NEW h, NEW n,
         NEW k, NEW m, NEW i, Shifted(f, g, h, n, k, m, i)
  PROVE  /\ i \in Inodes \ {Root} /\ Where(f)[i] # Nowhere
         /\ Where(g) = [Where(f) EXCEPT ![i] = Where(g)[i]]
         /\ Where(g)[i] = [dir |-> k, name |-> m] /\ IsFree(f, k, m)
         /\ Kinds(g) = Kinds(f)
<1>1. /\ i \in Inodes \ {Root} /\ h \in Inodes /\ Leads(f, h, n, i)
      /\ k \in Inodes /\ m \in Names
  BY DEF Shifted, IsUsedDirectory
<1>2. n \in Names /\ Where(f)[i] = [dir |-> h, name |-> n]
  BY <1>1, LeadsPlace
<1>3. Where(f)[i] # Nowhere
  BY <1>1, <1>2, PlaceIsSomewhere
<1>4. \A j : Leads(f, h, n, j) => j = i
  BY <1>1, LeadsFound DEF Tidy
<1>5. \A a \in Inodes : \A l, j :
        j # i => (Leads(g, a, l, j) <=> Leads(f, a, l, j))
  BY <1>4 DEF Shifted
<1>6. Where(g) = [Where(f) EXCEPT ![i] = Where(g)[i]]
  BY <1>5, WhereMoves
<1>7. Leads(g, k, m, i)
  BY <1>1 DEF Shifted
<1>8. Where(g)[i] = [dir |-> k, name |-> m]
  BY <1>1, <1>7, LeadsPlace
<1>9. IsFree(f, k, m)
  BY <1>1, FreePlace DEF Shifted
<1>10. Kinds(g) = Kinds(f)
  BY KindsMove DEF Shifted
<1> QED  BY <1>1, <1>3, <1>6, <1>8, <1>9, <1>10

\* The inodes of S and those one place below them.
Down(P, S) == S \cup {c \in Inodes : P[c] # Nowhere /\ P[c].dir \in S}

\* What no place leads out of has everything that is below what it has.
LEMMA BelowStays ==
  ASSUME NEW i, NEW T \in SUBSET Inodes, i \in T,
         \A c \in Inodes : PlaceOf[c] # Nowhere /\ PlaceOf[c].dir \in T => c \in T
  PROVE  Tree!Below(i) \subseteq T
<1> DEFINE Sets == SUBSET Inodes
           P == PlaceOf
           from == CHOOSE g : g = [S \in Sets |->
                       IF Down(P, S) = S THEN S ELSE g[Down(P, S)]]
           closing(S) == {j \in Inodes : \A U \in Sets :
                              S \subseteq U /\ Down(P, U) = U => j \in U}
           h == [S \in Sets |-> closing(S)]
<1>1. Tree!Below(i) = from[{i}]
  BY Zenon DEF Tree!Below, Down
<1> HIDE DEF P
<1>2. \A S \in Sets : Down(P, S) \in Sets /\ S \subseteq Down(P, S)
  BY DEF Down
<1>3. \A S, U \in Sets : S \subseteq U => Down(P, S) \subseteq Down(P, U)
  BY DEF Down
<1>4. \A S \in Sets : h[S] = IF Down(P, S) = S THEN S ELSE h[Down(P, S)]
  <2> TAKE S \in Sets
  <2>1. ASSUME Down(P, S) = S
        PROVE  closing(S) = S
    BY <2>1
  <2>2. \A U \in Sets : Down(P, U) = U => (S \subseteq U <=> Down(P, S) \subseteq U)
    BY <1>2, <1>3
  <2>3. closing(S) = closing(Down(P, S))
    BY <2>2
  <2>4. h[S] = closing(S) /\ h[Down(P, S)] = closing(Down(P, S))
    BY <1>2
  <2> HIDE DEF h, closing
  <2> QED  BY <2>1, <2>3, <2>4
<1>5. h = [S \in Sets |-> IF Down(P, S) = S THEN S ELSE h[Down(P, S)]]
  <2>1. h = [S \in Sets |-> h[S]]
    OBVIOUS
  <2> HIDE DEF h
  <2> QED  BY <1>4, <2>1
<1>6. from = [S \in Sets |-> IF Down(P, S) = S THEN S ELSE from[Down(P, S)]]
  BY <1>5
<1> HIDE DEF from, h
<1>7. \A S \in Sets : from[S] = IF Down(P, S) = S THEN S ELSE from[Down(P, S)]
  BY <1>6
<1>8. Down(P, T) = T
  BY DEF Down, P
<1> DEFINE size(S) == Cardinality(Inodes \ S)
           Bad == {n \in Nat : \E S \in Sets :
                      size(S) = n /\ S \subseteq T /\ ~(from[S] \subseteq T)}
<1>9. IsFiniteSet(Inodes)
  BY FS_Interval, DirectoriesAssumption DEF Inodes, Root
<1>10. \A S \in Sets : size(S) \in Nat
  BY <1>9, FS_Subset, FS_CardinalityType
<1>11. ASSUME NEW S \in Sets, NEW U \in Sets, S \subseteq U, S # U
       PROVE  size(U) < size(S)
  <2>1. IsFiniteSet(Inodes \ S) /\ Inodes \ U \in SUBSET (Inodes \ S)
    BY <1>9, <1>11, FS_Subset
  <2>2. Inodes \ U # Inodes \ S
    BY <1>11
  <2>3. size(U) <= size(S) /\ size(U) # size(S)
    BY <2>1, <2>2, FS_Subset
  <2>4. size(U) \in Nat /\ size(S) \in Nat
    BY <1>10
  <2> HIDE DEF size
  <2> QED  BY <2>3, <2>4
<1>12. \A S \in Sets : S \subseteq T => from[S] \subseteq T
  <2> HIDE DEF size
  <2>1. SUFFICES ASSUME Bad # {} PROVE FALSE
    BY <1>10
  <2>2. PICK n \in Bad : \A m \in Bad : n <= m
    <3> HIDE DEF Bad
    <3>1. Bad \in SUBSET Nat
      BY DEF Bad
    <3> QED  BY <2>1, <3>1, LeastNatural
  <2>3. PICK S \in Sets : size(S) = n /\ S \subseteq T /\ ~(from[S] \subseteq T)
    BY <2>2
  <2>4. CASE Down(P, S) = S
    BY <1>7, <2>3, <2>4
  <2>5. CASE Down(P, S) # S
    <3> DEFINE D == Down(P, S)
    <3>1. D \in Sets /\ S \subseteq D /\ from[S] = from[D] /\ S # D
      BY <1>2, <1>7, <2>5
    <3>2. D \subseteq T
      BY <1>3, <1>8, <2>3
    <3> HIDE DEF D
    <3>3. size(D) < size(S) /\ size(D) \in Nat /\ size(S) \in Nat
      BY <1>10, <1>11, <3>1
    <3>4. size(D) \in Bad
      BY <2>3, <3>1, <3>2, <3>3
    <3> HIDE DEF Bad
    <3> QED  BY <2>2, <2>3, <3>3, <3>4
  <2> QED  BY <2>4, <2>5
<1>13. {i} \in Sets /\ {i} \subseteq T
  OBVIOUS
<1> QED  BY <1>1, <1>12, <1>13

LEMMA UsedSomewhere ==
  ASSUME Connected, NEW i \in Inodes, fs.node[i].used, i # Root
  PROVE  Where(fs)[i] # Nowhere
<1>1. Sound(fs) /\ Tidy(fs) /\ NothingLost
  BY ConnectedPlain, ConnectedShows DEF Plain
<1>2. i \in Reachable
  BY <1>1 DEF NothingLost
<1>3. PICK h \in Reachable : \E n : Leads(fs, h, n, i)
  BY <1>1, <1>2, NamedFrom
<1>4. PICK n : Leads(fs, h, n, i)
  BY <1>3
<1>5. h \in Inodes
  BY <1>1, NamedFrom
<1>6. n \in Names /\ Where(fs)[i] = [dir |-> h, name |-> n]
  BY <1>1, <1>4, <1>5, LeadsPlace
<1> QED  BY <1>5, <1>6, PlaceIsSomewhere

\* The inodes that descriptors have open.
Holders(o) == {o[d] : d \in Descriptors} \ {NoInode}

LEMMA OpensHolds ==
  ASSUME NEW o \in [Descriptors -> Inodes \cup {NoInode}], NEW p, NEW i \in Inodes,
         Opens(o, p, i)
  PROVE  Holders(p) = Holders(o) \/ Holders(p) = Holders(o) \cup {i}
<1>1. CASE p = o
  BY <1>1
<1>2. ASSUME NEW d \in Descriptors, o[d] = NoInode, p = [o EXCEPT ![d] = i]
      PROVE  Holders(p) = Holders(o) \cup {i}
  <2>1. p[d] = i /\ \A e \in Descriptors : e # d => p[e] = o[e]
    BY <1>2
  <2>2. i # NoInode
    BY RootIsInode
  <2> QED  BY <1>2, <2>1, <2>2 DEF Holders
<1> QED  BY <1>1, <1>2 DEF Opens

LEMMA CloseHolds ==
  ASSUME NEW o \in [Descriptors -> Inodes \cup {NoInode}], NEW d \in Descriptors,
         NEW p, p = [o EXCEPT ![d] = NoInode]
  PROVE  \/ Holders(p) = Holders(o)
         \/ o[d] \in Inodes /\ Holders(p) = Holders(o) \ {o[d]}
<1>1. p[d] = NoInode /\ \A e \in Descriptors : e # d => p[e] = o[e]
  OBVIOUS
<1>2. CASE o[d] = NoInode \/ \E e \in Descriptors : e # d /\ o[e] = o[d]
  BY <1>1, <1>2 DEF Holders
<1>3. CASE o[d] # NoInode /\ \A e \in Descriptors : e # d => o[e] # o[d]
  BY <1>1, <1>3 DEF Holders
<1> QED  BY <1>2, <1>3

Meant == PlaceOf = Where(fs) /\ KindOf = Kinds(fs) /\ HeldOf = Holders(opened)

LEMMA AlwaysMeant == Connected => Meant
BY TreeMeans DEF Meant, HeldOf, Holders

LEMMA MeantAfter ==
  ASSUME NEW g, NEW p, fs' = g, opened' = p, Meant'
  PROVE  PlaceOf' = Where(g) /\ KindOf' = Kinds(g) /\ HeldOf' = Holders(p)
<1>1. /\ PlaceOf' = Where(fs)' /\ KindOf' = Kinds(fs)' /\ HeldOf' = Holders(opened)'
  BY DEF Meant
<1>2. Where(fs)' = Where(g)
  OBVIOUS
<1>3. Kinds(fs)' = Kinds(g)
  OBVIOUS
<1>4. Holders(opened)' = Holders(p)
  OBVIOUS
<1> QED  BY <1>1, <1>2, <1>3, <1>4

LEMMA TreeInit == Init /\ Connected /\ Meant => Tree!Init
<1> SUFFICES ASSUME Init, Connected, Meant PROVE Tree!Init
  OBVIOUS
<1> DEFINE root == [used |-> TRUE, type |-> "directory",
                    entries |-> << [name |-> Dot, inode |-> Root],
                                   [name |-> DotDot, inode |-> Root] >>,
                    clusters |-> 1, target |-> NoTarget]
           table == [i \in Inodes |-> IF i = Root THEN root ELSE FreeNode]
<1>1. fs.node = table /\ opened = [d \in Descriptors |-> NoInode]
  BY DEF Init
<1>2. root.used /\ root.type = "directory" /\ ~FreeNode.used
  BY DEF FreeNode
<1> HIDE DEF root
<1>3. /\ fs.node[Root] = root
      /\ \A i \in Inodes : i # Root => fs.node[i] = FreeNode
  BY <1>1, RootIsInode
<1> HIDE DEF table
<1>4. Sound(fs) /\ Tidy(fs)
  BY ConnectedPlain DEF Plain
<1>5. \A i \in Inodes : Unnamed(fs, i)
  <2> SUFFICES ASSUME NEW i \in Inodes, NEW h \in Inodes, NEW n, Leads(fs, h, n, i)
               PROVE  FALSE
    BY DEF Unnamed
  <2>1. i # Root
    BY <1>4, LeadsPlace
  <2>2. fs.node[i].used
    BY <1>4 DEF Tidy
  <2> QED  BY <1>2, <1>3, <2>1, <2>2
<1>6. \A i \in Inodes : Where(fs)[i] = Nowhere
  BY <1>5, UnnamedNowhere
<1>7. Where(fs) = [i \in Inodes |-> Nowhere]
  <2> DEFINE P == Where(fs)
  <2>1. P = [i \in Inodes |-> P[i]]
    BY DEF Where
  <2> HIDE DEF P
  <2>2. \A i \in Inodes : P[i] = Nowhere
    BY <1>6 DEF P
  <2>3. P = [i \in Inodes |-> Nowhere]
    BY <2>1, <2>2
  <2> QED  BY <2>3 DEF P
<1>8. Kinds(fs) = [i \in Inodes |-> IF i = Root THEN "directory" ELSE "none"]
  BY <1>2, <1>3 DEF Kinds
<1>9. Holders(opened) = {}
  BY <1>1 DEF Holders
<1> QED  BY <1>7, <1>8, <1>9 DEF Tree!Init, Meant

LEMMA TreeStepMade ==
  Connected /\ Meant /\ Connected' /\ Meant' /\ CallMade => [Tree!Next]_(Tree!vars)
<1> SUFFICES ASSUME Connected, Meant, Connected', Meant', CallMade
             PROVE  Tree!Next
  OBVIOUS
<1>1. Plain(fs) /\ IInv /\ Sound(fs) /\ Tidy(fs) /\ Kept
  BY ConnectedPlain DEF Connected, Plain
<1>3. PICK g, p : fs' = g /\ opened' = p /\ CallStep(fs, opened, g, p)
  BY DEF CallMade
<1>4. Sound(g) /\ Tidy(g)
  <2>1. Sound(fs)' /\ Tidy(fs)'
    BY DEF Connected, IInv
  <2>2. Sound(g)
    BY <1>3, <2>1
  <2>3. Tidy(g)
    BY <1>3, <2>1
  <2> QED  BY <2>2, <2>3
<1>5. PlaceOf' = Where(g) /\ KindOf' = Kinds(g) /\ HeldOf' = Holders(p)
  BY <1>3, MeantAfter
<1>6. PlaceOf = Where(fs) /\ KindOf = Kinds(fs) /\ HeldOf = Holders(opened)
  BY DEF Meant
<1>7. opened \in [Descriptors -> Inodes \cup {NoInode}]
  BY <1>1 DEF IInv
<1>8. ASSUME Same(fs, g), HeldOf' = HeldOf
      PROVE  Tree!Next
  <2>1. PlaceOf' = PlaceOf /\ KindOf' = KindOf
    BY <1>1, <1>4, <1>5, <1>6, <1>8, SameWhere
  <2> QED  BY <1>8, <2>1 DEF Tree!Next, Tree!Nothing, Tree!vars
<1>9. ASSUME Same(fs, g), NEW i \in Inodes, fs.node[i].used,
             fs.node[i].type = "regular", Opens(opened, p, i)
      PROVE  Tree!Next
  <2>1. PlaceOf' = PlaceOf /\ KindOf' = KindOf
    BY <1>1, <1>4, <1>5, <1>6, <1>9, SameWhere
  <2>2. i # Root
    BY <1>1, <1>9 DEF Sound, RootStays
  <2>3. PlaceOf[i] # Nowhere
    BY <1>6, <1>9, <2>2, UsedSomewhere
  <2>4. KindOf[i] = "regular"
    BY <1>6, <1>9 DEF Kinds
  <2>5. HeldOf' = HeldOf \/ HeldOf' = HeldOf \cup {i}
    BY <1>5, <1>6, <1>7, <1>9, OpensHolds
  <2>6. CASE HeldOf' = HeldOf \cup {i}
    <3>1. Tree!Hold(i)
      BY <2>1, <2>3, <2>4, <2>6 DEF Tree!Hold, Tree!InTree
    <3> QED  BY <1>9, <2>2, <3>1 DEF Tree!Next
  <2> QED  BY <1>8, <1>9, <2>5, <2>6
<1>10. ASSUME Same(fs, g), NEW d \in Descriptors, p = [opened EXCEPT ![d] = NoInode]
       PROVE  Tree!Next
  <2>1. PlaceOf' = PlaceOf /\ KindOf' = KindOf
    BY <1>1, <1>4, <1>5, <1>6, <1>10, SameWhere
  <2>2. \/ HeldOf' = HeldOf
        \/ opened[d] \in Inodes /\ HeldOf' = HeldOf \ {opened[d]}
    BY <1>5, <1>6, <1>7, <1>10, CloseHolds
  <2>3. CASE opened[d] \in Inodes /\ HeldOf' = HeldOf \ {opened[d]}
    <3>1. fs.node[opened[d]].type = "regular"
      BY <1>1, <2>3, RootIsInode DEF Kept, OpenFilesStay
    <3>2. opened[d] # Root
      BY <1>1, <3>1 DEF Sound, RootStays
    <3>3. Tree!Release(opened[d])
      BY <2>1, <2>3 DEF Tree!Release
    <3> QED  BY <2>3, <3>2, <3>3 DEF Tree!Next
  <2> QED  BY <1>8, <1>10, <2>2, <2>3
<1>11. ASSUME NEW h, NEW n, NEW i, Added(fs, g, h, n, i),
              p = opened \/ (g.node[i].type = "regular" /\ Opens(opened, p, i))
       PROVE  Tree!Next
  <2>1. /\ i \in Inodes \ {Root} /\ PlaceOf[i] = Nowhere
        /\ PlaceOf' = [PlaceOf EXCEPT ![i] = PlaceOf'[i]]
        /\ PlaceOf'[i] = [dir |-> h, name |-> n] /\ IsFree(fs, h, n)
        /\ KindOf'[i] = g.node[i].type
        /\ KindOf' = [KindOf EXCEPT ![i] = KindOf'[i]]
    BY <1>1, <1>4, <1>5, <1>6, <1>11, AddedWhere
  <2>2. PlaceOf'[i] \in Tree!Free
    BY <1>6, <2>1 DEF IsFree, Tree!Free
  <2>3. g.node[i].type \in {"regular", "directory", "symlink"}
    BY <1>4, <2>1 DEF Sound, Table, Node
  <2>4. \/ HeldOf' = HeldOf
        \/ KindOf'[i] = "regular" /\ HeldOf' = HeldOf \cup {i}
    BY <1>5, <1>6, <1>7, <1>11, <2>1, OpensHolds
  <2>5. Tree!Add(i)
    BY <2>1, <2>2, <2>3, <2>4 DEF Tree!Add, Tree!InTree, Tree!Replaced
  <2> QED  BY <2>1, <2>5 DEF Tree!Next
<1>12. ASSUME NEW h, NEW n, NEW i, Emptied(fs, g, h, n, i), p = opened,
              \A d \in Descriptors : opened[d] # i
       PROVE  Tree!Next
  <2>1. /\ i \in Inodes \ {Root} /\ PlaceOf[i] # Nowhere
        /\ PlaceOf' = [PlaceOf EXCEPT ![i] = PlaceOf'[i]]
        /\ PlaceOf'[i] = Nowhere
        /\ \A c \in Inodes : PlaceOf[c] # Nowhere => PlaceOf[c].dir # i
        /\ KindOf'[i] = "none"
        /\ KindOf' = [KindOf EXCEPT ![i] = KindOf'[i]]
    BY <1>1, <1>4, <1>5, <1>6, <1>12, EmptiedWhere
  <2>2. Tree!Inside(i) = {}
    BY <2>1 DEF Tree!Inside
  <2>3. i \notin HeldOf /\ HeldOf' = HeldOf
    BY <1>5, <1>6, <1>12 DEF Holders
  <2>4. Tree!Drop(i)
    BY <2>1, <2>2, <2>3 DEF Tree!Drop, Tree!Replaced
  <2> QED  BY <2>1, <2>4 DEF Tree!Next
<1>13. ASSUME NEW h, NEW n, NEW k, NEW m, NEW i, Shifted(fs, g, h, n, k, m, i),
              p = opened
       PROVE  Tree!Next
  <2>1. /\ i \in Inodes \ {Root} /\ PlaceOf[i] # Nowhere
        /\ PlaceOf' = [PlaceOf EXCEPT ![i] = PlaceOf'[i]]
        /\ PlaceOf'[i] = [dir |-> k, name |-> m] /\ IsFree(fs, k, m)
        /\ KindOf' = KindOf
    BY <1>1, <1>4, <1>5, <1>6, <1>13, ShiftedWhere
  <2>2. PlaceOf'[i] \in Tree!Free
    BY <1>6, <2>1 DEF IsFree, Tree!Free
  <2>3. PlaceOf'[i].dir \notin Tree!Below(i)
    <3>1. PICK T \in SUBSET Inodes : i \in T /\ ClosedNames(fs, T) /\ k \notin T
      BY <1>13 DEF Shifted, Outside
    <3>2. ASSUME NEW c \in Inodes, PlaceOf[c] # Nowhere, PlaceOf[c].dir \in T
          PROVE  c \in T
      BY <1>1, <1>6, <3>1, <3>2, WherePlace DEF ClosedNames
    <3>3. Tree!Below(i) \subseteq T
      BY <3>1, <3>2, BelowStays
    <3> QED  BY <2>1, <3>1, <3>3
  <2>4. HeldOf' = HeldOf
    BY <1>5, <1>6, <1>13
  <2>5. Tree!Move(i)
    BY <2>1, <2>2, <2>3, <2>4 DEF Tree!Move, Tree!Replaced
  <2> QED  BY <2>1, <2>5 DEF Tree!Next
<1>14. CASE p = opened
  BY <1>3, <1>5, <1>6, <1>8, <1>11, <1>12, <1>13, <1>14 DEF CallStep
<1> QED
  BY <1>3, <1>5, <1>6, <1>8, <1>9, <1>10, <1>11, <1>12, <1>13, <1>14 DEF CallStep

\* The names implement a tree: whatever a call does, and wherever it stops,
\* it puts one new object in a free place, moves one to a free place outside
\* of itself, takes out one that has nothing inside and is not open, or
\* leaves every object where it is.
THEOREM ImplementsTree == Orderly => (Spec => ImplementsNameTree)
<1> SUFFICES ASSUME Orderly PROVE Spec => ImplementsNameTree
  OBVIOUS
<1>1. Init /\ Connected /\ Meant => Tree!Init
  BY TreeInit
<1>2. Connected /\ Meant /\ Connected' /\ Meant' /\ [Next]_vars
         => [Tree!Next]_(Tree!vars)
  <2> SUFFICES ASSUME Connected, Meant, Connected', Meant', [Next]_vars
               PROVE  [Tree!Next]_(Tree!vars)
    OBVIOUS
  <2>1. CallMade
    BY ConnectedPlain, CallsMake DEF Connected
  <2> QED  BY <2>1, TreeStepMade
<1>3. Connected => Meant
  BY AlwaysMeant
<1>4. Spec => []Connected
  BY NamesStayConnected
<1> QED  BY <1>1, <1>2, <1>3, <1>4, PTL DEF Spec, ImplementsNameTree, Tree!Spec

--------------------------------------------------------------------------------
(* Commands and the tree: what a task may rely on of the tasks before it.  *)

\* Induction over sequences, from the front.
LEMMA ListByList ==
  ASSUME NEW A, NEW S, << >> \in S,
         \A q \in Seq(A) : \A x \in A : q \in S => Append(q, x) \in S
  PROVE  Seq(A) \subseteq S
<1> DEFINE Bad == {n \in Nat : \E p \in Seq(A) : Len(p) = n /\ p \notin S}
<1>1. SUFFICES ASSUME NEW p \in Seq(A), p \notin S PROVE FALSE
  OBVIOUS
<1>2. Len(p) \in Bad
  BY <1>1
<1>3. Bad \in SUBSET Nat
  OBVIOUS
<1>4. PICK n \in Bad : \A m \in Bad : n <= m
  BY <1>2, <1>3, LeastNatural
<1>5. PICK a \in Seq(A) : Len(a) = n /\ a \notin S
  BY <1>4
<1>6. a # << >>
  BY <1>5
<1> DEFINE c == Front(a)
<1>7. /\ c \in Seq(A) /\ Len(c) = Len(a) - 1 /\ a = Append(c, Last(a))
      /\ Len(a) \in Nat \ {0} /\ Last(a) \in A
  BY <1>6, PathSplit
<1> HIDE DEF c
<1>8. n - 1 \in Nat /\ n - 1 \notin Bad
  BY <1>3, <1>4, <1>5, <1>7
<1>9. c \in S
  BY <1>5, <1>7, <1>8
<1> QED  BY <1>5, <1>7, <1>9

\* Induction over paths, from the root down.
LEMMA PathByPath ==
  ASSUME NEW S, << >> \in S,
         \A q \in Seq(Names) : \A n \in Names : q \in S => Append(q, n) \in S
  PROVE  Seq(Names) \subseteq S
BY ListByList

LEMMA AppendSplit ==
  ASSUME NEW q \in Seq(Names), NEW n \in Names
  PROVE  /\ Append(q, n) \in Seq(Names) /\ Append(q, n) # << >>
         /\ Front(Append(q, n)) = q /\ Last(Append(q, n)) = n
<1> DEFINE p == Append(q, n)
<1>1. /\ p \in Seq(Names) /\ p # << >> /\ Len(p) = Len(q) + 1 /\ Len(q) \in Nat
      /\ p[Len(q) + 1] = n
  OBVIOUS
<1>2. /\ Front(p) \in Seq(Names) /\ p = Append(Front(p), Last(p))
      /\ Len(Front(p)) = Len(p) - 1 /\ Last(p) = p[Len(p)]
  BY <1>1, PathSplit
<1>3. Last(p) = n
  BY <1>1, <1>2
<1>4. Front(p) = q
  BY <1>1, <1>2, <1>3
<1> QED  BY <1>1, <1>3, <1>4

\* Paths below the root, and those that lead to a directory.
Branch == Seq(Names) \ {<< >>}

DirectoryAt(f, path) ==
  ResolvePath(f, path) # NoInode /\ f.node[ResolvePath(f, path)].type = "directory"

\* A place that is there is in a directory.
InPlace(f, path) ==
  ResolvePath(f, Front(path)) # NoInode => DirectoryAt(f, Front(path))

LeadsStay(f, g) ==
  \A a \in Inodes : \A m, j : Leads(f, a, m, j) => Leads(g, a, m, j)

\* A table in which names lead along one way.
Clear(f) == Sound(f) /\ Tidy(f) /\ Linkless(f)

\* A path leads where it led while no name goes.
LEMMA PathStays ==
  ASSUME NEW f, Clear(f), NEW g, Clear(g), LeadsStay(f, g),
         NEW path \in Seq(Names), ResolvePath(f, path) # NoInode
  PROVE  ResolvePath(g, path) = ResolvePath(f, path)
<1> DEFINE S == {p \in Seq(Names) : ResolvePath(f, p) # NoInode =>
                                       ResolvePath(g, p) = ResolvePath(f, p)}
<1>1. << >> \in S
  BY RootResolved
<1>2. ASSUME NEW q \in Seq(Names), NEW n \in Names, q \in S
      PROVE  Append(q, n) \in S
  <2> DEFINE p == Append(q, n)
  <2>1. p \in Seq(Names) /\ p # << >> /\ Front(p) = q /\ Last(p) = n
    BY AppendSplit
  <2> HIDE DEF p
  <2>2. SUFFICES ASSUME ResolvePath(f, p) # NoInode
                 PROVE  ResolvePath(g, p) = ResolvePath(f, p)
    BY <2>1 DEF p
  <2>3. /\ ResolvePath(f, q) \in Inodes
        /\ Leads(f, ResolvePath(f, q), n, ResolvePath(f, p))
    BY <2>1, <2>2, LastLeads DEF Clear
  <2>4. ResolvePath(g, q) = ResolvePath(f, q)
    BY <1>2, <2>3, RootIsInode
  <2>5. Leads(g, ResolvePath(g, q), n, ResolvePath(f, p))
    BY <2>3, <2>4 DEF LeadsStay
  <2>6. ResolvePath(g, Append(q, n)) = ResolvePath(f, p)
    BY <2>3, <2>4, <2>5, NameLeadsOn DEF Clear
  <2> QED  BY <2>6 DEF p
<1>3. Seq(Names) \subseteq S
  <2> HIDE DEF S
  <2> QED  BY <1>1, <1>2, PathByPath
<1> QED  BY <1>3

\* A new inode changes where paths lead only to lead to it.
LEMMA PathComes ==
  ASSUME NEW f, Clear(f), Bare(f), NEW g, Clear(g),
         NEW h, NEW n, NEW i, Added(f, g, h, n, i),
         NEW path \in Seq(Names), ResolvePath(g, path) # NoInode
  PROVE  ResolvePath(g, path) \in {ResolvePath(f, path), i}
<1> DEFINE S == {p \in Seq(Names) : ResolvePath(g, p) # NoInode =>
                                       ResolvePath(g, p) \in {ResolvePath(f, p), i}}
<1>1. << >> \in S
  BY RootResolved
<1>2. /\ i \in Inodes /\ h \in Inodes /\ h # i
      /\ \A a \in Inodes : \A m, j :
            Leads(g, a, m, j) <=> Leads(f, a, m, j) \/ (a = h /\ m = n /\ j = i)
  BY DEF Added, IsUsedDirectory
<1>3. \A m, j : ~Leads(f, i, m, j)
  BY <1>2 DEF Added, Bare, Leads, Enters
<1>4. ASSUME NEW q \in Seq(Names), NEW m \in Names, q \in S
      PROVE  Append(q, m) \in S
  <2> DEFINE p == Append(q, m)
  <2>1. p \in Seq(Names) /\ p # << >> /\ Front(p) = q /\ Last(p) = m
    BY AppendSplit
  <2> HIDE DEF p
  <2>2. SUFFICES ASSUME ResolvePath(g, p) # NoInode
                 PROVE  ResolvePath(g, p) \in {ResolvePath(f, p), i}
    BY <2>1 DEF p
  <2>3. /\ ResolvePath(g, q) \in Inodes
        /\ Leads(g, ResolvePath(g, q), m, ResolvePath(g, p))
    BY <2>1, <2>2, LastLeads DEF Clear
  <2>4. ResolvePath(g, q) \in {ResolvePath(f, q), i}
    BY <1>4, <2>3, RootIsInode
  <2>5. CASE ResolvePath(g, p) = i
    BY <2>5
  <2>6. CASE ResolvePath(g, p) # i
    <3>1. Leads(f, ResolvePath(g, q), m, ResolvePath(g, p))
      BY <1>2, <2>3, <2>6
    <3>2. ResolvePath(g, q) = ResolvePath(f, q)
      BY <1>3, <2>4, <3>1
    <3>3. ResolvePath(f, Append(q, m)) = ResolvePath(g, p)
      BY <2>3, <3>1, <3>2, NameLeadsOn DEF Clear
    <3> QED  BY <3>3 DEF p
  <2> QED  BY <2>5, <2>6
<1>5. Seq(Names) \subseteq S
  <2> HIDE DEF S
  <2> QED  BY <1>1, <1>4, PathByPath
<1> QED  BY <1>5

\* Names stay, and of what kind they are.
Grows(f, g) == LeadsStay(f, g) /\ Stay(f, g)

LEMMA SameGrows ==
  ASSUME NEW f, NEW g, Same(f, g)
  PROVE  Grows(f, g)
BY RootIsInode DEF Same, OthersStay, SameLeads, Grows, LeadsStay, Stay

LEMMA AddedGrows ==
  ASSUME NEW f, NEW g, NEW h, NEW n, NEW i, Added(f, g, h, n, i)
  PROVE  Grows(f, g)
BY DEF Added, OthersStay, Grows, LeadsStay, Stay

\* What a path of names leads to is in use.
LEMMA PathUsed ==
  ASSUME NEW f, Clear(f), NEW path \in Seq(Names), ResolvePath(f, path) # NoInode
  PROVE  ResolvePath(f, path) \in Inodes /\ f.node[ResolvePath(f, path)].used
<1>1. CASE path = << >>
  BY <1>1, RootResolved, RootIsInode DEF Clear, Sound, RootStays
<1>2. CASE path # << >>
  <2>1. /\ ResolvePath(f, Front(path)) \in Inodes
        /\ Leads(f, ResolvePath(f, Front(path)), Last(path), ResolvePath(f, path))
    BY <1>2, LastLeads DEF Clear
  <2>2. ResolvePath(f, path) \in Inodes
    BY <2>1, LeadsFound DEF Clear, Tidy
  <2> QED  BY <2>1, <2>2 DEF Clear, Tidy
<1> QED  BY <1>1, <1>2

LEMMA DirectoryStays ==
  ASSUME NEW f, Clear(f), NEW g, Clear(g), Grows(f, g),
         NEW path \in Seq(Names), DirectoryAt(f, path)
  PROVE  DirectoryAt(g, path)
<1>1. ResolvePath(g, path) = ResolvePath(f, path)
  BY PathStays DEF Grows, DirectoryAt
<1>2. ResolvePath(f, path) \in Inodes /\ f.node[ResolvePath(f, path)].used
  BY PathUsed DEF DirectoryAt
<1> QED  BY <1>1, <1>2 DEF Grows, Stay, DirectoryAt

LEMMA BranchParts ==
  ASSUME NEW path \in Branch
  PROVE  /\ path \in Seq(Names) /\ path # << >> /\ path \in Seq(Names) \ {<< >>}
         /\ Front(path) \in Seq(Names) /\ Last(path) \in Names
         /\ path = Append(Front(path), Last(path))
BY PathSplit DEF Branch

\* A place stays one while directories are added.
LEMMA PlaceStays ==
  ASSUME NEW f, Clear(f), Bare(f), NEW g, Clear(g), NEW path \in Branch,
         InPlace(f, path),
         \/ Same(f, g)
         \/ \E h, n, i : Added(f, g, h, n, i) /\ g.node[i].type = "directory"
  PROVE  InPlace(g, path)
<1> DEFINE q == Front(path)
<1>1. q \in Seq(Names)
  BY BranchParts
<1> HIDE DEF q
<1>2. SUFFICES ASSUME ResolvePath(g, q) # NoInode
               PROVE  DirectoryAt(g, q)
  BY DEF InPlace, q
<1>3. CASE ResolvePath(f, q) # NoInode
  <2>1. DirectoryAt(f, q)
    BY <1>3 DEF InPlace, q
  <2>2. Grows(f, g)
    BY SameGrows, AddedGrows
  <2> QED  BY <1>1, <2>1, <2>2, DirectoryStays
<1>4. CASE ResolvePath(f, q) = NoInode
  <2>1. CASE Same(f, g)
    <3>1. LeadsStay(g, f)
      BY <2>1 DEF Same, SameLeads, LeadsStay
    <3>2. ResolvePath(f, q) = ResolvePath(g, q)
      BY <1>1, <1>2, <3>1, PathStays
    <3> QED  BY <1>2, <1>4, <3>2
  <2>2. ASSUME NEW h, NEW n, NEW i, Added(f, g, h, n, i), g.node[i].type = "directory"
        PROVE  DirectoryAt(g, q)
    <3>1. ResolvePath(g, q) = i
      BY <1>1, <1>2, <1>4, <2>2, PathComes
    <3> QED  BY <1>2, <2>2, <3>1 DEF DirectoryAt
  <2> QED  BY <2>1, <2>2
<1> QED  BY <1>3, <1>4

\* What is not there does not come to be when something else is made.
LEMMA StaysVacant ==
  ASSUME NEW f, Clear(f), Bare(f), NEW g, Clear(g), NEW path \in Seq(Names),
         ResolvePath(f, path) = NoInode,
         \/ Same(f, g)
         \/ \E other \in Seq(Names) :
               /\ other # path
               /\ \E h, n : Added(f, g, h, n, ResolvePath(g, other))
  PROVE  ResolvePath(g, path) = NoInode
<1>1. SUFFICES ASSUME ResolvePath(g, path) # NoInode PROVE FALSE
  OBVIOUS
<1>2. CASE Same(f, g)
  <2>1. LeadsStay(g, f)
    BY <1>2 DEF Same, SameLeads, LeadsStay
  <2>2. ResolvePath(f, path) = ResolvePath(g, path)
    BY <1>1, <2>1, PathStays
  <2> QED  BY <1>1, <2>2
<1>3. ASSUME NEW other \in Seq(Names), other # path, NEW h, NEW n,
             Added(f, g, h, n, ResolvePath(g, other))
      PROVE  FALSE
  <2>1. ResolvePath(g, path) = ResolvePath(g, other)
    BY <1>1, <1>3, PathComes
  <2>2. path = other
    BY <1>1, <2>1, PathsDiffer DEF Clear
  <2> QED  BY <1>3, <2>2
<1> QED  BY <1>2, <1>3

\* A directory that is made is where its path leads.
LEMMA MadeAt ==
  ASSUME OneClusterDirectories, ~WriteFaults, Plain(fs), NEW path \in Branch,
         InPlace(fs, path), ResolvePath(fs, path) = NoInode,
         NEW r \in MakeDirectory(fs, path)
  PROVE  /\ Simple(r.fs)
         /\ \/ ~r.ok /\ Same(fs, r.fs)
            \/ /\ DirectoryAt(r.fs, path)
               /\ \E h, n : Added(fs, r.fs, h, n, ResolvePath(r.fs, path))
<1>1. Sound(fs) /\ Tidy(fs) /\ Upright(fs) /\ Linkless(fs) /\ Clear(fs)
  BY DEF Plain, Clear
<1>2. /\ path \in Seq(Names) /\ path \in Seq(Names) \ {<< >>}
      /\ Front(path) \in Seq(Names) /\ Last(path) \in Names
      /\ path = Append(Front(path), Last(path))
  BY BranchParts
<1>3. ParentOf(fs, path) = ResolvePath(fs, Front(path)) /\ path \in ProperPath
  BY <1>1, <1>2, Placed
<1>4. InDirectory(path)
  BY <1>3 DEF InDirectory, InPlace, DirectoryAt
<1>5. /\ Simple(r.fs)
      /\ \/ ~r.ok /\ Same(fs, r.fs)
         \/ \E i : /\ Added(fs, r.fs, ParentOf(fs, path), Last(path), i)
                   /\ r.fs.node[i].type = "directory"
  BY <1>2, <1>4, MakeDirectoryTree
<1>6. Sound(r.fs) /\ Tidy(r.fs)
  BY <1>1, <1>3, DirectoryMade, DirectoryMadeTidy
<1>7. Clear(r.fs)
  BY <1>5, <1>6 DEF Clear, Simple
<1>8. ASSUME NEW i, Added(fs, r.fs, ParentOf(fs, path), Last(path), i),
             r.fs.node[i].type = "directory"
      PROVE  DirectoryAt(r.fs, path) /\ ResolvePath(r.fs, path) = i
  <2> DEFINE h == ResolvePath(fs, Front(path))
  <2>1. h \in Inodes /\ i \in Inodes /\ Leads(r.fs, h, Last(path), i)
    BY <1>3, <1>8 DEF Added, IsUsedDirectory
  <2>2. Grows(fs, r.fs)
    BY <1>8, AddedGrows
  <2>3. ResolvePath(r.fs, Front(path)) = h
    BY <1>1, <1>2, <1>7, <2>1, <2>2, PathStays, RootIsInode DEF Grows
  <2>4. ResolvePath(r.fs, Append(Front(path), Last(path))) = i
    BY <1>2, <1>7, <2>1, <2>3, NameLeadsOn DEF Clear
  <2>5. ResolvePath(r.fs, path) = i
    BY <1>2, <2>4
  <2> QED  BY <1>8, <2>1, <2>5, RootIsInode DEF DirectoryAt
<1> QED  BY <1>5, <1>8

LEMMA SpentTypes ==
  ASSUME NEW f, Sound(f), NEW i \in Inodes, NEW given
  PROVE  SameTypes(f, [f EXCEPT !.space = @ - given, !.node[i].clusters = @ + given])
<1> DEFINE g == [f EXCEPT !.space = @ - given, !.node[i].clusters = @ + given]
           n == [f.node[i] EXCEPT !.clusters = f.node[i].clusters + given]
<1>1. f \in Table /\ f.node \in [Inodes -> Node] /\ f.node[i] \in Node
  BY TableCounts DEF Sound, Table
<1>2. g.node = [f.node EXCEPT ![i] = n]
  BY <1>1 DEF Table
<1>3. n.type = f.node[i].type
  BY <1>1 DEF Node
<1> HIDE DEF n, g
<1>4. SameTypes(f, g)
  BY <1>1, <1>2, <1>3 DEF SameTypes
<1> QED  BY <1>4 DEF g

LEMMA SameTwice ==
  ASSUME NEW f, NEW g, NEW k, Same(f, g), Same(g, k)
  PROVE  Same(f, k)
BY DEF Same, OthersStay, SameLeads

\* A file that is stored is new, or was there.
LEMMA StoreTree ==
  ASSUME OneClusterDirectories, ~WriteFaults, Plain(fs), NEW path \in Branch,
         NEW asked, NEW truncate, Store(path, asked, truncate)
  PROVE  \E g : /\ fs' = g /\ Simple(g)
                /\ Same(fs, g) \/ \E h, n, i : Added(fs, g, h, n, i)
<1> DEFINE Built(g) == Same(fs, g) \/ \E h, n, i : Added(fs, g, h, n, i)
<1>1. PICK r \in IF ResolvePath(fs, path) # NoInode
                 THEN {[ok |-> TRUE, fs |-> fs, inode |-> ResolvePath(fs, path)]}
                 ELSE CreateFile(path) :
           \/ fs' = r.fs /\ work' = << >>
           \/ /\ r.ok /\ r.fs.node[r.inode].type = "regular"
              /\ \E f : \E given :
                    /\ f = r.fs \/ f = Truncate(r.fs, r.inode)
                    /\ given = IF asked > f.space THEN f.space ELSE asked
                    /\ fs' = [f EXCEPT !.space = @ - given,
                                       !.node[r.inode].clusters = @ + given]
                    /\ work' = Tail(work) \/ work' = << >>
  BY StoreSteps, Zenon
<1>2. /\ Sound(fs) /\ Tidy(fs) /\ Upright(fs) /\ Linkless(fs) /\ Simple(fs)
      /\ path \in Seq(Names) \ {<< >>}
  BY BranchParts DEF Plain, Simple
<1>3. path \in ProperPath
  BY <1>2, Placed
<1>4. Sound(r.fs) /\ (r.ok => r.inode \in Inodes)
  BY <1>2, <1>3, FoundOrMade
<1>5. Simple(r.fs) /\ Built(r.fs)
  <2>1. CASE ResolvePath(fs, path) # NoInode
    <3>1. r.fs = fs
      BY <2>1
    <3> QED  BY <1>2, <3>1, SameItself
  <2>2. CASE ResolvePath(fs, path) = NoInode
    <3>1. r \in CreateFile(path)
      BY <2>2
    <3> QED  BY <1>2, <3>1, CreateFileTree
  <2> QED  BY <2>1, <2>2
<1>6. ASSUME r.ok, r.fs.node[r.inode].type = "regular", NEW f, NEW given,
             f = r.fs \/ f = Truncate(r.fs, r.inode),
             fs' = [f EXCEPT !.space = @ - given,
                             !.node[r.inode].clusters = @ + given]
      PROVE  \E g : fs' = g /\ Simple(g) /\ Built(g)
  <2>1. r.inode \in Inodes \ {Root}
    BY <1>4, <1>6 DEF Sound, RootStays
  <2>2. Sound(f) /\ Simple(f) /\ Same(r.fs, f)
    <3>1. Sound(Truncate(r.fs, r.inode))
      BY <1>4, <2>1, Truncated
    <3>2. Simple(Truncate(r.fs, r.inode)) /\ Same(r.fs, Truncate(r.fs, r.inode))
      BY <1>4, <1>5, <1>6, <2>1, TruncateLeads
    <3> QED  BY <1>4, <1>5, <1>6, <3>1, <3>2, SameItself
  <2> DEFINE g == [f EXCEPT !.space = @ - given,
                            !.node[r.inode].clusters = @ + given]
  <2>3. SameLists(f, g) /\ SameTypes(f, g)
    BY <2>1, <2>2, SpentLists, SpentTypes
  <2>4. fs' = g
    BY <1>6
  <2> HIDE DEF g
  <2>5. Simple(g) /\ Same(f, g)
    BY <2>2, <2>3, SimpleListed
  <2>6. Same(r.fs, g)
    BY <2>2, <2>5, SameTwice
  <2>7. Built(g)
    <3>1. CASE Same(fs, r.fs)
      BY <2>6, <3>1, SameTwice
    <3>2. ASSUME NEW h, NEW n, NEW i, Added(fs, r.fs, h, n, i)
          PROVE  Built(g)
      BY <2>6, <3>2, AddedThenSame
    <3> QED  BY <1>5, <3>1, <3>2
  <2> QED  BY <2>4, <2>5, <2>7
<1>7. \E g : fs' = g /\ Simple(g) /\ Built(g)
  BY <1>1, <1>5, <1>6
<1> QED  BY <1>7

\* Tasks that need no other task before them.
Settled(f, t) ==
  \/ t.do \in {"touch", "echo", "import", "pack"} /\ t.path \in Branch
  \/ t.do \in {"fill", "report"} /\ t.from \in Branch /\ t.to \in Branch
  \/ t.do = "copy" /\ t.from \in Branch /\ t.to \in Branch /\ DirectoryAt(f, Front(t.to))
  \/ t.do = "list" /\ t.from \in Branch /\ t.to \in Branch /\ DirectoryAt(f, t.to)

OnlyMakes(w, k) == \A l \in 1 .. k - 1 : w[l].do = "make"

\* Nothing is at the path, nor will the tasks before make it.
Vacant(f, w, k, path) ==
  /\ path \in Branch /\ InPlace(f, path) /\ ResolvePath(f, path) = NoInode
  /\ \A l \in 1 .. k - 1 : w[l].path # path

LeadingMake(f, w, k, t) ==
  /\ t.do = "make" /\ OnlyMakes(w, k) /\ t.path \in Branch
  /\ InPlace(f, t.path) \/ (k > 1 /\ w[k - 1].path = Front(t.path))

LeadingCreate(f, w, k, t) ==
  t.do = "create" /\ OnlyMakes(w, k) /\ Vacant(f, w, k, t.path)

LeadingList(w, k, t) ==
  /\ t.do = "list" /\ t.from \in Branch /\ t.to \in Branch
  /\ k > 1 /\ w[k - 1].do = "create" /\ w[k - 1].path = t.to

LeadingCopy(f, k, t) ==
  t.do = "copy" /\ t.from \in Branch /\ t.to \in Branch /\ k = 1 /\ InPlace(f, t.to)

LeadingMove(f, w, k, t) ==
  /\ t.do = "move" /\ k = Len(w) /\ OnlyMakes(w, k) /\ Vacant(f, w, k, t.to)
  /\ t.from \in Branch /\ ResolvePath(f, t.from) # NoInode
  /\ t.directory <=> DirectoryAt(f, t.from)

\* Tasks at the head of the list, and those that wait for the one before.
Leading(f, w, k) ==
  \/ LeadingMake(f, w, k, w[k]) \/ LeadingCreate(f, w, k, w[k])
  \/ LeadingList(w, k, w[k]) \/ LeadingCopy(f, k, w[k]) \/ LeadingMove(f, w, k, w[k])

Building(f, w) == \A k \in 1 .. Len(w) : Settled(f, w[k]) \/ Leading(f, w, k)

LEMMA SettledStays ==
  ASSUME NEW f, Clear(f), NEW g, Clear(g), Grows(f, g), NEW t, Settled(f, t)
  PROVE  Settled(g, t)
<1>1. t.do = "copy" /\ t.to \in Branch => Front(t.to) \in Seq(Names)
  BY BranchParts
<1>2. t.do = "list" /\ t.to \in Branch => t.to \in Seq(Names)
  BY BranchParts
<1> QED  BY <1>1, <1>2, DirectoryStays DEF Settled

\* Behind a task that makes no directory of a chain nothing leads but the list
\* of what is created.
LEMMA Behind ==
  ASSUME NEW f, NEW S, NEW w \in Seq(S), w # << >>, Building(f, w), w[1].do # "make",
         NEW k \in 2 .. Len(w)
  PROVE  Settled(f, w[k]) \/ (k = 2 /\ w[1].do = "create" /\ LeadingList(w, 2, w[2]))
<1>1. Len(w) \in Nat /\ 1 \in 1 .. k - 1 /\ k \in 1 .. Len(w)
  OBVIOUS
<1>2. ~OnlyMakes(w, k)
  BY <1>1 DEF OnlyMakes
<1>3. Settled(f, w[k]) \/ LeadingList(w, k, w[k])
  BY <1>1, <1>2 DEF Building, Leading, LeadingMake, LeadingCreate, LeadingCopy, LeadingMove
<1>4. ASSUME LeadingList(w, k, w[k]), k # 2
      PROVE  FALSE
  <2>1. k - 1 \in 2 .. Len(w) /\ k - 1 \in 1 .. Len(w) /\ 1 \in 1 .. (k - 1) - 1
        /\ k - 1 # 1
    BY <1>1, <1>4
  <2>2. w[k - 1].do = "create"
    BY <1>4 DEF LeadingList
  <2>3. ~OnlyMakes(w, k - 1)
    BY <2>1 DEF OnlyMakes
  <2>4. Settled(f, w[k - 1]) \/ Leading(f, w, k - 1)
    BY <2>1 DEF Building
  <2> QED  BY <2>2, <2>3, <2>4
           DEF Settled, Leading, LeadingMake, LeadingCreate, LeadingList, LeadingCopy,
               LeadingMove
<1> QED  BY <1>3, <1>4 DEF LeadingList

LEMMA TailPlaces ==
  ASSUME NEW S, NEW w \in Seq(S), w # << >>
  PROVE  /\ Tail(w) \in Seq(S) /\ Len(Tail(w)) = Len(w) - 1 /\ Len(w) \in Nat
         /\ \A i \in 1 .. Len(Tail(w)) : i + 1 \in 2 .. Len(w) /\ Tail(w)[i] = w[i + 1]
OBVIOUS

\* The head has made its directory, or found it.
LEMMA BuildingMade ==
  ASSUME NEW f, Clear(f), Bare(f), NEW g, Clear(g), NEW S, NEW w \in Seq(S), w # << >>,
         Building(f, w), w[1].do = "make", DirectoryAt(g, w[1].path),
         \/ Same(f, g)
         \/ \E h, n : Added(f, g, h, n, ResolvePath(g, w[1].path))
  PROVE  Building(g, Tail(w))
<1> DEFINE v == Tail(w)
           p == w[1].path
<1>1. /\ v \in Seq(S) /\ Len(v) = Len(w) - 1 /\ Len(w) \in Nat
      /\ \A i \in 1 .. Len(v) : i + 1 \in 2 .. Len(w) /\ v[i] = w[i + 1]
  BY TailPlaces
<1>2. p \in Branch
  <2>1. 1 \in 1 .. Len(w)
    BY <1>1
  <2> QED  BY <2>1 DEF Building, Settled, Leading, LeadingMake, LeadingCreate,
                       LeadingList, LeadingCopy, LeadingMove
<1>3. p \in Seq(Names) /\ Grows(f, g)
  BY <1>2, BranchParts, SameGrows, AddedGrows
<1>4. \A path \in Branch : InPlace(f, path) => InPlace(g, path)
  <2>1. \/ Same(f, g)
        \/ \E h, n, i : Added(f, g, h, n, i) /\ g.node[i].type = "directory"
    BY DEF DirectoryAt
  <2> QED  BY <2>1, PlaceStays
<1>5. \A path \in Branch : ResolvePath(f, path) = NoInode /\ path # p
                             => ResolvePath(g, path) = NoInode
  BY <1>3, StaysVacant, BranchParts
<1>6. SUFFICES ASSUME NEW i \in 1 .. Len(v)
               PROVE  Settled(g, v[i]) \/ Leading(g, v, i)
  BY DEF Building
<1> DEFINE k == i + 1
           t == w[k]
<1>7. /\ k \in 2 .. Len(w) /\ k \in 1 .. Len(w) /\ v[i] = t /\ i = k - 1
      /\ 1 \in 1 .. k - 1 /\ i \in Nat /\ k > 1
  BY <1>1, <1>6
<1>8. \A l \in 1 .. i - 1 : v[l] = w[l + 1] /\ l + 1 \in 1 .. k - 1
  BY <1>1, <1>6
<1>9. Settled(f, t) \/ Leading(f, w, k)
  BY <1>7 DEF Building
<1> HIDE DEF v, p
<1>10. OnlyMakes(w, k) => OnlyMakes(v, i)
  BY <1>8 DEF OnlyMakes
<1>11. \A path : Vacant(f, w, k, path) => Vacant(g, v, i, path)
  <2> SUFFICES ASSUME NEW path, Vacant(f, w, k, path)
               PROVE  Vacant(g, v, i, path)
    OBVIOUS
  <2>1. path \in Branch /\ path # p /\ \A l \in 1 .. i - 1 : v[l].path # path
    BY <1>7, <1>8 DEF Vacant, p
  <2> QED  BY <1>4, <1>5, <2>1 DEF Vacant
<1> HIDE DEF t, k
<1>12. CASE Settled(f, t)
  BY <1>3, <1>7, <1>12, SettledStays
<1>13. CASE LeadingMake(f, w, k, t)
  <2>1. /\ t.do = "make" /\ OnlyMakes(v, i) /\ t.path \in Branch
        /\ InPlace(f, t.path) \/ w[k - 1].path = Front(t.path)
    BY <1>10, <1>13 DEF LeadingMake
  <2>2. CASE InPlace(f, t.path)
    BY <1>4, <1>7, <2>1, <2>2 DEF Leading, LeadingMake
  <2>3. CASE w[k - 1].path = Front(t.path) /\ i = 1
    <3>1. p = Front(t.path)
      BY <1>7, <2>3 DEF p
    <3>2. InPlace(g, t.path)
      BY <3>1 DEF InPlace, p
    <3> QED  BY <1>7, <2>1, <3>2 DEF Leading, LeadingMake
  <2>4. CASE w[k - 1].path = Front(t.path) /\ i # 1
    <3>1. i > 1 /\ i - 1 \in 1 .. i - 1
      BY <1>6, <1>7, <2>4
    <3>2. v[i - 1] = w[k - 1]
      BY <1>1, <1>6, <1>7, <3>1
    <3> QED  BY <1>7, <2>1, <2>4, <3>1, <3>2 DEF Leading, LeadingMake
  <2> QED  BY <2>1, <2>2, <2>3, <2>4
<1>14. CASE LeadingCreate(f, w, k, t)
  BY <1>7, <1>10, <1>11, <1>14 DEF Leading, LeadingCreate
<1>15. CASE LeadingList(w, k, t)
  <2>1. w[k - 1].do = "create" /\ w[k - 1].path = t.to
    BY <1>15 DEF LeadingList
  <2>2. i # 1
    BY <1>7, <2>1
  <2>3. i > 1 /\ v[i - 1] = w[k - 1]
    BY <1>1, <1>6, <1>7, <2>2
  <2> QED  BY <1>7, <1>15, <2>1, <2>3 DEF Leading, LeadingList
<1>16. CASE LeadingMove(f, w, k, t)
  <2>1. /\ t.do = "move" /\ k = Len(w) /\ OnlyMakes(w, k) /\ Vacant(f, w, k, t.to)
        /\ t.from \in Branch /\ ResolvePath(f, t.from) # NoInode
        /\ t.directory <=> DirectoryAt(f, t.from)
    BY <1>16 DEF LeadingMove
  <2>2. t.from \in Seq(Names)
    BY <2>1, BranchParts
  <2>3. ResolvePath(g, t.from) = ResolvePath(f, t.from)
    BY <1>3, <2>1, <2>2, PathStays DEF Grows
  <2>4. ResolvePath(f, t.from) \in Inodes /\ f.node[ResolvePath(f, t.from)].used
    BY <2>1, <2>2, PathUsed
  <2>5. DirectoryAt(f, t.from) <=> DirectoryAt(g, t.from)
    BY <1>3, <2>3, <2>4 DEF Grows, Stay, DirectoryAt
  <2>6. i = Len(v)
    BY <1>1, <1>7, <2>1
  <2> QED  BY <1>7, <1>10, <1>11, <2>1, <2>3, <2>5, <2>6 DEF Leading, LeadingMove
<1>17. ~LeadingCopy(f, k, t)
  BY <1>7 DEF LeadingCopy
<1> QED  BY <1>9, <1>12, <1>13, <1>14, <1>15, <1>16, <1>17 DEF Leading, t

\* The normal form of a path of names is no longer.
LEMMA NormalShorter ==
  ASSUME NEW path \in Seq(Names)
  PROVE  /\ NormalizeFsPath(path) \in Seq(Names)
         /\ Len(NormalizeFsPath(path)) <= Len(path)
<1> DEFINE S == {p \in Seq(Names) : /\ NormalizeFsPath(p) \in Seq(Names)
                                    /\ Len(NormalizeFsPath(p)) <= Len(p)}
<1>1. << >> \in S
  <2>1. NormalizeFsPath(<< >>) = << >>
    BY NothingCopied
  <2>2. << >> \in Seq(Names) /\ Len(<< >>) <= Len(<< >>)
    OBVIOUS
  <2> QED  BY <2>1, <2>2
<1>2. ASSUME NEW q \in Seq(Names), NEW n \in Names, q \in S
      PROVE  Append(q, n) \in S
  <2> DEFINE kept == NormalizeFsPath(q)
             p == Append(q, n)
  <2>1. q \in Seq(Components) /\ n \in Components /\ n \notin {Dot, DotDot}
    BY DirectoriesAssumption DEF Components, Dot, DotDot
  <2>2. NormalizeFsPath(p) = KeepComponent(kept, n)
    BY <2>1, NormalizeGrows
  <2>3. kept \in Seq(Names) /\ Len(kept) <= Len(q) /\ Len(kept) \in Nat
    BY <1>2
  <2>4. p \in Seq(Names) /\ Len(p) = Len(q) + 1 /\ Len(q) \in Nat
    OBVIOUS
  <2> HIDE DEF kept, p
  <2>5. KeepComponent(kept, n) \in {kept, Append(kept, n)}
    BY <2>1 DEF KeepComponent
  <2>6. Append(kept, n) \in Seq(Names) /\ Len(Append(kept, n)) = Len(kept) + 1
    BY <2>3
  <2>7. NormalizeFsPath(p) \in Seq(Names) /\ Len(NormalizeFsPath(p)) <= Len(p)
    <3>1. CASE NormalizeFsPath(p) = kept
      BY <2>3, <2>4, <3>1
    <3>2. CASE NormalizeFsPath(p) = Append(kept, n)
      <4> DEFINE longer == Append(kept, n)
      <4>1. longer \in Seq(Names) /\ Len(longer) = Len(kept) + 1
        BY <2>6
      <4> HIDE DEF longer
      <4>2. Len(longer) <= Len(p)
        BY <2>3, <2>4, <4>1
      <4> QED  BY <3>2, <4>1, <4>2 DEF longer
    <3> QED  BY <2>2, <2>5, <3>1, <3>2
  <2>8. p \in S
    BY <2>4, <2>7
  <2> QED  BY <2>8 DEF p
<1>3. Seq(Names) \subseteq S
  <2> HIDE DEF S
  <2> QED  BY <1>1, <1>2, PathByPath
<1> QED  BY <1>3

LEMMA PrefixParts ==
  ASSUME NEW p \in Seq(Names), NEW k \in 1 .. Len(p)
  PROVE  /\ SubSeq(p, 1, k) \in Branch /\ Len(SubSeq(p, 1, k)) = k
         /\ Front(SubSeq(p, 1, k)) = IF k = 1 THEN << >> ELSE SubSeq(p, 1, k - 1)
<1> DEFINE a == SubSeq(p, 1, k)
<1>1. /\ a \in Seq(Names) /\ Len(a) = k /\ k \in Nat \ {0}
      /\ \A j \in 1 .. k : a[j] = p[j]
  OBVIOUS
<1> HIDE DEF a
<1>2. a \in Branch
  BY <1>1 DEF Branch
<1>3. /\ Front(a) \in Seq(Names) /\ Len(Front(a)) = k - 1
      /\ \A j \in 1 .. k - 1 : Front(a)[j] = p[j]
  BY <1>1, <1>2, PathSplit DEF Branch
<1>4. CASE k = 1
  BY <1>1, <1>2, <1>3, <1>4 DEF a
<1>5. CASE k # 1
  <2> DEFINE b == SubSeq(p, 1, k - 1)
  <2>1. b \in Seq(Names) /\ Len(b) = k - 1 /\ \A j \in 1 .. k - 1 : b[j] = p[j]
    BY <1>5
  <2> HIDE DEF b
  <2>2. Front(a) = b
    BY <1>1, <1>3, <2>1
  <2> QED  BY <1>1, <1>2, <1>5, <2>2 DEF a, b
<1> QED  BY <1>4, <1>5

IsMakes(v, p) ==
  /\ Len(p) <= Len(v)
  /\ \A k \in 1 .. Len(p) : v[k] = [do |-> "make", path |-> SubSeq(p, 1, k)]

\* What is made from the top down leads to the next.
LEMMA MakesLead ==
  ASSUME NEW f, Sound(f), NEW p \in Seq(Names), NEW v, IsMakes(v, p), NEW k \in 1 .. Len(p)
  PROVE  LeadingMake(f, v, k, v[k]) /\ v[k].path \in Seq(Names) /\ Len(v[k].path) = k
<1> DEFINE made(j) == [do |-> "make", path |-> SubSeq(p, 1, j)]
<1>0. \A j \in 1 .. Len(p) : v[j].do = "make" /\ v[j].path = SubSeq(p, 1, j)
  <2>1. \A j : made(j).do = "make" /\ made(j).path = SubSeq(p, 1, j)
    OBVIOUS
  <2>2. \A j \in 1 .. Len(p) : v[j] = made(j)
    BY DEF IsMakes
  <2> HIDE DEF made
  <2> QED  BY <2>1, <2>2
<1>1. v[k].do = "make" /\ v[k].path = SubSeq(p, 1, k)
  BY <1>0
<1>2. OnlyMakes(v, k)
  <2>1. \A l \in 1 .. k - 1 : l \in 1 .. Len(p)
    OBVIOUS
  <2> QED  BY <1>0, <2>1 DEF OnlyMakes
<1>3. /\ v[k].path \in Branch /\ Len(v[k].path) = k
      /\ Front(v[k].path) = IF k = 1 THEN << >> ELSE SubSeq(p, 1, k - 1)
  BY <1>1, PrefixParts
<1>4. CASE k = 1
  <2>1. ResolvePath(f, Front(v[k].path)) = Root
    BY <1>3, <1>4, RootResolved
  <2>2. InPlace(f, v[k].path)
    BY <2>1 DEF InPlace, DirectoryAt, Sound, RootStays
  <2> QED  BY <1>1, <1>2, <1>3, <2>2 DEF LeadingMake, Branch
<1>5. CASE k # 1
  <2>1. k > 1 /\ k - 1 \in 1 .. Len(p)
    BY <1>5
  <2>2. v[k - 1].path = SubSeq(p, 1, k - 1)
    BY <1>0, <2>1
  <2> QED  BY <1>1, <1>2, <1>3, <1>5, <2>1, <2>2 DEF LeadingMake, Branch
<1> QED  BY <1>4, <1>5

LEMMA MakesBuild ==
  ASSUME NEW f, Sound(f), NEW p \in Seq(Names)
  PROVE  Building(f, Makes(p))
<1>1. IsMakes(Makes(p), p) /\ Len(Makes(p)) = Len(p)
  BY DEF Makes, IsMakes
<1> QED  BY <1>1, MakesLead DEF Building, Leading

\* The tasks that make the parents, and those behind them.
LEMMA EnsureLeads ==
  ASSUME Sound(fs), NEW path \in Branch, NEW S, NEW x \in Seq(S)
  PROVE  LET v == EnsureParents(path) \o x
             m == Len(EnsureParents(path))
         IN  /\ m \in Nat /\ Len(v) = m + Len(x)
             /\ \A k \in 1 .. m : /\ LeadingMake(fs, v, k, v[k]) /\ v[k].path # path
                                  /\ v[k].do = "make"
             /\ \A k \in m + 1 .. Len(v) : k - m \in 1 .. Len(x) /\ v[k] = x[k - m]
             /\ OnlyMakes(v, m + 1)
<1> DEFINE e == EnsureParents(path)
           v == e \o x
           m == Len(e)
           q == NormalizeFsPath(Front(path))
<1>1. /\ Front(path) \in Seq(Names) /\ Len(Front(path)) = Len(path) - 1
      /\ path \in Seq(Names) /\ Len(path) \in Nat \ {0}
  BY PathSplit DEF Branch
<1>2. q \in Seq(Names) /\ Len(q) <= Len(Front(path)) /\ Len(q) \in Nat
  BY <1>1, NormalShorter
<1>3. e = << >> \/ e = Makes(q)
  BY Zenon DEF EnsureParents
<1>4. \E T : e \in Seq(T)
  <2>1. Makes(q) \in Seq(PathTask)
    BY <1>2, MakesTasks
  <2>2. << >> \in Seq(PathTask)
    OBVIOUS
  <2> QED  BY <1>3, <2>1, <2>2
<1> HIDE DEF q, e
<1>5. /\ m \in Nat /\ Len(v) = m + Len(x) /\ Len(x) \in Nat
      /\ \A k \in 1 .. m : v[k] = e[k]
      /\ \A k \in m + 1 .. Len(v) : k - m \in 1 .. Len(x) /\ v[k] = x[k - m]
  <2>1. PICK T : e \in Seq(T)
    BY <1>4
  <2>2. e \in Seq(T \cup S) /\ x \in Seq(T \cup S)
    BY <2>1
  <2> QED  BY <2>2
<1> HIDE DEF v
<1>6. ASSUME NEW k \in 1 .. m
      PROVE  LeadingMake(fs, v, k, v[k]) /\ v[k].path # path /\ v[k].do = "make"
  <2>1. e = Makes(q)
    BY <1>3, <1>6
  <2>2. m = Len(q) /\ \A j \in 1 .. m : e[j] = [do |-> "make", path |-> SubSeq(q, 1, j)]
    BY <1>2, <2>1 DEF Makes
  <2>3. IsMakes(v, q)
    BY <1>5, <2>2 DEF IsMakes
  <2>4. LeadingMake(fs, v, k, v[k]) /\ Len(v[k].path) = k
    BY <1>2, <1>6, <2>2, <2>3, MakesLead
  <2>5. k < Len(path)
    BY <1>1, <1>2, <1>6, <2>2
  <2> QED  BY <2>4, <2>5 DEF LeadingMake
<1>7. OnlyMakes(v, m + 1)
  <2>1. \A l \in 1 .. (m + 1) - 1 : l \in 1 .. m
    BY <1>5
  <2> QED  BY <1>6, <2>1 DEF OnlyMakes
<1> QED  BY <1>5, <1>6, <1>7 DEF v, e

LEMMA TailSettled ==
  ASSUME NEW f, NEW S, NEW w \in Seq(S), w # << >>, Building(f, w),
         w[1].do \notin {"make", "create"}
  PROVE  /\ Tail(w) \in Seq(S)
         /\ \A k \in 1 .. Len(Tail(w)) : Settled(f, Tail(w)[k])
<1>1. /\ Tail(w) \in Seq(S)
      /\ \A i \in 1 .. Len(Tail(w)) : i + 1 \in 2 .. Len(w) /\ Tail(w)[i] = w[i + 1]
  BY TailPlaces
<1>2. \A k \in 2 .. Len(w) : Settled(f, w[k])
  BY Behind
<1> QED  BY <1>1, <1>2

\* What is put before tasks that need no other builds as it did.
LEMMA Spliced ==
  ASSUME NEW f, NEW S, NEW v \in Seq(S), NEW x \in Seq(S),
         \A k \in 1 .. Len(v) : Settled(f, v[k]) \/ (v[k].do # "move" /\ Leading(f, v, k)),
         \A k \in 1 .. Len(x) : Settled(f, x[k])
  PROVE  Building(f, v \o x)
<1> DEFINE w == v \o x
           m == Len(v)
<1>1. /\ w \in Seq(S) /\ Len(w) = m + Len(x) /\ m \in Nat /\ Len(x) \in Nat
      /\ \A k \in 1 .. m : w[k] = v[k]
      /\ \A k \in m + 1 .. Len(w) : k - m \in 1 .. Len(x) /\ w[k] = x[k - m]
  OBVIOUS
<1> HIDE DEF w
<1>2. ASSUME NEW k \in 1 .. m
      PROVE  Settled(f, w[k]) \/ Leading(f, w, k)
  <2>1. /\ k \in Nat /\ w[k] = v[k] /\ \A l \in 1 .. k - 1 : l \in 1 .. m
        /\ k > 1 => k - 1 \in 1 .. m
    BY <1>1
  <2>2. \A l \in 1 .. k - 1 : w[l] = v[l]
    BY <1>1, <2>1
  <2>3. k > 1 => w[k - 1] = v[k - 1]
    BY <1>1, <2>1
  <2>4. Settled(f, v[k]) \/ (v[k].do # "move" /\ Leading(f, v, k))
    BY <1>2
  <2>5. OnlyMakes(v, k) => OnlyMakes(w, k)
    BY <2>2 DEF OnlyMakes
  <2>6. \A path : Vacant(f, v, k, path) => Vacant(f, w, k, path)
    BY <2>2 DEF Vacant
  <2>7. LeadingMake(f, v, k, v[k]) => LeadingMake(f, w, k, w[k])
    BY <2>1, <2>3, <2>5 DEF LeadingMake
  <2>8. LeadingCreate(f, v, k, v[k]) => LeadingCreate(f, w, k, w[k])
    BY <2>1, <2>5, <2>6 DEF LeadingCreate
  <2>9. LeadingList(v, k, v[k]) => LeadingList(w, k, w[k])
    BY <2>1, <2>3 DEF LeadingList
  <2>10. LeadingMove(f, v, k, v[k]) => v[k].do = "move"
    BY DEF LeadingMove
  <2> QED  BY <2>1, <2>4, <2>7, <2>8, <2>9, <2>10 DEF Leading
<1>3. ASSUME NEW k \in 1 .. Len(w), k \notin 1 .. m
      PROVE  Settled(f, w[k])
  <2>1. k \in m + 1 .. Len(w)
    BY <1>1, <1>3
  <2> QED  BY <1>1, <2>1
<1> QED  BY <1>2, <1>3 DEF Building, w

LEMMA NothingBuilds ==
  ASSUME NEW f
  PROVE  Building(f, << >>)
BY DEF Building

LEMMA SettledBuilds ==
  ASSUME NEW f, NEW S, NEW x \in Seq(S), \A k \in 1 .. Len(x) : Settled(f, x[k])
  PROVE  Building(f, x)
BY DEF Building

LEMMA TailStays ==
  ASSUME NEW f, Clear(f), NEW g, Clear(g), Grows(f, g), NEW S, NEW w \in Seq(S),
         w # << >>, Building(f, w), w[1].do \notin {"make", "create"}
  PROVE  Building(g, Tail(w))
<1>1. /\ Tail(w) \in Seq(S)
      /\ \A k \in 1 .. Len(Tail(w)) : Settled(f, Tail(w)[k])
  BY TailSettled
<1>2. \A k \in 1 .. Len(Tail(w)) : Settled(g, Tail(w)[k])
  BY <1>1, SettledStays
<1> QED  BY <1>1, <1>2, SettledBuilds

\* What a step of a command makes of the names and leaves to do.
TaskMade ==
  \E g : /\ fs' = g /\ Simple(g) /\ CallStep(fs, opened, g, opened)
         /\ opened' = opened
         /\ Clear(g) => Building(g, work')

OneTask == Orderly /\ CInv /\ Plain(fs) /\ work # << >> /\ Building(fs, work)

LEMMA OneTaskMeans ==
  ASSUME OneTask
  PROVE  /\ OneClusterDirectories /\ ~WriteFaults /\ Plain(fs) /\ Clear(fs) /\ Bare(fs)
         /\ Sound(fs) /\ Simple(fs) /\ work \in Seq(Task) /\ work # << >>
         /\ Building(fs, work) /\ Head(work) = work[1] /\ 1 \in 1 .. Len(work)
         /\ Settled(fs, work[1]) \/ Leading(fs, work, 1)
<1>1. work \in Seq(Task) /\ work # << >> /\ Building(fs, work)
  BY DEF OneTask, CInv
<1>2. Head(work) = work[1] /\ 1 \in 1 .. Len(work)
  BY <1>1
<1> QED  BY <1>1, <1>2 DEF OneTask, Orderly, Undisturbed, Plain, Clear, Simple, Building

LEMMA MakeBuilds ==
  ASSUME OneTask, Make(Head(work))
  PROVE  TaskMade
<1> DEFINE task == work[1]
           p == task.path
<1>1. /\ OneClusterDirectories /\ ~WriteFaults /\ Plain(fs) /\ Clear(fs) /\ Bare(fs)
      /\ Sound(fs) /\ Simple(fs) /\ work \in Seq(Task) /\ work # << >>
      /\ Building(fs, work) /\ Head(work) = task /\ 1 \in 1 .. Len(work)
      /\ Settled(fs, task) \/ Leading(fs, work, 1)
  BY OneTaskMeans
<1>2. task.do \in {"make", "create"} /\ opened' = opened
  BY <1>1 DEF Make
<1> HIDE DEF task
<1>3. \/ LeadingMake(fs, work, 1, task) \/ LeadingCreate(fs, work, 1, task)
  BY <1>1, <1>2
     DEF Settled, Leading, LeadingList, LeadingCopy, LeadingMove, task
<1>4. /\ p \in Branch /\ InPlace(fs, p)
      /\ task.do = "create" => ResolvePath(fs, p) = NoInode
  BY <1>2, <1>3 DEF LeadingMake, LeadingCreate, Vacant
<1> HIDE DEF p
<1>5. (Done => work' = Tail(work)) /\ (GiveUp => work' = << >>)
  BY DEF Done, GiveUp, Then
<1>6. CASE ResolvePath(fs, p) # NoInode
  <2>1. /\ fs' = fs
        /\ (DirectoryAt(fs, p) /\ work' = Tail(work)) \/ work' = << >>
    <3>1. task.do = "make"
      BY <1>2, <1>4, <1>6
    <3>2. /\ IF fs.node[ResolvePath(fs, task.path)].type = "directory" THEN Done ELSE GiveUp
          /\ UNCHANGED fs
      BY <1>1, <1>6, <3>1, Zenon DEF Make, p
    <3> QED  BY <1>5, <1>6, <3>2 DEF DirectoryAt, p
  <2>2. Building(fs, work')
    <3>1. task.do = "make"
      BY <1>2, <1>4, <1>6
    <3>2. CASE DirectoryAt(fs, p) /\ work' = Tail(work)
      BY <1>1, <3>1, <3>2, SameItself, BuildingMade DEF p, task
    <3>3. CASE work' = << >>
      BY <3>3, NothingBuilds
    <3> QED  BY <2>1, <3>2, <3>3
  <2>3. CallStep(fs, opened, fs, opened)
    BY SameItself DEF CallStep
  <2> QED  BY <1>1, <1>2, <2>1, <2>2, <2>3 DEF TaskMade
<1>7. CASE ResolvePath(fs, p) = NoInode
  <2>1. PICK r \in MakeDirectory(fs, p) : fs' = r.fs /\ IF r.ok THEN Done ELSE GiveUp
    BY <1>1, <1>7, Zenon DEF Make, p
  <2>2. /\ Simple(r.fs)
        /\ \/ ~r.ok /\ Same(fs, r.fs)
           \/ /\ DirectoryAt(r.fs, p)
              /\ \E h, n : Added(fs, r.fs, h, n, ResolvePath(r.fs, p))
    BY <1>1, <1>4, <1>7, MadeAt
  <2>3. CallStep(fs, opened, r.fs, opened)
    BY <2>2 DEF CallStep
  <2>4. work' = << >> \/ (r.ok /\ work' = Tail(work))
    BY <1>5, <2>1
  <2> DEFINE g == r.fs
  <2>5. ASSUME Clear(g), r.ok, work' = Tail(work)
        PROVE  Building(g, work')
    <3>1. DirectoryAt(g, p) /\ \E h, n : Added(fs, g, h, n, ResolvePath(g, p))
      BY <2>2, <2>5
    <3> HIDE DEF g
    <3>2. CASE task.do = "make"
      BY <1>1, <2>5, <3>1, <3>2, BuildingMade DEF p, task
    <3>3. CASE task.do = "create"
      <4>1. /\ Tail(work) \in Seq(Task)
            /\ \A i \in 1 .. Len(Tail(work)) :
                  i + 1 \in 2 .. Len(work) /\ Tail(work)[i] = work[i + 1]
        BY <1>1, TailPlaces
      <4>2. ASSUME NEW k \in 2 .. Len(work)
            PROVE  Settled(g, work[k])
        <5>1. \/ Settled(fs, work[k])
              \/ LeadingList(work, 2, work[2]) /\ k = 2
          <6>1. work[1].do # "make"
            BY <3>3 DEF task
          <6> QED  BY <1>1, <6>1, Behind
        <5>2. CASE Settled(fs, work[k])
          <6>1. Grows(fs, g)
            BY <3>1, AddedGrows
          <6> QED  BY <1>1, <2>5, <5>2, <6>1, SettledStays
        <5>3. CASE LeadingList(work, 2, work[2]) /\ k = 2
          <6>1. /\ work[2].do = "list" /\ work[2].from \in Branch /\ work[2].to \in Branch
                /\ work[2].to = p
            BY <5>3 DEF LeadingList, p, task
          <6> QED  BY <3>1, <5>3, <6>1 DEF Settled
        <5> QED  BY <5>1, <5>2, <5>3
      <4> QED  BY <2>5, <4>1, <4>2, SettledBuilds
    <3> QED  BY <1>2, <3>2, <3>3
  <2>6. Clear(g) => Building(g, work')
    BY <2>4, <2>5, NothingBuilds
  <2> QED  BY <1>2, <2>1, <2>2, <2>3, <2>6 DEF TaskMade
<1> QED  BY <1>6, <1>7

LEMMA StoreBuilds ==
  ASSUME OneTask, work[1].do \notin {"make", "create"}, NEW path \in Branch,
         NEW asked, NEW truncate, Store(path, asked, truncate), opened' = opened
  PROVE  TaskMade
<1>1. /\ OneClusterDirectories /\ ~WriteFaults /\ Plain(fs) /\ Clear(fs)
      /\ work \in Seq(Task) /\ work # << >> /\ Building(fs, work)
  BY OneTaskMeans
<1>2. PICK g : /\ fs' = g /\ Simple(g)
               /\ Same(fs, g) \/ \E h, n, i : Added(fs, g, h, n, i)
  BY <1>1, StoreTree
<1>3. CallStep(fs, opened, g, opened) /\ Grows(fs, g)
  BY <1>2, SameGrows, AddedGrows DEF CallStep
<1>4. work' = Tail(work) \/ work' = << >>
  BY StoreSteps, Zenon
<1>5. Clear(g) => Building(g, work')
  BY <1>1, <1>3, <1>4, TailStays, NothingBuilds
<1> QED  BY <1>2, <1>3, <1>5 DEF TaskMade

\* A step that only makes or takes away tasks.
LEMMA KeepBuilds ==
  ASSUME OneTask, Keep, Building(fs, work')
  PROVE  TaskMade
<1>1. fs' = fs /\ opened' = opened /\ Simple(fs)
  BY OneTaskMeans DEF Keep
<1>2. CallStep(fs, opened, fs, opened)
  BY SameItself DEF CallStep
<1> QED  BY <1>1, <1>2 DEF TaskMade

LEMMA DoneBuilds ==
  ASSUME OneTask, work[1].do \notin {"make", "create"}, Done \/ GiveUp
  PROVE  Building(fs, work')
<1>1. work' = Tail(work) \/ work' = << >>
  BY DEF Done, GiveUp, Then
<1>2. Grows(fs, fs)
  BY SameItself, SameGrows
<1> QED  BY <1>1, <1>2, OneTaskMeans, TailStays, NothingBuilds

LEMMA WriteBuilds ==
  ASSUME OneTask, Write(Head(work))
  PROVE  TaskMade
<1> DEFINE task == work[1]
<1>1. Head(work) = task /\ (Settled(fs, task) \/ Leading(fs, work, 1))
  BY OneTaskMeans
<1>2. /\ task.do \in {"touch", "echo", "import", "pack"} /\ opened' = opened
      /\ \/ \E asked, truncate : Store(task.path, asked, truncate)
         \/ GiveUp /\ UNCHANGED fs
  BY <1>1, Zenon DEF Write
<1>3. task.path \in Branch
  BY <1>1, <1>2 DEF Settled, Leading, LeadingMake, LeadingCreate, LeadingList,
                    LeadingCopy, LeadingMove
<1>4. work[1].do \notin {"make", "create"}
  BY <1>2
<1>5. CASE GiveUp /\ UNCHANGED fs
  BY <1>2, <1>4, <1>5, DoneBuilds, KeepBuilds DEF Keep
<1> HIDE DEF task
<1>6. ASSUME NEW asked, NEW truncate, Store(task.path, asked, truncate)
      PROVE  TaskMade
  BY <1>2, <1>3, <1>4, <1>6, StoreBuilds
<1> QED  BY <1>2, <1>5, <1>6

LEMMA FillBuilds ==
  ASSUME OneTask, Fill(Head(work))
  PROVE  TaskMade
<1> DEFINE task == work[1]
<1>1. Head(work) = task /\ (Settled(fs, task) \/ Leading(fs, work, 1))
  BY OneTaskMeans
<1>2. /\ task.do = "fill" /\ opened' = opened
      /\ \/ \E asked : Store(task.to, asked, TRUE)
         \/ GiveUp /\ UNCHANGED fs
  BY <1>1, Zenon DEF Fill
<1>3. task.to \in Branch
  BY <1>1, <1>2 DEF Settled, Leading, LeadingMake, LeadingCreate, LeadingList,
                    LeadingCopy, LeadingMove
<1>4. work[1].do \notin {"make", "create"}
  BY <1>2
<1>5. CASE GiveUp /\ UNCHANGED fs
  BY <1>2, <1>4, <1>5, DoneBuilds, KeepBuilds DEF Keep
<1> HIDE DEF task
<1>6. ASSUME NEW asked, Store(task.to, asked, TRUE)
      PROVE  TaskMade
  BY <1>2, <1>3, <1>4, <1>6, StoreBuilds
<1> QED  BY <1>2, <1>5, <1>6

LEMMA ReportBuilds ==
  ASSUME OneTask, Report(Head(work))
  PROVE  TaskMade
BY OneTaskMeans, DoneBuilds, KeepBuilds DEF Report

\* What is made before a task that waits for nothing.
LEMMA EnsureBuilds ==
  ASSUME Clear(fs), NEW path \in Branch, NEW S, NEW t \in S, Settled(fs, t)
  PROVE  LET v == EnsureParents(path) \o <<t>>
         IN  /\ \A k \in 1 .. Len(v) :
                   Settled(fs, v[k]) \/ (v[k].do # "move" /\ Leading(fs, v, k))
             /\ Building(fs, v)
<1> DEFINE x == <<t>>
           v == EnsureParents(path) \o x
           m == Len(EnsureParents(path))
<1>1. x \in Seq(S) /\ Len(x) = 1 /\ x[1] = t
  OBVIOUS
<1> HIDE DEF x
<1>2. /\ m \in Nat /\ Len(v) = m + Len(x)
      /\ \A k \in 1 .. m : LeadingMake(fs, v, k, v[k]) /\ v[k].do = "make"
      /\ \A k \in m + 1 .. Len(v) : k - m \in 1 .. Len(x) /\ v[k] = x[k - m]
  BY <1>1, EnsureLeads DEF Clear
<1> HIDE DEF v, m
<1>3. ASSUME NEW k \in 1 .. Len(v)
      PROVE  Settled(fs, v[k]) \/ (v[k].do # "move" /\ Leading(fs, v, k))
  <2>1. CASE k \in 1 .. m
    BY <1>2, <2>1 DEF Leading
  <2>2. CASE k \notin 1 .. m
    <3>1. k \in m + 1 .. Len(v) /\ k - m = 1
      BY <1>1, <1>2, <2>2
    <3> QED  BY <1>1, <1>2, <3>1
  <2> QED  BY <2>1, <2>2
<1> QED  BY <1>3 DEF Building, v, x

\* A directory that is created, and what is listed of it.
LEMMA CreateBuilds ==
  ASSUME Clear(fs), NEW path \in Branch, InPlace(fs, path),
         ResolvePath(fs, path) = NoInode, NEW S, NEW a \in S, NEW b \in S,
         a.do = "create", a.path = path,
         b.do = "list", b.from \in Branch, b.to = path
  PROVE  LET v == EnsureParents(path) \o <<a, b>>
         IN  \A k \in 1 .. Len(v) :
                Settled(fs, v[k]) \/ (v[k].do # "move" /\ Leading(fs, v, k))
<1> DEFINE x == <<a, b>>
           v == EnsureParents(path) \o x
           m == Len(EnsureParents(path))
<1>1. x \in Seq(S) /\ Len(x) = 2 /\ x[1] = a /\ x[2] = b
  OBVIOUS
<1> HIDE DEF x
<1>2. /\ m \in Nat /\ Len(v) = m + Len(x)
      /\ \A k \in 1 .. m : /\ LeadingMake(fs, v, k, v[k]) /\ v[k].path # path
                           /\ v[k].do = "make"
      /\ \A k \in m + 1 .. Len(v) : k - m \in 1 .. Len(x) /\ v[k] = x[k - m]
      /\ OnlyMakes(v, m + 1)
  BY <1>1, EnsureLeads DEF Clear
<1> HIDE DEF v, m
<1>3. m + 1 \in m + 1 .. Len(v) /\ m + 2 \in m + 1 .. Len(v) /\ v[m + 1] = a /\ v[m + 2] = b
  <2>1. m + 1 \in m + 1 .. Len(v) /\ m + 2 \in m + 1 .. Len(v)
        /\ (m + 1) - m = 1 /\ (m + 2) - m = 2
    BY <1>1, <1>2
  <2> QED  BY <1>1, <1>2, <2>1
<1>4. Leading(fs, v, m + 1)
  <2>1. \A l \in 1 .. (m + 1) - 1 : v[l].path # path
    <3>1. (m + 1) - 1 = m
      BY <1>2
    <3> QED  BY <1>2, <3>1
  <2>2. Vacant(fs, v, m + 1, path)
    BY <2>1 DEF Vacant
  <2> QED  BY <1>2, <1>3, <2>2 DEF Leading, LeadingCreate
<1>5. Leading(fs, v, m + 2)
  <2>1. m + 2 > 1 /\ (m + 2) - 1 = m + 1
    BY <1>2
  <2> QED  BY <1>3, <2>1 DEF Leading, LeadingList
<1>6. ASSUME NEW k \in 1 .. Len(v)
      PROVE  Settled(fs, v[k]) \/ (v[k].do # "move" /\ Leading(fs, v, k))
  <2>1. CASE k \in 1 .. m
    BY <1>2, <2>1 DEF Leading
  <2>2. CASE k \notin 1 .. m
    <3>1. k = m + 1 \/ k = m + 2
      BY <1>1, <1>2, <2>2
    <3> QED  BY <1>3, <1>4, <1>5, <3>1
  <2> QED  BY <2>1, <2>2
<1> QED  BY <1>6 DEF v, x

LEMMA ThenBuilds ==
  ASSUME OneTask, work[1].do \notin {"make", "create"}, NEW S, NEW v \in Seq(S),
         \A k \in 1 .. Len(v) : Settled(fs, v[k]) \/ (v[k].do # "move" /\ Leading(fs, v, k)),
         Then(v)
  PROVE  Building(fs, work')
<1>1. work \in Seq(Task) /\ work # << >> /\ Building(fs, work)
  BY OneTaskMeans
<1>2. /\ Tail(work) \in Seq(Task)
      /\ \A k \in 1 .. Len(Tail(work)) : Settled(fs, Tail(work)[k])
  BY <1>1, TailSettled
<1> DEFINE x == Tail(work)
           U == S \cup Task
<1>3. v \in Seq(U) /\ x \in Seq(U)
  BY <1>2
<1>4. work' = v \o x
  BY DEF Then
<1>5. \A k \in 1 .. Len(x) : Settled(fs, x[k])
  BY <1>2
<1> HIDE DEF x, U
<1>6. Building(fs, v \o x)
  BY <1>3, <1>5, Spliced
<1> QED  BY <1>4, <1>6

LEMMA CopyBuilds ==
  ASSUME OneTask, Copy(Head(work))
  PROVE  TaskMade
<1> DEFINE task == work[1]
           i == EntryAt(task.from)
           there == ResolvePath(fs, task.to)
           how == IF i = NoInode THEN "none" ELSE fs.node[i].type
           list == [task EXCEPT !.do = "list"]
           fill == [task EXCEPT !.do = "fill"]
           create == [do |-> "create", path |-> task.to]
           link == [do |-> "link", target |-> fs.node[i].target, to |-> task.to]
<1>1. /\ Head(work) = task /\ (Settled(fs, task) \/ Leading(fs, work, 1))
      /\ Clear(fs) /\ work \in Seq(Task) /\ 1 \in 1 .. Len(work) /\ Sound(fs)
  BY OneTaskMeans
<1>2. task.do = "copy" /\ Keep
  BY <1>1 DEF Copy
<1>3. /\ task.from \in Branch /\ task.to \in Branch /\ InPlace(fs, task.to)
  BY <1>1, <1>2 DEF Settled, Leading, LeadingMake, LeadingCreate, LeadingList,
                    LeadingCopy, LeadingMove, InPlace
<1>4. task \in Task
  BY <1>1
<1>5. task \in CopyTask
  BY <1>2, <1>4, TaskKinds
<1>6. /\ list.do = "list" /\ list.from = task.from /\ list.to = task.to
      /\ fill.do = "fill" /\ fill.from = task.from /\ fill.to = task.to
      /\ create.do = "create" /\ create.path = task.to
  BY <1>5 DEF CopyTask
<1>7. \/ GiveUp
      \/ Then(Append(EnsureParents(task.to), fill))
      \/ how = "symlink" /\ Then(Append(EnsureParents(task.to), link))
      \/ how = "directory" /\ there = NoInode
           /\ Then(EnsureParents(task.to) \o <<create, list>>)
      \/ how = "directory" /\ IsDirectory(there) /\ Then(<<list>>)
  BY <1>1, Zenon DEF Copy
<1>8. how # "symlink"
  <2>1. task.from \in ProperPath
    BY <1>5 DEF CopyTask
  <2>2. i \in Inodes \cup {NoInode}
    BY <1>1, <2>1, EntryIsInode
  <2> QED  BY <1>1, <2>2 DEF Clear, Linkless
<1>9. work[1].do \notin {"make", "create"}
  BY <1>2
<1>10. list \in Task /\ fill \in Task /\ create \in Task
       /\ EnsureParents(task.to) \in Seq(Task)
  <2>1. list \in CopyTask /\ fill \in CopyTask /\ task.to \in ProperPath
    BY <1>5, CopyTasks
  <2>2. create \in PathTask
    BY <2>1 DEF PathTask
  <2> QED  BY <2>1, <2>2, TasksOfKind, EnsureTasks
<1> HIDE DEF i, there, how, list, fill, create, link
<1>11. CASE GiveUp
  BY <1>2, <1>9, <1>11, DoneBuilds, KeepBuilds
<1> DEFINE to == task.to
<1>12. CASE Then(Append(EnsureParents(to), fill))
  <2> DEFINE v == EnsureParents(to) \o <<fill>>
  <2>1. Settled(fs, fill)
    BY <1>3, <1>6 DEF Settled
  <2>2. \A k \in 1 .. Len(v) : Settled(fs, v[k]) \/ (v[k].do # "move" /\ Leading(fs, v, k))
    BY <1>1, <1>3, <1>10, <2>1, EnsureBuilds
  <2>3. v = Append(EnsureParents(to), fill) /\ v \in Seq(Task)
    BY <1>10
  <2> HIDE DEF v
  <2> QED  BY <1>2, <1>9, <1>12, <2>2, <2>3, ThenBuilds, KeepBuilds
<1>13. CASE there = NoInode /\ Then(EnsureParents(to) \o <<create, list>>)
  <2> DEFINE v == EnsureParents(to) \o <<create, list>>
  <2>1. to \in Branch /\ InPlace(fs, to) /\ ResolvePath(fs, to) = NoInode
    BY <1>3, <1>13 DEF there
  <2>2. /\ create.do = "create" /\ create.path = to
        /\ list.do = "list" /\ list.from \in Branch /\ list.to = to
    BY <1>3, <1>6
  <2>3. v \in Seq(Task)
    BY <1>10
  <2> HIDE DEF to
  <2>4. \A k \in 1 .. Len(v) : Settled(fs, v[k]) \/ (v[k].do # "move" /\ Leading(fs, v, k))
    BY <1>1, <1>10, <2>1, <2>2, CreateBuilds
  <2>5. Then(v)
    BY <1>13
  <2> HIDE DEF v
  <2> QED  BY <1>2, <1>9, <2>3, <2>4, <2>5, ThenBuilds, KeepBuilds
<1>14. CASE IsDirectory(there) /\ Then(<<list>>)
  <2> DEFINE v == <<list>>
  <2>1. Settled(fs, list)
    BY <1>3, <1>6, <1>14 DEF Settled, DirectoryAt, IsDirectory, there
  <2>2. v \in Seq(Task) /\ Len(v) = 1 /\ v[1] = list
    BY <1>10
  <2> HIDE DEF v
  <2>3. \A k \in 1 .. Len(v) : Settled(fs, v[k])
    BY <2>1, <2>2
  <2>4. Then(v)
    BY <1>14 DEF v
  <2> QED  BY <1>2, <1>9, <2>2, <2>3, <2>4, ThenBuilds, KeepBuilds
<1> QED  BY <1>7, <1>8, <1>11, <1>12, <1>13, <1>14

LEMMA ListBuilds ==
  ASSUME OneTask, List(Head(work))
  PROVE  TaskMade
<1> DEFINE task == work[1]
           i == ResolvePath(fs, task.from)
           s == Listed(i)
           copies == Copies(task, s)
<1>1. /\ Head(work) = task /\ (Settled(fs, task) \/ Leading(fs, work, 1))
      /\ Clear(fs) /\ work \in Seq(Task) /\ 1 \in 1 .. Len(work) /\ Sound(fs)
  BY OneTaskMeans
<1>2. task.do = "list" /\ Keep /\ IF i = NoInode THEN GiveUp ELSE Then(copies)
  BY <1>1, Zenon DEF List
<1>3. task.from \in Branch /\ task.to \in Branch /\ DirectoryAt(fs, task.to)
  BY <1>1, <1>2 DEF Settled, Leading, LeadingMake, LeadingCreate, LeadingList,
                    LeadingCopy, LeadingMove
<1>4. work[1].do \notin {"make", "create"}
  BY <1>2
<1>5. CASE i = NoInode
  BY <1>2, <1>4, <1>5, DoneBuilds, KeepBuilds
<1>6. CASE i # NoInode
  <2> DEFINE from == task.from
             to == task.to
             one(k) == [do |-> "copy", from |-> Append(from, s[k].name),
                        to |-> Append(to, s[k].name)]
  <2>1. from \in Seq(Names) /\ to \in Seq(Names)
    BY <1>3, BranchParts
  <2>2. i \in Inodes
    <3>1. from \in Seq(Components)
      BY <2>1, NamesAreEnds
    <3> QED  BY <1>1, <1>6, <3>1, Resolved
  <2>3. s \in Seq(NamedEntry) /\ \A k \in DOMAIN s : s[k].name \in Names
    BY <1>1, <2>2, ListedThere
  <2>4. copies = [k \in DOMAIN s |-> one(k)]
    BY DEF Copies
  <2> HIDE DEF s, copies, to, from
  <2>5. DOMAIN s = 1 .. Len(s) /\ Len(s) \in Nat
    BY <2>3
  <2>6. ASSUME NEW k \in DOMAIN s
        PROVE  Settled(fs, one(k))
    <3>1. /\ Append(from, s[k].name) \in Branch /\ Append(to, s[k].name) \in Branch
          /\ Front(Append(to, s[k].name)) = to
      BY <2>1, <2>3, AppendSplit DEF Branch
    <3> QED  BY <1>3, <3>1 DEF Settled, to
  <2> HIDE DEF one
  <2> DEFINE U == {one(k) : k \in DOMAIN s}
  <2>7. /\ copies \in Seq(U)
        /\ \A k \in 1 .. Len(copies) : Settled(fs, copies[k])
    BY <2>4, <2>5, <2>6
  <2>8. Then(copies)
    BY <1>2, <1>6
  <2> HIDE DEF U
  <2> QED  BY <1>2, <1>4, <2>7, <2>8, ThenBuilds, KeepBuilds
<1> QED  BY <1>5, <1>6

\* Nothing is where a path leads nowhere.
LEMMA NothingHeld ==
  ASSUME NEW f, Sound(f), Tidy(f), Upright(f), Linkless(f), NEW path \in Branch
  PROVE  /\ ResolvePath(f, path) = FindEntry(f, ParentOf(f, path), Last(path))
         /\ ResolvePath(f, path) = NoInode <=> ~Holds(f, ParentOf(f, path), Last(path))
<1> DEFINE h == ParentOf(f, path)
           name == Last(path)
<1>1. /\ h \in Inodes \cup {NoInode} /\ name \in Components \ {Dot, DotDot}
      /\ ResolvePath(f, path) = IF h = NoInode THEN NoInode ELSE FindEntry(f, h, name)
  BY Placed, BranchParts
<1> HIDE DEF h, name
<1>2. CASE h = NoInode
  <2>1. ~Holds(f, h, name)
    BY <1>2 DEF Holds
  <2> QED  BY <1>1, <1>2, <2>1 DEF FindEntry, h, name
<1>3. CASE h # NoInode
  <2>1. h \in Inodes
    BY <1>1, <1>3
  <2>2. ASSUME Holds(f, h, name) PROVE FindEntry(f, h, name) # NoInode
    <3>1. Leads(f, h, name, FindEntry(f, h, name))
      BY <1>1, <2>1, <2>2, FoundLeads
    <3>2. FindEntry(f, h, name) \in Inodes
      BY <2>1, <3>1, LeadsFound DEF Tidy
    <3> QED  BY <3>2, RootIsInode
  <2>3. ~Holds(f, h, name) => FindEntry(f, h, name) = NoInode
    BY DEF FindEntry
  <2> QED  BY <1>1, <1>3, <2>2, <2>3 DEF h, name
<1> QED  BY <1>2, <1>3

LEMMA MoveBuilds ==
  ASSUME OneTask, Move(Head(work))
  PROVE  TaskMade
<1> DEFINE task == work[1]
           from == task.from
           to == task.to
<1>1. /\ Head(work) = task /\ (Settled(fs, task) \/ Leading(fs, work, 1))
      /\ Plain(fs) /\ work \in Seq(Task) /\ work # << >> /\ 1 \in 1 .. Len(work)
      /\ OneClusterDirectories /\ ~WriteFaults
  BY OneTaskMeans
<1>2. /\ task.do = "move" /\ opened' = opened /\ Done
      /\ IF task.directory /\ IntoItself(from, to)
         THEN UNCHANGED fs
         ELSE \E r \in Renamed(fs, from, to) : fs' = r.fs
  BY <1>1, Zenon DEF Move
<1>3. LeadingMove(fs, work, 1, task)
  BY <1>1, <1>2 DEF Settled, Leading, LeadingMake, LeadingCreate, LeadingList,
                    LeadingCopy
<1>4. /\ 1 = Len(work) /\ Vacant(fs, work, 1, to)
      /\ from \in Branch /\ ResolvePath(fs, from) # NoInode
      /\ task.directory <=> DirectoryAt(fs, from)
  BY <1>3 DEF LeadingMove
<1>5. to \in Branch /\ InPlace(fs, to) /\ ResolvePath(fs, to) = NoInode
  BY <1>4 DEF Vacant
<1> HIDE DEF to, from
<1>6. /\ Sound(fs) /\ Tidy(fs) /\ Upright(fs) /\ Linkless(fs) /\ Simple(fs)
  BY <1>1 DEF Plain, Simple
<1>7. work' = << >>
  <2>1. Tail(work) = << >>
    <3>1. Tail(work) \in Seq(Task) /\ Len(Tail(work)) = Len(work) - 1
      BY <1>1, TailPlaces
    <3> DEFINE x == Tail(work)
    <3>2. x \in Seq(Task) /\ Len(x) = 0
      BY <1>4, <3>1
    <3> HIDE DEF x
    <3>3. x = << >>
      BY <3>2
    <3> QED  BY <3>3 DEF x
  <2> QED  BY <1>2, <2>1 DEF Done, Then
<1>8. CASE UNCHANGED fs
  <2>1. Keep /\ Building(fs, work')
    BY <1>2, <1>7, <1>8, NothingBuilds DEF Keep
  <2> QED  BY <2>1, KeepBuilds
<1>9. CASE ~UNCHANGED fs
  <2>1. PICK r \in Renamed(fs, from, to) : fs' = r.fs
    BY <1>2, <1>9
  <2>2. ~IsPrefix(from, to) \/ fs.node[ResolvePath(fs, from)].type # "directory"
    BY <1>2, <1>4, <1>9 DEF IntoItself, DirectoryAt
  <2>3. /\ from \in Seq(Names) \ {<< >>} /\ to \in Seq(Names) \ {<< >>}
    BY <1>4, <1>5, BranchParts
  <2>4. ParentOf(fs, to) = ResolvePath(fs, Front(to))
    BY <1>6, <2>3, Placed
  <2>5. ParentOf(fs, to) # NoInode => fs.node[ParentOf(fs, to)].type = "directory"
    BY <1>5, <2>4 DEF InPlace, DirectoryAt
  <2>6. ~Holds(fs, ParentOf(fs, to), Last(to))
    BY <1>5, <1>6, NothingHeld
  <2>7. /\ Simple(r.fs)
        /\ \/ Same(fs, r.fs)
           \/ \E i : Shifted(fs, r.fs, ParentOf(fs, from), Last(from),
                             ParentOf(fs, to), Last(to), i)
    BY <1>1, <2>1, <2>2, <2>3, <2>5, <2>6, RenameTree
  <2>8. CallStep(fs, opened, r.fs, opened)
    BY <2>7 DEF CallStep
  <2>9. Building(r.fs, work')
    BY <1>7, NothingBuilds
  <2> QED  BY <1>2, <2>1, <2>7, <2>8, <2>9 DEF TaskMade
<1> QED  BY <1>8, <1>9

LEMMA NoLinkMade ==
  ASSUME OneTask
  PROVE  ~Link(Head(work)) /\ ~Drop(Head(work))
BY OneTaskMeans DEF Link, Drop, Settled, Leading, LeadingMake, LeadingCreate, LeadingList,
                    LeadingCopy, LeadingMove

LEMMA ContinueBuilds ==
  ASSUME OneTask, Continue
  PROVE  TaskMade
BY NoLinkMade, MakeBuilds, WriteBuilds, CopyBuilds, ListBuilds, FillBuilds, ReportBuilds,
   MoveBuilds, Zenon DEF Continue

Beginning == Orderly /\ CInv /\ Plain(fs)

LEMMA BeginningMeans ==
  ASSUME Beginning
  PROVE  /\ Plain(fs) /\ Clear(fs) /\ Sound(fs) /\ Tidy(fs) /\ Upright(fs) /\ Linkless(fs)
         /\ CommandPaths \subseteq Branch
<1>1. CommandPaths \subseteq Seq(Names)
  BY CommandsAssumption DEF Beginning, Orderly
<1>2. << >> \notin CommandPaths
  BY CommandsAssumption, NamespaceAssumption
<1>3. CommandPaths \subseteq Branch
  BY <1>1, <1>2, Zenon DEF Branch
<1> QED  BY <1>3 DEF Beginning, Plain, Clear

LEMMA MkdirBuilds ==
  ASSUME Beginning, NEW path \in Branch, Mkdir(path)
  PROVE  Building(fs, work')
<1>1. path \in Seq(Names)
  BY BranchParts
<1>2. NormalizeFsPath(path) \in Seq(Names)
  BY <1>1, NormalShorter
<1> QED  BY <1>2, BeginningMeans, MakesBuild DEF Mkdir

LEMMA FileBuilds ==
  ASSUME Beginning, NEW path \in Branch, Touch(path) \/ Echo(path) \/ Import(path)
  PROVE  Building(fs, work')
<1>1. PICK do \in {"touch", "echo", "import"} :
        work' = Append(EnsureParents(path), [do |-> do, path |-> path])
  BY DEF Touch, Echo, Import
<1> DEFINE t == [do |-> do, path |-> path]
<1>2. Settled(fs, t)
  BY DEF Settled
<1>3. path \in Seq(Names)
  BY BranchParts
<1>4. path \in ProperPath
  BY BeginningMeans, Placed, BranchParts
<1>5. EnsureParents(path) \in Seq(PathTask)
  BY <1>4, EnsureTasks
<1>6. work' = EnsureParents(path) \o <<t>>
  BY <1>1, <1>5
<1> HIDE DEF t
<1>7. t \in {t}
  OBVIOUS
<1>8. Building(fs, EnsureParents(path) \o <<t>>)
  BY <1>2, <1>7, BeginningMeans, EnsureBuilds
<1> QED  BY <1>6, <1>8

LEMMA PackBuilds ==
  ASSUME NEW path \in Branch, Compress(path) \/ Decompress(path)
  PROVE  Building(fs, work')
<1>1. PICK name \in Names :
        work' = << [do |-> "pack", path |-> Append(Front(path), name)] >>
  BY CommandsAssumption DEF Compress, Decompress
<1> DEFINE p == Append(Front(path), name)
           t == [do |-> "pack", path |-> p]
<1>2. p \in Branch
  BY BranchParts, AppendSplit DEF Branch
<1> HIDE DEF p
<1>3. Settled(fs, t)
  BY <1>2 DEF Settled
<1>4. work' = <<t>>
  BY <1>1 DEF p
<1> HIDE DEF t
<1>5. <<t>> \in Seq({t}) /\ \A k \in 1 .. Len(<<t>>) : <<t>>[k] = t
  OBVIOUS
<1>6. Building(fs, <<t>>)
  BY <1>3, <1>5, SettledBuilds
<1> QED  BY <1>4, <1>6

LEMMA FinalPath ==
  ASSUME Beginning, NEW from \in Branch, NEW to \in Branch \cup {<< >>}
  PROVE  /\ Destination(from, to) \in Branch
         /\ Destination(from, to) # to \/ to \in Branch
<1>1. Last(from) \in Names
  BY BranchParts
<1>2. << >> \in Seq(Names)
  OBVIOUS
<1>3. to \in Seq(Names)
  BY <1>2, BranchParts
<1>4. Append(to, Last(from)) \in Branch
  BY <1>1, <1>3, AppendSplit DEF Branch
<1>5. to = << >> => IsDirectory(ResolvePath(fs, to))
  <2>1. Sound(fs)
    BY BeginningMeans
  <2> QED  BY <2>1, RootResolved, RootIsInode DEF IsDirectory, Sound, RootStays
<1>6. CASE to \in Branch
  BY <1>4, <1>6, Zenon DEF Destination
<1>7. CASE to = << >>
  <2>1. Destination(from, to) = Append(to, Last(from))
    BY <1>5, <1>7, Zenon DEF Destination
  <2>2. Append(to, Last(from)) # << >>
    BY <1>4 DEF Branch
  <2> QED  BY <1>4, <1>7, <2>1, <2>2
<1> QED  BY <1>6, <1>7

LEMMA PlaceGiven ==
  ASSUME Beginning, NEW path \in Branch, InDirectory(path)
  PROVE  /\ InPlace(fs, path)
         /\ EntryAt(path) = NoInode => ResolvePath(fs, path) = NoInode
<1>1. ParentOf(fs, path) = ResolvePath(fs, Front(path))
  BY BeginningMeans, BranchParts, Placed
<1>2. InPlace(fs, path)
  BY <1>1 DEF InDirectory, InPlace, DirectoryAt
<1>3. ResolvePath(fs, path) = FindEntry(fs, ParentOf(fs, path), Last(path))
  BY BeginningMeans, NothingHeld
<1> QED  BY <1>2, <1>3 DEF EntryAt

LEMMA CpBuilds ==
  ASSUME Beginning, NEW from \in Branch, NEW to \in Branch \cup {<< >>},
         MayCopy(from, to), Cp(from, to)
  PROVE  Building(fs, work')
<1> DEFINE final == Destination(from, to)
           copy == [do |-> "copy", from |-> from, to |-> final]
           report == [do |-> "report", from |-> from, to |-> final]
<1>1. final \in Branch
  BY FinalPath
<1>2. InPlace(fs, final)
  <2>1. InDirectory(final)
    BY DEF MayCopy, Beginning, Orderly
  <2> QED  BY <1>1, <2>1, PlaceGiven
<1>3. work' = <<copy, report>>
  BY DEF Cp
<1> HIDE DEF final
<1>4. LeadingCopy(fs, 1, copy)
  BY <1>1, <1>2 DEF LeadingCopy
<1>5. Settled(fs, report)
  BY <1>1 DEF Settled
<1> HIDE DEF copy, report
<1> DEFINE w == <<copy, report>>
<1>6. Len(w) = 2 /\ w[1] = copy /\ w[2] = report
  OBVIOUS
<1> HIDE DEF w
<1>7. ASSUME NEW k \in 1 .. Len(w)
      PROVE  Settled(fs, w[k]) \/ Leading(fs, w, k)
  <2>1. k = 1 \/ k = 2
    BY <1>6
  <2> QED  BY <1>4, <1>5, <1>6, <2>1 DEF Leading
<1>8. Building(fs, w)
  BY <1>7 DEF Building
<1> QED  BY <1>3, <1>8 DEF w

LEMMA MvBuilds ==
  ASSUME Beginning, NEW from \in Branch, NEW to \in Branch \cup {<< >>},
         MayMove(from, to), Mv(from, to)
  PROVE  Building(fs, work')
<1> DEFINE final == Destination(from, to)
           i == ResolvePath(fs, from)
           move == [do |-> "move", from |-> from, to |-> final,
                    directory |-> IsDirectory(i)]
<1>1. final \in Branch /\ (final = to => to \in Branch)
  BY FinalPath
<1>2. InPlace(fs, final) /\ ResolvePath(fs, final) = NoInode
  <2>1. InDirectory(final) /\ EntryAt(final) = NoInode
    BY DEF MayMove, Beginning, Orderly
  <2> QED  BY <1>1, <2>1, PlaceGiven
<1>3. /\ i # NoInode
      /\ work' = IF final # to THEN <<move>> ELSE Append(EnsureParents(to), move)
  BY DEF Mv
<1> HIDE DEF final
<1>4. /\ move.do = "move" /\ move.from = from /\ move.to = final
      /\ move.directory <=> DirectoryAt(fs, from)
  BY DEF IsDirectory, DirectoryAt
<1> HIDE DEF move, i
<1>5. ASSUME NEW w, Len(w) \in Nat, w[Len(w)] = move, OnlyMakes(w, Len(w)),
             \A l \in 1 .. Len(w) - 1 : w[l].path # final
      PROVE  Leading(fs, w, Len(w))
  <2>1. Vacant(fs, w, Len(w), final)
    BY <1>1, <1>2, <1>5 DEF Vacant
  <2>2. LeadingMove(fs, w, Len(w), w[Len(w)])
    BY <1>3, <1>4, <1>5, <2>1 DEF LeadingMove, i
  <2> QED  BY <2>2 DEF Leading
<1> DEFINE x == <<move>>
<1>6. x \in Seq({move}) /\ Len(x) = 1 /\ x[1] = move
  OBVIOUS
<1>7. CASE final # to
  <2>1. work' = x
    BY <1>3, <1>7
  <2> HIDE DEF x
  <2>2. Leading(fs, x, 1)
    <3>1. OnlyMakes(x, 1)
      BY DEF OnlyMakes
    <3>2. \A l \in 1 .. Len(x) - 1 : x[l].path # final
      BY <1>6
    <3>3. Len(x) \in Nat /\ x[Len(x)] = move /\ OnlyMakes(x, Len(x))
      BY <1>6, <3>1
    <3>4. Leading(fs, x, Len(x))
      BY <1>5, <3>2, <3>3
    <3> QED  BY <1>6, <3>4
  <2>3. \A k \in 1 .. Len(x) : k = 1
    BY <1>6
  <2> QED  BY <2>1, <2>2, <2>3 DEF Building
<1>8. CASE final = to
  <2> DEFINE v == EnsureParents(final) \o x
             m == Len(EnsureParents(final))
  <2>1. work' = v
    <3>1. final \in ProperPath
      BY <1>1, BeginningMeans, Placed, BranchParts
    <3>2. EnsureParents(final) \in Seq(PathTask)
      BY <3>1, EnsureTasks
    <3> QED  BY <1>3, <1>8, <3>2
  <2> HIDE DEF x
  <2>2. /\ m \in Nat /\ Len(v) = m + Len(x)
        /\ \A k \in 1 .. m : /\ LeadingMake(fs, v, k, v[k]) /\ v[k].path # final
                             /\ v[k].do = "make"
        /\ \A k \in m + 1 .. Len(v) : k - m \in 1 .. Len(x) /\ v[k] = x[k - m]
        /\ OnlyMakes(v, m + 1)
    <3>1. Sound(fs)
      BY BeginningMeans
    <3> QED  BY <1>1, <1>6, <3>1, EnsureLeads
  <2> HIDE DEF v, m
  <2>3. Len(v) = m + 1 /\ Len(v) - 1 = m /\ Len(v) \in m + 1 .. Len(v)
    BY <1>6, <2>2
  <2>4. v[Len(v)] = move
    <3>1. v[Len(v)] = x[(m + 1) - m]
      BY <2>2, <2>3
    <3> QED  BY <1>6, <2>2, <3>1
  <2>5. Leading(fs, v, Len(v))
    BY <1>5, <2>2, <2>3, <2>4
  <2>6. ASSUME NEW k \in 1 .. Len(v)
        PROVE  Leading(fs, v, k)
    <3>1. k \in 1 .. m \/ k = Len(v)
      BY <2>2, <2>3
    <3> QED  BY <2>2, <2>5, <3>1 DEF Leading
  <2> QED  BY <2>1, <2>6 DEF Building
<1> QED  BY <1>7, <1>8

--------------------------------------------------------------------------------
(* What rmdir reads of a directory. *)

LEMMA SeqWider ==
  ASSUME NEW S, NEW T, S \subseteq T
  PROVE  Seq(S) \subseteq Seq(T)
OBVIOUS

\* A list has each name of another one, once.
Undotted(s, t) ==
  /\ Distinct(t)
  /\ \A k \in 1 .. Len(t) : Enters(s, t[k].name, t[k].inode)
  /\ \A n, j : Enters(s, n, j) => \E k \in 1 .. Len(t) : t[k].name = n /\ t[k].inode = j

LEMMA UndottedGrows ==
  ASSUME NEW s \in Seq(Entry), NEW x \in Entry, NEW a \in Seq(Entry), a = Append(s, x),
         Distinct(a), NEW t \in Seq(Entry), Undotted(s, t),
         NEW u \in Seq(Entry), u = IF x.name > DotDot THEN Append(t, x) ELSE t
  PROVE  Undotted(a, u)
<1>1. /\ Len(a) = Len(s) + 1 /\ Len(s) \in Nat /\ a[Len(s) + 1] = x
      /\ \A k \in 1 .. Len(s) : a[k] = s[k]
  OBVIOUS
<1>2. x.name > DotDot <=> x.name \notin {Dot, DotDot}
  <2>1. x.name \in Components
    BY DEF Entry
  <2>2. x.name = 0 \/ x.name = 1 \/ x.name \in Names
    BY <2>1 DEF Components, Dot, DotDot
  <2>3. x.name \in Names => x.name \in Nat /\ x.name # 0 /\ x.name # 1
    BY DirectoriesAssumption
  <2> QED  BY <2>2, <2>3 DEF Dot, DotDot
<1>3. \A n, j : Enters(a, n, j) <=> \/ Enters(s, n, j)
                                    \/ n \notin {Dot, DotDot} /\ x.name = n /\ x.inode = j
  BY <1>1 DEF Enters
<1>4. \A k \in 1 .. Len(s) : s[k].name # x.name
  <2>1. \A k \in 1 .. Len(s) : k \in 1 .. Len(a) /\ k # Len(s) + 1
    BY <1>1
  <2>2. Len(s) + 1 \in 1 .. Len(a)
    BY <1>1
  <2> QED  BY <1>1, <2>1, <2>2 DEF Distinct
<1>5. CASE x.name > DotDot
  <2>1. /\ Len(u) = Len(t) + 1 /\ Len(t) \in Nat /\ u[Len(t) + 1] = x
        /\ \A k \in 1 .. Len(t) : u[k] = t[k]
    BY <1>5
  <2>2. \A k \in 1 .. Len(t) : t[k].name # x.name
    BY <1>4 DEF Undotted, Enters
  <2>3. Distinct(u)
    BY <2>1, <2>2 DEF Undotted, Distinct
  <2>4. \A k \in 1 .. Len(u) : Enters(a, u[k].name, u[k].inode)
    BY <1>2, <1>3, <1>5, <2>1 DEF Undotted
  <2>5. ASSUME NEW n, NEW j, Enters(a, n, j)
        PROVE  \E k \in 1 .. Len(u) : u[k].name = n /\ u[k].inode = j
    <3>1. CASE Enters(s, n, j)
      <4>1. PICK k \in 1 .. Len(t) : t[k].name = n /\ t[k].inode = j
        BY <3>1 DEF Undotted
      <4> QED  BY <2>1, <4>1
    <3>2. CASE x.name = n /\ x.inode = j
      BY <2>1, <3>2
    <3> QED  BY <1>3, <2>5, <3>1, <3>2
  <2> QED  BY <2>3, <2>4, <2>5 DEF Undotted
<1>6. CASE ~(x.name > DotDot)
  <2>1. u = t
    BY <1>6
  <2>2. \A n, j : Enters(a, n, j) <=> Enters(s, n, j)
    BY <1>2, <1>3, <1>6
  <2> QED  BY <2>1, <2>2 DEF Undotted
<1> QED  BY <1>5, <1>6

LEMMA WithoutDotsUndotted ==
  ASSUME NEW s \in Seq(FitEntry), Distinct(s)
  PROVE  Undotted(s, WithoutDots(s))
<1> DEFINE S == {q \in Seq(FitEntry) : Distinct(q) => Undotted(q, WithoutDots(q))}
<1>1. << >> \in S
  <2>1. << >> \in Seq(FitEntry)
    OBVIOUS
  <2>2. WithoutDots(<< >>) = << >>
    BY <2>1, ListedFolds, FoldEmpty
  <2>3. Undotted(<< >>, << >>)
    BY DEF Undotted, Distinct, Enters
  <2> QED  BY <2>1, <2>2, <2>3
<1>2. ASSUME NEW q \in Seq(FitEntry), NEW x \in FitEntry, q \in S
      PROVE  Append(q, x) \in S
  <2> DEFINE a == Append(q, x)
             t == WithoutDots(q)
             u == WithoutDots(a)
  <2>1. a \in Seq(FitEntry)
    OBVIOUS
  <2>2. /\ Folding(FitEntry, Seq(NamedEntry), << >>, ListedStep, q)
        /\ t = FoldOf(ListedStep, << >>, q)
    BY ListedFolds
  <2>3. FoldOf(ListedStep, << >>, q) \in Seq(NamedEntry)
    BY <2>2, FoldType
  <2>4. FoldGoesOn(ListedStep, << >>, q, x)
    BY <2>2, FoldAppend
  <2>11. /\ Folding(FitEntry, Seq(NamedEntry), << >>, ListedStep, a)
         /\ u = FoldOf(ListedStep, << >>, a)
    BY <2>1, ListedFolds
  <2>12. FoldOf(ListedStep, << >>, a) \in Seq(NamedEntry)
    BY <2>11, FoldType
  <2> HIDE DEF t, u
  <2>13. t \in Seq(NamedEntry) /\ u \in Seq(NamedEntry) /\ u = ListedStep[t, x]
    BY <2>2, <2>3, <2>4, <2>11, <2>12 DEF FoldGoesOn
  <2>5. ListedStep[t, x] = IF x.name > DotDot THEN Append(t, x) ELSE t
    BY <2>13 DEF ListedStep
  <2>6. NamedEntry \subseteq Entry /\ FitEntry \subseteq Entry
    BY DEF NamedEntry, FitEntry
  <2>7. q \in Seq(Entry) /\ a \in Seq(Entry) /\ t \in Seq(Entry) /\ u \in Seq(Entry)
    <3>1. q \in Seq(Entry)
      BY <2>6
    <3>2. x \in Entry
      BY <2>6
    <3>3. a \in Seq(Entry)
      BY <3>1, <3>2
    <3>4. t \in Seq(Entry) /\ u \in Seq(Entry)
      BY <2>6, <2>13, Zenon, SeqWider
    <3> QED  BY <3>1, <3>3, <3>4
  <2>8. ASSUME Distinct(a)
        PROVE  Distinct(q)
    <3>1. /\ Len(a) = Len(q) + 1 /\ Len(q) \in Nat
          /\ \A k \in 1 .. Len(q) : a[k] = q[k] /\ k \in 1 .. Len(a)
      OBVIOUS
    <3> QED  BY <2>8, <3>1 DEF Distinct
  <2>9. Distinct(a) => Undotted(a, u)
    BY <1>2, <2>13, <2>5, <2>6, <2>7, <2>8, UndottedGrows DEF t
  <2> QED  BY <2>1, <2>9 DEF u
<1>3. Seq(FitEntry) \subseteq S
  <2> HIDE DEF S
  <2> QED  BY <1>1, <1>2, ListByList
<1> QED  BY <1>3

\* What rmdir and cp read of a directory are the names that it has.
LEMMA ListedRight ==
  ASSUME Sound(fs), NEW i \in Inodes, Distinct(fs.node[i].entries)
  PROVE  Undotted(fs.node[i].entries, Listed(i))
<1> DEFINE s == fs.node[i].entries
<1>1. s \in Seq(Entry) /\ \A k \in 1 .. Len(s) : Fits(s[k])
  BY ListElements DEF Sound
<1>2. s \in Seq(FitEntry)
  BY <1>1 DEF FitEntry
<1> QED  BY <1>2, WithoutDotsUndotted DEF Listed

--------------------------------------------------------------------------------
(* An object that is freed before its name is taken out. *)

LEMMA FreedFirst ==
  ASSUME OneClusterDirectories, ~WriteFaults, NEW f, Plain(f),
         NEW h \in Inodes, NEW name, NEW i \in Inodes \ {Root}, Leads(f, h, name, i),
         \A m, j : ~Leads(f, i, m, j),
         NEW r \in RemoveEntry(TruncateAndFree(f, i), h, name)
  PROVE  /\ Sound(r.fs) /\ Tidy(r.fs) /\ Upright(r.fs) /\ Simple(r.fs)
         /\ Emptied(f, r.fs, h, name, i)
<1> DEFINE c == TruncateAndFree(f, i)
<1>1. /\ Sound(f) /\ Tidy(f) /\ Upright(f) /\ Simple(f) /\ f \in Table /\ Form(f)
      /\ Parents(f, NoInode) /\ Bare(f) /\ Linkless(f)
  BY DEF Plain, Simple, Sound, Upright
<1>2. Sound(c)
  BY <1>1, TruncatedAndFreed
<1>3. \A a \in Inodes : c.node[a] = IF a = i THEN FreeNode ELSE f.node[a]
  BY <1>1 DEF TruncateAndFree, FreeInode, Truncate, Table
<1>4. r \in RemoveEntry(c, h, name)
  OBVIOUS
<1> HIDE DEF c
<1>5. ~FreeNode.used /\ FreeNode.type = "regular" /\ FreeNode.entries = << >>
  BY DEF FreeNode
<1>6. h # i /\ c.node[h] = f.node[h]
  BY <1>3
<1>7. f.node[h].entries # << >>
  BY DEF Leads, Enters
<1>8. Ready(c, h)
  BY <1>1, <1>6, <1>7 DEF Ready, Bare, Form
<1>9. Simple(c)
  BY <1>1, <1>3, <1>5 DEF Simple, Linkless, Bare
<1>10. \A a \in Inodes : Distinct(c.node[a].entries)
  <2>1. Distinct(<< >>)
    BY DEF Distinct
  <2> QED  BY <1>1, <1>3, <1>5, <2>1 DEF Tidy
<1>11. /\ Holds(f, h, name) /\ name \in Components
       /\ name \notin {Dot, DotDot}
  BY <1>1, LeadsFound DEF Tidy, Leads, Enters
<1>12. Holds(c, h, name)
  BY <1>6, <1>11 DEF Holds
<1>13. /\ r.ok /\ Lost(c, r.fs, h, name)
       /\ SameUsed(c, r.fs) /\ SameTypes(c, r.fs) /\ Simple(r.fs)
       /\ Ready(r.fs, h)
       /\ \A a \in Inodes : /\ Distinct(r.fs.node[a].entries) /\ DotsKept(c, r.fs, a)
                            /\ a # h => r.fs.node[a] = c.node[a]
  <2>1. name \in Components \ {Dot, DotDot}
    BY <1>11
  <2> QED  BY <1>2, <1>4, <1>8, <1>9, <1>10, <1>12, <2>1, EntryRemoved
<1>14. Sound(r.fs)
  BY <1>2, <1>4, Removed
<1>15. \A a \in Inodes : \A m, j : Leads(c, a, m, j) <=> Leads(f, a, m, j)
  <2>1. ASSUME NEW m, NEW j
        PROVE  ~Leads(c, i, m, j)
    BY <1>3, <1>5 DEF Leads, Enters
  <2>2. \A a \in Inodes : a # i => c.node[a] = f.node[a]
    BY <1>3
  <2> QED  BY <2>1, <2>2 DEF Leads
<1>16. OthersStay(f, r.fs, i) /\ ~r.fs.node[i].used
  BY <1>3, <1>5, <1>13 DEF OthersStay, SameUsed, SameTypes
<1>17. \A a \in Inodes : \A m, j :
          Leads(r.fs, a, m, j) <=> Leads(f, a, m, j) /\ ~(a = h /\ m = name)
  BY <1>13, <1>15 DEF Lost
<1>18. Emptied(f, r.fs, h, name, i)
  BY <1>16, <1>17 DEF Emptied
<1>19. ASSUME NEW a \in Inodes, NEW m, NEW j, Leads(r.fs, a, m, j)
       PROVE  Leads(f, a, m, j) /\ j \in Inodes /\ j # i /\ r.fs.node[j].used
  <2>1. Leads(f, a, m, j) /\ ~(a = h /\ m = name)
    BY <1>17, <1>19
  <2>2. j # i
    BY <1>1, <2>1 DEF Tidy
  <2>3. j \in Inodes /\ f.node[j].used
    BY <1>1, <2>1, LeadsFound DEF Tidy
  <2> QED  BY <1>16, <2>1, <2>2, <2>3 DEF OthersStay
<1>20. Tidy(r.fs)
  BY <1>1, <1>13, <1>19, TidyFewer
<1>21. Form(r.fs)
  <2>1. ASSUME NEW a \in Inodes, r.fs.node[a].type # "directory"
        PROVE  r.fs.node[a].entries = << >>
    BY <1>1, <1>3, <1>5, <1>13, <2>1 DEF Form, Ready
  <2>2. ASSUME NEW a \in Inodes, r.fs.node[a].entries # << >>
        PROVE  r.fs.node[a].clusters >= 1
    BY <1>1, <1>3, <1>5, <1>13, <2>2 DEF Form, Ready
  <2>3. Dotted(r.fs, Root, Root)
    <3>1. c.node[Root] = f.node[Root]
      BY <1>3, RootIsInode
    <3>2. Dotted(c, Root, Root)
      BY <1>1, <3>1 DEF Form, Dotted
    <3>3. DotsKept(c, r.fs, Root)
      BY <1>13, RootIsInode
    <3> QED  BY <3>2, <3>3 DEF Dotted, DotsKept
  <2> QED  BY <2>1, <2>2, <2>3 DEF Form
<1>22. Parents(r.fs, NoInode)
  <2>1. ASSUME NEW a \in Inodes, NEW j \in Inodes, NEW m, Leads(r.fs, a, m, j),
               r.fs.node[j].type = "directory"
        PROVE  Leads(f, a, m, j) /\ f.node[j].type = "directory" /\ DotsKept(f, r.fs, j)
    <3>1. Leads(f, a, m, j) /\ j # i
      BY <1>19, <2>1
    <3>2. c.node[j] = f.node[j]
      BY <1>3, <3>1
    <3>3. DotsKept(c, r.fs, j) /\ r.fs.node[j].type = c.node[j].type
      BY <1>13 DEF SameTypes
    <3> QED  BY <2>1, <3>1, <3>2, <3>3 DEF DotsKept
  <2> QED  BY <1>1, <2>1, ParentsKept
<1> QED  BY <1>13, <1>14, <1>18, <1>20, <1>21, <1>22 DEF Upright

LEMMA ParentResolved ==
  ASSUME NEW f, NEW path \in Branch
  PROVE  ParentOf(f, path) = ResolvePath(f, Front(path))
<1>1. CASE Len(path) = 1
  <2>1. path \in Seq(Names) /\ path # << >>
    BY DEF Branch
  <2>2. Front(path) \in Seq(Names) /\ Len(Front(path)) = 0
    BY <1>1, <2>1, PathSplit
  <2>3. Front(path) = << >>
    BY <2>2
  <2> QED  BY <1>1, <2>3, RootResolved DEF ParentOf
<1>2. CASE Len(path) # 1
  BY <1>2 DEF ParentOf
<1> QED  BY <1>1, <1>2

\* An inode with nothing in it is on no path but its own.
LEMMA PathPassed ==
  ASSUME NEW f, Clear(f), NEW i \in Inodes \ {Root}, \A m, j : ~Leads(f, i, m, j),
         NEW path \in Seq(Names), path # << >>, ResolvePath(f, path) # NoInode
  PROVE  ResolvePath(f, Front(path)) \in Inodes \ {i}
<1>1. /\ ResolvePath(f, Front(path)) \in Inodes
      /\ Leads(f, ResolvePath(f, Front(path)), Last(path), ResolvePath(f, path))
  BY LastLeads DEF Clear
<1> QED  BY <1>1

\* What is taken out of the tree is on no path to something else.
LEMMA PathKept ==
  ASSUME NEW f, Clear(f), NEW g, Clear(g), NEW h, NEW n, NEW i, Emptied(f, g, h, n, i),
         NEW path \in Seq(Names), ResolvePath(f, path) \notin {NoInode, i}
  PROVE  ResolvePath(g, path) = ResolvePath(f, path)
<1> DEFINE S == {q \in Seq(Names) : ResolvePath(f, q) \notin {NoInode, i} =>
                                       ResolvePath(g, q) = ResolvePath(f, q)}
<1>1. << >> \in S
  BY RootResolved
<1>2. ASSUME NEW q \in Seq(Names), NEW x \in Names, q \in S
      PROVE  Append(q, x) \in S
  <2> DEFINE a == Append(q, x)
             u == ResolvePath(f, q)
             v == ResolvePath(f, a)
  <2>1. a \in Seq(Names) /\ a # << >> /\ Front(a) = q /\ Last(a) = x
    BY AppendSplit
  <2> HIDE DEF a
  <2>2. SUFFICES ASSUME v \notin {NoInode, i} PROVE ResolvePath(g, a) = v
    BY <2>1 DEF a
  <2>3. u \in Inodes /\ Leads(f, u, x, v)
    BY <2>1, <2>2, LastLeads DEF Clear
  <2>4. u # NoInode /\ u # i
    BY <2>3, RootIsInode DEF Emptied
  <2>5. ResolvePath(g, q) = u
    BY <1>2, <2>4
  <2>6. ~(u = h /\ x = n)
    <3>1. ASSUME u = h, x = n
          PROVE  FALSE
      <4>1. FindEntry(f, u, x) = v /\ FindEntry(f, u, x) = i
        <5>1. Leads(f, u, x, i) /\ Distinct(f.node[u].entries) /\ Sound(f)
          BY <2>3, <3>1 DEF Emptied, Clear, Tidy
        <5> QED  BY <2>3, <5>1, LeadsFound
      <4> QED  BY <2>2, <4>1
    <3> QED  BY <3>1
  <2>7. Leads(g, u, x, v)
    BY <2>3, <2>6 DEF Emptied
  <2>8. ResolvePath(g, Append(q, x)) = v
    BY <2>3, <2>5, <2>7, NameLeadsOn DEF Clear
  <2> QED  BY <2>8 DEF a
<1>3. Seq(Names) \subseteq S
  <2> HIDE DEF S
  <2> QED  BY <1>1, <1>2, PathByPath
<1> QED  BY <1>3

\* All paths lead where they led when an inode with nothing in it is cleared.
LEMMA PathCleared ==
  ASSUME NEW f, Sound(f), Linkless(f), NEW c, Sound(c), Linkless(c), NEW i \in Inodes,
         \A m, j : ~Leads(f, i, m, j), c.node[i].entries = << >>,
         \A a \in Inodes : a # i => c.node[a] = f.node[a],
         NEW path \in Seq(Names)
  PROVE  ResolvePath(c, path) = ResolvePath(f, path)
<1> DEFINE S == {q \in Seq(Names) : ResolvePath(c, q) = ResolvePath(f, q)}
<1>1. << >> \in S
  BY RootResolved
<1>2. ASSUME NEW q \in Seq(Names), NEW x \in Names, q \in S
      PROVE  Append(q, x) \in S
  <2> DEFINE a == Append(q, x)
             u == ResolvePath(f, q)
  <2>1. a \in Seq(Names) /\ a # << >> /\ Front(a) = q /\ Last(a) = x
    BY AppendSplit
  <2> HIDE DEF a
  <2>2. /\ ResolvePath(f, a) = IF u = NoInode THEN NoInode ELSE FindEntry(f, u, x)
        /\ ResolvePath(c, a) = IF u = NoInode THEN NoInode ELSE FindEntry(c, u, x)
    BY <1>2, <2>1, PlainResolved
  <2>3. u \in Inodes \cup {NoInode}
    <3>1. q \in Seq(Components)
      BY DEF Components
    <3> QED  BY <3>1, Resolved
  <2>4. ASSUME u \in Inodes
        PROVE  FindEntry(c, u, x) = FindEntry(f, u, x)
    <3>1. CASE u # i
      <4>1. c.node[u] = f.node[u]
        BY <2>4, <3>1
      <4> DEFINE At(d, e) ==
                   IF d # NoInode /\ Position(e, x) # {}
                   THEN e[CHOOSE k \in Position(e, x) :
                             \A l \in Position(e, x) : k <= l].inode
                   ELSE NoInode
      <4>2. /\ FindEntry(c, u, x) = At(u, c.node[u].entries)
            /\ FindEntry(f, u, x) = At(u, f.node[u].entries)
        BY Zenon DEF FindEntry, Holds
      <4> HIDE DEF At, u
      <4> QED  BY <4>1, <4>2
    <3>2. CASE u = i
      <4>1. x \notin {Dot, DotDot}
        BY DirectoriesAssumption DEF Dot, DotDot
      <4>2. ~Holds(f, i, x)
        BY <4>1, FoundLeads
      <4>3. ~Holds(c, i, x)
        BY DEF Holds, Position
      <4> QED  BY <3>2, <4>2, <4>3 DEF FindEntry
    <3> QED  BY <3>1, <3>2
  <2>5. ResolvePath(c, a) = ResolvePath(f, a)
    BY <2>2, <2>3, <2>4
  <2> QED  BY <2>1, <2>5 DEF a
<1>3. Seq(Names) \subseteq S
  <2> HIDE DEF S
  <2> QED  BY <1>1, <1>2, PathByPath
<1> QED  BY <1>3

\* No inodes are named by each other only.
LEMMA NoRing ==
  ASSUME NEW f, Sound(f), Tidy(f), AllReached(f), NEW S \in SUBSET (Inodes \ {Root}),
         \A j \in S : \E a \in S : \E n : Leads(f, a, n, j)
  PROVE  S = {}
<1> DEFINE T == Inodes \ S
<1>1. T \in SUBSET Inodes /\ Root \in T
  BY RootIsInode
<1>2. ASSUME NEW h \in T, NEW n, NEW j, Leads(f, h, n, j)
      PROVE  j \in T
  <2>1. j \in Inodes
    BY <1>2, LeadsFound DEF Tidy
  <2>2. ASSUME j \in S
        PROVE  FALSE
    <3>1. PICK a \in S : \E m : Leads(f, a, m, j)
      BY <2>2
    <3>2. a = h
      BY <1>2, <3>1 DEF Tidy
    <3> QED  BY <3>2
  <2> QED  BY <2>1, <2>2
<1>3. ASSUME NEW j \in S
      PROVE  FALSE
  <2>1. f.node[j].used
    BY <1>3 DEF Tidy
  <2>2. ClosedNames(f, T)
    BY <1>2 DEF ClosedNames
  <2> HIDE DEF T
  <2>3. j \in T
    BY <1>1, <2>1, <2>2 DEF AllReached
  <2> QED  BY <2>3 DEF T
<1> QED  BY <1>3

--------------------------------------------------------------------------------
(* The list of rmdir: what is in a directory, then the directory. *)

\* The directory that a task takes a name out of.
HomeOf(f, t) == IF t.path = << >> THEN t.dir ELSE ResolvePath(f, Front(t.path))

Called(f, t) ==
  /\ t.do \in {"drop", "free"} /\ t.inode \in Inodes \ {Root}
  /\ HomeOf(f, t) \in Inodes /\ Leads(f, HomeOf(f, t), t.name, t.inode)
  /\ t.path # << >> => t.path \in Branch /\ ResolvePath(f, t.path) = t.inode

\* Of all that is left in a directory which is to be freed there are tasks
\* before; a directory that a name is taken out of is freed later, but for that
\* of the last task.
Dropping(f, w) ==
  /\ \A k \in 1 .. Len(w) :
        /\ Called(f, w[k])
        /\ w[k].do = "free" =>
              \A m, j : Leads(f, w[k].inode, m, j) =>
                           \E l \in 1 .. Len(w) : l < k /\ w[l].inode = j
        /\ w[k].path = << >> =>
              \E l \in 1 .. Len(w) : k < l /\ w[l].inode = w[k].dir
        /\ w[k].path # << >> => k = Len(w)
  /\ \A k, l \in 1 .. Len(w) : w[k].inode = w[l].inode => k = l

\* No task is about something in the directory of the first.
LEMMA NotBelow ==
  ASSUME NEW f, Sound(f), Tidy(f), AllReached(f), NEW T, NEW w \in Seq(T),
         Dropping(f, w), NEW k \in 1 .. Len(w)
  PROVE  \A n : ~Leads(f, w[1].inode, n, w[k].inode)
<1> SUFFICES ASSUME NEW n, Leads(f, w[1].inode, n, w[k].inode) PROVE FALSE
  OBVIOUS
<1>1. Len(w) \in Nat /\ 1 \in 1 .. Len(w)
  OBVIOUS
<1>2. w[1].inode \in Inodes /\ Called(f, w[k])
  BY <1>1 DEF Dropping, Called
<1>3. HomeOf(f, w[k]) = w[1].inode
  BY <1>2 DEF Called, Tidy
<1>4. CASE w[k].path = << >>
  <2>1. PICK l \in 1 .. Len(w) : k < l /\ w[l].inode = w[k].dir
    BY <1>4 DEF Dropping
  <2>2. w[l].inode = w[1].inode
    BY <1>3, <1>4, <2>1 DEF HomeOf
  <2>3. l = 1
    BY <1>1, <2>1, <2>2 DEF Dropping
  <2> QED  BY <2>1, <2>3
<1>5. CASE w[k].path # << >>
  <2> DEFINE S == {w[l].inode : l \in 1 .. Len(w)}
  <2>1. S \in SUBSET (Inodes \ {Root})
    BY DEF Dropping, Called
  <2>2. ASSUME NEW l \in 1 .. Len(w)
        PROVE  \E a \in S : \E m : Leads(f, a, m, w[l].inode)
    <3>1. CASE w[l].path = << >>
      <4>1. PICK b \in 1 .. Len(w) : w[b].inode = w[l].dir
        BY <3>1 DEF Dropping
      <4>2. Leads(f, w[l].dir, w[l].name, w[l].inode)
        BY <3>1 DEF Dropping, Called, HomeOf
      <4> QED  BY <4>1, <4>2
    <3>2. CASE w[l].path # << >>
      <4>1. l = k
        BY <1>5, <3>2 DEF Dropping
      <4> QED  BY <1>1, <4>1
    <3> QED  BY <3>1, <3>2
  <2>3. \A j \in S : \E a \in S : \E m : Leads(f, a, m, j)
    BY <2>2
  <2>4. w[1].inode \in S
    BY <1>1
  <2> HIDE DEF S
  <2>5. S = {}
    BY <2>1, <2>3, NoRing
  <2> QED  BY <2>4, <2>5
<1> QED  BY <1>4, <1>5

\* The first task becomes one for each name in it, and itself at the end.
Unfolded(f, w, v, m) ==
  /\ m \in Nat /\ Len(v) = m + Len(w)
  /\ \A p \in 1 .. m :
        /\ v[p].do = "drop" /\ v[p].dir = w[1].inode /\ v[p].path = << >>
        /\ Leads(f, w[1].inode, v[p].name, v[p].inode)
  /\ \A p, q \in 1 .. m : v[p].name = v[q].name => p = q
  /\ \A n, j : Leads(f, w[1].inode, n, j) => \E p \in 1 .. m : v[p].inode = j
  /\ \A k \in 1 .. Len(w) :
        /\ v[m + k].dir = w[k].dir /\ v[m + k].name = w[k].name
        /\ v[m + k].inode = w[k].inode /\ v[m + k].path = w[k].path
        /\ v[m + k].do = IF k = 1 THEN "free" ELSE w[k].do

LEMMA DropUnfolds ==
  ASSUME NEW f, Sound(f), Tidy(f), AllReached(f), NEW T, NEW w \in Seq(T), w # << >>,
         Dropping(f, w), NEW v, NEW m, Unfolded(f, w, v, m)
  PROVE  Dropping(f, v)
<1> DEFINE i == w[1].inode
<1>1. /\ Len(w) \in Nat /\ 1 \in 1 .. Len(w) /\ m \in Nat /\ Len(v) = m + Len(w)
      /\ m + 1 \in 1 .. Len(v) /\ m + Len(w) = Len(v)
  BY DEF Unfolded
<1>2. i \in Inodes \ {Root}
  BY <1>1 DEF Dropping, Called
<1>3. ASSUME NEW p \in 1 .. Len(v)
      PROVE  \/ p \in 1 .. m
             \/ \E k \in 1 .. Len(w) : p = m + k
  <2>1. p > m => p - m \in 1 .. Len(w) /\ p = m + (p - m)
    BY <1>1
  <2> QED  BY <1>1, <2>1
<1>4. ASSUME NEW k \in 1 .. Len(w)
      PROVE  m + k \in 1 .. Len(v) /\ ~(m + k \in 1 .. m)
  BY <1>1
<1>5. v[m + 1].inode = i
  BY <1>1 DEF Unfolded
<1>6. ASSUME NEW p \in 1 .. m
      PROVE  /\ p \in 1 .. Len(v) /\ p < m + 1 /\ p # Len(v)
             /\ v[p].dir = i /\ v[p].path = << >> /\ v[p].do = "drop"
             /\ v[p].inode \in Inodes \ {Root}
             /\ Leads(f, i, v[p].name, v[p].inode)
  <2>1. /\ v[p].dir = i /\ v[p].path = << >> /\ v[p].do = "drop"
        /\ Leads(f, i, v[p].name, v[p].inode)
    BY DEF Unfolded
  <2>2. v[p].inode \in Inodes \ {Root}
    BY <1>2, <2>1, LeadsPlace
  <2> QED  BY <1>1, <2>1, <2>2
<1>7. ASSUME NEW k \in 1 .. Len(w)
      PROVE  /\ v[m + k].dir = w[k].dir /\ v[m + k].name = w[k].name
             /\ v[m + k].inode = w[k].inode /\ v[m + k].path = w[k].path
             /\ v[m + k].do = IF k = 1 THEN "free" ELSE w[k].do
  BY DEF Unfolded
<1>8. ASSUME NEW p \in 1 .. m
      PROVE  /\ Called(f, v[p]) /\ v[p].do # "free" /\ v[p].path = << >>
             /\ \E l \in 1 .. Len(v) : p < l /\ v[l].inode = v[p].dir
  BY <1>1, <1>2, <1>5, <1>6 DEF Called, HomeOf
<1>9. ASSUME NEW k \in 1 .. Len(w)
      PROVE  /\ Called(f, v[m + k])
             /\ v[m + k].path = << >> =>
                   \E l \in 1 .. Len(v) : m + k < l /\ v[l].inode = v[m + k].dir
             /\ v[m + k].path # << >> => m + k = Len(v)
  <2>1. Called(f, v[m + k])
    <3>1. Called(f, w[k])
      BY DEF Dropping
    <3> QED  BY <1>7, <3>1 DEF Called, HomeOf
  <2>2. ASSUME w[k].path = << >>
        PROVE  \E l \in 1 .. Len(v) : m + k < l /\ v[l].inode = w[k].dir
    <3>1. PICK l \in 1 .. Len(w) : k < l /\ w[l].inode = w[k].dir
      BY <2>2 DEF Dropping
    <3>2. m + l \in 1 .. Len(v) /\ m + k < m + l
      BY <1>1, <3>1
    <3>3. v[m + l].inode = w[k].dir
      BY <1>7, <3>1
    <3> QED  BY <3>2, <3>3
  <2>3. w[k].path # << >> => m + k = Len(v)
    BY <1>1 DEF Dropping
  <2> QED  BY <1>7, <2>1, <2>2, <2>3
<1>10. ASSUME NEW k \in 1 .. Len(w), v[m + k].do = "free",
              NEW n, NEW j, Leads(f, w[k].inode, n, j)
       PROVE  \E l \in 1 .. Len(v) : l < m + k /\ v[l].inode = j
  <2>1. CASE k = 1
    <3>1. PICK p \in 1 .. m : v[p].inode = j
      BY <1>10, <2>1 DEF Unfolded
    <3> QED  BY <1>6, <2>1, <3>1
  <2>2. CASE k # 1
    <3>1. w[k].do = "free"
      BY <1>7, <1>10, <2>2
    <3>5. \A o, b : Leads(f, w[k].inode, o, b) =>
                       \E l \in 1 .. Len(w) : l < k /\ w[l].inode = b
      BY <3>1 DEF Dropping
    <3>6. Leads(f, w[k].inode, n, j)
      BY <1>10
    <3>2. PICK l \in 1 .. Len(w) : l < k /\ w[l].inode = j
      BY <3>5, <3>6, Zenon
    <3>3. m + l \in 1 .. Len(v) /\ m + l < m + k
      BY <1>1, <3>2
    <3>4. v[m + l].inode = j
      BY <1>7, <3>2
    <3> QED  BY <3>3, <3>4
  <2> QED  BY <2>1, <2>2
<1>11. ASSUME NEW p \in 1 .. m, NEW k \in 1 .. Len(w)
       PROVE  v[p].inode # v[m + k].inode
  BY <1>6, <1>7, NotBelow
<1>12. ASSUME NEW p \in 1 .. m, NEW q \in 1 .. m, v[p].inode = v[q].inode
       PROVE  p = q
  <2>1. v[p].name = v[q].name
    BY <1>2, <1>6, <1>12 DEF Tidy
  <2> QED  BY <2>1 DEF Unfolded
<1>13. ASSUME NEW k \in 1 .. Len(w), NEW l \in 1 .. Len(w),
              v[m + k].inode = v[m + l].inode
       PROVE  m + k = m + l
  BY <1>7, <1>13 DEF Dropping
<1> HIDE DEF i
<1>14. \A p, q \in 1 .. Len(v) : v[p].inode = v[q].inode => p = q
  BY <1>3, <1>11, <1>12, <1>13
<1>15. ASSUME NEW p \in 1 .. Len(v)
       PROVE  /\ Called(f, v[p])
              /\ v[p].do = "free" =>
                    \A n, j : Leads(f, v[p].inode, n, j) =>
                                 \E l \in 1 .. Len(v) : l < p /\ v[l].inode = j
              /\ v[p].path = << >> =>
                    \E l \in 1 .. Len(v) : p < l /\ v[l].inode = v[p].dir
              /\ v[p].path # << >> => p = Len(v)
  <2>1. CASE p \in 1 .. m
    BY <1>8, <2>1
  <2>2. ASSUME NEW k \in 1 .. Len(w), p = m + k
        PROVE  \A n, j : v[p].do = "free" /\ Leads(f, v[p].inode, n, j) =>
                            \E l \in 1 .. Len(v) : l < p /\ v[l].inode = j
    BY <1>7, <1>10, <2>2
  <2> QED  BY <1>3, <1>9, <2>1, <2>2
<1> QED  BY <1>14, <1>15 DEF Dropping

\* The first task is done: the others find what they found.
LEMMA DropGoesOn ==
  ASSUME NEW f, Clear(f), NEW g, Clear(g), NEW T, NEW w \in Seq(T), w # << >>,
         Dropping(f, w), NEW h, NEW n, Emptied(f, g, h, n, w[1].inode)
  PROVE  Dropping(g, Tail(w))
<1> DEFINE v == Tail(w)
           i == w[1].inode
<1>1. /\ Len(v) = Len(w) - 1 /\ Len(w) \in Nat
      /\ \A k \in 1 .. Len(v) : k + 1 \in 2 .. Len(w) /\ v[k] = w[k + 1]
  BY TailPlaces
<1>2. 1 \in 1 .. Len(w) /\ \A k \in 2 .. Len(w) : k \in 1 .. Len(w)
  BY <1>1
<1> HIDE DEF v
<1>3. /\ i \in Inodes \ {Root} /\ h \in Inodes /\ Leads(f, h, n, i)
      /\ \A m, j : ~Leads(f, i, m, j)
      /\ \A a \in Inodes : \A m, j :
            Leads(g, a, m, j) <=> Leads(f, a, m, j) /\ ~(a = h /\ m = n)
  BY DEF Emptied
<1>4. Sound(f) /\ Tidy(f) /\ Linkless(f)
  BY DEF Clear
<1>5. ASSUME NEW k \in 2 .. Len(w)
      PROVE  w[k].inode # i
  BY <1>2, <1>5 DEF Dropping
<1>6. \A a \in Inodes : \A m, j : Leads(f, a, m, j) /\ j # i => Leads(g, a, m, j)
  <2>1. ASSUME NEW a \in Inodes, NEW m, NEW j, Leads(f, a, m, j), a = h, m = n
        PROVE  j = i
    <3>1. FindEntry(f, a, m) = j
      BY <1>4, <2>1, LeadsFound DEF Tidy
    <3>2. Leads(f, a, m, i)
      BY <1>3, <2>1
    <3>3. FindEntry(f, a, m) = i
      BY <1>4, <3>2, LeadsFound DEF Tidy
    <3> QED  BY <3>1, <3>3
  <2> QED  BY <1>3, <2>1
<1> HIDE DEF i
<1>7. ASSUME NEW k \in 2 .. Len(w)
      PROVE  Called(g, w[k])
  <2> DEFINE t == w[k]
  <2>1. Called(f, t) /\ t.inode # i
    BY <1>2, <1>5 DEF Dropping
  <2>2. ASSUME t.path # << >>
        PROVE  /\ ResolvePath(g, Front(t.path)) = ResolvePath(f, Front(t.path))
               /\ ResolvePath(g, t.path) = t.inode
    <3>1. t.path \in Branch /\ ResolvePath(f, t.path) = t.inode /\ t.inode \in Inodes
      BY <2>1, <2>2 DEF Called
    <3>2. t.path \in Seq(Names) /\ t.path # << >> /\ Front(t.path) \in Seq(Names)
      BY <3>1, BranchParts
    <3>3. ResolvePath(f, t.path) \notin {NoInode, i}
      BY <2>1, <3>1, RootIsInode
    <3>4. ResolvePath(f, Front(t.path)) \in Inodes \ {i}
      BY <1>3, <3>2, <3>3, PathPassed
    <3>5. ResolvePath(f, Front(t.path)) \notin {NoInode, i}
      BY <3>4, RootIsInode
    <3>6. Emptied(f, g, h, n, i)
      BY DEF i
    <3>7. ResolvePath(g, t.path) = ResolvePath(f, t.path)
      BY <3>2, <3>3, <3>6, PathKept
    <3>8. ResolvePath(g, Front(t.path)) = ResolvePath(f, Front(t.path))
      BY <3>2, <3>5, <3>6, PathKept
    <3> QED  BY <3>1, <3>7, <3>8
  <2> HIDE DEF t
  <2>3. HomeOf(g, t) = HomeOf(f, t)
    BY <2>2 DEF HomeOf
  <2>4. Leads(g, HomeOf(f, t), t.name, t.inode)
    BY <1>6, <2>1 DEF Called
  <2>5. Called(g, t)
    BY <2>1, <2>2, <2>3, <2>4 DEF Called
  <2> QED  BY <2>5 DEF t
<1>8. ASSUME NEW k \in 2 .. Len(w), w[k].do = "free",
             NEW m, NEW j, Leads(g, w[k].inode, m, j)
      PROVE  \E l \in 2 .. Len(w) : l < k /\ w[l].inode = j
  <2>1. w[k].inode \in Inodes
    BY <1>2 DEF Dropping, Called
  <2>2. Leads(f, w[k].inode, m, j) /\ ~(w[k].inode = h /\ m = n)
    BY <1>3, <1>8, <2>1
  <2>3. PICK l \in 1 .. Len(w) : l < k /\ w[l].inode = j
    BY <1>2, <1>8, <2>2 DEF Dropping
  <2>4. j # i
    BY <1>3, <1>4, <2>1, <2>2 DEF Tidy
  <2>5. l # 1
    BY <2>3, <2>4 DEF i
  <2> QED  BY <1>1, <2>3, <2>5
<1>9. ASSUME NEW k \in 2 .. Len(w), w[k].path = << >>
      PROVE  \E l \in 2 .. Len(w) : k < l /\ w[l].inode = w[k].dir
  <2>1. PICK l \in 1 .. Len(w) : k < l /\ w[l].inode = w[k].dir
    BY <1>2, <1>9 DEF Dropping
  <2>2. l \in 2 .. Len(w)
    BY <1>1, <2>1
  <2> QED  BY <2>1, <2>2
<1>10. ASSUME NEW l \in 2 .. Len(w)
       PROVE  l - 1 \in 1 .. Len(v) /\ v[l - 1] = w[l]
  <2>1. l - 1 \in 1 .. Len(v) /\ (l - 1) + 1 = l
    BY <1>1
  <2> QED  BY <1>1, <2>1
<1>11. ASSUME NEW k \in 1 .. Len(v)
       PROVE  /\ Called(g, v[k])
              /\ v[k].do = "free" =>
                    \A m, j : Leads(g, v[k].inode, m, j) =>
                                 \E l \in 1 .. Len(v) : l < k /\ v[l].inode = j
              /\ v[k].path = << >> =>
                    \E l \in 1 .. Len(v) : k < l /\ v[l].inode = v[k].dir
              /\ v[k].path # << >> => k = Len(v)
  <2>1. k + 1 \in 2 .. Len(w) /\ v[k] = w[k + 1]
    BY <1>1
  <2>2. Called(g, v[k])
    BY <1>7, <2>1
  <2>3. ASSUME v[k].do = "free", NEW m, NEW j, Leads(g, v[k].inode, m, j)
        PROVE  \E l \in 1 .. Len(v) : l < k /\ v[l].inode = j
    <3>1. PICK l \in 2 .. Len(w) : l < k + 1 /\ w[l].inode = j
      BY <1>8, <2>1, <2>3
    <3>2. l - 1 \in 1 .. Len(v) /\ l - 1 < k /\ v[l - 1].inode = j
      BY <1>10, <3>1
    <3> QED  BY <3>2
  <2>4. ASSUME v[k].path = << >>
        PROVE  \E l \in 1 .. Len(v) : k < l /\ v[l].inode = v[k].dir
    <3>1. PICK l \in 2 .. Len(w) : k + 1 < l /\ w[l].inode = v[k].dir
      BY <1>9, <2>1, <2>4
    <3>2. l - 1 \in 1 .. Len(v) /\ k < l - 1 /\ v[l - 1].inode = v[k].dir
      BY <1>10, <3>1
    <3> QED  BY <3>2
  <2>5. ASSUME v[k].path # << >>
        PROVE  k = Len(v)
    <3>1. k + 1 = Len(w)
      BY <1>2, <2>1, <2>5 DEF Dropping
    <3> QED  BY <1>1, <3>1
  <2> QED  BY <2>2, <2>3, <2>4, <2>5
<1>12. ASSUME NEW k \in 1 .. Len(v), NEW l \in 1 .. Len(v), v[k].inode = v[l].inode
       PROVE  k = l
  <2>1. /\ k + 1 \in 2 .. Len(w) /\ v[k] = w[k + 1]
        /\ l + 1 \in 2 .. Len(w) /\ v[l] = w[l + 1]
    BY <1>1
  <2>2. k + 1 = l + 1
    BY <1>2, <1>12, <2>1 DEF Dropping
  <2> QED  BY <2>2
<1> QED  BY <1>11, <1>12 DEF Dropping, v

LEMMA SameIntervals ==
  ASSUME NEW a \in Nat, NEW b \in Nat, 1 .. a = 1 .. b
  PROVE  a = b
<1>1. a # 0 => a \in 1 .. b
  OBVIOUS
<1>2. b # 0 => b \in 1 .. a
  OBVIOUS
<1> QED  BY <1>1, <1>2

LEMMA Joined ==
  ASSUME NEW S, NEW y \in Seq(S), NEW x \in Seq(S)
  PROVE  /\ Len(y \o x) = Len(y) + Len(x) /\ Len(x) \in Nat
         /\ \A p \in 1 .. Len(y) : (y \o x)[p] = y[p]
         /\ \A k \in 1 .. Len(x) : (y \o x)[Len(y) + k] = x[k]
OBVIOUS

\* The tasks of a directory are unfolded as they are listed.
LEMMA DropsUnfold ==
  ASSUME Sound(fs), Tidy(fs), NEW w \in Seq(Task), w # << >>, w[1] \in DropTask,
         "rmdir" \in Commands,
         NEW v, v = Append(Drops(w[1].inode), [w[1] EXCEPT !.do = "free"]) \o Tail(w)
  PROVE  Unfolded(fs, w, v, Len(Listed(w[1].inode)))
<1> DEFINE task == w[1]
           i == task.inode
           free == [task EXCEPT !.do = "free"]
           s == Listed(i)
           m == Len(s)
           d == Drops(i)
           x == Tail(w)
<1>1. /\ i \in Inodes \ {Root} /\ free \in DropTask
      /\ free.do = "free" /\ free.dir = task.dir /\ free.name = task.name
      /\ free.inode = task.inode /\ free.path = task.path
  BY DEF DropTask
<1>2. /\ s \in Seq(NamedEntry) /\ d \in Seq(DropTask)
      /\ d = [k \in DOMAIN s |->
                [do |-> "drop", dir |-> i, name |-> s[k].name,
                 inode |-> s[k].inode, path |-> << >>]]
  BY <1>1, ListedThere, DropsTasks DEF Drops
<1>3. Undotted(fs.node[i].entries, s)
  BY <1>1, ListedRight DEF Tidy
<1>4. /\ x \in Seq(Task) /\ Len(x) = Len(w) - 1 /\ Len(w) \in Nat
      /\ \A k \in 1 .. Len(x) : k + 1 \in 2 .. Len(w) /\ x[k] = w[k + 1]
  BY TailPlaces
<1>5. d \in Seq(Task) /\ free \in Task
  <2>1. DropTasks = DropTask /\ DropTask \subseteq Task
    BY DEF DropTasks, Task
  <2>2. Seq(DropTask) \subseteq Seq(Task)
    BY <2>1, SeqWider
  <2> HIDE DEF d, free
  <2> QED  BY <1>1, <1>2, <2>1, <2>2
<1> HIDE DEF s, d, x, free
<1>6. /\ DOMAIN s = 1 .. m /\ m \in Nat /\ Len(d) = m
  <2>1. DOMAIN s = 1 .. Len(s) /\ Len(s) \in Nat
    BY <1>2
  <2>2. DOMAIN d = 1 .. Len(d) /\ Len(d) \in Nat /\ DOMAIN d = DOMAIN s
    BY <1>2
  <2>3. 1 .. Len(d) = 1 .. Len(s)
    BY <2>1, <2>2
  <2>4. Len(d) = Len(s)
    BY <2>1, <2>2, <2>3, SameIntervals
  <2> QED  BY <2>1, <2>4
<1> HIDE DEF m
<1>7. ASSUME NEW p \in 1 .. m
      PROVE  /\ d[p].do = "drop" /\ d[p].dir = i /\ d[p].path = << >>
             /\ d[p].name = s[p].name /\ d[p].inode = s[p].inode
  BY <1>2, <1>6
<1>8. /\ v = Append(d, free) \o x
  BY DEF d, free, x
<1>9. /\ Len(v) = m + 1 + Len(x)
      /\ \A p \in 1 .. m : v[p] = d[p]
      /\ v[m + 1] = free
      /\ \A k \in 1 .. Len(x) : v[m + 1 + k] = x[k]
  <2> DEFINE y == Append(d, free)
  <2>1. /\ y \in Seq(Task) /\ Len(y) = m + 1 /\ y[m + 1] = free
        /\ \A p \in 1 .. m : y[p] = d[p]
    BY <1>5, <1>6
  <2> HIDE DEF y
  <2>2. v = y \o x
    BY <1>8 DEF y
  <2>3. /\ Len(v) = Len(y) + Len(x) /\ Len(x) \in Nat
        /\ \A p \in 1 .. Len(y) : v[p] = y[p]
        /\ \A k \in 1 .. Len(x) : v[Len(y) + k] = x[k]
    <3>1. x \in Seq(Task) /\ y \in Seq(Task)
      BY <1>4, <2>1
    <3>2. /\ Len(y \o x) = Len(y) + Len(x) /\ Len(x) \in Nat
          /\ \A p \in 1 .. Len(y) : (y \o x)[p] = y[p]
          /\ \A k \in 1 .. Len(x) : (y \o x)[Len(y) + k] = x[k]
      BY <3>1, Joined
    <3> QED  BY <2>2, <3>2, Zenon
  <2>4. \A p \in 1 .. m : p \in 1 .. Len(y)
    BY <1>6, <2>1
  <2>5. m + 1 \in 1 .. Len(y)
    BY <1>6, <2>1
  <2> QED  BY <2>1, <2>3, <2>4, <2>5
<1>10. Len(v) = m + Len(w)
  BY <1>4, <1>6, <1>9
<1>11. ASSUME NEW k \in 1 .. Len(w)
       PROVE  v[m + k] = IF k = 1 THEN free ELSE w[k]
  <2>1. CASE k = 1
    BY <1>9, <2>1
  <2>2. CASE k # 1
    <3>1. k - 1 \in 1 .. Len(x) /\ m + 1 + (k - 1) = m + k /\ (k - 1) + 1 = k
      BY <1>4, <1>6, <2>2
    <3>2. v[m + 1 + (k - 1)] = x[k - 1] /\ x[k - 1] = w[(k - 1) + 1]
      BY <1>4, <1>9, <3>1
    <3> QED  BY <2>2, <3>1, <3>2
  <2> QED  BY <2>1, <2>2
<1>12. ASSUME NEW p \in 1 .. m
       PROVE  /\ v[p].do = "drop" /\ v[p].dir = i /\ v[p].path = << >>
              /\ Leads(fs, i, v[p].name, v[p].inode) /\ v[p].name = s[p].name
  <2>1. Leads(fs, i, s[p].name, s[p].inode)
    BY <1>3 DEF Undotted, Leads, m
  <2> QED  BY <1>7, <1>9, <2>1
<1>13. ASSUME NEW p \in 1 .. m, NEW q \in 1 .. m, v[p].name = v[q].name
       PROVE  p = q
  <2>1. s[p].name = s[q].name
    BY <1>12, <1>13
  <2> QED  BY <1>3, <2>1 DEF Undotted, Distinct, m
<1>14. ASSUME NEW n, NEW j, Leads(fs, i, n, j)
       PROVE  \E p \in 1 .. m : v[p].inode = j
  <2>1. PICK p \in 1 .. m : s[p].inode = j
    BY <1>3, <1>14 DEF Undotted, Leads, m
  <2> QED  BY <1>7, <1>9, <2>1
<1>15. ASSUME NEW k \in 1 .. Len(w)
       PROVE  /\ v[m + k].dir = w[k].dir /\ v[m + k].name = w[k].name
              /\ v[m + k].inode = w[k].inode /\ v[m + k].path = w[k].path
              /\ v[m + k].do = IF k = 1 THEN "free" ELSE w[k].do
  <2>1. CASE k = 1
    BY <1>1, <1>11, <2>1 DEF free
  <2>2. CASE k # 1
    BY <1>11, <2>2
  <2> QED  BY <2>1, <2>2
<1>16. Unfolded(fs, w, v, m)
  BY <1>6, <1>10, <1>12, <1>13, <1>14, <1>15 DEF Unfolded
<1> QED  BY <1>16 DEF m, s

\* A step of rmdir, with nothing open.
Removing ==
  /\ Orderly /\ CInv /\ Plain(fs) /\ Kept /\ work # << >> /\ Dropping(fs, work)
  /\ \A d \in Descriptors : opened[d] = NoInode

\* What such a step does to the names, and to the tasks that are left.
StepDropped ==
  /\ CallMade /\ Tidy(fs)' /\ Kept' /\ opened' = opened
  /\ \E g : fs' = g /\ Dropping(g, work')

LEMMA RemovingMeans ==
  ASSUME Removing
  PROVE  /\ OneClusterDirectories /\ ~WriteFaults /\ Clear(fs) /\ Undisturbed /\ IInv
         /\ Sound(fs) /\ Tidy(fs) /\ Upright(fs) /\ Simple(fs) /\ AllReached(fs)
         /\ Linkless(fs) /\ work \in Seq(Task) /\ work # << >> /\ Len(work) \in Nat
         /\ Head(work) = work[1] /\ 1 \in 1 .. Len(work)
         /\ Called(fs, work[1]) /\ work[1] \in DropTask /\ "rmdir" \in Commands
         /\ work[1].do = "free" => \A m, j : ~Leads(fs, work[1].inode, m, j)
<1>1. work \in Seq(Task) /\ work # << >> /\ Dropping(fs, work)
  BY DEF Removing, CInv
<1>2. Head(work) = work[1] /\ 1 \in 1 .. Len(work) /\ work[1] \in Task /\ Len(work) \in Nat
  BY <1>1
<1>3. Called(fs, work[1])
  BY <1>1, <1>2 DEF Dropping
<1>4. work[1] \in DropTask /\ "rmdir" \in Commands
  <2>1. work[1].do \in {"drop", "free"}
    BY <1>3 DEF Called
  <2> QED  BY <1>2, <2>1, TaskKinds
<1>5. ASSUME work[1].do = "free", NEW m, NEW j, Leads(fs, work[1].inode, m, j)
      PROVE  FALSE
  <2>1. PICK l \in 1 .. Len(work) : l < 1
    BY <1>1, <1>2, <1>5 DEF Dropping
  <2> QED  BY <1>2, <2>1
<1> QED
  BY <1>1, <1>2, <1>3, <1>4, <1>5
  DEF Removing, Orderly, Undisturbed, Plain, Clear, Simple, CInv

LEMMA OnlyDrops ==
  ASSUME Removing, Continue
  PROVE  Drop(Head(work))
<1>1. Head(work).do \in {"drop", "free"}
  BY RemovingMeans DEF Called
<1>2. /\ ~Make(Head(work)) /\ ~Write(Head(work)) /\ ~Copy(Head(work)) /\ ~List(Head(work))
      /\ ~Fill(Head(work)) /\ ~Link(Head(work)) /\ ~Report(Head(work)) /\ ~Move(Head(work))
  BY <1>1 DEF Make, Write, Copy, List, Fill, Link, Report, Move
<1> QED  BY <1>2 DEF Continue

\* Where the name of a task is taken from, once its object is freed.
LEMMA DroppedThere ==
  ASSUME Removing, \A m, j : ~Leads(fs, work[1].inode, m, j)
  PROVE  Dropped(work[1]) = RemoveEntry(TruncateAndFree(fs, work[1].inode),
                                        HomeOf(fs, work[1]), work[1].name)
<1> DEFINE t == work[1]
           i == t.inode
           c == TruncateAndFree(fs, i)
           dir == IF t.path = << >> THEN t.dir ELSE ParentOf(c, t.path)
<1>1. Sound(fs) /\ Linkless(fs) /\ Called(fs, t)
  BY RemovingMeans
<1>2. i \in Inodes \ {Root} /\ HomeOf(fs, t) \in Inodes
  BY <1>1 DEF Called
<1>3. Sound(c)
  BY <1>1, <1>2, TruncatedAndFreed
<1>4. \A a \in Inodes : c.node[a] = IF a = i THEN FreeNode ELSE fs.node[a]
  BY <1>1, <1>2 DEF Sound, TruncateAndFree, FreeInode, Truncate, Table
<1>5. /\ c.node[i].entries = << >> /\ Linkless(c)
      /\ \A a \in Inodes : a # i => c.node[a] = fs.node[a]
  BY <1>1, <1>2, <1>4 DEF FreeNode, Linkless
<1>6. Dropped(t) = IF dir = NoInode THEN {Failed(c)} ELSE RemoveEntry(c, dir, t.name)
  BY Zenon DEF Dropped
<1> HIDE DEF c
<1>7. dir = HomeOf(fs, t)
  <2>1. CASE t.path = << >>
    BY <2>1 DEF HomeOf
  <2>2. CASE t.path # << >>
    <3>1. t.path \in Branch
      BY <1>1, <2>2 DEF Called
    <3>2. Front(t.path) \in Seq(Names)
      BY <3>1, BranchParts
    <3>3. ParentOf(c, t.path) = ResolvePath(c, Front(t.path))
      BY <3>1, ParentResolved
    <3>4. ResolvePath(c, Front(t.path)) = ResolvePath(fs, Front(t.path))
      BY <1>1, <1>2, <1>3, <1>5, <3>2, PathCleared
    <3> QED  BY <2>2, <3>3, <3>4 DEF HomeOf
  <2> QED  BY <2>1, <2>2
<1> HIDE DEF dir, t, i
<1>8. dir # NoInode
  BY <1>2, <1>7, RootIsInode
<1>9. Dropped(t) = RemoveEntry(c, HomeOf(fs, t), t.name)
  BY <1>6, <1>7, <1>8
<1> QED  BY <1>9 DEF t, i, c

LEMMA UnfoldDrops ==
  ASSUME Removing, Drop(work[1]), work[1].do = "drop" /\ IsDirectory(work[1].inode)
  PROVE  StepDropped
<1> DEFINE v == Append(Drops(work[1].inode), [work[1] EXCEPT !.do = "free"]) \o Tail(work)
<1>1. /\ Sound(fs) /\ Tidy(fs) /\ AllReached(fs) /\ work \in Seq(Task) /\ work # << >>
      /\ work[1] \in DropTask /\ "rmdir" \in Commands /\ Dropping(fs, work)
      /\ IInv /\ Undisturbed /\ OneClusterDirectories /\ Kept /\ Simple(fs)
  BY RemovingMeans DEF Removing
<1>2. work' = v /\ Keep
  BY Zenon DEF Drop, Then
<1>3. Unfolded(fs, work, v, Len(Listed(work[1].inode)))
  BY <1>1, DropsUnfold
<1> HIDE DEF v
<1>4. Dropping(fs, v)
  BY <1>1, <1>3, DropUnfolds
<1>5. fs' = fs /\ opened' = opened /\ [Next]_vars
  BY <1>2 DEF Keep, vars
<1>6. CallMade
  <2>1. CallStep(fs, opened, fs, opened)
    BY SameItself DEF CallStep
  <2> QED  BY <1>1, <1>5, <2>1 DEF CallMade
<1>7. Tidy(fs)' /\ Kept'
  BY <1>1, <1>5, TidyNext, KeptNext
<1> QED  BY <1>2, <1>4, <1>5, <1>6, <1>7 DEF StepDropped

LEMMA DropTakes ==
  ASSUME Removing, Drop(work[1]), ~(work[1].do = "drop" /\ IsDirectory(work[1].inode))
  PROVE  StepDropped
<1> DEFINE t == work[1]
           i == t.inode
           h == HomeOf(fs, t)
<1>1. /\ OneClusterDirectories /\ ~WriteFaults /\ Clear(fs) /\ Plain(fs)
      /\ Sound(fs) /\ Tidy(fs) /\ Upright(fs) /\ Simple(fs)
      /\ work \in Seq(Task) /\ work # << >> /\ Dropping(fs, work)
      /\ Called(fs, t) /\ IInv /\ Kept
  BY RemovingMeans DEF Removing
<1>2. i \in Inodes \ {Root} /\ h \in Inodes /\ Leads(fs, h, t.name, i)
      /\ t.do \in {"drop", "free"}
  BY <1>1 DEF Called
<1>3. \A m, j : ~Leads(fs, i, m, j)
  <2>1. CASE t.do = "free"
    BY <2>1, RemovingMeans
  <2>2. CASE t.do = "drop"
    <3>1. fs.node[i].type # "directory"
      BY <1>2, <2>2, RootIsInode DEF IsDirectory
    <3> QED  BY <1>1, <1>2, <3>1, NothingIn
  <2> QED  BY <1>2, <2>1, <2>2
<1>4. (\E r \in Dropped(t) : fs' = r.fs) /\ Done /\ opened' = opened
  BY Zenon DEF Drop
<1>5. PICK r \in Dropped(t) : fs' = r.fs
  BY <1>4
<1>6. r \in RemoveEntry(TruncateAndFree(fs, i), h, t.name)
  BY <1>3, DroppedThere
<1>7. work' = Tail(work)
  <2>1. Tail(work) \in Seq(Task)
    BY <1>1, TailPlaces
  <2> QED  BY <1>4, <2>1 DEF Done, Then
<1> HIDE DEF h
<1>8. /\ Sound(r.fs) /\ Tidy(r.fs) /\ Upright(r.fs) /\ Simple(r.fs)
      /\ Emptied(fs, r.fs, h, t.name, i)
  BY <1>1, <1>2, <1>3, <1>6, FreedFirst
<1> DEFINE g == r.fs
<1> HIDE DEF g
<1>9. fs' = g /\ Clear(g) /\ Tidy(g) /\ Upright(g) /\ Simple(g) /\ Emptied(fs, g, h, t.name, i)
  BY <1>5, <1>8 DEF g, Clear, Simple
<1>10. \A d \in Descriptors : opened[d] # i
  BY <1>2, RootIsInode DEF Removing
<1>11. CallMade
  BY <1>4, <1>9, <1>10 DEF CallMade, CallStep
<1>12. Kept'
  <2>1. ~IsInodeOpen(i)
    BY <1>10 DEF IsInodeOpen
  <2>2. \A a \in Inodes : a # i /\ fs.node[a].used =>
           g.node[a].used /\ g.node[a].type = fs.node[a].type
    BY <1>9 DEF Emptied, OthersStay
  <2> QED  BY <1>1, <1>4, <1>9, <2>1, <2>2, KeptAfter
<1>13. Tidy(fs)'
  BY <1>9, TidyAfter
<1>14. Dropping(g, Tail(work))
  BY <1>1, <1>9, DropGoesOn
<1> QED  BY <1>4, <1>7, <1>9, <1>11, <1>12, <1>13, <1>14 DEF StepDropped

\* Each step of rmdir takes one name out, with all below it gone, or none.
LEMMA ContinueDrops ==
  ASSUME Removing, Continue
  PROVE  StepDropped
<1>1. Drop(work[1])
  BY OnlyDrops, RemovingMeans
<1> QED  BY <1>1, UnfoldDrops, DropTakes

\* rmdir removes an empty directory as one call does, and else has one task.
LEMMA RmdirBegins ==
  ASSUME Beginning, Prompt, NEW path \in CommandPaths, Rmdir(path)
  PROVE  \/ RemoveDirectory(path) /\ work' = work
         \/ Keep /\ Dropping(fs, work')
<1> DEFINE dir == ParentOf(fs, path)
           i == ResolvePath(fs, path)
           top == [do |-> "drop", dir |-> NoInode, name |-> Last(path),
                   inode |-> i, path |-> path]
<1>1. /\ Sound(fs) /\ Tidy(fs) /\ Upright(fs) /\ Linkless(fs)
      /\ CommandPaths \subseteq Branch
  BY BeginningMeans
<1>2. path \in Branch /\ path \in Seq(Names) /\ path # << >>
  BY <1>1, BranchParts
<1>3. IsDirectory(i) /\ i # Root
  BY Zenon DEF Rmdir
<1>4. i # NoInode
  BY <1>3 DEF IsDirectory
<1>5. /\ ResolvePath(fs, Front(path)) \in Inodes
      /\ Leads(fs, ResolvePath(fs, Front(path)), Last(path), i)
  BY <1>1, <1>2, <1>4, LastLeads
<1>6. i \in Inodes \ {Root}
  <2>1. i \in Inodes
    BY <1>1, <1>5, LeadsFound DEF Tidy
  <2> QED  BY <1>3, <2>1
<1>7. dir = ResolvePath(fs, Front(path)) /\ dir # NoInode
  BY <1>2, <1>5, ParentResolved, RootIsInode
<1>8. FindEntry(fs, dir, Last(path)) = i
  BY <1>1, <1>2, NothingHeld
<1>9. CASE IsEmpty(fs, i)
  <2>1. /\ \E r \in IF dir = NoInode THEN {Failed(fs)}
                    ELSE RemoveEntry(fs, dir, Last(path)) :
              fs' = IF r.ok THEN FreeInode(r.fs, i) ELSE r.fs
        /\ opened' = opened /\ work' = work
    BY <1>9, Zenon DEF Rmdir
  <2>2. ~IsInodeOpen(i)
    BY <1>4 DEF Prompt, IsInodeOpen
  <2>3. \E r \in RemoveEntry(fs, dir, Last(path)) :
           fs' = IF r.ok THEN FreeInode(r.fs, i) ELSE r.fs
    BY <1>7, <2>1
  <2> HIDE DEF i, dir
  <2>4. /\ FindEntry(fs, dir, Last(path)) # NoInode
        /\ ~IsInodeOpen(FindEntry(fs, dir, Last(path)))
        /\ IsEmpty(fs, FindEntry(fs, dir, Last(path)))
        /\ \E r \in RemoveEntry(fs, dir, Last(path)) :
              fs' = IF r.ok THEN FreeInode(r.fs, FindEntry(fs, dir, Last(path)))
                    ELSE r.fs
    BY <1>4, <1>8, <1>9, <2>2, <2>3
  <2>5. RemoveDirectory(path)
    BY <1>7, <2>1, <2>4, Zenon DEF RemoveDirectory, dir
  <2> QED  BY <2>1, <2>5
<1>10. CASE ~IsEmpty(fs, i)
  <2>1. work' = << top >> /\ Keep
    BY <1>10, Zenon DEF Rmdir
  <2>2. /\ top.do = "drop" /\ top.name = Last(path) /\ top.inode = i /\ top.path = path
    OBVIOUS
  <2> HIDE DEF top
  <2>3. Called(fs, top)
    BY <1>2, <1>5, <1>6, <2>2 DEF Called, HomeOf
  <2>4. Len(<< top >>) = 1 /\ << top >>[1] = top
    OBVIOUS
  <2> DEFINE w == << top >>
  <2> HIDE DEF w
  <2>5. Len(w) = 1 /\ \A k \in 1 .. Len(w) : k = 1 /\ w[k] = top
    BY <2>4 DEF w
  <2>6. Dropping(fs, w)
    BY <1>2, <2>2, <2>3, <2>5 DEF Dropping
  <2> QED  BY <2>1, <2>6 DEF w
<1> QED  BY <1>9, <1>10

LEMMA StartBegins ==
  ASSUME Beginning, Prompt, Start
  PROVE  \/ Keep /\ (Building(fs, work') \/ Dropping(fs, work'))
         \/ [Next]_vars /\ work' = work
<1>1. CommandPaths \subseteq Branch
  BY BeginningMeans
<1>2. PICK path \in CommandPaths :
        \/ Mkdir(path) \/ Touch(path) \/ Echo(path) \/ Import(path)
        \/ Compress(path) \/ Decompress(path) \/ Rmdir(path)
        \/ \E to \in CommandPaths \cup {<< >>} :
              \/ MayCopy(path, to) /\ Cp(path, to)
              \/ MayMove(path, to) /\ Mv(path, to)
  BY DEF Start
<1>3. path \in Branch /\ path \in PathsGiven
  BY <1>1, CommandsAssumption
<1>4. ASSUME NEW to \in CommandPaths \cup {<< >>},
             \/ MayCopy(path, to) /\ Cp(path, to)
             \/ MayMove(path, to) /\ Mv(path, to)
      PROVE  Keep /\ Building(fs, work')
  <2>1. Building(fs, work')
    BY <1>1, <1>3, <1>4, CpBuilds, MvBuilds
  <2> QED  BY <1>4, <2>1 DEF Cp, Mv
<1>5. CASE Rmdir(path)
  <2>1. CASE RemoveDirectory(path) /\ work' = work
    BY <1>3, <2>1, Zenon DEF Next
  <2> QED  BY <1>5, <2>1, RmdirBegins
<1>6. CASE \/ Mkdir(path) \/ Touch(path) \/ Echo(path) \/ Import(path)
           \/ Compress(path) \/ Decompress(path)
  <2>1. Building(fs, work')
    BY <1>3, <1>6, MkdirBuilds, FileBuilds, PackBuilds
  <2>2. Keep
    BY <1>6 DEF Mkdir, Touch, Echo, Import, Compress, Decompress
  <2> QED  BY <2>1, <2>2
<1> QED  BY <1>2, <1>4, <1>5, <1>6

--------------------------------------------------------------------------------
(* The tree of names, while commands run. *)

\* What the names keep through all commands, and what their tasks rely on.
\* A descriptor is open only while no command runs.
CommandsConnected ==
  /\ CInv /\ Tidy(fs) /\ Kept /\ Simple(fs) /\ AllReached(fs)
  /\ Building(fs, work) \/ Dropping(fs, work)
  /\ work # << >> => \A d \in Descriptors : opened[d] = NoInode

LEMMA CommandsPlain ==
  CommandsConnected => Connected /\ Plain(fs) /\ Clear(fs)
BY ConnectedPlain DEF CommandsConnected, CInv, Connected, Plain, Clear

\* What a step of a command does to the names, and to the tasks that are left.
StepTaken ==
  /\ CallMade /\ Tidy(fs)' /\ Kept'
  /\ \A g : fs' = g /\ Clear(g) => Building(g, work') \/ Dropping(g, work')
  /\ work' # << >> => \A d \in Descriptors : opened'[d] = NoInode

LEMMA CallTaken ==
  ASSUME Orderly, CommandsConnected, [Next]_vars, work = << >>, work' = work
  PROVE  StepTaken
<1>1. Plain(fs) /\ IInv /\ Tidy(fs) /\ Kept /\ Undisturbed /\ OneClusterDirectories
  BY CommandsPlain DEF CommandsConnected, CInv, Orderly, Undisturbed
<1>2. \A g : Building(g, work')
  BY NothingBuilds
<1> QED  BY <1>1, <1>2, CallsMake, TidyNext, KeptNext DEF StepTaken

LEMMA KeepTaken ==
  ASSUME Orderly, CommandsConnected, Keep,
         Building(fs, work') \/ Dropping(fs, work'),
         work' # << >> => \A d \in Descriptors : opened[d] = NoInode
  PROVE  StepTaken
<1>1. Plain(fs) /\ IInv /\ Tidy(fs) /\ Kept /\ Undisturbed /\ OneClusterDirectories
  BY CommandsPlain DEF CommandsConnected, CInv, Orderly, Undisturbed
<1>2. fs' = fs /\ opened' = opened /\ [Next]_vars
  BY DEF Keep, vars
<1>3. CallMade /\ Tidy(fs)' /\ Kept'
  BY <1>1, <1>2, CallsMake, TidyNext, KeptNext
<1> QED  BY <1>2, <1>3 DEF StepTaken

\* Every step of a command changes the names as a call does.
LEMMA CommandsCall ==
  Orderly /\ CommandsConnected /\ [CommandsNext]_commandVars => StepTaken
<1> SUFFICES ASSUME Orderly, CommandsConnected, [CommandsNext]_commandVars
             PROVE  StepTaken
  OBVIOUS
<1>1. /\ Plain(fs) /\ CInv /\ Kept /\ Tidy(fs) /\ Undisturbed /\ OneClusterDirectories
      /\ Building(fs, work) \/ Dropping(fs, work)
      /\ work # << >> => \A d \in Descriptors : opened[d] = NoInode
  BY CommandsPlain DEF CommandsConnected, CInv, Orderly, Undisturbed
<1>2. CASE Prompt /\ Start
  <2>1. Beginning
    BY <1>1 DEF Beginning
  <2>2. \A d \in Descriptors : opened[d] = NoInode
    BY <1>2 DEF Prompt
  <2>3. CASE Keep /\ (Building(fs, work') \/ Dropping(fs, work'))
    BY <2>2, <2>3, KeepTaken
  <2>4. CASE [Next]_vars /\ work' = work
    BY <1>2, <2>4, CallTaken DEF Prompt
  <2> QED  BY <1>2, <2>1, <2>3, <2>4, StartBegins
<1>3. CASE Continue
  <2>1. work # << >>
    BY <1>3 DEF Continue
  <2>2. CASE Building(fs, work)
    <3>1. OneTask
      BY <1>1, <2>1, <2>2 DEF OneTask
    <3>2. TaskMade
      BY <1>3, <3>1, ContinueBuilds
    <3>3. Tidy(fs)' /\ Kept'
      BY <1>1, <1>3, <3>1, NoLinkMade, TidyContinue, KeptContinue
    <3>4. CallMade /\ opened' = opened
      BY <3>2 DEF TaskMade, CallMade
    <3>5. \A g : fs' = g /\ Clear(g) => Building(g, work')
      BY <3>2 DEF TaskMade
    <3> QED  BY <1>1, <2>1, <3>3, <3>4, <3>5 DEF StepTaken
  <2>3. CASE Dropping(fs, work)
    <3>1. Removing
      BY <1>1, <2>1, <2>3 DEF Removing
    <3>2. StepDropped
      BY <1>3, <3>1, ContinueDrops
    <3> QED  BY <1>1, <2>1, <3>2 DEF StepDropped, StepTaken
  <2> QED  BY <1>1, <2>2, <2>3
<1>4. CASE work = << >> /\ Next /\ UNCHANGED work
  BY <1>4, CallTaken
<1>5. CASE UNCHANGED commandVars
  <2>1. Keep /\ work' = work
    BY <1>5 DEF commandVars, Keep
  <2> QED  BY <1>1, <2>1, KeepTaken
<1> QED  BY <1>2, <1>3, <1>4, <1>5 DEF CommandsNext

LEMMA BuildingAfter ==
  ASSUME NEW g, fs' = g, Building(g, work')
  PROVE  Building(fs, work)'
BY DEF Building, Settled, Leading, LeadingMake, LeadingCreate, LeadingList, LeadingCopy,
       LeadingMove, Vacant, OnlyMakes, InPlace, DirectoryAt

LEMMA DroppingAfter ==
  ASSUME NEW g, fs' = g, Dropping(g, work')
  PROVE  Dropping(fs, work)'
<1>1. Dropping(fs', work')
  OBVIOUS
<1> QED  BY <1>1 DEF Dropping, Called, HomeOf, Leads, Enters

LEMMA CommandsConnectedNext ==
  Orderly /\ CommandsConnected /\ [CommandsNext]_commandVars => CommandsConnected'
<1> SUFFICES ASSUME Orderly, CommandsConnected, [CommandsNext]_commandVars
             PROVE  CommandsConnected'
  OBVIOUS
<1>1. CInv /\ Tidy(fs) /\ AllReached(fs)
  BY DEF CommandsConnected
<1>2. StepTaken
  BY CommandsCall
<1>3. CInv' /\ Tidy(fs)' /\ Kept'
  <2>1. CInv'
    BY <1>1, CInvNext
  <2>2. Tidy(fs)' /\ Kept'
    BY <1>2 DEF StepTaken
  <2> QED  BY <2>1, <2>2
<1>5. PICK g, p : fs' = g /\ Simple(g) /\ CallStep(fs, opened, g, p)
  BY <1>2 DEF StepTaken, CallMade
<1>6. AllReached(g)
  BY <1>1, <1>5, CallReaches, StepReaches
<1>7. Clear(g)
  <2>1. Sound(fs)' /\ Tidy(fs)'
    BY <1>3 DEF CInv, IInv
  <2>2. Sound(g)
    BY <1>5, <2>1
  <2>3. Tidy(g)
    BY <1>5, <2>1
  <2> QED  BY <1>5, <2>2, <2>3 DEF Clear, Simple
<1>8. Building(g, work') \/ Dropping(g, work')
  BY <1>2, <1>5, <1>7 DEF StepTaken
<1>9. (Building(fs, work) \/ Dropping(fs, work))'
  BY <1>5, <1>8, BuildingAfter, DroppingAfter
<1>10. Simple(fs)' /\ AllReached(fs)'
  BY <1>5, <1>6, SimpleAfter, ReachedAfter
<1>11. (work # << >> => \A d \in Descriptors : opened[d] = NoInode)'
  BY <1>2 DEF StepTaken
<1> QED  BY <1>3, <1>9, <1>10, <1>11 DEF CommandsConnected

LEMMA CommandsConnectedInit == CommandsInit => CommandsConnected
<1> SUFFICES ASSUME CommandsInit PROVE CommandsConnected
  OBVIOUS
<1>1. Connected /\ work = << >>
  BY ConnectedInit DEF CommandsInit
<1>2. work \in Seq(Task)
  BY <1>1
<1> QED  BY <1>1, <1>2, NothingBuilds DEF Connected, CommandsConnected, CInv

\* The inductive invariant of trees without links, while commands run: the
\* names reach every inode in use, and the tasks that are left fit the names.
THEOREM CommandsStayConnected ==
  Orderly => (CommandsSpec => []CommandsConnected)
<1> SUFFICES ASSUME Orderly PROVE CommandsSpec => []CommandsConnected
  OBVIOUS
<1>1. CommandsConnected /\ [CommandsNext]_commandVars => CommandsConnected'
  BY CommandsConnectedNext
<1> QED  BY <1>1, CommandsConnectedInit, PTL DEF CommandsSpec

\* Every inode in use can be reached by names also between the steps of the
\* commands that make, copy and remove trees and move files.
THEOREM CommandsLoseNothing ==
  Orderly => (CommandsSpec => []NothingLost)
<1> SUFFICES ASSUME Orderly PROVE CommandsSpec => []NothingLost
  OBVIOUS
<1>1. CommandsConnected => NothingLost
  BY CommandsPlain, ConnectedShows
<1> QED  BY <1>1, CommandsStayConnected, PTL

\* All commands together, rmdir too, keep one place for each inode in use,
\* its ".." there, no name for one that is free, and what is open.
THEOREM CommandsKeepTree ==
  Orderly => (CommandsSpec => [](/\ DotDotIsParent /\ OneName
                                 /\ NoDanglingEntries /\ OpenFilesStay))
<1> SUFFICES ASSUME Orderly
             PROVE  CommandsSpec => [](/\ DotDotIsParent /\ OneName
                                       /\ NoDanglingEntries /\ OpenFilesStay)
  OBVIOUS
<1>1. CommandsConnected => /\ DotDotIsParent /\ OneName
                           /\ NoDanglingEntries /\ OpenFilesStay
  BY KeptShows, TidyNames DEF CommandsConnected, CInv, IInv
<1> QED  BY <1>1, CommandsStayConnected, PTL

\* The names implement a tree also while commands run: each of their steps is
\* one step of the tree, or none.
THEOREM CommandsImplementTree ==
  Orderly => (CommandsSpec => ImplementsNameTree)
<1> SUFFICES ASSUME Orderly PROVE CommandsSpec => ImplementsNameTree
  OBVIOUS
<1>1. CommandsInit /\ Meant => Tree!Init
  BY TreeInit, ConnectedInit DEF CommandsInit
<1>2. CommandsConnected /\ Meant /\ CommandsConnected' /\ Meant'
         /\ [CommandsNext]_commandVars
         => [Tree!Next]_(Tree!vars)
  <2> SUFFICES ASSUME CommandsConnected, Meant, CommandsConnected', Meant',
                      [CommandsNext]_commandVars
               PROVE  [Tree!Next]_(Tree!vars)
    OBVIOUS
  <2>1. Connected
    BY CommandsPlain
  <2>2. Connected'
    BY DEF CommandsConnected, CInv, Connected
  <2>3. CallMade
    BY CommandsCall DEF StepTaken
  <2> QED  BY <2>1, <2>2, <2>3, TreeStepMade
<1>3. CommandsConnected => Meant
  BY CommandsPlain, AlwaysMeant
<1>4. CommandsSpec => []CommandsConnected
  BY CommandsStayConnected
<1> QED  BY <1>1, <1>2, <1>3, <1>4, PTL DEF CommandsSpec, ImplementsNameTree, Tree!Spec
================================================================================
