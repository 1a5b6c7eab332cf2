-------------------------- MODULE PathfindingProofs --------------------------
(***************************************************************************)
(* Proofs about the search of GridMap::FindPath, on any grid with any      *)
(* walls: A* finds shortest walks, and its cache remembers nothing else.   *)
(* Then about the NPCs that walk on what it finds.                         *)
(***************************************************************************)
EXTENDS Pathfinding, FiniteSetTheorems, TLAPS

-----------------------------------------------------------------------------
(* Induction.  The theorems of the library about it take an operator; that *)
(* every set of numbers has a least one says the same of sets.             *)

LEMMA Least ==
  ASSUME NEW S, S \subseteq Nat, S # {}
  PROVE  \E m \in S : \A n \in S : m <= n
<1>1. IsWellFoundedOn(OpToRel(<, Nat), Nat)
  BY NatLessThanWellFounded
<1>2. \E R : IsWellFoundedOn(R, Nat) /\ \A a, b \in Nat : a < b => <<a, b>> \in R
  BY <1>1 DEF OpToRel
<1>3. PICK R : IsWellFoundedOn(R, Nat) /\ \A a, b \in Nat : a < b => <<a, b>> \in R
  BY <1>2
<1>4. \E m \in S : \A n \in S : ~(<<n, m>> \in R)
  <2>1. \A U, T : IsWellFoundedOn(R, U) /\ T \subseteq U /\ T # {}
                   => \E m \in T : \A n \in T : ~(<<n, m>> \in R)
    BY WFMin, Zenon
  <2>2. QED
    BY <1>3, <2>1, Zenon
<1>5. PICK m \in S : \A n \in S : ~(<<n, m>> \in R)
  BY <1>4
<1>6. \A n \in S : ~(n < m)
  BY <1>3, <1>5
<1>7. QED
  BY <1>6

\* A set that holds 0, and with every number the next, holds all of them.
LEMMA Induction ==
  ASSUME NEW S, 0 \in S, \A k \in Nat : k \in S => k + 1 \in S
  PROVE  Nat \subseteq S
<1> DEFINE bad == Nat \ S
<1>1. SUFFICES ASSUME bad # {} PROVE FALSE
  OBVIOUS
<1>2. PICK m \in bad : \A n \in bad : m <= n
  BY <1>1, Least
<1>3. m # 0 /\ m \in Nat /\ m - 1 \in Nat /\ ~(m <= m - 1)
  BY <1>2
<1>4. m - 1 \in S
  BY <1>2, <1>3
<1>5. (m - 1) + 1 \in S
  BY <1>3, <1>4
<1>6. QED
  BY <1>2, <1>3, <1>5

\* f begins with base, and each value gives the next.
Follows(f, base, step) == f[0] = base /\ \A k \in Nat : f[k + 1] = step[<<k, f[k]>>]

\* What a recursive function on the numbers defines exists.
LEMMA RecursionExists ==
  ASSUME NEW S, NEW base \in S, NEW step \in [Nat \X S -> S]
  PROVE  \E f \in [Nat -> S] : Follows(f, base, step)
<1> DEFINE Closed(C) == /\ <<0, base>> \in C
                        /\ \A k \in Nat, x \in S : <<k, x>> \in C => <<k + 1, step[<<k, x>>]>> \in C
           G == {p \in Nat \X S : \A C \in SUBSET (Nat \X S) : Closed(C) => p \in C}
           Good == {n \in Nat : \E x \in S : /\ <<n, x>> \in G
                                             /\ \A y \in S : <<n, y>> \in G => y = x}
<1>1. Closed(G)
  <2>1. <<0, base>> \in G
    OBVIOUS
  <2>2. ASSUME NEW k \in Nat, NEW x \in S, <<k, x>> \in G
        PROVE  <<k + 1, step[<<k, x>>]>> \in G
    <3>1. <<k, x>> \in Nat \X S /\ <<k + 1, step[<<k, x>>]>> \in Nat \X S
      OBVIOUS
    <3>2. ASSUME NEW C \in SUBSET (Nat \X S), Closed(C)
          PROVE  <<k + 1, step[<<k, x>>]>> \in C
      <4>1. <<k, x>> \in C
        BY <2>2, <3>2
      <4>2. QED
        BY <3>2, <4>1
    <3>3. QED
      BY <3>1, <3>2
  <2>3. QED
    BY <2>1, <2>2
<1>2. \A p \in G : ~Closed(G \ {p})
  <2>1. SUFFICES ASSUME NEW p \in G, Closed(G \ {p}) PROVE FALSE
    OBVIOUS
  <2>2. G \ {p} \in SUBSET (Nat \X S)
    OBVIOUS
  <2>3. p \in G \ {p}
    BY <2>1, <2>2
  <2>4. QED
    BY <2>3
<1>3. G \subseteq Nat \X S
  OBVIOUS
<1> HIDE DEF G
<1>4. 0 \in Good
  <2>1. SUFFICES ASSUME NEW y \in S, <<0, y>> \in G, y # base PROVE FALSE
    BY <1>1
  <2>2. Closed(G \ {<<0, y>>})
    BY <1>1, <2>1
  <2>3. QED
    BY <1>2, <2>1, <2>2
<1>5. ASSUME NEW k \in Nat, k \in Good
      PROVE  k + 1 \in Good
  <2>1. PICK x \in S : <<k, x>> \in G /\ \A y \in S : <<k, y>> \in G => y = x
    BY <1>5
  <2> DEFINE z == step[<<k, x>>]
  <2>2. z \in S /\ <<k + 1, z>> \in G
    BY <1>1, <2>1
  <2>3. SUFFICES ASSUME NEW y \in S, <<k + 1, y>> \in G, y # z PROVE FALSE
    BY <2>2
  <2>4. ASSUME NEW i \in Nat, NEW w \in S, <<i, w>> \in G, <<i + 1, step[<<i, w>>]>> = <<k + 1, y>>
        PROVE  FALSE
    <3>1. i = k
      BY <2>4
    <3>2. w = x
      BY <2>1, <2>4, <3>1
    <3>3. QED
      BY <2>3, <2>4, <3>1, <3>2
  <2>5. Closed(G \ {<<k + 1, y>>})
    <3>1. <<0, base>> \in G \ {<<k + 1, y>>}
      BY <1>1
    <3>2. QED
      BY <1>1, <2>4, <3>1
  <2>6. QED
    BY <1>2, <2>3, <2>5
<1>6. Nat \subseteq Good
  <2> HIDE DEF Good
  <2>1. QED
    BY <1>4, <1>5, Induction
<1> DEFINE f == [n \in Nat |-> CHOOSE x \in S : <<n, x>> \in G]
<1>7. \A n \in Nat : /\ f[n] \in S /\ <<n, f[n]>> \in G
                     /\ \A y \in S : <<n, y>> \in G => y = f[n]
  BY <1>6
<1>8. f \in [Nat -> S]
  BY <1>7
<1> HIDE DEF f
<1>9. f[0] = base
  BY <1>1, <1>7
<1>10. ASSUME NEW k \in Nat
       PROVE  f[k + 1] = step[<<k, f[k]>>]
  <2> DEFINE x == f[k]
             y == step[<<k, x>>]
  <2>1. x \in S /\ <<k, x>> \in G
    BY <1>7
  <2> HIDE DEF x
  <2>2. y \in S /\ <<k + 1, y>> \in G
    BY <1>1, <2>1
  <2> HIDE DEF y
  <2>3. k + 1 \in Nat
    OBVIOUS
  <2>4. y = f[k + 1]
    BY <1>7, <2>2, <2>3
  <2>5. QED
    BY <2>4 DEF x, y
<1>11. QED
  BY <1>8, <1>9, <1>10 DEF Follows

-----------------------------------------------------------------------------
(* The grid.                                                               *)

LEMMA SizePositive == Width \in Nat /\ Width > 0 /\ Height \in Nat /\ Height > 0
BY GridAssumption

LEMMA TileParts ==
  ASSUME NEW t \in Tiles
  PROVE  /\ t = <<t[1], t[2]>>
         /\ t[1] \in Int /\ t[2] \in Int
BY SizePositive DEF Tiles

LEMMA TilesFinite == IsFiniteSet(Tiles) /\ Cardinality(Tiles) \in Nat
<1>1. Width - 1 \in Int /\ Height - 1 \in Int /\ 0 \in Int
  BY SizePositive
<1>2. IsFiniteSet(0 .. Width - 1) /\ IsFiniteSet(0 .. Height - 1)
  BY <1>1, FS_Interval
<1>3. IsFiniteSet(Tiles)
  BY <1>2, FS_Product DEF Tiles
<1>4. QED
  BY <1>3, FS_CardinalityType

LEMMA ClampedIsTile ==
  ASSUME NEW p
  PROVE  Clamped(p) \in Tiles
<1>1. \A x, high : high \in Nat => Clamp(x, high) \in 0 .. high
  BY DEF Clamp
<1>2. Width - 1 \in Nat /\ Height - 1 \in Nat
  BY SizePositive
<1>3. Clamp(p[1], Width - 1) \in 0 .. Width - 1 /\ Clamp(p[2], Height - 1) \in 0 .. Height - 1
  BY <1>1, <1>2
<1>4. QED
  BY <1>3 DEF Clamped, Tiles

LEMMA Costs ==
  /\ Straight \in Nat /\ Diagonal \in Nat
  /\ 0 < Straight /\ Straight <= Diagonal /\ Diagonal <= 2 * Straight
BY GridAssumption

LEMMA MoveCostValue ==
  ASSUME NEW a, NEW b
  PROVE  MoveCost(a, b) \in Nat /\ 0 < MoveCost(a, b) /\ MoveCost(a, b) <= Diagonal
BY Costs DEF MoveCost

LEMMA OctileValue ==
  ASSUME NEW a \in Tiles, NEW b \in Tiles
  PROVE  Octile(a, b) \in Int /\ Octile(a, a) = 0
<1>1. /\ Gap(a[1], b[1]) \in Nat /\ Gap(a[2], b[2]) \in Nat
      /\ Gap(a[1], a[1]) = 0 /\ Gap(a[2], a[2]) = 0
  BY TileParts DEF Gap
<1>2. \A x, y \in Nat : Straight * (x + y) + (Diagonal - 2 * Straight) * x \in Int
  BY Costs
<1>3. \A x, y \in Nat : Straight * (x + y) + (Diagonal - 2 * Straight) * y \in Int
  BY Costs
<1>4. Octile(a, b) \in Int
  BY <1>1, <1>2, <1>3 DEF Octile
<1>5. Straight * (0 + 0) + (Diagonal - 2 * Straight) * 0 = 0
  BY Costs
<1>6. QED
  BY <1>1, <1>4, <1>5 DEF Octile

LEMMA AdjacentParts ==
  ASSUME NEW a \in Tiles, NEW b \in Adjacent[a]
  PROVE  /\ b \in Tiles /\ b # a
         /\ a[1] - b[1] \in -1 .. 1 /\ a[2] - b[2] \in -1 .. 1
<1>1. b \in Tiles \ {a} /\ Gap(a[1], b[1]) <= 1 /\ Gap(a[2], b[2]) <= 1
  BY DEF Adjacent
<1>2. a[1] \in Int /\ a[2] \in Int /\ b[1] \in Int /\ b[2] \in Int
  BY <1>1, TileParts
<1>3. QED
  BY <1>1, <1>2 DEF Gap

\* The estimate never promises more than a step costs: A* is consistent.
LEMMA OctileIsConsistent ==
  ASSUME NEW a \in Tiles, NEW b \in Adjacent[a], NEW t \in Tiles
  PROVE  Octile(a, t) <= MoveCost(a, b) + Octile(b, t)
<1>1. /\ b \in Tiles
      /\ a[1] - b[1] \in -1 .. 1 /\ a[2] - b[2] \in -1 .. 1
  BY AdjacentParts
<1>2. /\ a[1] \in Int /\ a[2] \in Int /\ b[1] \in Int /\ b[2] \in Int
      /\ t[1] \in Int /\ t[2] \in Int
  BY <1>1, TileParts
<1> DEFINE Least2(x, y) == IF x < y THEN x ELSE y
           Rest(x, y) == IF x < y THEN y - x ELSE x - y
           Near(x, y) == Straight * (x + y) + (Diagonal - 2 * Straight) * Least2(x, y)
<1>3. \A x, y \in Nat :
        /\ Least2(x, y) \in Nat /\ Rest(x, y) \in Nat
        /\ Near(x, y) = Straight * Rest(x, y) + Diagonal * Least2(x, y)
  <2>1. ASSUME NEW x \in Nat, NEW y \in Nat
        PROVE  /\ Least2(x, y) \in Nat /\ Rest(x, y) \in Nat
               /\ x + y = Rest(x, y) + 2 * Least2(x, y)
    OBVIOUS
  <2>2. \A m, r \in Nat : Straight * (r + 2 * m) + (Diagonal - 2 * Straight) * m
                           = Straight * r + Diagonal * m
    BY Costs
  <2> HIDE DEF Least2, Rest
  <2>3. QED
    BY <2>1, <2>2
\* How much a step may bring, of the diagonal part and of the straight part.
<1>4. ASSUME NEW x \in Nat, NEW y \in Nat, NEW u \in Nat, NEW v \in Nat,
             x - u \in -1 .. 1, y - v \in -1 .. 1
      PROVE  LET m == Least2(x, y) - Least2(u, v)
                 r == Rest(x, y) - Rest(u, v)
             IN  /\ <<m, r>> \in {<<0, 0>>, <<0, 1>>, <<0, -1>>, <<1, -1>>, <<-1, 1>>,
                                   <<1, 0>>, <<-1, 0>>, <<1, -2>>, <<-1, 2>>}
                 /\ x = u \/ y = v => m + r \in {-1, 0, 1} /\ <<m, r>> # <<1, 0>>
  BY <1>4
<1>5. ASSUME NEW x \in Nat, NEW y \in Nat, NEW u \in Nat, NEW v \in Nat,
             x - u \in -1 .. 1, y - v \in -1 .. 1,
             NEW cost \in {Straight, Diagonal}, cost = Diagonal \/ x = u \/ y = v
      PROVE  Near(x, y) <= cost + Near(u, v)
  <2> DEFINE m == Least2(x, y) - Least2(u, v)
             r == Rest(x, y) - Rest(u, v)
             p == Straight * Rest(u, v)
             q == Diagonal * Least2(u, v)
  <2>1. /\ Least2(x, y) \in Nat /\ Rest(x, y) \in Nat
        /\ Least2(u, v) \in Nat /\ Rest(u, v) \in Nat
    BY <1>3
  <2>2. p \in Int /\ q \in Int
    BY <2>1, Costs
  <2>3. Near(u, v) = p + q
    BY <1>3
  <2>4. Near(x, y) = Straight * (Rest(u, v) + r) + Diagonal * (Least2(u, v) + m)
    BY <1>3, <2>1
  <2>5. Straight * (Rest(u, v) + r) = p + Straight * r
    BY <2>1, Costs
  <2>6. Diagonal * (Least2(u, v) + m) = q + Diagonal * m
    BY <2>1, Costs
  <2>7. /\ <<m, r>> \in {<<0, 0>>, <<0, 1>>, <<0, -1>>, <<1, -1>>, <<-1, 1>>,
                          <<1, 0>>, <<-1, 0>>, <<1, -2>>, <<-1, 2>>}
        /\ x = u \/ y = v => m + r \in {-1, 0, 1} /\ <<m, r>> # <<1, 0>>
    BY <1>4, <1>5
  <2> HIDE DEF Near, m, r, p, q
  <2>8. Straight * r + Diagonal * m <= cost
    BY <1>5, <2>7, Costs
  <2>9. Near(x, y) = (p + Straight * r) + (q + Diagonal * m) /\ r \in Int /\ m \in Int
    BY <2>4, <2>5, <2>6, <2>7
  <2>10. Straight * r \in Int /\ Diagonal * m \in Int /\ cost \in Int
    BY <1>5, <2>9, Costs
  <2>11. QED
    BY <2>2, <2>3, <2>8, <2>9, <2>10
<1>6. /\ Gap(a[1], t[1]) \in Nat /\ Gap(a[2], t[2]) \in Nat
      /\ Gap(b[1], t[1]) \in Nat /\ Gap(b[2], t[2]) \in Nat
      /\ Gap(a[1], t[1]) - Gap(b[1], t[1]) \in -1 .. 1
      /\ Gap(a[2], t[2]) - Gap(b[2], t[2]) \in -1 .. 1
  BY <1>1, <1>2 DEF Gap
<1>7. /\ MoveCost(a, b) \in {Straight, Diagonal}
      /\ MoveCost(a, b) = Diagonal \/ a[1] = b[1] \/ a[2] = b[2]
  BY DEF MoveCost, Aligned
<1>8. /\ Octile(a, t) = Near(Gap(a[1], t[1]), Gap(a[2], t[2]))
      /\ Octile(b, t) = Near(Gap(b[1], t[1]), Gap(b[2], t[2]))
  BY DEF Octile
<1> HIDE DEF Near
<1>9. QED
  BY <1>5, <1>6, <1>7, <1>8

LEMMA NeighbourParts ==
  ASSUME NEW a \in Tiles, NEW b \in Neighbours[a]
  PROVE  b \in Adjacent[a] /\ b \in Tiles /\ b # a
BY AdjacentParts DEF Neighbours

\* What the loop over the eight offsets looks at is what a walker may do.
LEMMA NeighboursAreSteps ==
  ASSUME NEW a \in Tiles, NEW b \in Tiles
  PROVE  b \in Neighbours[a] <=> <<a, b>> \in Steps
<1>1. <<a, b>> \in Steps <=> b \in Adjacent[a] /\ \A t \in Box(a, b) \ {a} : IsWalkable(t)
  BY DEF Steps
<1>2. b \in Neighbours[a] <=>
        /\ b \in Adjacent[a] /\ IsWalkable(b)
        /\ Aligned(a, b) \/ (IsWalkable(<<b[1], a[2]>>) /\ IsWalkable(<<a[1], b[2]>>))
  BY DEF Neighbours
<1>3. /\ a = <<a[1], a[2]>> /\ a[1] \in Int /\ a[2] \in Int
      /\ b = <<b[1], b[2]>> /\ b[1] \in Int /\ b[2] \in Int
  BY TileParts
<1>4. <<b[1], a[2]>> \in Tiles /\ <<a[1], b[2]>> \in Tiles
  BY <1>3 DEF Tiles
<1>5. \A t \in Box(a, b) : t = a \/ t = b \/ t = <<b[1], a[2]>> \/ t = <<a[1], b[2]>>
  BY <1>3, TileParts DEF Box
<1>6. {a, b, <<b[1], a[2]>>, <<a[1], b[2]>>} \subseteq Box(a, b)
  BY <1>3, <1>4 DEF Box
<1>7. b \in Adjacent[a] => b # a
  BY AdjacentParts
<1>8. ASSUME b # a, Aligned(a, b)
      PROVE  {a, b} = {a, b, <<b[1], a[2]>>, <<a[1], b[2]>>}
  BY <1>3, <1>8 DEF Aligned
<1>9. ASSUME ~Aligned(a, b)
      PROVE  a # <<b[1], a[2]>> /\ a # <<a[1], b[2]>>
  BY <1>3, <1>9 DEF Aligned
<1>10. QED
  BY <1>1, <1>2, <1>5, <1>6, <1>7, <1>8, <1>9
-----------------------------------------------------------------------------
(* The search: FindPath between two iterations of its loop.                *)

Scores == UNION {[D -> Nat] : D \in SUBSET Tiles}
Parents == UNION {[D -> Tiles] : D \in SUBSET Tiles}
Entry == [at : Tiles, g : Nat]

SearchType ==
  search \in [from : Tiles, to : Tiles, g_score : Scores, parent : Parents,
              open : SUBSET Entry, iterations : Nat, best : Tiles]

Discovered == DOMAIN search.g_score

\* The tiles found so far are a tree: the parent of each is a neighbour of it
\* and nearer to the start, by the cost of the step at least.
TreeInv ==
  /\ search.from \in Discovered /\ search.g_score[search.from] = 0
  /\ search.best \in Discovered
  /\ DOMAIN search.parent = Discovered \ {search.from}
  /\ \A t \in DOMAIN search.parent :
       LET p == search.parent[t] IN
       /\ p \in Discovered /\ t \in Neighbours[p]
       /\ search.g_score[p] + MoveCost(p, t) <= search.g_score[t]
  /\ \A t \in Discovered : search.g_score[t] <= Diagonal * search.iterations

\* A tile is expanded when its neighbours have been looked at from it.
Expanded(t) ==
  /\ t # search.to
  /\ \A n \in Neighbours[t] :
       n \in Discovered /\ search.g_score[n] <= search.g_score[t] + MoveCost(t, n)

OpenInv ==
  /\ \A o \in search.open : o.at \in Discovered /\ search.g_score[o.at] <= o.g
  /\ \A t \in Discovered : [at |-> t, g |-> search.g_score[t]] \in search.open \/ Expanded(t)

SearchInv == SearchType /\ search.from # search.to /\ TreeInv /\ OpenInv
PathInv == phase = "Search" => SearchInv

LEMMA SearchParts ==
  ASSUME SearchType
  PROVE  /\ search.from \in Tiles /\ search.to \in Tiles
         /\ Discovered \subseteq Tiles /\ search.g_score \in [Discovered -> Nat]
         /\ DOMAIN search.parent \subseteq Tiles
         /\ search.parent \in [DOMAIN search.parent -> Tiles]
         /\ search.open \subseteq Entry
         /\ search.iterations \in Nat /\ search.best \in Tiles
<1>1. /\ search.from \in Tiles /\ search.to \in Tiles
      /\ search.g_score \in Scores /\ search.parent \in Parents
      /\ search.open \subseteq Entry
      /\ search.iterations \in Nat /\ search.best \in Tiles
  BY DEF SearchType
<1>2. Discovered \subseteq Tiles /\ search.g_score \in [Discovered -> Nat]
  BY <1>1 DEF Scores, Discovered
<1>3. DOMAIN search.parent \subseteq Tiles /\ search.parent \in [DOMAIN search.parent -> Tiles]
  BY <1>1 DEF Parents
<1>4. QED
  BY <1>1, <1>2, <1>3

LEMMA StartSearchInv ==
  ASSUME StartSearch
  PROVE  SearchInv'
<1> DEFINE h == Here
           d == There
<1>1. h \in Tiles /\ d \in Tiles
  BY ClampedIsTile DEF Here, There
<1>2. h # d
  BY DEF StartSearch, Searchable
<1>3. search' = [from |-> h, to |-> d, g_score |-> [t \in {h} |-> 0], parent |-> <<>>,
                 open |-> {[at |-> h, g |-> 0]}, iterations |-> 0, best |-> h]
  BY DEF StartSearch
<1> HIDE DEF h, d
<1>4. /\ DOMAIN [t \in {h} |-> 0] = {h} /\ [t \in {h} |-> 0][h] = 0 /\ [t \in {h} |-> 0] \in [{h} -> Nat]
  OBVIOUS
<1>5. /\ search'.from = h /\ search'.to = d /\ search'.g_score = [t \in {h} |-> 0]
      /\ search'.parent = <<>> /\ search'.open = {[at |-> h, g |-> 0]}
      /\ search'.iterations = 0 /\ search'.best = h
  BY <1>3
<1>6. <<>> \in [{} -> Tiles] /\ DOMAIN <<>> = {}
  OBVIOUS
<1>7. [t \in {h} |-> 0] \in Scores /\ <<>> \in Parents
  BY <1>1, <1>4, <1>6 DEF Scores, Parents
<1>8. {[at |-> h, g |-> 0]} \subseteq Entry
  BY <1>1 DEF Entry
<1>9. SearchType'
  BY <1>1, <1>3, <1>7, <1>8 DEF SearchType
<1>10. TreeInv'
  BY <1>4, <1>5, <1>6, Costs DEF TreeInv, Discovered
<1>11. OpenInv'
  BY <1>4, <1>5 DEF OpenInv, Discovered
<1>12. QED
  BY <1>2, <1>5, <1>9, <1>10, <1>11 DEF SearchInv

LEMMA SkipStaleInv ==
  ASSUME SearchInv, NEW e \in search.open, SkipStale(e)
  PROVE  SearchInv'
<1>1. /\ search' = [search EXCEPT !.open = @ \ {e}, !.iterations = @ + 1]
      /\ e.g > search.g_score[e.at]
  BY DEF SkipStale, Popped
<1>2. SearchType
  BY DEF SearchInv
<1>3. /\ search'.from = search.from /\ search'.to = search.to
      /\ search'.g_score = search.g_score /\ search'.parent = search.parent
      /\ search'.open = search.open \ {e} /\ search'.iterations = search.iterations + 1
      /\ search'.best = search.best
  BY <1>1, <1>2 DEF SearchType
<1>4. SearchType'
  <2>1. search.open \ {e} \in SUBSET Entry /\ search.iterations + 1 \in Nat
    BY <1>2, SearchParts
  <2>2. QED
    BY <1>1, <1>2, <2>1 DEF SearchType
<1>5. \A t \in Discovered : search.g_score[t] \in Nat
  BY <1>2, SearchParts
<1>6. TreeInv'
  <2>1. search.iterations \in Nat
    BY <1>2, SearchParts
  <2>2. \A t \in Discovered : search.g_score[t] <= Diagonal * (search.iterations + 1)
    BY <1>5, <2>1, Costs DEF SearchInv, TreeInv
  <2>3. QED
    BY <1>3, <2>2 DEF SearchInv, TreeInv, Discovered
<1>7. OpenInv'
  <2>1. \A t \in Discovered : [at |-> t, g |-> search.g_score[t]] # e
    BY <1>1, <1>5
  <2>2. \A t \in Discovered : Expanded(t) => Expanded(t)'
    BY <1>3 DEF Expanded, Discovered
  <2>3. QED
    BY <1>3, <2>1, <2>2 DEF SearchInv, OpenInv, Discovered
<1>8. QED
  BY <1>3, <1>4, <1>6, <1>7 DEF SearchInv

\* What the expansion of e does to the arrays: the neighbours that it improves
\* get their score and parent from it, the rest keep theirs.
LEMMA ExpandEffect ==
  ASSUME SearchInv, NEW e \in search.open, Expand(e)
  PROVE  \E better \in SUBSET Tiles :
           /\ better \subseteq Neighbours[e.at]
           /\ \A t \in Neighbours[e.at] : t \in better <=> Improves(e, t)
           /\ e.at \in Discovered /\ e.at # search.to /\ e.g = search.g_score[e.at]
           /\ SearchType'
           /\ search'.from = search.from /\ search'.to = search.to
           /\ search'.iterations = search.iterations + 1
           /\ search'.best \in {search.best, e.at}
           /\ Discovered' = Discovered \cup better
           /\ DOMAIN search'.parent = DOMAIN search.parent \cup better
           /\ \A t \in better : /\ search'.g_score[t] = e.g + MoveCost(e.at, t)
                                /\ search'.parent[t] = e.at
           /\ \A t \in Discovered \ better : search'.g_score[t] = search.g_score[t]
           /\ \A t \in DOMAIN search.parent \ better : search'.parent[t] = search.parent[t]
           /\ search'.open = (search.open \ {e})
                \cup {[at |-> t, g |-> e.g + MoveCost(e.at, t)] : t \in better}
<1> DEFINE better == {t \in Neighbours[e.at] : Improves(e, t)}
           score == [t \in better |-> e.g + MoveCost(e.at, t)]
           back == [t \in better |-> e.at]
           new == {[at |-> t, g |-> e.g + MoveCost(e.at, t)] : t \in better}
<1>1. SearchType /\ e \in Entry /\ e.at \in Tiles /\ e.g \in Nat /\ e.at \in Discovered
  BY SearchParts DEF SearchInv, OpenInv, Entry
<1>2. e.at # search.to /\ e.g = search.g_score[e.at]
  BY DEF Expand, To
<1>3. \A t \in Neighbours[e.at] : t \in Tiles /\ e.g + MoveCost(e.at, t) \in Nat
  BY <1>1, NeighbourParts, MoveCostValue
<1>4. search' = [[search EXCEPT !.open = @ \ {e}, !.iterations = @ + 1] EXCEPT
                    !.g_score = Over(score, @),
                    !.parent = Over(back, @),
                    !.open = @ \cup new,
                    !.best = IF Heuristic(e.at) < Heuristic(@) THEN e.at ELSE @]
  BY DEF Expand, Popped
<1>5. better \in SUBSET Tiles /\ better \subseteq Neighbours[e.at]
  BY <1>3
<1>6. /\ score \in [better -> Nat] /\ back \in [better -> Tiles] /\ new \subseteq Entry
      /\ \A t \in better : score[t] = e.g + MoveCost(e.at, t) /\ back[t] = e.at
      /\ \A t \in Neighbours[e.at] : t \in better <=> Improves(e, t)
  BY <1>1, <1>3 DEF Entry
<1> DEFINE gs == Over(score, search.g_score)
           ps == Over(back, search.parent)
<1> HIDE DEF better, score, back
<1>7. /\ DOMAIN gs = better \cup Discovered
      /\ \A t \in better : gs[t] = score[t]
      /\ \A t \in Discovered \ better : gs[t] = search.g_score[t]
      /\ gs \in [better \cup Discovered -> Nat]
  BY <1>1, <1>6, SearchParts DEF Discovered, Over
<1>8. /\ DOMAIN ps = better \cup DOMAIN search.parent
      /\ \A t \in better : ps[t] = back[t]
      /\ \A t \in DOMAIN search.parent \ better : ps[t] = search.parent[t]
      /\ ps \in [better \cup DOMAIN search.parent -> Tiles]
  BY <1>1, <1>6, SearchParts DEF Over
<1>9. gs \in Scores /\ ps \in Parents
  <2>1. better \cup Discovered \in SUBSET Tiles /\ better \cup DOMAIN search.parent \in SUBSET Tiles
    BY <1>1, <1>5, SearchParts
  <2>2. QED
    BY <1>7, <1>8, <2>1 DEF Scores, Parents
<1> HIDE DEF gs, ps, new
<1>10. /\ search'.from = search.from /\ search'.to = search.to
       /\ search'.g_score = gs /\ search'.parent = ps
       /\ search'.open = (search.open \ {e}) \cup new
       /\ search'.iterations = search.iterations + 1
       /\ search'.best \in {search.best, e.at}
  BY <1>1, <1>4 DEF SearchType, gs, ps
<1>11. SearchType'
  <2> DEFINE nearest == IF Heuristic(e.at) < Heuristic(search.best) THEN e.at ELSE search.best
  <2>1. /\ (search.open \ {e}) \cup new \in SUBSET Entry /\ search.iterations + 1 \in Nat
        /\ nearest \in Tiles
    BY <1>1, <1>6, SearchParts
  <2>2. search' = [search EXCEPT !.g_score = gs, !.parent = ps,
                     !.open = (search.open \ {e}) \cup new,
                     !.iterations = search.iterations + 1, !.best = nearest]
    BY <1>1, <1>4 DEF SearchType, gs, ps
  <2> HIDE DEF nearest
  <2>3. QED
    BY <1>1, <1>9, <2>1, <2>2 DEF SearchType
<1>12. QED
  BY <1>1, <1>2, <1>5, <1>6, <1>7, <1>8, <1>10, <1>11 DEF Discovered, new

LEMMA ExpandInv ==
  ASSUME SearchInv, NEW e \in search.open, Expand(e)
  PROVE  SearchInv'
<1> DEFINE c == e.at
           tree == search.parent
           g == search.g_score
           g2 == search'.g_score
<1>1. /\ SearchType /\ c \in Tiles /\ e = [at |-> c, g |-> g[c]] /\ g \in [Discovered -> Nat]
      /\ Discovered \subseteq Tiles /\ DOMAIN tree \subseteq Tiles /\ search.iterations \in Nat
  <2>1. /\ SearchType /\ search.open \subseteq Entry /\ g \in [Discovered -> Nat]
        /\ Discovered \subseteq Tiles /\ DOMAIN tree \subseteq Tiles /\ search.iterations \in Nat
    BY SearchParts DEF SearchInv
  <2>2. e.g = g[c]
    BY DEF Expand
  <2>3. QED
    BY <2>1, <2>2 DEF Entry
<1>2. PICK better \in SUBSET Tiles :
        /\ better \subseteq Neighbours[c]
        /\ \A t \in Neighbours[c] : t \in better <=> Improves(e, t)
        /\ c \in Discovered /\ c # search.to /\ e.g = g[c]
        /\ SearchType'
        /\ search'.from = search.from /\ search'.to = search.to
        /\ search'.iterations = search.iterations + 1
        /\ search'.best \in {search.best, c}
        /\ Discovered' = Discovered \cup better
        /\ DOMAIN search'.parent = DOMAIN tree \cup better
        /\ \A t \in better : g2[t] = e.g + MoveCost(c, t) /\ search'.parent[t] = c
        /\ \A t \in Discovered \ better : g2[t] = g[t]
        /\ \A t \in DOMAIN tree \ better : search'.parent[t] = tree[t]
        /\ search'.open = (search.open \ {e}) \cup {[at |-> t, g |-> e.g + MoveCost(c, t)] : t \in better}
  BY ExpandEffect, Zenon
<1>3. c \notin better /\ g2[c] = g[c]
  BY <1>1, <1>2, NeighbourParts
<1>4. \A t \in Discovered : g[t] \in Nat /\ g[t] <= Diagonal * search.iterations
  BY <1>1 DEF SearchInv, TreeInv
<1>5. \A t \in better : g2[t] = g[c] + MoveCost(c, t) /\ g2[t] \in Nat
  BY <1>1, <1>2, <1>4, MoveCostValue
<1>6. \A t \in Discovered : g2[t] \in Nat /\ g2[t] <= g[t]
  <2>1. \A t \in Discovered \cap better : g2[t] < g[t]
    BY <1>2 DEF Improves, Discovered
  <2>2. QED
    BY <1>2, <1>4, <1>5, <2>1
<1>7. /\ search.from \in Discovered /\ g[search.from] = 0 /\ search.best \in Discovered
      /\ DOMAIN tree = Discovered \ {search.from}
  BY DEF SearchInv, TreeInv
<1>8. search.from \notin better
  <2>1. search.from \in better => g[c] + MoveCost(c, search.from) < g[search.from]
    BY <1>2, <1>7 DEF Improves, Discovered
  <2>2. QED
    BY <1>2, <1>4, <1>7, <2>1, MoveCostValue
<1>9. TreeInv'
  <2>1. /\ search'.from \in Discovered' /\ g2[search'.from] = 0
        /\ DOMAIN search'.parent = Discovered' \ {search'.from}
        /\ search'.best \in Discovered'
    BY <1>2, <1>7, <1>8
  <2>2. ASSUME NEW t \in better
        PROVE  /\ c \in Discovered' /\ t \in Neighbours[c] /\ search'.parent[t] = c
               /\ g2[c] + MoveCost(c, t) <= g2[t]
    BY <1>2, <1>3, <1>4, <1>5, MoveCostValue
  <2>3. ASSUME NEW t \in DOMAIN tree \ better
        PROVE  /\ tree[t] \in Discovered' /\ t \in Neighbours[tree[t]] /\ search'.parent[t] = tree[t]
               /\ g2[tree[t]] + MoveCost(tree[t], t) <= g2[t]
    <3>1. /\ tree[t] \in Discovered /\ t \in Neighbours[tree[t]]
          /\ g[tree[t]] + MoveCost(tree[t], t) <= g[t]
      BY DEF SearchInv, TreeInv
    <3>2. t \in Discovered /\ g2[t] = g[t] /\ search'.parent[t] = tree[t]
      BY <1>2, <1>7
    <3>3. g2[tree[t]] <= g[tree[t]] /\ g2[tree[t]] \in Nat /\ g[tree[t]] \in Nat /\ g[t] \in Nat
      BY <1>4, <1>6, <3>1, <3>2
    <3>4. QED
      BY <1>2, <3>1, <3>2, <3>3, MoveCostValue
  <2>4. ASSUME NEW t \in Discovered'
        PROVE  g2[t] <= Diagonal * search'.iterations
    <3>1. CASE t \in better
      <4>1. g2[t] = g[c] + MoveCost(c, t) /\ g[c] \in Nat /\ g[c] <= Diagonal * search.iterations
        BY <1>2, <1>4, <1>5, <3>1, Costs
      <4>2. MoveCost(c, t) \in Nat /\ MoveCost(c, t) <= Diagonal
        BY MoveCostValue, Costs
      <4>3. QED
        BY <1>1, <1>2, <4>1, <4>2, Costs
    <3>2. CASE t \notin better
      BY <1>1, <1>2, <1>4, <3>2, Costs
    <3>3. QED
      BY <3>1, <3>2
  <2>5. \A t \in DOMAIN search'.parent :
          /\ search'.parent[t] \in Discovered' /\ t \in Neighbours[search'.parent[t]]
          /\ g2[search'.parent[t]] + MoveCost(search'.parent[t], t) <= g2[t]
    BY <1>2, <2>2, <2>3
  <2>6. QED
    BY <2>1, <2>4, <2>5 DEF TreeInv
<1>10. OpenInv'
  <2>1. ASSUME NEW o \in search'.open
        PROVE  o.at \in Discovered' /\ g2[o.at] <= o.g
    <3>1. CASE o \in search.open
      <4>1. o \in Entry /\ o.at \in Discovered /\ g[o.at] <= o.g
        BY <1>1, <3>1, SearchParts DEF SearchInv, OpenInv
      <4>2. o.g \in Nat
        BY <4>1 DEF Entry
      <4>3. QED
        BY <1>2, <1>4, <1>6, <4>1, <4>2
    <3>2. CASE o \in {[at |-> t, g |-> e.g + MoveCost(c, t)] : t \in better}
      BY <1>2, <1>5, <3>2
    <3>3. QED
      BY <1>2, <3>1, <3>2
  <2>2. ASSUME NEW t \in Discovered'
        PROVE  [at |-> t, g |-> g2[t]] \in search'.open \/ Expanded(t)'
    <3>1. CASE t \in better
      BY <1>2, <3>1
    <3>2. CASE t = c
      <4>1. ASSUME NEW n \in Neighbours[c]
            PROVE  n \in Discovered' /\ g2[n] <= g2[c] + MoveCost(c, n)
        <5>1. CASE n \in better
          BY <1>2, <1>3, <1>5, <5>1
        <5>2. CASE n \notin better
          <6>1. n \in Discovered /\ ~(g[c] + MoveCost(c, n) < g[n])
            BY <1>2, <5>2 DEF Improves, Discovered
          <6>2. QED
            BY <1>2, <1>3, <1>4, <1>6, <6>1, MoveCostValue
        <5>3. QED
          BY <5>1, <5>2
      <4>2. QED
        BY <1>2, <3>2, <4>1 DEF Expanded
    <3>3. CASE t \notin better /\ t # c
      <4>1. t \in Discovered /\ g2[t] = g[t]
        BY <1>2, <3>3
      <4>2. CASE [at |-> t, g |-> g[t]] \in search.open
        <5>1. [at |-> t, g |-> g[t]] # e
          BY <3>3
        <5>2. QED
          BY <1>2, <4>1, <4>2, <5>1
      <4>3. CASE Expanded(t)
        <5>1. ASSUME NEW n \in Neighbours[t]
              PROVE  n \in Discovered' /\ g2[n] <= g2[t] + MoveCost(t, n)
          <6>1. n \in Discovered /\ g[n] <= g[t] + MoveCost(t, n)
            BY <4>3 DEF Expanded
          <6>2. QED
            BY <1>2, <1>4, <1>6, <4>1, <6>1, MoveCostValue
        <5>2. QED
          BY <1>2, <4>3, <5>1 DEF Expanded
      <4>4. QED
        BY <4>1, <4>2, <4>3 DEF SearchInv, OpenInv
    <3>4. QED
      BY <3>1, <3>2, <3>3
  <2>3. QED
    BY <2>1, <2>2 DEF OpenInv
<1>11. search'.from # search'.to
  BY <1>2 DEF SearchInv
<1>12. QED
  BY <1>2, <1>9, <1>10, <1>11 DEF SearchInv

\* Every other step leaves FindPath or does not enter it.
LEMMA PathInvStep ==
  ASSUME PathInv, [Next]_vars
  PROVE  PathInv'
<1>1. SUFFICES ASSUME phase' = "Search" PROVE SearchInv'
  BY DEF PathInv
<1>2. ASSUME NEW after \in {"Orders", "Move"}, NextTurn(after)
      PROVE  FALSE
  BY <1>1, <1>2 DEF NextTurn
<1>3. CASE UNCHANGED vars
  BY <1>1, <1>3 DEF PathInv, vars, SearchInv, SearchType, TreeInv, OpenInv, Expanded, Discovered
<1>4. CASE \/ \E n \in Npcs, t \in Targets : Job(n, t) \/ Steer(n, t) \/ SitDown(n, t)
           \/ \E n \in Npcs : Hold(n) \/ Interrupt(n) \/ Resume(n)
           \/ RunSystems
  BY <1>1, <1>4 DEF Job, Steer, SitDown, Hold, Interrupt, Resume, RunSystems, Ordered
<1>5. CASE \/ Dismiss \/ PlanStraight \/ KeepPath \/ PutOff
           \/ FindSameTile \/ FindNothing \/ FindCached \/ GiveUp
           \/ \E e \in search.open : ReachGoal(e)
  BY <1>2, <1>5 DEF Dismiss, PlanStraight, KeepPath, PutOff, FindSameTile, FindNothing,
                    FindCached, GiveUp, ReachGoal, Finds
<1>6. CASE \/ Stand \/ ArriveStraight \/ GoStraight \/ Drift
           \/ PassWaypoint \/ FollowPath \/ StandOnPath \/ ArriveByPath \/ NextLeg
  BY <1>2, <1>6 DEF Stand, ArriveStraight, GoStraight, Drift, PassWaypoint, FollowPath,
                    StandOnPath, ArriveByPath, NextLeg, Moves
<1>7. CASE StartSearch
  BY <1>7, StartSearchInv
<1>8. ASSUME NEW e \in search.open, SkipStale(e) \/ Expand(e)
      PROVE  SearchInv'
  <2>1. SearchInv
    BY <1>8 DEF PathInv, SkipStale, Expand, Top
  <2>2. QED
    BY <1>8, <2>1, SkipStaleInv, ExpandInv
<1>9. QED
  BY <1>3, <1>4, <1>5, <1>6, <1>7, <1>8 DEF Next, Frame

-----------------------------------------------------------------------------
(* Nothing is nearer than what the search found.                           *)

\* A lower bound of what a walk to t costs: its score, as far as that is below
\* what the estimate leaves of the price of the goal.
Bound(price, t) ==
  IF t \in Discovered /\ search.g_score[t] <= price - Heuristic(t)
  THEN search.g_score[t]
  ELSE price - Heuristic(t)

\* When the goal is on top, no step of a walker gets ahead of the bound.
LEMMA GoalBound ==
  ASSUME SearchInv, NEW e \in search.open, Top(e), e.at = To
  PROVE  /\ e.g \in Nat /\ e.g = search.g_score[To]
         /\ Bound(e.g, search.from) <= 0 /\ Bound(e.g, To) = e.g
         /\ \A t \in Tiles : Bound(e.g, t) \in Int
         /\ \A s \in Steps : Bound(e.g, s[2]) <= Bound(e.g, s[1]) + MoveCost(s[1], s[2])
<1> DEFINE g == search.g_score
<1>1. /\ e \in Entry /\ e.g \in Nat /\ To \in Tiles /\ search.from \in Tiles
      /\ Discovered \subseteq Tiles /\ To \in Discovered /\ g[To] <= e.g
      /\ \A t \in Discovered : g[t] \in Nat
  BY SearchParts DEF SearchInv, OpenInv, Entry, To
<1>2. \A t \in Tiles : Heuristic(t) \in Int
  BY <1>1, OctileValue DEF Heuristic
<1>3. Heuristic(To) = 0
  BY <1>1, OctileValue DEF Heuristic
<1>4. ASSUME NEW t \in Discovered, [at |-> t, g |-> g[t]] \in search.open
      PROVE  e.g <= g[t] + Heuristic(t)
  <2>1. e.g + Heuristic(e.at) <= g[t] + Heuristic(t)
    BY <1>4 DEF Top
  <2>2. QED
    BY <1>1, <1>3, <2>1
<1>5. e.g = g[To]
  <2>1. [at |-> To, g |-> g[To]] \in search.open
    BY <1>1 DEF SearchInv, OpenInv, Expanded, To
  <2>2. e.g <= g[To]
    BY <1>1, <1>3, <1>4, <2>1
  <2>3. QED
    BY <1>1, <2>2
<1>6. \A t \in Tiles : Bound(e.g, t) \in Int /\ Bound(e.g, t) <= e.g - Heuristic(t)
  BY <1>1, <1>2 DEF Bound
<1>7. Bound(e.g, search.from) <= 0
  <2>1. search.from \in Discovered /\ g[search.from] = 0
    BY DEF SearchInv, TreeInv
  <2>2. QED
    BY <1>1, <1>2, <2>1 DEF Bound
<1>8. Bound(e.g, To) = e.g
  BY <1>1, <1>3, <1>5 DEF Bound
<1>9. ASSUME NEW s \in Steps
      PROVE  Bound(e.g, s[2]) <= Bound(e.g, s[1]) + MoveCost(s[1], s[2])
  <2> DEFINE a == s[1]
             b == s[2]
  <2>1. a \in Tiles /\ b \in Tiles /\ s = <<a, b>>
    BY DEF Steps
  <2>2. b \in Neighbours[a] /\ b \in Adjacent[a]
    BY <2>1, NeighboursAreSteps, NeighbourParts
  <2>3. Heuristic(a) <= MoveCost(a, b) + Heuristic(b)
    BY <1>1, <2>1, <2>2, OctileIsConsistent DEF Heuristic
  <2>4. MoveCost(a, b) \in Nat
    BY MoveCostValue
  <2>5. CASE Bound(e.g, a) = e.g - Heuristic(a)
    BY <1>1, <1>2, <1>6, <2>1, <2>3, <2>4, <2>5
  <2>6. CASE Bound(e.g, a) # e.g - Heuristic(a)
    <3>1. a \in Discovered /\ Bound(e.g, a) = g[a] /\ g[a] < e.g - Heuristic(a)
      BY <1>1, <1>2, <2>1, <2>6 DEF Bound
    <3>2. Expanded(a)
      <4>1. [at |-> a, g |-> g[a]] \notin search.open
        BY <1>1, <1>2, <1>4, <2>1, <3>1
      <4>2. QED
        BY <3>1, <4>1 DEF SearchInv, OpenInv
    <3>3. b \in Discovered /\ g[b] <= g[a] + MoveCost(a, b)
      BY <2>2, <3>2 DEF Expanded
    <3>4. Bound(e.g, b) <= g[b]
      BY <1>1, <1>2, <2>1, <3>3 DEF Bound
    <3>5. QED
      BY <1>1, <1>6, <2>1, <2>4, <3>1, <3>3, <3>4
  <2>7. QED
    BY <2>5, <2>6
<1>10. QED
  BY <1>1, <1>5, <1>6, <1>7, <1>8, <1>9

-----------------------------------------------------------------------------
(* The reference: the cheapest walks.                                      *)

Walk == Tiles \X Tiles \X Nat

Longer(walks) ==
  UNION {{<<w[1], s[2], w[3] + MoveCost(s[1], s[2])>> : s \in {r \in Steps : r[1] = w[2]}} :
           w \in walks}

LEMMA RelaxedParts ==
  ASSUME NEW walks
  PROVE  Relaxed(walks) =
           {w \in walks \cup Longer(walks) :
              \A v \in walks \cup Longer(walks) : v[1] = w[1] /\ v[2] = w[2] => w[3] <= v[3]}
BY DEF Relaxed, Longer

LEMMA LongerWalk ==
  ASSUME NEW walks \in SUBSET Walk
  PROVE  /\ \A x \in Longer(walks) :
              \E w \in walks, s \in Steps :
                /\ s[1] = w[2] /\ x = <<w[1], s[2], w[3] + MoveCost(s[1], s[2])>>
         /\ \A w \in walks, s \in Steps :
              s[1] = w[2] => <<w[1], s[2], w[3] + MoveCost(s[1], s[2])>> \in Longer(walks)
         /\ Longer(walks) \subseteq Walk
<1>1. \A x \in Longer(walks) :
        \E w \in walks, s \in Steps :
          s[1] = w[2] /\ x = <<w[1], s[2], w[3] + MoveCost(s[1], s[2])>>
  BY DEF Longer
<1>2. \A w \in walks, s \in Steps :
        s[1] = w[2] => <<w[1], s[2], w[3] + MoveCost(s[1], s[2])>> \in Longer(walks)
  BY DEF Longer
<1>3. ASSUME NEW w \in walks, NEW s \in Steps
      PROVE  <<w[1], s[2], w[3] + MoveCost(s[1], s[2])>> \in Walk
  <2>1. w[1] \in Tiles /\ w[3] \in Nat /\ s[2] \in Tiles
    BY DEF Walk, Steps
  <2>2. QED
    BY <2>1, MoveCostValue DEF Walk
<1>4. QED
  BY <1>1, <1>2, <1>3

LEMMA WalkParts ==
  ASSUME NEW w \in Walk
  PROVE  w = <<w[1], w[2], w[3]>> /\ w[1] \in Tiles /\ w[2] \in Tiles /\ w[3] \in Nat
BY DEF Walk

LEMMA RelaxedType ==
  ASSUME NEW walks \in SUBSET Walk
  PROVE  Relaxed(walks) \in SUBSET Walk
BY RelaxedParts, LongerWalk

\* The recursion that defines the cheapest walks has a solution.
LEMMA WithinRecursion ==
  /\ Within \in [Nat -> SUBSET Walk]
  /\ Within[0] = {<<a, a, 0>> : a \in Tiles}
  /\ \A k \in Nat : Within[k + 1] = Relaxed(Within[k])
<1> DEFINE base == {<<a, a, 0>> : a \in Tiles}
           step == [p \in Nat \X SUBSET Walk |-> Relaxed(p[2])]
           Def(f) == [k \in Nat |-> IF k = 0 THEN base ELSE Relaxed(f[k - 1])]
<1>1. base \in SUBSET Walk
  BY DEF Walk
<1>2. step \in [Nat \X SUBSET Walk -> SUBSET Walk]
  BY RelaxedType
<1>3. PICK f \in [Nat -> SUBSET Walk] : f[0] = base /\ \A k \in Nat : f[k + 1] = step[<<k, f[k]>>]
  <2> HIDE DEF base, step
  <2>1. \E f \in [Nat -> SUBSET Walk] : Follows(f, base, step)
    BY <1>1, <1>2, RecursionExists
  <2>2. QED
    BY <2>1 DEF Follows
<1>4. \A k \in Nat : f[k + 1] = Relaxed(f[k])
  BY <1>3
<1> HIDE DEF base
<1>5. f = Def(f)
  <2>1. ASSUME NEW k \in Nat, k # 0
        PROVE  f[k] = Relaxed(f[k - 1])
    <3>1. k - 1 \in Nat /\ (k - 1) + 1 = k
      BY <2>1
    <3>2. f[(k - 1) + 1] = Relaxed(f[k - 1])
      BY <1>4, <3>1
    <3>3. QED
      BY <3>1, <3>2
  <2>2. QED
    BY <1>3, <2>1
<1>6. Within = CHOOSE h : h = Def(h)
  BY DEF Within, base
<1>7. Within = Def(Within)
  <2> HIDE DEF Def
  <2>1. QED
    BY <1>5, <1>6
<1>8. Within[0] = base /\ \A k \in Nat : Within[k + 1] = Relaxed(Within[k])
  BY <1>7
<1> DEFINE typed == {k \in Nat : Within[k] \in SUBSET Walk}
<1>9. Nat \subseteq typed
  <2>1. 0 \in typed
    BY <1>1, <1>8
  <2>2. ASSUME NEW k \in Nat, k \in typed
        PROVE  k + 1 \in typed
    BY <1>8, <2>2, RelaxedType
  <2> HIDE DEF typed
  <2>3. QED
    BY <2>1, <2>2, Induction
<1>10. DOMAIN Within = Nat /\ Within = [k \in Nat |-> Within[k]]
  BY <1>7
<1>11. QED
  BY <1>8, <1>9, <1>10 DEF base

\* Relaxation loses no walk but to one that is as cheap.
LEMMA RelaxedKeeps ==
  ASSUME NEW walks \in SUBSET Walk, NEW x \in walks \cup Longer(walks)
  PROVE  \E w \in Relaxed(walks) : w[1] = x[1] /\ w[2] = x[2] /\ w[3] <= x[3]
<1> DEFINE all == walks \cup Longer(walks)
           same == {v \in all : v[1] = x[1] /\ v[2] = x[2]}
           costs == {v[3] : v \in same}
<1>1. all \subseteq Walk /\ \A v \in all : v[3] \in Nat
  BY LongerWalk DEF Walk
<1>2. costs \subseteq Nat /\ x[3] \in costs
  BY <1>1
<1>3. PICK m \in costs : \A n \in costs : m <= n
  <2> HIDE DEF costs
  <2>1. QED
    BY <1>2, Least
<1>4. PICK w \in same : w[3] = m
  BY <1>3
<1>5. \A v \in all : v[1] = w[1] /\ v[2] = w[2] => w[3] <= v[3]
  BY <1>3, <1>4
<1>6. w \in Relaxed(walks)
  BY <1>4, <1>5, RelaxedParts
<1>7. QED
  BY <1>2, <1>3, <1>4, <1>6

\* A bound that no step beats is beaten by no walk.
LEMMA WalksRespectBound ==
  ASSUME NEW B \in [Tiles -> Int],
         \A s \in Steps : B[s[2]] <= B[s[1]] + MoveCost(s[1], s[2])
  PROVE  \A k \in Nat : \A w \in Within[k] : B[w[2]] <= B[w[1]] + w[3]
<1> DEFINE good == {k \in Nat : \A w \in Within[k] : B[w[2]] <= B[w[1]] + w[3]}
<1>1. \A k \in Nat : Within[k] \in SUBSET Walk
  BY WithinRecursion
<1>2. 0 \in good
  <2>1. ASSUME NEW w \in Within[0]
        PROVE  B[w[2]] <= B[w[1]] + w[3]
    <3>1. PICK a \in Tiles : w = <<a, a, 0>>
      BY WithinRecursion
    <3>2. QED
      BY <3>1
  <2>2. QED
    BY <2>1
<1>3. ASSUME NEW k \in Nat, k \in good
      PROVE  k + 1 \in good
  <2>1. ASSUME NEW x \in Within[k + 1]
        PROVE  B[x[2]] <= B[x[1]] + x[3]
    <3>1. x \in Within[k] \cup Longer(Within[k])
      BY WithinRecursion, RelaxedParts
    <3>2. CASE x \in Within[k]
      BY <1>3, <3>2
    <3>3. CASE x \in Longer(Within[k])
      <4>1. PICK w \in Within[k], s \in Steps :
              s[1] = w[2] /\ x = <<w[1], s[2], w[3] + MoveCost(s[1], s[2])>>
        BY <1>1, <3>3, LongerWalk
      <4>2. /\ w[1] \in Tiles /\ w[2] \in Tiles /\ w[3] \in Nat /\ s[2] \in Tiles
            /\ MoveCost(s[1], s[2]) \in Nat
        BY <1>1, MoveCostValue DEF Walk, Steps
      <4>3. B[w[2]] <= B[w[1]] + w[3] /\ B[s[2]] <= B[w[2]] + MoveCost(s[1], s[2])
        BY <1>3, <4>1
      <4>4. B[w[1]] \in Int /\ B[w[2]] \in Int /\ B[s[2]] \in Int
        BY <4>2
      <4>5. B[s[2]] <= B[w[1]] + (w[3] + MoveCost(s[1], s[2]))
        BY <4>2, <4>3, <4>4
      <4>6. x[1] = w[1] /\ x[2] = s[2] /\ x[3] = w[3] + MoveCost(s[1], s[2])
        BY <4>1
      <4>7. QED
        BY <4>5, <4>6
    <3>4. QED
      BY <3>1, <3>2, <3>3
  <2>2. QED
    BY <2>1
<1> HIDE DEF good
<1>4. Nat \subseteq good
  BY <1>2, <1>3, Induction
<1>5. QED
  BY <1>4 DEF good

\* A sequence of steps, and what it has cost at each of its tiles.
StepsOf(path) == \A i \in 2 .. Len(path) : <<path[i - 1], path[i]>> \in Steps

CostsOf(path, cost) ==
  /\ cost[1] = 0
  /\ \A i \in 2 .. Len(path) : cost[i] = cost[i - 1] + MoveCost(path[i - 1], path[i])

\* Every walk is found after as many rounds as it has steps, or a cheaper one is.
LEMMA WalkIsFound ==
  ASSUME NEW path \in Seq(Tiles), StepsOf(path),
         NEW cost, \A i \in Nat : cost[i] \in Nat, CostsOf(path, cost)
  PROVE  \A k \in Nat : \A i \in 1 .. Len(path) :
           i <= k + 1 =>
             \E w \in Within[k] : w[1] = path[1] /\ w[2] = path[i] /\ w[3] <= cost[i]
<1> DEFINE Found(k, i) == \E w \in Within[k] : w[1] = path[1] /\ w[2] = path[i] /\ w[3] <= cost[i]
           good == {k \in Nat : \A i \in 1 .. Len(path) : i <= k + 1 => Found(k, i)}
<1>1. \A k \in Nat : Within[k] \in SUBSET Walk /\ Within[k + 1] = Relaxed(Within[k])
  BY WithinRecursion
<1>2. Len(path) \in Nat /\ \A i \in 1 .. Len(path) : path[i] \in Tiles
  OBVIOUS
<1> HIDE DEF Found
<1>3. 0 \in good
  <2>1. ASSUME NEW i \in 1 .. Len(path), i <= 1
        PROVE  Found(0, i)
    <3>1. i = 1 /\ path[1] \in Tiles /\ cost[1] = 0
      BY <1>2, <2>1 DEF CostsOf
    <3>2. <<path[1], path[1], 0>> \in Within[0]
      BY <3>1, WithinRecursion
    <3>3. \E w \in Within[0] : w[1] = path[1] /\ w[2] = path[i] /\ w[3] <= cost[i]
      <4> DEFINE w == <<path[1], path[1], 0>>
      <4>1. w \in Within[0] /\ w[1] = path[1] /\ w[2] = path[i] /\ w[3] = 0
        BY <3>1, <3>2
      <4>2. cost[i] = 0
        BY <3>1
      <4> HIDE DEF w
      <4>3. QED
        BY <4>1, <4>2
    <3>4. QED
      BY <3>3 DEF Found
  <2>2. QED
    BY <2>1
<1>4. ASSUME NEW k \in Nat, k \in good
      PROVE  k + 1 \in good
  <2>1. ASSUME NEW i \in 1 .. Len(path), i <= k + 2
        PROVE  Found(k + 1, i)
    <3>1. \E x \in Within[k] \cup Longer(Within[k]) :
            x[1] = path[1] /\ x[2] = path[i] /\ x[3] <= cost[i]
      <4>1. CASE i <= k + 1
        BY <1>4, <4>1 DEF Found
      <4>2. CASE i = k + 2
        <5>1. i - 1 \in 1 .. Len(path) /\ i - 1 <= k + 1 /\ i \in 2 .. Len(path)
          BY <1>2, <4>2
        <5>2. PICK w \in Within[k] : w[1] = path[1] /\ w[2] = path[i - 1] /\ w[3] <= cost[i - 1]
          BY <1>4, <5>1 DEF Found
        <5> DEFINE s == <<path[i - 1], path[i]>>
                   x == <<w[1], s[2], w[3] + MoveCost(s[1], s[2])>>
        <5>3. s \in Steps /\ s[1] = w[2]
          BY <5>1, <5>2 DEF StepsOf
        <5>4. x \in Longer(Within[k])
          BY <1>1, <5>3, LongerWalk
        <5>5. cost[i] = cost[i - 1] + MoveCost(s[1], s[2])
          BY <5>1 DEF CostsOf
        <5>6. /\ w[3] \in Nat /\ cost[i - 1] \in Nat /\ cost[i] \in Nat
              /\ MoveCost(s[1], s[2]) \in Nat
          BY <1>1, <1>2, <5>1, MoveCostValue, WalkParts
        <5>7. x[1] = w[1] /\ x[2] = path[i] /\ x[3] = w[3] + MoveCost(s[1], s[2])
          OBVIOUS
        <5> HIDE DEF x
        <5>8. x[3] <= cost[i]
          BY <5>2, <5>5, <5>6, <5>7
        <5>9. QED
          BY <5>2, <5>4, <5>7, <5>8
      <4>3. QED
        BY <2>1, <4>1, <4>2
    <3>2. PICK x \in Within[k] \cup Longer(Within[k]) :
            x[1] = path[1] /\ x[2] = path[i] /\ x[3] <= cost[i]
      BY <3>1
    <3>3. PICK w \in Relaxed(Within[k]) : w[1] = x[1] /\ w[2] = x[2] /\ w[3] <= x[3]
      BY <1>1, RelaxedKeeps
    <3>4. w[3] \in Nat /\ x[3] \in Nat /\ cost[i] \in Nat
      <4>1. w \in Walk /\ x \in Walk
        BY <1>1, RelaxedType, LongerWalk
      <4>2. i \in Nat
        BY <1>2
      <4>3. QED
        BY <4>1, <4>2, WalkParts
    <3>5. w[3] <= cost[i]
      BY <3>2, <3>3, <3>4
    <3>6. QED
      BY <1>1, <3>2, <3>3, <3>5 DEF Found
  <2>2. QED
    BY <2>1
<1> HIDE DEF good
<1>5. Nat \subseteq good
  BY <1>3, <1>4, Induction
<1>6. QED
  BY <1>5 DEF good, Found

\* Length adds up the costs of a path.
LEMMA LengthIsCost ==
  ASSUME NEW path \in Seq(Tiles), Len(path) > 0
  PROVE  \E cost : (\A i \in Nat : cost[i] \in Nat) /\ CostsOf(path, cost) /\ Length(path) = cost[Len(path)]
<1> DEFINE Def(f) == [i \in Nat |-> IF i <= 1 THEN 0
                                    ELSE f[i - 1] + MoveCost(path[i - 1], path[i])]
           step == [p \in Nat \X Nat |-> IF p[1] = 0 THEN 0
                                         ELSE p[2] + MoveCost(path[p[1]], path[p[1] + 1])]
           upTo == CHOOSE f : f = Def(f)
<1>1. step \in [Nat \X Nat -> Nat]
  BY MoveCostValue
<1>2. PICK f \in [Nat -> Nat] : f[0] = 0 /\ \A k \in Nat : f[k + 1] = step[<<k, f[k]>>]
  <2> HIDE DEF step
  <2>1. \E f \in [Nat -> Nat] : Follows(f, 0, step)
    BY <1>1, RecursionExists
  <2>2. QED
    BY <2>1 DEF Follows
<1>3. \A k \in Nat : f[k + 1] = IF k = 0 THEN 0 ELSE f[k] + MoveCost(path[k], path[k + 1])
  BY <1>2
<1>4. f = Def(f)
  <2>1. ASSUME NEW i \in Nat, i > 1
        PROVE  f[i] = f[i - 1] + MoveCost(path[i - 1], path[i])
    <3>1. i - 1 \in Nat /\ i - 1 # 0 /\ (i - 1) + 1 = i
      BY <2>1
    <3>2. f[(i - 1) + 1] = f[i - 1] + MoveCost(path[i - 1], path[(i - 1) + 1])
      BY <1>3, <3>1
    <3>3. QED
      BY <3>1, <3>2
  <2>2. f[0] = 0 /\ f[1] = 0
    BY <1>2, <1>3
  <2>3. \A i \in Nat : f[i] = IF i <= 1 THEN 0 ELSE f[i - 1] + MoveCost(path[i - 1], path[i])
    BY <2>1, <2>2
  <2>4. QED
    BY <2>3
<1>5. upTo = Def(upTo)
  <2> HIDE DEF Def
  <2>1. QED
    BY <1>4
<1>6. Length(path) = upTo[Len(path)]
  BY DEF Length
<1> HIDE DEF upTo
<1>7. /\ DOMAIN upTo = Nat
      /\ \A i \in Nat : upTo[i] = IF i <= 1 THEN 0 ELSE upTo[i - 1] + MoveCost(path[i - 1], path[i])
  BY <1>5
<1> DEFINE typed == {i \in Nat : upTo[i] \in Nat}
<1>8. Nat \subseteq typed
  <2>1. 0 \in typed
    BY <1>7
  <2>2. ASSUME NEW k \in Nat, k \in typed
        PROVE  k + 1 \in typed
    <3>1. k + 1 \in Nat /\ (k + 1) - 1 = k
      OBVIOUS
    <3> DEFINE m == MoveCost(path[k], path[k + 1])
               u == upTo[k]
               next == upTo[k + 1]
    <3>2. next = 0 \/ next = u + m
      BY <1>7, <3>1
    <3>3. u \in Nat /\ m \in Nat
      BY <2>2, MoveCostValue
    <3> HIDE DEF m, u, next
    <3>4. next \in Nat
      BY <3>2, <3>3
    <3>5. QED
      BY <3>1, <3>4 DEF next
  <2> HIDE DEF typed
  <2>3. QED
    BY <2>1, <2>2, Induction
<1>9. CostsOf(path, upTo)
  BY <1>7 DEF CostsOf
<1>10. QED
  BY <1>6, <1>8, <1>9

-----------------------------------------------------------------------------
(* The way back along the parents.                                         *)

\* p leads from the start to t, every tile of it from its parent.
Traces(p, t) ==
  /\ p \in Seq(Tiles) /\ Len(p) > 0
  /\ p[1] = search.from /\ p[Len(p)] = t
  /\ \A i \in 2 .. Len(p) : p[i] \in DOMAIN search.parent /\ p[i - 1] = search.parent[p[i]]

\* One more tile of the way back.
TraceBack(f, u) == IF u \in DOMAIN search.parent THEN Append(f[search.parent[u]], u) ELSE <<u>>

LEMMA TreeParts ==
  ASSUME SearchInv
  PROVE  /\ DOMAIN search.parent \subseteq Discovered /\ Discovered \subseteq Tiles
         /\ search.from \in Discovered /\ search.from \notin DOMAIN search.parent
         /\ \A t \in Discovered : /\ search.g_score[t] \in Nat
                                  /\ search.g_score[t] <= Diagonal * search.iterations
                                  /\ t = search.from \/ t \in DOMAIN search.parent
         /\ \A t \in DOMAIN search.parent :
              /\ search.parent[t] \in Discovered /\ search.parent[t] \in Tiles
              /\ <<search.parent[t], t>> \in Steps
              /\ search.g_score[search.parent[t]] + MoveCost(search.parent[t], t) <= search.g_score[t]
              /\ search.g_score[search.parent[t]] < search.g_score[t]
<1>1. /\ SearchType /\ Discovered \subseteq Tiles
      /\ \A t \in Discovered : search.g_score[t] \in Nat
  BY SearchParts DEF SearchInv
<1>2. /\ search.from \in Discovered /\ DOMAIN search.parent = Discovered \ {search.from}
      /\ \A t \in DOMAIN search.parent :
           /\ search.parent[t] \in Discovered /\ t \in Neighbours[search.parent[t]]
           /\ search.g_score[search.parent[t]] + MoveCost(search.parent[t], t) <= search.g_score[t]
      /\ \A t \in Discovered : search.g_score[t] <= Diagonal * search.iterations
  BY DEF SearchInv, TreeInv
<1>3. ASSUME NEW t \in DOMAIN search.parent
      PROVE  /\ search.parent[t] \in Tiles
             /\ <<search.parent[t], t>> \in Steps
             /\ search.g_score[search.parent[t]] < search.g_score[t]
  <2>1. t \in Tiles /\ search.parent[t] \in Tiles /\ <<search.parent[t], t>> \in Steps
    BY <1>1, <1>2, NeighboursAreSteps
  <2> DEFINE a == search.g_score[search.parent[t]]
             b == search.g_score[t]
             m == MoveCost(search.parent[t], t)
  <2>2. a \in Nat /\ b \in Nat /\ m \in Nat /\ 0 < m /\ a + m <= b
    BY <1>1, <1>2, MoveCostValue
  <2> HIDE DEF a, b, m
  <2>3. a < b
    BY <2>2
  <2>4. QED
    BY <2>1, <2>3 DEF a, b
<1>4. QED
  BY <1>1, <1>2, <1>3

\* The scores fall along the parents, so that the recursion of PathTo ends.
LEMMA TreeRecursion ==
  ASSUME SearchInv
  PROVE  \E f \in [Tiles -> Seq(Tiles)] : \A u \in Tiles : f[u] = TraceBack(f, u)
<1> DEFINE g == search.g_score
           tree == search.parent
           Solves(f, k) == \A u \in Tiles :
                             u \notin DOMAIN tree \/ g[u] < k => f[u] = TraceBack(f, u)
           good == {k \in Nat : \E f \in [Tiles -> Seq(Tiles)] : Solves(f, k)}
<1>1. \A u \in Tiles : <<u>> \in Seq(Tiles)
  OBVIOUS
<1>2. 0 \in good
  <2> DEFINE f == [u \in Tiles |-> <<u>>]
  <2>1. f \in [Tiles -> Seq(Tiles)]
    BY <1>1
  <2>2. \A u \in Tiles : u \notin DOMAIN tree => f[u] = TraceBack(f, u)
    BY DEF TraceBack
  <2>3. \A u \in DOMAIN tree : ~(g[u] < 0)
    BY TreeParts
  <2>4. Solves(f, 0)
    BY <2>2, <2>3
  <2>5. QED
    BY <2>1, <2>4
<1>3. ASSUME NEW k \in Nat, k \in good
      PROVE  k + 1 \in good
  <2>1. PICK f \in [Tiles -> Seq(Tiles)] : Solves(f, k)
    BY <1>3
  <2> DEFINE h == [u \in Tiles |-> TraceBack(f, u)]
  <2>2. ASSUME NEW u \in Tiles
        PROVE  TraceBack(f, u) \in Seq(Tiles)
    <3>1. CASE u \in DOMAIN tree
      <4>1. tree[u] \in Tiles
        BY <3>1, TreeParts
      <4>2. f[tree[u]] \in Seq(Tiles)
        BY <4>1
      <4>3. QED
        BY <3>1, <4>2 DEF TraceBack
    <3>2. CASE u \notin DOMAIN tree
      BY <1>1, <3>2 DEF TraceBack
    <3>3. QED
      BY <3>1, <3>2
  <2>3. h \in [Tiles -> Seq(Tiles)]
    BY <2>2
  <2>4. ASSUME NEW u \in Tiles, u \notin DOMAIN tree \/ g[u] < k + 1
        PROVE  h[u] = TraceBack(h, u)
    <3>1. CASE u \in DOMAIN tree
      <4>1. /\ tree[u] \in Tiles /\ tree[u] \in Discovered /\ g[tree[u]] < g[u]
            /\ g[tree[u]] \in Nat /\ g[u] \in Nat
        BY <3>1, TreeParts
      <4>2. g[tree[u]] < k
        BY <2>4, <3>1, <4>1
      <4>3. f[tree[u]] = TraceBack(f, tree[u])
        BY <2>1, <4>1, <4>2
      <4>4. h[tree[u]] = f[tree[u]]
        BY <4>1, <4>3
      <4>5. QED
        BY <3>1, <4>4 DEF TraceBack
    <3>2. CASE u \notin DOMAIN tree
      BY <3>2 DEF TraceBack
    <3>3. QED
      BY <3>1, <3>2
  <2> HIDE DEF h
  <2>5. Solves(h, k + 1)
    BY <2>4
  <2>6. QED
    BY <2>3, <2>5
<1>4. Nat \subseteq good
  <2> HIDE DEF good
  <2>1. QED
    BY <1>2, <1>3, Induction
<1> DEFINE top == Diagonal * search.iterations + 1
<1>5. top \in Nat /\ \A u \in DOMAIN tree : g[u] < top
  <2>1. search.iterations \in Nat
    BY SearchParts DEF SearchInv
  <2>2. \A u \in DOMAIN tree : g[u] \in Nat /\ g[u] <= Diagonal * search.iterations
    BY TreeParts
  <2>3. QED
    BY <2>1, <2>2, Costs
<1> HIDE DEF top
<1>6. PICK f \in [Tiles -> Seq(Tiles)] : Solves(f, top)
  BY <1>4, <1>5
<1>7. QED
  BY <1>5, <1>6

LEMMA PathToTraces ==
  ASSUME SearchInv, NEW t \in Discovered
  PROVE  Traces(PathTo(t), t)
<1> DEFINE g == search.g_score
           tree == search.parent
           Def(f) == [u \in Tiles |-> IF u \in DOMAIN search.parent
                                      THEN Append(f[search.parent[u]], u) ELSE <<u>>]
           path == CHOOSE f : f = Def(f)
<1>1. PICK f \in [Tiles -> Seq(Tiles)] : \A u \in Tiles : f[u] = TraceBack(f, u)
  BY TreeRecursion
<1>2. f = Def(f)
  BY <1>1 DEF TraceBack
<1>3. path = Def(path)
  <2> HIDE DEF Def
  <2>1. QED
    BY <1>2
<1>4. PathTo(t) = path[t]
  BY DEF PathTo
<1> HIDE DEF path
<1>5. \A u \in Tiles : path[u] = IF u \in DOMAIN tree THEN Append(path[tree[u]], u) ELSE <<u>>
  BY <1>3
<1> DEFINE good == {k \in Nat : \A u \in Discovered : g[u] < k => Traces(path[u], u)}
<1>6. 0 \in good
  BY TreeParts
<1>7. ASSUME NEW k \in Nat, k \in good
      PROVE  k + 1 \in good
  <2>1. ASSUME NEW u \in Discovered, g[u] < k + 1
        PROVE  Traces(path[u], u)
    <3>1. u \in Tiles
      BY TreeParts
    <3>2. CASE u \notin DOMAIN tree
      <4>1. u = search.from /\ path[u] = <<u>>
        BY <1>5, <3>1, <3>2, TreeParts
      <4>2. QED
        BY <3>1, <4>1 DEF Traces
    <3>3. CASE u \in DOMAIN tree
      <4> DEFINE q == path[tree[u]]
                 p == Append(q, u)
      <4>1. tree[u] \in Discovered /\ g[tree[u]] < g[u] /\ g[tree[u]] \in Nat /\ g[u] \in Nat
        BY <3>3, TreeParts
      <4>2. g[tree[u]] < k
        BY <2>1, <4>1
      <4>3. Traces(q, tree[u])
        BY <1>7, <4>1, <4>2
      <4>4. path[u] = p
        BY <1>5, <3>1, <3>3
      <4> HIDE DEF q
      <4>5. /\ q \in Seq(Tiles) /\ Len(q) \in Nat /\ Len(q) > 0
            /\ p \in Seq(Tiles) /\ Len(p) = Len(q) + 1
            /\ p[Len(p)] = u /\ \A i \in 1 .. Len(q) : p[i] = q[i]
        BY <3>1, <4>3 DEF Traces
      <4> HIDE DEF p
      <4>6. ASSUME NEW i \in 2 .. Len(p)
            PROVE  p[i] \in DOMAIN tree /\ p[i - 1] = tree[p[i]]
        <5>1. CASE i = Len(p)
          <6>1. i - 1 = Len(q) /\ i - 1 \in 1 .. Len(q)
            BY <4>5, <5>1
          <6>2. p[i - 1] = tree[u]
            BY <4>3, <4>5, <6>1 DEF Traces
          <6>3. QED
            BY <3>3, <4>5, <5>1, <6>2
        <5>2. CASE i # Len(p)
          <6>1. i \in 2 .. Len(q) /\ i \in 1 .. Len(q) /\ i - 1 \in 1 .. Len(q)
            BY <4>5, <5>2
          <6>2. QED
            BY <4>3, <4>5, <6>1 DEF Traces
        <5>3. QED
          BY <5>1, <5>2
      <4>7. p[1] = search.from
        <5>1. 1 \in 1 .. Len(q)
          BY <4>5
        <5>2. QED
          BY <4>3, <4>5, <5>1 DEF Traces
      <4>8. Len(p) > 0
        BY <4>5
      <4>9. QED
        BY <4>4, <4>5, <4>6, <4>7, <4>8 DEF Traces
    <3>4. QED
      BY <3>2, <3>3
  <2>2. QED
    BY <2>1
<1>8. Nat \subseteq good
  <2> HIDE DEF good
  <2>1. QED
    BY <1>6, <1>7, Induction
<1>9. g[t] + 1 \in Nat /\ g[t] < g[t] + 1
  BY TreeParts
<1>10. QED
  BY <1>4, <1>8, <1>9

\* A traced path takes steps of a walker, costs no more than its end's score,
\* and never comes to a tile twice.
LEMMA TracedPath ==
  ASSUME SearchInv, NEW t \in Discovered, NEW p, Traces(p, t)
  PROVE  /\ StepsOf(p)
         /\ Len(p) <= Cardinality(Tiles)
         /\ \A cost : (\A i \in Nat : cost[i] \in Nat) /\ CostsOf(p, cost)
                      => cost[Len(p)] <= search.g_score[t]
<1> DEFINE g == search.g_score
           tree == search.parent
<1>1. /\ p \in Seq(Tiles) /\ Len(p) \in Nat /\ Len(p) > 0
      /\ p[1] = search.from /\ p[Len(p)] = t
      /\ \A i \in 1 .. Len(p) : p[i] \in Tiles
  BY DEF Traces
<1>2. ASSUME NEW i \in 2 .. Len(p)
      PROVE  /\ <<p[i - 1], p[i]>> \in Steps
             /\ g[p[i - 1]] + MoveCost(p[i - 1], p[i]) <= g[p[i]]
             /\ g[p[i - 1]] < g[p[i]]
  <2>1. p[i] \in DOMAIN tree /\ p[i - 1] = tree[p[i]]
    BY DEF Traces
  <2>2. QED
    BY <2>1, TreeParts
<1>3. \A i \in 1 .. Len(p) : p[i] \in Discovered /\ g[p[i]] \in Nat
  <2>1. p[1] \in Discovered
    BY <1>1, TreeParts
  <2>2. \A i \in 2 .. Len(p) : p[i] \in Discovered
    BY TreeParts DEF Traces
  <2>3. \A i \in 1 .. Len(p) : i = 1 \/ i \in 2 .. Len(p)
    BY <1>1
  <2>4. QED
    BY <2>1, <2>2, <2>3, TreeParts
<1>4. StepsOf(p)
  BY <1>2 DEF StepsOf
<1>5. ASSUME NEW cost, \A i \in Nat : cost[i] \in Nat, CostsOf(p, cost)
      PROVE  cost[Len(p)] <= g[t]
  <2> DEFINE good == {k \in Nat : k + 1 <= Len(p) => cost[k + 1] <= g[p[k + 1]]}
  <2>1. 0 \in good
    <3>1. cost[1] = 0 /\ g[p[1]] = 0
      BY <1>1, <1>5 DEF CostsOf, SearchInv, TreeInv
    <3>2. QED
      BY <3>1
  <2>2. ASSUME NEW k \in Nat, k \in good
        PROVE  k + 1 \in good
    <3>1. SUFFICES ASSUME k + 2 <= Len(p) PROVE cost[k + 2] <= g[p[k + 2]]
      OBVIOUS
    <3> DEFINE i == k + 2
               c1 == cost[i - 1]
               c2 == cost[i]
               g1 == g[p[i - 1]]
               g2 == g[p[i]]
               m == MoveCost(p[i - 1], p[i])
    <3>2. i \in 2 .. Len(p) /\ i \in 1 .. Len(p) /\ i - 1 \in 1 .. Len(p) /\ i - 1 = k + 1 /\ i \in Nat /\ i - 1 \in Nat
      BY <1>1, <3>1
    <3>3. c2 = c1 + m
      BY <1>5, <3>2 DEF CostsOf
    <3>4. c1 <= g1
      <4>1. cost[k + 1] <= g[p[k + 1]]
        BY <1>1, <2>2, <3>1
      <4>2. QED
        BY <3>2, <4>1
    <3>5. g1 + m <= g2
      BY <1>2, <3>2
    <3>6. c1 \in Nat /\ c2 \in Nat /\ g1 \in Nat /\ g2 \in Nat /\ m \in Nat
      BY <1>3, <1>5, <3>2, MoveCostValue
    <3> HIDE DEF c1, c2, g1, g2, m
    <3>7. c2 <= g2
      BY <3>3, <3>4, <3>5, <3>6
    <3>8. QED
      BY <3>7 DEF c2, g2
  <2>3. Nat \subseteq good
    <3> HIDE DEF good
    <3>1. QED
      BY <2>1, <2>2, Induction
  <2>4. Len(p) - 1 \in Nat /\ (Len(p) - 1) + 1 = Len(p)
    BY <1>1
  <2>5. cost[(Len(p) - 1) + 1] <= g[p[(Len(p) - 1) + 1]]
    BY <2>3, <2>4
  <2>6. QED
    BY <1>1, <2>4, <2>5
<1>6. \A i, j \in 1 .. Len(p) : i < j => g[p[i]] < g[p[j]]
  <2> DEFINE good == {k \in Nat : \A i \in 1 .. Len(p) :
                        i + k + 1 <= Len(p) => g[p[i]] < g[p[i + k + 1]]}
  <2>1. 0 \in good
    <3>1. ASSUME NEW i \in 1 .. Len(p), i + 0 + 1 <= Len(p)
          PROVE  g[p[i]] < g[p[i + 0 + 1]]
      <4>1. i + 1 \in 2 .. Len(p) /\ (i + 1) - 1 = i /\ i + 0 + 1 = i + 1
        BY <1>1, <3>1
      <4>2. g[p[(i + 1) - 1]] < g[p[i + 1]]
        BY <1>2, <4>1
      <4>3. QED
        BY <4>1, <4>2
    <3>2. QED
      BY <3>1
  <2>2. ASSUME NEW k \in Nat, k \in good
        PROVE  k + 1 \in good
    <3>1. ASSUME NEW i \in 1 .. Len(p), i + (k + 1) + 1 <= Len(p)
          PROVE  g[p[i]] < g[p[i + (k + 1) + 1]]
      <4> DEFINE j == i + (k + 1) + 1
                 g0 == g[p[i]]
                 g1 == g[p[j - 1]]
                 g2 == g[p[j]]
      <4>1. /\ j \in 2 .. Len(p) /\ j \in 1 .. Len(p) /\ j - 1 \in 1 .. Len(p)
            /\ j - 1 = i + k + 1 /\ i + k + 1 <= Len(p)
        BY <1>1, <3>1
      <4>2. g1 < g2
        BY <1>2, <4>1
      <4>3. g0 < g1
        <5>1. g[p[i]] < g[p[i + k + 1]]
          BY <2>2, <4>1
        <5>2. QED
          BY <4>1, <5>1
      <4>4. g0 \in Nat /\ g1 \in Nat /\ g2 \in Nat
        BY <1>3, <4>1
      <4> HIDE DEF g0, g1, g2
      <4>5. g0 < g2
        BY <4>2, <4>3, <4>4
      <4>6. QED
        BY <4>5 DEF g0, g2
    <3>2. QED
      BY <3>1
  <2>3. Nat \subseteq good
    <3> HIDE DEF good
    <3>1. QED
      BY <2>1, <2>2, Induction
  <2>4. ASSUME NEW i \in 1 .. Len(p), NEW j \in 1 .. Len(p), i < j
        PROVE  g[p[i]] < g[p[j]]
    <3>1. j - i - 1 \in Nat /\ i + (j - i - 1) + 1 = j /\ j <= Len(p)
      BY <1>1, <2>4
    <3>2. g[p[i]] < g[p[i + (j - i - 1) + 1]]
      BY <2>3, <3>1
    <3>3. QED
      BY <3>1, <3>2
  <2>5. QED
    BY <2>4
<1>7. Len(p) <= Cardinality(Tiles)
  <2>1. ASSUME NEW i \in 1 .. Len(p), NEW j \in 1 .. Len(p), p[i] = p[j]
        PROVE  i = j
    <3>1. i \in Int /\ j \in Int
      OBVIOUS
    <3>2. ~(i < j) /\ ~(j < i)
      <4>1. ~(g[p[i]] < g[p[j]]) /\ ~(g[p[j]] < g[p[i]])
        BY <1>3, <2>1
      <4>2. QED
        BY <1>6, <4>1
    <3>3. QED
      BY <3>1, <3>2
  <2>2. p \in [1 .. Len(p) -> Tiles]
    BY <1>1
  <2>3. p \in Injection(1 .. Len(p), Tiles)
    BY <2>1, <2>2 DEF Injection, IsInjective
  <2>4. Cardinality(1 .. Len(p)) <= Cardinality(Tiles)
    BY <2>3, TilesFinite, FS_Injection
  <2>5. Cardinality(1 .. Len(p)) = Len(p)
    <3>1. 1 \in Int /\ Len(p) \in Int /\ ~(1 > Len(p)) /\ Len(p) - 1 + 1 = Len(p)
      BY <1>1
    <3>2. QED
      BY <3>1, FS_Interval
  <2>6. QED
    BY <2>4, <2>5
<1>8. QED
  BY <1>4, <1>5, <1>7

\* The first tile of Bresenham's line is on the grid: it stays in the box.
LEMMA TowardIsTile ==
  ASSUME NEW a \in Tiles, NEW b \in Tiles, a # b
  PROVE  Toward(a, b) \in Tiles
<1> DEFINE dx == Gap(a[1], b[1])
           dz == Gap(a[2], b[2])
           sx == IF a[1] < b[1] THEN 1 ELSE -1
           sz == IF a[2] < b[2] THEN 1 ELSE -1
           Def(f) == [k \in Nat |->
             IF k = 0 THEN [tile |-> a, err |-> dx - dz]
             ELSE LET p == f[k - 1]
                      i == IF 2 * p.err > -dz THEN 1 ELSE 0
                      j == IF 2 * p.err < dx THEN 1 ELSE 0
                  IN  [tile |-> <<p.tile[1] + i * sx, p.tile[2] + j * sz>>,
                       err  |-> p.err - i * dz + j * dx]]
           at == CHOOSE f : f = Def(f)
<1>1. Line[a, b] = [k \in 0 .. (IF dx < dz THEN dz ELSE dx) |-> at[k].tile]
  <2>1. Line[a, b] = Bresenham(a, b)
    BY DEF Line
  <2>2. Bresenham(a, b) = [k \in 0 .. (IF dx < dz THEN dz ELSE dx) |-> at[k].tile]
    BY DEF Bresenham
  <2>3. QED
    BY <2>1, <2>2
<1> DEFINE state == [tile : Int \X Int, err : Int]
           next == [q \in Nat \X state |->
             LET p == q[2]
                 i == IF 2 * p.err > -dz THEN 1 ELSE 0
                 j == IF 2 * p.err < dx THEN 1 ELSE 0
             IN  [tile |-> <<p.tile[1] + i * sx, p.tile[2] + j * sz>>,
                  err  |-> p.err - i * dz + j * dx]]
           base == [tile |-> a, err |-> dx - dz]
<1>2. /\ a = <<a[1], a[2]>> /\ a[1] \in Int /\ a[2] \in Int
      /\ b = <<b[1], b[2]>> /\ b[1] \in Int /\ b[2] \in Int
      /\ dx \in Nat /\ dz \in Nat /\ sx \in Int /\ sz \in Int
      /\ dx # 0 \/ dz # 0
  BY TileParts DEF Gap
<1>3. base \in state
  BY <1>2
<1> HIDE DEF dx, dz, sx, sz
<1>4. next \in [Nat \X state -> state]
  <2>1. ASSUME NEW p \in state, NEW i \in {0, 1}, NEW j \in {0, 1}
        PROVE  [tile |-> <<p.tile[1] + i * sx, p.tile[2] + j * sz>>,
                err  |-> p.err - i * dz + j * dx] \in state
    <3>1. p.tile[1] \in Int /\ p.tile[2] \in Int /\ p.err \in Int
      OBVIOUS
    <3>2. \A u, v, w, x \in Int : u + i * v \in Int /\ w - i * u + j * x \in Int /\ u + j * v \in Int
      OBVIOUS
    <3>3. QED
      BY <1>2, <3>1, <3>2
  <2>2. ASSUME NEW q \in Nat \X state
        PROVE  next[q] \in state
    <3> DEFINE p == q[2]
               i == IF 2 * p.err > -dz THEN 1 ELSE 0
               j == IF 2 * p.err < dx THEN 1 ELSE 0
    <3>1. p \in state /\ i \in {0, 1} /\ j \in {0, 1}
      OBVIOUS
    <3>2. next[q] = [tile |-> <<p.tile[1] + i * sx, p.tile[2] + j * sz>>,
                     err  |-> p.err - i * dz + j * dx]
      OBVIOUS
    <3> HIDE DEF p, i, j, state, next
    <3>3. QED
      BY <2>1, <3>1, <3>2
  <2> HIDE DEF state
  <2>3. QED
    BY <2>2
<1>5. PICK f \in [Nat -> state] : f[0] = base /\ \A k \in Nat : f[k + 1] = next[<<k, f[k]>>]
  <2> HIDE DEF base, next, state
  <2>1. \E f \in [Nat -> state] : Follows(f, base, next)
    BY <1>3, <1>4, RecursionExists
  <2>2. QED
    BY <2>1 DEF Follows
<1>6. f = Def(f)
  <2>1. ASSUME NEW k \in Nat, k # 0
        PROVE  f[k] = next[<<k - 1, f[k - 1]>>]
    <3>1. k - 1 \in Nat /\ (k - 1) + 1 = k
      BY <2>1
    <3>2. f[(k - 1) + 1] = next[<<k - 1, f[k - 1]>>]
      BY <1>5, <3>1
    <3>3. QED
      BY <3>1, <3>2
  <2>2. ASSUME NEW k \in Nat, k # 0
        PROVE  f[k] = LET p == f[k - 1]
                          i == IF 2 * p.err > -dz THEN 1 ELSE 0
                          j == IF 2 * p.err < dx THEN 1 ELSE 0
                      IN  [tile |-> <<p.tile[1] + i * sx, p.tile[2] + j * sz>>,
                           err  |-> p.err - i * dz + j * dx]
    <3>1. k - 1 \in Nat /\ f[k - 1] \in state
      BY <1>5, <2>2
    <3> HIDE DEF state
    <3>2. QED
      BY <2>1, <2>2, <3>1
  <2>3. f[0] = [tile |-> a, err |-> dx - dz]
    BY <1>5
  <2> HIDE DEF state, next, base
  <2>4. QED
    BY <1>5, <2>2, <2>3
<1>7. at = Def(at)
  <2> HIDE DEF Def
  <2>1. QED
    BY <1>6
<1> HIDE DEF at
<1> DEFINE i == IF 2 * (dx - dz) > -dz THEN 1 ELSE 0
           j == IF 2 * (dx - dz) < dx THEN 1 ELSE 0
<1>8. at[1].tile = <<a[1] + i * sx, a[2] + j * sz>>
  <2>1. at[0] = [tile |-> a, err |-> dx - dz]
    BY <1>7
  <2>2. at[1] = [tile |-> <<at[0].tile[1] + (IF 2 * at[0].err > -dz THEN 1 ELSE 0) * sx,
                            at[0].tile[2] + (IF 2 * at[0].err < dx THEN 1 ELSE 0) * sz>>,
                 err |-> at[0].err - (IF 2 * at[0].err > -dz THEN 1 ELSE 0) * dz
                           + (IF 2 * at[0].err < dx THEN 1 ELSE 0) * dx]
    BY <1>7
  <2>3. QED
    BY <2>1, <2>2
<1>9. Toward(a, b) = at[1].tile
  <2>1. 1 \in 0 .. (IF dx < dz THEN dz ELSE dx)
    BY <1>2
  <2>2. QED
    BY <1>1, <2>1 DEF Toward
<1>10. /\ i \in {0, 1} /\ j \in {0, 1}
       /\ i = 1 => dx > 0
       /\ j = 1 => dz > 0
  BY <1>2
<1>11. /\ dx = (IF a[1] < b[1] THEN b[1] - a[1] ELSE a[1] - b[1]) /\ sx = (IF a[1] < b[1] THEN 1 ELSE -1)
       /\ dz = (IF a[2] < b[2] THEN b[2] - a[2] ELSE a[2] - b[2]) /\ sz = (IF a[2] < b[2] THEN 1 ELSE -1)
  BY DEF dx, dz, sx, sz, Gap
<1>12. /\ a[1] \in 0 .. Width - 1 /\ b[1] \in 0 .. Width - 1
       /\ a[2] \in 0 .. Height - 1 /\ b[2] \in 0 .. Height - 1
  BY DEF Tiles
<1> HIDE DEF i, j
<1>13. a[1] + i * sx \in 0 .. Width - 1 /\ a[2] + j * sz \in 0 .. Height - 1
  <2>1. \A x, y \in 0 .. Width - 1 : \A d :
          /\ d = (IF x < y THEN y - x ELSE x - y) /\ (i = 1 => d > 0)
          => x + i * (IF x < y THEN 1 ELSE -1) \in 0 .. Width - 1
    BY <1>10, SizePositive
  <2>2. \A x, y \in 0 .. Height - 1 : \A d :
          /\ d = (IF x < y THEN y - x ELSE x - y) /\ (j = 1 => d > 0)
          => x + j * (IF x < y THEN 1 ELSE -1) \in 0 .. Height - 1
    BY <1>10, SizePositive
  <2>3. QED
    BY <1>10, <1>11, <1>12, <2>1, <2>2
<1>14. QED
  BY <1>8, <1>9, <1>13 DEF Tiles

-----------------------------------------------------------------------------
(* What FindPath remembers.                                                *)

\* No walk between the ends of path costs less, however many steps it takes.
Unbeaten(path) ==
  \A k \in Nat : \A w \in Within[k] :
    w[1] = path[1] /\ w[2] = path[Len(path)] => Length(path) <= w[3]

Remembered(key, path) ==
  /\ key = <<BucketOf(path[1]), BucketOf(path[Len(path)])>>
  /\ ShortestWalk(path)
  /\ path \in Seq(Tiles) /\ Length(path) \in Nat /\ Unbeaten(path)

CacheInv == \A key \in DOMAIN cache : Remembered(key, cache[key])

SearchedInv == PathInv /\ CacheInv

LEMMA GoalPathIsShortest ==
  ASSUME SearchInv, NEW e \in search.open, Top(e), e.at = To
  PROVE  Remembered(CacheKey(From, To), PathTo(To))
<1> DEFINE p == PathTo(To)
           g == search.g_score
           B == [t \in Tiles |-> Bound(e.g, t)]
           k0 == Cardinality(Tiles)
<1>1. To \in Discovered /\ To \in Tiles /\ search.from \in Tiles
  BY SearchParts DEF SearchInv, OpenInv
<1>2. Traces(p, To)
  BY <1>1, PathToTraces
<1> HIDE DEF p
<1>3. /\ p \in Seq(Tiles) /\ Len(p) \in Nat /\ Len(p) > 0
      /\ p[1] = search.from /\ p[Len(p)] = To
  BY <1>2 DEF Traces
<1>4. PICK cost : /\ \A i \in Nat : cost[i] \in Nat
                  /\ CostsOf(p, cost) /\ Length(p) = cost[Len(p)]
  BY <1>3, LengthIsCost
<1>5. /\ StepsOf(p) /\ Len(p) <= k0 /\ cost[Len(p)] <= g[To]
  BY <1>1, <1>2, <1>4, TracedPath
<1>6. Length(p) \in Nat /\ e.g \in Nat /\ Length(p) <= e.g
  <2>1. e.g \in Nat /\ e.g = g[To]
    BY GoalBound
  <2>2. QED
    BY <1>3, <1>4, <1>5, <2>1
<1>7. /\ B \in [Tiles -> Int]
      /\ \A s \in Steps : B[s[2]] <= B[s[1]] + MoveCost(s[1], s[2])
      /\ B[search.from] <= 0 /\ B[To] = e.g
  <2>1. \A s \in Steps : s[1] \in Tiles /\ s[2] \in Tiles
    BY DEF Steps
  <2>2. QED
    BY <1>1, <2>1, GoalBound
<1> HIDE DEF B
<1>8. ASSUME NEW k \in Nat, NEW w \in Within[k], w[1] = p[1], w[2] = p[Len(p)]
      PROVE  Length(p) <= w[3] /\ w[3] \in Nat
  <2>1. B[w[2]] <= B[w[1]] + w[3]
    BY <1>7, WalksRespectBound
  <2>2. w \in Walk
    BY WithinRecursion
  <2>3. w[3] \in Nat
    BY <2>2, WalkParts
  <2> DEFINE b == B[search.from]
             c == w[3]
  <2>4. e.g <= b + c
    BY <1>3, <1>7, <1>8, <2>1
  <2>5. b \in Int /\ b <= 0 /\ c \in Nat
    BY <1>1, <1>7, <2>3
  <2> DEFINE l == Length(p)
  <2>6. l \in Nat /\ e.g \in Nat /\ l <= e.g
    BY <1>6
  <2> HIDE DEF b, c, l
  <2>7. l <= c
    BY <2>4, <2>5, <2>6
  <2>8. QED
    BY <2>3, <2>7 DEF l, c
<1>9. Unbeaten(p)
  BY <1>8 DEF Unbeaten
<1>10. <<p[1], p[Len(p)], Length(p)>> \in Cheapest
  <2>1. k0 \in Nat /\ Len(p) \in 1 .. Len(p) /\ Len(p) <= k0 + 1
    BY <1>3, <1>5, TilesFinite
  <2>2. PICK w \in Within[k0] : w[1] = p[1] /\ w[2] = p[Len(p)] /\ w[3] <= cost[Len(p)]
    BY <1>3, <1>4, <1>5, <2>1, WalkIsFound
  <2>3. w = <<w[1], w[2], w[3]>>
    <3>1. w \in Walk
      BY <2>1, WithinRecursion
    <3>2. QED
      BY <3>1, WalkParts
  <2>4. w[3] = Length(p)
    <3>1. Length(p) <= w[3] /\ w[3] \in Nat
      BY <1>8, <2>1, <2>2
    <3>2. QED
      BY <1>4, <1>6, <2>2, <3>1
  <2>5. w = <<p[1], p[Len(p)], Length(p)>>
    BY <2>2, <2>3, <2>4
  <2>6. QED
    BY <2>2, <2>5 DEF Cheapest
<1>11. ShortestWalk(p)
  BY <1>5, <1>10 DEF ShortestWalk, StepsOf
<1>12. CacheKey(From, To) = <<BucketOf(p[1]), BucketOf(p[Len(p)])>>
  BY <1>3 DEF CacheKey, From
<1>13. QED
  BY <1>3, <1>6, <1>9, <1>11, <1>12 DEF Remembered, p

LEMMA CacheInvStep ==
  ASSUME SearchedInv, [Next]_vars
  PROVE  CacheInv'
<1>1. ASSUME UNCHANGED cache PROVE CacheInv'
  BY <1>1 DEF SearchedInv, CacheInv
<1>2. CASE UNCHANGED vars
  BY <1>1, <1>2 DEF vars
<1>3. CASE \/ \E n \in Npcs, t \in Targets : Job(n, t) \/ Steer(n, t) \/ SitDown(n, t)
           \/ \E n \in Npcs : Hold(n) \/ Interrupt(n) \/ Resume(n)
           \/ RunSystems
  BY <1>1, <1>3 DEF Job, Steer, SitDown, Hold, Interrupt, Resume, RunSystems
<1>4. CASE \/ Dismiss \/ PlanStraight \/ KeepPath \/ PutOff
           \/ FindSameTile \/ FindNothing \/ FindCached \/ StartSearch \/ GiveUp
           \/ \E e \in search.open : SkipStale(e) \/ Expand(e)
  BY <1>1, <1>4 DEF Dismiss, PlanStraight, KeepPath, PutOff, FindSameTile, FindNothing,
                    FindCached, StartSearch, GiveUp, SkipStale, Expand
<1>5. CASE \/ Stand \/ ArriveStraight \/ GoStraight \/ Drift
           \/ PassWaypoint \/ FollowPath \/ StandOnPath \/ ArriveByPath \/ NextLeg
  BY <1>1, <1>5 DEF Stand, ArriveStraight, GoStraight, Drift, PassWaypoint, FollowPath,
                    StandOnPath, ArriveByPath, NextLeg, Moves
<1>6. ASSUME NEW e \in search.open, ReachGoal(e)
      PROVE  CacheInv'
  <2> DEFINE key0 == CacheKey(From, To)
             path == PathTo(To)
             kept == IF Cardinality(DOMAIN cache) > MaxCached THEN <<>> ELSE cache
  <2>1. Top(e) /\ e.at = To /\ cache' = Over([key \in {key0} |-> path], kept)
    BY <1>6 DEF ReachGoal, Remember
  <2>2. SearchInv
    BY <2>1 DEF SearchedInv, PathInv, Top
  <2>3. Remembered(key0, path)
    BY <2>1, <2>2, GoalPathIsShortest
  <2>4. \A key \in DOMAIN kept : Remembered(key, kept[key])
    <3>1. DOMAIN <<>> = {}
      OBVIOUS
    <3>2. QED
      BY <3>1 DEF SearchedInv, CacheInv
  <2> HIDE DEF key0, path, kept
  <2>5. ASSUME NEW key \in DOMAIN cache'
        PROVE  Remembered(key, cache'[key])
    BY <2>1, <2>3, <2>4, <2>5 DEF Over
  <2>6. QED
    BY <2>5 DEF CacheInv
<1>7. QED
  BY <1>2, <1>3, <1>4, <1>5, <1>6 DEF Next, Frame

\* FindPath, between any two iterations, on any grid: its arrays hold a tree of
\* steps that touch no wall, with falling scores back to the start, and every
\* tile it has discovered is either queued with its score or fully expanded
\* (GridMap.cpp FindPath; g_score, parent, open_set).
THEOREM SearchInvariant == Spec => []SearchedInv
<1>1. Init => SearchedInv
  BY DEF Init, SearchedInv, PathInv, CacheInv
<1>2. SearchedInv /\ [Next]_vars => SearchedInv'
  BY PathInvStep, CacheInvStep DEF SearchedInv
<1>3. QED
  BY <1>1, <1>2, PTL DEF Spec

\* GridMap.cpp FindPath: every path in path_cache_ touches no wall, cuts no
\* corner, is as short as any between its ends, and lies under the squares of
\* those ends.
THEOREM CacheAlwaysExact == Spec => []CacheIsExact
<1>1. SearchedInv => CacheIsExact
  BY DEF SearchedInv, CacheInv, Remembered, CacheIsExact
<1>2. QED
  BY <1>1, SearchInvariant, PTL

\* The same without the reference of relaxation rounds: nobody who takes the
\* steps of a walker from the beginning of a remembered path to its end, in any
\* number of steps, has a shorter way.
ShortestOfAll ==
  \A key \in DOMAIN cache : \A p \in Seq(Tiles) :
    LET path == cache[key] IN
    /\ Len(p) > 0 /\ p[1] = path[1] /\ p[Len(p)] = path[Len(path)]
    /\ \A i \in 2 .. Len(p) : <<p[i - 1], p[i]>> \in Steps
    => Length(path) <= Length(p)

\* GridMap.cpp FindPath remembers no path that a walker could shorten.
THEOREM NoWalkIsShorter == Spec => []ShortestOfAll
<1>1. ASSUME SearchedInv
      PROVE  ShortestOfAll
  <2>1. SUFFICES ASSUME NEW key \in DOMAIN cache, NEW p \in Seq(Tiles),
                        Len(p) > 0, p[1] = cache[key][1],
                        p[Len(p)] = cache[key][Len(cache[key])],
                        \A i \in 2 .. Len(p) : <<p[i - 1], p[i]>> \in Steps
                 PROVE  Length(cache[key]) <= Length(p)
    BY DEF ShortestOfAll
  <2> DEFINE path == cache[key]
  <2>2. Unbeaten(path) /\ Length(path) \in Nat
    BY <1>1 DEF SearchedInv, CacheInv, Remembered
  <2>3. PICK cost : /\ \A i \in Nat : cost[i] \in Nat
                    /\ CostsOf(p, cost) /\ Length(p) = cost[Len(p)]
    BY <2>1, LengthIsCost
  <2>4. Len(p) \in Nat /\ Len(p) \in 1 .. Len(p) /\ Len(p) <= Len(p) + 1
    BY <2>1
  <2>5. PICK w \in Within[Len(p)] : w[1] = p[1] /\ w[2] = p[Len(p)] /\ w[3] <= cost[Len(p)]
    BY <2>1, <2>3, <2>4, WalkIsFound DEF StepsOf
  <2>6. Length(path) <= w[3]
    BY <2>1, <2>2, <2>4, <2>5 DEF Unbeaten
  <2>7. w[3] \in Nat
    <3>1. w \in Walk
      BY <2>4, WithinRecursion
    <3>2. QED
      BY <3>1, WalkParts
  <2> DEFINE l == Length(path)
             c == w[3]
             r == Length(p)
  <2>8. l \in Nat /\ c \in Nat /\ r \in Nat /\ l <= c /\ c <= r
    BY <2>2, <2>3, <2>4, <2>5, <2>6, <2>7
  <2> HIDE DEF l, c, r
  <2>9. l <= r
    BY <2>8
  <2>10. QED
    BY <2>9 DEF l, r
<1>2. QED
  BY <1>1, SearchInvariant, PTL

-----------------------------------------------------------------------------
(* The walkers.                                                            *)

Index == Nat \ {0}

Walker ==
  [toil : {"Idle", "Moving", "Working"}, speed : BOOLEAN, loc : Tiles, target : Tiles,
   waypoints : Seq(Tiles), index : Index, partial : BOOLEAN, last_target : Tiles,
   retries : Nat, last_cap : Tiles, disturbed : BOOLEAN]

End(w) == w.waypoints[Len(w.waypoints)]

\* A whole path leads into the square of the place it was found for, or there
\* is no way to that place from where it leads.
LeadsThere(w) ==
  w.waypoints # <<>> /\ ~w.partial =>
    BucketOf(End(w)) = BucketOf(w.last_target) \/ ~Reachable(End(w), w.last_target)

\* Whoever has used up a path stands at its end, or was stopped on it.
StandsAtEnd(w) == PathUsedUp(w) => w.loc = End(w) \/ w.disturbed

WalkerInv(w) == w \in Walker /\ LeadsThere(w) /\ StandsAtEnd(w)

\* The NPCs that SystemPathfinding has looked at in this frame and that
\* SystemMovement has not.
Planned(n) ==
  \/ phase \in {"Plan", "Search"} /\ n < turn
  \/ phase = "Move" /\ n >= turn

\* Whoever is about to move knows where its target is.
OnCourse(n) ==
  Planned(n) /\ npc[n].toil = "Moving" /\ npc[n].waypoints # <<>> => ~TargetMoved(npc[n])

TurnInv ==
  /\ turn \in Npcs
  /\ phase \in {"Orders", "Plan", "Search", "Move"}
  /\ phase = "Orders" => turn = 1
  /\ phase = "Search" => search.to = npc[turn].target

WalkInv ==
  /\ TurnInv
  /\ DOMAIN npc = Npcs
  /\ \A n \in Npcs : WalkerInv(npc[n]) /\ OnCourse(n)

LEMMA Indices ==
  /\ 1 \in Index
  /\ \A i \in Index : i \in Nat /\ i + 1 \in Index
BY DEF Index

LEMMA ClampedTile ==
  ASSUME NEW t \in Tiles
  PROVE  Clamped(t) = t
<1>1. /\ t = <<t[1], t[2]>> /\ t[1] \in 0 .. Width - 1 /\ t[2] \in 0 .. Height - 1
  BY TileParts DEF Tiles
<1>2. QED
  BY <1>1 DEF Clamped, Clamp

LEMMA KnownTarget ==
  ASSUME NEW w \in Walker, w.last_target = w.target
  PROVE  ~TargetMoved(w)
<1>1. w.target \in Tiles
  BY DEF Walker
<1>2. w.target[1] \in Int /\ w.target[2] \in Int
  BY <1>1, TileParts
<1>3. w.target[1] - w.last_target[1] = 0 /\ w.target[2] - w.last_target[2] = 0
  BY <1>2
<1>4. QED
  BY <1>3 DEF TargetMoved, Square

\* When nothing is left to expand, no walk leads from a discovered tile to the
\* goal: every step from one leads to another, and the goal is none of them.
LEMMA NoWayOut ==
  ASSUME SearchInv, search.open = {}, NEW t \in Discovered
  PROVE  ~Reachable(t, To)
<1>1. /\ Discovered \subseteq Tiles /\ To \in Tiles
      /\ \A u \in Discovered : Expanded(u)
  BY SearchParts DEF SearchInv, OpenInv, To
<1>2. To \notin Discovered
  BY <1>1 DEF Expanded, To
<1>3. SUFFICES ASSUME NEW k \in Nat, NEW w \in Within[k], w[1] = t, w[2] = To PROVE FALSE
  BY TilesFinite DEF Reachable, Cheapest
<1>4. w \in Walk
  BY WithinRecursion
<1>5. w[3] \in Nat
  BY <1>4, WalkParts
<1> DEFINE c == w[3] + 1
           B == [u \in Tiles |-> IF u \in Discovered THEN 0 ELSE c]
<1>6. c \in Nat /\ ~(c <= w[3])
  BY <1>5
<1> HIDE DEF c
<1>7. B \in [Tiles -> Int]
  BY <1>6
<1>8. ASSUME NEW s \in Steps
      PROVE  B[s[2]] <= B[s[1]] + MoveCost(s[1], s[2])
  <2>1. s[1] \in Tiles /\ s[2] \in Tiles /\ s = <<s[1], s[2]>>
    BY DEF Steps
  <2>2. s[1] \in Discovered => s[2] \in Discovered
    BY <1>1, <2>1, NeighboursAreSteps DEF Expanded
  <2> DEFINE m == MoveCost(s[1], s[2])
  <2>3. m \in Nat
    BY MoveCostValue
  <2> HIDE DEF m
  <2>4. B[s[2]] <= B[s[1]] + m
    BY <1>6, <2>1, <2>2, <2>3
  <2>5. QED
    BY <2>4 DEF m
<1>9. B[t] = 0 /\ B[To] = c
  BY <1>1, <1>2
<1> HIDE DEF B
<1>10. B[w[2]] <= B[w[1]] + w[3]
  BY <1>7, <1>8, WalksRespectBound
<1>11. c <= 0 + w[3]
  BY <1>3, <1>9, <1>10
<1>12. QED
  BY <1>5, <1>6, <1>11

\* One walker.

LEMMA PathlessWalker ==
  ASSUME NEW w \in Walker, w.waypoints = <<>>
  PROVE  WalkerInv(w)
BY DEF WalkerInv, LeadsThere, StandsAtEnd, PathUsedUp

LEMMA ForgetWalker ==
  ASSUME NEW w \in Walker
  PROVE  /\ Forget(w) \in Walker /\ Forget(w).waypoints = <<>> /\ WalkerInv(Forget(w))
         /\ Forget(w).loc = w.loc /\ Forget(w).target = w.target
         /\ Forget(w).toil = w.toil /\ Forget(w).last_target = w.last_target
<1>1. /\ Forget(w) \in Walker /\ Forget(w).waypoints = <<>>
      /\ Forget(w).loc = w.loc /\ Forget(w).target = w.target
      /\ Forget(w).toil = w.toil /\ Forget(w).last_target = w.last_target
  <2>1. <<>> \in Seq(Tiles)
    OBVIOUS
  <2>2. QED
    BY <2>1 DEF Forget, Walker
<1>2. QED
  BY <1>1, PathlessWalker

LEMMA AdoptWalker ==
  ASSUME NEW w \in Walker, NEW path \in Seq(Tiles), NEW partial \in BOOLEAN,
         path # <<>> /\ ~partial =>
           \/ BucketOf(path[Len(path)]) = BucketOf(w.target)
           \/ ~Reachable(path[Len(path)], w.target)
  PROVE  /\ WalkerInv(Adopt(w, path, partial))
         /\ ~TargetMoved(Adopt(w, path, partial))
<1> DEFINE a == Adopt(w, path, partial)
<1>1. /\ a \in Walker /\ a.target = w.target /\ a.last_target = w.target
      /\ a.waypoints \in {path, <<>>} /\ a.partial = partial /\ a.index = 1
  <2> DEFINE tries == IF partial /\ w.loc = w.last_cap THEN w.retries + 1 ELSE 0
             cap == IF partial THEN w.loc ELSE w.last_cap
             new == [w EXCEPT !.last_target = w.target, !.waypoints = path, !.index = 1,
                              !.partial = partial, !.retries = tries, !.last_cap = cap,
                              !.speed = TRUE, !.disturbed = FALSE]
             given == [new EXCEPT !.toil = "Idle", !.waypoints = <<>>, !.retries = 0,
                                  !.speed = FALSE]
  <2>1. tries \in Nat /\ cap \in Tiles /\ w.target \in Tiles
    BY DEF Walker
  <2>2. a = IF tries < 2 THEN new ELSE given
    BY DEF Adopt, Walker
  <2> HIDE DEF a, tries, cap
  <2>3. /\ new \in Walker /\ new.target = w.target /\ new.last_target = w.target
        /\ new.waypoints = path /\ new.partial = partial /\ new.index = 1
    BY <2>1, Indices DEF Walker
  <2> HIDE DEF new
  <2>4. <<>> \in Seq(Tiles)
    OBVIOUS
  <2>5. /\ given \in Walker /\ given.target = w.target /\ given.last_target = w.target
        /\ given.waypoints = <<>> /\ given.partial = partial /\ given.index = 1
    BY <2>3, <2>4 DEF Walker
  <2> HIDE DEF given
  <2>6. QED
    BY <2>2, <2>3, <2>5
<1> HIDE DEF a
<1>2. LeadsThere(a)
  BY <1>1 DEF LeadsThere, End
<1>3. StandsAtEnd(a)
  <2>1. a.waypoints \in Seq(Tiles)
    BY <1>1 DEF Walker
  <2>2. a.waypoints # <<>> => Len(a.waypoints) \in Nat /\ Len(a.waypoints) > 0
    BY <2>1
  <2>3. QED
    BY <1>1, <2>2 DEF StandsAtEnd, PathUsedUp
<1>4. QED
  BY <1>1, <1>2, <1>3, KnownTarget DEF WalkerInv, a

LEMMA AbandonWalker ==
  ASSUME NEW w \in Walker
  PROVE  WalkerInv(Abandon(w)) /\ ~TargetMoved(Abandon(w))
<1>1. /\ Abandon(w) \in Walker /\ Abandon(w).waypoints = <<>>
      /\ Abandon(w).last_target = Abandon(w).target
  BY ForgetWalker DEF Abandon, Walker
<1>2. QED
  BY <1>1, PathlessWalker, KnownTarget

LEMMA RefreshedWalker ==
  ASSUME NEW w, WalkerInv(w)
  PROVE  /\ WalkerInv(Refreshed(w)) /\ Refreshed(w) \in Walker
         /\ Refreshed(w).loc = w.loc /\ Refreshed(w).target = w.target
         /\ Refreshed(w).toil = w.toil
         /\ Refreshed(w).waypoints # <<>> => Refreshed(w) = w /\ ~TargetMoved(w)
BY ForgetWalker DEF Refreshed, WalkerInv

\* The phases of the frame.

LEMMA OrdersWalk ==
  ASSUME WalkInv, phase = "Orders", phase' \in {"Orders", "Plan"}, turn' = turn,
         DOMAIN npc' = Npcs, \A n \in Npcs : WalkerInv(npc'[n])
  PROVE  WalkInv'
<1>1. turn = 1 /\ turn \in Npcs
  BY DEF WalkInv, TurnInv
<1>2. TurnInv'
  BY <1>1 DEF TurnInv
<1>3. \A n \in Npcs : ~Planned(n)'
  BY <1>1 DEF Planned, Npcs
<1>4. \A n \in Npcs : WalkerInv(npc[n])'
  BY DEF WalkerInv, LeadsThere, StandsAtEnd, End, PathUsedUp
<1>5. QED
  BY <1>2, <1>3, <1>4 DEF WalkInv, OnCourse

\* What the step does to the NPC whose turn it is.
Becomes(w) ==
  /\ DOMAIN npc' = Npcs /\ npc'[turn] = w
  /\ \A n \in Npcs \ {turn} : npc'[n] = npc[n]

LEMMA NextTurnParts ==
  ASSUME WalkInv, NEW after, NextTurn(after)
  PROVE  /\ turn \in Npcs /\ turn \in Nat /\ N \in Nat /\ turn <= N /\ turn >= 1
         /\ turn' \in Npcs /\ turn' \in Nat
         /\ turn = N => turn' = 1 /\ phase' = after
         /\ turn # N => turn' = turn + 1 /\ phase' = (IF phase = "Search" THEN "Plan" ELSE phase)
BY PathfindingAssumption DEF WalkInv, TurnInv, NextTurn, Npcs

LEMMA PlanWalk ==
  ASSUME WalkInv, phase \in {"Plan", "Search"}, NextTurn("Move"),
         NEW w, WalkerInv(w), w.toil = "Moving" /\ w.waypoints # <<>> => ~TargetMoved(w),
         Becomes(w)
  PROVE  WalkInv'
<1>1. TurnInv'
  BY NextTurnParts DEF TurnInv
<1>2. ASSUME NEW n \in Npcs
      PROVE  (WalkerInv(npc[n]) /\ OnCourse(n))'
  <2>1. n \in Nat /\ n >= 1 /\ n <= N
    BY PathfindingAssumption DEF Npcs
  <2>2. Planned(n)' => n = turn \/ Planned(n)
    BY <2>1, NextTurnParts DEF Planned
  <2>3. CASE n = turn
    BY <2>3 DEF Becomes, OnCourse, WalkerInv, LeadsThere, StandsAtEnd, End, PathUsedUp, TargetMoved
  <2>4. CASE n # turn
    <3>1. npc'[n] = npc[n] /\ WalkerInv(npc[n]) /\ OnCourse(n)
      BY <2>4 DEF Becomes, WalkInv
    <3>2. QED
      BY <2>2, <2>4, <3>1 DEF OnCourse, WalkerInv, LeadsThere, StandsAtEnd, End, PathUsedUp, TargetMoved
  <2>5. QED
    BY <2>3, <2>4
<1>3. QED
  BY <1>1, <1>2 DEF WalkInv, Becomes

LEMMA MoveWalk ==
  ASSUME WalkInv, phase = "Move", NextTurn("Orders"), NEW w, WalkerInv(w), Becomes(w)
  PROVE  WalkInv'
<1>1. TurnInv'
  BY NextTurnParts DEF TurnInv
<1>2. ASSUME NEW n \in Npcs
      PROVE  (WalkerInv(npc[n]) /\ OnCourse(n))'
  <2>1. n \in Nat /\ n >= 1 /\ n <= N
    BY PathfindingAssumption DEF Npcs
  <2>2. Planned(n)' => n # turn /\ Planned(n)
    BY <2>1, NextTurnParts DEF Planned
  <2>3. CASE n = turn
    BY <2>2, <2>3 DEF Becomes, OnCourse, WalkerInv, LeadsThere, StandsAtEnd, End, PathUsedUp
  <2>4. CASE n # turn
    <3>1. npc'[n] = npc[n] /\ WalkerInv(npc[n]) /\ OnCourse(n)
      BY <2>4 DEF Becomes, WalkInv
    <3>2. QED
      BY <2>2, <2>4, <3>1 DEF OnCourse, WalkerInv, LeadsThere, StandsAtEnd, End, PathUsedUp, TargetMoved
  <2>5. QED
    BY <2>3, <2>4
<1>3. QED
  BY <1>1, <1>2 DEF WalkInv, Becomes

\* The steps.

\* Whatever leaves the path alone, and marks the walker when it moves it.
LEMMA TouchedWalker ==
  ASSUME NEW w, WalkerInv(w), NEW v \in Walker,
         v.waypoints = w.waypoints, v.partial = w.partial,
         v.last_target = w.last_target, v.index = w.index,
         (v.loc = w.loc /\ v.disturbed = w.disturbed) \/ v.disturbed = (w.waypoints # <<>>)
  PROVE  WalkerInv(v)
BY DEF WalkerInv, LeadsThere, StandsAtEnd, PathUsedUp, End

LEMMA OrdersStep ==
  ASSUME WalkInv,
         \/ \E n \in Npcs, t \in Targets : Job(n, t) \/ Steer(n, t) \/ SitDown(n, t)
         \/ \E n \in Npcs : Hold(n) \/ Interrupt(n) \/ Resume(n)
         \/ RunSystems
  PROVE  WalkInv'
<1>1. DOMAIN npc = Npcs /\ \A n \in Npcs : WalkerInv(npc[n]) /\ npc[n] \in Walker
  BY DEF WalkInv, WalkerInv
<1>2. Targets \subseteq Tiles
  BY PathfindingAssumption
<1>3. ASSUME NEW n \in Npcs, NEW v, WalkerInv(v), npc' = [npc EXCEPT ![n] = v],
             phase = "Orders", phase' = "Orders", turn' = turn
      PROVE  WalkInv'
  <2>1. DOMAIN npc' = Npcs /\ \A m \in Npcs : npc'[m] = v \/ npc'[m] = npc[m]
    BY <1>1, <1>3
  <2>2. \A m \in Npcs : WalkerInv(npc'[m])
    BY <1>1, <1>3, <2>1
  <2>3. QED
    BY <1>3, <2>1, <2>2, OrdersWalk
<1>4. ASSUME NEW n \in Npcs, NEW t \in Targets, Job(n, t)
      PROVE  WalkInv'
  <2> DEFINE v == [npc[n] EXCEPT !.toil = "Moving", !.target = t]
  <2>1. v \in Walker
    BY <1>1, <1>2 DEF Walker
  <2>2. WalkerInv(v)
    BY <1>1, <2>1, TouchedWalker DEF Walker
  <2>3. npc' = [npc EXCEPT ![n] = v]
    BY <1>1, <1>4 DEF Job
  <2> HIDE DEF v
  <2>4. QED
    BY <1>3, <1>4, <2>2, <2>3 DEF Job, Ordered
<1>5. ASSUME NEW n \in Npcs, NEW t \in Targets, Steer(n, t)
      PROVE  WalkInv'
  <2> DEFINE v == [Forget(npc[n]) EXCEPT !.toil = "Moving", !.target = t, !.index = 1]
  <2>1. Forget(npc[n]) \in Walker /\ Forget(npc[n]).waypoints = <<>>
    BY <1>1, ForgetWalker
  <2>2. v \in Walker /\ v.waypoints = <<>>
    BY <1>2, <2>1, Indices DEF Walker
  <2>3. npc' = [npc EXCEPT ![n] = v]
    BY <1>5 DEF Steer
  <2> HIDE DEF v
  <2>4. QED
    BY <1>3, <1>5, <2>2, <2>3, PathlessWalker DEF Steer, Ordered
<1>6. ASSUME NEW n \in Npcs, NEW t \in Targets, SitDown(n, t)
      PROVE  WalkInv'
  <2> DEFINE v == [npc[n] EXCEPT !.toil = "Working", !.target = t, !.loc = t,
                                 !.disturbed = npc[n].waypoints # <<>>]
  <2>1. v \in Walker
    BY <1>1, <1>2 DEF Walker
  <2>2. WalkerInv(v)
    BY <1>1, <2>1, TouchedWalker DEF Walker
  <2>3. npc' = [npc EXCEPT ![n] = v]
    BY <1>1, <1>6 DEF SitDown
  <2> HIDE DEF v
  <2>4. QED
    BY <1>3, <1>6, <2>2, <2>3 DEF SitDown, Ordered
<1>7. ASSUME NEW n \in Npcs, Hold(n)
      PROVE  WalkInv'
  <2> DEFINE v == [npc[n] EXCEPT !.speed = FALSE, !.disturbed = npc[n].waypoints # <<>>]
  <2>1. v \in Walker
    BY <1>1 DEF Walker
  <2>2. WalkerInv(v)
    BY <1>1, <2>1, TouchedWalker DEF Walker
  <2>3. npc' = [npc EXCEPT ![n] = v]
    BY <1>1, <1>7 DEF Hold
  <2> HIDE DEF v
  <2>4. QED
    BY <1>3, <1>7, <2>2, <2>3 DEF Hold, Ordered
<1>8. ASSUME NEW n \in Npcs, Interrupt(n)
      PROVE  WalkInv'
  <2> DEFINE v == [npc[n] EXCEPT !.toil = "Idle", !.disturbed = npc[n].waypoints # <<>>]
  <2>1. v \in Walker
    BY <1>1 DEF Walker
  <2>2. WalkerInv(v)
    BY <1>1, <2>1, TouchedWalker DEF Walker
  <2>3. npc' = [npc EXCEPT ![n] = v]
    BY <1>1, <1>8 DEF Interrupt
  <2> HIDE DEF v
  <2>4. QED
    BY <1>3, <1>8, <2>2, <2>3 DEF Interrupt, Ordered
<1>9. ASSUME NEW n \in Npcs, Resume(n)
      PROVE  WalkInv'
  <2> DEFINE v == [npc[n] EXCEPT !.toil = "Moving"]
  <2>1. v \in Walker
    BY <1>1 DEF Walker
  <2>2. WalkerInv(v)
    BY <1>1, <2>1, TouchedWalker DEF Walker
  <2>3. npc' = [npc EXCEPT ![n] = v]
    BY <1>1, <1>9 DEF Resume
  <2> HIDE DEF v
  <2>4. QED
    BY <1>3, <1>9, <2>2, <2>3 DEF Resume
<1>10. CASE RunSystems
  BY <1>1, <1>10, OrdersWalk DEF RunSystems
<1>11. QED
  BY <1>4, <1>5, <1>6, <1>7, <1>8, <1>9, <1>10

\* What is looked up for the NPC whose turn it is.
LEMMA PlannerWalker ==
  ASSUME WalkInv
  PROVE  /\ turn \in Npcs /\ DOMAIN npc = Npcs
         /\ npc[turn] \in Walker /\ WalkerInv(npc[turn])
         /\ Planner \in Walker /\ WalkerInv(Planner)
         /\ Planner.loc = npc[turn].loc /\ Planner.target = npc[turn].target
         /\ Planner.waypoints # <<>> => Planner = npc[turn] /\ ~TargetMoved(npc[turn])
         /\ Here \in Tiles /\ There = Planner.target /\ There \in Tiles
         /\ \A w : npc' = [npc EXCEPT ![turn] = w] => Becomes(w)
         /\ npc' = npc => Becomes(npc[turn])
<1>1. turn \in Npcs /\ DOMAIN npc = Npcs /\ WalkerInv(npc[turn])
  BY DEF WalkInv, TurnInv
<1>2. npc[turn] \in Walker /\ npc[turn].target \in Tiles
  BY <1>1 DEF WalkerInv, Walker
<1>3. /\ Planner \in Walker /\ WalkerInv(Planner)
      /\ Planner.loc = npc[turn].loc /\ Planner.target = npc[turn].target
      /\ Planner.waypoints # <<>> => Planner = npc[turn] /\ ~TargetMoved(npc[turn])
  BY <1>1, RefreshedWalker DEF Planner
<1>4. Here \in Tiles /\ There = Planner.target /\ There \in Tiles
  BY <1>2, <1>3, ClampedIsTile, ClampedTile DEF Here, There
<1>5. \A w : npc' = [npc EXCEPT ![turn] = w] => Becomes(w)
  BY <1>1 DEF Becomes
<1>6. npc' = npc => Becomes(npc[turn])
  BY <1>1 DEF Becomes
<1>7. QED
  BY <1>1, <1>2, <1>3, <1>4, <1>5, <1>6

LEMMA PlanStep ==
  ASSUME SearchedInv, WalkInv,
         \/ Dismiss \/ PlanStraight \/ KeepPath \/ PutOff
         \/ FindSameTile \/ FindNothing \/ FindCached \/ StartSearch
  PROVE  WalkInv'
<1>1. phase = "Plan"
  BY DEF Dismiss, PlanStraight, KeepPath, PutOff, FindSameTile, FindNothing, FindCached,
         StartSearch, Spend, Searchable, NeedsSearch, Planning
<1>2. ASSUME NEW w, WalkerInv(w), w.toil = "Moving" /\ w.waypoints # <<>> => ~TargetMoved(w),
             Becomes(w), NextTurn("Move")
      PROVE  WalkInv'
  BY <1>1, <1>2, PlanWalk
<1>3. ASSUME NEW path \in Seq(Tiles),
             path # <<>> => BucketOf(path[Len(path)]) = BucketOf(There),
             Finds(Adopt(Planner, path, FALSE))
      PROVE  WalkInv'
  <2>1. WalkerInv(Adopt(Planner, path, FALSE)) /\ ~TargetMoved(Adopt(Planner, path, FALSE))
    BY <1>3, PlannerWalker, AdoptWalker
  <2>2. QED
    BY <1>2, <1>3, <2>1, PlannerWalker DEF Finds
<1>4. CASE Dismiss
  BY <1>2, <1>4, PlannerWalker DEF Dismiss
<1>5. CASE PlanStraight
  <2> DEFINE f == Forget(npc[turn])
             w == [f EXCEPT !.index = 1, !.partial = FALSE, !.retries = 0,
                            !.last_target = npc[turn].target, !.speed = TRUE]
  <2>1. f \in Walker /\ f.waypoints = <<>> /\ npc[turn].target \in Tiles
    BY PlannerWalker, ForgetWalker DEF Walker
  <2>2. npc' = [npc EXCEPT ![turn] = w] /\ NextTurn("Move")
    BY <1>5 DEF PlanStraight
  <2> HIDE DEF f
  <2>3. w \in Walker /\ w.waypoints = <<>>
    BY <2>1, Indices DEF Walker
  <2> HIDE DEF w
  <2>4. WalkerInv(w)
    BY <2>3, PathlessWalker
  <2>5. QED
    BY <1>2, <2>2, <2>3, <2>4, PlannerWalker
<1>6. CASE KeepPath
  <2>1. Planner.waypoints # <<>> /\ npc' = npc /\ NextTurn("Move")
    BY <1>6 DEF KeepPath
  <2>2. QED
    BY <1>2, <2>1, PlannerWalker
<1>7. CASE PutOff
  <2>1. Planner.waypoints = <<>> /\ npc' = [npc EXCEPT ![turn] = Planner] /\ NextTurn("Move")
    BY <1>7 DEF PutOff, NeedsSearch
  <2>2. QED
    BY <1>2, <2>1, PlannerWalker
<1>8. CASE FindSameTile
  <2> DEFINE path == <<There>>
  <2>1. path \in Seq(Tiles) /\ path[Len(path)] = There
    BY PlannerWalker
  <2>2. Finds(Adopt(Planner, path, FALSE))
    BY <1>8 DEF FindSameTile
  <2> HIDE DEF path
  <2>3. QED
    BY <1>3, <2>1, <2>2
<1>9. CASE FindNothing
  <2>1. WalkerInv(Abandon(Planner)) /\ ~TargetMoved(Abandon(Planner))
    BY PlannerWalker, AbandonWalker
  <2>2. QED
    BY <1>2, <1>9, <2>1, PlannerWalker DEF FindNothing, Finds
<1>10. CASE FindCached
  <2> DEFINE key == CacheKey(Here, There)
             path == cache[key]
  <2>1. key \in DOMAIN cache /\ Finds(Adopt(Planner, path, FALSE))
    BY <1>10 DEF FindCached
  <2>2. Remembered(key, path)
    BY <2>1 DEF SearchedInv, CacheInv
  <2>3. path \in Seq(Tiles) /\ key = <<BucketOf(path[1]), BucketOf(path[Len(path)])>>
    BY <2>2 DEF Remembered
  <2>4. BucketOf(path[Len(path)]) = BucketOf(There)
    BY <2>3 DEF CacheKey
  <2> HIDE DEF path, key
  <2>5. QED
    BY <1>3, <2>1, <2>3, <2>4
<1>11. CASE StartSearch
  <2>1. /\ npc' = [npc EXCEPT ![turn] = Planner] /\ phase' = "Search" /\ turn' = turn
        /\ search'.to = There
    BY <1>11 DEF StartSearch
  <2>2. Becomes(Planner)
    BY <2>1, PlannerWalker
  <2>3. TurnInv'
    BY <2>1, <2>2, PlannerWalker DEF WalkInv, TurnInv, Becomes
  <2>4. ASSUME NEW n \in Npcs
        PROVE  (WalkerInv(npc[n]) /\ OnCourse(n))'
    <3>1. Planned(n)' => n # turn /\ Planned(n)
      BY <1>1, <2>1, PlannerWalker, PathfindingAssumption DEF Planned, Npcs
    <3>2. CASE n = turn
      BY <2>1, <2>2, <3>1, <3>2, PlannerWalker
        DEF Becomes, OnCourse, WalkerInv, LeadsThere, StandsAtEnd, End, PathUsedUp
    <3>3. CASE n # turn
      <4>1. npc'[n] = npc[n] /\ WalkerInv(npc[n]) /\ OnCourse(n)
        BY <2>2, <3>3 DEF Becomes, WalkInv
      <4>2. QED
        BY <3>1, <4>1 DEF OnCourse, WalkerInv, LeadsThere, StandsAtEnd, End, PathUsedUp, TargetMoved
    <3>4. QED
      BY <3>2, <3>3
  <2>5. QED
    BY <2>2, <2>3, <2>4 DEF WalkInv, Becomes
<1>12. QED
  BY <1>4, <1>5, <1>6, <1>7, <1>8, <1>9, <1>10, <1>11

LEMMA SearchStep ==
  ASSUME SearchedInv, WalkInv,
         GiveUp \/ \E e \in search.open : SkipStale(e) \/ Expand(e) \/ ReachGoal(e)
  PROVE  WalkInv'
<1>1. phase = "Search"
  BY DEF GiveUp, SkipStale, Expand, ReachGoal, Top
<1>2. SearchInv /\ To = npc[turn].target
  BY <1>1 DEF SearchedInv, PathInv, WalkInv, TurnInv, To
<1>3. ASSUME NEW path \in Seq(Tiles), NEW partial \in BOOLEAN,
             ~partial => path[Len(path)] = To \/ ~Reachable(path[Len(path)], To),
             Finds(Adopt(npc[turn], path, partial))
      PROVE  WalkInv'
  <2>1. /\ WalkerInv(Adopt(npc[turn], path, partial))
        /\ ~TargetMoved(Adopt(npc[turn], path, partial))
    BY <1>2, <1>3, PlannerWalker, AdoptWalker
  <2>2. QED
    BY <1>1, <1>3, <2>1, PlannerWalker, PlanWalk DEF Finds
<1>4. ASSUME NEW e \in search.open, SkipStale(e) \/ Expand(e)
      PROVE  WalkInv'
  <2>1. phase' = phase /\ turn' = turn /\ npc' = npc
    BY <1>4 DEF SkipStale, Expand
  <2>2. search'.to = search.to
    <3>1. CASE SkipStale(e)
      BY <1>2, <3>1 DEF SkipStale, Popped, SearchInv, SearchType
    <3>2. CASE Expand(e)
      BY <1>2, <3>2, ExpandEffect
    <3>3. QED
      BY <1>4, <3>1, <3>2
  <2>3. QED
    BY <2>1, <2>2 DEF WalkInv, TurnInv, OnCourse, Planned, WalkerInv, LeadsThere, StandsAtEnd,
                      End, PathUsedUp, TargetMoved
<1>5. ASSUME NEW e \in search.open, ReachGoal(e)
      PROVE  WalkInv'
  <2> DEFINE path == PathTo(To)
  <2>1. e.at = To /\ Finds(Adopt(npc[turn], path, FALSE))
    BY <1>5 DEF ReachGoal
  <2>2. To \in Discovered
    BY <1>2, <2>1 DEF SearchInv, OpenInv
  <2>3. path \in Seq(Tiles) /\ path[Len(path)] = To
    BY <1>2, <2>2, PathToTraces DEF Traces
  <2> HIDE DEF path
  <2>4. QED
    BY <1>3, <2>1, <2>3
<1>6. CASE GiveUp
  <2> DEFINE hit_cap == search.open # {}
             path == PathTo(search.best)
  <2>1. Finds(IF search.best = From THEN Abandon(npc[turn]) ELSE Adopt(npc[turn], path, hit_cap))
    BY <1>6 DEF GiveUp
  <2>2. search.best \in Discovered
    BY <1>2 DEF SearchInv, TreeInv
  <2>3. path \in Seq(Tiles) /\ path[Len(path)] = search.best
    BY <1>2, <2>2, PathToTraces DEF Traces
  <2>4. ~hit_cap => ~Reachable(search.best, To)
    BY <1>2, <2>2, NoWayOut
  <2>5. hit_cap \in BOOLEAN
    OBVIOUS
  <2> HIDE DEF path, hit_cap
  <2>6. CASE search.best = From
    <3>1. WalkerInv(Abandon(npc[turn])) /\ ~TargetMoved(Abandon(npc[turn]))
      BY PlannerWalker, AbandonWalker
    <3>2. QED
      BY <1>1, <2>1, <2>6, <3>1, PlannerWalker, PlanWalk DEF Finds
  <2>7. CASE search.best # From
    BY <1>3, <2>1, <2>3, <2>4, <2>5, <2>7
  <2>8. QED
    BY <2>6, <2>7
<1>7. QED
  BY <1>4, <1>5, <1>6

LEMMA ArrivedWalker ==
  ASSUME NEW w \in Walker
  PROVE  WalkerInv(Arrived(w))
<1> DEFINE f == Forget(w)
<1>1. f \in Walker /\ f.waypoints = <<>> /\ w.target \in Tiles
  BY ForgetWalker DEF Walker
<1>2. Arrived(w) = [f EXCEPT !.loc = w.target, !.toil = "Working",
                             !.index = 1, !.partial = FALSE, !.retries = 0, !.speed = FALSE]
  BY DEF Arrived
<1> HIDE DEF f
<1>3. Arrived(w) \in Walker /\ Arrived(w).waypoints = <<>>
  <2> DEFINE g == [f EXCEPT !.loc = w.target, !.toil = "Working"]
             h == [g EXCEPT !.index = 1, !.retries = 0]
  <2>1. g \in Walker /\ g.waypoints = <<>>
    BY <1>1 DEF Walker
  <2>2. h = [f EXCEPT !.loc = w.target, !.toil = "Working", !.index = 1, !.retries = 0]
    OBVIOUS
  <2> HIDE DEF g
  <2>3. h \in Walker /\ h.waypoints = <<>>
    BY <2>1, Indices DEF Walker
  <2>4. Arrived(w) = [h EXCEPT !.partial = FALSE, !.speed = FALSE]
    BY <1>1, <1>2, <2>2 DEF Walker
  <2> HIDE DEF h
  <2>5. QED
    BY <2>3, <2>4 DEF Walker
<1>4. QED
  BY <1>3, PathlessWalker

LEMMA MoveStep ==
  ASSUME WalkInv,
         \/ Stand \/ ArriveStraight \/ GoStraight \/ Drift
         \/ PassWaypoint \/ FollowPath \/ StandOnPath \/ ArriveByPath \/ NextLeg
  PROVE  WalkInv'
<1> DEFINE w == npc[turn]
<1>1. phase = "Move"
  BY DEF Stand, ArriveStraight, GoStraight, Drift, PassWaypoint, FollowPath, StandOnPath,
         ArriveByPath, NextLeg, Moving
<1>2. ASSUME NEW v, WalkerInv(v), Moves(v)
      PROVE  WalkInv'
  BY <1>1, <1>2, MoveWalk, PlannerWalker DEF Moves
<1>3. /\ w \in Walker /\ WalkerInv(w) /\ w.loc \in Tiles /\ w.target \in Tiles
      /\ w.waypoints \in Seq(Tiles) /\ Len(w.waypoints) \in Nat /\ w.index \in Index
      /\ OnPath(w) => w.waypoints[w.index] \in Tiles
  <2>1. /\ w \in Walker /\ WalkerInv(w) /\ w.loc \in Tiles /\ w.target \in Tiles
        /\ w.waypoints \in Seq(Tiles) /\ Len(w.waypoints) \in Nat /\ w.index \in Index
    BY PlannerWalker DEF Walker
  <2>2. QED
    BY <2>1 DEF OnPath, Index
<1>4. CASE Stand
  <2> DEFINE v == [w EXCEPT !.speed = FALSE]
  <2>1. v \in Walker
    BY <1>3 DEF Walker
  <2>2. WalkerInv(v)
    BY <1>3, <2>1, TouchedWalker DEF Walker
  <2>3. QED
    BY <1>2, <1>4, <2>2 DEF Stand
<1>5. CASE ArriveStraight \/ ArriveByPath
  BY <1>2, <1>3, <1>5, ArrivedWalker DEF ArriveStraight, ArriveByPath
<1>6. CASE GoStraight
  <2> DEFINE t == Toward(w.loc, w.target)
             v == [w EXCEPT !.loc = t]
  <2>1. w.waypoints = <<>> /\ w.loc # w.target /\ Moves(v)
    BY <1>6 DEF GoStraight
  <2>2. t \in Tiles
    BY <1>3, <2>1, TowardIsTile
  <2> HIDE DEF t
  <2>3. v \in Walker /\ v.waypoints = <<>>
    BY <1>3, <2>1, <2>2 DEF Walker
  <2>4. QED
    BY <1>2, <2>1, <2>3, PathlessWalker
<1>7. CASE Drift
  <2>1. PICK t \in (IF w.speed THEN Adjacent[w.loc] ELSE {}) \cup {w.loc} :
          Moves([w EXCEPT !.loc = t])
    BY <1>7 DEF Drift
  <2>2. w.waypoints = <<>>
    BY <1>7 DEF Drift
  <2>3. t \in Tiles
    BY <1>3, <2>1, AdjacentParts
  <2>4. [w EXCEPT !.loc = t] \in Walker /\ [w EXCEPT !.loc = t].waypoints = <<>>
    BY <1>3, <2>2, <2>3 DEF Walker
  <2>5. QED
    BY <1>2, <2>1, <2>4, PathlessWalker
<1>8. ASSUME OnPath(w), NEW t \in Tiles, NEW i \in {w.index, w.index + 1},
             i = w.index + 1 => t = w.waypoints[w.index],
             Moves([w EXCEPT !.loc = t, !.index = i])
      PROVE  WalkInv'
  <2> DEFINE v == [w EXCEPT !.loc = t, !.index = i]
  <2>1. /\ v \in Walker /\ v.waypoints = w.waypoints /\ v.partial = w.partial
        /\ v.last_target = w.last_target /\ v.loc = t /\ v.index = i
    <3>1. i \in Index
      BY <1>3, <1>8, Indices
    <3>2. QED
      BY <1>3, <1>8, <3>1 DEF Walker
  <2> HIDE DEF v
  <2>2. LeadsThere(v)
    BY <1>3, <2>1 DEF WalkerInv, LeadsThere, End
  <2>3. PathUsedUp(v) => v.loc = End(v)
    <3>1. w.index <= Len(w.waypoints)
      BY <1>8 DEF OnPath
    <3>2. PathUsedUp(v) => i = w.index + 1 /\ w.index = Len(w.waypoints)
      BY <1>3, <2>1, <3>1, Indices DEF PathUsedUp
    <3>3. QED
      BY <1>8, <2>1, <3>2 DEF End
  <2>4. QED
    BY <1>2, <1>8, <2>1, <2>2, <2>3 DEF WalkerInv, StandsAtEnd, v
<1>9. CASE PassWaypoint
  <2>1. OnPath(w) /\ w.loc = w.waypoints[w.index] /\ Moves([w EXCEPT !.index = w.index + 1])
    BY <1>3, <1>9 DEF PassWaypoint, Walker
  <2>2. [w EXCEPT !.index = w.index + 1] = [w EXCEPT !.loc = w.loc, !.index = w.index + 1]
    BY <1>3 DEF Walker
  <2>3. QED
    BY <1>3, <1>8, <2>1, <2>2
<1>10. CASE FollowPath
  <2> DEFINE t == Toward(w.loc, w.waypoints[w.index])
             i == IF t = w.waypoints[w.index] THEN w.index + 1 ELSE w.index
  <2>1. OnPath(w) /\ w.loc # w.waypoints[w.index] /\ Moves([w EXCEPT !.loc = t, !.index = i])
    BY <1>3, <1>10 DEF FollowPath, Walker
  <2>2. t \in Tiles
    BY <1>3, <2>1, TowardIsTile
  <2>3. i \in {w.index, w.index + 1} /\ (i = w.index + 1 => t = w.waypoints[w.index])
    BY <1>3, Indices
  <2> HIDE DEF t, i
  <2>4. QED
    BY <1>8, <2>1, <2>2, <2>3
<1>11. CASE StandOnPath
  BY <1>2, <1>3, <1>11 DEF StandOnPath
<1>12. CASE NextLeg
  <2> DEFINE f == Forget(w)
             v == [f EXCEPT !.index = 1]
  <2>1. f \in Walker /\ f.waypoints = <<>>
    BY <1>3, ForgetWalker
  <2>2. Moves(v)
    BY <1>12 DEF NextLeg
  <2> HIDE DEF f
  <2>3. v \in Walker /\ v.waypoints = <<>>
    BY <2>1, Indices DEF Walker
  <2> HIDE DEF v
  <2>4. QED
    BY <1>2, <2>2, <2>3, PathlessWalker
<1>13. QED
  BY <1>4, <1>5, <1>6, <1>7, <1>9, <1>10, <1>11, <1>12

LEMMA WalkStep ==
  ASSUME SearchedInv, WalkInv, [Next]_vars
  PROVE  WalkInv'
<1>1. CASE UNCHANGED vars
  BY <1>1 DEF vars, WalkInv, TurnInv, OnCourse, Planned, WalkerInv, LeadsThere, StandsAtEnd,
              End, PathUsedUp, TargetMoved
<1>2. QED
  BY <1>1, OrdersStep, PlanStep, SearchStep, MoveStep DEF Next, Frame

LEMMA WalkInit == Init => WalkInv
<1>1. SUFFICES ASSUME Init PROVE WalkInv
  OBVIOUS
<1>2. /\ N \in Nat /\ 1 \in Npcs /\ 1 \in Index
      /\ <<0, 0>> \in Tiles /\ <<>> \in Seq(Tiles)
  BY PathfindingAssumption, SizePositive, Indices DEF Npcs, Tiles
<1>3. TurnInv
  BY <1>1, <1>2 DEF Init, TurnInv
<1>4. ASSUME NEW n \in Npcs
      PROVE  npc[n] \in Walker /\ npc[n].waypoints = <<>>
  <2>1. Start[n] \in Tiles
    BY PathfindingAssumption DEF Npcs
  <2>2. QED
    BY <1>1, <1>2, <2>1 DEF Init, Walker
<1>5. DOMAIN npc = Npcs
  BY <1>1 DEF Init
<1>6. QED
  BY <1>3, <1>4, <1>5, PathlessWalker DEF WalkInv, OnCourse

\* The NPCs and their paths, at every point of the frame: a path that is not
\* partial leads into the square of the place it was found for or as near as
\* one gets; whoever has used up a path stands at its end or was stopped; and
\* whoever is about to move on a path has its target where the path leads
\* (SystemMovement.cpp SystemPathfinding, SystemMovement).
THEOREM WalkInvariant == Spec => []WalkInv
<1>1. SearchedInv /\ WalkInv /\ [Next]_vars => WalkInv'
  BY WalkStep
<1>2. QED
  BY <1>1, WalkInit, SearchInvariant, PTL DEF Spec

\* SystemMovement.cpp puts no NPC onto a target that it is not near, but for
\* what the code lets pass: see ArrivesNear.
THEOREM NobodyIsMovedFar == Spec => ArrivesNear
<1> DEFINE Near(n) ==
      phase = "Move" /\ npc[n].toil = "Moving" /\ npc'[n].toil = "Working" =>
        LET w == npc[n]
            end == w.waypoints[Len(w.waypoints)]
        IN  \/ w.loc = w.target
            \/ /\ ~TargetMoved(w)
               /\ BucketOf(end) = BucketOf(w.last_target) \/ ~Reachable(end, w.last_target)
               /\ w.loc = end \/ w.disturbed
<1>1. ASSUME WalkInv, [Next]_vars
      PROVE  \A n \in Npcs : Near(n)
  <2>1. SUFFICES ASSUME NEW n \in Npcs, phase = "Move",
                        npc[n].toil = "Moving", npc'[n].toil = "Working",
                        npc[n].loc # npc[n].target
                 PROVE  /\ ~TargetMoved(npc[n])
                        /\ \/ BucketOf(End(npc[n])) = BucketOf(npc[n].last_target)
                           \/ ~Reachable(End(npc[n]), npc[n].last_target)
                        /\ npc[n].loc = End(npc[n]) \/ npc[n].disturbed
    BY DEF End
  <2> DEFINE w == npc[turn]
  <2>2. turn \in Npcs /\ DOMAIN npc = Npcs
    BY <1>1 DEF WalkInv, TurnInv
  <2>3. WalkerInv(npc[n]) /\ OnCourse(n)
    BY <1>1 DEF WalkInv
  <2>4. npc' # npc
    BY <2>1
  <2>5. \/ Stand \/ ArriveStraight \/ GoStraight \/ Drift
        \/ PassWaypoint \/ FollowPath \/ StandOnPath \/ ArriveByPath \/ NextLeg
    BY <1>1, <2>1, <2>4
      DEF Next, Frame, vars, Job, Steer, SitDown, Hold, Interrupt, Resume, Ordered,
          RunSystems, Dismiss, PlanStraight, KeepPath, PutOff, FindSameTile, FindNothing,
          FindCached, StartSearch, Spend, Searchable, NeedsSearch, Planning, SkipStale,
          Expand, ReachGoal, Top, GiveUp
  <2>6. PICK v : Moves(v) /\ (v.toil = npc[turn].toil \/ ArriveStraight \/ ArriveByPath)
    <3>1. w \in Walker
      BY <1>1, <2>2 DEF WalkInv, WalkerInv
    <3>2. ASSUME NEW u, Moves(u), u.toil = w.toil
          PROVE  \E v : Moves(v) /\ (v.toil = w.toil \/ ArriveStraight \/ ArriveByPath)
      BY <3>2
    <3>3. CASE Stand
      <4>1. [w EXCEPT !.speed = FALSE].toil = w.toil
        BY <3>1 DEF Walker
      <4>2. QED
        BY <3>2, <3>3, <4>1 DEF Stand
    <3>4. CASE ArriveStraight \/ ArriveByPath
      BY <3>4 DEF ArriveStraight, ArriveByPath
    <3>5. CASE GoStraight
      <4>1. [w EXCEPT !.loc = Toward(w.loc, w.target)].toil = w.toil
        BY <3>1 DEF Walker
      <4>2. QED
        BY <3>2, <3>5, <4>1 DEF GoStraight
    <3>6. CASE Drift
      <4>1. PICK t : Moves([w EXCEPT !.loc = t])
        BY <3>6 DEF Drift
      <4>2. [w EXCEPT !.loc = t].toil = w.toil
        BY <3>1 DEF Walker
      <4>3. QED
        BY <3>2, <4>1, <4>2
    <3>7. CASE PassWaypoint
      <4>1. Moves([w EXCEPT !.index = w.index + 1])
        BY <3>1, <3>7 DEF PassWaypoint, Walker
      <4>2. [w EXCEPT !.index = w.index + 1].toil = w.toil
        BY <3>1 DEF Walker
      <4>3. QED
        BY <3>2, <4>1, <4>2
    <3>8. CASE FollowPath
      <4> DEFINE t == Toward(w.loc, w.waypoints[w.index])
                 i == IF t = w.waypoints[w.index] THEN w.index + 1 ELSE w.index
      <4>1. Moves([w EXCEPT !.loc = t, !.index = i])
        BY <3>1, <3>8 DEF FollowPath, Walker
      <4> HIDE DEF t, i
      <4>2. [w EXCEPT !.loc = t, !.index = i].toil = w.toil
        BY <3>1 DEF Walker
      <4>3. QED
        BY <3>2, <4>1, <4>2
    <3>9. CASE StandOnPath
      BY <3>9 DEF StandOnPath
    <3>10. CASE NextLeg
      <4>1. [Forget(w) EXCEPT !.index = 1].toil = w.toil
        BY <3>1, ForgetWalker DEF Walker
      <4>2. QED
        BY <3>2, <3>10, <4>1 DEF NextLeg
    <3>11. QED
      BY <2>5, <3>3, <3>4, <3>5, <3>6, <3>7, <3>8, <3>9, <3>10
  <2>7. n = turn /\ npc'[turn] = v
    BY <2>1, <2>2, <2>6 DEF Moves
  <2>8. ArriveByPath
    BY <2>1, <2>6, <2>7 DEF ArriveStraight
  <2>9. w.waypoints # <<>> /\ PathUsedUp(w) /\ ~w.partial
    BY <2>1, <2>7, <2>8 DEF ArriveByPath, PathUsedUp
  <2>10. Planned(n)
    BY <2>1, <2>2, <2>7, PathfindingAssumption DEF Planned, Npcs
  <2>11. QED
    BY <2>1, <2>3, <2>7, <2>9, <2>10 DEF OnCourse, WalkerInv, LeadsThere, StandsAtEnd
<1>2. QED
  BY <1>1, WalkInvariant, PTL DEF Spec, ArrivesNear
=============================================================================
