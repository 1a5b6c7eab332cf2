------------------------------ MODULE GridMap ------------------------------
(***************************************************************************)
(* The grid of GridMap.cpp: tiles, obstacles, the steps A* may take, the   *)
(* octile distance it is guided by, and the line of sight.  A position is  *)
(* the tile that std::round gives.                                         *)
(***************************************************************************)
EXTENDS Integers, FiniteSets, Sequences

CONSTANTS Width, Height,    \* 2000 x 2000 tiles in the code
          Walls,            \* the tiles of the obstacles
          Bucket,           \* 8: side of the squares that share a cached path
          Straight,         \* the costs of a step, in units of any size:
          Diagonal          \* 1.0 and 1.41421356 in the code

ASSUME GridAssumption ==
  /\ {Width, Height, Bucket} \subseteq Nat \ {0}
  /\ Walls \subseteq (0 .. Width - 1) \X (0 .. Height - 1)
  /\ {Straight, Diagonal} \subseteq Nat \ {0}
  /\ Straight <= Diagonal /\ Diagonal <= 2 * Straight

Tiles == (0 .. Width - 1) \X (0 .. Height - 1)

IsWalkable(t) == t \in Tiles \ Walls

\* std::clamp to the grid.
Clamp(x, high) == IF x \in 0 .. high THEN x ELSE IF x < 0 THEN 0 ELSE high

Clamped(p) == <<Clamp(p[1], Width - 1), Clamp(p[2], Height - 1)>>

Gap(i, j) == IF i < j THEN j - i ELSE i - j

Adjacent ==
  [t \in Tiles |-> {n \in Tiles \ {t} : Gap(t[1], n[1]) <= 1 /\ Gap(t[2], n[2]) <= 1}]

Aligned(t, n) == t[1] = n[1] \/ t[2] = n[2]

MoveCost(t, n) == IF Aligned(t, n) THEN Straight ELSE Diagonal

\* Broken variant: diagonal steps are not held back at corners.
NeighboursAtCorners == [t \in Tiles |-> {n \in Adjacent[t] : IsWalkable(n)}]

\* A diagonal step needs both tiles beside it free.
Neighbours ==
  [t \in Tiles |->
    {n \in Adjacent[t] :
       /\ IsWalkable(n)
       /\ Aligned(t, n) \/ (IsWalkable(<<n[1], t[2]>>) /\ IsWalkable(<<t[1], n[2]>>))}]

Octile(t, n) ==
  LET dx == Gap(t[1], n[1])
      dz == Gap(t[2], n[2])
  IN  Straight * (dx + dz)
        + (Diagonal - 2 * Straight) * (IF dx < dz THEN dx ELSE dz)

BucketOf(t) == <<t[1] \div Bucket, t[2] \div Bucket>>

\* Bresenham's line from a to b, both ends included.
Bresenham(a, b) ==
  LET dx == Gap(a[1], b[1])
      dz == Gap(a[2], b[2])
      sx == IF a[1] < b[1] THEN 1 ELSE -1
      sz == IF a[2] < b[2] THEN 1 ELSE -1
      at[k \in Nat] ==
        IF k = 0 THEN [tile |-> a, err |-> dx - dz]
        ELSE LET p == at[k - 1]
                 i == IF 2 * p.err > -dz THEN 1 ELSE 0
                 j == IF 2 * p.err < dx THEN 1 ELSE 0
             IN  [tile |-> <<p.tile[1] + i * sx, p.tile[2] + j * sz>>,
                  err  |-> p.err - i * dz + j * dx]
  IN  [k \in 0 .. (IF dx < dz THEN dz ELSE dx) |-> at[k].tile]

Line == [ends \in Tiles \X Tiles |-> Bresenham(ends[1], ends[2])]

IsPathBlocked(a, b) ==
  LET line == Line[Clamped(a), Clamped(b)] IN \E k \in DOMAIN line : ~IsWalkable(line[k])

\* The next tile of the way from a straight to b.
Toward(a, b) == Line[a, b][1]

-----------------------------------------------------------------------------
(* What a search has to find, written without regard to how it searches.   *)

Box(a, b) ==
  {t \in Tiles : \A i \in {1, 2} : t[i] \in {a[i], b[i]}}

\* The steps of a walker that touches no wall: every tile of the rectangle
\* it crosses is free, but for the one it stands on.
Steps ==
  {s \in Tiles \X Tiles :
     s[2] \in Adjacent[s[1]] /\ \A t \in Box(s[1], s[2]) \ {s[1]} : IsWalkable(t)}

\* One round of relaxation: the walks <<from, to, cost>> and all that are one
\* step longer, as far as no other between the same tiles is cheaper.
Relaxed(walks) ==
  LET longer == UNION {{<<w[1], s[2], w[3] + MoveCost(s[1], s[2])>> :
                          s \in {r \in Steps : r[1] = w[2]}} : w \in walks}
      all == walks \cup longer
  IN  {w \in all : \A v \in all : v[1] = w[1] /\ v[2] = w[2] => w[3] <= v[3]}

\* The cheapest of the walks of at most k steps.
Within[k \in Nat] == IF k = 0 THEN {<<a, a, 0>> : a \in Tiles} ELSE Relaxed(Within[k - 1])

\* The cheapest walks: none of them needs more steps than there are tiles.
Cheapest == Within[Cardinality(Tiles)]

Reachable(a, b) == \E w \in Cheapest : w[1] = a /\ w[2] = b

Length(path) ==
  LET upTo[i \in Nat] ==
        IF i <= 1 THEN 0 ELSE upTo[i - 1] + MoveCost(path[i - 1], path[i])
  IN  upTo[Len(path)]

\* A path that touches no wall and that no other between its ends beats.
ShortestWalk(path) ==
  /\ \A i \in 2 .. Len(path) : <<path[i - 1], path[i]>> \in Steps
  /\ <<path[1], path[Len(path)], Length(path)>> \in Cheapest
=============================================================================
