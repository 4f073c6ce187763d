---------------------------- MODULE Audits_proofs ----------------------------
(***************************************************************************)
(* A chair arrives in time whatever is drawn, and the audits of the owner  *)
(* accept whatever a correct server says, but for two races, for any legs, *)
(* speeds, rides, sales and lost answers.                                  *)
(***************************************************************************)
EXTENDS Audits, FiniteSetTheorems, SequenceTheorems, WellFoundedInduction, TLAPS

-----------------------------------------------------------------------------
(* Moves.                                                                  *)

Lesser(a, b) == IF a < b THEN a ELSE b

LEMMA AbsNat == ASSUME NEW n \in Int PROVE Abs(n) \in Nat
BY DEF Abs

\* On one axis, n steps toward b cover n, or the distance when it is shorter.
LEMMA TowardSteps ==
  ASSUME NEW a \in Int, NEW b \in Int, NEW n \in Nat
  PROVE  /\ Toward(a, b, n) \in Int
         /\ Abs(Toward(a, b, n) - a) = Lesser(n, Abs(a - b))
         /\ Abs(a - Toward(a, b, n)) = Lesser(n, Abs(a - b))
         /\ Abs(Toward(a, b, n) - b) = Abs(a - b) - Lesser(n, Abs(a - b))
BY DEF Toward, Abs, Lesser

\* Steps toward b in two goes: the second does not turn back.
LEMMA TwiceToward ==
  ASSUME NEW a \in Int, NEW b \in Int, NEW m \in Nat, NEW n \in Nat,
         NEW t \in Int, t = Toward(a, b, m),
         NEW u \in Int, u = Toward(t, b, n)
  PROVE  Abs(a - u) = Abs(a - t) + Abs(t - u)
BY DEF Toward, Abs, Lesser

\* A move by step covers step, or the whole way when it is shorter, and all of
\* it toward the target, whatever part of it was drawn for the x axis
\* (coordinate.go:36).
THEOREM MoveCoversStep ==
  ASSUME NEW c \in Coordinate, NEW target \in Coordinate,
         NEW step \in Nat, NEW x \in 0 .. step
  PROVE  LET to == MoveToward(c, target, step, x)
             d  == DistanceTo(c, target)
         IN  /\ to \in Coordinate
             /\ DistanceTo(c, to) = Lesser(step, d)
             /\ DistanceTo(to, target) = d - Lesser(step, d)
<1>1. PICK cx \in Int, cy \in Int, tx \in Int, ty \in Int :
        /\ cx = c.x /\ cy = c.y /\ tx = target.x /\ ty = target.y
  BY DEF Coordinate
<1>2. PICK dx \in Nat, dy \in Nat : dx = Abs(cx - tx) /\ dy = Abs(cy - ty)
  BY AbsNat
\* The three moves, along the x axis, the y axis and the x axis again.
<1>3. x \in Nat /\ x <= step
  OBVIOUS
<1>4. PICK x1 \in Int : /\ x1 = Toward(cx, tx, x)
                        /\ Abs(x1 - cx) = Lesser(x, dx)
                        /\ Abs(cx - x1) = Lesser(x, dx)
                        /\ Abs(x1 - tx) = dx - Lesser(x, dx)
  <2>1. /\ Toward(cx, tx, x) \in Int
        /\ Abs(Toward(cx, tx, x) - cx) = Lesser(x, Abs(cx - tx))
        /\ Abs(cx - Toward(cx, tx, x)) = Lesser(x, Abs(cx - tx))
        /\ Abs(Toward(cx, tx, x) - tx) = Abs(cx - tx) - Lesser(x, Abs(cx - tx))
    BY <1>3, TowardSteps
  <2>. QED  BY <1>2, <2>1, Zenon
<1>5. PICK y \in Nat, ex \in Nat :
        /\ y = step - Abs(x1 - cx)
        /\ y = step - Lesser(x, dx)
        /\ ex = Abs(x1 - tx)
        /\ ex = dx - Lesser(x, dx)
  <2>1. step - Lesser(x, dx) \in Nat /\ dx - Lesser(x, dx) \in Nat
    BY <1>3 DEF Lesser
  <2>. QED  BY <1>4, <2>1, Zenon
<1>6. PICK y1 \in Int : /\ y1 = Toward(cy, ty, y)
                        /\ Abs(y1 - cy) = Lesser(y, dy)
                        /\ Abs(cy - y1) = Lesser(y, dy)
                        /\ Abs(y1 - ty) = dy - Lesser(y, dy)
  <2>1. /\ Toward(cy, ty, y) \in Int
        /\ Abs(Toward(cy, ty, y) - cy) = Lesser(y, Abs(cy - ty))
        /\ Abs(cy - Toward(cy, ty, y)) = Lesser(y, Abs(cy - ty))
        /\ Abs(Toward(cy, ty, y) - ty) = Abs(cy - ty) - Lesser(y, Abs(cy - ty))
    BY TowardSteps
  <2>. QED  BY <1>2, <2>1, Zenon
<1>7. PICK z \in Nat : z = y - Abs(y1 - cy) /\ z = y - Lesser(y, dy)
  <2>1. y - Lesser(y, dy) \in Nat
    BY DEF Lesser
  <2>. QED  BY <1>6, <2>1, Zenon
<1>8. PICK x2 \in Int : /\ x2 = Toward(x1, tx, z)
                        /\ Abs(x1 - x2) = Lesser(z, ex)
                        /\ Abs(x2 - tx) = ex - Lesser(z, ex)
  <2>1. /\ Toward(x1, tx, z) \in Int
        /\ Abs(Toward(x1, tx, z) - x1) = Lesser(z, Abs(x1 - tx))
        /\ Abs(x1 - Toward(x1, tx, z)) = Lesser(z, Abs(x1 - tx))
        /\ Abs(Toward(x1, tx, z) - tx) = Abs(x1 - tx) - Lesser(z, Abs(x1 - tx))
    BY TowardSteps
  <2>. QED  BY <1>5, <2>1, Zenon
<1>9. MoveToward(c, target, step, x) = [x |-> x2, y |-> y1]
  BY <1>1, <1>4, <1>5, <1>6, <1>7, <1>8, Zenon DEF MoveToward, C
\* What they add up to.
<1>10. PICK to \in Coordinate :
         to = MoveToward(c, target, step, x) /\ to.x = x2 /\ to.y = y1
  BY <1>9 DEF Coordinate
<1>11. /\ DistanceTo(c, target) = dx + dy
       /\ DistanceTo(c, to) = Abs(cx - x2) + Abs(cy - y1)
       /\ DistanceTo(to, target) = Abs(x2 - tx) + Abs(y1 - ty)
  BY <1>1, <1>2, <1>10, Zenon DEF DistanceTo
<1>12. Abs(cx - x2) = Abs(cx - x1) + Abs(x1 - x2)
  BY <1>3, <1>4, <1>8, TwiceToward
<1>13. /\ Abs(cx - x2) + Abs(cy - y1) = Lesser(step, dx + dy)
       /\ Abs(x2 - tx) + Abs(y1 - ty) = (dx + dy) - Lesser(step, dx + dy)
  <2>1. /\ Abs(cx - x2) + Abs(cy - y1) = (Lesser(x, dx) + Lesser(z, ex)) + Lesser(y, dy)
        /\ Abs(x2 - tx) + Abs(y1 - ty) = (ex - Lesser(z, ex)) + (dy - Lesser(y, dy))
    BY <1>4, <1>6, <1>8, <1>12, Zenon
  <2>2. /\ y = step - Lesser(x, dx) /\ ex = dx - Lesser(x, dx)
        /\ z = y - Lesser(y, dy)
    BY <1>5, <1>7
  <2>3. /\ (Lesser(x, dx) + Lesser(z, ex)) + Lesser(y, dy) = Lesser(step, dx + dy)
        /\ (ex - Lesser(z, ex)) + (dy - Lesser(y, dy)) = (dx + dy) - Lesser(step, dx + dy)
    BY <1>3, <2>2 DEF Lesser
  <2>. QED  BY <2>1, <2>3, Zenon
<1>. QED
  BY <1>10, <1>11, <1>13

\* A chair that is a step or less away arrives and does not pass the target,
\* whatever is drawn.
THEOREM LastMoveArrives ==
  ASSUME NEW c \in Coordinate, NEW target \in Coordinate,
         NEW step \in Nat, NEW x \in 0 .. step, DistanceTo(c, target) <= step
  PROVE  MoveToward(c, target, step, x) = target
<1>1. DistanceTo(c, target) \in Int
  BY DEF DistanceTo, Abs, Coordinate
<1>2. PICK to : to = MoveToward(c, target, step, x)
  OBVIOUS
<1>3. to \in Coordinate /\ DistanceTo(to, target) = 0
  BY <1>1, <1>2, MoveCoversStep DEF Lesser
<1>4. to.x = target.x /\ to.y = target.y
  BY <1>3 DEF DistanceTo, Abs, Coordinate
<1>. QED
  BY <1>2, <1>3, <1>4 DEF Coordinate
-----------------------------------------------------------------------------
(* Ways, which are defined by a recursion over their points.               *)

LEMMA LeastNumber ==
  ASSUME NEW S \in SUBSET Nat, S # {}
  PROVE  \E k \in S : \A m \in S : k <= m
<1>1. IsWellFoundedOn(OpToRel(<, Nat), Nat)
  BY NatLessThanWellFounded
<1>2. PICK k \in S : \A m \in S : ~(<<m, k>> \in OpToRel(<, Nat))
  BY <1>1, WFMin
<1>3. \A m \in S : ~(m < k)
  BY <1>2 DEF OpToRel
<1>. QED  BY <1>3

WayEnd == [length : Nat, end : Coordinate]

\* One point further.
Further(before, path, S, i) ==
  IF i \in S
  THEN [length |-> before.length + DistanceTo(before.end, path[i]), end |-> path[i]]
  ELSE before

IsWay(way, start, path, S, n) ==
  way = [i \in 0 .. n |-> IF i = 0 THEN [length |-> 0, end |-> start]
                           ELSE Further(way[i - 1], path, S, i)]

LEMMA DistanceNat ==
  ASSUME NEW c \in Coordinate, NEW d \in Coordinate
  PROVE  /\ DistanceTo(c, d) \in Nat /\ DistanceTo(c, d) = DistanceTo(d, c)
         /\ DistanceTo(c, d) = 0 <=> c = d
<1>1. c = [x |-> c.x, y |-> c.y] /\ d = [x |-> d.x, y |-> d.y]
  BY DEF Coordinate
<1>2. c.x \in Int /\ c.y \in Int /\ d.x \in Int /\ d.y \in Int
  BY DEF Coordinate
<1>3. DistanceTo(c, d) = 0 <=> c.x = d.x /\ c.y = d.y
  BY <1>2 DEF DistanceTo, Abs
<1>. QED  BY <1>1, <1>2, <1>3 DEF DistanceTo, Abs

LEMMA FurtherType ==
  ASSUME NEW before \in WayEnd, NEW path \in Seq(Coordinate), NEW S,
         NEW i \in 1 .. Len(path)
  PROVE  Further(before, path, S, i) \in WayEnd
<1>1. path[i] \in Coordinate /\ before.end \in Coordinate /\ before.length \in Nat
  BY ElementOfSeq DEF WayEnd
<1>2. DistanceTo(before.end, path[i]) \in Nat
  BY <1>1, DistanceNat
<1>. QED  BY <1>1, <1>2 DEF Further, WayEnd

LEMMA WayExists ==
  ASSUME NEW start \in Coordinate, NEW path \in Seq(Coordinate), NEW S
  PROVE  \A n \in 0 .. Len(path) :
           \E way \in [0 .. n -> WayEnd] : IsWay(way, start, path, S, n)
<1> DEFINE Bad == {n \in 0 .. Len(path) :
                     ~\E way \in [0 .. n -> WayEnd] : IsWay(way, start, path, S, n)}
<1>0. Len(path) \in Nat
  BY LenProperties
<1>. SUFFICES ASSUME Bad # {} PROVE FALSE
  OBVIOUS
<1>1. PICK k \in Bad : \A m \in Bad : k <= m
  <2>1. Bad \in SUBSET Nat
    BY <1>0
  <2>. HIDE DEF Bad
  <2>. QED  BY <2>1, LeastNumber
<1>2. k \in 0 .. Len(path)
  OBVIOUS
<1>3. CASE k = 0
  <2> DEFINE w == [i \in 0 .. 0 |-> [length |-> 0, end |-> start]]
  <2>1. w \in [0 .. 0 -> WayEnd]
    BY DEF WayEnd
  <2>2. IsWay(w, start, path, S, 0)
    BY DEF IsWay
  <2>. QED  BY <1>3, <2>1, <2>2
<1>4. CASE k # 0
  <2>1. k - 1 \in 0 .. Len(path) /\ k - 1 \notin Bad /\ k \in 1 .. Len(path)
    BY <1>0, <1>1, <1>2, <1>4
  <2>2. PICK v \in [0 .. k - 1 -> WayEnd] : IsWay(v, start, path, S, k - 1)
    BY <2>1
  <2> DEFINE w == [i \in 0 .. k |-> IF i < k THEN v[i] ELSE Further(v[k - 1], path, S, k)]
  <2>3. v[k - 1] \in WayEnd
    BY <1>2, <2>1, <2>2
  <2>4. Further(v[k - 1], path, S, k) \in WayEnd
    BY <2>1, <2>3, FurtherType
  <2>5. w \in [0 .. k -> WayEnd]
    BY <1>2, <2>2, <2>4
  <2>6. ASSUME NEW i \in 0 .. k
        PROVE  w[i] = IF i = 0 THEN [length |-> 0, end |-> start]
                      ELSE Further(w[i - 1], path, S, i)
    <3>1. CASE i = k
      BY <1>2, <1>4, <3>1
    <3>2. CASE i # k
      <4>1. i \in 0 .. k - 1 /\ w[i] = v[i]
        BY <1>2, <3>2
      <4>2. v[i] = IF i = 0 THEN [length |-> 0, end |-> start]
                   ELSE Further(v[i - 1], path, S, i)
        BY <2>2, <4>1 DEF IsWay
      <4>3. i # 0 => w[i - 1] = v[i - 1]
        BY <1>2, <4>1
      <4>. QED  BY <4>1, <4>2, <4>3
    <3>. QED  BY <3>1, <3>2
  <2>7. IsWay(w, start, path, S, k)
    <3>. HIDE DEF w
    <3>. QED  BY <2>5, <2>6 DEF IsWay
  <2>. QED  BY <2>5, <2>7
<1>. QED  BY <1>3, <1>4

SameUpTo(k, p, q, S, T) ==
  \A i \in 1 .. k : p[i] = q[i] /\ (i \in S <=> i \in T)

LEMMA WayUnique ==
  ASSUME NEW start, NEW p, NEW q, NEW S, NEW T, NEW m \in Nat, NEW n \in Nat,
         NEW v, IsWay(v, start, p, S, m), NEW w, IsWay(w, start, q, T, n),
         NEW k \in Nat, k <= m, k <= n, SameUpTo(k, p, q, S, T)
  PROVE  v[k] = w[k]
<1> DEFINE Bad == {i \in 0 .. k : v[i] # w[i]}
<1>. SUFFICES ASSUME Bad # {} PROVE FALSE
  OBVIOUS
<1>1. PICK i \in Bad : \A j \in Bad : i <= j
  <2>1. Bad \in SUBSET Nat
    OBVIOUS
  <2>. HIDE DEF Bad
  <2>. QED  BY <2>1, LeastNumber
<1>2. i \in 0 .. k /\ v[i] # w[i] /\ i \in 0 .. m /\ i \in 0 .. n
  OBVIOUS
<1>3. /\ v[i] = IF i = 0 THEN [length |-> 0, end |-> start] ELSE Further(v[i - 1], p, S, i)
      /\ w[i] = IF i = 0 THEN [length |-> 0, end |-> start] ELSE Further(w[i - 1], q, T, i)
  BY <1>2 DEF IsWay
<1>4. i # 0 => i - 1 \in 0 .. k /\ i - 1 \notin Bad /\ i \in 1 .. k
  BY <1>1, <1>2
<1>5. i # 0 => v[i - 1] = w[i - 1]
  BY <1>4
<1>6. i # 0 => Further(v[i - 1], p, S, i) = Further(w[i - 1], q, T, i)
  BY <1>4, <1>5 DEF Further, SameUpTo
<1>. QED  BY <1>2, <1>3, <1>6

LEMMA WayOf ==
  ASSUME NEW start \in Coordinate, NEW path \in Seq(Coordinate), NEW S
  PROVE  \E way \in [0 .. Len(path) -> WayEnd] :
           /\ IsWay(way, start, path, S, Len(path))
           /\ WayAlong(start, path, S) = way[Len(path)]
<1>0. Len(path) \in Nat
  BY LenProperties
<1> DEFINE w == CHOOSE way : IsWay(way, start, path, S, Len(path))
<1>1. PICK v \in [0 .. Len(path) -> WayEnd] : IsWay(v, start, path, S, Len(path))
  BY <1>0, WayExists
<1>2. IsWay(w, start, path, S, Len(path))
  BY <1>1
<1>3. WayAlong(start, path, S) = w[Len(path)]
  BY DEF WayAlong, IsWay, Further
<1>4. w \in [0 .. Len(path) -> WayEnd]
  <2>1. \A i \in 0 .. Len(path) : w[i] = v[i]
    <3>. HIDE DEF w
    <3>1. \A i \in 0 .. Len(path) : SameUpTo(i, path, path, S, S)
      BY DEF SameUpTo
    <3>. QED  BY <1>0, <1>1, <1>2, <3>1, WayUnique
  <2>2. w = [i \in 0 .. Len(path) |-> w[i]]
    <3>. HIDE DEF w
    <3>. QED  BY <1>2 DEF IsWay
  <2>. HIDE DEF w
  <2>. QED  BY <1>1, <2>1, <2>2
<1>. QED  BY <1>2, <1>3, <1>4

\* Points of the way that are not counted do not matter, nor do numbers beyond it.
LEMMA SameWay ==
  ASSUME NEW start \in Coordinate, NEW path \in Seq(Coordinate), NEW S, NEW T,
         S \cap (1 .. Len(path)) = T \cap (1 .. Len(path))
  PROVE  WayAlong(start, path, S) = WayAlong(start, path, T)
<1>0. Len(path) \in Nat
  BY LenProperties
<1>1. PICK v : /\ IsWay(v, start, path, S, Len(path))
               /\ WayAlong(start, path, S) = v[Len(path)]
  BY WayOf
<1>2. PICK w : /\ IsWay(w, start, path, T, Len(path))
               /\ WayAlong(start, path, T) = w[Len(path)]
  BY WayOf
<1>3. SameUpTo(Len(path), path, path, S, T)
  BY DEF SameUpTo
<1>. QED  BY <1>0, <1>1, <1>2, <1>3, WayUnique

LEMMA WayType ==
  ASSUME NEW start \in Coordinate, NEW path \in Seq(Coordinate), NEW S
  PROVE  WayAlong(start, path, S) \in WayEnd
<1>0. Len(path) \in Nat
  BY LenProperties
<1>1. PICK v \in [0 .. Len(path) -> WayEnd] : WayAlong(start, path, S) = v[Len(path)]
  BY WayOf
<1>. QED  BY <1>0, <1>1

\* The way along a longer path.
LEMMA LongerWay ==
  ASSUME NEW start \in Coordinate, NEW path \in Seq(Coordinate), NEW c \in Coordinate, NEW S
  PROVE  LET before == WayAlong(start, path, S)
         IN  WayAlong(start, Append(path, c), S) =
               IF Len(path) + 1 \in S
               THEN [length |-> before.length + DistanceTo(before.end, c), end |-> c]
               ELSE before
<1> DEFINE n == Len(path)
           p == Append(path, c)
<1>1. /\ n \in Nat /\ p \in Seq(Coordinate) /\ Len(p) = n + 1
      /\ p[n + 1] = c /\ \A i \in 1 .. n : p[i] = path[i]
  BY LenProperties, AppendProperties
<1>. HIDE DEF n, p
<1>2. PICK v : IsWay(v, start, path, S, n) /\ WayAlong(start, path, S) = v[n]
  BY WayOf DEF n
<1>3. PICK w : IsWay(w, start, p, S, n + 1) /\ WayAlong(start, p, S) = w[n + 1]
  BY <1>1, WayOf
<1>4. v[n] = w[n]
  <2>1. SameUpTo(n, path, p, S, S)
    BY <1>1 DEF SameUpTo
  <2>. QED  BY <1>1, <1>2, <1>3, <2>1, WayUnique
<1>5. w[n + 1] = Further(w[n], p, S, n + 1)
  BY <1>1, <1>3 DEF IsWay
<1>. QED  BY <1>1, <1>2, <1>3, <1>4, <1>5 DEF Further, n, p

\* A way over all points of a path ends at its last one.
LEMMA WayToLast ==
  ASSUME NEW start \in Coordinate, NEW path \in Seq(Coordinate), path # <<>>, NEW S,
         Len(path) \in S
  PROVE  WayAlong(start, path, S).end = path[Len(path)]
<1>1. PICK p \in Seq(Coordinate), c \in Coordinate : path = Append(p, c)
  BY SequenceEmptyOrAppend
<1>2. Len(path) = Len(p) + 1 /\ path[Len(path)] = c
  BY <1>1, AppendProperties, LenProperties
<1>. QED  BY <1>1, <1>2, LongerWay

\* Of n points the first k are counted.
First(S, n, k) == S \cap (1 .. n) = 1 .. k

\* The last point of a path adds the distance to it.
LEMMA LastStretch ==
  ASSUME NEW start \in Coordinate, NEW path \in Seq(Coordinate),
         NEW k \in Nat, k > 0, NEW n \in Nat, n = k + 1, Len(path) = n,
         NEW S, First(S, n, k), NEW T, First(T, n, n)
  PROVE  WayAlong(start, path, T).length =
           WayAlong(start, path, S).length + DistanceTo(path[k], path[n])
<1>1. PICK p \in Seq(Coordinate), c \in Coordinate : path = Append(p, c)
  <2>1. path # <<>>
    BY EmptySeq
  <2>. QED  BY <2>1, SequenceEmptyOrAppend
<1>2. Len(p) = k /\ path[n] = c /\ path[k] = p[k] /\ p # <<>>
  BY <1>1, AppendProperties, LenProperties, EmptySeq
<1>3. n \in T /\ n \notin S /\ k \in T
  <2>1. n \in 1 .. n /\ k \in 1 .. n /\ n \notin 1 .. k
    OBVIOUS
  <2>. QED  BY <2>1 DEF First
<1>4. WayAlong(start, path, S) = WayAlong(start, p, S)
  BY <1>1, <1>2, <1>3, LongerWay
<1>5. WayAlong(start, p, S) = WayAlong(start, p, T)
  <2>1. 1 .. k \subseteq 1 .. n
    OBVIOUS
  <2>2. S \cap (1 .. k) = T \cap (1 .. k)
    BY <2>1 DEF First
  <2>. QED  BY <1>2, <2>2, SameWay
<1>6. WayAlong(start, p, T).end = p[k]
  BY <1>2, <1>3, WayToLast
<1>7. WayAlong(start, path, T).length =
        WayAlong(start, p, T).length + DistanceTo(WayAlong(start, p, T).end, c)
  BY <1>1, <1>2, <1>3, LongerWay
<1>. QED  BY <1>2, <1>4, <1>5, <1>6, <1>7

\* Over a path of one point, from there.
LEMMA ShortestWay ==
  ASSUME NEW c \in Coordinate, NEW S
  PROVE  WayAlong(c, <<c>>, S) = [length |-> 0, end |-> c]
<1>1. PICK w : IsWay(w, c, <<c>>, S, 1) /\ WayAlong(c, <<c>>, S) = w[1]
  <2>1. PICK path : path \in Seq(Coordinate) /\ path = <<c>> /\ Len(path) = 1
    <3>1. <<c>> \in Seq(Coordinate) /\ Len(<<c>>) = 1
      OBVIOUS
    <3>. QED  BY <3>1
  <2>. QED  BY <2>1, WayOf
<1>2. w[0] = [length |-> 0, end |-> c]
  BY <1>1 DEF IsWay
<1>3. w[1] = Further(w[0], <<c>>, S, 1)
  BY <1>1 DEF IsWay
<1>4. DistanceTo(c, c) = 0
  BY DistanceNat
<1>. QED  BY <1>1, <1>2, <1>3, <1>4 DEF Further

-----------------------------------------------------------------------------
(* Ticks.                                                                  *)

LEMMA Division ==
  ASSUME NEW d \in Nat, NEW s \in Nat \ {0}
  PROVE  /\ d \div s \in Nat /\ (d % s) \in 0 .. s - 1
         /\ d = s * (d \div s) + (d % s)
<1>1. d \div s \in Nat
  OBVIOUS
<1>2. (d % s) \in 0 .. s - 1
  OBVIOUS
<1>3. d = s * (d \div s) + (d % s)
  OBVIOUS
<1>. QED  BY <1>1, <1>2, <1>3

LEMMA TimesMonotonic ==
  ASSUME NEW s \in Nat, NEW t \in Int, NEW k \in Int, t <= k
  PROVE  t * s <= k * s /\ (t + 1) * s = t * s + s /\ t * s \in Int
OBVIOUS

\* The first number of ticks that covers a distance.
LEMMA TicksNeeded ==
  ASSUME NEW d \in Nat \ {0}, NEW s \in Nat \ {0}, NEW t \in Nat
  PROVE  t = NeededTime(d, s) <=> t * s >= d /\ (t - 1) * s < d
<1> DEFINE q == d \div s
           k == NeededTime(d, s)
<1>1. q \in Nat /\ (d % s) \in 0 .. s - 1 /\ d = s * q + (d % s)
  BY Division
<1>2. k = q + IF d % s > 0 THEN 1 ELSE 0
  BY DEF NeededTime
<1>. HIDE DEF q, k
<1>3. s * q = q * s /\ (q - 1) * s = q * s - s /\ (q + 1) * s = q * s + s
  BY <1>1
<1>4. k \in Nat /\ k * s >= d /\ (k - 1) * s < d
  <2>1. CASE d % s > 0
    <3>1. k = q + 1 /\ k - 1 = q
      BY <1>1, <1>2, <2>1
    <3>2. k * s = q * s + s /\ (k - 1) * s = q * s
      BY <1>3, <3>1
    <3>3. q * s \in Nat
      BY <1>1
    <3>. QED  BY <1>1, <1>3, <2>1, <3>1, <3>2, <3>3
  <2>2. CASE d % s = 0
    <3>1. k = q
      BY <1>1, <1>2, <2>2
    <3>. QED  BY <1>1, <1>3, <2>2, <3>1
  <2>. QED  BY <1>1, <2>1, <2>2
<1>5. ASSUME t * s >= d, (t - 1) * s < d
      PROVE  t = k
  <2>1. CASE t <= k - 1
    BY <1>4, <1>5, <2>1, TimesMonotonic
  <2>2. CASE k <= t - 1
    BY <1>4, <1>5, <2>2, TimesMonotonic
  <2>. QED  BY <1>4, <2>1, <2>2
<1>6. (k - 1) * s < d /\ k * s >= d
  BY <1>4
<1>. QED  BY <1>5, <1>6 DEF k

-----------------------------------------------------------------------------
(* Detours.                                                                *)

LEMMA Triangle ==
  ASSUME NEW a \in Coordinate, NEW b \in Coordinate, NEW c \in Coordinate
  PROVE  DistanceTo(a, c) <= DistanceTo(a, b) + DistanceTo(b, c)
BY DEF DistanceTo, Abs, Coordinate

\* How far p lies beyond b, seen from a.
Past(a, b, p) == IF (a < b /\ p > b) \/ (a > b /\ p < b) THEN Abs(p - b) ELSE 0

\* On one axis: m steps from a toward b, or beyond it, ...
LEMMA BeyondOnAxis ==
  ASSUME NEW a \in Int, NEW b \in Int, a # b, NEW m \in Nat,
         NEW p, p = Beyond(a, b, m)
  PROVE  /\ p \in Int /\ Abs(a - p) = m
         /\ Past(a, b, p) \in 0 .. m
         /\ Abs(p - b) = Abs(a - b) - m + 2 * Past(a, b, p)
BY DEF Beyond, Past, Abs

\* ... and what lies between.
LEMMA BetweenOnAxis ==
  ASSUME NEW a \in Int, NEW b \in Int, a # b, NEW m \in Nat,
         NEW p, p = Beyond(a, b, m),
         NEW c \in Int, Abs(a - c) + Abs(c - p) = Abs(a - p)
  PROVE  /\ Abs(c - b) <= Abs(a - b) + Past(a, b, p)
         /\ c = b => Abs(a - b) <= m
BY DEF Beyond, Past, Abs

\* The detour point of a leg from a to b.
Points(a, b, s) ==
  {CalculateRandomDetourPoint(a, b, s, moveX) : moveX \in 0 .. DetourMove(a, b, s)}

PastPoint(a, b, p) == Past(a.x, b.x, p.x) + Past(a.y, b.y, p.y)

\* The moves of a detour are whole ticks, half of the way at most.
LEMMA HalfWay ==
  ASSUME NEW a \in Coordinate, NEW b \in Coordinate, NEW s \in Nat \ {0}
  PROVE  /\ DetourMove(a, b, s) \in Nat
         /\ \E q \in Nat : DetourMove(a, b, s) = q * s
         /\ 2 * DetourMove(a, b, s) <= DistanceTo(a, b)
<1> DEFINE d == DistanceTo(a, b)
           h == d \div s
           q == h \div 2
<1>1. d \in Nat
  BY DistanceNat
<1>. HIDE DEF d
<1>2. h \in Nat /\ h * s <= d
  BY <1>1, Division
<1>. HIDE DEF h
<1>3. q \in Nat /\ 2 * q <= h
  BY <1>2
<1>. HIDE DEF q
<1>4. (2 * q) * s <= h * s /\ (2 * q) * s = 2 * (q * s) /\ q * s \in Nat
  BY <1>2, <1>3, TimesMonotonic
<1>5. DetourMove(a, b, s) = q * s
  BY DEF DetourMove, d, h, q
<1>. QED  BY <1>1, <1>2, <1>3, <1>4, <1>5 DEF d

\* It is whole moves away, half of the way at most; what of them does not lead
\* toward b leads past it; and b itself does not lie on the way there.
IsDetour(a, b, s, p) ==
  /\ p \in Coordinate
  /\ \E q \in Nat : DistanceTo(a, p) = q * s
  /\ 2 * DistanceTo(a, p) <= DistanceTo(a, b)
  /\ PastPoint(a, b, p) \in 0 .. DistanceTo(a, p)
  /\ DistanceTo(p, b) = DistanceTo(a, b) - DistanceTo(a, p) + 2 * PastPoint(a, b, p)
  /\ \A c \in Coordinate :
       DistanceTo(a, c) + DistanceTo(c, p) = DistanceTo(a, p) =>
         /\ DistanceTo(c, b) <= DistanceTo(a, b) + PastPoint(a, b, p)
         /\ a # b => c # b

LEMMA DetourPoint ==
  ASSUME NEW a \in Coordinate, NEW b \in Coordinate, NEW s \in Nat \ {0},
         NEW p \in Points(a, b, s)
  PROVE  IsDetour(a, b, s, p)
<1>1. /\ a.x \in Int /\ a.y \in Int /\ b.x \in Int /\ b.y \in Int
      /\ DistanceTo(a, b) \in Nat
  BY DistanceNat DEF Coordinate
<1>2. CASE a.x = b.x \/ a.y = b.y
  <2>1. p = a
    BY <1>2 DEF Points, CalculateRandomDetourPoint
  <2>2. DistanceTo(a, p) = 0 /\ 0 = 0 * s
    BY <2>1, DistanceNat
  <2>3. PastPoint(a, b, p) = 0
    BY <1>1, <2>1 DEF PastPoint, Past, Abs
  <2>4. ASSUME NEW c \in Coordinate,
               DistanceTo(a, c) + DistanceTo(c, p) = DistanceTo(a, p)
        PROVE  c = a
    <3>1. DistanceTo(a, c) \in Nat /\ DistanceTo(c, a) \in Nat
      BY DistanceNat
    <3>2. DistanceTo(a, c) = 0
      BY <2>1, <2>2, <2>4, <3>1
    <3>. QED  BY <3>2, DistanceNat
  <2>. QED  BY <1>1, <2>1, <2>2, <2>3, <2>4 DEF IsDetour
<1>3. CASE a.x # b.x /\ a.y # b.y
  <2> DEFINE M == DetourMove(a, b, s)
  <2>1. /\ M \in Nat /\ \E q \in Nat : M = q * s
        /\ 2 * M <= DistanceTo(a, b)
    BY HalfWay
  <2>. HIDE DEF M
  <2>2. PICK m \in 0 .. M : p = C(Beyond(a.x, b.x, m), Beyond(a.y, b.y, M - m))
    BY <1>3 DEF Points, CalculateRandomDetourPoint, M
  <2>3. PICK k : k = M - m /\ k \in Nat /\ m \in Nat /\ m + k = M
    BY <2>1, <2>2
  <2>4. p.x = Beyond(a.x, b.x, m) /\ p.y = Beyond(a.y, b.y, k)
    BY <2>2, <2>3 DEF C
  <2> DEFINE ox == Past(a.x, b.x, p.x)
             oy == Past(a.y, b.y, p.y)
  <2>5. /\ p.x \in Int /\ Abs(a.x - p.x) = m /\ ox \in 0 .. m
        /\ Abs(p.x - b.x) = Abs(a.x - b.x) - m + 2 * ox
    <3>1. PICK i, j, o : i = a.x /\ j = b.x /\ o = p.x
      OBVIOUS
    <3>2. i \in Int /\ j \in Int /\ i # j /\ o = Beyond(i, j, m)
      BY <1>1, <1>3, <2>4, <3>1
    <3>3. /\ o \in Int /\ Abs(i - o) = m /\ Past(i, j, o) \in 0 .. m
          /\ Abs(o - j) = Abs(i - j) - m + 2 * Past(i, j, o)
      BY <2>3, <3>2, BeyondOnAxis
    <3>. QED  BY <3>1, <3>3
  <2>6. /\ p.y \in Int /\ Abs(a.y - p.y) = k /\ oy \in 0 .. k
        /\ Abs(p.y - b.y) = Abs(a.y - b.y) - k + 2 * oy
    <3>1. PICK i, j, o : i = a.y /\ j = b.y /\ o = p.y
      OBVIOUS
    <3>2. i \in Int /\ j \in Int /\ i # j /\ o = Beyond(i, j, k)
      BY <1>1, <1>3, <2>4, <3>1
    <3>3. /\ o \in Int /\ Abs(i - o) = k /\ Past(i, j, o) \in 0 .. k
          /\ Abs(o - j) = Abs(i - j) - k + 2 * Past(i, j, o)
      BY <2>3, <3>2, BeyondOnAxis
    <3>. QED  BY <3>1, <3>3
  <2>. HIDE DEF ox, oy
  <2>7. p \in Coordinate
    BY <2>2, <2>4, <2>5, <2>6 DEF C, Coordinate
  <2>8. DistanceTo(a, p) = M /\ PastPoint(a, b, p) = ox + oy
    BY <2>3, <2>5, <2>6 DEF DistanceTo, PastPoint, ox, oy
  <2>9. /\ Abs(a.x - b.x) \in Nat /\ Abs(a.y - b.y) \in Nat
        /\ DistanceTo(a, b) = Abs(a.x - b.x) + Abs(a.y - b.y)
        /\ DistanceTo(p, b) = Abs(p.x - b.x) + Abs(p.y - b.y)
    BY <1>1, AbsNat DEF DistanceTo
  <2>10. DistanceTo(p, b) = DistanceTo(a, b) - M + 2 * (ox + oy)
    BY <2>1, <2>3, <2>5, <2>6, <2>9
  <2>11. ASSUME NEW c \in Coordinate,
                DistanceTo(a, c) + DistanceTo(c, p) = DistanceTo(a, p)
         PROVE  /\ DistanceTo(c, b) <= DistanceTo(a, b) + (ox + oy)
                /\ c # b
    <3>1. c.x \in Int /\ c.y \in Int
      BY DEF Coordinate
    <3>2. /\ Abs(a.x - c.x) + Abs(c.x - p.x) = Abs(a.x - p.x)
          /\ Abs(a.y - c.y) + Abs(c.y - p.y) = Abs(a.y - p.y)
      <4>1. \A i, j, o \in Int : Abs(i - o) <= Abs(i - j) + Abs(j - o)
        BY DEF Abs
      <4>2. /\ Abs(a.x - p.x) <= Abs(a.x - c.x) + Abs(c.x - p.x)
            /\ Abs(a.y - p.y) <= Abs(a.y - c.y) + Abs(c.y - p.y)
        BY <1>1, <2>5, <2>6, <3>1, <4>1
      <4>3. /\ Abs(a.x - c.x) \in Nat /\ Abs(c.x - p.x) \in Nat /\ Abs(a.x - p.x) \in Nat
            /\ Abs(a.y - c.y) \in Nat /\ Abs(c.y - p.y) \in Nat /\ Abs(a.y - p.y) \in Nat
        BY <1>1, <2>5, <2>6, <3>1, AbsNat
      <4>4. Abs(a.x - c.x) + Abs(a.y - c.y) + (Abs(c.x - p.x) + Abs(c.y - p.y))
              = Abs(a.x - p.x) + Abs(a.y - p.y)
        BY <2>11 DEF DistanceTo
      <4>5. \A i, j, k1, l, o, q \in Nat :
              o <= i + j /\ q <= k1 + l /\ i + k1 + (j + l) = o + q
                => i + j = o /\ k1 + l = q
        OBVIOUS
      <4>. QED  BY <4>2, <4>3, <4>4, <4>5
    <3>3. /\ Abs(c.x - b.x) <= Abs(a.x - b.x) + ox
          /\ c.x = b.x => Abs(a.x - b.x) <= m
      BY <1>1, <1>3, <2>3, <2>4, <3>1, <3>2, BetweenOnAxis DEF ox
    <3>4. /\ Abs(c.y - b.y) <= Abs(a.y - b.y) + oy
          /\ c.y = b.y => Abs(a.y - b.y) <= k
      BY <1>1, <1>3, <2>3, <2>4, <3>1, <3>2, BetweenOnAxis DEF oy
    <3>5. Abs(c.x - b.x) \in Nat /\ Abs(c.y - b.y) \in Nat
      BY <1>1, <3>1, AbsNat
    <3>6. DistanceTo(c, b) <= DistanceTo(a, b) + (ox + oy)
      BY <2>1, <2>3, <2>5, <2>6, <2>9, <3>3, <3>4, <3>5 DEF DistanceTo
    <3>7. Abs(a.x - b.x) # 0
      BY <1>1, <1>3 DEF Abs
    <3>8. c # b
      BY <2>1, <2>3, <2>9, <3>3, <3>4, <3>7
    <3>. QED  BY <3>6, <3>8
  <2>. QED  BY <2>1, <2>3, <2>5, <2>6, <2>7, <2>8, <2>10, <2>11 DEF IsDetour
<1>. QED  BY <1>2, <1>3

-----------------------------------------------------------------------------
(* The invariant of a chair on its way.                                    *)

CoordsOf(h) == [i \in DOMAIN h |-> h[i].coord]
Coords == CoordsOf(history)

Needed == Length + 2 * Astray

DetourOK ==
  /\ ~detour.planned => ~detour.done /\ detour.point = leg[1]
  /\ detour.planned => detour.point \in Points(leg[1], leg[2], speed)

\* Toward its detour point a chair is on a shortest way there.
OutOK ==
  detour.planned /\ ~detour.done =>
    LET way == DistanceTo(leg[1], detour.point) IN
    /\ ticks * speed <= way
    /\ DistanceTo(Current, detour.point) = way - ticks * speed
    /\ DistanceTo(leg[1], Current) + DistanceTo(Current, detour.point) = way

\* Then it comes nearer by its speed in each tick, until it is there.
BackOK ==
  (detour.planned => detour.done) /\ Length > 0 =>
    /\ DistanceTo(Current, leg[2]) =
         IF ticks * speed < Needed THEN Needed - ticks * speed ELSE 0
    /\ (ticks - 1) * speed < Needed

StraightOK ==
  ~detour.planned =>
    total = IF ticks * speed < Length THEN ticks * speed ELSE Length

\* Only the last move may be without an answer, and only while it is sent.
HistoryOK ==
  LET n == Len(history) IN
  /\ \A i \in 1 .. n - 1 : history[i].at # 0
  /\ \A i \in 1 .. n : history[i].at <= Len(rows)
  /\ sending = "no" <=> history[n].at # 0
  /\ sending # "no" => n > 1

\* The rows end where the chair is, or was before its last move.
RowsOK ==
  LET m == Len(rows)
      n == Len(history)
  IN
  /\ m > 0 /\ (sending # "due" => rows[m] = Current)
  /\ total = WayAlong(leg[1], Coords, DOMAIN history).length
  /\ rows[m] = Current => TotalDistance = total
  /\ rows[m] # Current => rows[m] = history[n - 1].coord /\ TotalDistance = Answered

\* What was listed counts the moves the server had answered, or is ahead.
AuditOK ==
  owner.pc # "idle" =>
    /\ owner.updatedAt <= Len(rows)
    /\ ~owner.ahead => /\ owner.pc \in {"listed", "accepted"}
                       /\ owner.distance = TravelDistanceUntil(owner.updatedAt)
                       /\ sending = "served" => owner.updatedAt < Len(rows)

DriveInv ==
  /\ DriveTypeOK /\ DetourOK /\ OutOK /\ BackOK /\ StraightOK
  /\ HistoryOK /\ RowsOK /\ PositionsKnown /\ AuditOK

-----------------------------------------------------------------------------
(* The history of positions.                                               *)

Entry == [coord : Coordinate, at : Nat]

LEMMA CoordsType ==
  ASSUME NEW h \in Seq(Entry)
  PROVE  /\ CoordsOf(h) \in Seq(Coordinate) /\ Len(CoordsOf(h)) = Len(h)
         /\ \A i \in 1 .. Len(h) : CoordsOf(h)[i] = h[i].coord
<1>1. Len(h) \in Nat /\ DOMAIN h = 1 .. Len(h)
  BY LenProperties
<1>2. \A i \in 1 .. Len(h) : h[i].coord \in Coordinate
  <2>1. \A i \in 1 .. Len(h) : h[i] \in Entry
    BY ElementOfSeq
  <2>. QED  BY <2>1 DEF Entry
<1>3. CoordsOf(h) \in [1 .. Len(h) -> Coordinate]
  BY <1>1, <1>2 DEF CoordsOf
<1>4. CoordsOf(h) \in Seq(Coordinate)
  BY <1>1, <1>3, SeqDef
<1>5. Len(CoordsOf(h)) = Len(h)
  <2>1. Len(CoordsOf(h)) \in Nat /\ DOMAIN CoordsOf(h) = 1 .. Len(CoordsOf(h))
    BY <1>4, LenProperties
  <2>2. DOMAIN CoordsOf(h) = 1 .. Len(h)
    BY <1>3
  <2>3. \A m, n \in Nat : 1 .. m = 1 .. n => m = n
    <3>. SUFFICES ASSUME NEW m \in Nat, NEW n \in Nat, 1 .. m = 1 .. n, m # n
                  PROVE  FALSE
      OBVIOUS
    <3>1. (m \in 1 .. m <=> m \in 1 .. n) /\ (n \in 1 .. m <=> n \in 1 .. n)
      OBVIOUS
    <3>. QED  BY <3>1
  <2>. QED  BY <1>1, <2>1, <2>2, <2>3
<1>. QED  BY <1>1, <1>3, <1>4, <1>5 DEF CoordsOf

LEMMA CoordsAppend ==
  ASSUME NEW h \in Seq(Entry), NEW e \in Entry
  PROVE  CoordsOf(Append(h, e)) = Append(CoordsOf(h), e.coord)
<1> DEFINE g == Append(h, e)
           s == CoordsOf(g)
           t == Append(CoordsOf(h), e.coord)
<1>0. Len(h) \in Nat
  BY LenProperties
<1>1. /\ g \in Seq(Entry) /\ Len(g) = Len(h) + 1 /\ g[Len(h) + 1] = e
      /\ \A i \in 1 .. Len(h) : g[i] = h[i]
  BY AppendProperties
<1>2. e.coord \in Coordinate
  BY DEF Entry
<1>3. /\ CoordsOf(h) \in Seq(Coordinate) /\ Len(CoordsOf(h)) = Len(h)
      /\ \A i \in 1 .. Len(h) : CoordsOf(h)[i] = h[i].coord
  BY CoordsType
<1>. HIDE DEF g
<1>4. /\ s \in Seq(Coordinate) /\ Len(s) = Len(h) + 1
      /\ \A i \in 1 .. Len(h) + 1 : s[i] = g[i].coord
  BY <1>1, CoordsType
<1>5. /\ t \in Seq(Coordinate) /\ Len(t) = Len(h) + 1 /\ t[Len(h) + 1] = e.coord
      /\ \A i \in 1 .. Len(h) : t[i] = CoordsOf(h)[i]
  BY <1>2, <1>3, AppendProperties
<1>. HIDE DEF s, t
<1>6. ASSUME NEW i \in 1 .. Len(h) + 1
      PROVE  s[i] = t[i]
  <2>1. CASE i = Len(h) + 1
    BY <1>1, <1>4, <1>5, <2>1
  <2>2. CASE i \in 1 .. Len(h)
    BY <1>1, <1>3, <1>4, <1>5, <2>2
  <2>. QED  BY <1>0, <2>1, <2>2
<1>7. s = t
  BY <1>4, <1>5, <1>6, SeqEqual
<1>. QED  BY <1>7 DEF g, s, t

\* The entries counted until u.
SentOf(h, u) == {i \in DOMAIN h : h[i].at # 0 /\ \A j \in 1 .. i : h[j].at <= u}

\* An entry without a time, or with one after u, is not among them.
LEMMA SentAppend ==
  ASSUME NEW h \in Seq(Entry), NEW e \in Entry, e.at = 0, NEW u
  PROVE  SentOf(Append(h, e), u) = SentOf(h, u) /\ Len(h) + 1 \notin SentOf(h, u)
<1>1. /\ Len(h) \in Nat /\ DOMAIN h = 1 .. Len(h)
  BY LenProperties
<1>2. /\ DOMAIN Append(h, e) = 1 .. Len(h) + 1 /\ Append(h, e)[Len(h) + 1] = e
      /\ \A i \in 1 .. Len(h) : Append(h, e)[i] = h[i]
  BY AppendProperties, LenProperties
<1>3. ASSUME NEW i \in 1 .. Len(h)
      PROVE  i \in SentOf(Append(h, e), u) <=> i \in SentOf(h, u)
  <2>1. \A j \in 1 .. i : Append(h, e)[j] = h[j]
    BY <1>1, <1>2
  <2>. QED  BY <1>1, <1>2, <2>1 DEF SentOf
<1>4. Len(h) + 1 \notin SentOf(Append(h, e), u) /\ Len(h) + 1 \notin SentOf(h, u)
  BY <1>1, <1>2 DEF SentOf
<1>5. SentOf(Append(h, e), u) \subseteq 1 .. Len(h) + 1 /\ SentOf(h, u) \subseteq 1 .. Len(h)
  BY <1>1, <1>2 DEF SentOf
<1>6. SentOf(Append(h, e), u) = SentOf(h, u)
  <2>1. ASSUME NEW i \in 1 .. Len(h) + 1
        PROVE  i \in SentOf(Append(h, e), u) <=> i \in SentOf(h, u)
    <3>1. i = Len(h) + 1 \/ i \in 1 .. Len(h)
      BY <1>1
    <3>. QED  BY <1>3, <1>4, <3>1
  <2>2. 1 .. Len(h) \subseteq 1 .. Len(h) + 1
    BY <1>1
  <2>. QED  BY <1>5, <2>1, <2>2
<1>. QED  BY <1>4, <1>6

LEMMA SentExcept ==
  ASSUME NEW h \in Seq(Entry), NEW g \in Seq(Entry), NEW n \in Nat, n > 0,
         Len(h) = n, Len(g) = n, \A i \in 1 .. n - 1 : g[i] = h[i],
         NEW u \in Nat, h[n].at = 0, g[n].at > u
  PROVE  SentOf(g, u) = SentOf(h, u)
<1>1. DOMAIN h = 1 .. n /\ DOMAIN g = 1 .. n
  BY LenProperties
<1>2. ASSUME NEW i \in 1 .. n
      PROVE  i \in SentOf(g, u) <=> i \in SentOf(h, u)
  <2>1. CASE i = n
    <3>1. n \in 1 .. n /\ ~(g[n].at <= u)
      <4>1. g[n] \in Entry
        BY ElementOfSeq
      <4>2. g[n].at \in Nat
        BY <4>1 DEF Entry
      <4>. QED  BY <4>2
    <3>. QED  BY <1>1, <2>1, <3>1 DEF SentOf
  <2>2. CASE i # n
    <3>1. i \in 1 .. n - 1 /\ \A j \in 1 .. i : j \in 1 .. n - 1
      BY <2>2
    <3>. QED  BY <1>1, <3>1 DEF SentOf
  <2>. QED  BY <2>1, <2>2
<1>3. SentOf(g, u) \subseteq 1 .. n /\ SentOf(h, u) \subseteq 1 .. n
  BY <1>1 DEF SentOf
<1>. QED  BY <1>2, <1>3

-----------------------------------------------------------------------------
(* What the types say.                                                     *)

LEMMA LegFacts ==
  ASSUME DriveTypeOK
  PROVE  /\ leg[1] \in Coordinate /\ leg[2] \in Coordinate
         /\ speed \in Nat \ {0} /\ Length \in Nat
<1>1. leg \in Coordinate \X Coordinate /\ speed \in Nat \ {0}
  BY DrivingAssumption DEF DriveTypeOK
<1>. QED  BY <1>1, DistanceNat DEF Length

LEMMA HistoryFacts ==
  ASSUME DriveTypeOK
  PROVE  /\ Len(history) \in Nat \ {0} /\ history \in Seq(Entry)
         /\ DOMAIN history = 1 .. Len(history)
         /\ Current = history[Len(history)].coord /\ Current \in Coordinate
         /\ \A i \in 1 .. Len(history) :
              history[i] \in Entry /\ history[i].coord \in Coordinate /\ history[i].at \in Nat
         /\ Coords \in Seq(Coordinate) /\ Len(Coords) = Len(history)
         /\ \A i \in 1 .. Len(history) : Coords[i] = history[i].coord
<1>1. history \in Seq(Entry) /\ history # <<>>
  BY DEF DriveTypeOK, Entry
<1>2. Len(history) \in Nat \ {0} /\ DOMAIN history = 1 .. Len(history)
  BY <1>1, LenProperties, EmptySeq
<1>3. \A i \in 1 .. Len(history) : history[i] \in Entry
  BY <1>1, ElementOfSeq
<1>4. \A i \in 1 .. Len(history) : history[i].coord \in Coordinate /\ history[i].at \in Nat
  BY <1>3 DEF Entry
<1>5. Current = history[Len(history)].coord
  BY DEF Current, Last
<1>6. /\ Coords \in Seq(Coordinate) /\ Len(Coords) = Len(history)
      /\ \A i \in 1 .. Len(history) : Coords[i] = history[i].coord
  BY <1>1, CoordsType DEF Coords
<1>. QED  BY <1>1, <1>2, <1>3, <1>4, <1>5, <1>6

\* The distances the two sides compute, in terms of ways.
LEMMA Distances ==
  ASSUME DriveTypeOK, Len(rows) > 0
  PROVE  /\ Len(rows) \in Nat \ {0} /\ rows[1] \in Coordinate
         /\ \A i \in 1 .. Len(rows) : rows[i] \in Coordinate
         /\ DOMAIN rows = 1 .. Len(rows)
         /\ TotalDistance = WayAlong(rows[1], rows, 1 .. Len(rows)).length
         /\ TotalDistance \in Nat
         /\ \A u : TravelDistanceUntil(u) = WayAlong(leg[1], Coords, SentOf(history, u)).length
<1>1. rows \in Seq(Coordinate)
  BY DEF DriveTypeOK
<1>2. Len(rows) \in Nat \ {0} /\ DOMAIN rows = 1 .. Len(rows)
  BY <1>1, LenProperties
<1>3. \A i \in 1 .. Len(rows) : rows[i] \in Coordinate
  BY <1>1, ElementOfSeq
<1>4. rows[1] \in Coordinate
  BY <1>2, <1>3
<1>5. TotalDistance = WayAlong(rows[1], rows, 1 .. Len(rows)).length
  BY <1>2 DEF TotalDistance
<1>6. TotalDistance \in Nat
  BY <1>1, <1>4, <1>5, WayType DEF WayEnd
<1>7. ASSUME NEW u
      PROVE  TravelDistanceUntil(u) = WayAlong(leg[1], Coords, SentOf(history, u)).length
  BY DEF TravelDistanceUntil, SentUntil, SentOf, Coords, CoordsOf
<1>. QED  BY <1>2, <1>3, <1>4, <1>5, <1>6, <1>7

\* The moves that have been answered are those the audit may count.
LEMMA AnsweredIsSent ==
  ASSUME DriveTypeOK, HistoryOK, RowsOK
  PROVE  TravelDistanceUntil(Len(rows)) = Answered
<1> DEFINE n == Len(history)
           S == SentOf(history, Len(rows))
<1>1. /\ n \in Nat \ {0} /\ DOMAIN history = 1 .. n
      /\ Coords \in Seq(Coordinate) /\ Len(Coords) = n /\ leg[1] \in Coordinate
      /\ \A i \in 1 .. n : history[i].at \in Nat /\ Coords[i] = history[i].coord
      /\ Current = history[n].coord
  BY HistoryFacts, LegFacts
<1>2. /\ TravelDistanceUntil(Len(rows)) = WayAlong(leg[1], Coords, S).length
      /\ total = WayAlong(leg[1], Coords, 1 .. n).length
  BY <1>1, Distances DEF RowsOK
<1>3. Last(history) = history[n]
  BY DEF Last
<1>4. \A i \in 1 .. n : history[i].at <= Len(rows)
  BY DEF HistoryOK
<1>5. \A i \in 1 .. n : i \in S <=> history[i].at # 0
  BY <1>1, <1>4 DEF SentOf
<1>6. S \subseteq 1 .. n
  BY <1>1 DEF SentOf
<1>. HIDE DEF S, n
<1>7. CASE history[n].at # 0
  <2>1. S = 1 .. n
    <3>1. \A i \in 1 .. n : history[i].at # 0
      <4>1. \A i \in 1 .. n - 1 : history[i].at # 0
        BY DEF HistoryOK, n
      <4>. QED  BY <1>1, <1>7, <4>1
    <3>. QED  BY <1>5, <1>6, <3>1
  <2>2. Answered = total - 0
    BY <1>3, <1>7 DEF Answered
  <2>3. total \in Nat
    BY DEF DriveTypeOK
  <2>. QED  BY <1>2, <2>1, <2>2, <2>3
<1>8. CASE history[n].at = 0
  <2>1. PICK k \in Nat : k > 0 /\ n = k + 1
    <3>1. n > 1
      BY <1>8 DEF HistoryOK, n
    <3>2. n - 1 \in Nat /\ n - 1 > 0 /\ n = (n - 1) + 1
      BY <1>1, <3>1
    <3>. QED  BY <3>2
  <2>2. First(S, n, k)
    <3>1. \A i \in 1 .. k : history[i].at # 0
      BY <1>1, <2>1 DEF HistoryOK, n
    <3>2. \A i \in 1 .. n : i \in S <=> i \in 1 .. k
      BY <1>5, <1>8, <2>1, <3>1
    <3>. QED  BY <2>1, <3>2 DEF First
  <2>3. total = WayAlong(leg[1], Coords, S).length + DistanceTo(Coords[k], Coords[n])
    <3>1. PICK T : T = 1 .. n /\ First(T, n, n)
      BY DEF First
    <3>2. total = WayAlong(leg[1], Coords, T).length
      BY <1>2, <3>1
    <3>3. PICK p, start : p = Coords /\ start = leg[1]
      OBVIOUS
    <3>4. p \in Seq(Coordinate) /\ Len(p) = n /\ start \in Coordinate /\ n \in Nat
      BY <1>1, <3>3
    <3>5. WayAlong(start, p, T).length =
            WayAlong(start, p, S).length + DistanceTo(p[k], p[n])
      BY <2>1, <2>2, <3>1, <3>4, LastStretch
    <3>. QED  BY <3>2, <3>3, <3>5
  <2>4. /\ Coords[k] = history[n - 1].coord /\ Coords[n] = Current
        /\ Coords[k] \in Coordinate /\ Coords[n] \in Coordinate
    BY <1>1, <2>1, ElementOfSeq
  <2>5. DistanceTo(Coords[k], Coords[n]) \in Nat
    BY <2>4, DistanceNat
  <2>6. WayAlong(leg[1], Coords, S).length \in Nat
    BY <1>1, WayType DEF WayEnd
  <2>7. Answered = total - DistanceTo(Coords[k], Coords[n])
    BY <1>3, <1>8, <2>4 DEF Answered, n
  <2>. QED  BY <1>2, <2>3, <2>5, <2>6, <2>7
<1>. QED  BY <1>7, <1>8

-----------------------------------------------------------------------------
(* The steps.                                                              *)

\* What of the invariant is about the history, the rows and the audit.
RecordInv == DriveTypeOK /\ HistoryOK /\ RowsOK /\ PositionsKnown /\ AuditOK

LEMMA MoveKeepsRecord ==
  ASSUME RecordInv, sending = "no", NEW c \in Coordinate, MoveTo(c),
         UNCHANGED <<leg, speed, rows, lost, owner>>,
         detour' \in [planned : BOOLEAN, done : BOOLEAN, point : Coordinate],
         Astray' = Astray, DistanceTo(c, leg[2]) <= Length + Astray
  PROVE  RecordInv' /\ Current' = c
<1> DEFINE n == Len(history)
           m == Len(rows)
           e == [coord |-> c, at |-> 0]
           old == Current
<1>1. /\ n \in Nat \ {0} /\ history \in Seq(Entry) /\ DOMAIN history = 1 .. n
      /\ old = history[n].coord /\ old \in Coordinate
      /\ \A i \in 1 .. n : history[i].coord \in Coordinate /\ history[i].at \in Nat
      /\ Coords \in Seq(Coordinate) /\ Len(Coords) = n
      /\ \A i \in 1 .. n : Coords[i] = history[i].coord
      /\ leg[1] \in Coordinate /\ leg[2] \in Coordinate
  BY HistoryFacts, LegFacts DEF RecordInv
<1>2. e \in Entry /\ e.coord = c /\ e.at = 0
  BY DEF Entry
<1>. HIDE DEF e
<1>3. /\ history' = Append(history, e) /\ history' \in Seq(Entry) /\ history' # <<>>
      /\ Len(history') = n + 1 /\ history'[n + 1] = e
      /\ \A i \in 1 .. n : history'[i] = history[i]
      /\ DOMAIN history' = 1 .. n + 1
  <2>1. history' = Append(history, e)
    BY DEF MoveTo, e
  <2>. QED  BY <1>1, <1>2, <2>1, AppendProperties, LenProperties
<1>4. /\ sending' = "due" /\ ticks' = ticks + 1 /\ total' = total + DistanceTo(old, c)
      /\ rows' = rows /\ leg' = leg /\ speed' = speed /\ lost' = lost /\ owner' = owner
      /\ Length' = Length
  BY DEF MoveTo, Length
<1>5. Current' = c
  BY <1>2, <1>3 DEF Current, Last
<1>6. /\ DistanceTo(old, c) \in Nat /\ total \in Nat /\ ticks \in Nat
      /\ DistanceTo(old, c) = 0 <=> old = c
  BY <1>1, DistanceNat DEF RecordInv, DriveTypeOK
<1>7. DriveTypeOK'
  <2>1. /\ leg' \in Legs /\ speed' \in Speeds /\ total' \in Nat /\ ticks' \in Nat
        /\ lost' \in 0 .. MaxLost /\ rows' \in Seq(Coordinate)
    BY <1>4, <1>6 DEF RecordInv, DriveTypeOK
  <2>2. owner' \in [pc : {"idle", "listed", "accepted", "doubtful", "rejected"},
                    distance : Nat, updatedAt : Nat, ahead : BOOLEAN]
    BY <1>4 DEF RecordInv, DriveTypeOK
  <2>3. \A i \in DOMAIN history' : DistanceTo(history'[i].coord, leg'[2]) <= Length' + Astray'
    <3>1. ASSUME NEW i \in 1 .. n
          PROVE  DistanceTo(history'[i].coord, leg[2]) <= Length + Astray
      BY <1>1, <1>3 DEF RecordInv, DriveTypeOK
    <3>2. DistanceTo(history'[n + 1].coord, leg[2]) <= Length + Astray
      BY <1>2, <1>3
    <3>. QED  BY <1>1, <1>3, <1>4, <3>1, <3>2
  <2>. QED  BY <1>3, <1>4, <2>1, <2>2, <2>3 DEF DriveTypeOK, Entry
<1>8. history[n].at # 0 /\ m \in Nat
  BY <1>1, Distances DEF RecordInv, HistoryOK, RowsOK
<1>9. HistoryOK'
  <2>1. \A i \in 1 .. n : history'[i].at # 0
    BY <1>1, <1>3, <1>8 DEF RecordInv, HistoryOK
  <2>2. \A i \in 1 .. n + 1 : history'[i].at <= m
    <3>1. \A i \in 1 .. n : history'[i].at <= m
      BY <1>3 DEF RecordInv, HistoryOK
    <3>. QED  BY <1>1, <1>2, <1>3, <1>8, <3>1
  <2>. QED  BY <1>1, <1>2, <1>3, <1>4, <2>1, <2>2 DEF HistoryOK
<1>10. Coords' = Append(Coords, c)
  BY <1>1, <1>2, <1>3, CoordsAppend DEF Coords
<1>11. \A u : TravelDistanceUntil(u)' = TravelDistanceUntil(u)
  <2>. SUFFICES ASSUME NEW u PROVE TravelDistanceUntil(u)' = TravelDistanceUntil(u)
    OBVIOUS
  <2>1. SentOf(history', u) = SentOf(history, u) /\ n + 1 \notin SentOf(history, u)
    BY <1>1, <1>2, <1>3, SentAppend
  <2>2. TravelDistanceUntil(u)' = WayAlong(leg'[1], Coords', SentOf(history', u)).length
    BY DEF TravelDistanceUntil, SentUntil, SentOf, Coords, CoordsOf
  <2>3. TravelDistanceUntil(u) = WayAlong(leg[1], Coords, SentOf(history, u)).length
    BY DEF TravelDistanceUntil, SentUntil, SentOf, Coords, CoordsOf
  <2>. QED  BY <1>1, <1>4, <1>10, <2>1, <2>2, <2>3, LongerWay
<1>12. total' = WayAlong(leg'[1], Coords', DOMAIN history').length
  <2>1. PICK S, T : /\ S = 1 .. n /\ T = 1 .. n + 1 /\ n + 1 \notin S
                    /\ First(S, n + 1, n) /\ First(T, n + 1, n + 1)
    <3>1. (1 .. n) \cap (1 .. n + 1) = 1 .. n /\ n + 1 \notin 1 .. n
      BY <1>1
    <3>. QED  BY <3>1 DEF First
  <2>2. total = WayAlong(leg[1], Coords, S).length
    BY <1>1, <2>1 DEF RecordInv, RowsOK
  <2>3. /\ Coords' \in Seq(Coordinate) /\ Len(Coords') = n + 1
        /\ Coords'[n] = old /\ Coords'[n + 1] = c
    <3>1. PICK p, q : p = Coords /\ q = Coords' /\ q = Append(p, c)
      BY <1>10
    <3>2. /\ q \in Seq(Coordinate) /\ Len(q) = Len(p) + 1 /\ q[Len(p) + 1] = c
          /\ \A i \in 1 .. Len(p) : q[i] = p[i]
      BY <1>1, <3>1, AppendProperties
    <3>3. n \in 1 .. Len(p) /\ p[n] = old /\ Len(p) = n
      BY <1>1, <3>1
    <3>. QED  BY <3>1, <3>2, <3>3
  <2>4. WayAlong(leg[1], Coords', S).length = total
    BY <1>1, <1>10, <2>1, <2>2, LongerWay
  <2>5. WayAlong(leg[1], Coords', T).length = total + DistanceTo(old, c)
    <3>1. PICK p : p = Coords'
      OBVIOUS
    <3>2. WayAlong(leg[1], p, T).length =
            WayAlong(leg[1], p, S).length + DistanceTo(p[n], p[n + 1])
      <4>1. PICK k \in Nat : k = n + 1 /\ First(T, k, k) /\ First(S, k, n)
        BY <1>1, <2>1
      <4>2. Len(p) = k /\ p \in Seq(Coordinate) /\ n \in Nat /\ n > 0
        BY <1>1, <2>3, <3>1, <4>1
      <4>3. WayAlong(leg[1], p, T).length =
              WayAlong(leg[1], p, S).length + DistanceTo(p[n], p[k])
        BY <1>1, <4>1, <4>2, LastStretch
      <4>. QED  BY <4>1, <4>3
    <3>. QED  BY <2>3, <2>4, <3>1, <3>2
  <2>. QED  BY <1>3, <1>4, <2>1, <2>5
<1>13. TotalDistance' = TotalDistance /\ TotalDistance = total /\ rows[m] = old
  BY <1>4 DEF TotalDistance, RecordInv, RowsOK
<1>14. Answered' = total
  <2>1. Len(history') - 1 = n /\ n \in 1 .. n
    BY <1>1, <1>3
  <2>2. Last(history') = e /\ history'[Len(history') - 1].coord = old
    BY <1>1, <1>3, <2>1 DEF Last
  <2>. QED  BY <1>2, <1>4, <1>5, <1>6, <2>2 DEF Answered
<1>15. RowsOK'
  <2>1. m > 0 /\ rows'[Len(rows')] = old /\ Len(rows') = m
    BY <1>4, <1>13 DEF RecordInv, RowsOK
  <2>2. old = c => TotalDistance' = total'
    BY <1>4, <1>6, <1>13
  <2>3. history'[Len(history') - 1].coord = old
    <3>1. Len(history') - 1 = n /\ n \in 1 .. n
      BY <1>1, <1>3
    <3>. QED  BY <1>1, <1>3, <3>1
  <2>. QED  BY <1>4, <1>5, <1>12, <1>13, <1>14, <2>1, <2>2, <2>3 DEF RowsOK
<1>16. PositionsKnown'
  <2>. SUFFICES ASSUME NEW i \in DOMAIN rows
                PROVE  \E h \in 1 .. n + 1 : history'[h].at # 0 /\ history'[h].coord = rows[i]
    BY <1>3, <1>4 DEF PositionsKnown
  <2>1. rows[i] = old \/ \E h \in 1 .. n : history[h].at # 0 /\ history[h].coord = rows[i]
    BY <1>1 DEF RecordInv, PositionsKnown
  <2>2. PICK h \in 1 .. n : history[h].at # 0 /\ history[h].coord = rows[i]
    BY <1>1, <1>8, <2>1
  <2>. QED  BY <1>1, <1>3, <2>2
<1>17. AuditOK'
  BY <1>4, <1>11 DEF AuditOK, RecordInv
<1>. QED  BY <1>5, <1>7, <1>9, <1>15, <1>16, <1>17 DEF RecordInv

LEMMA RecordStep ==
  ASSUME RecordInv, Record
  PROVE  RecordInv' /\ Current' = Current
<1> DEFINE n == Len(history)
           m == Len(rows)
<1>1. /\ n \in Nat \ {0} /\ DOMAIN history = 1 .. n
      /\ Current = history[n].coord /\ Current \in Coordinate
      /\ \A i \in 1 .. n : history[i].coord \in Coordinate /\ history[i].at \in Nat
      /\ leg[1] \in Coordinate
  BY HistoryFacts, LegFacts DEF RecordInv
<1>2. /\ rows \in Seq(Coordinate) /\ m \in Nat \ {0} /\ rows[1] \in Coordinate
      /\ \A i \in 1 .. m : rows[i] \in Coordinate
      /\ DOMAIN rows = 1 .. m
      /\ TotalDistance = WayAlong(rows[1], rows, 1 .. m).length /\ TotalDistance \in Nat
  BY Distances DEF RecordInv, RowsOK, DriveTypeOK
<1>3. /\ rows' = Append(rows, Current) /\ sending = "due" /\ sending' = "served"
      /\ history' = history /\ leg' = leg /\ speed' = speed /\ detour' = detour
      /\ total' = total /\ ticks' = ticks /\ lost' = lost /\ owner' = owner
  BY DEF Record, chairVars
<1>4. /\ rows' \in Seq(Coordinate) /\ Len(rows') = m + 1 /\ rows'[m + 1] = Current
      /\ \A i \in 1 .. m : rows'[i] = rows[i]
      /\ DOMAIN rows' = 1 .. m + 1
  BY <1>1, <1>2, <1>3, AppendProperties, LenProperties
<1>5. Current' = Current /\ Coords' = Coords /\ Answered' = Answered
  BY <1>3 DEF Current, Coords, CoordsOf, Answered
<1>6. \A u : TravelDistanceUntil(u)' = TravelDistanceUntil(u)
  BY <1>3 DEF TravelDistanceUntil, SentUntil
<1>7. DriveTypeOK'
  BY <1>3, <1>4 DEF RecordInv, DriveTypeOK, Length, Astray, Overshoot
<1>8. HistoryOK'
  <2>1. \A i \in 1 .. n : history[i].at <= m + 1
    <3>1. \A i \in 1 .. n : history[i].at <= m
      BY DEF RecordInv, HistoryOK
    <3>. QED  BY <1>1, <1>2, <3>1
  <2>2. /\ \A i \in 1 .. n - 1 : history[i].at # 0
        /\ history[n].at = 0 /\ n > 1
    BY <1>3 DEF RecordInv, HistoryOK
  <2>. QED  BY <1>3, <1>4, <2>1, <2>2 DEF HistoryOK
<1>9. TotalDistance' = TotalDistance + DistanceTo(rows[m], Current)
  <2>1. PICK start, p, S, T, k :
          /\ start = rows[1] /\ p = rows' /\ S = 1 .. m /\ T = 1 .. m + 1
          /\ k = m + 1 /\ k \in Nat
          /\ First(S, k, m) /\ First(T, k, k) /\ m + 1 \notin S
    <3>1. (1 .. m) \cap (1 .. m + 1) = 1 .. m /\ m + 1 \notin 1 .. m /\ m + 1 \in Nat
      BY <1>2
    <3>2. First(1 .. m, m + 1, m) /\ First(1 .. m + 1, m + 1, m + 1)
      BY <3>1 DEF First
    <3>. QED  BY <3>1, <3>2, Zenon
  <2>2. WayAlong(start, p, S) = WayAlong(start, rows, S)
    BY <1>1, <1>2, <1>3, <2>1, LongerWay
  <2>3. p \in Seq(Coordinate) /\ Len(p) = k /\ start \in Coordinate /\ m \in Nat /\ m > 0
    BY <1>2, <1>4, <2>1
  <2>4. WayAlong(start, p, T).length =
          WayAlong(start, p, S).length + DistanceTo(p[m], p[k])
    BY <2>1, <2>3, LastStretch
  <2>5. p[m] = rows[m] /\ p[k] = Current /\ p[1] = rows[1]
    <3>1. m \in 1 .. m /\ 1 \in 1 .. m
      BY <1>2
    <3>. QED  BY <1>4, <2>1, <3>1
  <2>6. TotalDistance' = WayAlong(p[1], p, T).length
    BY <1>4, <2>1 DEF TotalDistance
  <2>. QED  BY <1>2, <2>1, <2>2, <2>4, <2>5, <2>6
<1>10. TotalDistance' = total
  <2>1. CASE rows[m] = Current
    <3>1. DistanceTo(rows[m], Current) = 0 /\ TotalDistance = total
      BY <1>1, <2>1, DistanceNat DEF RecordInv, RowsOK
    <3>. QED  BY <1>2, <1>9, <3>1
  <2>2. CASE rows[m] # Current
    <3>1. rows[m] = history[n - 1].coord /\ TotalDistance = Answered
      BY <2>2 DEF RecordInv, RowsOK
    <3>2. Last(history).at = 0
      BY <1>3 DEF Last, RecordInv, HistoryOK
    <3>3. Answered = total - DistanceTo(rows[m], Current)
      BY <3>1, <3>2 DEF Answered
    <3>4. DistanceTo(rows[m], Current) \in Nat
      <4>1. rows[m] \in Coordinate
        BY <1>2
      <4>. QED  BY <1>1, <4>1, DistanceNat
    <3>5. total \in Nat
      BY DEF RecordInv, DriveTypeOK
    <3>. QED  BY <1>9, <3>1, <3>3, <3>4, <3>5
  <2>. QED  BY <2>1, <2>2
<1>11. RowsOK'
  <2>1. total = WayAlong(leg[1], Coords, DOMAIN history).length
    BY DEF RecordInv, RowsOK
  <2>. QED  BY <1>2, <1>3, <1>4, <1>5, <1>10, <2>1 DEF RowsOK
<1>12. PositionsKnown'
  <2>. SUFFICES ASSUME NEW i \in 1 .. m + 1
                PROVE  \/ rows'[i] = Current
                       \/ \E h \in DOMAIN history :
                            history[h].at # 0 /\ history[h].coord = rows'[i]
    BY <1>3, <1>4, <1>5 DEF PositionsKnown
  <2>1. i \in 1 .. m \/ i = m + 1
    BY <1>2
  <2>. QED  BY <1>2, <1>4, <2>1 DEF RecordInv, PositionsKnown
<1>13. AuditOK'
  <2>1. owner.pc # "idle" => owner.updatedAt <= m /\ owner.updatedAt \in Nat
    BY DEF RecordInv, AuditOK, DriveTypeOK
  <2>2. owner.pc # "idle" => owner.updatedAt < m + 1 /\ owner.updatedAt <= m + 1
    BY <1>2, <2>1
  <2>. QED  BY <1>3, <1>4, <1>6, <2>2 DEF AuditOK, RecordInv
<1>. QED  BY <1>5, <1>7, <1>8, <1>11, <1>12, <1>13 DEF RecordInv

\* A lost call changes only whether the coordinate has to be sent again.
LEMMA LoseStep ==
  ASSUME RecordInv, Lose
  PROVE  RecordInv' /\ Current' = Current
<1>1. /\ sending \in {"due", "served"} /\ sending' = "due"
      /\ history' = history /\ leg' = leg /\ speed' = speed /\ detour' = detour
      /\ total' = total /\ ticks' = ticks /\ owner' = owner /\ rows' = rows
  BY DEF Lose, chairVars
<1>2. lost' \in 0 .. MaxLost
  BY DrivingAssumption DEF Lose, RecordInv, DriveTypeOK
<1>3. /\ Current' = Current /\ Coords' = Coords /\ Answered' = Answered
      /\ TotalDistance' = TotalDistance
  BY <1>1 DEF Current, Coords, CoordsOf, Answered, TotalDistance
<1>4. \A u : TravelDistanceUntil(u)' = TravelDistanceUntil(u)
  BY <1>1 DEF TravelDistanceUntil, SentUntil
<1>5. DriveTypeOK'
  BY <1>1, <1>2 DEF RecordInv, DriveTypeOK, Length, Astray, Overshoot
<1>6. HistoryOK'
  BY <1>1 DEF RecordInv, HistoryOK
<1>7. RowsOK'
  BY <1>1, <1>3 DEF RecordInv, RowsOK
<1>8. PositionsKnown'
  BY <1>1, <1>3 DEF RecordInv, PositionsKnown
<1>9. AuditOK'
  BY <1>1, <1>4 DEF RecordInv, AuditOK
<1>. QED  BY <1>3, <1>5, <1>6, <1>7, <1>8, <1>9 DEF RecordInv

LEMMA AnswerStep ==
  ASSUME RecordInv, Answer
  PROVE  RecordInv' /\ Current' = Current
<1> DEFINE n == Len(history)
           m == Len(rows)
<1>1. /\ n \in Nat \ {0} /\ history \in Seq(Entry) /\ DOMAIN history = 1 .. n
      /\ Current = history[n].coord /\ Current \in Coordinate
      /\ \A i \in 1 .. n : /\ history[i] \in Entry
                           /\ history[i].coord \in Coordinate /\ history[i].at \in Nat
      /\ leg[1] \in Coordinate
  BY HistoryFacts, LegFacts DEF RecordInv
<1>2. m \in Nat \ {0}
  BY Distances DEF RecordInv, RowsOK
<1>3. /\ history' = [history EXCEPT ![n].at = m] /\ sending = "served" /\ sending' = "no"
      /\ leg' = leg /\ speed' = speed /\ detour' = detour /\ rows' = rows
      /\ total' = total /\ ticks' = ticks /\ lost' = lost /\ owner' = owner
  BY DEF Answer
<1>4. PICK e \in Entry : e = [history[n] EXCEPT !.at = m] /\ e.at = m /\ e.coord = Current
  <2>1. PICK old \in Entry : old = history[n]
    BY <1>1
  <2>2. PICK k \in Nat : k = m
    BY <1>2
  <2>3. /\ [old EXCEPT !.at = k] \in Entry
        /\ [old EXCEPT !.at = k].at = k /\ [old EXCEPT !.at = k].coord = old.coord
    BY DEF Entry
  <2>. QED  BY <1>1, <2>1, <2>2, <2>3
<1>5. /\ history' \in Seq(Entry) /\ history' # <<>> /\ Len(history') = n
      /\ DOMAIN history' = 1 .. n /\ history'[n] = e
      /\ \A i \in 1 .. n : i # n => history'[i] = history[i]
  <2>1. history' = [history EXCEPT ![n] = e] /\ n \in 1 .. n
    BY <1>1, <1>3, <1>4
  <2>2. /\ history' \in Seq(Entry) /\ Len(history') = n
        /\ \A i \in 1 .. n : history'[i] = IF i = n THEN e ELSE history[i]
    BY <1>1, <2>1, ExceptSeq
  <2>. QED  BY <1>1, <2>1, <2>2, EmptySeq, LenProperties
<1>6. \A i \in 1 .. n : history'[i].coord = history[i].coord
  BY <1>1, <1>4, <1>5
<1>7. Current' = Current /\ Coords' = Coords
  <2>1. Current' = history'[n].coord
    BY <1>5 DEF Current, Last
  <2>2. Coords' = [i \in 1 .. n |-> history'[i].coord]
    BY <1>5 DEF Coords, CoordsOf
  <2>3. Coords = [i \in 1 .. n |-> history[i].coord]
    BY <1>1 DEF Coords, CoordsOf
  <2>. QED  BY <1>4, <1>5, <1>6, <2>1, <2>2, <2>3
<1>8. rows[m] = Current /\ history[n].at = 0 /\ n > 1
  BY <1>3 DEF RecordInv, RowsOK, HistoryOK
<1>9. DriveTypeOK'
  <2>1. \A i \in DOMAIN history' : DistanceTo(history'[i].coord, leg[2]) <= Length + Astray
    BY <1>1, <1>5, <1>6 DEF RecordInv, DriveTypeOK
  <2>2. Length' = Length /\ Astray' = Astray
    BY <1>3 DEF Length, Astray, Overshoot
  <2>. QED  BY <1>3, <1>5, <2>1, <2>2 DEF RecordInv, DriveTypeOK, Entry
<1>10. HistoryOK'
  <2>1. \A i \in 1 .. n - 1 : history'[i].at # 0
    <3>1. \A i \in 1 .. n - 1 : history[i].at # 0 /\ i \in 1 .. n /\ i # n
      BY <1>1 DEF RecordInv, HistoryOK
    <3>. QED  BY <1>5, <3>1
  <2>2. \A i \in 1 .. n : history'[i].at <= m
    <3>1. \A i \in 1 .. n : history[i].at <= m
      BY DEF RecordInv, HistoryOK
    <3>2. ASSUME NEW i \in 1 .. n, i # n
          PROVE  history'[i].at <= m
      BY <1>5, <3>1, <3>2
    <3>3. history'[n].at <= m
      BY <1>2, <1>4, <1>5
    <3>. QED  BY <3>2, <3>3
  <2>. QED  BY <1>2, <1>3, <1>4, <1>5, <2>1, <2>2 DEF HistoryOK
<1>11. RowsOK'
  <2>1. total = WayAlong(leg[1], Coords, 1 .. n).length /\ TotalDistance = total
    BY <1>1, <1>8 DEF RecordInv, RowsOK
  <2>2. TotalDistance' = TotalDistance
    BY <1>3 DEF TotalDistance
  <2>. QED  BY <1>2, <1>3, <1>5, <1>7, <1>8, <2>1, <2>2 DEF RowsOK
<1>12. PositionsKnown'
  <2>. SUFFICES ASSUME NEW i \in DOMAIN rows
                PROVE  \/ rows[i] = Current
                       \/ \E h \in 1 .. n : history'[h].at # 0 /\ history'[h].coord = rows[i]
    BY <1>3, <1>5, <1>7 DEF PositionsKnown
  <2>. QED  BY <1>1, <1>5, <1>8 DEF RecordInv, PositionsKnown
<1>13. AuditOK'
  <2>. SUFFICES ASSUME owner.pc # "idle", ~owner.ahead
                PROVE  TravelDistanceUntil(owner.updatedAt)' = TravelDistanceUntil(owner.updatedAt)
    BY <1>3 DEF RecordInv, AuditOK
  <2>1. PICK u \in Nat : u = owner.updatedAt /\ u < m
    BY <1>3 DEF RecordInv, AuditOK, DriveTypeOK
  <2>2. SentOf(history', u) = SentOf(history, u)
    <3>1. PICK h, g : h = history /\ g = history'
      OBVIOUS
    <3>2. /\ h \in Seq(Entry) /\ g \in Seq(Entry) /\ n \in Nat /\ n > 0
          /\ Len(h) = n
      <4>1. n \in Nat /\ n > 0
        BY <1>1
      <4>. QED  BY <1>1, <1>5, <3>1, <4>1, Zenon
    <3>3. Len(g) = n
      BY <1>5, <3>1
    <3>4. \A i \in 1 .. n - 1 : g[i] = h[i]
      <4>1. \A k \in Nat : \A i \in 1 .. k - 1 : i \in 1 .. k /\ i # k
        OBVIOUS
      <4>. QED  BY <1>5, <3>1, <3>2, <4>1
    <3>5. h[n].at = 0
      BY <1>8, <3>1
    <3>6. g[n].at > u
      <4>1. g[n].at = m
        BY <1>4, <1>5, <3>1
      <4>. QED  BY <1>2, <2>1, <4>1
    <3>. QED  BY <3>1, <3>2, <3>3, <3>4, <3>5, <3>6, SentExcept
  <2>3. TravelDistanceUntil(u)' = WayAlong(leg'[1], Coords', SentOf(history', u)).length
    BY DEF TravelDistanceUntil, SentUntil, SentOf, Coords, CoordsOf
  <2>4. TravelDistanceUntil(u) = WayAlong(leg[1], Coords, SentOf(history, u)).length
    BY DEF TravelDistanceUntil, SentUntil, SentOf, Coords, CoordsOf
  <2>5. TravelDistanceUntil(u)' = TravelDistanceUntil(u)
    BY <1>3, <1>7, <2>2, <2>3, <2>4
  <2>6. /\ TravelDistanceUntil(owner.updatedAt) = TravelDistanceUntil(u)
        /\ TravelDistanceUntil(owner.updatedAt)' = TravelDistanceUntil(u)'
    BY <1>3, <2>1 DEF TravelDistanceUntil, SentUntil
  <2>. QED  BY <2>5, <2>6
<1>. QED  BY <1>7, <1>9, <1>10, <1>11, <1>12, <1>13 DEF RecordInv

\* The audit's readings leave the chair alone.
LEMMA AuditStep ==
  ASSUME RecordInv, ListChairs \/ CompareUntil \/ CompareTotal
  PROVE  RecordInv'
<1>1. /\ sending' = sending /\ rows' = rows /\ lost' = lost
      /\ history' = history /\ leg' = leg /\ speed' = speed /\ detour' = detour
      /\ total' = total /\ ticks' = ticks
  BY DEF ListChairs, CompareUntil, CompareTotal, chairVars
<1>2. /\ Current' = Current /\ Coords' = Coords /\ Answered' = Answered
      /\ TotalDistance' = TotalDistance
  BY <1>1 DEF Current, Coords, CoordsOf, Answered, TotalDistance
<1>3. \A u : TravelDistanceUntil(u)' = TravelDistanceUntil(u)
  BY <1>1 DEF TravelDistanceUntil, SentUntil
<1>4. HistoryOK'
  BY <1>1 DEF RecordInv, HistoryOK
<1>5. RowsOK'
  BY <1>1, <1>2 DEF RecordInv, RowsOK
<1>6. PositionsKnown'
  BY <1>1, <1>2 DEF RecordInv, PositionsKnown
<1> DEFINE Owners == [pc : {"idle", "listed", "accepted", "doubtful", "rejected"},
                      distance : Nat, updatedAt : Nat, ahead : BOOLEAN]
<1>7. owner \in Owners
  BY DEF RecordInv, DriveTypeOK
<1>8. ASSUME owner' \in Owners
      PROVE  DriveTypeOK'
  BY <1>1, <1>8 DEF RecordInv, DriveTypeOK, Length, Astray, Overshoot
<1>. HIDE DEF Owners
<1>9. /\ Len(rows) \in Nat \ {0} /\ TotalDistance \in Nat
  BY Distances DEF RecordInv, RowsOK
<1>10. CASE ListChairs
  <2> DEFINE a == TotalDistance = total /\ Last(history).at = 0
  <2>1. owner' = [pc |-> "listed", distance |-> TotalDistance, updatedAt |-> Len(rows),
                  ahead |-> a]
    BY <1>10 DEF ListChairs
  <2>2. a \in BOOLEAN
    OBVIOUS
  <2>3. TravelDistanceUntil(Len(rows)) = Answered
    BY AnsweredIsSent DEF RecordInv
  <2>4. ~a => TotalDistance = Answered /\ sending # "served"
    <3>. SUFFICES ASSUME ~a PROVE TotalDistance = Answered /\ sending # "served"
      OBVIOUS
    <3>1. CASE rows[Len(rows)] = Current
      <4>1. TotalDistance = total /\ total \in Nat
        BY <3>1 DEF RecordInv, RowsOK, DriveTypeOK
      <4>2. Last(history).at # 0
        BY <4>1
      <4>3. Answered = total
        BY <4>1, <4>2 DEF Answered
      <4>4. sending = "no"
        BY <4>2 DEF RecordInv, HistoryOK, Last
      <4>. QED  BY <4>1, <4>3, <4>4
    <3>2. CASE rows[Len(rows)] # Current
      BY <3>2 DEF RecordInv, RowsOK
    <3>. QED  BY <3>1, <3>2
  <2>. HIDE DEF a
  <2>5. owner' \in Owners
    BY <1>9, <2>1, <2>2 DEF Owners
  <2>6. AuditOK'
    <3>1. /\ owner'.updatedAt = Len(rows) /\ owner'.pc = "listed" /\ owner'.ahead = a
          /\ owner'.distance = TotalDistance
      BY <2>1
    <3>2. TravelDistanceUntil(owner.updatedAt)' = TravelDistanceUntil(Len(rows))
      BY <1>1, <3>1 DEF TravelDistanceUntil, SentUntil
    <3>. QED  BY <1>1, <1>9, <2>3, <2>4, <3>1, <3>2 DEF AuditOK
  <2>. QED  BY <1>4, <1>5, <1>6, <1>8, <2>5, <2>6 DEF RecordInv
<1>11. CASE CompareUntil \/ CompareTotal
  <2>1. PICK pc \in {"accepted", "doubtful", "rejected"} :
          /\ owner' = [owner EXCEPT !.pc = pc]
          /\ owner.pc # "idle"
          /\ owner.ahead \/ pc = "accepted"
    <3>1. CASE CompareUntil
      BY <3>1 DEF CompareUntil, RecordInv, AuditOK
    <3>2. CASE CompareTotal
      BY <3>2 DEF CompareTotal, RecordInv, AuditOK
    <3>. QED  BY <1>11, <3>1, <3>2
  <2>2. /\ owner' \in Owners /\ owner'.pc = pc /\ owner'.updatedAt = owner.updatedAt
        /\ owner'.ahead = owner.ahead /\ owner'.distance = owner.distance
    BY <1>7, <2>1 DEF Owners
  <2>3. TravelDistanceUntil(owner.updatedAt)' = TravelDistanceUntil(owner.updatedAt)
    BY <1>1, <2>2 DEF TravelDistanceUntil, SentUntil
  <2>4. AuditOK'
    BY <1>1, <2>1, <2>2, <2>3 DEF AuditOK, RecordInv
  <2>. QED  BY <1>4, <1>5, <1>6, <1>8, <2>2, <2>4 DEF RecordInv
<1>. QED  BY <1>10, <1>11

\* Only a move changes where the chair is on its leg.
LEMMA OtherSteps ==
  ASSUME DriveInv, ~Drive, DriveNext \/ UNCHANGED driveVars
  PROVE  DriveInv'
<1>1. RecordInv
  BY DEF DriveInv, RecordInv
<1>2. RecordInv'
  <2>1. CASE Record
    BY <1>1, <2>1, RecordStep
  <2>2. CASE Lose
    BY <1>1, <2>2, LoseStep
  <2>3. CASE Answer
    BY <1>1, <2>3, AnswerStep
  <2>4. CASE ListChairs \/ CompareUntil \/ CompareTotal
    BY <1>1, <2>4, AuditStep
  <2>5. CASE UNCHANGED driveVars
    <3>1. /\ history' = history /\ leg' = leg /\ speed' = speed /\ detour' = detour
          /\ total' = total /\ ticks' = ticks /\ owner' = owner /\ rows' = rows
          /\ sending' = sending /\ lost' = lost
      BY <2>5 DEF driveVars
    <3>2. /\ Current' = Current /\ Coords' = Coords /\ Answered' = Answered
          /\ TotalDistance' = TotalDistance
      BY <3>1 DEF Current, Coords, CoordsOf, Answered, TotalDistance
    <3>3. TravelDistanceUntil(owner.updatedAt)' = TravelDistanceUntil(owner.updatedAt)
      BY <3>1 DEF TravelDistanceUntil, SentUntil
    <3>4. DriveTypeOK'
      BY <1>1, <3>1 DEF RecordInv, DriveTypeOK, Length, Astray, Overshoot
    <3>5. HistoryOK' /\ PositionsKnown'
      BY <1>1, <3>1, <3>2 DEF RecordInv, HistoryOK, PositionsKnown
    <3>6. RowsOK'
      BY <1>1, <3>1, <3>2 DEF RecordInv, RowsOK
    <3>7. AuditOK'
      BY <1>1, <3>1, <3>3 DEF RecordInv, AuditOK
    <3>. QED  BY <3>4, <3>5, <3>6, <3>7 DEF RecordInv
  <2>. QED  BY <2>1, <2>2, <2>3, <2>4, <2>5 DEF DriveNext
<1>3. Current' = Current
  <2>1. CASE Record
    BY <1>1, <2>1, RecordStep
  <2>2. CASE Lose
    BY <1>1, <2>2, LoseStep
  <2>3. CASE Answer
    BY <1>1, <2>3, AnswerStep
  <2>4. CASE ListChairs \/ CompareUntil \/ CompareTotal \/ UNCHANGED driveVars
    <3>1. history' = history
      BY <2>4 DEF ListChairs, CompareUntil, CompareTotal, chairVars, driveVars
    <3>. QED  BY <3>1 DEF Current
  <2>. QED  BY <2>1, <2>2, <2>3, <2>4 DEF DriveNext
<1>4. /\ leg' = leg /\ speed' = speed /\ detour' = detour /\ total' = total
      /\ ticks' = ticks
  BY DEF DriveNext, Record, Lose, Answer, ListChairs, CompareUntil, CompareTotal,
         chairVars, driveVars
<1>5. Length' = Length /\ Needed' = Needed
  BY <1>4 DEF Length, Needed, Astray, Overshoot
<1>6. DetourOK' /\ StraightOK'
  BY <1>4, <1>5 DEF DriveInv, DetourOK, StraightOK
<1>7. OutOK'
  BY <1>3, <1>4 DEF DriveInv, OutOK
<1>8. BackOK'
  BY <1>3, <1>4, <1>5 DEF DriveInv, BackOK
<1>. QED  BY <1>2, <1>6, <1>7, <1>8 DEF RecordInv, DriveInv

-----------------------------------------------------------------------------
(* The moves.                                                              *)

LEMMA DetourFacts ==
  ASSUME DriveTypeOK, DetourOK, detour.planned
  PROVE  LET way == DistanceTo(leg[1], detour.point) IN
         /\ detour.point \in Coordinate /\ way \in Nat
         /\ \E q \in Nat : way = q * speed
         /\ way <= Length /\ Overshoot \in 0 .. way
         /\ DistanceTo(detour.point, leg[2]) = Length - way + 2 * Overshoot
         /\ \A c \in Coordinate :
              DistanceTo(leg[1], c) + DistanceTo(c, detour.point) = way =>
                /\ DistanceTo(c, leg[2]) <= Length + Overshoot
                /\ leg[1] # leg[2] => c # leg[2]
<1>1. PICK a, b, p, s : a = leg[1] /\ b = leg[2] /\ p = detour.point /\ s = speed
  OBVIOUS
<1>2. a \in Coordinate /\ b \in Coordinate /\ s \in Nat \ {0} /\ p \in Points(a, b, s)
  BY <1>1, LegFacts DEF DetourOK
<1>3. IsDetour(a, b, s, p)
  BY <1>2, DetourPoint
<1>4. Overshoot = PastPoint(a, b, p)
  BY <1>1, Zenon DEF Overshoot, PastPoint, Past
<1>5. Length = DistanceTo(a, b)
  BY <1>1 DEF Length
<1>6. DistanceTo(a, p) \in Nat /\ DistanceTo(a, b) \in Nat
  BY <1>2, <1>3, DistanceNat DEF IsDetour
<1>7. DistanceTo(a, p) <= DistanceTo(a, b)
  BY <1>3, <1>6 DEF IsDetour
<1>. QED  BY <1>1, <1>3, <1>4, <1>5, <1>6, <1>7 DEF IsDetour

\* A move away from the target takes the chair a whole move away (chair.go:253).
LEMMA MoveAway ==
  ASSUME NEW c \in Coordinate, NEW target \in Coordinate, NEW step \in Nat,
         NEW to \in MoveOppositeTo(c, target, step)
  PROVE  /\ to \in Coordinate
         /\ DistanceTo(to, target) <= DistanceTo(c, target) + step
         /\ c # target => DistanceTo(to, target) = DistanceTo(c, target) + step
<1>1. PICK cx \in Int, cy \in Int, tx \in Int, ty \in Int :
        c = C(cx, cy) /\ target = C(tx, ty)
  BY DEF Coordinate, C
<1>2. c.x = cx /\ c.y = cy /\ target.x = tx /\ target.y = ty
  BY <1>1 DEF C
<1>3. \A a, b \in Int : /\ Away(a, b, step) \in Int
                        /\ a # b => Abs(Away(a, b, step) - b) = Abs(a - b) + step
                        /\ a = b => Away(a, b, step) = a
  BY DEF Away, Abs
<1>4. \/ /\ to = C(cx, Away(cy, ty, step)) /\ (tx = cx \/ cy # ty)
      \/ /\ to = C(Away(cx, tx, step), cy) /\ cx # tx
  BY <1>2 DEF MoveOppositeTo
<1>5. \A x, y \in Int : /\ C(x, y) \in Coordinate
                        /\ DistanceTo(C(x, y), target) = Abs(x - tx) + Abs(y - ty)
  BY <1>1 DEF C, Coordinate, DistanceTo
<1>6. \A n \in Int : Abs(n) \in Nat
  BY AbsNat
<1>7. CASE to = C(cx, Away(cy, ty, step)) /\ (tx = cx \/ cy # ty)
  <2>1. /\ to \in Coordinate
        /\ DistanceTo(to, target) = Abs(cx - tx) + Abs(Away(cy, ty, step) - ty)
        /\ DistanceTo(c, target) = Abs(cx - tx) + Abs(cy - ty)
    BY <1>1, <1>3, <1>5, <1>7
  <2>2. Abs(cx - tx) \in Nat /\ Abs(cy - ty) \in Nat
    BY <1>6
  <2>3. CASE cy # ty
    <3>1. Abs(Away(cy, ty, step) - ty) = Abs(cy - ty) + step
      BY <1>3, <2>3
    <3>. QED  BY <2>1, <2>2, <3>1
  <2>4. CASE cy = ty
    <3>1. Away(cy, ty, step) = cy /\ c = target
      BY <1>1, <1>3, <1>7, <2>4
    <3>. QED  BY <2>1, <2>2, <3>1
  <2>. QED  BY <2>3, <2>4
<1>8. CASE to = C(Away(cx, tx, step), cy) /\ cx # tx
  <2>1. /\ to \in Coordinate
        /\ DistanceTo(to, target) = Abs(Away(cx, tx, step) - tx) + Abs(cy - ty)
        /\ DistanceTo(c, target) = Abs(cx - tx) + Abs(cy - ty)
    BY <1>1, <1>3, <1>5, <1>8
  <2>2. Abs(cx - tx) \in Nat /\ Abs(cy - ty) \in Nat
    BY <1>6
  <2>3. Abs(Away(cx, tx, step) - tx) = Abs(cx - tx) + step
    BY <1>3, <1>8
  <2>. QED  BY <2>1, <2>2, <2>3
<1>. QED  BY <1>4, <1>7, <1>8

\* What a step of Drive has to show of the position it moves to.
MovesTo(c) ==
  /\ c \in Coordinate /\ DistanceTo(c, leg[2]) <= Length + Astray
  /\ MoveTo(c) /\ UNCHANGED <<leg, speed, rows, lost, owner>>
  /\ sending = "no"
  /\ detour' \in [planned : BOOLEAN, done : BOOLEAN, point : Coordinate]
  /\ detour'.planned = detour.planned /\ detour'.point = detour.point

LEMMA MovesKeep ==
  ASSUME DriveInv, NEW c, MovesTo(c), detour'.done => detour.planned \/ detour.done
  PROVE  /\ RecordInv' /\ Current' = c /\ DetourOK'
         /\ Length' = Length /\ Needed' = Needed
         /\ leg' = leg /\ speed' = speed /\ ticks' = ticks + 1
         /\ total' = total + DistanceTo(Current, c)
<1>1. RecordInv
  BY DEF DriveInv, RecordInv
<1>2. /\ leg' = leg /\ speed' = speed /\ ticks' = ticks + 1
      /\ total' = total + DistanceTo(Current, c)
      /\ detour'.planned = detour.planned /\ detour'.point = detour.point
  BY DEF MovesTo, MoveTo
<1>3. Length' = Length /\ Astray' = Astray /\ Overshoot' = Overshoot
  BY <1>2 DEF Length, Astray, Overshoot
<1>4. RecordInv' /\ Current' = c
  BY <1>1, <1>3, MoveKeepsRecord DEF MovesTo
<1>5. Needed' = Needed
  BY <1>3 DEF Needed
<1>6. DetourOK'
  BY <1>2 DEF DriveInv, DetourOK
<1>. QED  BY <1>2, <1>3, <1>4, <1>5, <1>6

LEMMA AstrayNat ==
  ASSUME DriveTypeOK, DetourOK
  PROVE  /\ Astray \in Nat /\ Needed \in Nat /\ Needed = Length + 2 * Astray
         /\ detour.planned => Overshoot \in Nat /\ Astray = speed + Overshoot
         /\ ~detour.planned => Astray = 0
<1>1. Length \in Nat /\ speed \in Nat
  BY LegFacts
<1>2. ASSUME detour.planned
      PROVE  Overshoot \in Nat
  BY <1>2, DetourFacts
<1>3. detour.planned \in BOOLEAN
  BY DEF DriveTypeOK
<1>. QED  BY <1>1, <1>2, <1>3 DEF Astray, Needed

\* What a position of the chair is bounded by.
LEMMA NotFar ==
  ASSUME DriveTypeOK
  PROVE  DistanceTo(Current, leg[2]) <= Length + Astray
<1>1. /\ Len(history) \in DOMAIN history /\ Current = history[Len(history)].coord
  BY HistoryFacts
<1>. QED  BY <1>1 DEF DriveTypeOK

LEMMA DriveAway ==
  ASSUME DriveInv, sending = "no",
         detour.planned, ~detour.done, Current = detour.point,
         NEW c \in MoveOppositeTo(Current, leg[2], speed), MoveTo(c),
         detour' = [detour EXCEPT !.done = TRUE],
         UNCHANGED <<leg, speed, rows, lost, owner>>
  PROVE  DriveInv'
<1> DEFINE way == DistanceTo(leg[1], detour.point)
           over == Overshoot
           far == DistanceTo(Current, leg[2])
           off == DistanceTo(c, leg[2])
<1>1. /\ leg[1] \in Coordinate /\ leg[2] \in Coordinate /\ Current \in Coordinate
      /\ speed \in Nat /\ speed > 0 /\ Length \in Nat /\ ticks \in Nat
      /\ ticks * speed \in Int
  BY LegFacts, HistoryFacts DEF DriveInv, DriveTypeOK
<1>2. /\ way \in Nat /\ way <= Length /\ over \in Nat /\ over <= way
      /\ far = Length - way + 2 * over
      /\ (leg[1] # leg[2] /\ DistanceTo(leg[1], Current) + DistanceTo(Current, detour.point) = way
            => Current # leg[2])
  <2>1. /\ way \in Nat /\ way <= Length /\ over \in 0 .. way
        /\ far = Length - way + 2 * over
    BY DetourFacts DEF DriveInv
  <2>2. over \in Nat /\ over <= way
    BY <2>1
  <2>3. \A d \in Coordinate :
          DistanceTo(leg[1], d) + DistanceTo(d, detour.point) = way =>
            (leg[1] # leg[2] => d # leg[2])
    BY DetourFacts DEF DriveInv
  <2>. QED  BY <1>1, <2>1, <2>2, <2>3
<1>3. /\ DistanceTo(Current, detour.point) = way - ticks * speed
      /\ DistanceTo(leg[1], Current) + DistanceTo(Current, detour.point) = way
  BY DEF DriveInv, OutOK
<1>4. c \in Coordinate /\ off \in Nat /\ off <= far + speed
      /\ (Current # leg[2] => off = far + speed)
  BY <1>1, MoveAway, DistanceNat
<1>5. Astray = speed + over /\ Needed = Length + 2 * (speed + over)
  BY AstrayNat DEF DriveInv
<1>6. Length > 0 => Current # leg[2]
  <2>1. leg[1] = leg[2] => Length = 0
    BY <1>1, DistanceNat DEF Length
  <2>2. Length > 0 => leg[1] # leg[2]
    BY <2>1
  <2>. QED  BY <1>2, <1>3, <2>2, Zenon
<1>7. ticks * speed = way
  <2>1. DistanceTo(Current, detour.point) = 0
    BY <1>1, DistanceNat
  <2>2. PICK w, r : w = way /\ r = ticks * speed
    OBVIOUS
  <2>3. w \in Nat /\ r \in Int /\ 0 = w - r
    BY <1>1, <1>2, <1>3, <2>1, <2>2
  <2>. QED  BY <2>2, <2>3
<1>8. detour' \in [planned : BOOLEAN, done : BOOLEAN, point : Coordinate]
      /\ detour'.planned = detour.planned /\ detour'.point = detour.point /\ detour'.done
  BY DEF DriveInv, DriveTypeOK
<1>. HIDE DEF way, over, far, off
<1>9. off <= Length + Astray
  BY <1>1, <1>2, <1>4, <1>5
<1>10. MovesTo(c)
  BY <1>4, <1>8, <1>9 DEF MovesTo, off
<1>11. /\ RecordInv' /\ Current' = c /\ DetourOK' /\ Length' = Length /\ Needed' = Needed
       /\ leg' = leg /\ speed' = speed /\ ticks' = ticks + 1
  BY <1>10, MovesKeep
<1>12. OutOK' /\ StraightOK'
  BY <1>8 DEF OutOK, StraightOK
<1>13. BackOK'
  <2>. SUFFICES ASSUME Length > 0
                PROVE  /\ off = IF (ticks + 1) * speed < Needed
                                THEN Needed - (ticks + 1) * speed ELSE 0
                       /\ ticks * speed < Needed
    <3>1. ticks' * speed' = (ticks + 1) * speed /\ (ticks' - 1) * speed' = ticks * speed
      BY <1>1, <1>11
    <3>2. DistanceTo(Current', leg'[2]) = off
      BY <1>11 DEF off
    <3>. QED  BY <1>11, <3>1, <3>2 DEF BackOK
  <2>1. off = far + speed
    BY <1>4, <1>6
  <2>2. (ticks + 1) * speed = way + speed
    BY <1>1, <1>7, TimesMonotonic
  <2>. QED  BY <1>1, <1>2, <1>5, <1>7, <2>1, <2>2
<1>. QED  BY <1>11, <1>12, <1>13 DEF RecordInv, DriveInv

LEMMA DriveOut ==
  ASSUME DriveInv, sending = "no",
         detour.planned, ~detour.done, Current # detour.point,
         NEW x \in 0 .. speed, MoveTo(MoveToward(Current, detour.point, speed, x)),
         UNCHANGED <<leg, speed, detour, rows, lost, owner>>
  PROVE  DriveInv'
<1> DEFINE way == DistanceTo(leg[1], detour.point)
           left == DistanceTo(Current, detour.point)
<1>1. /\ leg[1] \in Coordinate /\ leg[2] \in Coordinate /\ Current \in Coordinate
      /\ speed \in Nat /\ speed > 0 /\ Length \in Nat /\ ticks \in Nat
      /\ detour.point \in Coordinate /\ ticks * speed \in Int
  BY LegFacts, HistoryFacts DEF DriveInv, DriveTypeOK
<1>2. /\ way \in Nat /\ \E q \in Nat : way = q * speed
      /\ \A d \in Coordinate :
           DistanceTo(leg[1], d) + DistanceTo(d, detour.point) = way =>
             DistanceTo(d, leg[2]) <= Length + Overshoot
  BY DetourFacts DEF DriveInv
<1>3. /\ left = way - ticks * speed /\ DistanceTo(leg[1], Current) + left = way
      /\ ticks * speed <= way
  BY DEF DriveInv, OutOK
<1>4. left \in Nat /\ left > 0 /\ DistanceTo(leg[1], Current) \in Nat
  <2>1. left \in Nat /\ DistanceTo(leg[1], Current) \in Nat /\ left # 0
    BY <1>1, DistanceNat
  <2>. QED  BY <2>1
<1>5. /\ (ticks + 1) * speed = ticks * speed + speed /\ (ticks + 1) * speed <= way
      /\ speed <= left
  <2>1. PICK q \in Nat : way = q * speed
    BY <1>2
  <2>2. (ticks + 1) * speed = ticks * speed + speed
    BY <1>1, TimesMonotonic
  <2>3. ticks + 1 <= q
    <3>1. q <= ticks => q * speed <= ticks * speed
      BY <1>1, TimesMonotonic
    <3>. QED  BY <1>1, <1>2, <1>3, <1>4, <2>1, <3>1
  <2>4. (ticks + 1) * speed <= q * speed
    BY <1>1, <2>3, TimesMonotonic
  <2>. QED  BY <1>1, <1>2, <1>3, <2>1, <2>2, <2>4
<1>6. PICK c \in Coordinate :
        /\ c = MoveToward(Current, detour.point, speed, x)
        /\ DistanceTo(Current, c) = speed
        /\ DistanceTo(c, detour.point) = left - speed
  <2>1. PICK a, b, s : a = Current /\ b = detour.point /\ s = speed
    OBVIOUS
  <2>2. a \in Coordinate /\ b \in Coordinate /\ s \in Nat /\ x \in 0 .. s
    BY <1>1, <2>1
  <2>3. /\ MoveToward(a, b, s, x) \in Coordinate
        /\ DistanceTo(a, MoveToward(a, b, s, x)) = Lesser(s, DistanceTo(a, b))
        /\ DistanceTo(MoveToward(a, b, s, x), b) = DistanceTo(a, b) - Lesser(s, DistanceTo(a, b))
    BY <2>2, MoveCoversStep
  <2>4. Lesser(s, DistanceTo(a, b)) = s
    BY <1>1, <1>4, <1>5, <2>1 DEF Lesser
  <2>. QED  BY <2>1, <2>3, <2>4
<1>7. DistanceTo(leg[1], c) + DistanceTo(c, detour.point) = way
  <2>1. DistanceTo(leg[1], c) <= DistanceTo(leg[1], Current) + DistanceTo(Current, c)
    BY <1>1, Triangle
  <2>2. way <= DistanceTo(leg[1], c) + DistanceTo(c, detour.point)
    BY <1>1, Triangle
  <2>3. DistanceTo(leg[1], c) \in Nat /\ DistanceTo(c, detour.point) \in Nat
    BY <1>1, DistanceNat
  <2>. HIDE DEF way, left
  <2>. QED  BY <1>1, <1>2, <1>3, <1>4, <1>6, <2>1, <2>2, <2>3
<1>8. DistanceTo(c, leg[2]) <= Length + Astray
  <2>1. DistanceTo(c, leg[2]) <= Length + Overshoot
    BY <1>2, <1>7
  <2>2. Overshoot \in Nat /\ Astray = speed + Overshoot
    BY AstrayNat DEF DriveInv
  <2>3. DistanceTo(c, leg[2]) \in Nat
    BY <1>1, DistanceNat
  <2>. QED  BY <1>1, <2>1, <2>2, <2>3
<1>9. detour' = detour /\ detour \in [planned : BOOLEAN, done : BOOLEAN, point : Coordinate]
  BY DEF DriveInv, DriveTypeOK
<1>10. MovesTo(c)
  BY <1>6, <1>8, <1>9 DEF MovesTo
<1>11. /\ RecordInv' /\ Current' = c /\ DetourOK'
       /\ leg' = leg /\ speed' = speed /\ ticks' = ticks + 1
  BY <1>9, <1>10, MovesKeep
<1>12. BackOK' /\ StraightOK'
  BY <1>9 DEF BackOK, StraightOK
<1>13. OutOK'
  <2>. HIDE DEF left
  <2>1. /\ (ticks + 1) * speed <= way
        /\ DistanceTo(c, detour.point) = way - (ticks + 1) * speed
        /\ DistanceTo(leg[1], c) + DistanceTo(c, detour.point) = way
    <3>. HIDE DEF way
    <3>1. left - speed = way - (ticks + 1) * speed
      BY <1>1, <1>2, <1>3, <1>5
    <3>. QED  BY <1>5, <1>6, <1>7, <3>1
  <2>. QED  BY <1>9, <1>11, <2>1 DEF OutOK
<1>. QED  BY <1>11, <1>12, <1>13 DEF RecordInv, DriveInv

LEMMA DriveStraight ==
  ASSUME DriveInv, sending = "no", ~Arrived, detour.planned => detour.done,
         NEW x \in 0 .. speed, MoveTo(MoveToward(Current, leg[2], speed, x)),
         UNCHANGED <<leg, speed, detour, rows, lost, owner>>
  PROVE  DriveInv'
<1> DEFINE left == DistanceTo(Current, leg[2])
           run == ticks * speed
<1>1. /\ leg[1] \in Coordinate /\ leg[2] \in Coordinate /\ Current \in Coordinate
      /\ speed \in Nat /\ speed > 0 /\ Length \in Nat /\ ticks \in Nat /\ total \in Nat
  BY LegFacts, HistoryFacts DEF DriveInv, DriveTypeOK
<1>2. run \in Nat /\ (ticks + 1) * speed = run + speed /\ (ticks = 0 => run = 0)
  BY <1>1
<1>3. left \in Nat /\ (Current # leg[2] <=> left > 0) /\ left <= Length + Astray
  <2>1. left \in Nat /\ (left = 0 <=> Current = leg[2])
    BY <1>1, DistanceNat
  <2>2. left <= Length + Astray
    BY NotFar DEF DriveInv
  <2>. QED  BY <2>1, <2>2
<1>4. /\ Astray \in Nat /\ Needed = Length + 2 * Astray
      /\ ~detour.planned => Astray = 0
  BY AstrayNat DEF DriveInv
<1>5. Length > 0 => left = IF run < Needed THEN Needed - run ELSE 0
  BY DEF DriveInv, BackOK
<1>6. ~detour.planned => total = IF run < Length THEN run ELSE Length
  BY DEF DriveInv, StraightOK
<1>7. Length > 0 => run < Needed
  <2>1. CASE ticks = 0
    BY <1>1, <1>2, <1>4, <2>1
  <2>2. CASE Current # leg[2]
    BY <1>3, <1>5, <2>2
  <2>. QED  BY <1>1, <2>1, <2>2 DEF Arrived
<1>8. PICK c \in Coordinate, k \in Nat :
        /\ c = MoveToward(Current, leg[2], speed, x)
        /\ k = IF speed < left THEN speed ELSE left
        /\ DistanceTo(Current, c) = k
        /\ DistanceTo(c, leg[2]) = left - k
  <2>1. PICK a, b, s : a = Current /\ b = leg[2] /\ s = speed
    OBVIOUS
  <2>2. a \in Coordinate /\ b \in Coordinate /\ s \in Nat /\ x \in 0 .. s
    BY <1>1, <2>1
  <2>3. /\ MoveToward(a, b, s, x) \in Coordinate
        /\ DistanceTo(a, MoveToward(a, b, s, x)) = Lesser(s, DistanceTo(a, b))
        /\ DistanceTo(MoveToward(a, b, s, x), b) = DistanceTo(a, b) - Lesser(s, DistanceTo(a, b))
    BY <2>2, MoveCoversStep
  <2>4. Lesser(s, DistanceTo(a, b)) = IF speed < left THEN speed ELSE left
    BY <2>1 DEF Lesser
  <2>5. Lesser(s, DistanceTo(a, b)) \in Nat
    BY <1>1, <1>3, <2>4
  <2>. QED  BY <2>1, <2>3, <2>4, <2>5
<1>9. detour' = detour /\ detour \in [planned : BOOLEAN, done : BOOLEAN, point : Coordinate]
  BY DEF DriveInv, DriveTypeOK
<1>. HIDE DEF left, run
<1>10. MovesTo(c)
  <2>1. left - k <= Length + Astray
    BY <1>1, <1>3, <1>4, <1>8
  <2>. QED  BY <1>8, <1>9, <2>1 DEF MovesTo
<1>11. /\ RecordInv' /\ Current' = c /\ DetourOK' /\ Length' = Length /\ Needed' = Needed
       /\ leg' = leg /\ speed' = speed /\ ticks' = ticks + 1 /\ total' = total + k
  BY <1>8, <1>9, <1>10, MovesKeep
<1>12. OutOK'
  BY <1>9 DEF OutOK
<1>13. BackOK'
  <2>. SUFFICES ASSUME Length > 0
                PROVE  /\ left - k = IF run + speed < Needed
                                     THEN Needed - (run + speed) ELSE 0
                       /\ run < Needed
    <3>1. ticks' * speed' = run + speed /\ (ticks' - 1) * speed' = run
      BY <1>1, <1>2, <1>11 DEF run
    <3>. QED  BY <1>8, <1>11, <3>1 DEF BackOK
  <2>. QED  BY <1>1, <1>2, <1>4, <1>5, <1>7, <1>8
<1>14. StraightOK'
  <2>. SUFFICES ASSUME ~detour.planned
                PROVE  total + k = IF run + speed < Length THEN run + speed ELSE Length
    <3>1. ticks' * speed' = run + speed
      BY <1>2, <1>11
    <3>. QED  BY <1>9, <1>11, <3>1 DEF StraightOK
  <2>1. Astray = 0 /\ Needed = Length
    BY <1>1, <1>4
  <2>. QED  BY <1>1, <1>2, <1>3, <1>5, <1>6, <1>7, <1>8, <2>1
<1>. QED  BY <1>11, <1>12, <1>13, <1>14 DEF RecordInv, DriveInv

LEMMA DriveStep ==
  ASSUME DriveInv, Drive
  PROVE  DriveInv'
<1>0. /\ sending = "no" /\ ~Arrived /\ UNCHANGED <<leg, speed, rows, lost, owner>>
      /\ detour.planned \in BOOLEAN /\ detour.done \in BOOLEAN
  BY DEF Drive, DriveInv, DriveTypeOK
<1>1. CASE /\ detour.planned /\ ~detour.done /\ Current = detour.point
           /\ \E c \in MoveOppositeTo(Current, leg[2], speed) : MoveTo(c)
           /\ detour' = [detour EXCEPT !.done = TRUE]
  BY <1>0, <1>1, DriveAway
<1>2. CASE /\ detour.planned /\ ~detour.done /\ Current # detour.point
           /\ \E x \in 0 .. speed : MoveTo(MoveToward(Current, detour.point, speed, x))
           /\ UNCHANGED detour
  BY <1>0, <1>2, DriveOut
<1>3. CASE /\ ~(detour.planned /\ ~detour.done)
           /\ \E x \in 0 .. speed : MoveTo(MoveToward(Current, leg[2], speed, x))
           /\ UNCHANGED detour
  BY <1>0, <1>3, DriveStraight
<1>. QED  BY <1>1, <1>2, <1>3 DEF Drive

-----------------------------------------------------------------------------
(* The theorems about the distances.                                       *)

LEMMA InitHolds ==
  DriveInit => DriveInv
<1>. SUFFICES ASSUME DriveInit PROVE DriveInv
  OBVIOUS
<1>1. /\ leg \in Legs /\ speed \in Speeds /\ total = 0 /\ ticks = 0 /\ sending = "no"
      /\ history = <<[coord |-> leg[1], at |-> 1]>> /\ rows = <<leg[1]>> /\ lost = 0
      /\ owner = [pc |-> "idle", distance |-> 0, updatedAt |-> 0, ahead |-> FALSE]
  BY DEF DriveInit
<1>2. /\ leg[1] \in Coordinate /\ leg[2] \in Coordinate /\ speed \in Nat \ {0}
      /\ Length \in Nat
  <2>1. leg \in Coordinate \X Coordinate /\ speed \in Nat \ {0}
    BY <1>1, DrivingAssumption
  <2>. QED  BY <2>1, DistanceNat DEF Length
<1>3. \/ detour = [planned |-> FALSE, done |-> FALSE, point |-> leg[1]]
      \/ \E p \in Points(leg[1], leg[2], speed) :
           detour = [planned |-> TRUE, done |-> FALSE, point |-> p]
  BY DEF DriveInit, Points
<1>4. DetourOK /\ ~detour.done
  BY <1>3 DEF DetourOK
<1>5. \A p \in Points(leg[1], leg[2], speed) :
        p \in Coordinate /\ PastPoint(leg[1], leg[2], p) \in Nat
  <2>. SUFFICES ASSUME NEW p \in Points(leg[1], leg[2], speed)
                PROVE  p \in Coordinate /\ PastPoint(leg[1], leg[2], p) \in Nat
    OBVIOUS
  <2>1. PICK a, b, s : a = leg[1] /\ b = leg[2] /\ s = speed
    OBVIOUS
  <2>2. IsDetour(a, b, s, p)
    BY <1>2, <2>1, DetourPoint
  <2>. QED  BY <2>1, <2>2 DEF IsDetour
<1>6. detour \in [planned : BOOLEAN, done : BOOLEAN, point : Coordinate]
  <2>1. PICK p \in Coordinate, b \in BOOLEAN :
          detour = [planned |-> b, done |-> FALSE, point |-> p]
    BY <1>2, <1>3, <1>5
  <2>. QED  BY <2>1
<1>7. Astray \in Nat /\ (~detour.planned => Astray = 0)
  <2>1. CASE detour.planned
    <3>1. Overshoot = PastPoint(leg[1], leg[2], detour.point)
      BY Zenon DEF Overshoot, PastPoint, Past
    <3>2. detour.point \in Points(leg[1], leg[2], speed)
      BY <1>4, <2>1 DEF DetourOK
    <3>. QED  BY <1>2, <1>5, <2>1, <3>1, <3>2 DEF Astray
  <2>2. CASE ~detour.planned
    BY <2>2 DEF Astray
  <2>. QED  BY <2>1, <2>2
<1>8. /\ history \in Seq(Entry) /\ Len(history) = 1 /\ history # <<>>
      /\ history[1] = [coord |-> leg[1], at |-> 1]
      /\ DOMAIN history = {1}
  <2>1. [coord |-> leg[1], at |-> 1] \in Entry
    BY <1>2 DEF Entry
  <2>. QED  BY <1>1, <2>1
<1>9. Current = leg[1] /\ Last(history).at = 1
  BY <1>8 DEF Current, Last
<1>10. rows \in Seq(Coordinate) /\ Len(rows) = 1 /\ rows[1] = leg[1] /\ DOMAIN rows = {1}
  BY <1>1, <1>2
<1>11. DriveTypeOK
  <2>1. lost \in 0 .. MaxLost
    BY <1>1, DrivingAssumption
  <2>2. \A i \in DOMAIN history : DistanceTo(history[i].coord, leg[2]) <= Length + Astray
    BY <1>2, <1>7, <1>8 DEF Length
  <2>. QED  BY <1>1, <1>6, <1>8, <1>10, <2>1, <2>2 DEF DriveTypeOK, Entry
<1>12. ticks * speed = 0 /\ (ticks - 1) * speed < 0
  BY <1>1, <1>2
<1>13. OutOK
  <2>. SUFFICES ASSUME detour.planned
                PROVE  LET way == DistanceTo(leg[1], detour.point) IN
                       /\ 0 <= way /\ way = way - 0
                       /\ DistanceTo(leg[1], leg[1]) + way = way
    BY <1>9, <1>12 DEF OutOK
  <2>. QED  BY <1>2, <1>6, DistanceNat
<1>14. BackOK
  <2>. SUFFICES ASSUME ~detour.planned, Length > 0
                PROVE  DistanceTo(leg[1], leg[2]) =
                         IF 0 < Needed THEN Needed - 0 ELSE 0
    <3>1. detour.planned \in BOOLEAN
      BY <1>6
    <3>2. Needed = Length + 2 * Astray
      BY DEF Needed
    <3>3. ~detour.planned => Needed = Length
      BY <1>2, <1>7, <3>2
    <3>4. ~detour.planned /\ Length > 0 => (ticks - 1) * speed < Needed
      <4>1. PICK k : k = (ticks - 1) * speed /\ k \in Int
        BY <1>1, <1>2
      <4>. QED  BY <1>2, <1>12, <3>3, <4>1
    <3>. QED  BY <1>4, <1>9, <1>12, <3>1, <3>4 DEF BackOK
  <2>1. Needed = DistanceTo(leg[1], leg[2])
    BY <1>2, <1>7 DEF Needed, Length
  <2>. QED  BY <1>2, <2>1 DEF Length
<1>15. StraightOK
  BY <1>1, <1>2, <1>12 DEF StraightOK
<1>16. HistoryOK
  BY <1>1, <1>8, <1>10 DEF HistoryOK
<1>17. \A S : WayAlong(leg[1], <<leg[1]>>, S).length = 0
  <2>. SUFFICES ASSUME NEW S PROVE WayAlong(leg[1], <<leg[1]>>, S).length = 0
    OBVIOUS
  <2>1. PICK c \in Coordinate : c = leg[1]
    BY <1>2
  <2>2. WayAlong(c, <<c>>, S) = [length |-> 0, end |-> c]
    BY ShortestWay
  <2>. QED  BY <2>1, <2>2
<1>18. RowsOK
  <2>1. Coords = <<leg[1]>>
    <3>1. Coords \in Seq(Coordinate) /\ Len(Coords) = 1 /\ Coords[1] = leg[1]
      BY <1>8, CoordsType DEF Coords
    <3>2. <<leg[1]>> \in Seq(Coordinate) /\ Len(<<leg[1]>>) = 1 /\ <<leg[1]>>[1] = leg[1]
      BY <1>2
    <3>3. \A i \in 1 .. 1 : i = 1
      OBVIOUS
    <3>. QED  BY <3>1, <3>2, <3>3, SeqEqual
  <2>2. TotalDistance = 0
    BY <1>1, <1>10, <1>17 DEF TotalDistance
  <2>3. total = WayAlong(leg[1], Coords, DOMAIN history).length
    BY <1>1, <1>17, <2>1
  <2>. QED  BY <1>1, <1>9, <1>10, <2>2, <2>3 DEF RowsOK
<1>19. PositionsKnown /\ AuditOK
  BY <1>1, <1>9, <1>10 DEF PositionsKnown, AuditOK
<1>. QED  BY <1>4, <1>11, <1>13, <1>14, <1>15, <1>16, <1>18, <1>19 DEF DriveInv

\* The invariant of the chair's way, its history and the rows (chair.go:98,
\* chair_routes.go:60) is kept by whatever the chair, the network and the owner do.
THEOREM DriveInvariant == Spec => []DriveInv
<1>1. Init => DriveInv
  BY InitHolds DEF Init
<1>2. DriveInv /\ [Next]_auditVars => DriveInv'
  <2>. SUFFICES ASSUME DriveInv, [Next]_auditVars PROVE DriveInv'
    OBVIOUS
  <2>1. DriveNext \/ UNCHANGED driveVars
    BY DEF Next, auditVars
  <2>2. CASE Drive
    BY <2>2, DriveStep
  <2>3. CASE ~Drive
    BY <2>1, <2>3, OtherSteps
  <2>. QED  BY <2>2, <2>3
<1>. QED  BY <1>1, <1>2, PTL DEF Spec

\* A position the server may list is one the chair is at or has had the answer
\* for, whatever was lost on the way (world.go:356, chair_routes.go:119).
THEOREM ListedPositionsAreKnown == Spec => []PositionsKnown
<1>1. DriveInv => PositionsKnown
  BY DEF DriveInv
<1>. QED  BY <1>1, DriveInvariant, PTL

\* A chair arrives in the tick its way and its detour call for, whatever is drawn
\* for its moves, on every leg and at every speed (chair.go:156).
THEOREM ArrivesWhateverIsDrawn == Spec => []ArrivesInTime
<1>1. DriveInv => ArrivesInTime
  <2>. SUFFICES ASSUME DriveInv PROVE ArrivesInTime
    OBVIOUS
  <2>. SUFFICES ASSUME Length > 0
                PROVE  Arrived <=> ticks = NeededTime(Needed, speed)
    BY DEF ArrivesInTime, DriveInv, StraightOK, Needed
  <2>1. /\ leg[1] \in Coordinate /\ leg[2] \in Coordinate /\ Current \in Coordinate
        /\ speed \in Nat \ {0} /\ Length \in Nat /\ ticks \in Nat
        /\ detour.planned \in BOOLEAN /\ detour.done \in BOOLEAN
    BY LegFacts, HistoryFacts DEF DriveInv, DriveTypeOK
  <2>2. /\ Needed \in Nat /\ Needed > 0 /\ Needed >= Length
        /\ detour.planned => Needed > Length
    BY <2>1, AstrayNat DEF DriveInv
  <2>3. ticks = NeededTime(Needed, speed) <=>
          ticks * speed >= Needed /\ (ticks - 1) * speed < Needed
    BY <2>1, <2>2, TicksNeeded
  <2>4. CASE detour.planned => detour.done
    <3>1. PICK run, far : run = ticks * speed /\ far = DistanceTo(Current, leg[2])
      OBVIOUS
    <3>2. /\ far = IF run < Needed THEN Needed - run ELSE 0
          /\ (ticks - 1) * speed < Needed
      BY <2>4, <3>1 DEF DriveInv, BackOK
    <3>3. run \in Nat /\ (ticks = 0 => run = 0)
      BY <2>1, <3>1
    <3>4. Current = leg[2] <=> far = 0
      BY <2>1, <3>1, DistanceNat
    <3>5. far = 0 <=> run >= Needed
      BY <2>2, <3>2, <3>3
    <3>6. run >= Needed => ticks > 0
      BY <2>1, <2>2, <3>3
    <3>. QED  BY <2>3, <3>1, <3>2, <3>4, <3>5, <3>6 DEF Arrived
  <2>5. CASE detour.planned /\ ~detour.done
    <3>1. Current # leg[2]
      <4>1. leg[1] # leg[2]
        BY <2>1, DistanceNat DEF Length
      <4>2. DistanceTo(leg[1], Current) + DistanceTo(Current, detour.point)
              = DistanceTo(leg[1], detour.point)
        BY <2>5 DEF DriveInv, OutOK
      <4>. QED  BY <2>1, <2>5, <4>1, <4>2, DetourFacts DEF DriveInv
    <3>2. ~(ticks * speed >= Needed)
      <4>1. PICK run, way : run = ticks * speed /\ way = DistanceTo(leg[1], detour.point)
        OBVIOUS
      <4>2. run \in Int /\ way \in Nat /\ run <= way /\ way <= Length
        <5>1. run \in Int
          BY <2>1, <4>1
        <5>2. way \in Nat /\ way <= Length
          BY <2>5, <4>1, DetourFacts DEF DriveInv
        <5>3. run <= way
          BY <2>5, <4>1 DEF DriveInv, OutOK
        <5>. QED  BY <5>1, <5>2, <5>3
      <4>. QED  BY <2>1, <2>2, <2>5, <4>1, <4>2
    <3>. QED  BY <2>3, <3>1, <3>2 DEF Arrived
  <2>. QED  BY <2>1, <2>4, <2>5
<1>. QED  BY <1>1, DriveInvariant, PTL

\* The distance the server sums up is the chair's, with the last move or without,
\* however often a row was repeated (owner_handlers.go:197, chair_routes.go:60).
THEOREM DistancesAlwaysAgree == Spec => []DistancesAgree
<1>1. DriveInv => DistancesAgree
  <2>. SUFFICES ASSUME DriveInv PROVE DistancesAgree
    OBVIOUS
  <2>1. TravelDistanceUntil(Len(rows)) = Answered
    BY AnsweredIsSent DEF DriveInv
  <2>2. TotalDistance \in {total, Answered} /\ (sending # "due" => TotalDistance = total)
    BY DEF DriveInv, RowsOK
  <2>. QED  BY <2>1, <2>2 DEF DistancesAgree
<1>. QED  BY <1>1, DriveInvariant, PTL

\* The audit rejects a distance only in the one race its two comparisons leave
\* open (owner.go:240).
THEOREM DistanceAuditFair == Spec => []DistanceAuditIsFair
<1>1. DriveInv => DistanceAuditIsFair
  <2>. SUFFICES ASSUME DriveInv, owner.pc = "rejected" PROVE owner.ahead
    BY DEF DistanceAuditIsFair
  <2>1. owner.ahead \in BOOLEAN
    BY DEF DriveInv, DriveTypeOK
  <2>. QED  BY <2>1 DEF DriveInv, AuditOK
<1>. QED  BY <1>1, DriveInvariant, PTL

-----------------------------------------------------------------------------
(* Sums of sales: the same sum in whatever order it is taken.              *)

SumOfSales(S) == MapThenSumSet(LAMBDA r : Sale[r], S)

Chosen(s) == CHOOSE r \in s : TRUE
Summed(v, s) == IF s = {} THEN 0 ELSE Sale[Chosen(s)] + v[s \ {Chosen(s)}]
Small(S, n) == {s \in SUBSET S : Cardinality(s) <= n}
IsSum(v, S, n) == v = [s \in Small(S, n) |-> Summed(v, s)]

LEMMA SaleNat ==
  ASSUME NEW r \in Rides
  PROVE  Sale[r] \in Nat
BY SalesAssumption

LEMMA Smaller ==
  ASSUME NEW S \in SUBSET Rides, NEW r \in S
  PROVE  /\ IsFiniteSet(S) /\ Cardinality(S) \in Nat /\ Cardinality(S) > 0
         /\ S \ {r} \in SUBSET Rides
         /\ Cardinality(S \ {r}) \in Nat /\ Cardinality(S \ {r}) = Cardinality(S) - 1
<1>1. IsFiniteSet(S)
  BY SalesAssumption, FS_Subset
<1>2. IsFiniteSet(S \ {r}) /\ Cardinality(S \ {r}) = Cardinality(S) - 1
  BY <1>1, FS_RemoveElement
<1>3. Cardinality(S) \in Nat /\ Cardinality(S \ {r}) \in Nat
  BY <1>1, <1>2, FS_CardinalityType
<1>. QED  BY <1>1, <1>2, <1>3

LEMMA Sizes ==
  ASSUME NEW S \in SUBSET Rides
  PROVE  /\ IsFiniteSet(S) /\ Cardinality(S) \in Nat
         /\ \A s \in SUBSET S : Cardinality(s) \in Nat /\ Cardinality(s) <= Cardinality(S)
<1>1. IsFiniteSet(S)
  BY SalesAssumption, FS_Subset
<1>. QED  BY <1>1, FS_Subset, FS_CardinalityType

LEMMA ChosenOne ==
  ASSUME NEW s, s # {}
  PROVE  Chosen(s) \in s
BY DEF Chosen

LEMMA SumExists ==
  ASSUME NEW S \in SUBSET Rides
  PROVE  \A n \in Nat : \E v \in [Small(S, n) -> Nat] : IsSum(v, S, n)
<1> DEFINE Bad == {n \in Nat : ~\E v \in [Small(S, n) -> Nat] : IsSum(v, S, n)}
<1>. SUFFICES ASSUME Bad # {} PROVE FALSE
  OBVIOUS
<1>1. PICK k \in Bad : \A m \in Bad : k <= m
  <2>1. Bad \in SUBSET Nat
    OBVIOUS
  <2>. HIDE DEF Bad
  <2>. QED  BY <2>1, LeastNumber
<1>2. k \in Nat
  OBVIOUS
<1>3. ASSUME NEW n \in Nat, NEW s \in Small(S, n), s # {}
      PROVE  /\ Chosen(s) \in s /\ Sale[Chosen(s)] \in Nat /\ n > 0
             /\ s \ {Chosen(s)} \in Small(S, n - 1)
  <2>1. s \in SUBSET Rides /\ s \in SUBSET S /\ Cardinality(s) <= n
    BY DEF Small
  <2>2. Chosen(s) \in s
    BY <1>3, ChosenOne
  <2>3. /\ Cardinality(s) \in Nat /\ Cardinality(s) > 0
        /\ Cardinality(s \ {Chosen(s)}) = Cardinality(s) - 1
    BY <2>1, <2>2, Smaller
  <2>4. Sale[Chosen(s)] \in Nat
    BY <2>1, <2>2, SaleNat
  <2>5. Cardinality(s \ {Chosen(s)}) <= n - 1
    BY <2>1, <2>3
  <2>6. s \ {Chosen(s)} \in SUBSET S
    BY <2>1
  <2>. QED  BY <2>1, <2>2, <2>3, <2>4, <2>5, <2>6 DEF Small
<1>4. CASE k = 0
  <2>1. \A s \in Small(S, 0) : s = {}
    <3>. SUFFICES ASSUME NEW s \in Small(S, k), s # {} PROVE FALSE
      BY <1>4
    <3>1. k > 0
      BY <1>2, <1>3
    <3>. QED  BY <1>4, <3>1
  <2> DEFINE w == [s \in Small(S, 0) |-> 0]
  <2>2. w \in [Small(S, 0) -> Nat]
    OBVIOUS
  <2>3. IsSum(w, S, 0)
    BY <2>1 DEF IsSum, Summed
  <2>. QED  BY <1>4, <2>2, <2>3
<1>5. CASE k # 0
  <2>1. k - 1 \in Nat /\ k - 1 \notin Bad
    BY <1>1, <1>2, <1>5
  <2>2. PICK v \in [Small(S, k - 1) -> Nat] : IsSum(v, S, k - 1)
    BY <2>1
  <2> DEFINE w == [s \in Small(S, k) |-> Summed(v, s)]
  <2>3. w \in [Small(S, k) -> Nat]
    <3>1. ASSUME NEW s \in Small(S, k)
          PROVE  Summed(v, s) \in Nat
      <4>1. CASE s = {}
        BY <4>1 DEF Summed
      <4>2. CASE s # {}
        <5>1. Sale[Chosen(s)] \in Nat /\ v[s \ {Chosen(s)}] \in Nat
          BY <1>2, <1>3, <2>2, <4>2
        <5>. QED  BY <4>2, <5>1 DEF Summed
      <4>. QED  BY <4>1, <4>2
    <3>. QED  BY <3>1
  <2>4. ASSUME NEW s \in Small(S, k - 1)
        PROVE  s \in Small(S, k) /\ w[s] = v[s]
    <3>1. s \in Small(S, k)
      <4>1. Cardinality(s) \in Nat /\ Cardinality(s) <= k - 1 /\ s \in SUBSET S
        BY Sizes DEF Small
      <4>. QED  BY <1>2, <4>1 DEF Small
    <3>2. v[s] = Summed(v, s)
      BY <2>2 DEF IsSum
    <3>. QED  BY <3>1, <3>2
  <2>5. ASSUME NEW s \in Small(S, k)
        PROVE  Summed(v, s) = Summed(w, s)
    <3>1. CASE s = {}
      BY <3>1 DEF Summed
    <3>2. CASE s # {}
      <4>1. s \ {Chosen(s)} \in Small(S, k - 1)
        BY <1>2, <1>3, <3>2
      <4>2. w[s \ {Chosen(s)}] = v[s \ {Chosen(s)}]
        BY <2>4, <4>1
      <4>. HIDE DEF w
      <4>. QED  BY <4>2 DEF Summed
    <3>. QED  BY <3>1, <3>2
  <2>6. IsSum(w, S, k)
    BY <2>5 DEF IsSum
  <2>. QED  BY <2>3, <2>6
<1>. QED  BY <1>4, <1>5

LEMMA SumUnique ==
  ASSUME NEW S \in SUBSET Rides, NEW T \in SUBSET Rides, NEW m \in Nat, NEW n \in Nat,
         NEW v, IsSum(v, S, m), NEW w, IsSum(w, T, n)
  PROVE  \A s \in Small(S, m) \cap Small(T, n) : v[s] = w[s]
<1> DEFINE Both == Small(S, m) \cap Small(T, n)
           Bad == {i \in Nat : \E s \in Both : Cardinality(s) = i /\ v[s] # w[s]}
<1>1. ASSUME NEW s \in Both
      PROVE  s \in SUBSET Rides /\ Cardinality(s) \in Nat
  BY Sizes DEF Small
<1>. SUFFICES ASSUME Bad # {} PROVE FALSE
  BY <1>1
<1>2. PICK i \in Bad : \A j \in Bad : i <= j
  <2>1. Bad \in SUBSET Nat
    OBVIOUS
  <2>. HIDE DEF Bad
  <2>. QED  BY <2>1, LeastNumber
<1>3. PICK s \in Both : Cardinality(s) = i /\ v[s] # w[s]
  BY <1>2
<1>4. v[s] = Summed(v, s) /\ w[s] = Summed(w, s)
  BY <1>3 DEF IsSum
<1>5. s # {}
  BY <1>3, <1>4 DEF Summed
<1> DEFINE t == s \ {Chosen(s)}
<1>6. Cardinality(t) \in Nat /\ Cardinality(t) = i - 1 /\ i \in Nat
  BY <1>1, <1>3, <1>5, ChosenOne, Smaller
<1>7. t \in Both
  <2>1. t \in SUBSET S /\ t \in SUBSET T /\ i <= m /\ i <= n
    BY <1>3 DEF Small
  <2>2. i - 1 <= m /\ i - 1 <= n
    BY <1>6, <2>1
  <2>. QED  BY <1>6, <2>1, <2>2 DEF Small
<1>8. v[t] = w[t]
  <2>1. i - 1 \notin Bad /\ i - 1 \in Nat
    BY <1>2, <1>6
  <2>. HIDE DEF t, Both
  <2>. QED  BY <1>6, <1>7, <2>1
<1>9. Summed(v, s) = Summed(w, s)
  BY <1>5, <1>8 DEF Summed
<1>. QED  BY <1>3, <1>4, <1>9

LEMMA SumOf ==
  ASSUME NEW S \in SUBSET Rides
  PROVE  \E v \in [Small(S, Cardinality(S)) -> Nat] :
           IsSum(v, S, Cardinality(S)) /\ SumOfSales(S) = v[S]
<1> DEFINE n == Cardinality(S)
           w == CHOOSE v : IsSum(v, S, n)
<1>0. n \in Nat /\ Small(S, n) = SUBSET S
  BY Sizes DEF Small
<1>1. PICK v \in [Small(S, n) -> Nat] : IsSum(v, S, n)
  BY <1>0, SumExists
<1>2. IsSum(w, S, n)
  BY <1>1
<1>3. SumOfSales(S) = w[S]
  <2>1. w = CHOOSE v1 : v1 = [s \in SUBSET S |-> Summed(v1, s)]
    BY <1>0 DEF IsSum
  <2>. HIDE DEF w
  <2>. QED  BY <2>1 DEF SumOfSales, MapThenSumSet, MapThenFoldSet, Summed, Chosen
<1>4. w \in [Small(S, n) -> Nat]
  <2>. HIDE DEF w
  <2>1. \A s \in Small(S, n) : w[s] = v[s]
    BY <1>0, <1>1, <1>2, SumUnique
  <2>2. w = [s \in Small(S, n) |-> w[s]]
    BY <1>2 DEF IsSum
  <2>. QED  BY <1>1, <2>1, <2>2
<1>. QED  BY <1>2, <1>3, <1>4

LEMMA SumStep ==
  /\ SumOfSales({}) = 0
  /\ \A S \in SUBSET Rides :
       /\ SumOfSales(S) \in Nat
       /\ S # {} => SumOfSales(S) = Sale[Chosen(S)] + SumOfSales(S \ {Chosen(S)})
<1>1. ASSUME NEW S \in SUBSET Rides
      PROVE  SumOfSales(S) \in Nat
  <2>1. S \in Small(S, Cardinality(S))
    BY Sizes DEF Small
  <2>. QED  BY <2>1, SumOf
<1>2. SumOfSales({}) = 0
  <2>1. PICK S \in SUBSET Rides : S = {}
    OBVIOUS
  <2>2. PICK v : IsSum(v, S, Cardinality(S)) /\ SumOfSales(S) = v[S]
    BY SumOf
  <2>3. S \in Small(S, Cardinality(S))
    BY Sizes DEF Small
  <2>4. v[S] = Summed(v, S)
    BY <2>2, <2>3 DEF IsSum
  <2>. QED  BY <2>1, <2>2, <2>4 DEF Summed
<1>3. ASSUME NEW S \in SUBSET Rides, S # {}
      PROVE  SumOfSales(S) = Sale[Chosen(S)] + SumOfSales(S \ {Chosen(S)})
  <2>1. PICK T : T = S \ {Chosen(S)}
    OBVIOUS
  <2>2. T \in SUBSET Rides /\ T \in SUBSET S
    BY <2>1
  <2>3. /\ Cardinality(S) \in Nat /\ Cardinality(T) \in Nat
        /\ S \in Small(S, Cardinality(S)) /\ T \in Small(S, Cardinality(S))
        /\ T \in Small(T, Cardinality(T))
    BY <2>2, Sizes DEF Small
  <2>4. PICK v : IsSum(v, S, Cardinality(S)) /\ SumOfSales(S) = v[S]
    BY SumOf
  <2>5. PICK w : IsSum(w, T, Cardinality(T)) /\ SumOfSales(T) = w[T]
    BY <2>2, SumOf
  <2>6. v[T] = w[T]
    BY <2>2, <2>3, <2>4, <2>5, SumUnique
  <2>7. v[S] = Summed(v, S)
    BY <2>3, <2>4 DEF IsSum
  <2>. QED  BY <1>3, <2>1, <2>4, <2>5, <2>6, <2>7 DEF Summed
<1>. QED  BY <1>1, <1>2, <1>3

\* Whichever ride is taken first, the sum is the same.
LEMMA SumAdd ==
  ASSUME NEW S \in SUBSET Rides, NEW r \in S
  PROVE  SumOfSales(S) = Sale[r] + SumOfSales(S \ {r})
<1> DEFINE Adds(s) == \A x \in s : SumOfSales(s) = Sale[x] + SumOfSales(s \ {x})
           Bad == {n \in Nat : \E s \in SUBSET Rides : Cardinality(s) = n /\ ~Adds(s)}
<1>. SUFFICES ASSUME Bad # {} PROVE FALSE
  <2>. SUFFICES ASSUME Bad = {} PROVE Adds(S)
    OBVIOUS
  <2>1. Cardinality(S) \in Nat
    BY Sizes
  <2>. QED  BY <2>1
<1>1. PICK n \in Bad : \A m \in Bad : n <= m
  <2>1. Bad \in SUBSET Nat
    OBVIOUS
  <2>. HIDE DEF Bad
  <2>. QED  BY <2>1, LeastNumber
<1>2. PICK s, x :
        /\ s \in SUBSET Rides /\ x \in s /\ Cardinality(s) = n
        /\ SumOfSales(s) # Sale[x] + SumOfSales(s \ {x})
  BY <1>1
<1>3. PICK y \in s : y = Chosen(s)
  BY <1>2, ChosenOne
<1>4. SumOfSales(s) = Sale[y] + SumOfSales(s \ {y})
  <2>1. s # {}
    BY <1>2
  <2>. QED  BY <1>2, <1>3, <2>1, SumStep
<1>5. x # y
  BY <1>2, <1>4
<1>6. ASSUME NEW t \in SUBSET Rides, NEW z \in t, Cardinality(t) \in Nat,
             Cardinality(t) = n - 1
      PROVE  SumOfSales(t) = Sale[z] + SumOfSales(t \ {z})
  <2>1. Cardinality(t) \notin Bad
    <3>1. n \in Nat /\ ~(n <= n - 1)
      OBVIOUS
    <3>. HIDE DEF Bad
    <3>. QED  BY <1>1, <1>6, <3>1
  <2>2. Adds(t)
    BY <1>6, <2>1
  <2>. QED  BY <2>2
<1>. HIDE DEF Adds, Bad
<1>7. /\ s \ {x} \in SUBSET Rides /\ s \ {y} \in SUBSET Rides
      /\ Cardinality(s \ {x}) \in Nat /\ Cardinality(s \ {x}) = n - 1
      /\ Cardinality(s \ {y}) \in Nat /\ Cardinality(s \ {y}) = n - 1
      /\ y \in s \ {x} /\ x \in s \ {y}
  BY <1>2, <1>5, Smaller
<1>8. PICK rest : rest = (s \ {x}) \ {y} /\ rest = (s \ {y}) \ {x} /\ rest \in SUBSET Rides
  <2>1. (s \ {x}) \ {y} = (s \ {y}) \ {x} /\ (s \ {x}) \ {y} \in SUBSET Rides
    BY <1>2
  <2>. QED  BY <2>1
<1>9. SumOfSales(s \ {x}) = Sale[y] + SumOfSales(rest)
  BY <1>6, <1>7, <1>8
<1>10. SumOfSales(s \ {y}) = Sale[x] + SumOfSales(rest)
  BY <1>6, <1>7, <1>8
<1>11. Sale[x] \in Nat /\ Sale[y] \in Nat /\ SumOfSales(rest) \in Nat
  <2>1. x \in Rides /\ y \in Rides
    BY <1>2
  <2>. QED  BY <1>8, <2>1, SaleNat, SumStep
<1>. QED  BY <1>2, <1>4, <1>9, <1>10, <1>11

\* More rides, no less sales.
LEMMA SumMonotonic ==
  ASSUME NEW T \in SUBSET Rides, NEW S \in SUBSET T
  PROVE  SumOfSales(S) <= SumOfSales(T) /\ SumOfSales(S) \in Nat /\ SumOfSales(T) \in Nat
<1> DEFINE Less(t) == S \subseteq t /\ ~(SumOfSales(S) <= SumOfSales(t))
           Bad == {n \in Nat : \E t \in SUBSET Rides : Cardinality(t) = n /\ Less(t)}
<1>0. SumOfSales(S) \in Nat /\ SumOfSales(T) \in Nat
  BY SumStep
<1>. SUFFICES ASSUME Bad # {} PROVE FALSE
  <2>. SUFFICES ASSUME Bad = {} PROVE ~Less(T)
    BY <1>0
  <2>1. Cardinality(T) \in Nat
    BY Sizes
  <2>. QED  BY <2>1
<1>1. PICK n \in Bad : \A m \in Bad : n <= m
  <2>1. Bad \in SUBSET Nat
    OBVIOUS
  <2>. HIDE DEF Bad
  <2>. QED  BY <2>1, LeastNumber
<1>2. PICK t \in SUBSET Rides :
        /\ Cardinality(t) = n /\ S \subseteq t /\ ~(SumOfSales(S) <= SumOfSales(t))
  BY <1>1
<1>3. S # t
  BY <1>0, <1>2
<1>4. PICK r \in t : r \notin S
  BY <1>2, <1>3
<1>5. PICK u \in SUBSET Rides : u = t \ {r}
  OBVIOUS
<1>6. Cardinality(u) \in Nat /\ Cardinality(u) = n - 1 /\ S \subseteq u
  BY <1>2, <1>4, <1>5, Smaller
<1>7. SumOfSales(S) <= SumOfSales(u)
  <2>1. Cardinality(u) \notin Bad
    <3>1. n \in Nat /\ ~(n <= n - 1)
      OBVIOUS
    <3>. HIDE DEF Bad
    <3>. QED  BY <1>1, <1>6, <3>1
  <2>. QED  BY <1>6, <2>1
<1>. HIDE DEF Less, Bad
<1>8. SumOfSales(t) = Sale[r] + SumOfSales(u)
  BY <1>4, <1>5, SumAdd
<1>9. Sale[r] \in Nat /\ SumOfSales(u) \in Nat
  BY <1>4, SaleNat, SumStep
<1>. QED  BY <1>0, <1>2, <1>7, <1>8, <1>9

\* What the audit compares.
LEMMA TotalMonotonic ==
  ASSUME NEW T \in SUBSET Rides, NEW S \in SUBSET T, NEW group
  PROVE  ~(Total(S, group) > Total(T, group))
<1>1. PICK s, t : s = S \cap group /\ t = T \cap group
  OBVIOUS
<1>2. t \in SUBSET Rides /\ s \in SUBSET t
  BY <1>1
<1>3. SumOfSales(s) <= SumOfSales(t) /\ SumOfSales(s) \in Nat /\ SumOfSales(t) \in Nat
  BY <1>2, SumMonotonic
<1>4. Total(S, group) = SumOfSales(s) /\ Total(T, group) = SumOfSales(t)
  BY <1>1 DEF Total, SumOfSales
<1>. QED  BY <1>3, <1>4

-----------------------------------------------------------------------------
(* The audit of the sales.                                                 *)

\* Rides do not leave the list of the owner, nor change their time once they are
\* completed, so that what the copy called for is in the server's sum.
SalesOK ==
  LET counted == {r \in Rides : Ms(ride[r].at) <= audit.until} IN
  /\ audit.pc \in {"copied", "served"} => audit.copy \subseteq In({"known"})
  /\ audit.pc = "served" =>
       /\ audit.served \subseteq In({"completed", "known"}) \cap counted
       /\ audit.copy \cap counted \subseteq audit.served

SalesInv == SalesTypeOK /\ SalesOK

LEMMA Halves ==
  ASSUME NEW t \in Nat, NEW u \in Nat
  PROVE  Ms(t) \in Nat /\ (Ms(t) <= u <=> t <= PeriodEnds(u))
BY DEF Ms, PeriodEnds

\* A finite set of times has a last one.
LEMMA LastTime ==
  ASSUME NEW S \in SUBSET (0 .. Ms(MaxTime)), S # {}
  PROVE  Max(S) \in S /\ \A t \in S : t <= Max(S)
<1> DEFINE top == Ms(MaxTime)
           Left == {n \in Nat : \E t \in S : t + n = top}
<1>1. top \in Nat
  BY SalesAssumption DEF Ms
<1>. HIDE DEF top
<1>2. \A t \in S : t \in Nat /\ top - t \in Nat /\ t + (top - t) = top
  BY <1>1 DEF top
<1>3. Left # {}
  BY <1>2
<1>4. PICK k \in Left : \A n \in Left : k <= n
  <2>1. Left \in SUBSET Nat
    OBVIOUS
  <2>. HIDE DEF Left
  <2>. QED  BY <1>3, <2>1, LeastNumber
<1>5. PICK t \in S : t + k = top
  OBVIOUS
<1>6. ASSUME NEW u \in S
      PROVE  t >= u
  <2>1. top - u \in Left
    BY <1>2
  <2>2. k <= top - u /\ k \in Nat
    BY <1>4, <2>1
  <2>. HIDE DEF Left
  <2>. QED  BY <1>1, <1>2, <1>5, <2>2
<1>7. Max(S) \in S /\ \A u \in S : Max(S) >= u
  BY <1>5, <1>6 DEF Max
<1>. HIDE DEF Left
<1>. QED  BY <1>2, <1>7

Phases == {"arrived", "paying", "completed", "known"}

LEMMA SalesFacts ==
  ASSUME SalesTypeOK
  PROVE  /\ \A r \in Rides : /\ ride[r].phase \in Phases /\ ride[r].at \in 0 .. MaxTime
                             /\ Ms(ride[r].at) \in 0 .. Ms(MaxTime)
                             /\ \A u \in Nat : Ms(ride[r].at) <= u <=> ride[r].at <= PeriodEnds(u)
         /\ audit.until \in Nat /\ now \in 0 .. MaxTime
<1>1. MaxTime \in Nat
  BY SalesAssumption
<1>2. ASSUME NEW r \in Rides
      PROVE  ride[r].phase \in Phases /\ ride[r].at \in 0 .. MaxTime
  BY DEF SalesTypeOK, Phases
<1>3. audit.until \in Nat /\ now \in 0 .. MaxTime
  <2>1. audit.until \in 0 .. Ms(MaxTime)
    BY DEF SalesTypeOK
  <2>. QED  BY <2>1 DEF SalesTypeOK
<1>4. \A t \in 0 .. MaxTime : t \in Nat /\ Ms(t) \in 0 .. Ms(MaxTime)
  BY <1>1 DEF Ms
<1>. QED  BY <1>2, <1>3, <1>4, Halves

\* A ride's step: from its phase to the next, and its time only before the commit.
RideStep(r, from, to, at) ==
  /\ ride[r].phase = from
  /\ ride' = [ride EXCEPT ![r] = [phase |-> to, at |-> at]]
  /\ from = "completed" => at = ride[r].at
  /\ UNCHANGED audit

LEMMA RideStepKeeps ==
  ASSUME SalesInv, NEW r \in Rides, NEW from, NEW to \in Phases, NEW at \in 0 .. MaxTime,
         RideStep(r, from, to, at), from # "known", from = "completed" => to = "known",
         now' = now
  PROVE  SalesInv'
<1>1. /\ ride \in [Rides -> [phase : Phases, at : 0 .. MaxTime]]
      /\ ride' = [ride EXCEPT ![r] = [phase |-> to, at |-> at]] /\ audit' = audit
  BY DEF SalesInv, SalesTypeOK, Phases, RideStep
<1>2. ride' \in [Rides -> [phase : Phases, at : 0 .. MaxTime]]
  BY <1>1
<1>3. SalesTypeOK'
  BY <1>1, <1>2 DEF SalesInv, SalesTypeOK, Phases
<1>4. ride'[r] = [phase |-> to, at |-> at] /\ \A s \in Rides : s # r => ride'[s] = ride[s]
  BY <1>1
<1>5. \A s \in Rides : ride[s].phase = "known" => ride'[s] = ride[s]
  BY <1>4 DEF RideStep
<1>6. \A s \in Rides : ride[s].phase \in {"completed", "known"} =>
        ride'[s].phase \in {"completed", "known"} /\ ride'[s].at = ride[s].at
  <2>1. ASSUME ride[r].phase \in {"completed", "known"}
        PROVE  ride'[r].phase \in {"completed", "known"} /\ ride'[r].at = ride[r].at
    <3>1. from = "completed" /\ at = ride[r].at /\ to = "known"
      BY <2>1 DEF RideStep
    <3>. QED  BY <1>4, <3>1
  <2>. QED  BY <1>4, <2>1
<1>7. In({"known"}) \subseteq In({"known"})'
  BY <1>5 DEF In
<1>8. SalesOK'
  <2> DEFINE counted == {s \in Rides : Ms(ride[s].at) <= audit.until}
             later == {s \in Rides : Ms(ride'[s].at) <= audit.until}
  <2>1. audit.pc \in {"copied", "served"} =>
          audit.copy \subseteq In({"known"}) /\ audit.copy \subseteq In({"known"})'
    BY <1>7 DEF SalesInv, SalesOK
  <2>2. In({"completed", "known"}) \cap counted
          \subseteq {s \in Rides : ride'[s].phase \in {"completed", "known"}} \cap later
    BY <1>6 DEF In
  <2>3. In({"known"}) \cap later \subseteq In({"known"}) \cap counted
    BY <1>5 DEF In
  <2>4. ASSUME audit.pc = "served"
        PROVE  /\ audit.served \subseteq {s \in Rides : ride'[s].phase \in {"completed", "known"}} \cap later
               /\ audit.copy \cap later \subseteq audit.served
    <3>1. /\ audit.served \subseteq In({"completed", "known"}) \cap counted
          /\ audit.copy \cap counted \subseteq audit.served
      BY <2>4 DEF SalesInv, SalesOK
    <3>. HIDE DEF counted, later
    <3>. QED  BY <2>1, <2>2, <2>3, <2>4, <3>1
  <2>. QED  BY <1>1, <2>1, <2>4 DEF SalesOK, In
<1>. QED  BY <1>3, <1>8 DEF SalesInv

LEMMA EvaluationsKeep ==
  ASSUME SalesInv, NEW r \in Rides, Evaluate(r) \/ Rollback(r) \/ Commit(r) \/ Receive(r)
  PROVE  SalesInv'
<1>1. /\ ride \in [Rides -> [phase : Phases, at : 0 .. MaxTime]]
      /\ now \in 0 .. MaxTime /\ 0 \in 0 .. MaxTime
      /\ ride[r] \in [phase : Phases, at : 0 .. MaxTime]
  BY SalesAssumption DEF SalesInv, SalesTypeOK, Phases
<1>2. CASE Evaluate(r)
  <2>1. RideStep(r, "arrived", "paying", now) /\ now' = now
    BY <1>2 DEF Evaluate, RideStep
  <2>. QED  BY <1>1, <2>1, RideStepKeeps DEF Phases
<1>3. CASE Rollback(r)
  <2>1. RideStep(r, "paying", "arrived", 0) /\ now' = now
    BY <1>3 DEF Rollback, RideStep
  <2>. QED  BY <1>1, <2>1, RideStepKeeps DEF Phases
<1>4. CASE Commit(r)
  <2>1. [ride[r] EXCEPT !.phase = "completed"] = [phase |-> "completed", at |-> ride[r].at]
    BY <1>1
  <2>2. ride' = [ride EXCEPT ![r] = [phase |-> "completed", at |-> ride[r].at]]
    BY <1>4, <2>1 DEF Commit
  <2>3. RideStep(r, "paying", "completed", ride[r].at) /\ now' = now
    BY <1>4, <2>2 DEF Commit, RideStep
  <2>4. PICK at \in 0 .. MaxTime : at = ride[r].at
    BY <1>1
  <2>5. RideStep(r, "paying", "completed", at)
    BY <2>3, <2>4
  <2>. QED  BY <2>3, <2>5, RideStepKeeps DEF Phases
<1>5. CASE Receive(r)
  <2>1. [ride[r] EXCEPT !.phase = "known"] = [phase |-> "known", at |-> ride[r].at]
    BY <1>1
  <2>2. ride' = [ride EXCEPT ![r] = [phase |-> "known", at |-> ride[r].at]]
    BY <1>5, <2>1 DEF Receive
  <2>3. RideStep(r, "completed", "known", ride[r].at) /\ now' = now
    BY <1>5, <2>2 DEF Receive, RideStep
  <2>4. PICK at \in 0 .. MaxTime : at = ride[r].at
    BY <1>1
  <2>5. RideStep(r, "completed", "known", at)
    BY <2>3, <2>4
  <2>. QED  BY <2>3, <2>5, RideStepKeeps DEF Phases
<1>. QED  BY <1>2, <1>3, <1>4, <1>5

\* The owner's steps, which leave the rides as they are.
LEMMA OwnerKeeps ==
  ASSUME SalesInv, ChooseUntil \/ CopyList \/ Serve \/ ValidateSales
  PROVE  SalesInv'
<1> DEFINE Audit == [pc : {"idle", "chosen", "copied", "served", "accepted", "small", "large"},
                     until : 0 .. Ms(MaxTime), copy : SUBSET Rides, served : SUBSET Rides]
<1>1. ride' = ride /\ now' = now
  BY DEF ChooseUntil, CopyList, Serve, ValidateSales
<1>2. audit \in Audit
  BY DEF SalesInv, SalesTypeOK
<1>3. ASSUME audit' \in Audit
      PROVE  SalesTypeOK'
  BY <1>1, <1>3 DEF SalesInv, SalesTypeOK
<1>4. \A phases : In(phases)' = In(phases) /\ In(phases) \in SUBSET Rides
  BY <1>1 DEF In
<1>. HIDE DEF Audit
<1>5. CASE ChooseUntil
  <2> DEFINE S == {Ms(ride[r].at) : r \in In({"known"})}
  <2>1. S \in SUBSET (0 .. Ms(MaxTime)) /\ S # {}
    <3>1. \A r \in In({"known"}) : Ms(ride[r].at) \in 0 .. Ms(MaxTime)
      BY SalesFacts DEF In, SalesInv
    <3>2. In({"known"}) # {}
      BY <1>5 DEF ChooseUntil
    <3>. QED  BY <3>1, <3>2
  <2>. HIDE DEF S
  <2>2. Max(S) \in 0 .. Ms(MaxTime)
    BY <2>1, LastTime
  <2>3. audit' = [audit EXCEPT !.pc = "chosen", !.until = Max(S)]
    BY <1>5 DEF ChooseUntil, S
  <2>4. audit' \in Audit /\ audit'.pc = "chosen"
    BY <1>2, <2>2, <2>3 DEF Audit
  <2>5. SalesOK'
    BY <2>4 DEF SalesOK
  <2>. QED  BY <1>3, <2>4, <2>5 DEF SalesInv
<1>6. CASE CopyList
  <2>1. audit' = [audit EXCEPT !.pc = "copied", !.copy = In({"known"})]
    BY <1>6 DEF CopyList
  <2>2. audit' \in Audit /\ audit'.pc = "copied" /\ audit'.copy = In({"known"})
    BY <1>2, <1>4, <2>1 DEF Audit
  <2>3. SalesOK'
    BY <1>4, <2>2 DEF SalesOK
  <2>. QED  BY <1>3, <2>2, <2>3 DEF SalesInv
<1>7. CASE Serve
  <2> DEFINE sum == {r \in In({"completed", "known"}) : ride[r].at <= PeriodEnds(audit.until)}
             counted == {r \in Rides : Ms(ride[r].at) <= audit.until}
  <2>1. audit' = [audit EXCEPT !.pc = "served", !.served = sum] /\ audit.pc = "copied"
    BY <1>7 DEF Serve
  <2>2. sum = In({"completed", "known"}) \cap counted
    BY SalesFacts DEF In, SalesInv
  <2>3. audit.copy \subseteq In({"known"})
    BY <2>1 DEF SalesInv, SalesOK
  <2>4. In({"known"}) \subseteq In({"completed", "known"})
    BY DEF In
  <2>5. counted' = counted
    BY <1>1, <2>1
  <2>. HIDE DEF sum, counted
  <2>6. /\ audit' \in Audit /\ audit'.pc = "served" /\ audit'.copy = audit.copy
        /\ audit'.served = sum
    <3>1. sum \in SUBSET Rides
      BY <1>4, <2>2
    <3>. QED  BY <1>2, <2>1, <3>1 DEF Audit
  <2>7. /\ audit'.copy \subseteq In({"known"})'
        /\ audit'.served \subseteq In({"completed", "known"})' \cap counted'
        /\ audit'.copy \cap counted' \subseteq audit'.served
    BY <1>4, <2>2, <2>3, <2>4, <2>5, <2>6
  <2>8. SalesOK'
    BY <2>7 DEF SalesOK, counted
  <2>. QED  BY <1>3, <2>6, <2>8 DEF SalesInv
<1>8. CASE ValidateSales
  <2>1. PICK pc \in {"small", "large", "accepted"} : audit' = [audit EXCEPT !.pc = pc]
    BY <1>8 DEF ValidateSales
  <2>2. audit' \in Audit /\ audit'.pc = pc
    BY <1>2, <2>1 DEF Audit
  <2>3. SalesOK'
    BY <2>2 DEF SalesOK
  <2>. QED  BY <1>3, <2>2, <2>3 DEF SalesInv
<1>. QED  BY <1>5, <1>6, <1>7, <1>8

LEMMA SalesSteps ==
  ASSUME SalesInv, SalesNext \/ UNCHANGED salesVars
  PROVE  SalesInv'
<1>1. ASSUME NEW r \in Rides, Evaluate(r) \/ Rollback(r) \/ Commit(r) \/ Receive(r)
      PROVE  SalesInv'
  BY <1>1, EvaluationsKeep
<1>2. CASE Pass \/ UNCHANGED salesVars
  <2>1. ride' = ride /\ audit' = audit
    BY <1>2 DEF Pass, salesVars
  <2>2. now' \in 0 .. MaxTime
    BY <1>2, SalesAssumption DEF Pass, salesVars, SalesInv, SalesTypeOK
  <2>3. SalesTypeOK'
    BY <2>1, <2>2 DEF SalesInv, SalesTypeOK
  <2>4. SalesOK'
    BY <2>1 DEF SalesInv, SalesOK, In
  <2>. QED  BY <2>3, <2>4 DEF SalesInv
<1>3. CASE ChooseUntil \/ CopyList \/ Serve \/ ValidateSales
  BY <1>3, OwnerKeeps
<1>. QED  BY <1>1, <1>2, <1>3 DEF SalesNext

\* A step of the audit of sales is fair.
FairStep ==
  audit.pc = "served" =>
    /\ audit'.pc # "small"
    /\ audit'.pc = "large" => audit.served \cap In({"completed"}) # {}

LEMMA VerdictIsFair ==
  ASSUME SalesInv, SalesNext
  PROVE  FairStep
<1>. SUFFICES ASSUME audit.pc = "served",
                     \/ audit'.pc = "small"
                     \/ audit'.pc = "large" /\ audit.served \cap In({"completed"}) = {}
              PROVE  FALSE
  BY DEF FairStep
<1>1. ValidateSales
  <2>1. audit' # audit
    OBVIOUS
  <2>. QED  BY <2>1 DEF SalesNext, Evaluate, Rollback, Commit, Receive, Pass,
                        ChooseUntil, CopyList, Serve
<1> DEFINE counted == {r \in Rides : Ms(ride[r].at) <= audit.until}
<1>2. /\ audit.copy \subseteq In({"known"})
      /\ audit.served \subseteq In({"completed", "known"}) \cap counted
      /\ audit.copy \cap counted \subseteq audit.served
      /\ audit.served \in SUBSET Rides
  BY DEF SalesInv, SalesOK, SalesTypeOK
<1>3. CASE audit'.pc = "small"
  <2>1. PICK g \in Groups : Total(audit.served, g) < Total(Expected(audit.copy), g)
    <3>1. audit \in [pc : {"idle", "chosen", "copied", "served", "accepted", "small", "large"},
                     until : 0 .. Ms(MaxTime), copy : SUBSET Rides, served : SUBSET Rides]
      BY DEF SalesInv, SalesTypeOK
    <3>2. audit' # [audit EXCEPT !.pc = "large"] /\ audit' # [audit EXCEPT !.pc = "accepted"]
      BY <1>3, <3>1
    <3>. QED  BY <1>1, <3>2 DEF ValidateSales
  <2>2. Expected(audit.copy) \in SUBSET audit.served
    BY <1>2 DEF Expected, In
  <2>3. ~(Total(Expected(audit.copy), g) > Total(audit.served, g))
    BY <1>2, <2>2, TotalMonotonic
  <2>. QED  BY <2>1, <2>3
<1>4. CASE audit'.pc = "large" /\ audit.served \cap In({"completed"}) = {}
  <2>1. PICK g \in Groups : Total(audit.served, g) > Total(Expected(In({"known"})), g)
    <3>1. audit \in [pc : {"idle", "chosen", "copied", "served", "accepted", "small", "large"},
                     until : 0 .. Ms(MaxTime), copy : SUBSET Rides, served : SUBSET Rides]
      BY DEF SalesInv, SalesTypeOK
    <3>2. audit' # [audit EXCEPT !.pc = "small"] /\ audit' # [audit EXCEPT !.pc = "accepted"]
      BY <1>4, <3>1
    <3>. QED  BY <1>1, <3>2 DEF ValidateSales
  <2>2. audit.served \in SUBSET Expected(In({"known"}))
    BY <1>2, <1>4 DEF Expected, In
  <2>3. Expected(In({"known"})) \in SUBSET Rides
    BY DEF Expected, In
  <2>4. ~(Total(audit.served, g) > Total(Expected(In({"known"})), g))
    BY <2>2, <2>3, TotalMonotonic
  <2>. QED  BY <2>1, <2>4
<1>. QED  BY <1>3, <1>4

LEMMA SalesInvariant == Spec => []SalesInv
<1>1. Init => SalesInv
  <2>. SUFFICES ASSUME SalesInit PROVE SalesInv
    BY DEF Init
  <2>1. MaxTime \in Nat /\ 0 \in 0 .. MaxTime /\ 0 \in 0 .. Ms(MaxTime)
    BY SalesAssumption DEF Ms
  <2>2. SalesTypeOK
    BY <2>1 DEF SalesInit, SalesTypeOK
  <2>3. SalesOK
    BY DEF SalesInit, SalesOK
  <2>. QED  BY <2>2, <2>3 DEF SalesInv
<1>2. SalesInv /\ [Next]_auditVars => SalesInv'
  <2>. SUFFICES ASSUME SalesInv, [Next]_auditVars PROVE SalesInv'
    OBVIOUS
  <2>1. SalesNext \/ UNCHANGED salesVars
    BY DEF Next, auditVars
  <2>. QED  BY <2>1, SalesSteps
<1>. QED  BY <1>1, <1>2, PTL DEF Spec

\* The audit of the sales finds them too small only if the server is wrong, and
\* too large only if it is or an answer is under way, whatever the sales and the
\* order of the payments (owner.go:189, app_handlers.go:543).
THEOREM SalesAuditFair == Spec => SalesAuditIsFair
<1>1. SalesInv /\ [Next]_auditVars => [FairStep]_salesVars
  <2>. SUFFICES ASSUME SalesInv, [Next]_auditVars PROVE [FairStep]_salesVars
    OBVIOUS
  <2>1. SalesNext \/ UNCHANGED salesVars
    BY DEF Next, auditVars
  <2>. QED  BY <2>1, VerdictIsFair
<1>2. Spec => [][FairStep]_salesVars
  BY <1>1, SalesInvariant, PTL DEF Spec
<1>. QED  BY <1>2 DEF SalesAuditIsFair, FairStep

\* Every variable of the audits has its type, and a chair is never further from
\* where it has to be than at first, but for its detour (coordinate.go:49).
THEOREM AuditTypes == Spec => []TypeOK
<1>1. Init => hour \in {"half", "last"}
  BY DEF Init
<1>2. hour \in {"half", "last"} /\ [Next]_auditVars => (hour \in {"half", "last"})'
  BY DEF Next, auditVars
<1>3. Spec => [](hour \in {"half", "last"})
  BY <1>1, <1>2, PTL DEF Spec
<1>4. DriveInv /\ SalesInv /\ hour \in {"half", "last"} => TypeOK
  BY DEF DriveInv, SalesInv, TypeOK
<1>. QED  BY <1>3, <1>4, DriveInvariant, SalesInvariant, PTL


=============================================================================
