------------------------------ MODULE Geometry ------------------------------
(***************************************************************************)
(* Coordinates of the benchmarker's world and how chairs move between      *)
(* them (coordinate.go, chair.go): a move is Speed steps of a Manhattan    *)
(* grid, split at random between the axes.  The random draws of the code   *)
(* are parameters here.                                                    *)
(***************************************************************************)
EXTENDS Integers

Coordinate == [x : Int, y : Int]
C(x, y) == [x |-> x, y |-> y]

Abs(n) == IF n < 0 THEN -n ELSE n

DistanceTo(c, d) == Abs(c.x - d.x) + Abs(c.y - d.y)

\* Ticks needed for a distance, rounded up.
NeededTime(d, s) == d \div s + IF d % s > 0 THEN 1 ELSE 0

-----------------------------------------------------------------------------
\* Mutant: without stopping at b.
TowardPast(a, b, n) == IF a < b THEN a + n ELSE a - n

\* n steps from a toward b on one axis, stopping at b.
Toward(a, b, n) ==
  IF a < b THEN IF b - a < n THEN b ELSE a + n
           ELSE IF a - b < n THEN b ELSE a - n

\* Mutant: steps left over on the y axis are not taken on the x axis.
MoveTowardOnce(c, target, step, x) ==
  LET x1 == Toward(c.x, target.x, x)
  IN  C(x1, Toward(c.y, target.y, step - Abs(x1 - c.x)))

\* First x of the steps along the x axis, then what is left along the y axis,
\* then what is left again along the x axis.
MoveToward(c, target, step, x) ==
  LET x1 == Toward(c.x, target.x, x)
      y  == step - Abs(x1 - c.x)
      y1 == Toward(c.y, target.y, y)
  IN  C(Toward(x1, target.x, y - Abs(y1 - c.y)), y1)

\* s steps away from b on one axis; nowhere when a is at b.
Away(a, b, s) == IF a < b THEN a - s ELSE IF a > b THEN a + s ELSE a

\* The points moveOppositeTo may return: away from the target along one axis
\* on which they differ.
MoveOppositeTo(c, target, step) ==
  CASE target.x = c.x -> {C(c.x, Away(c.y, target.y, step))}
    [] target.x # c.x /\ target.y = c.y -> {C(Away(c.x, target.x, step), c.y)}
    [] OTHER -> {C(Away(c.x, target.x, step), c.y), C(c.x, Away(c.y, target.y, step))}

\* n steps from a in the direction of b, even beyond b.
Beyond(a, b, n) == IF a < b THEN a + n ELSE IF a > b THEN a - n ELSE a

\* Half way to dest in whole ticks, moveX of them along the x axis.  When the
\* points share a coordinate, the code gives all steps to the shared axis, on
\* which there is no direction, so that the point is start itself.
DetourMove(start, dest, speed) == ((DistanceTo(start, dest) \div speed) \div 2) * speed
CalculateRandomDetourPoint(start, dest, speed, moveX) ==
  IF start.x = dest.x \/ start.y = dest.y
  THEN start
  ELSE C(Beyond(start.x, dest.x, moveX),
         Beyond(start.y, dest.y, DetourMove(start, dest, speed) - moveX))
=============================================================================
