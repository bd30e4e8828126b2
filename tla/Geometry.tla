------------------------------ MODULE Geometry ------------------------------
(***************************************************************************)
(* nex::Rect and nex::EdgeRect (core/math/geometry.h, geometry.cpp): a     *)
(* rectangle as a corner and a size, or as four edges.  Either may be      *)
(* inverted: a negative size, or edges that have changed places.  Numbers  *)
(* are those of a grid, on which float64 is exact; rotations are by right  *)
(* angles and land on it.                                                  *)
(***************************************************************************)
EXTENDS Integers, FiniteSetsExt

CONSTANTS
  Grid,         \* the coordinates of edges
  Lengths,      \* new widths and heights, not negative
  Shifts,       \* what a call moves by
  Borders,      \* the edges of margins and paddings, not negative
  Others        \* rectangles to intersect and unite with, as edges

ASSUME GeometryAssumption ==
  /\ Grid \cup Shifts \subseteq Int /\ Lengths \cup Borders \subseteq Nat
  /\ 0 \in Grid /\ Others \subseteq [left : Grid, top : Grid, right : Grid, bottom : Grid]

VARIABLES rect, edges
GeometryVars == <<rect, edges>>

Rectangle(x, y, width, height) == [x |-> x, y |-> y, width |-> width, height |-> height]
Edges(left, top, right, bottom) == [left |-> left, top |-> top, right |-> right, bottom |-> bottom]

Magnitude(n) == IF n < 0 THEN - n ELSE n
Smaller(m, n) == IF m < n THEN m ELSE n
Larger(m, n) == IF m < n THEN n ELSE m

-----------------------------------------------------------------------------
(* EdgeRect *)
Canonical(e) ==
  Edges(Smaller(e.left, e.right), Smaller(e.top, e.bottom),
        Larger(e.left, e.right), Larger(e.top, e.bottom))

ContainsPoint(e, px, py) ==
  LET c == Canonical(e)
  IN px \in c.left .. c.right /\ py \in c.top .. c.bottom

Intersects(e, f) ==
  LET c == Canonical(e)  d == Canonical(f)
  IN ~ (c.right < d.left \/ c.left > d.right \/ c.bottom < d.top \/ c.top > d.bottom)

(* Mutated form: of the edges as they are. *)
IntersectionAsIs(e, f) ==
  IF ~ Intersects(e, f) THEN Edges(0, 0, 0, 0)
  ELSE Edges(Larger(e.left, f.left), Larger(e.top, f.top),
             Smaller(e.right, f.right), Smaller(e.bottom, f.bottom))

Intersection(e, f) ==
  LET c == Canonical(e)  d == Canonical(f)
  IN IF ~ Intersects(e, f) THEN Edges(0, 0, 0, 0)
     ELSE Edges(Larger(c.left, d.left), Larger(c.top, d.top),
                Smaller(c.right, d.right), Smaller(c.bottom, d.bottom))
Unite(e, f) ==
  LET c == Canonical(e)  d == Canonical(f)
  IN Edges(Smaller(c.left, d.left), Smaller(c.top, d.top),
           Larger(c.right, d.right), Larger(c.bottom, d.bottom))

FlipH(e) == Edges(e.right, e.top, e.left, e.bottom)
FlipV(e) == Edges(e.left, e.bottom, e.right, e.top)
Shift(e, dx, dy) == Edges(e.left + dx, e.top + dy, e.right + dx, e.bottom + dy)
SetSize(e, width, height) ==
  Edges(e.left, e.top,
        IF e.right >= e.left THEN e.left + width ELSE e.left - width,
        IF e.bottom >= e.top THEN e.top + height ELSE e.top - height)

(* rotateAround(): the corners turn a number of times by 90 degrees around *)
(* (twiceX / 2, twiceY / 2), and the box around them is inverted as before. *)
OnGrid(turns, twiceX, twiceY) == turns % 2 = 0 \/ (twiceX + twiceY) % 2 = 0
Turned(turns, twiceX, twiceY, px, py) ==
  CASE turns = 1 -> <<(twiceX + twiceY) \div 2 - py, (twiceY - twiceX) \div 2 + px>>
    [] turns = 2 -> <<twiceX - px, twiceY - py>>
    [] turns = 3 -> <<(twiceX - twiceY) \div 2 + py, (twiceX + twiceY) \div 2 - px>>
BoxAround(e, turns, twiceX, twiceY) ==
  LET corners == {Turned(turns, twiceX, twiceY, px, py) : px \in {e.left, e.right}, py \in {e.top, e.bottom}}
      xs == {c[1] : c \in corners}
      ys == {c[2] : c \in corners}
      box == Edges(Min(xs), Min(ys), Max(xs), Max(ys))
      wide == IF e.left > e.right THEN FlipH(box) ELSE box
  IN IF e.top > e.bottom THEN FlipV(wide) ELSE wide
Rotate(e, turns) == BoxAround(e, turns, e.left + e.right, e.top + e.bottom)

(* Margin (and Thickness) and Padding, applied to an EdgeRect. *)
GrowBy(e, m) ==
  Edges(IF e.left > e.right THEN e.left + m.left ELSE e.left - m.left,
        IF e.top > e.bottom THEN e.top + m.top ELSE e.top - m.top,
        IF e.left > e.right THEN e.right - m.right ELSE e.right + m.right,
        IF e.top > e.bottom THEN e.bottom - m.bottom ELSE e.bottom + m.bottom)
ShrinkBy(e, m) ==
  Edges(IF e.left < e.right THEN e.left + m.left ELSE e.left - m.left,
        IF e.top < e.bottom THEN e.top + m.top ELSE e.top - m.top,
        IF e.left < e.right THEN e.right - m.right ELSE e.right + m.right,
        IF e.top < e.bottom THEN e.bottom - m.bottom ELSE e.bottom + m.bottom)

-----------------------------------------------------------------------------
(* Rect: topLeft() and bottomRight() as edges, and what contains(), ==,    *)
(* intersects(), intersection() and unite() take it for.                   *)
Corners(r) == Edges(r.x, r.y, r.x + r.width, r.y + r.height)
CanonicalRect(r) == Rectangle(r.x, r.y, Magnitude(r.width), Magnitude(r.height))
Extent(r) == Corners(CanonicalRect(r))
FromEdges(e) == Rectangle(e.left, e.top, e.right - e.left, e.bottom - e.top)
IsInverted(r) == r.width < 0 \/ r.height < 0

(* Mutated form: the corner stays. *)
FlipRectHStay(r) == [r EXCEPT !.width = - @]

FlipRectH(r) == Rectangle(r.x + r.width, r.y, - r.width, r.height)
FlipRectV(r) == Rectangle(r.x, r.y + r.height, r.width, - r.height)
Invert(r) == Rectangle(r.x, r.y, - r.width, - r.height)
ShiftRect(r, dx, dy) == Rectangle(r.x + dx, r.y + dy, r.width, r.height)
SetBottomRight(r, px, py) == Rectangle(r.x, r.y, px - r.x, py - r.y)
(* The centre is that of the extent. *)
RotateRect(r, turns) ==
  FromEdges(BoxAround(Corners(r), turns, 2 * r.x + Magnitude(r.width), 2 * r.y + Magnitude(r.height)))

-----------------------------------------------------------------------------
GeometryInit == rect = Rectangle(0, 0, 0, 0) /\ edges = Edges(0, 0, 0, 0)

EdgesBecome(e) ==
  /\ \A n \in {e.left, e.top, e.right, e.bottom} : n \in Grid
  /\ edges' = e
RectBecomes(r) ==
  /\ \A n \in {r.x, r.y, r.x + r.width, r.y + r.height} : n \in Grid
  /\ rect' = r

EdgesNext ==
  \/ \E e \in {Canonical(edges), FlipH(edges), FlipV(edges), FlipV(FlipH(edges))} : EdgesBecome(e)
  \/ \E dx, dy \in Shifts : EdgesBecome(Shift(edges, dx, dy))
  \/ \E width, height \in Lengths : EdgesBecome(SetSize(edges, width, height))
  \/ \E px, py \in Grid :
       \/ EdgesBecome(Edges(px, py, edges.right, edges.bottom))
       \/ EdgesBecome(Edges(edges.left, edges.top, px, py))
  \/ \E turns \in 1 .. 3 :
       /\ OnGrid(turns, edges.left + edges.right, edges.top + edges.bottom)
       /\ EdgesBecome(Rotate(edges, turns))
  \/ \E f \in Others : EdgesBecome(Intersection(edges, f)) \/ EdgesBecome(Unite(edges, f))
  \/ \E l, t, r, b \in Borders :
       LET m == Edges(l, t, r, b)
       IN EdgesBecome(GrowBy(edges, m)) \/ EdgesBecome(ShrinkBy(edges, m))

RectNext ==
  \/ \E r \in {CanonicalRect(rect), FlipRectH(rect), FlipRectV(rect), Invert(rect)} : RectBecomes(r)
  \/ \E dx, dy \in Shifts : RectBecomes(ShiftRect(rect, dx, dy))
  \/ \E width, height \in Lengths : RectBecomes(Rectangle(rect.x, rect.y, width, height))
  \/ \E px, py \in Grid :
       RectBecomes(Rectangle(px, py, rect.width, rect.height)) \/ RectBecomes(SetBottomRight(rect, px, py))
  \/ \E turns \in 1 .. 3 :
       /\ OnGrid(turns, 2 * rect.x + Magnitude(rect.width), 2 * rect.y + Magnitude(rect.height))
       /\ RectBecomes(RotateRect(rect, turns))
  \/ \E f \in Others :
       RectBecomes(FromEdges(Intersection(Extent(rect), f))) \/ RectBecomes(FromEdges(Unite(Extent(rect), f)))

EdgesSpec == GeometryInit /\ [][EdgesNext]_edges
RectSpec == GeometryInit /\ [][RectNext]_rect

-----------------------------------------------------------------------------
Points(e) == {p \in Grid \X Grid : ContainsPoint(e, p[1], p[2])}

(* An EdgeRect stands for the points that it contains, whether inverted or *)
(* not: it intersects another exactly if they share a point, the           *)
(* intersection has those points and no others, and the union is the least *)
(* rectangle around both; flips and three quarter turns undone by a        *)
(* fourth leave it the same.  A padding undoes the margin of its size.     *)
EdgesArePoints ==
  /\ Points(FlipH(edges)) = Points(edges) /\ FlipH(FlipV(FlipH(FlipV(edges)))) = edges
  /\ Rotate(edges, 2) = edges
  /\ OnGrid(1, edges.left + edges.right, edges.top + edges.bottom) =>
       Canonical(Rotate(Rotate(edges, 3), 1)) = Canonical(edges)
  /\ \A f \in Others :
       LET common == Points(edges) \cap Points(f)
       IN /\ Intersects(edges, f) <=> common # {}
          /\ common # {} => Points(Intersection(edges, f)) = common
          /\ Points(edges) \cup Points(f) \subseteq Points(Unite(edges, f))
          /\ \A g \in Others :
               Points(edges) \cup Points(f) \subseteq Points(g) => Points(Unite(edges, f)) \subseteq Points(g)
  /\ \A l, t, r, b \in Borders :
       LET m == Edges(l, t, r, b)
       IN ShrinkBy(GrowBy(edges, m), m) = edges

(* The same calls move the corners of a Rect and the edges of an EdgeRect  *)
(* in the same way: flips, shifts and a new corner always, a rotation, a   *)
(* new size and normalize() if the Rect is not inverted.                   *)
RectsAreEdges ==
  LET e == Corners(rect)
  IN /\ Corners(FlipRectH(rect)) = FlipH(e) /\ Corners(FlipRectV(rect)) = FlipV(e)
     /\ \A dx, dy \in Shifts : Corners(ShiftRect(rect, dx, dy)) = Shift(e, dx, dy)
     /\ \A px, py \in Grid : Corners(SetBottomRight(rect, px, py)) = Edges(e.left, e.top, px, py)
     /\ FromEdges(e) = rect
     /\ IsInverted(rect) <=> Canonical(e) # e
     /\ ~ IsInverted(rect) =>
          /\ Extent(rect) = Canonical(e)
          /\ \A turns \in 1 .. 3 : Corners(RotateRect(rect, turns)) = Rotate(e, turns)
          /\ \A w, h \in Lengths : Corners(Rectangle(rect.x, rect.y, w, h)) = SetSize(e, w, h)
=============================================================================
