-------------------------------- MODULE Rect --------------------------------
(***************************************************************************)
(* Graphics/Math/Rect.cpp: rectangles of whole pixels, kept as their edges.*)
(*                                                                         *)
(* A point is [X, Y], a size [Width, Height]. An aspect ratio is a pair of *)
(* numbers <<n, d>> and is compared and applied without the rounding of a  *)
(* float.                                                                  *)
(***************************************************************************)
EXTENDS Integers, FiniteSetsExt

CONSTANT MaxInt         \* the greatest int32_t

MinInt == -MaxInt - 1

RectOf(left, top, right, bottom) == [Left |-> left, Top |-> top, Right |-> right, Bottom |-> bottom]
PointOf(x, y) == [X |-> x, Y |-> y]
SizeOf(width, height) == [Width |-> width, Height |-> height]

\* Integer division of C++: towards zero.
Quotient(n, d) == IF n >= 0 THEN n \div d ELSE -((-n) \div d)
Half(size) == SizeOf(Quotient(size.Width, 2), Quotient(size.Height, 2))

Empty == RectOf(MaxInt, MaxInt, MinInt, MinInt)
FromSize(size) == RectOf(0, 0, size.Width, size.Height)
FromCenterSize(center, size) ==
  RectOf(center.X - Half(size).Width, center.Y - Half(size).Height,
         center.X + Half(size).Width, center.Y + Half(size).Height)
FromLeftTopSize(leftTop, size) ==
  RectOf(leftTop.X, leftTop.Y, leftTop.X + size.Width, leftTop.Y + size.Height)

Center(rect) == PointOf(Quotient(rect.Left + rect.Right, 2), Quotient(rect.Top + rect.Bottom, 2))
Size(rect) == SizeOf(rect.Right - rect.Left, rect.Bottom - rect.Top)
Something(rect) == rect.Left < rect.Right /\ rect.Top < rect.Bottom
Contains(outer, rect) ==
  /\ rect.Left >= outer.Left /\ rect.Top >= outer.Top
  /\ rect.Right <= outer.Right /\ rect.Bottom <= outer.Bottom

Extend(rect, point) ==
  RectOf(Min({point.X, rect.Left}), Min({point.Y, rect.Top}),
         Max({point.X + 1, rect.Right}), Max({point.Y + 1, rect.Bottom}))
Offset(rect, value) == RectOf(rect.Left - value, rect.Top - value, rect.Right + value, rect.Bottom + value)

Fit(rect, ratio) ==
  LET size == Size(rect)
      wider == size.Width * ratio[2] > size.Height * ratio[1]
  IN FromCenterSize(Center(rect),
       IF wider THEN SizeOf(size.Width, (size.Width * ratio[2]) \div ratio[1])
       ELSE SizeOf((size.Height * ratio[1]) \div ratio[2], size.Height))

Clamped(n, most) == Max({0, Min({n, most})})
Clamp(rect, size) ==
  RectOf(Clamped(rect.Left, size.Width), Clamped(rect.Top, size.Height),
         Clamped(rect.Right, size.Width), Clamped(rect.Bottom, size.Height))

Pushed(rect, right, down) == RectOf(rect.Left + right, rect.Top + down, rect.Right + right, rect.Bottom + down)

\* Mutant of the next: back from the right and bottom edge without a push away from the others.
PushClampBack(rect, size) ==
  Clamp(Pushed(rect, -Max({0, rect.Right - size.Width}), -Max({0, rect.Bottom - size.Height})), size)

\* First away from the left and top edge, then back from the right and bottom one.
PushClamp(rect, size) ==
  LET in == Pushed(rect, Max({0, -rect.Left}), Max({0, -rect.Top}))
  IN Clamp(Pushed(in, -Max({0, in.Right - size.Width}), -Max({0, in.Bottom - size.Height})), size)

-----------------------------------------------------------------------------
(* Extending the empty rectangle by points, in any order, gives the least     *)
(* rectangle of pixels that has them all: no "first iteration" is needed.     *)
Accumulated(points, bounds) ==
  LET pixel(p) == FromLeftTopSize(p, SizeOf(1, 1))
  IN IF points = {} THEN bounds = Empty
     ELSE /\ \A p \in points : Contains(bounds, pixel(p))
          /\ \E a, b, c, d \in points : bounds = RectOf(a.X, b.Y, c.X + 1, d.Y + 1)

(* A crop that is dragged stays inside of the image and keeps its width and   *)
(* height if they are not greater than the image's, and it is not moved       *)
(* without need.                                                              *)
StaysInside(rect, size) ==
  LET pushed == PushClamp(rect, size)
  IN /\ Contains(FromSize(size), pushed)
     /\ Size(pushed).Width = Min({Size(rect).Width, size.Width})
     /\ Size(pushed).Height = Min({Size(rect).Height, size.Height})
     /\ Contains(FromSize(size), rect) => pushed = rect

(* What is clipped is what the rectangle and the image share, if they share   *)
(* anything, and nothing otherwise.                                           *)
ClipsToShared(rect, size) ==
  LET clipped == Clamp(rect, size)
      has(r, x, y) == r.Left <= x /\ x < r.Right /\ r.Top <= y /\ y < r.Bottom
  IN \A x \in 0..(size.Width - 1), y \in 0..(size.Height - 1) : has(clipped, x, y) <=> has(rect, x, y)

(* A rectangle that is fitted to an aspect ratio keeps its center, still has  *)
(* all of the old one but for the rounding of half a size, and grows in one   *)
(* direction only.                                                            *)
FitsAround(rect, ratio) ==
  LET fit == Fit(rect, ratio)
  IN /\ Center(fit) = Center(rect)
     /\ Contains(Offset(fit, 1), rect)
     /\ \/ Contains(Offset(rect, 1), RectOf(fit.Left, rect.Top, fit.Right, rect.Bottom))
        \/ Contains(Offset(rect, 1), RectOf(rect.Left, fit.Top, rect.Right, fit.Bottom))
=============================================================================
