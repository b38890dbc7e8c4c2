------------------------------ MODULE Encoders ------------------------------
(***************************************************************************)
(* The pictures of one file of a tarball: LinearEncoder::build_image, then *)
(* SpaceFillingEncoder::build_image with its hilbert_d2xy, in the order in *)
(* which main calls them.  Which files there are, and what becomes of the  *)
(* picture files, is PreRun's subject.                                     *)
(*                                                                         *)
(* The calls of hilbert_d2xy for all positions of the curve are            *)
(* independent of each other; their loops run in step here, one iteration  *)
(* of all of them at a time.                                               *)
(*                                                                         *)
(* Abstracted: byte d of the file (from 0) is the number d + 1, so that    *)
(* bytes can be told apart from each other and from the zeros of a resize; *)
(* a pixel is one value instead of three equal ones.                       *)
(***************************************************************************)
EXTENDS Integers, Sequences

CONSTANTS
  Order,         \* the order of the curve: 10
  Shift,         \* 1 << k, for k up to Order
  LinearTotal,   \* pixels of the linear picture: 1024 * 512
  FileLength     \* how many bytes extract() may return

ASSUME EncodersAssumption ==
  /\ Order \in Nat
  /\ Shift \in [0 .. Order -> Nat]
  /\ Shift[0] = 1
  /\ \A k \in 0 .. Order - 1 : Shift[k + 1] = 2 * Shift[k] /\ Shift[k] < Shift[Order]
  /\ LinearTotal \in Nat
  /\ FileLength \subseteq Nat

VARIABLES
  len,         \* the bytes of the file
  step,        \* "linear", "curve", "paint", "done"
  linear,      \* the pixels written to the linear picture
  s,           \* the loops of hilbert_d2xy: the side of the square so far,
  x, y, rest,  \*   and per position x, y and d
  next,        \* the next position of the curve to be painted
  canvas       \* the pixels of the Hilbert picture, row by row

curveVars == <<s, x, y, rest>>
vars == <<len, step, linear, curveVars, next, canvas>>

-----------------------------------------------------------------------------
Side      == Shift[Order]
Positions == 0 .. Side * Side - 1

\* LinearEncoder pads a file that is too short with zeros, and cuts any other.
LinearByte(d) == IF len < LinearTotal /\ d >= len THEN 0 ELSE d + 1

\* SpaceFillingEncoder does the same, for a picture of its own size.
\* (Mutant: padded with the file's own bytes.)
CurveByteRepeated(d) == IF len < Side * Side /\ d >= len THEN (d % len) + 1 ELSE d + 1

CurveByte(d) == IF len < Side * Side /\ d >= len THEN 0 ELSE d + 1

\* A file without bytes has no picture.
Pictured == len # 0

Init ==
  /\ len \in FileLength
  /\ step = "linear"
  /\ linear = <<>>
  /\ s = 1
  /\ x = [d \in Positions |-> 0] /\ y = [d \in Positions |-> 0]
  /\ rest = [d \in Positions |-> d]
  /\ next = 0
  /\ canvas = [pixel \in Positions |-> 0]

\* LinearEncoder: one byte after the other.
WriteLinear ==
  /\ step = "linear" /\ Pictured /\ Len(linear) < LinearTotal
  /\ linear' = Append(linear, LinearByte(Len(linear)))
  /\ UNCHANGED <<len, step, curveVars, next, canvas>>

LinearDone ==
  /\ step = "linear" /\ (Pictured => Len(linear) >= LinearTotal)
  /\ step' = "curve"
  /\ UNCHANGED <<len, linear, curveVars, next, canvas>>

-----------------------------------------------------------------------------
\* rx = (d >> 1) & 1, ry = (d ^ rx) & 1: the quadrant, counted along the curve.
\* (Mutant: both are the lowest bit.)
RxLow(d) == d % 2

Rx(d) == (d \div 2) % 2

Ry(d) == (d + Rx(d)) % 2

\* The square so far is turned for the first and the last quadrant, and moved
\* to its quadrant.
\* (Mutants: it is not turned; it is turned about the wrong corner.)
XStepStraight(side, px, py, d) == px + side * Rx(d)

XStepOff(side, px, py, d) ==
  side * Rx(d) + IF Ry(d) = 1 THEN px ELSE IF Rx(d) = 1 THEN side - py ELSE py

XStep(side, px, py, d) ==
  side * Rx(d) + IF Ry(d) = 1 THEN px ELSE IF Rx(d) = 1 THEN side - 1 - py ELSE py

YStep(side, px, py, d) ==
  side * Ry(d) + IF Ry(d) = 1 THEN py ELSE IF Rx(d) = 1 THEN side - 1 - px ELSE px

\* One iteration of the loop.
Iterate ==
  /\ step = "curve" /\ s < Side
  /\ x' = [d \in Positions |-> XStep(s, x[d], y[d], rest[d])]
  /\ y' = [d \in Positions |-> YStep(s, x[d], y[d], rest[d])]
  /\ rest' = [d \in Positions |-> rest[d] \div 4]
  /\ s' = 2 * s
  /\ UNCHANGED <<len, step, linear, next, canvas>>

CurveDone ==
  /\ step = "curve" /\ s >= Side
  /\ step' = IF Pictured THEN "paint" ELSE "done"
  /\ UNCHANGED <<len, linear, curveVars, next, canvas>>

Pixel(d) == y[d] * Side + x[d]

Paint ==
  /\ step = "paint" /\ next \in Positions
  /\ canvas' = [canvas EXCEPT ![Pixel(next)] = CurveByte(next)]
  /\ next' = next + 1
  /\ UNCHANGED <<len, step, linear, curveVars>>

PaintDone ==
  /\ step = "paint" /\ next \notin Positions
  /\ step' = "done"
  /\ UNCHANGED <<len, linear, curveVars, next, canvas>>

Next == WriteLinear \/ LinearDone \/ Iterate \/ CurveDone \/ Paint \/ PaintDone

Spec == Init /\ [][Next]_vars

-----------------------------------------------------------------------------
\* Types; no coordinate ever leaves the square built so far.
TypeOK ==
  /\ len \in FileLength
  /\ step \in {"linear", "curve", "paint", "done"}
  /\ linear \in Seq(Nat)
  /\ \E k \in 0 .. Order : s = Shift[k]
  /\ x \in [Positions -> 0 .. s - 1] /\ y \in [Positions -> 0 .. s - 1]
  /\ rest \in [Positions -> Nat]
  /\ next \in Nat
  /\ canvas \in [Positions -> Nat]

Curved == step \in {"paint", "done"}

(* The curve is a bijection: every pixel of the picture is the place of     *)
(* exactly one byte, so no byte overwrites another, none is left out, and   *)
(* canvas[pixel * 3 + 2] is inside the buffer.                              *)
EveryPixelOnce ==
  Curved =>
    /\ \A d, e \in Positions : x[d] = x[e] /\ y[d] = y[e] => d = e
    /\ \A px, py \in 0 .. Side - 1 : \E d \in Positions : x[d] = px /\ y[d] = py

Magnitude(a) == IF a < 0 THEN -a ELSE a

(* README: "Nearby bytes in the binary remain nearby in 2D space".  Bytes   *)
(* next to each other in the file are on pixels next to each other.         *)
NeighboursTouch ==
  Curved =>
    \A d \in Positions : d + 1 \in Positions =>
      Magnitude(x[d + 1] - x[d]) + Magnitude(y[d + 1] - y[d]) = 1

(* And at any distance: bytes that are k apart in the file are at most      *)
(* Sqrt(6 * k) apart in the picture.                                        *)
NearbyStaysNear ==
  Curved =>
    \A d, e \in Positions : d < e =>
      LET dx == x[e] - x[d]
          dy == y[e] - y[d]
      IN  dx * dx + dy * dy <= 6 * (e - d)

\* What a picture shows of the file on its d-th place: byte d, or zero after the end.
Shown(d) == IF d < len THEN d + 1 ELSE 0

(* In the end both pictures show the same file, although each encoder pads  *)
(* or cuts it to a size of its own: what one shows on its d-th pixel, the   *)
(* other shows at the d-th place of the curve, which begins in the upper    *)
(* left and ends in the upper right corner.                                 *)
PicturesAgree ==
  step = "done" /\ Pictured =>
    /\ Len(linear) = LinearTotal
    /\ \A d \in Positions : canvas[y[d] * Side + x[d]] = Shown(d)
    /\ \A d \in Positions : d < LinearTotal =>
         linear[d + 1] = canvas[y[d] * Side + x[d]]
    /\ x[0] = 0 /\ y[0] = 0
    /\ x[Side * Side - 1] = Side - 1 /\ y[Side * Side - 1] = 0
=============================================================================
