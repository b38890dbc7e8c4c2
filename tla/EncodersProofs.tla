--------------------------- MODULE EncodersProofs ---------------------------
(***************************************************************************)
(* Theorems about Encoders: the Hilbert curve of hilbert_d2xy is a         *)
(* bijection in which neighbours touch and bytes that are near in the file *)
(* stay near, for every order, and both pictures show the same bytes.      *)
(***************************************************************************)
EXTENDS Encoders, TLAPS

-----------------------------------------------------------------------------
(* The last two bits of a position. *)

\* The quadrants in the order of the curve: upper left, lower left, lower
\* right, upper right.
LEMMA Bits ==
  ASSUME NEW d \in Nat
  PROVE  \/ Rx(d) = 0 /\ Ry(d) = 0 /\ d = 4 * (d \div 4)
         \/ Rx(d) = 0 /\ Ry(d) = 1 /\ d = 4 * (d \div 4) + 1
         \/ Rx(d) = 1 /\ Ry(d) = 1 /\ d = 4 * (d \div 4) + 2
         \/ Rx(d) = 1 /\ Ry(d) = 0 /\ d = 4 * (d \div 4) + 3
  BY DEF Rx, Ry

\* Every quadrant of every square has its position.
LEMMA BitsOnto ==
  ASSUME NEW d \in Nat
  PROVE  /\ Rx(4 * d) = 0 /\ Ry(4 * d) = 0
         /\ Rx(4 * d + 1) = 0 /\ Ry(4 * d + 1) = 1
         /\ Rx(4 * d + 2) = 1 /\ Ry(4 * d + 2) = 1
         /\ Rx(4 * d + 3) = 1 /\ Ry(4 * d + 3) = 0
         /\ (4 * d) \div 4 = d /\ (4 * d + 1) \div 4 = d
         /\ (4 * d + 2) \div 4 = d /\ (4 * d + 3) \div 4 = d
  BY DEF Rx, Ry

-----------------------------------------------------------------------------
(* One iteration of the loop. *)

\* A point of the square stays in the square of twice its side.
LEMMA StepInside ==
  ASSUME NEW side \in Nat, NEW d \in Nat,
         NEW px \in 0 .. side - 1, NEW py \in 0 .. side - 1
  PROVE  /\ XStep(side, px, py, d) \in 0 .. 2 * side - 1
         /\ YStep(side, px, py, d) \in 0 .. 2 * side - 1
<1>1. (Rx(d) = 0 \/ Rx(d) = 1) /\ (Ry(d) = 0 \/ Ry(d) = 1)
  BY Bits
<1>2. QED
  BY <1>1 DEF XStep, YStep

\* Two points that meet were the same point in the same quadrant.
Meet(side, px, py, d, qx, qy, e) ==
  /\ XStep(side, px, py, d) = XStep(side, qx, qy, e)
  /\ YStep(side, px, py, d) = YStep(side, qx, qy, e)

Same(px, py, d, qx, qy, e) ==
  px = qx /\ py = qy /\ Rx(d) = Rx(e) /\ Ry(d) = Ry(e)

LEMMA StepApart ==
  ASSUME NEW side \in Nat, NEW d \in Nat, NEW e \in Nat,
         NEW px \in 0 .. side - 1, NEW py \in 0 .. side - 1,
         NEW qx \in 0 .. side - 1, NEW qy \in 0 .. side - 1,
         Meet(side, px, py, d, qx, qy, e)
  PROVE  Same(px, py, d, qx, qy, e)
<1>1. /\ (Rx(d) = 0 \/ Rx(d) = 1) /\ (Ry(d) = 0 \/ Ry(d) = 1)
      /\ (Rx(e) = 0 \/ Rx(e) = 1) /\ (Ry(e) = 0 \/ Ry(e) = 1)
  BY Bits
<1>2. Rx(d) = Rx(e) /\ Ry(d) = Ry(e)
  BY <1>1 DEF XStep, YStep, Meet
<1>3. QED
  BY <1>1, <1>2 DEF XStep, YStep, Meet, Same

\* Points that touch still touch when they are moved to the same quadrant.
Touch(px, py, qx, qy) == Magnitude(qx - px) + Magnitude(qy - py) = 1

LEMMA StepTouch ==
  ASSUME NEW side \in Nat, NEW d \in Nat,
         NEW px \in 0 .. side - 1, NEW py \in 0 .. side - 1,
         NEW qx \in 0 .. side - 1, NEW qy \in 0 .. side - 1,
         Touch(px, py, qx, qy)
  PROVE  Touch(XStep(side, px, py, d), YStep(side, px, py, d),
               XStep(side, qx, qy, d), YStep(side, qx, qy, d))
<1>1. (Rx(d) = 0 \/ Rx(d) = 1) /\ (Ry(d) = 0 \/ Ry(d) = 1)
  BY Bits
<1>2. QED
  BY <1>1 DEF XStep, YStep, Touch, Magnitude

\* Where one quadrant ends the next one begins, except after the last.
Joined(side, d) ==
  \/ /\ (d + 1) \div 4 = d \div 4
     /\ Touch(XStep(side, side - 1, 0, d), YStep(side, side - 1, 0, d),
              XStep(side, 0, 0, d + 1), YStep(side, 0, 0, d + 1))
  \/ /\ (d + 1) \div 4 = (d \div 4) + 1
     /\ XStep(side, side - 1, 0, d) = 2 * side - 1 /\ YStep(side, side - 1, 0, d) = 0
     /\ XStep(side, 0, 0, d + 1) = 0 /\ YStep(side, 0, 0, d + 1) = 0

LEMMA StepJoin ==
  ASSUME NEW side \in Nat, side > 0, NEW d \in Nat
  PROVE  Joined(side, d)
<1> DEFINE q == d \div 4
<1>1. q \in Nat /\ q + 1 \in Nat
  OBVIOUS
<1>2. d = 4 * q \/ d = 4 * q + 1 \/ d = 4 * q + 2 \/ d = 4 * q + 3
  OBVIOUS
<1> HIDE DEF q
<1>3. CASE d = 4 * q
  BY <1>1, <1>3, BitsOnto DEF Joined, XStep, YStep, Touch, Magnitude
<1>4. CASE d = 4 * q + 1
  BY <1>1, <1>4, BitsOnto DEF Joined, XStep, YStep, Touch, Magnitude
<1>5. CASE d = 4 * q + 2
  BY <1>1, <1>5, BitsOnto DEF Joined, XStep, YStep, Touch, Magnitude
<1>6. CASE d = 4 * q + 3
  <2>1. d + 1 = 4 * (q + 1)
    BY <1>1, <1>6
  <2>2. d \div 4 = q /\ Rx(d) = 1 /\ Ry(d) = 0
    BY <1>1, <1>6, BitsOnto
  <2>3. (d + 1) \div 4 = q + 1 /\ Rx(d + 1) = 0 /\ Ry(d + 1) = 0
    BY <1>1, <2>1, BitsOnto
  <2>4. QED
    BY <2>2, <2>3 DEF Joined, XStep, YStep
<1>7. QED
  BY <1>2, <1>3, <1>4, <1>5, <1>6

\* Every point of the larger square comes from a point of the smaller one.
Reached(side, r, tx, ty) ==
  \E d \in 4 * r .. 4 * r + 3, px, py \in 0 .. side - 1 :
    d \div 4 = r /\ XStep(side, px, py, d) = tx /\ YStep(side, px, py, d) = ty

LEMMA StepOnto ==
  ASSUME NEW side \in Nat, NEW r \in Nat,
         NEW tx \in 0 .. 2 * side - 1, NEW ty \in 0 .. 2 * side - 1
  PROVE  Reached(side, r, tx, ty)
<1>1. CASE tx < side /\ ty < side
  <2>1. /\ 4 * r \in 4 * r .. 4 * r + 3 /\ tx \in 0 .. side - 1 /\ ty \in 0 .. side - 1
        /\ (4 * r) \div 4 = r
        /\ XStep(side, ty, tx, 4 * r) = tx /\ YStep(side, ty, tx, 4 * r) = ty
    BY <1>1, BitsOnto DEF XStep, YStep
  <2>2. QED
    BY <2>1 DEF Reached
<1>2. CASE tx < side /\ ty >= side
  <2>1. /\ 4 * r + 1 \in 4 * r .. 4 * r + 3
        /\ tx \in 0 .. side - 1 /\ ty - side \in 0 .. side - 1
        /\ (4 * r + 1) \div 4 = r
        /\ XStep(side, tx, ty - side, 4 * r + 1) = tx
        /\ YStep(side, tx, ty - side, 4 * r + 1) = ty
    BY <1>2, BitsOnto DEF XStep, YStep
  <2>2. QED
    BY <2>1 DEF Reached
<1>3. CASE tx >= side /\ ty >= side
  <2>1. /\ 4 * r + 2 \in 4 * r .. 4 * r + 3
        /\ tx - side \in 0 .. side - 1 /\ ty - side \in 0 .. side - 1
        /\ (4 * r + 2) \div 4 = r
        /\ XStep(side, tx - side, ty - side, 4 * r + 2) = tx
        /\ YStep(side, tx - side, ty - side, 4 * r + 2) = ty
    BY <1>3, BitsOnto DEF XStep, YStep
  <2>2. QED
    BY <2>1 DEF Reached
<1>4. CASE tx >= side /\ ty < side
  <2>1. /\ 4 * r + 3 \in 4 * r .. 4 * r + 3
        /\ side - 1 - ty \in 0 .. side - 1 /\ 2 * side - 1 - tx \in 0 .. side - 1
        /\ (4 * r + 3) \div 4 = r
        /\ XStep(side, side - 1 - ty, 2 * side - 1 - tx, 4 * r + 3) = tx
        /\ YStep(side, side - 1 - ty, 2 * side - 1 - tx, 4 * r + 3) = ty
    BY <1>4, BitsOnto DEF XStep, YStep
  <2>2. QED
    BY <2>1 DEF Reached
<1>5. QED
  BY <1>1, <1>2, <1>3, <1>4

-----------------------------------------------------------------------------
(* The invariant: after k iterations the positions fall into n equal       *)
(* stretches, and every stretch is such a curve through a square of side s.*)

Last == Side * Side - 1

\* Which stretch a position is in.
Stretches(n) == rest \in [Positions -> 0 .. n - 1]

Inside == x \in [Positions -> 0 .. s - 1] /\ y \in [Positions -> 0 .. s - 1]

Onto(n) ==
  \A r \in 0 .. n - 1, px, py \in 0 .. s - 1 :
    \E d \in Positions : rest[d] = r /\ x[d] = px /\ y[d] = py

Apart ==
  \A d, e \in Positions : rest[d] = rest[e] /\ x[d] = x[e] /\ y[d] = y[e] => d = e

Touching(d, e) == Touch(x[d], y[d], x[e], y[e])

Chained ==
  \A d, e \in Positions : e = d + 1 =>
    \/ rest[e] = rest[d] /\ Touching(d, e)
    \/ /\ rest[e] = rest[d] + 1
       /\ x[d] = s - 1 /\ y[d] = 0 /\ x[e] = 0 /\ y[e] = 0

Ends(n) ==
  /\ x[0] = 0 /\ y[0] = 0 /\ rest[0] = 0
  /\ x[Last] = s - 1 /\ y[Last] = 0 /\ rest[Last] = n - 1

Square(n) == Stretches(n) /\ Inside /\ Onto(n) /\ Apart /\ Chained /\ Ends(n)

Remaining(k) == Shift[Order - k] * Shift[Order - k]

CurveInv ==
  /\ \E k \in 0 .. Order : s = Shift[k] /\ Square(Remaining(k))
  /\ Curved => s >= Side

\* The linear picture so far, and the canvas so far.
LinearInv ==
  /\ linear \in Seq(Nat) /\ Len(linear) <= LinearTotal
  /\ \A i \in 1 .. Len(linear) : linear[i] = Shown(i - 1)
  /\ step # "linear" /\ Pictured => Len(linear) = LinearTotal

CanvasInv ==
  /\ next \in 0 .. Side * Side
  /\ canvas \in [Positions -> Nat]
  /\ next > 0 => Curved
  /\ Curved => \A d \in Positions : d < next => canvas[Pixel(d)] = Shown(d)
  /\ step = "done" /\ Pictured => next = Side * Side

IInv ==
  /\ len \in FileLength
  /\ step \in {"linear", "curve", "paint", "done"}
  /\ CurveInv
  /\ LinearInv
  /\ CanvasInv

-----------------------------------------------------------------------------
LEMMA ShiftPositive == \A k \in 0 .. Order : Shift[k] \in Nat
  BY EncodersAssumption

LEMMA PositionsNat ==
  /\ Side \in Nat /\ Side * Side \in Nat
  /\ Positions \subseteq Nat
  /\ \A d \in Positions : d < Side * Side
<1>1. Side \in Nat
  BY EncodersAssumption DEF Side
<1>2. Side * Side \in Nat
  BY <1>1
<1>3. QED
  BY <1>1, <1>2 DEF Positions

LEMMA LastPosition ==
  /\ Side > 0 /\ Side * Side > 0
  /\ 0 \in Positions /\ Last \in Positions
<1>1. Side \in Nat /\ Side > 0
  <2>1. CASE Order = 0
    BY <2>1, EncodersAssumption DEF Side
  <2>2. CASE Order > 0
    <3>1. 0 \in 0 .. Order - 1
      BY <2>2, EncodersAssumption
    <3>2. QED
      BY <3>1, EncodersAssumption DEF Side
  <2>3. QED
    BY <2>1, <2>2, EncodersAssumption
<1>2. Side * Side \in Nat /\ Side * Side > 0
  BY <1>1
<1>3. QED
  BY <1>1, <1>2 DEF Positions, Last

LEMMA SideAtEnd ==
  ASSUME NEW k \in 0 .. Order, Shift[k] >= Side
  PROVE  k = Order
  BY EncodersAssumption DEF Side

-----------------------------------------------------------------------------
(* The curve. *)

LEMMA CurveInit == Init => CurveInv
<1> SUFFICES ASSUME Init PROVE CurveInv
  OBVIOUS
<1>1. Remaining(0) = Side * Side /\ 0 \in 0 .. Order /\ s = Shift[0]
  BY EncodersAssumption DEF Remaining, Side, Init
<1>2. Square(Side * Side)
  BY PositionsNat, LastPosition
     DEF Init, Square, Stretches, Inside, Onto, Apart, Chained, Ends, Last, Positions
<1>3. ~Curved
  BY DEF Init, Curved
<1>4. QED
  BY <1>1, <1>2, <1>3 DEF CurveInv

\* One iteration makes one stretch of every four, and a square of four.
LEMMA SquareGrows ==
  ASSUME NEW n \in Nat, n > 0, s \in Nat, Square(4 * n), Iterate
  PROVE  Square(n)'
<1>1. /\ s' = 2 * s
      /\ x' = [d \in Positions |-> XStep(s, x[d], y[d], rest[d])]
      /\ y' = [d \in Positions |-> YStep(s, x[d], y[d], rest[d])]
      /\ rest' = [d \in Positions |-> rest[d] \div 4]
      /\ Positions' = Positions
  BY DEF Iterate, Positions, Side
<1>2. \A d \in Positions : /\ x'[d] = XStep(s, x[d], y[d], rest[d])
                           /\ y'[d] = YStep(s, x[d], y[d], rest[d])
                           /\ rest'[d] = rest[d] \div 4
  BY <1>1
<1>3. /\ rest \in [Positions -> 0 .. 4 * n - 1]
      /\ x \in [Positions -> 0 .. s - 1] /\ y \in [Positions -> 0 .. s - 1]
  BY DEF Square, Stretches, Inside
<1>4. \A d \in Positions : rest[d] \in Nat /\ x[d] \in 0 .. s - 1 /\ y[d] \in 0 .. s - 1
  BY <1>3
<1>5. s > 0
  <2>1. x[0] \in 0 .. s - 1
    BY <1>4, LastPosition
  <2>2. QED
    BY <2>1
<1>6. Stretches(n)'
  <2>1. \A r \in 0 .. 4 * n - 1 : r \div 4 \in 0 .. n - 1
    OBVIOUS
  <2>2. QED
    BY <1>1, <1>3, <2>1 DEF Stretches, Positions, Side
<1>7. Inside'
  <2>1. \A d \in Positions : /\ XStep(s, x[d], y[d], rest[d]) \in 0 .. 2 * s - 1
                             /\ YStep(s, x[d], y[d], rest[d]) \in 0 .. 2 * s - 1
    BY <1>4, StepInside
  <2>2. QED
    BY <1>1, <2>1 DEF Inside, Positions, Side
<1>8. Onto(n)'
  <2> SUFFICES ASSUME NEW r \in 0 .. n - 1, NEW tx \in 0 .. 2 * s - 1, NEW ty \in 0 .. 2 * s - 1
               PROVE  \E d \in Positions :
                        /\ rest[d] \div 4 = r
                        /\ XStep(s, x[d], y[d], rest[d]) = tx
                        /\ YStep(s, x[d], y[d], rest[d]) = ty
    BY <1>2, <1>1 DEF Onto
  <2>0. r \in Nat
    OBVIOUS
  <2>1. PICK q \in 4 * r .. 4 * r + 3, px \in 0 .. s - 1, py \in 0 .. s - 1 :
               q \div 4 = r /\ XStep(s, px, py, q) = tx /\ YStep(s, px, py, q) = ty
    <3>1. Reached(s, r, tx, ty)
      BY <2>0, StepOnto
    <3>2. QED
      BY <3>1 DEF Reached
  <2>2. q \in 0 .. 4 * n - 1
    OBVIOUS
  <2>3. PICK d \in Positions : rest[d] = q /\ x[d] = px /\ y[d] = py
    BY <2>2 DEF Square, Onto
  <2>4. QED
    BY <2>1, <2>3
<1>9. Apart'
  <2> SUFFICES ASSUME NEW d \in Positions, NEW e \in Positions,
                      rest[d] \div 4 = rest[e] \div 4,
                      Meet(s, x[d], y[d], rest[d], x[e], y[e], rest[e])
               PROVE  d = e
    BY <1>2, <1>1 DEF Apart, Meet
  <2>0. /\ rest[d] \in Nat /\ x[d] \in 0 .. s - 1 /\ y[d] \in 0 .. s - 1
        /\ rest[e] \in Nat /\ x[e] \in 0 .. s - 1 /\ y[e] \in 0 .. s - 1
    BY <1>4
  <2>1. Same(x[d], y[d], rest[d], x[e], y[e], rest[e])
    BY <2>0, StepApart
  <2>2. rest[d] = rest[e]
    BY <2>0, <2>1, Bits DEF Same
  <2>3. QED
    BY <2>1, <2>2 DEF Square, Apart, Same
<1>10. Chained'
  <2> SUFFICES ASSUME NEW d \in Positions, NEW e \in Positions, e = d + 1
               PROVE  (\/ rest[e] = rest[d] /\ Touching(d, e)
                       \/ /\ rest[e] = rest[d] + 1
                          /\ x[d] = s - 1 /\ y[d] = 0 /\ x[e] = 0 /\ y[e] = 0)'
    BY <1>1 DEF Chained
  <2>0. /\ rest[d] \in Nat /\ x[d] \in 0 .. s - 1 /\ y[d] \in 0 .. s - 1
        /\ rest[e] \in Nat /\ x[e] \in 0 .. s - 1 /\ y[e] \in 0 .. s - 1
    BY <1>4
  <2> DEFINE tx(p) == XStep(s, x[p], y[p], rest[p])
             ty(p) == YStep(s, x[p], y[p], rest[p])
  <2>1. /\ x'[d] = tx(d) /\ y'[d] = ty(d) /\ rest'[d] = rest[d] \div 4
        /\ x'[e] = tx(e) /\ y'[e] = ty(e) /\ rest'[e] = rest[e] \div 4
    BY <1>1
  <2>2. CASE rest[e] = rest[d] /\ Touching(d, e)
    <3>1. Touch(tx(d), ty(d), tx(e), ty(e))
      BY <2>0, <2>2, StepTouch DEF Touching
    <3>2. QED
      BY <2>1, <2>2, <3>1 DEF Touching
  <2>3. CASE /\ rest[e] = rest[d] + 1
             /\ x[d] = s - 1 /\ y[d] = 0 /\ x[e] = 0 /\ y[e] = 0
    <3>1. Joined(s, rest[d])
      BY <1>5, <2>0, StepJoin
    <3>2. QED
      BY <1>1, <2>1, <2>3, <3>1 DEF Touching, Joined
  <2>4. QED
    BY <2>2, <2>3 DEF Square, Chained
<1>11. Ends(n)'
  <2>1. /\ x[0] = 0 /\ y[0] = 0 /\ rest[0] = 0
        /\ x[Last] = s - 1 /\ y[Last] = 0 /\ rest[Last] = 4 * (n - 1) + 3
    BY DEF Square, Ends
  <2>2. XStep(s, 0, 0, 0) = 0 /\ YStep(s, 0, 0, 0) = 0 /\ 0 \div 4 = 0
    BY DEF XStep, YStep, Rx, Ry
  <2>3. n - 1 \in Nat
    OBVIOUS
  <2>4. Rx(rest[Last]) = 1 /\ Ry(rest[Last]) = 0 /\ rest[Last] \div 4 = n - 1
    BY <2>1, <2>3, BitsOnto
  <2>5. /\ XStep(s, x[Last], y[Last], rest[Last]) = 2 * s - 1
        /\ YStep(s, x[Last], y[Last], rest[Last]) = 0
    BY <2>1, <2>4 DEF XStep, YStep
  <2>6. Last' = Last
    BY DEF Last, Side
  <2>7. QED
    BY <1>1, <2>1, <2>2, <2>4, <2>5, <2>6, LastPosition DEF Ends
<1>12. QED
  BY <1>6, <1>7, <1>8, <1>9, <1>10, <1>11 DEF Square

LEMMA CurveStep == CurveInv /\ [Next]_vars => CurveInv'
<1> SUFFICES ASSUME CurveInv, [Next]_vars PROVE CurveInv'
  OBVIOUS
<1>1. CASE Iterate
  <2>1. PICK k \in 0 .. Order : s = Shift[k] /\ Square(Remaining(k))
    BY DEF CurveInv
  <2>2. k # Order
    BY <1>1, <2>1, PositionsNat DEF Iterate, Side
  <2>3. k + 1 \in 0 .. Order /\ k \in 0 .. Order - 1 /\ Order - (k + 1) \in 0 .. Order - 1
    BY <2>2, EncodersAssumption
  <2>4. s' = Shift[k + 1]
    BY <1>1, <2>1, <2>3, EncodersAssumption DEF Iterate
  <2>5. Remaining(k) = 4 * Remaining(k + 1) /\ Remaining(k + 1) \in Nat
    <3> DEFINE c == Shift[Order - (k + 1)]
    <3>1. c \in Nat
      BY <2>3, EncodersAssumption
    <3>2. (Order - (k + 1)) + 1 = Order - k
      BY EncodersAssumption
    <3>3. Shift[Order - k] = 2 * c
      BY <2>3, <3>2, EncodersAssumption
    <3>4. (2 * c) * (2 * c) = 4 * (c * c) /\ c * c \in Nat
      BY <3>1
    <3>5. QED
      BY <3>3, <3>4 DEF Remaining
  <2>6. Remaining(k + 1) > 0
    <3>1. rest[0] \in 0 .. Remaining(k) - 1
      BY <2>1, LastPosition DEF Square, Stretches
    <3>2. QED
      BY <2>5, <3>1
  <2>7. Square(Remaining(k + 1))'
    <3>1. s \in Nat
      BY <2>1, ShiftPositive
    <3> DEFINE n == Remaining(k + 1)
    <3>2. n \in Nat /\ n > 0 /\ Square(4 * n)
      BY <2>1, <2>5, <2>6
    <3> HIDE DEF n
    <3>3. Square(n)'
      BY <1>1, <3>1, <3>2, SquareGrows
    <3>4. n = Remaining(k + 1)
      BY DEF n
    <3>5. QED
      BY <3>3, <3>4
  <2>8. ~Curved'
    BY <1>1 DEF Iterate, Curved
  <2>9. Remaining(k + 1)' = Remaining(k + 1)
    BY DEF Remaining
  <2>10. QED
    BY <2>3, <2>4, <2>7, <2>8 DEF CurveInv
<1>2. CASE ~Iterate
  <2>1. UNCHANGED curveVars
    BY <1>2 DEF Next, WriteLinear, LinearDone, CurveDone, Paint, PaintDone, vars
  <2>2. Curved' => Curved \/ s >= Side
    BY <1>2 DEF Next, WriteLinear, LinearDone, CurveDone, Paint, PaintDone, vars, Curved
  <2>3. s' = s /\ x' = x /\ y' = y /\ rest' = rest
    BY <2>1 DEF curveVars
  <2>4. PICK k \in 0 .. Order : s = Shift[k] /\ Square(Remaining(k))
    BY DEF CurveInv
  <2>5. Square(Remaining(k))'
    BY <2>3, <2>4 DEF Square, Stretches, Inside, Onto, Apart, Chained, Touching, Ends,
                      Positions, Last, Side, Remaining
  <2>6. QED
    BY <2>2, <2>3, <2>4, <2>5 DEF CurveInv, Side
<1>3. QED
  BY <1>1, <1>2

\* The finished curve.
LEMMA Finished == CurveInv /\ Curved => s = Side /\ Square(1)
<1> SUFFICES ASSUME CurveInv, Curved PROVE s = Side /\ Square(1)
  OBVIOUS
<1>1. PICK k \in 0 .. Order : s = Shift[k] /\ Square(Remaining(k))
  BY DEF CurveInv
<1>2. k = Order
  BY <1>1, SideAtEnd DEF CurveInv
<1>3. Remaining(Order) = 1
  BY EncodersAssumption DEF Remaining
<1>4. QED
  BY <1>1, <1>2, <1>3 DEF Side

\* Rows of a picture do not overlap.
Cell(side, px, py) == py * side + px

LEMMA CellInside ==
  ASSUME NEW side \in Nat, NEW px \in 0 .. side - 1, NEW py \in 0 .. side - 1
  PROVE  Cell(side, px, py) \in 0 .. side * side - 1
<1>1. py * side >= 0 /\ py * side <= (side - 1) * side /\ (side - 1) * side = side * side - side
  OBVIOUS
<1>2. QED
  BY <1>1 DEF Cell

LEMMA CellApart ==
  ASSUME NEW side \in Nat, NEW px \in 0 .. side - 1, NEW py \in 0 .. side - 1,
         NEW qx \in 0 .. side - 1, NEW qy \in 0 .. side - 1,
         Cell(side, px, py) = Cell(side, qx, qy)
  PROVE  px = qx /\ py = qy
<1>1. py < qy => (qy - py) * side >= side
  OBVIOUS
<1>2. qy < py => (py - qy) * side >= side
  OBVIOUS
<1>3. (qy - py) * side = qy * side - py * side /\ (py - qy) * side = py * side - qy * side
  OBVIOUS
<1>4. py * side + px = qy * side + qx
  BY DEF Cell
<1>5. py = qy
  BY <1>1, <1>2, <1>3, <1>4
<1>6. QED
  BY <1>4, <1>5

\* So it visits every pixel once, and the canvas has a place for every byte.
LEMMA PixelsApart ==
  ASSUME CurveInv, Curved, NEW d \in Positions, NEW e \in Positions
  PROVE  Pixel(d) \in Positions /\ (Pixel(d) = Pixel(e) => d = e)
<1>1. s = Side /\ Square(1)
  BY Finished
<1>2. /\ x[d] \in 0 .. Side - 1 /\ y[d] \in 0 .. Side - 1 /\ rest[d] = 0
      /\ x[e] \in 0 .. Side - 1 /\ y[e] \in 0 .. Side - 1 /\ rest[e] = 0
  BY <1>1 DEF Square, Stretches, Inside
<1>3. Pixel(d) = Cell(Side, x[d], y[d]) /\ Pixel(e) = Cell(Side, x[e], y[e])
  BY DEF Pixel, Cell
<1>4. Pixel(d) \in Positions
  BY <1>2, <1>3, CellInside, PositionsNat DEF Positions
<1>5. ASSUME Cell(Side, x[d], y[d]) = Cell(Side, x[e], y[e])
      PROVE  x[d] = x[e] /\ y[d] = y[e]
  BY <1>2, <1>5, CellApart, PositionsNat
<1>6. QED
  BY <1>1, <1>2, <1>3, <1>4, <1>5 DEF Square, Apart

-----------------------------------------------------------------------------
(* The pictures. *)

LEMMA ShownNat == ASSUME len \in Nat, NEW d \in Nat PROVE Shown(d) \in Nat
  BY DEF Shown

\* Both encoders pad and cut so that their pictures show the file.
LEMMA Padding ==
  ASSUME len \in Nat, NEW d \in Nat
  PROVE  /\ d < LinearTotal => LinearByte(d) = Shown(d)
         /\ d \in Positions => CurveByte(d) = Shown(d)
<1>1. LinearTotal \in Nat /\ Side * Side \in Nat
  BY EncodersAssumption, PositionsNat
<1>2. d \in Positions => d < Side * Side
  BY <1>1 DEF Positions
<1> HIDE DEF Side
<1> QED  BY <1>1, <1>2 DEF LinearByte, CurveByte, Shown

LEMMA LenNat == len \in FileLength => len \in Nat
  BY EncodersAssumption

LEMMA InitHolds == Init => IInv
<1> SUFFICES ASSUME Init PROVE IInv
  OBVIOUS
<1>1. CurveInv
  BY CurveInit
<1>2. LinearInv
  BY EncodersAssumption DEF Init, LinearInv
<1>3. CanvasInv
  BY PositionsNat DEF Init, CanvasInv, Curved
<1>4. QED
  BY <1>1, <1>2, <1>3 DEF Init, IInv

LEMMA LinearStep == IInv /\ [Next]_vars => LinearInv'
<1> SUFFICES ASSUME IInv, [Next]_vars PROVE LinearInv'
  OBVIOUS
<1>1. len' = len /\ Pictured' = Pictured /\ \A d : Shown(d)' = Shown(d)
  BY DEF Next, WriteLinear, LinearDone, Iterate, CurveDone, Paint, PaintDone, vars, Pictured, Shown
<1>2. LinearInv
  BY DEF IInv
<1>3. CASE WriteLinear
  <2>1. /\ Len(linear) \in Nat /\ Shown(Len(linear)) \in Nat
        /\ LinearByte(Len(linear)) = Shown(Len(linear))
    BY <1>2, <1>3, LenNat, ShownNat, Padding DEF IInv, LinearInv, WriteLinear
  <2>2. /\ linear' \in Seq(Nat) /\ Len(linear') = Len(linear) + 1
        /\ \A i \in 1 .. Len(linear) : linear'[i] = linear[i]
        /\ linear'[Len(linear) + 1] = Shown(Len(linear))
    BY <1>2, <1>3, <2>1 DEF WriteLinear, LinearInv
  <2>3. \A i \in 1 .. Len(linear') : linear'[i] = Shown(i - 1)
    <3> SUFFICES ASSUME NEW i \in 1 .. Len(linear') PROVE linear'[i] = Shown(i - 1)
      OBVIOUS
    <3>1. CASE i = Len(linear) + 1
      <4>1. i - 1 = Len(linear)
        BY <2>1, <3>1
      <4> QED  BY <2>2, <3>1, <4>1
    <3>2. CASE i # Len(linear) + 1
      <4>1. i \in 1 .. Len(linear)
        BY <2>1, <2>2, <3>2
      <4> QED  BY <1>2, <2>2, <4>1 DEF LinearInv
    <3> QED  BY <3>1, <3>2
  <2>4. Len(linear') <= LinearTotal
    BY <1>3, <2>1, <2>2, EncodersAssumption DEF WriteLinear
  <2>5. step' = "linear"
    BY <1>3 DEF WriteLinear
  <2>6. QED
    BY <1>1, <2>2, <2>3, <2>4, <2>5 DEF LinearInv
<1>4. CASE LinearDone
  BY <1>1, <1>2, <1>4, EncodersAssumption DEF LinearDone, LinearInv
<1>5. CASE Iterate \/ CurveDone \/ Paint \/ PaintDone \/ UNCHANGED vars
  <2>1. linear' = linear /\ (step' # "linear" => step # "linear")
    BY <1>5 DEF Iterate, CurveDone, Paint, PaintDone, vars
  <2>2. QED
    BY <1>1, <1>2, <2>1 DEF LinearInv
<1>6. QED
  BY <1>3, <1>4, <1>5 DEF Next

LEMMA CanvasStep == IInv /\ [Next]_vars => CanvasInv'
<1> SUFFICES ASSUME IInv, [Next]_vars PROVE CanvasInv'
  OBVIOUS
<1>1. /\ len' = len /\ Pictured' = Pictured /\ \A d : Shown(d)' = Shown(d)
      /\ Positions' = Positions /\ Side' = Side
  BY DEF Next, WriteLinear, LinearDone, Iterate, CurveDone, Paint, PaintDone, vars, Pictured, Shown,
         Positions, Side
<1>2. CanvasInv
  BY DEF IInv
<1>3. CASE Paint
  <2>1. Curved /\ Curved'
    BY <1>3 DEF Paint, Curved
  <2>2. \A d : Pixel(d)' = Pixel(d)
    BY <1>1, <1>3 DEF Paint, Pixel, curveVars
  <2>3. /\ next \in Positions /\ next' = next + 1
        /\ canvas' = [canvas EXCEPT ![Pixel(next)] = CurveByte(next)]
        /\ step' = "paint"
    BY <1>3 DEF Paint
  <2>4. next' \in 0 .. Side * Side
    BY <2>3, PositionsNat DEF Positions
  <2>5. next \in Nat /\ Shown(next) \in Nat /\ CurveByte(next) = Shown(next)
    BY <2>3, PositionsNat, LenNat, ShownNat, Padding DEF IInv
  <2>6. canvas' \in [Positions -> Nat]
    BY <1>2, <2>3, <2>5 DEF CanvasInv
  <2>7. \A d \in Positions : Pixel(d) \in Positions /\ (Pixel(d) = Pixel(next) => d = next)
    BY <2>1, <2>3, PixelsApart DEF IInv
  <2>8. \A d \in Positions : d < next + 1 => canvas'[Pixel(d)] = Shown(d)
    <3> SUFFICES ASSUME NEW d \in Positions, d < next + 1 PROVE canvas'[Pixel(d)] = Shown(d)
      OBVIOUS
    <3>1. CASE d = next
      BY <1>2, <2>3, <2>5, <2>7, <3>1 DEF CanvasInv
    <3>2. CASE d # next
      <4>1. d < next
        BY <2>5, <3>2, PositionsNat
      <4>2. canvas[Pixel(d)] = Shown(d)
        BY <1>2, <2>1, <4>1 DEF CanvasInv
      <4>3. QED
        BY <1>2, <2>3, <2>7, <3>2, <4>2 DEF CanvasInv
    <3>3. QED
      BY <3>1, <3>2
  <2>9. QED
    BY <1>1, <2>1, <2>2, <2>3, <2>4, <2>6, <2>8 DEF CanvasInv
<1>4. CASE PaintDone
  <2>1. next = Side * Side
    BY <1>2, <1>4, PositionsNat DEF PaintDone, Positions, CanvasInv
  <2>2. Curved /\ Curved' /\ next' = next /\ canvas' = canvas /\ x' = x /\ y' = y
    BY <1>4 DEF PaintDone, Curved, curveVars
  <2>3. QED
    BY <1>1, <1>2, <2>1, <2>2 DEF CanvasInv, Pixel
<1>5. CASE CurveDone
  <2>1. next' = next /\ canvas' = canvas
    BY <1>5 DEF CurveDone
  <2>2. ~(next > 0)
    BY <1>2, <1>5 DEF CurveDone, CanvasInv, Curved
  <2>3. step' = "done" => ~Pictured
    BY <1>5 DEF CurveDone
  <2>4. \A d \in Positions : ~(d < next)
    BY <1>2, <2>2, PositionsNat DEF CanvasInv
  <2>5. QED
    BY <1>1, <1>2, <2>1, <2>2, <2>3, <2>4 DEF CanvasInv
<1>6. CASE WriteLinear \/ LinearDone \/ Iterate
  <2>1. next' = next /\ canvas' = canvas /\ ~Curved /\ ~Curved' /\ step' # "done"
    BY <1>6 DEF WriteLinear, LinearDone, Iterate, Curved
  <2>2. QED
    BY <1>1, <1>2, <2>1 DEF CanvasInv
<1>7. CASE UNCHANGED vars
  <2>1. /\ next' = next /\ canvas' = canvas /\ step' = step
        /\ \A d : Pixel(d)' = Pixel(d)
    BY <1>1, <1>7 DEF vars, curveVars, Pixel
  <2>2. QED
    BY <1>1, <1>2, <2>1 DEF CanvasInv, Curved
<1>8. QED
  BY <1>3, <1>4, <1>5, <1>6, <1>7 DEF Next

LEMMA NextHolds == IInv /\ [Next]_vars => IInv'
<1> SUFFICES ASSUME IInv, [Next]_vars PROVE IInv'
  OBVIOUS
<1>1. len' = len /\ step' \in {"linear", "curve", "paint", "done"}
  BY DEF IInv, Next, WriteLinear, LinearDone, Iterate, CurveDone, Paint, PaintDone, vars
<1>2. QED
  BY <1>1, CurveStep, LinearStep, CanvasStep DEF IInv

LEMMA Invariance == Spec => []IInv
<1>1. Init => IInv
  BY InitHolds
<1>2. IInv /\ [Next]_vars => IInv'
  BY NextHolds
<1>3. QED
  BY <1>1, <1>2, PTL DEF Spec

-----------------------------------------------------------------------------
(* Types; no coordinate leaves the square built so far, in any iteration.  *)
THEOREM Typing == Spec => []TypeOK
<1>1. IInv => TypeOK
  <2> SUFFICES ASSUME IInv PROVE TypeOK
    OBVIOUS
  <2>1. PICK k \in 0 .. Order : s = Shift[k] /\ Square(Remaining(k))
    BY DEF IInv, CurveInv
  <2>2. \E j \in 0 .. Order : s = Shift[j]
    BY <2>1
  <2>3. /\ x \in [Positions -> 0 .. s - 1] /\ y \in [Positions -> 0 .. s - 1]
        /\ rest \in [Positions -> Nat]
    BY <2>1 DEF Square, Stretches, Inside
  <2>4. next \in Nat
    BY PositionsNat DEF IInv, CanvasInv
  <2>5. QED
    BY <2>2, <2>3, <2>4 DEF IInv, LinearInv, CanvasInv, TypeOK
<1>2. QED
  BY <1>1, Invariance, PTL

(* The curve is a bijection between the positions and the pixels, for every *)
(* order.                                                                   *)
THEOREM Bijection == Spec => []EveryPixelOnce
<1>1. IInv => EveryPixelOnce
  <2> SUFFICES ASSUME IInv, Curved PROVE EveryPixelOnce
    BY DEF EveryPixelOnce
  <2>1. s = Side /\ Square(1)
    BY Finished DEF IInv
  <2>2. \A d \in Positions : rest[d] = 0
    BY <2>1 DEF Square, Stretches
  <2>3. \A d, e \in Positions : x[d] = x[e] /\ y[d] = y[e] => d = e
    BY <2>1, <2>2 DEF Square, Apart
  <2>4. \A px, py \in 0 .. Side - 1 : \E d \in Positions : x[d] = px /\ y[d] = py
    BY <2>1 DEF Square, Onto
  <2>5. QED
    BY <2>3, <2>4 DEF EveryPixelOnce
<1>2. QED
  BY <1>1, Invariance, PTL

(* Bytes next to each other in the file touch in the picture, for every     *)
(* order.                                                                   *)
THEOREM Locality == Spec => []NeighboursTouch
<1>1. IInv => NeighboursTouch
  <2> SUFFICES ASSUME IInv, Curved, NEW d \in Positions, d + 1 \in Positions
               PROVE  Magnitude(x[d + 1] - x[d]) + Magnitude(y[d + 1] - y[d]) = 1
    BY DEF NeighboursTouch
  <2>1. Square(1)
    BY Finished DEF IInv
  <2>2. rest[d] = 0 /\ rest[d + 1] = 0
    BY <2>1 DEF Square, Stretches
  <2>3. Touching(d, d + 1)
    BY <2>1, <2>2 DEF Square, Chained
  <2>4. QED
    BY <2>3 DEF Touching, Touch
<1>2. QED
  BY <1>1, Invariance, PTL

(* Both finished pictures show the same bytes of the file, for every order, *)
(* size and length.                                                         *)
THEOREM Agreement == Spec => []PicturesAgree
<1>1. IInv => PicturesAgree
  <2> SUFFICES ASSUME IInv, step = "done", Pictured PROVE PicturesAgree
    BY DEF PicturesAgree
  <2>1. Curved /\ next = Side * Side /\ Len(linear) = LinearTotal
    BY DEF IInv, Curved, CanvasInv, LinearInv
  <2>2. \A d \in Positions : canvas[y[d] * Side + x[d]] = Shown(d)
    BY <2>1, PositionsNat DEF IInv, CanvasInv, Pixel
  <2>3. \A d \in Positions : d < LinearTotal => linear[d + 1] = Shown(d)
    <3> SUFFICES ASSUME NEW d \in Positions, d < LinearTotal PROVE linear[d + 1] = Shown(d)
      OBVIOUS
    <3>1. d \in Nat /\ d + 1 \in 1 .. Len(linear) /\ (d + 1) - 1 = d
      BY <2>1, PositionsNat, EncodersAssumption
    <3>2. QED
      BY <3>1 DEF IInv, LinearInv
  <2>4. /\ x[0] = 0 /\ y[0] = 0
        /\ x[Side * Side - 1] = Side - 1 /\ y[Side * Side - 1] = 0
    BY <2>1, Finished DEF IInv, Square, Ends, Last
  <2>5. QED
    BY <2>1, <2>2, <2>3, <2>4 DEF PicturesAgree
<1>2. QED
  BY <1>1, Invariance, PTL

-----------------------------------------------------------------------------
(* At any distance.  A point is never far from the corner in which its      *)
(* stretch begins, measured by how long ago it began, nor from the corner   *)
(* in which it ends; so two points on both sides of a border are not far    *)
(* from each other.                                                         *)

\* (a + 1)^2 + (b + 1)^2 - 2
Reach(a, b) == a * (a + 2) + b * (b + 2)

SquareDistance(a, b) == a * a + b * b

\* Stretch r holds the w positions from r * w; position d is one of them, and
\* (px, py) its point in a square of this side.
Point(side, w, r, px, py, d) ==
  /\ r * w <= d /\ d < r * w + w
  /\ Reach(px, py) <= 3 * (d - r * w)
  /\ Reach(side - 1 - px, py) <= 3 * (r * w + w - 1 - d)

NearCorners == \A d \in Positions : Point(s, s * s, rest[d], x[d], y[d], d)

NearEachOther ==
  \A d, e \in Positions : d < e /\ rest[d] = rest[e] =>
    SquareDistance(x[e] - x[d], y[e] - y[d]) <= 6 * (e - d)

SpreadInv == NearCorners /\ NearEachOther

-----------------------------------------------------------------------------
(* Arithmetic of Reach and SquareDistance. *)

LEMMA ReachInt ==
  ASSUME NEW a \in Int, NEW b \in Int
  PROVE  Reach(a, b) \in Int /\ Reach(a, b) = Reach(b, a)
  BY DEF Reach

LEMMA ReachSum ==
  ASSUME NEW a \in Int, NEW b \in Int
  PROVE  Reach(a, b) = a * a + b * b + 2 * a + 2 * b
  BY DEF Reach

LEMMA SquareDistanceInt ==
  ASSUME NEW a \in Int, NEW b \in Int
  PROVE  /\ SquareDistance(a, b) \in Int
         /\ SquareDistance(a, b) = SquareDistance(b, a)
         /\ SquareDistance(-a, b) = SquareDistance(a, b)
         /\ SquareDistance(a, -b) = SquareDistance(a, b)
  BY DEF SquareDistance

\* A product of two numbers below side.
LEMMA SmallProduct ==
  ASSUME NEW side \in Nat, NEW a \in 0 .. side - 1
  PROVE  side * a \in Nat /\ side * a <= side * side - side
<1>1. side * a \in Nat /\ side * (side - 1 - a) \in Nat
  OBVIOUS
<1>2. side * (side - 1 - a) = side * side - side - side * a
  OBVIOUS
<1>3. QED
  BY <1>1, <1>2

\* One quadrant, or two, further on.
LEMMA ReachBelow ==
  ASSUME NEW side \in Nat, NEW a \in Nat, NEW b \in 0 .. side - 1
  PROVE  Reach(a, side + b) <= Reach(a, b) + 3 * (side * side)
<1>1. Reach(a, side + b) = Reach(a, b) + side * side + 2 * (side * b) + 2 * side
  BY DEF Reach
<1>2. side * b \in Nat /\ side * b <= side * side - side
  BY SmallProduct
<1>3. Reach(a, b) \in Int /\ side * side \in Int /\ Reach(a, side + b) \in Int
  BY DEF Reach
<1>4. QED
  BY <1>1, <1>2, <1>3

LEMMA ReachAcross ==
  ASSUME NEW side \in Nat, NEW a \in 0 .. side - 1, NEW b \in 0 .. side - 1
  PROVE  Reach(side + a, side + b) <= Reach(a, b) + 6 * (side * side)
<1>1. side + a \in Nat
  OBVIOUS
<1>2. Reach(side + a, side + b) <= Reach(side + a, b) + 3 * (side * side)
  BY <1>1, ReachBelow
<1>3. Reach(b, side + a) <= Reach(b, a) + 3 * (side * side)
  BY ReachBelow
<1>4. Reach(side + a, b) = Reach(b, side + a) /\ Reach(b, a) = Reach(a, b)
  BY ReachInt
<1>5. /\ Reach(side + a, side + b) \in Int /\ Reach(side + a, b) \in Int
      /\ Reach(a, b) \in Int /\ side * side \in Int
  BY ReachInt
<1>6. QED
  BY <1>2, <1>3, <1>4, <1>5

\* A rectangle of two squares.
LEMMA ReachWhole ==
  ASSUME NEW side \in Nat, NEW a \in 0 .. 2 * side - 1, NEW b \in 0 .. side - 1
  PROVE  Reach(a, b) <= 9 * (side * side)
<1>1. Reach(a, b) = (a + 1) * (a + 1) + (b + 1) * (b + 1) - 2
  BY DEF Reach
<1>2. (a + 1) * (a + 1) <= (2 * side) * (2 * side)
  <2>1. a + 1 \in Nat /\ 2 * side \in Nat /\ a + 1 <= 2 * side
    OBVIOUS
  <2>2. \A m, n \in Nat : m <= n => m * m <= n * n
    OBVIOUS
  <2>3. QED
    BY <2>1, <2>2
<1>3. (b + 1) * (b + 1) <= side * side
  <2>1. b + 1 \in Nat /\ b + 1 <= side
    OBVIOUS
  <2>2. \A m, n \in Nat : m <= n => m * m <= n * n
    OBVIOUS
  <2>3. QED
    BY <2>1, <2>2
<1>4. (2 * side) * (2 * side) = 4 * (side * side) /\ side * side \in Nat
  OBVIOUS
<1>5. (a + 1) * (a + 1) \in Nat /\ (b + 1) * (b + 1) \in Nat
  OBVIOUS
<1> DEFINE m == (a + 1) * (a + 1)
           n == (b + 1) * (b + 1)
           w == side * side
<1>6. m <= 4 * w /\ n <= w /\ w \in Nat /\ m \in Nat /\ n \in Nat /\ Reach(a, b) = m + n - 2
  BY <1>1, <1>2, <1>3, <1>4, <1>5
<1> HIDE DEF m, n, w
<1>7. Reach(a, b) <= 9 * w
  BY <1>6
<1>8. QED
  BY <1>7 DEF w

\* Over one border: d is (a1, a2) from the end of its quadrant, e is (b1, b2)
\* from the beginning of the next one, and the border is crossed along the
\* second coordinate.
LEMMA OverBorder ==
  ASSUME NEW a1 \in Nat, NEW a2 \in Nat, NEW b1 \in Nat, NEW b2 \in Nat,
         NEW a \in Int, NEW b \in Int, Reach(a1, a2) <= 3 * a, Reach(b1, b2) <= 3 * b
  PROVE  SquareDistance(b1 - a1, 1 + a2 + b2) <= 6 * (a + b) + 1
<1>1. SquareDistance(b1 - a1, 1 + a2 + b2) =
        a1 * a1 + b1 * b1 - 2 * (a1 * b1)
          + 1 + a2 * a2 + b2 * b2 + 2 * a2 + 2 * b2 + 2 * (a2 * b2)
  BY DEF SquareDistance
<1>2. 2 * (a2 * b2) <= a2 * a2 + b2 * b2
  <2>1. (a2 - b2) * (a2 - b2) >= 0
    OBVIOUS
  <2>2. (a2 - b2) * (a2 - b2) = a2 * a2 + b2 * b2 - 2 * (a2 * b2)
    OBVIOUS
  <2>3. QED
    BY <2>1, <2>2
<1>3. a1 * b1 \in Nat /\ a1 * a1 \in Nat /\ b1 * b1 \in Nat /\ a2 * a2 \in Nat /\ b2 * b2 \in Nat
      /\ a2 * b2 \in Nat
  OBVIOUS
<1>4. /\ a1 * a1 + a2 * a2 + 2 * a1 + 2 * a2 <= 3 * a
      /\ b1 * b1 + b2 * b2 + 2 * b1 + 2 * b2 <= 3 * b
  <2>1. /\ Reach(a1, a2) = a1 * a1 + a2 * a2 + 2 * a1 + 2 * a2
        /\ Reach(b1, b2) = b1 * b1 + b2 * b2 + 2 * b1 + 2 * b2
    BY ReachSum
  <2>2. QED
    BY <2>1
<1>5. QED
  BY <1>1, <1>2, <1>3, <1>4

\* With one quadrant between them.
LEMMA OverTwoBorders ==
  ASSUME NEW side \in Nat, NEW a1 \in 0 .. side - 1, NEW a2 \in Nat,
         NEW b1 \in 0 .. side - 1, NEW b2 \in Nat,
         NEW a \in Int, NEW b \in Int, Reach(a1, a2) <= 3 * a, Reach(b1, b2) <= 3 * b
  PROVE  SquareDistance(side + b1 - a1, 1 + a2 + b2) <= 6 * (side * side + a + b) + 1
<1>1. SquareDistance(b1 - a1, 1 + a2 + b2) <= 6 * (a + b) + 1
  BY OverBorder
<1>2. SquareDistance(side + b1 - a1, 1 + a2 + b2) =
        SquareDistance(b1 - a1, 1 + a2 + b2) + side * side + 2 * (side * b1) - 2 * (side * a1)
  BY DEF SquareDistance
<1>3. side * b1 \in Nat /\ side * b1 <= side * side - side /\ side * a1 \in Nat
  BY SmallProduct
<1>4. /\ SquareDistance(b1 - a1, 1 + a2 + b2) \in Int
      /\ SquareDistance(side + b1 - a1, 1 + a2 + b2) \in Int
      /\ side * side \in Int
  BY DEF SquareDistance
<1>5. QED
  BY <1>1, <1>2, <1>3, <1>4

\* From the first to the last quadrant.
LEMMA OverAll ==
  ASSUME NEW side \in Nat, NEW a \in Int, NEW b \in Int,
         -2 * side < a, a < 2 * side, -side < b, b < side
  PROVE  SquareDistance(a, b) <= 6 * (2 * (side * side))
<1>1. a * a <= (2 * side) * (2 * side)
  <2>1. (2 * side - a) * (2 * side + a) >= 0
    <3>1. 2 * side - a \in Nat /\ 2 * side + a \in Nat
      OBVIOUS
    <3>2. \A m, n \in Nat : m * n >= 0
      OBVIOUS
    <3>3. QED
      BY <3>1, <3>2
  <2>2. (2 * side - a) * (2 * side + a) = (2 * side) * (2 * side) - a * a
    OBVIOUS
  <2>3. QED
    BY <2>1, <2>2
<1>2. b * b <= side * side
  <2>1. (side - b) * (side + b) >= 0
    <3>1. side - b \in Nat /\ side + b \in Nat
      OBVIOUS
    <3>2. \A m, n \in Nat : m * n >= 0
      OBVIOUS
    <3>3. QED
      BY <3>1, <3>2
  <2>2. (side - b) * (side + b) = side * side - b * b
    OBVIOUS
  <2>3. QED
    BY <2>1, <2>2
<1>3. (2 * side) * (2 * side) = 4 * (side * side) /\ side * side \in Nat
  OBVIOUS
<1>4. a * a \in Int /\ b * b \in Int /\ SquareDistance(a, b) = a * a + b * b
  BY DEF SquareDistance
<1>5. QED
  BY <1>1, <1>2, <1>3, <1>4

-----------------------------------------------------------------------------
(* One iteration. *)

\* Four stretches become one.
LEMMA FourStretches ==
  ASSUME NEW w \in Nat, NEW r \in Nat
  PROVE  \E f \in Nat :
           /\ (r \div 4) * (4 * w) = 4 * f
           /\ \/ Rx(r) = 0 /\ Ry(r) = 0 /\ r * w = 4 * f
              \/ Rx(r) = 0 /\ Ry(r) = 1 /\ r * w = 4 * f + w
              \/ Rx(r) = 1 /\ Ry(r) = 1 /\ r * w = 4 * f + 2 * w
              \/ Rx(r) = 1 /\ Ry(r) = 0 /\ r * w = 4 * f + 3 * w
<1> DEFINE q == r \div 4
<1>1. q \in Nat
  OBVIOUS
<1>2. \/ Rx(r) = 0 /\ Ry(r) = 0 /\ r = 4 * q
      \/ Rx(r) = 0 /\ Ry(r) = 1 /\ r = 4 * q + 1
      \/ Rx(r) = 1 /\ Ry(r) = 1 /\ r = 4 * q + 2
      \/ Rx(r) = 1 /\ Ry(r) = 0 /\ r = 4 * q + 3
  BY Bits
<1> HIDE DEF q
<1>3. q * w \in Nat /\ q * (4 * w) = 4 * (q * w)
  BY <1>1
<1>4. /\ (4 * q) * w = 4 * (q * w)
      /\ (4 * q + 1) * w = 4 * (q * w) + w
      /\ (4 * q + 2) * w = 4 * (q * w) + 2 * w
      /\ (4 * q + 3) * w = 4 * (q * w) + 3 * w
  BY <1>1
<1>5. QED
  BY <1>2, <1>3, <1>4 DEF q

LEMMA StepPoint ==
  ASSUME NEW side \in Nat, NEW w \in Nat, w = side * side, NEW r \in Nat, NEW d \in Nat,
         NEW px \in 0 .. side - 1, NEW py \in 0 .. side - 1,
         Point(side, w, r, px, py, d)
  PROVE  Point(2 * side, 4 * w, r \div 4,
               XStep(side, px, py, r), YStep(side, px, py, r), d)
<1> DEFINE X == XStep(side, px, py, r)
           Y == YStep(side, px, py, r)
           vx == side - 1 - px
<1>1. PICK f \in Nat :
        /\ (r \div 4) * (4 * w) = 4 * f
        /\ \/ Rx(r) = 0 /\ Ry(r) = 0 /\ r * w = 4 * f
           \/ Rx(r) = 0 /\ Ry(r) = 1 /\ r * w = 4 * f + w
           \/ Rx(r) = 1 /\ Ry(r) = 1 /\ r * w = 4 * f + 2 * w
           \/ Rx(r) = 1 /\ Ry(r) = 0 /\ r * w = 4 * f + 3 * w
  BY FourStretches
<1>2. /\ r * w <= d /\ d < r * w + w
      /\ Reach(px, py) <= 3 * (d - r * w)
      /\ Reach(vx, py) <= 3 * (r * w + w - 1 - d)
  BY DEF Point
<1>3. /\ Reach(px, py) \in Int /\ Reach(py, px) = Reach(px, py)
      /\ Reach(vx, py) \in Int /\ Reach(py, vx) = Reach(vx, py)
      /\ vx \in 0 .. side - 1
  <2>1. px \in Int /\ py \in Int /\ vx \in Int /\ vx \in 0 .. side - 1
    OBVIOUS
  <2> HIDE DEF vx
  <2>2. Reach(px, py) \in Int /\ Reach(py, px) = Reach(px, py)
    BY <2>1, ReachInt
  <2>3. Reach(vx, py) \in Int /\ Reach(py, vx) = Reach(vx, py)
    BY <2>1, ReachInt
  <2>4. QED
    BY <2>1, <2>2, <2>3
<1>4. /\ 4 * f <= d /\ d < 4 * f + 4 * w
      /\ Reach(X, Y) <= 3 * (d - 4 * f)
      /\ Reach(2 * side - 1 - X, Y) <= 3 * (4 * f + 4 * w - 1 - d)
  <2>1. CASE Rx(r) = 0 /\ Ry(r) = 0 /\ r * w = 4 * f
    <3>1. X = py /\ Y = px
      BY <2>1 DEF XStep, YStep
    <3> DEFINE z == 2 * side - 1 - py
    <3>2. z \in 0 .. 2 * side - 1 /\ z \in Int /\ px \in Int
      BY <1>3
    <3>6. 2 * side - 1 - X = z
      BY <3>1
    <3> HIDE DEF z, X, Y
    <3>3. Reach(z, px) <= 9 * w
      BY <1>3, <3>2, ReachWhole
    <3>5. Reach(z, px) \in Int
      BY <3>2, ReachInt
    <3>4. QED
      BY <1>2, <1>3, <2>1, <3>1, <3>3, <3>5, <3>6
  <2>2. CASE Rx(r) = 0 /\ Ry(r) = 1 /\ r * w = 4 * f + w
    <3>1. X = px /\ Y = side + py /\ 2 * side - 1 - X = side + vx
      BY <2>2 DEF XStep, YStep
    <3>2. Reach(px, side + py) <= Reach(px, py) + 3 * w /\ Reach(px, side + py) \in Int
      BY ReachBelow, ReachInt
    <3>3. Reach(side + vx, side + py) <= Reach(vx, py) + 6 * w /\ Reach(side + vx, side + py) \in Int
      BY <1>3, ReachAcross, ReachInt
    <3> HIDE DEF X, Y, vx
    <3>4. QED
      BY <1>2, <1>3, <2>2, <3>1, <3>2, <3>3
  <2>3. CASE Rx(r) = 1 /\ Ry(r) = 1 /\ r * w = 4 * f + 2 * w
    <3>1. X = side + px /\ Y = side + py /\ 2 * side - 1 - X = vx
      BY <2>3 DEF XStep, YStep
    <3>2. Reach(side + px, side + py) <= Reach(px, py) + 6 * w /\ Reach(side + px, side + py) \in Int
      BY ReachAcross, ReachInt
    <3>3. Reach(vx, side + py) <= Reach(vx, py) + 3 * w /\ Reach(vx, side + py) \in Int
      BY <1>3, ReachBelow, ReachInt
    <3> HIDE DEF X, Y, vx
    <3>4. QED
      BY <1>2, <1>3, <2>3, <3>1, <3>2, <3>3
  <2>4. CASE Rx(r) = 1 /\ Ry(r) = 0 /\ r * w = 4 * f + 3 * w
    <3>1. X = 2 * side - 1 - py /\ Y = vx /\ 2 * side - 1 - X = py
      BY <2>4 DEF XStep, YStep
    <3> DEFINE z == 2 * side - 1 - py
    <3>2. z \in 0 .. 2 * side - 1 /\ z \in Int /\ vx \in Int
      BY <1>3
    <3>6. X = z
      BY <3>1
    <3> HIDE DEF z, X, Y, vx
    <3>3. Reach(z, vx) <= 9 * w
      BY <1>3, <3>2, ReachWhole
    <3>5. Reach(z, vx) \in Int
      BY <3>2, ReachInt
    <3>4. QED
      BY <1>2, <1>3, <2>4, <3>1, <3>3, <3>5, <3>6
  <2>5. QED
    BY <1>1, <2>1, <2>2, <2>3, <2>4
<1>5. QED
  BY <1>1, <1>4 DEF Point

\* Two points of one quadrant keep their distance.
Keeps(side, r, px, py, qx, qy) ==
  SquareDistance(XStep(side, qx, qy, r) - XStep(side, px, py, r),
                 YStep(side, qx, qy, r) - YStep(side, px, py, r))
    = SquareDistance(qx - px, qy - py)

LEMMA StepKeeps ==
  ASSUME NEW side \in Nat, NEW r \in Nat,
         NEW px \in 0 .. side - 1, NEW py \in 0 .. side - 1,
         NEW qx \in 0 .. side - 1, NEW qy \in 0 .. side - 1
  PROVE  Keeps(side, r, px, py, qx, qy)
<1>1. (Rx(r) = 0 \/ Rx(r) = 1) /\ (Ry(r) = 0 \/ Ry(r) = 1)
  BY Bits
<1> DEFINE dx == qx - px
           dy == qy - py
<1>2. \/ /\ XStep(side, qx, qy, r) - XStep(side, px, py, r) = dx
         /\ YStep(side, qx, qy, r) - YStep(side, px, py, r) = dy
      \/ /\ XStep(side, qx, qy, r) - XStep(side, px, py, r) = dy
         /\ YStep(side, qx, qy, r) - YStep(side, px, py, r) = dx
      \/ /\ XStep(side, qx, qy, r) - XStep(side, px, py, r) = -dy
         /\ YStep(side, qx, qy, r) - YStep(side, px, py, r) = -dx
  BY <1>1 DEF XStep, YStep
<1>3. dx \in Int /\ dy \in Int /\ -dx \in Int /\ -dy \in Int
  OBVIOUS
<1> HIDE DEF dx, dy
<1>4. /\ SquareDistance(dy, dx) = SquareDistance(dx, dy)
      /\ SquareDistance(-dy, -dx) = SquareDistance(dx, dy)
  BY <1>3 DEF SquareDistance
<1>5. QED
  BY <1>2, <1>4 DEF dx, dy, Keeps

\* Two points of different quadrants of one square.
LEMMA StepNear ==
  ASSUME NEW side \in Nat, NEW w \in Nat, w = side * side,
         NEW r \in Nat, NEW t \in Nat, r # t, r \div 4 = t \div 4,
         NEW d \in Nat, NEW e \in Nat, d < e,
         NEW px \in 0 .. side - 1, NEW py \in 0 .. side - 1, Point(side, w, r, px, py, d),
         NEW qx \in 0 .. side - 1, NEW qy \in 0 .. side - 1, Point(side, w, t, qx, qy, e)
  PROVE  SquareDistance(XStep(side, qx, qy, t) - XStep(side, px, py, r),
                        YStep(side, qx, qy, t) - YStep(side, px, py, r)) <= 6 * (e - d)
<1> DEFINE dx == XStep(side, qx, qy, t) - XStep(side, px, py, r)
           dy == YStep(side, qx, qy, t) - YStep(side, px, py, r)
           vx == side - 1 - px
           a == r * w + w - 1 - d
           b == e - t * w
           In(i, u, f) == \/ i = 0 /\ Rx(u) = 0 /\ Ry(u) = 0 /\ u * w = 4 * f
                          \/ i = 1 /\ Rx(u) = 0 /\ Ry(u) = 1 /\ u * w = 4 * f + w
                          \/ i = 2 /\ Rx(u) = 1 /\ Ry(u) = 1 /\ u * w = 4 * f + 2 * w
                          \/ i = 3 /\ Rx(u) = 1 /\ Ry(u) = 0 /\ u * w = 4 * f + 3 * w
<1>0. \A u \in Nat : \E f \in Nat : (u \div 4) * (4 * w) = 4 * f /\ \E i \in 0 .. 3 : In(i, u, f)
  <2> TAKE u \in Nat
  <2>1. PICK f \in Nat :
          /\ (u \div 4) * (4 * w) = 4 * f
          /\ \/ Rx(u) = 0 /\ Ry(u) = 0 /\ u * w = 4 * f
             \/ Rx(u) = 0 /\ Ry(u) = 1 /\ u * w = 4 * f + w
             \/ Rx(u) = 1 /\ Ry(u) = 1 /\ u * w = 4 * f + 2 * w
             \/ Rx(u) = 1 /\ Ry(u) = 0 /\ u * w = 4 * f + 3 * w
    BY FourStretches
  <2>2. In(0, u, f) \/ In(1, u, f) \/ In(2, u, f) \/ In(3, u, f)
    BY <2>1
  <2>3. \E i \in 0 .. 3 : In(i, u, f)
    <3>1. 0 \in 0 .. 3 /\ 1 \in 0 .. 3 /\ 2 \in 0 .. 3 /\ 3 \in 0 .. 3
      OBVIOUS
    <3> HIDE DEF In
    <3>2. QED
      BY <2>2, <3>1
  <2>4. QED
    BY <2>1, <2>3
<1>1. PICK f \in Nat : (r \div 4) * (4 * w) = 4 * f /\ \E i \in 0 .. 3 : In(i, r, f)
  BY <1>0
<1>2. PICK g \in Nat : (t \div 4) * (4 * w) = 4 * g /\ \E j \in 0 .. 3 : In(j, t, g)
  BY <1>0
<1>3. f = g
  BY <1>1, <1>2
<1>4. PICK i \in 0 .. 3 : In(i, r, f)
  BY <1>1
<1>5. PICK j \in 0 .. 3 : In(j, t, f)
  BY <1>2, <1>3
<1>6. /\ r * w \in Nat /\ t * w \in Nat
      /\ r * w <= d /\ t * w <= e
      /\ d < r * w + w /\ e < t * w + w
      /\ Reach(vx, py) <= 3 * a /\ Reach(qx, qy) <= 3 * b
      /\ a \in Nat /\ b \in Nat
  BY DEF Point
<1>7. i # j
  BY <1>4, <1>5, Bits
<1>8. i < j
  <2>1. r * w < t * w + w
    BY <1>6
  <2>2. QED
    BY <1>4, <1>5, <1>6, <1>7, <2>1
<1>9. /\ Reach(py, vx) <= 3 * a /\ Reach(qy, qx) <= 3 * b
      /\ vx \in 0 .. side - 1
      /\ vx \in Nat /\ py \in Nat /\ qx \in Nat /\ qy \in Nat
      /\ a \in Int /\ b \in Int
  BY <1>6, ReachInt
<1>10. e - d = t * w - r * w - w + 1 + a + b
  BY <1>6
<1>11. CASE i = 0 /\ j = 1
  <2>1. dx = qx - py /\ dy = 1 + vx + qy /\ t * w - r * w = w
    BY <1>4, <1>5, <1>11 DEF XStep, YStep
  <2> HIDE DEF a, b, vx, dx, dy
  <2>2. SquareDistance(qx - py, 1 + vx + qy) <= 6 * (a + b) + 1
    BY <1>6, <1>9, OverBorder
  <2>3. SquareDistance(qx - py, 1 + vx + qy) \in Int
    BY <1>9, SquareDistanceInt
  <2>4. SquareDistance(dx, dy) <= 6 * (e - d)
    BY <1>6, <1>10, <2>1, <2>2, <2>3
  <2>5. QED
    BY <2>4 DEF dx, dy
<1>12. CASE i = 1 /\ j = 2
  <2>1. dx = 1 + vx + qx /\ dy = qy - py /\ t * w - r * w = w
    BY <1>4, <1>5, <1>12 DEF XStep, YStep
  <2> HIDE DEF a, b, vx, dx, dy
  <2>2. SquareDistance(qy - py, 1 + vx + qx) <= 6 * (a + b) + 1
    BY <1>6, <1>9, OverBorder
  <2>3. /\ SquareDistance(qy - py, 1 + vx + qx) \in Int
        /\ SquareDistance(qy - py, 1 + vx + qx) = SquareDistance(1 + vx + qx, qy - py)
    BY <1>9 DEF SquareDistance
  <2>4. SquareDistance(dx, dy) <= 6 * (e - d)
    BY <1>6, <1>10, <2>1, <2>2, <2>3
  <2>5. QED
    BY <2>4 DEF dx, dy
<1>13. CASE i = 2 /\ j = 3
  <2>1. dx = -(qy - vx) /\ dy = -(1 + py + qx) /\ t * w - r * w = w
    BY <1>4, <1>5, <1>13 DEF XStep, YStep
  <2> HIDE DEF a, b, vx, dx, dy
  <2>2. SquareDistance(qy - vx, 1 + py + qx) <= 6 * (a + b) + 1
    BY <1>6, <1>9, OverBorder
  <2>3. /\ SquareDistance(qy - vx, 1 + py + qx) \in Int
        /\ SquareDistance(-(qy - vx), -(1 + py + qx)) = SquareDistance(qy - vx, 1 + py + qx)
    BY <1>9 DEF SquareDistance
  <2>4. SquareDistance(dx, dy) <= 6 * (e - d)
    BY <1>6, <1>10, <2>1, <2>2, <2>3
  <2>5. QED
    BY <2>4 DEF dx, dy
<1>14. CASE i = 0 /\ j = 2
  <2>1. dx = side + qx - py /\ dy = 1 + vx + qy /\ t * w - r * w = 2 * w
    BY <1>4, <1>5, <1>14 DEF XStep, YStep
  <2> HIDE DEF a, b, vx, dx, dy
  <2>2. SquareDistance(side + qx - py, 1 + vx + qy) <= 6 * (side * side + a + b) + 1
    BY <1>6, <1>9, OverTwoBorders
  <2>3. SquareDistance(side + qx - py, 1 + vx + qy) \in Int
    BY <1>9 DEF SquareDistance
  <2>4. SquareDistance(dx, dy) <= 6 * (e - d)
    BY <1>6, <1>10, <2>1, <2>2, <2>3
  <2>5. QED
    BY <2>4 DEF dx, dy
<1>15. CASE i = 1 /\ j = 3
  <2>1. dx = side + vx - qy /\ dy = -(1 + qx + py) /\ t * w - r * w = 2 * w
    BY <1>4, <1>5, <1>15 DEF XStep, YStep
  <2> HIDE DEF a, b, vx, dx, dy
  <2>2. SquareDistance(side + vx - qy, 1 + qx + py) <= 6 * (side * side + b + a) + 1
    BY <1>6, <1>9, OverTwoBorders
  <2>3. /\ SquareDistance(side + vx - qy, 1 + qx + py) \in Int
        /\ SquareDistance(side + vx - qy, -(1 + qx + py)) =
             SquareDistance(side + vx - qy, 1 + qx + py)
    BY <1>9 DEF SquareDistance
  <2>4. SquareDistance(dx, dy) <= 6 * (e - d)
    BY <1>6, <1>10, <2>1, <2>2, <2>3
  <2>5. QED
    BY <2>4 DEF dx, dy
<1>16. CASE i = 0 /\ j = 3
  <2>1. dx = 2 * side - 1 - qy - py /\ dy = side - 1 - qx - px /\ t * w - r * w = 3 * w
    BY <1>4, <1>5, <1>16 DEF XStep, YStep
  <2>2. dx \in Int /\ dy \in Int /\ -2 * side < dx /\ dx < 2 * side /\ -side < dy /\ dy < side
    BY <2>1
  <2> HIDE DEF a, b, vx, dx, dy
  <2>3. SquareDistance(dx, dy) <= 6 * (2 * w)
    BY <2>2, OverAll
  <2>4. SquareDistance(dx, dy) \in Int
    BY <2>2, SquareDistanceInt
  <2>5. SquareDistance(dx, dy) <= 6 * (e - d)
    BY <1>6, <1>10, <2>1, <2>3, <2>4
  <2>6. QED
    BY <2>5 DEF dx, dy
<1>17. QED
  BY <1>8, <1>11, <1>12, <1>13, <1>14, <1>15, <1>16

LEMMA SpreadInit == Init => SpreadInv
<1> SUFFICES ASSUME Init PROVE SpreadInv
  OBVIOUS
<1>1. s = 1 /\ \A d \in Positions : x[d] = 0 /\ y[d] = 0 /\ rest[d] = d
  BY DEF Init
<1>2. \A d \in Nat : Point(1, 1 * 1, d, 0, 0, d)
  BY DEF Point, Reach
<1>3. NearCorners
  BY <1>1, <1>2, PositionsNat DEF NearCorners
<1>4. NearEachOther
  BY <1>1, PositionsNat DEF NearEachOther
<1>5. QED
  BY <1>3, <1>4 DEF SpreadInv

LEMMA SpreadStep == CurveInv /\ SpreadInv /\ [Next]_vars => SpreadInv'
<1> SUFFICES ASSUME CurveInv, SpreadInv, [Next]_vars PROVE SpreadInv'
  OBVIOUS
<1>1. CASE Iterate
  <2>1. PICK k \in 0 .. Order : s = Shift[k] /\ Square(Remaining(k))
    BY DEF CurveInv
  <2> DEFINE w == s * s
  <2>2. s \in Nat /\ w \in Nat
    BY <2>1, ShiftPositive
  <2>3. \A d \in Positions : rest[d] \in Nat /\ x[d] \in 0 .. s - 1 /\ y[d] \in 0 .. s - 1
    BY <2>1 DEF Square, Stretches, Inside
  <2>4. /\ s' = 2 * s /\ (s * s)' = 4 * w /\ Positions' = Positions
        /\ \A d \in Positions : /\ x'[d] = XStep(s, x[d], y[d], rest[d])
                                /\ y'[d] = YStep(s, x[d], y[d], rest[d])
                                /\ rest'[d] = rest[d] \div 4
    BY <1>1, <2>2 DEF Iterate, Positions, Side
  <2>5. \A d \in Positions : Point(s, w, rest[d], x[d], y[d], d)
    BY DEF SpreadInv, NearCorners
  <2>6. w = s * s
    OBVIOUS
  <2> HIDE DEF w
  <2>7. NearCorners'
    <3> SUFFICES ASSUME NEW d \in Positions
                 PROVE  Point(2 * s, 4 * w, rest'[d], x'[d], y'[d], d)
      BY <2>4 DEF NearCorners
    <3>1. d \in Nat
      BY PositionsNat
    <3>2. Point(2 * s, 4 * w, rest[d] \div 4, XStep(s, x[d], y[d], rest[d]),
                YStep(s, x[d], y[d], rest[d]), d)
      BY <2>2, <2>3, <2>5, <2>6, <3>1, StepPoint
    <3>3. QED
      BY <2>4, <3>2
  <2>8. NearEachOther'
    <3> SUFFICES ASSUME NEW d \in Positions, NEW e \in Positions, d < e,
                        rest[d] \div 4 = rest[e] \div 4
                 PROVE  SquareDistance(XStep(s, x[e], y[e], rest[e]) - XStep(s, x[d], y[d], rest[d]),
                                       YStep(s, x[e], y[e], rest[e]) - YStep(s, x[d], y[d], rest[d]))
                          <= 6 * (e - d)
      BY <2>4 DEF NearEachOther
    <3>1. d \in Nat /\ e \in Nat
      BY PositionsNat
    <3>2. CASE rest[d] = rest[e]
      <4>1. SquareDistance(x[e] - x[d], y[e] - y[d]) <= 6 * (e - d)
        BY <3>2 DEF SpreadInv, NearEachOther
      <4>2. Keeps(s, rest[e], x[d], y[d], x[e], y[e])
        BY <2>2, <2>3, StepKeeps
      <4>3. QED
        BY <3>2, <4>1, <4>2 DEF Keeps
    <3>3. CASE rest[d] # rest[e]
      BY <2>2, <2>3, <2>5, <2>6, <3>1, <3>3, StepNear
    <3>4. QED
      BY <3>2, <3>3
  <2>9. QED
    BY <2>7, <2>8 DEF SpreadInv
<1>2. CASE ~Iterate
  <2>1. s' = s /\ x' = x /\ y' = y /\ rest' = rest
    BY <1>2 DEF Next, WriteLinear, LinearDone, CurveDone, Paint, PaintDone, vars, curveVars
  <2>2. QED
    BY <2>1 DEF SpreadInv, NearCorners, NearEachOther, Positions, Side
<1>3. QED
  BY <1>1, <1>2

(* Bytes that are k apart in the file are at most Sqrt(6 * k) apart in the  *)
(* picture, for every order.                                                *)
THEOREM Nearness == Spec => []NearbyStaysNear
<1>1. IInv /\ SpreadInv => NearbyStaysNear
  <2> SUFFICES ASSUME IInv, SpreadInv, Curved, NEW d \in Positions, NEW e \in Positions, d < e
               PROVE  LET dx == x[e] - x[d]
                          dy == y[e] - y[d]
                      IN  dx * dx + dy * dy <= 6 * (e - d)
    BY DEF NearbyStaysNear
  <2>1. Square(1)
    BY Finished DEF IInv
  <2>2. rest[d] = 0 /\ rest[e] = 0
    BY <2>1 DEF Square, Stretches
  <2>3. SquareDistance(x[e] - x[d], y[e] - y[d]) <= 6 * (e - d)
    BY <2>2 DEF SpreadInv, NearEachOther
  <2>4. QED
    BY <2>3 DEF SquareDistance
<1>2. Init => IInv /\ SpreadInv
  BY InitHolds, SpreadInit
<1>3. IInv /\ SpreadInv /\ [Next]_vars => (IInv /\ SpreadInv)'
  BY NextHolds, SpreadStep DEF IInv
<1>4. QED
  BY <1>1, <1>2, <1>3, PTL DEF Spec
=============================================================================
