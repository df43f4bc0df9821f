--------------------------- MODULE GestureProofs ---------------------------
(***************************************************************************)
(* The arithmetic of a gesture, for every number of frames and every       *)
(* distance that fits: what TLC checks in MC_EmitCycle at 30 frames.       *)
(***************************************************************************)
EXTENDS Gesture, TLAPS

(* Rounding towards zero stays within the product of the divisor.          *)
LEMMA DivBounds ==
    ASSUME NEW a \in Nat, NEW n \in Nat \ {0}
    PROVE  /\ a \div n \in Nat
           /\ n * (a \div n) <= a
           /\ a < n * (a \div n) + n
  BY SMTT(30)

(* The position wanted after a frame is a whole number of pixels.          *)
LEMMA TargetTyped ==
    ASSUME GestureAssumption, NEW t \in Int, NEW f \in Int
    PROVE  Target(t, f) \in Int
<1>1. t * f \in Int /\ SegmentFrames \in Nat \ {0}
  BY DEF GestureAssumption
<1>2. \A a \in Int : CDiv(a, SegmentFrames) \in Int
  BY <1>1 DEF CDiv
<1>. QED
  BY <1>1, <1>2 DEF Target

(* A segment starts at 0 and ends at its total: nothing is lost.           *)
LEMMA TargetEnds ==
    ASSUME GestureAssumption, NEW t \in Int
    PROVE  Target(t, 0) = 0 /\ Target(t, SegmentFrames) = t
<1>. DEFINE n == SegmentFrames
<1>1. n \in Nat \ {0}
  BY DEF GestureAssumption
<1>2. ASSUME NEW a \in Nat PROVE (a * n) \div n = a
  <2>. DEFINE q == (a * n) \div n
  <2>1. a * n \in Nat
    BY <1>1
  <2>2. q \in Nat /\ n * q <= a * n /\ a * n < n * q + n
    BY <1>1, <2>1, DivBounds
  <2>. HIDE DEF q
  <2>3. q <= a
    BY <1>1, <2>2, SMTT(30)
  <2>4. a <= q
    BY <1>1, <2>2, SMTT(30)
  <2>5. q = a
    BY <2>2, <2>3, <2>4
  <2>. QED
    BY <2>5 DEF q
<1>3. Target(t, 0) = 0
  <2>1. t * 0 = 0 /\ 0 \div n = 0
    BY <1>1, <1>2
  <2>. QED
    BY <2>1 DEF Target, CDiv
<1>4. CASE t >= 0
  <2>1. t * n >= 0
    BY <1>1, <1>4
  <2>. QED
    BY <1>2, <1>3, <1>4, <2>1 DEF Target, CDiv
<1>5. CASE t < 0
  <2>1. -(t * n) = (-t) * n /\ -t \in Nat
    BY <1>1, <1>5
  <2>2. ~(t * n >= 0)
    BY <1>1, <1>5
  <2>3. ((-t) * n) \div n = -t
    BY <1>2, <2>1
  <2>. QED
    BY <1>3, <2>1, <2>2, <2>3 DEF Target, CDiv
<1>. QED
  BY <1>4, <1>5

(* The quotients of two numbers at most 126 n apart differ by at most 126. *)
LEMMA QuotientStep ==
    ASSUME NEW n \in Nat \ {0}, NEW p \in Nat, NEW t \in Nat, t <= 126 * n
    PROVE  (p + t) \div n - p \div n \in 0..126
<1>. DEFINE lo == p \div n
            hi == (p + t) \div n
<1>1. lo \in Nat /\ n * lo <= p /\ p < n * lo + n
  BY DivBounds
<1>2. hi \in Nat /\ n * hi <= p + t /\ p + t < n * hi + n
  BY DivBounds
<1>. HIDE DEF lo, hi
<1>3. n * lo < n * (hi + 1)
  BY <1>1, <1>2
<1>4. n * hi < n * (lo + 127)
  BY <1>1, <1>2
<1>5. lo < hi + 1
  BY <1>1, <1>2, <1>3, SMTT(30)
<1>6. hi < lo + 127
  BY <1>1, <1>2, <1>4, SMTT(30)
<1>7. hi - lo \in 0..126
  BY <1>1, <1>2, <1>5, <1>6
<1>. QED
  BY <1>7 DEF lo, hi

(* No frame of a segment moves further than the signed byte of a report    *)
(* can say, with room to spare (src/app_runtime.c:323-343).                *)
THEOREM FrameFits ==
    ASSUME GestureAssumption,
           NEW t \in -MaxMovePx..MaxMovePx, NEW f \in 1..SegmentFrames
    PROVE  Target(t, f) - Target(t, f - 1) \in -127..127
<1>. DEFINE n == SegmentFrames
<1>1. n \in Nat \ {0} /\ MaxMovePx <= 126 * n /\ MaxMovePx \in Nat /\ f \in Nat
      /\ f - 1 \in Nat
  BY DEF GestureAssumption
<1>2. ASSUME NEW u \in Nat, u <= 126 * n
      PROVE  (u * f) \div n - (u * (f - 1)) \div n \in 0..126
  <2>1. u * (f - 1) \in Nat /\ u * f = u * (f - 1) + u
    BY <1>1
  <2>. QED
    BY <1>1, <1>2, <2>1, QuotientStep
<1>3. CASE t >= 0
  <2>1. t \in Nat /\ t <= 126 * n /\ t * f >= 0 /\ t * (f - 1) >= 0
    BY <1>1, <1>3
  <2>. QED
    BY <1>2, <2>1 DEF Target, CDiv
<1>4. CASE t < 0
  <2>. DEFINE u == -t
  <2>1. u \in Nat /\ u <= 126 * n
    BY <1>1, <1>4
  <2>2. t * f \in Int /\ t * f < 0 /\ -(t * f) = u * f
    BY <1>1, <1>4
  <2>3. t * (f - 1) \in Int /\ t * (f - 1) <= 0 /\ -(t * (f - 1)) = u * (f - 1)
    BY <1>1, <1>4
  <2>4. (u * f) \div n \in Int /\ (u * (f - 1)) \div n \in Int
    BY <1>1, <2>1
  <2>5. Target(t, f) = -((u * f) \div n)
    BY <2>2 DEF Target, CDiv
  <2>6. Target(t, f - 1) = -((u * (f - 1)) \div n)
    <3>1. CASE t * (f - 1) < 0
      BY <2>3, <3>1 DEF Target, CDiv
    <3>2. CASE t * (f - 1) = 0
      <4>1. u * (f - 1) = 0 /\ 0 \div n = 0
        BY <1>1, <2>3, <3>2
      <4>. QED
        BY <3>2, <4>1 DEF Target, CDiv
    <3>. QED
      BY <2>3, <3>1, <3>2
  <2>7. (u * f) \div n - (u * (f - 1)) \div n \in 0..126
    BY <1>2, <2>1
  <2>. HIDE DEF u
  <2>. QED
    BY <2>4, <2>5, <2>6, <2>7
<1>. QED
  BY <1>3, <1>4

(* The cast to uint8_t and the host's reading of the byte cancel.          *)
LEMMA ByteRoundTrip ==
    \A d \in -128..127 : SignedByte(Byte(d)) = d
  BY DEF SignedByte, Byte

(* So a report moves the host's pointer by the difference of two targets.  *)
LEMMA ReportMoves ==
    ASSUME GestureAssumption, NEW total \in Vector, NEW f \in Int,
           InterpolateAccepts(total, f)
    PROVE  HostMove(InterpolateStep(total, f)) =
             <<Target(total[1], f) - Target(total[1], f - 1),
               Target(total[2], f) - Target(total[2], f - 1)>>
<1>1. /\ f \in 1..SegmentFrames
      /\ total[1] \in -MaxMovePx..MaxMovePx
      /\ total[2] \in -MaxMovePx..MaxMovePx
  BY DEF InterpolateAccepts
<1>. DEFINE dx == Target(total[1], f) - Target(total[1], f - 1)
            dy == Target(total[2], f) - Target(total[2], f - 1)
<1>2. dx \in -127..127 /\ dy \in -127..127
  BY <1>1, FrameFits
<1>. HIDE DEF dx, dy
<1>3. SignedByte(Byte(dx)) = dx /\ SignedByte(Byte(dy)) = dy
  BY <1>2, ByteRoundTrip
<1>4. HostMove(<<Byte(dx), Byte(dy)>>) = <<dx, dy>>
  BY <1>3 DEF HostMove
<1>. QED
  BY <1>4 DEF dx, dy, InterpolateStep

(* A plan of two or four vectors of legal length that sum to nothing.      *)
ClosedPlan(vs) ==
    /\ vs \in Seq(Vector)
    /\ \A k \in 1..Len(vs) : \A axis \in {1, 2} :
         vs[k][axis] \in -MaxMovePx..MaxMovePx
    /\ \/ Len(vs) = 2 /\ Plus(vs[1], vs[2]) = Origin
       \/ Len(vs) = 4
          /\ Plus(Plus(vs[1], vs[2]), Plus(vs[3], vs[4])) = Origin

(* The sizes of such a plan: the array of emit_cycle has four elements.    *)
LEMMA PlanLength ==
    ASSUME NEW vs, ClosedPlan(vs)
    PROVE  vs \in Seq(Vector) /\ Len(vs) \in Nat /\ Len(vs) <= 4
<1>1. vs \in Seq(Vector) /\ (Len(vs) = 2 \/ Len(vs) = 4)
  BY Zenon DEF ClosedPlan
<1>2. \A n : n = 2 \/ n = 4 => n \in Nat /\ n <= 4
  OBVIOUS
<1>. QED
  BY <1>1, <1>2, Zenon

(* build_movement_vectors makes only closed plans, for every profile       *)
(* (src/app_runtime.c:282-321).                                            *)
THEOREM PlansClose ==
    ASSUME GestureAssumption,
           NEW s, s.pattern \in Patterns, s.move_px \in 1..MaxMovePx,
           NEW vs \in MovementVectors(s)
    PROVE  ClosedPlan(vs)
<1>. DEFINE m == s.move_px
<1>1. m \in 1..MaxMovePx /\ m \in Nat /\ -m \in -MaxMovePx..MaxMovePx
      /\ 0 \in -MaxMovePx..MaxMovePx /\ MaxMovePx \in Nat
  BY DEF GestureAssumption
<1>. HIDE DEF m
<1>2. CASE s.pattern = "HORIZONTAL"
  <2>1. vs = << <<m, 0>>, <<-m, 0>> >>
    BY <1>2 DEF MovementVectors, m
  <2>. QED
    BY <1>1, <2>1 DEF ClosedPlan, Vector, Plus, Origin
<1>3. CASE s.pattern = "VERTICAL"
  <2>1. vs = << <<0, m>>, <<0, -m>> >>
    BY <1>3 DEF MovementVectors, m
  <2>. QED
    BY <1>1, <2>1 DEF ClosedPlan, Vector, Plus, Origin
<1>4. CASE s.pattern = "SQUARE"
  <2>1. vs = << <<m, 0>>, <<0, m>>, <<-m, 0>>, <<0, -m>> >>
    BY <1>4 DEF MovementVectors, m
  <2>. QED
    BY <1>1, <2>1 DEF ClosedPlan, Vector, Plus, Origin
<1>5. CASE s.pattern = "RANDOM"
  <2>1. PICK t \in RandomTargets(m) : vs = <<t, Opposite(t)>>
    BY <1>5 DEF MovementVectors, m
  <2>2. PICK x \in -m..m, y \in -m..m : t = <<x, y>>
    BY <2>1 DEF RandomTargets
  <2>3. vs = << <<x, y>>, <<-x, -y>> >>
    BY <2>1, <2>2 DEF Opposite
  <2>4. /\ x \in -MaxMovePx..MaxMovePx /\ -x \in -MaxMovePx..MaxMovePx
        /\ y \in -MaxMovePx..MaxMovePx /\ -y \in -MaxMovePx..MaxMovePx
    BY <1>1, <2>2
  <2>. QED
    BY <2>3, <2>4 DEF ClosedPlan, Vector, Plus, Origin
<1>. QED
  BY <1>2, <1>3, <1>4, <1>5 DEF Patterns
=============================================================================
