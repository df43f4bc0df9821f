-------------------------- MODULE EmitCycleProofs --------------------------
(***************************************************************************)
(* A gesture that is played to its end leaves the host's pointer where it  *)
(* was, for every pattern, distance and number of frames.                  *)
(***************************************************************************)
EXTENDS EmitCycle, GestureProofs

USE GestureAssumption, EmitAssumption

(* What a gesture in progress keeps: a plan that closes, a place inside    *)
(* it, and the pointer on the way the plan prescribes.                     *)
Played ==
    /\ EmitTypeOK
    /\ vectors = << >> \/ ClosedPlan(vectors)
    /\ vec \in 1..(Len(vectors) + 1)
    /\ Complete => frame = 1
    /\ OnPath

(* The corners of a plan of typed vectors are points.                      *)
LEMMA CornerTyped ==
    ASSUME NEW vs \in Seq(Vector), Len(vs) <= 4, NEW n \in 0..Len(vs)
    PROVE  /\ Corner(vs, n) \in Vector
           /\ n > 0 => Corner(vs, n) = Plus(Corner(vs, n - 1), vs[n])
           /\ Corner(vs, 0) = Origin
<1>. DEFINE part(m, k) == IF k <= m THEN vs[k] ELSE Origin
<1>1. \A k \in 1..Len(vs) : vs[k] \in Vector
  OBVIOUS
<1>2. \A m \in 0..Len(vs), k \in 1..4 : part(m, k) \in Vector
  BY <1>1 DEF Vector, Origin
<1>3. \A m \in 0..Len(vs) :
        Corner(vs, m) = Plus(Plus(part(m, 1), part(m, 2)),
                             Plus(part(m, 3), part(m, 4)))
  BY DEF Corner
<1>4. \A u, v \in Vector : Plus(u, v) \in Vector
  BY DEF Plus, Vector
<1>5. Corner(vs, n) \in Vector
  <2>. HIDE DEF part
  <2>. QED
    BY <1>2, <1>3, <1>4
<1>6. Corner(vs, 0) = Origin
  BY <1>3 DEF Plus, Origin
<1>7. ASSUME n > 0
      PROVE  Corner(vs, n) = Plus(Corner(vs, n - 1), vs[n])
  <2>1. n \in 1..4 /\ n - 1 \in 0..Len(vs)
    BY <1>7
  <2>2. \A k \in 1..4 : k # n => part(n, k) = part(n - 1, k)
    BY <2>1
  <2>3. part(n, n) = vs[n] /\ part(n - 1, n) = Origin
    BY <2>1
  <2>4. ASSUME NEW a \in Vector, NEW b \in Vector, NEW c \in Vector,
               NEW d \in Vector
        PROVE  /\ Plus(Plus(a, b), Plus(c, d)) = Plus(Plus(Plus(Origin, b), Plus(c, d)), a)
               /\ Plus(Plus(a, b), Plus(c, d)) = Plus(Plus(Plus(a, Origin), Plus(c, d)), b)
               /\ Plus(Plus(a, b), Plus(c, d)) = Plus(Plus(Plus(a, b), Plus(Origin, d)), c)
               /\ Plus(Plus(a, b), Plus(c, d)) = Plus(Plus(Plus(a, b), Plus(c, Origin)), d)
    <3>1. PICK a1 \in Int, a2 \in Int : a = <<a1, a2>>
      BY DEF Vector
    <3>2. PICK b1 \in Int, b2 \in Int : b = <<b1, b2>>
      BY DEF Vector
    <3>3. PICK c1 \in Int, c2 \in Int : c = <<c1, c2>>
      BY DEF Vector
    <3>4. PICK d1 \in Int, d2 \in Int : d = <<d1, d2>>
      BY DEF Vector
    <3>5. Plus(Plus(a, b), Plus(c, d)) = <<a1 + b1 + c1 + d1, a2 + b2 + c2 + d2>>
      BY <3>1, <3>2, <3>3, <3>4 DEF Plus
    <3>6. Plus(Plus(Plus(Origin, b), Plus(c, d)), a)
            = <<a1 + b1 + c1 + d1, a2 + b2 + c2 + d2>>
      BY <3>1, <3>2, <3>3, <3>4 DEF Plus, Origin
    <3>7. Plus(Plus(Plus(a, Origin), Plus(c, d)), b)
            = <<a1 + b1 + c1 + d1, a2 + b2 + c2 + d2>>
      BY <3>1, <3>2, <3>3, <3>4 DEF Plus, Origin
    <3>8. Plus(Plus(Plus(a, b), Plus(Origin, d)), c)
            = <<a1 + b1 + c1 + d1, a2 + b2 + c2 + d2>>
      BY <3>1, <3>2, <3>3, <3>4 DEF Plus, Origin
    <3>9. Plus(Plus(Plus(a, b), Plus(c, Origin)), d)
            = <<a1 + b1 + c1 + d1, a2 + b2 + c2 + d2>>
      BY <3>1, <3>2, <3>3, <3>4 DEF Plus, Origin
    <3>. QED
      BY <3>5, <3>6, <3>7, <3>8, <3>9
  <2>5. \A k \in 1..4 : part(n, k) \in Vector /\ part(n - 1, k) \in Vector
    BY <1>2, <2>1
  <2>6. /\ Corner(vs, n) = Plus(Plus(part(n, 1), part(n, 2)),
                                Plus(part(n, 3), part(n, 4)))
        /\ Corner(vs, n - 1) = Plus(Plus(part(n - 1, 1), part(n - 1, 2)),
                                    Plus(part(n - 1, 3), part(n - 1, 4)))
    BY <1>3, <2>1
  <2>. HIDE DEF part
  <2>7. n = 1 \/ n = 2 \/ n = 3 \/ n = 4
    BY <2>1
  <2>. QED
    BY <2>2, <2>3, <2>4, <2>5, <2>6, <2>7
<1>. QED
  BY <1>5, <1>6, <1>7

(* The start of a vector is the corner it leaves, its last frame reaches   *)
(* the next one, and after the last vector there is only the last corner.  *)
LEMMA Waypoints ==
    ASSUME NEW vs \in Seq(Vector), Len(vs) <= 4
    PROVE  /\ \A k \in 1..(Len(vs) + 1) : Waypoint(vs, k, 1) = Corner(vs, k - 1)
           /\ \A k \in 1..Len(vs), f \in 1..SegmentFrames :
                /\ Waypoint(vs, k, f) =
                     Plus(Corner(vs, k - 1),
                          <<Target(vs[k][1], f - 1), Target(vs[k][2], f - 1)>>)
                /\ Waypoint(vs, k, f) \in Vector
           /\ \A k \in 1..Len(vs) :
                Plus(Corner(vs, k - 1), <<Target(vs[k][1], SegmentFrames),
                                          Target(vs[k][2], SegmentFrames)>>)
                  = Corner(vs, k)
<1>1. \A k \in 1..Len(vs) :
        /\ vs[k] \in Vector /\ vs[k][1] \in Int /\ vs[k][2] \in Int
        /\ vs[k] = <<vs[k][1], vs[k][2]>>
  BY DEF Vector
<1>2. \A n \in 0..Len(vs) : Corner(vs, n) \in Vector
  BY CornerTyped
<1>3. \A u \in Vector : Plus(u, <<0, 0>>) = u
  BY DEF Plus, Vector
<1>4. ASSUME NEW k \in 1..(Len(vs) + 1)
      PROVE  Waypoint(vs, k, 1) = Corner(vs, k - 1)
  <2>1. CASE k = Len(vs) + 1
    BY <2>1 DEF Waypoint
  <2>2. CASE k \in 1..Len(vs)
    <3>1. Target(vs[k][1], 0) = 0 /\ Target(vs[k][2], 0) = 0
      BY <1>1, <2>2, TargetEnds
    <3>2. Waypoint(vs, k, 1) = Plus(Corner(vs, k - 1), <<0, 0>>)
      BY <2>2, <3>1 DEF Waypoint
    <3>. QED
      BY <1>2, <1>3, <2>2, <3>2
  <2>. QED
    BY <2>1, <2>2
<1>5. ASSUME NEW k \in 1..Len(vs), NEW f \in 1..SegmentFrames
      PROVE  /\ Waypoint(vs, k, f) =
                  Plus(Corner(vs, k - 1),
                       <<Target(vs[k][1], f - 1), Target(vs[k][2], f - 1)>>)
             /\ Waypoint(vs, k, f) \in Vector
  <2>1. ~(k > Len(vs))
    OBVIOUS
  <2>2. Waypoint(vs, k, f) =
          Plus(Corner(vs, k - 1),
               <<Target(vs[k][1], f - 1), Target(vs[k][2], f - 1)>>)
    BY <2>1 DEF Waypoint
  <2>3. Target(vs[k][1], f - 1) \in Int /\ Target(vs[k][2], f - 1) \in Int
    <3>1. vs[k][1] \in Int /\ vs[k][2] \in Int /\ f - 1 \in Int
      BY <1>1
    <3>. QED
      BY <3>1, TargetTyped
  <2>4. Corner(vs, k - 1) \in Vector
    BY <1>2
  <2>5. \A u \in Vector, a, b \in Int : Plus(u, <<a, b>>) \in Vector
    BY DEF Plus, Vector
  <2>. QED
    BY <2>2, <2>3, <2>4, <2>5
<1>6. ASSUME NEW k \in 1..Len(vs)
      PROVE  Plus(Corner(vs, k - 1), <<Target(vs[k][1], SegmentFrames),
                                       Target(vs[k][2], SegmentFrames)>>)
               = Corner(vs, k)
  <2>1. Target(vs[k][1], SegmentFrames) = vs[k][1]
        /\ Target(vs[k][2], SegmentFrames) = vs[k][2]
    BY <1>1, TargetEnds
  <2>2. Corner(vs, k) = Plus(Corner(vs, k - 1), vs[k])
    BY CornerTyped
  <2>. QED
    BY <1>1, <2>1, <2>2
<1>. QED
  BY <1>4, <1>5, <1>6

(* Before the first gesture the invariant holds: no report is out.         *)
LEMMA EmitInitPlayed == Init => Played
<1>. SUFFICES ASSUME Init PROVE Played
  OBVIOUS
<1>1. /\ vectors = << >> /\ vec = 1 /\ frame = 1 /\ cursor = Origin
  BY DEF Init, EmitInit
<1>2. /\ vectors \in Seq(Vector) /\ Len(vectors) = 0 /\ Len(vectors) <= 4
      /\ 0 \in 0..Len(vectors)
  BY <1>1
<1>3. Corner(vectors, 0) = Origin
  BY <1>2, CornerTyped
<1>4. Waypoint(vectors, 1, 1) = Corner(vectors, 0)
  BY <1>2 DEF Waypoint
<1>. QED
  BY <1>1, <1>2, <1>3, <1>4
     DEF Played, EmitTypeOK, Complete, OnPath, Vector, Origin, GestureAssumption

(* build_movement_vectors starts a gesture at its first corner.            *)
LEMMA BeginPlayed == Begin => Played'
<1>. SUFFICES ASSUME NEW s \in Settings, EmitBegin(s) PROVE Played'
  BY DEF Begin
<1>1. /\ vectors' \in MovementVectors(s)
      /\ vec' = 1 /\ frame' = 1 /\ cursor' = Origin
  BY DEF EmitBegin
<1>2. ClosedPlan(vectors')
  BY <1>1, PlansClose
<1>3. /\ vectors' \in Seq(Vector) /\ Len(vectors') <= 4
      /\ Len(vectors') \in {2, 4} /\ 1 \in 1..(Len(vectors') + 1)
  BY <1>2 DEF ClosedPlan
<1>4. Waypoint(vectors', 1, 1) = Origin
  <2>1. Corner(vectors', 0) = Origin
    BY <1>3, CornerTyped
  <2>2. Waypoint(vectors', 1, 1) = Corner(vectors', 1 - 1)
    BY <1>3, Waypoints
  <2>. QED
    BY <2>1, <2>2
<1>. QED
  BY <1>1, <1>2, <1>3, <1>4
     DEF Played, EmitTypeOK, Complete, OnPath, Vector, Origin, GestureAssumption

(* One iteration of emit_cycle's inner loop keeps the pointer on the plan. *)
LEMMA ReportPlayed == Played /\ EmitReport => Played'
<1>. SUFFICES ASSUME Played, EmitReport PROVE Played'
  OBVIOUS
<1>1. /\ EmitTypeOK /\ OnPath /\ ~Complete /\ vectors' = vectors
      /\ InterpolateAccepts(vectors[vec], frame)
  BY DEF Played, EmitReport
<1>2. /\ ClosedPlan(vectors) /\ vec \in 1..Len(vectors) /\ frame \in 1..SegmentFrames
      /\ vectors \in Seq(Vector) /\ Len(vectors) <= 4
      /\ vec - 1 \in 0..Len(vectors) /\ vec \in 1..(Len(vectors) + 1)
  <2>1. /\ vec \in 1..(Len(vectors) + 1) /\ ~(vec > Len(vectors))
        /\ vectors = << >> \/ ClosedPlan(vectors)
        /\ vectors \in Seq(Vector) /\ frame \in 1..SegmentFrames
    BY <1>1 DEF Played, Complete, EmitTypeOK
  <2>2. vectors # << >>
    BY <2>1
  <2>3. ClosedPlan(vectors)
    BY <2>1, <2>2
  <2>4. Len(vectors) <= 4
    BY <2>3, PlanLength, Zenon
  <2>5. vec \in 1..Len(vectors) /\ vec - 1 \in 0..Len(vectors)
    BY <2>1
  <2>. QED
    BY <2>1, <2>3, <2>4, <2>5
<1>. DEFINE tx == vectors[vec][1]
            ty == vectors[vec][2]
<1>3. vectors[vec] \in Vector /\ tx \in Int /\ ty \in Int
  BY <1>2 DEF Vector
<1>4. HostMove(InterpolateStep(vectors[vec], frame)) =
        <<Target(tx, frame) - Target(tx, frame - 1),
          Target(ty, frame) - Target(ty, frame - 1)>>
  BY <1>1, <1>2, <1>3, ReportMoves
<1>5. PICK cx \in Int, cy \in Int : Corner(vectors, vec - 1) = <<cx, cy>>
  <2>1. Corner(vectors, vec - 1) \in Vector
    BY <1>2, CornerTyped
  <2>. QED
    BY <2>1 DEF Vector
<1>6. cursor = <<cx + Target(tx, frame - 1), cy + Target(ty, frame - 1)>>
  <2>1. Waypoint(vectors, vec, frame) =
          Plus(Corner(vectors, vec - 1), <<Target(tx, frame - 1), Target(ty, frame - 1)>>)
    BY <1>2, Waypoints
  <2>. QED
    BY <1>1, <1>5, <2>1 DEF OnPath, Plus
<1>7. /\ Target(tx, frame) \in Int /\ Target(tx, frame - 1) \in Int
      /\ Target(ty, frame) \in Int /\ Target(ty, frame - 1) \in Int
  <2>1. frame \in Int /\ frame - 1 \in Int
    BY <1>2
  <2>. QED
    BY <1>3, <2>1, TargetTyped
<1>8. cursor' = Plus(Corner(vectors, vec - 1), <<Target(tx, frame), Target(ty, frame)>>)
      /\ cursor' \in Vector
  <2>1. cursor' = Plus(cursor, HostMove(InterpolateStep(vectors[vec], frame)))
    BY DEF EmitReport
  <2>. QED
    BY <1>4, <1>5, <1>6, <1>7, <2>1 DEF Plus, Vector
<1>. HIDE DEF tx, ty
<1>9. CASE frame < SegmentFrames
  <2>1. frame' = frame + 1 /\ vec' = vec
    BY <1>9 DEF EmitReport
  <2>2. frame + 1 \in 1..SegmentFrames /\ (frame + 1) - 1 = frame
    BY <1>2, <1>9
  <2>3. Waypoint(vectors, vec, frame + 1) =
          Plus(Corner(vectors, vec - 1),
               <<Target(vectors[vec][1], (frame + 1) - 1),
                 Target(vectors[vec][2], (frame + 1) - 1)>>)
    BY <1>2, <2>2, Waypoints
  <2>4. OnPath'
    BY <1>1, <1>8, <2>1, <2>2, <2>3 DEF OnPath, tx, ty
  <2>. QED
    BY <1>1, <1>2, <1>8, <2>1, <2>2, <2>4 DEF Played, EmitTypeOK, Complete
<1>10. CASE frame = SegmentFrames
  <2>1. frame' = 1 /\ vec' = vec + 1
    BY <1>10 DEF EmitReport
  <2>2. cursor' = Corner(vectors, vec)
    <3>1. Plus(Corner(vectors, vec - 1), <<Target(vectors[vec][1], SegmentFrames),
                                          Target(vectors[vec][2], SegmentFrames)>>)
            = Corner(vectors, vec)
      BY <1>2, Waypoints
    <3>. QED
      BY <1>8, <1>10, <3>1 DEF tx, ty
  <2>3. vec + 1 \in 1..(Len(vectors) + 1) /\ (vec + 1) - 1 = vec
    BY <1>2
  <2>4. Waypoint(vectors, vec + 1, 1) = Corner(vectors, (vec + 1) - 1)
    BY <1>2, <2>3, Waypoints
  <2>5. OnPath'
    BY <1>1, <2>1, <2>2, <2>3, <2>4 DEF OnPath
  <2>. QED
    BY <1>1, <1>2, <1>8, <2>1, <2>3, <2>5
       DEF Played, EmitTypeOK, Complete, GestureAssumption
<1>. QED
  BY <1>2, <1>9, <1>10

(* A step that leaves the locals of emit_cycle alone keeps the invariant.  *)
LEMMA StutterPlayed == Played /\ UNCHANGED emitVars => Played'
  BY DEF Played, emitVars, EmitTypeOK, Complete, OnPath

(* Whatever gestures follow each other, the invariant always holds.        *)
LEMMA AlwaysPlayed == Spec => []Played
<1>1. Init => Played
  BY EmitInitPlayed
<1>2. Played /\ [Next]_emitVars => Played'
  BY BeginPlayed, ReportPlayed, StutterPlayed DEF Next
<1>. QED
  BY <1>1, <1>2, PTL DEF Spec

(* The pointer is on the planned path after every report.                  *)
THEOREM PointerOnPath == Spec => []OnPath
<1>1. Played => OnPath
  BY DEF Played
<1>. QED
  BY <1>1, AlwaysPlayed, PTL

(* A plan that closes has been followed to its end.                        *)
LEMMA PlayedReturns == Played => ReturnsHome
<1>. SUFFICES ASSUME Played, Complete PROVE cursor = Origin
  BY DEF ReturnsHome
<1>1. /\ cursor = Waypoint(vectors, vec, frame)
      /\ vec = Len(vectors) + 1 /\ frame = 1
      /\ vectors \in Seq(Vector)
  BY DEF Played, OnPath, Complete, EmitTypeOK
<1>2. cursor = Corner(vectors, Len(vectors))
  BY <1>1 DEF Waypoint
<1>3. CASE vectors = << >>
  <2>1. Len(vectors) = 0
    BY <1>3
  <2>. QED
    BY <1>2, <2>1 DEF Corner, Plus, Origin
<1>4. CASE ClosedPlan(vectors)
  <2>1. CASE Len(vectors) = 2 /\ Plus(vectors[1], vectors[2]) = Origin
    BY <1>2, <2>1 DEF Corner, Plus, Origin
  <2>2. CASE Len(vectors) = 4 /\ Plus(Plus(vectors[1], vectors[2]),
                                      Plus(vectors[3], vectors[4])) = Origin
    BY <1>2, <2>2 DEF Corner
  <2>. QED
    BY <1>4, <2>1, <2>2 DEF ClosedPlan
<1>. QED
  BY <1>3, <1>4 DEF Played

(* A complete gesture has returned the pointer to its starting position.   *)
THEOREM GestureReturnsHome == Spec => []ReturnsHome
  BY PlayedReturns, AlwaysPlayed, PTL

(* Every report a gesture is about to send fits the report descriptor.     *)
THEOREM ReportsFit == Spec => []StepFitsReport
<1>1. Played => StepFitsReport
  <2>. SUFFICES ASSUME Played, ~Complete
       PROVE \A axis \in {1, 2} :
               Target(vectors[vec][axis], frame)
                 - Target(vectors[vec][axis], frame - 1) \in -127..127
    BY DEF StepFitsReport
  <2>1. /\ vec \in 1..(Len(vectors) + 1) /\ ~(vec > Len(vectors))
        /\ vectors = << >> \/ ClosedPlan(vectors)
        /\ vectors \in Seq(Vector) /\ frame \in 1..SegmentFrames
    BY DEF Played, Complete, EmitTypeOK
  <2>2. vec \in 1..Len(vectors) /\ ClosedPlan(vectors)
    BY <2>1
  <2>. DEFINE v == vectors[vec]
  <2>3. /\ v \in Vector
        /\ v[1] \in -MaxMovePx..MaxMovePx /\ v[2] \in -MaxMovePx..MaxMovePx
    BY <2>1, <2>2 DEF ClosedPlan
  <2>. HIDE DEF v
  <2>4. /\ Target(v[1], frame) - Target(v[1], frame - 1) \in -127..127
        /\ Target(v[2], frame) - Target(v[2], frame - 1) \in -127..127
    BY <2>1, <2>3, FrameFits
  <2>. QED
    BY <2>4 DEF v
<1>. QED
  BY <1>1, AlwaysPlayed, PTL
----------------------------------------------------------------------------
(* Progress.                                                               *)

(* A gesture in progress, in numbers: n vectors are left of at most four,  *)
(* the current one included, and each takes SegmentFrames reports.         *)
LEMMA ReportsCounted ==
    ASSUME NEW n \in 0..4, NEW f \in 1..SegmentFrames
    PROVE  /\ SegmentFrames \in Nat \ {0}
           /\ MaxReports \in Nat
           /\ n * SegmentFrames \in 0..MaxReports
           /\ n > 0 => /\ n * SegmentFrames - f + 1 \in 1..MaxReports
                       /\ (n - 1) * SegmentFrames = n * SegmentFrames - SegmentFrames
<1>1. SegmentFrames \in Nat \ {0}
  BY GestureAssumption DEF GestureAssumption
<1>2. n = 0 \/ n = 1 \/ n = 2 \/ n = 3 \/ n = 4
  OBVIOUS
<1>. QED
  BY <1>1, <1>2 DEF MaxReports

(* What the plan says about them.                                          *)
LEMMA PlanInNumbers ==
    ASSUME Played
    PROVE  /\ Len(vectors) \in Nat /\ vec \in Nat /\ frame \in 1..SegmentFrames
           /\ Len(vectors) - vec + 1 \in 0..4
           /\ Complete <=> Len(vectors) - vec + 1 = 0
<1>1. vectors = << >> \/ ClosedPlan(vectors)
  BY DEF Played
<1>2. Len(vectors) \in 0..4
  <2>1. CASE vectors = << >>
    BY <2>1
  <2>2. CASE ClosedPlan(vectors)
    <3>1. Len(vectors) \in Nat /\ Len(vectors) <= 4
      BY <2>2, PlanLength
    <3>2. \A n : n \in Nat /\ n <= 4 => n \in 0..4
      OBVIOUS
    <3>. QED
      BY <3>1, <3>2, Zenon
  <2>. QED
    BY <1>1, <2>1, <2>2
<1>3. vec \in 1..(Len(vectors) + 1) /\ frame \in 1..SegmentFrames
  BY DEF Played, EmitTypeOK
<1>4. Complete <=> vec > Len(vectors)
  BY DEF Complete
<1>. DEFINE len == Len(vectors)
<1>. HIDE DEF len
<1>5. len \in 0..4 /\ vec \in 1..(len + 1) /\ (Complete <=> vec > len)
  BY <1>2, <1>3, <1>4 DEF len
<1>6. len \in Nat /\ vec \in Nat /\ len - vec + 1 \in 0..4
      /\ (Complete <=> len - vec + 1 = 0)
  BY <1>5
<1>. QED
  BY <1>3, <1>6 DEF len

(* No gesture has more than its four times SegmentFrames reports.          *)
LEMMA ReportsBounded ==
    ASSUME Played
    PROVE  ReportsLeft \in 0..MaxReports /\ MaxReports \in Nat
<1>. DEFINE n == Len(vectors) - vec + 1
<1>1. n \in 0..4 /\ frame \in 1..SegmentFrames /\ (Complete <=> n = 0)
  BY PlanInNumbers
<1>2. ReportsLeft = IF Complete THEN 0 ELSE n * SegmentFrames - frame + 1
  BY DEF ReportsLeft
<1>. HIDE DEF n
<1>3. MaxReports \in Nat
  BY <1>1, ReportsCounted
<1>4. CASE n = 0
  BY <1>1, <1>2, <1>3, <1>4
<1>5. CASE n > 0
  <2>1. n * SegmentFrames - frame + 1 \in 1..MaxReports
    BY <1>1, <1>5, ReportsCounted
  <2>. QED
    BY <1>1, <1>2, <1>3, <1>5, <2>1
<1>. QED
  BY <1>1, <1>4, <1>5

(* Every report that is sent is one less to send.                          *)
LEMMA ReportCounts ==
    ASSUME Played, EmitReport
    PROVE  ReportsLeft' = ReportsLeft - 1
<1>. DEFINE n == Len(vectors) - vec + 1
<1>1. /\ n \in 0..4 /\ frame \in 1..SegmentFrames /\ (Complete <=> n = 0)
      /\ Len(vectors) \in Nat /\ vec \in Nat
  BY PlanInNumbers
<1>2. n > 0 /\ ReportsLeft = n * SegmentFrames - frame + 1
  BY <1>1 DEF ReportsLeft, EmitReport
<1>3. /\ (n - 1) * SegmentFrames = n * SegmentFrames - SegmentFrames
      /\ n * SegmentFrames \in Nat /\ SegmentFrames \in Nat \ {0}
  <2>. HIDE DEF n
  <2>. QED
    BY <1>1, <1>2, ReportsCounted
<1>4. UNCHANGED vectors
  BY DEF EmitReport
<1>5. ReportsLeft' = IF vec' > Len(vectors) THEN 0
                     ELSE (Len(vectors) - vec' + 1) * SegmentFrames - frame' + 1
  BY <1>4 DEF ReportsLeft, Complete
<1>6. CASE frame < SegmentFrames
  <2>1. frame' = frame + 1 /\ vec' = vec
    BY <1>6 DEF EmitReport
  <2>2. ~(vec' > Len(vectors))
    BY <1>1, <1>2, <2>1
  <2>3. ReportsLeft' = n * SegmentFrames - (frame + 1) + 1
    BY <1>5, <2>1, <2>2
  <2>. HIDE DEF n
  <2>. QED
    BY <1>1, <1>2, <1>3, <2>3
<1>7. CASE ~(frame < SegmentFrames)
  <2>1. frame' = 1 /\ vec' = vec + 1 /\ frame = SegmentFrames
    BY <1>1, <1>3, <1>7 DEF EmitReport
  <2>2. CASE n = 1
    <3>1. vec' > Len(vectors)
      BY <1>1, <2>1, <2>2
    <3>2. n * SegmentFrames = SegmentFrames
      BY <1>3, <2>2
    <3>3. ReportsLeft' = 0
      BY <1>5, <3>1
    <3>. HIDE DEF n
    <3>. QED
      BY <1>2, <1>3, <2>1, <3>2, <3>3
  <2>3. CASE n # 1
    <3>1. ~(vec' > Len(vectors)) /\ Len(vectors) - vec' + 1 = n - 1
      BY <1>1, <1>2, <2>1, <2>3
    <3>2. ReportsLeft' = (n - 1) * SegmentFrames - 1 + 1
      BY <1>5, <2>1, <3>1
    <3>. HIDE DEF n
    <3>. QED
      BY <1>1, <1>2, <1>3, <2>1, <3>2
  <2>. QED
    BY <2>2, <2>3
<1>. QED
  BY <1>6, <1>7
=============================================================================
