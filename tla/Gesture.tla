------------------------------ MODULE Gesture ------------------------------
(***************************************************************************)
(* The arithmetic of one mouse gesture (src/app_runtime.c): a pattern is a *)
(* sequence of movement vectors that sum to nothing, and every vector is   *)
(* sent as SegmentFrames relative HID reports whose signed bytes must add  *)
(* up to exactly that vector.                                              *)
(***************************************************************************)
EXTENDS Integers, Sequences

CONSTANTS
    SegmentFrames,  \* APP_RUNTIME_SEGMENT_FRAMES, reports per vector (30)
    MaxMovePx       \* JIGGLER_MAX_MOVE_PX, the largest movement (2000)

(* One report is a signed byte per axis, so a frame must not have to carry *)
(* more than 127; 2000 over 30 frames stays below 126 + 1.                 *)
ASSUME GestureAssumption ==
    /\ SegmentFrames \in Nat \ {0}
    /\ MaxMovePx \in Nat \ {0}
    /\ MaxMovePx <= 126 * SegmentFrames

Patterns == {"HORIZONTAL", "VERTICAL", "SQUARE", "RANDOM"}

(* A pair of axis values, <<x, y>>.                                        *)
Vector == Int \X Int
Origin == <<0, 0>>
Plus(u, v) == <<u[1] + v[1], u[2] + v[2]>>
Opposite(u) == <<-u[1], -u[2]>>

(* Division in C rounds towards zero.                                      *)
CDiv(a, b) == IF a >= 0 THEN a \div b ELSE -((-a) \div b)

(* Where a segment of length total must be after the given frame.          *)
Target(total, frame) == CDiv(total * frame, SegmentFrames)

(* The (uint8_t) cast of a report field, and the signed byte the host      *)
(* reads back from it.                                                     *)
Byte(d) == d % 256
SignedByte(b) == IF b < 128 THEN b ELSE b - 256

(* The report of one frame, or rejection of a frame or a total out of      *)
(* range.                                                                  *)
InterpolateAccepts(total, frame) ==
    /\ frame \in 1..SegmentFrames
    /\ \A axis \in {1, 2} : total[axis] \in -MaxMovePx..MaxMovePx

(* Mutant: every frame moves by the same rounded share.                    *)
InterpolateStepEven(total, frame) ==
    <<Byte(CDiv(total[1], SegmentFrames)), Byte(CDiv(total[2], SegmentFrames))>>

InterpolateStep(total, frame) ==
    <<Byte(Target(total[1], frame) - Target(total[1], frame - 1)),
      Byte(Target(total[2], frame) - Target(total[2], frame - 1))>>

(* How far the host's pointer moves when it receives a report.             *)
HostMove(report) == <<SignedByte(report[1]), SignedByte(report[2])>>

(* The targets JIGGLE_RANDOM can draw: the generator's two remainders are  *)
(* any point of the square but its centre, which is replaced by <<m, 0>>.  *)
RandomTargets(m) == ((-m..m) \X (-m..m)) \ {Origin}

(* Mutant: the line swings to both sides of its start.                     *)
MovementVectorsBothSides(settings) ==
    LET m == settings.move_px
    IN  {<< <<m, 0>>, <<-2 * m, 0>>, <<m, 0>> >>}

(* Mutant: the count of the square's vectors is one short.                 *)
MovementVectorsThree(settings) ==
    LET m == settings.move_px
    IN  {<< <<m, 0>>, <<0, m>>, <<-m, 0>> >>}

(* The vector sequences a gesture may follow; only JIGGLE_RANDOM has a     *)
(* choice.                                                                 *)
MovementVectors(settings) ==
    LET m == settings.move_px
    IN  CASE settings.pattern = "HORIZONTAL" -> {<< <<m, 0>>, <<-m, 0>> >>}
          [] settings.pattern = "VERTICAL"   -> {<< <<0, m>>, <<0, -m>> >>}
          [] settings.pattern = "SQUARE" ->
                {<< <<m, 0>>, <<0, m>>, <<-m, 0>>, <<0, -m>> >>}
          [] settings.pattern = "RANDOM" ->
                {<<t, Opposite(t)>> : t \in RandomTargets(m)}
=============================================================================
