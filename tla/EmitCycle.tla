----------------------------- MODULE EmitCycle -----------------------------
(***************************************************************************)
(* emit_cycle of src/app_runtime.c: play one gesture on the HID device,    *)
(* report after report, until it is complete or a write fails.  AppRuntime *)
(* instantiates the actions; here they run on their own, so that the       *)
(* arithmetic can be checked at the program's real constants.              *)
(***************************************************************************)
EXTENDS Gesture

CONSTANT
    Settings   \* the settings a gesture can be started with

ASSUME EmitAssumption ==
    \A settings \in Settings :
        settings.pattern \in Patterns /\ settings.move_px \in 1..MaxMovePx

VARIABLES
    vectors,   \* vectors of the gesture being played, << >> before the first
    vec,       \* vector_index + 1: the vector being played
    frame,     \* the frame to send next
    cursor     \* where the host's pointer is, relative to where this
               \* gesture found it

emitVars == <<vectors, vec, frame, cursor>>

EmitInit ==
    /\ vectors = << >>
    /\ vec = 1
    /\ frame = 1
    /\ cursor = Origin

(* All reports of the gesture have been sent.                              *)
Complete == vec > Len(vectors)

(* build_movement_vectors, then the loops start at the first frame.        *)
EmitBegin(settings) ==
    /\ vectors' \in MovementVectors(settings)
    /\ vec' = 1
    /\ frame' = 1
    /\ cursor' = Origin

(* One iteration of the inner loop: the report is accepted by the kernel   *)
(* and the host moves its pointer.                                         *)
EmitReport ==
    /\ ~Complete
    /\ InterpolateAccepts(vectors[vec], frame)
    /\ cursor' = Plus(cursor, HostMove(InterpolateStep(vectors[vec], frame)))
    /\ IF frame < SegmentFrames
         THEN frame' = frame + 1 /\ UNCHANGED vec
         ELSE frame' = 1 /\ vec' = vec + 1
    /\ UNCHANGED vectors

----------------------------------------------------------------------------
(* The gesture on its own: begin with any settings whenever the previous   *)
(* gesture is complete or was broken off by a failed write.                *)
Init == EmitInit

Begin == \E settings \in Settings : EmitBegin(settings)

Next == Begin \/ EmitReport

Spec == Init /\ [][Next]_emitVars

----------------------------------------------------------------------------
EmitTypeOK ==
    /\ vectors \in Seq(Vector)
    /\ vec \in Nat \ {0}
    /\ frame \in 1..SegmentFrames
    /\ cursor \in Vector

(* The corner of a gesture reached after its first n vectors; no pattern   *)
(* has more than four.                                                     *)
Corner(vs, n) ==
    LET part(k) == IF k <= n THEN vs[k] ELSE Origin
    IN  Plus(Plus(part(1), part(2)), Plus(part(3), part(4)))

(* The point frame f of vector k starts from, according to the plan.       *)
Waypoint(vs, k, f) ==
    IF k > Len(vs)
      THEN Corner(vs, Len(vs))
      ELSE Plus(Corner(vs, k - 1),
                <<Target(vs[k][1], f - 1), Target(vs[k][2], f - 1)>>)

(* What is still to be sent: the rest of this segment and those behind it. *)
ReportsLeft ==
    IF Complete THEN 0
                ELSE (Len(vectors) - vec + 1) * SegmentFrames - frame + 1

(* The most a gesture ever has to send.                                    *)
MaxReports == 4 * SegmentFrames

(* Rounding and the passage through signed bytes lose nothing: after every *)
(* report the host's pointer is exactly where the interpolation of         *)
(* app_runtime_interpolate_step wants it, for all patterns and distances.  *)
OnPath == cursor = Waypoint(vectors, vec, frame)

(* Each timer event "returns the cursor to its starting position": the     *)
(* reports of a complete gesture cancel each other to the pixel.           *)
ReturnsHome == Complete => cursor = Origin

(* The report descriptor declares a range of -127..127 per axis; the move  *)
(* that emit_cycle is about to make fits it before it is cast to a byte.   *)
StepFitsReport ==
    ~Complete =>
        \A axis \in {1, 2} :
            Target(vectors[vec][axis], frame) - Target(vectors[vec][axis], frame - 1)
                \in -127..127
=============================================================================
