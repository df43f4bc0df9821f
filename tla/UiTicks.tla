------------------------------ MODULE UiTicks -------------------------------
(***************************************************************************)
(* The clock of the input tracker.  The program reads SDL_GetTicks, whose  *)
(* 32 bits wrap after 49 days, and stores the ticks of events; UiInput     *)
(* keeps how long ago they were.  Here the tracker has both, side by       *)
(* side: what the code decides by its ticks, and the ages it means.        *)
(***************************************************************************)
EXTENDS UiInput

CONSTANT HalfWord  \* 2^31

Word == 2 * HalfWord

(* The times are short of a word, 49 days, and a repeat is never due more  *)
(* than half a word from now.                                              *)
TicksAssumption ==
    /\ HalfWord \in Nat \ {0}
    /\ Dedupe < Word /\ HeldLimit < Word
    /\ RepeatDelay <= HalfWord

VARIABLES
    ticks,       \* SDL_GetTicks, as the loop has read it last
    heldSince,   \* held_since
    nextRepeat,  \* next_repeat
    lastAt       \* last_action_at

stampVars == <<heldSince, nextRepeat, lastAt>>
ticksVars == <<trackerVars, ticks, stampVars>>

(* A difference of two uint32_t is one, too.                               *)
Since(stamp) == (ticks - stamp) % Word

(* A difference is read as int32_t: the upper half is negative.            *)
Ahead(stamp) == Since(stamp) >= HalfWord

RepeatDueByTicks == held # "NONE" /\ ~Ahead(nextRepeat)

DuplicateByTicks(action) ==
    \/ action \in Directions /\ held = action
    \/ last = action /\ Since(lastAt) < Dedupe

TicksInit ==
    /\ TrackerInit
    /\ ticks = 0
    /\ heldSince = 0 /\ nextRepeat = 0 /\ lastAt = 0

(* ui_input_tracker_event.                                                 *)
TicksEvent(source, value) ==
    /\ TrackerEvent(source, value)
    /\ IF value = "NONE" \/ DuplicateByTicks(value)
         THEN UNCHANGED stampVars
         ELSE /\ lastAt' = ticks
              /\ IF value \in Directions
                   THEN heldSince' = ticks /\ nextRepeat' = (ticks + RepeatDelay) % Word
                   ELSE UNCHANGED <<heldSince, nextRepeat>>
    /\ UNCHANGED ticks

(* ui_input_tracker_repeat.                                                *)
TicksRepeat ==
    /\ RepeatDueByTicks
    /\ TrackerRepeat
    /\ nextRepeat' = (ticks + RepeatRate) % Word
    /\ UNCHANGED <<ticks, heldSince, lastAt>>

(* Nobody holds a direction, or does nothing, for 49 days, and the loop    *)
(* does not leave a repeat undone for half of that.                        *)
InUse ==
    /\ last # "NONE" => Since(lastAt) < Word - 1
    /\ held # "NONE" => /\ Since(heldSince) < Word - 1
                        /\ Since(nextRepeat) # HalfWord - 1

(* A millisecond.                                                          *)
TicksPass ==
    /\ InUse
    /\ ticks' = (ticks + 1) % Word
    /\ TrackerTick
    /\ UNCHANGED stampVars

TicksNext ==
    \/ \E source \in Sources, value \in Actions \union {"NONE"} : TicksEvent(source, value)
    \/ TicksRepeat
    \/ TicksPass

TicksSpec == TicksInit /\ [][TicksNext]_ticksVars

----------------------------------------------------------------------------
(* Whatever the ticks are when a direction is pressed, and however often   *)
(* they wrap afterwards: repeats and duplicates are told by the ticks as   *)
(* by the time that has passed, and so is the time of the hold.            *)
TicksTellTheTime ==
    /\ RepeatDueByTicks <=> RepeatDue
    /\ \A action \in Actions : DuplicateByTicks(action) <=> Duplicate(action)
    /\ held # "NONE" =>
         heldFor = IF Since(heldSince) < HeldLimit THEN Since(heldSince) ELSE HeldLimit
=============================================================================
