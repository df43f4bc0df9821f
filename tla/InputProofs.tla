----------------------------- MODULE InputProofs -----------------------------
(***************************************************************************)
(* The tracker's held direction, for all controls, sources and delays, and *)
(* its clock, for words of any width.                                      *)
(***************************************************************************)
EXTENDS InputDelivery, UiTicks, SequenceTheorems, WellFoundedInduction, TLAPS

Asks(source) == {ActionOf[Feeds[source][i]] : i \in DOMAIN Feeds[source]}

(* A source reports only what it can ask for.                              *)
ReportInv ==
    \A source \in Sources :
        /\ queue[source] \in Seq(Asks(source) \union {"NONE"})
        /\ seen[source] \in Asks(source) \union {"NONE"}

(* Who holds the direction, and that no report of another one can pass for *)
(* a duplicate while it is held.                                           *)
HoldInv ==
    /\ held = "NONE" => heldBy = "none" /\ second = "none"
    /\ held # "NONE" => heldBy \in Sources
    /\ held # "NONE" /\ last \in Directions => last = held
    /\ HeldIsPressed

InputInv == TypeOK /\ ReportInv /\ HoldInv

-----------------------------------------------------------------------------
(* What a source reports is the action of a control that is pressed, or    *)
(* none.                                                                   *)
LEMMA ValueIsPressed ==
    ASSUME NEW source \in Sources, NEW pressed
    PROVE  IF Active(source, pressed) = {}
             THEN Value(source, pressed) = "NONE"
             ELSE \E i \in DOMAIN Feeds[source] :
                    /\ Feeds[source][i] \in pressed
                    /\ Value(source, pressed) = ActionOf[Feeds[source][i]]
PROOF
<1> DEFINE active == Active(source, pressed)
           first  == CHOOSE i \in active : \A j \in active : i <= j
<1>. USE DEF Active
<1>1. CASE active = {}
  BY <1>1 DEF Value
<1>2. CASE active # {}
  <2>1. Feeds[source] \in Seq(Controls)
    BY DeliveryAssumption
  <2>2. DOMAIN Feeds[source] = 1..Len(Feeds[source]) /\ Len(Feeds[source]) \in Nat
    BY <2>1, LenProperties
  <2>3. active \subseteq Nat
    BY <2>2
  <2>4. \E x \in active : \A y \in active : x <= y
    <3>. HIDE DEF active
    <3>1. PICK x \in active : \A y \in active : <<y, x>> \notin OpToRel(<, Nat)
      BY <1>2, <2>3, NatLessThanWellFounded, WFMin
    <3>2. \A y \in active : ~(y < x)
      BY <2>3, <3>1, Zenon DEF OpToRel
    <3>3. \A y \in active : x <= y
      BY <2>3, <3>2
    <3>. QED
      BY <3>3
  <2>5. first \in active
    <3>. HIDE DEF active
    <3>. QED
      BY <2>4
  <2>6. Value(source, pressed) = ActionOf[Feeds[source][first]]
    BY <1>2 DEF Value
  <2>7. first \in DOMAIN Feeds[source] /\ Feeds[source][first] \in pressed
    BY <2>5
  <2>. HIDE DEF first
  <2>. QED
    BY <2>6, <2>7
<1>. QED
  BY <1>1, <1>2

LEMMA ValueIsAsked ==
    ASSUME NEW source \in Sources, NEW pressed
    PROVE  Value(source, pressed) \in Asks(source) \union {"NONE"}
PROOF
BY ValueIsPressed DEF Asks

LEMMA AskedIsAction ==
    ASSUME NEW source \in Sources
    PROVE  /\ Asks(source) \subseteq Actions
           /\ \/ Asks(source) \subseteq Directions /\ source \in Tracked
              \/ Asks(source) \cap Directions = {}
PROOF
<1>1. Feeds[source] \in Seq(Controls)
  BY DeliveryAssumption
<1>2. \A i \in DOMAIN Feeds[source] : Feeds[source][i] \in Controls
  BY <1>1, LenProperties
<1>3. \A control \in Controls : ActionOf[control] \in Actions
  BY DeliveryAssumption
<1>. QED
  BY <1>2, <1>3, FeedsAssumption DEF Asks

(* More reports, of any controls.                                          *)
LEMMA ReportsOK ==
    ASSUME InputInv, NEW pressed
    PROVE  /\ Reports(pressed) \in [Sources -> Seq(Actions \union {"NONE"})]
           /\ \A source \in Sources :
                Reports(pressed)[source] \in Seq(Asks(source) \union {"NONE"})
PROOF
<1>1. ASSUME NEW source \in Sources
      PROVE  /\ Reports(pressed)[source] \in Seq(Asks(source) \union {"NONE"})
             /\ Reports(pressed)[source] \in Seq(Actions \union {"NONE"})
  <2>1. queue[source] \in Seq(Asks(source) \union {"NONE"})
    BY DEF InputInv, ReportInv
  <2>2. Append(queue[source], Value(source, pressed)) \in Seq(Asks(source) \union {"NONE"})
    BY <2>1, ValueIsAsked, AppendProperties
  <2>3. Reports(pressed)[source] \in Seq(Asks(source) \union {"NONE"})
    BY <2>1, <2>2 DEF Reports
  <2>4. Asks(source) \union {"NONE"} \subseteq Actions \union {"NONE"}
    BY AskedIsAction
  <2>. QED
    BY <2>3, <2>4, SeqMonotonic
<1>2. Reports(pressed) = [source \in Sources |-> Reports(pressed)[source]]
  BY DEF Reports
<1>. QED
  BY <1>1, <1>2

LEMMA AxisReportOK ==
    ASSUME InputInv, NEW source \in Sources, AxisMoves(source)
    PROVE  /\ queue' \in [Sources -> Seq(Actions \union {"NONE"})]
           /\ \A other \in Sources : queue'[other] \in Seq(Asks(other) \union {"NONE"})
PROOF
<1>1. /\ queue \in [Sources -> Seq(Actions \union {"NONE"})]
      /\ \A other \in Sources : queue[other] \in Seq(Asks(other) \union {"NONE"})
  BY DEF InputInv, TypeOK, ReportInv
<1>2. Value(source, down) \in Asks(source) \union {"NONE"}
      /\ Value(source, down) \in Actions \union {"NONE"}
  BY ValueIsAsked, AskedIsAction
<1>3. /\ Append(queue[source], Value(source, down)) \in Seq(Asks(source) \union {"NONE"})
      /\ Append(queue[source], Value(source, down)) \in Seq(Actions \union {"NONE"})
  BY <1>1, <1>2, AppendProperties
<1>4. queue' = [queue EXCEPT ![source] = Append(@, Value(source, down))]
  BY DEF AxisMoves
<1>. QED
  BY <1>1, <1>3, <1>4

-----------------------------------------------------------------------------
(* The event that is delivered.                                            *)
LEMMA DeliverOK ==
    ASSUME InputInv, NEW source \in Sources, Deliver(source)
    PROVE  LET value == Head(queue[source]) IN
           /\ value \in Asks(source) \union {"NONE"} /\ value \in Actions \union {"NONE"}
           /\ TrackerEvent(source, value)
           /\ seen' = [seen EXCEPT ![source] = value]
           /\ queue' \in [Sources -> Seq(Actions \union {"NONE"})]
           /\ \A other \in Sources : queue'[other] \in Seq(Asks(other) \union {"NONE"})
PROOF
<1> DEFINE value == Head(queue[source])
<1>1. /\ queue[source] # << >>
      /\ queue' = [queue EXCEPT ![source] = Tail(@)]
      /\ seen' = [seen EXCEPT ![source] = value]
      /\ TrackerEvent(source, value)
  BY DEF Deliver
<1>2. queue \in [Sources -> Seq(Actions \union {"NONE"})]
      /\ \A other \in Sources : queue[other] \in Seq(Asks(other) \union {"NONE"})
  BY DEF InputInv, TypeOK, ReportInv
<1>3. value \in Asks(source) \union {"NONE"}
      /\ Tail(queue[source]) \in Seq(Asks(source) \union {"NONE"})
  BY <1>1, <1>2, HeadTailProperties
<1>4. Tail(queue[source]) \in Seq(Actions \union {"NONE"})
  BY <1>1, <1>2, HeadTailProperties
<1>5. value \in Actions \union {"NONE"}
  BY <1>3, AskedIsAction
<1>. HIDE DEF value
<1>6. QED
  BY <1>1, <1>2, <1>3, <1>4, <1>5 DEF value

LEMMA TrackerOK ==
    ASSUME TrackerTypeOK, NEW source \in Sources, NEW value \in Actions \union {"NONE"},
           TrackerEvent(source, value)
    PROVE  TrackerTypeOK'
PROOF
BY InputAssumption
DEF TrackerTypeOK, TrackerEvent, Release, Press, Duplicate, trackerVars, Actions, Directions

LEMMA TrackerTimeOK ==
    ASSUME TrackerTypeOK, TrackerTick \/ TrackerRepeat \/ UNCHANGED trackerVars
    PROVE  TrackerTypeOK' /\ UNCHANGED <<held, heldBy, second, last>>
PROOF
BY InputAssumption DEF TrackerTypeOK, TrackerTick, TrackerRepeat, trackerVars

(* The heart of it: whatever a source reports, the direction is held by    *)
(* those who report it.                                                    *)
LEMMA HoldStep ==
    ASSUME TrackerTypeOK, HoldInv, seen \in [Sources -> Actions \union {"NONE"}],
           NEW source \in Sources, seen[source] \in Asks(source) \union {"NONE"},
           NEW value \in Asks(source) \union {"NONE"},
           TrackerEvent(source, value),
           seen' = [seen EXCEPT ![source] = value]
    PROVE  HoldInv'
PROOF
<1> USE DeliveryAssumption DEF HoldInv, HeldIsPressed, TrackerTypeOK
<1>1. "NONE" \notin Actions /\ Directions \subseteq Actions
  BY DEF Actions, Directions
<1>2. Asks(source) \subseteq Actions
  BY AskedIsAction
<1>3. second # "none" => held # "NONE" /\ second \in Sources /\ second # heldBy
  OBVIOUS
<1>4. CASE value = "NONE" /\ source \in Tracked
  <2>1. Release(source)
    BY <1>4 DEF TrackerEvent
  <2>2. CASE source = heldBy
    BY <1>1, <1>3, <1>4, <2>1, <2>2 DEF Release
  <2>3. CASE source # heldBy
    BY <1>1, <1>3, <1>4, <2>1, <2>3 DEF Release
  <2>. QED
    BY <2>2, <2>3
<1>5. CASE Asks(source) \cap Directions = {} /\ ~(value = "NONE" /\ source \in Tracked)
  <2>1. held # "NONE" => source # heldBy /\ source # second
    BY <1>1, <1>3, <1>5
  <2>2. UNCHANGED <<held, heldBy, second>> /\ (last' = last \/ last' \notin Directions)
    <3>1. CASE value = "NONE"
      BY <1>5, <3>1 DEF TrackerEvent, trackerVars
    <3>2. CASE value # "NONE"
      BY <1>5, <3>2 DEF TrackerEvent, Press
    <3>. QED
      BY <3>1, <3>2
  <2>. QED
    BY <1>3, <2>1, <2>2
<1>6. CASE value \in Directions
  <2>1. Press(source, value)
    BY <1>1, <1>6 DEF TrackerEvent
  <2>2. CASE held = value
    <3>1. /\ UNCHANGED <<held, heldBy, last>>
          /\ second' = IF source # heldBy THEN source ELSE second
      BY <1>6, <2>1, <2>2 DEF Press, Duplicate
    <3>. QED
      BY <1>1, <1>3, <1>6, <2>2, <3>1
  <2>3. CASE held # value /\ Duplicate(value)
    <3>1. held = "NONE"
      BY <1>6, <2>3 DEF Duplicate
    <3>2. UNCHANGED <<held, heldBy, second, last>>
      BY <1>6, <2>1, <2>3 DEF Press
    <3>. QED
      BY <1>3, <3>1, <3>2
  <2>4. CASE ~Duplicate(value)
    <3>1. held' = value /\ heldBy' = source /\ second' = "none" /\ last' = value
      BY <1>6, <2>1, <2>4 DEF Press
    <3>. QED
      BY <1>1, <1>6, <3>1
  <2>. QED
    BY <1>6, <2>2, <2>3, <2>4 DEF Duplicate
<1>7. \/ Asks(source) \subseteq Directions /\ source \in Tracked
      \/ Asks(source) \cap Directions = {}
  BY AskedIsAction
<1>. QED
  BY <1>1, <1>2, <1>4, <1>5, <1>6, <1>7

-----------------------------------------------------------------------------
LEMMA InvStep ==
    ASSUME InputInv, [Next]_vars
    PROVE  InputInv'
PROOF
<1> USE DEF InputInv
<1>1. ASSUME NEW control \in Controls, PressControl(control)
      PROVE  InputInv'
  <2>1. queue' = Reports(down') /\ UNCHANGED <<seen, waited>> /\ UNCHANGED trackerVars
    BY <1>1 DEF PressControl
  <2>2. /\ queue' \in [Sources -> Seq(Actions \union {"NONE"})]
        /\ \A source \in Sources : queue'[source] \in Seq(Asks(source) \union {"NONE"})
    BY <2>1, ReportsOK
  <2>3. TrackerTypeOK' /\ UNCHANGED <<held, heldBy, second, last>>
    BY <2>1, TrackerTimeOK DEF TypeOK
  <2>4. /\ fired' \in [Controls -> 0..2] /\ alone' \in [Controls -> BOOLEAN]
        /\ down' \subseteq Controls
    <3>1. fired' \in [Controls -> 0..2] /\ down' \subseteq Controls
      BY <1>1 DEF PressControl, TypeOK
    <3>2. alone' \in [Controls -> BOOLEAN]
      BY <1>1, Zenon DEF PressControl
    <3>. QED
      BY <3>1, <3>2
  <2>. QED
    BY <2>1, <2>2, <2>3, <2>4 DEF TypeOK, ReportInv, HoldInv, HeldIsPressed
<1>2. ASSUME NEW control \in Controls, ReleaseControl(control)
      PROVE  InputInv'
  <2>1. /\ queue' = Reports(down')
        /\ UNCHANGED <<seen, waited, fired, alone>> /\ UNCHANGED trackerVars
    BY <1>2 DEF ReleaseControl
  <2>2. /\ queue' \in [Sources -> Seq(Actions \union {"NONE"})]
        /\ \A source \in Sources : queue'[source] \in Seq(Asks(source) \union {"NONE"})
    BY <2>1, ReportsOK
  <2>3. TrackerTypeOK' /\ UNCHANGED <<held, heldBy, second, last>>
    BY <2>1, TrackerTimeOK DEF TypeOK
  <2>4. down' \subseteq Controls
    BY <1>2 DEF ReleaseControl, TypeOK
  <2>. QED
    BY <2>1, <2>2, <2>3, <2>4 DEF TypeOK, ReportInv, HoldInv, HeldIsPressed
<1>3. ASSUME NEW source \in Sources, Deliver(source)
      PROVE  InputInv'
  <2> DEFINE value == Head(queue[source])
  <2>1. /\ value \in Asks(source) \union {"NONE"} /\ value \in Actions \union {"NONE"}
        /\ TrackerEvent(source, value)
        /\ seen' = [seen EXCEPT ![source] = value]
        /\ queue' \in [Sources -> Seq(Actions \union {"NONE"})]
        /\ \A other \in Sources : queue'[other] \in Seq(Asks(other) \union {"NONE"})
    BY <1>3, DeliverOK
  <2>2. /\ fired' \in [Controls -> 0..2] /\ waited' \in 0..Skew
        /\ UNCHANGED <<down, alone>>
    BY <1>3, DeliveryAssumption DEF Deliver, TypeOK
  <2> HIDE DEF value
  <2>3. seen' \in [Sources -> Actions \union {"NONE"}]
        /\ \A other \in Sources : seen'[other] \in Asks(other) \union {"NONE"}
    BY <2>1 DEF TypeOK, ReportInv
  <2>4. TrackerTypeOK'
    BY <2>1, TrackerOK DEF TypeOK
  <2>5. HoldInv'
    BY <2>1, HoldStep DEF TypeOK, ReportInv
  <2>. QED
    BY <2>1, <2>2, <2>3, <2>4, <2>5 DEF TypeOK, ReportInv
<1>4. CASE Repeat
  BY <1>4, TrackerTimeOK
  DEF Repeat, deliveryVars, TypeOK, ReportInv, HoldInv, HeldIsPressed
<1>5. CASE Tick
  <2>1. TrackerTick /\ UNCHANGED <<down, queue, seen, fired, alone>>
    BY <1>5 DEF Tick
  <2>2. TrackerTypeOK' /\ UNCHANGED <<held, heldBy, second, last>>
    BY <2>1, TrackerTimeOK DEF TypeOK
  <2>3. waited' \in 0..Skew
    <3>1. CASE \A source \in Sources : queue[source] = << >>
      BY <1>5, <3>1 DEF Tick, TypeOK
    <3>2. CASE ~\A source \in Sources : queue[source] = << >>
      <4>1. waited < Skew /\ waited' = waited + 1
        BY <1>5, <3>2, Zenon DEF Tick
      <4>. QED
        BY <4>1, DeliveryAssumption DEF TypeOK
    <3>. QED
      BY <3>1, <3>2
  <2>. QED
    BY <2>1, <2>2, <2>3 DEF TypeOK, ReportInv, HoldInv, HeldIsPressed
<1>6. CASE UNCHANGED vars
  BY <1>6, TrackerTimeOK
  DEF vars, deliveryVars, TypeOK, ReportInv, HoldInv, HeldIsPressed
<1>7. ASSUME NEW source \in Sources, AxisMoves(source)
      PROVE  InputInv'
  <2>1. UNCHANGED <<down, seen, waited, fired>> /\ UNCHANGED trackerVars
    BY <1>7 DEF AxisMoves
  <2>2. /\ queue' \in [Sources -> Seq(Actions \union {"NONE"})]
        /\ \A other \in Sources : queue'[other] \in Seq(Asks(other) \union {"NONE"})
    BY <1>7, AxisReportOK
  <2>3. TrackerTypeOK' /\ UNCHANGED <<held, heldBy, second, last>>
    BY <2>1, TrackerTimeOK DEF TypeOK
  <2>4. alone' \in [Controls -> BOOLEAN]
    BY <1>7, Zenon DEF AxisMoves
  <2>. QED
    BY <2>1, <2>2, <2>3, <2>4 DEF TypeOK, ReportInv, HoldInv, HeldIsPressed
<1>. QED
  BY <1>1, <1>2, <1>3, <1>4, <1>5, <1>6, <1>7 DEF Next

LEMMA InitInv == Init => InputInv
PROOF
<1> SUFFICES ASSUME Init PROVE InputInv
  OBVIOUS
<1>1. TrackerTypeOK
  BY InputAssumption DEF Init, TrackerInit, TrackerTypeOK
<1>2. alone \in [Controls -> BOOLEAN]
  BY Zenon DEF Init
<1>3. \A source \in Sources : queue[source] = << >> /\ seen[source] = "NONE"
  BY DEF Init
<1>4. TypeOK
  BY <1>1, <1>2, DeliveryAssumption DEF Init, TypeOK
<1>. QED
  BY <1>3, <1>4 DEF Init, TrackerInit, InputInv, ReportInv, HoldInv, HeldIsPressed

(* The inductive invariant.                                                *)
THEOREM InputInvariant == Spec => []InputInv
PROOF
<1>. QED
  BY InitInv, InvStep, PTL DEF Spec

(* The tracker's state keeps its type.                                     *)
THEOREM InputAlwaysTyped == Spec => []TypeOK
PROOF
<1>1. InputInv => TypeOK
  BY DEF InputInv
<1>. QED
  BY InputInvariant, <1>1, PTL

(* However the sources' reports are delayed against each other, a held     *)
(* direction is one that its source is still reporting.                    *)
THEOREM HeldIsAlwaysPressed == Spec => []HeldIsPressed
PROOF
<1>1. InputInv => HeldIsPressed
  BY DEF InputInv, HoldInv
<1>. QED
  BY InputInvariant, <1>1, PTL
-----------------------------------------------------------------------------
(* A control that is pressed on its own: each source has at most its press *)
(* and its release under way, and once the press has made an action, the   *)
(* reports of it that are still to come will find it recent.               *)
SoleReports(source, control) ==
    LET action == ActionOf[control] IN
    /\ queue[source] \in {<< >>, <<action>>, <<"NONE">>, <<action, "NONE">>}
    /\ control \in down => queue[source] \in {<< >>, <<action>>}
    /\ queue[source] \in {<<action>>, <<action, "NONE">>} =>
          fired[control] = 0 \/ (last = action /\ lastAge <= waited)

SoleInv ==
    \A control \in Controls : alone[control] =>
        /\ down \subseteq {control}
        /\ fired[control] <= 1
        /\ \A source \in Sources : SoleReports(source, control)

(* Its sources report it or nothing.                                       *)
LEMMA ValueOfOne ==
    ASSUME NEW source \in Sources, NEW control \in Controls
    PROVE  /\ Value(source, {}) = "NONE" /\ Active(source, {}) = {}
           /\ Active(source, {control}) # {} => Value(source, {control}) = ActionOf[control]
PROOF
<1>1. Value(source, {}) = "NONE" /\ Active(source, {}) = {}
  BY DEF Value, Active
<1>2. Active(source, {control}) # {} => Value(source, {control}) = ActionOf[control]
  BY ValueIsPressed
<1>. QED
  BY <1>1, <1>2

(* Queues of one and two reports.                                          *)
LEMMA ShortQueues ==
    ASSUME NEW x, NEW y
    PROVE  /\ Append(<< >>, x) = <<x>> /\ Append(<<x>>, y) = <<x, y>>
           /\ Head(<<x>>) = x /\ Tail(<<x>>) = << >>
           /\ Head(<<x, y>>) = x /\ Tail(<<x, y>>) = <<y>>
           /\ <<x>> # << >> /\ <<x, y>> # << >>
           /\ x # y => <<x>> # <<y>>
           /\ \A z : <<z>> # <<x, y>>
PROOF
<1> DEFINE s == Append(<<x>>, y)
           t == <<x, y>>
<1>1. /\ <<x>> \in Seq({x, y}) /\ Len(<<x>>) = 1 /\ <<x>>[1] = x
      /\ t \in Seq({x, y}) /\ Len(t) = 2 /\ t[1] = x /\ t[2] = y
  OBVIOUS
<1>2. s \in Seq({x, y}) /\ Len(s) = 2 /\ s[1] = x /\ s[2] = y
  BY <1>1, AppendProperties
<1>3. s = t
  <2>1. \A i \in 1..2 : i = 1 \/ i = 2
    OBVIOUS
  <2> HIDE DEF s, t
  <2>2. \A i \in 1..Len(s) : s[i] = t[i]
    BY <1>1, <1>2, <2>1
  <2>. QED
    BY <1>1, <1>2, <2>2, SeqEqual
<1>4. Append(<< >>, x) = <<x>> /\ Head(<<x>>) = x /\ Tail(<<x>>) = << >>
  OBVIOUS
<1>5. Head(<<x, y>>) = x /\ Tail(<<x, y>>) = <<y>>
  OBVIOUS
<1>6. <<x>> # << >> /\ <<x, y>> # << >> /\ (x # y => <<x>> # <<y>>)
  OBVIOUS
<1>7. \A z : <<z>> # <<x, y>>
  OBVIOUS
<1>. QED
  BY <1>3, <1>4, <1>5, <1>6, <1>7

LEMMA SolePress ==
    ASSUME InputInv, SoleInv, NEW pressed \in Controls, PressControl(pressed)
    PROVE  SoleInv'
PROOF
<1> SUFFICES ASSUME NEW control \in Controls, alone'[control]
             PROVE  /\ down' \subseteq {control}
                    /\ fired'[control] <= 1
                    /\ \A source \in Sources : SoleReports(source, control)'
  BY DEF SoleInv
<1>1. /\ control = pressed /\ down = {} /\ \A source \in Sources : queue[source] = << >>
      /\ down' = {control} /\ queue' = Reports(down')
  BY DEF PressControl
<1>2. fired'[control] = 0
  BY <1>1 DEF PressControl, InputInv, TypeOK
<1>3. ASSUME NEW source \in Sources
      PROVE  SoleReports(source, control)'
  <2>1. queue'[source] \in {<< >>, <<ActionOf[control]>>}
    <3>1. CASE Active(source, down') = Active(source, down)
      BY <1>1, <3>1 DEF Reports
    <3>2. CASE Active(source, down') # Active(source, down)
      <4>1. Value(source, down') = ActionOf[control]
        BY <1>1, <3>2, ValueOfOne
      <4>2. queue'[source] = Append(<< >>, Value(source, down'))
        BY <1>1, <3>2 DEF Reports
      <4>. QED
        BY <4>1, <4>2, ShortQueues
    <3>. QED
      BY <3>1, <3>2
  <2>. QED
    BY <1>2, <2>1 DEF SoleReports
<1>. QED
  BY <1>1, <1>2, <1>3

LEMMA SoleRelease ==
    ASSUME InputInv, SoleInv, NEW released \in Controls, ReleaseControl(released)
    PROVE  SoleInv'
PROOF
<1> SUFFICES ASSUME NEW control \in Controls, alone'[control]
             PROVE  /\ down' \subseteq {control}
                    /\ fired'[control] <= 1
                    /\ \A source \in Sources : SoleReports(source, control)'
  BY DEF SoleInv
<1>1. /\ down' = down \ {released} /\ released \in down /\ queue' = Reports(down')
      /\ UNCHANGED <<waited, fired, alone, last, lastAge>>
  BY DEF ReleaseControl, trackerVars
<1>2. /\ down \subseteq {control} /\ fired[control] <= 1
      /\ \A source \in Sources : SoleReports(source, control)
  BY <1>1 DEF SoleInv
<1>3. down = {control} /\ down' = {}
  BY <1>1, <1>2
<1>4. ASSUME NEW source \in Sources
      PROVE  SoleReports(source, control)'
  <2> DEFINE action == ActionOf[control]
  <2>1. action # "NONE"
    BY DeliveryAssumption DEF Actions, Directions
  <2>2. queue[source] \in {<< >>, <<action>>}
    BY <1>2, <1>3 DEF SoleReports
  <2>3. queue'[source] \in {queue[source], Append(queue[source], "NONE")}
    <3>1. Value(source, down') = "NONE"
      BY <1>3, ValueOfOne
    <3>. QED
      BY <1>1, <3>1 DEF Reports
  <2>4. \/ queue[source] = << >> /\ queue'[source] \in {<< >>, <<"NONE">>}
        \/ queue[source] = <<action>> /\ queue'[source] \in {<<action>>, <<action, "NONE">>}
    <3> HIDE DEF action
    <3>1. Append(<< >>, "NONE") = <<"NONE">> /\ Append(<<action>>, "NONE") = <<action, "NONE">>
      BY ShortQueues
    <3>. QED
      BY <2>2, <2>3, <3>1, Zenon
  <2>. QED
    BY <1>1, <1>2, <1>3, <2>1, <2>4 DEF SoleReports
<1>. QED
  BY <1>1, <1>2, <1>3, <1>4

LEMMA SoleDeliver ==
    ASSUME InputInv, SoleInv, NEW source \in Sources, Deliver(source)
    PROVE  SoleInv'
PROOF
<1> DEFINE value == Head(queue[source])
<1> SUFFICES ASSUME NEW control \in Controls, alone'[control]
             PROVE  /\ down' \subseteq {control}
                    /\ fired'[control] <= 1
                    /\ \A other \in Sources : SoleReports(other, control)'
  BY DEF SoleInv
<1> DEFINE action == ActionOf[control]
<1>1. /\ UNCHANGED <<down, alone>> /\ TrackerEvent(source, value)
      /\ queue[source] # << >> /\ queue' = [queue EXCEPT ![source] = Tail(@)]
      /\ waited' = waited \/ \A other \in Sources : queue'[other] = << >>
      /\ fired'[control] = IF action = EventAction(value) /\ fired[control] < 2
                             THEN fired[control] + 1 ELSE fired[control]
  BY DEF Deliver
<1>2. /\ down \subseteq {control} /\ fired[control] <= 1
      /\ \A other \in Sources : SoleReports(other, control)
  BY <1>1 DEF SoleInv
<1>3. /\ fired[control] \in 0..2 /\ waited \in 0..Skew /\ lastAge \in 0..Dedupe
      /\ Skew \in 0..Dedupe - 1 /\ Dedupe \in Nat
      /\ queue \in [Sources -> Seq(Actions \union {"NONE"})]
      /\ action \in Actions
  BY DeliveryAssumption, InputAssumption DEF InputInv, TypeOK, TrackerTypeOK
<1>4. action # "NONE"
  BY <1>3 DEF Actions, Directions
<1>5. /\ queue[source] \in {<<action>>, <<"NONE">>, <<action, "NONE">>}
      /\ queue'[source] = Tail(queue[source])
      /\ \A other \in Sources \ {source} : queue'[other] = queue[other]
  BY <1>1, <1>2, <1>3 DEF SoleReports
<1>6. \/ value = "NONE" /\ queue[source] = <<"NONE">> /\ queue'[source] = << >>
      \/ value = action /\ queue[source] = <<action>> /\ queue'[source] = << >>
      \/ /\ value = action
         /\ queue[source] = <<action, "NONE">> /\ queue'[source] = <<"NONE">>
  <2> HIDE DEF action
  <2>1. CASE queue[source] = <<action>>
    BY <1>5, <2>1, ShortQueues
  <2>2. CASE queue[source] = <<"NONE">>
    BY <1>5, <2>2, ShortQueues
  <2>3. CASE queue[source] = <<action, "NONE">>
    BY <1>5, <2>3, ShortQueues
  <2>. QED
    BY <1>5, <2>1, <2>2, <2>3
<1> HIDE DEF value, action
<1>7. fired'[control] <= 1 /\ (fired'[control] = 0 \/ (last' = action /\ lastAge' <= waited)
                               \/ (last' = last /\ lastAge' = lastAge /\ fired'[control] = fired[control]))
  <2>1. CASE value = "NONE"
    <3>1. last' = last /\ lastAge' = lastAge
      BY <1>1, <2>1 DEF TrackerEvent, Release, trackerVars
    <3>2. fired'[control] = fired[control]
      BY <1>1, <1>4, <2>1 DEF EventAction
    <3>. QED
      BY <1>2, <3>1, <3>2
  <2>2. CASE value = action /\ Duplicate(action)
    <3>1. last' = last /\ lastAge' = lastAge
      BY <1>1, <1>4, <2>2 DEF TrackerEvent, Press
    <3>2. fired'[control] = fired[control]
      BY <1>1, <1>4, <2>2 DEF EventAction
    <3>. QED
      BY <1>2, <3>1, <3>2
  <2>3. CASE value = action /\ ~Duplicate(action)
    <3>1. last' = action /\ lastAge' = 0
      BY <1>1, <1>4, <2>3 DEF TrackerEvent, Press
    <3>2. fired[control] = 0
      <4>1. queue[source] \in {<<action>>, <<action, "NONE">>}
        BY <1>4, <1>6, <2>3
      <4>2. fired[control] = 0 \/ (last = action /\ lastAge <= waited)
        BY <1>2, <4>1 DEF SoleReports, action
      <4>. QED
        BY <1>3, <2>3, <4>2 DEF Duplicate
    <3>. QED
      BY <1>1, <1>3, <3>1, <3>2
  <2>. QED
    BY <1>6, <2>1, <2>2, <2>3
<1>8. ASSUME NEW other \in Sources
      PROVE  SoleReports(other, control)'
  <2>1. /\ queue'[other] \in {<< >>, <<action>>, <<"NONE">>, <<action, "NONE">>}
        /\ control \in down => queue'[other] \in {<< >>, <<action>>}
        /\ queue'[other] \in {<<action>>, <<action, "NONE">>} => queue'[other] = queue[other]
    <3>1. CASE other = source
      <4>1. control \in down => queue[source] \in {<< >>, <<action>>}
        BY <1>2 DEF SoleReports, action
      <4>2. /\ <<action, "NONE">> \notin {<< >>, <<action>>}
            /\ <<"NONE">> \notin {<< >>, <<action>>, <<action, "NONE">>}
            /\ << >> \notin {<<action>>, <<action, "NONE">>}
        BY <1>4, ShortQueues
      <4>3. queue[source] = <<action, "NONE">> => control \notin down
        BY <4>1, <4>2, Zenon
      <4>. QED
        BY <1>6, <3>1, <4>2, <4>3, Zenon
    <3>2. CASE other # source
      BY <1>2, <1>5, <3>2 DEF SoleReports, action
    <3>. QED
      BY <3>1, <3>2
  <2>2. ASSUME queue'[other] \in {<<action>>, <<action, "NONE">>}
        PROVE  fired'[control] = 0 \/ (last' = action /\ lastAge' <= waited')
    <3>1. waited' = waited
      BY <1>1, <2>2
    <3>2. queue[other] \in {<<action>>, <<action, "NONE">>}
      BY <2>1, <2>2
    <3>3. fired[control] = 0 \/ (last = action /\ lastAge <= waited)
      BY <1>2, <3>2 DEF SoleReports, action
    <3>. QED
      BY <1>7, <3>1, <3>3
  <2>. QED
    BY <1>1, <2>1, <2>2 DEF SoleReports, action
<1>. QED
  BY <1>1, <1>2, <1>7, <1>8

(* Nothing is said of an axis that reports again.                          *)
LEMMA SoleAxis ==
    ASSUME NEW source \in Sources, AxisMoves(source)
    PROVE  SoleInv'
PROOF
<1>1. \A control \in Controls : ~alone'[control]
  BY DEF AxisMoves
<1>. QED
  BY <1>1 DEF SoleInv

(* Time makes the last action older by no more than the reports that are   *)
(* under way.                                                              *)
LEMMA SoleTime ==
    ASSUME InputInv, SoleInv, Repeat \/ Tick \/ UNCHANGED vars
    PROVE  SoleInv'
PROOF
<1>1. /\ UNCHANGED <<down, queue, fired, alone, last>>
      /\ lastAge' \in {lastAge, lastAge + 1}
      /\ lastAge' = lastAge \/ waited' = waited + 1 \/ \A source \in Sources : queue[source] = << >>
      /\ waited' \in {waited, waited + 1}
  <2>1. CASE Repeat
    BY <2>1 DEF Repeat, TrackerRepeat, deliveryVars
  <2>2. CASE Tick
    <3>1. UNCHANGED <<down, queue, fired, alone, last>> /\ lastAge' \in {lastAge, lastAge + 1}
      BY <2>2 DEF Tick, TrackerTick
    <3>2. \/ waited' = waited /\ \A source \in Sources : queue[source] = << >>
          \/ waited' = waited + 1
      BY <2>2, Zenon DEF Tick
    <3>. QED
      BY <3>1, <3>2
  <2>3. CASE UNCHANGED vars
    BY <2>3 DEF vars, trackerVars, deliveryVars
  <2>. QED
    BY <2>1, <2>2, <2>3
<1>2. lastAge \in Nat /\ waited \in Nat
  BY DeliveryAssumption, InputAssumption DEF InputInv, TypeOK, TrackerTypeOK
<1>3. ASSUME NEW control \in Controls, NEW source \in Sources, SoleReports(source, control)
      PROVE  SoleReports(source, control)'
  <2>1. CASE queue[source] = << >>
    BY <1>1, <2>1 DEF SoleReports
  <2>2. CASE queue[source] # << >>
    <3>1. lastAge <= waited => lastAge' <= waited'
      BY <1>1, <1>2, <2>2
    <3>. QED
      BY <1>1, <1>3, <3>1 DEF SoleReports
  <2>. QED
    BY <2>1, <2>2
<1>. QED
  BY <1>1, <1>3 DEF SoleInv

(* Several sources, and a control that is pressed on its own, make one     *)
(* action, whatever the delays within the skew.                            *)
THEOREM SolePressAlwaysFiresOnce == Spec => []SolePressFiresOnce
PROOF
<1>1. Init => SoleInv
  BY DEF Init, SoleInv, SoleReports
<1>2. InputInv /\ SoleInv /\ [Next]_vars => SoleInv'
  BY SolePress, SoleRelease, SoleAxis, SoleDeliver, SoleTime DEF Next
<1>3. SoleInv => SolePressFiresOnce
  BY DEF SoleInv, SolePressFiresOnce
<1>. QED
  BY InputInvariant, <1>1, <1>2, <1>3, PTL DEF Spec

-----------------------------------------------------------------------------
(* The clock.                                                              *)

(* A number that is less than a word away from 0, modulo that word.        *)
LEMMA Wraps ==
    ASSUME NEW w \in Nat \ {0}, NEW n \in Int
    PROVE  /\ n % w \in 0..w-1
           /\ 0 <= n /\ n < w => n % w = n
           /\ -w <= n /\ n < 0 => n % w = n + w
           /\ w <= n /\ n < 2 * w => n % w = n - w
PROOF
OBVIOUS

LEMMA WordTyped ==
    ASSUME TicksAssumption
    PROVE  Word \in Nat \ {0, 1} /\ HalfWord \in Nat \ {0} /\ Word = HalfWord + HalfWord
PROOF
BY DEF TicksAssumption, Word

LEMMA WordWraps ==
    ASSUME TicksAssumption, NEW n \in Int
    PROVE  /\ 0 <= n /\ n < Word => n % Word = n
           /\ -Word <= n /\ n < 0 => n % Word = n + Word
           /\ Word <= n /\ n < 2 * Word => n % Word = n - Word
PROOF
BY Wraps, WordTyped

(* The age of a stamp is 0 when it is set to the ticks,                    *)
LEMMA SinceNow ==
    ASSUME TicksAssumption, NEW now \in 0..Word-1, NEW stamp \in 0..Word-1
    PROVE  /\ (now - stamp) % Word \in 0..Word-1
           /\ stamp = now => (now - stamp) % Word = 0
PROOF
<1>1. now - stamp \in Int /\ (stamp = now => now - stamp = 0) /\ Word \in Nat \ {0, 1}
  BY WordTyped
<1>2. (now - stamp) % Word \in 0..Word-1
  BY <1>1, Wraps
<1>3. 0 % Word = 0
  BY <1>1, Wraps
<1>. QED
  BY <1>1, <1>2, <1>3

(* grows by one with the ticks, until it is a whole word,                  *)
LEMMA SinceGrows ==
    ASSUME TicksAssumption, NEW now \in 0..Word-1, NEW stamp \in 0..Word-1,
           (now - stamp) % Word < Word - 1
    PROVE  /\ (now + 1) % Word \in 0..Word-1
           /\ (((now + 1) % Word) - stamp) % Word = ((now - stamp) % Word) + 1
PROOF
<1> DEFINE next == (now + 1) % Word
<1>1. Word \in Nat \ {0, 1} /\ now \in Int /\ stamp \in Int
      /\ now + 1 \in Int /\ now - stamp \in Int
  BY WordTyped
<1>2. next = IF now + 1 < Word THEN now + 1 ELSE 0
  <2>1. now + 1 < Word => next = now + 1
    BY <1>1, WordWraps
  <2>2. now + 1 >= Word => next = (now + 1) - Word
    BY <1>1, WordWraps
  <2>. QED
    BY <1>1, <2>1, <2>2
<1>3. (now - stamp) % Word = IF now >= stamp THEN now - stamp ELSE now - stamp + Word
  BY <1>1, WordWraps
<1>. HIDE DEF next
<1>4. next \in 0..Word-1
  BY <1>1, <1>2
<1>5. (next - stamp) % Word = IF next >= stamp THEN next - stamp ELSE next - stamp + Word
  <2>1. next - stamp \in Int
    BY <1>1, <1>4
  <2>. QED
    BY <1>1, <1>4, <2>1, WordWraps
<1>6. (next - stamp) % Word = ((now - stamp) % Word) + 1
  BY <1>1, <1>2, <1>3, <1>5
<1>. QED
  BY <1>4, <1>6 DEF next

(* and is a word less the distance of a stamp that lies ahead.             *)
LEMMA SinceAhead ==
    ASSUME TicksAssumption, NEW now \in 0..Word-1, NEW delay \in 1..HalfWord
    PROVE  /\ (now + delay) % Word \in 0..Word-1
           /\ (now - ((now + delay) % Word)) % Word = Word - delay
PROOF
<1> DEFINE stamp == (now + delay) % Word
<1>1. Word \in Nat \ {0, 1} /\ delay \in 1..Word-1 /\ now \in Int /\ now + delay \in Int
  BY WordTyped
<1>2. stamp = IF now + delay < Word THEN now + delay ELSE now + delay - Word
  BY <1>1, WordWraps
<1>. HIDE DEF stamp
<1>3. stamp \in 0..Word-1 /\ now - stamp \in Int
  BY <1>1, <1>2
<1>4. (now - stamp) % Word = IF now >= stamp THEN now - stamp ELSE now - stamp + Word
  BY <1>1, <1>3, WordWraps
<1>5. (now - stamp) % Word = Word - delay
  BY <1>1, <1>2, <1>4
<1>. QED
  BY <1>3, <1>5 DEF stamp

(* What the stamps say of the ages that matter: of the last action, if     *)
(* there was one, and of a hold, if there is one.                          *)
ActionClock ==
    last # "NONE" => lastAge = IF Since(lastAt) < Dedupe THEN Since(lastAt) ELSE Dedupe

HoldClock ==
    held # "NONE" =>
        /\ heldFor = IF Since(heldSince) < HeldLimit THEN Since(heldSince) ELSE HeldLimit
        /\ repeatIn = IF Ahead(nextRepeat) THEN Word - Since(nextRepeat) ELSE 0

StampsOK ==
    /\ ticks \in 0..Word-1
    /\ heldSince \in 0..Word-1 /\ nextRepeat \in 0..Word-1 /\ lastAt \in 0..Word-1

TicksInv == TrackerTypeOK /\ StampsOK /\ ActionClock /\ HoldClock

LEMMA SinceTyped ==
    ASSUME TicksAssumption, StampsOK
    PROVE  /\ Since(heldSince) \in 0..Word-1
           /\ Since(nextRepeat) \in 0..Word-1
           /\ Since(lastAt) \in 0..Word-1
PROOF
BY SinceNow DEF StampsOK, Since

(* The decisions.                                                          *)
LEMMA TicksDecide ==
    ASSUME TicksAssumption, TicksInv
    PROVE  TicksTellTheTime
PROOF
<1>1. /\ Since(nextRepeat) \in 0..Word-1 /\ Since(lastAt) \in 0..Word-1
      /\ Word \in Nat /\ Dedupe \in Nat
  BY SinceTyped, WordTyped, InputAssumption DEF TicksInv
<1>2. RepeatDueByTicks <=> RepeatDue
  <2>1. held # "NONE" =>
          repeatIn = IF Ahead(nextRepeat) THEN Word - Since(nextRepeat) ELSE 0
    BY DEF TicksInv, HoldClock
  <2>2. Word - Since(nextRepeat) # 0
    BY <1>1
  <2>. QED
    BY <2>1, <2>2 DEF RepeatDueByTicks, RepeatDue
<1>3. ASSUME NEW action \in Actions
      PROVE  DuplicateByTicks(action) <=> Duplicate(action)
  <2>1. action # "NONE"
    BY DEF Actions, Directions
  <2>2. last = action => (Since(lastAt) < Dedupe <=> lastAge < Dedupe)
    BY <1>1, <2>1 DEF TicksInv, ActionClock
  <2>. QED
    BY <2>2 DEF DuplicateByTicks, Duplicate
<1>. QED
  BY <1>2, <1>3 DEF TicksInv, HoldClock, TicksTellTheTime

(* An event.                                                               *)
LEMMA EventKeepsTime ==
    ASSUME TicksAssumption, TicksInv, NEW source \in Sources, NEW value \in Actions \union {"NONE"},
           TicksEvent(source, value)
    PROVE  TicksInv'
PROOF
<1>1. TrackerTypeOK'
  BY TrackerOK DEF TicksInv, TicksEvent
<1>2. ticks' = ticks /\ TrackerEvent(source, value) /\ StampsOK
  BY DEF TicksInv, TicksEvent
<1>3. CASE value = "NONE" \/ DuplicateByTicks(value)
  <2>1. UNCHANGED stampVars
    BY <1>3 DEF TicksEvent
  <2>2. UNCHANGED <<heldFor, repeatIn, last, lastAge>> /\ (held' = held \/ held' = "NONE")
    <3>1. CASE value = "NONE"
      BY <1>2, <3>1 DEF TrackerEvent, Release, trackerVars
    <3>2. CASE value # "NONE"
      <4>1. Duplicate(value)
        BY <1>3, <3>2, TicksDecide DEF TicksTellTheTime
      <4>. QED
        BY <1>2, <3>2, <4>1 DEF TrackerEvent, Press
    <3>. QED
      BY <3>1, <3>2
  <2>. QED
    BY <1>1, <1>2, <2>1, <2>2
    DEF TicksInv, StampsOK, ActionClock, HoldClock, Since, Ahead, stampVars
<1>4. CASE value # "NONE" /\ ~DuplicateByTicks(value)
  <2>1. ~Duplicate(value) /\ value \in Actions
    BY <1>4, TicksDecide DEF TicksTellTheTime
  <2>2. lastAt' = ticks /\ last' = value /\ lastAge' = 0
    BY <1>2, <1>4, <2>1 DEF TicksEvent, TrackerEvent, Press
  <2>3. Since(lastAt)' = 0
    BY <1>2, <2>2, SinceNow DEF Since, StampsOK
  <2>4. ActionClock' /\ lastAt' \in 0..Word-1
    BY <1>2, <2>2, <2>3, InputAssumption DEF ActionClock, StampsOK
  <2>5. CASE value \in Directions
    <3>1. /\ heldSince' = ticks /\ nextRepeat' = (ticks + RepeatDelay) % Word
          /\ heldFor' = 0 /\ repeatIn' = RepeatDelay
      BY <1>2, <1>4, <2>1, <2>5 DEF TicksEvent, TrackerEvent, Press
    <3>2. Since(heldSince)' = 0
      BY <1>2, <3>1, SinceNow DEF Since, StampsOK
    <3>3. RepeatDelay \in 1..HalfWord
      BY InputAssumption DEF TicksAssumption
    <3>4. Since(nextRepeat)' = Word - RepeatDelay /\ nextRepeat' \in 0..Word-1
      BY <1>2, <3>1, <3>3, SinceAhead DEF Since, StampsOK
    <3>5. Ahead(nextRepeat)' /\ Word - (Word - RepeatDelay) = RepeatDelay
      BY <3>3, <3>4, WordTyped DEF Ahead
    <3>6. HoldClock'
      BY <3>1, <3>2, <3>4, <3>5, InputAssumption DEF HoldClock
    <3>. QED
      BY <1>1, <1>2, <2>4, <3>1, <3>4, <3>6 DEF TicksInv, StampsOK
  <2>6. CASE value \notin Directions
    <3>1. UNCHANGED <<held, heldFor, repeatIn, heldSince, nextRepeat>>
      BY <1>2, <1>4, <2>1, <2>6 DEF TicksEvent, TrackerEvent, Press
    <3>. QED
      BY <1>1, <1>2, <2>4, <3>1 DEF TicksInv, StampsOK, HoldClock, Since, Ahead
  <2>. QED
    BY <2>5, <2>6
<1>. QED
  BY <1>3, <1>4

(* A repeat.                                                               *)
LEMMA RepeatKeepsTime ==
    ASSUME TicksAssumption, TicksInv, TicksRepeat
    PROVE  TicksInv'
PROOF
<1>1. /\ nextRepeat' = (ticks + RepeatRate) % Word /\ repeatIn' = RepeatRate
      /\ UNCHANGED <<ticks, heldSince, lastAt, held, heldFor, last, lastAge>>
  BY DEF TicksRepeat, TrackerRepeat
<1>2. TrackerTypeOK'
  BY TrackerTimeOK DEF TicksInv, TicksRepeat
<1>3. RepeatRate \in 1..HalfWord
  BY InputAssumption DEF TicksAssumption
<1>4. Since(nextRepeat)' = Word - RepeatRate /\ nextRepeat' \in 0..Word-1
  BY <1>1, <1>3, SinceAhead DEF Since, StampsOK, TicksInv
<1>5. Ahead(nextRepeat)' /\ Word - (Word - RepeatRate) = RepeatRate
  BY <1>3, <1>4, WordTyped DEF Ahead
<1>6. HoldClock'
  BY <1>1, <1>4, <1>5 DEF HoldClock, TicksInv, Since
<1>. QED
  BY <1>1, <1>2, <1>4, <1>6 DEF TicksInv, StampsOK, ActionClock, Since

(* A millisecond.                                                          *)
LEMMA TimePasses ==
    ASSUME TicksAssumption, TicksInv, TicksPass
    PROVE  TicksInv'
PROOF
<1>1. /\ ticks' = (ticks + 1) % Word
      /\ UNCHANGED <<heldSince, nextRepeat, lastAt, held, last>>
  BY DEF TicksPass, TrackerTick, stampVars
<1>2. TrackerTypeOK'
  BY TrackerTimeOK DEF TicksInv, TicksPass
<1>3. StampsOK'
  <2>1. ticks + 1 \in Int /\ Word \in Nat \ {0, 1}
    BY WordTyped DEF TicksInv, StampsOK
  <2>2. ticks' \in 0..Word-1
    BY <1>1, <2>1, Wraps
  <2>. QED
    BY <1>1, <2>2 DEF TicksInv, StampsOK
<1>4. ActionClock'
  <2>1. CASE last # "NONE"
    <3>1. Since(lastAt) < Word - 1 /\ Since(lastAt) \in 0..Word-1
      BY <2>1, SinceTyped DEF TicksPass, InUse, TicksInv
    <3>2. Since(lastAt)' = Since(lastAt) + 1
      BY <1>1, <3>1, SinceGrows DEF Since, TicksInv, StampsOK
    <3>3. lastAge' = IF lastAge < Dedupe THEN lastAge + 1 ELSE lastAge
      BY DEF TicksPass, TrackerTick
    <3>4. lastAge = IF Since(lastAt) < Dedupe THEN Since(lastAt) ELSE Dedupe
      BY <2>1 DEF TicksInv, ActionClock
    <3>. QED
      BY <3>1, <3>2, <3>3, <3>4, WordTyped, InputAssumption DEF ActionClock
  <2>. QED
    BY <1>1, <2>1 DEF ActionClock
<1>5. HoldClock'
  <2>1. CASE held # "NONE"
    <3>1. /\ Since(heldSince) < Word - 1 /\ Since(heldSince) \in 0..Word-1
          /\ Since(nextRepeat) # HalfWord - 1 /\ Since(nextRepeat) \in 0..Word-1
      BY <2>1, SinceTyped DEF TicksPass, InUse, TicksInv
    <3>2. Since(heldSince)' = Since(heldSince) + 1
      BY <1>1, <3>1, SinceGrows DEF Since, TicksInv, StampsOK
    <3>3. heldFor' = IF heldFor < HeldLimit THEN heldFor + 1 ELSE heldFor
      BY <2>1 DEF TicksPass, TrackerTick
    <3>4. heldFor = IF Since(heldSince) < HeldLimit THEN Since(heldSince) ELSE HeldLimit
      BY <2>1 DEF TicksInv, HoldClock
    <3>5. heldFor' = IF Since(heldSince)' < HeldLimit THEN Since(heldSince)' ELSE HeldLimit
      BY <3>1, <3>2, <3>3, <3>4, WordTyped, InputAssumption
    <3>6. /\ repeatIn' = IF repeatIn > 0 THEN repeatIn - 1 ELSE 0
          /\ repeatIn = IF Since(nextRepeat) >= HalfWord THEN Word - Since(nextRepeat) ELSE 0
      BY <2>1 DEF TicksPass, TrackerTick, TicksInv, HoldClock, Ahead
    <3>7. repeatIn' = IF Ahead(nextRepeat)' THEN Word - Since(nextRepeat)' ELSE 0
      <4>1. CASE Since(nextRepeat) < Word - 1
        <5>1. Since(nextRepeat)' = Since(nextRepeat) + 1
          BY <1>1, <4>1, SinceGrows DEF Since, TicksInv, StampsOK
        <5>2. Ahead(nextRepeat)' <=> Since(nextRepeat)' >= HalfWord
          BY DEF Ahead
        <5>. QED
          BY <3>1, <3>6, <5>1, <5>2, WordTyped
      <4>2. CASE Since(nextRepeat) = Word - 1
        <5>1. Since(nextRepeat)' = 0
          <6> DEFINE now == (ticks + 1) % Word
          <6>1. ticks \in 0..Word-1 /\ nextRepeat \in 0..Word-1 /\ Word \in Nat \ {0, 1}
            BY WordTyped DEF TicksInv, StampsOK
          <6>2. now = IF ticks + 1 < Word THEN ticks + 1 ELSE 0
            <7>1. ticks + 1 \in Int
              BY <6>1
            <7>2. ticks + 1 < Word => now = ticks + 1
              BY <6>1, <7>1, WordWraps
            <7>3. ticks + 1 >= Word => now = (ticks + 1) - Word
              BY <6>1, <7>1, WordWraps
            <7>. QED
              BY <6>1, <7>2, <7>3
          <6>3. (ticks - nextRepeat) % Word =
                  IF ticks >= nextRepeat THEN ticks - nextRepeat ELSE ticks - nextRepeat + Word
            <7>1. ticks - nextRepeat \in Int
              BY <6>1
            <7>. QED
              BY <6>1, <7>1, WordWraps
          <6>4. (ticks - nextRepeat) % Word = Word - 1
            BY <4>2 DEF Since
          <6>. HIDE DEF now
          <6>5. now = nextRepeat
            BY <6>1, <6>2, <6>3, <6>4
          <6>. QED
            BY <1>1, <6>1, <6>5, SinceNow DEF Since, now
        <5>2. ~Ahead(nextRepeat)' /\ repeatIn = 1
          BY <3>6, <4>2, <5>1, WordTyped DEF Ahead
        <5>. QED
          BY <3>6, <5>2
      <4>. QED
        BY <3>1, <4>1, <4>2, WordTyped
    <3>. QED
      BY <3>5, <3>7 DEF HoldClock
  <2>. QED
    BY <1>1, <2>1 DEF HoldClock
<1>. QED
  BY <1>2, <1>3, <1>4, <1>5 DEF TicksInv

(* The ticks tell the time for words of any width, through every wrap.     *)
THEOREM TicksAlwaysTellTheTime ==
    ASSUME TicksAssumption
    PROVE  TicksSpec => []TicksTellTheTime
PROOF
<1>1. TicksInit => TicksInv
  <2>1. TicksInit => TrackerTypeOK
    BY InputAssumption DEF TicksInit, TrackerInit, TrackerTypeOK
  <2>. QED
    BY <2>1, WordTyped
    DEF TicksInit, TrackerInit, TicksInv, StampsOK, ActionClock, HoldClock
<1>2. TicksInv /\ [TicksNext]_ticksVars => TicksInv'
  <2>. SUFFICES ASSUME TicksInv, [TicksNext]_ticksVars
                PROVE  TicksInv'
    OBVIOUS
  <2>1. CASE UNCHANGED ticksVars
    <3>1. UNCHANGED <<held, heldBy, second, heldFor, repeatIn, last, lastAge,
                      ticks, heldSince, nextRepeat, lastAt>>
      BY <2>1 DEF ticksVars, trackerVars, stampVars
    <3>. QED
      BY <3>1 DEF TicksInv, TrackerTypeOK, StampsOK, ActionClock, HoldClock, Since, Ahead
  <2>. QED
    BY <2>1, EventKeepsTime, RepeatKeepsTime, TimePasses DEF TicksNext
<1>3. TicksInv => TicksTellTheTime
  BY TicksDecide
<1>. QED
  BY <1>1, <1>2, <1>3, PTL DEF TicksSpec
=============================================================================
