------------------------- MODULE SettingsStoreProofs -------------------------
(***************************************************************************)
(* What SettingsStore promises, for all settings, limits, edits and        *)
(* process ids: what is stored is loaded again, and the file is a register *)
(* that changes as a whole.                                                *)
(***************************************************************************)
EXTENDS SettingsStore, SequenceTheorems, TLAPS

(* Writing and loading again gives the settings back.                      *)
LEMMA RoundTrip ==
    ASSUME NEW s \in [Keys -> Int], IsLegal(s)
    PROVE  /\ Format(s) \in Seq(Line) /\ Len(Format(s)) = 3
           /\ Loaded(Format(s)) = s
<1> DEFINE lines == Format(s)
<1>1. /\ lines = [i \in 1..3 |-> [key |-> Order[i], value |-> s[Order[i]]]]
      /\ Order[1] = "interval_sec" /\ Order[2] = "move_px" /\ Order[3] = "pattern"
  BY DEF Format, Order
<1>2. lines \in Seq(Line) /\ Len(lines) = 3 /\ DOMAIN lines = 1..3
  <2>1. \A i \in 1..3 : [key |-> Order[i], value |-> s[Order[i]]] \in Line
    BY <1>1 DEF Line, Keys
  <2> QED BY <1>1, <2>1
<1>3. /\ lines[1] = [key |-> "interval_sec", value |-> s["interval_sec"]]
      /\ lines[2] = [key |-> "move_px", value |-> s["move_px"]]
      /\ lines[3] = [key |-> "pattern", value |-> s["pattern"]]
  BY <1>1
<1>4. \A i \in 1..3 : i = 1 \/ i = 2 \/ i = 3
  OBVIOUS
<1>5. \A key \in Keys : ValueOf(lines, key) = s[key]
  <2> SUFFICES ASSUME NEW key \in Keys PROVE ValueOf(lines, key) = s[key]
    OBVIOUS
  <2>1. \E i \in DOMAIN lines : lines[i].key = key
    BY <1>2, <1>3 DEF Keys
  <2>2. \A i \in DOMAIN lines : lines[i].key = key => lines[i].value = s[key]
    BY <1>2, <1>3, <1>4 DEF Keys
  <2> QED BY <2>1, <2>2 DEF ValueOf
<1>6. Read(lines) = s
  BY <1>5 DEF Read
<1>7. Accepted(lines)
  <2>1. \A i \in DOMAIN lines : lines[i].key \in Keys
    BY <1>2, <1>3, <1>4 DEF Keys
  <2>2. \A key \in Keys : \E i \in DOMAIN lines : lines[i].key = key
    BY <1>2, <1>3 DEF Keys
  <2>3. \A i, j \in DOMAIN lines : lines[i].key = lines[j].key => i = j
    BY <1>2, <1>3, <1>4
  <2> QED BY <1>6, <2>1, <2>2, <2>3 DEF Accepted
<1> QED BY <1>2, <1>6, <1>7 DEF Loaded

(* Whatever the file holds, a load gives legal settings.                   *)
LEMMA LoadedIsLegal ==
    ASSUME NEW lines \in Seq(Line)
    PROVE  Loaded(lines) \in [Keys -> Int] /\ IsLegal(Loaded(lines))
<1>1. CASE Accepted(lines)
  <2>1. \A key \in Keys : ValueOf(lines, key) \in Int
    <3> SUFFICES ASSUME NEW key \in Keys PROVE ValueOf(lines, key) \in Int
      OBVIOUS
    <3>1. \E i \in DOMAIN lines : lines[i].key = key
      BY <1>1 DEF Accepted
    <3>2. \A i \in DOMAIN lines : lines[i] \in Line
      OBVIOUS
    <3>3. \A line \in Line : line.value \in Int
      BY DEF Line
    <3> QED BY <3>1, <3>2, <3>3 DEF ValueOf
  <2> QED BY <1>1, <2>1 DEF Loaded, Accepted, Read
<1>2. CASE ~Accepted(lines)
  BY <1>2, StoreAssumption DEF Loaded
<1> QED BY <1>1, <1>2

(* A file of which only a beginning was stored loads as what was saved or  *)
(* as the defaults, never as a mixture: the line that breaks off is the    *)
(* last one, whose number has one digit.                                   *)
LEMMA TornIsRejected ==
    ASSUME NEW s \in [Keys -> Int], IsLegal(s),
           NEW lines \in Torn(Format(s))
    PROVE  lines \in Seq(Line) /\ Loaded(lines) \in {s, Default}
<1> DEFINE all == Format(s)
<1>1. /\ all \in Seq(Line) /\ Len(all) = 3 /\ Loaded(all) = s
  BY RoundTrip
<1>2. /\ all[1].key = "interval_sec" /\ all[2].key = "move_px"
      /\ all[3].key = "pattern" /\ all[3].value = s["pattern"]
      /\ s["pattern"] \in Int /\ s["pattern"] < 10
  <2>1. s["pattern"] <= Highest["pattern"] /\ s["pattern"] \in Int /\ Highest["pattern"] \in Nat
    BY StoreAssumption DEF IsLegal, Keys
  <2> QED BY <2>1, StoreAssumption DEF Format, Order
<1> HIDE DEF all
<1>3. CASE \E n \in 0..3 : lines = SubSeq(all, 1, n)
  <2> PICK n \in 0..3 : lines = SubSeq(all, 1, n)
    BY <1>3
  <2>1. lines \in Seq(Line) /\ Len(lines) = n /\ \A i \in 1..n : lines[i] = all[i]
    BY <1>1
  <2>2. CASE n = 3
    <3>1. lines = all
      BY <1>1, <2>2
    <3> QED BY <1>1, <3>1
  <2>3. CASE n # 3
    <3>1. \A i \in DOMAIN lines : i = 1 \/ i = 2
      BY <2>1, <2>3
    <3>2. \A i \in DOMAIN lines : lines[i].key # "pattern"
      BY <1>2, <2>1, <3>1
    <3>3. ~Accepted(lines)
      BY <3>2 DEF Accepted, Keys
    <3> QED BY <2>1, <3>3 DEF Loaded
  <2> QED BY <2>2, <2>3
<1>4. CASE \E n \in 1..3 : \E cut \in Cuts(all[n]) :
              lines = SubSeq(all, 1, n - 1) \o <<cut>>
  <2> PICK n \in 1..3 : \E cut \in Cuts(all[n]) : lines = SubSeq(all, 1, n - 1) \o <<cut>>
    BY <1>4
  <2> PICK cut \in Cuts(all[n]) : lines = SubSeq(all, 1, n - 1) \o <<cut>>
    OBVIOUS
  <2>1. all[n] \in Line
    BY <1>1
  <2>2. /\ cut \in Line
        /\ cut.key = "junk" \/ (cut.key = all[n].key /\ \E t \in {10, 100, 1000} : t <= all[n].value)
    <3>1. CASE cut = Junk
      BY <3>1 DEF Junk, Line
    <3>2. CASE \E tail \in {10, 100, 1000} :
                  tail <= all[n].value /\ cut = [all[n] EXCEPT !.value = @ \div tail]
      <4> PICK tail \in {10, 100, 1000} :
                  tail <= all[n].value /\ cut = [all[n] EXCEPT !.value = @ \div tail]
        BY <3>2
      <4>1. all[n].value \in Int /\ all[n].value \div tail \in Int
        BY <2>1 DEF Line
      <4>2. cut.key = all[n].key /\ cut.value = all[n].value \div tail /\ cut \in Line
        BY <2>1, <4>1 DEF Line
      <4> QED BY <4>2
    <3> QED BY <3>1, <3>2 DEF Cuts
  <2>3. /\ lines \in Seq(Line) /\ Len(lines) = n /\ lines[n] = cut
        /\ \A i \in 1..(n - 1) : lines[i] = all[i]
    <3> DEFINE before == SubSeq(all, 1, n - 1)
    <3>1. /\ before \in Seq(Line) /\ Len(before) = n - 1
          /\ \A i \in 1..(n - 1) : before[i] = all[i]
      <4>1. \A i \in 1..(n - 1) : all[i] \in Line
        <5>1. \A i \in 1..Len(all) : all[i] \in Line
          BY <1>1, ElementOfSeq
        <5> QED BY <1>1, <5>1
      <4> QED BY <4>1, SubSeqProperties DEF before
    <3>2. <<cut>> \in Seq(Line) /\ Len(<<cut>>) = 1 /\ <<cut>>[1] = cut
      BY <2>2
    <3> HIDE DEF before
    <3>3. lines = before \o <<cut>>
      BY DEF before
    <3> QED BY <3>1, <3>2, <3>3, ConcatProperties
  <2>4. ~Accepted(lines)
    <3>1. CASE cut.key = "junk"
      <4>1. n \in DOMAIN lines /\ lines[n].key \notin Keys
        BY <2>3, <3>1 DEF Keys
      <4> QED BY <4>1 DEF Accepted
    <3>2. CASE cut.key # "junk"
      <4>1. n # 3
        <5> SUFFICES ASSUME n = 3 PROVE FALSE
          OBVIOUS
        <5>1. \E t \in {10, 100, 1000} : t <= s["pattern"]
          BY <1>2, <2>2, <3>2
        <5> QED BY <1>2, <5>1
      <4>2. \A i \in DOMAIN lines : i = 1 \/ i = 2
        BY <2>3, <4>1
      <4>3. \A i \in DOMAIN lines : lines[i].key = all[i].key
        <5>1. \A i \in DOMAIN lines : i = n \/ i \in 1..(n - 1)
          BY <2>3
        <5>2. cut.key = all[n].key
          BY <2>2, <3>2
        <5> QED BY <2>3, <5>1, <5>2
      <4>4. \A i \in DOMAIN lines : lines[i].key # "pattern"
        BY <1>2, <4>2, <4>3
      <4> QED BY <4>4 DEF Accepted, Keys
    <3> QED BY <3>1, <3>2
  <2> QED BY <2>3, <2>4 DEF Loaded
<1>5. \/ \E n \in 0..3 : lines = SubSeq(all, 1, n)
      \/ \E n \in 1..3 : \E cut \in Cuts(all[n]) :
            lines = SubSeq(all, 1, n - 1) \o <<cut>>
  <2>1. lines \in Torn(all)
    BY DEF all
  <2>2. \/ \E n \in 0..Len(all) : lines = SubSeq(all, 1, n)
        \/ \E n \in 1..Len(all) : \E cut \in Cuts(all[n]) :
              lines = SubSeq(all, 1, n - 1) \o <<cut>>
    BY <2>1, Zenon DEF Torn
  <2> QED BY <1>1, <2>2
<1> QED BY <1>3, <1>4, <1>5

----------------------------------------------------------------------------
(* The inductive invariant.  What settings_save has written is what it was *)
(* asked to save, and it is synced when it is renamed.                     *)
SaveInv ==
    /\ pc # "idle" => pid # 0 /\ settings \in Choices
    /\ pc \in {"sync", "rename"} => written = Format(settings)
    /\ pc = "rename" => synced

StoreInv ==
    /\ TypeOK
    /\ lasting \subseteq Seq(Line)
    /\ SaveInv
    /\ StoredIsPlayed

LEMMA StoreInit == Init => StoreInv
<1> SUFFICES ASSUME Init PROVE StoreInv
  OBVIOUS
<1>1. \A s \in Choices : Format(s) \in Seq(Line)
  BY RoundTrip, StoreAssumption
<1>2. file \in Seq(Line) /\ lasting = {file}
  <2>1. << >> \in Seq(Line)
    OBVIOUS
  <2> QED BY <1>1, <2>1 DEF Init
<1>3. Default \in [Keys -> Int] /\ IsLegal(Default)
  BY StoreAssumption
<1>4. TypeOK
  <2>1. settings \in [Keys -> Int] /\ IsLegal(settings)
    BY <1>3 DEF Init
  <2>2. written \in Seq(Line) /\ synced \in BOOLEAN /\ reported \in BOOLEAN
    <3>1. << >> \in Seq(Line)
      OBVIOUS
    <3> QED BY <3>1, Zenon DEF Init
  <2> QED BY <1>2, <2>1, <2>2 DEF Init, TypeOK
<1> QED BY <1>2, <1>4 DEF Init, StoreInv, SaveInv, StoredIsPlayed

LEMMA StoreStep == StoreInv /\ [Next]_vars => StoreInv'
<1> SUFFICES ASSUME StoreInv, [Next]_vars PROVE StoreInv'
  OBVIOUS
<1> USE DEF StoreInv
<1>0. << >> \in Seq(Line)
  OBVIOUS
<1>1. Default \in [Keys -> Int] /\ IsLegal(Default)
  BY StoreAssumption
<1>2. \A s \in Choices : s \in [Keys -> Int] /\ IsLegal(s)
  BY StoreAssumption
<1>3. \A s \in Choices : /\ Format(s) \in Seq(Line)
                         /\ Loaded(Format(s)) = s
                         /\ Torn(Format(s)) \subseteq Seq(Line)
  BY <1>2, RoundTrip, TornIsRejected
<1>4. Loaded(file) \in [Keys -> Int] /\ IsLegal(Loaded(file))
  BY LoadedIsLegal DEF TypeOK
<1>5. CASE Load
  <2>1. settings' \in [Keys -> Int] /\ IsLegal(settings')
    BY <1>1, <1>4, <1>5 DEF Load, Idle, diskVars, TypeOK
  <2>2. written' \in Seq(Line) /\ synced' \in BOOLEAN /\ reported' \in BOOLEAN
    BY <1>0, <1>5, Zenon DEF Load, Idle, diskVars, TypeOK
  <2>3. TypeOK' /\ lasting' \subseteq Seq(Line)
    BY <1>5, <2>1, <2>2 DEF Load, Idle, diskVars, TypeOK, IsLegal
  <2>4. SaveInv' /\ StoredIsPlayed'
    BY <1>5 DEF Load, Idle, diskVars, TypeOK, SaveInv, StoredIsPlayed
  <2> QED BY <2>3, <2>4
<1>6. CASE Save
  BY <1>2, <1>6 DEF Save, TypeOK, SaveInv, StoredIsPlayed, IsLegal, diskVars
<1>7. CASE Open
  <2>1. settings' \in [Keys -> Int] /\ IsLegal(settings')
    BY <1>7 DEF Open, Return, Idle, UnchangedBySave, TypeOK
  <2>2. written' \in Seq(Line) /\ synced' \in BOOLEAN /\ reported' \in BOOLEAN
    BY <1>0, <1>7, Zenon DEF Open, Return, Idle, UnchangedBySave, TypeOK
  <2>3. TypeOK' /\ lasting' \subseteq Seq(Line)
    BY <1>7, <2>1, <2>2 DEF Open, Return, Idle, UnchangedBySave, TypeOK, SaveInv, IsLegal
  <2>4. SaveInv' /\ StoredIsPlayed'
    BY <1>7 DEF Open, Return, Idle, UnchangedBySave, TypeOK, SaveInv, StoredIsPlayed
  <2> QED BY <2>3, <2>4
<1>8. CASE Write
  BY <1>3, <1>8 DEF Write, UnchangedBySave, TypeOK, SaveInv, StoredIsPlayed, IsLegal, diskVars
<1>9. CASE Sync
  BY <1>9 DEF Sync, UnchangedBySave, TypeOK, SaveInv, StoredIsPlayed, IsLegal, diskVars
<1>10. CASE Rename
  <2>1. /\ settings \in Choices /\ written = Format(settings)
        /\ Survivors \subseteq Seq(Line) /\ written \in Survivors
    <3>1. settings \in Choices /\ written = Format(settings) /\ synced
      BY <1>10 DEF Rename, SaveInv
    <3>2. written \in Torn(written)
      <4>1. Len(written) \in 0..Len(written) /\ written = SubSeq(written, 1, Len(written))
        BY <1>2, <3>1, RoundTrip
      <4> QED BY <4>1 DEF Torn
    <3> QED BY <1>3, <3>1, <3>2 DEF Survivors
  <2>2. CASE pc' = "unlink"
    BY <1>10, <2>1, <2>2 DEF Rename, Return, Idle, UnchangedBySave, TypeOK, SaveInv,
                             StoredIsPlayed, IsLegal
  <2>3. CASE pc' # "unlink"
    <3>1. /\ file' = written /\ lasting' = lasting \union Survivors
          /\ temps' = temps \ {pid} /\ Return(FALSE)
          /\ UNCHANGED <<lastTemps, honest, pid, settings>>
      BY <1>10, <2>3 DEF Rename, UnchangedBySave
    <3>2. Loaded(file') = settings'
      BY <1>3, <2>1, <3>1
    <3>3. TypeOK'
      <4>1. written' \in Seq(Line) /\ synced' \in BOOLEAN /\ reported' \in BOOLEAN
        BY <1>0, <3>1, Zenon DEF Return, Idle
      <4>2. written \in Seq(Line)
        BY DEF TypeOK
      <4> QED BY <2>1, <3>1, <4>1, <4>2 DEF Return, Idle, TypeOK, IsLegal
    <3> QED BY <1>3, <2>1, <3>1, <3>2, <3>3 DEF Return, Idle, SaveInv, StoredIsPlayed
  <2> QED BY <2>2, <2>3
<1>11. CASE Unlink
  <2>1. settings' \in [Keys -> Int] /\ IsLegal(settings')
    BY <1>11 DEF Unlink, Return, Idle, UnchangedBySave, TypeOK
  <2>2. written' \in Seq(Line) /\ synced' \in BOOLEAN /\ reported' \in BOOLEAN
    BY <1>0, <1>11, Zenon DEF Unlink, Return, Idle, UnchangedBySave, TypeOK
  <2>3. TypeOK' /\ lasting' \subseteq Seq(Line)
    BY <1>11, <2>1, <2>2 DEF Unlink, Return, Idle, UnchangedBySave, TypeOK, IsLegal
  <2>4. SaveInv' /\ StoredIsPlayed'
    BY <1>11 DEF Unlink, Return, Idle, UnchangedBySave, TypeOK, SaveInv, StoredIsPlayed
  <2> QED BY <2>3, <2>4
<1>12. CASE End
  <2>1. settings' \in [Keys -> Int] /\ IsLegal(settings')
    BY <1>1, <1>12 DEF End, Idle, diskVars, TypeOK
  <2>2. written' \in Seq(Line) /\ synced' \in BOOLEAN /\ reported' \in BOOLEAN
    BY <1>0, <1>12, Zenon DEF End, Idle, diskVars, TypeOK
  <2>3. TypeOK' /\ lasting' \subseteq Seq(Line)
    BY <1>12, <2>1, <2>2 DEF End, Idle, diskVars, TypeOK, IsLegal
  <2>4. SaveInv' /\ StoredIsPlayed'
    BY <1>12 DEF End, Idle, diskVars, TypeOK, SaveInv, StoredIsPlayed
  <2> QED BY <2>3, <2>4
<1>13. CASE Settle
  BY <1>13 DEF Settle, saveVars, TypeOK, SaveInv, StoredIsPlayed, IsLegal
<1>14. CASE LosePower
  <2>1. settings' \in [Keys -> Int] /\ IsLegal(settings')
    BY <1>1, <1>14 DEF LosePower, Idle, TypeOK
  <2>2. written' \in Seq(Line) /\ synced' \in BOOLEAN /\ reported' \in BOOLEAN
    BY <1>0, <1>14, Zenon DEF LosePower, Idle, TypeOK
  <2>3. TypeOK' /\ lasting' \subseteq Seq(Line)
    BY <1>14, <2>1, <2>2 DEF LosePower, Idle, TypeOK, IsLegal
  <2>4. SaveInv' /\ StoredIsPlayed'
    BY <1>14 DEF LosePower, Idle, TypeOK, SaveInv, StoredIsPlayed
  <2> QED BY <2>3, <2>4
<1>15. CASE Edit
  BY <1>15, StoreAssumption DEF Edit, saveVars, TypeOK, SaveInv, StoredIsPlayed, IsLegal
<1>16. CASE UNCHANGED vars
  BY <1>16 DEF vars, diskVars, saveVars, TypeOK, SaveInv, StoredIsPlayed, IsLegal
<1> QED BY <1>5, <1>6, <1>7, <1>8, <1>9, <1>10, <1>11, <1>12, <1>13, <1>14, <1>15, <1>16
        DEF Next, Program

(* Whatever happens to the file, the program plays legal settings.         *)
THEOREM StoreAlwaysTyped == Spec => []TypeOK
<1>1. StoreInv => TypeOK
  BY DEF StoreInv
<1> QED BY <1>1, StoreInit, StoreStep, PTL DEF Spec

(* A load or save that reports no failure leaves the settings of the       *)
(* program in the file.                                                    *)
THEOREM StoredAlwaysPlayed == Spec => []StoredIsPlayed
<1>1. StoreInv => StoredIsPlayed
  BY DEF StoreInv
<1> QED BY <1>1, StoreInit, StoreStep, PTL DEF Spec

----------------------------------------------------------------------------
(* The refinement: only a rename stores, and it stores settings whole.     *)

LEMMA RegisterInit == Init => Register!Init
<1> SUFFICES ASSUME Init PROVE Register!Init
  OBVIOUS
<1>1. Loaded(<< >>) = Default
  BY DEF Loaded, Accepted, Keys
<1>2. \A s \in Choices : Loaded(Format(s)) = s
  BY RoundTrip, StoreAssumption
<1>3. Loaded(file) \in Known
  BY <1>1, <1>2 DEF Init, Known
<1> QED BY <1>3 DEF Init, Register!Init

LEMMA RegisterStep ==
    StoreInv /\ [Next]_vars => [Register!Next]_Register!registerVars
<1> SUFFICES ASSUME StoreInv, [Next]_vars
             PROVE  [Register!Next]_Register!registerVars
  OBVIOUS
<1>1. CASE UNCHANGED <<file, lasting, honest>>
  BY <1>1 DEF Register!registerVars
<1>2. CASE Rename /\ file' = written /\ lasting' = lasting \union Survivors
  <2>1. /\ settings \in Choices /\ written = Format(settings) /\ synced
        /\ settings \in [Keys -> Int] /\ IsLegal(settings)
    BY <1>2, StoreAssumption DEF Rename, StoreInv, SaveInv
  <2>2. Loaded(written) = settings /\ settings \in Known
    BY <2>1, RoundTrip DEF Known
  <2>3. {Loaded(lines) : lines \in Survivors} =
           {settings} \union (IF honest THEN {} ELSE {Default})
    <3>1. CASE honest
      BY <2>1, <2>2, <3>1 DEF Survivors
    <3>2. CASE ~honest
      <4>1. Survivors = Torn(Format(settings))
        BY <2>1, <3>2 DEF Survivors
      <4>2. \A lines \in Torn(Format(settings)) : Loaded(lines) \in {settings, Default}
        BY <2>1, TornIsRejected
      <4>3. \A n \in 0..3 : SubSeq(Format(settings), 1, n) \in Torn(Format(settings))
        BY <2>1, RoundTrip DEF Torn
      <4>4. SubSeq(Format(settings), 1, 3) = Format(settings)
        BY <2>1, RoundTrip
      <4>5. /\ SubSeq(Format(settings), 1, 0) = << >>
            /\ Loaded(<< >>) = Default
        BY DEF Loaded, Accepted, Keys
      <4>6. /\ Format(settings) \in Torn(Format(settings))
            /\ << >> \in Torn(Format(settings))
        <5>1. 0 \in 0..3 /\ 3 \in 0..3
          OBVIOUS
        <5> QED BY <4>3, <4>4, <4>5, <5>1, Zenon
      <4> QED BY <2>1, <2>2, <3>2, <4>1, <4>2, <4>5, <4>6
    <3> QED BY <3>1, <3>2
  <2>4. UNCHANGED honest
    BY <1>2 DEF Rename, UnchangedBySave
  <2>5. Register!Store(settings)
    BY <1>2, <2>2, <2>3, <2>4 DEF Register!Store
  <2> QED BY <2>2, <2>5 DEF Register!Next
<1>3. CASE Settle
  <2>1. Register!Settle
    BY <1>3 DEF Settle, Register!Settle
  <2> QED BY <2>1 DEF Register!Next
<1>4. CASE LosePower
  <2>1. Register!LosePower
    BY <1>4 DEF LosePower, Register!LosePower
  <2> QED BY <2>1 DEF Register!Next
<1>5. CASE Edit
  <2>1. Loaded(file') \in Known /\ Register!Replace(Loaded(file'))
    BY <1>5 DEF Edit, Known, Register!Replace
  <2> QED BY <2>1 DEF Register!Next
<1>6. \/ UNCHANGED <<file, lasting, honest>> \/ Settle \/ LosePower \/ Edit
      \/ Rename /\ file' = written /\ lasting' = lasting \union Survivors
  BY DEF Next, Program, Load, Save, Open, Write, Sync, Rename, Unlink, End,
         UnchangedBySave, diskVars, vars
<1> QED BY <1>1, <1>2, <1>3, <1>4, <1>5, <1>6

(* The file, with the program, its crashes and the storage under it,       *)
(* implements the register.                                                *)
THEOREM StoreIsRegister == Spec => ImplementsRegister
<1>1. Init /\ [][Next]_vars => Register!Init /\ [][Register!Next]_Register!registerVars
  BY StoreInit, StoreStep, RegisterInit, RegisterStep, PTL
<1> QED BY <1>1 DEF Spec, ImplementsRegister, Register!Spec
=============================================================================
