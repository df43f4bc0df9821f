---------------------------- MODULE MC_Settings -----------------------------
(* The program's limits and defaults; settings whose numbers, cut short,   *)
(* are legal numbers as well; and files as somebody might leave them.      *)
EXTENDS SettingsStore

MC_Lowest  == [interval_sec |-> 1, move_px |-> 1, pattern |-> 0]
MC_Highest == [interval_sec |-> 300, move_px |-> 2000, pattern |-> 3]
MC_Default == [interval_sec |-> 30, move_px |-> 2, pattern |-> 0]
Chosen     == [interval_sec |-> 300, move_px |-> 2000, pattern |-> 3]
MC_Choices == {MC_Default, Chosen}

Entry(name, number) == [key |-> name, value |-> number]

MC_Edits ==
    { << >>,
      Format(Chosen) \o <<Junk>>,
      Format(Chosen) \o <<Entry("move_px", 7)>>,
      <<Entry("pattern", 1), Entry("move_px", 7), Entry("interval_sec", 5)>>,
      <<Entry("interval_sec", 301), Entry("move_px", 7), Entry("pattern", 1)>>,
      <<Entry("interval_sec", 5), Entry("move_px", 0), Entry("pattern", 1)>>,
      <<Entry("interval_sec", 5), Entry("move_px", 7), Entry("pattern", 4)>> }
=============================================================================
