--------------------------- MODULE SettingsStore ----------------------------
(***************************************************************************)
(* src/settings.c: settings_load, and settings_save step by step, over the *)
(* file usbjiggler.cfg and the temporary files beside it.  The program can *)
(* be killed, and the device can lose power, between any two steps; a      *)
(* later run may get the process id of an earlier one, and somebody may    *)
(* edit the file between two runs.                                         *)
(*                                                                         *)
(* A file is the sequence of its lines.  Blank lines are left out, and a   *)
(* line that settings_load refuses whatever else is in the file - too      *)
(* long, without exactly one "=", with a value that is no integer or a key *)
(* it does not know - is Junk.  No file loads like an empty one: as the    *)
(* defaults.                                                               *)
(***************************************************************************)
EXTENDS Integers, Sequences

CONSTANTS
    Lowest, Highest,  \* the limits of every setting
    Default,          \* settings_defaults
    Choices,          \* settings that somebody chooses
    Edits,            \* files that somebody leaves
    Pids              \* process ids that a run may get

(* The lines in the order in which they are written.                       *)
Order == <<"interval_sec", "move_px", "pattern">>
Keys == {"interval_sec", "move_px", "pattern"}

Line == [key : Keys \union {"junk"}, value : Int]
Junk == [key |-> "junk", value |-> 0]

(* settings_validate.                                                      *)
IsLegal(s) == \A key \in Keys : s[key] \in Lowest[key]..Highest[key]

ASSUME StoreAssumption ==
    /\ Lowest \in [Keys -> Nat] /\ Highest \in [Keys -> Nat]
    /\ Highest["pattern"] < 10  \* the last number of the file has one digit
    /\ Choices \subseteq [Keys -> Int]
    /\ \A s \in Choices \union {Default} : s \in [Keys -> Int] /\ IsLegal(s)
    /\ Edits \subseteq Seq(Line)
    /\ \A pid \in Pids : pid # 0

VARIABLES
    \* What outlives the program.
    file,      \* the lines of usbjiggler.cfg
    lasting,   \* the contents it may have after a power failure
    temps,     \* the process ids whose temporary file exists
    lastTemps, \* ... or may exist after a power failure
    honest,    \* the storage has written what it says it has
    \* The program.
    pid,       \* its process id, or 0
    settings,  \* model.settings
    pc,        \* where settings_save is, or "idle"
    written,   \* the lines of its temporary file
    synced,    \* fsync has succeeded on it
    reported   \* the last load or save of this run has reported a failure

diskVars == <<file, lasting, temps, lastTemps>>
saveVars == <<pc, written, synced, reported>>
vars == <<diskVars, honest, pid, settings, saveVars>>

----------------------------------------------------------------------------
(* Mutant: the values are not checked.                                     *)
AcceptedUnchecked(lines) ==
    /\ \A i \in DOMAIN lines : lines[i].key \in Keys
    /\ \A key \in Keys : \E i \in DOMAIN lines : lines[i].key = key

(* The value of a key that has one line.                                   *)
ValueOf(lines, key) == lines[CHOOSE i \in DOMAIN lines : lines[i].key = key].value

Read(lines) == [key \in Keys |-> ValueOf(lines, key)]

(* Every line is understood, every key is there, none twice, and the       *)
(* values are in range.                                                    *)
Accepted(lines) ==
    /\ \A i \in DOMAIN lines : lines[i].key \in Keys
    /\ \A key \in Keys : \E i \in DOMAIN lines : lines[i].key = key
    /\ \A i, j \in DOMAIN lines : lines[i].key = lines[j].key => i = j
    /\ IsLegal(Read(lines))

(* What settings_load makes of a file that it can read.                    *)
Loaded(lines) == IF Accepted(lines) THEN Read(lines) ELSE Default

(* What settings_save writes.                                              *)
Format(s) == [i \in DOMAIN Order |-> [key |-> Order[i], value |-> s[Order[i]]]]

(* A line that breaks off: without its "=" or its digits it is Junk, and   *)
(* with some of its digits it is another number.                           *)
Cuts(line) ==
    {Junk} \union {[line EXCEPT !.value = @ \div tail] :
                       tail \in {t \in {10, 100, 1000} : t <= line.value}}

(* The beginnings of a file.                                               *)
Torn(lines) ==
    {SubSeq(lines, 1, n) : n \in 0..Len(lines)}
    \union UNION {{SubSeq(lines, 1, n - 1) \o <<cut>> : cut \in Cuts(lines[n])} :
                      n \in 1..Len(lines)}

----------------------------------------------------------------------------
Init ==
    /\ file \in {<< >>} \union {Format(s) : s \in Choices}
    /\ lasting = {file}
    /\ temps = {} /\ lastTemps = {}
    /\ honest \in BOOLEAN
    /\ pid = 0
    /\ settings = Default
    /\ pc = "idle"
    /\ written = << >>
    /\ synced = FALSE
    /\ reported = FALSE

Idle == pc' = "idle" /\ written' = << >> /\ synced' = FALSE

(* settings_save returns.                                                  *)
Return(failed) == Idle /\ reported' = failed

UnchangedBySave == UNCHANGED <<honest, pid, settings>>

(* main: a file that cannot be read gives the defaults as well.            *)
Load ==
    /\ pid = 0
    /\ pid' \in Pids
    /\ \/ settings' = Loaded(file) /\ reported' = FALSE
       \/ settings' = Default /\ reported' = TRUE
    /\ Idle
    /\ UNCHANGED <<diskVars, honest>>

(* The settings change, or the program is about to end, and are saved.     *)
Save ==
    /\ pid # 0 /\ pc = "idle"
    /\ settings' \in Choices
    /\ pc' = "open"
    /\ UNCHANGED <<diskVars, honest, pid, written, synced, reported>>

(* O_EXCL: a temporary file of that name must not exist.                   *)
Open ==
    /\ pc = "open"
    /\ \/ /\ pid \notin temps
          /\ temps' = temps \union {pid} /\ lastTemps' = lastTemps \union {pid}
          /\ pc' = "write"
          /\ UNCHANGED <<written, synced, reported>>
       \/ Return(TRUE) /\ UNCHANGED <<temps, lastTemps>>
    /\ UNCHANGED <<file, lasting>>
    /\ UnchangedBySave

(* fdopen, fprintf and fflush.                                             *)
Write ==
    /\ pc = "write"
    /\ \/ pc' = "sync" /\ written' = Format(settings)
       \/ pc' = "unlink" /\ UNCHANGED written
    /\ UNCHANGED <<diskVars, synced, reported>>
    /\ UnchangedBySave

(* Mutant: the data is not flushed to the storage.                         *)
SyncSkipped ==
    /\ pc = "sync"
    /\ pc' = "rename"
    /\ UNCHANGED <<diskVars, written, synced, reported>>
    /\ UnchangedBySave

(* fsync and fclose.                                                       *)
Sync ==
    /\ pc = "sync"
    /\ \/ pc' = "rename" /\ synced' = TRUE
       \/ pc' = "unlink" /\ UNCHANGED synced
    /\ UNCHANGED <<diskVars, written, reported>>
    /\ UnchangedBySave

(* What a power failure can leave of a file that has been renamed.         *)
Survivors == IF synced /\ honest THEN {written} ELSE Torn(written)

(* Mutant: a rename that fails is not reported.                            *)
RenameUnchecked ==
    /\ pc = "rename"
    /\ Return(FALSE)
    /\ \/ /\ file' = written
          /\ lasting' = lasting \union Survivors
          /\ temps' = temps \ {pid}
       \/ UNCHANGED <<file, lasting, temps>>
    /\ UNCHANGED lastTemps
    /\ UnchangedBySave

(* The directory is not synced: the old file may come back, and the        *)
(* temporary one with it.                                                  *)
Rename ==
    /\ pc = "rename"
    /\ \/ /\ file' = written
          /\ lasting' = lasting \union Survivors
          /\ temps' = temps \ {pid}
          /\ Return(FALSE)
       \/ /\ pc' = "unlink"
          /\ UNCHANGED <<file, lasting, temps, written, synced, reported>>
    /\ UNCHANGED lastTemps
    /\ UnchangedBySave

(* The failure of unlink is ignored.                                       *)
Unlink ==
    /\ pc = "unlink"
    /\ temps' \in {temps, temps \ {pid}}
    /\ Return(TRUE)
    /\ UNCHANGED <<file, lasting, lastTemps>>
    /\ UnchangedBySave

(* The program ends, or is killed, wherever it is.                         *)
End ==
    /\ pid # 0
    /\ pid' = 0
    /\ settings' = Default
    /\ Idle /\ reported' = FALSE
    /\ UNCHANGED <<diskVars, honest>>

(* The storage catches up.                                                 *)
Settle ==
    /\ lasting' = {file}
    /\ lastTemps' = temps
    /\ UNCHANGED <<file, temps, honest, pid, settings, saveVars>>

LosePower ==
    /\ file' \in lasting /\ lasting' = {file'}
    /\ temps' \in SUBSET lastTemps /\ lastTemps' = temps'
    /\ pid' = 0
    /\ settings' = Default
    /\ Idle /\ reported' = FALSE
    /\ UNCHANGED honest

(* The card is edited elsewhere.                                           *)
Edit ==
    /\ pid = 0
    /\ file' \in Edits /\ lasting' = {file'}
    /\ lastTemps' = temps
    /\ UNCHANGED <<temps, honest, pid, settings, saveVars>>

Program == Load \/ Save \/ Open \/ Write \/ Sync \/ Rename \/ Unlink

Next == Program \/ End \/ Settle \/ LosePower \/ Edit

Spec == Init /\ [][Next]_vars

----------------------------------------------------------------------------
(* Whatever is in the file, the settings are legal.                        *)
TypeOK ==
    /\ file \in Seq(Line) /\ written \in Seq(Line)
    /\ file \in lasting
    /\ temps \subseteq lastTemps /\ lastTemps \subseteq Pids
    /\ honest \in BOOLEAN /\ synced \in BOOLEAN /\ reported \in BOOLEAN
    /\ pid \in Pids \union {0}
    /\ settings \in [Keys -> Int] /\ IsLegal(settings)
    /\ pc \in {"idle", "open", "write", "sync", "rename", "unlink"}

(* As long as the program has reported no failure, the next run will have  *)
(* the settings it has now.                                                *)
StoredIsPlayed == pid # 0 /\ pc = "idle" /\ ~reported => Loaded(file) = settings

(* The settings that a load can return at all.                             *)
Known == Choices \union {Default} \union {Loaded(lines) : lines \in Edits}

Register == INSTANCE SettingsRegister WITH
    Legal <- Known,
    value <- Loaded(file),
    earlier <- {Loaded(lines) : lines \in lasting}

(* The file behaves as a register: no failure, crash, power loss, leftover *)
(* or reused process id makes a load return anything but what was saved,   *)
(* or left by hand, as a whole - and the defaults when the storage lies.   *)
ImplementsRegister == Register!Spec
=============================================================================
