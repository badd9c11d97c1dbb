----------------------------- MODULE RunRecords -----------------------------
(***************************************************************************)
(* The record a command leaves of itself (src/src/runs/): asked for, and    *)
(* opened before the command does anything; or not asked for, and kept      *)
(* after it failed, by the command or, for what failed outside one, by the  *)
(* program (src/src/program.ts).  Runs older than some days are removed as  *)
(* another one starts, a run that is still under way among them.            *)
(*                                                                          *)
(* An event is its number within the command.  A disk that takes no writes  *)
(* may take the next one.                                                   *)
(***************************************************************************)
EXTENDS Integers, Sequences, FiniteSets

CONSTANTS
  Makers,        \* commands, each of which runs once
  HeldAtMost,    \* events held for a command that may fail
  KeepDays,
  MaxDay, MaxNoted   \* bounds: days that pass, events of a command

ASSUME RunsAssumption ==
  /\ HeldAtMost \in Nat \ {0} /\ KeepDays \in Nat
  /\ MaxDay \in Nat /\ MaxNoted \in Nat

Modes == {"record", "keep", "off", "outside"}    \* "outside": a command that does not use the recorder
Slots == Makers \X {1, 2, 3}
NoRun == [status |-> "none", day |-> 0, noted |-> << >>]

VARIABLES
  today,
  records,       \* the runs directory, by command and number
  runs,          \* how many it has opened
  maker,         \* each command: its mode, where it is, what it did, what it tells
  noted,         \* how many events each command had
  holding,       \* those it holds in case it fails
  spoilt         \* has a write of its record failed, or was its record removed?

runVars == << today, records, runs, maker, noted, holding, spoilt >>

Asleep == [mode |-> "off", at |-> "asleep", since |-> 0, did |-> "nothing", settled |-> FALSE, tells |-> "nothing"]

RunsInit ==
  /\ today = 0
  /\ records = [s \in Slots |-> NoRun]
  /\ runs = [c \in Makers |-> 0]
  /\ maker = [c \in Makers |-> Asleep]
  /\ noted = [c \in Makers |-> 0]
  /\ holding = [c \in Makers |-> << >>]
  /\ spoilt = [c \in Makers |-> FALSE]

CurrentRun(c) == << c, runs[c] >>
At(c, place) == maker[c].at = place
GoesOn(c, place) == maker' = [maker EXCEPT ![c].at = place]

----------------------------------------------------------------------------
BeginRun(c, mode) ==
  /\ At(c, "asleep")
  /\ maker' = [maker EXCEPT ![c] = [Asleep EXCEPT !.mode = mode, !.since = today,
                                                  !.at = IF mode = "record" THEN "opens" ELSE "body"]]
  /\ UNCHANGED << today, records, runs, noted, holding, spoilt >>

\* The failure, if there was one, and what becomes of an error that opening or writing the record
\* throws: before the body and in the catch of the recorder it goes on to the program, as an error
\* nobody has settled; in the program it is swallowed.
Thrown(c) ==
  IF maker[c].at \in {"opens last", "opened last", "writes last"} THEN GoesOn(c, "ended")
  ELSE maker' = [maker EXCEPT ![c].at = "thrown", ![c].settled = At(c, "writes success"), ![c].tells = "a failure"]

\* pruneRuns, whole days: with the day the command began.
Pruned(c) == { s \in Slots : records[s] # NoRun /\ records[s].day < maker[c].since - KeepDays }

\* startRun: prune, the directory and its events file.
MakeDirectory(c) ==
  /\ maker[c].at \in {"opens", "opens failed", "opens last"}
  /\ \/ /\ runs' = [runs EXCEPT ![c] = @ + 1]
        /\ records' = [s \in Slots |->
             IF s = << c, runs[c] + 1 >> THEN [NoRun EXCEPT !.status = "no file", !.day = maker[c].since]
             ELSE IF s \in Pruned(c) THEN NoRun ELSE records[s]]
        /\ spoilt' = [k \in Makers |-> spoilt[k] \/ \E s \in Pruned(c) : s[1] = k]
        /\ GoesOn(c, IF At(c, "opens") THEN "opened" ELSE IF At(c, "opens failed") THEN "opened failed"
                     ELSE "opened last")
     \/ Thrown(c) /\ spoilt' = [spoilt EXCEPT ![c] = TRUE] /\ UNCHANGED << records, runs >>
  /\ UNCHANGED << today, noted, holding >>

\* run.json says "running"; a run that is kept takes what was held.  A record that was removed
\* meanwhile is written again without its events.
WriteRunning(c) ==
  /\ maker[c].at \in {"opened", "opened failed", "opened last"}
  /\ \/ /\ records' = [records EXCEPT ![CurrentRun(c)] =
                      [status |-> "running", day |-> maker[c].since, noted |-> IF records[CurrentRun(c)] = NoRun THEN << >> ELSE holding[c]]]
        /\ GoesOn(c, IF At(c, "opened") THEN "body" ELSE IF At(c, "opened failed") THEN "writes failed"
                     ELSE "writes last")
        /\ UNCHANGED spoilt
     \/ Thrown(c) /\ spoilt' = [spoilt EXCEPT ![c] = TRUE] /\ UNCHANGED records
  /\ UNCHANGED << today, runs, noted, holding >>

\* An event: into the log as it happens, which may stop taking them and only warns; or held.
Logged(c, seq) == IF records[CurrentRun(c)] = NoRun THEN records ELSE [records EXCEPT ![CurrentRun(c)].noted = seq]

\* Mutant of Holds: the oldest are kept.
HoldsOldest(seq) == SubSeq(seq, 1, IF Len(seq) > HeldAtMost THEN HeldAtMost ELSE Len(seq))

Holds(seq) == IF Len(seq) > HeldAtMost THEN Tail(seq) ELSE seq

Note(c) ==
  /\ At(c, "body") /\ noted[c] < MaxNoted
  /\ noted' = [noted EXCEPT ![c] = @ + 1]
  /\ \/ /\ maker[c].mode = "record" /\ ~spoilt[c]
        /\ \/ records' = Logged(c, Append(records[CurrentRun(c)].noted, noted'[c])) /\ UNCHANGED spoilt
           \/ spoilt' = [spoilt EXCEPT ![c] = TRUE] /\ UNCHANGED records
        /\ UNCHANGED holding
     \/ maker[c].mode = "record" /\ spoilt[c] /\ UNCHANGED << records, holding, spoilt >>
     \/ /\ maker[c].mode = "keep"
        /\ holding' = [holding EXCEPT ![c] = Holds(Append(@, noted'[c]))]
        /\ UNCHANGED << records, spoilt >>
     \/ maker[c].mode \in {"off", "outside"} /\ UNCHANGED << records, holding, spoilt >>
  /\ UNCHANGED << today, runs, maker >>

\* The body answers.
Succeeds(c) ==
  /\ At(c, "body")
  /\ maker' = [maker EXCEPT ![c].did = "its work", ![c].tells = "an answer",
                            ![c].at = IF maker[c].mode = "record" THEN "writes success" ELSE "ended"]
  /\ UNCHANGED << today, records, runs, noted, holding, spoilt >>

\* The recorder has dealt with the failure, also where the owner wants none kept.
Settle(c) == maker[c].mode # "outside"

BodyFails(c) ==
  /\ At(c, "body")
  /\ maker' = [maker EXCEPT ![c].did = "nothing", ![c].tells = "a failure", ![c].settled = Settle(c),
                            ![c].at = CASE maker[c].mode = "record" -> "writes failed"
                                        [] maker[c].mode = "keep" -> "opens failed"
                                        [] OTHER -> "thrown"]
  /\ UNCHANGED << today, records, runs, noted, holding, spoilt >>

\* finish: once, whatever it is asked after.
FinishRun(c) ==
  /\ maker[c].at \in {"writes success", "writes failed", "writes last"}
  /\ \/ /\ records' = [records EXCEPT ![CurrentRun(c)] =
                      [@ EXCEPT !.status = IF At(c, "writes success") THEN "success" ELSE "failed",
                                !.day = maker[c].since]]
        /\ GoesOn(c, IF At(c, "writes failed") THEN "thrown" ELSE "ended")
        /\ UNCHANGED spoilt
     \/ Thrown(c) /\ spoilt' = [spoilt EXCEPT ![c] = TRUE] /\ UNCHANGED records
  /\ UNCHANGED << today, runs, noted, holding >>

\* keepFailure: what nobody has settled, through the same recorder, unless the owner wants none kept.
KeepFailure(c) ==
  /\ At(c, "thrown")
  /\ \/ maker[c].settled /\ GoesOn(c, "ended") /\ UNCHANGED holding
     \/ ~maker[c].settled /\ maker[c].mode # "off"
        /\ maker' = [maker EXCEPT ![c].at = "opens last", ![c].settled = TRUE, ![c].since = today]
        /\ holding' = [holding EXCEPT ![c] = << >>]
     \/ ~maker[c].settled /\ maker[c].mode \in {"record", "off"} /\ GoesOn(c, "ended") /\ UNCHANGED holding
  /\ UNCHANGED << today, records, runs, noted, spoilt >>

Killed(c) ==
  /\ maker[c].at \notin {"asleep", "ended", "killed"}
  /\ maker' = [maker EXCEPT ![c] = [Asleep EXCEPT !.at = "killed"]]
  /\ noted' = [noted EXCEPT ![c] = 0] /\ holding' = [holding EXCEPT ![c] = << >>]
  /\ UNCHANGED << today, records, runs, spoilt >>

DayPasses ==
  /\ today < MaxDay
  /\ today' = today + 1
  /\ UNCHANGED << records, runs, maker, noted, holding, spoilt >>

RunsNext ==
  \/ \E c \in Makers :
       \/ \E mode \in Modes : BeginRun(c, mode)
       \/ MakeDirectory(c) \/ WriteRunning(c) \/ Note(c) \/ Succeeds(c) \/ BodyFails(c)
       \/ FinishRun(c) \/ KeepFailure(c) \/ Killed(c)
  \/ DayPasses

RunsSpec == RunsInit /\ [][RunsNext]_runVars

----------------------------------------------------------------------------
Places == {"asleep", "opens", "opened", "body", "writes success", "writes failed", "opens failed", "opened failed",
           "thrown", "opens last", "opened last", "writes last", "ended", "killed"}

\* Every variable has its type.
RunsTypeOK ==
  /\ today \in 0 .. MaxDay
  /\ records \in [Slots -> [status : {"none", "no file", "running", "success", "failed"}, day : 0 .. MaxDay,
                         noted : Seq(1 .. MaxNoted)]]
  /\ runs \in [Makers -> 0 .. 3]
  /\ maker \in [Makers -> [mode : Modes, at : Places, since : 0 .. MaxDay, did : {"nothing", "its work"},
                           settled : BOOLEAN, tells : {"nothing", "an answer", "a failure"}]]
  /\ noted \in [Makers -> 0 .. MaxNoted]
  /\ holding \in [Makers -> Seq(1 .. MaxNoted)] /\ \A c \in Makers : Len(holding[c]) <= HeldAtMost
  /\ spoilt \in [Makers -> BOOLEAN]

RunsOf(c) == { s \in Slots : s[1] = c /\ records[s] # NoRun }
Latest(c, n) == LET k == IF noted[c] < n THEN noted[c] ELSE n IN [i \in 1 .. k |-> noted[c] - k + i]

\* Once a command has told how it ended, there is one record of it if it asked for one or failed, and
\* none if it did neither or the owner wants none kept; the record says what the command told, and has
\* the command's events, the newest of them where it was kept after the fact.  "A run directory left
\* saying `running` because the command that owned it threw" (src/src/runs/recording.ts:34), a failure
\* recorded twice, or a refused one recorded, would need a way out that the recorder or the program
\* forgets.  Where a write of the record fails, at most what was written is true.
RunsTellTruth ==
  \A c \in Makers : At(c, "ended") =>
    /\ \A s \in RunsOf(c) : records[s].status = "success" => maker[c].tells = "an answer"
    /\ maker[c].mode = "off" => RunsOf(c) = {}
    /\ ~spoilt[c] =>
         /\ maker[c].tells = "an answer" <=> maker[c].did = "its work"
         /\ \A s \in RunsOf(c) :
              /\ records[s].status = (IF maker[c].tells = "an answer" THEN "success" ELSE "failed")
              /\ maker[c].mode \in {"record", "keep"} =>
                   records[s].noted = Latest(c, IF maker[c].mode = "record" THEN MaxNoted ELSE HeldAtMost)
         /\ Cardinality(RunsOf(c)) =
              (IF maker[c].mode = "record" \/ (maker[c].mode \in {"keep", "outside"} /\ maker[c].tells = "a failure")
               THEN 1 ELSE 0)
=============================================================================
