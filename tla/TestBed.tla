-------------------------------- MODULE TestBed --------------------------------
(***************************************************************************)
(* Where a release tests itself: `self-test' of src/kit.py and the tests   *)
(* of src/tools/strict_verify.py run from a copy of the installed core, in *)
(* a new temporary directory that is removed again.  Strict verifications  *)
(* exclude one another, self-tests lock nothing.  Of the self-tests that   *)
(* fail the newest logs are kept.  Installed cores are modelled, not the   *)
(* source checkout, which is tested in place.                              *)
(***************************************************************************)
EXTENDS Naturals, FiniteSets

CONSTANTS Tester,      \* commands that run at one time
          Stuff,       \* members of a core
          MaxEdition,  \* releases
          Spot,        \* names that a temporary directory may get
          StrictSpot,  \* those of the strict verification, by their prefix
          MaxMark,     \* numbers of directories in the file system
          MaxKept,     \* logs that are kept beside a new one
          MaxLog,      \* logs in a behaviour
          MaxTry,      \* attempts to remove a directory, after the first
          MaxSnag      \* what others do meanwhile

ASSUME TestBedAssumption ==
  /\ StrictSpot \subseteq Spot /\ Stuff # {}
  /\ {"free", "other", "litter"} \cap Tester = {} /\ "none" \notin Spot
  /\ {MaxEdition, MaxMark} \subseteq Nat \ {0}
  /\ {MaxKept, MaxLog, MaxTry, MaxSnag} \subseteq Nat

VARIABLES
  kit,     \* the bytes of the installed cores
  chosen,  \* the release that current.json names
  spot,    \* the temporary directories
  tester,  \* the commands
  log,     \* the logs of failed self-tests
  clock,   \* when a log was written last
  tested,  \* history: what tests passed on, and as which release
  snag     \* what others may still do

coreVars == <<kit, chosen>>
logVars  == <<log, clock>>
bedVars  == <<coreVars, spot, tester, logVars, tested, snag>>

Edition == 1 .. MaxEdition
Mark    == 1 .. MaxMark
LogName == 1 .. MaxLog

\* The bytes of a member are those of some release, or 0: nobody's, or missing.
Core     == [Stuff -> 0 .. MaxEdition]
NoCore   == [m \in Stuff |-> 0]
Whole(bytes, r) == r # 0 /\ bytes = [m \in Stuff |-> r]

\* A directory has a number that is free again once it is removed.  History: alike,
\* whether it came where a command cannot tell it from its own.
FreeSpot == [by |-> "free", mark |-> 0, core |-> NoCore, full |-> FALSE, alike |-> FALSE]
BedPlace == [by : {"free", "other", "litter"} \cup Tester, mark : 0 .. MaxMark,
             core : Core, full : BOOLEAN, alike : BOOLEAN]

\* History: born, when it was created, and gone, one that was removed.
FailureLog == [state : {"none", "there", "gone"}, born : Nat, time : Nat,
               whole : BOOLEAN, told : BOOLEAN]
NoFailure  == [state |-> "none", born |-> 0, time |-> 0, whole |-> FALSE, told |-> FALSE]

TestStep == {"idle", "make", "note", "read", "lay", "copy", "verify", "test", "list",
             "prune", "unlink", "fill", "confirm", "again", "recheck",
             "check", "remove", "look", "rmdir"}

\* A command: its directory and the number it noted, the release it tests, what it has
\* read and has still to read, the logs it is going to remove.  History: own, whether
\* the tests ran in the directory it made.
Old    == [log : LogName, time : Nat]
Test   == [task : {"self", "strict"}, step : TestStep, spot : Spot \cup {"none"},
           mark : 0 .. MaxMark, home : Edition, want : 0 .. MaxEdition, core : Core,
           left : SUBSET Stuff, passed : BOOLEAN, own : BOOLEAN, tries : 0 .. MaxTry,
           doomed : SUBSET Old, log : 0 .. MaxLog]
Asleep == [task |-> "self", step |-> "idle", spot |-> "none", mark |-> 0, home |-> 1,
           want |-> 0, core |-> NoCore, left |-> {}, passed |-> FALSE, own |-> FALSE,
           tries |-> 0, doomed |-> {}, log |-> 0]

Reached(t, step) == tester[t].step = step
Bed(t)      == spot[tester[t].spot]
Becomes(t, new) == tester' = [tester EXCEPT ![t] = new]
GoesTo(t, step) == Becomes(t, [tester[t] EXCEPT !.step = step])
Sleeps(t)   == Becomes(t, Asleep)

-----------------------------------------------------------------------------
(* The directory: _create_self_test_scratch, _short_strict_workspace.      *)

\* The launcher chose the core; one strict verification at a time holds the lock.
StartTests(t, task) ==
  /\ Reached(t, "idle")
  /\ task = "strict" => \A q \in Tester : tester[q].task = "self"
  /\ Becomes(t, [Asleep EXCEPT !.task = task, !.step = "make", !.home = chosen,
                               !.want = IF task = "self" THEN chosen ELSE 0])
  /\ UNCHANGED <<coreVars, spot, logVars, tested, snag>>

Unused(mark) == \A n \in Spot : spot[n].mark # mark

\* A command between two looks at its directory takes what comes there for its own, and
\* so does one that noted the same number.
Alike(n, mark) ==
  \E t \in Tester : /\ tester[t].spot = n
                    /\ \/ tester[t].mark = mark
                       \/ tester[t].step \in {"note", "remove", "rmdir"}

NewBed(n, mark, by) ==
  [by |-> by, mark |-> mark, core |-> NoCore, full |-> by = "other",
   alike |-> Alike(n, mark)]

MakeBed(t, n, mark) ==
  /\ Reached(t, "make") /\ spot[n].by = "free" /\ Unused(mark)
  /\ n \in StrictSpot <=> tester[t].task = "strict"
  /\ spot' = [spot EXCEPT ![n] = NewBed(n, mark, t)]
  /\ Becomes(t, [tester[t] EXCEPT !.step = "note", !.spot = n])
  /\ UNCHANGED <<coreVars, logVars, tested, snag>>

NoBed(t) ==
  /\ Reached(t, "make")
  /\ Sleeps(t)
  /\ UNCHANGED <<coreVars, spot, logVars, tested, snag>>

\* Where it lies may make it unfit: it is removed again, while it is empty.
NoteMark(t, fits) ==
  /\ Reached(t, "note")
  /\ IF Bed(t).by = "free" THEN Sleeps(t)
     ELSE Becomes(t, [tester[t] EXCEPT !.step = IF fits THEN "read" ELSE "look",
                                       !.mark = Bed(t).mark, !.left = Stuff])
  /\ UNCHANGED <<coreVars, spot, logVars, tested, snag>>

-----------------------------------------------------------------------------
(* The copy: _copy_verified_self_test_core, _isolated_strict_workspace.    *)

\* The self-test looks at the record again however it ends; the strict verification
\* looks at the core again when it had a copy.
StopsEarly(t) == GoesTo(t, IF tester[t].task = "self" THEN "recheck" ELSE "check")

\* read_verified_directory: member after member, and all of one release.  The self-test
\* knows which.
Accepts(c) == IF c.want = 0 THEN \E r \in Edition : Whole(c.core, r)
              ELSE Whole(c.core, c.want)

ReadStuff(t, m) ==
  LET c == [tester[t] EXCEPT !.core[m] = kit[tester[t].home][m], !.left = @ \ {m}] IN
  /\ Reached(t, "read") /\ m \in tester[t].left
  /\ IF c.left # {} THEN Becomes(t, c)
     ELSE IF ~Accepts(c) THEN StopsEarly(t)
     ELSE IF c.task = "self" THEN Becomes(t, [c EXCEPT !.step = "lay"])
     ELSE Becomes(t, [c EXCEPT !.step = "copy", !.left = Stuff, !.want = c.core[m]])
  /\ UNCHANGED <<coreVars, spot, logVars, tested, snag>>

\* Nobody else's copy is there already.
Room(t) == Bed(t).by # "free" /\ Bed(t).core = NoCore

\* The self-test writes what it read.
LayCopy(t) ==
  /\ Reached(t, "lay")
  /\ IF Room(t)
     THEN /\ spot' = [spot EXCEPT ![tester[t].spot].core = tester[t].core,
                                  ![tester[t].spot].full = TRUE]
          /\ GoesTo(t, "verify")
     ELSE StopsEarly(t) /\ UNCHANGED spot
  /\ UNCHANGED <<coreVars, logVars, tested, snag>>

\* The strict verification copies the core as it is now.
CopyStuff(t, m) ==
  /\ Reached(t, "copy") /\ m \in tester[t].left
  /\ IF Bed(t).by # "free" /\ (tester[t].left = Stuff => Room(t))
     THEN /\ spot' = [spot EXCEPT ![tester[t].spot].core[m] = kit[tester[t].home][m],
                                  ![tester[t].spot].full = TRUE]
          /\ Becomes(t, [tester[t] EXCEPT
                           !.step = IF tester[t].left = {m} THEN "verify" ELSE @,
                           !.left = @ \ {m}])
     ELSE StopsEarly(t) /\ UNCHANGED spot
  /\ UNCHANGED <<coreVars, logVars, tested, snag>>

\* Mutant: that the copying succeeded is enough.
VerifyCopyBlind(t) ==
  /\ Reached(t, "verify")
  /\ GoesTo(t, "test")
  /\ UNCHANGED <<coreVars, spot, logVars, tested, snag>>

VerifyCopy(t) ==
  /\ Reached(t, "verify")
  /\ IF Whole(Bed(t).core, tester[t].want) THEN GoesTo(t, "test") ELSE StopsEarly(t)
  /\ UNCHANGED <<coreVars, spot, logVars, tested, snag>>

-----------------------------------------------------------------------------
(* The tests, and the log of those that failed.                            *)

\* Tests fail where the copy is not there.  The strict verification writes its report
\* before it looks at the core again; the self-test reports at its end.
Passed(t, bytes, own) ==
  tested' = tested \cup {[release |-> tester[t].want, core |-> bytes, own |-> own]}

TestsPass(t) ==
  /\ Reached(t, "test") /\ Bed(t).core # NoCore
  /\ IF tester[t].task = "strict"
     THEN /\ Passed(t, Bed(t).core, Bed(t).by = t)
          /\ Becomes(t, [tester[t] EXCEPT !.left = Stuff, !.step = "again"])
     ELSE /\ Becomes(t, [tester[t] EXCEPT !.passed = TRUE, !.core = Bed(t).core,
                                         !.own = Bed(t).by = t, !.step = "recheck"])
          /\ UNCHANGED tested
  /\ UNCHANGED <<coreVars, spot, logVars, snag>>

TestsFail(t) ==
  /\ Reached(t, "test")
  /\ Becomes(t, [tester[t] EXCEPT !.left = Stuff,
                   !.step = IF tester[t].task = "self" THEN "list" ELSE "again"])
  /\ UNCHANGED <<coreVars, spot, logVars, tested, snag>>

\* The logs written later than another.
Later(logs, time) == {l \in logs : log[l].time > time}

\* _prune_self_test_failure_logs: all but the newest are to go, the newest first.
Listed == {l \in LogName : log[l].state = "there"}
ListLogs(t) ==
  /\ Reached(t, "list")
  /\ Becomes(t, [tester[t] EXCEPT !.step = "prune", !.doomed =
       {[log |-> l, time |-> log[l].time] :
          l \in {k \in Listed : Cardinality(Later(Listed, log[k].time)) >= MaxKept}}])
  /\ UNCHANGED <<coreVars, spot, logVars, tested, snag>>

\* A log that changed or that is gone ends it: this failure gets no log.
PruneLog(t, old) ==
  /\ Reached(t, "prune") /\ old \in tester[t].doomed
  /\ \A other \in tester[t].doomed : other.time <= old.time
  /\ IF log[old.log].state = "there" /\ log[old.log].time = old.time
     THEN Becomes(t, [tester[t] EXCEPT !.step = "unlink", !.log = old.log,
                                       !.doomed = @ \ {old}])
     ELSE GoesTo(t, "recheck")
  /\ UNCHANGED <<coreVars, spot, logVars, tested, snag>>

Unlink(t) ==
  /\ Reached(t, "unlink")
  /\ IF log[tester[t].log].state = "there"
     THEN log' = [log EXCEPT ![tester[t].log].state = "gone"] /\ GoesTo(t, "prune")
     ELSE GoesTo(t, "recheck") /\ UNCHANGED log
  /\ UNCHANGED <<coreVars, spot, clock, tested, snag>>

\* _store_self_test_failure_log: the file is created, written and looked at.
CreateLog(t, l) ==
  /\ Reached(t, "prune") /\ tester[t].doomed = {}
  /\ log[l].state = "none" /\ \A k \in 1 .. l - 1 : log[k].state # "none"
  /\ clock' = clock + 1
  /\ log' = [log EXCEPT ![l] = [NoFailure EXCEPT !.state = "there", !.born = clock + 1,
                                             !.time = clock + 1]]
  /\ Becomes(t, [tester[t] EXCEPT !.step = "fill", !.log = l])
  /\ UNCHANGED <<coreVars, spot, tested, snag>>

FillLog(t) ==
  /\ Reached(t, "fill")
  /\ clock' = clock + 1
  /\ log' = [log EXCEPT ![tester[t].log].time = clock + 1, ![tester[t].log].whole = TRUE]
  /\ GoesTo(t, "confirm")
  /\ UNCHANGED <<coreVars, spot, tested, snag>>

ConfirmLog(t) ==
  /\ Reached(t, "confirm")
  /\ log' = [log EXCEPT ![tester[t].log].told = log[tester[t].log].state = "there"]
  /\ GoesTo(t, "recheck")
  /\ UNCHANGED <<coreVars, spot, clock, tested, snag>>

-----------------------------------------------------------------------------
(* The end: _self_test, _remove_self_test_scratch and their like.          *)

\* The strict verification reads the whole core again, and fails now if it changed.
ReadAgain(t, m) ==
  /\ Reached(t, "again") /\ m \in tester[t].left
  /\ Becomes(t, [tester[t] EXCEPT !.left = @ \ {m},
                   !.step = IF tester[t].left = {m} THEN "check" ELSE @])
  /\ UNCHANGED <<coreVars, spot, logVars, tested, snag>>

\* The self-test passes while the record names the release that it tested.
ChosenAgain(t) ==
  /\ Reached(t, "recheck")
  /\ Becomes(t, [tester[t] EXCEPT !.step = "check",
                                  !.passed = @ /\ chosen = tester[t].want])
  /\ UNCHANGED <<coreVars, spot, logVars, tested, snag>>

\* What is left where a command gives up or is killed belongs to nobody.
Left(t) == [n \in Spot |-> [spot[n] EXCEPT !.by = IF @ = t THEN "litter" ELSE @]]

\* The directory is gone: the self-test says what it found.
Finishes(t) ==
  /\ Sleeps(t)
  /\ IF tester[t].passed THEN Passed(t, tester[t].core, tester[t].own)
     ELSE UNCHANGED tested

\* It could not be removed: that is the result.
Complains(t) == Sleeps(t) /\ spot' = Left(t) /\ UNCHANGED tested

\* authenticate: what is removed has the number that was noted.
CheckBed(t) ==
  /\ tester[t].step \in {"check", "look"}
  /\ IF Bed(t).by = "free" THEN Finishes(t) /\ UNCHANGED spot
     ELSE IF Bed(t).mark = tester[t].mark
     THEN /\ GoesTo(t, IF Reached(t, "check") THEN "remove" ELSE "rmdir")
          /\ UNCHANGED <<spot, tested>>
     ELSE Complains(t)
  /\ UNCHANGED <<coreVars, logVars, snag>>

RemoveBed(t) ==
  /\ Reached(t, "remove")
  /\ spot' = [spot EXCEPT ![tester[t].spot] = FreeSpot]
  /\ Finishes(t)
  /\ UNCHANGED <<coreVars, logVars, snag>>

\* A directory that was unfit is removed as long as it is empty.
RemoveEmpty(t) ==
  /\ Reached(t, "rmdir")
  /\ IF Bed(t).full THEN Complains(t)
     ELSE /\ spot' = [spot EXCEPT ![tester[t].spot] = FreeSpot]
          /\ Finishes(t)
  /\ UNCHANGED <<coreVars, logVars, snag>>

\* Something in it cannot be removed: that is tried again, from the look on, unless the
\* reason is another than a permission.
Hindered(t) ==
  /\ tester[t].step \in {"remove", "rmdir"} /\ Bed(t).by # "free"
  /\ snag > 0 /\ snag' = snag - 1
  /\ \/ /\ tester[t].tries < MaxTry
        /\ Becomes(t, [tester[t] EXCEPT !.tries = @ + 1,
                         !.step = IF @ = "remove" THEN "check" ELSE "look"])
        /\ UNCHANGED <<spot, tested>>
     \/ Complains(t)
  /\ UNCHANGED <<coreVars, logVars>>

-----------------------------------------------------------------------------
(* Others                                                                  *)

Snags == snag > 0 /\ snag' = snag - 1 /\ UNCHANGED <<logVars, tested>>

EditKit(e, m, r) ==
  /\ Snags
  /\ kit' = [kit EXCEPT ![e][m] = r]
  /\ UNCHANGED <<chosen, spot, tester>>

\* An update installs another core beside this one.
Choose(e) ==
  /\ Snags
  /\ chosen' = e
  /\ UNCHANGED <<kit, spot, tester>>

\* A cleaner of temporary files takes a directory, and another program its name.
Sweep(n) ==
  /\ Snags
  /\ spot' = [spot EXCEPT ![n] = FreeSpot]
  /\ UNCHANGED <<coreVars, tester>>

Appear(n, mark) ==
  /\ Snags /\ spot[n].by = "free" /\ Unused(mark)
  /\ spot' = [spot EXCEPT ![n] = NewBed(n, mark, "other")]
  /\ UNCHANGED <<coreVars, tester>>

KillTester(t) ==
  /\ Snags /\ ~Reached(t, "idle")
  /\ Sleeps(t) /\ spot' = Left(t)
  /\ UNCHANGED coreVars

-----------------------------------------------------------------------------

TestBedInit ==
  /\ kit = [e \in Edition |-> [m \in Stuff |-> e]] /\ chosen = 1
  /\ spot = [n \in Spot |-> FreeSpot]
  /\ tester = [t \in Tester |-> Asleep]
  /\ log = [l \in LogName |-> NoFailure] /\ clock = 0
  /\ tested = {}
  /\ snag = MaxSnag

TestMoves(t) ==
  \/ \E task \in {"self", "strict"} : StartTests(t, task)
  \/ \E n \in Spot, mark \in Mark : MakeBed(t, n, mark)
  \/ NoBed(t) \/ \E fits \in BOOLEAN : NoteMark(t, fits)
  \/ \E m \in Stuff : ReadStuff(t, m) \/ CopyStuff(t, m) \/ ReadAgain(t, m)
  \/ LayCopy(t) \/ VerifyCopy(t) \/ TestsPass(t) \/ TestsFail(t)
  \/ ChosenAgain(t) \/ CheckBed(t) \/ RemoveBed(t) \/ RemoveEmpty(t) \/ Hindered(t)

LogMoves(t) ==
  \/ ListLogs(t) \/ \E old \in tester[t].doomed : PruneLog(t, old)
  \/ Unlink(t) \/ \E l \in LogName : CreateLog(t, l)
  \/ FillLog(t) \/ ConfirmLog(t)

SnagMoves ==
  \/ \E e \in Edition, m \in Stuff, r \in 0 .. MaxEdition : EditKit(e, m, r)
  \/ \E e \in Edition : Choose(e)
  \/ \E n \in Spot : Sweep(n) \/ \E mark \in Mark : Appear(n, mark)
  \/ \E t \in Tester : KillTester(t)

TestBedNext == SnagMoves \/ \E t \in Tester : TestMoves(t) \/ LogMoves(t)
TestBedSpec == TestBedInit /\ [][TestBedNext]_bedVars

TestBedTypeOK ==
  /\ kit \in [Edition -> Core] /\ chosen \in Edition
  /\ spot \in [Spot -> BedPlace] /\ tester \in [Tester -> Test]
  /\ log \in [LogName -> FailureLog] /\ clock \in Nat
  /\ tested \subseteq [release : 0 .. MaxEdition, core : Core, own : BOOLEAN]
  /\ snag \in 0 .. MaxSnag

\* A command removes the directory it made and no other, although it finds it again by
\* its name, after tests and waits of any length, in attempt after attempt: unless
\* another comes between two of its looks, or with the number of its own.
RemovesItsOwn ==
  \A t \in Tester : tester[t].step \in {"remove", "rmdir"} =>
    Bed(t).by \in {t, "free"} \/ Bed(t).alike

\* Tests that passed ran on the bytes of one release, the one that is named, although
\* the core was read member by member, and copied member by member, while others
\* edited it; unless their directory was taken from them.
TestsTheRelease == \A r \in tested : r.own => Whole(r.core, r.release)

\* Every directory that is left has a command at work in it, that will remove it: no
\* path through a command ends without removing it or saying that it could not.
LeavesNothing ==
  \A n \in Spot, t \in Tester :
    spot[n].by = t => ~Reached(t, "idle") /\ tester[t].spot = n

\* A log goes only when so many were written since it was created as are kept, whoever
\* else removes and writes logs meanwhile; one that a self-test told of is whole.
LogsLast ==
  \A l \in LogName :
    /\ log[l].state = "gone" => Cardinality(Later(LogName, log[l].born)) >= MaxKept
    /\ log[l].told => log[l].whole

TestsSafe == RemovesItsOwn /\ TestsTheRelease /\ LeavesNothing /\ LogsLast
=============================================================================
