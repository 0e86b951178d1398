----------------------------- MODULE StrictVerify -----------------------------
(***************************************************************************)
(* Commands that run commands (src/tools/process_supervisor.py) under the  *)
(* strict verification (src/tools/strict_verify.py).                       *)
(*                                                                         *)
(* The verifier runs its stages one after another, each in a process group *)
(* of its own; a stage may run an engine in a further group.  Beside every *)
(* group stands a watcher that kills it when its owner is gone.  A command *)
(* may start helpers, hang, ignore the interrupt, be killed, or stay in a  *)
(* system call after it was killed.  The POSIX implementation is modelled. *)
(***************************************************************************)
EXTENDS Naturals, Sequences, SequencesExt

CONSTANTS MaxGroup,   \* process groups in a behaviour
          MaxStage,   \* stages of a strict verification
          MaxUpset    \* processes killed, launches that fail, deaths that take too long

ASSUME StrictAssumption == {MaxGroup, MaxStage, MaxUpset} \subseteq Nat

VARIABLES
  group,   \* the groups: who owns one, its members, its watcher, what was reported of it
  sup,     \* what each owner is doing in run_supervised
  strict,  \* the verifier: which run it is, what it recorded, its verdict
  upset    \* mishaps still allowed

strictVars == <<group, sup, strict, upset>>

Group    == 1 .. MaxGroup
Verifier == 0
Owner    == Group \cup {Verifier}

\* A leader is held at a pipe until its watcher is ready, released, and only
\* then becomes the command.  A doomed process was killed and is not gone yet.
Member  == {"none", "held", "released", "run", "doomed", "dead"}
Ungroup == [owner |-> Verifier, run |-> 0, leader |-> "none", helper |-> "none",
            watch |-> "none", told |-> "none", code |-> "none"]
Unbusy  == [pc |-> "free", child |-> 0, timed |-> FALSE, quit |-> FALSE, clean |-> TRUE]
NewRun(n) == [run |-> n, up |-> TRUE, status |-> <<>>, abort |-> FALSE, verdict |-> "none"]

Gone(g) == group[g].leader \in {"none", "dead"} /\ group[g].helper = "none"
Doom(member) == IF member \in {"held", "released", "run"} THEN "doomed" ELSE member
Doomed(record) == [record EXCEPT !.leader = Doom(@), !.helper = Doom(@)]

Acts(o) == IF o = Verifier THEN strict.up ELSE group[o].leader = "run"

\* The pipes of a process are open until it is gone, killed or not.
HasOwner(g) ==
  IF group[g].owner = Verifier THEN strict.up /\ strict.run = group[g].run
  ELSE group[group[g].owner].leader \in {"run", "doomed"}

Supervises(o, pc) == Acts(o) /\ sup[o].pc = pc
Moves(o, pc) == sup' = [sup EXCEPT ![o].pc = pc]
Upset == upset > 0 /\ upset' = upset - 1

(***************************************************************************)
(* Starting a command: _start_posix.                                       *)
(***************************************************************************)

\* The verifier goes on while nothing made it abort; a stage runs its engine.
MayLaunch(o) ==
  IF o = Verifier
  THEN ~strict.abort /\ strict.verdict = "none" /\ Len(strict.status) < MaxStage
  ELSE group[o].owner = Verifier

\* A stage whose verifier was killed may still be there in the next run.
RunOf(o) == IF o = Verifier THEN strict.run ELSE group[o].run

NextGroup(g) == group[g] = Ungroup /\ \A h \in 1 .. g - 1 : group[h] # Ungroup

Launch(o, g) ==
  /\ Supervises(o, "free") /\ MayLaunch(o) /\ NextGroup(g)
  /\ group' = [group EXCEPT ![g] =
                 [Ungroup EXCEPT !.owner = o, !.run = RunOf(o), !.leader = "held"]]
  /\ sup' = [sup EXCEPT ![o] = [@ EXCEPT !.pc = "arm", !.child = g, !.timed = FALSE]]
  /\ UNCHANGED <<strict, upset>>

Arm(o) ==
  /\ Supervises(o, "arm")
  /\ group' = [group EXCEPT ![sup[o].child].watch = "armed"]
  /\ Moves(o, "release")
  /\ UNCHANGED <<strict, upset>>

ReleaseHeld(o) ==
  LET g == sup[o].child
  IN  /\ Supervises(o, "release")
      /\ group' = [group EXCEPT ![g].leader = IF @ = "held" THEN "released" ELSE @]
      /\ Moves(o, "wait")
      /\ UNCHANGED <<strict, upset>>

\* _exec_after_lifeline: only while the owner is still its parent.
Become(g) ==
  /\ group[g].leader = "released"
  /\ group' = [group EXCEPT ![g].leader = IF HasOwner(g) THEN "run" ELSE "dead"]
  /\ UNCHANGED <<sup, strict, upset>>

HeldInVain(g) ==
  /\ group[g].leader = "held" /\ ~HasOwner(g)
  /\ group' = [group EXCEPT ![g].leader = "dead"]
  /\ UNCHANGED <<sup, strict, upset>>

(***************************************************************************)
(* The commands.                                                           *)
(***************************************************************************)

Fork(g) ==
  /\ group[g].leader = "run" /\ group[g].helper = "none"
  /\ group' = [group EXCEPT ![g].helper = "run"]
  /\ UNCHANGED <<sup, strict, upset>>

\* A stage succeeds only where the engine it ran ended well, and in time.
ExitLeader(g, code) ==
  /\ group[g].leader = "run" /\ sup[g].pc = "free"
  /\ code = "ok" => sup[g].clean
  /\ group' = [group EXCEPT ![g].leader = "dead", ![g].code = code]
  /\ UNCHANGED <<sup, strict, upset>>

ExitHelper(g) ==
  /\ group[g].helper = "run"
  /\ group' = [group EXCEPT ![g].helper = "none"]
  /\ UNCHANGED <<sup, strict, upset>>

\* The interrupt of a command that ran out of time: it may end at once, end the
\* command it waits for first, or not care.
Interrupted(g) ==
  LET o == group[g].owner
  IN  /\ group[g].leader = "run" /\ HasOwner(g)
      /\ Supervises(o, "grace") /\ sup[o].child = g
      /\ \/ /\ sup[g].pc \in {"free", "arm", "release"}
            /\ group' = [group EXCEPT ![g].leader = "dead", ![g].code = "bad"]
            /\ UNCHANGED sup
         \/ /\ sup[g].pc = "wait"
            /\ sup' = [sup EXCEPT ![g].pc = "grace", ![g].quit = TRUE]
            /\ UNCHANGED group
      /\ UNCHANGED <<strict, upset>>

KillMember(g) ==
  /\ group[g].leader = "run" /\ Upset
  /\ group' = [group EXCEPT ![g].leader = "dead", ![g].code = "bad"]
  /\ UNCHANGED <<sup, strict>>

Die(g) ==
  /\ \/ group[g].leader = "doomed" /\ group' = [group EXCEPT ![g].leader = "dead"]
     \/ group[g].helper = "doomed" /\ group' = [group EXCEPT ![g].helper = "none"]
  /\ UNCHANGED <<sup, strict, upset>>

\* _watch_posix_group: the control pipe ends without the word to stand down.
Watch(g) ==
  /\ group[g].watch = "armed" /\ ~HasOwner(g)
  /\ group' = [group EXCEPT ![g] = Doomed([@ EXCEPT !.watch = "fired"])]
  /\ UNCHANGED <<sup, strict, upset>>

\* On Linux the leader asked to be killed with its parent.
ParentDies(g) ==
  /\ group[g].leader = "run" /\ ~HasOwner(g)
  /\ group' = [group EXCEPT ![g].leader = "doomed"]
  /\ UNCHANGED <<sup, strict, upset>>

(***************************************************************************)
(* Waiting and ending: run_supervised, _terminate_posix.                   *)
(***************************************************************************)

Notice(o) ==
  /\ Supervises(o, "wait") /\ group[sup[o].child].leader = "dead"
  /\ Moves(o, "kill")
  /\ UNCHANGED <<group, strict, upset>>

TimeOut(o) ==
  /\ Supervises(o, "wait") /\ group[sup[o].child].leader # "dead"
  /\ sup' = [sup EXCEPT ![o].pc = "grace", ![o].timed = TRUE]
  /\ UNCHANGED <<group, strict, upset>>

Forcibly(o) ==
  /\ Supervises(o, "grace")
  /\ Moves(o, "kill")
  /\ UNCHANGED <<group, strict, upset>>

EndGroup(o) ==
  LET g == sup[o].child
  IN  /\ Supervises(o, "kill")
      /\ group' = [group EXCEPT ![g] = Doomed([@ EXCEPT !.watch = "fired"])]
      /\ Moves(o, "confirm")
      /\ UNCHANGED <<strict, upset>>

\* _default_runner and the classifiers: a command that may still be running
\* counts as one that could not be started.
StageStatus(o, verified) ==
  CASE ~verified -> "blocked"
    [] sup[o].timed -> "failed"
    [] OTHER -> IF group[sup[o].child].code = "ok" THEN "passed" ELSE "failed"

\* run_strict, after a stage: a time-out is the last stage, and so are a source
\* that is not clean and a doctor that is not content.
Record(o, verified) ==
  LET status == StageStatus(o, verified)
  IN  strict' = [strict EXCEPT !.status = Append(@, status),
                   !.abort = \/ sup[o].timed /\ verified
                             \/ strict.status = <<>> /\ status # "passed"]

\* What run_supervised returns, to the verifier or to a stage.
Returns(o, verified, record) ==
  LET g == sup[o].child
  IN  IF o = Verifier
      THEN /\ group' = record /\ Record(o, verified)
           /\ sup' = [sup EXCEPT ![o] = Unbusy]
      ELSE /\ group' = IF sup[o].quit
                       THEN [record EXCEPT ![o].leader = "dead", ![o].code = "bad"]
                       ELSE record
           /\ sup' = [sup EXCEPT ![o] = [Unbusy EXCEPT !.clean =
                        sup[o].clean /\ verified /\ ~sup[o].timed /\ group[g].code = "ok"]]
           /\ UNCHANGED strict

\* The watcher was waited for, too.
Told(g, what) ==
  [group EXCEPT ![g] = [@ EXCEPT !.told = what, !.watch = "off", !.code = "none"]]

\* It ended within the grace period, and nothing of its group is left.
Graceful(o) ==
  LET g == sup[o].child
  IN  /\ Supervises(o, "grace") /\ Gone(g)
      /\ Returns(o, TRUE, Told(g, "verified"))
      /\ UNCHANGED upset

\* Mutant: the leader alone is waited for.
ConfirmLeader(o) ==
  LET g == sup[o].child
  IN  /\ Supervises(o, "confirm") /\ group[g].leader = "dead"
      /\ Returns(o, TRUE, Told(g, "verified"))
      /\ UNCHANGED upset

ConfirmGone(o) ==
  LET g == sup[o].child
  IN  /\ Supervises(o, "confirm") /\ Gone(g)
      /\ Returns(o, TRUE, Told(g, "verified"))
      /\ UNCHANGED upset

\* A killed process is still there when the wait is over, or the watcher is.
Unverified(o) ==
  LET g == sup[o].child
  IN  /\ \/ Supervises(o, "confirm")
         \/ Supervises(o, "grace") /\ Gone(g)
      /\ Upset
      /\ Returns(o, FALSE, Told(g, "unverified"))

\* The watcher does not get ready, or the leader cannot be released.
LaunchFails(o) ==
  LET g == sup[o].child
  IN  /\ sup[o].pc \in {"arm", "release"} /\ Acts(o) /\ Upset
      /\ Returns(o, FALSE, [group EXCEPT ![g] = Doomed([@ EXCEPT !.told = "launch"])])

(***************************************************************************)
(* The verifier as a whole.                                                *)
(***************************************************************************)

\* _overall_status: nothing failed, nothing blocked, nothing left out.
Overall ==
  /\ Supervises(Verifier, "free") /\ strict.verdict = "none"
  /\ strict.abort \/ Len(strict.status) = MaxStage
  /\ strict' = [strict EXCEPT !.verdict =
       IF ToSet(strict.status) = {"passed"} /\ Len(strict.status) = MaxStage THEN "passed"
       ELSE IF "failed" \in ToSet(strict.status) THEN "failed" ELSE "blocked"]
  /\ UNCHANGED <<group, sup, upset>>

KillVerifier ==
  /\ strict.up /\ Upset
  /\ strict' = [strict EXCEPT !.up = FALSE]
  /\ sup' = [sup EXCEPT ![Verifier] = Unbusy]
  /\ UNCHANGED group

\* The system freed the lock of the run before.
Rerun ==
  /\ ~strict.up
  /\ strict' = NewRun(strict.run + 1)
  /\ UNCHANGED <<group, sup, upset>>

StrictInit ==
  /\ group = [g \in Group |-> Ungroup]
  /\ sup = [o \in Owner |-> Unbusy]
  /\ strict = NewRun(1)
  /\ upset = MaxUpset

Supervision(o) ==
  \/ \E g \in Group : Launch(o, g)
  \/ Arm(o) \/ ReleaseHeld(o) \/ Notice(o) \/ TimeOut(o) \/ Forcibly(o) \/ EndGroup(o)
  \/ Graceful(o) \/ ConfirmGone(o) \/ Unverified(o) \/ LaunchFails(o)

CommandStep(g) ==
  \/ Become(g) \/ HeldInVain(g) \/ Fork(g) \/ ExitHelper(g) \/ Interrupted(g)
  \/ \E code \in {"ok", "bad"} : ExitLeader(g, code)
  \/ KillMember(g) \/ Die(g) \/ Watch(g) \/ ParentDies(g)

StrictNext ==
  \/ \E o \in Owner : Supervision(o)
  \/ \E g \in Group : CommandStep(g)
  \/ Overall \/ KillVerifier
  \/ strict.run < 2 /\ Rerun

StrictSpec == StrictInit /\ [][StrictNext]_strictVars

(***************************************************************************)
(* Properties.                                                             *)
(***************************************************************************)

StrictTypeOK ==
  /\ \A g \in Group : /\ group[g].owner \in 0 .. g - 1
                      /\ {group[g].leader, group[g].helper} \subseteq Member
                      /\ group[g].watch \in {"none", "armed", "fired", "off"}
  /\ \A o \in Owner : sup[o].child \in 0 .. MaxGroup
  /\ Len(strict.status) <= MaxStage

\* No process outlives its owner unwatched: whatever is killed at whatever
\* step, a running member of a group whose owner is gone has an armed watcher.
Leashed ==
  \A g \in Group :
    /\ "run" \in {group[g].leader, group[g].helper}
    /\ ~HasOwner(g)
    => group[g].watch = "armed"

\* A group reported as ended is gone with all its helpers.
VerifiedMeansGone == \A g \in Group : group[g].told = "verified" => Gone(g)

\* A strict verification that passed left nothing behind, on any level: no
\* stage, no engine and no helper of theirs is still there.
PassedIsContained ==
  strict.verdict = "passed" =>
    \A g \in Group : group[g].run = strict.run => Gone(g)

Contained == VerifiedMeansGone /\ PassedIsContained

\* No process escapes a verification: each is watched while it runs, and none is
\* left when the verification passes or says that it is gone.
NoneEscapes == Leashed /\ Contained

\* strict_verify.py:4-6: the commands "run one at a time so two verifier-owned
\* Godot runs can never overlap".
OneStageAtATime ==
  \A g \in Group :
    group[g].leader = "run" =>
      \A h \in 1 .. g - 1 :
        /\ group[h].owner = Verifier /\ group[g].owner = Verifier
        /\ group[h].run = group[g].run
        => Gone(h)
=============================================================================
