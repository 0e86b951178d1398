------------------------------- MODULE Controller -------------------------------
(***************************************************************************)
(* The review session of src/tools/kit_change_controller.py around one kit *)
(* change: prepare, apply, the check of the changed project                *)
(* (kit_change_check.py), its existing-problem baseline (brownfield.py),   *)
(* restore and recover, with a kill possible between any two durable steps.*)
(*                                                                         *)
(* Three things are durable and written one after the other: the session   *)
(* file, the transaction of kit_change.py, and the baseline document.  The *)
(* transaction is seen from outside: a change is logged, the project is    *)
(* part old and part new for a while, and is then wholly one of the two.   *)
(* KitChange.tla has what happens inside.                                  *)
(*                                                                         *)
(* A game file is at a version, version 0 has no problem and every other   *)
(* one has the same problem; an allowance is a file at an exact version.   *)
(***************************************************************************)
EXTENDS Integers, FiniteSets

CONSTANTS
  MaxRelease,  \* releases are 1 .. MaxRelease, in version order
  From,        \* the kits a project may start with
  Folder,      \* the game folders of the project; two make D1 a question
  GameFile,    \* the game files that may have a problem
  MaxVersion,  \* versions of a game file
  MaxAttempt,  \* reviews of one exact plan
  Unset,       \* a field that has no value yet
  Absent,      \* no baseline document
  Foreign,     \* a document somebody else wrote: a third version
  MaxSession,  \* reviews prepared
  MaxTxn, MaxEdits, MaxCrashes, MaxFaults   \* bounds on the environment

Release == 1 .. MaxRelease
NoKit   == 0
Legacy  == -1
Kit     == {Legacy, NoKit} \cup Release
Txn     == 1 .. MaxTxn
NoTxn   == 0

ASSUME BoundAssumption ==
  /\ {MaxRelease, MaxVersion, MaxAttempt, MaxSession, MaxTxn,
      MaxEdits, MaxCrashes, MaxFaults} \subseteq Nat
  /\ From \subseteq Kit
ASSUME FolderAssumption == Folder # {} /\ Unset \notin Folder

\* What a preview fingerprint stands for: the kit found, whether a protected
\* file was edited, the release, and the folder that was asked for.
Plan    == [from : Kit, edited : BOOLEAN, rel : Release, folder : Folder \cup {Unset}]
Review  == [plan : Plan, attempt : 0 .. MaxAttempt - 1]

Allowance == GameFile \X (0 .. MaxVersion)
Document  == [rel : Release, allow : SUBSET Allowance]
ASSUME FieldAssumption == /\ Unset \notin Document \cup {Absent, Foreign}
                          /\ {Absent, Foreign} \cap Document = {}

OpenState  == {"ready", "blocked"}
FinalState == {"complete", "adoption_required", "restored_failure", "restored", "failed"}
Retryable  == {"restored", "restored_failure", "failed"}
State      == {"none", "applying", "checking", "recovery_required"} \cup OpenState \cup FinalState

Session == [state     : State,
            txn       : Txn \cup {NoTxn},
            prior     : Document \cup {Absent, Foreign, Unset},
            generated : Document \cup {Unset},
            result    : FinalState \cup {"none"}]   \* status of the signed result

NoSession == [state |-> "none", txn |-> NoTxn, prior |-> Unset,
              generated |-> Unset, result |-> "none"]

TxnState == {"none", "open", "writing", "activated", "applied",
             "rolling_back", "rolled_back", "blocked"}
Settled  == {"none", "applied", "rolled_back"}

VARIABLES
  session,   \* durable: review -> the session file
  txn,       \* durable: transaction -> [state, plan, by]; by is history
  project,   \* [kit, edited, mixed]: mixed names the transaction that is half done
  baseline,  \* [doc, kept, dev]: the document, what an edit of it replaced, and,
             \* as history, whether the developer wrote it last
  game,      \* version of every game file
  proc,      \* the one process that holds controller.lock
  edits, crashes, faults

bounds == <<edits, crashes, faults>>
vars   == <<session, txn, project, baseline, game, proc, edits, crashes, faults>>

Step == {"idle", "call", "writing", "rolling", "rolled", "stuck", "applied",
         "check", "scanned", "intent", "written", "verified", "recorded",
         "restore", "unbased"}
How  == {"apply-failed", "apply-refused", "resume", "auto", "manual", "none"}

NoTransaction == [state |-> "none", plan |-> Unset, by |-> Unset]
Idle == [pc |-> "idle", s |-> Unset, t |-> NoTxn, how |-> "none",
         scan |-> {}, ok |-> FALSE, clean |-> FALSE]

\* A managed project has the baseline of its release; no other has one.
Init ==
  /\ \E k \in From, g \in [GameFile -> 0 .. MaxVersion] :
       /\ project = [kit |-> k, edited |-> FALSE, mixed |-> NoTxn]
       /\ game = g
       /\ baseline = [kept |-> Absent, dev |-> FALSE, doc |->
            IF k \in Release
            THEN [rel |-> k, allow |-> {<<f, g[f]>> : f \in {x \in GameFile : g[x] > 0}}]
            ELSE Absent]
  /\ session = [s \in {} |-> NoSession]
  /\ txn = [t \in Txn |-> NoTransaction]
  /\ proc = Idle
  /\ edits = 0
  /\ crashes = 0
  /\ faults = 0

-----------------------------------------------------------------------------
(* Session files and fingerprints.                                         *)

Saved(s)  == IF s \in DOMAIN session THEN session[s] ELSE NoSession
Save(s, r) == session' = [x \in DOMAIN session \cup {s} |->
                            IF x = s THEN r ELSE session[x]]

\* _transition: replace the file of s by one that differs in state.
Transition(s, state) == Save(s, [session[s] EXCEPT !.state = state])

FinishBefore(s, state) ==
  Save(s, [session[s] EXCEPT !.state = state, !.result = session[s].state])

\* _finish: the state and the signed result change together.
Finish(s, state) ==
  Save(s, [session[s] EXCEPT !.state = state, !.result = state])

\* kit_change.preview refuses a project that is part old and part new.
Readable == project.mixed = NoTxn
Fingerprint(rel, folder) ==
  [from |-> project.kit, edited |-> project.edited, rel |-> rel, folder |-> folder]

Ambiguous(p) == Cardinality(Folder) > 1 /\ p.folder = Unset
Blocked(p)   == p.edited \/ p.rel < p.from \/ Ambiguous(p)
Noop(p)      == p.from = p.rel

\* _load with refresh_open: an open review must still be what it was.
Fresh(s) == session[s].state \in OpenState =>
              Readable /\ Fingerprint(s.plan.rel, s.plan.folder) = s.plan

Matching(p) == {t \in Txn : txn[t].state # "none" /\ txn[t].plan = p}
Pending     == {t \in Txn : txn[t].state \notin Settled}

-----------------------------------------------------------------------------
(* prepare and reprepare.                                                  *)

\* The first attempt at this plan that has no session, or one to hand back.
Attempt(p) ==
  LET free == {a \in 0 .. MaxAttempt - 1 :
                 Saved([plan |-> p, attempt |-> a]).state \notin Retryable}
  IN  {a \in free : \A b \in free : a <= b}

Prepare(rel, folder) ==
  LET p == Fingerprint(rel, folder)
  IN  /\ Readable
      /\ \E a \in Attempt(p) : LET s == [plan |-> p, attempt |-> a] IN
           /\ Saved(s).state = "none"
           /\ Cardinality(DOMAIN session) < MaxSession
           /\ Save(s, [NoSession EXCEPT !.state = IF Blocked(p) THEN "blocked" ELSE "ready"])
      /\ UNCHANGED <<txn, project, baseline, game, proc, bounds>>

\* D1 may only answer a review whose one blocker is the open folder question.
Reprepare(s, folder) ==
  /\ session[s].state = "blocked"
  /\ Fresh(s)
  /\ Ambiguous(s.plan) /\ ~s.plan.edited /\ s.plan.rel >= s.plan.from
  /\ Prepare(s.plan.rel, folder)

-----------------------------------------------------------------------------
(* apply, and the transaction as the controller sees it.                   *)

Goto(label) == proc' = [proc EXCEPT !.pc = label]
Return      == proc' = Idle
Enter(s, label, t, how) ==
  proc' = [Idle EXCEPT !.pc = label, !.s = s, !.t = t, !.how = how]

Apply(s) ==
  /\ session[s].state = "ready"
  /\ Fresh(s)
  /\ Save(s, [session[s] EXCEPT !.state = "applying",
       !.prior = IF @ = Unset THEN baseline.doc ELSE @])
  /\ Enter(s, "call", NoTxn, "none")
  /\ UNCHANGED <<txn, project, baseline, game, bounds>>

\* kit_change.apply raises before it logs anything, and the review ends.
ApplyRefused ==
  /\ proc.pc = "call"
  /\ \/ Pending # {} /\ faults' = faults
     \/ Fingerprint(proc.s.plan.rel, proc.s.plan.folder) # proc.s.plan /\ faults' = faults
     \/ faults < MaxFaults /\ faults' = faults + 1
  /\ Finish(proc.s, "failed")
  /\ Return
  /\ UNCHANGED <<txn, project, baseline, game, edits, crashes>>

ApplyBegins ==
  /\ proc.pc = "call"
  /\ Pending = {}
  /\ Readable
  /\ Fingerprint(proc.s.plan.rel, proc.s.plan.folder) = proc.s.plan
  /\ IF Noop(proc.s.plan)
     THEN Goto("applied") /\ txn' = txn
     ELSE \E t \in {t \in Txn : \A u \in 1 .. t : txn[u].state = "none" <=> u = t} :
            /\ txn' = [txn EXCEPT ![t] =
                         [state |-> "open", plan |-> proc.s.plan, by |-> proc.s]]
            /\ proc' = [proc EXCEPT !.pc = "writing", !.t = t]
  /\ UNCHANGED <<session, project, baseline, game, bounds>>

Move(t, state) == txn' = [txn EXCEPT ![t].state = state]

\* Each write first compares the file with the plan: an edit ends the apply.
ApplyWrites ==
  /\ proc.pc = "writing"
  /\ LET t == proc.t IN
       \/ /\ txn[t].state = "open" /\ ~project.edited
          /\ Move(t, "writing")
          /\ project' = [project EXCEPT !.mixed = t]
          /\ UNCHANGED proc
       \/ /\ txn[t].state = "writing" /\ ~project.edited
          /\ Move(t, "activated")
          /\ project' = [project EXCEPT !.kit = txn[t].plan.rel, !.mixed = NoTxn]
          /\ UNCHANGED proc
       \/ /\ txn[t].state = "activated"
          /\ Move(t, "applied")
          /\ Goto("applied")
          /\ UNCHANGED project
  /\ UNCHANGED <<session, baseline, game, bounds>>

\* An operating system error becomes apply-failed; a KitChangeError keeps its code.
ApplyFails ==
  /\ proc.pc = "writing" /\ proc.how = "none"
  /\ \E how \in {"apply-failed", "apply-refused"} :
       /\ \/ how = "apply-refused" /\ project.edited /\ faults' = faults
          \/ faults < MaxFaults /\ faults' = faults + 1
       /\ proc' = [proc EXCEPT !.pc = "rolling", !.how = how]
  /\ UNCHANGED <<session, txn, project, baseline, game, edits, crashes>>

-----------------------------------------------------------------------------
(* A rollback: of a failed apply, of an interrupted one, or by name.       *)

\* Every protected file has the prior or the new bytes of this transaction.
Undoable(t) ==
  /\ ~project.edited
  /\ IF project.mixed = NoTxn
     THEN project.kit \in {txn[t].plan.from, txn[t].plan.rel}
     ELSE project.mixed = t

RollBack ==
  /\ proc.pc = "rolling"
  /\ LET t == proc.t IN
       \/ /\ txn[t].state = "rolled_back"
          /\ Goto("rolled")
          /\ UNCHANGED <<txn, project>>
       \/ /\ txn[t].state \notin {"rolled_back", "rolling_back"}
          /\ Undoable(t)
          /\ Move(t, "rolling_back")
          /\ UNCHANGED <<proc, project>>
       \/ /\ txn[t].state = "rolling_back"
          /\ Undoable(t)
          /\ IF project.mixed = NoTxn /\ project.kit = txn[t].plan.rel
             THEN /\ project' = [project EXCEPT !.mixed = t]
                  /\ UNCHANGED <<txn, proc>>
             ELSE /\ project' = [project EXCEPT !.kit = txn[t].plan.from, !.mixed = NoTxn]
                  /\ Move(t, "rolled_back")
                  /\ Goto("rolled")
  /\ UNCHANGED <<session, baseline, game, bounds>>

\* A third version or a failing write blocks the transaction; if even that
\* cannot be written its journal stays as it was.
RollBackStuck ==
  /\ proc.pc = "rolling"
  /\ txn[proc.t].state # "rolled_back"
  /\ \/ ~Undoable(proc.t) /\ Move(proc.t, "blocked") /\ faults' = faults
     \/ /\ faults < MaxFaults /\ faults' = faults + 1
        /\ Move(proc.t, "blocked") \/ txn' = txn
  /\ Goto("stuck")
  /\ UNCHANGED <<session, project, baseline, game, edits, crashes>>

\* What each caller makes of a rollback that succeeded.
RolledBack ==
  /\ proc.pc = "rolled"
  /\ CASE proc.how = "apply-failed"  -> Finish(proc.s, "restored_failure")
       [] proc.how = "apply-refused" -> Finish(proc.s, "failed")
       [] proc.how = "resume" ->
            Save(proc.s, [session[proc.s] EXCEPT !.state = "restored_failure",
              !.result = "restored_failure", !.txn = proc.t])
       [] proc.how = "auto"   -> Finish(proc.s, "restored_failure")
       [] proc.how = "manual" -> Transition(proc.s, "restored")
  /\ Return
  /\ UNCHANGED <<txn, project, baseline, game, bounds>>

NotRolledBackRestored ==
  /\ proc.pc = "stuck"
  /\ IF proc.how = "manual" THEN Transition(proc.s, "restored")
     ELSE Finish(proc.s, IF proc.how = "auto" THEN "restored_failure" ELSE "failed")
  /\ Return
  /\ UNCHANGED <<txn, project, baseline, game, bounds>>

\* ... and of one that did not.  apply names the exact blocked transaction in
\* the session, or raises and leaves the session applying.
NotRolledBack ==
  /\ proc.pc = "stuck"
  /\ CASE proc.how = "resume" -> Finish(proc.s, "failed")
       [] proc.how \in {"auto", "manual"} -> Transition(proc.s, "recovery_required")
       [] OTHER ->
            LET found == Matching(proc.s.plan) IN
            IF Cardinality(found) = 1 /\ \A t \in found : txn[t].state = "blocked"
            THEN Save(proc.s, [session[proc.s] EXCEPT
                   !.state = "recovery_required", !.txn = proc.t])
            ELSE UNCHANGED session
  /\ Return
  /\ UNCHANGED <<txn, project, baseline, game, bounds>>

-----------------------------------------------------------------------------
(* The Apply-time check and its baseline.                                  *)

Problems == {f \in GameFile : game[f] > 0}
Exact(files) == {<<f, game[f]>> : f \in files}

\* _baseline_plan.  A first baseline records every problem; an upgrade keeps of
\* the prior one only what is still there, byte for byte.
FirstBaseline(s) == \/ s.plan.from = NoKit
                    \/ s.plan.from = Legacy /\ session[s].prior = Absent
Rebindable(s) == session[s].prior \in Document /\ session[s].prior.rel = s.plan.from
BaselinePlanFresh(s, scan) == [rel |-> s.plan.rel, allow |-> Exact(scan)]

BaselinePlan(s, scan) ==
  [rel   |-> s.plan.rel,
   allow |-> IF FirstBaseline(s) THEN Exact(scan)
             ELSE Exact(scan) \cap session[s].prior.allow]

StartCheck ==
  /\ proc.pc = "applied"
  /\ Save(proc.s, [session[proc.s] EXCEPT !.state = "checking", !.txn = proc.t])
  /\ Goto("check")
  /\ UNCHANGED <<txn, project, baseline, game, bounds>>

\* The selected core, the launchers and the self-test are right; the scan is read.
CheckScans ==
  /\ proc.pc = "check"
  /\ Readable /\ ~project.edited /\ project.kit = proc.s.plan.rel
  /\ proc' = [proc EXCEPT !.pc = "scanned", !.scan = Problems]
  /\ UNCHANGED <<session, txn, project, baseline, game, bounds>>

\* Any part of the check before the baseline is written fails, also by timeout.
CheckFails ==
  /\ proc.pc \in {"check", "scanned", "intent"}
  /\ proc' = [proc EXCEPT !.pc = "restore", !.how = "auto"]
  /\ UNCHANGED <<session, txn, project, baseline, game, bounds>>

\* _record_baseline_intent: the document is in the session before it is a file.
RecordIntent ==
  /\ proc.pc = "scanned"
  /\ FirstBaseline(proc.s) \/ Rebindable(proc.s)
  /\ LET s == proc.s
         d == BaselinePlan(s, proc.scan) IN
       /\ session[s].generated \in {Unset, d}
       /\ Save(s, [session[s] EXCEPT !.generated = d])
  /\ Goto("intent")
  /\ UNCHANGED <<txn, project, baseline, game, bounds>>

WriteBaseline ==
  /\ proc.pc = "intent"
  /\ baseline.doc \in {session[proc.s].prior, session[proc.s].generated}
  /\ baseline' = [baseline EXCEPT !.doc = session[proc.s].generated, !.dev = FALSE]
  /\ Goto("written")
  /\ UNCHANGED <<session, txn, project, game, bounds>>

\* kit verify --static: every problem of the project is allowed by the baseline
\* that is there.  A stage that could not run leaves the project unproven.
Verify ==
  /\ proc.pc = "written"
  /\ \E ok, skipped \in BOOLEAN :
       /\ ok => /\ \/ Problems = {}
                   \/ /\ baseline.doc = session[proc.s].generated
                      /\ Exact(Problems) \subseteq baseline.doc.allow
                /\ ~project.edited
       /\ proc' = [proc EXCEPT !.pc = "verified", !.ok = ok,
                     !.clean = (proc.scan = {} /\ ~skipped)]
  /\ UNCHANGED <<session, txn, project, baseline, game, bounds>>

\* _record_generated_baseline.  A baseline that changed meanwhile pauses the
\* review where it is; one that cannot be read ends it.
RecordGenerated ==
  /\ proc.pc = "verified"
  /\ \/ /\ baseline.doc = session[proc.s].generated
        /\ Goto("recorded")
        /\ UNCHANGED <<session, faults>>
     \/ /\ baseline.doc # session[proc.s].generated
        /\ Return
        /\ UNCHANGED <<session, faults>>
     \/ /\ faults < MaxFaults /\ faults' = faults + 1
        /\ Finish(proc.s, "failed")
        /\ Return
  /\ UNCHANGED <<txn, project, baseline, game, edits, crashes>>

Conclude ==
  /\ proc.pc = "recorded"
  /\ IF proc.ok
     THEN /\ Finish(proc.s, IF proc.clean THEN "complete" ELSE "adoption_required")
          /\ Return
     ELSE /\ proc' = [proc EXCEPT !.pc = "restore", !.how = "auto"]
          /\ UNCHANGED session
  /\ UNCHANGED <<txn, project, baseline, game, bounds>>

-----------------------------------------------------------------------------
(* Undoing a change: first the baseline, then the transaction.             *)

BaselineRestorable(s) ==
  \/ session[s].generated = Unset
  \/ baseline.doc \in {session[s].prior, session[s].generated}

RestoreBaselineSkipped ==
  /\ proc.pc = "restore"
  /\ Goto("unbased")
  /\ UNCHANGED <<session, txn, project, baseline, game, bounds>>

RestoreBaseline ==
  /\ proc.pc = "restore"
  /\ BaselineRestorable(proc.s)
  /\ LET prior == session[proc.s].prior
         there == Unset \in {session[proc.s].generated, prior} \/ baseline.doc = prior
     IN  baseline' = IF there THEN baseline
                     ELSE [baseline EXCEPT !.doc = prior, !.dev = FALSE]
  /\ Goto("unbased")
  /\ UNCHANGED <<session, txn, project, game, bounds>>

BaselineKept ==
  /\ proc.pc = "restore"
  /\ \/ ~BaselineRestorable(proc.s) /\ faults' = faults
     \/ faults < MaxFaults /\ faults' = faults + 1
  /\ Transition(proc.s, "recovery_required")
  /\ Return
  /\ UNCHANGED <<txn, project, baseline, game, edits, crashes>>

RestoreTransactionLatest ==
  /\ proc.pc = "unbased"
  /\ \E t \in Txn :
       /\ \A u \in Txn : txn[u].state # "none" => u <= t
       /\ proc' = [proc EXCEPT !.pc = IF txn[t].state = "none" THEN "rolled" ELSE "rolling",
                      !.t = t]
  /\ UNCHANGED <<session, txn, project, baseline, game, bounds>>

RestoreTransaction ==
  /\ proc.pc = "unbased"
  /\ LET t == session[proc.s].txn IN
       proc' = [proc EXCEPT !.pc = IF t = NoTxn THEN "rolled" ELSE "rolling", !.t = t]
  /\ UNCHANGED <<session, txn, project, baseline, game, bounds>>

\* restore, with the fingerprint of a signed result.
Restore(s) ==
  /\ session[s].state \in {"complete", "adoption_required", "recovery_required"}
  /\ session[s].result # "none"
  /\ Enter(s, "restore", NoTxn, "manual")
  /\ UNCHANGED <<session, txn, project, baseline, game, bounds>>

-----------------------------------------------------------------------------
(* recover; apply of an unfinished review does the same.                   *)

RecoverRequired(s) ==
  /\ session[s].state = "recovery_required"
  /\ Enter(s, "restore", NoTxn,
       IF session[s].result \in {"complete", "adoption_required"} THEN "manual" ELSE "auto")
  /\ UNCHANGED session

RecoverChecking(s) ==
  /\ session[s].state = "checking"
  /\ Enter(s, "check", session[s].txn, "none")
  /\ UNCHANGED session

\* inspect_transaction finds one journal of this exact plan.
Found(s, t) == Matching(s.plan) = {t}

RecoverApplied(s) ==
  /\ session[s].state = "applying"
  /\ \E t \in Txn : /\ Found(s, t) /\ txn[t].state = "applied"
                    /\ Enter(s, "applied", t, "none")
  /\ UNCHANGED session

RecoverRolledBackApplies(s) ==
  /\ session[s].state = "applying"
  /\ \E t \in Txn : Found(s, t) /\ txn[t].state = "rolled_back"
  /\ Enter(s, "call", NoTxn, "none")
  /\ UNCHANGED session

RecoverRolledBack(s) ==
  /\ session[s].state = "applying"
  /\ \E t \in Txn : /\ Found(s, t) /\ txn[t].state = "rolled_back"
                    /\ Save(s, [session[s] EXCEPT !.state = "restored_failure",
                                  !.result = "restored_failure", !.txn = t])
  /\ UNCHANGED proc

RecoverAmbiguous(s) ==
  /\ session[s].state = "applying"
  /\ Cardinality(Matching(s.plan)) > 1
  /\ Finish(s, "failed")
  /\ UNCHANGED proc

RecoverResumeWaits(s) ==
  /\ session[s].state = "applying"
  /\ \E t \in Pending : Found(s, t) /\ txn[t].state # "blocked"
                         /\ Enter(s, "rolling", t, "resume")
  /\ UNCHANGED session

\* Neither finished nor ambiguous: kit_change.resume takes the one open
\* transaction there is, and never a blocked one.
RecoverResume(s) ==
  /\ session[s].state = "applying"
  /\ \/ Matching(s.plan) = {}
     \/ \E t \in Txn : Found(s, t) /\ txn[t].state \notin {"applied", "rolled_back"}
  /\ IF \E t \in Txn : Pending = {t} /\ txn[t].state # "blocked"
     THEN /\ \E t \in Pending :
               IF txn[t].state = "activated" /\ ~project.edited /\ project.kit = txn[t].plan.rel
               THEN Enter(s, "writing", t, "resume")
               ELSE Enter(s, "rolling", t, "resume")
          /\ UNCHANGED session
     ELSE /\ Finish(s, "failed")
          /\ UNCHANGED proc

Recover(s) ==
  /\ \/ RecoverRequired(s) \/ RecoverChecking(s) \/ RecoverApplied(s)
     \/ RecoverRolledBack(s) \/ RecoverAmbiguous(s) \/ RecoverResume(s)
  /\ UNCHANGED <<txn, project, baseline, game, bounds>>

-----------------------------------------------------------------------------
(* The developer and the machine.                                          *)

Edit == /\ edits < MaxEdits
        /\ edits' = edits + 1
        /\ UNCHANGED <<session, txn, proc, crashes, faults>>

EditKitFile   == Edit /\ project' = [project EXCEPT !.edited = TRUE]
                      /\ UNCHANGED <<baseline, game>>
EditBaseline  == Edit /\ baseline.doc # Foreign
                      /\ baseline' = [doc |-> Foreign, kept |-> baseline.doc, dev |-> TRUE]
                      /\ UNCHANGED <<project, game>>
EditGame(f,v) == Edit /\ game' = [game EXCEPT ![f] = v]
                      /\ UNCHANGED <<project, baseline>>
RevertEdit ==
  /\ \/ /\ project.edited
        /\ project' = [project EXCEPT !.edited = FALSE]
        /\ UNCHANGED baseline
     \/ /\ baseline.doc = Foreign
        /\ baseline' = [doc |-> baseline.kept, kept |-> Absent, dev |-> TRUE]
        /\ UNCHANGED project
  /\ UNCHANGED <<session, txn, game, proc, bounds>>

Crash ==
  /\ proc.pc # "idle"
  /\ crashes < MaxCrashes
  /\ crashes' = crashes + 1
  /\ Return
  /\ UNCHANGED <<session, txn, project, baseline, game, edits, faults>>

Command(s) == proc.pc = "idle" /\ (Apply(s) \/ Restore(s) \/ Recover(s))

Work ==
  \/ ApplyRefused \/ ApplyBegins \/ ApplyWrites \/ ApplyFails
  \/ RollBack \/ RollBackStuck \/ RolledBack \/ NotRolledBack
  \/ StartCheck \/ CheckScans \/ CheckFails \/ RecordIntent \/ WriteBaseline
  \/ Verify \/ RecordGenerated \/ Conclude
  \/ RestoreBaseline \/ BaselineKept \/ RestoreTransaction

Next ==
  \/ proc.pc = "idle" /\ \E r \in Release, d \in Folder \cup {Unset} : Prepare(r, d)
  \/ proc.pc = "idle" /\ \E s \in DOMAIN session, d \in Folder : Reprepare(s, d)
  \/ \E s \in DOMAIN session : Command(s)
  \/ Work
  \/ EditKitFile \/ EditBaseline \/ RevertEdit \/ Crash
  \/ \E f \in GameFile, v \in 0 .. MaxVersion : EditGame(f, v)

Spec == Init /\ [][Next]_vars

-----------------------------------------------------------------------------
(* What a review promises.                                                 *)

\* Every session and the process hold values the code can hold.
TypeOK ==
  /\ DOMAIN session \subseteq Review
  /\ \A s \in DOMAIN session : session[s] \in Session
  /\ \A t \in Txn : /\ txn[t].state \in TxnState
                    /\ txn[t].state # "none" => txn[t].plan \in Plan /\ txn[t].by \in DOMAIN session
  /\ project \in [kit : Kit, edited : BOOLEAN, mixed : Txn \cup {NoTxn}]
  /\ baseline.doc \in Document \cup {Absent, Foreign}
  /\ proc.pc \in Step /\ proc.how \in How
  /\ proc.pc # "idle" => proc.s \in DOMAIN session

\* One approved review starts at most one transaction, however often it is
\* applied, killed and recovered (apply, _recover).
OneTransactionPerReview ==
  \A t, u \in Txn : txn[t].state # "none" /\ txn[u].state # "none" /\ txn[t].by = txn[u].by => t = u

\* A review that says restored has undone the change it made: the page tells
\* the developer that the previous project state is back.
RestoredIsUndone ==
  \A t \in Txn : txn[t].state # "none" =>
    (session[txn[t].by].state \in {"restored", "restored_failure"}
       => txn[t].state = "rolled_back")

\* Every review is bound to a transaction it started, or to none.
ExactTransaction ==
  \A s \in DOMAIN session :
    session[s].txn # NoTxn => txn[session[s].txn].by = s

\* What a check accepted, only the developer's own Restore of that review takes
\* back: recovering another review, or an automatic restore, never does, as long
\* as recovery has bound no review to the transaction of another one.
KeptUntilRestored ==
  [][ \A t \in Txn :
        (/\ ExactTransaction
         /\ txn[t].state = "applied"
         /\ txn'[t].state # "applied"
         /\ session[txn[t].by].state \in {"complete", "adoption_required"})
        => proc.how = "manual" /\ proc.s = txn[t].by ]_vars

\* The kit replaces a baseline only by one that the session file already names,
\* and only if what it replaces is named there too: every baseline it wrote can
\* be taken back, and a third version is never lost (_write_baseline,
\* _restore_prior_baseline).
BaselineIsLogged ==
  [][ (baseline' # baseline /\ proc.pc # "idle" /\ proc' # proc) =>
        LET known == {session[proc.s].prior, session[proc.s].generated}
        IN  baseline.doc \in known /\ baseline'.doc \in known ]_vars

\* A review that becomes restored leaves no baseline of its own behind, but one
\* that the developer put back.
NoBaselineLeftBehind ==
  [][ \A s \in DOMAIN session :
        (/\ ~baseline.dev
         /\ session'[s].state # session[s].state
         /\ session'[s].state \in {"restored", "restored_failure"}
         /\ session[s].generated # Unset)
        => baseline.doc # session[s].generated \/ session[s].prior = session[s].generated ]_vars

\* Both: every baseline the kit wrote can be taken back, and is.
BaselineUndoable == BaselineIsLogged /\ NoBaselineLeftBehind

\* No upgrade forgives a problem that no first install recorded: the allowances
\* of a later baseline were in the baseline before it.
AllowancesShrink ==
  [][ (/\ baseline'.doc \in Document
       /\ baseline.doc \in Document
       /\ baseline'.doc # baseline.doc
       /\ proc.pc = "intent" /\ proc.s.plan.from # NoKit)
      => baseline'.doc.allow \subseteq baseline.doc.allow ]_vars

-----------------------------------------------------------------------------
(* Liveness: a running command is scheduled to its end, and the developer   *)
(* recovers an interrupted review (docs/LIFECYCLE.md, "Recover an           *)
(* interrupted change").                                                    *)

Interrupted(s) == session[s].state \in {"applying", "checking"}

FairSpec ==
  /\ Spec
  /\ WF_vars(Work)
  /\ SF_vars(\E s \in DOMAIN session : proc.pc = "idle" /\ Interrupted(s) /\ Recover(s))

\* Every review that was applied ends, or says that it needs recovery: the one
\* thing that makes it wait is a baseline that somebody else put there.
EveryReviewEnds ==
  []<>(baseline.doc = Foreign \/ ~\E s \in DOMAIN session : Interrupted(s))

-----------------------------------------------------------------------------
(* What the code does not keep.                                            *)

\* README.md, "kit recover": continue or restore an interrupted change from the
\* exact durable session and journal.  A review that has failed leaves no change
\* of its own half done.
FailedLeavesNothingOpen ==
  \A t \in Txn : txn[t].state # "none" =>
    (session[txn[t].by].state = "failed" => txn[t].state \in Settled)

\* Nor is a review ever bound to the transaction of another: two reviews of one
\* upgrade that were both killed refute ExactTransaction.
AlwaysExact == []ExactTransaction
=============================================================================
