----------------------------- MODULE EngineGate -----------------------------
(***************************************************************************)
(* The native engine boundary (src/tools/native_engine.py) and what is     *)
(* built on it: the bounded launches of tools and of the gate, the         *)
(* retained language server (gdls.py), the durable warning an engine       *)
(* failure leaves behind, the retry a human confirms for one warning, and  *)
(* the verification ledger (kit.py verify, cockpit.py) whose latest        *)
(* pointer is what the project reports as "fresh".                         *)
(*                                                                         *)
(* Every process of the machine may stop between any two of its durable    *)
(* steps (Kill), and any call into the operating system may fail; a        *)
(* warning is an identity, since every write of it changes its digest.     *)
(***************************************************************************)
EXTENDS Naturals, FiniteSets

CONSTANTS Slot,       \* engine launches that may be under way together
          MaxStage,   \* engine launches of one complete gate
          MaxCommand, \* launches by tools and by gdls in a behaviour
          MaxCrash,   \* processes killed in a behaviour
          MaxFault,   \* failures of the engine, the system or a check
          MaxEdit     \* edits of the repository in a behaviour

ASSUME EngineGateAssumption ==
  /\ IsFiniteSet(Slot)
  /\ {MaxStage, MaxCommand, MaxCrash, MaxFault, MaxEdit} \subseteq Nat
  /\ Slot \cap {"none", "gone", "torn", "vanished", "mismatch"} = {}

VARIABLES
  launch,    \* per slot: the Python process that launches an engine
  engine,    \* per slot: the engine process it started
  handed,    \* history: the engines that were made holders of the lock
  lock,      \* the engine lock file: who it names
  journal,   \* the language server's lifecycle journal
  warning,   \* the unresolved native warning: 0 or its identity
  grant,     \* the warning the running verification may retry past, 0: none
  verify,    \* the one public verification, under its OS lock; "sound" is
             \* history: the gate passed on this content throughout
  pointer,   \* latest.json of the verification ledger
  repo,      \* the content of the repository
  disturbed, \* history: since when an engine failure was recorded
  budget     \* commands, crashes, faults and edits still allowed

vars == <<launch, engine, handed, lock, journal, warning, grant, verify,
          pointer, repo, disturbed, budget>>

None == "none"
Kind == {"tool", "serve", "gate"}

\* What is left of a launch as a NativeResult: its failure class, or how it ended.
Persisted == {"native-crash", "engine-timeout", "engine-start-failed",
              "concurrent-engine-launch"}
Outcome == Persisted \cup {"", "passed", "failed", "native-retry-required"}

\* Three identities suffice: at most two are referred to when one is written.
Identity == 1 .. 3
Fresh == CHOOSE i \in Identity : i \notin {warning, verify.start}

NoLaunch == [pc |-> "idle", kind |-> "tool", out |-> ""]
NoVerify == [pc |-> "idle", scope |-> "complete", start |-> 0, confirmed |-> FALSE,
             repo |-> 0, stage |-> 0, slot |-> None, failed |-> FALSE,
             native |-> FALSE, ok |-> FALSE, trusted |-> FALSE,
             touched |-> FALSE, status |-> "failed", open |-> FALSE,
             proved |-> FALSE, sound |-> FALSE]

Init ==
  /\ launch = [p \in Slot |-> NoLaunch]
  /\ engine = [p \in Slot |-> None]
  /\ handed = {}
  /\ lock = [by |-> None, holder |-> "launcher"]
  /\ journal = None
  /\ warning = 0
  /\ grant = 0
  /\ verify = NoVerify
  /\ pointer = [status |-> None, open |-> FALSE, complete |-> FALSE, repo |-> 0,
             sound |-> FALSE]
  /\ repo = 0
  /\ disturbed = {}
  /\ budget = [command |-> MaxCommand, crash |-> MaxCrash, fault |-> MaxFault,
               edit |-> MaxEdit]

Spend(what) == /\ budget[what] > 0
               /\ budget' = [budget EXCEPT ![what] = @ - 1]

NoLock == [by |-> None, holder |-> "launcher"]
Gone   == [by |-> "gone", holder |-> "engine"]
Torn   == [by |-> "torn", holder |-> "launcher"]

\* The process a lock names is dead: the launcher was killed before it handed
\* the lock over, or the engine has ended and nobody has released it yet.
Abandoned == \/ lock.by = "gone"
             \/ lock.by \in Slot /\ lock.holder = "engine" /\ engine[lock.by] = None

\* A journal whose server is dead can be settled only while the lock still
\* names that server; once another launch removed the lock it names nobody.
JournalUnlocked == IF journal = "vanished" THEN "mismatch" ELSE journal

\* persist_native_failure: the warning is a new one, whatever its class.
Persist == /\ warning' = Fresh
           /\ disturbed' = {"pointer"} \cup
                           (IF verify.pc = "idle" THEN {} ELSE {"run"})

Goto(p, pc, out) ==
  launch' = [launch EXCEPT ![p] = [pc |-> pc, kind |-> launch[p].kind, out |-> out]]
Ends(p, out) == Goto(p, "report", out)
Leaves(p) == launch' = [launch EXCEPT ![p] = NoLaunch]

ReleaseBy(p) == IF lock.by = p THEN NoLock ELSE lock
-----------------------------------------------------------------------------
(* A launch: start_godot and run_godot. *)

\* A tool, or gdls once it has found neither a journal nor a lock.
Command(p, kind) ==
  /\ launch[p].pc = "idle" /\ engine[p] = None
  /\ kind = "serve" => journal = None /\ lock = NoLock
  /\ Spend("command")
  /\ launch' = [launch EXCEPT ![p] = [pc |-> "retry", kind |-> kind, out |-> ""]]
  /\ UNCHANGED <<engine, handed, lock, journal, warning, grant, verify, pointer,
                 repo, disturbed>>

\* consume_recovery_retry: the grant names this warning and this run; only the
\* gate of the run it was issued for holds its token.
ConsumeAnyGrant(p) == launch[p].kind = "gate" /\ grant # 0
Consume(p) == launch[p].kind = "gate" /\ grant = warning

\* _retry_authorized_for_launch, before the lock is asked for.
CheckRetry(p) ==
  /\ launch[p].pc = "retry"
  /\ IF warning = 0 \/ Consume(p) THEN Goto(p, "claim", "")
                                  ELSE Ends(p, "native-retry-required")
  /\ UNCHANGED <<engine, handed, lock, journal, warning, grant, verify, pointer,
                 repo, disturbed, budget>>

\* acquire_engine_lock creates the lock exclusively under its sidecar guard.
Claim(p) ==
  /\ launch[p].pc = "claim" /\ lock = NoLock
  /\ lock' = [by |-> p, holder |-> "launcher"]
  /\ Goto(p, "spawn", "")
  /\ UNCHANGED <<engine, handed, journal, warning, grant, verify, pointer, repo,
                 disturbed, budget>>

\* Another launch is active, or the lock cannot be read.
ClaimRefused(p) ==
  /\ launch[p].pc = "claim" /\ lock # NoLock /\ ~Abandoned
  /\ Ends(p, "concurrent-engine-launch")
  /\ UNCHANGED <<engine, handed, lock, journal, warning, grant, verify, pointer,
                 repo, disturbed, budget>>

\* An abandoned lock becomes a warning, is removed, and refuses this launch.
ClaimAbandonedKeeps(p) ==
  /\ launch[p].pc = "claim" /\ Abandoned
  /\ Persist
  /\ Ends(p, "concurrent-engine-launch")
  /\ UNCHANGED <<engine, handed, lock, journal, grant, verify, pointer, repo, budget>>
ClaimAbandoned(p) ==
  /\ launch[p].pc = "claim" /\ Abandoned
  /\ Persist
  /\ lock' = NoLock
  /\ journal' = JournalUnlocked
  /\ Ends(p, "concurrent-engine-launch")
  /\ UNCHANGED <<engine, handed, grant, verify, pointer, repo, budget>>

\* The process starts, or does not and gives the lock back.
Spawn(p) ==
  /\ launch[p].pc = "spawn"
  /\ \/ /\ engine' = [engine EXCEPT ![p] = "running"]
        /\ Goto(p, "handoff", "")
        /\ UNCHANGED <<lock, budget>>
     \/ /\ Spend("fault")
        /\ lock' = ReleaseBy(p)
        /\ Ends(p, "engine-start-failed")
        /\ UNCHANGED engine
  /\ UNCHANGED <<handed, journal, warning, grant, verify, pointer, repo,
                 disturbed>>

\* _transfer_engine_lock: the engine, not its launcher, is the holder from now on.
Handoff(p) ==
  /\ launch[p].pc = "handoff" /\ lock.by = p
  /\ lock' = [by |-> p, holder |-> "engine"]
  /\ handed' = handed \cup {p}
  /\ Goto(p, IF launch[p].kind = "serve" THEN "journal" ELSE "running", "")
  /\ UNCHANGED <<engine, journal, warning, grant, verify, pointer, repo,
                 disturbed, budget>>

\* The transfer fails: the tree is terminated and the lock released, whether or
\* not the termination could be verified.
HandoffFails(p) ==
  /\ launch[p].pc = "handoff"
  /\ Spend("fault")
  /\ \E left \in {None, "loose"} : engine' = [engine EXCEPT ![p] = left]
  /\ lock' = ReleaseBy(p)
  /\ Ends(p, "engine-start-failed")
  /\ UNCHANGED <<handed, journal, warning, grant, verify, pointer, repo,
                 disturbed>>

\* The engine ends by itself: with a verdict, or by a crash.
EngineEnds(p) ==
  /\ launch[p].pc = "running"
  /\ \E out \in {"passed", "failed", "native-crash"} :
       /\ Goto(p, "release", out)
       /\ IF out = "passed" THEN UNCHANGED budget ELSE Spend("fault")
  /\ engine' = [engine EXCEPT ![p] = None]
  /\ handed' = handed \ {p}
  /\ UNCHANGED <<lock, journal, warning, grant, verify, pointer, repo, disturbed>>

\* The engine outlives its timeout and its tree is terminated; when that cannot
\* be verified the launch keeps the lock.
EngineTimeout(p) ==
  /\ launch[p].pc = "running"
  /\ Spend("fault")
  /\ \E left \in {None, "loose"} :
       /\ engine' = [engine EXCEPT ![p] = left]
       /\ handed' = IF left = None THEN handed \ {p} ELSE handed
  /\ Goto(p, "release", "engine-timeout")
  /\ UNCHANGED <<lock, journal, warning, grant, verify, pointer, repo, disturbed>>

\* run_godot's finally: only a verified termination releases the lock.
ReleaseAlways(p) ==
  /\ launch[p].pc = "release"
  /\ lock' = ReleaseBy(p)
  /\ Goto(p, "report", launch[p].out)
  /\ UNCHANGED <<engine, handed, journal, warning, grant, verify, pointer, repo,
                 disturbed, budget>>
Release(p) ==
  /\ launch[p].pc = "release"
  /\ lock' = IF engine[p] = None THEN ReleaseBy(p) ELSE lock
  /\ Goto(p, "report", launch[p].out)
  /\ UNCHANGED <<engine, handed, journal, warning, grant, verify, pointer, repo,
                 disturbed, budget>>

\* The caller records the failure it was handed. The gate also keeps it among
\* its diagnostics, and stops at its first failed launch.
Report(p) ==
  /\ launch[p].pc = "report"
  /\ IF launch[p].out \in Persisted THEN Persist ELSE UNCHANGED <<warning, disturbed>>
  /\ Leaves(p)
  /\ IF verify.slot = p
     THEN verify' = [verify EXCEPT !.slot = None, !.stage = @ + 1,
                       !.failed = @ \/ launch[p].out # "passed",
                       !.native = @ \/ launch[p].out \in Persisted]
     ELSE UNCHANGED verify
  /\ UNCHANGED <<engine, handed, lock, journal, grant, pointer, repo, budget>>
-----------------------------------------------------------------------------
(* The retained language server: gdls start and stop. *)

\* The journal is written after the server already holds the lock.
WriteJournal(p) ==
  /\ launch[p].pc = "journal" /\ journal = None
  /\ journal' = p
  /\ Goto(p, "ready", "")
  /\ UNCHANGED <<engine, handed, lock, warning, grant, verify, pointer, repo,
                 disturbed, budget>>

\* It could not be written: _cleanup_started_process without a receipt.
WriteJournalFails(p) ==
  /\ launch[p].pc = "journal"
  /\ \/ journal # None /\ UNCHANGED budget
     \/ Spend("fault")
  /\ \/ /\ engine' = [engine EXCEPT ![p] = None]
        /\ handed' = handed \ {p}
        /\ lock' = ReleaseBy(p)
     \/ /\ engine' = [engine EXCEPT ![p] = "loose"]
        /\ UNCHANGED <<handed, lock>>
  /\ Ends(p, "engine-start-failed")
  /\ UNCHANGED <<journal, warning, grant, verify, pointer, repo, disturbed>>

\* The server answers: the launcher goes and the server stays.
Ready(p) ==
  /\ launch[p].pc = "ready" /\ journal = p
  /\ Leaves(p)
  /\ engine' = [engine EXCEPT ![p] = "server"]
  /\ UNCHANGED <<handed, lock, journal, warning, grant, verify, pointer, repo,
                 disturbed, budget>>

\* It never answers: the exact owned process is stopped, then lock and journal go.
NotReady(p) ==
  /\ launch[p].pc = "ready" /\ journal = p
  /\ Spend("fault")
  /\ engine' = [engine EXCEPT ![p] = None]
  /\ handed' = handed \ {p}
  /\ lock' = ReleaseBy(p)
  /\ journal' = None
  /\ Ends(p, "engine-timeout")
  /\ UNCHANGED <<warning, grant, verify, pointer, repo, disturbed>>

\* It exits while starting: the failure is recorded first, and the cleanup that
\* follows declines to stop a process that is already gone, so the lock and
\* the journal stay for the next command.
StartupExit(p) ==
  /\ launch[p].pc = "ready" /\ journal = p
  /\ Spend("fault")
  /\ Persist
  /\ engine' = [engine EXCEPT ![p] = None]
  /\ handed' = handed \ {p}
  /\ lock' = Gone
  /\ journal' = "vanished"
  /\ Leaves(p)
  /\ UNCHANGED <<grant, verify, pointer, repo>>

\* (A stop that forgets the journal.)
StopKeepsJournal(p) ==
  /\ journal = p /\ lock.by = p
  /\ engine' = [engine EXCEPT ![p] = None]
  /\ handed' = handed \ {p}
  /\ lock' = NoLock
  /\ IF launch[p].pc = "ready" THEN Ends(p, "native-crash") ELSE UNCHANGED launch
  /\ UNCHANGED <<journal, warning, grant, verify, pointer, repo, disturbed, budget>>

\* gdls stop of a server that journal and lock both name, ready or not: a
\* launcher still waiting for it takes the exit for a crash. The journal goes
\* after the lock, so a stop killed in between leaves it behind.
Stop(p) ==
  /\ journal = p /\ lock.by = p
  /\ engine' = [engine EXCEPT ![p] = None]
  /\ handed' = handed \ {p}
  /\ lock' = NoLock
  /\ \/ journal' = None /\ UNCHANGED budget
     \/ journal' = "mismatch" /\ Spend("crash")
  /\ IF launch[p].pc = "ready" THEN Ends(p, "native-crash") ELSE UNCHANGED launch
  /\ UNCHANGED <<warning, grant, verify, pointer, repo, disturbed>>

\* reconcile_abandoned_background, from gdls start or stop.
Reconcile ==
  /\ journal = "vanished"
  /\ Persist
  /\ lock' = NoLock
  /\ journal' = None
  /\ UNCHANGED <<launch, engine, handed, grant, verify, pointer, repo, budget>>

\* A retained server, or an engine nobody could stop, ends by itself.
Vanishes(p) ==
  /\ engine[p] \in {"server", "loose"} /\ launch[p].pc = "idle"
  /\ Spend("fault")
  /\ engine' = [engine EXCEPT ![p] = None]
  /\ handed' = handed \ {p}
  /\ lock' = IF lock.by = p THEN Gone ELSE lock
  /\ journal' = IF journal = p THEN "vanished" ELSE journal
  /\ UNCHANGED <<launch, warning, grant, verify, pointer, repo, disturbed>>
-----------------------------------------------------------------------------
(* A verification: kit.py verify around check.py, then the ledger. *)

Complete == verify.scope # "limited"

\* The run takes the repository's digest and the warning it starts against. A
\* complete one past an unresolved warning needs its exact digest confirmed,
\* and is authorised for that warning alone.
VerifyStart(scope, confirmed) ==
  /\ verify.pc = "idle"
  /\ confirmed <=> scope # "limited" /\ warning # 0
  /\ verify' = [NoVerify EXCEPT !.pc = "static", !.scope = scope, !.repo = repo,
                               !.start = warning, !.confirmed = confirmed]
  /\ grant' = IF confirmed THEN warning ELSE 0
  /\ disturbed' = disturbed \ {"run"}
  /\ UNCHANGED <<launch, engine, handed, lock, journal, warning, pointer, repo, budget>>

\* main: every stage without an engine comes before the engine boundary, which
\* only a complete run with no failure so far crosses.
Static ==
  /\ verify.pc = "static"
  /\ \E failed \in BOOLEAN :
       /\ IF failed THEN Spend("fault") ELSE UNCHANGED budget
       /\ verify' = [verify EXCEPT !.failed = failed,
                       !.pc = IF Complete /\ ~failed THEN "engine" ELSE "end"]
  /\ UNCHANGED <<launch, engine, handed, lock, journal, warning, grant, pointer,
                 repo, disturbed>>

\* The health check and each engine stage: one launch after the other, the rest
\* skipped after the first failure.
Stage(p) ==
  /\ verify.pc = "engine" /\ verify.slot = None
  /\ verify.stage < MaxStage /\ ~verify.failed
  /\ launch[p].pc = "idle" /\ engine[p] = None
  /\ launch' = [launch EXCEPT ![p] = [pc |-> "retry", kind |-> "gate", out |-> ""]]
  /\ verify' = [verify EXCEPT !.slot = p]
  /\ UNCHANGED <<engine, handed, lock, journal, warning, grant, pointer, repo,
                 disturbed, budget>>

\* The authenticated summary, and the repository's digest read a second time;
\* strict verification has stages of its own besides the gate. The process that
\* held the retry token is gone.
VerifyEnd ==
  /\ \/ verify.pc = "end"
     \/ /\ verify.pc = "engine" /\ verify.slot = None
        /\ verify.failed \/ verify.stage = MaxStage
  /\ \E other \in BOOLEAN :
       LET trusted == ~verify.failed /\ repo = verify.repo
       IN /\ IF other THEN UNCHANGED budget
                      ELSE Complete /\ Spend("fault")
          /\ verify' = [NoVerify EXCEPT !.pc = "record", !.scope = verify.scope,
                           !.start = verify.start, !.native = verify.native,
                           !.trusted = trusted, !.ok = trusted /\ other,
                           !.repo = verify.repo,
                           !.sound = Complete /\ ~verify.failed /\ ~verify.touched]
  /\ grant' = 0
  /\ UNCHANGED <<launch, engine, handed, lock, journal, warning, pointer, repo,
                 disturbed>>

Finish == verify' = NoVerify /\ grant' = 0

\* record_verification reads the warning, the pointer and, a third time, the
\* repository; a limited pass leaves an unchanged complete proof in place.
AnyWarningStable == TRUE
WarningStable == verify.start = warning
Unresolved == warning # 0 \/ pointer.open \/ verify.native
Proved == Complete /\ ~verify.native /\ verify.trusted /\ WarningStable /\ warning # 0
Status == CASE ~verify.ok -> "failed"
            [] verify.ok /\ \/ ~Complete
                            \/ ~WarningStable
                            \/ Unresolved      -> "insufficient"
            [] OTHER -> "fresh"
Preserved ==
  /\ verify.ok /\ ~Complete /\ ~Unresolved /\ verify.start = 0
  /\ pointer.status = "fresh" /\ pointer.complete /\ pointer.repo = repo
Record ==
  /\ verify.pc = "record"
  /\ IF Preserved
     THEN Finish
     ELSE /\ verify' = [verify EXCEPT !.pc = "pointer", !.status = Status,
                          !.open = Unresolved, !.proved = Proved,
                          !.start = warning, !.repo = repo,
                          !.sound = verify.sound /\ repo = verify.repo]
          /\ UNCHANGED grant
  /\ UNCHANGED <<launch, engine, handed, lock, journal, warning, pointer, repo,
                 disturbed, budget>>

WritePointer(status, open) ==
  /\ pointer' = [status |-> status, open |-> open, complete |-> Complete,
                 repo |-> verify.repo, sound |-> verify.sound]
  /\ disturbed' = IF "run" \in disturbed THEN disturbed \cup {"pointer"}
                                         ELSE disturbed \ {"pointer"}

\* The conservative pointer is durable before the warning is touched.
Publish ==
  /\ verify.pc = "pointer"
  /\ WritePointer(verify.status, verify.open)
  /\ IF verify.proved THEN verify' = [verify EXCEPT !.pc = "resolve"] /\ UNCHANGED grant
                      ELSE Finish
  /\ UNCHANGED <<launch, engine, handed, lock, journal, warning, repo, budget>>

\* resolve_native_warning: compare and swap of the exact warning.
ResolveBlindly ==
  /\ verify.pc = "resolve"
  /\ warning' = 0 /\ grant' = 0
  /\ verify' = [verify EXCEPT !.pc = "resolved"]
  /\ UNCHANGED <<launch, engine, handed, lock, journal, pointer, repo, disturbed, budget>>
Resolve ==
  /\ verify.pc = "resolve"
  /\ IF warning = verify.start
     THEN /\ warning' = 0 /\ grant' = 0
          /\ verify' = [verify EXCEPT !.pc = "resolved"]
     ELSE Finish /\ UNCHANGED warning
  /\ UNCHANGED <<launch, engine, handed, lock, journal, pointer, repo, disturbed, budget>>

\* The resolution event, then the pointer that no longer carries the failure.
Settle ==
  /\ verify.pc = "resolved"
  /\ WritePointer(IF verify.ok THEN "fresh" ELSE verify.status, FALSE)
  /\ Finish
  /\ UNCHANGED <<launch, engine, handed, lock, journal, warning, repo, budget>>

\* A write of the ledger fails: the command reports it and ends.
RecordFails ==
  /\ verify.pc \in {"pointer", "resolved"}
  /\ Spend("fault")
  /\ Finish
  /\ UNCHANGED <<launch, engine, handed, lock, journal, warning, pointer, repo,
                 disturbed>>
-----------------------------------------------------------------------------
(* The environment. *)

\* A process is killed: of a gate, the whole command or only check.py. A captured
\* engine dies with its launcher, a little later; the language server is
\* started without that lifeline.
Kill(p) ==
  /\ launch[p].pc # "idle"
  /\ Spend("crash")
  /\ Leaves(p)
  /\ engine' = IF engine[p] # "running" THEN engine
               ELSE [engine EXCEPT ![p] = IF launch[p].kind = "serve"
                                          THEN "server" ELSE "orphan"]
  /\ CASE launch[p].pc = "claim" /\ lock = NoLock ->
            lock' \in {NoLock, Torn} /\ UNCHANGED <<warning, disturbed>>
       [] launch[p].pc = "claim" /\ Abandoned ->
            UNCHANGED lock /\ (Persist \/ UNCHANGED <<warning, disturbed>>)
       [] OTHER ->
            /\ lock' = IF lock.by = p /\ (lock.holder = "launcher" \/ engine[p] = None)
                       THEN Gone ELSE lock
            /\ UNCHANGED <<warning, disturbed>>
  /\ \/ verify.slot # p /\ UNCHANGED <<verify, grant>>
     \/ verify.slot = p /\ Finish
     \/ verify.slot = p /\ UNCHANGED grant
        /\ verify' = [verify EXCEPT !.pc = "end", !.slot = None, !.failed = TRUE]
  /\ UNCHANGED <<handed, journal, pointer, repo>>

KillVerify ==
  /\ verify.pc # "idle" /\ verify.slot = None
  /\ Spend("crash")
  /\ Finish
  /\ UNCHANGED <<launch, engine, handed, lock, journal, warning, pointer, repo,
                 disturbed>>

\* The parent-death guard ends the engine of a launcher that was killed.
OrphanEnds(p) ==
  /\ engine[p] = "orphan"
  /\ engine' = [engine EXCEPT ![p] = None]
  /\ handed' = handed \ {p}
  /\ lock' = IF lock.by = p THEN Gone ELSE lock
  /\ UNCHANGED <<launch, journal, warning, grant, verify, pointer, repo, disturbed, budget>>

Edit ==
  /\ Spend("edit")
  /\ repo' \in 0 .. MaxEdit \ {repo}
  /\ verify' = IF verify.pc \in {"static", "engine", "end"}
               THEN [verify EXCEPT !.touched = TRUE] ELSE verify
  /\ UNCHANGED <<launch, engine, handed, lock, journal, warning, grant, pointer,
                 disturbed>>
-----------------------------------------------------------------------------
LaunchStep(p) ==
  \/ CheckRetry(p) \/ Claim(p) \/ ClaimRefused(p) \/ ClaimAbandoned(p)
  \/ Spawn(p) \/ Handoff(p) \/ HandoffFails(p) \/ EngineEnds(p)
  \/ EngineTimeout(p) \/ Release(p) \/ Report(p)
  \/ WriteJournal(p) \/ WriteJournalFails(p) \/ Ready(p) \/ NotReady(p)
  \/ StartupExit(p)

VerifyStep ==
  \/ Static \/ VerifyEnd \/ Record \/ Publish \/ Resolve \/ Settle \/ RecordFails
  \/ \E p \in Slot : Stage(p)

Next ==
  \/ VerifyStep \/ Reconcile \/ KillVerify \/ Edit
  \/ \E scope \in {"limited", "complete"}, confirmed \in BOOLEAN :
       VerifyStart(scope, confirmed)
  \/ \E p \in Slot : \/ LaunchStep(p) \/ Stop(p) \/ Vanishes(p)
                      \/ Kill(p) \/ OrphanEnds(p)
                      \/ \E kind \in {"tool", "serve"} : Command(p, kind)

Spec == Init /\ [][Next]_vars

\* Every started process goes on; the developer keeps confirming a warning with
\* a complete verification, stops the language server, and settles its journal.
Fairness ==
  /\ WF_vars(VerifyStep)
  /\ WF_vars(Reconcile)
  /\ \A p \in Slot : /\ WF_vars(LaunchStep(p))
                     /\ WF_vars(OrphanEnds(p))
                     /\ SF_vars(Stop(p))
  /\ SF_vars(VerifyStart("complete", TRUE))

FairSpec == Spec /\ Fairness
-----------------------------------------------------------------------------
\* verification_view: what the project is told about its last verification.
View == IF warning # 0 \/ pointer.open THEN "failed"
        ELSE IF pointer.status = "fresh" /\ pointer.repo # repo THEN "stale"
        ELSE pointer.status

\* Every variable keeps its shape, and the names of slots in lock, journal and
\* verification are of launches that exist.
TypeOK ==
  /\ launch \in [Slot -> [pc : {"idle", "retry", "claim", "spawn", "handoff", "running",
                                "release", "report", "journal", "ready"},
                          kind : Kind, out : Outcome]]
  /\ engine \in [Slot -> {None, "running", "server", "orphan", "loose"}]
  /\ handed \subseteq {p \in Slot : engine[p] # None}
  /\ lock \in [by : Slot \cup {None, "gone", "torn"}, holder : {"launcher", "engine"}]
  /\ lock.by \in Slot => launch[lock.by].pc # "idle" \/ engine[lock.by] # None
  /\ journal \in Slot \cup {None, "vanished", "mismatch"}
  /\ journal \in Slot => lock = [by |-> journal, holder |-> "engine"]
  /\ journal = "vanished" => lock.by = "gone"
  /\ {warning, grant, verify.start} \subseteq {0} \cup Identity
  /\ verify.slot # None <=> \E p \in Slot : launch[p].kind = "gate"
  /\ pointer.status \in {None, "fresh", "failed", "insufficient"}

\* An engine that was made the holder of the lock is still the one the lock names
\* for as long as it runs, so two such engines never run together: whatever
\* timeout, unverified termination, kill or recovery of an abandoned lock came
\* in between (start_godot, run_godot's finally, acquire_engine_lock).
OneEngine ==
  \A p \in handed : lock = [by |-> p, holder |-> "engine"]

\* The project is only told "fresh" while no engine failure has been recorded
\* since the run behind the pointer began, by whomever (record_verification's
\* stable snapshots, resolve_native_warning's compare and swap).
FreshMeansUndisturbed == View = "fresh" => "pointer" \notin disturbed

\* "Fresh" means that the complete gate passed on this very content.
FreshMeansPassed == View = "fresh" => pointer.sound

\* A pointer that carries an unresolved failure has a warning to resolve it by,
\* once no verification is under way (record_verification).
OpenHasWarning == pointer.open /\ verify.pc = "idle" => warning # 0

\* A warning is cleared only by a complete run that passed on content that held
\* still, and during which nobody recorded another engine failure.
ClearedByProof ==
  [][warning # 0 /\ warning' = 0 =>
       /\ "run" \notin disturbed
       /\ Complete /\ verify.trusted /\ ~verify.native]_vars

\* A launch passes an unresolved warning only in the gate of the run a human
\* confirmed for that warning: not for one that replaced it during the run
\* (consume_recovery_retry).
ConfirmedRetry ==
  [][\A p \in Slot : launch[p].pc = "retry" /\ launch'[p].pc = "claim" /\ warning # 0 =>
       verify.slot = p /\ verify.confirmed /\ verify.start = warning]_vars

\* Nothing in the code ends these: a lock killed half written, an engine whose
\* termination failed, a server that no journal names.
BeyondRecovery ==
  \/ lock = Torn
  \/ \E p \in Slot : engine[p] = "loose" \/ (engine[p] = "server" /\ journal # p)

\* A recorded engine failure is eventually resolved when the developer keeps
\* confirming it, whatever was killed meanwhile, unless something holds the
\* engine that the code refuses to end.
WarningClears == warning # 0 ~> warning = 0 \/ BeyondRecovery
=============================================================================
