-------------------------- MODULE EngineGateProofs --------------------------
(***************************************************************************)
(* Two results about the native engine gate, for every number of launches, *)
(* commands, kills and failures.                                           *)
(*                                                                         *)
(* An engine which was made the holder of the engine lock keeps it for as  *)
(* long as it runs. IInv adds to OneEngine what each step relies on: a     *)
(* launcher that has claimed the lock still holds it until it hands it     *)
(* over, every engine that was handed the lock exists, and the language    *)
(* server's journal only names a server the lock names.                    *)
(*                                                                         *)
(* The verification ledger never calls a run fresh that an engine failure  *)
(* disturbed, clears a warning only for a complete proof that saw nothing  *)
(* else, and lets one confirmed run past it. Ledger says why: a failure    *)
(* recorded since the run began left a warning the run did not begin with, *)
(* and no later warning takes the identity the run remembers.              *)
(***************************************************************************)
EXTENDS EngineGate, TLAPS

Shape ==
  /\ DOMAIN launch = Slot
  /\ engine \in [Slot -> {None, "running", "server", "orphan", "loose"}]
  /\ handed \subseteq Slot
  /\ lock \in [by : Slot \cup {None, "gone", "torn"}, holder : {"launcher", "engine"}]

HandedRuns == \A p \in handed : engine[p] # None

LauncherHolds ==
  \A p \in Slot : launch[p].pc \in {"spawn", "handoff"} =>
                    lock = [by |-> p, holder |-> "launcher"]

EngineBehind ==
  \A p \in Slot : /\ launch[p].pc \in {"retry", "claim", "spawn"} => engine[p] = None
                  /\ launch[p].pc \in {"handoff", "running", "journal", "ready"} =>
                       engine[p] = "running"
                  /\ launch[p].pc \in {"journal", "ready"} =>
                       p \in handed /\ launch[p].kind = "serve"

JournalNames ==
  /\ journal \in Slot => /\ journal \in handed
                         /\ launch[journal].pc \in {"ready", "idle"}
                         /\ engine[journal] \in {"running", "server"}
  /\ journal = "vanished" => lock.by = "gone"

IInv == /\ Shape /\ HandedRuns /\ OneEngine /\ LauncherHolds
        /\ EngineBehind /\ JournalNames

Names == {"none", "gone", "torn", "vanished", "mismatch"}

\* What a step of one launch does to the launches: it is at pc now, and the
\* others are where they were.
Moved(p, pc) ==
  /\ DOMAIN launch' = Slot
  /\ launch'[p].pc = pc
  /\ pc # "idle" /\ pc # "retry" => launch'[p].kind = launch[p].kind
  /\ \A q \in Slot : q # p => launch'[q] = launch[q]

LEMMA SlotNames == Slot \cap Names = {}
  BY EngineGateAssumption DEF Names

LEMMA GotoMoves ==
  ASSUME Shape, NEW p \in Slot, NEW pc, NEW out, Goto(p, pc, out)
  PROVE  Moved(p, pc)
  BY DEF Shape, Goto, Moved

LEMMA EndsMoves ==
  ASSUME Shape, NEW p \in Slot, NEW out, Ends(p, out)
  PROVE  Moved(p, "report")
  BY GotoMoves DEF Ends

LEMMA LeavesMoves ==
  ASSUME Shape, NEW p \in Slot, Leaves(p)
  PROVE  Moved(p, "idle")
  BY DEF Shape, Leaves, Moved, NoLaunch

USE DEF None, NoLock, Gone, Torn

\* While a launcher holds the lock, no engine does.
LEMMA LauncherAlone ==
  ASSUME IInv, NEW p \in Slot, launch[p].pc \in {"spawn", "handoff"}
  PROVE  /\ lock = [by |-> p, holder |-> "launcher"]
         /\ handed = {}
<1>1. lock = [by |-> p, holder |-> "launcher"]
  BY DEF IInv, LauncherHolds
<1>2. lock.holder # "engine"
  BY <1>1
<1>3. ASSUME NEW q \in handed PROVE FALSE
  <2>1. lock = [by |-> q, holder |-> "engine"]
    BY DEF IInv, OneEngine
  <2> QED  BY <2>1, <1>2
<1> QED  BY <1>1, <1>3

LEMMA InitInv == Init => IInv
<1> SUFFICES ASSUME Init PROVE IInv
  OBVIOUS
<1>1. DOMAIN launch = Slot /\ \A p \in Slot : launch[p].pc = "idle"
  BY DEF Init, NoLaunch
<1>2. /\ engine = [p \in Slot |-> None] /\ handed = {} /\ lock = NoLock
      /\ journal = None
  BY DEF Init
<1>3. QED
  BY <1>1, <1>2, SlotNames
     DEF IInv, Shape, HandedRuns, OneEngine, LauncherHolds, EngineBehind,
         JournalNames, Names

LEMMA LaunchInv ==
  ASSUME IInv, NEW p \in Slot, LaunchStep(p) PROVE IInv'
<1> USE SlotNames
    DEF Names, IInv, Shape, HandedRuns, OneEngine, LauncherHolds, EngineBehind,
        JournalNames, Moved
<1>0. Shape
  OBVIOUS
<1>1. CASE CheckRetry(p)
  <2>1. Moved(p, "claim") \/ Moved(p, "report")
    BY <1>0, <1>1, GotoMoves, EndsMoves DEF CheckRetry
  <2>2. journal # p  BY <1>1 DEF CheckRetry
  <2>3. UNCHANGED <<engine, handed, lock, journal>> /\ launch[p].pc = "retry"
    BY <1>1 DEF CheckRetry
  <2> QED  BY <2>1, <2>2, <2>3
<1>2. CASE Claim(p)
  <2>1. Moved(p, "spawn")  BY <1>0, <1>2, GotoMoves DEF Claim
  <2>2. journal # p  BY <1>2 DEF Claim
  <2>3. /\ lock = NoLock /\ lock' = [by |-> p, holder |-> "launcher"]
        /\ UNCHANGED <<engine, handed, journal>> /\ engine[p] = None
    BY <1>2 DEF Claim
  <2>4. handed = {} /\ \A q \in Slot : launch[q].pc \notin {"spawn", "handoff", "journal", "ready"}
    BY <2>3
  <2> QED  BY <2>1, <2>2, <2>3, <2>4
<1>3. CASE ClaimRefused(p)
  <2>1. Moved(p, "report")  BY <1>0, <1>3, EndsMoves DEF ClaimRefused
  <2> QED  BY <1>3, <2>1 DEF ClaimRefused
<1>4. CASE ClaimAbandoned(p)
  <2>1. Moved(p, "report")  BY <1>0, <1>4, EndsMoves DEF ClaimAbandoned
  <2>2. handed = {} /\ \A q \in Slot : launch[q].pc \notin {"spawn", "handoff"}
    BY <1>4 DEF ClaimAbandoned, Abandoned
  <2> QED  BY <1>4, <2>1, <2>2 DEF ClaimAbandoned, JournalUnlocked
<1>5. CASE Spawn(p)
  <2>1. lock = [by |-> p, holder |-> "launcher"] /\ handed = {}
    BY <1>5, LauncherAlone DEF Spawn
  <2>2. CASE engine' = [engine EXCEPT ![p] = "running"] /\ Goto(p, "handoff", "")
             /\ UNCHANGED lock
    <3>1. Moved(p, "handoff")  BY <1>0, <2>2, GotoMoves
    <3> QED  BY <1>5, <2>1, <2>2, <3>1 DEF Spawn
  <2>3. CASE lock' = ReleaseBy(p) /\ Ends(p, "engine-start-failed") /\ UNCHANGED engine
    <3>1. Moved(p, "report")  BY <1>0, <2>3, EndsMoves
    <3> QED  BY <1>5, <2>1, <2>3, <3>1 DEF Spawn, ReleaseBy
  <2> QED  BY <1>5, <2>2, <2>3 DEF Spawn
<1>6. CASE Handoff(p)
  <2>1. lock = [by |-> p, holder |-> "launcher"] /\ handed = {}
    BY <1>6, LauncherAlone DEF Handoff
  <2>2. /\ lock' = [by |-> p, holder |-> "engine"]
        /\ handed' = {p}
        /\ UNCHANGED <<engine, journal>>
    BY <1>6, <2>1 DEF Handoff
  <2>3. journal \notin Slot /\ journal # "vanished" /\ engine[p] = "running"
    BY <1>6, <2>1 DEF Handoff
  <2>4. CASE launch[p].kind = "serve"
    <3>1. Moved(p, "journal")
      BY <1>0, <1>6, <2>4, GotoMoves DEF Handoff
    <3> QED  BY <2>1, <2>2, <2>3, <2>4, <3>1
  <2>5. CASE launch[p].kind # "serve"
    <3>1. Moved(p, "running")
      BY <1>0, <1>6, <2>5, GotoMoves DEF Handoff
    <3> QED  BY <2>1, <2>2, <2>3, <3>1
  <2> QED  BY <2>4, <2>5
<1>7. CASE HandoffFails(p)
  <2>1. Moved(p, "report")  BY <1>0, <1>7, EndsMoves DEF HandoffFails
  <2>2. lock = [by |-> p, holder |-> "launcher"] /\ handed = {}
    BY <1>7, LauncherAlone DEF HandoffFails
  <2> QED  BY <1>7, <2>1, <2>2 DEF HandoffFails, ReleaseBy
<1>8. CASE EngineEnds(p)
  <2>1. Moved(p, "release")  BY <1>0, <1>8, GotoMoves DEF EngineEnds
  <2>2. journal # p  BY <1>8 DEF EngineEnds
  <2> QED  BY <1>8, <2>1, <2>2 DEF EngineEnds
<1>9. CASE EngineTimeout(p)
  <2>1. Moved(p, "release")  BY <1>0, <1>9, GotoMoves DEF EngineTimeout
  <2>2. journal # p  BY <1>9 DEF EngineTimeout
  <2>3. PICK left \in {None, "loose"} :
          /\ engine' = [engine EXCEPT ![p] = left]
          /\ handed' = IF left = None THEN handed \ {p} ELSE handed
    BY <1>9 DEF EngineTimeout
  <2> QED  BY <1>9, <2>1, <2>2, <2>3 DEF EngineTimeout
<1>10. CASE Release(p)
  <2>1. Moved(p, "report")  BY <1>0, <1>10, GotoMoves DEF Release
  <2> QED  BY <1>10, <2>1 DEF Release, ReleaseBy
<1>11. CASE Report(p)
  <2>1. Moved(p, "idle")  BY <1>0, <1>11, LeavesMoves DEF Report
  <2> QED  BY <1>11, <2>1 DEF Report
<1>12. CASE WriteJournal(p)
  <2>1. Moved(p, "ready")  BY <1>0, <1>12, GotoMoves DEF WriteJournal
  <2>2. /\ p \in handed /\ engine[p] = "running" /\ launch[p].kind = "serve"
        /\ UNCHANGED <<engine, handed, lock>> /\ journal' = p
    BY <1>12 DEF WriteJournal
  <2> QED  BY <2>1, <2>2
<1>13. CASE WriteJournalFails(p)
  <2>1. Moved(p, "report")  BY <1>0, <1>13, EndsMoves DEF WriteJournalFails
  <2>2. journal # p  BY <1>13 DEF WriteJournalFails
  <2> QED  BY <1>13, <2>1, <2>2 DEF WriteJournalFails, ReleaseBy
<1>14. CASE Ready(p)
  <2>1. Moved(p, "idle")  BY <1>0, <1>14, LeavesMoves DEF Ready
  <2> QED  BY <1>14, <2>1 DEF Ready
<1>15. CASE NotReady(p)
  <2>1. Moved(p, "report")  BY <1>0, <1>15, EndsMoves DEF NotReady
  <2> QED  BY <1>15, <2>1 DEF NotReady, ReleaseBy
<1>16. CASE StartupExit(p)
  <2>1. Moved(p, "idle")  BY <1>0, <1>16, LeavesMoves DEF StartupExit
  <2> QED  BY <1>16, <2>1 DEF StartupExit
<1>17. QED
  BY <1>1, <1>2, <1>3, <1>4, <1>5, <1>6, <1>7, <1>8, <1>9, <1>10, <1>11, <1>12,
     <1>13, <1>14, <1>15, <1>16 DEF LaunchStep

LEMMA OtherInv ==
  ASSUME IInv, NEW p \in Slot,
         \/ Stop(p) \/ Vanishes(p) \/ Kill(p) \/ OrphanEnds(p) \/ Stage(p)
         \/ \E kind \in Kind : Command(p, kind)
  PROVE IInv'
<1> USE SlotNames
    DEF Names, IInv, Shape, HandedRuns, OneEngine, LauncherHolds, EngineBehind,
        JournalNames, Moved
<1>0. Shape
  OBVIOUS
<1>1. CASE Stop(p)
  <2>1. Moved(p, "report") \/ UNCHANGED launch
    BY <1>0, <1>1, EndsMoves DEF Stop
  <2>2. journal' \in {None, "mismatch"} /\ lock' = NoLock
        /\ engine' = [engine EXCEPT ![p] = None]
    BY <1>1 DEF Stop
  <2>3. lock = [by |-> p, holder |-> "engine"] /\ handed' = {}
    BY <1>1 DEF Stop
  <2>4. launch'[p].pc \in {"report", "idle"}
    BY <1>0, <1>1, EndsMoves DEF Stop
  <2>5. \A q \in Slot : launch[q].pc \in {"spawn", "handoff", "journal", "ready"} => q = p
    BY <2>3
  <2> QED  BY <2>1, <2>2, <2>3, <2>4, <2>5
<1>2. CASE Vanishes(p)
  BY <1>2 DEF Vanishes
<1>3. CASE Kill(p)
  <2>1. Moved(p, "idle")  BY <1>0, <1>3, LeavesMoves DEF Kill
  <2>2. CASE launch[p].pc \in {"spawn", "handoff"}
    <3>1. lock = [by |-> p, holder |-> "launcher"] /\ handed = {}
      BY <2>2, LauncherAlone
    <3>2. lock' = Gone
      BY <1>3, <2>2, <3>1 DEF Kill
    <3> QED  BY <1>3, <2>1, <2>2, <3>1, <3>2 DEF Kill
  <2>3. CASE launch[p].pc = "claim"
    <3>1. \/ lock' = lock
          \/ lock = NoLock /\ lock' = Torn
          \/ lock.by = p /\ p \notin handed /\ lock' = Gone
      BY <1>3, <2>3 DEF Kill, Abandoned
    <3> QED  BY <1>3, <2>1, <2>3, <3>1 DEF Kill
  <2>4. CASE launch[p].pc \notin {"spawn", "handoff", "claim"}
    <3>1. lock' = lock \/ (lock.by = p /\ p \notin handed /\ lock' = Gone)
      BY <1>3, <2>4 DEF Kill
    <3> QED  BY <1>3, <2>1, <2>4, <3>1 DEF Kill
  <2> QED  BY <2>2, <2>3, <2>4
<1>4. CASE OrphanEnds(p)
  <2>1. journal # p  BY <1>4 DEF OrphanEnds
  <2>2. engine' = [engine EXCEPT ![p] = None] /\ handed' = handed \ {p}
        /\ UNCHANGED <<launch, journal>>
    BY <1>4 DEF OrphanEnds
  <2>3. lock' = lock \/ (lock.by = p /\ lock' = Gone)
    BY <1>4 DEF OrphanEnds
  <2>4. lock.by = p => launch[p].pc \notin {"spawn", "handoff"}
    BY <1>4 DEF OrphanEnds
  <2> QED  BY <1>4, <2>1, <2>2, <2>3, <2>4 DEF OrphanEnds
<1>5. CASE Stage(p)
  <2>1. Moved(p, "retry")
    BY <1>5 DEF Stage
  <2> QED  BY <1>5, <2>1 DEF Stage
<1>6. CASE \E kind \in Kind : Command(p, kind)
  <2>1. PICK kind \in Kind : Command(p, kind)
    BY <1>6
  <2>2. Moved(p, "retry")
    BY <2>1 DEF Command
  <2>3. /\ journal # p /\ p \notin handed /\ engine[p] = None
        /\ UNCHANGED <<engine, handed, lock, journal>>
    BY <2>1 DEF Command
  <2> QED  BY <2>2, <2>3
<1> QED  BY <1>1, <1>2, <1>3, <1>4, <1>5, <1>6

\* The steps of the ledger and the edits touch neither engine nor lock; an
\* abandoned server is settled while the lock still names nobody who lives.
LEMMA StepInv == IInv /\ [Next]_vars => IInv'
<1> SUFFICES ASSUME IInv, [Next]_vars PROVE IInv'
  OBVIOUS
<1> DEFINE Core == <<launch, engine, handed, lock, journal>>
<1>1. ASSUME UNCHANGED Core PROVE IInv'
  BY <1>1 DEF IInv, Shape, HandedRuns, OneEngine, LauncherHolds, EngineBehind,
              JournalNames
<1>2. CASE Reconcile
  <2>1. lock.by = "gone" /\ lock' = NoLock /\ journal' = None
        /\ UNCHANGED <<launch, engine, handed>>
    BY <1>2 DEF Reconcile, IInv, JournalNames
  <2>2. handed = {} /\ \A p \in Slot : launch[p].pc \notin {"spawn", "handoff"}
    BY <2>1, SlotNames DEF Names, IInv, Shape, OneEngine, LauncherHolds
  <2> QED
    BY <2>1, <2>2, SlotNames
       DEF Names, IInv, Shape, HandedRuns, OneEngine, LauncherHolds, EngineBehind,
           JournalNames
<1>3. CASE VerifyStep
  <2>1. CASE \E p \in Slot : Stage(p)
    BY <2>1, OtherInv
  <2>2. CASE Static \/ VerifyEnd \/ Record \/ Publish \/ Resolve \/ Settle \/ RecordFails
    BY <1>1, <2>2 DEF Static, VerifyEnd, Record, Publish, Resolve, Settle, RecordFails
  <2> QED  BY <1>3, <2>1, <2>2 DEF VerifyStep
<1>4. CASE KillVerify \/ Edit
  BY <1>1, <1>4 DEF KillVerify, Edit
<1>5. CASE \E scope \in {"limited", "complete"}, confirmed \in BOOLEAN :
             VerifyStart(scope, confirmed)
  BY <1>1, <1>5 DEF VerifyStart
<1>6. CASE \E p \in Slot : LaunchStep(p)
  BY <1>6, LaunchInv
<1>7. CASE \E p \in Slot : \/ Stop(p) \/ Vanishes(p) \/ Kill(p) \/ OrphanEnds(p)
                           \/ \E kind \in {"tool", "serve"} : Command(p, kind)
  BY <1>7, OtherInv DEF Kind
<1>8. CASE UNCHANGED vars
  BY <1>1, <1>8 DEF vars
<1> QED  BY <1>2, <1>3, <1>4, <1>5, <1>6, <1>7, <1>8 DEF Next

\* OneEngine holds of every behaviour, whatever the number of launches under way
\* and whatever is killed or fails (start_godot, run_godot, acquire_engine_lock,
\* gdls.py).
THEOREM EngineHoldsItsLock == Spec => []OneEngine
<1>1. IInv => OneEngine
  BY DEF IInv
<1> QED  BY InitInv, StepInv, <1>1, PTL DEF Spec

-----------------------------------------------------------------------------
(* Who may hold the lock, and which launch is the gate's.                  *)

LaunchRecord ==
  [pc : {"idle", "retry", "claim", "spawn", "handoff", "running",
         "release", "report", "journal", "ready"},
   kind : Kind, out : Outcome]

\* A launch that holds the lock is under way, or it left its engine behind.
LockHeld ==
  \A p \in Slot : lock.by = p =>
    \/ launch[p].pc \in {"spawn", "handoff", "running", "release", "journal", "ready"}
    \/ engine[p] # None

HInv == /\ launch \in [Slot -> LaunchRecord]
        /\ journal \in Slot \cup {None, "vanished", "mismatch"}
        /\ LockHeld

LEMMA GotoType ==
  ASSUME HInv, NEW p \in Slot, NEW pc, NEW out \in Outcome, Goto(p, pc, out),
         pc \in {"idle", "retry", "claim", "spawn", "handoff", "running",
                 "release", "report", "journal", "ready"}
  PROVE  launch' \in [Slot -> LaunchRecord]
  BY DEF HInv, Goto, LaunchRecord

LEMMA EndsType ==
  ASSUME HInv, NEW p \in Slot, NEW out \in Outcome, Ends(p, out)
  PROVE  launch' \in [Slot -> LaunchRecord]
  BY GotoType DEF Ends

LEMMA LeavesType ==
  ASSUME HInv, NEW p \in Slot, Leaves(p)
  PROVE  launch' \in [Slot -> LaunchRecord]
  BY DEF HInv, Leaves, LaunchRecord, NoLaunch, Kind, Outcome

LEMMA LaunchTyped ==
  ASSUME HInv, NEW p \in Slot, LaunchStep(p)
  PROVE  launch' \in [Slot -> LaunchRecord]
<1>1. /\ "" \in Outcome /\ "passed" \in Outcome /\ "failed" \in Outcome
      /\ "native-crash" \in Outcome /\ "engine-timeout" \in Outcome
      /\ "engine-start-failed" \in Outcome /\ "concurrent-engine-launch" \in Outcome
      /\ "native-retry-required" \in Outcome
  BY DEF Outcome, Persisted
<1>2. launch[p].out \in Outcome
  BY DEF HInv, LaunchRecord
<1>3. CASE CheckRetry(p) \/ Claim(p) \/ ClaimRefused(p) \/ ClaimAbandoned(p) \/ Spawn(p)
  BY <1>1, <1>3, GotoType, EndsType
  DEF CheckRetry, Claim, ClaimRefused, ClaimAbandoned, Spawn
<1>4. CASE Handoff(p)
  <2>1. CASE launch[p].kind = "serve"
    BY <1>1, <1>4, <2>1, GotoType DEF Handoff
  <2>2. CASE launch[p].kind # "serve"
    BY <1>1, <1>4, <2>2, GotoType DEF Handoff
  <2>. QED
    BY <2>1, <2>2
<1>5. CASE HandoffFails(p) \/ EngineTimeout(p) \/ Release(p)
  BY <1>1, <1>2, <1>5, GotoType, EndsType DEF HandoffFails, EngineTimeout, Release
<1>6. CASE EngineEnds(p)
  <2>1. PICK out \in {"passed", "failed", "native-crash"} : Goto(p, "release", out)
    BY <1>6 DEF EngineEnds
  <2>. QED
    BY <1>1, <2>1, GotoType
<1>7. CASE Report(p) \/ Ready(p) \/ StartupExit(p)
  BY <1>7, LeavesType DEF Report, Ready, StartupExit
<1>8. CASE WriteJournal(p) \/ WriteJournalFails(p) \/ NotReady(p)
  BY <1>1, <1>8, GotoType, EndsType DEF WriteJournal, WriteJournalFails, NotReady
<1>. QED
  BY <1>3, <1>4, <1>5, <1>6, <1>7, <1>8 DEF LaunchStep

LEMMA HeldLaunch ==
  ASSUME IInv, HInv, NEW p \in Slot, LaunchStep(p) PROVE HInv'
<1> USE SlotNames DEF Names, HInv, LockHeld, Moved
<1>0. /\ Shape /\ HInv /\ launch' \in [Slot -> LaunchRecord]
      /\ engine \in [Slot -> {None, "running", "server", "orphan", "loose"}]
      /\ launch[p].pc \in {"retry", "claim", "spawn"} => engine[p] = None
  BY LaunchTyped DEF IInv, Shape, EngineBehind
<1>1. CASE CheckRetry(p) \/ ClaimRefused(p)
  <2>1. Moved(p, "claim") \/ Moved(p, "report")
    BY <1>0, <1>1, GotoMoves, EndsMoves DEF CheckRetry, ClaimRefused
  <2>2. /\ UNCHANGED <<engine, lock, journal>> /\ launch[p].pc \in {"retry", "claim"}
    BY <1>1 DEF CheckRetry, ClaimRefused
  <2>. QED
    BY <1>0, <2>1, <2>2
<1>2. CASE Claim(p) \/ ClaimAbandoned(p)
  <2>1. Moved(p, "spawn") \/ lock' = NoLock
    BY <1>0, <1>2, GotoMoves DEF Claim, ClaimAbandoned
  <2>2. /\ UNCHANGED engine /\ lock' \in {NoLock, [by |-> p, holder |-> "launcher"]}
        /\ journal' \in Slot \cup {None, "vanished", "mismatch"}
    BY <1>2 DEF Claim, ClaimAbandoned, JournalUnlocked
  <2>. QED
    BY <1>0, <2>1, <2>2
<1>3. CASE Spawn(p)
  <2>1. Moved(p, "handoff") \/ (Moved(p, "report") /\ lock' = ReleaseBy(p))
    BY <1>0, <1>3, GotoMoves, EndsMoves DEF Spawn
  <2>2. /\ UNCHANGED journal
        /\ lock' = lock \/ lock' = ReleaseBy(p)
        /\ \A q \in Slot : q # p => engine'[q] = engine[q]
    BY <1>0, <1>3 DEF Spawn
  <2>. QED
    BY <1>0, <2>1, <2>2 DEF ReleaseBy
<1>4. CASE Handoff(p)
  <2>1. Moved(p, "journal") \/ Moved(p, "running")
    BY <1>0, <1>4, GotoMoves DEF Handoff
  <2>. QED
    BY <1>0, <1>4, <2>1 DEF Handoff
<1>5. CASE EngineEnds(p) \/ EngineTimeout(p)
  <2>1. Moved(p, "release")
    BY <1>0, <1>5, GotoMoves DEF EngineEnds, EngineTimeout
  <2>2. /\ UNCHANGED <<journal, lock>>
        /\ \A q \in Slot : q # p => engine'[q] = engine[q]
    BY <1>0, <1>5 DEF EngineEnds, EngineTimeout
  <2>. QED
    BY <1>0, <2>1, <2>2
<1>6. CASE Release(p)
  <2>1. Moved(p, "report")
    BY <1>0, <1>6, GotoMoves DEF Release
  <2>. QED
    BY <1>0, <1>6, <2>1 DEF Release, ReleaseBy
<1>7. CASE Report(p)
  <2>1. Moved(p, "idle")
    BY <1>0, <1>7, LeavesMoves DEF Report
  <2>. QED
    BY <1>0, <1>7, <2>1 DEF Report
<1>8. CASE WriteJournal(p)
  <2>1. Moved(p, "ready")
    BY <1>0, <1>8, GotoMoves DEF WriteJournal
  <2>. QED
    BY <1>0, <1>8, <2>1 DEF WriteJournal
<1>9. CASE HandoffFails(p) \/ WriteJournalFails(p) \/ NotReady(p)
  <2>1. Moved(p, "report")
    BY <1>0, <1>9, EndsMoves DEF HandoffFails, WriteJournalFails, NotReady
  <2>2. /\ lock' = ReleaseBy(p) \/ (lock' = lock /\ engine'[p] = "loose")
        /\ \A q \in Slot : q # p => engine'[q] = engine[q]
        /\ journal' \in {journal, None}
    BY <1>0, <1>9 DEF HandoffFails, WriteJournalFails, NotReady
  <2>. QED
    BY <1>0, <2>1, <2>2 DEF ReleaseBy
<1>10. CASE Ready(p)
  <2>1. Moved(p, "idle")
    BY <1>0, <1>10, LeavesMoves DEF Ready
  <2>. QED
    BY <1>0, <1>10, <2>1 DEF Ready
<1>11. CASE StartupExit(p)
  BY <1>0, <1>11 DEF StartupExit
<1>. QED
  BY <1>1, <1>2, <1>3, <1>4, <1>5, <1>6, <1>7, <1>8, <1>9, <1>10, <1>11 DEF LaunchStep

LEMMA HeldOther ==
  ASSUME IInv, HInv, NEW p \in Slot,
         \/ Stop(p) \/ Vanishes(p) \/ Kill(p) \/ OrphanEnds(p) \/ Stage(p)
         \/ \E kind \in Kind : Command(p, kind)
  PROVE  HInv'
<1> USE SlotNames DEF Names, HInv, LockHeld, Moved
<1>0. /\ Shape /\ HInv /\ "native-crash" \in Outcome /\ "" \in Outcome /\ "gate" \in Kind
      /\ engine \in [Slot -> {None, "running", "server", "orphan", "loose"}]
      /\ launch[p].pc \in {"retry", "claim", "spawn"} => engine[p] = None
  BY DEF IInv, Shape, EngineBehind, Outcome, Persisted, Kind
<1>1. CASE Stop(p)
  <2>1. launch' \in [Slot -> LaunchRecord]
    BY <1>0, <1>1, EndsType DEF Stop
  <2>. QED
    BY <1>0, <1>1, <2>1 DEF Stop
<1>2. CASE Vanishes(p) \/ OrphanEnds(p)
  <2>1. /\ UNCHANGED launch /\ lock' = IF lock.by = p THEN Gone ELSE lock
        /\ \A q \in Slot : q # p => engine'[q] = engine[q]
        /\ journal' \in {journal, "vanished"}
    BY <1>0, <1>2 DEF Vanishes, OrphanEnds
  <2>. QED
    BY <1>0, <2>1
<1>3. CASE Kill(p)
  <2>1. Moved(p, "idle") /\ launch' \in [Slot -> LaunchRecord]
    BY <1>0, <1>3, LeavesMoves, LeavesType DEF Kill
  <2>2. /\ UNCHANGED journal
        /\ \A q \in Slot : engine'[q] = None <=> engine[q] = None
    BY <1>0, <1>3 DEF Kill
  <2>3. CASE launch[p].pc = "claim"
    <3>1. lock' = lock \/ lock' = Torn \/ lock' = Gone
      BY <1>3, <2>3 DEF Kill
    <3>2. lock.by # p
      BY <1>0, <2>3
    <3>3. \A q \in Slot : lock'.by = q => lock.by = q
      BY <3>1
    <3>4. LockHeld'
      BY <2>1, <2>2, <3>2, <3>3
    <3>. QED
      BY <2>1, <2>2, <3>4
  <2>4. CASE launch[p].pc # "claim"
    <3>1. lock' = IF lock.by = p /\ (lock.holder = "launcher" \/ engine[p] = None)
                  THEN Gone ELSE lock
      BY <1>3, <2>4 DEF Kill
    <3>. QED
      BY <1>0, <2>1, <2>2, <3>1
  <2>. QED
    BY <2>3, <2>4
<1>4. CASE Stage(p)
  <2>1. Moved(p, "retry") /\ launch' \in [Slot -> LaunchRecord]
    BY <1>0, <1>4 DEF Stage, LaunchRecord
  <2>. QED
    BY <1>0, <1>4, <2>1 DEF Stage
<1>5. ASSUME NEW kind \in Kind, Command(p, kind) PROVE HInv'
  <2>1. Moved(p, "retry") /\ launch' \in [Slot -> LaunchRecord]
    BY <1>0, <1>5 DEF Command, LaunchRecord
  <2>. QED
    BY <1>0, <1>5, <2>1 DEF Command
<1>. QED
  BY <1>1, <1>2, <1>3, <1>4, <1>5

LEMMA HeldStep == IInv /\ HInv /\ [Next]_vars => HInv'
<1> SUFFICES ASSUME IInv, HInv, [Next]_vars PROVE HInv'
  OBVIOUS
<1>1. ASSUME UNCHANGED <<launch, engine, lock, journal>> PROVE HInv'
  BY <1>1 DEF HInv, LockHeld
<1>2. CASE Reconcile
  BY <1>2, SlotNames DEF Reconcile, HInv, LockHeld, Names
<1>3. CASE Static \/ VerifyEnd \/ Record \/ Publish \/ Resolve \/ Settle \/ RecordFails
  BY <1>1, <1>3 DEF Static, VerifyEnd, Record, Publish, Resolve, Settle, RecordFails
<1>4. CASE KillVerify \/ Edit
  BY <1>1, <1>4 DEF KillVerify, Edit
<1>5. CASE \E scope \in {"limited", "complete"}, confirmed \in BOOLEAN :
             VerifyStart(scope, confirmed)
  BY <1>1, <1>5 DEF VerifyStart
<1>6. CASE \E p \in Slot : LaunchStep(p)
  BY <1>6, HeldLaunch
<1>7. CASE \E p \in Slot : \/ Stop(p) \/ Vanishes(p) \/ Kill(p) \/ OrphanEnds(p) \/ Stage(p)
                           \/ \E kind \in {"tool", "serve"} : Command(p, kind)
  BY <1>7, HeldOther DEF Kind
<1>8. CASE UNCHANGED vars
  BY <1>1, <1>8 DEF vars
<1>. QED
  BY <1>2, <1>3, <1>4, <1>5, <1>6, <1>7, <1>8 DEF Next, VerifyStep

-----------------------------------------------------------------------------
(* The warning, the grant, the verification and the pointer.               *)

VerifyRecord ==
  [pc : {"idle", "static", "engine", "end", "record", "pointer", "resolve", "resolved"},
   scope : {"limited", "complete"}, start : {0} \cup Identity, confirmed : BOOLEAN,
   repo : Nat, stage : Nat, slot : Slot \cup {None}, failed : BOOLEAN,
   native : BOOLEAN, ok : BOOLEAN, trusted : BOOLEAN, touched : BOOLEAN,
   status : {"fresh", "failed", "insufficient"}, open : BOOLEAN, proved : BOOLEAN,
   sound : BOOLEAN]

LedgerType ==
  /\ verify \in VerifyRecord
  /\ pointer \in [status : {None, "fresh", "failed", "insufficient"}, open : BOOLEAN,
                  complete : BOOLEAN, repo : Nat, sound : BOOLEAN]
  /\ warning \in {0} \cup Identity
  /\ grant \in {0} \cup Identity
  /\ repo \in Nat
  /\ verify.slot # None => verify.pc = "engine"

\* The launch the verification waits for is the only one of the gate.
GateLaunch ==
  \A p \in Slot : /\ launch[p].kind = "gate" <=> verify.slot = p
                  /\ launch[p].pc = "idle" => launch[p].kind # "gate"

\* What the verification knows of the failures recorded since it began: the warning
\* is no longer the one it started against, and never again becomes it.
Granted ==
  grant # 0 => /\ verify.pc \in {"static", "engine", "end"}
               /\ verify.confirmed /\ verify.start = grant
RunSees ==
  /\ verify.pc \in {"static", "engine", "end", "record"} /\ "run" \in disturbed =>
       warning # verify.start
  /\ verify.pc \in {"pointer", "resolve"} /\ "run" \in disturbed =>
       (verify.proved \/ verify.status = "fresh" => warning # verify.start)
  /\ verify.pc = "resolved" /\ "run" \in disturbed => warning # 0
ProofComplete ==
  /\ verify.pc \in {"pointer", "resolve", "resolved"} /\ verify.proved =>
       Complete /\ verify.trusted /\ ~verify.native /\ verify.open /\ verify.start # 0
  /\ verify.pc = "pointer" /\ verify.status = "fresh" => verify.start = 0
  /\ verify.pc \in {"resolve", "resolved"} => verify.proved /\ pointer.open
PointerWarns ==
  pointer.status = "fresh" /\ "pointer" \in disturbed => pointer.open \/ warning # 0

Ledger == Granted /\ RunSees /\ ProofComplete /\ PointerWarns

\* A new warning differs from the present one and from the one a run began with.
LEMMA PersistFresh ==
  ASSUME LedgerType, Persist
  PROVE  /\ warning' \in Identity /\ warning' # 0
         /\ warning' # warning /\ warning' # verify.start
         /\ "pointer" \in disturbed'
<1>1. verify.start \in {0} \cup Identity /\ warning \in {0} \cup Identity
  BY DEF LedgerType, VerifyRecord
<1>2. \E i \in Identity : i \notin {warning, verify.start}
  BY <1>1 DEF Identity
<1>3. warning' \in Identity /\ warning' \notin {warning, verify.start}
  BY <1>2 DEF Persist, Fresh
<1>4. "pointer" \in disturbed'
  BY DEF Persist
<1>. QED
  BY <1>3, <1>4 DEF Identity

\* A failure may be recorded, or not; the verification goes on where it is.
GoesOn ==
  /\ UNCHANGED <<pointer, grant>>
  /\ UNCHANGED <<warning, disturbed>> \/ Persist
  /\ verify'.pc = verify.pc /\ verify'.start = verify.start
  /\ verify'.confirmed = verify.confirmed /\ verify'.proved = verify.proved
  /\ verify'.status = verify.status /\ verify'.open = verify.open
  /\ verify'.scope = verify.scope /\ verify'.trusted = verify.trusted
  /\ verify.pc # "engine" => verify'.native = verify.native

LEMMA LedgerGoesOn == ASSUME LedgerType, Ledger, GoesOn PROVE Ledger'
<1>1. CASE UNCHANGED <<warning, disturbed>>
  BY <1>1
  DEF GoesOn, Ledger, Granted, RunSees, ProofComplete, PointerWarns, Complete
<1>2. CASE Persist
  <2>1. /\ warning' # 0 /\ warning' # verify.start
    BY <1>2, PersistFresh
  <2>. QED
    BY <2>1
    DEF GoesOn, Ledger, Granted, RunSees, ProofComplete, PointerWarns, Complete
<1>. QED
  BY <1>1, <1>2 DEF GoesOn

LEMMA LedgerFinish ==
  ASSUME LedgerType, Ledger, Finish, UNCHANGED pointer,
         UNCHANGED <<warning, disturbed>> \/ Persist
  PROVE  Ledger'
<1>1. verify'.pc = "idle" /\ grant' = 0
  BY DEF Finish, NoVerify
<1>2. PointerWarns'
  <2>1. CASE Persist
    BY <2>1, PersistFresh DEF PointerWarns
  <2>2. CASE UNCHANGED <<warning, disturbed>>
    BY <2>2 DEF Ledger, PointerWarns
  <2>. QED
    BY <2>1, <2>2
<1>. QED
  BY <1>1, <1>2 DEF Ledger, Granted, RunSees, ProofComplete

LEMMA FinishType ==
  ASSUME LedgerType, Finish, UNCHANGED <<pointer, repo>>,
         UNCHANGED warning \/ Persist
  PROVE  LedgerType'
<1>1. NoVerify \in VerifyRecord /\ NoVerify.slot = None
  BY DEF NoVerify, VerifyRecord
<1>2. warning' \in {0} \cup Identity
  BY PersistFresh DEF LedgerType
<1>. QED
  BY <1>1, <1>2 DEF Finish, LedgerType

\* What a launch does to the ledger.
LEMMA LaunchLedger ==
  ASSUME LedgerType, GateLaunch, NEW p \in Slot, LaunchStep(p)
  PROVE  /\ UNCHANGED <<grant, pointer, repo>>
         /\ UNCHANGED <<warning, disturbed>> \/ Persist
         /\ UNCHANGED verify \/ Report(p)
<1>. QED
  BY DEF LaunchStep, CheckRetry, Claim, ClaimRefused, ClaimAbandoned, Spawn, Handoff,
         HandoffFails, EngineEnds, EngineTimeout, Release, Report, WriteJournal,
         WriteJournalFails, Ready, NotReady, StartupExit

\* The gate's launch has ended: the stage is over, failed or not.
LEMMA ReportLedger ==
  ASSUME LedgerType, NEW p \in Slot, Report(p)
  PROVE  /\ verify' \in VerifyRecord /\ verify'.pc = verify.pc
         /\ verify'.start = verify.start /\ verify'.confirmed = verify.confirmed
         /\ verify'.proved = verify.proved /\ verify'.status = verify.status
         /\ verify'.open = verify.open /\ verify'.scope = verify.scope
         /\ verify'.trusted = verify.trusted
         /\ verify.pc # "engine" => verify'.native = verify.native
         /\ verify'.slot = IF verify.slot = p THEN None ELSE verify.slot
<1>0. verify \in VerifyRecord
  BY DEF LedgerType
<1>1. CASE verify.slot = p
  <2>1. verify.pc = "engine"
    BY <1>1, SlotNames DEF LedgerType, Names
  <2>2. PICK s \in Nat, f \in BOOLEAN, n \in BOOLEAN :
          verify' = [verify EXCEPT !.slot = None, !.stage = s, !.failed = f, !.native = n]
    <3>1. verify.stage + 1 \in Nat
      BY <1>0 DEF VerifyRecord
    <3>. QED
      BY <1>0, <1>1, <3>1 DEF Report, VerifyRecord
  <2>. QED
    BY <1>0, <1>1, <2>1, <2>2 DEF VerifyRecord
<1>2. CASE verify.slot # p
  BY <1>0, <1>2 DEF Report
<1>. QED
  BY <1>1, <1>2

LEMMA LaunchKeepsLedger ==
  ASSUME LedgerType, GateLaunch, Ledger, NEW p \in Slot, LaunchStep(p)
  PROVE  LedgerType' /\ Ledger'
<1>1. /\ UNCHANGED <<grant, pointer, repo>>
      /\ UNCHANGED <<warning, disturbed>> \/ Persist
      /\ UNCHANGED verify \/ Report(p)
  BY LaunchLedger
<1>2. GoesOn
  BY <1>1, ReportLedger DEF GoesOn
<1>3. warning' \in {0} \cup Identity
  BY <1>1, PersistFresh DEF LedgerType
<1>4. verify' \in VerifyRecord /\ (verify'.slot # None => verify'.pc = "engine")
  BY <1>1, ReportLedger DEF LedgerType
<1>. QED
  BY <1>1, <1>2, <1>3, <1>4, LedgerGoesOn DEF LedgerType

\* What everything else around the launches does to it.
LEMMA OtherKeepsLedger ==
  ASSUME LedgerType, GateLaunch, Ledger, NEW p \in Slot,
         \/ Stop(p) \/ Vanishes(p) \/ Kill(p) \/ OrphanEnds(p) \/ Stage(p)
         \/ \E kind \in Kind : Command(p, kind)
  PROVE  LedgerType' /\ Ledger'
<1>0. verify \in VerifyRecord
  BY DEF LedgerType
<1>1. CASE UNCHANGED <<grant, pointer, repo, verify, warning, disturbed>>
  BY <1>1, LedgerGoesOn DEF GoesOn, LedgerType
<1>2. CASE Stage(p)
  <2>1. verify.pc = "engine" /\ verify' = [verify EXCEPT !.slot = p]
        /\ UNCHANGED <<grant, pointer, repo, warning, disturbed>>
    BY <1>2 DEF Stage
  <2>2. /\ verify' \in VerifyRecord /\ verify'.pc = "engine"
        /\ verify'.start = verify.start /\ verify'.confirmed = verify.confirmed
        /\ verify'.proved = verify.proved /\ verify'.status = verify.status
        /\ verify'.open = verify.open /\ verify'.scope = verify.scope
        /\ verify'.trusted = verify.trusted
    BY <1>0, <2>1 DEF VerifyRecord
  <2>. QED
    BY <2>1, <2>2, LedgerGoesOn DEF GoesOn, LedgerType
<1>3. CASE Kill(p)
  <2>1. /\ UNCHANGED <<pointer, repo>>
        /\ UNCHANGED <<warning, disturbed>> \/ Persist
    BY <1>3 DEF Kill
  <2>2. CASE UNCHANGED <<verify, grant>>
    <3>1. warning' \in {0} \cup Identity
      BY <2>1, PersistFresh DEF LedgerType
    <3>. QED
      BY <2>1, <2>2, <3>1, LedgerGoesOn DEF GoesOn, LedgerType
  <2>3. CASE Finish
    BY <2>1, <2>3, FinishType, LedgerFinish
  <2>4. CASE /\ verify.slot = p /\ UNCHANGED grant
             /\ verify' = [verify EXCEPT !.pc = "end", !.slot = None, !.failed = TRUE]
    <3>1. verify.pc = "engine"
      BY <2>4, SlotNames DEF LedgerType, Names
    <3>2. /\ verify' \in VerifyRecord /\ verify'.pc = "end" /\ verify'.slot = None
          /\ verify'.start = verify.start /\ verify'.confirmed = verify.confirmed
      BY <1>0, <2>4 DEF VerifyRecord
    <3>3. warning' \in {0} \cup Identity
      BY <2>1, PersistFresh DEF LedgerType
    <3>4. Granted' /\ RunSees' /\ PointerWarns'
      <4>1. CASE UNCHANGED <<warning, disturbed>>
        BY <2>1, <2>4, <3>1, <3>2, <4>1 DEF Ledger, Granted, RunSees, PointerWarns
      <4>2. CASE Persist
        <5>1. warning' # 0 /\ warning' # verify.start
          BY <4>2, PersistFresh
        <5>. QED
          BY <2>1, <2>4, <3>1, <3>2, <5>1 DEF Ledger, Granted, RunSees, PointerWarns
      <4>. QED
        BY <2>1, <4>1, <4>2
    <3>. QED
      BY <2>1, <2>4, <3>2, <3>3, <3>4 DEF LedgerType, Ledger, ProofComplete
  <2>. QED
    BY <1>3, <2>2, <2>3, <2>4 DEF Kill
<1>. QED
  BY <1>1, <1>2, <1>3 DEF Stop, Vanishes, OrphanEnds, Command

LEMMA RunKeepsLedger ==
  ASSUME LedgerType, Ledger,
         \/ Static \/ VerifyEnd \/ Record \/ Publish \/ Resolve \/ Settle \/ RecordFails
         \/ KillVerify \/ Edit \/ Reconcile
         \/ \E scope \in {"limited", "complete"}, confirmed \in BOOLEAN :
              VerifyStart(scope, confirmed)
  PROVE  LedgerType' /\ Ledger'
<1>0. /\ verify \in VerifyRecord /\ NoVerify \in VerifyRecord /\ NoVerify.slot = None
      /\ warning \in {0} \cup Identity /\ repo \in Nat
  BY DEF LedgerType, NoVerify, VerifyRecord
<1>1. ASSUME NEW scope \in {"limited", "complete"}, NEW confirmed \in BOOLEAN,
             VerifyStart(scope, confirmed)
      PROVE  LedgerType' /\ Ledger'
  <2>1. /\ verify' = [NoVerify EXCEPT !.pc = "static", !.scope = scope, !.repo = repo,
                                     !.start = warning, !.confirmed = confirmed]
        /\ grant' = IF confirmed THEN warning ELSE 0
        /\ disturbed' = disturbed \ {"run"}
        /\ UNCHANGED <<warning, pointer, repo>>
        /\ confirmed => warning # 0
    BY <1>1 DEF VerifyStart
  <2>2. /\ verify' \in VerifyRecord /\ verify'.pc = "static" /\ verify'.slot = None
        /\ verify'.start = warning /\ verify'.confirmed = confirmed
    BY <1>0, <2>1 DEF VerifyRecord
  <2>. QED
    BY <1>0, <2>1, <2>2
    DEF LedgerType, Ledger, Granted, RunSees, ProofComplete, PointerWarns
<1>2. CASE Static
  <2>1. PICK f \in BOOLEAN, pc \in {"engine", "end"} :
          verify' = [verify EXCEPT !.failed = f, !.pc = pc]
    BY <1>2 DEF Static
  <2>2. /\ verify.pc = "static" /\ UNCHANGED <<warning, grant, pointer, repo, disturbed>>
    BY <1>2 DEF Static
  <2>3. /\ verify' \in VerifyRecord /\ verify'.pc \in {"engine", "end"}
        /\ verify'.slot = verify.slot
        /\ verify'.start = verify.start /\ verify'.confirmed = verify.confirmed
    BY <1>0, <2>1 DEF VerifyRecord
  <2>. QED
    BY <1>0, <2>2, <2>3
    DEF LedgerType, Ledger, Granted, RunSees, ProofComplete, PointerWarns
<1>3. CASE VerifyEnd
  <2>1. /\ verify.pc \in {"end", "engine"} /\ grant' = 0
        /\ UNCHANGED <<warning, pointer, repo, disturbed>>
    BY <1>3 DEF VerifyEnd
  <2>2. PICK t \in BOOLEAN, o \in BOOLEAN, s \in BOOLEAN :
          verify' = [NoVerify EXCEPT !.pc = "record", !.scope = verify.scope,
                       !.start = verify.start, !.native = verify.native,
                       !.trusted = t, !.ok = o, !.repo = verify.repo, !.sound = s]
    BY <1>0, <1>3 DEF VerifyEnd, VerifyRecord
  <2>3. /\ verify' \in VerifyRecord /\ verify'.pc = "record" /\ verify'.slot = None
        /\ verify'.start = verify.start
    <3>. DEFINE n == verify.native
                c == verify.scope
                b == verify.start
                r == verify.repo
    <3>1. /\ n \in BOOLEAN /\ c \in {"limited", "complete"}
          /\ b \in {0} \cup Identity /\ r \in Nat
      BY <1>0 DEF VerifyRecord
    <3>2. verify' = [pc |-> "record", scope |-> c, start |-> b, confirmed |-> FALSE,
             repo |-> r, stage |-> 0, slot |-> None, failed |-> FALSE,
             native |-> n, ok |-> o, trusted |-> t,
             touched |-> FALSE, status |-> "failed", open |-> FALSE,
             proved |-> FALSE, sound |-> s]
      BY <2>2 DEF NoVerify
    <3>. HIDE DEF n, c, b, r
    <3>3. verify' \in VerifyRecord
      BY <3>1, <3>2 DEF VerifyRecord
    <3>. QED
      BY <3>2, <3>3 DEF b
  <2>. QED
    BY <1>0, <2>1, <2>3
    DEF LedgerType, Ledger, Granted, RunSees, ProofComplete, PointerWarns
<1>4. CASE Finish /\ UNCHANGED <<pointer, repo, warning, disturbed>>
  BY <1>4, FinishType, LedgerFinish
<1>5. CASE Record /\ ~Preserved
  <2>1. /\ verify.pc = "record" /\ UNCHANGED <<warning, grant, pointer, repo, disturbed>>
        /\ verify' = [verify EXCEPT !.pc = "pointer", !.status = Status,
                        !.open = Unresolved, !.proved = Proved,
                        !.start = warning, !.repo = repo,
                        !.sound = verify.sound /\ repo = verify.repo]
    BY <1>5 DEF Record
  <2>2. /\ Status \in {"fresh", "failed", "insufficient"}
        /\ Unresolved \in BOOLEAN /\ Proved \in BOOLEAN
        /\ (verify.sound /\ repo = verify.repo) \in BOOLEAN
    BY DEF Status, Unresolved, Proved
  <2>3. /\ verify' \in VerifyRecord /\ verify'.pc = "pointer"
        /\ verify'.slot = verify.slot /\ verify'.start = warning
        /\ verify'.status = Status /\ verify'.open = Unresolved
        /\ verify'.proved = Proved /\ verify'.scope = verify.scope
        /\ verify'.trusted = verify.trusted /\ verify'.native = verify.native
    <3>1. PICK t \in {"fresh", "failed", "insufficient"}, u \in BOOLEAN,
               d \in BOOLEAN, s \in BOOLEAN :
            /\ verify' = [verify EXCEPT !.pc = "pointer", !.status = t, !.open = u,
                            !.proved = d, !.start = warning, !.repo = repo, !.sound = s]
            /\ t = Status /\ u = Unresolved /\ d = Proved
      BY <2>1, <2>2
    <3>2. verify' \in VerifyRecord
      <4>1. [verify EXCEPT !.pc = "pointer", !.status = t, !.open = u] \in VerifyRecord
        BY <1>0 DEF VerifyRecord
      <4>2. [[verify EXCEPT !.pc = "pointer", !.status = t, !.open = u]
               EXCEPT !.proved = d, !.start = warning, !.repo = repo, !.sound = s]
                 \in VerifyRecord
        BY <1>0, <4>1 DEF VerifyRecord
      <4>. QED
        BY <3>1, <4>2
    <3>. QED
      BY <1>0, <3>1, <3>2 DEF VerifyRecord
  <2>4. Status = "fresh" => verify.start = warning /\ warning = 0
    BY DEF Status, WarningStable, Unresolved
  <2>5. Proved => /\ verify.start = warning /\ warning # 0 /\ Complete
                  /\ verify.trusted /\ ~verify.native /\ Unresolved
    BY DEF Proved, WarningStable, Unresolved
  <2>6. "run" \in disturbed => warning # verify.start
    BY <2>1 DEF Ledger, RunSees
  <2>7. LedgerType' /\ Granted' /\ PointerWarns'
    BY <2>1, <2>3 DEF LedgerType, Ledger, Granted, PointerWarns
  <2>8. RunSees'
    BY <2>1, <2>3, <2>4, <2>5, <2>6 DEF RunSees
  <2>9. ProofComplete'
    BY <2>1, <2>3, <2>4, <2>5 DEF ProofComplete, Complete
  <2>. QED
    BY <2>7, <2>8, <2>9 DEF Ledger
<1>6. CASE Publish /\ verify.proved
  <2>1. /\ verify.pc = "pointer" /\ UNCHANGED <<warning, grant, repo>>
        /\ WritePointer(verify.status, verify.open)
        /\ verify' = [verify EXCEPT !.pc = "resolve"]
    BY <1>6 DEF Publish
  <2>2. /\ verify' \in VerifyRecord /\ verify'.pc = "resolve"
        /\ verify'.slot = verify.slot /\ verify'.start = verify.start
        /\ verify'.proved = verify.proved /\ verify'.scope = verify.scope
        /\ verify'.trusted = verify.trusted /\ verify'.native = verify.native
        /\ verify'.status = verify.status /\ verify'.open = verify.open
    BY <1>0, <2>1 DEF VerifyRecord
  <2>3. /\ verify.open /\ pointer'.open = verify.open /\ pointer'.status = verify.status
        /\ "run" \in disturbed' <=> "run" \in disturbed
    BY <1>6, <2>1 DEF WritePointer, Ledger, ProofComplete
  <2>4. pointer' \in [status : {None, "fresh", "failed", "insufficient"}, open : BOOLEAN,
                      complete : BOOLEAN, repo : Nat, sound : BOOLEAN]
    BY <1>0, <2>1 DEF WritePointer, VerifyRecord, Complete
  <2>5. LedgerType'
    BY <2>1, <2>2, <2>4 DEF LedgerType
  <2>6. Granted' /\ PointerWarns' /\ RunSees'
    BY <2>1, <2>2, <2>3 DEF Ledger, Granted, PointerWarns, RunSees
  <2>7. ProofComplete'
    BY <1>6, <2>1, <2>2, <2>3 DEF Ledger, ProofComplete, Complete
  <2>. QED
    BY <2>5, <2>6, <2>7 DEF Ledger
<1>7. CASE Publish /\ ~verify.proved
  <2>1. /\ verify.pc = "pointer" /\ UNCHANGED <<warning, repo>> /\ Finish
        /\ WritePointer(verify.status, verify.open)
    BY <1>7 DEF Publish
  <2>2. pointer' \in [status : {None, "fresh", "failed", "insufficient"}, open : BOOLEAN,
                      complete : BOOLEAN, repo : Nat, sound : BOOLEAN]
    BY <1>0, <2>1 DEF WritePointer, VerifyRecord, Complete
  <2>3. verify'.pc = "idle" /\ grant' = 0 /\ verify' = NoVerify
    BY <2>1 DEF Finish, NoVerify
  <2>4. PointerWarns'
    <3>. SUFFICES ASSUME verify.status = "fresh", "pointer" \in disturbed'
                  PROVE  warning # 0
      BY <2>1 DEF PointerWarns, WritePointer
    <3>1. "run" \in disturbed
      BY <2>1 DEF WritePointer
    <3>2. warning # verify.start /\ verify.start = 0
      BY <2>1, <3>1 DEF Ledger, RunSees, ProofComplete
    <3>. QED
      BY <3>2
  <2>. QED
    BY <1>0, <2>1, <2>2, <2>3, <2>4
    DEF LedgerType, Ledger, Granted, RunSees, ProofComplete
<1>8. CASE Resolve /\ warning = verify.start
  <2>1. /\ verify.pc = "resolve" /\ warning' = 0 /\ grant' = 0
        /\ UNCHANGED <<pointer, repo, disturbed>>
        /\ verify' = [verify EXCEPT !.pc = "resolved"]
    BY <1>8 DEF Resolve
  <2>2. /\ verify' \in VerifyRecord /\ verify'.pc = "resolved"
        /\ verify'.slot = verify.slot /\ verify'.start = verify.start
        /\ verify'.proved = verify.proved /\ verify'.scope = verify.scope
        /\ verify'.trusted = verify.trusted /\ verify'.native = verify.native
        /\ verify'.open = verify.open
    BY <1>0, <2>1 DEF VerifyRecord
  <2>3. "run" \notin disturbed /\ pointer.open
    BY <1>8, <2>1 DEF Ledger, RunSees, ProofComplete
  <2>4. LedgerType' /\ Granted' /\ RunSees' /\ PointerWarns'
    BY <2>1, <2>2, <2>3 DEF LedgerType, Ledger, Granted, RunSees, PointerWarns
  <2>5. ProofComplete'
    BY <2>1, <2>2 DEF Ledger, ProofComplete, Complete
  <2>. QED
    BY <2>4, <2>5 DEF Ledger
<1>9. CASE Settle
  <2>1. /\ verify.pc = "resolved" /\ UNCHANGED <<warning, repo>> /\ Finish
        /\ WritePointer(IF verify.ok THEN "fresh" ELSE verify.status, FALSE)
    BY <1>9 DEF Settle
  <2>2. (IF verify.ok THEN "fresh" ELSE verify.status) \in {"fresh", "failed", "insufficient"}
    BY <1>0 DEF VerifyRecord
  <2>3. pointer' \in [status : {None, "fresh", "failed", "insufficient"}, open : BOOLEAN,
                      complete : BOOLEAN, repo : Nat, sound : BOOLEAN]
    BY <1>0, <2>1, <2>2 DEF WritePointer, VerifyRecord, Complete
  <2>4. verify'.pc = "idle" /\ grant' = 0 /\ verify' = NoVerify
    BY <2>1 DEF Finish, NoVerify
  <2>5. PointerWarns'
    BY <2>1 DEF PointerWarns, WritePointer, Ledger, RunSees
  <2>. QED
    BY <1>0, <2>1, <2>3, <2>4, <2>5
    DEF LedgerType, Ledger, Granted, RunSees, ProofComplete
<1>10. CASE Edit
  <2>1. /\ UNCHANGED <<warning, grant, pointer, disturbed>> /\ repo' \in Nat
        /\ \/ UNCHANGED verify
           \/ verify' = [verify EXCEPT !.touched = TRUE]
    BY <1>10, EngineGateAssumption DEF Edit
  <2>2. /\ verify' \in VerifyRecord /\ verify'.slot = verify.slot /\ GoesOn
    BY <1>0, <2>1 DEF VerifyRecord, GoesOn
  <2>. QED
    BY <2>1, <2>2, LedgerGoesOn DEF LedgerType, GoesOn
<1>11. CASE Reconcile
  <2>1. Persist /\ UNCHANGED <<grant, verify, pointer, repo>>
    BY <1>11 DEF Reconcile
  <2>. QED
    BY <2>1, PersistFresh, LedgerGoesOn DEF LedgerType, GoesOn
<1>. QED
  BY <1>1, <1>2, <1>3, <1>4, <1>5, <1>6, <1>7, <1>8, <1>9, <1>10, <1>11
  DEF Record, Publish, Resolve, RecordFails, KillVerify, Finish

-----------------------------------------------------------------------------
(* The launch of the gate.                                                 *)

\* A launch keeps its kind until it is over, and the gate's is over when the gate
\* has been told.
LEMMA LaunchKind ==
  ASSUME Shape, EngineBehind, NEW p \in Slot, LaunchStep(p)
  PROVE  /\ \A q \in Slot : q # p => launch'[q] = launch[q]
         /\ \/ launch'[p].pc # "idle" /\ launch'[p].kind = launch[p].kind
               /\ launch[p].pc # "idle"
            \/ Report(p) /\ launch'[p].kind = "tool"
            \/ launch[p].kind = "serve" /\ launch'[p].kind = "tool"
         /\ launch'[p].pc = "claim" => CheckRetry(p) \/ launch[p].pc = "claim"
<1>1. ASSUME NEW pc, pc # "idle", pc # "retry", Moved(p, pc), launch[p].pc # "idle",
             pc = "claim" => CheckRetry(p)
      PROVE  /\ \A q \in Slot : q # p => launch'[q] = launch[q]
             /\ launch'[p].pc # "idle" /\ launch'[p].kind = launch[p].kind
             /\ launch'[p].pc = "claim" => CheckRetry(p)
  BY <1>1 DEF Moved
<1>2. CASE CheckRetry(p) \/ ClaimRefused(p)
  <2>1. (Moved(p, "claim") /\ CheckRetry(p)) \/ Moved(p, "report")
    BY <1>2, GotoMoves, EndsMoves DEF CheckRetry, ClaimRefused
  <2>2. launch[p].pc # "idle"
    BY <1>2 DEF CheckRetry, ClaimRefused
  <2>. QED
    BY <1>1, <1>2, <2>1, <2>2
<1>3. CASE Claim(p) \/ ClaimAbandoned(p) \/ Spawn(p)
  <2>1. Moved(p, "spawn") \/ Moved(p, "report") \/ Moved(p, "handoff")
    BY <1>3, GotoMoves, EndsMoves DEF Claim, ClaimAbandoned, Spawn
  <2>2. launch[p].pc # "idle"
    BY <1>3 DEF Claim, ClaimAbandoned, Spawn
  <2>. QED
    BY <1>1, <1>3, <2>1, <2>2
<1>4. CASE Handoff(p) \/ HandoffFails(p) \/ EngineEnds(p) \/ EngineTimeout(p)
           \/ Release(p)
  <2>1. Moved(p, "journal") \/ Moved(p, "running") \/ Moved(p, "report")
        \/ Moved(p, "release")
    BY <1>4, GotoMoves, EndsMoves
    DEF Handoff, HandoffFails, EngineEnds, EngineTimeout, Release
  <2>2. launch[p].pc # "idle"
    BY <1>4 DEF Handoff, HandoffFails, EngineEnds, EngineTimeout, Release
  <2>. QED
    BY <1>1, <1>4, <2>1, <2>2
<1>5. CASE WriteJournal(p) \/ WriteJournalFails(p) \/ NotReady(p)
  <2>1. Moved(p, "ready") \/ Moved(p, "report")
    BY <1>5, GotoMoves, EndsMoves DEF WriteJournal, WriteJournalFails, NotReady
  <2>2. launch[p].pc # "idle"
    BY <1>5 DEF WriteJournal, WriteJournalFails, NotReady
  <2>. QED
    BY <1>1, <1>5, <2>1, <2>2
<1>6. CASE Report(p) \/ Ready(p) \/ StartupExit(p)
  <2>1. launch' = [launch EXCEPT ![p] = NoLaunch]
    BY <1>6 DEF Report, Ready, StartupExit, Leaves
  <2>2. Report(p) \/ launch[p].kind = "serve"
    BY <1>6 DEF Ready, StartupExit, EngineBehind
  <2>3. launch'[p].kind = "tool" /\ launch'[p].pc = "idle"
        /\ \A q \in Slot : q # p => launch'[q] = launch[q]
    BY <2>1 DEF Shape, NoLaunch
  <2>. QED
    BY <2>2, <2>3
<1>. QED
  BY <1>2, <1>3, <1>4, <1>5, <1>6 DEF LaunchStep

LEMMA GateLaunchStep ==
  ASSUME IInv, LedgerType, GateLaunch, [Next]_vars PROVE GateLaunch'
<1>0. /\ Shape /\ EngineBehind /\ verify \in VerifyRecord /\ None \notin Slot
      /\ NoVerify.slot = None
      /\ verify.slot # None => verify.pc = "engine"
  BY SlotNames DEF IInv, LedgerType, Names, NoVerify
<1>1. CASE UNCHANGED launch /\ verify'.slot = verify.slot
  BY <1>1 DEF GateLaunch
<1>2. ASSUME NEW p \in Slot, LaunchStep(p) PROVE GateLaunch'
  <2>1. verify'.slot = verify.slot \/ (Report(p) /\ verify.slot = p /\ verify'.slot = None)
    BY <1>2, LaunchLedger, ReportLedger
  <2>2. Report(p) /\ verify.slot = p => verify'.slot = None
    BY ReportLedger
  <2>3. /\ \A q \in Slot : q # p => launch'[q] = launch[q]
        /\ \/ launch'[p].pc # "idle" /\ launch'[p].kind = launch[p].kind
              /\ launch[p].pc # "idle"
           \/ Report(p) /\ launch'[p].kind = "tool"
           \/ launch[p].kind = "serve" /\ launch'[p].kind = "tool"
    BY <1>0, <1>2, LaunchKind
  <2>4. ASSUME Report(p) PROVE launch'[p].kind = "tool" /\ launch'[p].pc = "idle"
    <3>1. launch' = [launch EXCEPT ![p] = NoLaunch]
      BY <2>4 DEF Report, Leaves
    <3>2. DOMAIN launch = Slot
      BY <1>0 DEF Shape
    <3>3. launch'[p] = NoLaunch
      BY <3>1, <3>2
    <3>4. NoLaunch.kind = "tool" /\ NoLaunch.pc = "idle"
      BY DEF NoLaunch
    <3>. QED
      BY <3>3, <3>4
  <2>5. ASSUME NEW q \in Slot, q # p
        PROVE  /\ launch'[q].kind = "gate" <=> verify'.slot = q
               /\ launch'[q].pc = "idle" => launch'[q].kind # "gate"
    BY <1>0, <2>1, <2>3, <2>5 DEF GateLaunch
  <2>6. /\ launch'[p].kind = "gate" <=> verify'.slot = p
        /\ launch'[p].pc = "idle" => launch'[p].kind # "gate"
    <3>1. CASE Report(p)
      BY <1>0, <2>1, <2>2, <2>4, <3>1
    <3>2. CASE ~Report(p)
      BY <1>0, <2>1, <2>3, <3>2 DEF GateLaunch
    <3>. QED
      BY <3>1, <3>2
  <2>. QED
    BY <2>5, <2>6 DEF GateLaunch
<1>3. ASSUME NEW p \in Slot, Kill(p) PROVE GateLaunch'
  <2>1. /\ launch'[p].kind = "tool" /\ launch'[p].pc = "idle"
        /\ \A q \in Slot : q # p => launch'[q] = launch[q]
    BY <1>0, <1>3 DEF Kill, Leaves, NoLaunch, Shape
  <2>2. \/ verify.slot # p /\ verify'.slot = verify.slot
        \/ verify.slot = p /\ verify'.slot = None
    BY <1>0, <1>3 DEF Kill, Finish, VerifyRecord
  <2>. QED
    BY <1>0, <2>1, <2>2 DEF GateLaunch
<1>4. ASSUME NEW p \in Slot, Stop(p) PROVE GateLaunch'
  <2>1. \/ Moved(p, "report") /\ launch[p].pc = "ready"
        \/ UNCHANGED launch
    BY <1>0, <1>4, EndsMoves DEF Stop
  <2>2. UNCHANGED verify
    BY <1>4 DEF Stop
  <2>. QED
    BY <2>1, <2>2 DEF GateLaunch, Moved
<1>5. ASSUME NEW p \in Slot, Stage(p) PROVE GateLaunch'
  <2>1. verify.slot = None /\ verify'.slot = p
    BY <1>0, <1>5 DEF Stage, VerifyRecord
  <2>2. /\ launch'[p].kind = "gate" /\ launch'[p].pc = "retry"
        /\ \A q \in Slot : q # p => launch'[q] = launch[q]
    BY <1>0, <1>5 DEF Stage, Shape
  <2>. QED
    BY <1>0, <2>1, <2>2 DEF GateLaunch
<1>6. ASSUME NEW p \in Slot, NEW kind \in {"tool", "serve"}, Command(p, kind)
      PROVE  GateLaunch'
  <2>1. /\ launch'[p].kind = kind /\ launch'[p].pc = "retry" /\ launch[p].pc = "idle"
        /\ \A q \in Slot : q # p => launch'[q] = launch[q]
        /\ UNCHANGED verify
    BY <1>0, <1>6 DEF Command, Shape
  <2>. QED
    BY <2>1 DEF GateLaunch
<1>7. CASE \/ Static \/ VerifyEnd \/ Record \/ Publish \/ Resolve \/ Settle \/ RecordFails
           \/ KillVerify \/ Edit \/ Reconcile
           \/ \E scope \in {"limited", "complete"}, confirmed \in BOOLEAN :
                VerifyStart(scope, confirmed)
  <2>1. UNCHANGED launch
    BY <1>7 DEF Static, VerifyEnd, Record, Publish, Resolve, Settle, RecordFails,
                KillVerify, Edit, Reconcile, VerifyStart
  <2>2. CASE Static \/ Record \/ Publish \/ Resolve \/ Edit \/ Reconcile
    <3>1. verify'.slot = verify.slot \/ (Finish /\ verify.pc # "engine")
      BY <1>0, <2>2 DEF Static, Record, Publish, Resolve, Edit, Reconcile, VerifyRecord
    <3>. QED
      BY <1>0, <1>1, <2>1, <3>1 DEF Finish
  <2>3. CASE VerifyEnd \/ Settle \/ RecordFails \/ KillVerify
             \/ \E scope \in {"limited", "complete"}, confirmed \in BOOLEAN :
                  VerifyStart(scope, confirmed)
    <3>1. verify.slot = None
      BY <1>0, <2>3 DEF VerifyEnd, Settle, RecordFails, KillVerify, VerifyStart
    <3>2. verify'.slot = None
      <4>1. CASE Settle \/ RecordFails \/ KillVerify
        BY <1>0, <4>1 DEF Settle, RecordFails, KillVerify, Finish
      <4>2. CASE VerifyEnd
        BY <4>2 DEF VerifyEnd, NoVerify
      <4>3. ASSUME NEW scope \in {"limited", "complete"}, NEW confirmed \in BOOLEAN,
                   VerifyStart(scope, confirmed)
            PROVE  verify'.slot = None
        BY <4>3 DEF VerifyStart, NoVerify
      <4>. QED
        BY <2>3, <4>1, <4>2, <4>3
    <3>. QED
      BY <1>1, <2>1, <3>1, <3>2
  <2>. QED
    BY <1>7, <2>2, <2>3
<1>8. ASSUME NEW p \in Slot, Vanishes(p) \/ OrphanEnds(p) PROVE GateLaunch'
  BY <1>1, <1>8 DEF Vanishes, OrphanEnds
<1>. QED
  BY <1>1, <1>2, <1>3, <1>4, <1>5, <1>6, <1>7, <1>8 DEF Next, VerifyStep, vars

-----------------------------------------------------------------------------
(* The theorems                                                            *)

GateInv == IInv /\ HInv /\ LedgerType /\ GateLaunch /\ Ledger

LEMMA GateInit == Init => GateInv
<1>. SUFFICES ASSUME Init PROVE GateInv
  OBVIOUS
<1>1. /\ launch = [p \in Slot |-> NoLaunch] /\ lock = [by |-> None, holder |-> "launcher"]
      /\ journal = None /\ warning = 0 /\ grant = 0 /\ verify = NoVerify
      /\ pointer = [status |-> None, open |-> FALSE, complete |-> FALSE, repo |-> 0,
                    sound |-> FALSE]
      /\ repo = 0 /\ disturbed = {}
  BY DEF Init
<1>2. HInv
  BY <1>1, SlotNames
  DEF HInv, LockHeld, LaunchRecord, NoLaunch, Kind, Outcome, Names
<1>3. LedgerType
  BY <1>1 DEF LedgerType, NoVerify, VerifyRecord
<1>4. GateLaunch
  BY <1>1, SlotNames DEF GateLaunch, NoLaunch, NoVerify, Names
<1>5. Ledger
  BY <1>1 DEF Ledger, Granted, RunSees, ProofComplete, PointerWarns, NoVerify
<1>. QED
  BY <1>2, <1>3, <1>4, <1>5, InitInv DEF GateInv

LEMMA GateStep == GateInv /\ [Next]_vars => GateInv'
<1>. SUFFICES ASSUME GateInv, [Next]_vars PROVE GateInv'
  OBVIOUS
<1>1. IInv' /\ HInv' /\ GateLaunch'
  BY StepInv, HeldStep, GateLaunchStep DEF GateInv
<1>2. LedgerType' /\ Ledger'
  <2>1. CASE UNCHANGED vars
    <3>1. UNCHANGED <<warning, grant, verify, pointer, repo, disturbed>>
      BY <2>1 DEF vars
    <3>. QED
      BY <3>1, LedgerGoesOn DEF GateInv, GoesOn, LedgerType
  <2>2. ASSUME NEW p \in Slot, LaunchStep(p) PROVE LedgerType' /\ Ledger'
    BY <2>2, LaunchKeepsLedger DEF GateInv
  <2>3. ASSUME NEW p \in Slot,
               \/ Stop(p) \/ Vanishes(p) \/ Kill(p) \/ OrphanEnds(p) \/ Stage(p)
               \/ \E kind \in {"tool", "serve"} : Command(p, kind)
        PROVE  LedgerType' /\ Ledger'
    BY <2>3, OtherKeepsLedger DEF GateInv, Kind
  <2>. QED
    BY <2>1, <2>2, <2>3, RunKeepsLedger DEF GateInv, Next, VerifyStep
<1>. QED
  BY <1>1, <1>2 DEF GateInv

LEMMA GateHolds == Spec => []GateInv
BY GateInit, GateStep, PTL DEF Spec

\* The types of the engine gate, and that a lock, a journal or a verification only
\* ever names a launch or an engine that exists.
THEOREM Typing == Spec => []TypeOK
<1>1. ASSUME GateInv PROVE TypeOK
  <2>1. /\ IInv /\ HInv /\ LedgerType /\ GateLaunch
        /\ Shape /\ HandedRuns /\ OneEngine /\ JournalNames
    BY <1>1 DEF GateInv, IInv
  <2>2. /\ launch \in [Slot -> LaunchRecord]
        /\ engine \in [Slot -> {None, "running", "server", "orphan", "loose"}]
        /\ handed \subseteq {p \in Slot : engine[p] # None}
        /\ lock \in [by : Slot \cup {None, "gone", "torn"}, holder : {"launcher", "engine"}]
        /\ journal \in Slot \cup {None, "vanished", "mismatch"}
    BY <2>1 DEF HInv, Shape, HandedRuns
  <2>3. lock.by \in Slot => launch[lock.by].pc # "idle" \/ engine[lock.by] # None
    BY <2>1 DEF HInv, LockHeld
  <2>4. /\ journal \in Slot => lock = [by |-> journal, holder |-> "engine"]
        /\ journal = "vanished" => lock.by = "gone"
    BY <2>1 DEF JournalNames, OneEngine
  <2>5. /\ {warning, grant, verify.start} \subseteq {0} \cup Identity
        /\ pointer.status \in {None, "fresh", "failed", "insufficient"}
    BY <2>1 DEF LedgerType, VerifyRecord
  <2>6. verify.slot # None <=> \E p \in Slot : launch[p].kind = "gate"
    <3>1. verify.slot \in Slot \cup {None} /\ None \notin Slot
      BY <2>1, SlotNames DEF LedgerType, VerifyRecord, Names
    <3>. QED
      BY <2>1, <3>1 DEF GateLaunch
  <2>. QED
    BY <2>2, <2>3, <2>4, <2>5, <2>6 DEF TypeOK, LaunchRecord
<1>. QED
  BY <1>1, GateHolds, PTL

\* The project is not told "fresh" while an engine failure has been recorded since
\* the run behind the pointer began, whichever process recorded it and wherever the
\* run was between reading the warning and publishing its result.
THEOREM FreshIsUndisturbed == Spec => []FreshMeansUndisturbed
<1>1. GateInv => FreshMeansUndisturbed
  BY DEF GateInv, Ledger, PointerWarns, FreshMeansUndisturbed, View
<1>. QED
  BY <1>1, GateHolds, PTL

\* Only the compare-and-swap of a complete, trusted run without a native failure
\* clears a warning, and only the warning that run began with: another process has
\* recorded no failure since.
THEOREM WarningNeedsProof == Spec => ClearedByProof
<1>1. ASSUME GateInv, Next, warning # 0, warning' = 0
      PROVE  "run" \notin disturbed /\ Complete /\ verify.trusted /\ ~verify.native
  <2>0. LedgerType /\ GateLaunch /\ Ledger
    BY <1>1 DEF GateInv
  <2>1. ~Persist
    BY <1>1, <2>0, PersistFresh
  <2>2. ASSUME NEW p \in Slot, LaunchStep(p) PROVE FALSE
    BY <1>1, <2>0, <2>1, <2>2, LaunchLedger
  <2>3. Resolve
    BY <1>1, <2>1, <2>2
    DEF Next, VerifyStep, Static, VerifyEnd, Record, Publish, Settle, RecordFails, Stage,
        Reconcile, KillVerify, Edit, VerifyStart, Stop, Vanishes, Kill, OrphanEnds, Command
  <2>4. verify.pc = "resolve" /\ warning = verify.start
    BY <1>1, <2>3 DEF Resolve
  <2>. QED
    BY <2>0, <2>4 DEF Ledger, RunSees, ProofComplete
<1>2. GateInv /\ [Next]_vars =>
        [warning # 0 /\ warning' = 0 =>
           /\ "run" \notin disturbed
           /\ Complete /\ verify.trusted /\ ~verify.native]_vars
  BY <1>1
<1>. QED
  BY <1>2, GateHolds, PTL DEF Spec, ClearedByProof

\* A launch gets past an unresolved warning only as the gate of the one run that a
\* human confirmed for this very warning: a grant is used up with its run, and a
\* warning recorded meanwhile is another one.
THEOREM RetryIsConfirmed == Spec => ConfirmedRetry
<1>1. ASSUME GateInv, Next, NEW p \in Slot,
             launch[p].pc = "retry", launch'[p].pc = "claim", warning # 0
      PROVE  verify.slot = p /\ verify.confirmed /\ verify.start = warning
  <2>0. Shape /\ EngineBehind /\ GateLaunch /\ Ledger
    BY <1>1 DEF GateInv, IInv
  <2>1. CheckRetry(p)
    <3>1. ASSUME NEW q \in Slot, LaunchStep(q) PROVE CheckRetry(p)
      <4>1. q = p
        BY <1>1, <2>0, <3>1, LaunchKind
      <4>. QED
        BY <1>1, <2>0, <3>1, <4>1, LaunchKind
    <3>2. ASSUME NEW q \in Slot,
                 \/ Stop(q) \/ Vanishes(q) \/ Kill(q) \/ OrphanEnds(q) \/ Stage(q)
                 \/ \E kind \in {"tool", "serve"} : Command(q, kind)
          PROVE  FALSE
      <4>1. \/ UNCHANGED launch
            \/ \E l : launch' = [launch EXCEPT ![q] = l] /\ l.pc # "claim"
        <5>1. CASE Stop(q)
          BY <5>1 DEF Stop, Ends, Goto
        <5>2. CASE Vanishes(q) \/ OrphanEnds(q)
          BY <5>2 DEF Vanishes, OrphanEnds
        <5>3. CASE Kill(q)
          <6>1. launch' = [launch EXCEPT ![q] = NoLaunch]
            BY <5>3 DEF Kill, Leaves
          <6>2. NoLaunch.pc # "claim"
            BY DEF NoLaunch
          <6>. QED
            BY <6>1, <6>2
        <5>4. CASE Stage(q) \/ \E kind \in {"tool", "serve"} : Command(q, kind)
          BY <5>4 DEF Stage, Command
        <5>. QED
          BY <3>2, <5>1, <5>2, <5>3, <5>4
      <4>. QED
        BY <1>1, <2>0, <4>1 DEF Shape
    <3>3. ASSUME UNCHANGED launch PROVE FALSE
      BY <1>1, <3>3
    <3>. QED
      BY <1>1, <3>1, <3>2, <3>3
      DEF Next, VerifyStep, Static, VerifyEnd, Record, Publish, Resolve, Settle,
          RecordFails, Reconcile, KillVerify, Edit, VerifyStart
  <2>2. launch[p].kind = "gate" /\ grant = warning
    <3>1. ~Ends(p, "native-retry-required")
      BY <1>1, <2>0 DEF Ends, Goto, Shape
    <3>. QED
      BY <1>1, <2>1, <3>1 DEF CheckRetry, Consume
  <2>. QED
    BY <1>1, <2>0, <2>2 DEF GateLaunch, Ledger, Granted
<1>2. GateInv /\ [Next]_vars =>
        [\A p \in Slot : launch[p].pc = "retry" /\ launch'[p].pc = "claim" /\ warning # 0 =>
           verify.slot = p /\ verify.confirmed /\ verify.start = warning]_vars
  BY <1>1
<1>. QED
  BY <1>2, GateHolds, PTL DEF Spec, ConfirmedRetry

=============================================================================
