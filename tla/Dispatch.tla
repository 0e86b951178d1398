------------------------------- MODULE Dispatch -------------------------------
(***************************************************************************)
(* The board's dispatch of approved findings to workers: api_approve and   *)
(* RunManager of src/tools/board.py with the run workspace of              *)
(* src/tools/run_result.py.                                                *)
(*                                                                         *)
(* HTTP request threads approve findings and enqueue runs.  One run at a   *)
(* time is reserved, started by a thread of its own in a private clone of  *)
(* the project, watched by another until its worker exits, then finalized, *)
(* verified and fast-forwarded into the project.  The board may be killed  *)
(* between any two steps; its workers live on, and a restarted board works *)
(* from the run ledger and the accepted decisions on disk.                 *)
(***************************************************************************)
EXTENDS Integers, Sequences, FiniteSets, SequencesExt

CONSTANTS
  Finding,    \* findings with a reviewed dispatch artifact
  Request,    \* threads of the HTTP server that may handle an approval
  Board,      \* the board's main thread, which recovers at start
  Nobody,     \* no thread
  Text,       \* exact amended proposals a human may approve
  MaxRuns, MaxCrashes, MaxCommits, MaxDeaths    \* bounds

Run    == 1 .. MaxRuns
NoRun  == 0
Caller == Request \cup {Board}

ASSUME BoundAssumption ==
  MaxRuns \in Nat /\ MaxCrashes \in Nat /\ MaxCommits \in Nat /\ MaxDeaths \in Nat
ASSUME NameAssumption ==
  /\ Board \notin Request
  /\ Nobody \notin Caller
  /\ (Caller \cup {Nobody}) \cap Run = {}

\* What recover takes for in flight: LIVE_RUN_STATES without "queued".
Live     == {"starting", "running", "verifying"}
Terminal == {"completed", "blocked", "unverified", "failed"}
RetryOf  == Terminal \ {"completed"}
Status   == {"queued"} \cup Live \cup Terminal

\* _approval_decision_id: an exact text, and the run it retries, if any.
Key == [text : Text, retry : Run \cup {NoRun}]

\* A row of the run ledger: base is 0 until its workspace is recorded.
Row == [status : Status, finding : Finding, key : Key, base : Nat, pid : BOOLEAN]

\* "dispatched" stands for queued, working and done, "lost" for blocked, unverified
\* and failed: once a run is linked, its row tells them apart.
DecisionState == {"approved", "reserved", "dispatched", "lost"}
Decision == [key : Key, run : Run \cup {NoRun}, state : DecisionState]

VARIABLES
  accepted,  \* durable: the decision of every approved finding
  ledger,    \* durable: run ids in the order of their rows
  row,       \* durable: the row of every run in the ledger
  ended,     \* durable: run ids in the order they reached a terminal status
  clone,     \* durable: where the Git metadata of a run's workspace is
  head,      \* durable: number of commits on the project's branch
  merged,    \* durable: runs whose commit is on that branch
  made,      \* run ids handed out so far
  worker,    \* the worker process of every run
  up,        \* the board's process
  queue, active, halted,   \* RunManager._queue, _active and _halted
  start,     \* the thread of _start_reserved of every run
  watch,     \* the thread of _watch or _watch_orphan of every run
  verdict,   \* the result that thread has in hand
  adv,       \* the reservation _advance_queue is making
  ask,       \* the call of enqueue each thread is in
  dlock,     \* the thread that holds the decision lock across calls
  crashes, commits, deaths

decisions == <<accepted, made>>
rows      == <<ledger, row, ended>>
tree      == <<clone, head, merged>>
memory    == <<queue, active, halted>>
watcher   == <<watch, verdict>>
call      == <<ask, dlock>>
bounds    == <<crashes, commits, deaths>>
vars == <<accepted, ledger, row, ended, clone, head, merged, made, worker, up,
          queue, active, halted, start, watch, verdict, adv, ask, dlock,
          crashes, commits, deaths>>

StartStep == {"none", "prepare", "launch", "record", "fail", "release", "blame"}
WatchStep == {"none", "wait", "orphan", "finalize", "gate", "merge", "reread",
              "record", "release", "annotate", "advance"}

NoAsk == [at |-> "idle"]
Ask == [at : {"enqueue", "advance", "waiting", "annotate"}, finding : Finding,
        key : Key, run : Run, reply : Run, status : Status]
NoAdv == [at |-> "idle"]
Adv == [at : {"starting", "annotate"}, run : Run, by : Caller \cup Run]

Init ==
  /\ accepted = <<>>
  /\ ledger = <<>>
  /\ row = <<>>
  /\ ended = <<>>
  /\ clone = [r \in Run |-> "none"]
  /\ head = 1
  /\ merged = {}
  /\ made = 0
  /\ worker = [r \in Run |-> "none"]
  /\ up = "down"
  /\ queue = <<>>
  /\ active = NoRun
  /\ halted = FALSE
  /\ start = [r \in Run |-> "none"]
  /\ watch = [r \in Run |-> "none"]
  /\ verdict = [r \in Run |-> "none"]
  /\ adv = NoAdv
  /\ ask = [c \in Caller |-> NoAsk]
  /\ dlock = Nobody
  /\ crashes = 0
  /\ commits = 0
  /\ deaths = 0

-----------------------------------------------------------------------------
(* Helpers                                                                 *)

Put(f, x, v) == [y \in DOMAIN f \cup {x} |-> IF y = x THEN v ELSE f[y]]
Latest(s) == IF s = <<>> THEN NoRun ELSE s[Len(s)]

\* The runs of the ledger with a status in S, in the order of their rows.
Kept(S) ==
  LET kept[i \in 0 .. Len(ledger)] ==
        IF i = 0 THEN <<>>
        ELSE IF row[ledger[i]].status \in S
             THEN Append(kept[i - 1], ledger[i]) ELSE kept[i - 1]
  IN  kept
Rows(S) == Kept(S)[Len(ledger)]

\* A slip: an item that failed is taken again once the queue is released.
WaitsOrFailed(item) == item.status \in {"queued", "failed"}

Waits(item) == item.status = "queued"
FirstQueued == SelectInSeq(queue, Waits)

\* The item of a run in the queue, with a new status.
Marked(r, s) == [i \in DOMAIN queue |->
                   IF queue[i].run = r THEN [queue[i] EXCEPT !.status = s] ELSE queue[i]]

\* annotate_accepted: found by the finding's slug.
Annotate(f, r, s) ==
  accepted' = [accepted EXCEPT ![f].run = r, ![f].state = s]

DecisionLockFree(c) == dlock \in {Nobody, c}

DecisionStateOf(s) == IF s \in RetryOf THEN "lost" ELSE "dispatched"

\* enqueue returns: to api_approve, which annotates the decision with the entry
\* it got, or to the recovery of a reservation, which does not.
Answer(c, r, s) ==
  IF c = Board \/ dlock = c
  THEN /\ ask' = [ask EXCEPT ![c] = NoAsk]
       /\ dlock' = Nobody
  ELSE /\ ask' = [ask EXCEPT ![c] = [ask[c] EXCEPT !.at = "annotate",
                                                   !.reply = r, !.status = s]]
       /\ UNCHANGED dlock

CallEnqueue(c, f, k, r) ==
  ask' = [ask EXCEPT ![c] = [at |-> "enqueue", finding |-> f, key |-> k,
                             run |-> r, reply |-> r, status |-> "queued"]]

-----------------------------------------------------------------------------
(* api_approve                                                             *)

Decided(f) == f \in DOMAIN accepted

\* Under the decision lock: a first decision, the explicit retry of the linked
\* run, or an amendment of a decision that was never dispatched.  Anything else
\* is a replay of the same decision or a conflict.
Admissible(f, k) ==
  IF ~Decided(f) THEN k.retry = NoRun
  ELSE /\ accepted[f].key # k
       /\ \/ /\ k.retry \in DOMAIN row
             /\ accepted[f].run = k.retry
             /\ row[k.retry].status \in RetryOf
          \/ /\ accepted[f].run = NoRun /\ accepted[f].state = "approved"
             /\ k.retry \in {NoRun} \cup {r \in DOMAIN row : row[r].finding = f
                                                  /\ row[r].status \in RetryOf}

\* The decision and its reserved run id are durable before enqueue is called.
Approve(q, f, k) ==
  /\ up = "serving"
  /\ ask[q] = NoAsk
  /\ dlock = Nobody
  /\ Admissible(f, k)
  /\ made < MaxRuns
  /\ made' = made + 1
  /\ accepted' = Put(accepted, f, [key |-> k, run |-> made + 1, state |-> "reserved"])
  /\ CallEnqueue(q, f, k, made + 1)
  /\ UNCHANGED <<rows, tree, worker, up, memory, start, watcher, adv, dlock, bounds>>

\* The provider is manual, or the repository not ready: nothing is dispatched.
ApproveOnly(q, f, k) ==
  /\ up = "serving"
  /\ ask[q] = NoAsk
  /\ dlock = Nobody
  /\ Admissible(f, k)
  /\ accepted' = Put(accepted, f, [key |-> k, run |-> NoRun, state |-> "approved"])
  /\ UNCHANGED <<made, rows, tree, worker, up, memory, start, watcher, adv, call, bounds>>

\* A reservation that reached the disk without its run row.
Orphaned(f) ==
  /\ Decided(f)
  /\ accepted[f].state = "reserved"
  /\ accepted[f].run \notin DOMAIN row

\* The same approval is delivered again: the run is recreated from the reservation
\* while the decision lock is held.
Replay(q, f) ==
  /\ up = "serving"
  /\ ask[q] = NoAsk
  /\ dlock = Nobody
  /\ Orphaned(f)
  /\ dlock' = q
  /\ CallEnqueue(q, f, accepted[f].key, accepted[f].run)
  /\ UNCHANGED <<decisions, rows, tree, worker, up, memory, start, watcher, adv, bounds>>

\* The reservation is no longer safe to dispatch.
RefuseReservation(f) ==
  /\ Orphaned(f)
  /\ accepted' = [accepted EXCEPT ![f].state = "lost"]
  /\ UNCHANGED <<made, rows, tree, worker, up, memory, start, watcher, adv, call, bounds>>

ReplayRefused(q, f) ==
  /\ up = "serving"
  /\ ask[q] = NoAsk
  /\ dlock = Nobody
  /\ RefuseReservation(f)

\* The last statement of api_approve: it trusts the entry it was given.
AnnotateApproval(q) ==
  /\ ask[q].at = "annotate"
  /\ dlock = Nobody
  /\ Annotate(ask[q].finding, ask[q].reply, DecisionStateOf(ask[q].status))
  /\ ask' = [ask EXCEPT ![q] = NoAsk]
  /\ UNCHANGED <<made, rows, tree, worker, up, memory, start, watcher, adv, dlock, bounds>>

-----------------------------------------------------------------------------
(* RunManager.enqueue                                                      *)

\* A slip: only runs that still wait count as the same delivery.
SameDecisionWaiting(c) ==
  {r \in DOMAIN row : /\ row[r].finding = ask[c].finding /\ row[r].key = ask[c].key
                      /\ row[r].status = "queued"}

SameDecision(c) ==
  {r \in DOMAIN row : row[r].finding = ask[c].finding /\ row[r].key = ask[c].key}

\* The queue, or else the ledger, already has a run of this decision.
EnqueueDuplicate(c) ==
  /\ ask[c].at = "enqueue"
  /\ \E r \in SameDecision(c) :
       LET i == SelectInSeq(queue, LAMBDA item : item.run = r)
       IN Answer(c, r, IF i # 0 THEN queue[i].status ELSE row[r].status)
  /\ UNCHANGED <<decisions, rows, tree, worker, up, memory, start, watcher, adv, bounds>>

\* Under _lock: a retry goes before the first queued item and releases a halted
\* queue.  An idle queue is then advanced after the lock is released.
EnqueueNew(c) ==
  /\ ask[c].at = "enqueue"
  /\ SameDecision(c) = {}
  /\ LET a    == ask[c]
         item == [run |-> a.run, status |-> "queued"]
     IN /\ IF a.key.retry # NoRun /\ FirstQueued # 0
           THEN queue' = InsertAt(queue, FirstQueued, item)
           ELSE queue' = Append(queue, item)
        /\ halted' = (halted /\ a.key.retry = NoRun)
        /\ ledger' = Append(ledger, a.run)
        /\ row' = Put(row, a.run, [status |-> "queued", finding |-> a.finding,
                                   key |-> a.key, base |-> 0, pid |-> FALSE])
        /\ IF active = NoRun /\ ~halted'
           THEN /\ ask' = [ask EXCEPT ![c].at = "advance"]
                /\ UNCHANGED dlock
           ELSE Answer(c, a.run, "queued")
  /\ UNCHANGED <<decisions, ended, tree, worker, up, active, start, watcher, adv, bounds>>

-----------------------------------------------------------------------------
(* RunManager._advance_queue, called by enqueue, recover and the watchers  *)

Advances(c) == IF c \in Caller THEN ask[c].at = "advance" ELSE watch[c] = "advance"
CanReserve  == ~halted /\ active = NoRun /\ FirstQueued # 0

\* Under _lock: the first queued item becomes the active run.
Reserve(c) ==
  /\ Advances(c)
  /\ CanReserve
  /\ LET r == queue[FirstQueued].run
     IN /\ active' = r
        /\ queue' = Marked(r, "starting")
        /\ adv' = [at |-> "starting", run |-> r, by |-> c]
  /\ IF c \in Caller
     THEN ask' = [ask EXCEPT ![c].at = "waiting"] /\ UNCHANGED watch
     ELSE watch' = [watch EXCEPT ![c] = "none"] /\ UNCHANGED ask
  /\ UNCHANGED <<decisions, rows, tree, worker, up, halted, start, verdict, dlock, bounds>>

NothingToReserve(c) ==
  /\ Advances(c)
  /\ ~CanReserve
  /\ IF c \in Caller
     THEN Answer(c, ask[c].run, "queued") /\ UNCHANGED watch
     ELSE watch' = [watch EXCEPT ![c] = "none"] /\ UNCHANGED call
  /\ UNCHANGED <<decisions, rows, tree, worker, up, memory, start, verdict, adv, bounds>>

RecordStarting ==
  /\ adv.at = "starting"
  /\ row' = [row EXCEPT ![adv.run].status = "starting"]
  /\ adv' = [adv EXCEPT !.at = "annotate"]
  /\ UNCHANGED <<decisions, ledger, ended, tree, worker, up, memory, start, watcher,
                 call, bounds>>

\* The decision is annotated, the starting thread created, and the caller gets
\* the reserved run as its entry.
SpawnStarter ==
  /\ adv.at = "annotate"
  /\ DecisionLockFree(adv.by)
  /\ Annotate(row[adv.run].finding, adv.run, "dispatched")
  /\ start' = [start EXCEPT ![adv.run] = "prepare"]
  /\ adv' = NoAdv
  /\ IF adv.by \in Caller THEN Answer(adv.by, adv.run, "starting") ELSE UNCHANGED call
  /\ UNCHANGED <<made, rows, tree, worker, up, memory, watcher, bounds>>

-----------------------------------------------------------------------------
(* RunManager._start_reserved and spawn                                    *)

Finish(r, s) == /\ row' = [row EXCEPT ![r].status = s]
                /\ ended' = Append(ended, r)

\* A slip: a failure does not halt the queue.
ReleaseUnhalted(r, s) == /\ queue' = Marked(r, s)
                         /\ active' = IF active = r THEN NoRun ELSE active
                         /\ UNCHANGED halted

Release(r, s) == /\ queue' = Marked(r, s)
                 /\ active' = IF active = r THEN NoRun ELSE active
                 /\ halted' = (halted \/ s # "completed")

\* prepare_workspace: a clone of HEAD whose Git metadata is moved out of sight.
Prepare(r) ==
  /\ start[r] = "prepare"
  /\ clone' = [clone EXCEPT ![r] = "detached"]
  /\ row' = [row EXCEPT ![r].base = head]
  /\ start' = [start EXCEPT ![r] = "launch"]
  /\ UNCHANGED <<decisions, ledger, ended, head, merged, worker, up, memory, watcher,
                 adv, call, bounds>>

Launch(r) ==
  /\ start[r] = "launch"
  /\ worker' = [worker EXCEPT ![r] = "alive"]
  /\ start' = [start EXCEPT ![r] = "record"]
  /\ UNCHANGED <<decisions, rows, tree, up, memory, watcher, adv, call, bounds>>

\* The process id reaches the disk, the watching thread starts, and the item in
\* the queue, whose status only a duplicate delivery reports, is marked.
RecordRunning(r) ==
  /\ start[r] = "record"
  /\ row' = [row EXCEPT ![r].status = "running", ![r].pid = TRUE]
  /\ queue' = Marked(r, "running")
  /\ watch' = [watch EXCEPT ![r] = "wait"]
  /\ start' = [start EXCEPT ![r] = "none"]
  /\ UNCHANGED <<decisions, ledger, ended, tree, worker, up, active, halted, verdict,
                 adv, call, bounds>>

\* The provider, the prompt, the repository, the clone or Popen says no.
StartFails(r) ==
  /\ start[r] \in {"prepare", "launch"}
  /\ start' = [start EXCEPT ![r] = "fail"]
  /\ UNCHANGED <<decisions, rows, tree, worker, up, memory, watcher, adv, call, bounds>>

RecordStartFailure(r) ==
  /\ start[r] = "fail"
  /\ Finish(r, "failed")
  /\ start' = [start EXCEPT ![r] = "release"]
  /\ UNCHANGED <<decisions, ledger, tree, worker, up, memory, watcher, adv, call, bounds>>

ReleaseStartFailure(r) ==
  /\ start[r] = "release"
  /\ Release(r, "failed")
  /\ start' = [start EXCEPT ![r] = "blame"]
  /\ UNCHANGED <<decisions, rows, tree, worker, up, watcher, adv, call, bounds>>

AnnotateStartFailure(r) ==
  /\ start[r] = "blame"
  /\ dlock = Nobody
  /\ Annotate(row[r].finding, r, "lost")
  /\ start' = [start EXCEPT ![r] = "none"]
  /\ UNCHANGED <<made, rows, tree, worker, up, memory, watcher, adv, call, bounds>>

-----------------------------------------------------------------------------
(* RunManager._watch and _watch_orphan                                     *)

Decide(r, s) == /\ verdict' = [verdict EXCEPT ![r] = s]
                /\ watch' = [watch EXCEPT ![r] = "record"]

Step(r, label) == watch' = [watch EXCEPT ![r] = label] /\ UNCHANGED verdict

WorkerExits(r) ==
  /\ worker[r] = "alive"
  /\ worker' = [worker EXCEPT ![r] = "gone"]
  /\ UNCHANGED <<decisions, rows, tree, up, memory, start, watcher, adv, call, bounds>>

\* A slip: the slot is given up when the worker exits, before its result is known.
ExitZeroFrees(r) ==
  /\ watch[r] = "wait"
  /\ worker[r] = "gone"
  /\ row' = [row EXCEPT ![r].status = "verifying"]
  /\ active' = NoRun
  /\ Step(r, "finalize")
  /\ UNCHANGED <<decisions, ledger, ended, tree, worker, up, queue, halted, start, adv,
                 call, bounds>>

ExitZero(r) ==
  /\ watch[r] = "wait"
  /\ worker[r] = "gone"
  /\ row' = [row EXCEPT ![r].status = "verifying"]
  /\ Step(r, "finalize")
  /\ UNCHANGED <<decisions, ledger, ended, tree, worker, up, memory, start, adv, call, bounds>>

ExitNonZero(r) ==
  /\ watch[r] = "wait"
  /\ worker[r] = "gone"
  /\ Decide(r, "failed")
  /\ UNCHANGED <<decisions, rows, tree, worker, up, memory, start, adv, call, bounds>>

\* _wait_bounded: the owned process tree is terminated.
WorkerTimesOut(r) ==
  /\ watch[r] = "wait"
  /\ worker[r] = "alive"
  /\ worker' = [worker EXCEPT ![r] = "gone"]
  /\ Decide(r, "failed")
  /\ UNCHANGED <<decisions, rows, tree, up, memory, start, adv, call, bounds>>

\* A restarted board polls the recorded process id.
OrphanSeen(r) == row[r].pid /\ worker[r] = "alive"

OrphanGone(r) ==
  /\ watch[r] = "orphan"
  /\ ~OrphanSeen(r)
  /\ Step(r, "finalize")
  /\ UNCHANGED <<decisions, rows, tree, worker, up, memory, start, adv, call, bounds>>

\* A slip: an adopted process is polled without a limit.
OrphanPolls(r) ==
  /\ watch[r] = "orphan" /\ OrphanSeen(r)
  /\ UNCHANGED vars

\* The stale process is not killed.
OrphanTimesOut(r) ==
  /\ watch[r] = "orphan"
  /\ OrphanSeen(r)
  /\ Decide(r, "failed")
  /\ UNCHANGED <<decisions, rows, tree, worker, up, memory, start, adv, call, bounds>>

\* finalize_workspace: the metadata comes back and the edits become a commit.
Finalize(r) ==
  /\ watch[r] = "finalize"
  /\ row[r].base # 0
  /\ clone[r] = "detached"
  /\ clone' = [clone EXCEPT ![r] = "restored"]
  /\ Step(r, "gate") \/ Decide(r, "blocked") \/ Decide(r, "failed")
  /\ UNCHANGED <<decisions, rows, head, merged, worker, up, memory, start, adv, call, bounds>>

\* No workspace on record, or its metadata is already back.
FinalizeRefused(r) ==
  /\ watch[r] = "finalize"
  /\ \/ row[r].base = 0 /\ Decide(r, "unverified")
     \/ row[r].base # 0 /\ clone[r] = "restored" /\ Decide(r, "failed")
  /\ UNCHANGED <<decisions, rows, tree, worker, up, memory, start, adv, call, bounds>>

\* evaluate: the fresh gate run over the candidate.
Verify(r) ==
  /\ watch[r] = "gate"
  /\ Step(r, "merge") \/ Decide(r, "unverified")
  /\ UNCHANGED <<decisions, rows, tree, worker, up, memory, start, adv, call, bounds>>

\* integrate_workspace: a fast-forward of exactly the baseline.
Integrate(r) ==
  /\ watch[r] = "merge"
  /\ head = row[r].base
  /\ head' = head + 1
  /\ merged' = merged \cup {r}
  /\ Step(r, "reread")
  /\ UNCHANGED <<decisions, rows, clone, worker, up, memory, start, adv, call, bounds>>

\* The project moved or has other changes, or Git refuses.
IntegrateRefused(r) ==
  /\ watch[r] = "merge"
  /\ Decide(r, "blocked")
  /\ UNCHANGED <<decisions, rows, tree, worker, up, memory, start, adv, call, bounds>>

\* A Git command of the integration cannot run or takes too long: nothing catches
\* the exception, and the thread is gone.
WatcherDies(r) ==
  /\ watch[r] = "merge"
  /\ deaths < MaxDeaths
  /\ deaths' = deaths + 1
  /\ Step(r, "none")
  /\ UNCHANGED <<decisions, rows, tree, worker, up, memory, start, adv, call, crashes, commits>>

\* Its last check: HEAD is the integrated commit.
CheckIntegrated(r) ==
  /\ watch[r] = "reread"
  /\ Decide(r, IF head = row[r].base + 1 THEN "completed" ELSE "blocked")
  /\ UNCHANGED <<decisions, rows, tree, worker, up, memory, start, adv, call, bounds>>

\* A slip: the status of the ledger's older schema.
RecordResultLegacy(r) ==
  /\ watch[r] = "record"
  /\ Finish(r, IF verdict[r] = "completed" THEN "finished" ELSE verdict[r])
  /\ Step(r, "release")
  /\ UNCHANGED <<decisions, ledger, tree, worker, up, memory, start, adv, call, bounds>>

RecordResult(r) ==
  /\ watch[r] = "record"
  /\ Finish(r, verdict[r])
  /\ Step(r, "release")
  /\ UNCHANGED <<decisions, ledger, tree, worker, up, memory, start, adv, call, bounds>>

ReleaseResult(r) ==
  /\ watch[r] = "release"
  /\ Release(r, verdict[r])
  /\ Step(r, "annotate")
  /\ UNCHANGED <<decisions, rows, tree, worker, up, start, adv, call, bounds>>

AnnotateResult(r) ==
  /\ watch[r] = "annotate"
  /\ dlock = Nobody
  /\ Annotate(row[r].finding, r, DecisionStateOf(verdict[r]))
  /\ watch' = [watch EXCEPT ![r] = IF verdict[r] = "completed" THEN "advance" ELSE "none"]
  /\ verdict' = [verdict EXCEPT ![r] = "none"]
  /\ UNCHANGED <<made, rows, tree, worker, up, memory, start, adv, call, bounds>>

-----------------------------------------------------------------------------
(* Start, crash and the outside                                            *)

Items(s) == [i \in DOMAIN s |-> [run |-> s[i], status |-> row[s[i]].status]]

\* recover: from the rows alone, in the order they were appended.
Boot ==
  /\ up = "down"
  /\ up' = "booting"
  /\ LET live   == Rows(Live)
         queued == Rows({"queued"})
         last   == Latest(Rows(Terminal))
         first  == queued[1]
     IN IF live # <<>>
        THEN /\ queue' = Items(<<live[1]>> \o queued)
             /\ active' = live[1]
             /\ watch' = [watch EXCEPT ![live[1]] = "orphan"]
             /\ UNCHANGED <<halted, ask>>
        ELSE /\ queue' = Items(queued)
             /\ halted' = (/\ queued # <<>> /\ last # NoRun
                           /\ row[last].status # "completed"
                           /\ row[first].key.retry # last)
             /\ IF queued # <<>> /\ ~halted'
                THEN ask' = [ask EXCEPT ![Board] =
                       [at |-> "advance", finding |-> row[first].finding,
                        key |-> row[first].key, run |-> first, reply |-> first,
                        status |-> "queued"]]
                ELSE UNCHANGED ask
             /\ UNCHANGED <<active, watch>>
  /\ UNCHANGED <<decisions, rows, tree, worker, start, verdict, adv, dlock, bounds>>

\* recover_orphan_reservations, one reservation after the other.
BootReplay(f) ==
  /\ up = "booting"
  /\ ask[Board] = NoAsk
  /\ Orphaned(f)
  /\ CallEnqueue(Board, f, accepted[f].key, accepted[f].run)
  /\ UNCHANGED <<decisions, rows, tree, worker, up, memory, start, watcher, adv, dlock, bounds>>

BootRefused(f) ==
  /\ up = "booting"
  /\ ask[Board] = NoAsk
  /\ RefuseReservation(f)

Serve ==
  /\ up = "booting"
  /\ ask[Board] = NoAsk
  /\ \A f \in Finding : ~Orphaned(f)
  /\ up' = "serving"
  /\ UNCHANGED <<decisions, rows, tree, worker, memory, start, watcher, adv, call, bounds>>

\* The board is killed or stopped; its workers have sessions of their own.
Crash ==
  /\ up # "down"
  /\ crashes < MaxCrashes
  /\ crashes' = crashes + 1
  /\ up' = "down"
  /\ queue' = <<>>
  /\ active' = NoRun
  /\ halted' = FALSE
  /\ start' = [r \in Run |-> "none"]
  /\ watch' = [r \in Run |-> "none"]
  /\ verdict' = [r \in Run |-> "none"]
  /\ adv' = NoAdv
  /\ ask' = [c \in Caller |-> NoAsk]
  /\ dlock' = Nobody
  /\ UNCHANGED <<decisions, rows, tree, worker, commits, deaths>>

\* The developer commits to the project.
HumanCommit ==
  /\ commits < MaxCommits
  /\ commits' = commits + 1
  /\ head' = head + 1
  /\ UNCHANGED <<decisions, rows, clone, merged, worker, up, memory, start, watcher,
                 adv, call, crashes, deaths>>

-----------------------------------------------------------------------------
Starter(r) ==
  \/ Prepare(r) \/ Launch(r) \/ RecordRunning(r)
  \/ StartFails(r) \/ RecordStartFailure(r) \/ ReleaseStartFailure(r)
  \/ AnnotateStartFailure(r)

Watcher(r) ==
  \/ ExitZero(r) \/ ExitNonZero(r) \/ WorkerTimesOut(r)
  \/ OrphanGone(r) \/ OrphanTimesOut(r)
  \/ Finalize(r) \/ FinalizeRefused(r) \/ Verify(r)
  \/ Integrate(r) \/ IntegrateRefused(r) \/ CheckIntegrated(r)
  \/ RecordResult(r) \/ ReleaseResult(r) \/ AnnotateResult(r)

Advance(c) == Reserve(c) \/ NothingToReserve(c)
Enqueue(c) == EnqueueDuplicate(c) \/ EnqueueNew(c)
Reserved   == RecordStarting \/ SpawnStarter
Starts     == Boot \/ Serve \/ \E f \in Finding : BootReplay(f) \/ BootRefused(f)

Human ==
  \/ \E q \in Request, f \in Finding :
       \/ \E k \in Key : Approve(q, f, k) \/ ApproveOnly(q, f, k)
       \/ Replay(q, f) \/ ReplayRefused(q, f)
  \/ HumanCommit

Next ==
  \/ Human
  \/ \E q \in Request : AnnotateApproval(q)
  \/ \E c \in Caller : Enqueue(c)
  \/ \E c \in Caller \cup Run : Advance(c)
  \/ Reserved
  \/ \E r \in Run : Starter(r) \/ Watcher(r) \/ WatcherDies(r) \/ WorkerExits(r)
  \/ Starts
  \/ Crash

Spec == Init /\ [][Next]_vars

Fairness ==
  /\ \A r \in Run : WF_vars(Starter(r)) /\ WF_vars(Watcher(r))
  /\ \A c \in Caller : WF_vars(Enqueue(c))
  /\ \A c \in Caller \cup Run : WF_vars(Advance(c))
  /\ \A q \in Request : WF_vars(AnnotateApproval(q))
  /\ WF_vars(Reserved) /\ WF_vars(Starts)

\* Every thread of the board keeps running and a killed board is started again.
\* Nothing is assumed of humans, of workers (they time out), crashes or deaths.
FairSpec == Spec /\ Fairness

-----------------------------------------------------------------------------
(* Safety                                                                  *)

Item == [run : Run, status : Status]

\* Every variable keeps to its type; a decision or a row is always complete.
TypeOK ==
  /\ DOMAIN accepted \subseteq Finding /\ accepted \in [DOMAIN accepted -> Decision]
  /\ ledger \in Seq(Run) /\ ended \in Seq(Run)
  /\ DOMAIN row \subseteq Run /\ row \in [DOMAIN row -> Row]
  /\ clone \in [Run -> {"none", "detached", "restored"}]
  /\ head \in Nat
  /\ merged \subseteq Run
  /\ made \in 0 .. MaxRuns
  /\ worker \in [Run -> {"none", "alive", "gone"}]
  /\ up \in {"down", "booting", "serving"}
  /\ queue \in Seq(Item)
  /\ active \in Run \cup {NoRun}
  /\ halted \in BOOLEAN
  /\ start \in [Run -> StartStep]
  /\ watch \in [Run -> WatchStep]
  /\ verdict \in [Run -> Terminal \cup {"none"}]
  /\ adv \in {NoAdv} \cup Adv
  /\ ask \in [Caller -> {NoAsk} \cup Ask]
  /\ dlock \in Request \cup {Nobody}
  /\ crashes \in 0 .. MaxCrashes
  /\ commits \in 0 .. MaxCommits
  /\ deaths \in 0 .. MaxDeaths

StatusOf(r) == IF r \in DOMAIN row THEN row[r].status ELSE "none"

\* Dispatch is sequential: at most one run is between its reservation and its
\* result, across request threads, watchers, a crash and a restart.  recover's
\* branch for several in-flight rows is therefore never taken.
OneLiveRun ==
  \A r, s \in DOMAIN row : row[r].status \in Live /\ row[s].status \in Live => r = s

\* Replay-safe: one exact approval gets one run, however often it is delivered and
\* wherever the board is killed between the decision and its run.
ReplaySafe ==
  \A i, j \in DOMAIN ledger :
    LET a == row[ledger[i]]
        b == row[ledger[j]]
    IN a.finding = b.finding /\ a.key = b.key => i = j

\* A result is final: neither the thread that started the run, nor its watcher,
\* nor a restarted board takes a terminal status back or replaces it.
TerminalIsFinal ==
  [][\A r \in Run : StatusOf(r) \in Terminal => StatusOf(r)' = StatusOf(r)]_vars

\* Nothing is called completed that is not on the project's branch.
CompletedIsIntegrated ==
  \A r \in DOMAIN row : row[r].status = "completed" => r \in merged

\* Both: what a row reports of a run that ended is true, and stays.
ResultStands == []CompletedIsIntegrated /\ TerminalIsFinal

\* While the board is not killed, no two worker processes are alive at once.
OneWorker ==
  crashes = 0 => \A r, s \in Run : worker[r] = "alive" /\ worker[s] = "alive" => r = s

\* Both: the rows and the processes agree that one run is under way at a time.
OneRunAtATime == OneLiveRun /\ OneWorker

Resolved(last) == last = NoRun \/ row[last].status = "completed"
MayFollow(r, last) == Resolved(last) \/ row[r].key.retry = last

\* Stop at the first failure: after a run that did not complete, the next run that
\* starts on a board that was not killed is one a human asked for as a retry, past
\* every other run that waits.
StopsAtFailure ==
  [][\A r \in Run : crashes = 0 /\ StatusOf(r) = "queued" /\ StatusOf(r)' = "starting"
       => Resolved(Latest(ended)) \/ row[r].key.retry # NoRun]_vars

-----------------------------------------------------------------------------
(* Liveness                                                                *)

\* A started run gets a result, also when the board is killed in between.
LiveRunEnds ==
  \A r \in Run : StatusOf(r) \in Live ~> StatusOf(r) \in Terminal

\* A queued run does not wait for nothing: it starts, or the queue is halted.
QueueMoves ==
  \A r \in Run : StatusOf(r) = "queued" ~> StatusOf(r) # "queued" \/ halted

\* Together: no run hangs, whether it was started or waits for its turn.
RunsSettle == LiveRunEnds /\ QueueMoves

-----------------------------------------------------------------------------
(* Claims of the documents that the code does not keep                     *)

\* No thread of the board has anything left to do.
Quiet ==
  /\ up = "serving"
  /\ adv = NoAdv
  /\ \A c \in Caller : ask[c] = NoAsk
  /\ \A r \in Run : start[r] = "none" /\ watch[r] = "none"

\* README.md:306-309: replay "returns the original durable decision/run".  The run
\* that a decision is linked to, once all is quiet, must be one of that finding.
LinkedRunIsOwn ==
  Quiet => \A f \in DOMAIN accepted :
             accepted[f].run \in DOMAIN row => row[accepted[f].run].finding = f

\* board.py:1334-1335: queued attempts "resume only when there is no unresolved
\* non-success outcome".
RecoveryStopsAtFailure ==
  [][up = "down" /\ up' = "booting" /\ ask'[Board].at = "advance"
       => MayFollow(ask'[Board].run, Latest(ended))]_vars

\* tools/retro_html.py:486-487: the queue is halted until "this", the failed run,
\* is dealt with, and recover asks for the retry of that very run: so does a board
\* that was not killed.
RetryIsOfLastFailure ==
  [][\A r \in Run : crashes = 0 /\ StatusOf(r) = "queued" /\ StatusOf(r)' = "starting"
       => MayFollow(r, Latest(ended))]_vars

\* tools/retro_html.py:486-487: the queue is halted until the failure "is dealt with".  The
\* accepted retry of the last failure, first in the queue, deals with it.
RetryReleasesQueue ==
  Quiet /\ halted /\ FirstQueued # 0
    => row[queue[FirstQueued].run].key.retry # Latest(ended)

\* board.py:1332-1333: a restarted board "verifies the same result artifact", so a
\* result that was already integrated is not recorded as a failure.
IntegratedIsNotFailed ==
  \A r \in merged : StatusOf(r) # "failed"

\* board.py:1493-1496: a blocked run "was not integrated".
BlockedIsNotIntegrated ==
  \A r \in merged : StatusOf(r) # "blocked"

\* run_result.py:117: the Git metadata is restored "after the provider process has
\* exited".
ExitedBeforeFinalize ==
  \A r \in Run : clone[r] = "restored" => worker[r] # "alive"

\* docs/retro/README.md:192-195: verified work is fast-forwarded, or "reported as
\* verified-in-isolation but blocked from integration": it gets a result.
VerifiedIsReported ==
  \A r \in Run : watch[r] = "merge" ~> StatusOf(r) \in Terminal

\* board.py:2886-2887: a finding with another approval may "retry only by naming its
\* blocked, unverified, or failed run"; so one in such a state has a run to name.
RetryPossible ==
  Quiet => \A f \in DOMAIN accepted :
             accepted[f].state = "lost" => \E k \in Key : Admissible(f, k)

=============================================================================
