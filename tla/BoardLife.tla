------------------------------ MODULE BoardLife ------------------------------
(***************************************************************************)
(* The life of the review board (src/tools/board.py): `kit serve` starts   *)
(* at most one board per checkout behind a lock file, replaces one of an   *)
(* older build and stops one that has no run; the board records itself in  *)
(* board_state.json, serves, starts retrospective runs on a click, watches *)
(* them, and clears its record when it ends.  Callers and boards are       *)
(* processes of their own: each reads the state file, changes what it read *)
(* and writes all of it back, and any of them may be killed.               *)
(*                                                                         *)
(* A board's number stands for the pid, port and instance id it is known   *)
(* by, so that a recorded number answers only for the very process.        *)
(***************************************************************************)
EXTENDS Naturals, FiniteSets

CONSTANTS Caller,    \* processes that run `kit serve start` or `kit serve stop`
          MaxBoard, MaxRetro,   \* board processes, and retrospective runs, ever started
          MaxUpdate,   \* changes of the board's source code
          MaxDowning,  \* processes killed
          MaxSlip      \* lock files taken from a living process, answers that come too late

ASSUME BoardAssumption == {MaxBoard, MaxRetro, MaxUpdate, MaxDowning, MaxSlip} \subseteq Nat

VARIABLES
  boardFile,  \* board_state.json: the recorded board, the row of every run, and
              \* whether the review of a kit change is registered
  boardLock,  \* board.lock: the caller that made it
  caller,     \* what each caller is doing
  board,      \* every board process
  retro,      \* every run: the thread that started it, then watches it, and its process
  view,       \* a request that shows one run
  build,      \* the source code as it is now
  slip,       \* history: what went wrong between two processes
  spare       \* updates, clicks, reviews, kills and slips still allowed

boardVars == <<boardFile, boardLock, caller, board, retro, view, build, slip, spare>>

Board   == 1 .. MaxBoard
NoBoard == 0
Retro   == 1 .. MaxRetro
NoRetro == 0
Build   == 0 .. MaxUpdate

Allowance == [update : 0 .. MaxUpdate, click : 0 .. MaxRetro, review : 0 .. 1,
              downing : 0 .. MaxDowning, slip : 0 .. MaxSlip]

RowState  == {"absent", "running", "ended"}
BoardFile == [board : Board \cup {NoBoard}, row : [Retro -> RowState], review : BOOLEAN]
BlankFile     == [board |-> NoBoard, row |-> [r \in Retro |-> "absent"], review |-> FALSE]

Want       == {"start", "review", "stop"}
CallerStep == {"idle", "lock", "look", "probe", "halt", "await", "spawn", "wait", "load",
               "save", "leave", "open", "register", "find", "ask", "refused"}
BoardStep  == {"none", "booting", "bound", "recording", "serving", "closing", "clearing",
               "gone"}
RetroStep  == {"none", "launch", "load", "save", "watch", "end", "over", "lost"}
ViewStep   == {"none", "alive", "owns", "fresh", "lost"}
Slips      == {"robbed", "late", "overtaken", "crossed", "doubled"}

\* copy: the state file as this process last read it.
Away == [step |-> "idle", wants |-> "stop", build |-> 0, target |-> NoBoard,
            child |-> NoBoard, copy |-> BlankFile, live |-> {}]
Unborn  == [step |-> "none", build |-> 0, told |-> FALSE, killed |-> FALSE,
            run |-> NoRetro, copy |-> BlankFile]
Unrun   == [step |-> "none", by |-> NoBoard, alive |-> FALSE, copy |-> BlankFile]
NoView  == [step |-> "none", by |-> NoBoard, run |-> NoRetro]

Unlocked  == [kept |-> FALSE, by |-> {}]
LeftAlone == [kept |-> TRUE, by |-> {}]

Doing(c, step)    == caller[c].step = step
To(c, step)    == caller' = [caller EXCEPT ![c].step = step]
Quits(c)      == caller' = [caller EXCEPT ![c] = Away]
\* The lock has still to be removed by a caller that starts a board.
Leaves(c, step) == caller' = [caller EXCEPT ![c] = [Away EXCEPT
                                !.step = step, !.wants = caller[c].wants]]
GivesUp(c)     == IF caller[c].wants = "stop" THEN Quits(c) ELSE Leaves(c, "leave")
Is(b, step)    == b \in Board /\ board[b].step = step
Turns(b, step)  == board' = [board EXCEPT ![b].step = step]
Runs(r, step)  == retro[r].step = step
Up(b)          == b \in Board /\ board[b].step \notin {"none", "gone"}
Booting(b)     == board[b].step \in {"booting", "bound", "recording"}
Uses(what)    == spare[what] > 0 /\ spare' = [spare EXCEPT ![what] = @ - 1]

\* Threads of a board that are about to record a run, or watch one.
Starting(b) == {r \in Retro : retro[r].by = b /\ retro[r].step \in {"launch", "load", "save"}}
Watching(b) == {r \in Retro : retro[r].by = b /\ retro[r].step \in {"watch", "end"}}

\* _state_file_lock: mutate_state has it from its reading to its writing.
StateLocked(b) ==
  \/ board[b].step \in {"recording", "clearing"}
  \/ \E r \in Retro : retro[r].by = b /\ Runs(r, "end")

\* save_state writes the whole file: what was written since it was read is undone.
WriteFile(copy, new) ==
  /\ boardFile' = new
  /\ slip' = IF boardFile = copy THEN slip ELSE slip \cup {"overtaken"}

\* LIVE_RUN_STATES: what api_board_stop takes for an owned run.
LiveRows == {r \in Retro : boardFile.row[r] = "running"}

\* A process is gone, and the threads in it.
Ends(b, killed) ==
  /\ board' = [board EXCEPT ![b] = [Unborn EXCEPT !.step = "gone", !.killed = killed]]
  /\ retro' = [r \in Retro |-> IF r \in Starting(b) \cup Watching(b)
                               THEN [retro[r] EXCEPT !.step = "lost", !.copy = BlankFile] ELSE retro[r]]
  /\ view' = IF view.by = b THEN NoView ELSE view

(***************************************************************************)
(* ensure_running: `kit serve start`.                                      *)
(***************************************************************************)

\* main: a process of the source code as it is now.
Begun(want) == [Away EXCEPT !.step = IF want = "stop" THEN "find" ELSE "lock",
                               !.wants = want, !.build = build]

\* kit serve start, kit serve stop, or the review of a kit change, which starts
\* the board and then registers its session.
Serve(c, want) ==
  /\ Doing(c, "idle")
  /\ caller' = [caller EXCEPT ![c] = Begun(want)]
  /\ IF want = "review" THEN Uses("review") ELSE UNCHANGED spare
  /\ UNCHANGED <<boardFile, boardLock, board, retro, view, build, slip>>

TakeBoardLock(c) ==
  /\ Doing(c, "lock") /\ boardLock = Unlocked
  /\ boardLock' = [kept |-> TRUE, by |-> {c}]
  /\ To(c, "look")
  /\ UNCHANGED <<boardFile, board, retro, view, build, slip, spare>>

\* A lock of ten seconds is taken for abandoned, and is not when its maker, or
\* the board it started, is slow.
RemoveOldLock(c) ==
  /\ Doing(c, "lock") /\ boardLock.kept
  /\ boardLock' = Unlocked
  /\ IF boardLock.by # {} \/ \E b \in Board : Booting(b)
     THEN Uses("slip") /\ slip' = slip \cup {"robbed"}
     ELSE UNCHANGED <<slip, spare>>
  /\ UNCHANGED <<boardFile, caller, board, retro, view, build>>

\* Fifty attempts in vain.
LockRefused(c) ==
  /\ Doing(c, "lock") /\ boardLock.kept
  /\ Quits(c)
  /\ UNCHANGED <<boardFile, boardLock, board, retro, view, build, slip, spare>>

LookUp(c) ==
  /\ Doing(c, "look")
  /\ caller' = [caller EXCEPT ![c].step = "probe", ![c].target = boardFile.board]
  /\ UNCHANGED <<boardFile, boardLock, board, retro, view, build, slip, spare>>

SameBuild(c, b) == board[b].build = caller[c].build

\* board_health: the recorded board is alive when that process lives and answers
\* with every part of its recorded identity; then it is either of this build,
\* and its URL the result, or must be stopped first.
Probe(c) ==
  LET t == caller[c].target
  IN  /\ Doing(c, "probe")
      /\ IF Is(t, "serving") /\ SameBuild(c, t) THEN Leaves(c, "open")
         ELSE To(c, IF Is(t, "serving") THEN "halt" ELSE "spawn")
      /\ UNCHANGED <<boardFile, boardLock, board, retro, view, build, slip, spare>>

\* An answer of a board that serves does not come within a second: the first of
\* two says that the recorded board lives, the second that it is current.
ProbeLate(c) ==
  /\ Doing(c, "probe") /\ Is(caller[c].target, "serving")
  /\ Uses("slip") /\ slip' = slip \cup {"late"}
  /\ \E step \in {"spawn", "halt"} : To(c, step)
  /\ UNCHANGED <<boardFile, boardLock, board, retro, view, build>>

\* _stop_stale_recorded_instance returns once the process is gone.
Stopped(c) ==
  /\ Doing(c, "await") /\ ~Up(caller[c].target)
  /\ To(c, "spawn")
  /\ UNCHANGED <<boardFile, boardLock, board, retro, view, build, slip, spare>>

StopTooSlow(c) ==
  /\ Doing(c, "await") /\ Up(caller[c].target)
  /\ GivesUp(c)
  /\ UNCHANGED <<boardFile, boardLock, board, retro, view, build, slip, spare>>

Spawn(c) ==
  \E b \in Board :
    /\ Doing(c, "spawn") /\ Is(b, "none") /\ \A a \in 1 .. b - 1 : ~Is(a, "none")
    /\ Turns(b, "booting")
    /\ caller' = [caller EXCEPT ![c].step = "wait", ![c].child = b, ![c].target = NoBoard]
    /\ UNCHANGED <<boardFile, boardLock, retro, view, build, slip, spare>>

Ready(c) ==
  LET b == caller[c].child
  IN  /\ Doing(c, "wait") /\ Is(b, "serving") /\ SameBuild(c, b)
      /\ To(c, "load")
      /\ UNCHANGED <<boardFile, boardLock, board, retro, view, build, slip, spare>>

\* Five seconds are over: the child is terminated.
NotReady(c) ==
  LET b == caller[c].child
  IN  /\ Doing(c, "wait")
      /\ IF Is(b, "serving") /\ SameBuild(c, b)
         THEN Uses("slip") /\ slip' = slip \cup {"late"}
         ELSE UNCHANGED <<slip, spare>>
      /\ GivesUp(c)
      /\ IF Up(b) THEN Ends(b, TRUE) ELSE UNCHANGED <<board, retro, view>>
      /\ UNCHANGED <<boardFile, boardLock, build>>

\* The child recorded itself before it served; its parent records it again.
LoadBack(c) ==
  /\ Doing(c, "load")
  /\ caller' = [caller EXCEPT ![c].step = "save", ![c].copy = boardFile]
  /\ UNCHANGED <<boardFile, boardLock, board, retro, view, build, slip, spare>>

SaveBack(c) ==
  /\ Doing(c, "save")
  /\ WriteFile(caller[c].copy, [caller[c].copy EXCEPT !.board = caller[c].child])
  /\ Leaves(c, "open")
  /\ UNCHANGED <<boardLock, board, retro, view, build, spare>>

\* The lock is removed, whoever's it is.
RemoveLock(c) ==
  /\ Doing(c, "leave") \/ Doing(c, "open")
  /\ boardLock' = Unlocked
  /\ IF Doing(c, "open") /\ caller[c].wants = "review"
     THEN caller' = [caller EXCEPT ![c].step = "register", ![c].copy = boardFile]
     ELSE Quits(c)
  /\ UNCHANGED <<boardFile, board, retro, view, build, slip, spare>>

\* register_kit_change_session: with no lock that the board would know of.
Register(c) ==
  /\ Doing(c, "register")
  /\ WriteFile(caller[c].copy, [caller[c].copy EXCEPT !.review = TRUE])
  /\ Quits(c)
  /\ UNCHANGED <<boardLock, board, retro, view, build, spare>>

KillCaller(c) ==
  /\ ~Doing(c, "idle") /\ Uses("downing")
  /\ Quits(c)
  /\ boardLock' = IF boardLock.by = {c} THEN LeftAlone ELSE boardLock
  /\ UNCHANGED <<boardFile, board, retro, view, build, slip>>

(***************************************************************************)
(* stop_running, and what a board answers to a stop (api_board_stop).      *)
(***************************************************************************)

Find(c) ==
  LET t == boardFile.board
  IN  /\ Doing(c, "find")
      /\ IF Is(t, "serving") /\ SameBuild(c, t)
         THEN caller' = [caller EXCEPT ![c].step = "ask", ![c].target = t]
         ELSE Quits(c)
      /\ UNCHANGED <<boardFile, boardLock, board, retro, view, build, slip, spare>>

Asks(c) == Doing(c, "halt") \/ Doing(c, "ask")

\* Nothing more than the rows of the state file says whether a run is active.
StopAccepted(c) ==
  LET t == caller[c].target
  IN  /\ Asks(c) /\ Is(t, "serving") /\ LiveRows = {}
      /\ board' = [board EXCEPT ![t].told = TRUE]
      /\ slip' = IF Starting(t) = {} THEN slip ELSE slip \cup {"crossed"}
      /\ IF caller[c].wants = "stop" THEN Quits(c) ELSE To(c, "await")
      /\ UNCHANGED <<boardFile, boardLock, retro, view, build, spare>>

StopRefused(c) ==
  /\ Asks(c) /\ Is(caller[c].target, "serving") /\ LiveRows # {}
  /\ caller' = [caller EXCEPT ![c].step = "refused", ![c].live =
                  {r \in Retro : retro[r].alive \/ retro[r].step \in {"watch", "end"}}]
  /\ UNCHANGED <<boardFile, boardLock, board, retro, view, build, slip, spare>>

RefusalRead(c) ==
  /\ Doing(c, "refused")
  /\ GivesUp(c)
  /\ UNCHANGED <<boardFile, boardLock, board, retro, view, build, slip, spare>>

NobodyAnswers(c) ==
  /\ Asks(c) /\ ~Is(caller[c].target, "serving")
  /\ GivesUp(c)
  /\ UNCHANGED <<boardFile, boardLock, board, retro, view, build, slip, spare>>

(***************************************************************************)
(* serve: the life of a board.                                             *)
(***************************************************************************)

\* The child imports the code as it is, and binds its port.
Boot(b) ==
  /\ Is(b, "booting")
  /\ board' = [board EXCEPT ![b].step = "bound", ![b].build = build]
  /\ UNCHANGED <<boardFile, boardLock, caller, retro, view, build, slip, spare>>

RecordRead(b) ==
  /\ Is(b, "bound")
  /\ board' = [board EXCEPT ![b].step = "recording", ![b].copy = boardFile]
  /\ UNCHANGED <<boardFile, boardLock, caller, retro, view, build, slip, spare>>

RecordSelf(b) ==
  /\ Is(b, "recording")
  /\ WriteFile(board[b].copy, [board[b].copy EXCEPT !.board = b])
  /\ board' = [board EXCEPT ![b].step = "serving", ![b].copy = BlankFile]
  /\ UNCHANGED <<boardLock, caller, retro, view, build, spare>>

\* server.shutdown, in a thread of its own: until then the board goes on serving.
Shutdown(b) ==
  /\ Is(b, "serving") /\ board[b].told
  /\ Turns(b, "closing")
  /\ UNCHANGED <<boardFile, boardLock, caller, retro, view, build, slip, spare>>

ClearRead(b) ==
  /\ Is(b, "closing") /\ ~StateLocked(b)
  /\ board' = [board EXCEPT ![b].step = "clearing", ![b].copy = boardFile]
  /\ UNCHANGED <<boardFile, boardLock, caller, retro, view, build, slip, spare>>

\* Mutant: whatever is recorded is cleared.
ClearAny(b) ==
  LET mine == board[b].copy
  IN  /\ Is(b, "clearing")
      /\ WriteFile(mine, [mine EXCEPT !.board = NoBoard])
      /\ Ends(b, FALSE)
      /\ UNCHANGED <<boardLock, caller, build, spare>>

\* Only its own record is cleared.
Clear(b) ==
  LET mine == board[b].copy
  IN  /\ Is(b, "clearing")
      /\ IF mine.board = b THEN WriteFile(mine, [mine EXCEPT !.board = NoBoard])
         ELSE UNCHANGED <<boardFile, slip>>
      /\ Ends(b, FALSE)
      /\ UNCHANGED <<boardLock, caller, build, spare>>

KillBoard(b) ==
  /\ Up(b) /\ Uses("downing")
  /\ Ends(b, TRUE)
  /\ UNCHANGED <<boardFile, boardLock, caller, build, slip>>

EditBoard ==
  /\ Uses("update")
  /\ build' = build + 1
  /\ UNCHANGED <<boardFile, boardLock, caller, board, retro, view, slip>>

(***************************************************************************)
(* spawn_retro, and the watcher of a run.                                  *)
(***************************************************************************)

InFlight(b) == board[b].run \in Retro /\ boardFile.row[board[b].run] = "running"

\* A click while no run of this board is in flight.
Click(b, r) ==
  /\ Is(b, "serving") /\ ~InFlight(b) /\ Uses("click")
  /\ Runs(r, "none") /\ \A q \in 1 .. r - 1 : ~Runs(q, "none")
  /\ retro' = [retro EXCEPT ![r].step = "launch", ![r].by = b]
  /\ slip' = slip \cup (IF board[b].told THEN {"crossed"} ELSE {})
                  \cup (IF Starting(b) # {} THEN {"doubled"} ELSE {})
  /\ UNCHANGED <<boardFile, boardLock, caller, board, view, build>>

StartWorker(r) ==
  /\ Runs(r, "launch")
  /\ retro' = [retro EXCEPT ![r].step = "load", ![r].alive = TRUE]
  /\ board' = [board EXCEPT ![retro[r].by].run = r]
  /\ UNCHANGED <<boardFile, boardLock, caller, view, build, slip, spare>>

\* load_state and save_state, each under the lock, but not both.
LoadRow(r) ==
  /\ Runs(r, "load") /\ ~StateLocked(retro[r].by)
  /\ retro' = [retro EXCEPT ![r].step = "save", ![r].copy = boardFile]
  /\ UNCHANGED <<boardFile, boardLock, caller, board, view, build, slip, spare>>

SaveRow(r) ==
  /\ Runs(r, "save") /\ ~StateLocked(retro[r].by)
  /\ WriteFile(retro[r].copy, [retro[r].copy EXCEPT !.row[r] = "running"])
  /\ retro' = [retro EXCEPT ![r].step = "watch", ![r].copy = BlankFile]
  /\ UNCHANGED <<boardLock, caller, board, view, build, spare>>

WorkerExits(r) ==
  /\ retro[r].alive
  /\ retro' = [retro EXCEPT ![r].alive = FALSE]
  /\ UNCHANGED <<boardFile, boardLock, caller, board, view, build, slip, spare>>

\* _watch_retro: the process ended, or has been terminated at its time limit.
Watched(r) ==
  /\ Runs(r, "watch") /\ ~StateLocked(retro[r].by)
  /\ retro' = [retro EXCEPT ![r].step = "end", ![r].alive = FALSE, ![r].copy = boardFile]
  /\ UNCHANGED <<boardFile, boardLock, caller, board, view, build, slip, spare>>

\* _update_run changes the row if there is one; the run is forgotten after it.
EndRow(r) ==
  LET read == retro[r].copy
  IN  /\ Runs(r, "end")
      /\ WriteFile(read, IF read.row[r] = "absent" THEN read
                     ELSE [read EXCEPT !.row[r] = "ended"])
      /\ retro' = [retro EXCEPT ![r].step = "over", ![r].copy = BlankFile]
      /\ board' = [board EXCEPT ![retro[r].by].run = IF @ = r THEN NoRetro ELSE @]
      /\ UNCHANGED <<boardLock, caller, view, build, spare>>

(***************************************************************************)
(* describe_run: what a page shows of a run whose row says running.        *)
(***************************************************************************)

ShowRun(b, r) ==
  /\ view = NoView /\ Is(b, "serving") /\ boardFile.row[r] = "running"
  /\ view' = [step |-> "alive", by |-> b, run |-> r]
  /\ UNCHANGED <<boardFile, boardLock, caller, board, retro, build, slip, spare>>

\* A process that lives is shown as running.
SeeProcess ==
  /\ view.step = "alive"
  /\ view' = IF retro[view.run].alive THEN NoView ELSE [view EXCEPT !.step = "owns"]
  /\ UNCHANGED <<boardFile, boardLock, caller, board, retro, build, slip, spare>>

\* RunManager.owns: this board started it and has not forgotten it.
Owns(b, r) == retro[r].by = b /\ retro[r].step \in {"load", "save", "watch", "end"}

SeeOwner ==
  /\ view.step = "owns"
  /\ view' = IF Owns(view.by, view.run) THEN NoView ELSE [view EXCEPT !.step = "fresh"]
  /\ UNCHANGED <<boardFile, boardLock, caller, board, retro, build, slip, spare>>

\* The row is read again before the run is called unverified.
SeeFreshRow ==
  /\ view.step = "fresh"
  /\ view' = IF boardFile.row[view.run] = "running" THEN [view EXCEPT !.step = "lost"]
             ELSE NoView
  /\ UNCHANGED <<boardFile, boardLock, caller, board, retro, build, slip, spare>>

Shown ==
  /\ view.step = "lost"
  /\ view' = NoView
  /\ UNCHANGED <<boardFile, boardLock, caller, board, retro, build, slip, spare>>

-----------------------------------------------------------------------------

BoardInit ==
  /\ boardFile = BlankFile
  /\ boardLock = Unlocked
  /\ caller = [c \in Caller |-> Away]
  /\ board = [b \in Board |-> Unborn]
  /\ retro = [r \in Retro |-> Unrun]
  /\ view = NoView
  /\ build = 0
  /\ slip = {}
  /\ spare \in Allowance

CallerStepOf(c) ==
  \/ \E want \in Want : Serve(c, want)
  \/ TakeBoardLock(c) \/ RemoveOldLock(c) \/ LockRefused(c)
  \/ LookUp(c) \/ Probe(c) \/ ProbeLate(c)
  \/ Stopped(c) \/ StopTooSlow(c) \/ Spawn(c) \/ Ready(c) \/ NotReady(c)
  \/ LoadBack(c) \/ SaveBack(c) \/ RemoveLock(c) \/ Register(c)
  \/ KillCaller(c)
  \/ Find(c) \/ StopAccepted(c) \/ StopRefused(c) \/ RefusalRead(c) \/ NobodyAnswers(c)

BoardStepOf(b) ==
  \/ Boot(b) \/ RecordRead(b) \/ RecordSelf(b)
  \/ Shutdown(b) \/ ClearRead(b) \/ Clear(b) \/ KillBoard(b)
  \/ \E r \in Retro : Click(b, r) \/ ShowRun(b, r)

RetroStepOf(r) ==
  StartWorker(r) \/ LoadRow(r) \/ SaveRow(r) \/ WorkerExits(r) \/ Watched(r) \/ EndRow(r)

BoardNext ==
  \/ \E c \in Caller : CallerStepOf(c)
  \/ \E b \in Board : BoardStepOf(b)
  \/ \E r \in Retro : RetroStepOf(r)
  \/ SeeProcess \/ SeeOwner \/ SeeFreshRow \/ Shown
  \/ EditBoard

BoardSpec == BoardInit /\ [][BoardNext]_boardVars

(***************************************************************************)
(* Properties.                                                             *)
(***************************************************************************)

CallerRec == [step : CallerStep, wants : Want, build : Build,
              target : Board \cup {NoBoard}, child : Board \cup {NoBoard},
              copy : BoardFile, live : SUBSET Retro]
BoardRec  == [step : BoardStep, build : Build, told : BOOLEAN, killed : BOOLEAN,
              run : Retro \cup {NoRetro}, copy : BoardFile]
RetroRec  == [step : RetroStep, by : Board \cup {NoBoard}, alive : BOOLEAN, copy : BoardFile]
ViewRec   == [step : ViewStep, by : Board \cup {NoBoard}, run : Retro \cup {NoRetro}]
LockRec   == [kept : BOOLEAN, by : SUBSET Caller]

BoardTypeOK ==
  /\ boardFile \in BoardFile
  /\ boardLock \in LockRec
  /\ caller \in [Caller -> CallerRec]
  /\ board \in [Board -> BoardRec]
  /\ retro \in [Retro -> RetroRec]
  /\ view \in ViewRec
  /\ build \in Build /\ build + spare.update <= MaxUpdate
  /\ slip \subseteq Slips /\ spare \in Allowance

\* Between starts, stops, replacements of an older build and kills, a board that
\* serves is the recorded one, so that there is one at a time and it can be
\* found again: a board that ends never takes the record of its successor away.
OneBoard == \A b \in Board : Is(b, "serving") => boardFile.board = b

\* A run loses the thread that watches it only with a board that was killed: a
\* stop, also that of an older build, waits for it.
StopSpares == \A r \in Retro : Runs(r, "lost") => board[retro[r].by].killed

\* A board has at most one run at a time, whatever is clicked.
OneRetro ==
  \A b \in Board : \A q, r \in Starting(b) \cup Watching(b) : q = r

\* No row of a run is lost or falls behind, with starting, ending and starting
\* callers that each write the whole file.
RowsKept ==
  \A r \in Retro : /\ retro[r].step \in {"watch", "end"} => boardFile.row[r] = "running"
                   /\ Runs(r, "over") => boardFile.row[r] = "ended"

\* A page calls a run unverified only when nobody watches it any more, also when
\* its process ends and its row changes while the page is made.
ShownTruly == view.step = "lost" => Runs(view.run, "lost")

\* That holds as long as no living process lost its lock, none answered too late,
\* no two of them wrote the file at one time, and no run was being started while
\* its board was stopped or another run started.
BoardFound == slip = {} => OneBoard /\ StopSpares
RunsFollowed == slip = {} => OneRetro /\ RowsKept /\ ShownTruly

\* Both: the one board is the recorded one, and follows its runs.
BoardSafe == BoardFound /\ RunsFollowed

\* docs/retro/README.md: `kit serve stop` stops the board when no owned run is
\* active.  The row of a run whose board was killed says running for ever.
RefusedForActiveRun == \A c \in Caller : Doing(c, "refused") => caller[c].live # {}
=============================================================================
