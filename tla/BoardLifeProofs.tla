---------------------------- MODULE BoardLifeProofs ----------------------------
(***************************************************************************)
(* Proofs about the life of the review board (BoardLife), for any number   *)
(* of callers, boards and runs, and any allowances; the second part proves *)
(* what is said of the tests that a release runs of itself (TestBed).      *)
(*                                                                         *)
(* The argument has two halves, both for behaviours in which no slip has   *)
(* happened.  CallersKnow: the caller inside the lock is the only one, it  *)
(* knows the board that serves, if there is one, and that board is the     *)
(* recorded one; a board that still boots belongs to the caller that waits *)
(* for it, or to a lock its killed maker left behind.  RunsKnown: a run    *)
(* that is not over belongs to the one board that serves and has not been  *)
(* told to stop, its row says what the run does, and a page that asks      *)
(* about it is never behind.  Each half is an invariant relative to the    *)
(* other.  What the steps do to the records is stated first (the lemmas    *)
(* called after an action and Is), so that the invariants' steps need not  *)
(* look into them.                                                         *)
(***************************************************************************)
EXTENDS BoardLife, TestBed, FiniteSetTheorems, TLAPS

-----------------------------------------------------------------------------
(* The inductive invariant                                                 *)

\* A run with a thread of its own.
HeldSteps == {"launch", "load", "save", "watch", "end"}
Held(r)   == retro[r].step \in HeldSteps
\* A caller between taking the lock and removing it.
InLock(c) ==
  \/ caller[c].step \in {"look", "probe", "halt", "await", "spawn", "wait", "load", "save",
                         "leave", "open"}
  \/ Doing(c, "refused") /\ caller[c].wants # "stop"
\* A board that serves, or is about to.
Live(b) == Booting(b) \/ board[b].step = "serving"


\* What each step of a caller says about the rest of its record.
CallerShape ==
  \A c \in Caller : /\ caller[c].step \in {"wait", "load", "save"} => caller[c].child \in Board
                    /\ InLock(c) \/ caller[c].step = "lock" => caller[c].wants # "stop"
                    /\ caller[c].step \in {"find", "ask"} => caller[c].wants = "stop"
RetroShape ==
  \A r \in Retro : Held(r) \/ Runs(r, "lost") => retro[r].by \in Board
ViewShape == view.step # "none" => view.run \in Retro /\ view.by \in Board

\* The lock names the caller inside it, so that there is one.
LockHeld  == \A c \in Caller : InLock(c) => boardLock = [kept |-> TRUE, by |-> {c}]
\* Somebody waits for a board that boots, unless the lock was left alone.
BootNamed ==
  \A b \in Board : Booting(b) =>
    \/ boardLock = LeftAlone
    \/ \E c \in Caller : Doing(c, "wait") /\ caller[c].child = b
OneLive == \A a, b \in Board : Live(a) /\ Live(b) => a = b
\* A caller never starts a board beside one that serves.
KnownTo(c) ==
  \A b \in Board : board[b].step = "serving" =>
    /\ caller[c].step \in {"probe", "halt", "await"} => b = caller[c].target
    /\ ~Doing(c, "spawn")
    /\ caller[c].step \in {"wait", "load", "save"} => b = caller[c].child
Known == \A c \in Caller : KnownTo(c)
Recorded == \A b \in Board : board[b].step = "serving" => boardFile.board = b
\* A run with a thread is served by its board, which no stop has reached.
HeldServed ==
  \A r \in Retro : Held(r) => /\ board[retro[r].by].step = "serving"
                              /\ ~board[retro[r].by].told
                              /\ ~Runs(r, "launch") => board[retro[r].by].run = r
HeldOnce  == \A q, r \in Retro : Held(q) /\ Held(r) => q = r
\* Only a kill takes the thread of a run away.
LostKilled == \A r \in Retro : Runs(r, "lost") => /\ board[retro[r].by].step = "gone"
                                                  /\ board[retro[r].by].killed
\* The row of a run says what the run does.
RowsFollow ==
  \A r \in Retro : /\ retro[r].step \in {"watch", "end"} => boardFile.row[r] = "running"
                   /\ Runs(r, "over") => boardFile.row[r] = "ended"
                   /\ boardFile.row[r] = "running" => retro[r].step \in {"watch", "end", "lost"}
\* What a page has seen of a run is still so, or the run has gone on.
ViewFollows ==
  view.step # "none" =>
    /\ retro[view.run].step \in {"watch", "end", "over", "lost"}
    /\ retro[view.run].step \in {"watch", "end"} => retro[view.run].by = view.by
    /\ view.step \in {"fresh", "lost"} => retro[view.run].step \in {"over", "lost"}
    /\ view.step = "lost" => Runs(view.run, "lost")

Shape == CallerShape /\ RetroShape /\ ViewShape
CallersKnow == LockHeld /\ BootNamed /\ OneLive /\ Known /\ Recorded
RunsKnown == HeldServed /\ HeldOnce /\ LostKilled /\ RowsFollow /\ ViewFollows
BoardInv == Shape /\ (slip = {} => CallersKnow /\ RunsKnown)

-----------------------------------------------------------------------------
(* What the steps do to the records                                        *)

USE BoardAssumption DEF NoBoard, NoRetro

LEMMA BlankFileIs == BlankFile \in BoardFile
<1>1. [r \in Retro |-> "absent"] \in [Retro -> RowState]
  BY DEF RowState
<1> QED
  BY <1>1 DEF BlankFile, BoardFile

LEMMA BuildIs == 0 \in Build
BY DEF Build

LEMMA AwayIs ==
  /\ Away \in CallerRec /\ Away.step = "idle" /\ Away.wants = "stop"
  /\ Away.child = NoBoard /\ Away.target = NoBoard
BY BlankFileIs, BuildIs DEF Away, CallerRec, CallerStep, Want

LEMMA UnbornIs ==
  /\ Unborn \in BoardRec
  /\ \A k \in BOOLEAN : LET v == [Unborn EXCEPT !.step = "gone", !.killed = k]
                        IN  v \in BoardRec /\ v.step = "gone" /\ v.killed = k /\ ~v.told
BY BlankFileIs, BuildIs DEF Unborn, BoardRec, BoardStep

LEMMA UnrunIs == Unrun \in RetroRec /\ Unrun.step = "none"
BY BlankFileIs DEF Unrun, RetroRec, RetroStep

LEMMA NoViewIs == NoView \in ViewRec /\ NoView.step = "none"
BY DEF NoView, ViewRec, ViewStep

OthersCall(c) == \A d \in Caller \ {c} : caller'[d] = caller[d]
OthersServe(b) == \A a \in Board \ {b} : board'[a] = board[a]
OthersRun(r)  == \A q \in Retro \ {r} : retro'[q] = retro[q]

\* One record is replaced, and the others stay.
LEMMA CallerPut ==
  ASSUME BoardTypeOK, NEW c \in Caller, NEW v \in CallerRec, caller' = [caller EXCEPT ![c] = v]
  PROVE  caller' \in [Caller -> CallerRec] /\ caller'[c] = v /\ OthersCall(c)
BY DEF BoardTypeOK, OthersCall

LEMMA BoardPut ==
  ASSUME BoardTypeOK, NEW b \in Board, NEW v \in BoardRec, board' = [board EXCEPT ![b] = v]
  PROVE  board' \in [Board -> BoardRec] /\ board'[b] = v /\ OthersServe(b)
BY DEF BoardTypeOK, OthersServe

LEMMA RetroPut ==
  ASSUME BoardTypeOK, NEW r \in Retro, NEW v \in RetroRec, retro' = [retro EXCEPT ![r] = v]
  PROVE  retro' \in [Retro -> RetroRec] /\ retro'[r] = v /\ OthersRun(r)
BY DEF BoardTypeOK, OthersRun

\* The effect of each step on the record of its actor.
LEMMA ToIs ==
  ASSUME BoardTypeOK, NEW c \in Caller, NEW s \in CallerStep, To(c, s)
  PROVE  /\ caller' \in [Caller -> CallerRec] /\ OthersCall(c)
         /\ caller'[c].step = s /\ caller'[c].wants = caller[c].wants
         /\ caller'[c].target = caller[c].target /\ caller'[c].child = caller[c].child
         /\ caller'[c].copy = caller[c].copy
<1> DEFINE v == [caller[c] EXCEPT !.step = s]
<1>1. caller[c] \in CallerRec
  BY DEF BoardTypeOK
<1>2. /\ v \in CallerRec /\ v.step = s /\ v.wants = caller[c].wants
      /\ v.target = caller[c].target /\ v.child = caller[c].child /\ v.copy = caller[c].copy
  BY <1>1 DEF CallerRec
<1>3. caller' = [caller EXCEPT ![c] = v]
  BY DEF To
<1> HIDE DEF v
<1> QED
  BY <1>2, <1>3, CallerPut

LEMMA QuitsIs ==
  ASSUME BoardTypeOK, NEW c \in Caller, Quits(c)
  PROVE  caller' \in [Caller -> CallerRec] /\ OthersCall(c) /\ caller'[c] = Away
BY AwayIs, CallerPut DEF Quits

LEMMA LeavesIs ==
  ASSUME BoardTypeOK, NEW c \in Caller, NEW s \in CallerStep, Leaves(c, s)
  PROVE  /\ caller' \in [Caller -> CallerRec] /\ OthersCall(c)
         /\ caller'[c].step = s /\ caller'[c].wants = caller[c].wants
<1> DEFINE v == [Away EXCEPT !.step = s, !.wants = caller[c].wants]
<1>1. caller[c] \in CallerRec
  BY DEF BoardTypeOK
<1>2. v \in CallerRec /\ v.step = s /\ v.wants = caller[c].wants
  BY <1>1, AwayIs DEF CallerRec
<1>3. caller' = [caller EXCEPT ![c] = v]
  BY DEF Leaves
<1> HIDE DEF v
<1> QED
  BY <1>2, <1>3, CallerPut

LEMMA GivesUpIs ==
  ASSUME BoardTypeOK, NEW c \in Caller, GivesUp(c)
  PROVE  /\ caller' \in [Caller -> CallerRec] /\ OthersCall(c)
         /\ \/ caller'[c].step = "idle" /\ caller[c].wants = "stop"
            \/ /\ caller'[c].step = "leave" /\ caller'[c].wants = caller[c].wants
               /\ caller[c].wants # "stop"
<1>1. "leave" \in CallerStep
  BY DEF CallerStep
<1> QED
  BY <1>1, QuitsIs, LeavesIs, AwayIs DEF GivesUp

LEMMA TurnsIs ==
  ASSUME BoardTypeOK, NEW b \in Board, NEW s \in BoardStep, Turns(b, s)
  PROVE  /\ board' \in [Board -> BoardRec] /\ OthersServe(b)
         /\ board'[b].step = s /\ board'[b].told = board[b].told
         /\ board'[b].killed = board[b].killed /\ board'[b].run = board[b].run
<1> DEFINE v == [board[b] EXCEPT !.step = s]
<1>1. board[b] \in BoardRec
  BY DEF BoardTypeOK
<1>2. /\ v \in BoardRec /\ v.step = s /\ v.told = board[b].told
      /\ v.killed = board[b].killed /\ v.run = board[b].run
  BY <1>1 DEF BoardRec
<1>3. board' = [board EXCEPT ![b] = v]
  BY DEF Turns
<1> HIDE DEF v
<1> QED
  BY <1>2, <1>3, BoardPut

LEMMA UsesIs ==
  ASSUME BoardTypeOK, NEW w \in {"update", "click", "review", "downing", "slip"}, Uses(w)
  PROVE  /\ spare' \in Allowance
         /\ build' = build => build' + spare'.update <= MaxUpdate
         /\ w = "update" /\ build' = build + 1 => build' \in Build /\ build' + spare'.update <= MaxUpdate
<1>1. spare \in Allowance /\ build \in Nat /\ build + spare.update <= MaxUpdate
  BY DEF BoardTypeOK, Build
<1>2. /\ spare.update \in 0 .. MaxUpdate /\ spare.click \in 0 .. MaxRetro
      /\ spare.review \in 0 .. 1 /\ spare.downing \in 0 .. MaxDowning
      /\ spare.slip \in 0 .. MaxSlip
  BY <1>1 DEF Allowance
<1>3. CASE w = "update"
  <2>1. spare' = [spare EXCEPT !.update = spare.update - 1] /\ spare.update > 0
    BY <1>3 DEF Uses
  <2>2. spare' \in Allowance /\ spare'.update = spare.update - 1
    BY <1>1, <1>2, <2>1 DEF Allowance
  <2> QED
    BY <1>1, <1>2, <2>1, <2>2 DEF Build
<1>4. CASE w = "click"
  <2>1. spare' = [spare EXCEPT !.click = spare.click - 1] /\ spare.click > 0
    BY <1>4 DEF Uses
  <2>2. spare' \in Allowance /\ spare'.update = spare.update
    BY <1>1, <1>2, <2>1 DEF Allowance
  <2> QED
    BY <1>1, <1>4, <2>2
<1>5. CASE w = "review"
  <2>1. spare' = [spare EXCEPT !.review = spare.review - 1] /\ spare.review > 0
    BY <1>5 DEF Uses
  <2>2. spare' \in Allowance /\ spare'.update = spare.update
    BY <1>1, <1>2, <2>1 DEF Allowance
  <2> QED
    BY <1>1, <1>5, <2>2
<1>6. CASE w = "downing"
  <2>1. spare' = [spare EXCEPT !.downing = spare.downing - 1] /\ spare.downing > 0
    BY <1>6 DEF Uses
  <2>2. spare' \in Allowance /\ spare'.update = spare.update
    BY <1>1, <1>2, <2>1 DEF Allowance
  <2> QED
    BY <1>1, <1>6, <2>2
<1>7. CASE w = "slip"
  <2>1. spare' = [spare EXCEPT !.slip = spare.slip - 1] /\ spare.slip > 0
    BY <1>7 DEF Uses
  <2>2. spare' \in Allowance /\ spare'.update = spare.update
    BY <1>1, <1>2, <2>1 DEF Allowance
  <2> QED
    BY <1>1, <1>7, <2>2
<1> QED
  BY <1>3, <1>4, <1>5, <1>6, <1>7

LEMMA LookUpIs ==
  ASSUME BoardTypeOK, NEW c \in Caller, LookUp(c)
  PROVE  /\ caller' \in [Caller -> CallerRec] /\ OthersCall(c)
         /\ caller'[c].wants = caller[c].wants /\ caller'[c].child = caller[c].child
         /\ caller'[c].step = "probe" /\ caller'[c].target = boardFile.board
<1> DEFINE v == [caller[c] EXCEPT !.step = "probe", !.target = boardFile.board]
<1>1. caller[c] \in CallerRec
  BY DEF BoardTypeOK
<1>2. v \in CallerRec
  BY <1>1 DEF BoardTypeOK, CallerRec, CallerStep, BoardFile
<1>3. /\ v.wants = caller[c].wants /\ v.child = caller[c].child /\ v.step = "probe"
      /\ v.target = boardFile.board
  BY <1>1 DEF CallerRec
<1>4. caller' = [caller EXCEPT ![c] = v]
  BY DEF LookUp, BoardTypeOK
<1> HIDE DEF v
<1> QED
  BY <1>2, <1>3, <1>4, CallerPut

LEMMA LoadBackIs ==
  ASSUME BoardTypeOK, NEW c \in Caller, LoadBack(c)
  PROVE  /\ caller' \in [Caller -> CallerRec] /\ OthersCall(c)
         /\ caller'[c].wants = caller[c].wants /\ caller'[c].target = caller[c].target
         /\ caller'[c].child = caller[c].child /\ caller'[c].step = "save"
         /\ caller'[c].copy = boardFile
<1> DEFINE v == [caller[c] EXCEPT !.step = "save", !.copy = boardFile]
<1>1. caller[c] \in CallerRec
  BY DEF BoardTypeOK
<1>2. v \in CallerRec
  BY <1>1 DEF BoardTypeOK, CallerRec, CallerStep
<1>3. /\ v.wants = caller[c].wants /\ v.target = caller[c].target
      /\ v.child = caller[c].child /\ v.step = "save" /\ v.copy = boardFile
  BY <1>1 DEF CallerRec
<1>4. caller' = [caller EXCEPT ![c] = v]
  BY DEF LoadBack, BoardTypeOK
<1> HIDE DEF v
<1> QED
  BY <1>2, <1>3, <1>4, CallerPut

LEMMA StopRefusedIs ==
  ASSUME BoardTypeOK, NEW c \in Caller, StopRefused(c)
  PROVE  /\ caller' \in [Caller -> CallerRec] /\ OthersCall(c)
         /\ caller'[c].wants = caller[c].wants /\ caller'[c].target = caller[c].target
         /\ caller'[c].child = caller[c].child /\ caller'[c].step = "refused"
         /\ caller'[c].live = {r \in Retro : retro[r].alive \/ retro[r].step \in {"watch", "end"}}
<1> DEFINE v == [caller[c] EXCEPT !.step = "refused", !.live = {r \in Retro : retro[r].alive \/ retro[r].step \in {"watch", "end"}}]
<1>1. caller[c] \in CallerRec
  BY DEF BoardTypeOK
<1>2. v \in CallerRec
  BY <1>1 DEF BoardTypeOK, CallerRec, CallerStep
<1>3. /\ v.wants = caller[c].wants /\ v.target = caller[c].target
      /\ v.child = caller[c].child /\ v.step = "refused"
      /\ v.live = {r \in Retro : retro[r].alive \/ retro[r].step \in {"watch", "end"}}
  BY <1>1 DEF CallerRec
<1>4. caller' = [caller EXCEPT ![c] = v]
  BY DEF StopRefused, BoardTypeOK
<1> HIDE DEF v
<1> QED
  BY <1>2, <1>3, <1>4, CallerPut

LEMMA BootIs ==
  ASSUME BoardTypeOK, NEW b \in Board, Boot(b)
  PROVE  /\ board' \in [Board -> BoardRec] /\ OthersServe(b)
         /\ board'[b].told = board[b].told /\ board'[b].killed = board[b].killed
         /\ board'[b].run = board[b].run /\ board'[b].step = "bound"
         /\ board'[b].build = build
<1> DEFINE v == [board[b] EXCEPT !.step = "bound", !.build = build]
<1>1. board[b] \in BoardRec
  BY DEF BoardTypeOK
<1>2. v \in BoardRec
  BY <1>1 DEF BoardTypeOK, BoardRec, BoardStep
<1>3. /\ v.told = board[b].told /\ v.killed = board[b].killed
      /\ v.run = board[b].run /\ v.step = "bound" /\ v.build = build
  BY <1>1 DEF BoardRec
<1>4. board' = [board EXCEPT ![b] = v]
  BY DEF Boot, BoardTypeOK
<1> HIDE DEF v
<1> QED
  BY <1>2, <1>3, <1>4, BoardPut

LEMMA RecordReadIs ==
  ASSUME BoardTypeOK, NEW b \in Board, RecordRead(b)
  PROVE  /\ board' \in [Board -> BoardRec] /\ OthersServe(b)
         /\ board'[b].told = board[b].told /\ board'[b].killed = board[b].killed
         /\ board'[b].run = board[b].run /\ board'[b].step = "recording"
         /\ board'[b].copy = boardFile
<1> DEFINE v == [board[b] EXCEPT !.step = "recording", !.copy = boardFile]
<1>1. board[b] \in BoardRec
  BY DEF BoardTypeOK
<1>2. v \in BoardRec
  BY <1>1 DEF BoardTypeOK, BoardRec, BoardStep
<1>3. /\ v.told = board[b].told /\ v.killed = board[b].killed
      /\ v.run = board[b].run /\ v.step = "recording" /\ v.copy = boardFile
  BY <1>1 DEF BoardRec
<1>4. board' = [board EXCEPT ![b] = v]
  BY DEF RecordRead, BoardTypeOK
<1> HIDE DEF v
<1> QED
  BY <1>2, <1>3, <1>4, BoardPut

LEMMA RecordSelfIs ==
  ASSUME BoardTypeOK, NEW b \in Board, RecordSelf(b)
  PROVE  /\ board' \in [Board -> BoardRec] /\ OthersServe(b)
         /\ board'[b].told = board[b].told /\ board'[b].killed = board[b].killed
         /\ board'[b].run = board[b].run /\ board'[b].step = "serving"
         /\ board'[b].copy = BlankFile
<1> DEFINE v == [board[b] EXCEPT !.step = "serving", !.copy = BlankFile]
<1>1. board[b] \in BoardRec
  BY DEF BoardTypeOK
<1>2. v \in BoardRec
  BY <1>1, BlankFileIs DEF BoardTypeOK, BoardRec, BoardStep
<1>3. /\ v.told = board[b].told /\ v.killed = board[b].killed
      /\ v.run = board[b].run /\ v.step = "serving" /\ v.copy = BlankFile
  BY <1>1 DEF BoardRec
<1>4. board' = [board EXCEPT ![b] = v]
  BY DEF RecordSelf, BoardTypeOK
<1> HIDE DEF v
<1> QED
  BY <1>2, <1>3, <1>4, BoardPut

LEMMA ClearReadIs ==
  ASSUME BoardTypeOK, NEW b \in Board, ClearRead(b)
  PROVE  /\ board' \in [Board -> BoardRec] /\ OthersServe(b)
         /\ board'[b].told = board[b].told /\ board'[b].killed = board[b].killed
         /\ board'[b].run = board[b].run /\ board'[b].step = "clearing"
         /\ board'[b].copy = boardFile
<1> DEFINE v == [board[b] EXCEPT !.step = "clearing", !.copy = boardFile]
<1>1. board[b] \in BoardRec
  BY DEF BoardTypeOK
<1>2. v \in BoardRec
  BY <1>1 DEF BoardTypeOK, BoardRec, BoardStep
<1>3. /\ v.told = board[b].told /\ v.killed = board[b].killed
      /\ v.run = board[b].run /\ v.step = "clearing" /\ v.copy = boardFile
  BY <1>1 DEF BoardRec
<1>4. board' = [board EXCEPT ![b] = v]
  BY DEF ClearRead, BoardTypeOK
<1> HIDE DEF v
<1> QED
  BY <1>2, <1>3, <1>4, BoardPut

LEMMA LoadRowIs ==
  ASSUME BoardTypeOK, NEW r \in Retro, LoadRow(r)
  PROVE  /\ retro' \in [Retro -> RetroRec] /\ OthersRun(r)
         /\ retro'[r].by = retro[r].by /\ retro'[r].step = "save"
         /\ retro'[r].copy = boardFile
<1> DEFINE v == [retro[r] EXCEPT !.step = "save", !.copy = boardFile]
<1>1. retro[r] \in RetroRec
  BY DEF BoardTypeOK
<1>2. v \in RetroRec
  BY <1>1 DEF BoardTypeOK, RetroRec, RetroStep
<1>3. /\ v.by = retro[r].by /\ v.step = "save" /\ v.copy = boardFile
  BY <1>1 DEF RetroRec
<1>4. retro' = [retro EXCEPT ![r] = v]
  BY DEF LoadRow, BoardTypeOK
<1> HIDE DEF v
<1> QED
  BY <1>2, <1>3, <1>4, RetroPut

LEMMA SaveRowIs ==
  ASSUME BoardTypeOK, NEW r \in Retro, SaveRow(r)
  PROVE  /\ retro' \in [Retro -> RetroRec] /\ OthersRun(r)
         /\ retro'[r].by = retro[r].by /\ retro'[r].step = "watch"
         /\ retro'[r].copy = BlankFile
<1> DEFINE v == [retro[r] EXCEPT !.step = "watch", !.copy = BlankFile]
<1>1. retro[r] \in RetroRec
  BY DEF BoardTypeOK
<1>2. v \in RetroRec
  BY <1>1, BlankFileIs DEF BoardTypeOK, RetroRec, RetroStep
<1>3. /\ v.by = retro[r].by /\ v.step = "watch" /\ v.copy = BlankFile
  BY <1>1 DEF RetroRec
<1>4. retro' = [retro EXCEPT ![r] = v]
  BY DEF SaveRow, BoardTypeOK
<1> HIDE DEF v
<1> QED
  BY <1>2, <1>3, <1>4, RetroPut

LEMMA WorkerExitsIs ==
  ASSUME BoardTypeOK, NEW r \in Retro, WorkerExits(r)
  PROVE  /\ retro' \in [Retro -> RetroRec] /\ OthersRun(r)
         /\ retro'[r].step = retro[r].step /\ retro'[r].by = retro[r].by
         /\ retro'[r].alive = FALSE
<1> DEFINE v == [retro[r] EXCEPT !.alive = FALSE]
<1>1. retro[r] \in RetroRec
  BY DEF BoardTypeOK
<1>2. v \in RetroRec
  BY <1>1 DEF BoardTypeOK, RetroRec, RetroStep
<1>3. /\ v.step = retro[r].step /\ v.by = retro[r].by /\ v.alive = FALSE
  BY <1>1 DEF RetroRec
<1>4. retro' = [retro EXCEPT ![r] = v]
  BY DEF WorkerExits, BoardTypeOK
<1> HIDE DEF v
<1> QED
  BY <1>2, <1>3, <1>4, RetroPut

LEMMA WatchedIs ==
  ASSUME BoardTypeOK, NEW r \in Retro, Watched(r)
  PROVE  /\ retro' \in [Retro -> RetroRec] /\ OthersRun(r)
         /\ retro'[r].by = retro[r].by /\ retro'[r].step = "end"
         /\ retro'[r].alive = FALSE /\ retro'[r].copy = boardFile
<1> DEFINE v == [retro[r] EXCEPT !.step = "end", !.alive = FALSE, !.copy = boardFile]
<1>1. retro[r] \in RetroRec
  BY DEF BoardTypeOK
<1>2. v \in RetroRec
  BY <1>1 DEF BoardTypeOK, RetroRec, RetroStep
<1>3. /\ v.by = retro[r].by /\ v.step = "end" /\ v.alive = FALSE
      /\ v.copy = boardFile
  BY <1>1 DEF RetroRec
<1>4. retro' = [retro EXCEPT ![r] = v]
  BY DEF Watched, BoardTypeOK
<1> HIDE DEF v
<1> QED
  BY <1>2, <1>3, <1>4, RetroPut

LEMMA EndRowIs ==
  ASSUME BoardTypeOK, NEW r \in Retro, EndRow(r)
  PROVE  /\ retro' \in [Retro -> RetroRec] /\ OthersRun(r)
         /\ retro'[r].by = retro[r].by /\ retro'[r].step = "over"
         /\ retro'[r].copy = BlankFile
<1> DEFINE v == [retro[r] EXCEPT !.step = "over", !.copy = BlankFile]
<1>1. retro[r] \in RetroRec
  BY DEF BoardTypeOK
<1>2. v \in RetroRec
  BY <1>1, BlankFileIs DEF BoardTypeOK, RetroRec, RetroStep
<1>3. /\ v.by = retro[r].by /\ v.step = "over" /\ v.copy = BlankFile
  BY <1>1 DEF RetroRec
<1>4. retro' = [retro EXCEPT ![r] = v]
  BY DEF EndRow, BoardTypeOK
<1> HIDE DEF v
<1> QED
  BY <1>2, <1>3, <1>4, RetroPut

LEMMA StartWorkerIs ==
  ASSUME BoardTypeOK, NEW r \in Retro, StartWorker(r)
  PROVE  /\ retro' \in [Retro -> RetroRec] /\ OthersRun(r)
         /\ retro'[r].by = retro[r].by /\ retro'[r].step = "load"
         /\ retro'[r].alive = TRUE
<1> DEFINE v == [retro[r] EXCEPT !.step = "load", !.alive = TRUE]
<1>1. retro[r] \in RetroRec
  BY DEF BoardTypeOK
<1>2. v \in RetroRec
  BY <1>1 DEF BoardTypeOK, RetroRec, RetroStep
<1>3. /\ v.by = retro[r].by /\ v.step = "load" /\ v.alive = TRUE
  BY <1>1 DEF RetroRec
<1>4. retro' = [retro EXCEPT ![r] = v]
  BY DEF StartWorker, BoardTypeOK
<1> HIDE DEF v
<1> QED
  BY <1>2, <1>3, <1>4, RetroPut

LEMMA ClickIs ==
  ASSUME BoardTypeOK, NEW b \in Board, NEW r \in Retro, Click(b, r)
  PROVE  /\ retro' \in [Retro -> RetroRec] /\ OthersRun(r)
         /\ retro'[r].step = "launch" /\ retro'[r].by = b
<1> DEFINE v == [retro[r] EXCEPT !.step = "launch", !.by = b]
<1>1. retro[r] \in RetroRec
  BY DEF BoardTypeOK
<1>2. v \in RetroRec
  BY <1>1 DEF BoardTypeOK, RetroRec, RetroStep
<1>3. /\ v.step = "launch" /\ v.by = b
  BY <1>1 DEF RetroRec
<1>4. retro' = [retro EXCEPT ![r] = v]
  BY DEF Click, BoardTypeOK
<1> HIDE DEF v
<1> QED
  BY <1>2, <1>3, <1>4, RetroPut

LEMMA ServeIs ==
  ASSUME BoardTypeOK, NEW c \in Caller, NEW want \in Want, Serve(c, want)
  PROVE  /\ caller' \in [Caller -> CallerRec] /\ OthersCall(c)
         /\ caller'[c].wants = want
         /\ caller'[c].step = IF want = "stop" THEN "find" ELSE "lock"
<1> DEFINE v == Begun(want)
<1>1. v \in CallerRec /\ v.wants = want /\ v.step = IF want = "stop" THEN "find" ELSE "lock"
  BY AwayIs DEF BoardTypeOK, CallerRec, CallerStep, Begun
<1>2. caller' = [caller EXCEPT ![c] = v]
  BY DEF Serve
<1> HIDE DEF v
<1> QED
  BY <1>1, <1>2, CallerPut

LEMMA FindIs ==
  ASSUME BoardTypeOK, NEW c \in Caller, Find(c)
  PROVE  /\ caller' \in [Caller -> CallerRec] /\ OthersCall(c)
         /\ \/ caller'[c].step = "ask" /\ caller'[c].wants = caller[c].wants
            \/ caller'[c] = Away
<1> DEFINE t == boardFile.board
           v == [caller[c] EXCEPT !.step = "ask", !.target = t]
<1>1. CASE Is(t, "serving") /\ SameBuild(c, t)
  <2>1. caller[c] \in CallerRec /\ t \in Board
    BY <1>1 DEF BoardTypeOK, Is
  <2>2. caller' = [caller EXCEPT ![c] = v]
    BY <1>1 DEF Find, BoardTypeOK
  <2> HIDE DEF t
  <2>3. v \in CallerRec /\ v.step = "ask" /\ v.wants = caller[c].wants
    BY <2>1 DEF CallerRec, CallerStep
  <2> HIDE DEF v
  <2> QED
    BY <2>2, <2>3, CallerPut
<1>2. CASE ~(Is(t, "serving") /\ SameBuild(c, t))
  BY <1>2, QuitsIs DEF Find
<1> QED
  BY <1>1, <1>2

LEMMA SpawnIs ==
  ASSUME BoardTypeOK, NEW c \in Caller, Spawn(c)
  PROVE  \E b \in Board :
           /\ caller' \in [Caller -> CallerRec] /\ OthersCall(c)
           /\ caller'[c].step = "wait" /\ caller'[c].wants = caller[c].wants
           /\ caller'[c].child = b
           /\ board[b].step = "none"
           /\ board' \in [Board -> BoardRec] /\ OthersServe(b)
           /\ board'[b].step = "booting" /\ board'[b].told = board[b].told
           /\ board'[b].killed = board[b].killed /\ board'[b].run = board[b].run
<1>1. PICK b \in Board :
        /\ Is(b, "none") /\ Turns(b, "booting")
        /\ caller' = [caller EXCEPT ![c].step = "wait", ![c].child = b, ![c].target = NoBoard]
  BY DEF Spawn
<1> DEFINE v == [caller[c] EXCEPT !.step = "wait", !.child = b, !.target = NoBoard]
<1>2. caller[c] \in CallerRec
  BY DEF BoardTypeOK
<1>3. v \in CallerRec /\ v.step = "wait" /\ v.wants = caller[c].wants /\ v.child = b
  BY <1>2 DEF CallerRec, CallerStep
<1>4. caller' = [caller EXCEPT ![c] = v]
  BY <1>1 DEF BoardTypeOK
<1> HIDE DEF v
<1>5. "booting" \in BoardStep
  BY DEF BoardStep
<1>6. caller' \in [Caller -> CallerRec] /\ caller'[c] = v /\ OthersCall(c)
  BY <1>3, <1>4, CallerPut
<1>7. /\ board[b].step = "none"
      /\ board' \in [Board -> BoardRec] /\ OthersServe(b)
      /\ board'[b].step = "booting" /\ board'[b].told = board[b].told
      /\ board'[b].killed = board[b].killed /\ board'[b].run = board[b].run
  BY <1>1, <1>5, TurnsIs DEF Is
<1> QED
  BY <1>3, <1>6, <1>7

LEMMA RemoveLockIs ==
  ASSUME BoardTypeOK, NEW c \in Caller, RemoveLock(c)
  PROVE  /\ caller' \in [Caller -> CallerRec] /\ OthersCall(c)
         /\ \/ caller'[c].step = "register"
            \/ caller'[c] = Away
<1> DEFINE v == [caller[c] EXCEPT !.step = "register", !.copy = boardFile]
<1>1. CASE Doing(c, "open") /\ caller[c].wants = "review"
  <2>1. caller[c] \in CallerRec /\ boardFile \in BoardFile
    BY DEF BoardTypeOK
  <2>2. caller' = [caller EXCEPT ![c] = v]
    BY <1>1 DEF RemoveLock, BoardTypeOK
  <2>3. v \in CallerRec /\ v.step = "register"
    BY <2>1 DEF CallerRec, CallerStep
  <2> HIDE DEF v
  <2> QED
    BY <2>2, <2>3, CallerPut
<1>2. CASE ~(Doing(c, "open") /\ caller[c].wants = "review")
  BY <1>2, QuitsIs DEF RemoveLock
<1> QED
  BY <1>1, <1>2

LEMMA ToldIs ==
  ASSUME BoardTypeOK, NEW b \in Board, board' = [board EXCEPT ![b].told = TRUE]
  PROVE  /\ board' \in [Board -> BoardRec] /\ OthersServe(b)
         /\ board'[b].step = board[b].step /\ board'[b].told
         /\ board'[b].killed = board[b].killed /\ board'[b].run = board[b].run
<1> DEFINE v == [board[b] EXCEPT !.told = TRUE]
<1>1. board[b] \in BoardRec
  BY DEF BoardTypeOK
<1>2. /\ v \in BoardRec /\ v.step = board[b].step /\ v.told
      /\ v.killed = board[b].killed /\ v.run = board[b].run
  BY <1>1 DEF BoardRec
<1>3. board' = [board EXCEPT ![b] = v]
  OBVIOUS
<1> HIDE DEF v
<1> QED
  BY <1>2, <1>3, BoardPut

LEMMA RunIs ==
  ASSUME BoardTypeOK, NEW b \in Board, NEW q \in Retro \cup {NoRetro},
         board' = [board EXCEPT ![b].run = q]
  PROVE  /\ board' \in [Board -> BoardRec] /\ OthersServe(b)
         /\ board'[b].step = board[b].step /\ board'[b].told = board[b].told
         /\ board'[b].killed = board[b].killed /\ board'[b].run = q
<1> DEFINE v == [board[b] EXCEPT !.run = q]
<1>1. board[b] \in BoardRec
  BY DEF BoardTypeOK
<1>2. /\ v \in BoardRec /\ v.step = board[b].step /\ v.told = board[b].told
      /\ v.killed = board[b].killed /\ v.run = q
  BY <1>1 DEF BoardRec
<1>3. board' = [board EXCEPT ![b] = v]
  OBVIOUS
<1> HIDE DEF v
<1> QED
  BY <1>2, <1>3, BoardPut

LEMMA EndsIs ==
  ASSUME BoardTypeOK, NEW b \in Board, NEW k \in BOOLEAN, Ends(b, k)
  PROVE  /\ board' \in [Board -> BoardRec] /\ OthersServe(b)
         /\ board'[b].step = "gone" /\ board'[b].killed = k /\ ~board'[b].told
         /\ retro' \in [Retro -> RetroRec]
         /\ \A r \in Retro :
              \/ /\ Held(r) /\ retro[r].by = b
                 /\ retro'[r].step = "lost" /\ retro'[r].by = b
              \/ ~(Held(r) /\ retro[r].by = b) /\ retro'[r] = retro[r]
         /\ view' \in ViewRec
         /\ view' = IF view.by = b THEN NoView ELSE view
<1> DEFINE v == [Unborn EXCEPT !.step = "gone", !.killed = k]
           L == Starting(b) \cup Watching(b)
<1>1. v \in BoardRec /\ v.step = "gone" /\ v.killed = k /\ ~v.told
  BY UnbornIs
<1>2. board' = [board EXCEPT ![b] = v]
  BY DEF Ends
<1> HIDE DEF v
<1>3. \A r \in Retro : r \in L <=> Held(r) /\ retro[r].by = b
  BY DEF Starting, Watching, Held, HeldSteps
<1>4. retro' = [r \in Retro |-> IF r \in L THEN [retro[r] EXCEPT !.step = "lost", !.copy = BlankFile]
                                ELSE retro[r]]
  BY DEF Ends
<1> HIDE DEF L
<1>5. \A r \in Retro : retro[r] \in RetroRec
  BY DEF BoardTypeOK
<1>6. \A r \in Retro : LET w == [retro[r] EXCEPT !.step = "lost", !.copy = BlankFile]
                       IN  w \in RetroRec /\ w.step = "lost" /\ w.by = retro[r].by
  BY <1>5, BlankFileIs DEF RetroRec, RetroStep
<1>7. retro' \in [Retro -> RetroRec]
  BY <1>4, <1>5, <1>6
<1>8. \A r \in Retro : \/ r \in L /\ retro'[r].step = "lost" /\ retro'[r].by = retro[r].by
                       \/ r \notin L /\ retro'[r] = retro[r]
  BY <1>4, <1>6
<1>9. view' \in ViewRec /\ view' = IF view.by = b THEN NoView ELSE view
  BY NoViewIs DEF Ends, BoardTypeOK
<1> QED
  BY <1>1, <1>2, <1>3, <1>7, <1>8, <1>9, BoardPut

-----------------------------------------------------------------------------
(* Types                                                                   *)

\* The names of the steps, for leaves that compare them.
LEMMA StepNames ==
  /\ {"idle", "lock", "look", "probe", "halt", "await", "spawn", "wait", "load", "save",
      "leave", "open", "register", "find", "ask", "refused"} \subseteq CallerStep
  /\ {"serving", "closing", "gone"} \subseteq BoardStep
BY DEF CallerStep, BoardStep

LEMMA SlipIs ==
  ASSUME BoardTypeOK, NEW x \in Slips, slip' = slip \cup {x}
  PROVE  slip' \subseteq Slips /\ slip \subseteq slip' /\ slip' # {}
BY DEF BoardTypeOK

LEMMA SlipNames == {"robbed", "late", "overtaken", "crossed", "doubled"} = Slips
BY DEF Slips

LEMMA WriteFileIs ==
  ASSUME BoardTypeOK, NEW f \in BoardFile, NEW g \in BoardFile, WriteFile(f, g)
  PROVE  /\ boardFile' = g /\ boardFile' \in BoardFile
         /\ slip' \subseteq Slips /\ slip \subseteq slip'
         /\ slip' = {} => boardFile = f
BY DEF WriteFile, BoardTypeOK, Slips

\* What is written to the state file is a state file.
LEMMA BoardWritten ==
  ASSUME BoardTypeOK, NEW f \in BoardFile, NEW b \in Board \cup {NoBoard},
         WriteFile(f, [f EXCEPT !.board = b])
  PROVE  /\ boardFile' \in BoardFile /\ slip' \subseteq Slips /\ slip \subseteq slip'
         /\ slip' = {} => /\ boardFile = f
                          /\ boardFile'.board = b /\ boardFile'.row = boardFile.row
<1> DEFINE g == [f EXCEPT !.board = b]
<1>1. g \in BoardFile /\ g.board = b /\ g.row = f.row
  BY DEF BoardFile
<1>2. WriteFile(f, g)
  OBVIOUS
<1> HIDE DEF g
<1> QED
  BY <1>1, <1>2, WriteFileIs

LEMMA ReviewWritten ==
  ASSUME BoardTypeOK, NEW f \in BoardFile, WriteFile(f, [f EXCEPT !.review = TRUE])
  PROVE  /\ boardFile' \in BoardFile /\ slip' \subseteq Slips /\ slip \subseteq slip'
         /\ slip' = {} => /\ boardFile = f
                          /\ boardFile'.board = boardFile.board /\ boardFile'.row = boardFile.row
<1> DEFINE g == [f EXCEPT !.review = TRUE]
<1>1. g \in BoardFile /\ g.board = f.board /\ g.row = f.row
  BY DEF BoardFile
<1>2. WriteFile(f, g)
  OBVIOUS
<1> HIDE DEF g
<1> QED
  BY <1>1, <1>2, WriteFileIs

LEMMA RowWritten ==
  ASSUME BoardTypeOK, NEW f \in BoardFile, NEW r \in Retro, NEW s \in RowState,
         WriteFile(f, [f EXCEPT !.row[r] = s])
  PROVE  /\ boardFile' \in BoardFile /\ slip' \subseteq Slips /\ slip \subseteq slip'
         /\ slip' = {} => /\ boardFile = f
                          /\ boardFile'.board = boardFile.board /\ boardFile'.row[r] = s
                          /\ \A q \in Retro \ {r} : boardFile'.row[q] = boardFile.row[q]
<1> DEFINE g == [f EXCEPT !.row[r] = s]
<1>1. /\ g \in BoardFile /\ g.board = f.board /\ g.row[r] = s
      /\ \A q \in Retro \ {r} : g.row[q] = f.row[q]
  BY DEF BoardFile
<1>2. WriteFile(f, g)
  OBVIOUS
<1> HIDE DEF g
<1> QED
  BY <1>1, <1>2, WriteFileIs

LEMMA EndWritten ==
  ASSUME BoardTypeOK, NEW f \in BoardFile, NEW r \in Retro,
         WriteFile(f, IF f.row[r] = "absent" THEN f ELSE [f EXCEPT !.row[r] = "ended"])
  PROVE  /\ boardFile' \in BoardFile /\ slip' \subseteq Slips /\ slip \subseteq slip'
         /\ slip' = {} => /\ boardFile = f
                          /\ boardFile'.board = boardFile.board
                          /\ boardFile.row[r] # "absent" => boardFile'.row[r] = "ended"
                          /\ boardFile'.row[r] # "running"
                          /\ \A q \in Retro \ {r} : boardFile'.row[q] = boardFile.row[q]
<1>1. CASE f.row[r] = "absent"
  BY <1>1, WriteFileIs
<1>2. CASE f.row[r] # "absent"
  <2>1. WriteFile(f, [f EXCEPT !.row[r] = "ended"])
    BY <1>2
  <2> QED
    BY <2>1, RowWritten DEF RowState
<1> QED
  BY <1>1, <1>2

LEMMA LockIs == Unlocked \in LockRec /\ LeftAlone \in LockRec
BY DEF Unlocked, LeftAlone, LockRec

\* One lemma for the steps of each actor: types are kept, and slips remembered.
LEMMA TypeCaller ==
  ASSUME BoardTypeOK, NEW c \in Caller, CallerStepOf(c)
  PROVE  BoardTypeOK' /\ slip \subseteq slip'
<1>1. CASE LockRefused(c)
  BY <1>1, QuitsIs DEF LockRefused, BoardTypeOK
<1>2. CASE LookUp(c)
  BY <1>2, LookUpIs DEF LookUp, BoardTypeOK
<1>3. CASE Probe(c)
  BY <1>3, LeavesIs, ToIs, StepNames DEF Probe, BoardTypeOK
<1>4. CASE Stopped(c)
  BY <1>4, ToIs, StepNames DEF Stopped, BoardTypeOK
<1>5. CASE StopTooSlow(c)
  BY <1>5, GivesUpIs DEF StopTooSlow, BoardTypeOK
<1>6. CASE Ready(c)
  BY <1>6, ToIs, StepNames DEF Ready, BoardTypeOK
<1>7. CASE LoadBack(c)
  BY <1>7, LoadBackIs DEF LoadBack, BoardTypeOK
<1>8. CASE StopRefused(c)
  BY <1>8, StopRefusedIs DEF StopRefused, BoardTypeOK
<1>9. CASE RefusalRead(c)
  BY <1>9, GivesUpIs DEF RefusalRead, BoardTypeOK
<1>10. CASE NobodyAnswers(c)
  BY <1>10, GivesUpIs DEF NobodyAnswers, BoardTypeOK
<1>11. CASE Find(c)
  BY <1>11, FindIs DEF Find, BoardTypeOK
<1>12. CASE TakeBoardLock(c)
  BY <1>12, ToIs, StepNames DEF TakeBoardLock, BoardTypeOK, LockRec
<1>13. CASE RemoveLock(c)
  BY <1>13, RemoveLockIs, LockIs DEF RemoveLock, BoardTypeOK
<1>14. CASE RemoveOldLock(c)
  <2>1. slip' \subseteq Slips /\ slip \subseteq slip' /\ spare' \in Allowance
        /\ build' + spare'.update <= MaxUpdate
    BY <1>14, UsesIs, SlipIs, SlipNames DEF RemoveOldLock, BoardTypeOK
  <2> QED
    BY <1>14, <2>1, LockIs DEF RemoveOldLock, BoardTypeOK
<1>15. CASE KillCaller(c)
  <2>1. spare' \in Allowance /\ build' + spare'.update <= MaxUpdate
    BY <1>15, UsesIs DEF KillCaller
  <2> QED
    BY <1>15, <2>1, LockIs, QuitsIs DEF KillCaller, BoardTypeOK
<1>16. CASE ProbeLate(c)
  <2>1. slip' \subseteq Slips /\ slip \subseteq slip' /\ spare' \in Allowance
        /\ build' + spare'.update <= MaxUpdate
    BY <1>16, UsesIs, SlipIs, SlipNames DEF ProbeLate
  <2>2. caller' \in [Caller -> CallerRec]
    BY <1>16, ToIs, StepNames DEF ProbeLate
  <2> QED
    BY <1>16, <2>1, <2>2 DEF ProbeLate, BoardTypeOK
<1>17. CASE \E want \in Want : Serve(c, want)
  <2>1. PICK want \in Want : Serve(c, want)
    BY <1>17
  <2>2. spare' \in Allowance /\ build' + spare'.update <= MaxUpdate
    BY <2>1, UsesIs DEF Serve, BoardTypeOK
  <2> QED
    BY <2>1, <2>2, ServeIs DEF Serve, BoardTypeOK
<1>18. CASE Spawn(c)
  <2>1. caller' \in [Caller -> CallerRec] /\ board' \in [Board -> BoardRec]
    BY <1>18, SpawnIs
  <2>2. UNCHANGED <<boardFile, boardLock, retro, view, build, slip, spare>>
    BY <1>18 DEF Spawn
  <2> QED
    BY <2>1, <2>2 DEF BoardTypeOK
<1>19. CASE NotReady(c)
  <2> DEFINE b == caller[c].child
  <2>1. b \in Board \cup {NoBoard}
    BY DEF BoardTypeOK, CallerRec
  <2>2. /\ board' \in [Board -> BoardRec] /\ retro' \in [Retro -> RetroRec]
        /\ view' \in ViewRec
    BY <1>19, <2>1, EndsIs DEF NotReady, Up, BoardTypeOK
  <2>3. slip' \subseteq Slips /\ slip \subseteq slip' /\ spare' \in Allowance
        /\ build' + spare'.update <= MaxUpdate
    <3>1. CASE Uses("slip") /\ slip' = slip \cup {"late"}
      BY <1>19, <3>1, UsesIs, SlipIs, SlipNames DEF NotReady
    <3>2. CASE UNCHANGED <<slip, spare>>
      BY <1>19, <3>2 DEF NotReady, BoardTypeOK
    <3> QED
      BY <1>19, <3>1, <3>2 DEF NotReady
  <2>4. UNCHANGED <<boardFile, boardLock, build>> /\ GivesUp(c)
    BY <1>19 DEF NotReady
  <2> QED
    BY <2>2, <2>3, <2>4, GivesUpIs DEF BoardTypeOK
<1>20. CASE SaveBack(c)
  <2>1. caller[c].copy \in BoardFile /\ caller[c].child \in Board \cup {NoBoard}
    BY DEF BoardTypeOK, CallerRec
  <2>2. boardFile' \in BoardFile /\ slip' \subseteq Slips /\ slip \subseteq slip'
    BY <1>20, <2>1, BoardWritten DEF SaveBack
  <2> QED
    BY <1>20, <2>2, LeavesIs, StepNames DEF SaveBack, BoardTypeOK
<1>21. CASE Register(c)
  <2>1. caller[c].copy \in BoardFile
    BY DEF BoardTypeOK, CallerRec
  <2>2. boardFile' \in BoardFile /\ slip' \subseteq Slips /\ slip \subseteq slip'
    BY <1>21, <2>1, ReviewWritten DEF Register
  <2> QED
    BY <1>21, <2>2, QuitsIs DEF Register, BoardTypeOK
<1>22. CASE StopAccepted(c)
  <2>1. slip' \subseteq Slips /\ slip \subseteq slip'
    BY <1>22 DEF StopAccepted, BoardTypeOK, Slips
  <2>2. board' \in [Board -> BoardRec]
    BY <1>22, ToldIs DEF StopAccepted, Is
  <2>3. caller' \in [Caller -> CallerRec]
    BY <1>22, ToIs, QuitsIs, StepNames DEF StopAccepted
  <2> QED
    BY <1>22, <2>1, <2>2, <2>3 DEF StopAccepted, BoardTypeOK
<1> QED
  BY <1>1, <1>2, <1>3, <1>4, <1>5, <1>6, <1>7, <1>8, <1>9, <1>10, <1>11, <1>12, <1>13, <1>14,
     <1>15, <1>16, <1>17, <1>18, <1>19, <1>20, <1>21, <1>22 DEF CallerStepOf

LEMMA TypeBoard ==
  ASSUME BoardTypeOK, NEW b \in Board, BoardStepOf(b)
  PROVE  BoardTypeOK' /\ slip \subseteq slip'
<1>1. CASE Boot(b)
  BY <1>1, BootIs DEF Boot, BoardTypeOK
<1>2. CASE RecordRead(b)
  BY <1>2, RecordReadIs DEF RecordRead, BoardTypeOK
<1>3. CASE ClearRead(b)
  BY <1>3, ClearReadIs DEF ClearRead, BoardTypeOK
<1>4. CASE Shutdown(b)
  BY <1>4, TurnsIs, StepNames DEF Shutdown, BoardTypeOK
<1>5. CASE RecordSelf(b)
  <2>1. board[b].copy \in BoardFile
    BY DEF BoardTypeOK, BoardRec
  <2>2. boardFile' \in BoardFile /\ slip' \subseteq Slips /\ slip \subseteq slip'
    BY <1>5, <2>1, BoardWritten DEF RecordSelf
  <2> QED
    BY <1>5, <2>2, RecordSelfIs DEF RecordSelf, BoardTypeOK
<1>6. CASE Clear(b)
  <2>1. board[b].copy \in BoardFile
    BY DEF BoardTypeOK, BoardRec
  <2>2. boardFile' \in BoardFile /\ slip' \subseteq Slips /\ slip \subseteq slip'
    BY <1>6, <2>1, BoardWritten DEF Clear, BoardTypeOK
  <2> QED
    BY <1>6, <2>2, EndsIs DEF Clear, BoardTypeOK
<1>7. CASE KillBoard(b)
  <2>1. spare' \in Allowance /\ build' + spare'.update <= MaxUpdate
    BY <1>7, UsesIs DEF KillBoard
  <2> QED
    BY <1>7, <2>1, EndsIs DEF KillBoard, BoardTypeOK
<1>8. ASSUME NEW r \in Retro, Click(b, r)
      PROVE  BoardTypeOK' /\ slip \subseteq slip'
  <2>1. slip' \subseteq Slips /\ slip \subseteq slip'
    BY <1>8 DEF Click, BoardTypeOK, Slips
  <2>2. spare' \in Allowance /\ build' + spare'.update <= MaxUpdate
    BY <1>8, UsesIs DEF Click
  <2> QED
    BY <1>8, <2>1, <2>2, ClickIs DEF Click, BoardTypeOK
<1>9. ASSUME NEW r \in Retro, ShowRun(b, r)
      PROVE  BoardTypeOK' /\ slip \subseteq slip'
  BY <1>9 DEF ShowRun, BoardTypeOK, ViewRec, ViewStep
<1> QED
  BY <1>1, <1>2, <1>3, <1>4, <1>5, <1>6, <1>7, <1>8, <1>9 DEF BoardStepOf

LEMMA TypeRetro ==
  ASSUME BoardTypeOK, RetroShape, NEW r \in Retro, RetroStepOf(r)
  PROVE  BoardTypeOK' /\ slip \subseteq slip'
<1>0. Held(r) => retro[r].by \in Board
  BY DEF RetroShape
<1>1. CASE StartWorker(r)
  <2>1. Held(r)
    BY <1>1 DEF StartWorker, Held, HeldSteps, Runs
  <2> QED
    BY <1>0, <1>1, <2>1, StartWorkerIs, RunIs DEF StartWorker, BoardTypeOK
<1>2. CASE LoadRow(r)
  BY <1>2, LoadRowIs DEF LoadRow, BoardTypeOK
<1>3. CASE WorkerExits(r)
  BY <1>3, WorkerExitsIs DEF WorkerExits, BoardTypeOK
<1>4. CASE Watched(r)
  BY <1>4, WatchedIs DEF Watched, BoardTypeOK
<1>5. CASE SaveRow(r)
  <2>1. retro[r].copy \in BoardFile
    BY DEF BoardTypeOK, RetroRec
  <2>2. boardFile' \in BoardFile /\ slip' \subseteq Slips /\ slip \subseteq slip'
    BY <1>5, <2>1, RowWritten DEF SaveRow, RowState
  <2> QED
    BY <1>5, <2>2, SaveRowIs DEF SaveRow, BoardTypeOK
<1>6. CASE EndRow(r)
  <2>1. retro[r].copy \in BoardFile
    BY DEF BoardTypeOK, RetroRec
  <2>2. boardFile' \in BoardFile /\ slip' \subseteq Slips /\ slip \subseteq slip'
    BY <1>6, <2>1, EndWritten DEF EndRow
  <2>3. Held(r)
    BY <1>6 DEF EndRow, Held, HeldSteps, Runs
  <2>4. board' \in [Board -> BoardRec]
    <3> DEFINE a == retro[r].by
               q == IF board[a].run = r THEN NoRetro ELSE board[a].run
    <3>1. a \in Board
      BY <1>0, <2>3
    <3>2. q \in Retro \cup {NoRetro}
      BY <3>1 DEF BoardTypeOK, BoardRec
    <3>3. board' = [board EXCEPT ![a].run = q]
      BY <1>6, <3>1 DEF EndRow, BoardTypeOK
    <3> HIDE DEF q
    <3> QED
      BY <3>1, <3>2, <3>3, RunIs
  <2> QED
    BY <1>6, <2>2, <2>4, EndRowIs DEF EndRow, BoardTypeOK
<1> QED
  BY <1>1, <1>2, <1>3, <1>4, <1>5, <1>6 DEF RetroStepOf

Looking == SeeProcess \/ SeeOwner \/ SeeFreshRow \/ Shown

LEMMA TypeRest ==
  ASSUME BoardTypeOK, Looking \/ EditBoard
  PROVE  BoardTypeOK' /\ slip \subseteq slip'
<1>1. CASE Looking
  <2>1. view' \in ViewRec
    BY <1>1, NoViewIs DEF Looking, SeeProcess, SeeOwner, SeeFreshRow, Shown, BoardTypeOK,
       ViewRec, ViewStep
  <2> QED
    BY <1>1, <2>1 DEF Looking, SeeProcess, SeeOwner, SeeFreshRow, Shown, BoardTypeOK
<1>2. CASE EditBoard
  <2>1. spare' \in Allowance /\ build' \in Build /\ build' + spare'.update <= MaxUpdate
    BY <1>2, UsesIs DEF EditBoard
  <2> QED
    BY <1>2, <2>1 DEF EditBoard, BoardTypeOK
<1> QED
  BY <1>1, <1>2

-----------------------------------------------------------------------------
(* What the callers know                                                   *)

\* The steps of a caller keep its record in shape.
LEMMA ShapeCaller ==
  ASSUME BoardTypeOK, Shape, NEW c \in Caller, CallerStepOf(c)
  PROVE  CallerShape'
<1>1. CASE LockRefused(c)
  BY <1>1, QuitsIs, AwayIs DEF LockRefused, Shape, CallerShape, InLock, Doing, OthersCall
<1>2. CASE LookUp(c)
  <2>1. Doing(c, "look")
    BY <1>2 DEF LookUp
  <2> QED
    BY <1>2, <2>1, LookUpIs DEF Shape, CallerShape, InLock, Doing, OthersCall
<1>3. CASE Probe(c)
  BY <1>3, LeavesIs, ToIs, StepNames DEF Probe, Shape, CallerShape, InLock, Doing, OthersCall
<1>4. CASE Stopped(c)
  BY <1>4, ToIs, StepNames DEF Stopped, Shape, CallerShape, InLock, Doing, OthersCall
<1>5. CASE StopTooSlow(c)
  BY <1>5, GivesUpIs DEF StopTooSlow, Shape, CallerShape, InLock, Doing, OthersCall
<1>6. CASE Ready(c)
  BY <1>6, ToIs, StepNames DEF Ready, Shape, CallerShape, InLock, Doing, OthersCall
<1>7. CASE LoadBack(c)
  <2>1. Doing(c, "load")
    BY <1>7 DEF LoadBack
  <2> QED
    BY <1>7, <2>1, LoadBackIs DEF Shape, CallerShape, InLock, Doing, OthersCall
<1>8. CASE StopRefused(c)
  <2>1. Doing(c, "halt") \/ Doing(c, "ask")
    BY <1>8 DEF StopRefused, Asks
  <2> QED
    BY <1>8, <2>1, StopRefusedIs DEF Shape, CallerShape, InLock, Doing, OthersCall
<1>9. CASE RefusalRead(c)
  BY <1>9, GivesUpIs DEF RefusalRead, Shape, CallerShape, InLock, Doing, OthersCall
<1>10. CASE NobodyAnswers(c)
  BY <1>10, GivesUpIs DEF NobodyAnswers, Shape, CallerShape, InLock, Doing, OthersCall
<1>11. CASE Find(c)
  BY <1>11, FindIs, AwayIs DEF Find, Shape, CallerShape, InLock, Doing, OthersCall
<1>12. CASE TakeBoardLock(c)
  BY <1>12, ToIs, StepNames DEF TakeBoardLock, Shape, CallerShape, InLock, Doing, OthersCall
<1>13. CASE RemoveLock(c)
  BY <1>13, RemoveLockIs, AwayIs DEF RemoveLock, Shape, CallerShape, InLock, Doing, OthersCall
<1>14. CASE KillCaller(c)
  BY <1>14, QuitsIs, AwayIs DEF KillCaller, Shape, CallerShape, InLock, Doing, OthersCall
<1>15. CASE ProbeLate(c)
  BY <1>15, ToIs, StepNames DEF ProbeLate, Shape, CallerShape, InLock, Doing, OthersCall
<1>16. CASE Spawn(c)
  <2>1. Doing(c, "spawn")
    BY <1>16 DEF Spawn
  <2> QED
    BY <1>16, <2>1, SpawnIs DEF Shape, CallerShape, InLock, Doing, OthersCall
<1>17. CASE NotReady(c)
  BY <1>17, GivesUpIs DEF NotReady, Shape, CallerShape, InLock, Doing, OthersCall
<1>18. CASE SaveBack(c)
  BY <1>18, LeavesIs, StepNames DEF SaveBack, Shape, CallerShape, InLock, Doing, OthersCall
<1>19. CASE Register(c)
  BY <1>19, QuitsIs, AwayIs DEF Register, Shape, CallerShape, InLock, Doing, OthersCall
<1>20. CASE RemoveOldLock(c)
  BY <1>20 DEF RemoveOldLock, Shape, CallerShape, InLock, Doing
<1>21. CASE StopAccepted(c)
  BY <1>21, ToIs, QuitsIs, AwayIs, StepNames DEF StopAccepted, Shape, CallerShape, InLock,
     Doing, OthersCall, Asks
<1>22. CASE \E want \in Want : Serve(c, want)
  BY <1>22, ServeIs DEF Shape, CallerShape, InLock, Doing, OthersCall
<1> QED
  BY <1>1, <1>2, <1>3, <1>4, <1>5, <1>6, <1>7, <1>8, <1>9, <1>10, <1>11, <1>12, <1>13, <1>14,
     <1>15, <1>16, <1>17, <1>18, <1>19, <1>20, <1>21, <1>22 DEF CallerStepOf

\* Inside the lock there is no other.
LEMMA AloneInLock ==
  ASSUME CallersKnow, NEW c \in Caller, InLock(c)
  PROVE  /\ \A d \in Caller \ {c} : ~InLock(d)
         /\ ~Doing(c, "wait") => \A b \in Board : ~Booting(b)
<1>1. \A d \in Caller : InLock(d) => d = c
  <2>1. SUFFICES ASSUME NEW d \in Caller, InLock(d) PROVE d = c
    OBVIOUS
  <2>2. /\ boardLock = [kept |-> TRUE, by |-> {c}]
        /\ boardLock = [kept |-> TRUE, by |-> {d}]
    BY <2>1 DEF CallersKnow, LockHeld
  <2> QED
    BY <2>2
<1>2. boardLock # LeftAlone
  BY DEF CallersKnow, LockHeld, LeftAlone
<1>3. \A d \in Caller : Doing(d, "wait") => InLock(d)
  BY DEF Doing, InLock
<1> QED
  BY <1>1, <1>2, <1>3 DEF CallersKnow, BootNamed

\* A lock that names nobody has nobody inside.
LEMMA FreeOrLeft ==
  ASSUME CallersKnow, \A c \in Caller : ~InLock(c)
  PROVE  \A b \in Board : Booting(b) => boardLock = LeftAlone
BY DEF CallersKnow, BootNamed, InLock, Doing

LEMMA UnlockedMeans ==
  ASSUME CallersKnow, boardLock = Unlocked
  PROVE  (\A c \in Caller : ~InLock(c)) /\ \A b \in Board : ~Booting(b)
<1>1. \A c \in Caller : ~InLock(c)
  BY DEF CallersKnow, LockHeld, Unlocked
<1>2. boardLock # LeftAlone
  BY DEF Unlocked, LeftAlone
<1> QED
  BY <1>1, <1>2, FreeOrLeft

\* A caller takes a step that changes nothing but what it is doing itself.
LEMMA CallerMoves ==
  ASSUME CallersKnow, NEW c \in Caller, OthersCall(c), UNCHANGED <<boardLock, board>>,
         boardFile'.board = boardFile.board,
         InLock(c)' => InLock(c), ~Doing(c, "wait") \/ \A b \in Board : ~Booting(b), KnownTo(c)'
  PROVE  CallersKnow'
<1>1. \A d \in Caller : InLock(d)' => InLock(d)
  BY DEF OthersCall, InLock, Doing
<1>2. LockHeld'
  BY <1>1 DEF CallersKnow, LockHeld
<1>3. BootNamed'
  BY DEF CallersKnow, BootNamed, Booting, Doing, OthersCall
<1>4. Known'
  BY DEF CallersKnow, Known, KnownTo, OthersCall, Doing
<1>5. OneLive' /\ Recorded'
  BY DEF CallersKnow, OneLive, Recorded, Live, Booting
<1> QED
  BY <1>2, <1>3, <1>4, <1>5 DEF CallersKnow

\* The lock is left, or taken by a caller, while nobody is inside it.
LEMMA LockMoves ==
  ASSUME CallersKnow, NEW c \in Caller, OthersCall(c), UNCHANGED <<board, boardFile>>,
         \A d \in Caller \ {c} : ~InLock(d),
         InLock(c)' => boardLock' = [kept |-> TRUE, by |-> {c}],
         (\A b \in Board : ~Booting(b)) \/ boardLock' = LeftAlone,
         KnownTo(c)'
  PROVE  CallersKnow'
<1>1. LockHeld'
  BY DEF LockHeld, OthersCall, InLock, Doing
<1>2. BootNamed'
  BY DEF BootNamed, Booting
<1>3. Known'
  BY DEF CallersKnow, Known, KnownTo, OthersCall, Doing
<1>4. OneLive' /\ Recorded'
  BY DEF CallersKnow, OneLive, Recorded, Live, Booting
<1> QED
  BY <1>1, <1>2, <1>3, <1>4 DEF CallersKnow

\* The steps of a caller, one by one.
LEMMA KnowCaller ==
  ASSUME BoardTypeOK, Shape, CallersKnow, NEW c \in Caller, CallerStepOf(c), slip' = {}
  PROVE  CallersKnow'
<1>1. CASE LockRefused(c)
  <2>1. OthersCall(c) /\ UNCHANGED <<boardFile, boardLock, board>> /\ ~Doing(c, "wait")
    BY <1>1, QuitsIs, AwayIs DEF LockRefused, Doing
  <2>2. InLock(c)' => InLock(c)
    BY <1>1, QuitsIs, AwayIs DEF LockRefused, InLock, Doing, Shape, CallerShape
  <2>3. KnownTo(c)'
    BY <1>1, <2>1, QuitsIs, AwayIs DEF LockRefused, CallersKnow, Known, KnownTo, Doing, Is,
       Recorded
  <2> QED
    BY <2>1, <2>2, <2>3, CallerMoves
<1>2. CASE LookUp(c)
  <2>1. /\ OthersCall(c) /\ UNCHANGED <<boardFile, boardLock, board>> /\ ~Doing(c, "wait")
        /\ Doing(c, "look") /\ InLock(c)
    BY <1>2, LookUpIs DEF LookUp, Doing, InLock
  <2>2. KnownTo(c)'
    BY <1>2, <2>1, LookUpIs DEF CallersKnow, Known, KnownTo, Doing, Recorded
  <2> QED
    BY <2>1, <2>2, CallerMoves
<1>3. CASE Probe(c)
  <2>1. OthersCall(c) /\ UNCHANGED <<boardFile, boardLock, board>> /\ ~Doing(c, "wait")
    BY <1>3, LeavesIs, ToIs, StepNames DEF Probe, Doing
  <2>2. InLock(c)' => InLock(c)
    BY <1>3, LeavesIs, ToIs, StepNames DEF Probe, InLock, Doing, Shape, CallerShape
  <2>3. KnownTo(c)'
    BY <1>3, <2>1, LeavesIs, ToIs, StepNames DEF Probe, CallersKnow, Known, KnownTo, Doing,
       Is, Recorded
  <2> QED
    BY <2>1, <2>2, <2>3, CallerMoves
<1>4. CASE Stopped(c)
  <2>1. OthersCall(c) /\ UNCHANGED <<boardFile, boardLock, board>> /\ ~Doing(c, "wait")
    BY <1>4, ToIs, StepNames DEF Stopped, Doing, Up
  <2>2. InLock(c)' => InLock(c)
    BY <1>4, ToIs, StepNames DEF Stopped, InLock, Doing, Shape, CallerShape, Up
  <2>3. KnownTo(c)'
    BY <1>4, <2>1, ToIs, StepNames DEF Stopped, CallersKnow, Known, KnownTo, Doing, Is,
       Recorded, Up
  <2> QED
    BY <2>1, <2>2, <2>3, CallerMoves
<1>5. CASE StopTooSlow(c)
  <2>1. OthersCall(c) /\ UNCHANGED <<boardFile, boardLock, board>> /\ ~Doing(c, "wait")
    BY <1>5, GivesUpIs DEF StopTooSlow, Doing
  <2>2. InLock(c)' => InLock(c)
    BY <1>5, GivesUpIs DEF StopTooSlow, InLock, Doing, Shape, CallerShape
  <2>3. KnownTo(c)'
    BY <1>5, <2>1, GivesUpIs DEF StopTooSlow, CallersKnow, Known, KnownTo, Doing, Is, Recorded
  <2> QED
    BY <2>1, <2>2, <2>3, CallerMoves
<1>6. CASE LoadBack(c)
  <2>1. /\ OthersCall(c) /\ UNCHANGED <<boardFile, boardLock, board>> /\ ~Doing(c, "wait")
        /\ Doing(c, "load") /\ InLock(c)
    BY <1>6, LoadBackIs DEF LoadBack, Doing, InLock
  <2>2. KnownTo(c)'
    BY <1>6, <2>1, LoadBackIs DEF CallersKnow, Known, KnownTo, Doing, Recorded
  <2> QED
    BY <2>1, <2>2, CallerMoves
<1>7. CASE StopRefused(c)
  <2>1. OthersCall(c) /\ UNCHANGED <<boardFile, boardLock, board>> /\ ~Doing(c, "wait")
    BY <1>7, StopRefusedIs DEF StopRefused, Doing, Asks
  <2>2. InLock(c)' => InLock(c)
    <3>1. Doing(c, "halt") \/ Doing(c, "ask")
      BY <1>7 DEF StopRefused, Asks
    <3>2. caller'[c].step = "refused" /\ caller'[c].wants = caller[c].wants
      BY <1>7, StopRefusedIs
    <3> QED
      BY <3>1, <3>2 DEF InLock, Doing, Shape, CallerShape
  <2>3. KnownTo(c)'
    BY <1>7, <2>1, StopRefusedIs DEF StopRefused, CallersKnow, Known, KnownTo, Doing, Is,
       Recorded, Asks
  <2> QED
    BY <2>1, <2>2, <2>3, CallerMoves
<1>8. CASE RefusalRead(c)
  <2>1. OthersCall(c) /\ UNCHANGED <<boardFile, boardLock, board>> /\ ~Doing(c, "wait")
    BY <1>8, GivesUpIs DEF RefusalRead, Doing
  <2>2. InLock(c)' => InLock(c)
    BY <1>8, GivesUpIs DEF RefusalRead, InLock, Doing, Shape, CallerShape
  <2>3. KnownTo(c)'
    BY <1>8, <2>1, GivesUpIs DEF RefusalRead, CallersKnow, Known, KnownTo, Doing, Is, Recorded
  <2> QED
    BY <2>1, <2>2, <2>3, CallerMoves
<1>9. CASE NobodyAnswers(c)
  <2>1. OthersCall(c) /\ UNCHANGED <<boardFile, boardLock, board>> /\ ~Doing(c, "wait")
    BY <1>9, GivesUpIs DEF NobodyAnswers, Doing, Asks
  <2>2. InLock(c)' => InLock(c)
    BY <1>9, GivesUpIs DEF NobodyAnswers, InLock, Doing, Shape, CallerShape, Asks
  <2>3. KnownTo(c)'
    BY <1>9, <2>1, GivesUpIs DEF NobodyAnswers, CallersKnow, Known, KnownTo, Doing, Is,
       Recorded, Asks
  <2> QED
    BY <2>1, <2>2, <2>3, CallerMoves
<1>10. CASE Find(c)
  <2>1. OthersCall(c) /\ UNCHANGED <<boardFile, boardLock, board>> /\ ~Doing(c, "wait")
    BY <1>10, FindIs, AwayIs DEF Find, Doing
  <2>2. InLock(c)' => InLock(c)
    BY <1>10, FindIs, AwayIs DEF Find, InLock, Doing, Shape, CallerShape
  <2>3. KnownTo(c)'
    BY <1>10, <2>1, FindIs, AwayIs DEF Find, CallersKnow, Known, KnownTo, Doing, Is, Recorded
  <2> QED
    BY <2>1, <2>2, <2>3, CallerMoves
<1>11. CASE Ready(c)
  <2>1. /\ OthersCall(c) /\ UNCHANGED <<boardFile, boardLock, board>> /\ Doing(c, "wait")
        /\ caller'[c].step = "load" /\ caller'[c].child = caller[c].child
        /\ Is(caller[c].child, "serving")
    BY <1>11, ToIs, StepNames DEF Ready
  <2>2. InLock(c)
    BY <2>1 DEF InLock, Doing
  <2>3. \A b \in Board : ~Booting(b)
    <3>1. SUFFICES ASSUME NEW b \in Board, Booting(b) PROVE FALSE
      OBVIOUS
    <3>2. boardLock = [kept |-> TRUE, by |-> {c}]
      BY <2>2 DEF CallersKnow, LockHeld
    <3>3. PICK d \in Caller : Doing(d, "wait") /\ caller[d].child = b
      BY <3>1, <3>2 DEF CallersKnow, BootNamed, LeftAlone
    <3>4. d = c
      BY <2>2, <3>3, AloneInLock DEF InLock, Doing
    <3> QED
      BY <2>1, <3>1, <3>3, <3>4 DEF Is, Booting
  <2>4. KnownTo(c)'
    BY <2>1 DEF CallersKnow, Known, KnownTo, Doing, Is
  <2> QED
    BY <2>1, <2>2, <2>3, <2>4, CallerMoves
<1>12. CASE \E want \in Want : Serve(c, want)
  <2>1. PICK want \in Want : Serve(c, want)
    BY <1>12
  <2>2. /\ OthersCall(c) /\ UNCHANGED <<boardFile, boardLock, board>> /\ ~Doing(c, "wait")
        /\ caller'[c].step \in {"find", "lock"}
    BY <2>1, ServeIs DEF Serve, Doing
  <2> QED
    BY <2>2, CallerMoves DEF KnownTo, InLock, Doing
<1>13. CASE TakeBoardLock(c)
  <2>1. /\ OthersCall(c) /\ UNCHANGED <<boardFile, board>> /\ boardLock = Unlocked
        /\ boardLock' = [kept |-> TRUE, by |-> {c}] /\ caller'[c].step = "look"
    BY <1>13, ToIs, StepNames DEF TakeBoardLock
  <2> QED
    BY <2>1, UnlockedMeans, LockMoves DEF KnownTo, InLock, Doing
<1>14. CASE RemoveLock(c)
  <2>1. /\ OthersCall(c) /\ UNCHANGED <<boardFile, board>> /\ InLock(c) /\ ~Doing(c, "wait")
        /\ caller'[c].step \in {"idle", "register"}
    BY <1>14, RemoveLockIs, AwayIs DEF RemoveLock, InLock, Doing
  <2> QED
    BY <2>1, AloneInLock, LockMoves DEF KnownTo, InLock, Doing
<1>15. CASE KillCaller(c)
  <2>1. /\ OthersCall(c) /\ UNCHANGED <<boardFile, board>>
        /\ boardLock' = IF boardLock.by = {c} THEN LeftAlone ELSE boardLock
        /\ caller'[c].step = "idle"
    BY <1>15, QuitsIs, AwayIs DEF KillCaller
  <2>2. CASE InLock(c)
    <3>1. boardLock' = LeftAlone
      BY <2>1, <2>2 DEF CallersKnow, LockHeld
    <3> QED
      BY <2>1, <2>2, <3>1, AloneInLock, LockMoves DEF KnownTo, InLock, Doing
  <2>3. CASE ~InLock(c)
    <3>1. ~Doing(c, "wait")
      BY <2>3 DEF InLock, Doing
    <3>2. CASE boardLock.by = {c}
      <4>1. \A d \in Caller : ~InLock(d)
        <5>1. SUFFICES ASSUME NEW d \in Caller, InLock(d) PROVE FALSE
          OBVIOUS
        <5>2. boardLock = [kept |-> TRUE, by |-> {d}]
          BY <5>1 DEF CallersKnow, LockHeld
        <5>3. d = c
          BY <3>2, <5>2
        <5> QED
          BY <2>3, <5>1, <5>3
      <4>2. boardLock' = LeftAlone
        BY <2>1, <3>2
      <4> QED
        BY <2>1, <4>1, <4>2, LockMoves DEF KnownTo, InLock, Doing
    <3>3. CASE boardLock.by # {c}
      BY <2>1, <3>1, <3>3, CallerMoves DEF KnownTo, InLock, Doing
    <3> QED
      BY <3>2, <3>3
  <2> QED
    BY <2>2, <2>3
<1>16. CASE ProbeLate(c)
  BY <1>16, SlipIs, SlipNames DEF ProbeLate
<1>17. CASE RemoveOldLock(c)
  <2>1. boardLock.by = {} /\ (\A b \in Board : ~Booting(b)) /\ UNCHANGED <<boardFile, caller, board>>
    BY <1>17, SlipIs, SlipNames DEF RemoveOldLock
  <2>2. \A d \in Caller : ~InLock(d)
    BY <2>1 DEF CallersKnow, LockHeld
  <2>3. KnownTo(c)' /\ OthersCall(c)
    BY <2>1 DEF CallersKnow, Known, KnownTo, Doing, Is, OthersCall
  <2> QED
    BY <2>1, <2>2, <2>3, LockMoves DEF InLock, Doing
<1>18. CASE Spawn(c)
  <2>1. Doing(c, "spawn") /\ UNCHANGED <<boardFile, boardLock>> /\ InLock(c)
    BY <1>18 DEF Spawn, InLock, Doing
  <2>2. \A a \in Board : ~Live(a)
    BY <2>1, AloneInLock DEF CallersKnow, Known, KnownTo, Live, Doing
  <2>3. PICK b \in Board :
          /\ OthersCall(c)
          /\ caller'[c].step = "wait" /\ caller'[c].wants = caller[c].wants
          /\ caller'[c].child = b
          /\ OthersServe(b) /\ board'[b].step = "booting"
    BY <1>18, SpawnIs
  <2>4. \A a \in Board : Live(a)' => a = b
    BY <2>2, <2>3 DEF Live, Booting, OthersServe
  <2>5. \A a \in Board : board'[a].step # "serving"
    BY <2>2, <2>3 DEF Live, OthersServe
  <2>6. LockHeld'
    BY <2>1, <2>3 DEF CallersKnow, LockHeld, InLock, Doing, OthersCall
  <2>7. BootNamed' /\ OneLive'
    BY <2>3, <2>4 DEF BootNamed, OneLive, Live, Doing
  <2> QED
    BY <2>5, <2>6, <2>7 DEF CallersKnow, Known, KnownTo, Recorded
<1>19. CASE NotReady(c)
  <2> DEFINE b == caller[c].child
  <2>1. /\ Doing(c, "wait") /\ GivesUp(c) /\ UNCHANGED <<boardFile, boardLock>> /\ b \in Board
        /\ InLock(c)
    BY <1>19 DEF NotReady, Shape, CallerShape, Doing, InLock
  <2>2. /\ \A a \in Board \ {b} : board'[a] = board[a]
        /\ board'[b].step \notin {"booting", "bound", "recording", "serving"}
    BY <1>19, <2>1, EndsIs DEF NotReady, Up, OthersServe
  <2>3. OthersCall(c) /\ caller'[c].step \in {"idle", "leave"}
    BY <2>1, GivesUpIs
  <2>4. \A a \in Board : ~Booting(a)'
    <3>1. SUFFICES ASSUME NEW a \in Board, Booting(a)' PROVE FALSE
      OBVIOUS
    <3>2. a # b /\ Booting(a)
      BY <2>2, <3>1 DEF Booting
    <3>3. boardLock = [kept |-> TRUE, by |-> {c}]
      BY <2>1 DEF CallersKnow, LockHeld
    <3>4. PICK d \in Caller : Doing(d, "wait") /\ caller[d].child = a
      BY <3>2, <3>3 DEF CallersKnow, BootNamed, LeftAlone
    <3>5. d = c
      BY <2>1, <3>4, AloneInLock DEF InLock, Doing
    <3> QED
      BY <3>2, <3>4, <3>5
  <2>5. \A a \in Board : board'[a].step = "serving" => board[a].step = "serving"
    BY <2>2
  <2>6. LockHeld'
    BY <2>1, <2>3 DEF CallersKnow, LockHeld, InLock, Doing, OthersCall
  <2>7. BootNamed' /\ OneLive' /\ Recorded'
    BY <2>1, <2>4, <2>5 DEF CallersKnow, BootNamed, OneLive, Recorded, Live
  <2>8. Known'
    BY <2>3, <2>5 DEF CallersKnow, Known, KnownTo, OthersCall, Doing
  <2> QED
    BY <2>6, <2>7, <2>8 DEF CallersKnow
<1>20. CASE SaveBack(c)
  <2>1. caller[c].copy \in BoardFile /\ caller[c].child \in Board
    BY <1>20 DEF SaveBack, Doing, BoardTypeOK, CallerRec, Shape, CallerShape
  <2>2. boardFile'.board = caller[c].child
    BY <1>20, <2>1, BoardWritten DEF SaveBack
  <2>3. Doing(c, "save") /\ OthersCall(c) /\ caller'[c].step = "open"
        /\ caller'[c].wants = caller[c].wants /\ UNCHANGED <<boardLock, board>>
    BY <1>20, LeavesIs, StepNames DEF SaveBack
  <2>4. \A a \in Board : board[a].step = "serving" => a = caller[c].child
    BY <2>3 DEF CallersKnow, Known, KnownTo, Doing
  <2>5. \A a \in Board : ~Booting(a)
    BY <2>3, AloneInLock DEF InLock, Doing
  <2>6. LockHeld'
    BY <2>3 DEF CallersKnow, LockHeld, InLock, Doing, OthersCall
  <2>7. BootNamed' /\ OneLive' /\ Recorded'
    BY <2>2, <2>3, <2>4, <2>5 DEF CallersKnow, BootNamed, OneLive, Recorded, Live, Booting
  <2>8. Known'
    BY <2>3 DEF CallersKnow, Known, KnownTo, OthersCall, Doing
  <2> QED
    BY <2>6, <2>7, <2>8 DEF CallersKnow
<1>21. CASE Register(c)
  <2>1. caller[c].copy \in BoardFile
    BY DEF BoardTypeOK, CallerRec
  <2>2. boardFile'.board = boardFile.board
    BY <1>21, <2>1, ReviewWritten DEF Register
  <2>3. /\ OthersCall(c) /\ UNCHANGED <<boardLock, board>> /\ ~Doing(c, "wait")
        /\ caller'[c].step = "idle"
    BY <1>21, QuitsIs, AwayIs DEF Register, Doing
  <2> QED
    BY <2>2, <2>3, CallerMoves DEF KnownTo, InLock, Doing
<1>22. CASE StopAccepted(c)
  <2> DEFINE t == caller[c].target
  <2>1. t \in Board /\ OthersServe(t) /\ board'[t].step = board[t].step
    BY <1>22, ToldIs DEF StopAccepted, Is
  <2>2. \A b \in Board : board'[b].step = board[b].step
    BY <2>1 DEF OthersServe
  <2>3. UNCHANGED <<boardFile, boardLock>> /\ caller[c].step \in {"halt", "ask"}
    BY <1>22 DEF StopAccepted, Asks, Doing
  <2>4. /\ OthersCall(c)
        /\ \/ caller'[c].step = "idle"
           \/ /\ caller[c].step = "halt" /\ caller'[c].step = "await"
              /\ caller'[c].target = caller[c].target
    <3>1. CASE caller[c].wants = "stop"
      BY <1>22, <3>1, QuitsIs, AwayIs DEF StopAccepted
    <3>2. CASE caller[c].wants # "stop"
      BY <1>22, <2>3, <3>2, ToIs, StepNames DEF StopAccepted, Shape, CallerShape
    <3> QED
      BY <3>1, <3>2
  <2>5. LockHeld'
    BY <2>3, <2>4 DEF CallersKnow, LockHeld, InLock, Doing, OthersCall
  <2>6. BootNamed'
    BY <2>2, <2>3, <2>4 DEF CallersKnow, BootNamed, Booting, Doing, OthersCall
  <2>7. OneLive' /\ Recorded'
    BY <2>2, <2>3 DEF CallersKnow, OneLive, Recorded, Live, Booting
  <2>8. KnownTo(c)'
    BY <2>2, <2>3, <2>4 DEF CallersKnow, Known, KnownTo, Doing
  <2>9. Known'
    BY <2>2, <2>4, <2>8 DEF CallersKnow, Known, KnownTo, Doing, OthersCall
  <2> QED
    BY <2>5, <2>6, <2>7, <2>9 DEF CallersKnow
<1> QED
  BY <1>1, <1>2, <1>3, <1>4, <1>5, <1>6, <1>7, <1>8, <1>9, <1>10, <1>11, <1>12, <1>13, <1>14,
     <1>15, <1>16, <1>17, <1>18, <1>19, <1>20, <1>21, <1>22 DEF CallerStepOf

\* A board takes a step that changes nothing but its own step, not to serving.
LEMMA BoardMoves ==
  ASSUME CallersKnow, NEW b \in Board, OthersServe(b), UNCHANGED <<caller, boardLock>>,
         Booting(b)' => Booting(b), Live(b)' => Live(b),
         board'[b].step = "serving" => board[b].step = "serving",
         boardFile'.board = boardFile.board
           \/ (boardFile.board = b /\ board'[b].step # "serving")
  PROVE  CallersKnow'
<1>1. \A a \in Board : /\ Booting(a)' => Booting(a)
                       /\ Live(a)' => Live(a)
                       /\ board'[a].step = "serving" => board[a].step = "serving"
  BY DEF OthersServe, Booting, Live
<1>2. LockHeld'
  BY DEF CallersKnow, LockHeld, InLock, Doing
<1>3. BootNamed'
  BY <1>1 DEF CallersKnow, BootNamed, Doing
<1>4. OneLive'
  BY <1>1 DEF CallersKnow, OneLive
<1>5. Known'
  BY <1>1 DEF CallersKnow, Known, KnownTo, Doing
<1>6. Recorded'
  BY <1>1 DEF CallersKnow, Recorded
<1> QED
  BY <1>2, <1>3, <1>4, <1>5, <1>6 DEF CallersKnow

\* The steps of a board, one by one.
LEMMA KnowBoard ==
  ASSUME BoardTypeOK, Shape, CallersKnow, NEW b \in Board, BoardStepOf(b), slip' = {}
  PROVE  CallersKnow'
<1>1. CASE Boot(b)
  <2>1. /\ UNCHANGED <<boardFile, caller, boardLock>> /\ OthersServe(b)
        /\ board[b].step = "booting" /\ board'[b].step = "bound"
    BY <1>1, BootIs DEF Boot, Is
  <2> QED
    BY <2>1, BoardMoves DEF Booting, Live
<1>2. CASE RecordRead(b)
  <2>1. /\ UNCHANGED <<boardFile, caller, boardLock>> /\ OthersServe(b)
        /\ board[b].step = "bound" /\ board'[b].step = "recording"
    BY <1>2, RecordReadIs DEF RecordRead, Is
  <2> QED
    BY <2>1, BoardMoves DEF Booting, Live
<1>3. CASE ClearRead(b)
  <2>1. /\ UNCHANGED <<boardFile, caller, boardLock>> /\ OthersServe(b)
        /\ board[b].step = "closing" /\ board'[b].step = "clearing"
    BY <1>3, ClearReadIs DEF ClearRead, Is
  <2> QED
    BY <2>1, BoardMoves DEF Booting, Live
<1>4. CASE Shutdown(b)
  <2>1. /\ UNCHANGED <<boardFile, caller, boardLock>> /\ OthersServe(b)
        /\ board[b].step = "serving" /\ board'[b].step = "closing"
    BY <1>4, TurnsIs, StepNames DEF Shutdown, Is
  <2> QED
    BY <2>1, BoardMoves DEF Booting, Live
<1>5. CASE RecordSelf(b)
  <2>1. board[b].copy \in BoardFile
    BY DEF BoardTypeOK, BoardRec
  <2>2. boardFile'.board = b
    BY <1>5, <2>1, BoardWritten DEF RecordSelf
  <2>3. /\ UNCHANGED <<boardLock, caller>> /\ board[b].step = "recording"
        /\ OthersServe(b) /\ board'[b].step = "serving"
    BY <1>5, RecordSelfIs DEF RecordSelf, Is
  <2>4. \A a \in Board : Live(a)' => Live(a)
    BY <2>3 DEF Live, Booting, OthersServe
  <2>5. \A a \in Board : Live(a) => a = b
    BY <2>3 DEF CallersKnow, OneLive, Live, Booting
  <2>6. LockHeld'
    BY <2>3 DEF CallersKnow, LockHeld, InLock, Doing
  <2>7. \A a \in Board : ~Booting(a)'
    BY <2>3, <2>4, <2>5 DEF Live, Booting
  <2>8. BootNamed' /\ OneLive' /\ Recorded'
    BY <2>2, <2>4, <2>5, <2>7 DEF BootNamed, OneLive, Recorded, Live
  <2>9. \A c \in Caller : InLock(c) => Doing(c, "wait") /\ caller[c].child = b
    <3>1. SUFFICES ASSUME NEW c \in Caller, InLock(c)
                   PROVE  Doing(c, "wait") /\ caller[c].child = b
      OBVIOUS
    <3>2. boardLock # LeftAlone
      BY <3>1 DEF CallersKnow, LockHeld, LeftAlone
    <3>3. PICK d \in Caller : Doing(d, "wait") /\ caller[d].child = b
      BY <2>3, <3>2 DEF CallersKnow, BootNamed, Booting
    <3> QED
      BY <3>1, <3>3, AloneInLock DEF InLock, Doing
  <2>10. Known'
    <3>1. SUFFICES ASSUME NEW c \in Caller, NEW a \in Board, board'[a].step = "serving"
                   PROVE  /\ caller[c].step \in {"probe", "halt", "await"} => a = caller[c].target
                          /\ ~Doing(c, "spawn")
                          /\ caller[c].step \in {"wait", "load", "save"} => a = caller[c].child
      BY <2>3 DEF Known, KnownTo, Doing
    <3>2. a = b
      BY <2>4, <2>5, <3>1 DEF Live
    <3> QED
      BY <2>9, <3>2 DEF InLock, Doing
  <2> QED
    BY <2>6, <2>8, <2>10 DEF CallersKnow
<1>6. CASE Clear(b)
  <2>1. board[b].copy \in BoardFile
    BY DEF BoardTypeOK, BoardRec
  <2>2. OthersServe(b) /\ board'[b].step = "gone" /\ board[b].step = "clearing"
        /\ UNCHANGED <<boardLock, caller>>
    BY <1>6, EndsIs DEF Clear, Is
  <2>3. boardFile.board # b => boardFile'.board = boardFile.board
    BY <1>6, <2>1, BoardWritten DEF Clear, BoardTypeOK
  <2> QED
    BY <2>2, <2>3, BoardMoves DEF Booting, Live
<1>7. CASE KillBoard(b)
  <2>1. /\ OthersServe(b) /\ board'[b].step = "gone"
        /\ UNCHANGED <<boardFile, boardLock, caller>>
    BY <1>7, EndsIs DEF KillBoard
  <2> QED
    BY <2>1, BoardMoves DEF Booting, Live
<1>8. ASSUME NEW r \in Retro, Click(b, r) \/ ShowRun(b, r)
      PROVE  CallersKnow'
  <2>1. UNCHANGED <<boardFile, boardLock, caller, board>>
    BY <1>8 DEF Click, ShowRun
  <2> QED
    BY <2>1, BoardMoves DEF Booting, Live, OthersServe
<1> QED
  BY <1>1, <1>2, <1>3, <1>4, <1>5, <1>6, <1>7, <1>8 DEF BoardStepOf

\* The steps of a run leave the callers in the right.
LEMMA KnowRetro ==
  ASSUME BoardTypeOK, Shape, CallersKnow, NEW r \in Retro, RetroStepOf(r), slip' = {}
  PROVE  CallersKnow'
<1>0. Held(r) => retro[r].by \in Board
  BY DEF Shape, RetroShape
<1>1. \A b \in Board : board'[b].step = board[b].step
  <2>1. CASE StartWorker(r)
    BY <1>0, <2>1, RunIs DEF StartWorker, Held, HeldSteps, Runs, OthersServe
  <2>2. CASE EndRow(r)
    BY <2>2, <1>0 DEF EndRow, Held, HeldSteps, Runs, BoardTypeOK
  <2>3. CASE LoadRow(r) \/ SaveRow(r) \/ WorkerExits(r) \/ Watched(r)
    BY <2>3 DEF LoadRow, SaveRow, WorkerExits, Watched
  <2> QED
    BY <2>1, <2>2, <2>3 DEF RetroStepOf
<1>2. boardFile'.board = boardFile.board
  <2>1. retro[r].copy \in BoardFile
    BY DEF BoardTypeOK, RetroRec
  <2>2. CASE SaveRow(r)
    BY <2>1, <2>2, RowWritten DEF SaveRow, RowState
  <2>3. CASE EndRow(r)
    BY <2>1, <2>3, EndWritten DEF EndRow
  <2>4. CASE LoadRow(r) \/ StartWorker(r) \/ WorkerExits(r) \/ Watched(r)
    BY <2>4 DEF LoadRow, StartWorker, WorkerExits, Watched
  <2> QED
    BY <2>2, <2>3, <2>4 DEF RetroStepOf
<1>3. UNCHANGED <<boardLock, caller>>
  BY DEF RetroStepOf, LoadRow, StartWorker, WorkerExits, Watched, SaveRow, EndRow
<1> QED
  BY <1>1, <1>2, <1>3 DEF CallersKnow, LockHeld, BootNamed, OneLive, Known, KnownTo, Recorded,
     InLock, Live, Booting, Doing, Is, OthersCall

-----------------------------------------------------------------------------
(* What the boards know of their runs                                      *)

SameRuns(b) == /\ board'[b].step = board[b].step /\ board'[b].told = board[b].told
               /\ board'[b].killed = board[b].killed /\ board'[b].run = board[b].run

\* No run is at stake: only boards that serve one, or are gone, must stay the same.
LEMMA RunsFrame ==
  ASSUME Shape, RunsKnown, UNCHANGED <<retro, view>>, boardFile'.row = boardFile.row,
         \A b \in Board : \/ SameRuns(b)
                          \/ /\ board[b].step # "gone"
                             /\ \A r \in Retro : Held(r) => retro[r].by # b
  PROVE  RetroShape' /\ ViewShape' /\ RunsKnown'
<1>1. \A r \in Retro : Held(r)' = Held(r)
  BY DEF Held
<1>2. RetroShape' /\ ViewShape'
  BY DEF Shape, RetroShape, ViewShape, Held, Runs
<1>3. HeldServed'
  <2>1. SUFFICES ASSUME NEW r \in Retro, Held(r)
                 PROVE  /\ board'[retro[r].by].step = "serving" /\ ~board'[retro[r].by].told
                        /\ ~Runs(r, "launch") => board'[retro[r].by].run = r
    BY <1>1 DEF HeldServed, Runs
  <2>2. retro[r].by \in Board
    BY <2>1 DEF Shape, RetroShape
  <2> QED
    BY <2>1, <2>2 DEF RunsKnown, HeldServed, SameRuns
<1>4. LostKilled'
  BY DEF RunsKnown, LostKilled, SameRuns, Shape, RetroShape, Runs
<1>5. HeldOnce' /\ RowsFollow' /\ ViewFollows'
  BY <1>1 DEF RunsKnown, HeldOnce, RowsFollow, ViewFollows, Runs
<1> QED
  BY <1>2, <1>3, <1>4, <1>5 DEF RunsKnown

\* A board ends: shape first, then the runs.
LEMMA EndsShape ==
  ASSUME BoardTypeOK, Shape, NEW b \in Board, NEW k \in BOOLEAN, Ends(b, k)
  PROVE  RetroShape' /\ ViewShape'
<1>1. /\ \A r \in Retro :
              \/ /\ Held(r) /\ retro[r].by = b
                 /\ retro'[r].step = "lost" /\ retro'[r].by = b
              \/ ~(Held(r) /\ retro[r].by = b) /\ retro'[r] = retro[r]
      /\ view' = IF view.by = b THEN NoView ELSE view
  BY EndsIs
<1> QED
  BY <1>1, NoViewIs DEF Shape, RetroShape, ViewShape, Held, Runs

LEMMA RunsEnd ==
  ASSUME BoardTypeOK, Shape, RunsKnown, NEW b \in Board, NEW k \in BOOLEAN, Ends(b, k),
         board[b].step # "gone", boardFile'.row = boardFile.row,
         k \/ board[b].step # "serving"
  PROVE  RunsKnown'
<1>1. /\ OthersServe(b) /\ board'[b].step = "gone" /\ board'[b].killed = k
      /\ \A r \in Retro :
           \/ /\ Held(r) /\ retro[r].by = b
              /\ retro'[r].step = "lost" /\ retro'[r].by = b
           \/ ~(Held(r) /\ retro[r].by = b) /\ retro'[r] = retro[r]
      /\ view' = IF view.by = b THEN NoView ELSE view
  BY EndsIs
<1>2. \A r \in Retro : Held(r)' => Held(r) /\ retro[r].by # b /\ retro'[r] = retro[r]
  BY <1>1 DEF Held, HeldSteps
<1>3. HeldServed'
  <2>1. SUFFICES ASSUME NEW r \in Retro, Held(r)'
                 PROVE  /\ board'[retro[r].by].step = "serving" /\ ~board'[retro[r].by].told
                        /\ ~Runs(r, "launch") => board'[retro[r].by].run = r
    BY <1>2 DEF HeldServed, Runs
  <2>2. retro[r].by \in Board /\ retro[r].by # b /\ Held(r)
    BY <1>2, <2>1 DEF Shape, RetroShape
  <2> QED
    BY <1>1, <2>2 DEF RunsKnown, HeldServed, OthersServe
<1>4. HeldOnce'
  BY <1>2 DEF RunsKnown, HeldOnce
<1>5. LostKilled'
  <2>1. SUFFICES ASSUME NEW r \in Retro, Runs(r, "lost")'
                 PROVE  board'[retro'[r].by].step = "gone" /\ board'[retro'[r].by].killed
    BY DEF LostKilled
  <2>2. CASE Held(r) /\ retro[r].by = b
    <3>1. board[b].step = "serving"
      BY <2>2 DEF RunsKnown, HeldServed
    <3>2. retro'[r].by = b
      BY <1>1, <2>2
    <3> QED
      BY <1>1, <3>1, <3>2
  <2>3. CASE ~(Held(r) /\ retro[r].by = b)
    <3>1. Runs(r, "lost") /\ retro'[r] = retro[r]
      BY <1>1, <2>1, <2>3 DEF Runs
    <3>2. retro[r].by \in Board /\ retro[r].by # b
      BY <3>1 DEF Shape, RetroShape, RunsKnown, LostKilled
    <3> QED
      BY <1>1, <3>1, <3>2 DEF RunsKnown, LostKilled, OthersServe
  <2> QED
    BY <2>2, <2>3
<1>6. RowsFollow'
  BY <1>1 DEF RunsKnown, RowsFollow, Runs, Held, HeldSteps
<1>7. ViewFollows'
  <2>1. SUFFICES ASSUME view'.step # "none", view' = view, view.by # b
                 PROVE  ViewFollows'
    BY <1>1, NoViewIs DEF ViewFollows
  <2>2. view.run \in Retro /\ ~(Held(view.run) /\ retro[view.run].by = b)
    BY <2>1 DEF Shape, ViewShape, RunsKnown, ViewFollows, Held, HeldSteps
  <2>3. retro'[view.run] = retro[view.run]
    BY <1>1, <2>2
  <2> QED
    BY <2>1, <2>3 DEF RunsKnown, ViewFollows, Runs
<1> QED
  BY <1>3, <1>4, <1>5, <1>6, <1>7 DEF RunsKnown

\* The steps of a caller, as the runs see them.
LEMMA RunsCaller ==
  ASSUME BoardTypeOK, Shape, NEW c \in Caller, CallerStepOf(c)
  PROVE  RetroShape' /\ ViewShape' /\ (RunsKnown /\ slip = {} /\ slip' = {} => RunsKnown')
<1>1. CASE NotReady(c)
  <2> DEFINE b == caller[c].child
  <2>1. b \in Board /\ boardFile' = boardFile
    BY <1>1 DEF NotReady, Shape, CallerShape, Doing
  <2>2. CASE Up(b)
    <3>1. Ends(b, TRUE) /\ board[b].step # "gone"
      BY <1>1, <2>2 DEF NotReady, Up
    <3> HIDE DEF b
    <3> QED
      BY <2>1, <3>1, EndsShape, RunsEnd
  <2>3. CASE ~Up(b)
    <3>1. UNCHANGED <<retro, view, board, boardFile>>
      BY <1>1, <2>3 DEF NotReady
    <3>2. RetroShape' /\ ViewShape'
      BY <3>1 DEF Shape, RetroShape, ViewShape, Held, Runs
    <3> QED
      BY <3>1, <3>2, RunsFrame DEF SameRuns
  <2> QED
    BY <2>2, <2>3
<1>2. CASE ~NotReady(c)
  <2>1. UNCHANGED <<retro, view>>
    BY <1>2 DEF CallerStepOf, Serve, TakeBoardLock, RemoveOldLock, LockRefused, LookUp, Probe,
                ProbeLate, Stopped, StopTooSlow, Spawn, Ready, LoadBack, SaveBack, RemoveLock, Register,
                KillCaller, Find, StopAccepted, StopRefused, RefusalRead, NobodyAnswers
  <2>2. RetroShape' /\ ViewShape'
    BY <2>1 DEF Shape, RetroShape, ViewShape, Held, Runs
  <2>3. ASSUME slip' = {}
        PROVE  boardFile'.row = boardFile.row
    <3>0. caller[c].copy \in BoardFile /\ caller[c].child \in Board \cup {NoBoard}
      BY DEF BoardTypeOK, CallerRec
    <3>1. CASE SaveBack(c)
      BY <2>3, <3>0, <3>1, BoardWritten DEF SaveBack
    <3>2. CASE Register(c)
      BY <2>3, <3>0, <3>2, ReviewWritten DEF Register
    <3>3. CASE ~SaveBack(c) /\ ~Register(c)
      BY <1>2, <3>3 DEF CallerStepOf, Serve, TakeBoardLock, RemoveOldLock, LockRefused, LookUp,
                Probe, ProbeLate, Stopped, StopTooSlow, Spawn, Ready, LoadBack, RemoveLock,
                KillCaller, Find, StopAccepted, StopRefused, RefusalRead, NobodyAnswers
    <3> QED
      BY <3>1, <3>2, <3>3
  <2>4. ASSUME RunsKnown, slip = {}, slip' = {}
        PROVE  RunsKnown'
    <3>1. CASE Spawn(c)
      <4>1. PICK b \in Board : board[b].step = "none" /\ OthersServe(b)
        BY <3>1, SpawnIs
      <4>2. \A r \in Retro : Held(r) => retro[r].by # b
        BY <4>1, <2>4 DEF RunsKnown, HeldServed
      <4>3. \A a \in Board \ {b} : SameRuns(a)
        BY <4>1 DEF OthersServe, SameRuns
      <4> QED
        BY <2>1, <2>3, <2>4, <4>1, <4>2, <4>3, RunsFrame
    <3>2. CASE StopAccepted(c)
      <4> DEFINE t == caller[c].target
      <4>1. /\ t \in Board /\ board[t].step = "serving" /\ LiveRows = {} /\ OthersServe(t)
            /\ Starting(t) = {}
        BY <2>4, <3>2, ToldIs, SlipIs, SlipNames DEF StopAccepted, Is
      <4>2. \A r \in Retro : Held(r) => retro[r].by # t
        <5>1. SUFFICES ASSUME NEW r \in Retro, Held(r), retro[r].by = t PROVE FALSE
          OBVIOUS
        <5>2. retro[r].step \in {"watch", "end"}
          BY <4>1, <5>1 DEF Starting, Held, HeldSteps
        <5> QED
          BY <2>4, <4>1, <5>2 DEF RunsKnown, RowsFollow, LiveRows
      <4> HIDE DEF t
      <4>3. \A a \in Board \ {t} : SameRuns(a)
        BY <4>1 DEF OthersServe, SameRuns
      <4> QED
        BY <2>1, <2>3, <2>4, <4>1, <4>2, <4>3, RunsFrame
    <3>3. CASE ~Spawn(c) /\ ~StopAccepted(c)
      <4>1. board' = board
        BY <1>2, <3>3 DEF CallerStepOf, Serve, TakeBoardLock, RemoveOldLock, LockRefused,
           LookUp,
                Probe, ProbeLate, Stopped, StopTooSlow, Ready, LoadBack, SaveBack, RemoveLock, Register,
                KillCaller, Find, StopRefused, RefusalRead, NobodyAnswers
      <4> QED
        BY <2>1, <2>3, <2>4, <4>1, RunsFrame DEF SameRuns
    <3> QED
      BY <3>1, <3>2, <3>3
  <2> QED
    BY <2>2, <2>4
<1> QED
  BY <1>1, <1>2

\* A run, held by a board that serves, takes a step; rows and views follow.
LEMMA RunMoves ==
  ASSUME Shape, RunsKnown, NEW r \in Retro, OthersRun(r), Held(r), retro'[r].by = retro[r].by,
         Held(r)' \/ retro'[r].step = "over", view' = view,
         \A b \in Board : /\ board'[b].step = board[b].step /\ board'[b].told = board[b].told
                          /\ board'[b].killed = board[b].killed
                          /\ board'[b].run = board[b].run \/ b = retro[r].by,
         Held(r)' /\ ~Runs(r, "launch")' => board'[retro[r].by].run = r,
         \A q \in Retro \ {r} : boardFile'.row[q] = boardFile.row[q],
         /\ retro'[r].step \in {"watch", "end"} => boardFile'.row[r] = "running"
         /\ Runs(r, "over")' => boardFile'.row[r] = "ended"
         /\ boardFile'.row[r] = "running" => retro'[r].step \in {"watch", "end"},
         retro[r].step \in {"watch", "end"} => retro'[r].step \in {"watch", "end", "over"}
  PROVE  RetroShape' /\ ViewShape' /\ RunsKnown'
<1>1. \A q \in Retro \ {r} : ~Held(q) /\ retro'[q] = retro[q]
  BY DEF RunsKnown, HeldOnce, OthersRun
<1>2. retro[r].by \in Board /\ ~Runs(r, "lost")'
  BY DEF Shape, RetroShape, Held, HeldSteps, Runs
<1>3. RetroShape' /\ ViewShape'
  BY <1>1, <1>2 DEF Shape, RetroShape, ViewShape, Held, Runs
<1>4. HeldServed' /\ HeldOnce'
  BY <1>1, <1>2 DEF RunsKnown, HeldServed, HeldOnce, Held, Runs
<1>5. LostKilled'
  BY <1>1, <1>2 DEF RunsKnown, LostKilled, Runs, Shape, RetroShape
<1>6. RowsFollow'
  BY <1>1 DEF RunsKnown, RowsFollow, Runs
<1>7. ViewFollows'
  <2>1. CASE view.step # "none" /\ view.run = r
    BY <2>1 DEF RunsKnown, ViewFollows, Runs, Held, HeldSteps
  <2>2. CASE view.step = "none"
    BY <2>2 DEF ViewFollows
  <2>3. CASE view.step # "none" /\ view.run # r
    <3>1. retro'[view.run] = retro[view.run]
      BY <1>1, <2>3 DEF Shape, ViewShape
    <3> QED
      BY <2>3, <3>1 DEF RunsKnown, ViewFollows, Runs
  <2> QED
    BY <2>1, <2>2, <2>3
<1> QED
  BY <1>3, <1>4, <1>5, <1>6, <1>7 DEF RunsKnown

\* The steps of a run.
LEMMA ShapeRuns ==
  ASSUME BoardTypeOK, Shape, NEW r \in Retro, RetroStepOf(r)
  PROVE  RetroShape' /\ ViewShape'
<1>1. view' = view /\ OthersRun(r) /\ retro'[r].by = retro[r].by
  BY StartWorkerIs, LoadRowIs, SaveRowIs, WorkerExitsIs, WatchedIs, EndRowIs
     DEF RetroStepOf, StartWorker, LoadRow, SaveRow, WorkerExits, Watched, EndRow
<1>2. Held(r)' \/ Runs(r, "lost")' => Held(r) \/ Runs(r, "lost")
  BY StartWorkerIs, LoadRowIs, SaveRowIs, WorkerExitsIs, WatchedIs, EndRowIs
     DEF RetroStepOf, StartWorker, LoadRow, SaveRow, Watched, EndRow, Held, HeldSteps, Runs
<1> QED
  BY <1>1, <1>2 DEF Shape, RetroShape, ViewShape, OthersRun, Held, Runs

LEMMA RunsRetro ==
  ASSUME BoardTypeOK, Shape, RunsKnown, NEW r \in Retro, RetroStepOf(r), slip' = {}
  PROVE  RunsKnown'
<1> DEFINE a == retro[r].by
<1>0. /\ boardFile.row[r] = "running" => retro[r].step \in {"watch", "end", "lost"}
      /\ retro[r].step \in {"watch", "end"} => boardFile.row[r] = "running"
  BY DEF RunsKnown, RowsFollow
<1>1. CASE StartWorker(r)
  <2>1. Held(r) /\ retro[r].step = "launch"
    BY <1>1 DEF StartWorker, Held, HeldSteps, Runs
  <2>2. a \in Board
    BY <2>1 DEF Shape, RetroShape
  <2>3. /\ OthersRun(r) /\ retro'[r].step = "load" /\ retro'[r].by = a
        /\ UNCHANGED <<view, boardFile>>
    BY <1>1, StartWorkerIs DEF StartWorker
  <2>4. /\ \A b \in Board \ {a} : board'[b] = board[b]
        /\ board'[a].step = board[a].step /\ board'[a].told = board[a].told
        /\ board'[a].killed = board[a].killed /\ board'[a].run = r
    BY <1>1, <2>2, RunIs DEF StartWorker, OthersServe
  <2> HIDE DEF a
  <2>5. Held(r)'
    BY <2>3 DEF Held, HeldSteps
  <2> QED
    BY <1>0, <2>1, <2>3, <2>4, <2>5, RunMoves DEF a, Runs
<1>2. CASE LoadRow(r)
  <2>1. /\ Held(r) /\ retro[r].step = "load" /\ OthersRun(r) /\ retro'[r].step = "save"
        /\ retro'[r].by = retro[r].by /\ UNCHANGED <<view, boardFile, board>>
    BY <1>2, LoadRowIs DEF LoadRow, Held, HeldSteps, Runs
  <2>2. Held(r)' /\ board[retro[r].by].run = r
    BY <2>1 DEF Held, HeldSteps, RunsKnown, HeldServed, Runs
  <2> QED
    BY <1>0, <2>1, <2>2, RunMoves DEF Runs
<1>3. CASE SaveRow(r)
  <2>1. /\ Held(r) /\ retro[r].step = "save" /\ OthersRun(r) /\ retro'[r].step = "watch"
        /\ retro'[r].by = retro[r].by /\ UNCHANGED <<view, board>>
    BY <1>3, SaveRowIs DEF SaveRow, Held, HeldSteps, Runs
  <2>2. Held(r)' /\ board[retro[r].by].run = r
    BY <2>1 DEF Held, HeldSteps, RunsKnown, HeldServed, Runs
  <2>3. retro[r].copy \in BoardFile
    BY DEF BoardTypeOK, RetroRec
  <2>4. /\ boardFile'.row[r] = "running"
        /\ \A q \in Retro \ {r} : boardFile'.row[q] = boardFile.row[q]
    BY <1>3, <2>3, RowWritten DEF SaveRow, RowState
  <2> QED
    BY <2>1, <2>2, <2>4, RunMoves DEF Runs
<1>4. CASE WorkerExits(r)
  <2>1. /\ OthersRun(r) /\ retro'[r].step = retro[r].step
        /\ retro'[r].by = retro[r].by /\ UNCHANGED <<view, boardFile, board>>
    BY <1>4, WorkerExitsIs DEF WorkerExits
  <2>2. \A q \in Retro : retro'[q].step = retro[q].step /\ retro'[q].by = retro[q].by
    BY <2>1 DEF OthersRun
  <2> QED
    BY <2>1, <2>2 DEF RunsKnown, HeldServed, HeldOnce, LostKilled, RowsFollow, ViewFollows,
       Held,
                      Runs, Shape, ViewShape
<1>5. CASE Watched(r)
  <2>1. /\ Held(r) /\ retro[r].step = "watch" /\ OthersRun(r) /\ retro'[r].step = "end"
        /\ retro'[r].by = retro[r].by /\ UNCHANGED <<view, boardFile, board>>
    BY <1>5, WatchedIs DEF Watched, Held, HeldSteps, Runs
  <2>2. Held(r)' /\ board[retro[r].by].run = r
    BY <2>1 DEF Held, HeldSteps, RunsKnown, HeldServed, Runs
  <2> QED
    BY <1>0, <2>1, <2>2, RunMoves DEF Runs
<1>6. CASE EndRow(r)
  <2>1. /\ Held(r) /\ retro[r].step = "end" /\ OthersRun(r) /\ retro'[r].step = "over"
        /\ retro'[r].by = a /\ view' = view
    BY <1>6, EndRowIs DEF EndRow, Held, HeldSteps, Runs
  <2>2. a \in Board
    BY <2>1 DEF Shape, RetroShape
  <2>3. retro[r].copy \in BoardFile
    BY DEF BoardTypeOK, RetroRec
  <2>4. /\ boardFile'.row[r] = "ended"
        /\ \A q \in Retro \ {r} : boardFile'.row[q] = boardFile.row[q]
    BY <1>0, <1>6, <2>1, <2>3, EndWritten DEF EndRow
  <2>5. \A b \in Board : /\ board'[b].step = board[b].step /\ board'[b].told = board[b].told
                         /\ board'[b].killed = board[b].killed
                         /\ board'[b].run = board[b].run \/ b = a
    <3> DEFINE q == IF board[a].run = r THEN NoRetro ELSE board[a].run
    <3>1. q \in Retro \cup {NoRetro}
      BY <2>2 DEF BoardTypeOK, BoardRec
    <3>2. board' = [board EXCEPT ![a].run = q]
      BY <1>6, <2>2 DEF EndRow, BoardTypeOK
    <3> HIDE DEF q, a
    <3> QED
      BY <2>2, <3>1, <3>2, RunIs DEF OthersServe
  <2>6. ~Held(r)'
    BY <2>1 DEF Held, HeldSteps
  <2> HIDE DEF a
  <2> QED
    BY <2>1, <2>4, <2>5, <2>6, RunMoves DEF Runs, a
<1> QED
  BY <1>1, <1>2, <1>3, <1>4, <1>5, <1>6 DEF RetroStepOf

\* The steps of a board, as its runs see them.
LEMMA RunsBoard ==
  ASSUME BoardTypeOK, Shape, NEW b \in Board, BoardStepOf(b)
  PROVE  RetroShape' /\ ViewShape' /\ (RunsKnown /\ CallersKnow /\ slip = {} /\ slip' = {} => RunsKnown')
<1>1. CASE Boot(b) \/ RecordRead(b) \/ RecordSelf(b) \/ ClearRead(b) \/ Shutdown(b)
  <2>1. UNCHANGED <<retro, view>>
    BY <1>1 DEF Boot, RecordRead, RecordSelf, ClearRead, Shutdown
  <2>2. RetroShape' /\ ViewShape'
    BY <2>1 DEF Shape, RetroShape, ViewShape, Held, Runs
  <2>3. ASSUME RunsKnown, slip = {}, slip' = {}
        PROVE  RunsKnown'
    <3>1. board[b].copy \in BoardFile
      BY DEF BoardTypeOK, BoardRec
    <3>2. boardFile'.row = boardFile.row
      <4>1. CASE RecordSelf(b)
        BY <2>3, <3>1, <4>1, BoardWritten DEF RecordSelf
      <4>2. CASE ~RecordSelf(b)
        BY <1>1, <4>2 DEF Boot, RecordRead, ClearRead, Shutdown
      <4> QED
        BY <4>1, <4>2
    <3>3. OthersServe(b) /\ board[b].step # "gone"
      BY <1>1, BootIs, RecordReadIs, RecordSelfIs, ClearReadIs, TurnsIs, StepNames
         DEF Boot, RecordRead, RecordSelf, ClearRead, Shutdown, Is
    <3>4. \A r \in Retro : Held(r) => retro[r].by # b
      BY <1>1, <2>3 DEF RunsKnown, HeldServed, Boot, RecordRead, RecordSelf, ClearRead,
         Shutdown, Is
    <3>5. \A a \in Board \ {b} : SameRuns(a)
      BY <3>3 DEF OthersServe, SameRuns
    <3> QED
      BY <2>1, <2>3, <3>2, <3>3, <3>4, <3>5, RunsFrame
  <2> QED
    BY <2>2, <2>3
<1>2. CASE Clear(b)
  <2>1. Ends(b, FALSE) /\ board[b].step = "clearing" /\ board[b].copy \in BoardFile
    BY <1>2 DEF Clear, Is, BoardTypeOK, BoardRec
  <2>2. slip' = {} => boardFile'.row = boardFile.row
    BY <1>2, <2>1, BoardWritten DEF Clear
  <2> QED
    BY <2>1, <2>2, EndsShape, RunsEnd
<1>3. CASE KillBoard(b)
  <2>1. Ends(b, TRUE) /\ board[b].step # "gone" /\ boardFile' = boardFile
    BY <1>3 DEF KillBoard, Up
  <2> QED
    BY <2>1, EndsShape, RunsEnd
<1>4. ASSUME NEW r \in Retro, Click(b, r)
      PROVE  RetroShape' /\ ViewShape'
             /\ (RunsKnown /\ CallersKnow /\ slip = {} /\ slip' = {} => RunsKnown')
  <2>1. /\ OthersRun(r) /\ retro[r].step = "none" /\ retro'[r].step = "launch"
        /\ retro'[r].by = b /\ UNCHANGED <<view, board, boardFile>>
        /\ board[b].step = "serving" /\ ~InFlight(b)
    BY <1>4, ClickIs DEF Click, Is, Runs
  <2>2. RetroShape' /\ ViewShape'
    BY <2>1 DEF Shape, RetroShape, ViewShape, OthersRun, Held, Runs
  <2>3. ASSUME RunsKnown, CallersKnow, slip = {}, slip' = {}
        PROVE  RunsKnown'
    <3>1. ~board[b].told /\ Starting(b) = {}
      BY <1>4, <2>3 DEF Click
    <3>2. \A q \in Retro : ~Held(q)
      <4>1. SUFFICES ASSUME NEW q \in Retro, Held(q) PROVE FALSE
        OBVIOUS
      <4>2. retro[q].by \in Board /\ board[retro[q].by].step = "serving"
        BY <2>3, <4>1 DEF Shape, RetroShape, RunsKnown, HeldServed
      <4>3. retro[q].by = b
        BY <2>1, <2>3, <4>2 DEF CallersKnow, OneLive, Live
      <4>4. retro[q].step \in {"watch", "end"}
        BY <3>1, <4>1, <4>3 DEF Starting, Held, HeldSteps
      <4>5. board[b].run = q /\ boardFile.row[q] = "running"
        BY <2>3, <4>1, <4>3, <4>4 DEF RunsKnown, HeldServed, RowsFollow, Runs
      <4> QED
        BY <2>1, <4>5 DEF InFlight
    <3>3. boardFile.row[r] # "running"
      BY <2>1, <2>3 DEF RunsKnown, RowsFollow
    <3>4. \A q \in Retro \ {r} : ~Held(q)' /\ retro'[q] = retro[q]
      BY <2>1, <3>2 DEF OthersRun, Held
    <3>5. HeldServed' /\ HeldOnce'
      BY <2>1, <3>1, <3>4 DEF HeldServed, HeldOnce, Runs
    <3>6. LostKilled'
      BY <2>1, <2>3, <3>4 DEF RunsKnown, LostKilled, Runs
    <3>7. RowsFollow'
      BY <2>1, <2>3, <3>3, <3>4 DEF RunsKnown, RowsFollow, Runs
    <3>8. ViewFollows'
      <4>1. view.step # "none" => view.run \in Retro /\ view.run # r
        BY <2>1, <2>3 DEF Shape, ViewShape, RunsKnown, ViewFollows
      <4> QED
        BY <2>1, <2>3, <3>4, <4>1 DEF RunsKnown, ViewFollows, Runs
    <3> QED
      BY <3>5, <3>6, <3>7, <3>8 DEF RunsKnown
  <2> QED
    BY <2>2, <2>3
<1>5. ASSUME NEW r \in Retro, ShowRun(b, r)
      PROVE  RetroShape' /\ ViewShape'
             /\ (RunsKnown /\ CallersKnow /\ slip = {} /\ slip' = {} => RunsKnown')
  <2>1. /\ UNCHANGED <<boardFile, board, retro>> /\ board[b].step = "serving"
        /\ boardFile.row[r] = "running"
        /\ view' = [step |-> "alive", by |-> b, run |-> r]
    BY <1>5 DEF ShowRun, Is
  <2>2. RetroShape' /\ ViewShape'
    BY <2>1 DEF Shape, RetroShape, ViewShape, Held, Runs
  <2>3. ASSUME RunsKnown, CallersKnow
        PROVE  RunsKnown'
    <3>1. retro[r].step \in {"watch", "end", "lost"}
      BY <2>1, <2>3 DEF RunsKnown, RowsFollow
    <3>2. retro[r].step \in {"watch", "end"} => retro[r].by = b
      <4>1. SUFFICES ASSUME retro[r].step \in {"watch", "end"} PROVE retro[r].by = b
        OBVIOUS
      <4>2. retro[r].by \in Board /\ board[retro[r].by].step = "serving"
        BY <2>3, <4>1 DEF Held, HeldSteps, Shape, RetroShape, RunsKnown, HeldServed
      <4> QED
        BY <2>1, <2>3, <4>2 DEF CallersKnow, OneLive, Live
    <3>3. HeldServed' /\ HeldOnce' /\ LostKilled' /\ RowsFollow'
      BY <2>1, <2>3 DEF RunsKnown, HeldServed, HeldOnce, LostKilled, RowsFollow, Held, Runs
    <3>4. ViewFollows'
      BY <2>1, <3>1, <3>2 DEF ViewFollows
    <3> QED
      BY <3>3, <3>4 DEF RunsKnown
  <2> QED
    BY <2>2, <2>3
<1> QED
  BY <1>1, <1>2, <1>3, <1>4, <1>5 DEF BoardStepOf

\* The steps of a page that shows a run.
LEMMA RunsLook ==
  ASSUME BoardTypeOK, Shape, Looking
  PROVE  RetroShape' /\ ViewShape' /\ (RunsKnown => RunsKnown')
<1>1. UNCHANGED <<boardFile, board, retro>>
  BY DEF Looking, SeeProcess, SeeOwner, SeeFreshRow, Shown
<1>2. \/ view'.step = "none"
      \/ /\ view'.run = view.run /\ view'.by = view.by /\ view.step # "none"
         /\ \/ view'.step = "owns"
            \/ view'.step = "fresh" /\ ~Owns(view.by, view.run)
            \/ view.step = "fresh" /\ view'.step = "lost" /\ boardFile.row[view.run] = "running"
  BY NoViewIs DEF Looking, SeeProcess, SeeOwner, SeeFreshRow, Shown, BoardTypeOK, ViewRec
<1>3. RetroShape' /\ ViewShape'
  BY <1>1, <1>2 DEF Shape, RetroShape, ViewShape, Held, Runs
<1>4. ASSUME RunsKnown
      PROVE  RunsKnown'
  <2>1. HeldServed' /\ HeldOnce' /\ LostKilled' /\ RowsFollow'
    BY <1>1, <1>4 DEF RunsKnown, HeldServed, HeldOnce, LostKilled, RowsFollow, Held, Runs
  <2>2. ViewFollows'
    BY <1>1, <1>2, <1>4 DEF RunsKnown, ViewFollows, RowsFollow, Owns, Runs, Shape, ViewShape
  <2> QED
    BY <2>1, <2>2 DEF RunsKnown
<1> QED
  BY <1>3, <1>4

-----------------------------------------------------------------------------
(* The theorems                                                            *)

\* The three facts of the inductive argument.
LEMMA BoardInit_Inv == BoardInit => BoardTypeOK /\ BoardInv
<1> SUFFICES ASSUME BoardInit PROVE BoardTypeOK /\ BoardInv
  OBVIOUS
<1>1. BoardTypeOK
  <2>1. caller \in [Caller -> CallerRec] /\ board \in [Board -> BoardRec] /\ retro \in [Retro -> RetroRec]
    BY AwayIs, UnbornIs, UnrunIs DEF BoardInit
  <2>2. boardFile \in BoardFile /\ boardLock \in LockRec /\ view \in ViewRec /\ build \in Build
    BY BlankFileIs, LockIs, NoViewIs, BuildIs DEF BoardInit
  <2>3. spare \in Allowance /\ build + spare.update <= MaxUpdate
    BY DEF BoardInit, Allowance
  <2> QED
    BY <2>1, <2>2, <2>3 DEF BoardInit, BoardTypeOK
<1>2. /\ \A c \in Caller : caller[c].step = "idle"
      /\ \A b \in Board : board[b].step = "none"
      /\ \A r \in Retro : retro[r].step = "none" /\ boardFile.row[r] = "absent"
      /\ view.step = "none"
  BY AwayIs, UnrunIs, NoViewIs DEF BoardInit, Unborn, BlankFile
<1>3. Shape
  BY <1>2 DEF Shape, CallerShape, RetroShape, ViewShape, InLock, Doing, Held, HeldSteps, Runs
<1>4. CallersKnow
  BY <1>2 DEF CallersKnow, LockHeld, BootNamed, OneLive, Known, KnownTo, Recorded, InLock,
     Doing, Live, Booting
<1>5. RunsKnown
  BY <1>2 DEF RunsKnown, HeldServed, HeldOnce, LostKilled, RowsFollow, ViewFollows, Held,
     HeldSteps, Runs
<1> QED
  BY <1>1, <1>3, <1>4, <1>5 DEF BoardInv

LEMMA BoardNext_Inv ==
  ASSUME BoardTypeOK, BoardInv, [BoardNext]_boardVars
  PROVE  BoardTypeOK' /\ BoardInv'
<1>0. Shape /\ RetroShape
  BY DEF BoardInv, Shape
<1>1. ASSUME NEW c \in Caller, CallerStepOf(c)
      PROVE  BoardTypeOK' /\ BoardInv'
  <2>1. BoardTypeOK' /\ slip \subseteq slip'
    BY <1>1, TypeCaller
  <2>2. Shape' /\ (RunsKnown /\ slip = {} /\ slip' = {} => RunsKnown')
    BY <1>0, <1>1, ShapeCaller, RunsCaller DEF Shape
  <2>3. CallersKnow /\ slip' = {} => CallersKnow'
    BY <1>0, <1>1, KnowCaller
  <2> QED
    BY <2>1, <2>2, <2>3 DEF BoardInv
<1>2. ASSUME NEW b \in Board, BoardStepOf(b)
      PROVE  BoardTypeOK' /\ BoardInv'
  <2>1. BoardTypeOK' /\ slip \subseteq slip'
    BY <1>2, TypeBoard
  <2>2. RetroShape' /\ ViewShape'
        /\ (RunsKnown /\ CallersKnow /\ slip = {} /\ slip' = {} => RunsKnown')
    BY <1>0, <1>2, RunsBoard
  <2>3. CallersKnow /\ slip' = {} => CallersKnow'
    BY <1>0, <1>2, KnowBoard
  <2>4. CallerShape'
    <3>1. caller' = caller
      BY <1>2 DEF BoardStepOf, Boot, RecordRead, RecordSelf, Shutdown, ClearRead, Clear,
         KillBoard,
                  Click, ShowRun
    <3> QED
      BY <1>0, <3>1 DEF Shape, CallerShape, InLock, Doing
  <2> QED
    BY <2>1, <2>2, <2>3, <2>4 DEF BoardInv, Shape
<1>3. ASSUME NEW r \in Retro, RetroStepOf(r)
      PROVE  BoardTypeOK' /\ BoardInv'
  <2>1. BoardTypeOK' /\ slip \subseteq slip'
    BY <1>0, <1>3, TypeRetro
  <2>2. RetroShape' /\ ViewShape' /\ (RunsKnown /\ slip' = {} => RunsKnown')
    BY <1>0, <1>3, ShapeRuns, RunsRetro
  <2>3. CallersKnow /\ slip' = {} => CallersKnow'
    BY <1>0, <1>3, KnowRetro
  <2>4. CallerShape'
    <3>1. caller' = caller
      BY <1>3 DEF RetroStepOf, LoadRow, StartWorker, WorkerExits, Watched, SaveRow, EndRow
    <3> QED
      BY <1>0, <3>1 DEF Shape, CallerShape, InLock, Doing
  <2> QED
    BY <2>1, <2>2, <2>3, <2>4 DEF BoardInv, Shape
<1>4. CASE Looking
  <2>1. BoardTypeOK' /\ UNCHANGED <<boardFile, boardLock, caller, board, slip>>
    BY <1>4, TypeRest DEF Looking, SeeProcess, SeeOwner, SeeFreshRow, Shown
  <2>2. RetroShape' /\ ViewShape' /\ (RunsKnown => RunsKnown')
    BY <1>0, <1>4, RunsLook
  <2>3. CallerShape'
    BY <1>0, <2>1 DEF Shape, CallerShape, InLock, Doing
  <2>4. CallersKnow => CallersKnow'
    BY <2>1 DEF CallersKnow, LockHeld, BootNamed, OneLive, Known, KnownTo, Recorded, InLock,
       Doing, Live, Booting
  <2> QED
    BY <2>1, <2>2, <2>3, <2>4 DEF BoardInv, Shape
<1>5. CASE EditBoard \/ UNCHANGED boardVars
  <2>1. BoardTypeOK'
    BY <1>5, TypeRest DEF boardVars, BoardTypeOK
  <2>2. UNCHANGED <<boardFile, boardLock, caller, board, retro, view, slip>>
    BY <1>5 DEF EditBoard, boardVars
  <2>3. Shape'
    BY <1>0, <2>2 DEF Shape, CallerShape, RetroShape, ViewShape, InLock, Doing, Held, Runs
  <2>4. CallersKnow => CallersKnow'
    BY <2>2 DEF CallersKnow, LockHeld, BootNamed, OneLive, Known, KnownTo, Recorded, InLock,
       Doing, Live, Booting
  <2>5. RunsKnown => RunsKnown'
    BY <2>2 DEF RunsKnown, HeldServed, HeldOnce, LostKilled, RowsFollow, ViewFollows, Held, Runs
  <2> QED
    BY <2>1, <2>2, <2>3, <2>4, <2>5 DEF BoardInv
<1> QED
  BY <1>1, <1>2, <1>3, <1>4, <1>5 DEF BoardNext, Looking

LEMMA BoardInv_Found ==
  ASSUME BoardTypeOK, BoardInv
  PROVE  BoardFound /\ RunsFollowed
<1>1. SUFFICES ASSUME slip = {} PROVE OneBoard /\ StopSpares /\ OneRetro /\ RowsKept /\ ShownTruly
  BY DEF BoardFound, RunsFollowed
<1>2. CallersKnow /\ RunsKnown /\ Shape
  BY <1>1 DEF BoardInv
<1>3. OneBoard /\ StopSpares
  BY <1>2 DEF OneBoard, StopSpares, CallersKnow, Recorded, RunsKnown, LostKilled, Is
<1>4. OneRetro
  BY <1>2 DEF OneRetro, RunsKnown, HeldOnce, Held, HeldSteps, Starting, Watching
<1>5. RowsKept /\ ShownTruly
  BY <1>2 DEF RowsKept, ShownTruly, RunsKnown, RowsFollow, ViewFollows
<1> QED
  BY <1>3, <1>4, <1>5

LEMMA BoardSpec_Inv == BoardSpec => [](BoardTypeOK /\ BoardInv)
<1>1. BoardTypeOK /\ BoardInv /\ [BoardNext]_boardVars => (BoardTypeOK /\ BoardInv)'
  BY BoardNext_Inv
<1> QED
  BY <1>1, BoardInit_Inv, PTL DEF BoardSpec

\* The state file, the lock and every process stay well formed, whatever
\* overtakes what (board.py: load_state, save_state, ensure_running, serve).
THEOREM BoardStaysTyped == BoardSpec => []BoardTypeOK
BY BoardSpec_Inv, PTL

\* The board that serves is the recorded one, and a stop loses no run, for any
\* number of callers, boards and runs (board.py: ensure_running, serve,
\* api_board_stop).
THEOREM BoardStaysFound == BoardSpec => []BoardFound
BY BoardSpec_Inv, BoardInv_Found, PTL

\* A board has one run at a time, its row follows it, and no page calls it
\* unverified while it is watched (board.py: spawn_retro, _watch_retro,
\* describe_run).
THEOREM RunsStayFollowed == BoardSpec => []RunsFollowed
BY BoardSpec_Inv, BoardInv_Found, PTL

\* Both together, as the run checks them (board.py: ensure_running, serve,
\* api_board_stop, spawn_retro, _watch_retro, describe_run).
THEOREM BoardIsSafe == BoardSpec => []BoardSafe
BY BoardStaysFound, RunsStayFollowed, PTL DEF BoardSafe

-----------------------------------------------------------------------------
(***************************************************************************)
(* The tests of a release (TestBed), for any number of commands at one     *)
(* time.  Beds says of every command what the directory of its name is to  *)
(* it: its own, none, or one that it could not tell from its own; and that *)
(* a copy that was verified stays so, as a command writes only where no    *)
(* copy is, and the strict verification is alone.  LogsKnown and Refers    *)
(* count logs: one that is going to be removed was the older one when the  *)
(* logs were listed, and those written later than a time only get more.    *)
(***************************************************************************)

Sits(c) == c.step \notin {"idle", "make"}

\* What a command holds by itself, beside the directory of its name, and of the logs.
Holds(c) ==
  /\ Sits(c) <=> c.spot \in Spot
  /\ Sits(c) => (c.spot \in StrictSpot <=> c.task = "strict")
  /\ c.passed => c.step \in {"recheck", "check", "remove"}
  /\ c.passed /\ c.own => Whole(c.core, c.want)
  /\ c.step = "copy" => c.task = "strict"

Fits(t, c, b) ==
  /\ c.step = "note" => b.by \in {t, "free"} \/ b.alike
  /\ c.step # "note" /\ b.by \notin {t, "free"} /\ b.mark = c.mark => b.alike
  /\ c.step \in {"remove", "rmdir"} => b.by \in {t, "free"} \/ b.alike
  /\ c.step = "test" /\ b.by = t => Whole(b.core, c.want)

\* So many logs were written later than this as are kept.
Enough(time) == Cardinality(Later(LogName, time)) >= MaxKept

Refers(c) ==
  /\ c.step \in {"unlink", "fill", "confirm"} => c.log \in LogName /\ log[c.log].state # "none"
  /\ c.step = "confirm" => log[c.log].whole
  /\ c.step = "unlink" => Enough(log[c.log].born)
  /\ \A old \in c.doomed : /\ log[old.log].state # "none"
                           /\ log[old.log].born <= old.time /\ Enough(old.time)

LogsKnown ==
  \A l \in LogName :
    /\ log[l].born <= log[l].time /\ log[l].time <= clock
    /\ log[l].state = "gone" => Enough(log[l].born)
    /\ log[l].told => log[l].whole

OneStrict ==
  \A t, q \in Tester : tester[t].task = "strict" /\ tester[q].task = "strict" => t = q

Beds == \A t \in Tester : Sits(tester[t]) => Fits(t, tester[t], spot[tester[t].spot])

TestInv ==
  /\ TestBedTypeOK
  /\ \A t \in Tester : Holds(tester[t]) /\ Refers(tester[t])
  /\ Beds /\ OneStrict /\ LeavesNothing /\ TestsTheRelease /\ LogsKnown

LEMMA BedTypes ==
  /\ NoCore \in Core /\ FreeSpot \in BedPlace /\ Asleep \in Test /\ NoFailure \in FailureLog
  /\ MaxTry \in Nat /\ MaxSnag \in Nat /\ MaxKept \in Nat /\ MaxLog \in Nat
  /\ 1 \in Edition /\ MaxEdition \in Nat /\ MaxMark \in Nat
<1>1. NoCore \in Core /\ MaxEdition \in Nat /\ MaxMark \in Nat /\ MaxTry \in Nat /\ MaxLog \in Nat
  BY TestBedAssumption DEF NoCore, Core
<1>2. FreeSpot \in BedPlace
  BY <1>1 DEF FreeSpot, BedPlace
<1>3. Asleep \in Test
  BY <1>1, TestBedAssumption DEF Asleep, Test, Edition, TestStep
<1>. QED
  BY <1>1, <1>2, <1>3, TestBedAssumption DEF Edition, NoFailure, FailureLog

LEMMA AsleepHolds == Holds(Asleep) /\ Refers(Asleep) /\ ~Sits(Asleep)
BY TestBedAssumption DEF Holds, Refers, Sits, Asleep

-----------------------------------------------------------------------------
(* Logs only get more, and later.                                          *)

LogsGrow ==
  \A l \in LogName :
    /\ log[l].state # "none" => log'[l].state # "none" /\ log'[l].born = log[l].born
    /\ log[l].time <= log'[l].time
    /\ log[l].state # "none" /\ log[l].whole => log'[l].whole

LEMMA EnoughStays ==
  ASSUME TestBedTypeOK, (log \in [LogName -> FailureLog])', LogsGrow, NEW time \in Nat,
         Enough(time)
  PROVE  Enough(time)'
<1>1. Later(LogName, time) \subseteq Later(LogName, time)'
  BY DEF Later, LogsGrow, TestBedTypeOK, FailureLog
<1>2. IsFiniteSet(LogName)
  BY FS_Interval, TestBedAssumption DEF LogName
<1>3. IsFiniteSet(Later(LogName, time)')
  BY <1>2, FS_Subset DEF Later
<1>4. /\ Cardinality(Later(LogName, time)) <= Cardinality(Later(LogName, time)')
      /\ Cardinality(Later(LogName, time)) \in Nat
      /\ Cardinality(Later(LogName, time)') \in Nat
  BY <1>1, <1>3, FS_Subset, FS_CardinalityType
<1>. QED
  BY <1>4, TestBedAssumption DEF Enough

LEMMA EnoughEarlier ==
  ASSUME TestBedTypeOK, NEW time \in Nat, NEW early \in Nat, early <= time, Enough(time)
  PROVE  Enough(early)
<1>1. Later(LogName, time) \subseteq Later(LogName, early)
  BY DEF Later, TestBedTypeOK, FailureLog
<1>2. IsFiniteSet(LogName)
  BY FS_Interval, TestBedAssumption DEF LogName
<1>3. IsFiniteSet(Later(LogName, early))
  BY <1>2, FS_Subset DEF Later
<1>4. /\ Cardinality(Later(LogName, time)) <= Cardinality(Later(LogName, early))
      /\ Cardinality(Later(LogName, time)) \in Nat
      /\ Cardinality(Later(LogName, early)) \in Nat
  BY <1>1, <1>3, FS_Subset, FS_CardinalityType
<1>. QED
  BY <1>4, TestBedAssumption DEF Enough

LEMMA RefersStays ==
  ASSUME TestBedTypeOK, (log \in [LogName -> FailureLog])', LogsGrow, NEW c \in Test, Refers(c)
  PROVE  Refers(c)'
<1>1. \A time \in Nat : Enough(time) => Enough(time)'
  BY EnoughStays
<1>2. \A l \in LogName : log[l].born \in Nat
  BY DEF TestBedTypeOK, FailureLog
<1>3. ASSUME NEW old \in c.doomed
      PROVE  /\ log'[old.log].state # "none"
             /\ log'[old.log].born <= old.time /\ Enough(old.time)'
  <2>1. old.log \in LogName /\ old.time \in Nat
    BY DEF Test, Old
  <2>. QED
    BY <1>1, <2>1 DEF Refers, LogsGrow
<1>4. c.step = "unlink" => Enough(log[c.log].born)'
  <2>. SUFFICES ASSUME c.step = "unlink" PROVE Enough(log[c.log].born)'
    OBVIOUS
  <2>1. c.log \in LogName /\ log[c.log].state # "none" /\ Enough(log[c.log].born)
    BY DEF Refers
  <2>2. PICK born \in Nat : born = log[c.log].born
    BY <1>2, <2>1
  <2>3. Enough(born)'
    BY <1>1, <2>1, <2>2
  <2>4. log'[c.log].born = born
    BY <2>1, <2>2 DEF LogsGrow
  <2>. QED
    BY <2>3, <2>4 DEF Enough
<1>. QED
  BY <1>3, <1>4 DEF Refers, LogsGrow

-----------------------------------------------------------------------------
(* A step of one command.                                                  *)

LEMMA TestStepKeeps ==
  ASSUME TestInv, NEW t \in Tester, NEW c \in Test, Becomes(t, c), Holds(c),
         c.task = "strict" => \/ tester[t].task = "strict"
                              \/ \A q \in Tester : tester[q].task = "self",
         (spot \in [Spot -> BedPlace])',
         Sits(c) => Fits(t, c, spot'[c.spot]),
         \A q \in Tester \ {t} :
           Sits(tester[q]) => Fits(q, tester[q], spot'[tester[q].spot]),
         \A n \in Spot : spot'[n].by \in Tester =>
           \/ spot'[n].by = t /\ Sits(c) /\ c.spot = n
           \/ spot'[n].by # t /\ spot[n].by = spot'[n].by,
         (log \in [LogName -> FailureLog] /\ clock \in Nat)', LogsGrow, LogsKnown', Refers(c)',
         (kit \in [Edition -> Core] /\ chosen \in Edition /\ snag \in 0 .. MaxSnag)',
         (tested \subseteq [release : 0 .. MaxEdition, core : Core, own : BOOLEAN])',
         TestsTheRelease'
  PROVE  TestInv'
<1>1. tester' = [tester EXCEPT ![t] = c] /\ tester \in [Tester -> Test]
  BY DEF Becomes, TestInv, TestBedTypeOK
<1>2. TestBedTypeOK'
  BY <1>1 DEF TestBedTypeOK
<1>3. ASSUME NEW q \in Tester
      PROVE  (Holds(tester[q]) /\ Refers(tester[q]))'
  <2>. SUFFICES ASSUME NEW d, d = tester'[q] PROVE Holds(d) /\ Refers(d)'
    BY DEF Holds, Refers, Sits, Whole
  <2>1. CASE q = t
    BY <1>1, <2>1
  <2>2. CASE q # t
    <3>1. d = tester[q] /\ d \in Test /\ Holds(d) /\ Refers(d)
      BY <1>1, <2>2 DEF TestInv
    <3>. QED
      BY <3>1, RefersStays DEF TestInv
  <2>. QED
    BY <2>1, <2>2
<1>4. Beds'
  <2>. SUFFICES ASSUME NEW q \in Tester, Sits(tester'[q])
                PROVE  Fits(q, tester'[q], spot'[tester'[q].spot])
    BY DEF Beds, Fits, Sits, Whole
  <2>1. CASE q = t
    BY <1>1, <2>1
  <2>2. CASE q # t
    BY <1>1, <2>2
  <2>. QED
    BY <2>1, <2>2
<1>5. OneStrict'
  <2>1. \A q \in Tester : tester'[q] = IF q = t THEN c ELSE tester[q]
    BY <1>1
  <2>2. \A q \in Tester : tester[q].task = "self" => tester[q].task # "strict"
    OBVIOUS
  <2>. QED
    BY <2>1, <2>2 DEF TestInv, OneStrict
<1>6. LeavesNothing'
  <2>. SUFFICES ASSUME NEW n \in Spot, NEW q \in Tester, spot'[n].by = q
                PROVE  tester'[q].step # "idle" /\ tester'[q].spot = n
    BY DEF LeavesNothing, Reached
  <2>1. CASE q = t
    BY <1>1, <2>1 DEF Sits
  <2>2. CASE q # t
    BY <1>1, <2>2 DEF TestInv, LeavesNothing, Reached
  <2>. QED
    BY <2>1, <2>2
<1>. QED
  BY <1>2, <1>3, <1>4, <1>5, <1>6 DEF TestInv

\* The directories and the logs stay as they are.
LEMMA MoveKeeps ==
  ASSUME TestInv, NEW t \in Tester, NEW c \in Test, Becomes(t, c), Holds(c),
         c.task = "strict" => \/ tester[t].task = "strict"
                              \/ \A q \in Tester : tester[q].task = "self",
         Sits(c) => Fits(t, c, spot[c.spot]),
         IF Sits(c) THEN c.spot = tester[t].spot ELSE \A n \in Spot : spot[n].by # t,
         Refers(c),
         UNCHANGED <<coreVars, spot, logVars, snag>>,
         (tested \subseteq [release : 0 .. MaxEdition, core : Core, own : BOOLEAN])',
         TestsTheRelease'
  PROVE  TestInv'
<1>1. /\ kit' = kit /\ chosen' = chosen /\ spot' = spot /\ log' = log /\ clock' = clock
      /\ snag' = snag
  BY DEF coreVars, logVars
<1>2. LogsGrow
  BY <1>1 DEF LogsGrow, TestInv, TestBedTypeOK, FailureLog
<1>4. LogsKnown' /\ Refers(c)'
  BY <1>1 DEF LogsKnown, Refers, Enough, Later, TestInv
<1>3. \A n \in Spot : spot[n].by = t => Sits(c) /\ c.spot = n
  BY DEF TestInv, LeavesNothing, Reached
<1>. QED
  BY <1>1, <1>2, <1>3, <1>4, TestStepKeeps DEF TestInv, TestBedTypeOK, Beds

\* A command that has no directory, or whose directory is gone, sleeps.
LEMMA SleepKeeps ==
  ASSUME TestInv, NEW t \in Tester, Sleeps(t),
         \A n \in Spot : spot[n].by # t,
         UNCHANGED <<coreVars, spot, logVars, snag>>,
         (tested \subseteq [release : 0 .. MaxEdition, core : Core, own : BOOLEAN])',
         TestsTheRelease'
  PROVE  TestInv'
<1>1. Asleep \in Test /\ Asleep.task = "self"
  BY BedTypes DEF Asleep
<1>. QED
  BY <1>1, AsleepHolds, MoveKeeps DEF Sleeps

LEMMA TestedStays ==
  ASSUME TestInv, tested' = tested
  PROVE  /\ (tested \subseteq [release : 0 .. MaxEdition, core : Core, own : BOOLEAN])'
         /\ TestsTheRelease'
BY DEF TestInv, TestBedTypeOK, TestsTheRelease

-----------------------------------------------------------------------------
(* The actions that leave directories and logs as they are.                *)

\* Nothing but the place of a command in its program changes.
LEMMA GoKeeps ==
  ASSUME TestInv, NEW t \in Tester, NEW step \in TestStep, GoesTo(t, step),
         Sits(tester[t]),
         step \notin {"idle", "make", "note", "copy", "test", "unlink", "fill", "confirm"},
         tester[t].passed => step \in {"recheck", "check", "remove"},
         step \in {"remove", "rmdir"} => Bed(t).by \in {t, "free"} \/ Bed(t).alike,
         UNCHANGED <<coreVars, spot, logVars, snag, tested>>
  PROVE  TestInv'
<1>. SUFFICES ASSUME NEW c, c = tester[t] PROVE TestInv'
  OBVIOUS
<1>. DEFINE d == [c EXCEPT !.step = step]
<1>1. c \in Test /\ Holds(c) /\ Refers(c) /\ Fits(t, c, spot[c.spot]) /\ Sits(c)
  BY DEF TestInv, TestBedTypeOK, Beds
<1>2. d \in Test /\ Becomes(t, d)
  BY <1>1 DEF GoesTo, Test
<1>3. Holds(d) /\ Sits(d)
  BY <1>1 DEF Holds, Sits, Test
<1>4. Refers(d)
  BY <1>1 DEF Refers, Test
<1>5. Fits(t, d, spot[d.spot])
  BY <1>1 DEF Fits, Sits, Test, Bed
<1>6. d.spot = c.spot /\ d.task = c.task
  BY <1>1 DEF Test
<1>. HIDE DEF d
<1>. QED
  BY <1>2, <1>3, <1>4, <1>5, <1>6, MoveKeeps, TestedStays

LEMMA StopsKeeps ==
  ASSUME TestInv, NEW t \in Tester, StopsEarly(t), Sits(tester[t]), ~tester[t].passed,
         UNCHANGED <<coreVars, spot, logVars, snag, tested>>
  PROVE  TestInv'
<1>1. CASE GoesTo(t, "recheck")
  BY <1>1, GoKeeps DEF TestStep
<1>2. CASE GoesTo(t, "check")
  BY <1>2, GoKeeps DEF TestStep
<1>. QED
  BY <1>1, <1>2 DEF StopsEarly

LEMMA StartKeeps ==
  ASSUME TestInv, NEW t \in Tester,
         NoBed(t) \/ \E task \in {"self", "strict"} : StartTests(t, task)
  PROVE  TestInv'
<1>1. \A n \in Spot : spot[n].by # t
  BY DEF TestInv, LeavesNothing, Holds, Sits, NoBed, StartTests, Reached
<1>2. CASE NoBed(t)
  BY <1>1, <1>2, SleepKeeps, TestedStays DEF NoBed
<1>3. ASSUME NEW task \in {"self", "strict"}, StartTests(t, task)
      PROVE  TestInv'
  <2>. DEFINE d == [Asleep EXCEPT !.task = task, !.step = "make", !.home = chosen,
                                  !.want = IF task = "self" THEN chosen ELSE 0]
  <2>1. d \in Test
    <3>1. chosen \in Edition /\ chosen \in 0 .. MaxEdition /\ 0 \in 0 .. MaxEdition
      BY BedTypes DEF TestInv, TestBedTypeOK, Edition
    <3>2. PICK want \in 0 .. MaxEdition : want = IF task = "self" THEN chosen ELSE 0
      BY <3>1
    <3>3. d = [Asleep EXCEPT !.task = task, !.step = "make", !.home = chosen, !.want = want]
      BY <3>2
    <3>. HIDE DEF d
    <3>. QED
      BY <3>1, <3>3, BedTypes DEF Test, TestStep
  <2>2. Holds(d) /\ Refers(d) /\ ~Sits(d) /\ d.task = task
    BY TestBedAssumption DEF Holds, Refers, Sits, Asleep
  <2>3. Becomes(t, d) /\ UNCHANGED <<coreVars, spot, logVars, tested, snag>>
    BY <1>3 DEF StartTests
  <2>4. task = "strict" => \A q \in Tester : tester[q].task = "self"
    BY <1>3 DEF StartTests
  <2>. HIDE DEF d
  <2>. QED
    BY <1>1, <2>1, <2>2, <2>3, <2>4, MoveKeeps, TestedStays
<1>. QED
  BY <1>2, <1>3

LEMMA NoteKeeps ==
  ASSUME TestInv, NEW t \in Tester, NEW fits \in BOOLEAN, NoteMark(t, fits)
  PROVE  TestInv'
<1>. SUFFICES ASSUME NEW c, c = tester[t] PROVE TestInv'
  OBVIOUS
<1>1. c \in Test /\ Holds(c) /\ Refers(c) /\ c.step = "note"
  BY DEF TestInv, TestBedTypeOK, NoteMark, Reached
<1>2. Sits(c) /\ c.spot \in Spot /\ Fits(t, c, spot[c.spot])
  BY <1>1 DEF Holds, Sits, TestInv, Beds
<1>3. CASE Bed(t).by = "free"
  <2>1. \A n \in Spot : spot[n].by # t
    BY <1>3, TestBedAssumption DEF TestInv, LeavesNothing, Bed
  <2>. QED
    BY <1>3, <2>1, SleepKeeps, TestedStays DEF NoteMark
<1>4. CASE Bed(t).by # "free"
  <2>. DEFINE d == [c EXCEPT !.step = IF fits THEN "read" ELSE "look",
                             !.mark = Bed(t).mark, !.left = Stuff]
  <2>1. Bed(t).mark \in 0 .. MaxMark
    BY <1>2 DEF Bed, TestInv, TestBedTypeOK, BedPlace
  <2>2. d \in Test
    BY <1>1, <2>1 DEF Test, TestStep
  <2>3. Holds(d) /\ Refers(d) /\ Sits(d) /\ d.spot = c.spot /\ d.task = c.task
    BY <1>1 DEF Holds, Refers, Sits, Test
  <2>4. Fits(t, d, spot[d.spot])
    BY <1>1, <1>2 DEF Fits, Test
  <2>5. Becomes(t, d) /\ UNCHANGED <<coreVars, spot, logVars, tested, snag>>
    BY <1>4 DEF NoteMark
  <2>. HIDE DEF d
  <2>. QED
    BY <2>2, <2>3, <2>4, <2>5, MoveKeeps, TestedStays
<1>. QED
  BY <1>3, <1>4

LEMMA ReadKitKeeps ==
  ASSUME TestInv, NEW t \in Tester, NEW m \in Stuff, ReadStuff(t, m)
  PROVE  TestInv'
<1>. SUFFICES ASSUME NEW c, c = tester[t] PROVE TestInv'
  OBVIOUS
<1>. DEFINE d == [c EXCEPT !.core[m] = kit[c.home][m], !.left = @ \ {m}]
<1>1. c \in Test /\ Holds(c) /\ Refers(c) /\ c.step = "read"
  BY DEF TestInv, TestBedTypeOK, ReadStuff, Reached
<1>2. Sits(c) /\ c.spot \in Spot /\ Fits(t, c, spot[c.spot]) /\ ~c.passed
  BY <1>1 DEF Holds, Sits, TestInv, Beds
<1>3. kit[c.home][m] \in 0 .. MaxEdition /\ c.core \in Core
  BY <1>1 DEF TestInv, TestBedTypeOK, Core, Test
<1>4. d \in Test /\ d.step = "read" /\ d.spot = c.spot /\ d.task = c.task
      /\ d.core[m] \in 0 .. MaxEdition
  BY <1>1, <1>3 DEF Test, Core
<1>5. /\ d.passed = c.passed /\ d.log = c.log /\ d.doomed = c.doomed
      /\ d.mark = c.mark
  BY <1>1 DEF Test
<1>. HIDE DEF d
<1>6. ASSUME NEW e \in Test, e.spot = d.spot, e.task = d.task, e.step \in {"read", "lay", "copy"},
             e.passed = d.passed, e.log = d.log, e.doomed = d.doomed, e.mark = d.mark,
             e.step = "copy" => d.task = "strict", Becomes(t, e)
      PROVE  TestInv'
  <2>1. Holds(e) /\ Refers(e) /\ Sits(e)
    BY <1>1, <1>2, <1>4, <1>5, <1>6 DEF Holds, Refers, Sits
  <2>2. Fits(t, e, spot[e.spot])
    BY <1>1, <1>2, <1>4, <1>5, <1>6 DEF Fits
  <2>3. UNCHANGED <<coreVars, spot, logVars, tested, snag>>
    BY DEF ReadStuff
  <2>. QED
    BY <1>4, <1>6, <2>1, <2>2, <2>3, MoveKeeps, TestedStays
<1>7. CASE Becomes(t, d)
  BY <1>4, <1>6, <1>7
<1>8. CASE StopsEarly(t)
  BY <1>2, <1>8, StopsKeeps DEF ReadStuff
<1>9. CASE Becomes(t, [d EXCEPT !.step = "lay"])
  <2>1. [d EXCEPT !.step = "lay"] \in Test
    BY <1>4 DEF Test, TestStep
  <2>. QED
    BY <1>4, <1>6, <1>9, <2>1 DEF Test
<1>10. CASE d.task # "self" /\ Becomes(t, [d EXCEPT !.step = "copy", !.left = Stuff,
                                                   !.want = d.core[m]])
  <2>1. [d EXCEPT !.step = "copy", !.left = Stuff, !.want = d.core[m]] \in Test
    BY <1>4 DEF Test, TestStep
  <2>. QED
    BY <1>4, <1>6, <1>10, <2>1 DEF Test
<1>. QED
  BY <1>7, <1>8, <1>9, <1>10 DEF ReadStuff, d

LEMMA VerifyKeeps ==
  ASSUME TestInv, NEW t \in Tester, VerifyCopy(t)
  PROVE  TestInv'
<1>. SUFFICES ASSUME NEW c, c = tester[t] PROVE TestInv'
  OBVIOUS
<1>1. c \in Test /\ Holds(c) /\ Refers(c) /\ c.step = "verify"
  BY DEF TestInv, TestBedTypeOK, VerifyCopy, Reached
<1>2. Sits(c) /\ c.spot \in Spot /\ Fits(t, c, spot[c.spot]) /\ ~c.passed
  BY <1>1 DEF Holds, Sits, TestInv, Beds
<1>3. CASE StopsEarly(t)
  BY <1>2, <1>3, StopsKeeps DEF VerifyCopy
<1>4. CASE GoesTo(t, "test") /\ Whole(Bed(t).core, c.want)
  <2>. DEFINE d == [c EXCEPT !.step = "test"]
  <2>1. d \in Test /\ Becomes(t, d)
    BY <1>1, <1>4 DEF GoesTo, Test, TestStep
  <2>2. /\ d.step = "test" /\ d.spot = c.spot /\ d.task = c.task /\ d.want = c.want
        /\ d.passed = c.passed /\ d.log = c.log /\ d.doomed = c.doomed /\ d.mark = c.mark
    BY <1>1 DEF Test
  <2>. HIDE DEF d
  <2>3. Holds(d) /\ Refers(d) /\ Sits(d)
    BY <1>1, <1>2, <2>2 DEF Holds, Refers, Sits
  <2>4. Fits(t, d, spot[d.spot])
    BY <1>1, <1>2, <1>4, <2>2 DEF Fits, Bed
  <2>5. UNCHANGED <<coreVars, spot, logVars, tested, snag>>
    BY DEF VerifyCopy
  <2>. QED
    BY <2>1, <2>2, <2>3, <2>4, <2>5, MoveKeeps, TestedStays
<1>. QED
  BY <1>3, <1>4 DEF VerifyCopy

\* What passed is noted as what it was.
LEMMA PassedKeeps ==
  ASSUME TestInv, NEW t \in Tester, NEW bytes \in Core, NEW own \in BOOLEAN,
         tester[t] \in Test, own => Whole(bytes, tester[t].want), Passed(t, bytes, own)
  PROVE  /\ (tested \subseteq [release : 0 .. MaxEdition, core : Core, own : BOOLEAN])'
         /\ TestsTheRelease'
<1>. DEFINE r == [release |-> tester[t].want, core |-> bytes, own |-> own]
<1>1. tested' = tested \cup {r}
  BY DEF Passed
<1>2. r \in [release : 0 .. MaxEdition, core : Core, own : BOOLEAN]
  BY DEF Test
<1>3. r.own => Whole(r.core, r.release)
  OBVIOUS
<1>. HIDE DEF r
<1>4. \A s \in tested' : s.own => Whole(s.core, s.release)
  BY <1>1, <1>3 DEF TestInv, TestsTheRelease
<1>5. (tested \subseteq [release : 0 .. MaxEdition, core : Core, own : BOOLEAN])'
  BY <1>1, <1>2 DEF TestInv, TestBedTypeOK
<1>6. TestsTheRelease'
  BY <1>4 DEF TestsTheRelease, Whole
<1>. QED
  BY <1>5, <1>6

LEMMA PassKeeps ==
  ASSUME TestInv, NEW t \in Tester, TestsPass(t)
  PROVE  TestInv'
<1>. SUFFICES ASSUME NEW c, c = tester[t], NEW b, b = Bed(t) PROVE TestInv'
  OBVIOUS
<1>1. c \in Test /\ Holds(c) /\ Refers(c) /\ c.step = "test"
  BY DEF TestInv, TestBedTypeOK, TestsPass, Reached
<1>2. Sits(c) /\ c.spot \in Spot /\ Fits(t, c, b) /\ ~c.passed
  BY <1>1 DEF Holds, Sits, TestInv, Beds, Bed
<1>3. b \in BedPlace /\ (b.by = t => Whole(b.core, c.want))
  BY <1>1, <1>2 DEF Fits, Bed, TestInv, TestBedTypeOK
<1>4. b.core \in Core
  BY <1>3 DEF BedPlace
<1>5. UNCHANGED <<coreVars, spot, logVars, snag>>
  BY DEF TestsPass
<1>6. CASE c.task = "strict"
  <2>. DEFINE d == [c EXCEPT !.left = Stuff, !.step = "again"]
  <2>1. Passed(t, b.core, b.by = t) /\ Becomes(t, d)
    BY <1>6 DEF TestsPass
  <2>2. d \in Test /\ d.spot = c.spot /\ d.task = c.task /\ d.step = "again"
        /\ d.passed = c.passed /\ d.log = c.log /\ d.doomed = c.doomed /\ d.mark = c.mark
    BY <1>1 DEF Test, TestStep
  <2>. HIDE DEF d
  <2>3. Holds(d) /\ Refers(d) /\ Sits(d) /\ Fits(t, d, spot[d.spot])
    BY <1>1, <1>2, <2>2 DEF Holds, Refers, Sits, Fits, Bed
  <2>4. /\ (tested \subseteq [release : 0 .. MaxEdition, core : Core, own : BOOLEAN])'
        /\ TestsTheRelease'
    BY <1>1, <1>3, <1>4, <2>1, PassedKeeps
  <2>. QED
    BY <1>5, <2>1, <2>2, <2>3, <2>4, MoveKeeps
<1>7. CASE c.task # "strict"
  <2>. DEFINE d == [c EXCEPT !.passed = TRUE, !.core = b.core, !.own = b.by = t,
                             !.step = "recheck"]
  <2>1. Becomes(t, d) /\ tested' = tested
    BY <1>7 DEF TestsPass
  <2>2. (b.by = t) \in BOOLEAN
    OBVIOUS
  <2>3. d \in Test
    BY <1>1, <1>4, <2>2 DEF Test, TestStep
  <2>4. /\ d.spot = c.spot /\ d.task = c.task /\ d.step = "recheck" /\ d.want = c.want
        /\ d.log = c.log /\ d.doomed = c.doomed /\ d.mark = c.mark /\ d.core = b.core
        /\ d.own = (b.by = t)
    BY <1>1 DEF Test
  <2>. HIDE DEF d
  <2>5. Holds(d) /\ Refers(d) /\ Sits(d) /\ Fits(t, d, spot[d.spot])
    BY <1>1, <1>2, <1>3, <2>4 DEF Holds, Refers, Sits, Fits, Bed
  <2>. QED
    BY <1>5, <2>1, <2>3, <2>4, <2>5, MoveKeeps, TestedStays
<1>. QED
  BY <1>6, <1>7

LEMMA FailKeeps ==
  ASSUME TestInv, NEW t \in Tester, TestsFail(t)
  PROVE  TestInv'
<1>. SUFFICES ASSUME NEW c, c = tester[t] PROVE TestInv'
  OBVIOUS
<1>1. c \in Test /\ Holds(c) /\ Refers(c) /\ c.step = "test"
  BY DEF TestInv, TestBedTypeOK, TestsFail, Reached
<1>2. Sits(c) /\ c.spot \in Spot /\ Fits(t, c, spot[c.spot]) /\ ~c.passed
  BY <1>1 DEF Holds, Sits, TestInv, Beds
<1>3. PICK step \in {"list", "again"} :
        Becomes(t, [c EXCEPT !.left = Stuff, !.step = step])
  BY DEF TestsFail
<1>. DEFINE d == [c EXCEPT !.left = Stuff, !.step = step]
<1>4. d \in Test /\ d.spot = c.spot /\ d.task = c.task /\ d.step \in {"list", "again"}
      /\ d.passed = c.passed /\ d.log = c.log /\ d.doomed = c.doomed /\ d.mark = c.mark
  BY <1>1 DEF Test, TestStep
<1>5. Becomes(t, d) /\ UNCHANGED <<coreVars, spot, logVars, tested, snag>>
  BY <1>3 DEF TestsFail
<1>. HIDE DEF d
<1>6. Holds(d) /\ Refers(d) /\ Sits(d) /\ Fits(t, d, spot[d.spot])
  BY <1>1, <1>2, <1>4 DEF Holds, Refers, Sits, Fits
<1>. QED
  BY <1>4, <1>5, <1>6, MoveKeeps, TestedStays

LEMMA AgainKeeps ==
  ASSUME TestInv, NEW t \in Tester, ChosenAgain(t) \/ \E m \in Stuff : ReadAgain(t, m)
  PROVE  TestInv'
<1>. SUFFICES ASSUME NEW c, c = tester[t] PROVE TestInv'
  OBVIOUS
<1>1. c \in Test /\ Holds(c) /\ Refers(c) /\ c.step \in {"recheck", "again"}
  BY DEF TestInv, TestBedTypeOK, ChosenAgain, ReadAgain, Reached
<1>2. Sits(c) /\ c.spot \in Spot /\ Fits(t, c, spot[c.spot])
  BY <1>1 DEF Holds, Sits, TestInv, Beds
<1>3. CASE ChosenAgain(t)
  <2>. DEFINE d == [c EXCEPT !.step = "check", !.passed = @ /\ chosen = c.want]
  <2>1. (c.passed /\ chosen = c.want) \in BOOLEAN
    OBVIOUS
  <2>2. d \in Test
    BY <1>1, <2>1 DEF Test, TestStep
  <2>3. d.spot = c.spot /\ d.task = c.task /\ d.step = "check" /\ (d.passed => c.passed)
        /\ d.log = c.log /\ d.doomed = c.doomed /\ d.mark = c.mark /\ d.core = c.core
        /\ d.own = c.own /\ d.want = c.want
    BY <1>1 DEF Test
  <2>4. Becomes(t, d) /\ UNCHANGED <<coreVars, spot, logVars, tested, snag>>
    BY <1>3 DEF ChosenAgain
  <2>. HIDE DEF d
  <2>5. Holds(d) /\ Refers(d) /\ Sits(d) /\ Fits(t, d, spot[d.spot])
    BY <1>1, <1>2, <2>3 DEF Holds, Refers, Sits, Fits
  <2>. QED
    BY <2>2, <2>3, <2>4, <2>5, MoveKeeps, TestedStays
<1>4. ASSUME NEW m \in Stuff, ReadAgain(t, m)
      PROVE  TestInv'
  <2>. DEFINE d == [c EXCEPT !.left = @ \ {m},
                             !.step = IF c.left = {m} THEN "check" ELSE @]
  <2>1. c.step = "again" /\ ~c.passed
    BY <1>1, <1>4 DEF ReadAgain, Reached, Holds
  <2>2. d \in Test /\ d.spot = c.spot /\ d.task = c.task /\ d.step \in {"again", "check"}
        /\ d.passed = c.passed /\ d.log = c.log /\ d.doomed = c.doomed /\ d.mark = c.mark
    BY <1>1, <2>1 DEF Test, TestStep
  <2>3. Becomes(t, d) /\ UNCHANGED <<coreVars, spot, logVars, tested, snag>>
    BY <1>4 DEF ReadAgain
  <2>. HIDE DEF d
  <2>4. Holds(d) /\ Refers(d) /\ Sits(d) /\ Fits(t, d, spot[d.spot])
    BY <1>1, <1>2, <2>1, <2>2 DEF Holds, Refers, Sits, Fits
  <2>. QED
    BY <2>2, <2>3, <2>4, MoveKeeps, TestedStays
<1>. QED
  BY <1>3, <1>4

-----------------------------------------------------------------------------
(* Which logs go.                                                          *)

LEMMA ListKeeps ==
  ASSUME TestInv, NEW t \in Tester, ListLogs(t)
  PROVE  TestInv'
<1>. SUFFICES ASSUME NEW c, c = tester[t] PROVE TestInv'
  OBVIOUS
<1>. DEFINE go == {[log |-> l, time |-> log[l].time] :
               l \in {k \in Listed : Cardinality(Later(Listed, log[k].time)) >= MaxKept}}
            d  == [c EXCEPT !.step = "prune", !.doomed = go]
<1>1. c \in Test /\ Holds(c) /\ Refers(c) /\ c.step = "list"
  BY DEF TestInv, TestBedTypeOK, ListLogs, Reached
<1>2. Sits(c) /\ c.spot \in Spot /\ Fits(t, c, spot[c.spot]) /\ ~c.passed
  BY <1>1 DEF Holds, Sits, TestInv, Beds
<1>3. ASSUME NEW old \in go
      PROVE  /\ old \in Old /\ log[old.log].state # "none"
             /\ log[old.log].born <= old.time /\ Enough(old.time)
  <2>1. PICK l \in LogName : /\ log[l].state = "there"
                             /\ Cardinality(Later(Listed, log[l].time)) >= MaxKept
                             /\ old = [log |-> l, time |-> log[l].time]
    BY DEF Listed
  <2>2. old.log = l /\ old.time = log[l].time /\ log[l].time \in Nat
    BY <2>1 DEF TestInv, TestBedTypeOK, FailureLog
  <2>3. IsFiniteSet(LogName)
    BY FS_Interval, TestBedAssumption DEF LogName
  <2>4. /\ Later(Listed, log[l].time) \subseteq Later(LogName, log[l].time)
        /\ IsFiniteSet(Later(LogName, log[l].time))
    BY <2>3, FS_Subset DEF Later, Listed
  <2>5. /\ Cardinality(Later(Listed, log[l].time)) <= Cardinality(Later(LogName, log[l].time))
        /\ Cardinality(Later(Listed, log[l].time)) \in Nat
        /\ Cardinality(Later(LogName, log[l].time)) \in Nat
    BY <2>4, FS_Subset, FS_CardinalityType
  <2>6. Enough(log[l].time)
    BY <2>1, <2>5, BedTypes DEF Enough
  <2>. QED
    BY <2>1, <2>2, <2>6 DEF Old, TestInv, LogsKnown
<1>4. go \subseteq Old
  BY <1>3
<1>5. Becomes(t, d) /\ UNCHANGED <<coreVars, spot, logVars, tested, snag>>
  BY DEF ListLogs
<1>. HIDE DEF go
<1>6. d \in Test /\ d.spot = c.spot /\ d.task = c.task /\ d.step = "prune"
      /\ d.passed = c.passed /\ d.log = c.log /\ d.doomed = go /\ d.mark = c.mark
  BY <1>1, <1>4 DEF Test, TestStep
<1>. HIDE DEF d
<1>7. Holds(d) /\ Refers(d) /\ Sits(d) /\ Fits(t, d, spot[d.spot])
  BY <1>1, <1>2, <1>3, <1>6 DEF Holds, Refers, Sits, Fits
<1>. QED
  BY <1>5, <1>6, <1>7, MoveKeeps, TestedStays

LEMMA PruneKeeps ==
  ASSUME TestInv, NEW t \in Tester, NEW old \in tester[t].doomed, PruneLog(t, old)
  PROVE  TestInv'
<1>. SUFFICES ASSUME NEW c, c = tester[t] PROVE TestInv'
  OBVIOUS
<1>1. c \in Test /\ Holds(c) /\ Refers(c) /\ c.step = "prune"
  BY DEF TestInv, TestBedTypeOK, PruneLog, Reached
<1>2. Sits(c) /\ c.spot \in Spot /\ Fits(t, c, spot[c.spot]) /\ ~c.passed
  BY <1>1 DEF Holds, Sits, TestInv, Beds
<1>3. /\ old.log \in LogName /\ old.log \in 0 .. MaxLog /\ old.time \in Nat
      /\ log[old.log].state # "none"
      /\ log[old.log].born <= old.time /\ Enough(old.time)
  BY <1>1, BedTypes DEF Test, Old, Refers, LogName
<1>4. log[old.log].born \in Nat
  BY <1>3 DEF TestInv, TestBedTypeOK, FailureLog
<1>5. Enough(log[old.log].born)
  BY <1>3, <1>4, EnoughEarlier DEF TestInv
<1>6. UNCHANGED <<coreVars, spot, logVars, tested, snag>>
  BY DEF PruneLog
<1>7. CASE GoesTo(t, "recheck")
  BY <1>2, <1>6, <1>7, GoKeeps DEF TestStep
<1>8. CASE Becomes(t, [c EXCEPT !.step = "unlink", !.log = old.log, !.doomed = @ \ {old}])
  <2>. DEFINE d == [c EXCEPT !.step = "unlink", !.log = old.log, !.doomed = @ \ {old}]
  <2>1. d \in Test /\ d.spot = c.spot /\ d.task = c.task /\ d.step = "unlink"
        /\ d.passed = c.passed /\ d.log = old.log /\ d.doomed = c.doomed \ {old}
        /\ d.mark = c.mark
    BY <1>1, <1>3 DEF Test, TestStep
  <2>2. Becomes(t, d)
    BY <1>8
  <2>. HIDE DEF d
  <2>3. Holds(d) /\ Sits(d) /\ Fits(t, d, spot[d.spot])
    BY <1>1, <1>2, <2>1 DEF Holds, Sits, Fits
  <2>4. Refers(d)
    BY <1>1, <1>3, <1>5, <2>1 DEF Refers
  <2>. QED
    BY <1>6, <2>1, <2>2, <2>3, <2>4, MoveKeeps, TestedStays
<1>. QED
  BY <1>7, <1>8 DEF PruneLog

LEMMA LogKeeps ==
  ASSUME TestInv, NEW t \in Tester, NEW c \in Test, Becomes(t, c), Holds(c),
         Sits(c), c.spot = tester[t].spot, c.task = tester[t].task,
         Fits(t, c, spot[c.spot]), LogsGrow, Refers(c)',
         (log \in [LogName -> FailureLog] /\ clock \in Nat)',
         \A l \in LogName :
           /\ log'[l].born <= log'[l].time /\ log'[l].time <= clock'
           /\ log'[l].told => log'[l].whole
           /\ log'[l].state = "gone" => log'[l].born = log[l].born /\ Enough(log[l].born),
         UNCHANGED <<coreVars, spot, tested, snag>>
  PROVE  TestInv'
<1>1. ASSUME NEW l \in LogName, log'[l].state = "gone"
      PROVE  \E born \in Nat : born = log'[l].born /\ Enough(born)'
  <2>1. PICK born \in Nat : born = log[l].born
    BY DEF TestInv, TestBedTypeOK, FailureLog
  <2>2. Enough(born)'
    BY <1>1, <2>1, EnoughStays DEF TestInv
  <2>3. log'[l].born = born
    BY <1>1, <2>1
  <2>. QED
    BY <2>2, <2>3
<1>2. LogsKnown'
  BY <1>1 DEF LogsKnown, Enough
<1>3. kit' = kit /\ chosen' = chosen /\ spot' = spot /\ snag' = snag /\ tested' = tested
  BY DEF coreVars
<1>4. \A n \in Spot : spot[n].by = t => Sits(c) /\ c.spot = n
  BY DEF TestInv, LeavesNothing, Reached
<1>. QED
  BY <1>2, <1>3, <1>4, TestStepKeeps, TestedStays DEF TestInv, TestBedTypeOK, Beds

LEMMA UnlinkKeeps ==
  ASSUME TestInv, NEW t \in Tester, Unlink(t)
  PROVE  TestInv'
<1>. SUFFICES ASSUME NEW c, c = tester[t] PROVE TestInv'
  OBVIOUS
<1>1. c \in Test /\ Holds(c) /\ Refers(c) /\ c.step = "unlink"
  BY DEF TestInv, TestBedTypeOK, Unlink, Reached
<1>2. Sits(c) /\ c.spot \in Spot /\ Fits(t, c, spot[c.spot]) /\ ~c.passed
  BY <1>1 DEF Holds, Sits, TestInv, Beds
<1>3. c.log \in LogName /\ Enough(log[c.log].born)
  BY <1>1 DEF Refers
<1>4. CASE GoesTo(t, "recheck") /\ UNCHANGED log
  BY <1>2, <1>4, GoKeeps DEF TestStep, Unlink, logVars
<1>5. CASE log' = [log EXCEPT ![c.log].state = "gone"] /\ GoesTo(t, "prune")
           /\ log[c.log].state = "there"
  <2>. DEFINE d == [c EXCEPT !.step = "prune"]
  <2>1. d \in Test /\ d.spot = c.spot /\ d.task = c.task /\ d.step = "prune"
        /\ d.passed = c.passed /\ d.log = c.log /\ d.doomed = c.doomed /\ d.mark = c.mark
    BY <1>1 DEF Test, TestStep
  <2>2. Becomes(t, d)
    BY <1>5 DEF GoesTo
  <2>. HIDE DEF d
  <2>3. Holds(d) /\ Sits(d) /\ Fits(t, d, spot[d.spot]) /\ Refers(d)
    BY <1>1, <1>2, <2>1 DEF Holds, Sits, Fits, Refers
  <2>4. log \in [LogName -> FailureLog] /\ clock \in Nat /\ LogsKnown
    BY DEF TestInv, TestBedTypeOK
  <2>5. log' \in [LogName -> FailureLog]
    BY <1>3, <1>5, <2>4 DEF FailureLog
  <2>6. \A l \in LogName :
          /\ log'[l].born = log[l].born /\ log'[l].time = log[l].time
          /\ log'[l].whole = log[l].whole /\ log'[l].told = log[l].told
          /\ log'[l].state = IF l = c.log THEN "gone" ELSE log[l].state
    BY <1>3, <1>5, <2>4 DEF FailureLog
  <2>7. LogsGrow
    BY <2>4, <2>6 DEF LogsGrow, FailureLog
  <2>8. clock' = clock /\ UNCHANGED <<coreVars, spot, tested, snag>>
    BY DEF Unlink
  <2>9. Refers(d)'
    BY <2>1, <2>3, <2>5, <2>7, RefersStays DEF TestInv
  <2>10. \A l \in LogName :
           /\ log'[l].born <= log'[l].time /\ log'[l].time <= clock'
           /\ log'[l].told => log'[l].whole
           /\ log'[l].state = "gone" => log'[l].born = log[l].born /\ Enough(log[l].born)
    BY <1>3, <2>4, <2>6, <2>8 DEF LogsKnown
  <2>. QED
    BY <2>1, <2>2, <2>3, <2>4, <2>5, <2>7, <2>8, <2>9, <2>10, LogKeeps
<1>. QED
  BY <1>4, <1>5 DEF Unlink

LEMMA CreateKeeps ==
  ASSUME TestInv, NEW t \in Tester, NEW l \in LogName, CreateLog(t, l)
  PROVE  TestInv'
<1>. SUFFICES ASSUME NEW c, c = tester[t] PROVE TestInv'
  OBVIOUS
<1>. DEFINE d == [c EXCEPT !.step = "fill", !.log = l]
            k == [NoFailure EXCEPT !.state = "there", !.born = clock + 1, !.time = clock + 1]
<1>1. c \in Test /\ Holds(c) /\ Refers(c) /\ c.step = "prune" /\ c.doomed = {}
  BY DEF TestInv, TestBedTypeOK, CreateLog, Reached
<1>2. Sits(c) /\ c.spot \in Spot /\ Fits(t, c, spot[c.spot]) /\ ~c.passed
  BY <1>1 DEF Holds, Sits, TestInv, Beds
<1>3. log \in [LogName -> FailureLog] /\ clock \in Nat /\ LogsKnown
  BY DEF TestInv, TestBedTypeOK
<1>4. Becomes(t, d) /\ clock' = clock + 1 /\ log' = [log EXCEPT ![l] = k]
      /\ log[l].state = "none" /\ UNCHANGED <<coreVars, spot, tested, snag>>
  BY DEF CreateLog
<1>5. k \in FailureLog /\ k.state = "there" /\ k.born = clock + 1 /\ k.time = clock + 1
      /\ k.told = FALSE
  <2>1. NoFailure \in FailureLog /\ NoFailure.told = FALSE
    BY BedTypes DEF NoFailure
  <2>2. PICK time \in Nat : time = clock + 1
    BY <1>3
  <2>3. k = [NoFailure EXCEPT !.state = "there", !.born = time, !.time = time]
    BY <2>2
  <2>. HIDE DEF k
  <2>4. /\ k \in FailureLog /\ k.state = "there" /\ k.born = time /\ k.time = time
        /\ k.told = NoFailure.told
    BY <2>1, <2>3 DEF FailureLog
  <2>. QED
    BY <2>1, <2>2, <2>4
<1>6. l \in 0 .. MaxLog
  BY BedTypes DEF LogName
<1>7. d \in Test /\ d.spot = c.spot /\ d.task = c.task /\ d.step = "fill"
      /\ d.passed = c.passed /\ d.log = l /\ d.doomed = {} /\ d.mark = c.mark
  BY <1>1, <1>6 DEF Test, TestStep
<1>. HIDE DEF d, k
<1>8. Holds(d) /\ Sits(d) /\ Fits(t, d, spot[d.spot])
  BY <1>1, <1>2, <1>7 DEF Holds, Sits, Fits
<1>9. log' \in [LogName -> FailureLog] /\ \A i \in LogName : log'[i] = IF i = l THEN k ELSE log[i]
  BY <1>3, <1>4, <1>5
<1>10. Refers(d)'
  BY <1>5, <1>7, <1>9 DEF Refers
<1>11. \A i \in LogName : log[i].time \in Nat /\ log[i].time <= clock
  BY <1>3 DEF LogsKnown, FailureLog
<1>12. LogsGrow
  BY <1>3, <1>4, <1>5, <1>9, <1>11 DEF LogsGrow
<1>13. ASSUME NEW i \in LogName
       PROVE  /\ log'[i].born <= log'[i].time /\ log'[i].time <= clock'
              /\ log'[i].told => log'[i].whole
              /\ log'[i].state = "gone" => log'[i].born = log[i].born /\ Enough(log[i].born)
  <2>1. CASE i = l
    BY <1>3, <1>4, <1>5, <1>9, <2>1
  <2>2. CASE i # l
    BY <1>3, <1>4, <1>9, <1>11, <2>2 DEF LogsKnown
  <2>. QED
    BY <2>1, <2>2
<1>14. clock' \in Nat
  BY <1>3, <1>4
<1>. QED
  BY <1>4, <1>7, <1>8, <1>9, <1>10, <1>12, <1>13, <1>14, LogKeeps

LEMMA FillKeeps ==
  ASSUME TestInv, NEW t \in Tester, FillLog(t) \/ ConfirmLog(t)
  PROVE  TestInv'
<1>. SUFFICES ASSUME NEW c, c = tester[t] PROVE TestInv'
  OBVIOUS
<1>1. c \in Test /\ Holds(c) /\ Refers(c) /\ c.step \in {"fill", "confirm"}
  BY DEF TestInv, TestBedTypeOK, FillLog, ConfirmLog, Reached
<1>2. Sits(c) /\ c.spot \in Spot /\ Fits(t, c, spot[c.spot]) /\ ~c.passed
  BY <1>1 DEF Holds, Sits, TestInv, Beds
<1>3. log \in [LogName -> FailureLog] /\ clock \in Nat /\ LogsKnown
  BY DEF TestInv, TestBedTypeOK
<1>4. c.log \in LogName /\ log[c.log].state # "none" /\ UNCHANGED <<coreVars, spot, tested, snag>>
  BY <1>1 DEF Refers, FillLog, ConfirmLog
<1>5. \A i \in LogName : log[i].time \in Nat /\ log[i].time <= clock /\ log[i].born \in Nat
                         /\ log[i].born <= log[i].time
  BY <1>3 DEF LogsKnown, FailureLog
<1>6. CASE FillLog(t)
  <2>. DEFINE d == [c EXCEPT !.step = "confirm"]
              k == [log[c.log] EXCEPT !.time = clock + 1, !.whole = TRUE]
  <2>1. Becomes(t, d) /\ clock' = clock + 1 /\ log' = [log EXCEPT ![c.log] = k]
    BY <1>3, <1>4, <1>6 DEF FillLog, GoesTo, FailureLog
  <2>2. d \in Test /\ d.spot = c.spot /\ d.task = c.task /\ d.step = "confirm"
        /\ d.passed = c.passed /\ d.log = c.log /\ d.doomed = c.doomed /\ d.mark = c.mark
    BY <1>1 DEF Test, TestStep
  <2>3. log[c.log] \in FailureLog
    BY <1>3, <1>4
  <2>4. /\ k \in FailureLog /\ k.state = log[c.log].state /\ k.born = log[c.log].born
        /\ k.time = clock + 1 /\ k.whole = TRUE /\ k.told = log[c.log].told
    <3>1. PICK time \in Nat : time = clock + 1
      BY <1>3
    <3>2. k = [log[c.log] EXCEPT !.time = time, !.whole = TRUE]
      BY <3>1
    <3>. HIDE DEF k
    <3>3. /\ k \in FailureLog /\ k.state = log[c.log].state /\ k.born = log[c.log].born
          /\ k.time = time /\ k.whole = TRUE /\ k.told = log[c.log].told
      BY <2>3, <3>2 DEF FailureLog
    <3>. QED
      BY <3>1, <3>3
  <2>. HIDE DEF d, k
  <2>5. Holds(d) /\ Sits(d) /\ Fits(t, d, spot[d.spot])
    BY <1>1, <1>2, <2>2 DEF Holds, Sits, Fits
  <2>6. /\ log' \in [LogName -> FailureLog]
        /\ \A i \in LogName : log'[i] = IF i = c.log THEN k ELSE log[i]
    BY <1>3, <1>4, <2>1, <2>4
  <2>7. ASSUME NEW i \in LogName
        PROVE  /\ log[i].state # "none" => log'[i].state # "none" /\ log'[i].born = log[i].born
               /\ log[i].time <= log'[i].time
               /\ log[i].state # "none" /\ log[i].whole => log'[i].whole
    <3>1. CASE i = c.log
      BY <1>3, <1>5, <2>4, <2>6, <3>1
    <3>2. CASE i # c.log
      BY <1>5, <2>6, <3>2
    <3>. QED
      BY <3>1, <3>2
  <2>8. LogsGrow
    BY <2>7 DEF LogsGrow
  <2>9. ASSUME NEW i \in LogName
        PROVE  /\ log'[i].born <= log'[i].time /\ log'[i].time <= clock'
               /\ log'[i].told => log'[i].whole
               /\ log'[i].state = "gone" => log'[i].born = log[i].born /\ Enough(log[i].born)
    <3>1. CASE i = c.log
      BY <1>3, <1>5, <2>1, <2>4, <2>6, <3>1 DEF LogsKnown
    <3>2. CASE i # c.log
      BY <1>3, <1>5, <2>1, <2>6, <3>2 DEF LogsKnown
    <3>. QED
      BY <3>1, <3>2
  <2>10. Refers(c)'
    BY <1>1, <2>6, <2>8, RefersStays DEF TestInv
  <2>11. Refers(d)'
    BY <1>4, <2>2, <2>4, <2>6, <2>10 DEF Refers
  <2>12. clock' \in Nat
    BY <1>3, <2>1
  <2>. QED
    BY <1>4, <2>1, <2>2, <2>5, <2>6, <2>8, <2>9, <2>11, <2>12, LogKeeps
<1>7. CASE ConfirmLog(t)
  <2>. DEFINE d == [c EXCEPT !.step = "recheck"]
              k == [log[c.log] EXCEPT !.told = log[c.log].state = "there"]
  <2>1. Becomes(t, d) /\ clock' = clock /\ log' = [log EXCEPT ![c.log] = k] /\ log[c.log].whole
    BY <1>1, <1>7 DEF ConfirmLog, GoesTo, Reached, Refers
  <2>2. d \in Test /\ d.spot = c.spot /\ d.task = c.task /\ d.step = "recheck"
        /\ d.passed = c.passed /\ d.log = c.log /\ d.doomed = c.doomed /\ d.mark = c.mark
    BY <1>1 DEF Test, TestStep
  <2>3. log[c.log] \in FailureLog /\ (log[c.log].state = "there") \in BOOLEAN
    BY <1>3, <1>4
  <2>4. /\ k \in FailureLog /\ k.state = log[c.log].state /\ k.born = log[c.log].born
        /\ k.time = log[c.log].time /\ k.whole = log[c.log].whole
    <3>1. PICK told \in BOOLEAN : told = (log[c.log].state = "there")
      BY <2>3
    <3>2. k = [log[c.log] EXCEPT !.told = told]
      BY <3>1
    <3>. HIDE DEF k
    <3>. QED
      BY <2>3, <3>2 DEF FailureLog
  <2>. HIDE DEF d, k
  <2>5. Holds(d) /\ Sits(d) /\ Fits(t, d, spot[d.spot])
    BY <1>1, <1>2, <2>2 DEF Holds, Sits, Fits
  <2>6. /\ log' \in [LogName -> FailureLog]
        /\ \A i \in LogName : log'[i] = IF i = c.log THEN k ELSE log[i]
    BY <1>3, <1>4, <2>1, <2>4
  <2>7. LogsGrow
    BY <1>5, <2>4, <2>6 DEF LogsGrow
  <2>8. \A i \in LogName :
               /\ log'[i].born <= log'[i].time /\ log'[i].time <= clock'
               /\ log'[i].told => log'[i].whole
               /\ log'[i].state = "gone" => log'[i].born = log[i].born /\ Enough(log[i].born)
    BY <1>3, <1>5, <2>1, <2>4, <2>6 DEF LogsKnown
  <2>9. Refers(c)'
    BY <1>1, <2>6, <2>7, RefersStays DEF TestInv
  <2>10. Refers(d)'
    BY <2>2, <2>9 DEF Refers
  <2>. QED
    BY <1>3, <1>4, <2>1, <2>2, <2>5, <2>6, <2>7, <2>8, <2>10, LogKeeps
<1>. QED
  BY <1>6, <1>7

-----------------------------------------------------------------------------
(* The actions on directories.                                             *)

LEMMA SpotKeeps ==
  ASSUME TestInv, NEW t \in Tester, NEW c \in Test, Becomes(t, c), Holds(c), Refers(c),
         c.task \in {tester[t].task, "self"},
         spot' \in [Spot -> BedPlace],
         Sits(c) => Fits(t, c, spot'[c.spot]),
         \A q \in Tester \ {t} :
           Sits(tester[q]) => Fits(q, tester[q], spot'[tester[q].spot]),
         \A n \in Spot : spot'[n].by \in Tester =>
           \/ spot'[n].by = t /\ Sits(c) /\ c.spot = n
           \/ spot'[n].by # t /\ spot[n].by = spot'[n].by,
         UNCHANGED <<coreVars, logVars>>, snag' \in 0 .. MaxSnag,
         (tested \subseteq [release : 0 .. MaxEdition, core : Core, own : BOOLEAN])',
         TestsTheRelease'
  PROVE  TestInv'
<1>1. kit' = kit /\ chosen' = chosen /\ log' = log /\ clock' = clock
  BY DEF coreVars, logVars
<1>2. LogsGrow
  BY <1>1 DEF LogsGrow, TestInv, TestBedTypeOK, FailureLog
<1>3. LogsKnown' /\ Refers(c)'
  BY <1>1 DEF LogsKnown, Refers, Enough, Later, TestInv
<1>4. c.task = "strict" => tester[t].task = "strict"
  OBVIOUS
<1>. QED
  BY <1>1, <1>2, <1>3, <1>4, TestStepKeeps DEF TestInv, TestBedTypeOK

LEMMA MakeKeeps ==
  ASSUME TestInv, NEW t \in Tester, NEW n \in Spot, NEW mark \in Mark, MakeBed(t, n, mark)
  PROVE  TestInv'
<1>. SUFFICES ASSUME NEW c, c = tester[t], NEW b, b = NewBed(n, mark, t) PROVE TestInv'
  OBVIOUS
<1>. DEFINE d == [c EXCEPT !.step = "note", !.spot = n]
<1>1. c \in Test /\ Holds(c) /\ Refers(c) /\ c.step = "make" /\ ~Sits(c)
  BY DEF TestInv, TestBedTypeOK, MakeBed, Reached, Sits
<1>2. Becomes(t, d) /\ spot' = [spot EXCEPT ![n] = b] /\ spot \in [Spot -> BedPlace]
      /\ UNCHANGED <<coreVars, logVars, tested, snag>>
  BY DEF MakeBed, TestInv, TestBedTypeOK
<1>3. d \in Test /\ d.spot = n /\ d.task = c.task /\ d.step = "note"
      /\ d.passed = c.passed /\ d.log = c.log /\ d.doomed = c.doomed /\ d.own = c.own
  BY <1>1 DEF Test, TestStep
<1>. HIDE DEF d
<1>4. /\ b.by = t /\ b.mark = mark /\ b.alike = Alike(n, mark) /\ b \in BedPlace
  <2>1. PICK alike \in BOOLEAN : alike = Alike(n, mark)
    BY DEF Alike
  <2>2. b = [by |-> t, mark |-> mark, core |-> NoCore, full |-> FALSE, alike |-> alike]
    BY <2>1, TestBedAssumption DEF NewBed
  <2>3. mark \in 0 .. MaxMark /\ NoCore \in Core
    BY BedTypes DEF Mark
  <2>. QED
    BY <2>1, <2>2, <2>3 DEF BedPlace
<1>5. Holds(d) /\ Refers(d)
  BY <1>1, <1>3 DEF MakeBed, Holds, Refers, Sits
<1>6. Fits(t, d, b)
  BY <1>3, <1>4 DEF Fits
<1>7. \A i \in Spot : spot'[i] = IF i = n THEN b ELSE spot[i]
  BY <1>2
<1>8. ASSUME NEW q \in Tester \ {t}, Sits(tester[q])
      PROVE  Fits(q, tester[q], spot'[tester[q].spot])
  <2>1. tester[q].spot \in Spot /\ Fits(q, tester[q], spot[tester[q].spot])
    BY <1>8 DEF TestInv, Holds, Beds
  <2>2. CASE tester[q].spot = n
    <3>1. b.by # q /\ spot'[tester[q].spot] = b
      BY <1>4, <1>7, <2>1, <2>2
    <3>2. tester[q].step \in {"note", "remove", "rmdir"} \/ tester[q].mark = mark => b.alike
      BY <1>4, <2>2 DEF Alike
    <3>. QED
      BY <1>4, <3>1, <3>2 DEF Fits
  <2>3. CASE tester[q].spot # n
    BY <1>7, <2>1, <2>3
  <2>. QED
    BY <2>2, <2>3
<1>9. ASSUME NEW i \in Spot, spot'[i].by \in Tester
      PROVE  \/ spot'[i].by = t /\ Sits(d) /\ d.spot = i
             \/ spot'[i].by # t /\ spot[i].by = spot'[i].by
  <2>1. spot[i].by # t
    BY <1>1 DEF TestInv, LeavesNothing, Reached, Holds
  <2>. QED
    BY <1>3, <1>4, <1>7, <2>1 DEF Sits
<1>10. spot' \in [Spot -> BedPlace] /\ snag' \in 0 .. MaxSnag
  BY <1>2, <1>4 DEF TestInv, TestBedTypeOK
<1>. QED
  BY <1>2, <1>3, <1>5, <1>6, <1>7, <1>8, <1>9, <1>10, SpotKeeps, TestedStays

\* What a command writes into its directory, as a self-test or as a strict verification.
LEMMA WriteKeeps ==
  ASSUME TestInv, NEW t \in Tester, NEW d \in Test, Becomes(t, d), NEW bytes \in Core,
         spot' = [spot EXCEPT ![tester[t].spot].core = bytes,
                              ![tester[t].spot].full = TRUE],
         tester[t].step \in {"lay", "copy"},
         d.step \in {"copy", "verify"}, d.step = "copy" => d.task = "strict",
         d.spot = tester[t].spot, d.task = tester[t].task, d.passed = tester[t].passed,
         d.log = tester[t].log, d.doomed = tester[t].doomed, d.mark = tester[t].mark,
         tester[t].task = "strict" \/ Room(t),
         UNCHANGED <<coreVars, logVars, tested, snag>>
  PROVE  TestInv'
<1>. SUFFICES ASSUME NEW c, c = tester[t], NEW b, b = spot[c.spot] PROVE TestInv'
  OBVIOUS
<1>1. c \in Test /\ Holds(c) /\ Refers(c) /\ Sits(c) /\ c.spot \in Spot
  BY DEF TestInv, TestBedTypeOK, Sits, Holds
<1>2. Fits(t, c, b) /\ ~c.passed /\ spot \in [Spot -> BedPlace] /\ b \in BedPlace
  BY <1>1 DEF Holds, TestInv, TestBedTypeOK, Beds
<1>3. Holds(d) /\ Refers(d) /\ Sits(d)
  BY <1>1, <1>2 DEF Holds, Refers, Sits
<1>. DEFINE e == [b EXCEPT !.core = bytes, !.full = TRUE]
<1>4. e \in BedPlace /\ e.by = b.by /\ e.mark = b.mark /\ e.alike = b.alike
  BY <1>2 DEF BedPlace
<1>5. \A i \in Spot : spot'[i] = IF i = c.spot THEN e ELSE spot[i]
  BY <1>1, <1>2 DEF BedPlace
<1>. HIDE DEF e
<1>6. spot' \in [Spot -> BedPlace]
  <2>1. spot' = [i \in Spot |-> spot'[i]]
    BY <1>2
  <2>. QED
    BY <1>2, <1>4, <1>5, <2>1
<1>7. Fits(t, d, spot'[d.spot])
  BY <1>1, <1>2, <1>4, <1>5 DEF Fits
<1>8. ASSUME NEW q \in Tester \ {t}, Sits(tester[q])
      PROVE  Fits(q, tester[q], spot'[tester[q].spot])
  <2>1. /\ tester[q].spot \in Spot /\ Fits(q, tester[q], spot[tester[q].spot])
        /\ tester[q].spot \in StrictSpot <=> tester[q].task = "strict"
    BY <1>8 DEF TestInv, Holds, Beds
  <2>2. CASE tester[q].spot # c.spot
    BY <1>5, <2>1, <2>2
  <2>3. CASE tester[q].spot = c.spot
    <3>1. c.task # "strict"
      BY <1>1, <2>1, <2>3 DEF TestInv, OneStrict, Holds
    <3>2. b.core = NoCore
      BY <3>1 DEF Room, Bed
    <3>3. ~Whole(NoCore, tester[q].want)
      BY TestBedAssumption DEF Whole, NoCore
    <3>4. ~(tester[q].step = "test" /\ b.by = q)
      BY <2>1, <2>3, <3>2, <3>3 DEF Fits
    <3>5. spot'[tester[q].spot] = e /\ Fits(q, tester[q], b)
      BY <1>1, <1>5, <2>1, <2>3
    <3>. QED
      BY <1>4, <3>4, <3>5 DEF Fits
  <2>. QED
    BY <2>2, <2>3
<1>9. ASSUME NEW i \in Spot, spot'[i].by \in Tester
      PROVE  \/ spot'[i].by = t /\ Sits(d) /\ d.spot = i
             \/ spot'[i].by # t /\ spot[i].by = spot'[i].by
  <2>1. spot'[i].by = spot[i].by
    BY <1>4, <1>5
  <2>2. spot[i].by = t => c.spot = i
    BY DEF TestInv, LeavesNothing
  <2>. QED
    BY <1>3, <2>1, <2>2
<1>10. snag' \in 0 .. MaxSnag
  BY DEF TestInv, TestBedTypeOK
<1>. QED
  BY <1>3, <1>6, <1>7, <1>8, <1>9, <1>10, SpotKeeps, TestedStays

LEMMA CopyKeeps ==
  ASSUME TestInv, NEW t \in Tester, LayCopy(t) \/ \E m \in Stuff : CopyStuff(t, m)
  PROVE  TestInv'
<1>. SUFFICES ASSUME NEW c, c = tester[t] PROVE TestInv'
  OBVIOUS
<1>1. c \in Test /\ Holds(c) /\ Refers(c) /\ c.step \in {"lay", "copy"}
  BY DEF TestInv, TestBedTypeOK, LayCopy, CopyStuff, Reached
<1>2. Sits(c) /\ c.spot \in Spot /\ ~c.passed
  BY <1>1 DEF Holds, Sits
<1>3. CASE StopsEarly(t) /\ UNCHANGED spot
  BY <1>2, <1>3, StopsKeeps DEF LayCopy, CopyStuff
<1>4. CASE LayCopy(t) /\ ~(StopsEarly(t) /\ UNCHANGED spot)
  <2>. DEFINE d == [c EXCEPT !.step = "verify"]
  <2>1. d \in Test /\ d.spot = c.spot /\ d.task = c.task /\ d.step = "verify"
        /\ d.passed = c.passed /\ d.log = c.log /\ d.doomed = c.doomed /\ d.mark = c.mark
    BY <1>1 DEF Test, TestStep
  <2>2. /\ Becomes(t, d) /\ Room(t)
        /\ spot' = [spot EXCEPT ![c.spot].core = c.core, ![c.spot].full = TRUE]
        /\ UNCHANGED <<coreVars, logVars, tested, snag>>
    BY <1>4 DEF LayCopy, GoesTo
  <2>3. c.core \in Core
    BY <1>1 DEF Test
  <2>. HIDE DEF d
  <2>. QED
    BY <1>1, <2>1, <2>2, <2>3, WriteKeeps
<1>5. ASSUME NEW m \in Stuff, CopyStuff(t, m), ~(StopsEarly(t) /\ UNCHANGED spot)
      PROVE  TestInv'
  <2>. DEFINE d == [c EXCEPT !.step = IF c.left = {m} THEN "verify" ELSE @, !.left = @ \ {m}]
  <2>1. c.step = "copy" /\ c.task = "strict"
    BY <1>1, <1>5 DEF CopyStuff, Reached, Holds
  <2>2. d \in Test /\ d.spot = c.spot /\ d.task = c.task /\ d.step \in {"copy", "verify"}
        /\ d.passed = c.passed /\ d.log = c.log /\ d.doomed = c.doomed /\ d.mark = c.mark
    BY <1>1, <2>1 DEF Test, TestStep
  <2>3. spot \in [Spot -> BedPlace] /\ kit[c.home][m] \in 0 .. MaxEdition
    BY <1>1 DEF TestInv, TestBedTypeOK, Core, Test
  <2>4. spot[c.spot] \in BedPlace
    BY <1>2, <2>3
  <2>5. PICK bytes \in Core : bytes = [spot[c.spot].core EXCEPT ![m] = kit[c.home][m]]
    BY <2>3, <2>4 DEF BedPlace, Core
  <2>6. /\ Becomes(t, d) /\ UNCHANGED <<coreVars, logVars, tested, snag>>
        /\ spot' = [spot EXCEPT ![c.spot].core[m] = kit[c.home][m], ![c.spot].full = TRUE]
    BY <1>5 DEF CopyStuff
  <2>7. spot' = [spot EXCEPT ![c.spot].core = bytes, ![c.spot].full = TRUE]
    BY <2>5, <2>6
  <2>. HIDE DEF d
  <2>. QED
    <3>1. Becomes(t, d) /\ UNCHANGED <<coreVars, logVars, tested, snag>>
      BY <2>6
    <3>2. d.step = "copy" => d.task = "strict"
      BY <2>1, <2>2
    <3>3. tester[t].step \in {"lay", "copy"} /\ (tester[t].task = "strict" \/ Room(t))
      BY <2>1
    <3>. QED
      BY <2>2, <2>5, <2>7, <3>1, <3>2, <3>3, WriteKeeps
<1>. QED
  BY <1>3, <1>4, <1>5

\* A command ends: what it leaves belongs to nobody.
LEMMA LeftKeeps ==
  ASSUME TestInv, NEW t \in Tester, Sleeps(t), spot' = Left(t),
         UNCHANGED <<coreVars, logVars, tested>>, snag' \in 0 .. MaxSnag
  PROVE  TestInv'
<1>1. spot \in [Spot -> BedPlace] /\ tester[t] \in Test
  BY DEF TestInv, TestBedTypeOK
<1>. DEFINE B(n) == [spot[n] EXCEPT !.by = IF @ = t THEN "litter" ELSE @]
<1>2. \A n \in Spot : spot'[n] = B(n)
  BY DEF Left
<1>3. \A n \in Spot :
        /\ B(n) \in BedPlace /\ B(n).mark = spot[n].mark /\ B(n).core = spot[n].core
        /\ B(n).alike = spot[n].alike
        /\ B(n).by = IF spot[n].by = t THEN "litter" ELSE spot[n].by
  BY <1>1 DEF BedPlace
<1>4. spot' = [n \in Spot |-> B(n)]
  BY DEF Left
<1>. HIDE DEF B
<1>5. spot' \in [Spot -> BedPlace]
  BY <1>3, <1>4
<1>6. ASSUME NEW q \in Tester \ {t}, Sits(tester[q])
      PROVE  Fits(q, tester[q], spot'[tester[q].spot])
  <2>1. tester[q].spot \in Spot /\ Fits(q, tester[q], spot[tester[q].spot])
    BY <1>6 DEF TestInv, Holds, Beds
  <2>2. "litter" # q /\ t # "free"
    BY TestBedAssumption
  <2>. QED
    BY <1>2, <1>3, <1>6, <2>1, <2>2 DEF Fits
<1>7. \A n \in Spot : spot'[n].by \in Tester => spot'[n].by # t /\ spot[n].by = spot'[n].by
  BY <1>2, <1>3, TestBedAssumption
<1>8. Asleep \in Test /\ Asleep.task = "self" /\ Becomes(t, Asleep)
  BY BedTypes DEF Asleep, Sleeps
<1>. QED
  BY <1>5, <1>6, <1>7, <1>8, AsleepHolds, SpotKeeps, TestedStays

LEMMA FinishedKeeps ==
  ASSUME TestInv, NEW t \in Tester, Finishes(t)
  PROVE  /\ (tested \subseteq [release : 0 .. MaxEdition, core : Core, own : BOOLEAN])'
         /\ TestsTheRelease'
<1>1. tester[t] \in Test /\ Holds(tester[t])
  BY DEF TestInv, TestBedTypeOK
<1>2. tester[t].core \in Core /\ tester[t].own \in BOOLEAN
  BY <1>1 DEF Test
<1>3. CASE tester[t].passed
  <2>1. tester[t].own => Whole(tester[t].core, tester[t].want)
    BY <1>1, <1>3 DEF Holds
  <2>. QED
    BY <1>1, <1>2, <1>3, <2>1, PassedKeeps DEF Finishes
<1>4. CASE ~tester[t].passed
  BY <1>4, TestedStays DEF Finishes
<1>. QED
  BY <1>3, <1>4

\* A command ends, and its directory is gone.
LEMMA FreeKeeps ==
  ASSUME TestInv, NEW t \in Tester, Finishes(t), Sits(tester[t]),
         spot' = [spot EXCEPT ![tester[t].spot] = FreeSpot],
         UNCHANGED <<coreVars, logVars, snag>>
  PROVE  TestInv'
<1>1. spot \in [Spot -> BedPlace] /\ FreeSpot \in BedPlace /\ snag' \in 0 .. MaxSnag
  BY BedTypes DEF TestInv, TestBedTypeOK
<1>2. tester[t].spot \in Spot
  BY DEF TestInv, Holds
<1>3. \A n \in Spot : spot'[n] = IF n = tester[t].spot THEN FreeSpot ELSE spot[n]
  BY <1>1
<1>4. spot' \in [Spot -> BedPlace]
  BY <1>1
<1>5. \A n \in Spot : spot[n].by = t => n = tester[t].spot
  BY DEF TestInv, LeavesNothing
<1>6. FreeSpot.by = "free" /\ "free" \notin Tester
  BY TestBedAssumption DEF FreeSpot
<1>7. ASSUME NEW q \in Tester \ {t}, Sits(tester[q])
      PROVE  Fits(q, tester[q], spot'[tester[q].spot])
  <2>1. tester[q].spot \in Spot /\ Fits(q, tester[q], spot[tester[q].spot])
    BY <1>7 DEF TestInv, Holds, Beds
  <2>. QED
    BY <1>3, <1>6, <2>1 DEF Fits
<1>8. \A n \in Spot : spot'[n].by \in Tester => spot'[n].by # t /\ spot[n].by = spot'[n].by
  BY <1>3, <1>5, <1>6
<1>9. Asleep \in Test /\ Asleep.task = "self" /\ Becomes(t, Asleep)
  BY BedTypes DEF Asleep, Sleeps, Finishes
<1>. QED
  BY <1>1, <1>4, <1>7, <1>8, <1>9, AsleepHolds, SpotKeeps, FinishedKeeps

LEMMA RemoveKeeps ==
  ASSUME TestInv, NEW t \in Tester, CheckBed(t) \/ RemoveBed(t) \/ RemoveEmpty(t)
  PROVE  TestInv'
<1>. SUFFICES ASSUME NEW c, c = tester[t] PROVE TestInv'
  OBVIOUS
<1>1. /\ c \in Test /\ Holds(c) /\ c.step \in {"check", "look", "remove", "rmdir"}
      /\ snag \in 0 .. MaxSnag
  BY DEF TestInv, TestBedTypeOK, CheckBed, RemoveBed, RemoveEmpty, Reached
<1>2. Sits(c) /\ Fits(t, c, spot[c.spot])
  BY <1>1 DEF Sits, TestInv, Beds
<1>3. UNCHANGED <<coreVars, logVars, snag>>
  BY DEF CheckBed, RemoveBed, RemoveEmpty
<1>4. CASE Complains(t)
  BY <1>1, <1>3, <1>4, LeftKeeps DEF Complains
<1>5. CASE RemoveBed(t) \/ (RemoveEmpty(t) /\ ~Complains(t))
  BY <1>2, <1>3, <1>5, FreeKeeps DEF RemoveBed, RemoveEmpty
<1>6. CASE CheckBed(t) /\ Bed(t).by = "free"
  <2>1. \A n \in Spot : spot[n].by # t
    BY <1>6, TestBedAssumption DEF TestInv, LeavesNothing, Bed
  <2>2. Finishes(t) /\ Sleeps(t) /\ UNCHANGED <<coreVars, spot, logVars, snag>>
    BY <1>3, <1>6 DEF CheckBed, Finishes
  <2>. QED
    BY <2>1, <2>2, SleepKeeps, FinishedKeeps
<1>7. CASE CheckBed(t) /\ Bed(t).by # "free" /\ ~Complains(t)
  <2>1. /\ Bed(t).mark = c.mark /\ c.step \in {"check", "look"}
        /\ GoesTo(t, IF Reached(t, "check") THEN "remove" ELSE "rmdir")
        /\ UNCHANGED <<spot, tested>>
    BY <1>7 DEF CheckBed
  <2>2. PICK step \in {"remove", "rmdir"} :
          GoesTo(t, step) /\ (c.step = "check" => step = "remove")
    BY <2>1 DEF Reached
  <2>3. Bed(t).by \in {t, "free"} \/ Bed(t).alike
    BY <1>2, <2>1 DEF Fits, Bed
  <2>4. c.passed => step = "remove"
    BY <1>1, <2>1, <2>2 DEF Holds
  <2>. QED
    BY <1>2, <1>3, <2>1, <2>2, <2>3, <2>4, GoKeeps DEF TestStep
<1>. QED
  BY <1>4, <1>5, <1>6, <1>7

LEMMA HinderKeeps ==
  ASSUME TestInv, NEW t \in Tester, Hindered(t)
  PROVE  TestInv'
<1>. SUFFICES ASSUME NEW c, c = tester[t] PROVE TestInv'
  OBVIOUS
<1>1. c \in Test /\ Holds(c) /\ Refers(c) /\ c.step \in {"remove", "rmdir"}
  BY DEF TestInv, TestBedTypeOK, Hindered
<1>2. Sits(c) /\ c.spot \in Spot /\ Fits(t, c, spot[c.spot])
  BY <1>1 DEF Holds, Sits, TestInv, Beds
<1>3. UNCHANGED <<coreVars, logVars>> /\ snag' \in 0 .. MaxSnag
  BY BedTypes DEF Hindered, TestInv, TestBedTypeOK
<1>4. CASE Complains(t)
  BY <1>3, <1>4, LeftKeeps DEF Complains
<1>5. CASE ~Complains(t)
  <2>1. PICK step \in {"check", "look"} :
          /\ c.step = "remove" => step = "check"
          /\ Becomes(t, [c EXCEPT !.tries = @ + 1, !.step = step])
    BY <1>1, <1>5 DEF Hindered
  <2>2. spot' = spot /\ tested' = tested /\ c.tries < MaxTry
    BY <1>5 DEF Hindered
  <2>3. PICK tries \in 0 .. MaxTry : tries = c.tries + 1
    <3>1. c.tries \in 0 .. MaxTry
      BY <1>1 DEF Test
    <3>. QED
      BY <2>2, <3>1, BedTypes
  <2>. DEFINE d == [c EXCEPT !.tries = tries, !.step = step]
  <2>4. Becomes(t, d)
    BY <2>1, <2>3
  <2>5. d \in Test /\ d.spot = c.spot /\ d.task = c.task /\ d.step = step
        /\ d.passed = c.passed /\ d.log = c.log /\ d.doomed = c.doomed /\ d.mark = c.mark
        /\ d.core = c.core /\ d.own = c.own /\ d.want = c.want
    BY <1>1 DEF Test, TestStep
  <2>. HIDE DEF d
  <2>6. c.passed => step = "check"
    BY <1>1, <2>1 DEF Holds
  <2>7. Holds(d) /\ Refers(d) /\ Sits(d)
    BY <1>1, <1>2, <2>5, <2>6 DEF Holds, Refers, Sits
  <2>8. Fits(t, d, spot'[d.spot])
    BY <1>1, <1>2, <2>2, <2>5 DEF Fits
  <2>9. /\ spot' \in [Spot -> BedPlace]
        /\ \A q \in Tester \ {t} :
             Sits(tester[q]) => Fits(q, tester[q], spot'[tester[q].spot])
    BY <2>2 DEF TestInv, TestBedTypeOK, Beds
  <2>10. \A n \in Spot : spot'[n].by \in Tester =>
           \/ spot'[n].by = t /\ Sits(d) /\ d.spot = n
           \/ spot'[n].by # t /\ spot[n].by = spot'[n].by
    BY <2>2, <2>5, <2>7 DEF TestInv, LeavesNothing
  <2>. QED
    BY <1>3, <2>2, <2>4, <2>5, <2>7, <2>8, <2>9, <2>10, SpotKeeps, TestedStays
<1>. QED
  BY <1>4, <1>5

LEMMA MovesKeep ==
  ASSUME TestInv, NEW t \in Tester, TestMoves(t)
  PROVE  TestInv'
<1>1. CASE NoBed(t) \/ \E task \in {"self", "strict"} : StartTests(t, task)
  BY <1>1, StartKeeps
<1>2. CASE \E n \in Spot, mark \in Mark : MakeBed(t, n, mark)
  BY <1>2, MakeKeeps
<1>3. CASE \E fits \in BOOLEAN : NoteMark(t, fits)
  BY <1>3, NoteKeeps
<1>4. CASE \E m \in Stuff : ReadStuff(t, m)
  BY <1>4, ReadKitKeeps
<1>5. CASE LayCopy(t) \/ \E m \in Stuff : CopyStuff(t, m)
  BY <1>5, CopyKeeps
<1>6. CASE VerifyCopy(t) \/ TestsPass(t) \/ TestsFail(t)
  BY <1>6, VerifyKeeps, PassKeeps, FailKeeps
<1>7. CASE ChosenAgain(t) \/ \E m \in Stuff : ReadAgain(t, m)
  BY <1>7, AgainKeeps
<1>8. CASE CheckBed(t) \/ RemoveBed(t) \/ RemoveEmpty(t)
  BY <1>8, RemoveKeeps
<1>9. CASE Hindered(t)
  BY <1>9, HinderKeeps
<1>. QED
  BY <1>1, <1>2, <1>3, <1>4, <1>5, <1>6, <1>7, <1>8, <1>9 DEF TestMoves

LEMMA LogMovesKeep ==
  ASSUME TestInv, NEW t \in Tester, LogMoves(t)
  PROVE  TestInv'
BY ListKeeps, PruneKeeps, UnlinkKeeps, CreateKeeps, FillKeeps DEF LogMoves

-----------------------------------------------------------------------------
(* What others do.                                                         *)

LEMMA OthersKeep ==
  ASSUME TestInv, tester' = tester, UNCHANGED <<logVars, tested>>,
         (kit \in [Edition -> Core] /\ chosen \in Edition /\ snag \in 0 .. MaxSnag)',
         spot' \in [Spot -> BedPlace],
         \A q \in Tester : Sits(tester[q]) => Fits(q, tester[q], spot'[tester[q].spot]),
         \A n \in Spot : spot'[n].by \in Tester => spot[n].by = spot'[n].by
  PROVE  TestInv'
<1>1. log' = log /\ clock' = clock
  BY DEF logVars
<1>2. TestBedTypeOK'
  BY <1>1 DEF TestInv, TestBedTypeOK
<1>3. ASSUME NEW q \in Tester
      PROVE  (Holds(tester[q]) /\ Refers(tester[q]))'
  <2>. SUFFICES ASSUME NEW d, d = tester'[q] PROVE Holds(d) /\ Refers(d)'
    BY DEF Holds, Refers, Sits, Whole
  <2>1. Holds(d) /\ Refers(d)
    BY DEF TestInv
  <2>2. Refers(d)'
    BY <1>1, <2>1 DEF Refers, Enough, Later
  <2>. QED
    BY <2>1, <2>2
<1>4. Beds'
  <2>. SUFFICES ASSUME NEW q \in Tester, Sits(tester'[q])
                PROVE  Fits(q, tester'[q], spot'[tester'[q].spot])
    BY DEF Beds, Fits, Sits, Whole
  <2>. QED
    OBVIOUS
<1>5. OneStrict' /\ LeavesNothing'
  BY DEF TestInv, OneStrict, LeavesNothing, Reached
<1>6. LogsKnown'
  BY <1>1 DEF TestInv, LogsKnown, Enough, Later
<1>. QED
  BY <1>2, <1>3, <1>4, <1>5, <1>6, TestedStays DEF TestInv

LEMMA SnagsKeep ==
  ASSUME TestInv, SnagMoves
  PROVE  TestInv'
<1>1. /\ kit \in [Edition -> Core] /\ chosen \in Edition /\ spot \in [Spot -> BedPlace]
      /\ \A q \in Tester : Sits(tester[q]) =>
           /\ tester[q].spot \in Spot
           /\ Fits(q, tester[q], spot[tester[q].spot])
  BY DEF TestInv, TestBedTypeOK, Beds, Holds
<1>2. Snags => snag' \in 0 .. MaxSnag /\ UNCHANGED <<logVars, tested>>
  BY BedTypes DEF Snags, TestInv, TestBedTypeOK
<1>3. ASSUME NEW e \in Edition, NEW m \in Stuff, NEW r \in 0 .. MaxEdition, EditKit(e, m, r)
      PROVE  TestInv'
  <2>1. kit' = [kit EXCEPT ![e] = [kit[e] EXCEPT ![m] = r]] /\ chosen' = chosen /\ spot' = spot
        /\ tester' = tester /\ Snags
    BY <1>3 DEF EditKit
  <2>2. [kit[e] EXCEPT ![m] = r] \in Core
    BY <1>1 DEF Core
  <2>3. kit' \in [Edition -> Core]
    BY <1>1, <2>1, <2>2
  <2>. QED
    BY <1>1, <1>2, <2>1, <2>3, OthersKeep
<1>4. ASSUME NEW e \in Edition, Choose(e)
      PROVE  TestInv'
  <2>1. kit' = kit /\ chosen' = e /\ spot' = spot /\ tester' = tester /\ Snags
    BY <1>4 DEF Choose
  <2>. QED
    BY <1>1, <1>2, <2>1, OthersKeep
<1>5. ASSUME NEW n \in Spot, Sweep(n)
      PROVE  TestInv'
  <2>1. /\ kit' = kit /\ chosen' = chosen /\ tester' = tester /\ Snags
        /\ spot' = [spot EXCEPT ![n] = FreeSpot]
    BY <1>5 DEF Sweep, coreVars
  <2>2. spot' \in [Spot -> BedPlace] /\ \A i \in Spot : spot'[i] = IF i = n THEN FreeSpot ELSE spot[i]
    BY <1>1, <2>1, BedTypes
  <2>3. FreeSpot.by = "free" /\ "free" \notin Tester
    BY TestBedAssumption DEF FreeSpot
  <2>4. \A i \in Spot : spot'[i].by \in Tester => spot[i].by = spot'[i].by
    BY <2>2, <2>3
  <2>5. ASSUME NEW q \in Tester, Sits(tester[q])
        PROVE  Fits(q, tester[q], spot'[tester[q].spot])
    <3>1. spot'[tester[q].spot] \in {FreeSpot, spot[tester[q].spot]}
      BY <1>1, <2>2, <2>5
    <3>. QED
      BY <1>1, <2>3, <2>5, <3>1 DEF Fits
  <2>. QED
    BY <1>1, <1>2, <2>1, <2>2, <2>4, <2>5, OthersKeep
<1>6. ASSUME NEW n \in Spot, NEW mark \in Mark, Appear(n, mark)
      PROVE  TestInv'
  <2>. DEFINE b == NewBed(n, mark, "other")
  <2>1. /\ kit' = kit /\ chosen' = chosen /\ tester' = tester /\ Snags
        /\ spot' = [spot EXCEPT ![n] = b]
    BY <1>6 DEF Appear, coreVars
  <2>2. /\ b.by = "other" /\ b.mark = mark /\ b.alike = Alike(n, mark) /\ b \in BedPlace
    <3>1. PICK alike \in BOOLEAN : alike = Alike(n, mark)
      BY DEF Alike
    <3>2. b = [by |-> "other", mark |-> mark, core |-> NoCore, full |-> TRUE, alike |-> alike]
      BY <3>1 DEF NewBed
    <3>3. mark \in 0 .. MaxMark /\ NoCore \in Core
      BY BedTypes DEF Mark
    <3>. HIDE DEF b
    <3>. QED
      BY <3>1, <3>2, <3>3 DEF BedPlace
  <2>. HIDE DEF b
  <2>3. spot' \in [Spot -> BedPlace] /\ \A i \in Spot : spot'[i] = IF i = n THEN b ELSE spot[i]
    BY <1>1, <2>1, <2>2
  <2>4. \A i \in Spot : spot'[i].by \in Tester => spot[i].by = spot'[i].by
    BY <2>2, <2>3, TestBedAssumption
  <2>5. ASSUME NEW q \in Tester, Sits(tester[q])
        PROVE  Fits(q, tester[q], spot'[tester[q].spot])
    <3>1. CASE tester[q].spot # n
      BY <1>1, <2>3, <2>5, <3>1
    <3>2. CASE tester[q].spot = n
      <4>1. b.by # q /\ spot'[tester[q].spot] = b
        BY <2>2, <2>3, <3>2, TestBedAssumption
      <4>2. tester[q].step \in {"note", "remove", "rmdir"} \/ tester[q].mark = mark => b.alike
        BY <2>2, <3>2 DEF Alike
      <4>. QED
        BY <2>2, <4>1, <4>2 DEF Fits
    <3>. QED
      BY <3>1, <3>2
  <2>. QED
    BY <1>1, <1>2, <2>1, <2>3, <2>4, <2>5, OthersKeep
<1>7. ASSUME NEW t \in Tester, KillTester(t)
      PROVE  TestInv'
  BY <1>2, <1>7, LeftKeeps DEF KillTester, Snags
<1>. QED
  BY <1>3, <1>4, <1>5, <1>6, <1>7 DEF SnagMoves

-----------------------------------------------------------------------------

LEMMA TestInitially == TestBedInit => TestInv
<1>. SUFFICES ASSUME TestBedInit PROVE TestInv
  OBVIOUS
<1>1. TestBedTypeOK
  <2>1. kit \in [Edition -> Core] /\ chosen \in Edition
    BY BedTypes DEF TestBedInit, Core, Edition
  <2>2. spot \in [Spot -> BedPlace] /\ tester \in [Tester -> Test]
    BY BedTypes DEF TestBedInit
  <2>3. log \in [LogName -> FailureLog] /\ clock \in Nat /\ snag \in 0 .. MaxSnag
    BY BedTypes DEF TestBedInit
  <2>4. tested \subseteq [release : 0 .. MaxEdition, core : Core, own : BOOLEAN]
    BY DEF TestBedInit
  <2>. QED
    BY <2>1, <2>2, <2>3, <2>4 DEF TestBedTypeOK
<1>2. \A t \in Tester : tester[t] = Asleep
  BY DEF TestBedInit
<1>3. \A t \in Tester : Holds(tester[t]) /\ Refers(tester[t]) /\ ~Sits(tester[t])
  BY <1>2, AsleepHolds
<1>4. Beds /\ OneStrict
  BY <1>2, <1>3 DEF Beds, OneStrict, Asleep
<1>5. LeavesNothing /\ TestsTheRelease
  BY TestBedAssumption DEF LeavesNothing, TestsTheRelease, TestBedInit, FreeSpot
<1>6. LogsKnown
  BY DEF LogsKnown, TestBedInit, NoFailure
<1>. QED
  BY <1>1, <1>3, <1>4, <1>5, <1>6 DEF TestInv

LEMMA TestSteps == TestInv /\ [TestBedNext]_bedVars => TestInv'
<1>. SUFFICES ASSUME TestInv, [TestBedNext]_bedVars PROVE TestInv'
  OBVIOUS
<1>1. CASE TestBedNext
  BY <1>1, SnagsKeep, MovesKeep, LogMovesKeep DEF TestBedNext
<1>2. CASE UNCHANGED bedVars
  <2>1. /\ kit' = kit /\ chosen' = chosen /\ spot' = spot /\ tester' = tester
        /\ snag' = snag /\ UNCHANGED <<logVars, tested>>
    BY <1>2 DEF bedVars, coreVars
  <2>. QED
    BY <2>1, OthersKeep DEF TestInv, TestBedTypeOK, Beds
<1>. QED
  BY <1>1, <1>2

LEMMA TestInvHolds == TestBedSpec => []TestInv
BY TestInitially, TestSteps, PTL DEF TestBedSpec

\* The commands that test a release, their directories and the logs have the values
\* that the code gives them (_self_test, run_strict and what they call).
THEOREM TestBedTyping == TestBedSpec => []TestBedTypeOK
<1>1. TestInv => TestBedTypeOK
  BY DEF TestInv
<1>. QED
  BY <1>1, TestInvHolds, PTL

\* Self-tests and strict verifications remove the directory they made and no other, or
\* say that they could not; they pass on the bytes of one release; and logs last, of
\* which as many as are kept are the newest (_self_test and _isolated_strict_workspace).
THEOREM TestsAreSafe == TestBedSpec => []TestsSafe
<1>1. TestInv => TestsSafe
  <2>. SUFFICES ASSUME TestInv PROVE TestsSafe
    OBVIOUS
  <2>1. RemovesItsOwn
    BY DEF TestInv, RemovesItsOwn, Beds, Fits, Sits, Bed
  <2>2. LogsLast
    BY DEF TestInv, LogsKnown, LogsLast, Enough
  <2>. QED
    BY <2>1, <2>2 DEF TestInv, TestsSafe
<1>. QED
  BY <1>1, TestInvHolds, PTL
=============================================================================
