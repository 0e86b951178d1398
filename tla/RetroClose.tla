------------------------------ MODULE RetroClose ------------------------------
(***************************************************************************)
(* How a retrospective is closed (src/tools/retro.py): the notes that its  *)
(* evidence pack captured are moved to the archive and a marker says that  *)
(* the pack is done.  Authors go on writing notes, several closings may    *)
(* run at a time behind a lock file, and a closing may be killed anywhere. *)
(*                                                                         *)
(* A note is a name with the number of its version, 0 when there is none.  *)
(* A pack is the versions it captured, 0 for a note it does not hold.      *)
(***************************************************************************)
EXTENDS Naturals, FiniteSets

CONSTANTS Closer,      \* processes that close a retrospective
          Note,
          MaxVersion,  \* versions an author writes of one note
          MaxPack,     \* evidence packs captured
          MaxFault,    \* closings killed, file operations that fail, reports rewritten
          MaxRob       \* lock files taken from a process that lives

ASSUME CloseAssumption == {MaxVersion, MaxPack, MaxFault, MaxRob} \subseteq Nat

VARIABLES
  notes,    \* docs/retro/notes
  archive,  \* docs/retro/archive
  written,  \* the last version of each note
  packs,    \* evidence packs that have a validated findings report
  changed,  \* those whose report was rewritten since
  marker,   \* the completion marker: the packs it names
  lock,     \* the completion lock: who made it, and whether it names its process
  closing,  \* what each closer is doing, and holds in memory
  safe,     \* history: the last version of each note written outside a check-to-move window
  done,     \* history: the packs a closer reported complete
  budget    \* faults and robberies still allowed, and whether there was one

closeVars ==
  <<notes, archive, written, packs, changed, marker, lock, closing, safe, done, budget>>

Version == 0 .. MaxVersion
Pack    == [Note -> Version]
Absent  == 0
NoPack  == [n \in Note |-> Absent]
NoLock  == [by |-> {}, named |-> FALSE]
Orphan  == [by |-> {}, named |-> TRUE]
Stages  == {"idle", "enter", "name", "check", "stage", "look", "move", "seen",
            "publication", "commit", "restore", "leave"}
Resting == [stage |-> "idle", pack |-> NoPack, kept |-> {}, moved |-> {}, note |-> {},
            staged |-> {}, clean |-> TRUE, tried |-> {}]

Captured(pack) == {n \in Note : pack[n] # Absent}
Does(c, stage) == closing[c].stage = stage
Then(c, stage) == closing' = [closing EXCEPT ![c].stage = stage]
UseUp(what) == budget[what] > 0 /\ budget' = [budget EXCEPT ![what] = @ - 1]

(***************************************************************************)
(* Before a closing.                                                       *)
(***************************************************************************)

\* _note_evidence and the analysis: a report bound to the notes it was made of.
Capture ==
  /\ Cardinality(packs) < MaxPack /\ notes # NoPack
  /\ packs' = packs \cup {notes}
  /\ UNCHANGED <<notes, archive, written, changed, marker, lock, closing, safe, done, budget>>

\* complete_published_retro: the report must still be the validated one.
Begins(c, p) ==
  /\ Does(c, "idle") /\ p \in packs \ changed
  /\ closing' = [closing EXCEPT ![c] = [Resting EXCEPT !.stage = "enter", !.pack = p]]
  /\ UNCHANGED <<notes, archive, written, packs, changed, marker, lock, safe, done, budget>>

(***************************************************************************)
(* _completion_guard: a file made with O_EXCL, then given the process id.  *)
(***************************************************************************)

TakeLock(c) ==
  /\ Does(c, "enter") /\ lock = NoLock
  /\ lock' = [by |-> {c}, named |-> FALSE]
  /\ Then(c, "name")
  /\ UNCHANGED <<notes, archive, written, packs, changed, marker, safe, done, budget>>

Name(c) ==
  /\ Does(c, "name")
  /\ lock' = IF lock.by = {c} THEN [lock EXCEPT !.named = TRUE] ELSE lock
  /\ Then(c, "check")
  /\ UNCHANGED <<notes, archive, written, packs, changed, marker, safe, done, budget>>

\* The lock of a process that is gone is removed, and so is one whose maker
\* has not yet written its process id: that one robs a living closer.
Abandoned == lock = Orphan

RemoveAbandoned(c) ==
  /\ Does(c, "enter") /\ Abandoned
  /\ lock' = NoLock
  /\ UNCHANGED <<notes, archive, written, packs, changed, marker, closing, safe, done, budget>>

Rob(c) ==
  /\ Does(c, "enter") /\ lock # NoLock /\ ~Abandoned /\ ~lock.named
  /\ budget.rob > 0 /\ budget' = [budget EXCEPT !.rob = @ - 1, !.robbed = TRUE]
  /\ lock' = NoLock
  /\ UNCHANGED <<notes, archive, written, packs, changed, marker, closing, safe, done>>

\* The lock is taken forty times in vain.
Outwaited(c) ==
  /\ Does(c, "enter") /\ lock # NoLock
  /\ closing' = [closing EXCEPT ![c] = Resting]
  /\ UNCHANGED <<notes, archive, written, packs, changed, marker, lock, safe, done, budget>>

(***************************************************************************)
(* _complete_retro_locked.                                                 *)
(***************************************************************************)

Archived(p) == \A n \in Captured(p) : archive[n] = p[n]

\* The marker already names the pack: complete again if its notes are still
\* archived.
Again(c) ==
  LET p == closing[c].pack
  IN  /\ Does(c, "check") /\ p \in marker
      /\ Then(c, "leave")
      /\ done' = IF p \notin changed /\ Archived(p) THEN done \cup {p} ELSE done
      /\ UNCHANGED <<notes, archive, written, packs, changed, marker, lock, safe, budget>>

\* _captured_note_moves: every captured note is there as it was captured, and
\* its place in the archive is free or holds the same.
Movable(p) ==
  \A n \in Captured(p) : notes[n] = p[n] /\ archive[n] \in {Absent, p[n]}

CheckNotes(c) ==
  LET p == closing[c].pack
  IN  /\ Does(c, "check") /\ p \notin marker /\ p \notin changed /\ Movable(p)
      /\ closing' = [closing EXCEPT ![c].stage = "stage",
                       ![c].kept = {n \in Captured(p) : archive[n] = p[n]}]
      /\ UNCHANGED <<notes, archive, written, packs, changed, marker, lock, safe, done, budget>>

NotesUnfit(c) ==
  LET p == closing[c].pack
  IN  /\ Does(c, "check") /\ p \notin marker /\ (p \in changed \/ ~Movable(p))
      /\ Then(c, "leave")
      /\ UNCHANGED <<notes, archive, written, packs, changed, marker, lock, safe, done, budget>>

\* _stage_ran: what the marker will say, in a file beside it.
StageRan(c) ==
  /\ Does(c, "stage")
  /\ closing' = [closing EXCEPT ![c].stage = "look",
                                ![c].staged = marker \cup {closing[c].pack}]
  /\ UNCHANGED <<notes, archive, written, packs, changed, marker, lock, safe, done, budget>>

Remaining(c) == Captured(closing[c].pack) \ closing[c].moved

\* Mutant: the note is moved without another look.
LookAway(c, n) ==
  /\ Does(c, "look") /\ n \in Remaining(c)
  /\ closing' = [closing EXCEPT ![c].note = {n}, ![c].stage = "move"]
  /\ UNCHANGED <<notes, archive, written, packs, changed, marker, lock, safe, done, budget>>

\* _apply_note_moves, one note: it is looked at again, then moved or, when the
\* archive already held it, removed, then read back in the archive.
LookAgain(c, n) ==
  LET p == closing[c].pack
  IN  /\ Does(c, "look") /\ n \in Remaining(c)
      /\ closing' = [closing EXCEPT ![c].note = {n}, ![c].stage =
                       IF notes[n] = p[n] THEN "move" ELSE "restore"]
      /\ UNCHANGED <<notes, archive, written, packs, changed, marker, lock, safe, done, budget>>

Move(c, n) ==
  /\ Does(c, "move") /\ closing[c].note = {n} /\ notes[n] # Absent
  /\ archive' = IF n \in closing[c].kept THEN archive ELSE [archive EXCEPT ![n] = notes[n]]
  /\ notes' = [notes EXCEPT ![n] = Absent]
  /\ closing' = [closing EXCEPT ![c].stage = "seen", ![c].moved = @ \cup {n}]
  /\ UNCHANGED <<written, packs, changed, marker, lock, safe, done, budget>>

\* The note is gone, or the system refuses.
MoveFails(c) ==
  /\ Does(c, "move")
  /\ \/ UNCHANGED budget /\ \E n \in closing[c].note : notes[n] = Absent
     \/ UseUp("fault")
  /\ Then(c, "restore")
  /\ UNCHANGED <<notes, archive, written, packs, changed, marker, lock, safe, done>>

Seen(c, n) ==
  LET p == closing[c].pack
  IN  /\ Does(c, "seen") /\ closing[c].note = {n}
      /\ Then(c, IF archive[n] # p[n] THEN "restore"
                 ELSE IF Remaining(c) = {} THEN "publication" ELSE "look")
      /\ UNCHANGED <<notes, archive, written, packs, changed, marker, lock, safe, done, budget>>

\* The report is read once more before the marker.
Publication(c) ==
  /\ Does(c, "publication")
  /\ Then(c, IF closing[c].pack \in changed THEN "restore" ELSE "commit")
  /\ UNCHANGED <<notes, archive, written, packs, changed, marker, lock, safe, done, budget>>

CommitRan(c) ==
  /\ Does(c, "commit")
  /\ marker' = closing[c].staged
  /\ done' = done \cup {closing[c].pack}
  /\ Then(c, "leave")
  /\ UNCHANGED <<notes, archive, written, packs, changed, lock, safe, budget>>

CommitFails(c) ==
  /\ Does(c, "commit") /\ UseUp("fault")
  /\ Then(c, "restore")
  /\ UNCHANGED <<notes, archive, written, packs, changed, marker, lock, safe, done>>

\* _restore_note_moves, one note: a note that is back or was written anew stays,
\* one the archive held before is written again, any other is moved back.
PutBack(c, n) ==
  LET p == closing[c].pack
      back == notes[n] = Absent /\ (n \in closing[c].kept \/ archive[n] = p[n])
  IN  /\ Does(c, "restore") /\ n \in closing[c].moved
      /\ notes' = IF back THEN [notes EXCEPT ![n] = p[n]] ELSE notes
      /\ archive' = IF back /\ n \notin closing[c].kept
                    THEN [archive EXCEPT ![n] = Absent] ELSE archive
      /\ closing' = [closing EXCEPT ![c].moved = @ \ {n}, ![c].tried = @ \cup {n},
                       ![c].clean = @ /\ (back \/ notes[n] = p[n])]
      /\ UNCHANGED <<written, packs, changed, marker, lock, safe, done, budget>>

PutBackFails(c, n) ==
  /\ Does(c, "restore") /\ n \in closing[c].moved /\ UseUp("fault")
  /\ closing' = [closing EXCEPT ![c].moved = @ \ {n}, ![c].tried = @ \cup {n},
                                ![c].clean = FALSE]
  /\ UNCHANGED <<notes, archive, written, packs, changed, marker, lock, safe, done>>

Restored(c) ==
  /\ Does(c, "restore") /\ closing[c].moved = {}
  /\ Then(c, "leave")
  /\ UNCHANGED <<notes, archive, written, packs, changed, marker, lock, safe, done, budget>>

\* The guard removes the lock file, whoever's it is.
LetGo(c) ==
  /\ Does(c, "leave")
  /\ lock' = NoLock
  /\ closing' = [closing EXCEPT ![c] = Resting]
  /\ UNCHANGED <<notes, archive, written, packs, changed, marker, safe, done, budget>>

(***************************************************************************)
(* Authors, and closings that are killed.                                  *)
(***************************************************************************)

WriteNote(n) ==
  /\ written[n] < MaxVersion
  /\ written' = [written EXCEPT ![n] = @ + 1]
  /\ notes' = [notes EXCEPT ![n] = written[n] + 1]
  /\ safe' = [safe EXCEPT ![n] = IF \E c \in Closer : Does(c, "move") /\ closing[c].note = {n}
                                 THEN Absent ELSE written[n] + 1]
  /\ UNCHANGED <<archive, packs, changed, marker, lock, closing, done, budget>>

\* A checkout brings an archived note back as it was.
BringBack(n) ==
  /\ notes[n] = Absent /\ archive[n] # Absent /\ UseUp("fault")
  /\ notes' = [notes EXCEPT ![n] = archive[n]]
  /\ UNCHANGED <<archive, written, packs, changed, marker, lock, closing, safe, done>>

Rewrite(p) ==
  /\ p \in packs \ changed /\ UseUp("fault")
  /\ changed' = changed \cup {p}
  /\ UNCHANGED <<notes, archive, written, packs, marker, lock, closing, safe, done>>

KillCloser(c) ==
  /\ ~Does(c, "idle") /\ UseUp("fault")
  /\ closing' = [closing EXCEPT ![c] = Resting]
  /\ lock' = IF lock.by = {c} THEN Orphan ELSE lock
  /\ UNCHANGED <<notes, archive, written, packs, changed, marker, safe, done>>

CloseInit ==
  /\ notes = NoPack /\ archive = NoPack /\ written = NoPack /\ safe = NoPack
  /\ packs = {} /\ changed = {} /\ marker = {} /\ done = {}
  /\ lock = NoLock
  /\ closing = [c \in Closer |-> Resting]
  \* A robbery is followed by itself, without faults.
  /\ budget \in {[fault |-> MaxFault, rob |-> 0, robbed |-> FALSE],
                 [fault |-> 0, rob |-> MaxRob, robbed |-> FALSE]}

CloserStep(c) ==
  \/ \E p \in packs : Begins(c, p)
  \/ TakeLock(c) \/ Name(c) \/ RemoveAbandoned(c) \/ Rob(c) \/ Outwaited(c)
  \/ Again(c) \/ CheckNotes(c) \/ NotesUnfit(c) \/ StageRan(c)
  \/ \E n \in Note : LookAgain(c, n) \/ Move(c, n) \/ Seen(c, n)
                     \/ PutBack(c, n) \/ PutBackFails(c, n)
  \/ MoveFails(c) \/ Publication(c) \/ CommitRan(c) \/ CommitFails(c)
  \/ Restored(c) \/ LetGo(c) \/ KillCloser(c)

CloseNext ==
  \/ Capture
  \/ \E n \in Note : WriteNote(n) \/ BringBack(n)
  \/ \E p \in packs : Rewrite(p)
  \/ \E c \in Closer : CloserStep(c)

CloseSpec == CloseInit /\ [][CloseNext]_closeVars

(***************************************************************************)
(* Properties.                                                             *)
(***************************************************************************)

CloseTypeOK ==
  /\ {notes, archive, written, safe} \subseteq Pack
  /\ packs \subseteq Pack /\ changed \subseteq packs /\ marker \subseteq packs
  /\ lock.by \subseteq Closer
  /\ \A c \in Closer : /\ closing[c].stage \in Stages /\ closing[c].pack \in Pack
                       /\ closing[c].kept \cup closing[c].moved \subseteq Captured(closing[c].pack)
                       /\ closing[c].staged \subseteq packs

\* Whatever the marker names, every note its pack captured is in the archive
\* exactly as it was captured, with closings of other packs of the same notes,
\* notes written again under an archived name, failures and kills in between,
\* as long as no lock was taken from a process that lives.
MarkerMeansArchived == ~budget.robbed => \A p \in marker : Archived(p)

\* A retrospective that was reported complete stays in the marker: no other
\* closing writes over it a marker it had staged before.
CompletionKept == ~budget.robbed => done \subseteq marker

\* A closing that fails and does not say that its rollback is incomplete has
\* every note it had moved back among the notes.
FailureRestores ==
  \A c \in Closer : ~budget.robbed /\ Does(c, "leave") /\ closing[c].clean =>
    \A n \in closing[c].tried : notes[n] >= closing[c].pack[n]

\* The last version an author wrote of a note is among the notes or in the
\* archive, unless it was written between the last look at the note and its
\* move.
NotesKept ==
  ~budget.robbed => \A n \in Note : safe[n] # Absent => safe[n] \in {notes[n], archive[n]}

\* The marker tells the truth and keeps it: what it names is archived, and what
\* was reported complete is named.
MarkerTruthful == MarkerMeansArchived /\ CompletionKept

\* No note is lost or misplaced, by a closing that succeeds, fails or is killed.
NotesSafe == NotesKept /\ FailureRestores

\* Between closers, authors, failures and kills, a completed retrospective is
\* archived and named for good, and no note an author wrote is lost to it.
CloseSafe == MarkerTruthful /\ NotesSafe
=============================================================================
