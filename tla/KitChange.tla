------------------------------ MODULE KitChange ------------------------------
(***************************************************************************)
(* The journaled file transaction of src/tools/kit_change.py: apply, its   *)
(* in-process rollback, rollback by transaction id and resume, with a      *)
(* crash possible between any two durable steps.                           *)
(*                                                                         *)
(* One kit change replaces a handful of project files and publishes one    *)
(* managed core directory.  current.json (Current) names the core that the *)
(* launcher runs; it is written after every other file.  The journal and   *)
(* the backup of a transaction are durable before its first project write. *)
(*                                                                         *)
(* A file is [kit, user]: the release whose bytes it carries and the       *)
(* number of the human edit on top of them; both 0 is an absent file.      *)
(***************************************************************************)
EXTENDS Integers, FiniteSets

CONSTANTS
  Txn,        \* transaction identifiers (uuid4 in the code, never reused)
  NoTxn,      \* the transaction of a process that runs none
  Owned,      \* paths of strategy "replace": wholly the kit's
  Blocks,     \* paths of strategy "managed-block": kit section, human text
  Config,     \* paths of strategy "schema-json": kit defaults, human values
  Retired,    \* paths a legacy kit owned and a managed install deletes
  Marker,     \* .agent-kit.json, whose presence alone means a legacy kit
  Inside,     \* the owned paths that live under .agent-kit/
  Current,    \* .agent-kit/current.json
  Member,     \* files of a managed core
  MaxRelease, \* releases are 1 .. MaxRelease, in version order
  MaxEdits, MaxCrashes, MaxFaults    \* bounds on the environment

Project == Owned \cup Blocks \cup Config \cup Retired
Path    == Project \cup {Current}
Release == 1 .. MaxRelease
NoKit   == 0
Legacy  == -1

ASSUME PathAssumption ==
  /\ Current \notin Project
  /\ Owned \cap (Blocks \cup Config \cup Retired) = {}
  /\ (Blocks \cup Config) \cap Retired = {}
  /\ Blocks \cap Config = {}
  /\ Marker \in Owned \ Inside
  /\ Inside \subseteq Owned
ASSUME BoundAssumption ==
  /\ MaxRelease \in Nat
  /\ MaxEdits \in Nat
  /\ MaxCrashes \in Nat
  /\ MaxFaults \in Nat
ASSUME NameAssumption == NoTxn \notin Txn /\ Member # {}

Content == [kit : {Legacy, NoKit} \cup Release, user : 0 .. MaxEdits]
Absent  == [kit |-> NoKit, user |-> 0]
KitFile(r) == [kit |-> r, user |-> 0]

\* kit_change.JOURNAL_STATES; "none" stands for a transaction with no journal,
\* and "completed" is never written.
JournalState == {"none", "prepared", "core_staged", "applying", "activated",
                 "applied", "rolling_back", "rolled_back", "blocked"}
Terminal     == {"none", "applied", "rolled_back"}
Failure      == {"none", "rollback-conflict", "rollback-failed"}

Journal == [state   : JournalState,
            rel     : Release \cup {NoKit},
            core    : {"create_pending", "created", "reused"},
            before  : [Path -> Content],
            after   : [Path -> Content],
            started : BOOLEAN,         \* history holds "rollback-started"
            failure : Failure]

NoJournal == [state   |-> "none", rel |-> NoKit, core |-> "reused",
              before  |-> [p \in Path |-> Absent],
              after   |-> [p \in Path |-> Absent],
              started |-> FALSE, failure |-> "none"]

VARIABLES
  file,     \* durable: the bytes at every path
  litter,   \* durable: a half-written temporary was left under .agent-kit/
  core,     \* durable: every release's core directory, member by member
  txdir,    \* durable: the private directory of every transaction
  journal,  \* durable: journal.json of every transaction
  godot,    \* project.godot still has the bytes the last plan was bound to
  pc,       \* the step of the one process that holds change.lock
  tx,       \* its transaction
  mem,      \* its journal in memory
  todo,     \* the entries it has yet to write or restore
  cur,      \* the entry it has just written and will read back
  edits, crashes, faults

process == <<pc, tx, mem, todo, cur>>
bounds  == <<edits, crashes, faults>>
vars    == <<file, litter, core, txdir, journal, godot,
             pc, tx, mem, todo, cur, edits, crashes, faults>>

MemberState == {"absent", "good", "bad"}
DirState    == {"none", "torn", "clean", "journal"}
Step == {"idle", "backup", "backed", "prepared", "staged", "core_staged",
         "entries", "verify", "finish", "rb_check", "rb_entries", "rb_reread",
         "rb_members", "rb_verify"}

Entries(j)   == {p \in Path : j.before[p] # j.after[p]}
Exists(r)    == \E m \in Member : core[r][m] # "absent"
Intact(r)    == \A m \in Member : core[r][m] = "good"
Selected     == file[Current].kit
Open(t)      == journal[t].state \notin Terminal

\* A project without a kit, with a legacy one, or a fresh clone of a managed one
\* (.kit/runtime, with the journals, is never committed).
Init ==
  /\ \E k \in {NoKit, Legacy} \cup Release :
       /\ file = [p \in Path |->
            IF \/ p \in Project \ Retired /\ k # NoKit
               \/ p \in Retired /\ k = Legacy
               \/ p = Current /\ k \in Release
            THEN IF p \in Inside /\ k = Legacy THEN Absent ELSE KitFile(k)
            ELSE Absent]
       /\ \E also \in SUBSET Release :
            /\ k \notin Release => also = {}
            /\ core = [r \in Release |-> [m \in Member |->
                        IF r = k \/ r \in also THEN "good" ELSE "absent"]]
  /\ litter = FALSE
  /\ txdir = [t \in Txn |-> "none"]
  /\ journal = [t \in Txn |-> NoJournal]
  /\ godot = TRUE
  /\ pc = "idle"
  /\ tx = NoTxn
  /\ mem = NoJournal
  /\ todo = {}
  /\ cur = Current
  /\ edits = 0
  /\ crashes = 0
  /\ faults = 0

-----------------------------------------------------------------------------
(* The plan: what _build_plan decides from the project and one release.    *)

Mode == IF file[Current] # Absent THEN "managed"
        ELSE IF file[Marker] # Absent THEN "legacy" ELSE "none"

\* .agent-kit holds something although current.json does not exist.
Leftover ==
  /\ file[Current] = Absent
  /\ \/ \E r \in Release : Exists(r)
     \/ litter
     \/ \E p \in Inside : file[p] # Absent

\* _current_context returns instead of raising: the selected core and every
\* kit-owned surface are exactly what the install record says.
ContextOK ==
  IF Mode = "managed"
  THEN /\ Selected \in Release /\ Intact(Selected)
       /\ \A p \in Owned : file[p] = KitFile(Selected)
       /\ \A p \in Blocks : file[p].kit = Selected
  ELSE ~Leftover

ActiveKit == CASE Mode = "managed" -> Selected
               [] Mode = "legacy"  -> Legacy
               [] OTHER            -> NoKit

After(r) ==
  [p \in Path |->
     IF p \in Owned \cup {Current} THEN KitFile(r)
     ELSE IF p \in Blocks \cup Config THEN [kit |-> r, user |-> file[p].user]
     ELSE IF Mode = "legacy" THEN Absent
     ELSE file[p]]

\* No blocker: an owned or retired file is missing, already right, or exactly
\* the bytes the active kit put there, and the release is not older.
Approvable(r) ==
  /\ ActiveKit <= r
  /\ Exists(r) => Intact(r)
  /\ \A p \in Owned : file[p] \in {Absent, KitFile(r), KitFile(ActiveKit)}
  /\ Mode = "legacy" => \A p \in Retired : file[p] \in {Absent, KitFile(Legacy)}

Plan(r) == [NoJournal EXCEPT
  !.state  = "prepared",
  !.rel    = r,
  !.core   = IF Exists(r) THEN "reused" ELSE "create_pending",
  !.before = file,
  !.after  = After(r)]

-----------------------------------------------------------------------------
(* Helpers of the running process.                                         *)

Goto(label) == pc' = label

\* The process returns, raises to its caller or is killed: change.lock is free.
Leave == /\ pc' = "idle"
         /\ tx' = NoTxn
         /\ mem' = NoJournal
         /\ todo' = {}
         /\ cur' = Current

\* _history followed by _journal_write: memory first, then the atomic replace.
Record(j) == /\ mem' = j
             /\ journal' = [journal EXCEPT ![tx] = j]

\* _mark_blocked and raise: a blocked transaction is left as it was.
Block(code) ==
  /\ journal' = IF mem.state = "blocked" THEN journal
                ELSE [journal EXCEPT ![tx] =
                        [mem EXCEPT !.state = "blocked", !.failure = code]]
  /\ Leave
  /\ UNCHANGED <<file, litter, core, txdir, godot>>

\* A slip: entries in any order.
NextEntryUnordered(p) == p \in todo

\* The next entry: any project file first, current.json only when it is alone.
NextEntry(p) == p \in todo /\ (p = Current => todo = {Current})

\* A slip: the housekeeping also tidies away finished transactions.
HousekeepEagerly ==
  txdir' = [t \in Txn |-> IF txdir[t] = "clean" \/ journal[t].state = "applied"
                          THEN "none" ELSE txdir[t]]

\* _journal_files: every command first removes journal-less directories, and
\* refuses to continue when one of them holds a torn or unexpected file.
NoTorn    == \A t \in Txn : txdir[t] # "torn"
Housekeep == txdir' = [t \in Txn |-> IF txdir[t] = "clean" THEN "none" ELSE txdir[t]]

\* _core_matches_journal: members may be missing once a rollback has started.
CoreMatches(j) ==
  \A m \in Member :
    core[j.rel][m] \in IF j.started THEN {"good", "absent"} ELSE {"good"}

-----------------------------------------------------------------------------
(* apply                                                                   *)

ApplyBegin(t, r) ==
  /\ pc = "idle"
  /\ NoTorn
  /\ \A u \in Txn : ~Open(u)
  /\ txdir[t] = "none" /\ journal[t].state = "none"
  /\ ContextOK
  /\ Approvable(r)
  /\ Entries(Plan(r)) # {} \/ ~Exists(r)
  /\ Housekeep
  /\ tx' = t
  /\ mem' = Plan(r)
  /\ godot' = TRUE
  /\ Goto("backup")
  /\ UNCHANGED <<file, litter, core, journal, todo, cur, bounds>>

\* _prepare_backup: every changed file still has its planned bytes and they are
\* copied; backup.json is written last.
WriteBackup ==
  /\ pc = "backup"
  /\ \A p \in Entries(mem) : file[p] = mem.before[p]
  /\ txdir' = [txdir EXCEPT ![tx] = "clean"]
  /\ Goto("backed")
  /\ UNCHANGED <<file, litter, core, journal, godot, tx, mem, todo, cur, bounds>>

BackupRefused ==
  /\ pc = "backup"
  /\ \E p \in Entries(mem) : file[p] # mem.before[p]
  /\ Leave
  /\ UNCHANGED <<file, litter, core, txdir, journal, godot, bounds>>

WriteJournal ==
  /\ pc = "backed"
  /\ godot
  /\ txdir' = [txdir EXCEPT ![tx] = "journal"]
  /\ Record(mem)
  /\ Goto("prepared")
  /\ UNCHANGED <<file, litter, core, godot, tx, todo, cur, bounds>>

\* _discard_prepared_transaction, after project.godot changed.
JournalRefused ==
  /\ pc = "backed"
  /\ ~godot
  /\ txdir' = [txdir EXCEPT ![tx] = "none"]
  /\ Leave
  /\ UNCHANGED <<file, litter, core, journal, godot, bounds>>

\* _stage_core: built in the private directory, published by one rename.
StageCore ==
  /\ pc = "prepared"
  /\ Exists(mem.rel) => Intact(mem.rel)
  /\ core' = [core EXCEPT ![mem.rel] = [m \in Member |-> "good"]]
  /\ Goto("staged")
  /\ UNCHANGED <<file, litter, txdir, journal, godot, tx, mem, todo, cur, bounds>>

CoreStaged == [mem EXCEPT
  !.state = "core_staged",
  !.core = IF mem.core = "create_pending" THEN "created" ELSE mem.core]

RecordCore ==
  /\ pc = "staged"
  /\ Record(CoreStaged)
  /\ Goto("core_staged")
  /\ UNCHANGED <<file, litter, core, txdir, godot, tx, todo, cur, bounds>>

RecordApplying ==
  /\ pc = "core_staged"
  /\ godot
  /\ Record([mem EXCEPT !.state = "applying"])
  /\ todo' = Entries(mem)
  /\ Goto("entries")
  /\ UNCHANGED <<file, litter, core, txdir, godot, tx, cur, bounds>>

\* _apply_entry up to its os.replace or unlink.
WriteEntry(p) ==
  /\ pc = "entries"
  /\ NextEntry(p)
  /\ godot
  /\ file[p] = mem.before[p]
  /\ file' = [file EXCEPT ![p] = mem.after[p]]
  /\ cur' = p
  /\ Goto("verify")
  /\ UNCHANGED <<litter, core, txdir, journal, godot, tx, mem, todo, bounds>>

\* The rest of _apply_entry, and "activated" once current.json is in place.
VerifyEntry ==
  /\ pc = "verify"
  /\ file[cur] = mem.after[cur]
  /\ todo' = todo \ {cur}
  /\ cur' = Current
  /\ IF cur = Current THEN Record([mem EXCEPT !.state = "activated"])
                      ELSE UNCHANGED <<mem, journal>>
  /\ Goto("entries")
  /\ UNCHANGED <<file, litter, core, txdir, godot, tx, bounds>>

FinishApply ==
  /\ pc = "entries"
  /\ todo = {}
  /\ godot
  /\ journal' = [journal EXCEPT ![tx] = [mem EXCEPT !.state = "applied"]]
  /\ Leave
  /\ UNCHANGED <<file, litter, core, txdir, godot, bounds>>

\* Any exception after the journal exists is followed by _rollback_locked with
\* the journal in memory: project.godot, the core or a target changed.
ApplyFails ==
  /\ \/ pc = "prepared" /\ Exists(mem.rel) /\ ~Intact(mem.rel)
     \/ pc = "core_staged" /\ ~godot
     \/ pc = "entries" /\ ~godot
     \/ pc = "entries" /\ \E p \in todo : NextEntry(p) /\ file[p] # mem.before[p]
     \/ pc = "verify" /\ file[cur] # mem.after[cur]
  /\ todo' = {}
  /\ cur' = Current
  /\ Goto("rb_check")
  /\ UNCHANGED <<file, litter, core, txdir, journal, godot, tx, mem, bounds>>

-----------------------------------------------------------------------------
(* _rollback_locked                                                        *)

CoreToRemove == mem.core # "reused" /\ Exists(mem.rel)
ThirdVersion(p) == file[p] \notin {mem.before[p], mem.after[p]}

\* A slip: "rolling_back" reaches the disk only with the result.
RollbackStartUnrecorded ==
  /\ pc = "rb_check"
  /\ CoreToRemove => CoreMatches(mem)
  /\ \A p \in Entries(mem) : ~ThirdVersion(p)
  /\ mem' = [mem EXCEPT !.state = "rolling_back", !.started = TRUE]
  /\ todo' = Entries(mem)
  /\ Goto("rb_entries")
  /\ UNCHANGED <<file, litter, core, txdir, journal, godot, tx, cur, bounds>>

RollbackStart ==
  /\ pc = "rb_check"
  /\ CoreToRemove => CoreMatches(mem)
  /\ \A p \in Entries(mem) : ~ThirdVersion(p)
  /\ Record([mem EXCEPT !.state = "rolling_back", !.started = TRUE])
  /\ todo' = Entries(mem)
  /\ Goto("rb_entries")
  /\ UNCHANGED <<file, litter, core, txdir, godot, tx, cur, bounds>>

RollbackRefused ==
  /\ pc = "rb_check"
  /\ \/ CoreToRemove /\ ~CoreMatches(mem)
     \/ \E p \in Entries(mem) : ThirdVersion(p)
  /\ Block("rollback-conflict")
  /\ UNCHANGED bounds

\* _restore_entry: nothing to do.
SkipEntry(p) ==
  /\ pc = "rb_entries"
  /\ NextEntry(p)
  /\ file[p] = mem.before[p]
  /\ todo' = todo \ {p}
  /\ UNCHANGED <<file, litter, core, txdir, journal, godot, pc, tx, mem, cur, bounds>>

\* A slip: the file is restored without a look at what it holds now.
RestoreEntryBlindly(p) ==
  /\ pc = "rb_entries"
  /\ NextEntry(p)
  /\ file[p] # mem.before[p]
  /\ file' = [file EXCEPT ![p] = mem.before[p]]
  /\ cur' = p
  /\ Goto("rb_reread")
  /\ UNCHANGED <<litter, core, txdir, journal, godot, tx, mem, todo, bounds>>

RestoreEntry(p) ==
  /\ pc = "rb_entries"
  /\ NextEntry(p)
  /\ file[p] = mem.after[p]
  /\ file' = [file EXCEPT ![p] = mem.before[p]]
  /\ cur' = p
  /\ Goto("rb_reread")
  /\ UNCHANGED <<litter, core, txdir, journal, godot, tx, mem, todo, bounds>>

EntryConflict(p) ==
  /\ pc = "rb_entries"
  /\ NextEntry(p)
  /\ ThirdVersion(p)
  /\ Block("rollback-conflict")
  /\ UNCHANGED bounds

\* A removed file is not read back, a restored one is.
RereadEntry ==
  /\ pc = "rb_reread"
  /\ mem.before[cur] # Absent => file[cur] = mem.before[cur]
  /\ todo' = todo \ {cur}
  /\ cur' = Current
  /\ Goto("rb_entries")
  /\ UNCHANGED <<file, litter, core, txdir, journal, godot, tx, mem, bounds>>

RereadFails ==
  /\ pc = "rb_reread"
  /\ mem.before[cur] # Absent /\ file[cur] # mem.before[cur]
  /\ Block("rollback-failed")
  /\ UNCHANGED bounds

\* A slip: the core is removed before current.json is restored.
RemoveCoreFirst ==
  /\ pc = "rb_entries"
  /\ CoreToRemove => CoreMatches(mem)
  /\ Goto(IF CoreToRemove THEN "rb_members" ELSE "rb_verify")
  /\ UNCHANGED <<file, litter, core, txdir, journal, godot, tx, mem, todo, cur, bounds>>

\* _remove_created_core, the check before the first unlink.
RemoveCore ==
  /\ pc = "rb_entries"
  /\ todo = {}
  /\ CoreToRemove => CoreMatches(mem)
  /\ Goto(IF CoreToRemove THEN "rb_members" ELSE "rb_verify")
  /\ UNCHANGED <<file, litter, core, txdir, journal, godot, tx, mem, todo, cur, bounds>>

RemoveCoreRefused ==
  /\ pc = "rb_entries"
  /\ todo = {}
  /\ CoreToRemove /\ ~CoreMatches(mem)
  /\ Block("rollback-conflict")
  /\ UNCHANGED bounds

\* A slip: the removal ends after one member.
RemoveMemberOnce(m) ==
  /\ pc = "rb_members" /\ core[mem.rel][m] # "absent"
  /\ core' = [core EXCEPT ![mem.rel][m] = "absent"]
  /\ Goto("rb_verify")
  /\ UNCHANGED <<file, litter, txdir, journal, godot, tx, mem, todo, cur, bounds>>

\* One unlink; the core directory goes with its last member.
RemoveMember(m) ==
  /\ pc = "rb_members"
  /\ core[mem.rel][m] # "absent"
  /\ core' = [core EXCEPT ![mem.rel][m] = "absent"]
  /\ Goto(IF \A n \in Member \ {m} : core[mem.rel][n] = "absent"
          THEN "rb_verify" ELSE "rb_members")
  /\ UNCHANGED <<file, litter, txdir, journal, godot, tx, mem, todo, cur, bounds>>

\* A slip: the result is recorded without reading the files again.
FinishRollbackUnread ==
  /\ pc = "rb_verify"
  /\ journal' = [journal EXCEPT ![tx] =
                   [mem EXCEPT !.state = "rolled_back", !.failure = "none"]]
  /\ Leave
  /\ UNCHANGED <<file, litter, core, txdir, godot, bounds>>

\* A slip: the result is returned but never written.
FinishRollbackUnwritten ==
  /\ pc = "rb_verify"
  /\ \A p \in Entries(mem) : file[p] = mem.before[p]
  /\ Leave
  /\ UNCHANGED <<file, litter, core, txdir, journal, godot, bounds>>

FinishRollback ==
  /\ pc = "rb_verify"
  /\ \A p \in Entries(mem) : file[p] = mem.before[p]
  /\ journal' = [journal EXCEPT ![tx] =
                   [mem EXCEPT !.state = "rolled_back", !.failure = "none"]]
  /\ Leave
  /\ UNCHANGED <<file, litter, core, txdir, godot, bounds>>

RollbackUnverified ==
  /\ pc = "rb_verify"
  /\ \E p \in Entries(mem) : file[p] # mem.before[p]
  /\ Block("rollback-failed")
  /\ UNCHANGED bounds

-----------------------------------------------------------------------------
(* The other commands                                                      *)

Enter(t, label) ==
  /\ Housekeep
  /\ tx' = t
  /\ mem' = journal[t]
  /\ Goto(label)
  /\ UNCHANGED <<file, litter, core, journal, godot, todo, cur, bounds>>

\* _select_transaction without an id: the only open transaction, or the only
\* one that put the present current.json there.
Resumable(t) ==
  LET open  == {u \in Txn : Open(u)}
      owner == {u \in open : /\ Current \in Entries(journal[u])
                             /\ journal[u].after[Current] = file[Current]}
  IN open = {t} \/ (Cardinality(open) > 1 /\ owner = {t})

Complete(t) == \A p \in Entries(journal[t]) : file[p] = journal[t].after[p]

\* A slip: an interrupted change is completed from wherever it stopped.
ResumeForwardAnyway(t) ==
  /\ pc = "idle" /\ NoTorn /\ Resumable(t)
  /\ journal[t].state \in {"applying", "activated"}
  /\ Housekeep
  /\ journal' = [journal EXCEPT ![t].state = "applied"]
  /\ UNCHANGED <<file, litter, core, godot, process, bounds>>

\* A slip: a state that no reader of a journal knows.
ResumeForwardMisspelt(t) ==
  /\ pc = "idle" /\ NoTorn /\ Resumable(t)
  /\ journal[t].state = "activated" /\ Complete(t)
  /\ Housekeep
  /\ journal' = [journal EXCEPT ![t].state = "recovered"]
  /\ UNCHANGED <<file, litter, core, godot, process, bounds>>

ResumeForward(t) ==
  /\ pc = "idle"
  /\ NoTorn
  /\ Resumable(t)
  /\ journal[t].state = "activated"
  /\ Complete(t)
  /\ Housekeep
  /\ journal' = [journal EXCEPT ![t].state = "applied"]
  /\ UNCHANGED <<file, litter, core, godot, process, bounds>>

ResumeBack(t) ==
  /\ pc = "idle"
  /\ NoTorn
  /\ Resumable(t)
  /\ \/ journal[t].state \in {"prepared", "core_staged", "applying", "rolling_back"}
     \/ journal[t].state = "activated" /\ ~Complete(t)
  /\ Enter(t, "rb_check")

\* rollback with an exact id, also of an applied or a blocked transaction.
Rollback(t) ==
  /\ pc = "idle"
  /\ NoTorn
  /\ journal[t].state \notin {"none", "rolled_back"}
  /\ journal[t].state = "blocked" =>
       journal[t].failure \in {"rollback-conflict", "rollback-failed"}
  /\ Enter(t, "rb_check")

\* inspect_transaction, and every command that is refused after its housekeeping.
Inspect ==
  /\ pc = "idle"
  /\ NoTorn
  /\ \E t \in Txn : txdir[t] = "clean"
  /\ Housekeep
  /\ UNCHANGED <<file, litter, core, journal, godot, process, bounds>>

-----------------------------------------------------------------------------
(* Faults and the outside world                                            *)

\* A write in progress leaves its temporary: beside a file under .agent-kit/, or
\* as a torn blob, manifest or journal in the transaction's directory.
Debris ==
  /\ \/ UNCHANGED litter
     \/ /\ \E p \in Inside \cup {Current} :
             /\ NextEntry(p)
             /\ \/ pc = "entries" /\ mem.after[p] # Absent
                \/ pc = "rb_entries" /\ mem.before[p] # Absent
                                     /\ file[p] # mem.before[p]
        /\ litter' = TRUE
  /\ \/ UNCHANGED txdir
     \/ pc = "backup" /\ txdir' \in {[txdir EXCEPT ![tx] = d] : d \in {"torn", "clean"}}
     \/ pc = "backed" /\ txdir' = [txdir EXCEPT ![tx] = "torn"]

Crash ==
  /\ pc # "idle"
  /\ crashes < MaxCrashes
  /\ crashes' = crashes + 1
  /\ Debris
  /\ Leave
  /\ UNCHANGED <<file, core, journal, godot, edits, faults>>

Fault == faults < MaxFaults /\ faults' = faults + 1 /\ UNCHANGED <<edits, crashes>>

\* An OSError before the journal exists: the private directory is discarded.
PrepareFault ==
  /\ pc \in {"backup", "backed"}
  /\ Fault
  /\ txdir' = [txdir EXCEPT ![tx] = "none"]
  /\ Leave
  /\ UNCHANGED <<file, litter, core, journal, godot>>

\* An OSError or a failed check while applying.  A failed journal write leaves
\* the journal in memory ahead of the one on disk.
ApplyFault ==
  /\ pc \in {"prepared", "staged", "core_staged", "entries", "verify"}
  /\ Fault
  /\ mem' \in {mem, IF pc = "staged" THEN CoreStaged ELSE mem}
  /\ todo' = {}
  /\ cur' = Current
  /\ Goto("rb_check")
  /\ UNCHANGED <<file, litter, core, txdir, journal, godot, tx>>

\* An OSError of a write to the project blocks the transaction; one of the
\* journal itself escapes _rollback_locked and leaves the journal as it is.
RollbackFault ==
  /\ Fault
  /\ \/ /\ pc \in {"rb_entries", "rb_reread", "rb_members", "rb_verify"}
        /\ Block("rollback-failed")
     \/ /\ pc \in {"rb_check", "rb_entries", "rb_reread", "rb_members", "rb_verify"}
        /\ Leave
        /\ UNCHANGED <<file, litter, core, txdir, journal, godot>>

Edited == /\ edits < MaxEdits
          /\ edits' = edits + 1
          /\ UNCHANGED <<litter, core, txdir, journal, process, crashes, faults>>

\* The human changes text outside the kit's, replaces a file or deletes it.
UserEdit(p) ==
  /\ Edited
  /\ \E k \in {file[p].kit, NoKit} :
       file' = [file EXCEPT ![p] = [kit |-> k, user |-> edits + 1]]
  /\ UNCHANGED godot

UserDelete(p) ==
  /\ Edited
  /\ file[p] # Absent
  /\ file' = [file EXCEPT ![p] = Absent]
  /\ UNCHANGED godot

\* The human takes an edit back.
UserRevert(p) ==
  /\ file[p].user # 0
  /\ file' = [file EXCEPT ![p].user = 0]
  /\ UNCHANGED <<litter, core, txdir, journal, godot, process, bounds>>

GodotEdit ==
  /\ Edited
  /\ pc # "idle" /\ godot
  /\ godot' = FALSE
  /\ UNCHANGED file

TamperCore(r, m) ==
  /\ edits < MaxEdits
  /\ core[r][m] = "good"
  /\ core' = [core EXCEPT ![r][m] = "bad"]
  /\ edits' = edits + 1
  /\ UNCHANGED <<file, litter, txdir, journal, godot, process, crashes, faults>>

-----------------------------------------------------------------------------
ApplyStep ==
  \/ WriteBackup \/ BackupRefused \/ WriteJournal \/ JournalRefused
  \/ StageCore \/ RecordCore \/ RecordApplying
  \/ \E p \in Path : WriteEntry(p)
  \/ VerifyEntry \/ FinishApply \/ ApplyFails

RollbackStep ==
  \/ RollbackStart \/ RollbackRefused
  \/ \E p \in Path : SkipEntry(p) \/ RestoreEntry(p) \/ EntryConflict(p)
  \/ RereadEntry \/ RereadFails
  \/ RemoveCore \/ RemoveCoreRefused
  \/ \E m \in Member : RemoveMember(m)
  \/ FinishRollback \/ RollbackUnverified

Command ==
  \/ \E t \in Txn, r \in Release : ApplyBegin(t, r)
  \/ \E t \in Txn : ResumeForward(t) \/ ResumeBack(t) \/ Rollback(t)
  \/ Inspect

Environment ==
  \/ Crash \/ PrepareFault \/ ApplyFault \/ RollbackFault
  \/ \E p \in Project : UserEdit(p) \/ UserDelete(p) \/ UserRevert(p)
  \/ GodotEdit
  \/ \E r \in Release, m \in Member : TamperCore(r, m)

Next == ApplyStep \/ RollbackStep \/ Command \/ Environment

Spec == Init /\ [][Next]_vars

\* Every variable keeps to its type; above all, every journal on disk is one
\* that _load_journal accepts.
TypeOK ==
  /\ file \in [Path -> Content]
  /\ litter \in BOOLEAN
  /\ core \in [Release -> [Member -> MemberState]]
  /\ txdir \in [Txn -> DirState]
  /\ journal \in [Txn -> Journal]
  /\ godot \in BOOLEAN
  /\ pc \in Step
  /\ tx \in Txn \cup {NoTxn}
  /\ mem \in Journal
  /\ todo \subseteq Path
  /\ cur \in Path
  /\ edits \in 0 .. MaxEdits
  /\ crashes \in 0 .. MaxCrashes
  /\ faults \in 0 .. MaxFaults

-----------------------------------------------------------------------------
(* Safety                                                                  *)

\* The launcher never meets a half-removed kit: in every state, also after a
\* crash, the core that current.json names has all its members on disk
\* (current.json is the last file on the way in, and on the way out the core
\* goes only after it).
SelectedCorePresent ==
  Selected \in Release => \A m \in Member : core[Selected][m] # "absent"

\* A core that lacks some of its members is always the half-finished removal of
\* a journaled rollback, which a later rollback is allowed to take up again.
PartialCoreOwned ==
  \A r \in Release :
    Exists(r) /\ (\E m \in Member : core[r][m] = "absent")
      => \E t \in Txn : /\ journal[t].rel = r
                        /\ journal[t].core # "reused"
                        /\ journal[t].started
                        /\ journal[t].state \in {"rolling_back", "blocked"}

KitIs(k) ==
  /\ \A p \in Project \ Retired :
       file[p] = IF p \in Inside /\ k = Legacy THEN Absent ELSE KitFile(k)
  /\ \A p \in Retired : file[p] = IF k = Legacy THEN KitFile(k) ELSE Absent
  /\ file[Current] = IF k \in Release THEN KitFile(k) ELSE Absent
  /\ IF k \in Release THEN Intact(k) ELSE \A r \in Release : ~Exists(r)

\* All or nothing: while no human touched the project, whenever no transaction
\* waits for recovery the project is wholly without a kit, wholly legacy or
\* wholly one release, whatever crashed or failed on the way.
AllOrNothing ==
  /\ edits = 0
  /\ pc = "idle"
  /\ \A t \in Txn : ~Open(t)
  => \E k \in {NoKit, Legacy} \cup Release : KitIs(k)

\* Activation is last: once current.json names the new release, every other file
\* of an unfinished change is already the new one, so that resume may go forward.
ActivationLast ==
  \A t \in Txn :
    /\ edits = 0
    /\ journal[t].state \in {"applying", "activated"}
    /\ Current \in Entries(journal[t])
    /\ file[Current] = journal[t].after[Current]
    => Complete(t)

\* A journal never outlives its backup: neither the housekeeping of journal-less
\* directories nor the discarding of a failed preparation removes the prior bytes
\* that a journaled transaction may still need.
BackupKept ==
  \A t \in Txn : journal[t].state # "none" => txdir[t] = "journal"

Forward == {"prepared", "core_staged", "applying", "activated"}

\* A running process and the journal on disk agree on what may be written, at
\* every step: a crash never leaves a write the journal does not know of.
WriteAhead ==
  /\ pc # "idle" => tx \in Txn
  /\ pc \in {"backup", "backed"} => mem.state = "prepared" /\ journal[tx].state = "none"
  /\ pc \notin {"idle", "backup", "backed"} =>
       /\ journal[tx].before = mem.before
       /\ journal[tx].after = mem.after
       /\ journal[tx].state \notin {"none", "rolled_back"}
  /\ pc \in {"prepared", "staged", "core_staged", "entries", "verify"} =>
       mem.state \in Forward /\ journal[tx].state \in Forward
  /\ pc = "rb_check" => (mem.state = "blocked" <=> journal[tx].state = "blocked")
  /\ pc \in {"rb_entries", "rb_reread", "rb_members", "rb_verify"} =>
       mem.state = "rolling_back" /\ journal[tx].state = "rolling_back"

\* The kit never changes or removes a human's bytes, neither on the way in nor in
\* a rollback: no step of its process touches the human part of any file.
HumanBytesSurvive ==
  [][process' # process => \A p \in Project : file'[p].user = file[p].user]_vars

\* When a rollback that created the core is reported finished, nothing is left
\* of that core, and no project names it any more.
RollbackRemovesCore ==
  [][\A t \in Txn :
       /\ journal[t].state # "rolled_back"
       /\ journal'[t].state = "rolled_back"
       /\ journal'[t].core # "reused"
       => /\ \A m \in Member : core'[journal'[t].rel][m] = "absent"
          /\ file'[Current].kit # journal'[t].rel]_vars

\* At most one transaction is between its first and its last project write, so
\* a new change never starts on top of an unfinished one.
OneUnfinished ==
  \A t, u \in Txn :
    /\ journal[t].state \in Forward
    /\ journal[u].state \in Forward
    => t = u

\* Both: kit changes follow one another, each wholly done or wholly undone before
\* the next one begins.
ChangesAreSerial == AllOrNothing /\ OneUnfinished

-----------------------------------------------------------------------------
(* The transaction implements an undo log over the project's files.        *)

PhaseOf(state) ==
  CASE state = "none" -> "none"
    [] state = "applied" -> "applied"
    [] state = "rolled_back" -> "undone"
    [] state = "blocked" -> "stuck"
    [] OTHER -> "open"

Log == [t \in Txn |-> [phase  |-> PhaseOf(journal[t].state),
                       before |-> journal[t].before,
                       after  |-> journal[t].after]]

Undo == INSTANCE UndoLog WITH log <- Log, kit <- process

\* Every project write is one that the durable journal and backup can undo, and
\* "rolled_back" is only ever recorded over exactly the prior bytes.
ImplementsUndoLog == Undo!Spec

-----------------------------------------------------------------------------
(* Liveness                                                                *)

\* The process that holds the lock keeps running, and an operator runs kit
\* recover for every interrupted change.  A blocked one waits for a human.
Recover(t) ==
  /\ Open(t) /\ journal[t].state # "blocked"
  /\ ResumeForward(t) \/ ResumeBack(t) \/ Rollback(t)

FairSpec ==
  /\ Spec
  /\ WF_vars(ApplyStep) /\ WF_vars(RollbackStep)
  /\ \A t \in Txn : SF_vars(Recover(t))

\* change.lock is always given back: every command ends, also under faults.
EveryCommandEnds == pc # "idle" ~> pc = "idle"

\* Every journaled change is settled in the end, whatever interrupts it: applied,
\* rolled back, or blocked for a human to look at.
EveryChangeSettles ==
  \A t \in Txn :
    Open(t) ~> journal[t].state \in {"applied", "rolled_back", "blocked"}

\* Both: neither the lock nor a half-made change is left to wait for ever.
EverythingSettles == EveryCommandEnds /\ EveryChangeSettles

-----------------------------------------------------------------------------
(* Claims of the documents that the code does not keep                     *)

\* docs/DECISIONS.md:37: an interruption leaves the exact previous state or a
\* recoverable new one.  A crash that tears a file of a private directory before
\* the journal exists leaves neither: every later command refuses.
InterruptionIsRecoverable == pc = "idle" => NoTorn

\* "prior-state-restored" (kit_change.py:3437): the prior state admitted an
\* install, so a project in which every change was rolled back admits one too.
RolledBackAdmitsInstall ==
  /\ pc = "idle"
  /\ edits = 0
  /\ \E t \in Txn : journal[t].state = "rolled_back"
  /\ \A t \in Txn : ~Open(t)
  => ContextOK

\* kit_change.py:9: an interrupted pre-activation change rolls back.  With no edit
\* by anyone and no failing write it must never end blocked instead.
InterruptedRollsBack ==
  [][edits = 0 /\ faults = 0 =>
       \A t \in Txn :
         journal[t].state \in {"prepared", "core_staged", "applying"}
           => journal'[t].state # "blocked"]_vars

=============================================================================
