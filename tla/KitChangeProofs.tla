---------------------------- MODULE KitChangeProofs ----------------------------
(***************************************************************************)
(* Theorems about KitChange for every set of transactions, paths, members  *)
(* and releases and for every bound on the environment.  The first part:   *)
(* its types, its write-ahead discipline, that it never touches a human's  *)
(* bytes and that it implements UndoLog.  The second part: what recovery   *)
(* leaves of the core and of the files.                                    *)
(***************************************************************************)
EXTENDS Launcher, TLAPS

USE DEF Path, Release

-----------------------------------------------------------------------------
(* The operators the actions are built from.                               *)

LEMMA ContentType ==
  /\ Absent \in Content
  /\ \A r \in {Legacy, NoKit} \cup Release : KitFile(r) \in Content
BY BoundAssumption DEF Absent, Content, KitFile

LEMMA NoJournalType == NoJournal \in Journal
BY ContentType DEF NoJournal, Journal, JournalState, Failure

LEMMA AfterType ==
  ASSUME file \in [Path -> Content], NEW r \in Release
  PROVE  After(r) \in [Path -> Content]
<1>1. \A p \in Path : [kit |-> r, user |-> file[p].user] \in Content
  BY DEF Content
<1>. QED
  BY <1>1, ContentType DEF After

LEMMA PlanType ==
  ASSUME file \in [Path -> Content], NEW r \in Release
  PROVE  Plan(r) \in Journal
BY AfterType, NoJournalType DEF Plan, Journal, JournalState

\* Every update an action makes to a journal record keeps it one.
LEMMA UpdateType ==
  ASSUME NEW j \in Journal
  PROVE  /\ \A s \in JournalState : [j EXCEPT !.state = s] \in Journal
         /\ \A s \in JournalState, c \in {"create_pending", "created", "reused"} :
              [j EXCEPT !.state = s, !.core = c] \in Journal
         /\ \A s \in JournalState, f \in Failure :
              [j EXCEPT !.state = s, !.failure = f] \in Journal
         /\ \A s \in JournalState, b \in BOOLEAN :
              [j EXCEPT !.state = s, !.started = b] \in Journal
BY DEF Journal

LEMMA CoreStagedType ==
  ASSUME mem \in Journal PROVE CoreStaged \in Journal
<1>. DEFINE c == IF mem.core = "create_pending" THEN "created" ELSE mem.core
<1>1. c \in {"create_pending", "created", "reused"} /\ "core_staged" \in JournalState
  BY DEF Journal, JournalState
<1>2. CoreStaged = [mem EXCEPT !.state = "core_staged", !.core = c]
  BY DEF CoreStaged
<1>. QED
  BY <1>1, <1>2, UpdateType

\* Leaving and blocking are shared by many actions; what is left to each of them
\* is its bound on the environment.
LEMMA LeaveType ==
  ASSUME Leave
  PROVE  /\ pc' \in Step /\ tx' \in Txn \cup {NoTxn} /\ mem' \in Journal
         /\ todo' \subseteq Path /\ cur' \in Path
BY NoJournalType DEF Leave, Step

LEMMA BlockType ==
  ASSUME TypeOK, NEW code \in Failure, Block(code),
         edits' \in 0 .. MaxEdits, crashes' \in 0 .. MaxCrashes,
         faults' \in 0 .. MaxFaults
  PROVE  TypeOK'
<1>1. [mem EXCEPT !.state = "blocked", !.failure = code] \in Journal
  BY UpdateType DEF TypeOK, JournalState
<1>2. journal' \in [Txn -> Journal]
  BY <1>1 DEF TypeOK, Block
<1>3. Leave
  BY DEF Block
<1>. QED
  BY <1>2, <1>3, LeaveType DEF TypeOK, Block

-----------------------------------------------------------------------------
(* Type correctness                                                        *)

LEMMA InitType == Init => TypeOK
<1>. SUFFICES ASSUME Init PROVE TypeOK
  OBVIOUS
<1>1. file \in [Path -> Content]
  BY ContentType DEF Init
<1>2. core \in [Release -> [Member -> MemberState]]
  BY DEF Init, MemberState
<1>3. journal \in [Txn -> Journal] /\ mem \in Journal
  BY NoJournalType DEF Init
<1>4. txdir \in [Txn -> DirState] /\ pc \in Step /\ cur \in Path
  BY DEF Init, DirState, Step
<1>5. /\ tx \in Txn \cup {NoTxn} /\ todo \subseteq Path
      /\ litter \in BOOLEAN /\ godot \in BOOLEAN
  BY DEF Init
<1>6. /\ edits \in 0 .. MaxEdits /\ crashes \in 0 .. MaxCrashes
      /\ faults \in 0 .. MaxFaults
  BY BoundAssumption DEF Init
<1>. QED
  BY <1>1, <1>2, <1>3, <1>4, <1>5, <1>6 DEF TypeOK

LEMMA ApplyStepType ==
  ASSUME TypeOK, ApplyStep PROVE TypeOK'
<1>1. CASE WriteBackup
  BY <1>1 DEF TypeOK, WriteBackup, Goto, Step, DirState, bounds
<1>2. CASE BackupRefused
  BY <1>2, LeaveType DEF TypeOK, BackupRefused, bounds
<1>3. CASE WriteJournal
  BY <1>3 DEF TypeOK, WriteJournal, Record, Goto, Step, DirState, bounds
<1>4. CASE JournalRefused
  BY <1>4, LeaveType DEF TypeOK, JournalRefused, DirState, bounds
<1>5. CASE StageCore
  BY <1>5 DEF TypeOK, StageCore, Goto, Step, MemberState, bounds
<1>6. CASE RecordCore
  <2>1. CoreStaged \in Journal
    BY CoreStagedType DEF TypeOK
  <2>. QED
    BY <1>6, <2>1 DEF TypeOK, RecordCore, Record, Goto, Step, bounds
<1>7. CASE RecordApplying
  <2>1. [mem EXCEPT !.state = "applying"] \in Journal
    BY UpdateType DEF TypeOK, JournalState
  <2>. QED
    BY <1>7, <2>1 DEF TypeOK, RecordApplying, Record, Goto, Step, Entries, bounds
<1>8. ASSUME NEW p \in Path, WriteEntry(p) PROVE TypeOK'
  <2>1. mem.after \in [Path -> Content]
    BY DEF TypeOK, Journal
  <2>. QED
    BY <1>8, <2>1 DEF TypeOK, WriteEntry, Goto, Step, bounds
<1>9. CASE VerifyEntry
  <2>1. [mem EXCEPT !.state = "activated"] \in Journal
    BY UpdateType DEF TypeOK, JournalState
  <2>2. mem' \in Journal /\ journal' \in [Txn -> Journal]
    BY <1>9, <2>1 DEF TypeOK, VerifyEntry, Record
  <2>. QED
    BY <1>9, <2>2 DEF TypeOK, VerifyEntry, Goto, Step, bounds
<1>10. CASE FinishApply
  <2>1. [mem EXCEPT !.state = "applied"] \in Journal
    BY UpdateType DEF TypeOK, JournalState
  <2>. QED
    BY <1>10, <2>1, LeaveType DEF TypeOK, FinishApply, bounds
<1>11. CASE ApplyFails
  BY <1>11 DEF TypeOK, ApplyFails, Goto, Step, bounds
<1>. QED
  BY <1>1, <1>2, <1>3, <1>4, <1>5, <1>6, <1>7, <1>8, <1>9, <1>10, <1>11
  DEF ApplyStep

LEMMA RollbackStepType ==
  ASSUME TypeOK, RollbackStep PROVE TypeOK'
<1>0. /\ "rollback-conflict" \in Failure /\ "rollback-failed" \in Failure
      /\ UNCHANGED bounds => /\ edits' \in 0 .. MaxEdits
                             /\ crashes' \in 0 .. MaxCrashes
                             /\ faults' \in 0 .. MaxFaults
  BY DEF Failure, TypeOK, bounds
<1>1. CASE RollbackStart
  <2>1. [mem EXCEPT !.state = "rolling_back", !.started = TRUE] \in Journal
    BY UpdateType DEF TypeOK, JournalState
  <2>. QED
    BY <1>1, <2>1 DEF TypeOK, RollbackStart, Record, Goto, Step, Entries, bounds
<1>2. CASE RollbackRefused
  BY <1>0, <1>2, BlockType DEF RollbackRefused
<1>3. ASSUME NEW p \in Path, SkipEntry(p) PROVE TypeOK'
  BY <1>3 DEF TypeOK, SkipEntry, bounds
<1>4. ASSUME NEW p \in Path, RestoreEntry(p) PROVE TypeOK'
  <2>1. mem.before \in [Path -> Content]
    BY DEF TypeOK, Journal
  <2>. QED
    BY <1>4, <2>1 DEF TypeOK, RestoreEntry, Goto, Step, bounds
<1>5. ASSUME NEW p \in Path, EntryConflict(p) PROVE TypeOK'
  BY <1>0, <1>5, BlockType DEF EntryConflict
<1>6. CASE RereadEntry
  BY <1>6 DEF TypeOK, RereadEntry, Goto, Step, bounds
<1>7. CASE RereadFails
  BY <1>0, <1>7, BlockType DEF RereadFails
<1>8. CASE RemoveCore
  BY <1>8 DEF TypeOK, RemoveCore, Goto, Step, bounds
<1>9. CASE RemoveCoreRefused
  BY <1>0, <1>9, BlockType DEF RemoveCoreRefused
<1>10. ASSUME NEW m \in Member, RemoveMember(m) PROVE TypeOK'
  BY <1>10 DEF TypeOK, RemoveMember, Goto, Step, MemberState, bounds
<1>11. CASE FinishRollback
  <2>1. [mem EXCEPT !.state = "rolled_back", !.failure = "none"] \in Journal
    BY UpdateType DEF TypeOK, JournalState, Failure
  <2>. QED
    BY <1>11, <2>1, LeaveType DEF TypeOK, FinishRollback, bounds
<1>12. CASE RollbackUnverified
  BY <1>0, <1>12, BlockType DEF RollbackUnverified
<1>. QED
  BY <1>1, <1>2, <1>3, <1>4, <1>5, <1>6, <1>7, <1>8, <1>9, <1>10, <1>11, <1>12
  DEF RollbackStep

LEMMA CommandType ==
  ASSUME TypeOK, Command PROVE TypeOK'
<1>0. Housekeep => txdir' \in [Txn -> DirState]
  BY DEF TypeOK, Housekeep, DirState
<1>1. ASSUME NEW t \in Txn, NEW r \in Release, ApplyBegin(t, r) PROVE TypeOK'
  <2>1. Plan(r) \in Journal
    BY PlanType DEF TypeOK
  <2>. QED
    BY <1>0, <1>1, <2>1 DEF TypeOK, ApplyBegin, Goto, Step, bounds
<1>2. ASSUME NEW t \in Txn, ResumeForward(t) PROVE TypeOK'
  <2>1. [journal[t] EXCEPT !.state = "applied"] \in Journal
    BY UpdateType DEF TypeOK, JournalState
  <2>. QED
    BY <1>0, <1>2, <2>1 DEF TypeOK, ResumeForward, process, bounds
<1>3. ASSUME NEW t \in Txn, Enter(t, "rb_check") PROVE TypeOK'
  BY <1>0, <1>3 DEF TypeOK, Enter, Goto, Step, bounds
<1>4. CASE Inspect
  BY <1>0, <1>4 DEF TypeOK, Inspect, process, bounds
<1>. QED
  BY <1>1, <1>2, <1>3, <1>4 DEF Command, ResumeBack, Rollback

LEMMA EnvironmentType ==
  ASSUME TypeOK, Environment PROVE TypeOK'
<1>0. Fault => /\ edits' \in 0 .. MaxEdits
               /\ crashes' \in 0 .. MaxCrashes
               /\ faults' \in 0 .. MaxFaults
  BY BoundAssumption DEF Fault, TypeOK
<1>1. CASE Crash
  <2>1. litter' \in BOOLEAN /\ txdir' \in [Txn -> DirState]
    BY <1>1 DEF Crash, Debris, TypeOK, DirState
  <2>2. crashes' \in 0 .. MaxCrashes
    BY <1>1, BoundAssumption DEF Crash, TypeOK
  <2>. QED
    BY <1>1, <2>1, <2>2, LeaveType DEF TypeOK, Crash
<1>2. CASE PrepareFault
  BY <1>0, <1>2, LeaveType DEF TypeOK, PrepareFault, DirState
<1>3. CASE ApplyFault
  <2>1. mem' \in Journal
    BY <1>3, CoreStagedType DEF ApplyFault, TypeOK
  <2>. QED
    BY <1>0, <1>3, <2>1 DEF TypeOK, ApplyFault, Goto, Step
<1>4. CASE RollbackFault
  <2>1. CASE Block("rollback-failed")
    BY <1>0, <1>4, <2>1, BlockType DEF RollbackFault, Failure
  <2>2. CASE Leave /\ UNCHANGED <<file, litter, core, txdir, journal, godot>>
    BY <1>0, <1>4, <2>2, LeaveType DEF TypeOK, RollbackFault
  <2>. QED
    BY <1>4, <2>1, <2>2 DEF RollbackFault
<1>5. ASSUME NEW p \in Project, UserEdit(p) \/ UserDelete(p) \/ UserRevert(p)
      PROVE  TypeOK'
  <2>1. edits' \in 0 .. MaxEdits
    BY <1>5, BoundAssumption
    DEF UserEdit, UserDelete, UserRevert, Edited, TypeOK, bounds
  <2>2. file[p] \in Content
    BY DEF TypeOK
  <2>3. file' \in [Path -> Content]
    <3>1. CASE UserEdit(p)
      <4>1. \A k \in {file[p].kit, NoKit} : [kit |-> k, user |-> edits + 1] \in Content
        BY <2>2, <3>1, BoundAssumption DEF UserEdit, Edited, TypeOK, Content
      <4>. QED
        BY <3>1, <4>1 DEF UserEdit, TypeOK
    <3>2. CASE UserDelete(p)
      BY <3>2, ContentType DEF UserDelete, TypeOK
    <3>3. CASE UserRevert(p)
      <4>1. [file[p] EXCEPT !.user = 0] \in Content
        BY <2>2, BoundAssumption DEF Content
      <4>. QED
        BY <3>3, <4>1 DEF UserRevert, TypeOK
    <3>. QED
      BY <1>5, <3>1, <3>2, <3>3
  <2>. QED
    BY <1>5, <2>1, <2>3
    DEF UserEdit, UserDelete, UserRevert, Edited, TypeOK, process, bounds
<1>6. CASE GodotEdit
  <2>1. edits' \in 0 .. MaxEdits
    BY <1>6, BoundAssumption DEF GodotEdit, Edited, TypeOK
  <2>2. godot' \in BOOLEAN
    BY <1>6 DEF GodotEdit
  <2>. QED
    BY <1>6, <2>1, <2>2 DEF GodotEdit, Edited, TypeOK, process
<1>7. ASSUME NEW r \in Release, NEW m \in Member, TamperCore(r, m) PROVE TypeOK'
  BY <1>7, BoundAssumption DEF TamperCore, TypeOK, MemberState, process
<1>. QED
  BY <1>1, <1>2, <1>3, <1>4, <1>5, <1>6, <1>7 DEF Environment

\* Every variable stays in its type: the content of every file, every journal on
\* disk and in memory, and the counters of the environment.
THEOREM Typing == Spec => []TypeOK
<1>1. Init => TypeOK
  BY InitType
<1>2. TypeOK /\ [Next]_vars => TypeOK'
  <2>. SUFFICES ASSUME TypeOK, [Next]_vars PROVE TypeOK'
    OBVIOUS
  <2>1. CASE Next
    BY <2>1, ApplyStepType, RollbackStepType, CommandType, EnvironmentType DEF Next
  <2>2. CASE UNCHANGED vars
    BY <2>2 DEF vars, TypeOK
  <2>. QED
    BY <2>1, <2>2
<1>. QED
  BY <1>1, <1>2, PTL DEF Spec

HIDE DEF Path, Release

-----------------------------------------------------------------------------
(* The write-ahead discipline                                              *)

ApplySteps    == {"prepared", "staged", "core_staged", "entries", "verify"}
RollbackSteps == {"rb_entries", "rb_reread", "rb_members", "rb_verify"}

\* What changing the state of a journal record leaves alone.
LEMMA UpdateFields ==
  ASSUME NEW j \in Journal, NEW s
  PROVE  /\ [j EXCEPT !.state = s].state = s
         /\ [j EXCEPT !.state = s].before = j.before
         /\ [j EXCEPT !.state = s].after = j.after
         /\ \A f : /\ [j EXCEPT !.state = s, !.failure = f].state = s
                   /\ [j EXCEPT !.state = s, !.failure = f].before = j.before
                   /\ [j EXCEPT !.state = s, !.failure = f].after = j.after
         /\ \A b : /\ [j EXCEPT !.state = s, !.started = b].state = s
                   /\ [j EXCEPT !.state = s, !.started = b].before = j.before
                   /\ [j EXCEPT !.state = s, !.started = b].after = j.after
BY DEF Journal

LEMMA CoreStagedFields ==
  ASSUME mem \in Journal
  PROVE  /\ CoreStaged.state = "core_staged"
         /\ CoreStaged.before = mem.before
         /\ CoreStaged.after = mem.after
BY DEF CoreStaged, Journal

\* An idle process satisfies WriteAhead.
LEMMA LeaveWriteAhead == ASSUME Leave PROVE WriteAhead'
BY DEF Leave, WriteAhead

-----------------------------------------------------------------------------
(* WriteAhead is inductive on top of the types.                            *)

LEMMA WriteAheadApply ==
  ASSUME TypeOK, WriteAhead, ApplyStep PROVE WriteAhead'
<1>0. mem \in Journal /\ journal \in [Txn -> Journal]
  BY DEF TypeOK
<1>1. CASE WriteBackup
  BY <1>1 DEF WriteBackup, WriteAhead, Goto
<1>2. CASE BackupRefused
  BY <1>2, LeaveWriteAhead DEF BackupRefused
<1>3. CASE WriteJournal
  BY <1>0, <1>3 DEF WriteJournal, WriteAhead, Record, Goto, Forward
<1>4. CASE JournalRefused
  BY <1>4, LeaveWriteAhead DEF JournalRefused
<1>5. CASE StageCore
  BY <1>5 DEF StageCore, WriteAhead, Goto
<1>6. CASE RecordCore
  BY <1>0, <1>6, CoreStagedFields DEF RecordCore, WriteAhead, Record, Goto, Forward
<1>7. CASE RecordApplying
  BY <1>0, <1>7, UpdateFields DEF RecordApplying, WriteAhead, Record, Goto, Forward
<1>8. ASSUME NEW p \in Path, WriteEntry(p) PROVE WriteAhead'
  BY <1>8 DEF WriteEntry, WriteAhead, Goto
<1>9. CASE VerifyEntry
  <2>1. CASE cur = Current
    <3>1. /\ pc' = "entries" /\ tx' = tx /\ tx \in Txn
          /\ Record([mem EXCEPT !.state = "activated"])
      BY <1>9, <2>1 DEF VerifyEntry, WriteAhead, Goto
    <3>2. /\ journal[tx].before = mem.before
          /\ journal[tx].after = mem.after
      BY <1>9 DEF VerifyEntry, WriteAhead
    <3>. QED
      BY <1>0, <3>1, <3>2, UpdateFields DEF WriteAhead, Record, Forward
  <2>2. CASE cur # Current
    BY <1>9, <2>2 DEF VerifyEntry, WriteAhead, Goto
  <2>. QED
    BY <2>1, <2>2
<1>10. CASE FinishApply
  BY <1>10, LeaveWriteAhead DEF FinishApply
<1>11. CASE ApplyFails
  BY <1>11 DEF ApplyFails, WriteAhead, Goto, Forward
<1>. QED
  BY <1>1, <1>2, <1>3, <1>4, <1>5, <1>6, <1>7, <1>8, <1>9, <1>10, <1>11
  DEF ApplyStep

LEMMA WriteAheadRollback ==
  ASSUME TypeOK, WriteAhead, RollbackStep PROVE WriteAhead'
<1>0. mem \in Journal /\ journal \in [Txn -> Journal]
  BY DEF TypeOK
<1>1. CASE RollbackStart
  BY <1>0, <1>1, UpdateFields DEF RollbackStart, WriteAhead, Record, Goto
<1>2. CASE \E code \in Failure : Block(code)
  BY <1>2, LeaveWriteAhead DEF Block
<1>3. ASSUME NEW p \in Path, SkipEntry(p) \/ RestoreEntry(p) PROVE WriteAhead'
  BY <1>3 DEF SkipEntry, RestoreEntry, WriteAhead, Goto
<1>4. CASE RereadEntry
  BY <1>4 DEF RereadEntry, WriteAhead, Goto
<1>5. CASE RemoveCore
  BY <1>5 DEF RemoveCore, WriteAhead, Goto
<1>6. ASSUME NEW m \in Member, RemoveMember(m) PROVE WriteAhead'
  BY <1>6 DEF RemoveMember, WriteAhead, Goto
<1>7. CASE FinishRollback
  BY <1>7, LeaveWriteAhead DEF FinishRollback
<1>. QED
  BY <1>1, <1>2, <1>3, <1>4, <1>5, <1>6, <1>7
  DEF RollbackStep, RollbackRefused, EntryConflict, RereadFails,
      RemoveCoreRefused, RollbackUnverified, Failure

LEMMA WriteAheadCommand ==
  ASSUME TypeOK, WriteAhead, Command PROVE WriteAhead'
<1>0. journal \in [Txn -> Journal]
  BY DEF TypeOK
<1>1. ASSUME NEW t \in Txn, NEW r \in Release, ApplyBegin(t, r) PROVE WriteAhead'
  <2>1. Plan(r).state = "prepared"
    BY DEF Plan, NoJournal
  <2>. QED
    BY <1>1, <2>1 DEF ApplyBegin, WriteAhead, Goto
<1>2. ASSUME NEW t \in Txn, ResumeForward(t) PROVE WriteAhead'
  BY <1>2 DEF ResumeForward, WriteAhead, process
<1>3. ASSUME NEW t \in Txn, Enter(t, "rb_check"),
             journal[t].state \notin {"none", "rolled_back"}
      PROVE  WriteAhead'
  BY <1>3 DEF Enter, WriteAhead, Goto
<1>4. CASE Inspect
  BY <1>4 DEF Inspect, WriteAhead, process
<1>. QED
  BY <1>1, <1>2, <1>3, <1>4 DEF Command, ResumeBack, Rollback

LEMMA WriteAheadEnvironment ==
  ASSUME TypeOK, WriteAhead, Environment PROVE WriteAhead'
<1>0. mem \in Journal
  BY DEF TypeOK
<1>1. CASE Crash \/ PrepareFault
  BY <1>1, LeaveWriteAhead DEF Crash, PrepareFault
<1>2. CASE ApplyFault
  BY <1>0, <1>2, CoreStagedFields DEF ApplyFault, WriteAhead, Goto, Forward
<1>3. CASE RollbackFault
  BY <1>3, LeaveWriteAhead DEF RollbackFault, Block
<1>4. CASE UNCHANGED <<process, journal>>
  BY <1>4 DEF WriteAhead, process
<1>. QED
  BY <1>1, <1>2, <1>3, <1>4
  DEF Environment, UserEdit, UserDelete, UserRevert, GodotEdit, TamperCore, Edited

\* At every step, crash or fault, a running process and the journal on disk agree
\* on both versions of every file the process may write.
THEOREM WriteAheadHolds == Spec => []WriteAhead
<1>1. Init => WriteAhead
  BY DEF Init, WriteAhead
<1>2. TypeOK /\ WriteAhead /\ [Next]_vars => WriteAhead'
  <2>. SUFFICES ASSUME TypeOK, WriteAhead, [Next]_vars PROVE WriteAhead'
    OBVIOUS
  <2>1. CASE Next
    BY <2>1, WriteAheadApply, WriteAheadRollback, WriteAheadCommand,
       WriteAheadEnvironment DEF Next
  <2>2. CASE UNCHANGED vars
    BY <2>2 DEF vars, WriteAhead
  <2>. QED
    BY <2>1, <2>2
<1>. QED
  BY <1>1, <1>2, Typing, PTL DEF Spec

-----------------------------------------------------------------------------
(* A journal never outlives its backup.                                    *)

LEMMA BackupStep ==
  ASSUME TypeOK, WriteAhead, BackupKept, Next PROVE BackupKept'
<1>0. journal \in [Txn -> Journal] /\ txdir \in [Txn -> DirState]
  BY DEF TypeOK
<1>1. CASE UNCHANGED <<journal, txdir>>
  BY <1>1 DEF BackupKept
<1>2. ASSUME UNCHANGED txdir,
             pc \notin {"idle", "backup", "backed"},
             \E j : journal' = [journal EXCEPT ![tx] = j]
      PROVE  BackupKept'
  BY <1>0, <1>2 DEF BackupKept, WriteAhead
<1>3. ASSUME UNCHANGED journal,
             pc \in {"backup", "backed"},
             \E d : txdir' = [txdir EXCEPT ![tx] = d]
      PROVE  BackupKept'
  BY <1>0, <1>3 DEF BackupKept, WriteAhead
<1>4. CASE ApplyStep
  <2>1. CASE WriteJournal
    BY <1>0, <2>1 DEF WriteJournal, Record, BackupKept
  <2>2. CASE WriteBackup \/ JournalRefused
    BY <1>3, <2>2 DEF WriteBackup, JournalRefused
  <2>3. CASE VerifyEntry
    BY <1>1, <1>2, <2>3 DEF VerifyEntry, Record
  <2>4. CASE RecordCore \/ RecordApplying \/ FinishApply
    BY <1>2, <2>4 DEF RecordCore, RecordApplying, FinishApply, Record
  <2>5. CASE BackupRefused \/ StageCore \/ ApplyFails \/ \E p \in Path : WriteEntry(p)
    BY <1>1, <2>5 DEF BackupRefused, StageCore, ApplyFails, WriteEntry
  <2>. QED
    BY <1>4, <2>1, <2>2, <2>3, <2>4, <2>5 DEF ApplyStep
<1>5. ASSUME NEW code \in Failure, Block(code), pc \notin {"idle", "backup", "backed"}
      PROVE  BackupKept'
  BY <1>1, <1>2, <1>5 DEF Block
<1>6. CASE RollbackStep
  <2>1. CASE RollbackStart \/ FinishRollback
    BY <1>2, <2>1 DEF RollbackStart, FinishRollback, Record
  <2>2. CASE \/ RollbackRefused \/ RereadFails \/ RemoveCoreRefused
             \/ RollbackUnverified \/ \E p \in Path : EntryConflict(p)
    BY <1>5, <2>2 DEF RollbackRefused, RereadFails, RemoveCoreRefused,
                      RollbackUnverified, EntryConflict, Failure
  <2>3. CASE \/ \E p \in Path : SkipEntry(p) \/ RestoreEntry(p)
             \/ RereadEntry \/ RemoveCore \/ \E m \in Member : RemoveMember(m)
    BY <1>1, <2>3 DEF SkipEntry, RestoreEntry, RereadEntry, RemoveCore, RemoveMember
  <2>. QED
    BY <1>6, <2>1, <2>2, <2>3 DEF RollbackStep
<1>7. CASE Command
  <2>1. Housekeep => \A t \in Txn : txdir[t] = "journal" => txdir'[t] = "journal"
    BY <1>0 DEF Housekeep
  <2>2. ASSUME NEW t \in Txn, ResumeForward(t) PROVE BackupKept'
    <3>1. \A u \in Txn : journal'[u].state # "none" => journal[u].state # "none"
      BY <1>0, <2>2 DEF ResumeForward
    <3>. QED
      BY <2>1, <2>2, <3>1 DEF ResumeForward, BackupKept
  <2>3. CASE Housekeep /\ UNCHANGED journal
    BY <2>1, <2>3 DEF BackupKept
  <2>. QED
    BY <1>7, <2>2, <2>3
    DEF Command, ApplyBegin, ResumeBack, Rollback, Enter, Inspect
<1>8. CASE Environment
  <2>1. CASE Crash
    BY <1>1, <1>3, <2>1 DEF Crash, Debris
  <2>2. CASE PrepareFault
    BY <1>3, <2>2 DEF PrepareFault
  <2>3. CASE RollbackFault
    BY <1>1, <1>5, <2>3 DEF RollbackFault, Failure
  <2>. QED
    BY <1>1, <1>8, <2>1, <2>2, <2>3
    DEF Environment, ApplyFault, UserEdit, UserDelete, UserRevert, GodotEdit,
        TamperCore, Edited
<1>. QED
  BY <1>4, <1>6, <1>7, <1>8 DEF Next

\* The prior bytes of a journaled transaction are on disk for as long as its
\* journal is, whatever housekeeping, failure or crash comes in between.
THEOREM BackupIsKept == Spec => []BackupKept
<1>1. Init => BackupKept
  BY DEF Init, BackupKept, NoJournal
<1>2. TypeOK /\ WriteAhead /\ BackupKept /\ [Next]_vars => BackupKept'
  BY BackupStep DEF vars, BackupKept
<1>. QED
  BY <1>1, <1>2, Typing, WriteAheadHolds, PTL DEF Spec

-----------------------------------------------------------------------------
(* Human bytes                                                             *)

SameHuman(j) == \A p \in Project : j.before[p].user = j.after[p].user

\* No journal, on disk or in memory, plans to change a human's bytes.
SameHumanEverywhere == SameHuman(mem) /\ \A t \in Txn : SameHuman(journal[t])

LEMMA SameHumanUpdate ==
  ASSUME NEW j \in Journal, SameHuman(j), NEW s
  PROVE  /\ SameHuman([j EXCEPT !.state = s])
         /\ \A f : SameHuman([j EXCEPT !.state = s, !.failure = f])
         /\ \A b : SameHuman([j EXCEPT !.state = s, !.started = b])
BY DEF SameHuman, Journal

LEMMA PlanSameHuman ==
  ASSUME NEW r \in Release, Approvable(r) PROVE SameHuman(Plan(r))
<1>1. /\ Plan(r).before = file
      /\ Plan(r).after = After(r)
  BY DEF Plan, NoJournal
<1>2. ASSUME NEW p \in Project PROVE file[p].user = After(r)[p].user
  <2>1. CASE p \in Owned
    BY <2>1 DEF Approvable, After, KitFile, Absent, Path, Project
  <2>2. CASE p \notin Owned /\ p \in Blocks \cup Config
    BY <1>2, <2>2, PathAssumption DEF After, Path, Project
  <2>3. CASE p \notin Owned /\ p \notin Blocks \cup Config
    <3>1. p \in Retired /\ p # Current
      BY <1>2, <2>3, PathAssumption DEF Project
    <3>. QED
      BY <2>3, <3>1, PathAssumption DEF Approvable, After, KitFile, Absent, Path, Project
  <2>. QED
    BY <2>1, <2>2, <2>3
<1>. QED
  BY <1>1, <1>2 DEF SameHuman

LEMMA SameHumanStep ==
  ASSUME TypeOK, SameHumanEverywhere, Next PROVE SameHumanEverywhere'
<1>0. mem \in Journal /\ journal \in [Txn -> Journal]
  BY DEF TypeOK
<1>1. SameHuman(NoJournal)
  BY DEF SameHuman, NoJournal
<1>2. ASSUME NEW j, j.before = mem.before, j.after = mem.after PROVE SameHuman(j)
  BY <1>2 DEF SameHuman, SameHumanEverywhere
<1>3. Leave => SameHuman(mem)'
  BY <1>1 DEF Leave, SameHuman
<1>4. ASSUME NEW j, SameHuman(j), journal' = [journal EXCEPT ![tx] = j]
      PROVE  \A t \in Txn : SameHuman(journal[t])'
  BY <1>0, <1>4 DEF SameHumanEverywhere, SameHuman
<1>5. UNCHANGED journal => \A t \in Txn : SameHuman(journal[t])'
  BY DEF SameHumanEverywhere, SameHuman
<1>6. UNCHANGED mem => SameHuman(mem)'
  BY DEF SameHumanEverywhere, SameHuman
<1>7. ASSUME NEW j, SameHuman(j), Record(j) PROVE SameHumanEverywhere'
  BY <1>4, <1>7 DEF Record, SameHumanEverywhere, SameHuman
<1>8. ASSUME NEW code, Block(code) PROVE SameHumanEverywhere'
  <2>1. SameHuman([mem EXCEPT !.state = "blocked", !.failure = code])
    BY <1>0, SameHumanUpdate DEF SameHumanEverywhere
  <2>. QED
    BY <1>3, <1>4, <1>5, <1>8, <2>1 DEF Block, SameHumanEverywhere
<1>9. CASE ApplyStep
  <2>1. CASE WriteJournal
    BY <1>7, <2>1 DEF WriteJournal, SameHumanEverywhere
  <2>2. CASE RecordCore
    BY <1>0, <1>2, <1>7, <2>2, CoreStagedFields DEF RecordCore
  <2>3. CASE RecordApplying
    <3>1. SameHuman([mem EXCEPT !.state = "applying"])
      BY <1>0, SameHumanUpdate DEF SameHumanEverywhere
    <3>. QED
      BY <1>7, <2>3, <3>1 DEF RecordApplying
  <2>4. CASE VerifyEntry
    <3>1. SameHuman([mem EXCEPT !.state = "activated"])
      BY <1>0, SameHumanUpdate DEF SameHumanEverywhere
    <3>2. \/ Record([mem EXCEPT !.state = "activated"])
          \/ UNCHANGED mem /\ UNCHANGED journal
      BY <2>4 DEF VerifyEntry
    <3>. QED
      BY <1>5, <1>6, <1>7, <3>1, <3>2 DEF SameHumanEverywhere
  <2>5. CASE FinishApply
    <3>1. SameHuman([mem EXCEPT !.state = "applied"])
      BY <1>0, SameHumanUpdate DEF SameHumanEverywhere
    <3>. QED
      BY <1>3, <1>4, <2>5, <3>1 DEF FinishApply, SameHumanEverywhere
  <2>6. CASE BackupRefused \/ JournalRefused
    BY <1>3, <1>5, <2>6 DEF BackupRefused, JournalRefused, SameHumanEverywhere
  <2>7. CASE WriteBackup \/ StageCore \/ ApplyFails \/ \E p \in Path : WriteEntry(p)
    BY <1>5, <1>6, <2>7
    DEF WriteBackup, StageCore, ApplyFails, WriteEntry, SameHumanEverywhere
  <2>. QED
    BY <1>9, <2>1, <2>2, <2>3, <2>4, <2>5, <2>6, <2>7 DEF ApplyStep
<1>10. CASE RollbackStep
  <2>1. CASE RollbackStart
    <3>1. SameHuman([mem EXCEPT !.state = "rolling_back", !.started = TRUE])
      BY <1>0, SameHumanUpdate DEF SameHumanEverywhere
    <3>. QED
      BY <1>7, <2>1, <3>1 DEF RollbackStart
  <2>2. CASE FinishRollback
    <3>1. SameHuman([mem EXCEPT !.state = "rolled_back", !.failure = "none"])
      BY <1>0, SameHumanUpdate DEF SameHumanEverywhere
    <3>. QED
      BY <1>3, <1>4, <2>2, <3>1 DEF FinishRollback, SameHumanEverywhere
  <2>3. CASE \/ RollbackRefused \/ RereadFails \/ RemoveCoreRefused
             \/ RollbackUnverified \/ \E p \in Path : EntryConflict(p)
    BY <1>8, <2>3 DEF RollbackRefused, RereadFails, RemoveCoreRefused,
                      RollbackUnverified, EntryConflict
  <2>4. CASE \/ \E p \in Path : SkipEntry(p) \/ RestoreEntry(p)
             \/ RereadEntry \/ RemoveCore \/ \E m \in Member : RemoveMember(m)
    BY <1>5, <1>6, <2>4 DEF SkipEntry, RestoreEntry, RereadEntry, RemoveCore,
                            RemoveMember, SameHumanEverywhere
  <2>. QED
    BY <1>10, <2>1, <2>2, <2>3, <2>4 DEF RollbackStep
<1>11. CASE Command
  <2>1. ASSUME NEW t \in Txn, NEW r \in Release, ApplyBegin(t, r)
        PROVE  SameHumanEverywhere'
    <3>1. SameHuman(Plan(r)) /\ mem' = Plan(r) /\ UNCHANGED journal
      BY <2>1, PlanSameHuman DEF ApplyBegin
    <3>. QED
      BY <1>5, <3>1 DEF SameHumanEverywhere, SameHuman
  <2>2. ASSUME NEW t \in Txn, ResumeForward(t) PROVE SameHumanEverywhere'
    <3>1. \A u \in Txn : /\ journal'[u].before = journal[u].before
                         /\ journal'[u].after = journal[u].after
      BY <1>0, <2>2 DEF ResumeForward, Journal
    <3>. QED
      BY <1>6, <2>2, <3>1 DEF ResumeForward, process, SameHumanEverywhere, SameHuman
  <2>3. ASSUME NEW t \in Txn, Enter(t, "rb_check") PROVE SameHumanEverywhere'
    BY <1>5, <2>3 DEF Enter, SameHumanEverywhere, SameHuman
  <2>4. CASE Inspect
    BY <1>5, <1>6, <2>4 DEF Inspect, process, SameHumanEverywhere
  <2>. QED
    BY <1>11, <2>1, <2>2, <2>3, <2>4 DEF Command, ResumeBack, Rollback
<1>12. CASE Environment
  <2>1. CASE Crash \/ PrepareFault
    BY <1>3, <1>5, <2>1 DEF Crash, PrepareFault, SameHumanEverywhere
  <2>2. CASE ApplyFault
    <3>1. SameHuman(mem)'
      BY <1>0, <1>2, <1>6, <2>2, CoreStagedFields DEF ApplyFault, SameHuman
    <3>. QED
      BY <1>5, <2>2, <3>1 DEF ApplyFault, SameHumanEverywhere
  <2>3. CASE RollbackFault
    BY <1>3, <1>5, <1>8, <2>3 DEF RollbackFault, SameHumanEverywhere
  <2>4. CASE UNCHANGED <<process, journal>>
    BY <1>5, <1>6, <2>4 DEF process, SameHumanEverywhere
  <2>. QED
    BY <1>12, <2>1, <2>2, <2>3, <2>4
    DEF Environment, UserEdit, UserDelete, UserRevert, GodotEdit, TamperCore, Edited
<1>. QED
  BY <1>9, <1>10, <1>11, <1>12 DEF Next

LEMMA OneFileStep ==
  ASSUME TypeOK, Next, process' # process
  PROVE  \/ UNCHANGED file
         \/ \E p \in Path : WriteEntry(p) \/ RestoreEntry(p)
BY DEF Next, ApplyStep, WriteBackup, BackupRefused, WriteJournal, JournalRefused,
       StageCore, RecordCore, RecordApplying, VerifyEntry, FinishApply, ApplyFails,
       RollbackStep, RollbackStart, RollbackRefused, SkipEntry, EntryConflict,
       RereadEntry, RereadFails, RemoveCore, RemoveCoreRefused, RemoveMember,
       FinishRollback, RollbackUnverified, Block,
       Command, ApplyBegin, ResumeForward, ResumeBack, Rollback, Enter, Inspect,
       Environment, Crash, PrepareFault, ApplyFault, RollbackFault,
       UserEdit, UserDelete, UserRevert, GodotEdit, TamperCore, Edited

LEMMA HumanStep ==
  ASSUME TypeOK, SameHumanEverywhere, Next, process' # process,
         NEW q \in Project
  PROVE  file'[q].user = file[q].user
<1>1. SameHuman(mem) /\ mem \in Journal /\ file \in [Path -> Content]
  BY DEF SameHumanEverywhere, TypeOK
<1>2. ASSUME NEW p \in Path, WriteEntry(p) PROVE file'[q].user = file[q].user
  BY <1>1, <1>2 DEF WriteEntry, SameHuman
<1>3. ASSUME NEW p \in Path, RestoreEntry(p) PROVE file'[q].user = file[q].user
  BY <1>1, <1>3 DEF RestoreEntry, SameHuman
<1>. QED
  BY <1>2, <1>3, OneFileStep

\* Neither applying, rolling back, resuming nor any failure of them ever changes
\* or removes what a human wrote, in any file the kit touches.
THEOREM HumanBytesAreSafe == Spec => HumanBytesSurvive
<1>1. Init => SameHumanEverywhere
  BY DEF Init, SameHumanEverywhere, SameHuman, NoJournal
<1>2. TypeOK /\ SameHumanEverywhere /\ [Next]_vars => SameHumanEverywhere'
  <2>. SUFFICES ASSUME TypeOK, SameHumanEverywhere, [Next]_vars
                PROVE  SameHumanEverywhere'
    OBVIOUS
  <2>1. CASE UNCHANGED vars
    BY <2>1 DEF vars, SameHumanEverywhere, SameHuman
  <2>. QED
    BY <2>1, SameHumanStep
<1>3. TypeOK /\ SameHumanEverywhere /\ [Next]_vars =>
        [process' # process => \A p \in Project : file'[p].user = file[p].user]_vars
  BY HumanStep
<1>. QED
  BY <1>1, <1>2, <1>3, Typing, PTL DEF Spec, HumanBytesSurvive

-----------------------------------------------------------------------------
(* The transaction implements UndoLog.                                     *)

Known == TypeOK /\ WriteAhead

\* The abstract steps, in the terms of the journals.
LEMMA LogWork ==
  ASSUME Known, UNCHANGED file,
         \A t \in Txn : /\ journal'[t].before = journal[t].before
                        /\ journal'[t].after = journal[t].after
                        /\ PhaseOf(journal'[t].state) = PhaseOf(journal[t].state)
  PROVE  Undo!Work
BY DEF Undo!Work, Log

LEMMA LogPhase ==
  ASSUME Known, tx \in Txn, UNCHANGED file, NEW j,
         journal' = [journal EXCEPT ![tx] = j],
         j.before = journal[tx].before, j.after = journal[tx].after
  PROVE  /\ Undo!Enter(tx, PhaseOf(j.state))
         /\ UNCHANGED file
BY DEF Undo!Enter, Log, Known, TypeOK

LEMMA LogStick ==
  ASSUME Known, NEW code, Block(code), tx \in Txn,
         journal[tx].before = mem.before, journal[tx].after = mem.after,
         journal[tx].state \notin {"none", "rolled_back"},
         mem.state = "blocked" <=> journal[tx].state = "blocked"
  PROVE  Undo!Work \/ Undo!Stick(tx)
<1>0. mem \in Journal /\ journal \in [Txn -> Journal]
  BY DEF Known, TypeOK
<1>1. CASE mem.state = "blocked"
  BY <1>1 DEF Block, Undo!Work, Log
<1>2. CASE mem.state # "blocked"
  <2>. DEFINE j == [mem EXCEPT !.state = "blocked", !.failure = code]
  <2>1. journal' = [journal EXCEPT ![tx] = j] /\ UNCHANGED file
    BY <1>2 DEF Block
  <2>2. j.before = journal[tx].before /\ j.after = journal[tx].after /\ j.state = "blocked"
    BY <1>0 DEF Journal
  <2>3. Undo!Enter(tx, "stuck")
    <3>. HIDE DEF j
    <3>. QED
      BY <2>1, <2>2, LogPhase DEF PhaseOf
  <2>4. Log[tx].phase \in {"open", "applied"}
    BY <1>0, <1>2 DEF Log, PhaseOf, Journal, JournalState
  <2>. QED
    BY <2>1, <2>3, <2>4 DEF Undo!Stick
<1>. QED
  BY <1>1, <1>2

LEMMA LogApply ==
  ASSUME Known, ApplyStep PROVE Undo!Next
<1>0. mem \in Journal /\ journal \in [Txn -> Journal]
  BY DEF Known, TypeOK
<1>1. CASE WriteJournal
  <2>1. /\ tx \in Txn /\ mem.state = "prepared" /\ journal[tx].state = "none"
        /\ journal' = [journal EXCEPT ![tx] = mem] /\ UNCHANGED file
    BY <1>1 DEF Known, WriteAhead, WriteJournal, Record
  <2>2. Log[tx].phase = "none" /\ Log'[tx].phase = "open"
    BY <1>0, <2>1 DEF Log, PhaseOf
  <2>3. Log' = [Log EXCEPT ![tx] = Log'[tx]]
    BY <1>0, <2>1 DEF Log
  <2>. QED
    BY <2>1, <2>2, <2>3 DEF Undo!Begin, Undo!Next
<1>2. ASSUME NEW j, journal' = [journal EXCEPT ![tx] = j], UNCHANGED file,
             j.before = mem.before, j.after = mem.after,
             pc \in ApplySteps
      PROVE  Undo!Enter(tx, PhaseOf(j.state)) /\ tx \in Txn /\ Log[tx].phase = "open"
  BY <1>0, <1>2, LogPhase DEF Known, WriteAhead, Log, PhaseOf, Forward, ApplySteps
<1>3. ASSUME NEW j, journal' = [journal EXCEPT ![tx] = j], UNCHANGED file,
             j.before = mem.before, j.after = mem.after, j.state \in Forward,
             pc \in ApplySteps
      PROVE  Undo!Next
  <2>1. PhaseOf(j.state) = "open" /\ PhaseOf(journal[tx].state) = "open"
    BY <1>3 DEF Known, WriteAhead, PhaseOf, Forward, ApplySteps
  <2>2. journal[tx].before = mem.before /\ journal[tx].after = mem.after
    BY <1>3 DEF Known, WriteAhead, ApplySteps
  <2>. QED
    BY <1>0, <1>3, <2>1, <2>2, LogWork DEF Undo!Next
<1>4. CASE RecordCore
  BY <1>0, <1>3, <1>4, CoreStagedFields DEF RecordCore, Record, Forward, ApplySteps
<1>5. CASE RecordApplying
  <2>. DEFINE j == [mem EXCEPT !.state = "applying"]
  <2>1. j.before = mem.before /\ j.after = mem.after /\ j.state \in Forward
    BY <1>0 DEF Journal, Forward
  <2>2. /\ journal' = [journal EXCEPT ![tx] = j] /\ UNCHANGED file
        /\ pc \in ApplySteps
    BY <1>5 DEF RecordApplying, Record, ApplySteps
  <2>. HIDE DEF j
  <2>. QED
    BY <1>3, <2>1, <2>2
<1>6. CASE VerifyEntry /\ cur = Current
  <2>. DEFINE j == [mem EXCEPT !.state = "activated"]
  <2>1. j.before = mem.before /\ j.after = mem.after /\ j.state \in Forward
    BY <1>0 DEF Journal, Forward
  <2>2. /\ journal' = [journal EXCEPT ![tx] = j] /\ UNCHANGED file
        /\ pc \in ApplySteps
    BY <1>6 DEF VerifyEntry, Record, ApplySteps
  <2>. HIDE DEF j
  <2>. QED
    BY <1>3, <2>1, <2>2
<1>7. CASE FinishApply
  <2>. DEFINE j == [mem EXCEPT !.state = "applied"]
  <2>1. j.before = mem.before /\ j.after = mem.after /\ j.state = "applied"
    BY <1>0 DEF Journal
  <2>2. /\ journal' = [journal EXCEPT ![tx] = j] /\ UNCHANGED file
        /\ pc \in ApplySteps
    BY <1>7 DEF FinishApply, ApplySteps
  <2>. HIDE DEF j
  <2>3. Undo!Enter(tx, "applied") /\ tx \in Txn /\ Log[tx].phase = "open"
    BY <1>2, <2>1, <2>2 DEF PhaseOf
  <2>. QED
    BY <2>2, <2>3 DEF Undo!Close, Undo!Next
<1>8. ASSUME NEW p \in Path, WriteEntry(p) PROVE Undo!Next
  <2>1. /\ tx \in Txn /\ Log[tx].phase = "open"
        /\ Log[tx].before = mem.before /\ Log[tx].after = mem.after
    BY <1>0, <1>8 DEF WriteEntry, Known, WriteAhead, Log, PhaseOf, Forward
  <2>2. UNCHANGED Log
    BY <1>8 DEF WriteEntry, Log
  <2>. QED
    BY <1>8, <2>1, <2>2 DEF WriteEntry, Undo!Move, Undo!Next
<1>9. CASE UNCHANGED <<file, journal>>
  BY <1>9, LogWork DEF Undo!Next
<1>10. VerifyEntry /\ cur # Current => UNCHANGED <<file, journal>>
  BY DEF VerifyEntry
<1>. QED
  BY <1>1, <1>4, <1>5, <1>6, <1>7, <1>8, <1>9, <1>10
  DEF ApplyStep, WriteBackup, BackupRefused, JournalRefused, StageCore, ApplyFails

LEMMA LogRollback ==
  ASSUME Known, RollbackStep PROVE Undo!Next
<1>0. mem \in Journal /\ journal \in [Txn -> Journal]
  BY DEF Known, TypeOK
<1>1. CASE RollbackStart
  <2>. DEFINE j == [mem EXCEPT !.state = "rolling_back", !.started = TRUE]
  <2>1. j.before = mem.before /\ j.after = mem.after /\ j.state = "rolling_back"
    BY <1>0 DEF Journal
  <2>2. journal' = [journal EXCEPT ![tx] = j] /\ UNCHANGED file /\ pc = "rb_check"
    BY <1>1 DEF RollbackStart, Record
  <2>. HIDE DEF j
  <2>3. /\ tx \in Txn /\ journal[tx].state \notin {"none", "rolled_back"}
        /\ j.before = journal[tx].before /\ j.after = journal[tx].after
    BY <2>1, <2>2 DEF Known, WriteAhead
  <2>4. CASE PhaseOf(journal[tx].state) = "open"
    BY <1>0, <2>1, <2>2, <2>3, <2>4, LogWork DEF PhaseOf, Undo!Next
  <2>5. CASE PhaseOf(journal[tx].state) # "open"
    <3>1. Log[tx].phase \in {"applied", "stuck"}
      BY <2>3, <2>5 DEF Log, PhaseOf
    <3>2. Undo!Enter(tx, "open")
      BY <2>1, <2>2, <2>3, LogPhase DEF PhaseOf
    <3>. QED
      BY <2>2, <2>3, <3>1, <3>2 DEF Undo!Reopen, Undo!Next
  <2>. QED
    BY <2>4, <2>5
<1>2. ASSUME NEW code, Block(code), pc \in {"rb_check"} \cup RollbackSteps
      PROVE  Undo!Next
  BY <1>2, LogStick DEF Known, WriteAhead, RollbackSteps, Undo!Next
<1>3. ASSUME NEW p \in Path, RestoreEntry(p) PROVE Undo!Next
  <2>1. /\ tx \in Txn /\ Log[tx].phase = "open"
        /\ Log[tx].before = mem.before /\ Log[tx].after = mem.after
    BY <1>3 DEF RestoreEntry, Known, WriteAhead, Log, PhaseOf
  <2>2. UNCHANGED Log
    BY <1>3 DEF RestoreEntry, Log
  <2>. QED
    BY <1>3, <2>1, <2>2 DEF RestoreEntry, Undo!Move, Undo!Next
<1>4. CASE FinishRollback
  <2>. DEFINE j == [mem EXCEPT !.state = "rolled_back", !.failure = "none"]
  <2>1. j.before = mem.before /\ j.after = mem.after /\ j.state = "rolled_back"
    BY <1>0 DEF Journal
  <2>2. journal' = [journal EXCEPT ![tx] = j] /\ UNCHANGED file /\ pc = "rb_verify"
    BY <1>4 DEF FinishRollback
  <2>. HIDE DEF j
  <2>3. /\ tx \in Txn /\ journal[tx].state = "rolling_back"
        /\ mem.before = journal[tx].before /\ mem.after = journal[tx].after
    BY <2>2 DEF Known, WriteAhead
  <2>4. Undo!Enter(tx, "undone")
    BY <2>1, <2>2, <2>3, LogPhase DEF PhaseOf
  <2>5. \A p \in Undo!Touched(tx) : file[p] = Log[tx].before[p]
    BY <1>4, <2>3 DEF FinishRollback, Entries, Undo!Touched, Log
  <2>6. Log[tx].phase = "open"
    BY <2>3 DEF Log, PhaseOf
  <2>. QED
    BY <2>2, <2>3, <2>4, <2>5, <2>6 DEF Undo!Undo, Undo!Next
<1>5. CASE UNCHANGED <<file, journal>>
  BY <1>5, LogWork DEF Undo!Next
<1>. QED
  BY <1>1, <1>2, <1>3, <1>4, <1>5
  DEF RollbackStep, RollbackRefused, SkipEntry, EntryConflict, RereadEntry,
      RereadFails, RemoveCore, RemoveCoreRefused, RemoveMember,
      RollbackUnverified, RollbackSteps

LEMMA LogCommand ==
  ASSUME Known, Command PROVE Undo!Next
<1>0. journal \in [Txn -> Journal]
  BY DEF Known, TypeOK
<1>1. ASSUME NEW t \in Txn, ResumeForward(t) PROVE Undo!Next
  <2>. DEFINE j == [journal[t] EXCEPT !.state = "applied"]
  <2>1. /\ j.before = journal[t].before /\ j.after = journal[t].after
        /\ j.state = "applied"
    BY <1>0 DEF Journal
  <2>2. journal' = [journal EXCEPT ![t] = j] /\ UNCHANGED file
    BY <1>1 DEF ResumeForward
  <2>. HIDE DEF j
  <2>3. Log[t].phase = "open"
    BY <1>1 DEF ResumeForward, Log, PhaseOf
  <2>4. Undo!Enter(t, "applied")
    BY <1>0, <2>1, <2>2 DEF Undo!Enter, Log, PhaseOf
  <2>. QED
    BY <2>2, <2>3, <2>4 DEF Undo!Close, Undo!Next
<1>2. CASE UNCHANGED <<file, journal>>
  BY <1>2, LogWork DEF Undo!Next
<1>. QED
  BY <1>1, <1>2 DEF Command, ApplyBegin, ResumeBack, Rollback, Enter, Inspect

LEMMA LogEnvironment ==
  ASSUME Known, Environment PROVE Undo!Next
<1>1. CASE UNCHANGED <<file, journal>>
  BY <1>1, LogWork DEF Undo!Next
<1>2. CASE RollbackFault /\ Block("rollback-failed")
  BY <1>1, <1>2, LogStick DEF RollbackFault, Known, WriteAhead, Undo!Next, Block
<1>3. ASSUME NEW p \in Project, UserEdit(p) \/ UserDelete(p) \/ UserRevert(p)
      PROVE  Undo!Next
  <2>1. UNCHANGED Log /\ UNCHANGED process
    BY <1>3 DEF UserEdit, UserDelete, UserRevert, Edited, Log
  <2>2. file \in [Path -> Content] /\ p \in Path
    BY DEF Known, TypeOK, Path
  <2>3. \E c : file' = [file EXCEPT ![p] = c]
    BY <1>3 DEF UserEdit, UserDelete, UserRevert
  <2>4. file' \in [Path -> Content]
    BY <1>3, EnvironmentType DEF Known, TypeOK, Environment
  <2>5. file' = [file EXCEPT ![p] = file'[p]] /\ file'[p] \in Content
    BY <2>2, <2>3, <2>4
  <2>. QED
    BY <2>1, <2>2, <2>5 DEF Undo!Outside, Undo!Next
<1>. QED
  BY <1>1, <1>2, <1>3
  DEF Environment, Crash, PrepareFault, ApplyFault, RollbackFault, GodotEdit,
      TamperCore, Edited

\* Everything KitChange does to the project's files, from the first write of an
\* apply to the last of a rollback, crashes and retries included, is a step of the
\* undo log: logged first, one file at a time, undone only when all are back.
THEOREM RefinesUndoLog == Spec => ImplementsUndoLog
<1>1. Init => Undo!Init
  <2>. SUFFICES ASSUME Init PROVE Undo!Init
    OBVIOUS
  <2>1. file \in [Path -> Content]
    BY InitType DEF TypeOK
  <2>2. \A t \in Txn : Log[t].phase = "none"
    BY DEF Init, Log, PhaseOf, NoJournal
  <2>. QED
    BY <2>1, <2>2 DEF Undo!Init
<1>2. TypeOK /\ WriteAhead /\ [Next]_vars => [Undo!Next]_(Undo!vars)
  <2>. SUFFICES ASSUME Known, [Next]_vars PROVE [Undo!Next]_(Undo!vars)
    BY DEF Known
  <2>1. CASE Next
    BY <2>1, LogApply, LogRollback, LogCommand, LogEnvironment DEF Next
  <2>2. CASE UNCHANGED vars
    BY <2>2 DEF vars, Undo!vars, process, Log
  <2>. QED
    BY <2>1, <2>2
<1>. QED
  BY <1>1, <1>2, Typing, WriteAheadHolds, PTL DEF Spec, ImplementsUndoLog, Undo!Spec

(***************************************************************************)
(* What recovery leaves of a kit, for every value of the constants: the    *)
(* core that current.json names is always whole on disk, a core is only    *)
(* ever taken apart by a journaled rollback of the change that created it, *)
(* and changes follow one another.                                         *)
(*                                                                         *)
(* The argument is one of order.  A change that touches current.json moves *)
(* it from an older release to a newer one (Upgrade), and of two such      *)
(* changes that are both still in force, the later one started where the   *)
(* earlier one ended or above (Ordered).  So a rollback, which removes its *)
(* own release only after current.json is back at an older one, can remove *)
(* neither the selected core nor one that another change would go back to. *)
(* The second half adds what holds of all the files while nobody edits.    *)
(***************************************************************************)

USE DEF Path, Release

Present(r) == \A m \in Member : core[r][m] # "absent"
Live(t)    == journal[t].state \notin {"none", "rolled_back"}
Moves(j)   == j.before[Current] # j.after[Current]
Back(j)    == j.before[Current].kit

\* Two versions of one journal: everything but the progress of the transaction.
SamePlan(i, j) == /\ i.before = j.before /\ i.after = j.after /\ i.rel = j.rel
                  /\ i.core = "reused" <=> j.core = "reused"

\* A change that touches current.json or creates a core names a newer release.
Upgrade(j) ==
  Moves(j) \/ j.core # "reused" =>
    /\ j.rel \in Release
    /\ \E k \in {NoKit} \cup Release : k < j.rel /\ j.before[Current] = KitFile(k)
    /\ j.after[Current] = KitFile(j.rel)

Upgrades ==
  /\ \E k \in {NoKit} \cup Release : file[Current] = KitFile(k)
  /\ Upgrade(mem)
  /\ \A t \in Txn : Upgrade(journal[t])

\* What the journal on disk says besides the two versions of every file.
Agreed ==
  /\ pc \notin {"idle", "backup", "backed"} => SamePlan(journal[tx], mem)
  /\ pc \in {"backup", "backed"} \cup ApplySteps => mem.rel \in Release
  /\ pc = "rb_check" => journal[tx] = mem \/ journal[tx].state \in Forward
  /\ pc \in RollbackSteps => journal[tx] = mem /\ mem.started

\* Where the running process has got to with current.json and the core.
Progress ==
  /\ pc \in {"backup", "backed"} =>
       /\ file[Current] = mem.before[Current]
       /\ \A t \in Txn : ~Open(t)
  /\ pc \in ApplySteps \ {"prepared"} => Present(mem.rel)
  /\ pc \in {"entries", "verify"} /\ Moves(mem) /\ Current \notin todo =>
       file[Current] = mem.after[Current]
  /\ pc \in {"rb_entries", "rb_reread"} /\ Moves(mem) /\ Current \notin todo =>
       file[Current] = mem.before[Current]
  /\ pc = "rb_reread" /\ cur = Current => file[Current] = mem.before[Current]
  /\ pc \in {"rb_members", "rb_verify"} /\ Moves(mem) =>
       file[Current] = mem.before[Current]
  /\ pc = "rb_members" => mem.core # "reused"
  /\ pc = "rb_verify" /\ mem.core # "reused" => ~Exists(mem.rel)

\* Of two changes in force, one started where the other ended, or above.
Disjoint(i, j) == i.rel <= Back(j) \/ j.rel <= Back(i)

\* Changes in force are ordered, an applied one is at or below the selected release,
\* and whatever a rollback would go back to is there.
ChangesOrdered ==
  \A t, u \in Txn :
    t # u /\ Live(t) /\ Live(u) /\ Moves(journal[t]) /\ Moves(journal[u]) =>
      Disjoint(journal[t], journal[u])
AppliedBelow ==
  \A t \in Txn :
    journal[t].state = "applied" /\ Moves(journal[t]) => journal[t].rel <= Selected
BackPresent ==
  \A t \in Txn :
    /\ Live(t) /\ Moves(journal[t]) /\ journal[t].rel <= Selected
    /\ Back(journal[t]) \in Release
    => Present(Back(journal[t]))

Ordered == ChangesOrdered /\ AppliedBelow /\ BackPresent

-----------------------------------------------------------------------------
(* The journals: planned once, then only their progress is recorded.       *)

LEMMA SamePlanUpdate ==
  ASSUME NEW j \in Journal, NEW s
  PROVE  /\ SamePlan([j EXCEPT !.state = s], j)
         /\ \A f : SamePlan([j EXCEPT !.state = s, !.failure = f], j)
         /\ \A b : SamePlan([j EXCEPT !.state = s, !.started = b], j)
BY DEF SamePlan, Journal

LEMMA SamePlanStaged == mem \in Journal => SamePlan(CoreStaged, mem)
BY DEF SamePlan, CoreStaged, Journal

LEMMA SamePlanUpgrade ==
  ASSUME NEW i, NEW j, SamePlan(i, j), Upgrade(j) PROVE Upgrade(i)
BY DEF SamePlan, Upgrade, Moves

LEMMA PlanFields ==
  ASSUME NEW r PROVE /\ Plan(r).rel = r /\ Plan(r).before = file
                     /\ Plan(r).after = After(r) /\ Plan(r).state = "prepared"
                     /\ Plan(r).core = IF Exists(r) THEN "reused" ELSE "create_pending"
                     /\ Plan(r).started = FALSE
BY DEF Plan, NoJournal

\* The plan refuses an older release, and in a managed project the core of the
\* selected one exists: a new core, or a new current.json, is a newer release.
LEMMA PlanUpgrade ==
  ASSUME TypeOK, NEW r \in Release, ContextOK, Approvable(r),
         NEW k \in {NoKit} \cup Release, file[Current] = KitFile(k)
  PROVE  Upgrade(Plan(r))
<1>1. After(r)[Current] = KitFile(r)
  BY DEF After
<1>2. k <= r
  BY DEF Approvable, ActiveKit, Mode, Selected, KitFile, Absent, NoKit, Legacy
<1>3. ASSUME k = r PROVE ~Moves(Plan(r)) /\ Plan(r).core = "reused"
  <2>1. Mode = "managed" /\ Selected = r
    BY <1>3 DEF Mode, Selected, KitFile, Absent, NoKit
  <2>2. Exists(r)
    BY <2>1, NameAssumption DEF ContextOK, Intact, Exists
  <2>. QED
    BY <1>1, <1>3, <2>2, PlanFields DEF Moves
<1>4. k < r \/ k = r
  BY <1>2 DEF NoKit
<1>. QED
  BY <1>1, <1>3, <1>4, PlanFields DEF Upgrade

\* A step of the journals: the first record of a transaction, or its progress.
Applies(t) == (FinishApply /\ t = tx) \/ ResumeForward(t)

LEMMA JournalStep ==
  ASSUME TypeOK, WriteAhead, Agreed, [Next]_vars, ~WriteJournal, NEW t \in Txn
  PROVE  /\ SamePlan(journal'[t], journal[t])
         /\ Live(t)' => Live(t)
         /\ journal'[t].state = "applied" => journal[t].state = "applied" \/ Applies(t)
         /\ journal'[t].state \in Forward => journal[t].state \in Forward
         /\ journal'[t].state = "rolled_back" =>
              journal[t].state = "rolled_back" \/ (FinishRollback /\ t = tx)
         /\ journal[t].state = "none" <=> journal'[t].state = "none"
<1>. DEFINE Goal == /\ SamePlan(journal'[t], journal[t])
                    /\ Live(t)' => Live(t)
                    /\ journal'[t].state = "applied" =>
                         journal[t].state = "applied" \/ Applies(t)
                    /\ journal'[t].state \in Forward => journal[t].state \in Forward
                    /\ journal'[t].state = "rolled_back" =>
                         journal[t].state = "rolled_back" \/ (FinishRollback /\ t = tx)
                    /\ journal[t].state = "none" <=> journal'[t].state = "none"
<1>0. mem \in Journal /\ journal \in [Txn -> Journal]
  BY DEF TypeOK
<1>1. CASE UNCHANGED journal
  BY <1>1 DEF SamePlan, Live
<1>2. ASSUME NEW j, SamePlan(j, mem), journal' = [journal EXCEPT ![tx] = j],
             pc \notin {"idle", "backup", "backed"},
             j.state = "applied" => FinishApply,
             j.state = "rolled_back" => FinishRollback,
             j.state # "none",
             j.state \in Forward => journal[tx].state \in Forward
      PROVE  Goal
  <2>1. tx \in Txn /\ Live(tx) /\ SamePlan(journal[tx], mem)
    BY <1>2 DEF WriteAhead, Agreed, Live
  <2>2. CASE t = tx
    BY <1>0, <1>2, <2>1, <2>2 DEF SamePlan, Applies, Live
  <2>3. CASE t # tx
    BY <1>0, <1>2, <2>3 DEF SamePlan, Live
  <2>. QED
    BY <2>2, <2>3
<1>3. CASE RecordCore
  BY <1>0, <1>2, <1>3, SamePlanStaged, CoreStagedFields
  DEF RecordCore, Record, WriteAhead
<1>4. CASE RecordApplying
  <2>. DEFINE j == [mem EXCEPT !.state = "applying"]
  <2>1. SamePlan(j, mem) /\ j.state = "applying"
    BY <1>0, SamePlanUpdate, UpdateFields
  <2>2. journal' = [journal EXCEPT ![tx] = j]
    BY <1>4 DEF RecordApplying, Record
  <2>. HIDE DEF j
  <2>. QED
    BY <1>2, <1>4, <2>1, <2>2 DEF RecordApplying, Forward, WriteAhead
<1>5. CASE VerifyEntry /\ cur = Current
  <2>. DEFINE j == [mem EXCEPT !.state = "activated"]
  <2>1. SamePlan(j, mem) /\ j.state = "activated"
    BY <1>0, SamePlanUpdate, UpdateFields
  <2>2. journal' = [journal EXCEPT ![tx] = j]
    BY <1>5 DEF VerifyEntry, Record
  <2>. HIDE DEF j
  <2>. QED
    BY <1>2, <1>5, <2>1, <2>2 DEF VerifyEntry, Forward, WriteAhead
<1>6. CASE FinishApply
  <2>. DEFINE j == [mem EXCEPT !.state = "applied"]
  <2>1. SamePlan(j, mem) /\ j.state = "applied"
    BY <1>0, SamePlanUpdate, UpdateFields
  <2>2. journal' = [journal EXCEPT ![tx] = j] /\ pc = "entries"
    BY <1>6 DEF FinishApply
  <2>. HIDE DEF j
  <2>. QED
    BY <1>2, <1>6, <2>1, <2>2 DEF Forward
<1>7. CASE RollbackStart
  <2>. DEFINE j == [mem EXCEPT !.state = "rolling_back", !.started = TRUE]
  <2>1. SamePlan(j, mem) /\ j.state = "rolling_back"
    BY <1>0 DEF SamePlan, Journal
  <2>2. journal' = [journal EXCEPT ![tx] = j] /\ pc = "rb_check"
    BY <1>7 DEF RollbackStart, Record
  <2>. HIDE DEF j
  <2>. QED
    BY <1>2, <1>7, <2>1, <2>2 DEF Forward
<1>8. CASE FinishRollback
  <2>. DEFINE j == [mem EXCEPT !.state = "rolled_back", !.failure = "none"]
  <2>1. SamePlan(j, mem) /\ j.state = "rolled_back"
    BY <1>0 DEF SamePlan, Journal
  <2>2. journal' = [journal EXCEPT ![tx] = j] /\ pc = "rb_verify"
    BY <1>8 DEF FinishRollback
  <2>. HIDE DEF j
  <2>. QED
    BY <1>2, <1>8, <2>1, <2>2 DEF Forward
<1>9. ASSUME NEW code, Block(code), pc \notin {"idle", "backup", "backed"}
      PROVE  Goal
  <2>. DEFINE j == [mem EXCEPT !.state = "blocked", !.failure = code]
  <2>1. SamePlan(j, mem) /\ j.state = "blocked"
    BY <1>0 DEF SamePlan, Journal
  <2>2. UNCHANGED journal \/ journal' = [journal EXCEPT ![tx] = j]
    BY <1>9 DEF Block
  <2>. HIDE DEF j
  <2>. QED
    BY <1>1, <1>2, <1>9, <2>1, <2>2 DEF Forward
<1>10. ASSUME NEW u \in Txn, ResumeForward(u) PROVE Goal
  <2>1. journal' = [journal EXCEPT ![u] = [journal[u] EXCEPT !.state = "applied"]]
    BY <1>10 DEF ResumeForward
  <2>2. /\ SamePlan(journal'[t], journal[t])
        /\ t = u => journal'[t].state = "applied"
        /\ t # u => journal'[t] = journal[t]
    BY <1>0, <2>1, SamePlanUpdate DEF SamePlan
  <2>3. Live(u)
    BY <1>10 DEF ResumeForward, Live
  <2>. QED
    BY <1>10, <2>2, <2>3 DEF Applies, Live, Forward
<1>11. CASE UNCHANGED vars
  BY <1>1, <1>11 DEF vars
<1>12. CASE ApplyStep
  BY <1>1, <1>3, <1>4, <1>5, <1>6, <1>12
  DEF ApplyStep, VerifyEntry, WriteBackup, BackupRefused, JournalRefused, StageCore, WriteEntry,
      ApplyFails
<1>13. CASE RollbackStep
  BY <1>1, <1>7, <1>8, <1>9, <1>13
  DEF RollbackStep, RollbackRefused, SkipEntry, RestoreEntry, EntryConflict,
      RereadEntry, RereadFails, RemoveCore, RemoveCoreRefused, RemoveMember,
      RollbackUnverified
<1>14. CASE Command
  BY <1>1, <1>10, <1>14
  DEF Command, ApplyBegin, ResumeBack, Rollback, Enter, Inspect
<1>15. CASE Environment
  BY <1>1, <1>9, <1>15
  DEF Environment, Crash, PrepareFault, ApplyFault, RollbackFault,
      UserEdit, UserDelete, UserRevert, GodotEdit, TamperCore, Edited
<1>. QED
  BY <1>11, <1>12, <1>13, <1>14, <1>15 DEF Next

\* No human and no crash touches current.json: it moves forward when an apply
\* writes it and back when a rollback restores it.
LEMMA CurrentStep ==
  ASSUME TypeOK, [Next]_vars
  PROVE  \/ file'[Current] = file[Current]
         \/ WriteEntry(Current)
         \/ RestoreEntry(Current)
<1>0. file \in [Path -> Content] /\ Current \in Path /\ Current \notin Project
  BY PathAssumption DEF TypeOK
<1>1. CASE UNCHANGED file
  BY <1>1
<1>2. ASSUME NEW p \in Path, WriteEntry(p) \/ RestoreEntry(p), p # Current
      PROVE  file'[Current] = file[Current]
  BY <1>0, <1>2 DEF WriteEntry, RestoreEntry
<1>3. ASSUME NEW p \in Project, UserEdit(p) \/ UserDelete(p) \/ UserRevert(p)
      PROVE  file'[Current] = file[Current]
  BY <1>0, <1>3 DEF UserEdit, UserDelete, UserRevert
<1>4. CASE Environment
  BY <1>1, <1>3, <1>4
  DEF Environment, Crash, PrepareFault, ApplyFault, RollbackFault, Block,
      GodotEdit, Edited, TamperCore
<1>5. ASSUME Next, process' # process PROVE \/ file'[Current] = file[Current]
                                            \/ WriteEntry(Current)
                                            \/ RestoreEntry(Current)
  BY <1>1, <1>2, <1>5, OneFileStep
<1>6. CASE Next /\ UNCHANGED process
  BY <1>0, <1>1, <1>2, <1>4, <1>6
  DEF Next, ApplyStep, WriteBackup, BackupRefused, WriteJournal, JournalRefused,
      StageCore, RecordCore, RecordApplying, VerifyEntry, FinishApply, ApplyFails,
      RollbackStep, RollbackStart, RollbackRefused, SkipEntry, EntryConflict,
      RereadEntry, RereadFails, RemoveCore, RemoveCoreRefused, RemoveMember,
      FinishRollback, RollbackUnverified, Block, Command, ApplyBegin,
      ResumeForward, ResumeBack, Rollback, Enter, Inspect
<1>. QED
  BY <1>1, <1>5, <1>6 DEF vars

\* A human may spoil a member of a core, but neither adds nor removes one.
LEMMA CoreUntouched ==
  ASSUME TypeOK, Environment
  PROVE  \A r \in Release, m \in Member :
           core'[r][m] = "absent" <=> core[r][m] = "absent"
<1>1. CASE UNCHANGED core
  BY <1>1
<1>2. ASSUME NEW r \in Release, NEW m \in Member, TamperCore(r, m)
      PROVE  \A q \in Release, n \in Member :
               core'[q][n] = "absent" <=> core[q][n] = "absent"
  BY <1>2 DEF TamperCore, TypeOK
<1>. QED
  BY <1>1, <1>2
  DEF Environment, Crash, PrepareFault, ApplyFault, RollbackFault, Block,
      UserEdit, UserDelete, UserRevert, GodotEdit, Edited

\* Members appear when a core is published and disappear one by one when a
\* rollback removes it; nothing else creates or deletes one.
LEMMA CoreStep ==
  ASSUME TypeOK, [Next]_vars
  PROVE  \/ \A r \in Release, m \in Member :
              core'[r][m] = "absent" <=> core[r][m] = "absent"
         \/ StageCore
         \/ \E m \in Member : RemoveMember(m)
<1>1. CASE UNCHANGED core
  BY <1>1
<1>2. CASE ApplyStep \/ RollbackStep \/ Command
  BY <1>1, <1>2
  DEF ApplyStep, WriteBackup, BackupRefused, WriteJournal, JournalRefused,
      RecordCore, RecordApplying, WriteEntry, VerifyEntry, FinishApply, ApplyFails,
      RollbackStep, RollbackStart, RollbackRefused, SkipEntry, RestoreEntry,
      EntryConflict, RereadEntry, RereadFails, RemoveCore, RemoveCoreRefused,
      FinishRollback, RollbackUnverified, Block, Command, ApplyBegin,
      ResumeForward, ResumeBack, Rollback, Enter, Inspect
<1>. QED
  BY <1>1, <1>2, CoreUntouched DEF Next, vars

\* The journal in memory: a new plan, one read from disk, or the same plan on.
LEMMA MemStep ==
  ASSUME TypeOK, [Next]_vars
  PROVE  \/ SamePlan(mem', mem)
         \/ Leave
         \/ \E t \in Txn, r \in Release : ApplyBegin(t, r)
         \/ \E t \in Txn : pc = "idle" /\ Enter(t, "rb_check") /\ Live(t)
<1>0. mem \in Journal
  BY DEF TypeOK
<1>1. CASE UNCHANGED mem
  BY <1>1 DEF SamePlan
<1>2. CASE RecordCore
  BY <1>0, <1>2, SamePlanStaged DEF RecordCore, Record
<1>3. CASE RecordApplying \/ VerifyEntry
  BY <1>0, <1>3 DEF RecordApplying, VerifyEntry, Record, SamePlan, Journal
<1>4. CASE RollbackStart
  BY <1>0, <1>4 DEF RollbackStart, Record, SamePlan, Journal
<1>5. CASE ApplyFault
  BY <1>0, <1>1, <1>5, SamePlanStaged DEF ApplyFault
<1>6. CASE ApplyStep
  BY <1>1, <1>2, <1>3, <1>6
  DEF ApplyStep, WriteBackup, BackupRefused, WriteJournal, Record, JournalRefused,
      StageCore, WriteEntry, FinishApply, ApplyFails
<1>7. CASE RollbackStep
  BY <1>1, <1>4, <1>7
  DEF RollbackStep, RollbackRefused, SkipEntry, RestoreEntry, EntryConflict,
      RereadEntry, RereadFails, RemoveCore, RemoveCoreRefused, RemoveMember,
      FinishRollback, RollbackUnverified, Block
<1>8. CASE Command
  BY <1>1, <1>8
  DEF Command, ResumeForward, ResumeBack, Rollback, Inspect, process, Live
<1>9. CASE Environment
  BY <1>1, <1>5, <1>9
  DEF Environment, Crash, PrepareFault, RollbackFault, Block, UserEdit, UserDelete,
      UserRevert, GodotEdit, TamperCore, Edited, process
<1>. QED
  BY <1>1, <1>6, <1>7, <1>8, <1>9 DEF Next, vars

LEMMA UpgradesStep ==
  ASSUME TypeOK, WriteAhead, Agreed, Upgrades, [Next]_vars PROVE Upgrades'
<1>0. /\ mem \in Journal /\ journal \in [Txn -> Journal]
      /\ file \in [Path -> Content] /\ Current \in Path
  BY DEF TypeOK
<1>1. \E k \in {NoKit} \cup Release : file'[Current] = KitFile(k)
  <2>1. CASE WriteEntry(Current)
    <3>1. file'[Current] = mem.after[Current] /\ file[Current] = mem.before[Current]
      BY <1>0, <2>1 DEF WriteEntry
    <3>2. CASE Moves(mem)
      BY <3>1, <3>2 DEF Upgrades, Upgrade
    <3>3. CASE ~Moves(mem)
      BY <3>1, <3>3 DEF Upgrades, Moves
    <3>. QED
      BY <3>2, <3>3
  <2>2. CASE RestoreEntry(Current)
    <3>1. file'[Current] = mem.before[Current] /\ file[Current] = mem.after[Current]
      BY <1>0, <2>2 DEF RestoreEntry
    <3>2. CASE Moves(mem)
      BY <3>1, <3>2 DEF Upgrades, Upgrade
    <3>3. CASE ~Moves(mem)
      BY <3>1, <3>3 DEF Upgrades, Moves
    <3>. QED
      BY <3>2, <3>3
  <2>. QED
    BY <2>1, <2>2, CurrentStep DEF Upgrades
<1>2. Upgrade(mem')
  <2>1. CASE SamePlan(mem', mem)
    BY <2>1, SamePlanUpgrade DEF Upgrades
  <2>2. CASE Leave
    BY <2>2 DEF Leave, NoJournal, Upgrade, Moves
  <2>3. ASSUME NEW t \in Txn, NEW r \in Release, ApplyBegin(t, r)
        PROVE  Upgrade(mem')
    BY <2>3, PlanUpgrade DEF ApplyBegin, Upgrades
  <2>4. ASSUME NEW t \in Txn, Enter(t, "rb_check") PROVE Upgrade(mem')
    BY <2>4 DEF Enter, Upgrades
  <2>. QED
    BY <2>1, <2>2, <2>3, <2>4, MemStep
<1>3. ASSUME NEW t \in Txn PROVE Upgrade(journal'[t])
  <2>1. CASE WriteJournal
    BY <1>0, <2>1 DEF WriteJournal, Record, Upgrades
  <2>2. CASE ~WriteJournal
    BY <2>2, JournalStep, SamePlanUpgrade DEF Upgrades
  <2>. QED
    BY <2>1, <2>2
<1>. QED
  BY <1>1, <1>2, <1>3 DEF Upgrades

-----------------------------------------------------------------------------
(* The running process.                                                    *)

LEMMA LeaveRecovery ==
  ASSUME Leave PROVE Agreed' /\ Progress'
BY DEF Leave, Agreed, Progress, ApplySteps, RollbackSteps

\* The steps at which the process goes on with its journal as it is.
LEMMA AgreedGoesOn ==
  ASSUME Agreed, UNCHANGED <<tx, mem, journal>>,
         pc' \in ApplySteps => pc \in ApplySteps,
         pc' \in RollbackSteps => pc \in RollbackSteps,
         pc' = "rb_check" => pc = "rb_check" \/ journal[tx].state \in Forward,
         pc' \in {"idle", "backup", "backed"} <=> pc \in {"idle", "backup", "backed"},
         pc' \in {"backup", "backed"} => pc \in {"backup", "backed"}
  PROVE  Agreed'
BY DEF Agreed, SamePlan

LEMMA AgreedStep ==
  ASSUME TypeOK, WriteAhead, Agreed, [Next]_vars PROVE Agreed'
<1>0. mem \in Journal /\ journal \in [Txn -> Journal]
  BY DEF TypeOK
<1>1. CASE UNCHANGED <<process, journal>>
  BY <1>1 DEF Agreed, process, SamePlan
<1>2. CASE Leave
  BY <1>2, LeaveRecovery
<1>3. ASSUME NEW j, Record(j), SamePlan(j, mem), UNCHANGED tx, tx \in Txn,
             pc \in ApplySteps, pc' \in ApplySteps
      PROVE  Agreed'
  BY <1>0, <1>3 DEF Agreed, Record, SamePlan, ApplySteps, RollbackSteps
<1>4. CASE ApplyStep
  <2>1. CASE WriteBackup
    BY <2>1, AgreedGoesOn DEF WriteBackup, Goto, ApplySteps, RollbackSteps
  <2>2. CASE WriteJournal
    BY <1>0, <2>2 DEF WriteJournal, Record, Goto, WriteAhead, Agreed, SamePlan,
                      ApplySteps, RollbackSteps
  <2>3. CASE RecordCore
    BY <1>0, <1>3, <2>3, SamePlanStaged
    DEF RecordCore, Goto, WriteAhead, ApplySteps
  <2>4. CASE RecordApplying
    <3>1. SamePlan([mem EXCEPT !.state = "applying"], mem)
      BY <1>0, SamePlanUpdate
    <3>. QED
      BY <1>3, <2>4, <3>1 DEF RecordApplying, Goto, WriteAhead, ApplySteps
  <2>5. CASE VerifyEntry /\ cur = Current
    <3>1. SamePlan([mem EXCEPT !.state = "activated"], mem)
      BY <1>0, SamePlanUpdate
    <3>. QED
      BY <1>3, <2>5, <3>1 DEF VerifyEntry, Goto, WriteAhead, ApplySteps
  <2>6. CASE VerifyEntry /\ cur # Current
    BY <2>6, AgreedGoesOn DEF VerifyEntry, Goto, ApplySteps, RollbackSteps
  <2>7. CASE StageCore \/ \E p \in Path : WriteEntry(p)
    BY <2>7, AgreedGoesOn DEF StageCore, WriteEntry, Goto, ApplySteps, RollbackSteps
  <2>8. CASE ApplyFails
    BY <2>8, AgreedGoesOn DEF ApplyFails, Goto, WriteAhead, ApplySteps, RollbackSteps
  <2>. QED
    BY <1>2, <1>4, <2>1, <2>2, <2>3, <2>4, <2>5, <2>6, <2>7, <2>8
    DEF ApplyStep, BackupRefused, JournalRefused, FinishApply
<1>5. CASE RollbackStep
  <2>1. CASE RollbackStart
    <3>. DEFINE j == [mem EXCEPT !.state = "rolling_back", !.started = TRUE]
    <3>1. j.started
      BY <1>0 DEF Journal
    <3>2. Record(j) /\ tx' = tx /\ tx \in Txn /\ pc' = "rb_entries"
      BY <2>1 DEF RollbackStart, Goto, WriteAhead
    <3>. HIDE DEF j
    <3>. QED
      BY <1>0, <3>1, <3>2 DEF Record, Agreed, SamePlan, ApplySteps, RollbackSteps
  <2>2. CASE \/ \E p \in Path : SkipEntry(p) \/ RestoreEntry(p)
             \/ RereadEntry \/ RemoveCore \/ \E m \in Member : RemoveMember(m)
    BY <2>2, AgreedGoesOn
    DEF SkipEntry, RestoreEntry, RereadEntry, RemoveCore, RemoveMember, Goto,
        ApplySteps, RollbackSteps
  <2>. QED
    BY <1>2, <1>5, <2>1, <2>2
    DEF RollbackStep, RollbackRefused, EntryConflict, RereadFails,
        RemoveCoreRefused, FinishRollback, RollbackUnverified, Block
<1>6. CASE Command
  <2>1. ASSUME NEW t \in Txn, NEW r \in Release, ApplyBegin(t, r) PROVE Agreed'
    BY <2>1, PlanFields DEF ApplyBegin, Goto, Agreed, ApplySteps, RollbackSteps
  <2>2. ASSUME NEW t \in Txn, Enter(t, "rb_check") PROVE Agreed'
    BY <2>2 DEF Enter, Goto, Agreed, SamePlan, ApplySteps, RollbackSteps
  <2>3. ASSUME NEW t \in Txn, ResumeForward(t) PROVE Agreed'
    BY <2>3 DEF ResumeForward, process, Agreed, ApplySteps, RollbackSteps
  <2>. QED
    BY <1>1, <1>6, <2>1, <2>2, <2>3 DEF Command, ResumeBack, Rollback, Inspect
<1>7. CASE Environment
  <2>1. CASE ApplyFault
    <3>1. SamePlan(mem', mem) /\ journal' = journal /\ tx' = tx /\ pc' = "rb_check"
      BY <1>0, <2>1, SamePlanStaged DEF ApplyFault, Goto, SamePlan
    <3>2. journal[tx].state \in Forward /\ SamePlan(journal[tx], mem)
      BY <2>1 DEF ApplyFault, WriteAhead, Agreed
    <3>. QED
      BY <3>1, <3>2 DEF Agreed, SamePlan, ApplySteps, RollbackSteps
  <2>. QED
    BY <1>1, <1>2, <1>7, <2>1
    DEF Environment, Crash, PrepareFault, RollbackFault, Block,
        UserEdit, UserDelete, UserRevert, GodotEdit, TamperCore, Edited
<1>. QED
  BY <1>1, <1>4, <1>5, <1>6, <1>7 DEF Next, vars, process

\* What humans do around a step changes neither current.json nor which members of
\* a core there are, so the process is as far as it was.
LEMMA ProgressGoesOn ==
  ASSUME TypeOK, Agreed, Upgrades, Progress,
         UNCHANGED <<tx, mem, todo, cur, journal>>,
         file'[Current] = file[Current],
         \A r \in Release, m \in Member : core'[r][m] = "absent" <=> core[r][m] = "absent",
         pc' = pc \/ (pc' = "backed" /\ pc = "backup")
  PROVE  Progress'
<1>1. pc \in ApplySteps \/ (pc = "rb_verify" /\ mem.core # "reused") =>
        mem.rel \in Release
  BY DEF Agreed, Upgrades, Upgrade
<1>2. mem.rel \in Release => /\ Present(mem.rel) <=> Present(mem.rel)'
                             /\ Exists(mem.rel) <=> Exists(mem.rel)'
  BY DEF Present, Exists
<1>. QED
  BY <1>1, <1>2 DEF Progress, Moves, Open, ApplySteps, Present, Exists

LEMMA ProgressApply ==
  ASSUME TypeOK, WriteAhead, Agreed, Upgrades, Progress, ApplyStep PROVE Progress'
<1>0. /\ mem \in Journal /\ journal \in [Txn -> Journal] /\ Current \in Path
      /\ file \in [Path -> Content] /\ core \in [Release -> [Member -> MemberState]]
  BY DEF TypeOK
<1>1. CASE WriteBackup
  BY <1>1, ProgressGoesOn DEF WriteBackup, Goto
<1>2. CASE Leave
  BY <1>2, LeaveRecovery
<1>3. CASE WriteJournal
  BY <1>3 DEF WriteJournal, Goto, Progress, ApplySteps
<1>4. CASE StageCore
  <2>1. mem.rel \in Release
    BY <1>4 DEF StageCore, Agreed, ApplySteps
  <2>2. \A m \in Member : core'[mem.rel][m] = "good"
    BY <1>0, <1>4, <2>1 DEF StageCore
  <2>. QED
    BY <1>4, <2>2 DEF StageCore, Goto, Progress, Present
<1>5. CASE RecordCore
  BY <1>0, <1>5, SamePlanStaged
  DEF RecordCore, Record, Goto, Progress, Present, SamePlan, ApplySteps
<1>6. CASE RecordApplying
  <2>1. mem'.rel = mem.rel /\ mem'.before = mem.before /\ mem'.after = mem.after
    BY <1>0, <1>6 DEF RecordApplying, Record, Journal
  <2>2. pc = "core_staged" /\ pc' = "entries" /\ UNCHANGED <<core, file>>
        /\ todo' = Entries(mem)
    BY <1>6 DEF RecordApplying, Goto
  <2>3. Moves(mem) => Current \in todo'
    BY <2>2 DEF Entries, Moves
  <2>. QED
    BY <2>1, <2>2, <2>3 DEF Progress, Present, Moves, ApplySteps
<1>7. ASSUME NEW p \in Path, WriteEntry(p) PROVE Progress'
  BY <1>7 DEF WriteEntry, Goto, Progress, Present, ApplySteps
<1>8. CASE VerifyEntry
  <2>1. mem'.rel = mem.rel /\ mem'.before = mem.before /\ mem'.after = mem.after
    BY <1>0, <1>8 DEF VerifyEntry, Record, Journal
  <2>2. /\ pc = "verify" /\ pc' = "entries" /\ UNCHANGED <<core, file>>
        /\ todo' = todo \ {cur} /\ file[cur] = mem.after[cur]
    BY <1>8 DEF VerifyEntry, Goto
  <2>3. Moves(mem) /\ Current \notin todo' => file[Current] = mem.after[Current]
    BY <2>2 DEF Progress
  <2>4. Present(mem.rel)
    BY <2>2 DEF Progress, ApplySteps
  <2>. QED
    BY <2>1, <2>2, <2>3, <2>4 DEF Progress, Present, Moves
<1>9. CASE ApplyFails
  BY <1>9 DEF ApplyFails, Goto, Progress, ApplySteps
<1>. QED
  BY <1>1, <1>2, <1>3, <1>4, <1>5, <1>6, <1>7, <1>8, <1>9
  DEF ApplyStep, BackupRefused, JournalRefused, FinishApply

LEMMA ProgressRollback ==
  ASSUME TypeOK, WriteAhead, Agreed, Upgrades, Progress, RollbackStep PROVE Progress'
<1>0. /\ mem \in Journal /\ journal \in [Txn -> Journal] /\ Current \in Path
      /\ file \in [Path -> Content] /\ core \in [Release -> [Member -> MemberState]]
  BY DEF TypeOK
<1>1. CASE RollbackStart
  <2>1. mem'.before = mem.before /\ mem'.after = mem.after
    BY <1>0, <1>1 DEF RollbackStart, Record, Journal
  <2>2. pc' = "rb_entries" /\ UNCHANGED <<core, file, cur>> /\ todo' = Entries(mem)
    BY <1>1 DEF RollbackStart, Goto
  <2>3. Moves(mem) => Current \in todo'
    BY <2>2 DEF Entries, Moves
  <2>. QED
    BY <2>1, <2>2, <2>3 DEF Progress, Moves, ApplySteps
<1>2. CASE Leave
  BY <1>2, LeaveRecovery
<1>3. ASSUME NEW p \in Path, SkipEntry(p) PROVE Progress'
  BY <1>3 DEF SkipEntry, Progress, Moves, ApplySteps
<1>4. ASSUME NEW p \in Path, RestoreEntry(p) PROVE Progress'
  <2>1. /\ pc = "rb_entries" /\ pc' = "rb_reread" /\ UNCHANGED <<mem, todo>>
        /\ cur' = p /\ file' = [file EXCEPT ![p] = mem.before[p]]
    BY <1>4 DEF RestoreEntry, Goto
  <2>2. CASE p = Current
    BY <1>0, <2>1, <2>2 DEF Progress, Moves, ApplySteps
  <2>3. CASE p # Current
    BY <1>0, <2>1, <2>3 DEF Progress, Moves, ApplySteps
  <2>. QED
    BY <2>2, <2>3
<1>5. CASE RereadEntry
  BY <1>5 DEF RereadEntry, Goto, Progress, Moves, ApplySteps
<1>6. CASE RemoveCore
  BY <1>6 DEF RemoveCore, CoreToRemove, Exists, Goto, Progress, Moves, ApplySteps
<1>7. ASSUME NEW m \in Member, RemoveMember(m) PROVE Progress'
  <2>1. /\ pc = "rb_members" /\ UNCHANGED <<file, mem>> /\ mem.core # "reused"
        /\ core' = [core EXCEPT ![mem.rel][m] = "absent"]
        /\ pc' = IF \A n \in Member \ {m} : core[mem.rel][n] = "absent"
                 THEN "rb_verify" ELSE "rb_members"
    BY <1>7 DEF RemoveMember, Goto, Progress
  <2>2. mem.rel \in Release
    BY <2>1 DEF Upgrades, Upgrade
  <2>3. pc' = "rb_verify" => \A n \in Member : core'[mem.rel][n] = "absent"
    BY <1>0, <2>1, <2>2
  <2>. QED
    BY <2>1, <2>3 DEF Progress, Exists, Moves, ApplySteps
<1>. QED
  BY <1>1, <1>2, <1>3, <1>4, <1>5, <1>6, <1>7
  DEF RollbackStep, RollbackRefused, EntryConflict, RereadFails,
      RemoveCoreRefused, FinishRollback, RollbackUnverified, Block

LEMMA ProgressCommand ==
  ASSUME TypeOK, WriteAhead, Agreed, Upgrades, Progress, Command PROVE Progress'
<1>1. ASSUME NEW t \in Txn, NEW r \in Release, ApplyBegin(t, r) PROVE Progress'
  <2>1. mem'.before = file
    BY <1>1, PlanFields DEF ApplyBegin
  <2>. QED
    BY <1>1, <2>1 DEF ApplyBegin, Goto, Progress, Open, ApplySteps
<1>2. ASSUME NEW t \in Txn, Enter(t, "rb_check") PROVE Progress'
  BY <1>2 DEF Enter, Goto, Progress, ApplySteps
<1>3. CASE pc = "idle" /\ UNCHANGED process
  BY <1>3 DEF Progress, process, ApplySteps
<1>. QED
  BY <1>1, <1>2, <1>3 DEF Command, ResumeForward, ResumeBack, Rollback, Inspect

LEMMA ProgressEnvironment ==
  ASSUME TypeOK, WriteAhead, Agreed, Upgrades, Progress, Environment PROVE Progress'
<1>1. CASE Leave
  BY <1>1, LeaveRecovery
<1>2. CASE ApplyFault
  BY <1>2 DEF ApplyFault, Goto, Progress, ApplySteps
<1>3. CASE UNCHANGED <<process, journal>>
  <2>1. file'[Current] = file[Current]
    BY <1>3, CurrentStep DEF WriteEntry, RestoreEntry, Goto, process, Next
  <2>2. \A r \in Release, m \in Member : core'[r][m] = "absent" <=> core[r][m] = "absent"
    BY CoreUntouched
  <2>. QED
    BY <1>3, <2>1, <2>2, ProgressGoesOn DEF process
<1>. QED
  BY <1>1, <1>2, <1>3
  DEF Environment, Crash, PrepareFault, RollbackFault, Block,
      UserEdit, UserDelete, UserRevert, GodotEdit, TamperCore, Edited

LEMMA ProgressStep ==
  ASSUME TypeOK, WriteAhead, Agreed, Upgrades, Progress, [Next]_vars
  PROVE  Progress'
<1>1. CASE UNCHANGED vars
  BY <1>1 DEF vars, Progress, Open, Present, Exists, Moves
<1>. QED
  BY <1>1, ProgressApply, ProgressRollback, ProgressCommand, ProgressEnvironment
  DEF Next

-----------------------------------------------------------------------------
(* The order of changes, and the cores they need.                          *)

\* What the step that writes or restores current.json knows.
LEMMA WriteCurrent ==
  ASSUME TypeOK, WriteAhead, Agreed, Upgrades, WriteEntry(Current)
  PROVE  /\ tx \in Txn /\ journal[tx].state \in Forward /\ SamePlan(journal[tx], mem)
         /\ Moves(mem) => Selected = Back(mem) /\ Selected' = mem.rel
         /\ ~Moves(mem) => Selected' = Selected
<1>1. /\ pc = "entries" /\ file[Current] = mem.before[Current]
      /\ file'[Current] = mem.after[Current]
  BY DEF WriteEntry, TypeOK
<1>2. /\ tx \in Txn /\ journal[tx].state \in Forward /\ SamePlan(journal[tx], mem)
  BY <1>1 DEF WriteAhead, Agreed
<1>. QED
  BY <1>1, <1>2 DEF Moves, Back, Selected, Upgrades, Upgrade, KitFile

LEMMA RestoreCurrent ==
  ASSUME TypeOK, WriteAhead, Agreed, Upgrades, RestoreEntry(Current)
  PROVE  /\ tx \in Txn /\ journal[tx].state = "rolling_back" /\ SamePlan(journal[tx], mem)
         /\ Moves(mem) => Selected = mem.rel /\ Selected' = Back(mem)
         /\ ~Moves(mem) => Selected' = Selected
<1>1. /\ pc = "rb_entries" /\ file[Current] = mem.after[Current]
      /\ file'[Current] = mem.before[Current]
  BY DEF RestoreEntry, TypeOK
<1>2. /\ tx \in Txn /\ journal[tx].state = "rolling_back" /\ SamePlan(journal[tx], mem)
  BY <1>1 DEF WriteAhead, Agreed
<1>. QED
  BY <1>1, <1>2 DEF Moves, Back, Selected, Upgrades, Upgrade, KitFile

\* A removal starts when current.json is back at an older release.
LEMMA RemovesUnselected ==
  ASSUME TypeOK, Upgrades, Progress, NEW m \in Member, RemoveMember(m)
  PROVE  /\ mem.rel \in Release /\ Selected < mem.rel
         /\ \A r \in Release \ {mem.rel} : Present(r) => Present(r)'
         /\ \A r \in Release \ {mem.rel} : core'[r] = core[r]
         /\ UNCHANGED <<file, journal>>
<1>1. pc = "rb_members" /\ core' = [core EXCEPT ![mem.rel][m] = "absent"]
      /\ UNCHANGED <<file, journal>>
  BY DEF RemoveMember
<1>2. /\ mem.core # "reused"
      /\ Moves(mem) => file[Current] = mem.before[Current]
  BY <1>1 DEF Progress
<1>3. mem.rel \in Release /\ Back(mem) < mem.rel /\ Moves(mem)
  <2>1. mem.rel \in Release /\ mem.after[Current] = KitFile(mem.rel)
    BY <1>2 DEF Upgrades, Upgrade
  <2>2. PICK k \in {NoKit} \cup Release :
          k < mem.rel /\ mem.before[Current] = KitFile(k)
    BY <1>2 DEF Upgrades, Upgrade
  <2>3. k # mem.rel
    BY <2>1, <2>2 DEF NoKit
  <2>. QED
    BY <2>1, <2>2, <2>3 DEF Moves, Back, KitFile
<1>4. \A r \in Release \ {mem.rel} : core'[r] = core[r]
  BY <1>1 DEF TypeOK
<1>5. Selected < mem.rel
  BY <1>2, <1>3 DEF Selected, Back
<1>. QED
  BY <1>1, <1>3, <1>4, <1>5 DEF Present

LEMMA BackBelow ==
  ASSUME Upgrades
  PROVE  /\ Selected \in {NoKit} \cup Release
         /\ Moves(mem) => /\ mem.rel \in Release /\ Back(mem) < mem.rel
                          /\ Back(mem) \in {NoKit} \cup Release
         /\ \A t \in Txn : Moves(journal[t]) =>
              /\ journal[t].rel \in Release /\ Back(journal[t]) < journal[t].rel
              /\ Back(journal[t]) \in {NoKit} \cup Release
<1>1. ASSUME NEW j, Upgrade(j), Moves(j)
      PROVE  /\ j.rel \in Release /\ Back(j) < j.rel
             /\ Back(j) \in {NoKit} \cup Release
  <2>1. j.rel \in Release
    BY <1>1 DEF Upgrade
  <2>2. PICK k \in {NoKit} \cup Release : k < j.rel /\ j.before[Current] = KitFile(k)
    BY <1>1 DEF Upgrade
  <2>. QED
    BY <2>1, <2>2 DEF Back, KitFile
<1>2. Selected \in {NoKit} \cup Release
  BY DEF Upgrades, Selected, KitFile
<1>3. Upgrade(mem) /\ \A t \in Txn : Upgrade(journal[t])
  BY DEF Upgrades
<1>. QED
  BY <1>1, <1>2, <1>3

\* The transaction whose journal is written first is above all that are in force.
LEMMA FirstRecord ==
  ASSUME TypeOK, WriteAhead, Upgrades, Progress, Ordered, WriteJournal
  PROVE  /\ tx \in Txn /\ ~Live(tx) /\ journal' = [journal EXCEPT ![tx] = mem]
         /\ mem.state = "prepared" /\ Back(mem) = Selected
         /\ \A t \in Txn : Live(t) => journal[t].state = "applied"
         /\ UNCHANGED <<file, core>>
<1>1. pc = "backed"
  BY DEF WriteJournal
<1>2. /\ tx \in Txn /\ ~Live(tx) /\ mem.state = "prepared"
  BY <1>1 DEF WriteAhead, Live
<1>3. Back(mem) = Selected /\ \A t \in Txn : Live(t) => journal[t].state = "applied"
  BY <1>1 DEF Progress, Back, Selected, Live, Open, Terminal
<1>. QED
  BY <1>2, <1>3 DEF WriteJournal, Record

LEMMA ChangesOrderedStep ==
  ASSUME TypeOK, WriteAhead, Agreed, Upgrades, Progress, Ordered, [Next]_vars
  PROVE  ChangesOrdered'
<1>0. mem \in Journal /\ journal \in [Txn -> Journal]
  BY DEF TypeOK
<1>1. CASE WriteJournal
  <2>. SUFFICES ASSUME NEW t \in Txn, NEW u \in Txn, t # u, Live(t)', Live(u)',
                       Moves(journal'[t]), Moves(journal'[u])
                PROVE  Disjoint(journal'[t], journal'[u])
    BY DEF ChangesOrdered, Moves, Disjoint, Back
  <2>1. ASSUME NEW v \in Txn, v # tx, Live(v)', Moves(journal'[v]), Moves(mem)
        PROVE  journal'[v].rel <= Back(mem)
    BY <1>0, <1>1, <2>1, FirstRecord DEF Ordered, AppliedBelow, Live
  <2>2. journal'[tx] = mem
    BY <1>0, <1>1, FirstRecord
  <2>3. CASE t = tx
    BY <2>1, <2>2, <2>3 DEF Disjoint
  <2>4. CASE u = tx
    BY <2>1, <2>2, <2>4 DEF Disjoint
  <2>5. CASE t # tx /\ u # tx
    BY <1>0, <1>1, <2>5, FirstRecord DEF Ordered, ChangesOrdered, Live
  <2>. QED
    BY <2>3, <2>4, <2>5
<1>2. CASE ~WriteJournal
  <2>1. \A t \in Txn : SamePlan(journal'[t], journal[t]) /\ (Live(t)' => Live(t))
    BY <1>2, JournalStep
  <2>. QED
    BY <2>1 DEF Ordered, ChangesOrdered, SamePlan, Moves, Back, Disjoint
<1>. QED
  BY <1>1, <1>2

LEMMA AppliedBelowStep ==
  ASSUME TypeOK, WriteAhead, Agreed, Upgrades, Progress, Ordered, [Next]_vars
  PROVE  AppliedBelow'
<1>. SUFFICES ASSUME NEW t \in Txn, journal'[t].state = "applied", Moves(journal'[t])
              PROVE  journal'[t].rel <= Selected'
  BY DEF AppliedBelow, Moves, Selected
<1>0. mem \in Journal /\ journal \in [Txn -> Journal]
  BY DEF TypeOK
<1>1. CASE WriteJournal
  BY <1>0, <1>1, FirstRecord DEF Ordered, AppliedBelow, Selected
<1>2. CASE ~WriteJournal
  <2>1. /\ SamePlan(journal'[t], journal[t]) /\ Moves(journal[t])
        /\ journal[t].state = "applied" \/ Applies(t)
    BY <1>2, JournalStep DEF SamePlan, Moves
  <2>2. CASE FinishApply /\ t = tx
    <3>1. /\ file[Current] = mem.after[Current] /\ UNCHANGED file
          /\ SamePlan(journal[t], mem)
      BY <2>1, <2>2 DEF FinishApply, Progress, Agreed, SamePlan, Moves
    <3>2. file[Current] = KitFile(journal[t].rel) /\ journal[t].rel \in Release
      BY <2>1, <3>1 DEF Upgrades, Upgrade, SamePlan
    <3>. QED
      BY <2>1, <3>1, <3>2 DEF SamePlan, Selected, KitFile
  <2>3. CASE ResumeForward(t)
    <3>1. file[Current] = journal[t].after[Current] /\ UNCHANGED file
      BY <2>1, <2>3 DEF ResumeForward, Complete, Entries, Moves
    <3>2. file[Current] = KitFile(journal[t].rel) /\ journal[t].rel \in Release
      BY <2>1, <3>1 DEF Upgrades, Upgrade
    <3>. QED
      BY <2>1, <3>1, <3>2 DEF SamePlan, Selected, KitFile
  <2>4. CASE journal[t].state = "applied"
    <3>1. journal[t].rel <= Selected
      BY <2>1, <2>4 DEF Ordered, AppliedBelow
    <3>2. CASE WriteEntry(Current)
      BY <2>1, <3>1, <3>2, WriteCurrent, BackBelow DEF SamePlan, NoKit
    <3>3. CASE RestoreEntry(Current) /\ Moves(mem)
      <4>1. /\ tx \in Txn /\ tx # t /\ Live(tx) /\ Live(t) /\ SamePlan(journal[tx], mem)
            /\ Moves(journal[tx])
        BY <2>4, <3>3, RestoreCurrent DEF Live, SamePlan, Moves
      <4>2. journal[t].rel <= Back(mem) \/ mem.rel <= Back(journal[t])
        BY <2>1, <4>1 DEF Ordered, ChangesOrdered, Disjoint, SamePlan, Back
      <4>. QED
        BY <2>1, <3>1, <3>3, <4>2, RestoreCurrent, BackBelow DEF SamePlan, NoKit
    <3>4. CASE RestoreEntry(Current) /\ ~Moves(mem)
      BY <2>1, <3>1, <3>4, RestoreCurrent DEF SamePlan
    <3>5. CASE file'[Current] = file[Current]
      BY <2>1, <3>1, <3>5 DEF SamePlan, Selected
    <3>. QED
      BY <3>2, <3>3, <3>4, <3>5, CurrentStep
  <2>. QED
    BY <2>1, <2>2, <2>3, <2>4 DEF Applies
<1>. QED
  BY <1>1, <1>2

LEMMA SelectedStep ==
  ASSUME TypeOK, WriteAhead, Agreed, Upgrades, Progress, Ordered,
         SelectedCorePresent, [Next]_vars
  PROVE  SelectedCorePresent'
<1>. SUFFICES ASSUME NEW r \in Release, r = Selected'
              PROVE  \A m \in Member : core'[r][m] # "absent"
  BY DEF SelectedCorePresent, Selected
<1>0. Selected = r => Present(r)
  BY DEF SelectedCorePresent, Present
<1>1. CASE WriteEntry(Current)
  <2>1. core' = core /\ Present(mem.rel)
    BY <1>1 DEF WriteEntry, Progress, ApplySteps
  <2>. QED
    BY <1>0, <1>1, <2>1, WriteCurrent DEF Present
<1>2. CASE RestoreEntry(Current)
  <2>1. core' = core
    BY <1>2 DEF RestoreEntry
  <2>2. CASE Moves(mem)
    <3>1. /\ tx \in Txn /\ Live(tx) /\ Moves(journal[tx])
          /\ journal[tx].rel = Selected /\ Back(journal[tx]) = r
      BY <1>2, <2>2, RestoreCurrent DEF Live, SamePlan, Moves, Back
    <3>2. Selected <= Selected
      BY BackBelow DEF NoKit
    <3>. QED
      BY <2>1, <3>1, <3>2 DEF Ordered, BackPresent, Present
  <2>3. CASE ~Moves(mem)
    BY <1>0, <1>2, <2>1, <2>3, RestoreCurrent DEF Present
  <2>. QED
    BY <2>2, <2>3
<1>3. CASE file'[Current] = file[Current]
  <2>1. Present(r) /\ Selected = r
    BY <1>0, <1>3 DEF Selected
  <2>2. CASE StageCore
    BY <2>1, <2>2 DEF StageCore, Present, TypeOK
  <2>3. ASSUME NEW m \in Member, RemoveMember(m)
        PROVE  \A n \in Member : core'[r][n] # "absent"
    <3>1. mem.rel \in Release /\ Selected < mem.rel
      BY <2>3, RemovesUnselected
    <3>2. r # mem.rel
      BY <2>1, <3>1
    <3>. QED
      BY <2>1, <2>3, <3>2, RemovesUnselected DEF Present
  <2>4. CASE \A q \in Release, m \in Member :
               core'[q][m] = "absent" <=> core[q][m] = "absent"
    BY <2>1, <2>4 DEF Present
  <2>. QED
    BY <2>2, <2>3, <2>4, CoreStep
<1>. QED
  BY <1>1, <1>2, <1>3, CurrentStep

\* What a rollback would go back to stays there: a removal takes away a release
\* that no change at or below the selected one goes back to.
LEMMA BackPresentStep ==
  ASSUME TypeOK, WriteAhead, Agreed, Upgrades, Progress, Ordered,
         SelectedCorePresent, [Next]_vars
  PROVE  BackPresent'
<1>. SUFFICES ASSUME NEW t \in Txn, Live(t)', Moves(journal'[t]),
                     journal'[t].rel <= Selected',
                     NEW r \in Release, r = Back(journal'[t])
              PROVE  \A m \in Member : core'[r][m] # "absent"
  BY DEF BackPresent, Moves, Selected, Back, Present
<1>0. mem \in Journal /\ journal \in [Txn -> Journal]
  BY DEF TypeOK
<1>1. CASE WriteJournal
  <2>1. CASE t = tx
    <3>1. journal'[t] = mem /\ Selected' = Selected /\ r = Selected /\ Moves(mem)
      BY <1>0, <1>1, <2>1, FirstRecord DEF Selected
    <3>2. Selected < mem.rel /\ mem.rel <= Selected /\ mem.rel \in Release
      BY <1>1, <3>1, FirstRecord, BackBelow
    <3>. QED
      BY <3>1, <3>2
  <2>2. CASE t # tx
    BY <1>0, <1>1, <2>2, FirstRecord DEF Ordered, BackPresent, Present, Live, Selected
  <2>. QED
    BY <2>1, <2>2
<1>2. CASE ~WriteJournal
  <2>1. /\ Live(t) /\ Moves(journal[t]) /\ r = Back(journal[t])
        /\ journal[t].rel = journal'[t].rel
    BY <1>2, JournalStep DEF SamePlan, Moves, Back
  <2>2. /\ journal[t].rel \in Release /\ r < journal[t].rel
        /\ Selected \in {NoKit} \cup Release
    BY <2>1, BackBelow
  <2>3. journal[t].rel <= Selected => Present(r)
    BY <2>1 DEF Ordered, BackPresent
  <2>4. CASE WriteEntry(Current) /\ Moves(mem)
    <3>1. /\ tx \in Txn /\ Live(tx) /\ SamePlan(journal[tx], mem) /\ Moves(journal[tx])
          /\ Selected = Back(mem) /\ Selected' = mem.rel /\ core' = core
      BY <2>4, WriteCurrent DEF Live, SamePlan, Moves, WriteEntry, Forward
    <3>2. CASE t = tx
      <4>1. r = Selected
        BY <2>1, <3>1, <3>2 DEF SamePlan, Back
      <4>. QED
        BY <3>1, <4>1 DEF SelectedCorePresent
    <3>3. CASE t # tx
      <4>1. journal[t].rel <= Back(mem) \/ mem.rel <= r
        BY <2>1, <3>1, <3>3 DEF Ordered, ChangesOrdered, Disjoint, SamePlan, Back
      <4>2. mem.rel \in Release /\ Back(mem) \in {NoKit} \cup Release
        BY <2>4, BackBelow
      <4>3. journal[t].rel <= mem.rel
        BY <2>1, <3>1
      <4>4. journal[t].rel <= Selected
        BY <2>2, <3>1, <4>1, <4>2, <4>3
      <4>. QED
        BY <2>3, <3>1, <4>4 DEF Present
    <3>. QED
      BY <3>2, <3>3
  <2>5. CASE WriteEntry(Current) /\ ~Moves(mem)
    BY <2>1, <2>3, <2>5, WriteCurrent DEF Present, WriteEntry
  <2>6. CASE RestoreEntry(Current)
    <3>1. core' = core /\ Selected' <= Selected
      BY <2>2, <2>6, RestoreCurrent, BackBelow DEF RestoreEntry, NoKit
    <3>2. Selected' \in {NoKit} \cup Release
      BY <2>2, <2>6, RestoreCurrent, BackBelow
    <3>3. journal[t].rel <= Selected
      BY <2>1, <2>2, <3>1, <3>2 DEF NoKit
    <3>. QED
      BY <2>3, <3>1, <3>3 DEF Present
  <2>7. CASE file'[Current] = file[Current]
    <3>1. Present(r) /\ Selected' = Selected /\ journal[t].rel <= Selected
      BY <2>1, <2>3, <2>7 DEF Selected
    <3>2. CASE StageCore
      BY <3>1, <3>2 DEF StageCore, Present, TypeOK
    <3>3. ASSUME NEW m \in Member, RemoveMember(m)
          PROVE  \A n \in Member : core'[r][n] # "absent"
      <4>1. mem.rel \in Release /\ Selected < mem.rel
        BY <3>3, RemovesUnselected
      <4>2. r # mem.rel
        BY <2>2, <3>1, <4>1 DEF NoKit
      <4>. QED
        BY <3>1, <3>3, <4>2, RemovesUnselected DEF Present
    <3>4. CASE \A q \in Release, m \in Member :
                 core'[q][m] = "absent" <=> core[q][m] = "absent"
      BY <3>1, <3>4 DEF Present
    <3>. QED
      BY <3>2, <3>3, <3>4, CoreStep
  <2>. QED
    BY <2>4, <2>5, <2>6, <2>7, CurrentStep
<1>. QED
  BY <1>1, <1>2

LEMMA OrderedStep ==
  ASSUME TypeOK, WriteAhead, Agreed, Upgrades, Progress, Ordered,
         SelectedCorePresent, [Next]_vars
  PROVE  Ordered'
BY ChangesOrderedStep, AppliedBelowStep, BackPresentStep DEF Ordered

-----------------------------------------------------------------------------
(* The theorems                                                            *)

LEMMA RecoverableInit == Init => Upgrades /\ Agreed /\ Progress /\ Ordered
<1>. SUFFICES ASSUME Init PROVE Upgrades /\ Agreed /\ Progress /\ Ordered
  OBVIOUS
<1>1. pc = "idle" /\ mem = NoJournal /\ \A t \in Txn : journal[t] = NoJournal
  BY DEF Init
<1>2. \E k \in {NoKit} \cup Release : file[Current] = KitFile(k)
  <2>1. Absent = KitFile(NoKit)
    BY DEF Absent, KitFile
  <2>. QED
    BY <2>1, PathAssumption DEF Init, Legacy, Project
<1>3. Upgrade(NoJournal)
  BY DEF Upgrade, NoJournal, Moves
<1>4. Upgrades
  BY <1>1, <1>2, <1>3 DEF Upgrades
<1>5. Agreed /\ Progress
  BY <1>1 DEF Agreed, Progress, ApplySteps, RollbackSteps
<1>6. NoJournal.state = "none"
  BY DEF NoJournal
<1>7. Ordered
  BY <1>1, <1>6 DEF Ordered, ChangesOrdered, AppliedBelow, BackPresent, Live
<1>. QED
  BY <1>4, <1>5, <1>7

LEMMA SelectedInit == Init => SelectedCorePresent
<1>. SUFFICES ASSUME Init, NEW r \in Release, r = Selected, NEW m \in Member
              PROVE  core[r][m] # "absent"
  BY DEF SelectedCorePresent
<1>1. PICK k \in {NoKit, Legacy} \cup Release, also \in SUBSET Release :
        /\ file = [p \in Path |->
             IF \/ p \in Project \ Retired /\ k # NoKit
                \/ p \in Retired /\ k = Legacy
                \/ p = Current /\ k \in Release
             THEN IF p \in Inside /\ k = Legacy THEN Absent ELSE KitFile(k)
             ELSE Absent]
        /\ core = [q \in Release |-> [n \in Member |->
                     IF q = k \/ q \in also THEN "good" ELSE "absent"]]
  BY DEF Init
<1>2. file[Current] = IF k \in Release /\ ~(Current \in Inside /\ k = Legacy)
                      THEN KitFile(k) ELSE Absent
  BY <1>1, PathAssumption DEF Project
<1>3. k = r
  BY <1>2 DEF Selected, KitFile, Absent, NoKit
<1>. QED
  BY <1>1, <1>3

Recoverable == /\ Upgrades /\ Agreed /\ Progress /\ Ordered
               /\ SelectedCorePresent

LEMMA RecoverableHolds == Spec => []Recoverable
<1>1. Init => Recoverable
  BY RecoverableInit, SelectedInit DEF Recoverable
<1>2. TypeOK /\ WriteAhead /\ Recoverable /\ [Next]_vars => Recoverable'
  BY UpgradesStep, AgreedStep, ProgressStep, OrderedStep, SelectedStep
  DEF Recoverable
<1>. QED
  BY <1>1, <1>2, Typing, WriteAheadHolds, PTL DEF Spec

\* Whatever crashes, fails or is rolled back in whichever order, the release that
\* current.json names always has every file of its core on disk: the launcher
\* never starts from a half-removed kit.
THEOREM SelectedCoreIsPresent == Spec => []SelectedCorePresent
BY RecoverableHolds, PTL DEF Recoverable

-----------------------------------------------------------------------------
(* A half-removed core is known to a journal.                              *)

OwnsRemoval(t, r) ==
  /\ journal[t].rel = r
  /\ journal[t].core # "reused"
  /\ journal[t].started
  /\ journal[t].state \in {"rolling_back", "blocked"}

\* The journal that owns a removal keeps it until the rollback is finished.
LEMMA OwnerStep ==
  ASSUME TypeOK, WriteAhead, Agreed, [Next]_vars,
         NEW t \in Txn, NEW r \in Release, OwnsRemoval(t, r)
  PROVE  \/ OwnsRemoval(t, r)'
         \/ FinishRollback /\ t = tx
<1>0. mem \in Journal /\ journal \in [Txn -> Journal]
  BY DEF TypeOK
<1>1. CASE journal'[t] = journal[t]
  BY <1>1 DEF OwnsRemoval
<1>2. ASSUME NEW j, journal' = [journal EXCEPT ![tx] = j],
             journal[tx].state \in Forward \cup {"none"}
      PROVE  OwnsRemoval(t, r)'
  BY <1>0, <1>1, <1>2 DEF OwnsRemoval, Forward
<1>3. ASSUME NEW j, journal' = [journal EXCEPT ![tx] = j],
             pc \in {"rb_check"} \cup RollbackSteps,
             SamePlan(j, mem), j.started \/ j.started = mem.started,
             j.state \in {"rolling_back", "blocked"}
      PROVE  OwnsRemoval(t, r)'
  <2>1. journal[tx] = mem \/ journal[tx].state \in Forward
    BY <1>3 DEF Agreed, RollbackSteps
  <2>2. CASE t = tx
    BY <1>0, <1>3, <2>1, <2>2 DEF OwnsRemoval, SamePlan, Forward
  <2>3. CASE t # tx
    BY <1>0, <1>1, <1>3, <2>3
  <2>. QED
    BY <2>2, <2>3
<1>4. ASSUME NEW code, Block(code), pc \in {"rb_check"} \cup RollbackSteps
      PROVE  OwnsRemoval(t, r)'
  <2>. DEFINE j == [mem EXCEPT !.state = "blocked", !.failure = code]
  <2>1. SamePlan(j, mem) /\ j.state = "blocked" /\ j.started = mem.started
    BY <1>0 DEF SamePlan, Journal
  <2>2. UNCHANGED journal \/ journal' = [journal EXCEPT ![tx] = j]
    BY <1>4 DEF Block
  <2>. HIDE DEF j
  <2>3. CASE journal' = [journal EXCEPT ![tx] = j]
    BY <1>3, <1>4, <2>1, <2>3
  <2>4. CASE UNCHANGED journal
    BY <2>4 DEF OwnsRemoval
  <2>. QED
    BY <2>2, <2>3, <2>4
<1>5. CASE RollbackStart
  <2>. DEFINE j == [mem EXCEPT !.state = "rolling_back", !.started = TRUE]
  <2>1. SamePlan(j, mem) /\ j.state = "rolling_back" /\ j.started
    BY <1>0 DEF SamePlan, Journal
  <2>2. journal' = [journal EXCEPT ![tx] = j] /\ pc = "rb_check"
    BY <1>5 DEF RollbackStart, Record
  <2>. HIDE DEF j
  <2>. QED
    BY <1>3, <2>1, <2>2
<1>6. CASE FinishRollback
  <2>1. \E j : journal' = [journal EXCEPT ![tx] = j]
    BY <1>6 DEF FinishRollback
  <2>. QED
    BY <1>0, <1>1, <1>6, <2>1
<1>7. CASE ApplyStep
  <2>1. \/ UNCHANGED journal
        \/ /\ pc \in ApplySteps \cup {"backed"}
           /\ \E j : journal' = [journal EXCEPT ![tx] = j]
    BY <1>7
    DEF ApplyStep, WriteBackup, BackupRefused, WriteJournal, JournalRefused,
        StageCore, RecordCore, RecordApplying, WriteEntry, VerifyEntry,
        FinishApply, ApplyFails, Record, ApplySteps
  <2>. QED
    BY <1>1, <1>2, <2>1 DEF WriteAhead, ApplySteps
<1>8. CASE RollbackStep
  BY <1>1, <1>4, <1>5, <1>6, <1>8
  DEF RollbackStep, RollbackRefused, SkipEntry, RestoreEntry, EntryConflict,
      RereadEntry, RereadFails, RemoveCore, RemoveCoreRefused, RemoveMember,
      RollbackUnverified, RollbackSteps
<1>9. CASE Command
  <2>1. ASSUME NEW u \in Txn, ResumeForward(u) PROVE journal'[t] = journal[t]
    BY <1>0, <2>1 DEF ResumeForward, OwnsRemoval
  <2>. QED
    BY <1>1, <1>9, <2>1
    DEF Command, ApplyBegin, ResumeBack, Rollback, Enter, Inspect
<1>10. CASE Environment
  BY <1>1, <1>4, <1>10
  DEF Environment, Crash, PrepareFault, ApplyFault, RollbackFault,
      UserEdit, UserDelete, UserRevert, GodotEdit, TamperCore, Edited, RollbackSteps
<1>. QED
  BY <1>1, <1>7, <1>8, <1>9, <1>10 DEF Next, vars

LEMMA PartialStep ==
  ASSUME TypeOK, WriteAhead, Recoverable, PartialCoreOwned, [Next]_vars
  PROVE  PartialCoreOwned'
<1>. SUFFICES ASSUME NEW r \in Release, NEW m \in Member, core'[r][m] = "absent",
                     NEW n \in Member, core'[r][n] # "absent"
              PROVE  \E t \in Txn : OwnsRemoval(t, r)'
  BY DEF PartialCoreOwned, Exists, OwnsRemoval
<1>0. /\ journal \in [Txn -> Journal] /\ core \in [Release -> [Member -> MemberState]]
      /\ Agreed /\ Progress /\ Upgrades
  BY DEF TypeOK, Recoverable
<1>1. ASSUME core[r][m] = "absent", core[r][n] # "absent", ~FinishRollback
      PROVE  \E t \in Txn : OwnsRemoval(t, r)'
  <2>1. PICK t \in Txn : OwnsRemoval(t, r)
    BY <1>1 DEF PartialCoreOwned, Exists, OwnsRemoval
  <2>. QED
    BY <1>0, <1>1, <2>1, OwnerStep
<1>2. CASE StageCore
  <2>1. mem.rel \in Release /\ core' = [core EXCEPT ![mem.rel] = [q \in Member |-> "good"]]
    BY <1>0, <1>2 DEF StageCore, Agreed, ApplySteps
  <2>2. r # mem.rel
    BY <1>0, <2>1
  <2>. QED
    BY <1>0, <1>1, <1>2, <2>1, <2>2 DEF StageCore, FinishRollback
<1>3. ASSUME NEW q \in Member, RemoveMember(q) PROVE \E t \in Txn : OwnsRemoval(t, r)'
  <2>1. /\ pc = "rb_members" /\ UNCHANGED journal /\ tx \in Txn /\ mem.core # "reused"
        /\ core' = [core EXCEPT ![mem.rel][q] = "absent"]
    BY <1>0, <1>3 DEF RemoveMember, WriteAhead, Progress
  <2>2. journal[tx] = mem /\ mem.started /\ journal[tx].state = "rolling_back"
    BY <1>0, <2>1 DEF Agreed, WriteAhead, RollbackSteps
  <2>3. CASE r = mem.rel
    BY <2>1, <2>2, <2>3 DEF OwnsRemoval
  <2>4. CASE r # mem.rel
    BY <1>0, <1>1, <2>1, <2>4 DEF FinishRollback
  <2>. QED
    BY <2>3, <2>4
<1>4. CASE \A q \in Release, k \in Member :
             core'[q][k] = "absent" <=> core[q][k] = "absent"
  <2>1. core[r][m] = "absent" /\ core[r][n] # "absent"
    BY <1>4
  <2>2. CASE FinishRollback
    <3>1. PICK t \in Txn : OwnsRemoval(t, r)
      BY <2>1 DEF PartialCoreOwned, Exists, OwnsRemoval
    <3>2. t # tx
      <4>1. pc = "rb_verify"
        BY <2>2 DEF FinishRollback
      <4>2. journal[tx] = mem /\ (mem.core # "reused" => ~Exists(mem.rel))
        BY <1>0, <4>1 DEF Agreed, Progress, RollbackSteps
      <4>. QED
        BY <2>1, <3>1, <4>2 DEF OwnsRemoval, Exists
    <3>. QED
      BY <1>0, <3>1, <3>2, OwnerStep
  <2>. QED
    BY <1>1, <2>1, <2>2
<1>. QED
  BY <1>2, <1>3, <1>4, CoreStep

\* A core that lacks some of its members is always the unfinished removal of a
\* rollback whose journal says that it started, so that the next rollback accepts
\* the missing members and takes it up again.
THEOREM PartialCoreIsOwned == Spec => []PartialCoreOwned
<1>1. Init => PartialCoreOwned
  BY DEF Init, PartialCoreOwned, Exists
<1>2. TypeOK /\ WriteAhead /\ Recoverable /\ PartialCoreOwned /\ [Next]_vars
        => PartialCoreOwned'
  BY PartialStep
<1>. QED
  BY <1>1, <1>2, Typing, WriteAheadHolds, RecoverableHolds, PTL DEF Spec

\* A rollback is reported finished only when nothing is left of the core that its
\* change created and current.json is back at an older release.
THEOREM RollbackLeavesNoCore == Spec => RollbackRemovesCore
<1>1. ASSUME TypeOK, WriteAhead, Recoverable, [Next]_vars, NEW t \in Txn,
             journal[t].state # "rolled_back", journal'[t].state = "rolled_back",
             journal'[t].core # "reused"
      PROVE  /\ \A m \in Member : core'[journal'[t].rel][m] = "absent"
             /\ file'[Current].kit # journal'[t].rel
  <2>0. /\ mem \in Journal /\ journal \in [Txn -> Journal]
        /\ Agreed /\ Progress /\ Upgrades
    BY <1>1 DEF TypeOK, Recoverable
  <2>1. FinishRollback /\ t = tx
    <3>1. CASE WriteJournal
      <4>1. mem.state = "prepared"
        BY <1>1, <3>1 DEF WriteJournal, WriteAhead
      <4>. QED
        BY <1>1, <2>0, <3>1, <4>1 DEF WriteJournal, Record
    <3>. QED
      BY <1>1, <2>0, <3>1, JournalStep
  <2>2. /\ SamePlan(journal'[t], mem) /\ UNCHANGED <<file, core>> /\ pc = "rb_verify"
        /\ \A p \in Entries(mem) : file[p] = mem.before[p]
    <3>1. WriteAhead /\ ~WriteJournal /\ pc = "rb_verify"
      BY <1>1, <2>1 DEF FinishRollback, WriteJournal
    <3>2. SamePlan(journal'[t], journal[t])
      BY <1>1, <2>0, <3>1, JournalStep
    <3>. QED
      BY <2>0, <2>1, <3>1, <3>2 DEF FinishRollback, Agreed, SamePlan
  <2>3. mem.core # "reused" /\ journal'[t].rel = mem.rel /\ ~Exists(mem.rel)
    BY <1>1, <2>0, <2>2 DEF SamePlan, Progress
  <2>4. Moves(mem) => file[Current] = mem.before[Current]
    BY <2>0, <2>2 DEF Progress
  <2>5. PICK k \in {NoKit} \cup Release :
          k < mem.rel /\ mem.before[Current] = KitFile(k)
    BY <2>0, <2>3 DEF Upgrades, Upgrade
  <2>6. mem.rel \in Release /\ mem.after[Current] = KitFile(mem.rel)
    BY <2>0, <2>3 DEF Upgrades, Upgrade
  <2>7. k # mem.rel
    BY <2>5, <2>6 DEF NoKit
  <2>8. file'[Current].kit = k
    BY <2>2, <2>4, <2>5, <2>6, <2>7 DEF Moves, KitFile
  <2>. QED
    BY <2>2, <2>3, <2>7, <2>8 DEF Exists
<1>2. TypeOK /\ WriteAhead /\ Recoverable /\ [Next]_vars =>
        [\A t \in Txn :
           /\ journal[t].state # "rolled_back"
           /\ journal'[t].state = "rolled_back"
           /\ journal'[t].core # "reused"
           => /\ \A m \in Member : core'[journal'[t].rel][m] = "absent"
              /\ file'[Current].kit # journal'[t].rel]_vars
  BY <1>1
<1>. QED
  BY <1>2, Typing, WriteAheadHolds, RecoverableHolds, PTL DEF Spec, RollbackRemovesCore

\* A new change begins only where none is unfinished, and none is ever taken back
\* to an unfinished forward state.
THEOREM ChangesFollowOneAnother == Spec => []OneUnfinished
<1>1. Init => OneUnfinished
  BY DEF Init, OneUnfinished, NoJournal, Forward
<1>2. TypeOK /\ WriteAhead /\ Recoverable /\ OneUnfinished /\ [Next]_vars
        => OneUnfinished'
  <2>. SUFFICES ASSUME TypeOK, WriteAhead, Recoverable, OneUnfinished, [Next]_vars,
                       NEW t \in Txn, NEW u \in Txn,
                       journal'[t].state \in Forward, journal'[u].state \in Forward
                PROVE  t = u
    BY DEF OneUnfinished
  <2>0. Agreed /\ Progress /\ Ordered /\ Upgrades /\ journal \in [Txn -> Journal]
    BY DEF Recoverable, TypeOK
  <2>1. CASE WriteJournal
    <3>1. \A v \in Txn : v # tx => journal'[v] = journal[v]
      BY <2>0, <2>1, FirstRecord
    <3>2. \A v \in Txn : journal[v].state \notin Forward
      <4>1. \A v \in Txn : Live(v) => journal[v].state = "applied"
        BY <2>0, <2>1, FirstRecord
      <4>. QED
        BY <4>1 DEF Live, Forward
    <3>. QED
      BY <3>1, <3>2
  <2>2. CASE ~WriteJournal
    BY <2>0, <2>2, JournalStep DEF OneUnfinished
  <2>. QED
    BY <2>1, <2>2
<1>. QED
  BY <1>1, <1>2, Typing, WriteAheadHolds, RecoverableHolds, PTL DEF Spec


-----------------------------------------------------------------------------
(***************************************************************************)
(* All or nothing: while no human edits the project, it is wholly at one   *)
(* version whenever no change waits for recovery, and an unfinished change *)
(* that reached current.json is complete.                                  *)
(*                                                                         *)
(* While nobody edits, every plan leads from one whole version of the      *)
(* project to a later one (PlansWhole), and the files are at one version   *)
(* or between the two of one open transaction (Settled).  Two transactions *)
(* in force have disjoint ranges of versions, so a rollback that finds no  *)
(* third version either is the one in progress or has nothing to write.    *)
(***************************************************************************)

Kit == {NoKit, Legacy} \cup Release

\* Every file as the kit of version k leaves it, with no human text.
Whole(k) ==
  [p \in Path |->
     IF p = Current THEN IF k \in Release THEN KitFile(k) ELSE Absent
     ELSE IF p \in Retired THEN IF k = Legacy THEN KitFile(k) ELSE Absent
     ELSE IF p \in Inside /\ k = Legacy THEN Absent ELSE KitFile(k)]

PlanWhole(j) ==
  /\ j.rel \in Release
  /\ \E k \in Kit : k < j.rel /\ j.before = Whole(k)
  /\ j.after = Whole(j.rel)

PlansWhole ==
  /\ pc # "idle" => PlanWhole(mem)
  /\ \A t \in Txn : journal[t].state # "none" => PlanWhole(journal[t])

Between(j) == \A p \in Path : file[p] \in {j.before[p], j.after[p]}

\* The project is at one version, or an open transaction knows both versions of
\* every file.
Settled ==
  \/ \E k \in Kit : file = Whole(k)
  \/ \E t \in Txn : Open(t) /\ Between(journal[t])

\* What the running process has done to the files.
Written ==
  /\ pc \in {"backup", "backed", "prepared", "staged", "core_staged"} =>
       file = mem.before
  /\ pc \in {"entries", "verify"} => journal[tx].state \in {"applying", "activated"}
  /\ pc = "entries" =>
       \A p \in Path : file[p] = IF p \in todo THEN mem.before[p] ELSE mem.after[p]
  /\ pc = "verify" =>
       \A p \in Path : file[p] = IF p \in todo \ {cur} THEN mem.before[p]
                                 ELSE mem.after[p]
  /\ pc \in RollbackSteps =>
       Between(mem) \/ \A p \in Entries(mem) : file[p] = mem.before[p]
  /\ pc \in {"rb_entries", "rb_reread"} => todo \subseteq Entries(mem)
  /\ pc \in {"rb_entries", "rb_reread"} =>
       \A p \in Entries(mem) \ todo : file[p] = mem.before[p]
  /\ pc = "rb_reread" => file[cur] = mem.before[cur]

Undamaged == \A r \in Release, m \in Member : core[r][m] # "bad"

Untouched == edits = 0 => PlansWhole /\ Settled /\ Written /\ Undamaged

\* Every core on disk was there from the start, in a project that is never again
\* without a release, or belongs to the change in force that created it.
HasRelease ==
  /\ Selected \in Release
  /\ \A t \in Txn : Live(t) /\ Moves(journal[t]) => Back(journal[t]) \in Release
CoresOwned ==
  /\ \A r \in Release : Exists(r) =>
       \/ HasRelease
       \/ \E t \in Txn : Live(t) /\ journal[t].core # "reused" /\ journal[t].rel = r
  /\ pc \in {"backup", "backed", "prepared"} /\ mem.core = "reused" => Exists(mem.rel)

-----------------------------------------------------------------------------
(* Versions of the project and plans between them.                         *)

LEMMA WholeFacts ==
  ASSUME NEW k \in Kit
  PROVE  /\ Whole(k) \in [Path -> [kit : Kit, user : {0}]]
         /\ Whole(k)[Current] = IF k \in Release THEN KitFile(k) ELSE Absent
         /\ Whole(k)[Marker] = KitFile(k)
         /\ k \in Release => \A p \in Path :
              Whole(k)[p] = IF p \in Retired THEN Absent ELSE KitFile(k)
         /\ k \notin Release => \A p \in Path \ Retired :
              Whole(k)[p] \in {Absent, KitFile(k)}
         /\ k # Legacy => \A p \in Retired : Whole(k)[p] = Absent
<1>1. /\ Current \in Path /\ Current \notin Retired /\ Current \notin Inside
      /\ Marker \in Path /\ Marker # Current /\ Marker \notin Retired
      /\ Marker \notin Inside /\ Retired \subseteq Path \ {Current}
      /\ Legacy \notin Release
  BY PathAssumption DEF Project, Legacy
<1>2. /\ KitFile(k) \in [kit : Kit, user : {0}] /\ Absent \in [kit : Kit, user : {0}]
  BY DEF KitFile, Absent, Kit
<1>. QED
  BY <1>1, <1>2 DEF Whole

\* What distinguishes the two versions of a plan.
LEMMA PlanWholeFacts ==
  ASSUME NEW j, PlanWhole(j)
  PROVE  \E k \in Kit :
           /\ k < j.rel /\ j.rel \in Release /\ j.before = Whole(k)
           /\ j.after = Whole(j.rel)
           /\ Moves(j)
           /\ Back(j) = IF k \in Release THEN k ELSE NoKit
           /\ Path \ Retired \subseteq Entries(j)
<1>1. PICK k \in Kit : k < j.rel /\ j.before = Whole(k)
  BY DEF PlanWhole
<1>2. j.rel \in Release /\ j.rel \in Kit /\ j.after = Whole(j.rel)
  BY DEF PlanWhole, Kit
<1>3. ASSUME NEW p \in Path \ Retired PROVE Whole(k)[p] # Whole(j.rel)[p]
  <2>1. Whole(k)[p] \in {Absent, KitFile(k)} /\ Whole(j.rel)[p] = KitFile(j.rel)
    BY <1>2, WholeFacts
  <2>2. k # j.rel /\ NoKit # j.rel
    BY <1>1, <1>2 DEF Kit, NoKit, Legacy
  <2>. QED
    BY <2>1, <2>2 DEF KitFile, Absent
<1>4. Current \in Path \ Retired
  BY PathAssumption DEF Project
<1>5. Back(j) = IF k \in Release THEN k ELSE NoKit
  <2>1. j.before[Current] = IF k \in Release THEN KitFile(k) ELSE Absent
    BY <1>1, WholeFacts
  <2>. QED
    BY <2>1 DEF Back, KitFile, Absent
<1>. QED
  BY <1>1, <1>2, <1>3, <1>4, <1>5 DEF Moves, Entries

\* A plan made in a whole project leads to another whole project.
LEMMA PlanIsWhole ==
  ASSUME NEW k \in Kit, file = Whole(k), NEW r \in Release,
         ContextOK, Approvable(r), Entries(Plan(r)) # {} \/ ~Exists(r)
  PROVE  PlanWhole(Plan(r))
<1>0. /\ NoKit \notin Release /\ Legacy \notin Release /\ NoKit # Legacy /\ r \in Kit
      /\ Current \in Path \ Retired /\ Marker \in Path
  BY PathAssumption DEF NoKit, Legacy, Kit, Project
<1>1. /\ file[Current] = IF k \in Release THEN KitFile(k) ELSE Absent
      /\ file[Marker] = KitFile(k)
  BY WholeFacts
<1>2. /\ Mode = "managed" <=> k \in Release
      /\ Mode = "legacy" <=> k = Legacy
      /\ Mode = "none" <=> k = NoKit
      /\ k \in Release => Selected = k
  BY <1>0, <1>1 DEF Mode, KitFile, Absent, Kit, Selected
<1>3. ActiveKit = k
  BY <1>0, <1>2 DEF ActiveKit, Kit
<1>4. After(r) = Whole(r)
  <2>1. \A p \in Path : file[p].user = 0
    BY WholeFacts
  <2>2. ASSUME NEW p \in Path PROVE After(r)[p] = Whole(r)[p]
    <3>1. CASE p \in Retired
      <4>1. p \notin Owned \cup {Current} /\ p \notin Blocks \cup Config
        BY <3>1, PathAssumption DEF Project
      <4>2. Whole(r)[p] = Absent
        BY <1>0, <3>1, WholeFacts
      <4>3. After(r)[p] = IF Mode = "legacy" THEN Absent ELSE file[p]
        BY <4>1 DEF After
      <4>. QED
        BY <1>2, <3>1, <4>2, <4>3, WholeFacts
    <3>2. CASE p \notin Retired
      <4>1. Whole(r)[p] = KitFile(r)
        BY <1>0, <3>2, WholeFacts
      <4>2. p \in Owned \cup {Current} \/ p \in Blocks \cup Config
        BY <3>2 DEF Project
      <4>3. After(r)[p] = KitFile(r)
        BY <2>1, <4>2 DEF After, KitFile
      <4>. QED
        BY <4>1, <4>3
    <3>. QED
      BY <3>1, <3>2
  <2>3. /\ After(r) = [p \in Path |-> After(r)[p]]
        /\ Whole(r) = [p \in Path |-> Whole(r)[p]]
    BY DEF After, Whole
  <2>. QED
    BY <2>2, <2>3
<1>5. k < r
  <2>1. k <= r
    BY <1>3 DEF Approvable
  <2>2. ASSUME k = r PROVE FALSE
    <3>1. Entries(Plan(r)) = {}
      <4>1. Plan(r).before = Whole(r) /\ Plan(r).after = Whole(r)
        BY <1>4, <2>2, PlanFields
      <4>. QED
        BY <4>1 DEF Entries
    <3>2. Exists(r)
      BY <1>2, <2>2, NameAssumption DEF ContextOK, Intact, Exists
    <3>. QED
      BY <3>1, <3>2
  <2>. QED
    BY <2>1, <2>2 DEF Kit, NoKit, Legacy
<1>. QED
  BY <1>4, <1>5, PlanFields DEF PlanWhole

\* Of two plans that do not overlap, one that ends where current.json can be in the
\* other ends where the other begins.
LEMMA MeetingPlans ==
  ASSUME NEW i, NEW j, PlanWhole(i), PlanWhole(j), Disjoint(i, j),
         j.after[Current] \in {i.before[Current], i.after[Current]}
  PROVE  j.after = i.before /\ Back(i) \in Release
<1>1. PICK k \in Kit : /\ k < i.rel /\ i.rel \in Release /\ i.before = Whole(k)
                       /\ i.after = Whole(i.rel)
                       /\ Back(i) = IF k \in Release THEN k ELSE NoKit
  BY PlanWholeFacts
<1>2. PICK l \in Kit : /\ l < j.rel /\ j.rel \in Release /\ j.before = Whole(l)
                       /\ j.after = Whole(j.rel)
                       /\ Back(j) = IF l \in Release THEN l ELSE NoKit
  BY PlanWholeFacts
<1>3. /\ j.after[Current] = KitFile(j.rel) /\ i.after[Current] = KitFile(i.rel)
      /\ i.before[Current] = IF k \in Release THEN KitFile(k) ELSE Absent
  BY <1>1, <1>2, WholeFacts DEF Kit
<1>4. j.rel = i.rel \/ (k \in Release /\ j.rel = k)
  BY <1>1, <1>2, <1>3 DEF KitFile, Absent, NoKit
<1>5. i.rel <= Back(j) \/ j.rel <= Back(i)
  BY DEF Disjoint
<1>6. j.rel # i.rel
  BY <1>1, <1>2, <1>5 DEF NoKit
<1>. QED
  BY <1>1, <1>2, <1>4, <1>6

\* A rollback that finds no third version, while another change is half done, is
\* either back already or has the project between its own two versions.
LEMMA OtherPlan ==
  ASSUME NEW i, NEW j, PlanWhole(i), PlanWhole(j), Disjoint(i, j), Between(i),
         \A p \in Entries(j) : file[p] \in {j.before[p], j.after[p]}
  PROVE  Between(j) \/ \A p \in Entries(j) : file[p] = j.before[p]
<1>1. PICK k \in Kit : /\ k < i.rel /\ i.rel \in Release /\ i.before = Whole(k)
                       /\ i.after = Whole(i.rel)
                       /\ Back(i) = IF k \in Release THEN k ELSE NoKit
  BY PlanWholeFacts
<1>2. PICK l \in Kit : /\ l < j.rel /\ j.rel \in Release /\ j.before = Whole(l)
                       /\ j.after = Whole(j.rel)
                       /\ Back(j) = IF l \in Release THEN l ELSE NoKit
                       /\ Path \ Retired \subseteq Entries(j)
  BY PlanWholeFacts
<1>3. i.rel \in Kit /\ j.rel \in Kit
  BY <1>1, <1>2 DEF Kit
<1>4. CASE i.rel <= Back(j)
  <2>1. l \in Release /\ i.rel <= l
    BY <1>1, <1>2, <1>4 DEF NoKit
  <2>2. ASSUME NEW p \in Entries(j) PROVE file[p] = j.before[p]
    <3>1. p \in Path \ Retired
      BY <1>2, <1>3, <2>1, <2>2, WholeFacts DEF Entries
    <3>2. /\ j.before[p] = KitFile(l) /\ j.after[p] = KitFile(j.rel)
          /\ i.before[p] \in {Absent, KitFile(k)} /\ i.after[p] = KitFile(i.rel)
      BY <1>1, <1>2, <1>3, <2>1, <3>1, WholeFacts
    <3>3. j.rel # i.rel /\ j.rel # k /\ j.rel # NoKit
      BY <1>1, <1>2, <2>1 DEF NoKit, Kit, Legacy
    <3>4. file[p] # KitFile(j.rel)
      BY <3>1, <3>2, <3>3 DEF Between, KitFile, Absent
    <3>. QED
      BY <2>2, <3>2, <3>4
  <2>. QED
    BY <2>2
<1>5. CASE j.rel <= Back(i)
  <2>1. k \in Release /\ j.rel <= k
    BY <1>1, <1>2, <1>5 DEF NoKit
  <2>2. ASSUME NEW p \in Path PROVE file[p] = j.after[p]
    <3>1. CASE p \in Retired
      BY <1>1, <1>2, <1>3, <2>1, <3>1, WholeFacts DEF Between
    <3>2. CASE p \notin Retired
      <4>1. /\ j.before[p] \in {Absent, KitFile(l)} /\ j.after[p] = KitFile(j.rel)
            /\ i.before[p] = KitFile(k) /\ i.after[p] = KitFile(i.rel)
        BY <1>1, <1>2, <1>3, <2>1, <3>2, WholeFacts
      <4>2. k # NoKit /\ i.rel # NoKit /\ k # l /\ i.rel # l
        BY <1>1, <1>2, <2>1 DEF NoKit, Kit, Legacy
      <4>3. file[p] \notin {Absent, KitFile(l)}
        BY <4>1, <4>2 DEF Between, KitFile, Absent
      <4>. QED
        BY <1>2, <3>2, <4>1, <4>3
    <3>. QED
      BY <3>1, <3>2
  <2>. QED
    BY <2>2 DEF Between
<1>. QED
  BY <1>4, <1>5 DEF Disjoint

-----------------------------------------------------------------------------
(* Steps that no human takes                                               *)

\* An idle process begins a change, takes up one that is in force, or stays idle.
LEMMA IdleStep ==
  ASSUME TypeOK, [Next]_vars, pc = "idle", pc' # "idle"
  PROVE  \/ \E t \in Txn, r \in Release : ApplyBegin(t, r)
         \/ \E t \in Txn : Enter(t, "rb_check") /\ Live(t)
BY DEF Next, vars, ApplyStep, WriteBackup, BackupRefused, WriteJournal,
       JournalRefused, StageCore, RecordCore, RecordApplying, WriteEntry,
       VerifyEntry, FinishApply, ApplyFails,
       RollbackStep, RollbackStart, RollbackRefused, SkipEntry, RestoreEntry,
       EntryConflict, RereadEntry, RereadFails, RemoveCore, RemoveCoreRefused,
       RemoveMember, FinishRollback, RollbackUnverified,
       Command, ResumeForward, ResumeBack, Rollback, Inspect, Live,
       Environment, Crash, PrepareFault, ApplyFault, RollbackFault, Block, Leave,
       UserEdit, UserDelete, UserRevert, GodotEdit, TamperCore, Edited, process

\* When nobody has edited anything yet, only the kit's own steps write the files.
LEMMA QuietStep ==
  ASSUME TypeOK, [Next]_vars, edits' = 0
  PROVE  /\ edits = 0
         /\ \/ UNCHANGED file
            \/ \E p \in Path : WriteEntry(p) \/ RestoreEntry(p)
            \/ \E p \in Project : UserRevert(p)
         /\ \A r \in Release, m \in Member : ~TamperCore(r, m)
<1>0. edits \in Nat
  BY BoundAssumption DEF TypeOK
<1>1. ~Edited /\ \A r \in Release, m \in Member : ~TamperCore(r, m)
  BY <1>0 DEF Edited, TamperCore
<1>2. CASE ApplyStep
  BY <1>1, <1>2
  DEF ApplyStep, WriteBackup, BackupRefused, WriteJournal, JournalRefused,
      StageCore, RecordCore, RecordApplying, WriteEntry, VerifyEntry,
      FinishApply, ApplyFails, bounds
<1>3. CASE RollbackStep
  BY <1>1, <1>3
  DEF RollbackStep, RollbackStart, RollbackRefused, SkipEntry, RestoreEntry,
      EntryConflict, RereadEntry, RereadFails, RemoveCore, RemoveCoreRefused,
      RemoveMember, FinishRollback, RollbackUnverified, Block, bounds
<1>4. CASE Command
  BY <1>1, <1>4
  DEF Command, ApplyBegin, ResumeForward, ResumeBack, Rollback, Enter, Inspect, bounds
<1>5. CASE Environment
  BY <1>1, <1>5
  DEF Environment, Crash, PrepareFault, ApplyFault, RollbackFault, Fault, Block,
      UserEdit, UserDelete, UserRevert, GodotEdit, bounds
<1>. QED
  BY <1>1, <1>2, <1>3, <1>4, <1>5 DEF Next, vars

\* The journal on disk of the running process has the plan in memory.
LEMMA OnDisk ==
  ASSUME TypeOK, WriteAhead, Agreed, PlansWhole, pc \notin {"idle", "backup", "backed"}
  PROVE  /\ tx \in Txn /\ SamePlan(journal[tx], mem) /\ Live(tx)
         /\ PlanWhole(mem) /\ PlanWhole(journal[tx])
         /\ Between(journal[tx]) <=> Between(mem)
BY DEF WriteAhead, Agreed, PlansWhole, Live, SamePlan, Between, PlanWhole

\* Between versions there is no human text to take back.
LEMMA NoText ==
  ASSUME TypeOK, PlansWhole, Settled, NEW p \in Path
  PROVE  file[p].user = 0
<1>0. \A k \in Kit : Whole(k)[p].user = 0
  BY WholeFacts
<1>1. CASE \E k \in Kit : file = Whole(k)
  BY <1>0, <1>1
<1>2. ASSUME NEW t \in Txn, Open(t), Between(journal[t]) PROVE file[p].user = 0
  <2>1. PlanWhole(journal[t])
    BY <1>2 DEF PlansWhole, Open, Terminal
  <2>2. PICK k \in Kit : journal[t].before = Whole(k)
    BY <2>1 DEF PlanWhole
  <2>3. journal[t].rel \in Kit /\ journal[t].after = Whole(journal[t].rel)
    BY <2>1 DEF PlanWhole, Kit
  <2>. QED
    BY <1>0, <1>2, <2>2, <2>3 DEF Between
<1>. QED
  BY <1>1, <1>2 DEF Settled

LEMMA PlansWholeStep ==
  ASSUME TypeOK, WriteAhead, Agreed, PlansWhole, Settled, [Next]_vars
  PROVE  PlansWhole'
<1>0. mem \in Journal /\ journal \in [Txn -> Journal]
  BY DEF TypeOK
<1>1. ASSUME NEW i, NEW j, SamePlan(i, j), PlanWhole(j) PROVE PlanWhole(i)
  BY <1>1 DEF SamePlan, PlanWhole
<1>2. ASSUME pc' # "idle" PROVE PlanWhole(mem')
  <2>1. CASE pc # "idle"
    <3>1. SamePlan(mem', mem)
      BY <1>2, <2>1, MemStep DEF Leave, ApplyBegin, Enter
    <3>. QED
      BY <1>1, <2>1, <3>1 DEF PlansWhole
  <2>2. ASSUME NEW t \in Txn, NEW r \in Release, ApplyBegin(t, r)
        PROVE  PlanWhole(mem')
    <3>0. mem' = Plan(r) /\ ContextOK /\ Approvable(r)
          /\ (Entries(Plan(r)) # {} \/ ~Exists(r))
      BY <2>2 DEF ApplyBegin
    <3>1. PICK k \in Kit : file = Whole(k)
      BY <2>2 DEF ApplyBegin, Settled
    <3>. QED
      BY <3>0, <3>1, PlanIsWhole
  <2>3. ASSUME NEW t \in Txn, Enter(t, "rb_check"), Live(t) PROVE PlanWhole(mem')
    <3>1. mem' = journal[t] /\ journal[t].state # "none"
      BY <2>3 DEF Enter, Live
    <3>. QED
      BY <3>1 DEF PlansWhole
  <2>. QED
    BY <1>2, <2>1, <2>2, <2>3, IdleStep
<1>3. ASSUME NEW t \in Txn, journal'[t].state # "none" PROVE PlanWhole(journal'[t])
  <2>1. CASE WriteJournal
    <3>1. pc # "idle" /\ journal' = [journal EXCEPT ![tx] = mem]
      BY <2>1 DEF WriteJournal, Record
    <3>. QED
      BY <1>0, <1>3, <3>1 DEF PlansWhole
  <2>2. CASE ~WriteJournal
    BY <1>1, <1>3, <2>2, JournalStep DEF PlansWhole
  <2>. QED
    BY <2>1, <2>2
<1>. QED
  BY <1>2, <1>3 DEF PlansWhole

LEMMA QuietFiles ==
  ASSUME TypeOK, PlansWhole, Settled, [Next]_vars, edits' = 0
  PROVE  UNCHANGED file \/ \E p \in Path : WriteEntry(p) \/ RestoreEntry(p)
<1>1. \A p \in Project : ~UserRevert(p)
  BY NoText DEF UserRevert
<1>. QED
  BY <1>1, QuietStep

-----------------------------------------------------------------------------
(* What the running process has done to the files.                         *)

\* A rollback restores only what its own change wrote.
LEMMA RestoreIsOwn ==
  ASSUME Written, NEW p \in Path, RestoreEntry(p)
  PROVE  Between(mem) /\ p \in Entries(mem)
<1>1. /\ pc = "rb_entries" /\ p \in todo /\ file[p] = mem.after[p]
  BY DEF RestoreEntry, NextEntry
<1>2. p \in Entries(mem)
  BY <1>1 DEF Written
<1>3. file[p] # mem.before[p]
  BY <1>1, <1>2 DEF Entries
<1>. QED
  BY <1>1, <1>2, <1>3 DEF Written, RollbackSteps

\* A rollback that starts has the project between its two versions, or nothing to do.
LEMMA StartsBetween ==
  ASSUME TypeOK, WriteAhead, Agreed, Ordered, PlansWhole, Settled, RollbackStart
  PROVE  Between(mem) \/ \A p \in Entries(mem) : file[p] = mem.before[p]
<1>1. /\ pc = "rb_check" /\ \A p \in Entries(mem) : file[p] \in {mem.before[p], mem.after[p]}
  BY DEF RollbackStart, ThirdVersion
<1>2. /\ tx \in Txn /\ SamePlan(journal[tx], mem) /\ Live(tx)
      /\ PlanWhole(mem) /\ PlanWhole(journal[tx])
      /\ Between(journal[tx]) <=> Between(mem)
  BY <1>1, OnDisk
<1>3. ASSUME NEW v \in Kit, file = Whole(v) PROVE Between(mem)
  <2>1. PICK k \in Kit : /\ k < mem.rel /\ mem.rel \in Release /\ mem.before = Whole(k)
                         /\ mem.after = Whole(mem.rel)
                         /\ Path \ Retired \subseteq Entries(mem)
    BY <1>2, PlanWholeFacts
  <2>2. Marker \in Path \ Retired /\ mem.rel \in Kit
    BY <2>1, PathAssumption DEF Project, Kit
  <2>3. /\ file[Marker] = KitFile(v) /\ mem.before[Marker] = KitFile(k)
        /\ mem.after[Marker] = KitFile(mem.rel)
    BY <1>3, <2>1, <2>2, WholeFacts
  <2>4. v = k \/ v = mem.rel
    BY <1>1, <2>1, <2>2, <2>3 DEF KitFile
  <2>. QED
    BY <1>3, <2>1, <2>4 DEF Between
<1>4. ASSUME NEW u \in Txn, Open(u), Between(journal[u]), u # tx
      PROVE  Between(mem) \/ \A p \in Entries(mem) : file[p] = mem.before[p]
  <2>1. PlanWhole(journal[u]) /\ Live(u)
    BY <1>4 DEF PlansWhole, Open, Live, Terminal
  <2>2. Moves(journal[u]) /\ Moves(journal[tx])
    BY <1>2, <2>1, PlanWholeFacts
  <2>3. Disjoint(journal[u], journal[tx])
    BY <1>2, <1>4, <2>1, <2>2 DEF Ordered, ChangesOrdered
  <2>4. Disjoint(journal[u], mem)
    BY <1>2, <2>3 DEF Disjoint, SamePlan, Back
  <2>. QED
    BY <1>1, <1>2, <1>4, <2>1, <2>4, OtherPlan
<1>. QED
  BY <1>2, <1>3, <1>4 DEF Settled

LEMMA WrittenApply ==
  ASSUME TypeOK, WriteAhead, Agreed, Written, ApplyStep PROVE Written'
<1>0. /\ mem \in Journal /\ journal \in [Txn -> Journal]
      /\ file \in [Path -> Content] /\ mem.after \in [Path -> Content]
      /\ mem.before \in [Path -> Content]
  BY DEF TypeOK, Journal
<1>1. CASE WriteBackup \/ WriteJournal \/ StageCore
  BY <1>1 DEF WriteBackup, WriteJournal, Record, StageCore, Goto, Written, RollbackSteps
<1>2. CASE RecordCore
  BY <1>0, <1>2, SamePlanStaged
  DEF RecordCore, Record, SamePlan, Goto, Written, RollbackSteps
<1>3. CASE Leave
  BY <1>3 DEF Leave, Written, RollbackSteps
<1>4. CASE RecordApplying
  <2>1. mem'.before = mem.before /\ mem'.after = mem.after /\ mem'.state = "applying"
    BY <1>0, <1>4 DEF RecordApplying, Record, Journal
  <2>2. /\ pc = "core_staged" /\ pc' = "entries" /\ todo' = Entries(mem) /\ file' = file
        /\ tx' = tx /\ tx \in Txn /\ journal'[tx] = mem'
    BY <1>0, <1>4 DEF RecordApplying, Record, Goto, WriteAhead
  <2>3. file = mem.before
    BY <2>2 DEF Written
  <2>. QED
    BY <2>1, <2>2, <2>3 DEF Written, Entries, RollbackSteps
<1>5. ASSUME NEW q \in Path, WriteEntry(q) PROVE Written'
  <2>1. /\ pc = "entries" /\ pc' = "verify" /\ q \in todo /\ cur' = q
        /\ file' = [file EXCEPT ![q] = mem.after[q]]
        /\ UNCHANGED <<mem, todo, journal, tx>>
    BY <1>5 DEF WriteEntry, NextEntry, Goto
  <2>2. \A p \in Path : file'[p] = IF p \in todo \ {q} THEN mem.before[p]
                                   ELSE mem.after[p]
    BY <1>0, <2>1 DEF Written
  <2>. QED
    BY <2>1, <2>2 DEF Written, RollbackSteps
<1>6. CASE VerifyEntry
  <2>1. mem'.before = mem.before /\ mem'.after = mem.after
    BY <1>0, <1>6 DEF VerifyEntry, Record, Journal
  <2>2. /\ pc = "verify" /\ pc' = "entries" /\ todo' = todo \ {cur} /\ file' = file
        /\ tx' = tx /\ tx \in Txn
    BY <1>6 DEF VerifyEntry, Goto, WriteAhead
  <2>3. journal'[tx].state \in {"applying", "activated"}
    <3>1. CASE cur = Current
      BY <1>0, <1>6, <2>2, <3>1 DEF VerifyEntry, Record, Journal
    <3>2. CASE cur # Current
      BY <1>6, <2>2, <3>2 DEF VerifyEntry, Written
    <3>. QED
      BY <3>1, <3>2
  <2>. QED
    BY <2>1, <2>2, <2>3 DEF Written, RollbackSteps
<1>7. CASE ApplyFails
  BY <1>7 DEF ApplyFails, Goto, Written, RollbackSteps
<1>. QED
  BY <1>1, <1>2, <1>3, <1>4, <1>5, <1>6, <1>7
  DEF ApplyStep, BackupRefused, JournalRefused, FinishApply

LEMMA WrittenRollback ==
  ASSUME TypeOK, WriteAhead, Agreed, Ordered, PlansWhole, Settled, Written,
         RollbackStep
  PROVE  Written'
<1>0. /\ mem \in Journal /\ journal \in [Txn -> Journal]
      /\ file \in [Path -> Content] /\ mem.before \in [Path -> Content]
  BY DEF TypeOK, Journal
<1>1. CASE RollbackStart
  <2>1. mem'.before = mem.before /\ mem'.after = mem.after
    BY <1>0, <1>1 DEF RollbackStart, Record, Journal
  <2>2. pc' = "rb_entries" /\ todo' = Entries(mem) /\ file' = file
    BY <1>1 DEF RollbackStart, Goto
  <2>3. Entries(mem)' = Entries(mem)
    BY <2>1 DEF Entries
  <2>4. Between(mem)' <=> Between(mem)
    BY <2>1, <2>2 DEF Between
  <2>5. Between(mem) \/ \A p \in Entries(mem) : file[p] = mem.before[p]
    BY <1>1, StartsBetween
  <2>. QED
    BY <2>1, <2>2, <2>3, <2>4, <2>5 DEF Written, RollbackSteps
<1>2. CASE Leave
  BY <1>2 DEF Leave, Written, RollbackSteps
<1>3. ASSUME NEW q \in Path, SkipEntry(q) PROVE Written'
  BY <1>3 DEF SkipEntry, Written, Between, Entries, RollbackSteps
<1>4. ASSUME NEW q \in Path, RestoreEntry(q) PROVE Written'
  <2>1. /\ pc = "rb_entries" /\ pc' = "rb_reread" /\ cur' = q
        /\ file' = [file EXCEPT ![q] = mem.before[q]] /\ UNCHANGED <<mem, todo>>
    BY <1>4 DEF RestoreEntry, Goto
  <2>2. Between(mem)'
    BY <1>0, <1>4, <2>1, RestoreIsOwn DEF Between
  <2>3. \A p \in Entries(mem) \ todo : file'[p] = mem.before[p]
    BY <1>0, <2>1 DEF Written, Entries
  <2>. QED
    BY <1>0, <2>1, <2>2, <2>3 DEF Written, Entries, RollbackSteps
<1>5. CASE RereadEntry
  <2>1. /\ pc = "rb_reread" /\ pc' = "rb_entries" /\ todo' = todo \ {cur}
        /\ UNCHANGED <<mem, file>>
    BY <1>5 DEF RereadEntry, Goto
  <2>2. Between(mem)' <=> Between(mem)
    BY <2>1 DEF Between
  <2>3. Entries(mem)' = Entries(mem)
    BY <2>1 DEF Entries
  <2>. QED
    BY <2>1, <2>2, <2>3 DEF Written, RollbackSteps
<1>6. CASE RemoveCore \/ \E m \in Member : RemoveMember(m)
  <2>1. /\ pc \in RollbackSteps /\ pc' \in {"rb_members", "rb_verify"}
        /\ UNCHANGED <<mem, file>>
    BY <1>6 DEF RemoveCore, RemoveMember, Goto, RollbackSteps
  <2>2. Between(mem)' <=> Between(mem)
    BY <2>1 DEF Between
  <2>3. Entries(mem)' = Entries(mem)
    BY <2>1 DEF Entries
  <2>. QED
    BY <2>1, <2>2, <2>3 DEF Written
<1>. QED
  BY <1>1, <1>2, <1>3, <1>4, <1>5, <1>6
  DEF RollbackStep, RollbackRefused, EntryConflict, RereadFails,
      RemoveCoreRefused, FinishRollback, RollbackUnverified, Block

LEMMA WrittenStep ==
  ASSUME TypeOK, WriteAhead, Agreed, Ordered, PlansWhole, Settled, Written,
         [Next]_vars, edits' = 0
  PROVE  Written'
<1>1. CASE Command
  <2>1. ASSUME NEW t \in Txn, NEW r \in Release, ApplyBegin(t, r) PROVE Written'
    <3>1. mem'.before = file /\ UNCHANGED file /\ pc' = "backup"
      BY <2>1, PlanFields DEF ApplyBegin, Goto
    <3>. QED
      BY <3>1 DEF Written, RollbackSteps
  <2>2. ASSUME NEW t \in Txn, Enter(t, "rb_check") PROVE Written'
    BY <2>2 DEF Enter, Goto, Written, RollbackSteps
  <2>3. CASE pc = "idle" /\ UNCHANGED pc
    BY <2>3 DEF Written, RollbackSteps
  <2>. QED
    BY <1>1, <2>1, <2>2, <2>3
    DEF Command, ResumeForward, ResumeBack, Rollback, Inspect, process
<1>2. CASE UNCHANGED <<process, journal, file>>
  BY <1>2 DEF process, Written, Between, Entries
<1>3. CASE Environment
  <2>1. CASE Leave
    BY <2>1 DEF Leave, Written, RollbackSteps
  <2>2. CASE ApplyFault
    BY <2>2 DEF ApplyFault, Goto, Written, RollbackSteps
  <2>3. \A p \in Project : ~UserRevert(p)
    BY NoText DEF UserRevert
  <2>4. ~Edited
    <3>1. edits \in Nat
      BY BoundAssumption DEF TypeOK
    <3>. QED
      BY <3>1 DEF Edited
  <2>. QED
    BY <1>2, <1>3, <2>1, <2>2, <2>3, <2>4
    DEF Environment, Crash, PrepareFault, RollbackFault, Block,
        UserEdit, UserDelete, GodotEdit, TamperCore
<1>. QED
  BY <1>1, <1>2, <1>3, WrittenApply, WrittenRollback DEF Next, vars, process

-----------------------------------------------------------------------------
(* Where the files are.                                                    *)

LEMMA SettledStep ==
  ASSUME TypeOK, WriteAhead, Agreed, Ordered, PlansWhole, Settled, Written,
         [Next]_vars, edits' = 0
  PROVE  Settled'
<1>0. /\ mem \in Journal /\ journal \in [Txn -> Journal]
      /\ file \in [Path -> Content]
      /\ mem.before \in [Path -> Content] /\ mem.after \in [Path -> Content]
      /\ \A t \in Txn : /\ journal[t].before \in [Path -> Content]
                        /\ journal[t].after \in [Path -> Content]
  BY DEF TypeOK, Journal
<1>1. ASSUME NEW q \in Path, WriteEntry(q) PROVE Settled'
  <2>1. /\ pc = "entries" /\ pc' = "verify" /\ UNCHANGED <<journal, tx, mem>>
    BY <1>1 DEF WriteEntry, Goto
  <2>2. tx \in Txn /\ SamePlan(journal[tx], mem) /\ journal[tx].state \in Forward
    BY <2>1 DEF WriteAhead, Agreed
  <2>3. Between(journal[tx])'
    BY <2>1, <2>2, WrittenStep DEF Written, Between, SamePlan
  <2>. QED
    BY <2>1, <2>2, <2>3 DEF Settled, Open, Forward, Terminal
<1>2. ASSUME NEW q \in Path, RestoreEntry(q) PROVE Settled'
  <2>1. /\ pc = "rb_entries" /\ UNCHANGED <<journal, tx, mem>>
        /\ file' = [file EXCEPT ![q] = mem.before[q]]
    BY <1>2 DEF RestoreEntry
  <2>2. tx \in Txn /\ SamePlan(journal[tx], mem) /\ journal[tx].state = "rolling_back"
    BY <2>1 DEF WriteAhead, Agreed
  <2>3. Between(journal[tx])'
    BY <1>0, <1>2, <2>1, <2>2, RestoreIsOwn DEF Between, SamePlan
  <2>. QED
    BY <2>1, <2>2, <2>3 DEF Settled, Open, Terminal
<1>3. ASSUME NEW k \in Kit, file = Whole(k), UNCHANGED file PROVE Settled'
  BY <1>3 DEF Settled, Whole
<1>4. ASSUME NEW u \in Txn, Open(u), Between(journal[u]), UNCHANGED file
      PROVE  Settled'
  <2>0. PlanWhole(journal[u])
    BY <1>4 DEF PlansWhole, Open, Terminal
  <2>1. PICK k \in Kit : journal[u].before = Whole(k)
    BY <2>0 DEF PlanWhole
  <2>2. journal[u].rel \in Kit /\ journal[u].after = Whole(journal[u].rel)
    BY <2>0 DEF PlanWhole, Kit
  <2>3. CASE WriteJournal
    <3>1. u # tx /\ journal' = [journal EXCEPT ![tx] = mem]
      BY <1>4, <2>3 DEF WriteJournal, Record, WriteAhead, Open, Terminal
    <3>2. journal'[u] = journal[u]
      BY <1>0, <3>1
    <3>. QED
      BY <1>4, <3>2 DEF Settled, Open, Between
  <2>4. CASE ~WriteJournal
    <3>1. /\ SamePlan(journal'[u], journal[u]) /\ journal'[u].state # "none"
          /\ journal'[u].state = "applied" => Applies(u)
          /\ journal'[u].state = "rolled_back" => FinishRollback /\ u = tx
      BY <1>4, <2>4, JournalStep DEF Open, Terminal
    <3>2. CASE Open(u)'
      BY <1>4, <3>1, <3>2 DEF Settled, Between, SamePlan
    <3>3. CASE FinishApply /\ u = tx
      <4>1. /\ \A p \in Path : file[p] = mem.after[p]
            /\ SamePlan(journal[u], mem)
        BY <3>3 DEF FinishApply, Written, Agreed
      <4>2. file = journal[u].after
        BY <1>0, <4>1 DEF SamePlan
      <4>. QED
        BY <1>3, <1>4, <2>2, <4>2
    <3>4. CASE ResumeForward(u)
      <4>1. file = journal[u].after
        BY <1>0, <1>4, <3>4 DEF ResumeForward, Complete, Between, Entries
      <4>. QED
        BY <1>3, <1>4, <2>2, <4>1
    <3>5. CASE FinishRollback /\ u = tx
      <4>1. /\ \A p \in Entries(mem) : file[p] = mem.before[p]
            /\ SamePlan(journal[u], mem)
        BY <3>5 DEF FinishRollback, Agreed
      <4>2. file = journal[u].before
        BY <1>0, <1>4, <4>1 DEF SamePlan, Between, Entries
      <4>. QED
        BY <1>3, <1>4, <2>1, <4>2
    <3>. QED
      BY <3>1, <3>2, <3>3, <3>4, <3>5 DEF Applies, Open, Terminal
  <2>. QED
    BY <2>3, <2>4
<1>. QED
  BY <1>1, <1>2, <1>3, <1>4, QuietFiles DEF Settled

\* The kit publishes sound cores and removes members; it spoils none.
LEMMA UndamagedStep ==
  ASSUME TypeOK, Agreed, Undamaged, [Next]_vars, edits' = 0 PROVE Undamaged'
<1>0. core \in [Release -> [Member -> MemberState]]
  BY DEF TypeOK
<1>1. CASE UNCHANGED core
  BY <1>1 DEF Undamaged
<1>2. CASE StageCore
  <2>1. core' = [core EXCEPT ![mem.rel] = [m \in Member |-> "good"]]
    BY <1>2 DEF StageCore
  <2>. QED
    BY <1>0, <2>1 DEF Undamaged
<1>3. ASSUME NEW n \in Member, RemoveMember(n) PROVE Undamaged'
  <2>1. core' = [core EXCEPT ![mem.rel][n] = "absent"]
    BY <1>3 DEF RemoveMember
  <2>. QED
    BY <1>0, <2>1 DEF Undamaged
<1>4. CASE ApplyStep \/ RollbackStep \/ Command
  BY <1>1, <1>2, <1>3, <1>4
  DEF ApplyStep, WriteBackup, BackupRefused, WriteJournal, JournalRefused,
      RecordCore, RecordApplying, WriteEntry, VerifyEntry, FinishApply, ApplyFails,
      RollbackStep, RollbackStart, RollbackRefused, SkipEntry, RestoreEntry,
      EntryConflict, RereadEntry, RereadFails, RemoveCore, RemoveCoreRefused,
      FinishRollback, RollbackUnverified, Block, Command, ApplyBegin,
      ResumeForward, ResumeBack, Rollback, Enter, Inspect
<1>5. CASE Environment
  BY <1>1, <1>5, QuietStep
  DEF Environment, Crash, PrepareFault, ApplyFault, RollbackFault, Block,
      UserEdit, UserDelete, UserRevert, GodotEdit, Edited
<1>. QED
  BY <1>1, <1>4, <1>5 DEF Next, vars

-----------------------------------------------------------------------------
(* Whose cores there are.                                                  *)

LEMMA HasReleaseStep ==
  ASSUME TypeOK, WriteAhead, Recoverable, HasRelease, [Next]_vars
  PROVE  HasRelease'
<1>0. /\ mem \in Journal /\ journal \in [Txn -> Journal]
      /\ Upgrades /\ Agreed /\ Progress /\ Ordered
  BY DEF TypeOK, Recoverable
<1>1. Selected' \in Release
  <2>1. CASE file'[Current] = file[Current]
    BY <2>1 DEF HasRelease, Selected
  <2>2. CASE WriteEntry(Current)
    BY <1>0, <2>2, WriteCurrent, BackBelow DEF HasRelease
  <2>3. CASE RestoreEntry(Current)
    <3>1. CASE Moves(mem)
      <4>1. Back(mem) \in Release
        BY <1>0, <2>3, <3>1, RestoreCurrent DEF HasRelease, Live, SamePlan, Moves, Back
      <4>. QED
        BY <1>0, <2>3, <3>1, <4>1, RestoreCurrent
    <3>2. CASE ~Moves(mem)
      BY <1>0, <2>3, <3>2, RestoreCurrent DEF HasRelease
    <3>. QED
      BY <3>1, <3>2
  <2>. QED
    BY <2>1, <2>2, <2>3, CurrentStep
<1>2. ASSUME NEW t \in Txn, Live(t)', Moves(journal'[t])
      PROVE  Back(journal'[t]) \in Release
  <2>1. CASE WriteJournal /\ t = tx
    BY <1>0, <2>1, FirstRecord DEF HasRelease
  <2>2. CASE WriteJournal /\ t # tx
    <3>1. journal'[t] = journal[t]
      BY <1>0, <2>2, FirstRecord
    <3>. QED
      BY <1>2, <3>1 DEF HasRelease, Live
  <2>3. CASE ~WriteJournal
    BY <1>0, <1>2, <2>3, JournalStep DEF HasRelease, SamePlan, Moves, Back
  <2>. QED
    BY <2>1, <2>2, <2>3
<1>. QED
  BY <1>1, <1>2 DEF HasRelease, Moves, Back

\* The journal of the change that created a core is in force until its rollback
\* has removed the core.
Created(t, r) == Live(t) /\ journal[t].core # "reused" /\ journal[t].rel = r

LEMMA CreatorStep ==
  ASSUME TypeOK, WriteAhead, Recoverable, [Next]_vars,
         NEW t \in Txn, NEW r \in Release, Created(t, r)
  PROVE  Created(t, r)' \/ (UNCHANGED core /\ ~Exists(r))
<1>0. /\ journal \in [Txn -> Journal]
      /\ Upgrades /\ Agreed /\ Progress /\ Ordered
  BY DEF TypeOK, Recoverable
<1>1. CASE WriteJournal
  BY <1>0, <1>1, FirstRecord DEF Created, Live
<1>2. CASE ~WriteJournal
  <2>1. /\ SamePlan(journal'[t], journal[t]) /\ journal'[t].state # "none"
        /\ journal'[t].state = "rolled_back" => FinishRollback /\ t = tx
    BY <1>0, <1>2, JournalStep DEF Created, Live
  <2>2. CASE FinishRollback /\ t = tx
    <3>1. pc = "rb_verify" /\ UNCHANGED core
      BY <2>2 DEF FinishRollback
    <3>2. journal[t] = mem /\ (mem.core # "reused" => ~Exists(mem.rel))
      BY <1>0, <2>2, <3>1 DEF Agreed, RollbackSteps, Progress
    <3>. QED
      BY <3>1, <3>2 DEF Created
  <2>. QED
    BY <2>1, <2>2 DEF Created, Live, SamePlan
<1>. QED
  BY <1>1, <1>2

LEMMA CoresOwnedStep ==
  ASSUME TypeOK, WriteAhead, Recoverable, CoresOwned, [Next]_vars
  PROVE  CoresOwned'
<1>0. /\ journal \in [Txn -> Journal] /\ core \in [Release -> [Member -> MemberState]]
      /\ Upgrades /\ Agreed /\ Progress /\ Ordered
  BY DEF TypeOK, Recoverable
<1>1. ASSUME NEW r \in Release, Exists(r)'
      PROVE  HasRelease' \/ \E t \in Txn : Created(t, r)'
  <2>1. CASE Exists(r)
    <3>1. HasRelease \/ \E t \in Txn : Created(t, r)
      BY <2>1 DEF CoresOwned, Created
    <3>2. ASSUME NEW t \in Txn, Created(t, r) PROVE Created(t, r)'
      BY <2>1, <3>2, CreatorStep
    <3>. QED
      BY <3>1, <3>2, HasReleaseStep
  <2>2. CASE ~Exists(r)
    <3>1. StageCore
      <4>1. ASSUME NEW n \in Member, RemoveMember(n) PROVE FALSE
        BY <1>0, <1>1, <2>2, <4>1 DEF RemoveMember, Exists
      <4>. QED
        BY <1>1, <2>2, <4>1, CoreStep DEF Exists
    <3>2. /\ pc = "prepared" /\ UNCHANGED <<journal, tx, mem>>
          /\ core' = [core EXCEPT ![mem.rel] = [m \in Member |-> "good"]]
      BY <3>1 DEF StageCore
    <3>3. r = mem.rel
      BY <1>0, <1>1, <2>2, <3>2 DEF Exists
    <3>4. mem.core # "reused"
      BY <2>2, <3>2, <3>3 DEF CoresOwned
    <3>5. tx \in Txn /\ Live(tx) /\ SamePlan(journal[tx], mem)
      BY <1>0, <3>2 DEF WriteAhead, Agreed, Live
    <3>. QED
      BY <3>2, <3>3, <3>4, <3>5 DEF Created, Live, SamePlan
  <2>. QED
    BY <2>1, <2>2
<1>2. ASSUME pc' \in {"backup", "backed", "prepared"}, mem'.core = "reused"
      PROVE  \E m \in Member : core'[mem'.rel][m] # "absent"
  <2>1. ASSUME NEW t \in Txn, NEW r \in Release, ApplyBegin(t, r)
        PROVE  \E m \in Member : core'[mem'.rel][m] # "absent"
    <3>1. mem' = Plan(r) /\ UNCHANGED core
      BY <2>1 DEF ApplyBegin
    <3>2. mem'.rel = r /\ (mem'.core = "reused" => Exists(r))
      BY <3>1, PlanFields
    <3>. QED
      BY <1>2, <3>1, <3>2 DEF Exists
  <2>2. CASE pc \in {"backup", "backed", "prepared"} /\ UNCHANGED mem
    <3>1. mem.rel \in Release /\ Exists(mem.rel)
      BY <1>0, <1>2, <2>2 DEF CoresOwned, Agreed, ApplySteps
    <3>2. \A m \in Member : core'[mem.rel][m] = "absent" <=> core[mem.rel][m] = "absent"
      BY <1>2, <2>2, <3>1, CoreStep DEF StageCore, RemoveMember, Goto
    <3>. QED
      BY <2>2, <3>1, <3>2 DEF Exists
  <2>3. CASE UNCHANGED <<pc, mem>>
    BY <1>2, <2>2, <2>3
  <2>. QED
    BY <1>2, <2>1, <2>2, <2>3
    DEF Next, vars, process, ApplyStep, WriteBackup, BackupRefused, WriteJournal, Record,
        JournalRefused, StageCore, RecordCore, RecordApplying, WriteEntry,
        VerifyEntry, FinishApply, ApplyFails, Goto, Leave,
        RollbackStep, RollbackStart, RollbackRefused, SkipEntry, RestoreEntry,
        EntryConflict, RereadEntry, RereadFails, RemoveCore, RemoveCoreRefused,
        RemoveMember, FinishRollback, RollbackUnverified, Block,
        Command, ResumeForward, ResumeBack, Rollback, Enter, Inspect,
        Environment, Crash, PrepareFault, ApplyFault, RollbackFault,
        UserEdit, UserDelete, UserRevert, GodotEdit, TamperCore, Edited
<1>. QED
  BY <1>1, <1>2 DEF CoresOwned, Created, Exists

-----------------------------------------------------------------------------
(* Activation is last.                                                     *)

\* A change is recorded as applying, and as activated, by its own process.
LEMMA Activates ==
  ASSUME TypeOK, WriteAhead, Written, [Next]_vars, NEW t \in Txn,
         journal'[t].state \in {"applying", "activated"}
  PROVE  \/ journal[t].state \in {"applying", "activated"}
         \/ RecordApplying /\ t = tx
<1>0. mem \in Journal /\ journal \in [Txn -> Journal]
  BY DEF TypeOK
<1>1. CASE journal'[t] = journal[t]
  BY <1>1
<1>2. ASSUME NEW j, journal' = [journal EXCEPT ![tx] = j],
             j.state \notin {"applying", "activated"}
      PROVE  journal'[t] = journal[t]
  BY <1>0, <1>2
<1>3. ASSUME NEW code, Block(code) PROVE journal'[t] = journal[t]
  <2>. DEFINE j == [mem EXCEPT !.state = "blocked", !.failure = code]
  <2>1. j.state = "blocked"
    BY <1>0 DEF Journal
  <2>2. UNCHANGED journal \/ journal' = [journal EXCEPT ![tx] = j]
    BY <1>3 DEF Block
  <2>. HIDE DEF j
  <2>. QED
    BY <1>2, <2>1, <2>2
<1>4. CASE RecordCore
  BY <1>0, <1>2, <1>4, CoreStagedFields DEF RecordCore, Record, Goto
<1>5. CASE WriteJournal
  BY <1>0, <1>2, <1>5 DEF WriteJournal, Record, WriteAhead
<1>6. CASE FinishApply
  <2>. DEFINE j == [mem EXCEPT !.state = "applied"]
  <2>1. j.state = "applied" /\ journal' = [journal EXCEPT ![tx] = j]
    BY <1>0, <1>6 DEF FinishApply, Journal
  <2>. HIDE DEF j
  <2>. QED
    BY <1>2, <2>1
<1>7. CASE RollbackStart
  <2>. DEFINE j == [mem EXCEPT !.state = "rolling_back", !.started = TRUE]
  <2>1. j.state = "rolling_back" /\ journal' = [journal EXCEPT ![tx] = j]
    BY <1>0, <1>7 DEF RollbackStart, Record, Journal
  <2>. HIDE DEF j
  <2>. QED
    BY <1>2, <2>1
<1>8. CASE FinishRollback
  <2>. DEFINE j == [mem EXCEPT !.state = "rolled_back", !.failure = "none"]
  <2>1. j.state = "rolled_back" /\ journal' = [journal EXCEPT ![tx] = j]
    BY <1>0, <1>8 DEF FinishRollback, Journal
  <2>. HIDE DEF j
  <2>. QED
    BY <1>2, <2>1
<1>9. ASSUME NEW u \in Txn, ResumeForward(u) PROVE journal'[t] = journal[t]
  <2>1. journal' = [journal EXCEPT ![u].state = "applied"]
    BY <1>9 DEF ResumeForward
  <2>. QED
    BY <1>0, <2>1 DEF Journal
<1>10. CASE VerifyEntry
  <2>1. pc = "verify" /\ journal[tx].state \in {"applying", "activated"}
    BY <1>10 DEF VerifyEntry, Written
  <2>2. CASE t = tx
    BY <2>1, <2>2
  <2>3. CASE t # tx
    BY <1>0, <1>1, <1>10, <2>3 DEF VerifyEntry, Record
  <2>. QED
    BY <2>2, <2>3
<1>11. CASE RecordApplying
  BY <1>0, <1>1, <1>11 DEF RecordApplying, Record
<1>12. CASE ApplyStep
  BY <1>1, <1>4, <1>5, <1>6, <1>10, <1>11, <1>12
  DEF ApplyStep, WriteBackup, BackupRefused, JournalRefused, StageCore, WriteEntry,
      ApplyFails
<1>13. CASE RollbackStep
  BY <1>1, <1>3, <1>7, <1>8, <1>13
  DEF RollbackStep, RollbackRefused, SkipEntry, RestoreEntry, EntryConflict,
      RereadEntry, RereadFails, RemoveCore, RemoveCoreRefused, RemoveMember,
      RollbackUnverified
<1>14. CASE Command
  BY <1>1, <1>9, <1>14
  DEF Command, ApplyBegin, ResumeBack, Rollback, Enter, Inspect
<1>15. CASE Environment
  BY <1>1, <1>3, <1>15
  DEF Environment, Crash, PrepareFault, ApplyFault, RollbackFault,
      UserEdit, UserDelete, UserRevert, GodotEdit, TamperCore, Edited
<1>. QED
  BY <1>1, <1>12, <1>13, <1>14, <1>15 DEF Next, vars

\* A rollback never leaves current.json at the new version of another unfinished
\* change: where it does restore something, that change ends where it begins.
LEMMA RestoreCompletes ==
  ASSUME TypeOK, WriteAhead, Agreed, Ordered, PlansWhole, Written,
         NEW q \in Path, RestoreEntry(q), NEW t \in Txn, ActivationLast, edits = 0,
         journal[t].state \in {"applying", "activated"},
         Current \in Entries(journal[t]),
         file'[Current] = journal[t].after[Current]
  PROVE  \A p \in Entries(journal[t]) : file'[p] = journal[t].after[p]
<1>0. /\ file \in [Path -> Content] /\ Current \in Path
      /\ mem.before \in [Path -> Content] /\ mem.after \in [Path -> Content]
  BY DEF TypeOK, Journal
<1>1. /\ pc = "rb_entries" /\ q \in todo /\ (q = Current => todo = {Current})
      /\ file' = [file EXCEPT ![q] = mem.before[q]]
  BY DEF RestoreEntry, NextEntry
<1>2. /\ tx \in Txn /\ journal[tx].state = "rolling_back" /\ SamePlan(journal[tx], mem)
  BY <1>1 DEF WriteAhead, Agreed
<1>3. PlanWhole(mem) /\ PlanWhole(journal[t]) /\ Between(mem)
  BY <1>1, RestoreIsOwn DEF PlansWhole
<1>4. Disjoint(mem, journal[t])
  <2>1. t # tx /\ Live(t) /\ Live(tx) /\ Moves(journal[t]) /\ Moves(journal[tx])
    BY <1>2, <1>3, PlanWholeFacts DEF Live, Moves, SamePlan
  <2>2. Disjoint(journal[tx], journal[t])
    BY <1>2, <2>1 DEF Ordered, ChangesOrdered
  <2>. QED
    BY <1>2, <2>2 DEF Disjoint, SamePlan, Back
<1>5. file'[Current] \in {mem.before[Current], mem.after[Current]}
  BY <1>0, <1>1, <1>3 DEF Between
<1>6. journal[t].after = mem.before
  BY <1>3, <1>4, <1>5, MeetingPlans
<1>7. CASE q = Current
  <2>1. \A p \in Path : file'[p] = mem.before[p]
    BY <1>0, <1>1, <1>3, <1>7 DEF Written, Between, Entries
  <2>. QED
    BY <1>6, <2>1 DEF Entries
<1>8. CASE q # Current
  <2>1. Complete(t)
    BY <1>0, <1>1, <1>8 DEF ActivationLast
  <2>. QED
    BY <1>0, <1>1, <1>6, <2>1 DEF Complete, Entries
<1>. QED
  BY <1>7, <1>8

LEMMA ActivationStep ==
  ASSUME TypeOK, WriteAhead, Recoverable, OneUnfinished, PlansWhole, Settled, Written,
         ActivationLast, [Next]_vars, edits' = 0
  PROVE  ActivationLast'
<1>0. /\ mem \in Journal /\ journal \in [Txn -> Journal] /\ file \in [Path -> Content]
      /\ Agreed /\ Ordered /\ Current \in Path
  BY DEF TypeOK, Recoverable
<1>1. edits = 0
  BY QuietStep
<1>. SUFFICES ASSUME NEW t \in Txn, journal'[t].state \in {"applying", "activated"},
                     Current \in Entries(journal'[t]),
                     file'[Current] = journal'[t].after[Current]
              PROVE  \A p \in Entries(journal'[t]) : file'[p] = journal'[t].after[p]
  BY DEF ActivationLast, Complete, Entries
<1>2. SamePlan(journal'[t], journal[t])
  <2>1. CASE WriteJournal
    <3>1. t # tx
      BY <1>0, <2>1 DEF WriteJournal, Record, WriteAhead
    <3>2. journal'[t] = journal[t]
      BY <1>0, <2>1, <3>1 DEF WriteJournal, Record
    <3>. QED
      BY <3>2 DEF SamePlan
  <2>2. CASE ~WriteJournal
    BY <1>0, <2>2, JournalStep
  <2>. QED
    BY <2>1, <2>2
<1>3. /\ Current \in Entries(journal[t]) /\ Entries(journal'[t]) = Entries(journal[t])
      /\ file'[Current] = journal[t].after[Current]
      /\ journal'[t].after = journal[t].after
  BY <1>2 DEF SamePlan, Entries
<1>4. CASE RecordApplying /\ t = tx
  <2>1. file = mem.before /\ UNCHANGED file /\ SamePlan(journal[t], mem)
    BY <1>0, <1>4 DEF RecordApplying, Written, Agreed
  <2>. QED
    BY <1>3, <2>1 DEF SamePlan, Entries
<1>5. CASE journal[t].state \in {"applying", "activated"}
  <2>1. CASE UNCHANGED file
    BY <1>1, <1>3, <1>5, <2>1 DEF ActivationLast, Complete
  <2>2. ASSUME NEW q \in Path, WriteEntry(q)
        PROVE  \A p \in Entries(journal[t]) : file'[p] = journal[t].after[p]
    <3>1. /\ pc = "entries" /\ q \in todo /\ (q = Current => todo = {Current})
          /\ file' = [file EXCEPT ![q] = mem.after[q]]
      BY <2>2 DEF WriteEntry, NextEntry
    <3>2. t = tx /\ SamePlan(journal[t], mem)
      BY <1>0, <1>5, <3>1 DEF WriteAhead, Agreed, OneUnfinished, Forward
    <3>3. CASE q = Current
      BY <1>0, <3>1, <3>2, <3>3 DEF Written, SamePlan, Entries
    <3>4. CASE q # Current
      <4>1. Complete(t)
        BY <1>0, <1>1, <1>3, <1>5, <3>1, <3>4 DEF ActivationLast
      <4>. QED
        BY <1>0, <3>1, <3>2, <4>1 DEF Complete, SamePlan, Entries
    <3>. QED
      BY <3>3, <3>4
  <2>3. ASSUME NEW q \in Path, RestoreEntry(q)
        PROVE  \A p \in Entries(journal[t]) : file'[p] = journal[t].after[p]
    BY <1>0, <1>1, <1>3, <1>5, <2>3, RestoreCompletes
  <2>. QED
    BY <1>3, <2>1, <2>2, <2>3, QuietFiles
<1>. QED
  BY <1>4, <1>5, Activates

-----------------------------------------------------------------------------
(* The theorems                                                            *)

LEMMA AtomicityInit == Init => Untouched /\ CoresOwned /\ ActivationLast
<1>. SUFFICES ASSUME Init PROVE Untouched /\ CoresOwned /\ ActivationLast
  OBVIOUS
<1>0. /\ pc = "idle" /\ \A t \in Txn : journal[t].state = "none"
  BY DEF Init, NoJournal
<1>1. PICK k \in Kit, also \in SUBSET Release :
        /\ file = [p \in Path |->
             IF \/ p \in Project \ Retired /\ k # NoKit
                \/ p \in Retired /\ k = Legacy
                \/ p = Current /\ k \in Release
             THEN IF p \in Inside /\ k = Legacy THEN Absent ELSE KitFile(k)
             ELSE Absent]
        /\ k \notin Release => also = {}
        /\ core = [q \in Release |-> [n \in Member |->
                     IF q = k \/ q \in also THEN "good" ELSE "absent"]]
  BY DEF Init, Kit
<1>2. Settled
  <2>1. \A p \in Path : file[p] = Whole(k)[p]
    <3>1. Absent = KitFile(NoKit) /\ NoKit # Legacy /\ NoKit \notin Release
          /\ Legacy \notin Release
      BY DEF Absent, KitFile, NoKit, Legacy
    <3>2. Current \notin Project /\ Retired \subseteq Project /\ Inside \cap Retired = {}
          /\ Inside \subseteq Project
      BY PathAssumption DEF Project
    <3>. QED
      BY <1>1, <3>1, <3>2 DEF Whole, Kit
  <2>2. file = [p \in Path |-> file[p]] /\ Whole(k) = [p \in Path |-> Whole(k)[p]]
    BY <1>1 DEF Whole
  <2>3. file = Whole(k)
    BY <2>1, <2>2
  <2>. QED
    BY <2>3 DEF Settled
<1>3. PlansWhole /\ Written
  BY <1>0 DEF PlansWhole, Written, RollbackSteps
<1>4. Undamaged
  BY <1>1 DEF Undamaged
<1>5. ActivationLast
  BY <1>0 DEF ActivationLast
<1>6. CoresOwned
  <2>1. ASSUME NEW r \in Release, Exists(r) PROVE HasRelease
    <3>1. k \in Release
      BY <1>1, <2>1 DEF Exists
    <3>2. file[Current] = KitFile(k)
      BY <1>1, <3>1, PathAssumption DEF Project, Legacy
    <3>. QED
      BY <1>0, <3>1, <3>2 DEF HasRelease, Selected, KitFile, Live
  <2>. QED
    BY <1>0, <2>1 DEF CoresOwned
<1>. QED
  BY <1>2, <1>3, <1>4, <1>5, <1>6 DEF Untouched

Atomic == Untouched /\ CoresOwned /\ ActivationLast

LEMMA AtomicStep ==
  ASSUME TypeOK, WriteAhead, Recoverable, OneUnfinished, Atomic, [Next]_vars
  PROVE  Atomic'
<1>1. CoresOwned'
  BY CoresOwnedStep DEF Atomic
<1>2. CASE edits' = 0
  <2>1. edits = 0
    BY <1>2, QuietStep
  <2>2. PlansWhole /\ Settled /\ Written /\ Undamaged /\ ActivationLast
        /\ Agreed /\ Ordered
    BY <2>1 DEF Atomic, Untouched, Recoverable
  <2>3. PlansWhole' /\ Settled' /\ Written' /\ Undamaged'
    BY <1>2, <2>2, PlansWholeStep, SettledStep, WrittenStep, UndamagedStep
  <2>4. ActivationLast'
    BY <1>2, <2>2, ActivationStep
  <2>. QED
    BY <1>1, <2>3, <2>4 DEF Atomic, Untouched
<1>3. CASE edits' # 0
  BY <1>1, <1>3 DEF Atomic, Untouched, ActivationLast
<1>. QED
  BY <1>2, <1>3

LEMMA AtomicHolds == Spec => []Atomic
<1>1. Init => Atomic
  BY AtomicityInit DEF Atomic
<1>2. TypeOK /\ WriteAhead /\ Recoverable /\ OneUnfinished /\ Atomic /\ [Next]_vars
        => Atomic'
  BY AtomicStep
<1>. QED
  BY <1>1, <1>2, Typing, WriteAheadHolds, RecoverableHolds, ChangesFollowOneAnother, PTL
  DEF Spec

\* current.json goes last: while nobody edits, a change that is not finished and
\* whose current.json is already the new one has every other file at its new
\* version, so that kit recover may complete it.
THEOREM ActivationIsLast == Spec => []ActivationLast
BY AtomicHolds, PTL DEF Atomic

\* A project in which no change waits is the kit of one version, core included.
LEMMA WholeKit ==
  ASSUME TypeOK, Recoverable, Atomic PROVE AllOrNothing
<1>. SUFFICES ASSUME edits = 0, \A t \in Txn : ~Open(t)
              PROVE  \E k \in Kit : KitIs(k)
  BY DEF AllOrNothing, Kit
<1>0. /\ Settled /\ Undamaged /\ CoresOwned /\ Upgrades /\ Ordered /\ SelectedCorePresent
      /\ core \in [Release -> [Member -> MemberState]]
  BY DEF Atomic, Untouched, Recoverable, TypeOK
<1>1. PICK k \in Kit : file = Whole(k)
  BY <1>0 DEF Settled
<1>2. /\ file[Current] = IF k \in Release THEN KitFile(k) ELSE Absent
      /\ \A p \in Project \ Retired :
           file[p] = IF p \in Inside /\ k = Legacy THEN Absent ELSE KitFile(k)
      /\ \A p \in Retired : file[p] = IF k = Legacy THEN KitFile(k) ELSE Absent
  BY <1>1, PathAssumption DEF Whole, Project
<1>3. CASE k \in Release
  <2>1. Selected = k
    BY <1>2, <1>3 DEF Selected, KitFile
  <2>2. ASSUME NEW m \in Member PROVE core[k][m] = "good"
    <3>1. core[k][m] \in MemberState /\ core[k][m] # "absent" /\ core[k][m] # "bad"
      BY <1>0, <1>3, <2>1 DEF SelectedCorePresent, Undamaged
    <3>. QED
      BY <3>1 DEF MemberState
  <2>. QED
    BY <1>2, <1>3, <2>2 DEF KitIs, Intact
<1>4. CASE k \notin Release
  <2>1. Selected = NoKit
    BY <1>2, <1>4 DEF Selected, Absent
  <2>2. ASSUME NEW r \in Release, Exists(r) PROVE FALSE
    <3>1. PICK t \in Txn : Live(t) /\ journal[t].core # "reused" /\ journal[t].rel = r
      BY <1>0, <2>1, <2>2 DEF CoresOwned, HasRelease, NoKit
    <3>2. journal[t].state = "applied"
      BY <3>1 DEF Live, Open, Terminal
    <3>3. Moves(journal[t])
      <4>1. Upgrade(journal[t])
        BY <1>0 DEF Upgrades
      <4>2. PICK l \in {NoKit} \cup Release :
              l < r /\ journal[t].before[Current] = KitFile(l)
        BY <3>1, <4>1 DEF Upgrade
      <4>3. journal[t].after[Current] = KitFile(r) /\ l # r
        BY <3>1, <4>1, <4>2 DEF Upgrade, NoKit
      <4>. QED
        BY <4>2, <4>3 DEF Moves, KitFile
    <3>4. r <= NoKit
      BY <1>0, <2>1, <3>1, <3>2, <3>3 DEF Ordered, AppliedBelow
    <3>. QED
      BY <3>4 DEF NoKit
  <2>. QED
    BY <1>2, <1>4, <2>2 DEF KitIs
<1>. QED
  BY <1>3, <1>4

\* Kit changes follow one another and each is all or nothing: while nobody edits,
\* whatever crashes, fails, is resumed or rolled back in whichever order, at most
\* one change is under way, and when none waits for recovery the project has no
\* kit, wholly the legacy one or wholly one release, its core included.
THEOREM ChangesAreAtomic == Spec => []ChangesAreSerial
<1>1. TypeOK /\ Recoverable /\ Atomic => AllOrNothing
  BY WholeKit
<1>. QED
  BY <1>1, Typing, RecoverableHolds, AtomicHolds, ChangesFollowOneAnother, PTL
  DEF ChangesAreSerial

-----------------------------------------------------------------------------
(***************************************************************************)
(* What the launcher finds (Launcher), for any number of commands and with *)
(* every kit change, crash and fault in between.                           *)
(***************************************************************************)

\* Of what release a surface is, that release's core is there: it is published
\* before the first file is written and goes after the last one is restored.
SurfacesBacked ==
  \A p \in Path \ Retired : file[p].kit \in Release => Present(file[p].kit)
RestoredFirst ==
  pc = "rb_members" => \A p \in Entries(mem) : file[p] = mem.before[p]
Backed == edits = 0 => SurfacesBacked /\ RestoredFirst

\* The files that a plan's versions give a release to are those outside Retired.
LEMMA PlanFile ==
  ASSUME NEW j, PlanWhole(j), NEW p \in Path \ Retired
  PROVE  /\ p \in Entries(j) /\ j.rel \in Release /\ j.after[p] = KitFile(j.rel)
         /\ Moves(j)
         /\ \/ j.before[p] = Absent /\ j.before[p].kit \notin Release
            \/ j.before[p].kit \notin Release
            \/ /\ Back(j) \in Release /\ Back(j) < j.rel
               /\ j.before[p] = KitFile(Back(j))
               /\ j.before[Current] = KitFile(Back(j))
<1>1. PICK k \in Kit :
        /\ k < j.rel /\ j.rel \in Release /\ j.before = Whole(k)
        /\ j.after = Whole(j.rel) /\ Moves(j)
        /\ Back(j) = IF k \in Release THEN k ELSE NoKit
        /\ Path \ Retired \subseteq Entries(j)
  BY PlanWholeFacts
<1>2. j.rel \in Kit /\ j.after[p] = KitFile(j.rel)
  BY <1>1, WholeFacts DEF Kit
<1>3. CASE k \in Release
  <2>1. Current \in Path \ Retired
    BY PathAssumption DEF Project
  <2>. QED
    BY <1>1, <1>2, <1>3, <2>1, WholeFacts
<1>4. CASE k \notin Release
  <2>1. j.before[p] \in {Absent, KitFile(k)}
    BY <1>1, <1>4, WholeFacts
  <2>2. j.before[p].kit \notin Release
    BY <1>4, <2>1 DEF Absent, KitFile, NoKit
  <2>. QED
    BY <1>1, <1>2, <2>2
<1>. QED
  BY <1>3, <1>4

LEMMA RestoredFirstStep ==
  ASSUME TypeOK, PlansWhole, Settled, Written, RestoredFirst, [Next]_vars, edits' = 0
  PROVE  RestoredFirst'
<1>. SUFFICES ASSUME pc' = "rb_members"
              PROVE  \A p \in Entries(mem') : file'[p] = mem'.before[p]
  BY DEF RestoredFirst, Entries
<1>1. CASE RemoveCore
  BY <1>1 DEF RemoveCore, Written, Entries
<1>2. CASE pc = "rb_members" /\ UNCHANGED <<mem, file>>
  BY <1>2 DEF RestoredFirst, Entries
<1>3. UNCHANGED file
  BY QuietFiles DEF WriteEntry, RestoreEntry, Goto
<1>4. CASE Environment
  BY <1>2, <1>3, <1>4
  DEF Environment, Crash, PrepareFault, ApplyFault, RollbackFault, Block, Leave, Goto,
      UserEdit, UserDelete, UserRevert, GodotEdit, TamperCore, Edited, process
<1>5. CASE ApplyStep \/ Command
  BY <1>5
  DEF ApplyStep, WriteBackup, BackupRefused, WriteJournal, JournalRefused,
      StageCore, RecordCore, RecordApplying, WriteEntry, VerifyEntry, FinishApply,
      ApplyFails, Leave, Goto, Command, ApplyBegin, ResumeForward, ResumeBack,
      Rollback, Enter, Inspect, process
<1>6. CASE RollbackStep
  BY <1>1, <1>2, <1>3, <1>6
  DEF RollbackStep, RollbackStart, RollbackRefused, SkipEntry, RestoreEntry,
      EntryConflict, RereadEntry, RereadFails, RemoveCoreRefused, RemoveMember,
      FinishRollback, RollbackUnverified, Block, Leave, Goto
<1>. QED
  BY <1>2, <1>4, <1>5, <1>6 DEF Next, vars

LEMMA SurfacesBackedStep ==
  ASSUME TypeOK, WriteAhead, Recoverable, Untouched, edits = 0, SurfacesBacked,
         RestoredFirst, [Next]_vars, edits' = 0
  PROVE  SurfacesBacked'
<1>0. /\ PlansWhole /\ Settled /\ Written /\ Upgrades /\ Agreed /\ Progress /\ Ordered
      /\ SelectedCorePresent
      /\ mem \in Journal /\ journal \in [Txn -> Journal] /\ file \in [Path -> Content]
  BY DEF Untouched, Recoverable, TypeOK
<1>. SUFFICES ASSUME NEW p \in Path \ Retired, file'[p].kit \in Release,
                     NEW n \in Member
              PROVE  core'[file'[p].kit][n] # "absent"
  BY DEF SurfacesBacked, Present
<1>1. CASE UNCHANGED file
  <2>0. core[file[p].kit][n] # "absent" /\ file[p].kit \in Release
    BY <1>1 DEF SurfacesBacked, Present
  <2>1. CASE StageCore
    BY <1>1, <2>0, <2>1 DEF StageCore, TypeOK
  <2>2. ASSUME NEW m \in Member, RemoveMember(m)
        PROVE  core'[file'[p].kit][n] # "absent"
    <3>1. pc = "rb_members" /\ PlanWhole(mem)
      BY <1>0, <2>2 DEF RemoveMember, PlansWhole
    <3>2. file[p] = mem.before[p] /\ p \in Entries(mem)
      BY <3>1, PlanFile DEF RestoredFirst
    <3>3. /\ Back(mem) \in Release /\ Back(mem) < mem.rel /\ mem.rel \in Release
          /\ file[p].kit = Back(mem)
      <4>1. mem.rel \in Release
        BY <3>1, PlanFile
      <4>2. mem.before[p].kit \in Release
        BY <2>0, <3>2
      <4>3. /\ Back(mem) \in Release /\ Back(mem) < mem.rel
            /\ mem.before[p] = KitFile(Back(mem))
        BY <3>1, <4>2, PlanFile
      <4>. QED
        BY <3>2, <4>1, <4>3 DEF KitFile
    <3>4. file[p].kit # mem.rel
      BY <3>3, BoundAssumption DEF Release
    <3>. QED
      BY <1>0, <1>1, <2>0, <2>2, <3>4, RemovesUnselected
  <2>3. CASE \A r \in Release, m \in Member :
               core'[r][m] = "absent" <=> core[r][m] = "absent"
    BY <1>1, <2>0, <2>3
  <2>. QED
    BY <2>1, <2>2, <2>3, CoreStep
<1>2. ASSUME NEW q \in Path, WriteEntry(q) PROVE core'[file'[p].kit][n] # "absent"
  <2>1. /\ pc = "entries" /\ core' = core
        /\ file' = [file EXCEPT ![q] = mem.after[q]]
    BY <1>2 DEF WriteEntry
  <2>2. CASE q = p
    <3>1. PlanWhole(mem) /\ Present(mem.rel)
      BY <1>0, <2>1 DEF PlansWhole, Progress, ApplySteps
    <3>2. file'[p] = KitFile(mem.rel)
      BY <1>0, <2>1, <2>2, <3>1, PlanFile
    <3>. QED
      BY <2>1, <3>1, <3>2 DEF KitFile, Present
  <2>3. CASE q # p
    BY <1>0, <2>1, <2>3 DEF SurfacesBacked, Present
  <2>. QED
    BY <2>2, <2>3
<1>3. ASSUME NEW q \in Path, RestoreEntry(q) PROVE core'[file'[p].kit][n] # "absent"
  <2>1. /\ pc = "rb_entries" /\ core' = core
        /\ file' = [file EXCEPT ![q] = mem.before[q]]
    BY <1>3 DEF RestoreEntry
  <2>2. CASE q = p
    <3>1. PlanWhole(mem) /\ Between(mem)
      BY <1>0, <1>3, <2>1, RestoreIsOwn DEF PlansWhole
    <3>2. file'[p] = mem.before[p]
      BY <1>0, <2>1, <2>2
    <3>3. /\ Moves(mem) /\ mem.rel \in Release /\ Back(mem) \in Release
          /\ file'[p] = KitFile(Back(mem))
          /\ mem.before[Current] = KitFile(Back(mem))
      BY <3>1, <3>2, PlanFile
    <3>4. mem.after[Current] = KitFile(mem.rel)
      <4>1. Current \in Path \ Retired
        BY PathAssumption DEF Project
      <4>. QED
        BY <3>1, <4>1, PlanFile
    <3>5. Present(Back(mem))
      <4>1. Selected \in {Back(mem), mem.rel}
        BY <3>1, <3>3, <3>4 DEF Between, Selected, KitFile
      <4>2. CASE Selected = Back(mem)
        BY <1>0, <3>3, <4>2 DEF SelectedCorePresent, Present
      <4>3. CASE Selected = mem.rel
        <5>1. tx \in Txn /\ SamePlan(journal[tx], mem) /\ Live(tx)
          BY <1>0, <2>1, OnDisk
        <5>2. Moves(journal[tx]) /\ journal[tx].rel <= Selected
              /\ Back(journal[tx]) = Back(mem)
          BY <3>3, <4>3, <5>1 DEF SamePlan, Moves, Back
        <5>. QED
          BY <1>0, <3>3, <5>1, <5>2 DEF Ordered, BackPresent
      <4>. QED
        BY <4>1, <4>2, <4>3
    <3>. QED
      BY <2>1, <3>3, <3>5 DEF KitFile, Present
  <2>3. CASE q # p
    BY <1>0, <2>1, <2>3 DEF SurfacesBacked, Present
  <2>. QED
    BY <2>2, <2>3
<1>. QED
  BY <1>0, <1>1, <1>2, <1>3, QuietFiles

LEMMA BackedHolds == Spec => []Backed
<1>1. Init => Backed
  <2>. SUFFICES ASSUME Init PROVE SurfacesBacked /\ RestoredFirst
    BY DEF Backed
  <2>1. PICK k \in Kit, also \in SUBSET Release :
          /\ file = [p \in Path |->
               IF \/ p \in Project \ Retired /\ k # NoKit
                  \/ p \in Retired /\ k = Legacy
                  \/ p = Current /\ k \in Release
               THEN IF p \in Inside /\ k = Legacy THEN Absent ELSE KitFile(k)
               ELSE Absent]
          /\ core = [q \in Release |-> [n \in Member |->
                       IF q = k \/ q \in also THEN "good" ELSE "absent"]]
    BY DEF Init, Kit
  <2>2. ASSUME NEW p \in Path, file[p].kit \in Release PROVE file[p].kit = k
    BY <2>1, <2>2 DEF KitFile, Absent, NoKit
  <2>3. RestoredFirst
    BY DEF Init, RestoredFirst
  <2>. QED
    BY <2>1, <2>2, <2>3 DEF SurfacesBacked, Present
<1>2. TypeOK /\ WriteAhead /\ Recoverable /\ Atomic /\ Backed /\ [Next]_vars => Backed'
  <2>. SUFFICES ASSUME TypeOK, WriteAhead, Recoverable, Atomic, Backed, [Next]_vars,
                       edits' = 0
                PROVE  SurfacesBacked' /\ RestoredFirst'
    BY DEF Backed
  <2>1. edits = 0
    BY QuietStep
  <2>2. /\ PlansWhole /\ Settled /\ Written /\ Untouched
        /\ SurfacesBacked /\ RestoredFirst
    BY <2>1 DEF Atomic, Untouched, Backed
  <2>. QED
    BY <2>1, <2>2, SurfacesBackedStep, RestoredFirstStep
<1>. QED
  BY <1>1, <1>2, Typing, WriteAheadHolds, RecoverableHolds, AtomicHolds, PTL DEF Spec

\* What the launcher has read so far.
LaunchShape ==
  /\ LaunchTypeOK
  /\ launch.step \in {"core", "surfaces", "entry", "config"} => launch.rel \in Release
  /\ launch.round = "kit" => launch.bound \in Release
  /\ launch.step = "core" => launch.unread \subseteq Member
  /\ launch.step = "surfaces" => launch.unread \subseteq Surfaces
\* Where nobody changed anything since the command began, it read what is there.
CalmReads ==
  edits = 0 /\ launch.calm =>
    /\ InForce
    /\ launch.step \in {"core", "surfaces", "entry", "config"} => launch.rel = Selected
    /\ launch.round = "kit" => launch.bound = Selected
LaunchInv == LaunchShape /\ CalmReads /\ LaunchSafe

\* An installed project in which no change waits is one release, core included.
LEMMA InForceKit ==
  ASSUME AllOrNothing, edits = 0, InForce
  PROVE  /\ Selected \in Release /\ Intact(Selected) /\ file[Current] = KitFile(Selected)
         /\ \A p \in Owned \cup Blocks \cup Config : file[p] = KitFile(Selected)
<1>1. PICK k \in {NoKit, Legacy} \cup Release : KitIs(k)
  BY DEF AllOrNothing, InForce
<1>2. k \in Release
  BY <1>1 DEF KitIs, InForce, Mode
<1>3. Selected = k
  BY <1>1, <1>2 DEF KitIs, Selected, KitFile
<1>4. k # Legacy /\ Owned \cup Blocks \cup Config \subseteq Project \ Retired
  BY <1>2, PathAssumption DEF Project, Legacy
<1>. QED
  BY <1>1, <1>2, <1>3, <1>4 DEF KitIs

\* The launcher's last look at a surface of release r finds r's core.
LEMMA LastLook ==
  ASSUME Recoverable, Untouched, Backed, TypeOK, edits = 0,
         NEW r \in Release, NEW p \in Surfaces, Stands(p, r)
  PROVE  Intact(r)
<1>1. p \in Path \ Retired /\ file[p].kit = r
  BY PathAssumption DEF Surfaces, Stands, KitFile, Project
<1>2. Present(r)
  BY <1>1 DEF Backed, SurfacesBacked
<1>3. ASSUME NEW m \in Member PROVE core[r][m] = "good"
  <2>1. core[r][m] \in MemberState /\ core[r][m] # "absent" /\ core[r][m] # "bad"
    BY <1>2 DEF TypeOK, Present, Untouched, Undamaged
  <2>. QED
    BY <2>1 DEF MemberState
<1>. QED
  BY <1>3 DEF Intact

LEMMA LaunchStepInv ==
  ASSUME LaunchInv, TypeOK, Recoverable, Atomic, AllOrNothing, Backed, LaunchMoves
  PROVE  LaunchInv'
<1>. USE DEF Launch, LaunchStep, Round, Reading, Turn, LooksOn, vars
<1>0. /\ launch \in Launch /\ launches \in 0 .. MaxLaunch /\ MaxLaunch \in Nat
      /\ LaunchShape /\ CalmReads /\ CheckedWhole /\ SettledLaunches
      /\ Untouched
  BY LaunchAssumption DEF LaunchInv, LaunchShape, LaunchTypeOK, LaunchSafe, Atomic
<1>1. ASSUME edits = 0, launch.calm
      PROVE  /\ Selected \in Release /\ Intact(Selected) /\ InForce
             /\ file[Current] = KitFile(Selected)
             /\ \A p \in Surfaces \cup Config : file[p] = KitFile(Selected)
             /\ Marker \in Surfaces
  BY <1>0, <1>1, InForceKit, PathAssumption DEF CalmReads, Surfaces
<1>3. UNCHANGED vars => (InForce' <=> InForce) /\ Selected' = Selected
  BY DEF InForce, Selected, Mode, Open
<1>2. CASE Begin
  <2>1. InForce \in BOOLEAN
    BY DEF InForce
  <2>2. /\ launch' = [NoLaunch EXCEPT !.step = "root", !.calm = InForce]
        /\ launches' = launches + 1 /\ launches < MaxLaunch
        /\ UNCHANGED vars
    BY <1>2 DEF Begin, Commanded
  <2>3. launches' \in 0 .. MaxLaunch
    BY <1>0, <2>2
  <2>4. /\ launch' = [step |-> "root", round |-> "launcher", rel |-> NoKit,
                      bound |-> NoKit, unread |-> {}, checked |-> FALSE,
                      calm |-> InForce]
    BY <2>2 DEF NoLaunch
  <2>5. launch' \in Launch
    BY <2>1, <2>4
  <2>6. launch'.step = "root" /\ launch'.round = "launcher" /\ launch'.calm = InForce
    BY <2>4
  <2>7. launch'.calm => InForce'
    BY <1>3, <2>2, <2>6
  <2>. HIDE DEF Launch
  <2>8. LaunchShape'
    BY <2>3, <2>5, <2>6 DEF LaunchShape, LaunchTypeOK
  <2>9. CalmReads' /\ LaunchSafe'
    BY <2>6, <2>7 DEF CalmReads, LaunchSafe, CheckedWhole, SettledLaunches
  <2>. QED
    BY <2>8, <2>9 DEF LaunchInv
<1>4. ASSUME NEW s \in LaunchStep, Turn(s), LooksOn,
             s \in {"core", "surfaces", "entry", "config"} =>
               launch.step \in {"core", "surfaces", "entry", "config"},
             s = "surfaces" => launch.step = "surfaces",
             s = "core" => launch.step = "core",
             s \in {"entry", "config", "running"} =>
               launch.step \in {"entry", "config", "running"},
             s = "refused" => ~(edits = 0 /\ launch.calm)
      PROVE  LaunchInv'
  BY <1>0, <1>3, <1>4 DEF LaunchInv, LaunchShape, LaunchTypeOK, CalmReads, LaunchSafe,
    CheckedWhole, SettledLaunches
<1>5. CASE Locate
  <2>1. file[Marker] = Absent => ~(edits = 0 /\ launch.calm)
    BY <1>1 DEF KitFile, Absent, NoKit
  <2>. QED
    BY <1>4, <1>5, <2>1 DEF Locate
<1>6. CASE SelectMode
  <2>1. edits = 0 /\ launch.calm => Managed
    BY <1>1 DEF Managed, KitFile, Absent, NoKit
  <2>. QED
    BY <1>4, <1>6, <2>1 DEF SelectMode
<1>7. CASE ReadRecord
  <2>1. CASE Selected \in Release /\ file[Current] = KitFile(Selected)
    <3>1. launch' = [launch EXCEPT !.step = "core", !.rel = Selected, !.unread = Member]
          /\ LooksOn
      BY <1>7, <2>1 DEF ReadRecord
    <3>. QED
      BY <1>0, <1>3, <2>1, <3>1 DEF LaunchInv, LaunchShape, LaunchTypeOK, CalmReads,
        LaunchSafe, CheckedWhole, SettledLaunches
  <2>2. CASE ~(Selected \in Release /\ file[Current] = KitFile(Selected))
    BY <1>1, <1>4, <1>7, <2>2 DEF ReadRecord
  <2>. QED
    BY <2>1, <2>2
<1>8. ASSUME NEW m \in Member, ReadMember(m) PROVE LaunchInv'
  <2>1. CASE launch.unread = {m}
    <3>1. launch' = [launch EXCEPT !.step = "surfaces", !.unread = Surfaces] /\ LooksOn
      BY <1>8, <2>1 DEF ReadMember
    <3>2. Surfaces \subseteq Path /\ launch.step = "core"
      BY <1>8 DEF Surfaces, Project, ReadMember
    <3>. QED
      BY <1>0, <1>3, <3>1, <3>2 DEF LaunchInv, LaunchShape, LaunchTypeOK, CalmReads,
        LaunchSafe, CheckedWhole, SettledLaunches
  <2>2. CASE launch.unread # {m}
    <3>1. launch' = [launch EXCEPT !.unread = @ \ {m}] /\ LooksOn /\ launch.step = "core"
      BY <1>8, <2>2 DEF ReadMember
    <3>. QED
      BY <1>0, <1>3, <3>1 DEF LaunchInv, LaunchShape, LaunchTypeOK, CalmReads,
        LaunchSafe, CheckedWhole, SettledLaunches
  <2>. QED
    BY <2>1, <2>2
<1>9. CASE MemberRefused
  <2>1. launch.step = "core" /\ edits = 0 /\ launch.calm =>
          \A m \in Member : core[launch.rel][m] = "good"
    BY <1>0, <1>1 DEF CalmReads, Intact
  <2>2. launch.step = "core" => launch.unread \subseteq Member
    BY <1>0 DEF LaunchShape
  <2>3. ~(edits = 0 /\ launch.calm)
    BY <1>9, <2>1, <2>2 DEF MemberRefused, CoreListed
  <2>. QED
    BY <1>4, <1>9, <2>3 DEF MemberRefused
<1>10. ASSUME NEW p \in Surfaces, ReadSurface(p) PROVE LaunchInv'
  <2>0. launch.step = "surfaces" /\ launch.rel \in Release
    BY <1>0, <1>10 DEF ReadSurface, LaunchShape
  <2>1. CASE launch.unread = {p}
    <3>1. /\ launch' = [launch EXCEPT !.step = Accepted, !.unread = {},
                                      !.checked = Intact(launch.rel)]
          /\ LooksOn
      BY <1>10, <2>1 DEF ReadSurface
    <3>2. edits = 0 => Intact(launch.rel)
      BY <1>0, <1>10, <2>0, LastLook DEF ReadSurface
    <3>3. Accepted \in {"entry", "config", "refused"}
      BY DEF Accepted
    <3>4. edits = 0 /\ launch.calm => Accepted # "refused"
      BY <1>0, <2>0 DEF Accepted, CalmReads
    <3>5. Intact(launch.rel) \in BOOLEAN
      BY DEF Intact
    <3>. QED
      BY <1>0, <1>3, <2>0, <3>1, <3>2, <3>3, <3>4, <3>5
      DEF LaunchInv, LaunchShape, LaunchTypeOK, CalmReads, LaunchSafe, CheckedWhole,
          SettledLaunches
  <2>2. CASE launch.unread # {p}
    <3>1. launch' = [launch EXCEPT !.unread = @ \ {p}] /\ LooksOn
      BY <1>10, <2>2 DEF ReadSurface
    <3>. QED
      BY <1>0, <1>3, <2>0, <3>1 DEF LaunchInv, LaunchShape, LaunchTypeOK, CalmReads,
        LaunchSafe, CheckedWhole, SettledLaunches
  <2>. QED
    BY <2>1, <2>2
<1>11. CASE SurfaceRefused
  <2>1. launch.step = "surfaces" /\ launch.unread \subseteq Surfaces
    BY <1>0, <1>11 DEF SurfaceRefused, LaunchShape
  <2>2. edits = 0 /\ launch.calm => \A p \in Surfaces : Stands(p, launch.rel)
    BY <1>0, <1>1, <2>1 DEF CalmReads, Stands, KitFile
  <2>3. ~(edits = 0 /\ launch.calm)
    BY <1>11, <2>1, <2>2 DEF SurfaceRefused
  <2>. QED
    BY <1>4, <1>11, <2>3 DEF SurfaceRefused
<1>12. CASE Start
  <2>1. /\ launch' = [NoLaunch EXCEPT !.step = "root", !.round = "kit",
                        !.bound = launch.rel, !.calm = launch.calm]
        /\ LooksOn /\ launch.step = "entry"
    BY <1>12 DEF Start
  <2>. QED
    BY <1>0, <1>3, <2>1 DEF NoLaunch, LaunchInv, LaunchShape, LaunchTypeOK, CalmReads,
      LaunchSafe, CheckedWhole, SettledLaunches
<1>13. CASE EntryGone
  <2>1. launch.step = "entry" /\ \E m \in Member : core[launch.rel][m] = "absent"
    BY <1>13 DEF EntryGone
  <2>2. ~(edits = 0 /\ launch.calm)
    BY <1>0, <1>1, <2>1 DEF CalmReads, Intact
  <2>. QED
    BY <1>4, <1>13, <2>2 DEF EntryGone
<1>14. CASE ReadConfig
  <2>1. edits = 0 /\ launch.calm => \A p \in Config : file[p] # Absent
    BY <1>1 DEF KitFile, Absent, NoKit
  <2>. QED
    BY <1>4, <1>14, <2>1 DEF ReadConfig
<1>15. CASE Return
  BY <1>0, <1>3, <1>15 DEF Return, NoLaunch, LaunchInv, LaunchShape, LaunchTypeOK,
    CalmReads, LaunchSafe, CheckedWhole, SettledLaunches
<1>. QED
  BY <1>2, <1>5, <1>6, <1>7, <1>8, <1>9, <1>10, <1>11, <1>12, <1>13, <1>14, <1>15
  DEF LaunchMoves

LEMMA ChangeStepInv ==
  ASSUME LaunchInv, TypeOK, ChangeMoves
  PROVE  LaunchInv'
<1>1. /\ launch \in Launch /\ launch' = [launch EXCEPT !.calm = FALSE]
      /\ launches' = launches
  BY DEF ChangeMoves, LaunchInv, LaunchShape, LaunchTypeOK
<1>2. edits' = 0 => edits = 0
  BY QuietStep DEF ChangeMoves
<1>. QED
  BY <1>1, <1>2 DEF LaunchInv, LaunchShape, LaunchTypeOK, CalmReads, LaunchSafe,
    CheckedWhole, SettledLaunches, Launch

\* A project that a command looks at meanwhile changes as it would without.
LEMMA LaunchIsChange == LaunchSpec => Spec
<1>1. [LaunchNext]_<<vars, launchVars>> => [Next]_vars
  BY DEF LaunchNext, LaunchMoves, ChangeMoves, Begin, Locate, SelectMode, ReadRecord,
    ReadMember, MemberRefused, ReadSurface, SurfaceRefused, Start, EntryGone,
    ReadConfig, Return, LooksOn, vars
<1>. QED
  BY <1>1, PTL DEF LaunchSpec, Spec

LEMMA LaunchInvHolds == LaunchSpec => []LaunchInv
<1>1. Init /\ LaunchInit => LaunchInv
  BY LaunchAssumption DEF LaunchInit, NoLaunch, LaunchInv, LaunchShape, LaunchTypeOK,
    Launch, LaunchStep, Round, CalmReads, LaunchSafe, CheckedWhole, SettledLaunches
<1>2. ASSUME LaunchInv, TypeOK, Recoverable, Atomic, AllOrNothing, Backed,
             [LaunchNext]_<<vars, launchVars>>
      PROVE  LaunchInv'
  <2>1. CASE UNCHANGED <<vars, launchVars>>
    BY <1>2, <2>1 DEF vars, launchVars, LaunchInv, LaunchShape, LaunchTypeOK, CalmReads,
      LaunchSafe, CheckedWhole, SettledLaunches, InForce, Selected, Mode, Open
  <2>. QED
    BY <1>2, <2>1, LaunchStepInv, ChangeStepInv DEF LaunchNext
<1>3. Spec => [](TypeOK /\ Recoverable /\ Atomic /\ AllOrNothing /\ Backed)
  BY Typing, RecoverableHolds, AtomicHolds, BackedHolds, WholeKit, PTL
<1>. QED
  BY <1>1, <1>2, <1>3, LaunchIsChange, PTL DEF LaunchSpec

\* What the launcher and the process it starts have read is always of the kinds
\* above.
THEOREM LaunchTyping == LaunchSpec => []LaunchTypeOK
BY LaunchInvHolds, PTL DEF LaunchInv, LaunchShape

\* A command that got through all of its looks found a whole core at the last one,
\* whatever changes came in between; and in an installed project that nobody
\* changes it does get through.
THEOREM LaunchesAreSafe == LaunchSpec => []LaunchSafe
BY LaunchInvHolds, PTL DEF LaunchInv
=============================================================================
