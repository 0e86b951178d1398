----------------------------- MODULE PlanDecision -----------------------------
(***************************************************************************)
(* How one decision on the plan reaches the disk (src/tools/cockpit.py).   *)
(*                                                                         *)
(* A decision changes several files that agents and editors also write: a  *)
(* private receipt, the design section, project.shape.json, proposal.json. *)
(* It is made on the page a human opened earlier, inside a guard file that *)
(* serialises the processes of the cockpit, and written through a journal  *)
(* that the next process to come by rolls back.  The guard is a file made  *)
(* with O_EXCL and stamped with a process id afterwards, so that a waiting *)
(* process may take it for abandoned while its maker is about to stamp it. *)
(*                                                                         *)
(* A content is what went into it: the decisions it carries and the edits  *)
(* it holds.  What a decision says is the matter of Authority.             *)
(***************************************************************************)
EXTENDS Naturals, Sequences

CONSTANTS Process,      \* cockpit processes
          MaxDecision,  \* decisions that reach the journal in a behaviour
          MaxEdit,      \* edits by agents and editors
          MaxMishap,    \* processes killed, writes or removals that fail
          MaxSteal      \* guards taken from a process that lives

ASSUME DecisionAssumption ==
  /\ "none" \notin Process /\ "dead" \notin Process
  /\ {MaxDecision, MaxEdit, MaxMishap, MaxSteal} \subseteq Nat

VARIABLES
  at,       \* where each process is; a killed one starts again at "idle"
  call,     \* what it holds in memory
  disk,     \* the content of each file
  journal,  \* plan-decision-transaction.json
  guard,    \* plan-decision.lock: who made it, and whether it is stamped
  basis,    \* history: what each decision was made on
  told,     \* history: the decisions a human was told are recorded
  quiet,    \* history: the edits made while no process was inside the guard
  left      \* edits, mishaps and thefts still allowed, and whether one was stolen

decisionVars == <<at, call, disk, journal, guard, basis, told, quiet, left>>

File     == {"receipt", "design", "shape", "proposal"}
Edited   == File \ {"receipt"}
\* The order in which record_plan_decision replaces them.
Place    == [receipt |-> 1, design |-> 2, shape |-> 3, proposal |-> 4]
WriteFirst(files)   == {f \in files : \A g \in files : Place[f] <= Place[g]}
RestoreFirst(files) == {f \in files : \A g \in files : Place[g] <= Place[f]}
Blank    == [made |-> {}, edits |-> {}]
Nothing  == [f \in {} |-> Blank]
NoGuard  == [by |-> "none", stamped |-> FALSE]
NoJournal == [state |-> "none"]
NoCall   == [goal |-> "view", page |-> Nothing, read |-> Nothing, original |-> Nothing,
             number |-> 0, todo |-> {}]

Inside == {"stamp", "recover", "restore", "drop", "parse", "bytes", "compare", "prepare",
           "originals", "check", "log", "write", "verify", "commit", "finish", "unlock"}
AtRest == \A p \in Process : at[p] \notin Inside

Go(p, where) == at' = [at EXCEPT ![p] = where]
Holding(p, where) == at[p] = where
Spend(what) == left[what] > 0 /\ left' = [left EXCEPT ![what] = @ - 1]

\* The files a call replaces are those whose original bytes it holds.
Touch(p) == DOMAIN call[p].original

(***************************************************************************)
(* The guard: _decision_process_guard.                                     *)
(***************************************************************************)

\* The page of the plan; a journal that was left behind is settled first.
Open(p) ==
  /\ Holding(p, "idle")
  /\ call' = [call EXCEPT ![p].goal = "view"]
  /\ Go(p, IF journal = NoJournal THEN "look" ELSE "enter")
  /\ UNCHANGED <<disk, journal, guard, basis, told, quiet, left>>

Look(p) ==
  /\ Holding(p, "look")
  /\ call' = [call EXCEPT ![p].page = [f \in Edited |-> disk[f]]]
  /\ Go(p, "reading")
  /\ UNCHANGED <<disk, journal, guard, basis, told, quiet, left>>

\* The human decides on the page, or leaves it.
Decide(p) ==
  /\ Holding(p, "reading")
  /\ call' = [call EXCEPT ![p].goal = "decide"]
  /\ Go(p, "enter")
  /\ UNCHANGED <<disk, journal, guard, basis, told, quiet, left>>

Leave(p) ==
  /\ at[p] \in {"reading", "enter"}
  /\ at[p] = "enter" => guard.by \in Process /\ guard.stamped     \* decision_busy
  /\ Go(p, "idle")
  /\ call' = [call EXCEPT ![p] = NoCall]
  /\ UNCHANGED <<disk, journal, guard, basis, told, quiet, left>>

Enter(p) ==
  /\ Holding(p, "enter")
  /\ guard = NoGuard
  /\ guard' = [by |-> p, stamped |-> FALSE]
  /\ Go(p, "stamp")
  /\ UNCHANGED <<call, disk, journal, basis, told, quiet, left>>

Stamp(p) ==
  /\ Holding(p, "stamp")
  /\ guard' = [guard EXCEPT !.stamped = guard.by = p]
  /\ Go(p, "recover")
  /\ UNCHANGED <<call, disk, journal, basis, told, quiet, left>>

\* An owner that cannot be read counts as dead, like one that is.
Suspect(p) ==
  /\ Holding(p, "enter")
  /\ guard # NoGuard
  /\ guard.by = "dead" \/ ~guard.stamped
  /\ Go(p, "remove")
  /\ UNCHANGED <<call, disk, journal, guard, basis, told, quiet, left>>

\* Whatever guard is there by now is removed.
TakeAway(p) ==
  /\ Holding(p, "remove")
  /\ IF guard.by \in Process
     THEN left.steal > 0 /\ left' = [left EXCEPT !.steal = @ - 1, !.stolen = TRUE]
     ELSE UNCHANGED left
  /\ guard' = NoGuard
  /\ Go(p, "enter")
  /\ UNCHANGED <<call, disk, journal, basis, told, quiet>>

Unlock(p) ==
  /\ Holding(p, "unlock")
  /\ guard' = NoGuard
  /\ Go(p, IF call[p].goal = "view" THEN "look" ELSE "idle")
  /\ call' = [call EXCEPT ![p] = NoCall]
  /\ UNCHANGED <<disk, journal, basis, told, quiet, left>>

\* An error leaves the guard; the page that needed the journal settled fails too.
Fail(p) ==
  /\ call' = [call EXCEPT ![p] = [NoCall EXCEPT !.goal = "failed"]]
  /\ Go(p, "unlock")

(***************************************************************************)
(* Recovery: _recover_decision_transaction_locked.                         *)
(***************************************************************************)

\* Every file is one of its two versions, and the later one once committed.
Recoverable ==
  \A f \in DOMAIN journal.before :
    \/ disk[f] = journal.after[f]
    \/ disk[f] = journal.before[f] /\ journal.state = "prepared"

Settled(p) ==
  CASE call[p].goal = "view"   -> "unlock"
    [] call[p].goal = "decide" -> "parse"
    [] OTHER                   -> "unlock"

Recover(p) ==
  /\ Holding(p, "recover")
  /\ UNCHANGED <<disk, journal, guard, basis, told, quiet, left>>
  /\ \/ journal = NoJournal /\ Go(p, Settled(p)) /\ UNCHANGED call
     \/ journal # NoJournal /\ ~Recoverable /\ Fail(p)       \* recovery_conflict
     \/ /\ journal # NoJournal /\ Recoverable
        /\ Go(p, IF journal.state = "prepared" THEN "restore" ELSE "drop")
        /\ call' = [call EXCEPT ![p].todo = DOMAIN journal.before,
                                ![p].read = Nothing, ![p].original = journal.before]

\* Mutant: the file written last is taken for unwritten.
RestoreOneLess(p) ==
  /\ Holding(p, "restore")
  /\ \E f \in RestoreFirst(call[p].todo) :
       /\ disk' = IF call[p].todo = Touch(p) THEN disk
                  ELSE [disk EXCEPT ![f] = call[p].original[f]]
       /\ call' = [call EXCEPT ![p].todo = @ \ {f}]
       /\ Go(p, IF call[p].todo = {f} THEN "drop" ELSE "restore")
  /\ UNCHANGED <<journal, guard, basis, told, quiet, left>>

\* The files are put back one at a time, the last one first.
Restore(p) ==
  /\ Holding(p, "restore")
  /\ \E f \in RestoreFirst(call[p].todo) :
       /\ disk' = [disk EXCEPT ![f] = call[p].original[f]]
       /\ call' = [call EXCEPT ![p].todo = @ \ {f}]
       /\ Go(p, IF call[p].todo = {f} THEN "drop" ELSE "restore")
  /\ UNCHANGED <<journal, guard, basis, told, quiet, left>>

Drop(p) ==
  /\ Holding(p, "drop")
  /\ journal' = NoJournal
  /\ call' = [call EXCEPT ![p].original = Nothing, ![p].number = 0, ![p].todo = {}]
  /\ Go(p, Settled(p))
  /\ UNCHANGED <<disk, guard, basis, told, quiet, left>>

RecoveryFails(p) ==
  /\ at[p] \in {"restore", "drop"}
  /\ Spend("mishap")
  /\ Fail(p)
  /\ UNCHANGED <<disk, journal, guard, basis, told, quiet>>

(***************************************************************************)
(* The decision: record_plan_decision, then _transactional_replace.        *)
(***************************************************************************)

\* The proposal is parsed in one read and its bytes are kept by another.
Parse(p) ==
  /\ Holding(p, "parse")
  /\ call' = [call EXCEPT ![p].read = [f \in {"proposal", "receipt"} |-> disk[f]],
                          ![p].original = [f \in {"receipt"} |-> disk[f]]]
  /\ Go(p, "bytes")
  /\ UNCHANGED <<disk, journal, guard, basis, told, quiet, left>>

Bytes(p) ==
  /\ Holding(p, "bytes")
  /\ call' = [call EXCEPT
       ![p].read = [f \in {"proposal", "receipt", "shape"} |->
                      IF f = "shape" THEN disk[f] ELSE call[p].read[f]],
       ![p].original = [f \in {"receipt", "proposal"} |->
                          IF f = "proposal" THEN disk[f] ELSE call[p].original[f]]]
  /\ Go(p, "compare")
  /\ UNCHANGED <<disk, journal, guard, basis, told, quiet, left>>

\* Mutant: only the proposal is compared with the page.
SameProposal(p) == call[p].read["proposal"] = call[p].page["proposal"]

\* The digest is of the parsed proposal, and of the other files as they are now.
SameAsPage(p) ==
  /\ call[p].read["proposal"] = call[p].page["proposal"]
  /\ \A f \in {"shape", "design"} : disk[f] = call[p].page[f]

Compare(p) ==
  /\ Holding(p, "compare")
  /\ IF SameAsPage(p)
       THEN /\ call' = [call EXCEPT ![p].original = [f \in {"receipt", "proposal", "shape"} |->
                           IF f = "shape" THEN disk[f] ELSE call[p].original[f]]]
            /\ Go(p, "prepare")
       ELSE Fail(p)                                            \* stale_plan
  /\ UNCHANGED <<disk, journal, guard, basis, told, quiet, left>>

\* A ruling on the design reads the section, which must be the one reviewed;
\* asking for changes does not, and may find nothing to add to the shape.
Prepare(p) ==
  /\ Holding(p, "prepare")
  /\ \/ \E touch \in {{"receipt", "proposal"}, {"receipt", "shape", "proposal"}, File} :
          /\ "design" \in touch => disk["design"] = call[p].page["design"]
          /\ call' = [call EXCEPT ![p].read =
               [f \in touch |-> IF f = "design" THEN disk[f] ELSE call[p].read[f]]]
          /\ Go(p, "originals")
     \/ Fail(p)                          \* stale, malformed or not approvable
  /\ UNCHANGED <<disk, journal, guard, basis, told, quiet, left>>

Originals(p) ==
  /\ Holding(p, "originals")
  /\ call' = [call EXCEPT ![p].original = [f \in DOMAIN call[p].read |->
                             IF f = "design" THEN disk[f] ELSE call[p].original[f]]]
  /\ Go(p, "check")
  /\ UNCHANGED <<disk, journal, guard, basis, told, quiet, left>>

Check(p) ==
  /\ Holding(p, "check")
  /\ IF \A f \in Touch(p) : disk[f] = call[p].original[f]
       THEN Go(p, "log") /\ UNCHANGED call
       ELSE Fail(p)                                            \* decision_conflict
  /\ UNCHANGED <<disk, journal, guard, basis, told, quiet, left>>

\* From here on the page is done with, and what was read is what will be written.
Log(p) ==
  /\ Holding(p, "log")
  /\ Spend("decision")
  /\ LET n     == Len(basis) + 1
         after == [f \in Touch(p) |-> [call[p].read[f] EXCEPT !.made = @ \cup {n}]]
     IN  /\ call' = [call EXCEPT ![p].number = n, ![p].todo = Touch(p), ![p].page = Nothing,
                                 ![p].read = after]
         /\ basis' = Append(basis, [touch |-> Touch(p), seen |->
              \A f \in Touch(p) \ {"receipt"} : call[p].read[f] = call[p].page[f]])
         /\ journal' = [state |-> "prepared", before |-> call[p].original, after |-> after]
  /\ Go(p, "write")
  /\ UNCHANGED <<disk, guard, told, quiet>>

Write(p) ==
  /\ Holding(p, "write")
  /\ \E f \in WriteFirst(call[p].todo) :
       /\ disk' = [disk EXCEPT ![f] = call[p].read[f]]
       /\ call' = [call EXCEPT ![p].todo = @ \ {f}]
       /\ Go(p, IF call[p].todo = {f} THEN "verify" ELSE "write")
  /\ UNCHANGED <<journal, guard, basis, told, quiet, left>>

\* Any failure from here on goes through recovery and is reported as undone.
Undo(p) == call' = [call EXCEPT ![p].goal = "undo"] /\ Go(p, "recover")

Verify(p) ==
  /\ Holding(p, "verify")
  /\ IF \A f \in Touch(p) : disk[f] = call[p].read[f]
       THEN Go(p, "commit") /\ UNCHANGED call
       ELSE Undo(p)
  /\ UNCHANGED <<disk, journal, guard, basis, told, quiet, left>>

Commit(p) ==
  /\ Holding(p, "commit")
  /\ journal' = [state |-> "committed", before |-> call[p].original, after |-> call[p].read]
  /\ Go(p, "finish")
  /\ UNCHANGED <<call, disk, guard, basis, told, quiet, left>>

Finish(p) ==
  /\ Holding(p, "finish")
  /\ journal' = NoJournal
  /\ told' = told \cup {call[p].number}
  /\ Go(p, "unlock")
  /\ UNCHANGED <<call, disk, guard, basis, quiet, left>>

WriteFails(p) ==
  /\ at[p] \in {"log", "write", "commit", "finish"}
  /\ Spend("mishap")
  /\ IF at[p] = "log" THEN Fail(p) ELSE Undo(p)
  /\ UNCHANGED <<disk, journal, guard, basis, told, quiet>>

(***************************************************************************)
(* The world: editors and agents write, processes are killed.              *)
(***************************************************************************)

Edit(f) ==
  /\ Spend("edit")
  /\ disk' = [disk EXCEPT ![f].edits = @ \cup {left.edit}]
  /\ quiet' = IF AtRest THEN quiet \cup {<<f, left.edit>>} ELSE quiet
  /\ UNCHANGED <<at, call, journal, guard, basis, told>>

Kill(p) ==
  /\ at[p] \in Inside          \* elsewhere it holds nothing but its page
  /\ Spend("mishap")
  /\ Go(p, "idle")
  /\ call' = [call EXCEPT ![p] = NoCall]
  /\ guard' = IF guard.by = p THEN [guard EXCEPT !.by = "dead"] ELSE guard
  /\ UNCHANGED <<disk, journal, basis, told, quiet>>

Allowances == [decision : 0 .. MaxDecision, edit : 0 .. MaxEdit, mishap : 0 .. MaxMishap,
               steal : 0 .. MaxSteal, stolen : {FALSE}]

DecisionInit ==
  /\ at = [p \in Process |-> "idle"]
  /\ call = [p \in Process |-> NoCall]
  /\ disk = [f \in File |-> Blank]
  /\ journal = NoJournal
  /\ guard = NoGuard
  /\ basis = <<>>
  /\ told = {}
  /\ quiet = {}
  /\ left \in Allowances

Step(p) ==
  \/ Look(p) \/ Enter(p) \/ Stamp(p) \/ Suspect(p) \/ TakeAway(p) \/ Unlock(p)
  \/ Recover(p) \/ Restore(p) \/ Drop(p)
  \/ Parse(p) \/ Bytes(p) \/ Compare(p) \/ Prepare(p) \/ Originals(p) \/ Check(p)
  \/ Log(p) \/ Write(p) \/ Verify(p) \/ Commit(p) \/ Finish(p)

DecisionNext ==
  \/ \E p \in Process :
       \/ Open(p) \/ Decide(p) \/ Leave(p) \/ Step(p)
       \/ RecoveryFails(p) \/ WriteFails(p) \/ Kill(p)
  \/ \E f \in Edited : Edit(f)

DecisionSpec == DecisionInit /\ [][DecisionNext]_decisionVars

(***************************************************************************)
(* Properties.                                                             *)
(***************************************************************************)

\* The journal and the guard are well formed, and the memory of a process fits.
DecisionTypeOK ==
  /\ DOMAIN at = Process /\ DOMAIN call = Process
  /\ DOMAIN disk = File
  /\ journal.state \in {"none", "prepared", "committed"}
  /\ journal # NoJournal => DOMAIN journal.before = DOMAIN journal.after
  /\ guard.by \in Process \cup {"none", "dead"}
  /\ \A d \in UNION {disk[f].made : f \in File} : d <= Len(basis)

\* One process at a time is inside the guard, whatever processes are killed in
\* it, as long as no guard was taken from a process that lives.
OneInside ==
  ~left.stolen => \A p, q \in Process : at[p] \in Inside /\ at[q] \in Inside => p = q

\* Where no journal is left and no guard was stolen, every decision is in all
\* of its files or in none: killed at any step, failed at any write.
WholeDecisions ==
  journal = NoJournal /\ ~left.stolen =>
    \A n \in DOMAIN basis :
      \/ \A f \in basis[n].touch : n \in disk[f].made
      \/ \A f \in File : n \notin disk[f].made

\* A decision on the disk was made on what its page showed, in every file that
\* the human could see: nothing written meanwhile is ruled upon unseen.
RuledAsSeen == ~left.stolen => \A n \in DOMAIN basis : basis[n].seen

\* A decision reported as recorded is never rolled back.
WordKept ==
  ~left.stolen => \A n \in told : \A f \in basis[n].touch : n \in disk[f].made

\* The three together: a decision is one indivisible and lasting event for
\* every process, whatever is killed or fails in it.
DecisionIntact == OneInside /\ WholeDecisions /\ WordKept

\* An edit made while nobody was inside the guard is never overwritten, not
\* even by the recovery of a decision that was interrupted before it.
QuietEditSurvives == \A e \in quiet : e[2] \in disk[e[1]].edits

\* What others write counts: it is seen before it is ruled upon, and stays.
EditsSeen == RuledAsSeen /\ QuietEditSurvives
=============================================================================
