----------------------------- MODULE RetroLedger -----------------------------
(***************************************************************************)
(* The accepted-findings ledger of the retrospective and those who write   *)
(* it (src/tools/retro_ledger.py and its callers).                         *)
(*                                                                         *)
(* A board records decisions and annotates them in one read-modify-write   *)
(* under a lock of the operating system; a page renderer reads the file    *)
(* without the lock, marks the findings that are gone as resolved, and     *)
(* saves against the bytes it read.  A developer edits or damages the file *)
(* by hand and knows no lock.                                              *)
(*                                                                         *)
(* Decisions are numbered in the order in which they enter the ledger, and *)
(* a content carries the number of the last edit it was derived from.      *)
(***************************************************************************)
EXTENDS Naturals

CONSTANTS Writer,       \* threads of a board, renderers
          Finding,
          MaxDecided,   \* decisions in a behaviour
          MaxDisturb,   \* edits by hand and writers killed in a behaviour
          OneLockPlace  \* whether all writers look for the lock in one directory

ASSUME LedgerAssumption ==
  MaxDecided \in Nat /\ MaxDisturb \in Nat /\ OneLockPlace \in BOOLEAN

VARIABLES
  ledger,   \* docs/retro/accepted.json
  holder,   \* the locked lock files: who holds each
  writer,   \* what each writer is doing, and holds in memory
  decided,  \* decisions numbered so far
  known,    \* history: <<finding, decision>> a human was told is recorded
  settled,  \* history: the last edit made outside every check-to-replace window
  hands,    \* edits by hand so far
  stops     \* kills so far

ledgerVars == <<ledger, holder, writer, decided, known, settled, hands, stops>>

\* A stored decision: its number, the run annotated to it, the confirmed win.
Entry == [number : 1 .. MaxDecided, run : BOOLEAN, resolved : BOOLEAN]
NoEntry == [number |-> 0, run |-> FALSE, resolved |-> FALSE]
Content == [readable : BOOLEAN, hand : 0 .. MaxDisturb, entry : [Finding -> Entry \cup {NoEntry}]]
Empty == [readable |-> TRUE, hand |-> 0, entry |-> [f \in Finding |-> NoEntry]]

Task == {"none", "record", "annotate", "settle"}
Steps == {"idle", "lock", "read", "recheck", "replace", "verify", "unlock"}
Idle == [task |-> "none", step |-> "idle", finding |-> {}, base |-> Empty, next |-> Empty]

\* _lock_file: the board names its directory, a renderer takes the default one.
LockOf(task) == IF OneLockPlace \/ task # "settle" THEN "board" ELSE "default"
NoHolder == {}

At(w, step) == writer[w].step = step
Now(w, record) == writer' = [writer EXCEPT ![w] = record]
Goes(w, step) == Now(w, [writer[w] EXCEPT !.step = step])

(***************************************************************************)
(* Starting a mutation.                                                    *)
(***************************************************************************)

\* record_decision and annotate_accepted: update_entries with a transform.
Begin(w, task, f) ==
  /\ At(w, "idle") /\ task \in {"record", "annotate"}
  /\ Now(w, [Idle EXCEPT !.task = task, !.step = "lock", !.finding = {f}])
  /\ UNCHANGED <<ledger, holder, decided, known, settled, hands, stops>>

\* mark_resolved_if_absent over the entries of load_entries, which takes no
\* lock; the page saves only when a mark changed.
Render(w, gone) ==
  LET marked == [ledger EXCEPT !.entry = [f \in Finding |->
                   IF f \in gone /\ ledger.entry[f] # NoEntry
                   THEN [ledger.entry[f] EXCEPT !.resolved = TRUE] ELSE ledger.entry[f]]]
  IN  /\ At(w, "idle") /\ ledger.readable /\ marked # ledger
      /\ Now(w, [task |-> "settle", step |-> "lock", finding |-> gone,
                 base |-> ledger, next |-> marked])
      /\ UNCHANGED <<ledger, holder, decided, known, settled, hands, stops>>

(***************************************************************************)
(* The mutation: _exclusive_lock, then the read, then _replace_unlocked.   *)
(***************************************************************************)

Lock(w) ==
  /\ At(w, "lock") /\ holder[LockOf(writer[w].task)] = NoHolder
  /\ holder' = [holder EXCEPT ![LockOf(writer[w].task)] = {w}]
  /\ Goes(w, "read")
  /\ UNCHANGED <<ledger, decided, known, settled, hands, stops>>

\* An unreadable ledger refuses every mutation, and so do bytes that are not
\* those the caller's entries were read from.
Refused(w) ==
  \/ ~ledger.readable
  \/ writer[w].task = "settle" /\ writer[w].base # ledger

Refuse(w) ==
  /\ At(w, "read") /\ Refused(w)
  /\ Goes(w, "unlock")
  /\ UNCHANGED <<ledger, holder, decided, known, settled, hands, stops>>

\* The transform: the new decision takes the place of an earlier one on the
\* same finding, its run and its mark with it.
Recorded(content, f, number) ==
  [content EXCEPT !.entry[f] = [number |-> number, run |-> FALSE, resolved |-> FALSE]]

Annotated(content, f) ==
  IF content.entry[f] = NoEntry THEN content ELSE [content EXCEPT !.entry[f].run = TRUE]

ReadRecord(w) ==
  /\ At(w, "read") /\ ~Refused(w) /\ writer[w].task = "record"
  /\ decided < MaxDecided /\ decided' = decided + 1
  /\ \E f \in writer[w].finding :
       Now(w, [writer[w] EXCEPT !.step = "recheck", !.base = ledger,
                                !.next = Recorded(ledger, f, decided + 1)])
  /\ UNCHANGED <<ledger, holder, known, settled, hands, stops>>

ReadAnnotate(w) ==
  /\ At(w, "read") /\ ~Refused(w) /\ writer[w].task = "annotate"
  /\ \E f \in writer[w].finding :
       LET next == Annotated(ledger, f)
       IN  Now(w, [writer[w] EXCEPT !.step = IF next = ledger THEN "unlock" ELSE "recheck",
                                    !.base = ledger, !.next = next])
  /\ UNCHANGED <<ledger, holder, decided, known, settled, hands, stops>>

ReadSettle(w) ==
  /\ At(w, "read") /\ ~Refused(w) /\ writer[w].task = "settle"
  /\ Now(w, [writer[w] EXCEPT !.step = "recheck", !.base = ledger])
  /\ UNCHANGED <<ledger, holder, decided, known, settled, hands, stops>>

\* Mutant: the ledger is not read again.
RecheckNothing(w) ==
  /\ At(w, "recheck") /\ Goes(w, "replace")
  /\ UNCHANGED <<ledger, holder, decided, known, settled, hands, stops>>

\* The new bytes are in a temporary file; the ledger is read once more.
Recheck(w) ==
  /\ At(w, "recheck")
  /\ Goes(w, IF ledger = writer[w].base THEN "replace" ELSE "unlock")
  /\ UNCHANGED <<ledger, holder, decided, known, settled, hands, stops>>

Replace(w) ==
  /\ At(w, "replace")
  /\ ledger' = writer[w].next
  /\ Goes(w, "verify")
  /\ UNCHANGED <<holder, decided, known, settled, hands, stops>>

\* os.replace is refused, on Windows after five attempts: nothing changed.
ReplaceFails(w) ==
  /\ At(w, "replace")
  /\ Goes(w, "unlock")
  /\ UNCHANGED <<ledger, holder, decided, known, settled, hands, stops>>

Confirm(w) ==
  /\ At(w, "verify")
  /\ Goes(w, "unlock")
  /\ known' = IF writer[w].task = "record" /\ ledger = writer[w].next
              THEN known \cup {<<f, ledger.entry[f].number>> : f \in writer[w].finding}
              ELSE known
  /\ UNCHANGED <<ledger, holder, decided, settled, hands, stops>>

Freed(w) == holder' = [l \in DOMAIN holder |-> holder[l] \ {w}]

Release(w) ==
  /\ At(w, "unlock")
  /\ Freed(w) /\ Now(w, Idle)
  /\ UNCHANGED <<ledger, decided, known, settled, hands, stops>>

(***************************************************************************)
(* The surroundings.                                                       *)
(***************************************************************************)

\* The system releases the lock of a process that ends.
Stop(w) ==
  /\ hands + stops < MaxDisturb /\ ~At(w, "idle")
  /\ Freed(w) /\ Now(w, Idle)
  /\ stops' = stops + 1
  /\ UNCHANGED <<ledger, decided, known, settled, hands>>

\* Some findings are taken out by hand, or the file is left unreadable; a
\* repair by hand makes it readable again.
Hand(kept, readable) ==
  /\ hands + stops < MaxDisturb
  /\ ledger' = [readable |-> readable, hand |-> hands + 1,
                entry |-> [f \in Finding |-> IF f \in kept THEN ledger.entry[f] ELSE NoEntry]]
  /\ hands' = hands + 1
  /\ settled' = IF \E w \in Writer : At(w, "replace") THEN settled ELSE hands + 1
  /\ known' = {k \in known : k[1] \in kept}
  /\ UNCHANGED <<holder, writer, decided, stops>>

LedgerInit ==
  /\ ledger = Empty
  /\ holder = [l \in {"board", "default"} |-> NoHolder]
  /\ writer = [w \in Writer |-> Idle]
  /\ decided = 0 /\ known = {} /\ settled = 0 /\ hands = 0 /\ stops = 0

Mutate(w) ==
  \/ \E f \in Finding, task \in {"record", "annotate"} : Begin(w, task, f)
  \/ \E gone \in SUBSET Finding : Render(w, gone)
  \/ Lock(w) \/ Refuse(w) \/ ReadRecord(w) \/ ReadAnnotate(w) \/ ReadSettle(w)
  \/ Recheck(w) \/ Replace(w) \/ ReplaceFails(w) \/ Confirm(w) \/ Release(w) \/ Stop(w)

LedgerNext ==
  \/ \E w \in Writer : Mutate(w)
  \/ \E kept \in SUBSET Finding, readable \in BOOLEAN : Hand(kept, readable)

LedgerSpec == LedgerInit /\ [][LedgerNext]_ledgerVars

(***************************************************************************)
(* Properties.                                                             *)
(***************************************************************************)

LedgerTypeOK ==
  /\ ledger \in Content
  /\ holder \in [{"board", "default"} -> SUBSET Writer]
  /\ \A w \in Writer : /\ writer[w].task \in Task /\ writer[w].step \in Steps
                       /\ writer[w].finding \subseteq Finding
                       /\ writer[w].base \in Content /\ writer[w].next \in Content
  /\ decided \in 0 .. MaxDecided /\ settled \in 0 .. MaxDisturb /\ hands \in 0 .. MaxDisturb
  /\ known \subseteq Finding \X (1 .. MaxDecided)

\* A decision a human was told is recorded stays in the ledger until a later
\* decision on the same finding or a developer takes it out: no annotation, no
\* page rendered from older bytes and no decision on another finding drops it.
DecisionKept == \A k \in known : ledger.entry[k[1]].number >= k[2]

\* What a developer writes into the ledger, damage included, is never written
\* over by a program that did not read it, unless it falls between the last
\* look at the file and its replacement.
HandKept == ledger.hand >= settled

\* Neither the decisions nor the handwriting of people is lost in the ledger.
LedgerKeeps == DecisionKept /\ HandKept
=============================================================================
