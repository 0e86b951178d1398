------------------------------ MODULE RetroProofs ------------------------------
(***************************************************************************)
(* Proofs about the two stores a retrospective leaves behind, for any      *)
(* number of processes, findings, notes, packs and faults: first the       *)
(* ledger of accepted findings (RetroLedger), then the closing of a        *)
(* retrospective (RetroClose).  The two share no state.                    *)
(***************************************************************************)
EXTENDS RetroLedger, RetroClose, TLAPS

(***************************************************************************)
(* Proofs about the ledger of accepted findings (RetroLedger), for any     *)
(* number of writers and findings and any bounds.                          *)
(*                                                                         *)
(* What a writer holds in memory is derived from one content of the ledger *)
(* (Derived): it keeps the mark of the last edit by hand and no decision   *)
(* in it is older.  That alone keeps the edits by hand.  That the          *)
(* decisions are kept also needs the lock: while one writer is between its *)
(* last look and its replacement (Ready), no other may confirm one.  So    *)
(* the second theorem assumes that all writers look for the lock in one    *)
(* place, and the first does not.                                          *)
(***************************************************************************)

-----------------------------------------------------------------------------
(* The inductive invariant                                                 *)

Writers == [task : Task, step : Steps, finding : SUBSET Finding, base : Content, next : Content]

LedgerTyped ==
  /\ ledger \in Content
  /\ holder \in [{"board", "default"} -> SUBSET Writer]
  /\ writer \in [Writer -> Writers]
  /\ decided \in 0 .. MaxDecided /\ settled \in 0 .. MaxDisturb /\ hands \in 0 .. MaxDisturb
  /\ settled <= hands /\ stops \in Nat
  /\ known \subseteq Finding \X (1 .. MaxDecided)

\* Content c comes from content b and has no decision numbered above n.
Follows(b, c, n) ==
  /\ c.hand = b.hand
  /\ \A f \in Finding : b.entry[f].number <= c.entry[f].number /\ c.entry[f].number <= n

Derived == \A w \in Writer : Follows(writer[w].base, writer[w].next, decided)

Numbered == \A f \in Finding : ledger.entry[f].number <= decided

\* What a writer is about to put in place has read the last settled edit.
HandRead == \A w \in Writer : At(w, "replace") => writer[w].next.hand >= settled

\* The writer of a decision on one finding has it in what it writes.
AtWork == {"recheck", "replace", "verify"}
Carries(v) ==
  \E f \in Finding : /\ v.finding = {f}
                     /\ v.step \in AtWork => v.next.entry[f].number >= 1
Carried ==
  \A w \in Writer :
    writer[w].task = "record" => Carries(writer[w])

HandInv == LedgerTyped /\ Derived /\ Numbered /\ Carried /\ HandRead /\ HandKept

Locked == {"read", "recheck", "replace", "verify", "unlock"}
LedgerExclusive == \A w \in Writer : writer[w].step \in Locked => holder["board"] = {w}

\* What a writer is about to put in place has every decision that was confirmed.
Ready ==
  \A w \in Writer : At(w, "replace") =>
    \A k \in known : writer[w].next.entry[k[1]].number >= k[2]

KeepInv == HandInv /\ LedgerExclusive /\ Ready /\ DecisionKept


-----------------------------------------------------------------------------
(* Contents                                                                *)

LEMMA EmptyContent ==
  /\ Empty \in Content
  /\ \A f \in Finding : Empty.entry[f].number = 0
<1>1. NoEntry.number = 0
  BY DEF NoEntry
<1>2. Empty.entry = [f \in Finding |-> NoEntry] /\ Empty.hand = 0
  BY DEF Empty
<1>3. Empty.hand \in 0 .. MaxDisturb
  BY <1>2, LedgerAssumption
<1> QED
  BY <1>1, <1>2, <1>3 DEF Empty, Content

LEMMA Numbers ==
  ASSUME NEW c \in Content, NEW f \in Finding
  PROVE  /\ c.entry[f] \in Entry \cup {NoEntry}
         /\ c.entry[f].number \in 0 .. MaxDecided
         /\ c.hand \in 0 .. MaxDisturb
         /\ c.entry[f] # NoEntry => c.entry[f] \in Entry
<1>1. c.entry[f] \in Entry \cup {NoEntry}
  BY DEF Content
<1>2. \A e \in Entry \cup {NoEntry} : e.number \in 0 .. MaxDecided
  BY LedgerAssumption DEF Entry, NoEntry
<1>3. c.hand \in 0 .. MaxDisturb
  BY DEF Content
<1> QED
  BY <1>1, <1>2, <1>3

\* A content changed in its entries only.
LEMMA Changed ==
  ASSUME NEW c \in Content, NEW e \in [Finding -> Entry \cup {NoEntry}], NEW n \in Nat,
         \A f \in Finding : c.entry[f].number <= e[f].number /\ e[f].number <= n
  PROVE  LET v == [c EXCEPT !.entry = e]
         IN  v \in Content /\ v.entry = e /\ Follows(c, v, n)
<1> DEFINE v == [c EXCEPT !.entry = e]
<1>1. v \in Content /\ v.entry = e /\ v.hand = c.hand
  BY DEF Content
<1> QED
  BY <1>1 DEF Follows

LEMMA RecordedContent ==
  ASSUME NEW c \in Content, NEW f \in Finding, NEW n \in 1 .. MaxDecided,
         \A g \in Finding : c.entry[g].number <= n
  PROVE  /\ Recorded(c, f, n) \in Content
         /\ Recorded(c, f, n).entry[f].number = n
         /\ Follows(c, Recorded(c, f, n), n)
<1> DEFINE d == [number |-> n, run |-> FALSE, resolved |-> FALSE]
           e == [c.entry EXCEPT ![f] = d]
<1>1. d \in Entry /\ d.number = n
  BY DEF Entry
<1>2. c.entry \in [Finding -> Entry \cup {NoEntry}]
  BY DEF Content
<1>3. \A g \in Finding : c.entry[g].number \in 0 .. MaxDecided
  BY Numbers
<1>4. Recorded(c, f, n) = [c EXCEPT !.entry = e]
  BY DEF Recorded
<1> HIDE DEF d
<1>5. e \in [Finding -> Entry \cup {NoEntry}] /\ e[f] = d /\ \A g \in Finding \ {f} : e[g] = c.entry[g]
  BY <1>1, <1>2
<1> HIDE DEF e
<1>6. \A g \in Finding : c.entry[g].number <= e[g].number /\ e[g].number <= n
  BY <1>1, <1>3, <1>5
<1>7. n \in Nat
  BY LedgerAssumption
<1> QED
  BY <1>1, <1>4, <1>5, <1>6, <1>7, Changed

LEMMA AnnotatedContent ==
  ASSUME NEW c \in Content, NEW f \in Finding, NEW n \in Nat,
         \A g \in Finding : c.entry[g].number <= n
  PROVE  Annotated(c, f) \in Content /\ Follows(c, Annotated(c, f), n)
<1>3. \A g \in Finding : c.entry[g].number \in 0 .. MaxDecided
  BY Numbers
<1>1. CASE c.entry[f] = NoEntry
  BY <1>1, <1>3 DEF Annotated, Follows
<1>2. CASE c.entry[f] # NoEntry
  <2> DEFINE d == [c.entry[f] EXCEPT !.run = TRUE]
             e == [c.entry EXCEPT ![f] = d]
  <2>1. c.entry[f] \in Entry
    BY <1>2, Numbers
  <2>2. d \in Entry /\ d.number = c.entry[f].number
    BY <2>1 DEF Entry
  <2>3. c.entry \in [Finding -> Entry \cup {NoEntry}]
    BY DEF Content
  <2>4. Annotated(c, f) = [c EXCEPT !.entry = e]
    BY <1>2 DEF Annotated
  <2> HIDE DEF d
  <2>5. e \in [Finding -> Entry \cup {NoEntry}] /\ e[f] = d /\ \A g \in Finding \ {f} : e[g] = c.entry[g]
    BY <2>2, <2>3
  <2> HIDE DEF e
  <2>6. \A g \in Finding : c.entry[g].number <= e[g].number /\ e[g].number <= n
    BY <1>3, <2>2, <2>5
  <2> QED
    BY <2>4, <2>5, <2>6, Changed
<1> QED
  BY <1>1, <1>2

\* What a renderer puts in place: findings that are gone are marked.
Marked(c, gone) ==
  [c EXCEPT !.entry = [f \in Finding |->
     IF f \in gone /\ c.entry[f] # NoEntry
     THEN [c.entry[f] EXCEPT !.resolved = TRUE] ELSE c.entry[f]]]

LEMMA MarkedContent ==
  ASSUME NEW c \in Content, NEW gone \in SUBSET Finding, NEW n \in Nat,
         \A g \in Finding : c.entry[g].number <= n
  PROVE  Marked(c, gone) \in Content /\ Follows(c, Marked(c, gone), n)
<1> DEFINE d(f) == [c.entry[f] EXCEPT !.resolved = TRUE]
           e == [f \in Finding |-> IF f \in gone /\ c.entry[f] # NoEntry
                                   THEN d(f) ELSE c.entry[f]]
<1>1. \A g \in Finding : c.entry[g].number \in 0 .. MaxDecided /\ c.entry[g] \in Entry \cup {NoEntry}
  BY Numbers
<1>2. ASSUME NEW f \in Finding, c.entry[f] # NoEntry
      PROVE  d(f) \in Entry /\ d(f).number = c.entry[f].number
  <2>1. c.entry[f] \in Entry
    BY <1>2, Numbers
  <2> QED
    BY <2>1 DEF Entry
<1>3. Marked(c, gone) = [c EXCEPT !.entry = e]
  BY DEF Marked
<1> HIDE DEF d
<1>4. e \in [Finding -> Entry \cup {NoEntry}] /\ \A g \in Finding : e[g].number = c.entry[g].number
  BY <1>1, <1>2
<1> HIDE DEF e
<1>5. \A g \in Finding : c.entry[g].number <= e[g].number /\ e[g].number <= n
  BY <1>1, <1>4
<1> QED
  BY <1>3, <1>4, <1>5, Changed

-----------------------------------------------------------------------------
(* One writer's step that leaves the ledger as it is                       *)

\* What a writer may come to hold in memory.
Sound(v, n, s) ==
  /\ v \in Writers
  /\ Follows(v.base, v.next, n)
  /\ v.step = "replace" => v.next.hand >= s
  /\ v.task = "record" => Carries(v)

LEMMA WriterTyped ==
  ASSUME LedgerTyped, NEW w \in Writer
  PROVE  /\ writer[w] \in Writers
         /\ writer[w].base \in Content /\ writer[w].next \in Content
         /\ writer[w].finding \in SUBSET Finding
         /\ writer[w].task \in Task /\ writer[w].step \in Steps
<1>1. writer[w] \in Writers
  BY DEF LedgerTyped
<1> QED
  BY <1>1 DEF Writers

LEMMA SoundNow ==
  ASSUME HandInv, NEW w \in Writer
  PROVE  Sound(writer[w], decided, settled)
BY WriterTyped DEF HandInv, Derived, Carried, HandRead, Sound, At

LEMMA IdleSound ==
  ASSUME NEW n \in Nat, NEW s \in Nat
  PROVE  Sound(Idle, n, s) /\ Idle.step = "idle" /\ Idle.base = Empty /\ Idle.next = Empty
<1>1. Idle \in Writers
  BY EmptyContent DEF Idle, Writers, Task, Steps
<1>2. Follows(Empty, Empty, n)
  BY EmptyContent DEF Follows
<1> QED
  BY <1>1, <1>2 DEF Idle, Sound, AtWork

\* A writer comes to hold something sound: what concerns the edits by hand is kept.
LEMMA Holds ==
  ASSUME HandInv, NEW w \in Writer, NEW v, Now(w, v),
         decided' \in Nat, decided <= decided', Sound(v, decided', settled),
         ledger' = ledger, settled' = settled
  PROVE  /\ writer' \in [Writer -> Writers]
         /\ writer'[w] = v
         /\ \A x \in Writer \ {w} : writer'[x] = writer[x]
         /\ Derived' /\ Numbered' /\ Carried' /\ HandRead' /\ HandKept'
<1>1. v \in Writers
  BY DEF Sound
<1>2. writer \in [Writer -> Writers] /\ decided \in Nat
  BY LedgerAssumption DEF HandInv, LedgerTyped
<1>3. writer' \in [Writer -> Writers] /\ writer'[w] = v
  BY <1>1, <1>2 DEF Now
<1>4. \A x \in Writer \ {w} : writer'[x] = writer[x]
  BY <1>1, <1>2 DEF Now
<1>5. ASSUME NEW c \in Content, NEW f \in Finding, c.entry[f].number <= decided
      PROVE  c.entry[f].number <= decided'
  BY <1>2, <1>5, Numbers, LedgerAssumption
<1>6. Derived'
  <2> SUFFICES ASSUME NEW x \in Writer
               PROVE  Follows(writer'[x].base, writer'[x].next, decided')
    BY DEF Derived
  <2>1. CASE x = w
    BY <1>3, <2>1 DEF Sound
  <2>2. CASE x # w
    <3>1. Follows(writer[x].base, writer[x].next, decided)
      BY DEF HandInv, Derived
    <3>2. writer[x].next \in Content
      BY WriterTyped DEF HandInv
    <3> QED
      BY <1>4, <1>5, <2>2, <3>1, <3>2 DEF Follows
  <2> QED
    BY <2>1, <2>2
<1>7. Numbered'
  BY <1>5 DEF HandInv, LedgerTyped, Numbered
<1>8. Carried'
  BY <1>3, <1>4 DEF Sound, HandInv, Carried
<1>9. HandRead'
  BY <1>3, <1>4 DEF Sound, HandInv, HandRead, At
<1>10. HandKept'
  BY DEF HandInv, HandKept
<1> QED
  BY <1>3, <1>4, <1>6, <1>7, <1>8, <1>9, <1>10

\* A writer that only comes to another step.
LEMMA StepSound ==
  ASSUME HandInv, NEW w \in Writer, NEW s \in Steps,
         s = "replace" => writer[w].next.hand >= settled,
         s \in AtWork => writer[w].step \in AtWork
  PROVE  LET v == [writer[w] EXCEPT !.step = s]
         IN  /\ Sound(v, decided, settled)
             /\ v.step = s /\ v.task = writer[w].task /\ v.finding = writer[w].finding
             /\ v.base = writer[w].base /\ v.next = writer[w].next
<1> DEFINE v == [writer[w] EXCEPT !.step = s]
<1>1. writer[w] \in Writers
  BY WriterTyped DEF HandInv
<1>2. v \in Writers
  BY <1>1 DEF Writers
<1>3. /\ v.step = s /\ v.task = writer[w].task /\ v.finding = writer[w].finding
      /\ v.base = writer[w].base /\ v.next = writer[w].next
  BY <1>1 DEF Writers
<1> HIDE DEF v
<1> QED
  BY <1>2, <1>3, SoundNow DEF Sound, Carries, v

\* The lock files after a writer has let go of what it held.
LEMMA FreedHolder ==
  ASSUME LedgerTyped, NEW w \in Writer, Freed(w)
  PROVE  /\ holder' \in [{"board", "default"} -> SUBSET Writer]
         /\ holder'["board"] = holder["board"] \ {w}
BY DEF LedgerTyped, Freed

-----------------------------------------------------------------------------
(* The edits by hand, one lemma for each action                            *)

LEMMA BeginHand ==
  ASSUME HandInv, NEW w \in Writer, NEW task, NEW f \in Finding, Begin(w, task, f)
  PROVE  HandInv'
<1> DEFINE v == [Idle EXCEPT !.task = task, !.step = "lock", !.finding = {f}]
<1>1. LedgerTyped /\ settled \in Nat /\ decided \in Nat
  BY LedgerAssumption DEF HandInv, LedgerTyped
<1>2. v \in Writers /\ v.step = "lock" /\ v.finding = {f} /\ v.base = Empty /\ v.next = Empty
  BY EmptyContent DEF Begin, Idle, Writers, Task, Steps
<1>3. Follows(Empty, Empty, decided)
  BY <1>1, EmptyContent DEF Follows
<1> HIDE DEF v
<1>4. Sound(v, decided, settled)
  BY <1>2, <1>3 DEF Sound, Carries, AtWork
<1>5. Now(w, v) /\ decided' = decided /\ ledger' = ledger /\ settled' = settled
  BY DEF Begin, v
<1>6. writer' \in [Writer -> Writers] /\ Derived' /\ Numbered' /\ Carried' /\ HandRead' /\ HandKept'
  BY <1>1, <1>4, <1>5, Holds
<1>7. LedgerTyped'
  BY <1>1, <1>6 DEF Begin, LedgerTyped
<1> QED
  BY <1>6, <1>7 DEF HandInv

LEMMA RenderHand ==
  ASSUME HandInv, NEW w \in Writer, NEW gone \in SUBSET Finding, Render(w, gone)
  PROVE  HandInv'
<1> DEFINE v == [task |-> "settle", step |-> "lock", finding |-> gone,
                 base |-> ledger, next |-> Marked(ledger, gone)]
<1>1. LedgerTyped /\ settled \in Nat /\ decided \in Nat /\ ledger \in Content
  BY LedgerAssumption DEF HandInv, LedgerTyped
<1>2. \A f \in Finding : ledger.entry[f].number <= decided
  BY DEF HandInv, Numbered
<1>3. Marked(ledger, gone) \in Content /\ Follows(ledger, Marked(ledger, gone), decided)
  BY <1>1, <1>2, MarkedContent
<1>4. v \in Writers
  BY <1>1, <1>3 DEF Writers, Task, Steps
<1>5. Sound(v, decided, settled)
  BY <1>3, <1>4 DEF Sound, AtWork
<1>6. Now(w, v) /\ decided' = decided /\ ledger' = ledger /\ settled' = settled
  BY DEF Render, Marked
<1> HIDE DEF v
<1>7. writer' \in [Writer -> Writers] /\ Derived' /\ Numbered' /\ Carried' /\ HandRead' /\ HandKept'
  BY <1>1, <1>5, <1>6, Holds
<1>8. LedgerTyped'
  BY <1>1, <1>7 DEF Render, LedgerTyped
<1> QED
  BY <1>7, <1>8 DEF HandInv

\* The actions that only take a writer to another step.
LEMMA GoesHand ==
  ASSUME HandInv, NEW w \in Writer, NEW s \in Steps, Goes(w, s),
         s = "replace" => writer[w].next.hand >= settled,
         s \in AtWork => writer[w].step \in AtWork,
         UNCHANGED <<ledger, decided, settled>>
  PROVE  /\ writer' \in [Writer -> Writers]
         /\ Derived' /\ Numbered' /\ Carried' /\ HandRead' /\ HandKept'
         /\ writer'[w].step = s /\ writer'[w].next = writer[w].next
         /\ writer'[w].task = writer[w].task
         /\ \A x \in Writer \ {w} : writer'[x] = writer[x]
<1> DEFINE v == [writer[w] EXCEPT !.step = s]
<1>1. /\ Sound(v, decided, settled)
      /\ v.step = s /\ v.next = writer[w].next /\ v.task = writer[w].task
  BY StepSound
<1>2. Now(w, v) /\ decided' = decided /\ ledger' = ledger /\ settled' = settled
  BY DEF Goes
<1>3. decided \in Nat
  BY LedgerAssumption DEF HandInv, LedgerTyped
<1> HIDE DEF v
<1>4. /\ writer' \in [Writer -> Writers] /\ writer'[w] = v
      /\ Derived' /\ Numbered' /\ Carried' /\ HandRead' /\ HandKept'
      /\ \A x \in Writer \ {w} : writer'[x] = writer[x]
  BY <1>1, <1>2, <1>3, Holds
<1> QED
  BY <1>1, <1>4

LEMMA LockHand ==
  ASSUME HandInv, NEW w \in Writer, Lock(w)
  PROVE  HandInv'
<1>1. writer' \in [Writer -> Writers] /\ Derived' /\ Numbered' /\ Carried' /\ HandRead' /\ HandKept'
  BY GoesHand DEF Lock, Steps, AtWork
<1>2. holder' \in [{"board", "default"} -> SUBSET Writer]
  BY DEF Lock, HandInv, LedgerTyped, LockOf
<1>3. LedgerTyped'
  BY <1>1, <1>2 DEF Lock, HandInv, LedgerTyped
<1> QED
  BY <1>1, <1>3 DEF HandInv

LEMMA RefuseHand ==
  ASSUME HandInv, NEW w \in Writer, Refuse(w) \/ ReplaceFails(w)
  PROVE  HandInv'
<1>1. Goes(w, "unlock") /\ UNCHANGED <<ledger, holder, decided, known, settled, hands, stops>>
  BY DEF Refuse, ReplaceFails
<1>2. writer' \in [Writer -> Writers] /\ Derived' /\ Numbered' /\ Carried' /\ HandRead' /\ HandKept'
  BY <1>1, GoesHand DEF Steps, AtWork
<1>3. LedgerTyped'
  BY <1>1, <1>2 DEF HandInv, LedgerTyped
<1> QED
  BY <1>2, <1>3 DEF HandInv

LEMMA RecordHand ==
  ASSUME HandInv, NEW w \in Writer, ReadRecord(w)
  PROVE  HandInv'
<1>1. LedgerTyped /\ settled \in Nat /\ decided \in Nat /\ ledger \in Content
  BY LedgerAssumption DEF HandInv, LedgerTyped
<1>2. decided' = decided + 1 /\ decided + 1 \in 1 .. MaxDecided
  BY <1>1, LedgerAssumption DEF ReadRecord
<1>3. PICK f \in writer[w].finding :
        Now(w, [writer[w] EXCEPT !.step = "recheck", !.base = ledger,
                                 !.next = Recorded(ledger, f, decided + 1)])
  BY DEF ReadRecord
<1>4. f \in Finding
  BY <1>1, WriterTyped
<1> DEFINE v == [writer[w] EXCEPT !.step = "recheck", !.base = ledger,
                                  !.next = Recorded(ledger, f, decided + 1)]
<1>5. \A g \in Finding : ledger.entry[g].number <= decided + 1
  BY <1>1, Numbers, LedgerAssumption DEF HandInv, Numbered
<1>6. /\ Recorded(ledger, f, decided + 1) \in Content
      /\ Recorded(ledger, f, decided + 1).entry[f].number = decided + 1
      /\ Follows(ledger, Recorded(ledger, f, decided + 1), decided + 1)
  BY <1>1, <1>2, <1>4, <1>5, RecordedContent
<1>7. /\ v \in Writers /\ v.step = "recheck" /\ v.base = ledger
      /\ v.next = Recorded(ledger, f, decided + 1) /\ v.finding = writer[w].finding
  BY <1>1, <1>6, WriterTyped DEF Writers, Steps
<1> HIDE DEF v
<1>8. Carries(v)
  <2>1. PICK g \in Finding : writer[w].finding = {g}
    BY DEF HandInv, Carried, Carries, ReadRecord
  <2> QED
    BY <1>1, <1>3, <1>6, <1>7, <2>1 DEF Carries
<1>9. Sound(v, decided + 1, settled)
  BY <1>6, <1>7, <1>8 DEF Sound
<1>10. Now(w, v) /\ ledger' = ledger /\ settled' = settled
  BY <1>3 DEF ReadRecord, v
<1>11. writer' \in [Writer -> Writers] /\ Derived' /\ Numbered' /\ Carried' /\ HandRead' /\ HandKept'
  BY <1>1, <1>2, <1>9, <1>10, Holds
<1>12. LedgerTyped'
  BY <1>1, <1>2, <1>11, LedgerAssumption DEF ReadRecord, LedgerTyped
<1> QED
  BY <1>11, <1>12 DEF HandInv

LEMMA AnnotateHand ==
  ASSUME HandInv, NEW w \in Writer, ReadAnnotate(w)
  PROVE  HandInv'
<1>1. LedgerTyped /\ settled \in Nat /\ decided \in Nat /\ ledger \in Content
  BY LedgerAssumption DEF HandInv, LedgerTyped
<1>2. PICK f \in writer[w].finding :
        Now(w, [writer[w] EXCEPT !.step = IF Annotated(ledger, f) = ledger THEN "unlock" ELSE "recheck",
                                 !.base = ledger, !.next = Annotated(ledger, f)])
  BY DEF ReadAnnotate
<1> DEFINE s == IF Annotated(ledger, f) = ledger THEN "unlock" ELSE "recheck"
           v == [writer[w] EXCEPT !.step = s, !.base = ledger, !.next = Annotated(ledger, f)]
<1>3. f \in Finding /\ s \in Steps /\ s # "replace" /\ writer[w].task = "annotate"
  BY <1>1, WriterTyped DEF Steps, ReadAnnotate
<1>4. Annotated(ledger, f) \in Content /\ Follows(ledger, Annotated(ledger, f), decided)
  BY <1>1, <1>3, AnnotatedContent DEF HandInv, Numbered
<1> HIDE DEF s
<1>5. /\ v \in Writers /\ v.step = s /\ v.base = ledger
      /\ v.next = Annotated(ledger, f) /\ v.task = "annotate"
  BY <1>1, <1>3, <1>4, WriterTyped DEF Writers
<1> HIDE DEF v
<1>6. Sound(v, decided, settled)
  BY <1>3, <1>4, <1>5 DEF Sound
<1>7. Now(w, v) /\ ledger' = ledger /\ settled' = settled /\ decided' = decided
  BY <1>2 DEF ReadAnnotate, v, s
<1>8. writer' \in [Writer -> Writers] /\ Derived' /\ Numbered' /\ Carried' /\ HandRead' /\ HandKept'
  BY <1>1, <1>6, <1>7, Holds
<1>9. LedgerTyped'
  BY <1>1, <1>8 DEF ReadAnnotate, LedgerTyped
<1> QED
  BY <1>8, <1>9 DEF HandInv

\* A renderer's base is the ledger it reads again under the lock: nothing changes but its step.
LEMMA SettleHand ==
  ASSUME HandInv, NEW w \in Writer, ReadSettle(w)
  PROVE  HandInv'
<1>1. LedgerTyped /\ settled \in Nat /\ decided \in Nat /\ ledger \in Content
  BY LedgerAssumption DEF HandInv, LedgerTyped
<1> DEFINE v == [writer[w] EXCEPT !.step = "recheck", !.base = ledger]
<1>2. writer[w].base = ledger /\ writer[w].task = "settle"
  BY DEF ReadSettle, Refused
<1>3. /\ v \in Writers /\ v.step = "recheck" /\ v.base = writer[w].base
      /\ v.next = writer[w].next /\ v.task = "settle"
  BY <1>1, <1>2, WriterTyped DEF Writers, Steps
<1> HIDE DEF v
<1>4. Sound(v, decided, settled)
  BY <1>3, SoundNow DEF Sound
<1>5. Now(w, v) /\ ledger' = ledger /\ settled' = settled /\ decided' = decided
  BY DEF ReadSettle, v
<1>6. writer' \in [Writer -> Writers] /\ Derived' /\ Numbered' /\ Carried' /\ HandRead' /\ HandKept'
  BY <1>1, <1>4, <1>5, Holds
<1>7. LedgerTyped'
  BY <1>1, <1>6 DEF ReadSettle, LedgerTyped
<1> QED
  BY <1>6, <1>7 DEF HandInv

\* The last look: the content to be put in place comes from the ledger as it is.
LEMMA RecheckHand ==
  ASSUME HandInv, NEW w \in Writer, Recheck(w)
  PROVE  HandInv'
<1> DEFINE s == IF ledger = writer[w].base THEN "replace" ELSE "unlock"
<1>1. s \in Steps
  BY DEF Steps
<1>2. s = "replace" => writer[w].next.hand >= settled
  BY DEF HandInv, Derived, Follows, HandKept
<1>3. s \in AtWork => writer[w].step \in AtWork
  BY DEF Recheck, At, AtWork
<1>4. Goes(w, s) /\ UNCHANGED <<ledger, holder, decided, known, settled, hands, stops>>
  BY DEF Recheck
<1> HIDE DEF s
<1>5. writer' \in [Writer -> Writers] /\ Derived' /\ Numbered' /\ Carried' /\ HandRead' /\ HandKept'
  BY <1>1, <1>2, <1>3, <1>4, GoesHand
<1>6. LedgerTyped'
  BY <1>4, <1>5 DEF HandInv, LedgerTyped
<1> QED
  BY <1>5, <1>6 DEF HandInv

LEMMA ReplaceHand ==
  ASSUME HandInv, NEW w \in Writer, Replace(w)
  PROVE  HandInv'
<1>1. LedgerTyped /\ writer[w] \in Writers /\ writer[w].next \in Content
  BY WriterTyped DEF HandInv
<1> DEFINE v == [writer[w] EXCEPT !.step = "verify"]
<1>2. v \in Writers /\ Sound(v, decided, settled) /\ v.step = "verify"
  BY <1>1, StepSound DEF Replace, At, AtWork, Steps, Sound
<1>3. writer' = [writer EXCEPT ![w] = v]
  BY DEF Replace, Goes, Now
<1> HIDE DEF v
<1>4. /\ writer' \in [Writer -> Writers] /\ writer'[w] = v
      /\ \A x \in Writer \ {w} : writer'[x] = writer[x]
  BY <1>1, <1>2, <1>3 DEF LedgerTyped
<1>5. /\ ledger' = writer[w].next
      /\ UNCHANGED <<holder, decided, known, settled, hands, stops>>
  BY DEF Replace
<1>6. LedgerTyped'
  BY <1>1, <1>4, <1>5 DEF LedgerTyped
<1>7. Derived'
  BY <1>2, <1>4, <1>5 DEF HandInv, Derived, Sound
<1>8. Numbered'
  BY <1>5 DEF HandInv, Derived, Follows, Numbered
<1>9. Carried'
  BY <1>2, <1>4 DEF HandInv, Carried, Sound
<1>10. HandRead'
  BY <1>2, <1>4, <1>5 DEF HandInv, HandRead, At
<1>11. HandKept'
  BY <1>5 DEF Replace, HandInv, HandRead, HandKept
<1> QED
  BY <1>6, <1>7, <1>8, <1>9, <1>10, <1>11 DEF HandInv

\* What the human is told: the numbers in the ledger.
LEMMA Told ==
  ASSUME HandInv, NEW w \in Writer, Confirm(w)
  PROVE  /\ known' \subseteq Finding \X (1 .. MaxDecided)
         /\ \A k \in known' : k \in known \/ ledger.entry[k[1]].number = k[2]
<1>1. known \subseteq Finding \X (1 .. MaxDecided)
  BY DEF HandInv, LedgerTyped
<1>2. CASE ~(writer[w].task = "record" /\ ledger = writer[w].next)
  BY <1>1, <1>2 DEF Confirm
<1>3. CASE writer[w].task = "record" /\ ledger = writer[w].next
  <2>1. PICK f \in Finding : writer[w].finding = {f} /\ writer[w].next.entry[f].number >= 1
    BY <1>3 DEF HandInv, Carried, Carries, Confirm, At, AtWork
  <2>2. ledger.entry[f].number \in 1 .. MaxDecided
    BY <1>3, <2>1, Numbers, LedgerAssumption DEF HandInv, LedgerTyped
  <2>3. known' = known \cup {<<f, ledger.entry[f].number>>}
    BY <1>3, <2>1 DEF Confirm
  <2> QED
    BY <1>1, <2>2, <2>3
<1> QED
  BY <1>2, <1>3

LEMMA ConfirmHand ==
  ASSUME HandInv, NEW w \in Writer, Confirm(w)
  PROVE  HandInv'
<1>1. Goes(w, "unlock") /\ UNCHANGED <<ledger, holder, decided, settled, hands, stops>>
  BY DEF Confirm
<1>2. writer' \in [Writer -> Writers] /\ Derived' /\ Numbered' /\ Carried' /\ HandRead' /\ HandKept'
  BY <1>1, GoesHand DEF Steps, AtWork
<1>3. LedgerTyped'
  BY <1>1, <1>2, Told DEF HandInv, LedgerTyped
<1> QED
  BY <1>2, <1>3 DEF HandInv

\* A writer that ends, by itself or not.
LEMMA EndHand ==
  ASSUME HandInv, NEW w \in Writer, Release(w) \/ Stop(w)
  PROVE  HandInv'
<1>1. LedgerTyped /\ settled \in Nat /\ decided \in Nat /\ stops \in Nat
  BY LedgerAssumption DEF HandInv, LedgerTyped
<1>2. /\ Freed(w) /\ Now(w, Idle) /\ stops' \in Nat
      /\ UNCHANGED <<ledger, decided, known, settled, hands>>
  BY <1>1 DEF Release, Stop
<1>3. Sound(Idle, decided, settled)
  BY <1>1, IdleSound
<1>4. writer' \in [Writer -> Writers] /\ Derived' /\ Numbered' /\ Carried' /\ HandRead' /\ HandKept'
  BY <1>1, <1>2, <1>3, Holds
<1>5. LedgerTyped'
  BY <1>1, <1>2, <1>4, FreedHolder DEF LedgerTyped
<1> QED
  BY <1>4, <1>5 DEF HandInv

LEMMA HandHand ==
  ASSUME HandInv, NEW kept \in SUBSET Finding, NEW readable \in BOOLEAN, Hand(kept, readable)
  PROVE  HandInv'
<1>1. /\ LedgerTyped /\ ledger \in Content /\ hands \in Nat /\ stops \in Nat
      /\ settled \in 0 .. MaxDisturb /\ settled <= hands /\ decided \in Nat
  BY LedgerAssumption DEF HandInv, LedgerTyped
<1>2. hands + 1 \in 0 .. MaxDisturb
  BY <1>1, LedgerAssumption DEF Hand
<1> DEFINE e == [f \in Finding |-> IF f \in kept THEN ledger.entry[f] ELSE NoEntry]
<1>3. NoEntry.number = 0
  BY DEF NoEntry
<1>4. e \in [Finding -> Entry \cup {NoEntry}]
  BY <1>1, Numbers
<1>5. \A f \in Finding : e[f].number <= decided
  BY <1>1, <1>3 DEF HandInv, Numbered
<1>6. ledger' = [readable |-> readable, hand |-> hands + 1, entry |-> e]
  BY DEF Hand
<1> HIDE DEF e
<1>7. ledger' \in Content /\ ledger'.entry = e /\ ledger'.hand = hands + 1
  BY <1>2, <1>4, <1>6 DEF Content
<1>8. UNCHANGED <<holder, writer, decided, stops>> /\ hands' = hands + 1
  BY DEF Hand
<1>9. settled' = (IF \E w \in Writer : At(w, "replace") THEN settled ELSE hands + 1)
  BY DEF Hand
<1>10. settled' \in 0 .. MaxDisturb /\ settled' <= hands + 1
  BY <1>1, <1>2, <1>9
<1>11. known' \subseteq known
  BY DEF Hand
<1>12. LedgerTyped'
  BY <1>1, <1>2, <1>7, <1>8, <1>10, <1>11 DEF LedgerTyped
<1>13. Derived'
  BY <1>8 DEF HandInv, Derived
<1>14. Numbered'
  BY <1>5, <1>7, <1>8 DEF Numbered
<1>15. Carried'
  BY <1>8 DEF HandInv, Carried
<1>16. HandRead'
  BY <1>8, <1>9 DEF HandInv, HandRead, At
<1>17. HandKept'
  BY <1>7, <1>10 DEF HandKept
<1> QED
  BY <1>12, <1>13, <1>14, <1>15, <1>16, <1>17 DEF HandInv

LEMMA MutateHand ==
  ASSUME HandInv, NEW w \in Writer, Mutate(w)
  PROVE  HandInv'
<1>1. CASE \E f \in Finding, task \in {"record", "annotate"} : Begin(w, task, f)
  BY <1>1, BeginHand
<1>2. CASE \E gone \in SUBSET Finding : Render(w, gone)
  BY <1>2, RenderHand
<1>3. CASE Lock(w)
  BY <1>3, LockHand
<1>4. CASE Refuse(w) \/ ReplaceFails(w)
  BY <1>4, RefuseHand
<1>5. CASE ReadRecord(w)
  BY <1>5, RecordHand
<1>6. CASE ReadAnnotate(w)
  BY <1>6, AnnotateHand
<1>7. CASE ReadSettle(w)
  BY <1>7, SettleHand
<1>8. CASE Recheck(w)
  BY <1>8, RecheckHand
<1>9. CASE Replace(w)
  BY <1>9, ReplaceHand
<1>10. CASE Confirm(w)
  BY <1>10, ConfirmHand
<1>11. CASE Release(w) \/ Stop(w)
  BY <1>11, EndHand
<1> QED
  BY <1>1, <1>2, <1>3, <1>4, <1>5, <1>6, <1>7, <1>8, <1>9, <1>10, <1>11 DEF Mutate

LEMMA StillHand ==
  ASSUME HandInv, UNCHANGED ledgerVars
  PROVE  HandInv'
<1>1. UNCHANGED <<ledger, holder, writer, decided, known, settled, hands, stops>>
  BY DEF ledgerVars
<1> QED
  BY <1>1 DEF HandInv, LedgerTyped, Derived, Numbered, Carried, HandRead, HandKept, At

LEMMA HandNext ==
  HandInv /\ [LedgerNext]_ledgerVars => HandInv'
<1> SUFFICES ASSUME HandInv, [LedgerNext]_ledgerVars
             PROVE  HandInv'
  OBVIOUS
<1>1. CASE \E w \in Writer : Mutate(w)
  BY <1>1, MutateHand
<1>2. CASE \E kept \in SUBSET Finding, readable \in BOOLEAN : Hand(kept, readable)
  BY <1>2, HandHand
<1>3. CASE UNCHANGED ledgerVars
  BY <1>3, StillHand
<1> QED
  BY <1>1, <1>2, <1>3 DEF LedgerNext

LEMMA HandInit ==
  LedgerInit => HandInv
<1> SUFFICES ASSUME LedgerInit
             PROVE  HandInv
  OBVIOUS
<1>1. /\ ledger = Empty /\ writer = [w \in Writer |-> Idle]
      /\ decided = 0 /\ known = {} /\ settled = 0 /\ hands = 0 /\ stops = 0
      /\ holder = [l \in {"board", "default"} |-> {}]
  BY DEF LedgerInit, NoHolder
<1>2. Sound(Idle, decided, settled) /\ Idle.step = "idle"
  BY <1>1, IdleSound
<1>3. LedgerTyped
  BY <1>1, <1>2, EmptyContent, LedgerAssumption DEF LedgerTyped, Sound
<1>4. Derived /\ Carried /\ HandRead
  BY <1>1, <1>2 DEF Derived, Carried, HandRead, Sound, At
<1>5. Numbered /\ HandKept
  BY <1>1, EmptyContent DEF Numbered, HandKept, Empty
<1> QED
  BY <1>3, <1>4, <1>5 DEF HandInv

-----------------------------------------------------------------------------
(* The decisions, where all writers look for the lock in one place         *)

\* A step of one writer that takes no lock and brings no content into place.
LedgerQuiet(w) ==
  /\ \A x \in Writer \ {w} : writer'[x] = writer[x]
  /\ writer'[w].step \in Locked => writer[w].step \in Locked
  /\ writer'[w].step # "replace"
  /\ UNCHANGED <<ledger, holder, known>>

LEMMA LedgerQuietKeeps ==
  ASSUME KeepInv, NEW w \in Writer, LedgerQuiet(w)
  PROVE  LedgerExclusive' /\ Ready' /\ DecisionKept'
<1>1. LedgerExclusive'
  BY DEF LedgerQuiet, KeepInv, LedgerExclusive
<1>2. Ready'
  BY DEF LedgerQuiet, KeepInv, Ready, At
<1>3. DecisionKept'
  BY DEF LedgerQuiet, KeepInv, DecisionKept
<1> QED
  BY <1>1, <1>2, <1>3

LEMMA NowWriter ==
  ASSUME HandInv, NEW w \in Writer, NEW v, Now(w, v)
  PROVE  writer'[w] = v /\ \A x \in Writer \ {w} : writer'[x] = writer[x]
BY DEF HandInv, LedgerTyped, Now

LEMMA GoesWriter ==
  ASSUME HandInv, NEW w \in Writer, NEW s, Goes(w, s)
  PROVE  /\ writer'[w].step = s /\ writer'[w].next = writer[w].next
         /\ \A x \in Writer \ {w} : writer'[x] = writer[x]
<1>1. writer'[w] = [writer[w] EXCEPT !.step = s] /\ \A x \in Writer \ {w} : writer'[x] = writer[x]
  BY NowWriter DEF Goes
<1>2. writer[w] \in Writers
  BY WriterTyped DEF HandInv
<1> QED
  BY <1>1, <1>2 DEF Writers

\* Before the lock, and from the lock to the last look.
LEMMA BeginQuiet ==
  ASSUME HandInv, NEW w \in Writer, NEW task, NEW f \in Finding, Begin(w, task, f)
  PROVE  LedgerQuiet(w)
<1> DEFINE v == [Idle EXCEPT !.task = task, !.step = "lock", !.finding = {f}]
<1>1. v.step = "lock"
  BY DEF Idle
<1>2. Now(w, v) /\ UNCHANGED <<ledger, holder, known>>
  BY DEF Begin
<1> HIDE DEF v
<1> QED
  BY <1>1, <1>2, NowWriter DEF LedgerQuiet, Locked

LEMMA RenderQuiet ==
  ASSUME HandInv, NEW w \in Writer, NEW gone \in SUBSET Finding, Render(w, gone)
  PROVE  LedgerQuiet(w)
<1> DEFINE v == [task |-> "settle", step |-> "lock", finding |-> gone,
                 base |-> ledger, next |-> Marked(ledger, gone)]
<1>1. v.step = "lock"
  OBVIOUS
<1>2. Now(w, v) /\ UNCHANGED <<ledger, holder, known>>
  BY DEF Render, Marked
<1> HIDE DEF v
<1> QED
  BY <1>1, <1>2, NowWriter DEF LedgerQuiet, Locked

LEMMA RefuseQuiet ==
  ASSUME HandInv, NEW w \in Writer, Refuse(w) \/ ReplaceFails(w)
  PROVE  LedgerQuiet(w)
<1>1. Goes(w, "unlock") /\ UNCHANGED <<ledger, holder, known>> /\ writer[w].step \in Locked
  BY DEF Refuse, ReplaceFails, At, Locked
<1> QED
  BY <1>1, GoesWriter DEF LedgerQuiet

LEMMA ReadQuiet ==
  ASSUME HandInv, NEW w \in Writer, ReadRecord(w) \/ ReadAnnotate(w) \/ ReadSettle(w)
  PROVE  LedgerQuiet(w)
<1>1. UNCHANGED <<ledger, holder, known>> /\ writer[w].step \in Locked
  BY DEF ReadRecord, ReadAnnotate, ReadSettle, At, Locked
<1>2. writer[w] \in Writers
  BY WriterTyped DEF HandInv
<1>3. CASE ReadRecord(w)
  <2>1. PICK f \in writer[w].finding :
          Now(w, [writer[w] EXCEPT !.step = "recheck", !.base = ledger,
                                   !.next = Recorded(ledger, f, decided + 1)])
    BY <1>3 DEF ReadRecord
  <2>2. [writer[w] EXCEPT !.step = "recheck", !.base = ledger,
                          !.next = Recorded(ledger, f, decided + 1)].step = "recheck"
    BY <1>2 DEF Writers
  <2> QED
    BY <1>1, <2>1, <2>2, NowWriter DEF LedgerQuiet
<1>4. CASE ReadAnnotate(w)
  <2>1. PICK f \in writer[w].finding :
          Now(w, [writer[w] EXCEPT !.step = IF Annotated(ledger, f) = ledger THEN "unlock" ELSE "recheck",
                                   !.base = ledger, !.next = Annotated(ledger, f)])
    BY <1>4 DEF ReadAnnotate
  <2> DEFINE s == IF Annotated(ledger, f) = ledger THEN "unlock" ELSE "recheck"
  <2>2. [writer[w] EXCEPT !.step = s, !.base = ledger, !.next = Annotated(ledger, f)].step = s
    BY <1>2 DEF Writers
  <2>3. s # "replace"
    OBVIOUS
  <2> QED
    BY <1>1, <2>1, <2>2, <2>3, NowWriter DEF LedgerQuiet
<1>5. CASE ReadSettle(w)
  <2>1. Now(w, [writer[w] EXCEPT !.step = "recheck", !.base = ledger])
    BY <1>5 DEF ReadSettle
  <2>2. [writer[w] EXCEPT !.step = "recheck", !.base = ledger].step = "recheck"
    BY <1>2 DEF Writers
  <2> QED
    BY <1>1, <2>1, <2>2, NowWriter DEF LedgerQuiet
<1> QED
  BY <1>3, <1>4, <1>5

\* The lock is free: nobody else is inside.
LEMMA LockKeeps ==
  ASSUME KeepInv, OneLockPlace, NEW w \in Writer, Lock(w)
  PROVE  LedgerExclusive' /\ Ready' /\ DecisionKept'
<1>1. HandInv /\ LedgerTyped
  BY DEF KeepInv, HandInv
<1>2. /\ Goes(w, "read") /\ UNCHANGED <<ledger, known>>
      /\ holder["board"] = {} /\ holder' = [holder EXCEPT !["board"] = {w}]
  BY DEF Lock, LockOf, NoHolder
<1>3. writer'[w].step = "read" /\ \A x \in Writer \ {w} : writer'[x] = writer[x]
  BY <1>1, <1>2, GoesWriter
<1>4. holder'["board"] = {w}
  BY <1>1, <1>2 DEF LedgerTyped
<1>5. \A x \in Writer : writer[x].step \notin Locked
  BY <1>2 DEF KeepInv, LedgerExclusive
<1>6. LedgerExclusive'
  BY <1>3, <1>4, <1>5 DEF LedgerExclusive
<1>7. Ready'
  BY <1>2, <1>3 DEF KeepInv, Ready, At
<1>8. DecisionKept'
  BY <1>2 DEF KeepInv, DecisionKept
<1> QED
  BY <1>6, <1>7, <1>8

\* The last look finds the ledger the content was derived from, with all that is known.
LEMMA RecheckKeeps ==
  ASSUME KeepInv, NEW w \in Writer, Recheck(w)
  PROVE  LedgerExclusive' /\ Ready' /\ DecisionKept'
<1>1. HandInv /\ LedgerTyped
  BY DEF KeepInv, HandInv
<1> DEFINE s == IF ledger = writer[w].base THEN "replace" ELSE "unlock"
<1>2. Goes(w, s) /\ UNCHANGED <<ledger, holder, known>> /\ writer[w].step \in Locked
  BY DEF Recheck, At, Locked
<1>3. /\ writer'[w].step = s /\ writer'[w].next = writer[w].next
      /\ \A x \in Writer \ {w} : writer'[x] = writer[x]
  BY <1>1, <1>2, GoesWriter
<1>4. LedgerExclusive'
  BY <1>2, <1>3 DEF KeepInv, LedgerExclusive
<1>5. DecisionKept'
  BY <1>2 DEF KeepInv, DecisionKept
<1>6. ASSUME s = "replace", NEW k \in known
      PROVE  writer[w].next.entry[k[1]].number >= k[2]
  <2>1. ledger = writer[w].base
    BY <1>6
  <2>2. k[1] \in Finding /\ k[2] \in Nat
    BY <1>1, LedgerAssumption DEF LedgerTyped
  <2>3. ledger.entry[k[1]].number >= k[2]
    BY DEF KeepInv, DecisionKept
  <2>4. ledger.entry[k[1]].number <= writer[w].next.entry[k[1]].number
    BY <1>1, <2>1, <2>2 DEF HandInv, Derived, Follows
  <2>5. ledger.entry[k[1]].number \in Nat /\ writer[w].next.entry[k[1]].number \in Nat
    BY <1>1, <2>2, WriterTyped, Numbers, LedgerAssumption DEF LedgerTyped
  <2> QED
    BY <2>2, <2>3, <2>4, <2>5
<1> HIDE DEF s
<1>7. Ready'
  BY <1>2, <1>3, <1>6 DEF KeepInv, Ready, At
<1> QED
  BY <1>4, <1>5, <1>7

LEMMA ReplaceKeeps ==
  ASSUME KeepInv, NEW w \in Writer, Replace(w)
  PROVE  LedgerExclusive' /\ Ready' /\ DecisionKept'
<1>1. HandInv
  BY DEF KeepInv
<1>2. /\ Goes(w, "verify") /\ UNCHANGED <<holder, known>> /\ ledger' = writer[w].next
      /\ At(w, "replace")
  BY DEF Replace
<1>3. writer'[w].step = "verify" /\ \A x \in Writer \ {w} : writer'[x] = writer[x]
  BY <1>1, <1>2, GoesWriter
<1>4. LedgerExclusive'
  BY <1>2, <1>3 DEF KeepInv, LedgerExclusive, At, Locked
<1>5. Ready'
  BY <1>2, <1>3 DEF KeepInv, Ready, At
<1>6. DecisionKept'
  BY <1>2 DEF KeepInv, Ready, DecisionKept
<1> QED
  BY <1>4, <1>5, <1>6

\* Who confirms a decision holds the lock: nobody is about to replace the ledger.
LEMMA ConfirmKeeps ==
  ASSUME KeepInv, NEW w \in Writer, Confirm(w)
  PROVE  LedgerExclusive' /\ Ready' /\ DecisionKept'
<1>1. HandInv
  BY DEF KeepInv
<1>2. Goes(w, "unlock") /\ UNCHANGED <<holder, ledger>> /\ writer[w].step = "verify"
  BY DEF Confirm, At
<1>3. writer'[w].step = "unlock" /\ \A x \in Writer \ {w} : writer'[x] = writer[x]
  BY <1>1, <1>2, GoesWriter
<1>4. LedgerExclusive'
  BY <1>2, <1>3 DEF KeepInv, LedgerExclusive, Locked
<1>5. ASSUME NEW x \in Writer
      PROVE  writer[x].step # "replace"
  <2>1. writer[x].step \in Locked => holder["board"] = {x}
    BY DEF KeepInv, LedgerExclusive
  <2>2. holder["board"] = {w}
    BY <1>2 DEF KeepInv, LedgerExclusive, Locked
  <2> QED
    BY <1>2, <2>1, <2>2 DEF Locked
<1>6. Ready'
  BY <1>3, <1>5 DEF Ready, At
<1>7. DecisionKept'
  <2> SUFFICES ASSUME NEW k \in known'
               PROVE  ledger.entry[k[1]].number >= k[2]
    BY <1>2 DEF DecisionKept
  <2>1. k[1] \in Finding /\ k[2] \in Nat /\ (k \in known \/ ledger.entry[k[1]].number = k[2])
    BY <1>1, Told, LedgerAssumption
  <2> QED
    BY <2>1 DEF KeepInv, DecisionKept
<1> QED
  BY <1>4, <1>6, <1>7

LEMMA EndKeeps ==
  ASSUME KeepInv, NEW w \in Writer, Release(w) \/ Stop(w)
  PROVE  LedgerExclusive' /\ Ready' /\ DecisionKept'
<1>1. HandInv /\ LedgerTyped
  BY DEF KeepInv, HandInv
<1>2. Freed(w) /\ Now(w, Idle) /\ UNCHANGED <<ledger, known>>
  BY DEF Release, Stop
<1>3. writer'[w].step = "idle" /\ \A x \in Writer \ {w} : writer'[x] = writer[x]
  BY <1>1, <1>2, NowWriter DEF Idle
<1>4. holder'["board"] = holder["board"] \ {w}
  BY <1>1, <1>2, FreedHolder
<1>5. LedgerExclusive'
  <2> SUFFICES ASSUME NEW x \in Writer, writer'[x].step \in Locked
               PROVE  holder'["board"] = {x}
    BY DEF LedgerExclusive
  <2>1. x # w /\ writer[x].step \in Locked
    BY <1>3 DEF Locked
  <2>2. holder["board"] = {x}
    BY <2>1 DEF KeepInv, LedgerExclusive
  <2> QED
    BY <1>4, <2>1, <2>2
<1>6. Ready'
  BY <1>2, <1>3 DEF KeepInv, Ready, At
<1>7. DecisionKept'
  BY <1>2 DEF KeepInv, DecisionKept
<1> QED
  BY <1>5, <1>6, <1>7

\* What a developer takes out is no longer known; the rest is as it was.
LEMMA HandKeeps ==
  ASSUME KeepInv, NEW kept \in SUBSET Finding, NEW readable \in BOOLEAN, Hand(kept, readable)
  PROVE  LedgerExclusive' /\ Ready' /\ DecisionKept'
<1>1. HandInv /\ LedgerTyped
  BY DEF KeepInv, HandInv
<1>2. UNCHANGED <<holder, writer>> /\ known' = {k \in known : k[1] \in kept}
  BY DEF Hand
<1>3. ledger'.entry = [f \in Finding |-> IF f \in kept THEN ledger.entry[f] ELSE NoEntry]
  BY DEF Hand
<1>4. LedgerExclusive'
  BY <1>2 DEF KeepInv, LedgerExclusive
<1>5. Ready'
  BY <1>2 DEF KeepInv, Ready, At
<1>6. DecisionKept'
  <2> SUFFICES ASSUME NEW k \in known'
               PROVE  ledger'.entry[k[1]].number >= k[2]
    BY DEF DecisionKept
  <2>1. k \in known /\ k[1] \in kept /\ k[1] \in Finding
    BY <1>2
  <2>2. ledger'.entry[k[1]] = ledger.entry[k[1]]
    BY <1>3, <2>1
  <2> QED
    BY <2>1, <2>2 DEF KeepInv, DecisionKept
<1> QED
  BY <1>4, <1>5, <1>6

LEMMA MutateKeeps ==
  ASSUME KeepInv, OneLockPlace, NEW w \in Writer, Mutate(w)
  PROVE  LedgerExclusive' /\ Ready' /\ DecisionKept'
<1>1. HandInv
  BY DEF KeepInv
<1>2. CASE \E f \in Finding, task \in {"record", "annotate"} : Begin(w, task, f)
  BY <1>1, <1>2, BeginQuiet, LedgerQuietKeeps
<1>3. CASE \E gone \in SUBSET Finding : Render(w, gone)
  BY <1>1, <1>3, RenderQuiet, LedgerQuietKeeps
<1>4. CASE Lock(w)
  BY <1>4, LockKeeps
<1>5. CASE Refuse(w) \/ ReplaceFails(w)
  BY <1>1, <1>5, RefuseQuiet, LedgerQuietKeeps
<1>6. CASE ReadRecord(w) \/ ReadAnnotate(w) \/ ReadSettle(w)
  BY <1>1, <1>6, ReadQuiet, LedgerQuietKeeps
<1>7. CASE Recheck(w)
  BY <1>7, RecheckKeeps
<1>8. CASE Replace(w)
  BY <1>8, ReplaceKeeps
<1>9. CASE Confirm(w)
  BY <1>9, ConfirmKeeps
<1>10. CASE Release(w) \/ Stop(w)
  BY <1>10, EndKeeps
<1> QED
  BY <1>2, <1>3, <1>4, <1>5, <1>6, <1>7, <1>8, <1>9, <1>10 DEF Mutate

LEMMA KeepNext ==
  ASSUME OneLockPlace
  PROVE  KeepInv /\ [LedgerNext]_ledgerVars => KeepInv'
<1> SUFFICES ASSUME KeepInv, [LedgerNext]_ledgerVars
             PROVE  KeepInv'
  OBVIOUS
<1>1. HandInv'
  BY HandNext DEF KeepInv
<1>2. LedgerExclusive' /\ Ready' /\ DecisionKept'
  <2>1. CASE \E w \in Writer : Mutate(w)
    BY <2>1, MutateKeeps
  <2>2. CASE \E kept \in SUBSET Finding, readable \in BOOLEAN : Hand(kept, readable)
    BY <2>2, HandKeeps
  <2>3. CASE UNCHANGED ledgerVars
    BY <2>3 DEF ledgerVars, KeepInv, LedgerExclusive, Ready, DecisionKept, At
  <2> QED
    BY <2>1, <2>2, <2>3 DEF LedgerNext
<1> QED
  BY <1>1, <1>2 DEF KeepInv

LEMMA KeepInit ==
  LedgerInit => KeepInv
<1> SUFFICES ASSUME LedgerInit
             PROVE  KeepInv
  OBVIOUS
<1>1. \A w \in Writer : writer[w].step = "idle"
  BY DEF LedgerInit, Idle
<1>2. LedgerExclusive /\ Ready
  BY <1>1 DEF LedgerExclusive, Ready, Locked, At
<1>3. DecisionKept
  BY DEF LedgerInit, DecisionKept
<1> QED
  BY <1>2, <1>3, HandInit DEF KeepInv

-----------------------------------------------------------------------------
(* The theorems                                                            *)

\* Every behaviour keeps the ledger, its locks and its writers well formed.
THEOREM LedgerTyping == LedgerSpec => []LedgerTypeOK
<1>1. HandInv => LedgerTypeOK
  BY WriterTyped DEF HandInv, LedgerTyped, LedgerTypeOK
<1> QED
  BY <1>1, HandInit, HandNext, PTL DEF LedgerSpec

\* What a developer writes into the ledger is not written over by a program
\* that did not read it (but between the last look and the replacement), by
\* whatever names the writers look for the lock: _replace_unlocked compares
\* the bytes with those its content comes from.
THEOREM HandSurvives == LedgerSpec => []HandKept
<1>1. HandInv => HandKept
  BY DEF HandInv
<1> QED
  BY <1>1, HandInit, HandNext, PTL DEF LedgerSpec

\* Where all writers look for the lock in one directory, neither a confirmed
\* decision nor the handwriting of a developer is lost.
THEOREM NothingIsLost ==
  ASSUME OneLockPlace
  PROVE  LedgerSpec => []LedgerKeeps
<1>1. KeepInv => LedgerKeeps
  BY DEF KeepInv, HandInv, LedgerKeeps
<1>2. KeepInv /\ [LedgerNext]_ledgerVars => KeepInv'
  BY KeepNext
<1> QED
  BY <1>1, <1>2, KeepInit, PTL DEF LedgerSpec

-----------------------------------------------------------------------------
(***************************************************************************)
(* Proofs about the closing of a retrospective (RetroClose), for any       *)
(* number of closers, notes, versions, packs and faults.                   *)
(*                                                                         *)
(* As long as no lock was taken from a process that lives, one closer at a *)
(* time is inside the lock (CloseExclusive).  The rest says what that closer    *)
(* may rely on at each of its steps, although authors write notes all the  *)
(* time and any step may fail: what it has moved is in the archive as      *)
(* captured, and what it has not yet moved is free there (Progress), no    *)
(* completed pack has a claim on the places it fills (Places), the marker  *)
(* it staged is still the marker with its own pack added (Staged), and a   *)
(* note about to be moved is the one it looked at (Window).                *)
(***************************************************************************)

-----------------------------------------------------------------------------
(* The inductive invariant                                                 *)

Closing ==
  [stage : Stages, pack : Pack, kept : SUBSET Note, moved : SUBSET Note,
   note : SUBSET Note, staged : SUBSET Pack, clean : BOOLEAN, tried : SUBSET Note]

\* A closer works on notes of its pack, and on a pack that was captured.
Knows(c) ==
  /\ closing[c].kept \cup closing[c].moved \cup closing[c].note \cup closing[c].tried
       \subseteq Captured(closing[c].pack)
  /\ closing[c].staged \subseteq packs
  /\ closing[c].stage # "idle" => closing[c].pack \in packs

CloseTyped ==
  /\ notes \in Pack /\ archive \in Pack /\ written \in Pack /\ safe \in Pack
  /\ packs \subseteq Pack /\ changed \subseteq packs /\ marker \subseteq packs
  /\ done \subseteq packs
  /\ lock \in [by : SUBSET Closer, named : BOOLEAN]
  /\ closing \in [Closer -> Closing]
  /\ budget \in [fault : Nat, rob : Nat, robbed : BOOLEAN]
  /\ \A c \in Closer : Knows(c)

\* No version was read that no author had written.
Written ==
  \A n \in Note : /\ notes[n] <= written[n] /\ archive[n] <= written[n]
                  /\ \A p \in packs : p[n] <= written[n]

Inside  == Stages \ {"idle", "enter"}
Filling == {"stage", "look", "move", "seen", "publication", "commit"}
Working == Filling \cup {"restore"}

CloseExclusive == \A c \in Closer : closing[c].stage \in Inside => lock.by = {c}

\* What the archive held before stays; the other places are no completed pack's.
Places(c) ==
  closing[c].stage \in Working =>
    /\ \A n \in closing[c].kept : archive[n] = closing[c].pack[n]
    /\ \A n \in Captured(closing[c].pack) \ closing[c].kept :
         \A p \in marker : p[n] = Absent

Staged(c) ==
  closing[c].stage \in Working \ {"stage"} => closing[c].staged = marker \cup {closing[c].pack}

\* What is moved is archived as captured, but for the note not yet read back; the
\* place of what is not moved is free.
Progress(c) ==
  /\ closing[c].stage \in Stages \ (Working \cup {"leave"}) => closing[c].moved = {}
  /\ closing[c].stage = "stage" => closing[c].moved = {}
  /\ closing[c].stage \in Filling =>
       /\ \A n \in Captured(closing[c].pack) \ (closing[c].kept \cup closing[c].moved) :
            archive[n] = Absent
       /\ \A n \in closing[c].moved :
            archive[n] = closing[c].pack[n] \/ (closing[c].stage = "seen" /\ n \in closing[c].note)
  /\ closing[c].stage \in {"publication", "commit"} =>
       closing[c].moved = Captured(closing[c].pack)

\* Between the look and the move only an author may have written the note.
Window(c) ==
  closing[c].stage = "move" =>
    /\ closing[c].note \cap closing[c].moved = {}
    /\ \A n \in closing[c].note :
         closing[c].note = {n} /\ (notes[n] = closing[c].pack[n] \/ safe[n] = Absent)

\* What was taken back is there again, or newer.
Tried(c) ==
  /\ closing[c].stage \notin {"restore", "leave"} => closing[c].tried = {}
  /\ closing[c].clean => \A n \in closing[c].tried : notes[n] >= closing[c].pack[n]

Works(c) == Places(c) /\ Staged(c) /\ Progress(c) /\ Window(c) /\ Tried(c)

MarkerHolds == (\A p \in marker : Archived(p)) /\ done \subseteq marker
LastKept == \A n \in Note : safe[n] # Absent => safe[n] \in {notes[n], archive[n]}

Unrobbed == CloseExclusive /\ (\A c \in Closer : Works(c)) /\ MarkerHolds /\ LastKept

IInv == CloseTyped /\ Written /\ (~budget.robbed => Unrobbed)

-----------------------------------------------------------------------------
(* What the steps do to what a closer holds in memory                      *)

Others(c) == \A x \in Closer \ {c} : closing'[x] = closing[x]

LEMMA PackFacts ==
  ASSUME NEW p \in Pack
  PROVE  /\ Captured(p) \subseteq Note
         /\ \A n \in Note : p[n] \in 0 .. MaxVersion /\ p[n] \in Nat
         /\ \A n \in Captured(p) : p[n] # Absent /\ p[n] >= 1
BY CloseAssumption DEF Pack, Version, Captured, Absent

LEMMA NoPackFacts ==
  NoPack \in Pack /\ Captured(NoPack) = {}
<1>1. 0 \in Version
  BY CloseAssumption DEF Version
<1>2. NoPack = [n \in Note |-> 0]
  BY DEF NoPack, Absent
<1> QED
  BY <1>1, <1>2 DEF Pack, Captured, Absent

LEMMA RestingFacts ==
  /\ Resting \in Closing
  /\ Resting.stage = "idle" /\ Resting.pack = NoPack /\ Resting.kept = {}
  /\ Resting.moved = {} /\ Resting.note = {} /\ Resting.staged = {}
  /\ Resting.clean /\ Resting.tried = {}
BY NoPackFacts DEF Resting, Closing, Stages

LEMMA Fields ==
  ASSUME CloseTyped, NEW c \in Closer
  PROVE  /\ closing[c] \in Closing
         /\ closing[c].stage \in Stages /\ closing[c].pack \in Pack
         /\ closing[c].kept \subseteq Note /\ closing[c].moved \subseteq Note
         /\ closing[c].note \subseteq Note /\ closing[c].staged \subseteq Pack
         /\ closing[c].clean \in BOOLEAN /\ closing[c].tried \subseteq Note
<1>1. closing[c] \in Closing
  BY DEF CloseTyped
<1> QED
  BY <1>1 DEF Closing

LEMMA PutIs ==
  ASSUME CloseTyped, NEW c \in Closer, NEW v \in Closing, closing' = [closing EXCEPT ![c] = v]
  PROVE  closing' \in [Closer -> Closing] /\ closing'[c] = v /\ Others(c)
BY DEF CloseTyped, Others

LEMMA ThenIs ==
  ASSUME CloseTyped, NEW c \in Closer, NEW s \in Stages, Then(c, s)
  PROVE  /\ closing' \in [Closer -> Closing] /\ Others(c)
         /\ closing'[c].stage = s
         /\ closing'[c].pack = closing[c].pack /\ closing'[c].kept = closing[c].kept
         /\ closing'[c].moved = closing[c].moved /\ closing'[c].note = closing[c].note
         /\ closing'[c].staged = closing[c].staged /\ closing'[c].clean = closing[c].clean
         /\ closing'[c].tried = closing[c].tried
<1> DEFINE v == [closing[c] EXCEPT !.stage = s]
<1>1. closing[c] \in Closing
  BY Fields
<1>2. /\ v \in Closing /\ v.stage = s
      /\ v.pack = closing[c].pack /\ v.kept = closing[c].kept
      /\ v.moved = closing[c].moved /\ v.note = closing[c].note
      /\ v.staged = closing[c].staged /\ v.clean = closing[c].clean
      /\ v.tried = closing[c].tried
  BY <1>1 DEF Closing
<1>3. closing' = [closing EXCEPT ![c] = v]
  BY DEF Then
<1> HIDE DEF v
<1>4. closing' \in [Closer -> Closing] /\ closing'[c] = v /\ Others(c)
  BY <1>2, <1>3, PutIs
<1> QED
  BY <1>2, <1>4

LEMMA RestIs ==
  ASSUME CloseTyped, NEW c \in Closer, closing' = [closing EXCEPT ![c] = Resting]
  PROVE  closing' \in [Closer -> Closing] /\ Others(c) /\ closing'[c] = Resting
BY PutIs, RestingFacts

LEMMA BeginsIs ==
  ASSUME CloseTyped, NEW c \in Closer, NEW p \in packs, Begins(c, p)
  PROVE  /\ closing' \in [Closer -> Closing] /\ Others(c)
         /\ closing'[c].stage = "enter" /\ closing'[c].pack = p
         /\ closing'[c].kept = {} /\ closing'[c].moved = {} /\ closing'[c].note = {}
         /\ closing'[c].staged = {} /\ closing'[c].tried = {}
<1> DEFINE v == [Resting EXCEPT !.stage = "enter", !.pack = p]
<1>1. p \in Pack
  BY DEF CloseTyped
<1>2. /\ v \in Closing /\ v.stage = "enter" /\ v.pack = p
      /\ v.kept = {} /\ v.moved = {} /\ v.note = {} /\ v.staged = {} /\ v.tried = {}
  BY <1>1, RestingFacts DEF Closing, Stages
<1>3. closing' = [closing EXCEPT ![c] = v]
  BY DEF Begins
<1> HIDE DEF v
<1>4. closing' \in [Closer -> Closing] /\ closing'[c] = v /\ Others(c)
  BY <1>2, <1>3, PutIs
<1> QED
  BY <1>2, <1>4

LEMMA CheckIs ==
  ASSUME CloseTyped, NEW c \in Closer, CheckNotes(c)
  PROVE  /\ closing' \in [Closer -> Closing] /\ Others(c)
         /\ closing'[c].stage = "stage" /\ closing'[c].pack = closing[c].pack
         /\ closing'[c].kept = {n \in Captured(closing[c].pack) : archive[n] = closing[c].pack[n]}
         /\ closing'[c].moved = closing[c].moved /\ closing'[c].note = closing[c].note
         /\ closing'[c].staged = closing[c].staged /\ closing'[c].clean = closing[c].clean
         /\ closing'[c].tried = closing[c].tried
<1> DEFINE k == {n \in Captured(closing[c].pack) : archive[n] = closing[c].pack[n]}
           v == [closing[c] EXCEPT !.stage = "stage", !.kept = k]
<1>1. closing[c] \in Closing /\ k \in SUBSET Note
  BY Fields, PackFacts
<1>2. closing' = [closing EXCEPT ![c].stage = "stage", ![c].kept = k]
  BY DEF CheckNotes
<1> HIDE DEF k
<1>3. /\ v \in Closing /\ v.stage = "stage"
      /\ v.pack = closing[c].pack /\ v.kept = k
      /\ v.moved = closing[c].moved /\ v.note = closing[c].note
      /\ v.staged = closing[c].staged /\ v.clean = closing[c].clean
      /\ v.tried = closing[c].tried
  BY <1>1 DEF Closing, Stages
<1>4. closing' = [closing EXCEPT ![c] = v]
  BY <1>2 DEF CloseTyped
<1> HIDE DEF v
<1>5. closing' \in [Closer -> Closing] /\ closing'[c] = v /\ Others(c)
  BY <1>3, <1>4, PutIs
<1> QED
  BY <1>3, <1>5 DEF k

LEMMA StageIs ==
  ASSUME CloseTyped, NEW c \in Closer, StageRan(c)
  PROVE  /\ closing' \in [Closer -> Closing] /\ Others(c)
         /\ closing'[c].stage = "look" /\ closing'[c].pack = closing[c].pack
         /\ closing'[c].kept = closing[c].kept /\ closing'[c].moved = closing[c].moved
         /\ closing'[c].note = closing[c].note
         /\ closing'[c].staged = marker \cup {closing[c].pack}
         /\ closing'[c].clean = closing[c].clean /\ closing'[c].tried = closing[c].tried
<1> DEFINE k == marker \cup {closing[c].pack}
           v == [closing[c] EXCEPT !.stage = "look", !.staged = k]
<1>1. closing[c] \in Closing /\ k \in SUBSET Pack
  BY Fields DEF CloseTyped
<1>2. closing' = [closing EXCEPT ![c].stage = "look", ![c].staged = k]
  BY DEF StageRan
<1> HIDE DEF k
<1>3. /\ v \in Closing /\ v.stage = "look"
      /\ v.pack = closing[c].pack /\ v.kept = closing[c].kept
      /\ v.moved = closing[c].moved /\ v.note = closing[c].note
      /\ v.staged = k /\ v.clean = closing[c].clean
      /\ v.tried = closing[c].tried
  BY <1>1 DEF Closing, Stages
<1>4. closing' = [closing EXCEPT ![c] = v]
  BY <1>2 DEF CloseTyped
<1> HIDE DEF v
<1>5. closing' \in [Closer -> Closing] /\ closing'[c] = v /\ Others(c)
  BY <1>3, <1>4, PutIs
<1> QED
  BY <1>3, <1>5 DEF k

LEMMA LookIs ==
  ASSUME CloseTyped, NEW c \in Closer, NEW n \in Note, LookAgain(c, n)
  PROVE  /\ closing' \in [Closer -> Closing] /\ Others(c)
         /\ closing'[c].stage = IF notes[n] = closing[c].pack[n] THEN "move" ELSE "restore"
         /\ closing'[c].pack = closing[c].pack
         /\ closing'[c].kept = closing[c].kept /\ closing'[c].moved = closing[c].moved
         /\ closing'[c].note = {n} /\ closing'[c].staged = closing[c].staged
         /\ closing'[c].clean = closing[c].clean /\ closing'[c].tried = closing[c].tried
<1> DEFINE s == IF notes[n] = closing[c].pack[n] THEN "move" ELSE "restore"
           v == [closing[c] EXCEPT !.note = {n}, !.stage = s]
<1>1. closing[c] \in Closing /\ s \in Stages
  BY Fields DEF Stages
<1>2. closing' = [closing EXCEPT ![c].note = {n}, ![c].stage = s]
  BY DEF LookAgain
<1> HIDE DEF s
<1>3. /\ v \in Closing /\ v.stage = s
      /\ v.pack = closing[c].pack /\ v.kept = closing[c].kept
      /\ v.moved = closing[c].moved /\ v.note = {n}
      /\ v.staged = closing[c].staged /\ v.clean = closing[c].clean
      /\ v.tried = closing[c].tried
  BY <1>1 DEF Closing
<1>4. closing' = [closing EXCEPT ![c] = v]
  BY <1>2 DEF CloseTyped
<1> HIDE DEF v
<1>5. closing' \in [Closer -> Closing] /\ closing'[c] = v /\ Others(c)
  BY <1>3, <1>4, PutIs
<1> QED
  BY <1>3, <1>5 DEF s

LEMMA MoveIs ==
  ASSUME CloseTyped, NEW c \in Closer, NEW n \in Note, Move(c, n)
  PROVE  /\ closing' \in [Closer -> Closing] /\ Others(c)
         /\ closing'[c].stage = "seen" /\ closing'[c].pack = closing[c].pack
         /\ closing'[c].kept = closing[c].kept
         /\ closing'[c].moved = closing[c].moved \cup {n}
         /\ closing'[c].note = {n} /\ closing'[c].staged = closing[c].staged
         /\ closing'[c].clean = closing[c].clean /\ closing'[c].tried = closing[c].tried
<1> DEFINE k == closing[c].moved \cup {n}
           v == [closing[c] EXCEPT !.stage = "seen", !.moved = k]
<1>1. closing[c] \in Closing /\ k \in SUBSET Note
  BY Fields
<1>2. closing' = [closing EXCEPT ![c].stage = "seen", ![c].moved = k] /\ closing[c].note = {n}
  BY <1>1 DEF Move, CloseTyped, Closing
<1> HIDE DEF k
<1>3. /\ v \in Closing /\ v.stage = "seen"
      /\ v.pack = closing[c].pack /\ v.kept = closing[c].kept
      /\ v.moved = k /\ v.note = closing[c].note
      /\ v.staged = closing[c].staged /\ v.clean = closing[c].clean
      /\ v.tried = closing[c].tried
  BY <1>1 DEF Closing, Stages
<1>4. closing' = [closing EXCEPT ![c] = v]
  BY <1>2 DEF CloseTyped
<1> HIDE DEF v
<1>5. closing' \in [Closer -> Closing] /\ closing'[c] = v /\ Others(c)
  BY <1>3, <1>4, PutIs
<1> QED
  BY <1>2, <1>3, <1>5 DEF k

\* A note that is taken back, or is not.
LEMMA BackIs ==
  ASSUME CloseTyped, NEW c \in Closer, NEW n \in Note, NEW b \in BOOLEAN,
         closing' = [closing EXCEPT ![c].moved = @ \ {n}, ![c].tried = @ \cup {n},
                                    ![c].clean = b]
  PROVE  /\ closing' \in [Closer -> Closing] /\ Others(c)
         /\ closing'[c].stage = closing[c].stage /\ closing'[c].pack = closing[c].pack
         /\ closing'[c].kept = closing[c].kept
         /\ closing'[c].moved = closing[c].moved \ {n}
         /\ closing'[c].note = closing[c].note /\ closing'[c].staged = closing[c].staged
         /\ closing'[c].clean = b /\ closing'[c].tried = closing[c].tried \cup {n}
<1> DEFINE k == closing[c].moved \ {n}
           t == closing[c].tried \cup {n}
           v == [closing[c] EXCEPT !.moved = k, !.tried = t, !.clean = b]
<1>1. closing[c] \in Closing /\ k \in SUBSET Note /\ t \in SUBSET Note
  BY Fields
<1>2. closing' = [closing EXCEPT ![c].moved = k, ![c].tried = t, ![c].clean = b]
  BY <1>1 DEF CloseTyped, Closing
<1> HIDE DEF k, t
<1>3. /\ v \in Closing /\ v.stage = closing[c].stage
      /\ v.pack = closing[c].pack /\ v.kept = closing[c].kept
      /\ v.moved = k /\ v.note = closing[c].note
      /\ v.staged = closing[c].staged /\ v.clean = b
      /\ v.tried = t
  BY <1>1 DEF Closing
<1>4. closing' = [closing EXCEPT ![c] = v]
  BY <1>2 DEF CloseTyped
<1> HIDE DEF v
<1>5. closing' \in [Closer -> Closing] /\ closing'[c] = v /\ Others(c)
  BY <1>3, <1>4, PutIs
<1> QED
  BY <1>3, <1>5 DEF k, t

-----------------------------------------------------------------------------
(* Types                                                                   *)

\* What every step that changes one closer keeps of what the closers know.
LEMMA KnowsAll ==
  ASSUME CloseTyped, NEW c \in Closer, Others(c), packs' = packs, Knows(c)'
  PROVE  \A x \in Closer : Knows(x)'
BY DEF CloseTyped, Others, Knows

LEMMA RestKnows ==
  ASSUME CloseTyped, NEW c \in Closer, closing'[c] = Resting
  PROVE  Knows(c)'
BY RestingFacts DEF Knows

LEMMA ThenTyped ==
  ASSUME CloseTyped, NEW c \in Closer, NEW s \in Stages, Then(c, s), packs' = packs,
         closing[c].stage # "idle"
  PROVE  closing' \in [Closer -> Closing] /\ \A x \in Closer : Knows(x)'
<1>1. Knows(c)'
  BY ThenIs DEF CloseTyped, Knows
<1> QED
  BY <1>1, ThenIs, KnowsAll

LEMMA UseUpTyped ==
  ASSUME CloseTyped, NEW w \in {"fault", "rob"}, UseUp(w)
  PROVE  budget' \in [fault : Nat, rob : Nat, robbed : BOOLEAN] /\ budget'.robbed = budget.robbed
<1>1. budget \in [fault : Nat, rob : Nat, robbed : BOOLEAN]
  BY DEF CloseTyped
<1>2. budget[w] \in Nat /\ budget[w] > 0 /\ budget' = [budget EXCEPT ![w] = budget[w] - 1]
  BY <1>1 DEF UseUp
<1> QED
  BY <1>1, <1>2

LEMMA AuthorTyped ==
  ASSUME CloseTyped, NEW n \in Note, WriteNote(n) \/ BringBack(n)
  PROVE  CloseTyped'
<1>1. CASE WriteNote(n)
  <2>1. written[n] + 1 \in Version /\ Absent \in Version
    BY <1>1, PackFacts, CloseAssumption DEF CloseTyped, WriteNote, Version, Absent
  <2>2. notes' \in Pack /\ written' \in Pack /\ safe' \in Pack
    BY <1>1, <2>1 DEF CloseTyped, WriteNote, Pack
  <2> QED
    BY <1>1, <2>2 DEF CloseTyped, WriteNote, Knows
<1>2. CASE BringBack(n)
  <2>1. notes' \in Pack
    BY <1>2 DEF CloseTyped, BringBack, Pack
  <2>2. budget' \in [fault : Nat, rob : Nat, robbed : BOOLEAN]
    BY <1>2, UseUpTyped DEF BringBack
  <2> QED
    BY <1>2, <2>1, <2>2 DEF CloseTyped, BringBack, Knows
<1> QED
  BY <1>1, <1>2

LEMMA PacksTyped ==
  ASSUME CloseTyped, Capture \/ \E p \in packs : Rewrite(p)
  PROVE  CloseTyped'
<1>1. CASE Capture
  <2>1. packs \subseteq packs' /\ packs' \subseteq Pack
    BY <1>1 DEF CloseTyped, Capture
  <2>2. UNCHANGED <<notes, archive, written, changed, marker, lock, closing, safe, done, budget>>
    BY <1>1 DEF Capture
  <2>3. \A c \in Closer : Knows(c)'
    BY <2>1, <2>2 DEF CloseTyped, Knows
  <2> QED
    BY <2>1, <2>2, <2>3 DEF CloseTyped
<1>2. CASE \E p \in packs : Rewrite(p)
  <2>1. budget' \in [fault : Nat, rob : Nat, robbed : BOOLEAN] /\ changed' \subseteq packs
    BY <1>2, UseUpTyped DEF Rewrite, CloseTyped
  <2> QED
    BY <1>2, <2>1 DEF CloseTyped, Rewrite, Knows
<1> QED
  BY <1>1, <1>2

LEMMA LockTyped ==
  ASSUME CloseTyped, NEW c \in Closer, TakeLock(c) \/ Name(c)
  PROVE  CloseTyped'
<1>1. PICK s \in Stages : Then(c, s)
  BY DEF TakeLock, Name, Stages
<1>2. /\ closing[c].stage # "idle" /\ lock' \in [by : SUBSET Closer, named : BOOLEAN]
      /\ UNCHANGED <<notes, archive, written, packs, changed, marker, safe, done, budget>>
  <2>1. lock \in [by : SUBSET Closer, named : BOOLEAN]
    BY DEF CloseTyped
  <2>2. CASE TakeLock(c)
    BY <2>2 DEF TakeLock, Does
  <2>3. CASE Name(c)
    BY <2>1, <2>3 DEF Name, Does
  <2> QED
    BY <2>2, <2>3
<1>3. closing' \in [Closer -> Closing] /\ \A x \in Closer : Knows(x)'
  BY <1>1, <1>2, ThenTyped
<1> QED
  BY <1>2, <1>3 DEF CloseTyped

LEMMA AbandonedTyped ==
  ASSUME CloseTyped, NEW c \in Closer, RemoveAbandoned(c) \/ Rob(c)
  PROVE  CloseTyped'
<1>1. /\ lock' = NoLock /\ budget' \in [fault : Nat, rob : Nat, robbed : BOOLEAN]
      /\ UNCHANGED <<notes, archive, written, packs, changed, marker, closing, safe, done>>
  <2>1. budget \in [fault : Nat, rob : Nat, robbed : BOOLEAN]
    BY DEF CloseTyped
  <2>2. CASE RemoveAbandoned(c)
    BY <2>1, <2>2 DEF RemoveAbandoned
  <2>3. CASE Rob(c)
    <3>1. budget.rob - 1 \in Nat /\ budget' = [budget EXCEPT !.rob = budget.rob - 1, !.robbed = TRUE]
      BY <2>1, <2>3 DEF Rob
    <3> QED
      BY <2>1, <2>3, <3>1 DEF Rob
  <2> QED
    BY <2>2, <2>3
<1>2. lock' \in [by : SUBSET Closer, named : BOOLEAN]
  BY <1>1 DEF NoLock
<1> QED
  BY <1>1, <1>2 DEF CloseTyped, Knows

LEMMA RestTyped ==
  ASSUME CloseTyped, NEW c \in Closer, Outwaited(c) \/ LetGo(c) \/ KillCloser(c)
  PROVE  CloseTyped'
<1>1. /\ closing' = [closing EXCEPT ![c] = Resting]
      /\ UNCHANGED <<notes, archive, written, packs, changed, marker, safe, done>>
      /\ lock' \in {lock, NoLock, Orphan}
  BY DEF Outwaited, LetGo, KillCloser
<1>2. budget' \in [fault : Nat, rob : Nat, robbed : BOOLEAN]
  <2>1. UNCHANGED budget \/ UseUp("fault")
    BY DEF Outwaited, LetGo, KillCloser
  <2> QED
    BY <2>1, UseUpTyped DEF CloseTyped
<1>3. lock' \in [by : SUBSET Closer, named : BOOLEAN]
  <2>1. lock \in [by : SUBSET Closer, named : BOOLEAN]
    BY DEF CloseTyped
  <2>2. {NoLock, Orphan} \subseteq [by : SUBSET Closer, named : BOOLEAN]
    BY DEF NoLock, Orphan
  <2> QED
    BY <1>1, <2>1, <2>2
<1>4. closing' \in [Closer -> Closing] /\ \A x \in Closer : Knows(x)'
  BY <1>1, RestIs, RestKnows, KnowsAll
<1> QED
  BY <1>1, <1>2, <1>3, <1>4 DEF CloseTyped

\* The steps in which a closer only goes on.
Onward(c) ==
  \/ Again(c) \/ NotesUnfit(c) \/ (\E n \in Note : Seen(c, n)) \/ Publication(c)
  \/ CommitFails(c) \/ Restored(c) \/ MoveFails(c)

LEMMA OnwardIs ==
  ASSUME CloseTyped, NEW c \in Closer, Onward(c)
  PROVE  /\ \E s \in Stages : Then(c, s)
         /\ closing[c].stage # "idle"
         /\ UNCHANGED <<notes, archive, written, packs, changed, marker, lock, safe>>
         /\ budget' \in [fault : Nat, rob : Nat, robbed : BOOLEAN]
         /\ budget'.robbed = budget.robbed
<1>1. \E s \in Stages : Then(c, s)
  BY DEF Onward, Again, NotesUnfit, Seen, Publication, CommitFails, Restored, MoveFails, Stages
<1>2. closing[c].stage # "idle"
  BY DEF Onward, Again, NotesUnfit, Seen, Publication, CommitFails, Restored, MoveFails, Does
<1>3. UNCHANGED <<notes, archive, written, packs, changed, marker, lock, safe>>
  BY DEF Onward, Again, NotesUnfit, Seen, Publication, CommitFails, Restored, MoveFails
<1>4. UNCHANGED budget \/ UseUp("fault")
  BY DEF Onward, Again, NotesUnfit, Seen, Publication, CommitFails, Restored, MoveFails
<1>5. budget' \in [fault : Nat, rob : Nat, robbed : BOOLEAN] /\ budget'.robbed = budget.robbed
  BY <1>4, UseUpTyped DEF CloseTyped
<1> QED
  BY <1>1, <1>2, <1>3, <1>5

LEMMA OnwardTyped ==
  ASSUME CloseTyped, NEW c \in Closer, Onward(c)
  PROVE  CloseTyped'
<1>1. closing' \in [Closer -> Closing] /\ \A x \in Closer : Knows(x)'
  BY OnwardIs, ThenTyped
<1>2. done' \subseteq packs
  BY DEF Onward, Again, NotesUnfit, Seen, Publication, CommitFails, Restored, MoveFails,
         CloseTyped, Knows, Does
<1> QED
  BY <1>1, <1>2, OnwardIs DEF CloseTyped

LEMMA BeginsTyped ==
  ASSUME CloseTyped, NEW c \in Closer, NEW p \in packs, Begins(c, p)
  PROVE  CloseTyped'
<1>1. UNCHANGED <<notes, archive, written, packs, changed, marker, lock, safe, done, budget>>
  BY DEF Begins
<1>2. Knows(c)'
  BY <1>1, BeginsIs DEF Knows
<1> QED
  BY <1>1, <1>2, BeginsIs, KnowsAll DEF CloseTyped

LEMMA CheckTyped ==
  ASSUME CloseTyped, NEW c \in Closer, CheckNotes(c) \/ StageRan(c)
  PROVE  CloseTyped'
<1>1. /\ UNCHANGED <<notes, archive, written, packs, changed, marker, lock, safe, done, budget>>
      /\ closing[c].stage # "idle"
  BY DEF CheckNotes, StageRan, Does
<1>2. Knows(c) /\ marker \subseteq packs
  BY DEF CloseTyped
<1>3. Knows(c)' /\ Others(c) /\ closing' \in [Closer -> Closing]
  <2>1. CASE CheckNotes(c)
    BY <1>1, <1>2, <2>1, CheckIs DEF Knows
  <2>2. CASE StageRan(c)
    BY <1>1, <1>2, <2>2, StageIs DEF Knows
  <2> QED
    BY <2>1, <2>2
<1> QED
  BY <1>1, <1>3, KnowsAll DEF CloseTyped

LEMMA LookTyped ==
  ASSUME CloseTyped, NEW c \in Closer, NEW n \in Note, LookAgain(c, n)
  PROVE  CloseTyped'
<1>1. /\ UNCHANGED <<notes, archive, written, packs, changed, marker, lock, safe, done, budget>>
      /\ closing[c].stage # "idle" /\ n \in Captured(closing[c].pack)
  BY DEF LookAgain, Does, Remaining
<1>2. Knows(c)
  BY DEF CloseTyped
<1>3. Knows(c)'
  BY <1>1, <1>2, LookIs DEF Knows
<1> QED
  BY <1>1, <1>3, LookIs, KnowsAll DEF CloseTyped

LEMMA MoveTyped ==
  ASSUME CloseTyped, NEW c \in Closer, NEW n \in Note, Move(c, n)
  PROVE  CloseTyped'
<1>1. /\ UNCHANGED <<written, packs, changed, marker, lock, safe, done, budget>>
      /\ closing[c].stage # "idle" /\ closing[c].note = {n}
  BY DEF Move, Does
<1>2. Knows(c)
  BY DEF CloseTyped
<1>3. Knows(c)'
  BY <1>1, <1>2, MoveIs DEF Knows
<1>4. Absent \in Version
  BY CloseAssumption DEF Absent, Version
<1>5. notes' \in Pack /\ archive' \in Pack
  BY <1>4 DEF Move, CloseTyped, Pack
<1> QED
  BY <1>1, <1>3, <1>5, MoveIs, KnowsAll DEF CloseTyped

Back(c, n) ==
  notes[n] = Absent /\ (n \in closing[c].kept \/ archive[n] = closing[c].pack[n])

LEMMA PutBackIs ==
  ASSUME CloseTyped, NEW c \in Closer, NEW n \in Note, PutBack(c, n)
  PROVE  /\ closing' \in [Closer -> Closing] /\ Others(c)
         /\ closing[c].stage = "restore" /\ n \in closing[c].moved
         /\ closing'[c].stage = "restore" /\ closing'[c].pack = closing[c].pack
         /\ closing'[c].kept = closing[c].kept
         /\ closing'[c].moved = closing[c].moved \ {n}
         /\ closing'[c].note = closing[c].note /\ closing'[c].staged = closing[c].staged
         /\ closing'[c].clean = (closing[c].clean /\ (Back(c, n) \/ notes[n] = closing[c].pack[n]))
         /\ closing'[c].tried = closing[c].tried \cup {n}
         /\ notes' = IF Back(c, n) THEN [notes EXCEPT ![n] = closing[c].pack[n]] ELSE notes
         /\ archive' = IF Back(c, n) /\ n \notin closing[c].kept
                       THEN [archive EXCEPT ![n] = Absent] ELSE archive
         /\ UNCHANGED <<written, packs, changed, marker, lock, safe, done, budget>>
<1> DEFINE b == closing[c].clean /\ (Back(c, n) \/ notes[n] = closing[c].pack[n])
<1>1. closing[c] \in Closing
  BY Fields
<1>2. closing' = [closing EXCEPT ![c].moved = @ \ {n}, ![c].tried = @ \cup {n},
                                 ![c].clean = @ /\ (Back(c, n) \/ notes[n] = closing[c].pack[n])]
  BY Zenon DEF PutBack, Back
<1>3. closing' = [closing EXCEPT ![c].moved = @ \ {n}, ![c].tried = @ \cup {n}, ![c].clean = b]
  BY <1>1, <1>2 DEF CloseTyped, Closing
<1>4. b \in BOOLEAN
  BY Fields
<1>5. /\ closing[c].stage = "restore" /\ n \in closing[c].moved
      /\ notes' = IF Back(c, n) THEN [notes EXCEPT ![n] = closing[c].pack[n]] ELSE notes
      /\ archive' = IF Back(c, n) /\ n \notin closing[c].kept
                    THEN [archive EXCEPT ![n] = Absent] ELSE archive
      /\ UNCHANGED <<written, packs, changed, marker, lock, safe, done, budget>>
  BY DEF PutBack, Back, Does
<1> HIDE DEF b
<1>6. /\ closing' \in [Closer -> Closing] /\ Others(c)
      /\ closing'[c].stage = closing[c].stage /\ closing'[c].pack = closing[c].pack
      /\ closing'[c].kept = closing[c].kept
      /\ closing'[c].moved = closing[c].moved \ {n}
      /\ closing'[c].note = closing[c].note /\ closing'[c].staged = closing[c].staged
      /\ closing'[c].clean = b /\ closing'[c].tried = closing[c].tried \cup {n}
  BY <1>3, <1>4, BackIs
<1> QED
  BY <1>5, <1>6 DEF b

LEMMA PutBackFailsIs ==
  ASSUME CloseTyped, NEW c \in Closer, NEW n \in Note, PutBackFails(c, n)
  PROVE  /\ closing' \in [Closer -> Closing] /\ Others(c)
         /\ closing[c].stage = "restore" /\ n \in closing[c].moved
         /\ closing'[c].stage = "restore" /\ closing'[c].pack = closing[c].pack
         /\ closing'[c].kept = closing[c].kept
         /\ closing'[c].moved = closing[c].moved \ {n}
         /\ closing'[c].note = closing[c].note /\ closing'[c].staged = closing[c].staged
         /\ ~closing'[c].clean
         /\ closing'[c].tried = closing[c].tried \cup {n}
         /\ UNCHANGED <<notes, archive, written, packs, changed, marker, lock, safe, done>>
         /\ budget' \in [fault : Nat, rob : Nat, robbed : BOOLEAN]
         /\ budget'.robbed = budget.robbed
<1>1. closing' = [closing EXCEPT ![c].moved = @ \ {n}, ![c].tried = @ \cup {n},
                                 ![c].clean = FALSE]
  BY DEF PutBackFails
<1>2. /\ closing[c].stage = "restore" /\ n \in closing[c].moved
      /\ UNCHANGED <<notes, archive, written, packs, changed, marker, lock, safe, done>>
      /\ UseUp("fault")
  BY DEF PutBackFails, Does
<1> QED
  BY <1>1, <1>2, BackIs, UseUpTyped

LEMMA PutBackTyped ==
  ASSUME CloseTyped, NEW c \in Closer, NEW n \in Note, PutBack(c, n) \/ PutBackFails(c, n)
  PROVE  CloseTyped'
<1>1. Knows(c)
  BY DEF CloseTyped
<1>2. CASE PutBack(c, n)
  <2>1. Knows(c)'
    BY <1>1, <1>2, PutBackIs DEF Knows
  <2>2. Absent \in Version
    BY CloseAssumption DEF Absent, Version
  <2>3. notes' \in Pack /\ archive' \in Pack
    <3>1. closing[c].pack[n] \in Version
      BY Fields DEF Pack
    <3>2. notes \in [Note -> Version] /\ archive \in [Note -> Version]
      BY DEF CloseTyped, Pack
    <3>3. notes' = notes \/ notes' = [notes EXCEPT ![n] = closing[c].pack[n]]
      BY <1>2, PutBackIs
    <3>4. archive' = archive \/ archive' = [archive EXCEPT ![n] = Absent]
      BY <1>2, PutBackIs
    <3> QED
      BY <2>2, <3>1, <3>2, <3>3, <3>4 DEF Pack
  <2> QED
    BY <1>2, <2>1, <2>3, PutBackIs, KnowsAll DEF CloseTyped
<1>3. CASE PutBackFails(c, n)
  <2>1. Knows(c)'
    BY <1>1, <1>3, PutBackFailsIs DEF Knows
  <2> QED
    BY <1>3, <2>1, PutBackFailsIs, KnowsAll DEF CloseTyped
<1> QED
  BY <1>2, <1>3

LEMMA CommitTyped ==
  ASSUME CloseTyped, NEW c \in Closer, CommitRan(c)
  PROVE  CloseTyped'
<1>1. /\ Then(c, "leave") /\ closing[c].stage # "idle"
      /\ UNCHANGED <<notes, archive, written, packs, changed, lock, safe, budget>>
      /\ marker' = closing[c].staged /\ done' = done \cup {closing[c].pack}
  BY DEF CommitRan, Does
<1>2. marker' \subseteq packs /\ done' \subseteq packs
  BY <1>1 DEF CloseTyped, Knows
<1>3. closing' \in [Closer -> Closing] /\ \A x \in Closer : Knows(x)'
  BY <1>1, ThenTyped DEF Stages
<1> QED
  BY <1>1, <1>2, <1>3 DEF CloseTyped

LEMMA CloserTyped ==
  ASSUME CloseTyped, NEW c \in Closer, CloserStep(c)
  PROVE  CloseTyped'
<1>1. CASE Onward(c)
  BY <1>1, OnwardTyped
<1>2. CASE ~Onward(c)
  BY <1>2, BeginsTyped, LockTyped, AbandonedTyped, RestTyped, CheckTyped, LookTyped, MoveTyped,
     PutBackTyped, CommitTyped
  DEF CloserStep, Onward
<1> QED
  BY <1>1, <1>2

-----------------------------------------------------------------------------
(* Versions                                                                *)

\* The steps of a closer that move no note and complete no pack.
CloseQuiet(c) ==
  /\ Others(c) /\ budget'.robbed = budget.robbed
  /\ UNCHANGED <<notes, archive, written, packs, marker, safe>>

LEMMA WrittenKept ==
  ASSUME CloseTyped, Written, UNCHANGED <<notes, archive, written, packs>>
  PROVE  Written'
BY DEF Written

LEMMA AuthorWritten ==
  ASSUME CloseTyped, Written, NEW n \in Note, WriteNote(n) \/ BringBack(n)
  PROVE  Written'
<1>1. /\ notes \in [Note -> Version] /\ archive \in [Note -> Version]
      /\ written \in [Note -> Version]
  BY DEF CloseTyped, Pack
<1>2. \A m \in Note : written[m] \in Nat /\ notes[m] \in Nat /\ archive[m] \in Nat
  BY PackFacts DEF CloseTyped
<1>3. \A p \in packs, m \in Note : p[m] \in Nat
  BY PackFacts DEF CloseTyped
<1>4. CASE WriteNote(n)
  <2>1. /\ written' = [written EXCEPT ![n] = written[n] + 1] /\ archive' = archive
        /\ notes' = [notes EXCEPT ![n] = written[n] + 1] /\ packs' = packs
    BY <1>4 DEF WriteNote
  <2>2. ASSUME NEW m \in Note
        PROVE  /\ notes'[m] <= written'[m] /\ archive'[m] <= written'[m]
               /\ \A p \in packs' : p[m] <= written'[m]
    BY <1>1, <1>2, <1>3, <2>1 DEF Written
  <2> QED
    BY <2>2 DEF Written
<1>5. CASE BringBack(n)
  <2>1. /\ notes' = [notes EXCEPT ![n] = archive[n]]
        /\ UNCHANGED <<archive, written, packs>>
    BY <1>5 DEF BringBack
  <2> QED
    BY <1>1, <2>1 DEF Written
<1> QED
  BY <1>4, <1>5

LEMMA CaptureWritten ==
  ASSUME CloseTyped, Written, Capture
  PROVE  Written'
BY DEF Capture, Written

LEMMA MovedWritten ==
  ASSUME CloseTyped, Written, NEW c \in Closer, NEW n \in Note, Move(c, n) \/ PutBack(c, n)
  PROVE  Written'
<1>1. /\ notes \in [Note -> Version] /\ archive \in [Note -> Version]
      /\ \A m \in Note : written[m] \in Nat
  BY PackFacts DEF CloseTyped, Pack
<1>2. CASE Move(c, n)
  <2>1. /\ UNCHANGED <<written, packs>> /\ notes' = [notes EXCEPT ![n] = 0]
        /\ archive' = archive \/ archive' = [archive EXCEPT ![n] = notes[n]]
    BY <1>2 DEF Move, Absent
  <2> QED
    BY <1>1, <2>1 DEF Written
<1>3. CASE PutBack(c, n)
  <2>1. /\ UNCHANGED <<written, packs>>
        /\ notes' = notes \/ notes' = [notes EXCEPT ![n] = closing[c].pack[n]]
        /\ archive' = archive \/ archive' = [archive EXCEPT ![n] = 0]
    BY <1>3, PutBackIs DEF Absent
  <2>2. closing[c].pack \in packs
    BY <1>3, PutBackIs DEF CloseTyped, Knows
  <2> QED
    BY <1>1, <2>1, <2>2 DEF Written
<1> QED
  BY <1>2, <1>3

-----------------------------------------------------------------------------
(* One closer inside the lock                                              *)

LEMMA ExclusiveKept ==
  ASSUME CloseExclusive, NEW c \in Closer, Others(c), lock' = lock,
         closing'[c].stage \in Inside => closing[c].stage \in Inside
  PROVE  CloseExclusive'
BY DEF CloseExclusive, Others

\* A closer that is outside is untouched by what is done inside.
LEMMA OutsideWorks ==
  ASSUME NEW x \in Closer, Works(x), closing[x].stage \in {"idle", "enter"},
         closing'[x] = closing[x]
  PROVE  Works(x)'
<1>1. closing'[x].moved = {} /\ closing'[x].tried = {} /\ closing'[x].stage \in {"idle", "enter"}
  BY DEF Works, Progress, Tried, Stages, Working, Filling
<1> QED
  BY <1>1 DEF Works, Places, Staged, Progress, Window, Tried, Working, Filling

LEMMA InsideOthers ==
  ASSUME CloseTyped, Unrobbed, NEW c \in Closer, closing[c].stage \in Inside, Others(c)
  PROVE  \A x \in Closer \ {c} : Works(x)'
<1> SUFFICES ASSUME NEW x \in Closer \ {c}
             PROVE  Works(x)'
  OBVIOUS
<1>1. closing[x].stage \notin Inside
  <2>1. lock.by = {c}
    BY DEF Unrobbed, CloseExclusive
  <2> QED
    BY <2>1 DEF Unrobbed, CloseExclusive
<1>2. closing[x].stage \in {"idle", "enter"}
  BY <1>1, Fields DEF Inside
<1> QED
  BY <1>2, OutsideWorks DEF Unrobbed, Others

LEMMA StillWorks ==
  ASSUME NEW x \in Closer, Works(x), closing'[x] = closing[x],
         UNCHANGED <<notes, archive, marker, safe>>
  PROVE  Works(x)'
<1>1. Places(x)' /\ Staged(x)'
  BY DEF Works, Places, Staged
<1>2. Progress(x)'
  BY DEF Works, Progress
<1>3. Window(x)' /\ Tried(x)'
  BY DEF Works, Window, Tried
<1> QED
  BY <1>1, <1>2, <1>3 DEF Works

LEMMA QuietOthers ==
  ASSUME Unrobbed, NEW c \in Closer, CloseQuiet(c)
  PROVE  \A x \in Closer \ {c} : Works(x)'
BY StillWorks DEF Unrobbed, CloseQuiet, Others

LEMMA RestWorks ==
  ASSUME NEW c \in Closer, closing'[c] = Resting
  PROVE  Works(c)'
BY RestingFacts DEF Works, Places, Staged, Progress, Window, Tried, Working, Filling

\* A step of one closer that moves no note leaves the marker and the notes as they are.
LEMMA CloseQuietKeeps ==
  ASSUME Unrobbed, NEW c \in Closer, CloseQuiet(c), Works(c)', CloseExclusive', done' \subseteq marker
  PROVE  Unrobbed'
<1>1. \A x \in Closer : Works(x)'
  BY QuietOthers
<1>2. MarkerHolds' /\ LastKept'
  BY DEF CloseQuiet, Unrobbed, MarkerHolds, LastKept, Archived
<1> QED
  BY <1>1, <1>2 DEF Unrobbed

-----------------------------------------------------------------------------
(* The steps before and after the work                                     *)

LEMMA BeginsKeeps ==
  ASSUME CloseTyped, Unrobbed, NEW c \in Closer, NEW p \in packs, Begins(c, p)
  PROVE  Unrobbed'
<1>1. /\ UNCHANGED <<notes, archive, written, packs, changed, marker, lock, safe, done, budget>>
      /\ done \subseteq marker
  BY DEF Begins, Unrobbed, MarkerHolds
<1>2. CloseQuiet(c) /\ closing'[c].stage = "enter"
  BY <1>1, BeginsIs DEF CloseQuiet
<1>3. Works(c)'
  BY BeginsIs DEF Works, Places, Staged, Progress, Window, Tried, Working, Filling
<1>4. CloseExclusive'
  BY <1>1, <1>2, ExclusiveKept DEF Unrobbed, CloseQuiet, Inside
<1> QED
  BY <1>1, <1>2, <1>3, <1>4, CloseQuietKeeps

LEMMA TakeLockKeeps ==
  ASSUME CloseTyped, Unrobbed, NEW c \in Closer, TakeLock(c)
  PROVE  Unrobbed'
<1>1. /\ Then(c, "name") /\ closing[c].stage = "enter" /\ lock = NoLock /\ lock'.by = {c}
      /\ UNCHANGED <<notes, archive, written, packs, changed, marker, safe, done, budget>>
      /\ done \subseteq marker
  BY DEF TakeLock, Does, Unrobbed, MarkerHolds
<1>2. CloseQuiet(c) /\ closing'[c].stage = "name"
  BY <1>1, ThenIs DEF CloseQuiet, Stages
<1>3. Works(c)'
  <2>1. closing[c].moved = {} /\ closing[c].tried = {}
    BY <1>1 DEF Unrobbed, Works, Progress, Tried, Stages, Working, Filling
  <2>2. closing'[c].moved = {} /\ closing'[c].tried = {}
    BY <1>1, <2>1, ThenIs DEF Stages
  <2> QED
    BY <1>2, <2>2 DEF Works, Places, Staged, Progress, Window, Tried, Working, Filling
<1>4. CloseExclusive'
  <2>1. \A x \in Closer : closing[x].stage \notin Inside
    BY <1>1 DEF Unrobbed, CloseExclusive, NoLock
  <2> QED
    BY <1>1, <1>2, <2>1 DEF CloseExclusive, CloseQuiet, Others
<1> QED
  BY <1>1, <1>2, <1>3, <1>4, CloseQuietKeeps

LEMMA NameKeeps ==
  ASSUME CloseTyped, Unrobbed, NEW c \in Closer, Name(c)
  PROVE  Unrobbed'
<1>1. /\ Then(c, "check") /\ closing[c].stage = "name"
      /\ UNCHANGED <<notes, archive, written, packs, changed, marker, safe, done, budget>>
      /\ done \subseteq marker
  BY DEF Name, Does, Unrobbed, MarkerHolds
<1>2. lock'.by = lock.by
  BY DEF Name, CloseTyped
<1>3. CloseQuiet(c) /\ closing'[c].stage = "check"
  BY <1>1, ThenIs DEF CloseQuiet, Stages
<1>4. Works(c)'
  <2>1. closing[c].moved = {} /\ closing[c].tried = {}
    BY <1>1 DEF Unrobbed, Works, Progress, Tried, Stages, Working, Filling
  <2>2. closing'[c].moved = {} /\ closing'[c].tried = {}
    BY <1>1, <2>1, ThenIs DEF Stages
  <2> QED
    BY <1>3, <2>2 DEF Works, Places, Staged, Progress, Window, Tried, Working, Filling
<1>5. CloseExclusive'
  BY <1>1, <1>2, <1>3 DEF Unrobbed, CloseExclusive, CloseQuiet, Others, Inside, Stages
<1> QED
  BY <1>1, <1>3, <1>4, <1>5, CloseQuietKeeps

\* The lock of a process that is gone is nobody's.
LEMMA AbandonedKeeps ==
  ASSUME CloseTyped, Unrobbed, NEW c \in Closer, RemoveAbandoned(c)
  PROVE  Unrobbed'
<1>1. /\ lock = Orphan
      /\ UNCHANGED <<notes, archive, written, packs, changed, marker, closing, safe, done, budget>>
  BY DEF RemoveAbandoned, Abandoned
<1>2. CloseExclusive'
  BY <1>1 DEF Unrobbed, CloseExclusive, Orphan
<1>3. \A x \in Closer : Works(x)'
  BY <1>1, StillWorks DEF Unrobbed
<1>4. MarkerHolds' /\ LastKept'
  BY <1>1 DEF Unrobbed, MarkerHolds, LastKept, Archived
<1> QED
  BY <1>2, <1>3, <1>4 DEF Unrobbed

LEMMA RestKeeps ==
  ASSUME CloseTyped, Unrobbed, NEW c \in Closer, Outwaited(c) \/ LetGo(c) \/ KillCloser(c)
  PROVE  Unrobbed'
<1>1. /\ closing' = [closing EXCEPT ![c] = Resting]
      /\ UNCHANGED <<notes, archive, written, packs, changed, marker, safe, done>>
      /\ done \subseteq marker
  BY DEF Outwaited, LetGo, KillCloser, Unrobbed, MarkerHolds
<1>2. UNCHANGED budget \/ UseUp("fault")
  BY DEF Outwaited, LetGo, KillCloser
<1>3. CloseQuiet(c) /\ closing'[c] = Resting
  BY <1>1, <1>2, RestIs, UseUpTyped DEF CloseQuiet
<1>4. lock' = lock \/ lock.by = {c} \/ closing[c].stage \in Inside
  BY DEF Outwaited, LetGo, KillCloser, Does, Inside, Stages
<1>5. CloseExclusive'
  <2> SUFFICES ASSUME NEW x \in Closer, closing'[x].stage \in Inside
               PROVE  lock'.by = {x}
    BY DEF CloseExclusive
  <2>1. x # c
    BY <1>3, RestingFacts DEF Inside
  <2>2. closing[x].stage \in Inside /\ lock.by = {x}
    BY <1>3, <2>1 DEF CloseQuiet, Others, Unrobbed, CloseExclusive
  <2>3. lock.by # {c}
    BY <2>1, <2>2
  <2>4. closing[c].stage \in Inside => lock.by = {c}
    BY DEF Unrobbed, CloseExclusive
  <2> QED
    BY <1>4, <2>2, <2>3, <2>4
<1> QED
  BY <1>1, <1>3, <1>5, RestWorks, CloseQuietKeeps

\* Going on: each such step finds what its next place relies on.
LEMMA OnwardWorks ==
  ASSUME CloseTyped, Unrobbed, NEW c \in Closer, Onward(c)
  PROVE  Works(c)' /\ closing[c].stage \in Inside
<1>1. Works(c) /\ Knows(c) /\ UNCHANGED <<archive, marker, notes, safe>>
  BY OnwardIs DEF CloseTyped, Unrobbed
<1>2. CASE Again(c) \/ NotesUnfit(c)
  <2>1. Then(c, "leave") /\ closing[c].stage = "check"
    BY <1>2 DEF Again, NotesUnfit, Does
  <2>2. closing'[c].stage = "leave" /\ closing'[c].tried = {}
    BY <1>1, <2>1, ThenIs DEF Stages, Works, Tried
  <2> QED
    BY <2>1, <2>2 DEF Works, Places, Staged, Progress, Window, Tried, Working, Filling, Inside, Stages
<1>3. CASE Restored(c)
  <2>1. Then(c, "leave") /\ closing[c].stage = "restore"
    BY <1>3 DEF Restored, Does
  <2>2. closing'[c].stage = "leave" /\ Tried(c)'
    BY <1>1, <2>1, ThenIs DEF Stages, Works, Tried
  <2> QED
    BY <2>1, <2>2 DEF Works, Places, Staged, Progress, Window, Working, Filling, Inside, Stages
<1>4. ASSUME Then(c, "restore"), closing[c].stage \in Filling \ {"stage"}
      PROVE  Works(c)' /\ closing[c].stage \in Inside
  <2>1. closing'[c].stage = "restore" /\ Places(c)' /\ Staged(c)'
    BY <1>1, <1>4, ThenIs DEF Stages, Works, Places, Staged, Working, Filling
  <2>2. Tried(c)'
    BY <1>1, <1>4, ThenIs DEF Stages, Works, Tried, Filling
  <2> QED
    BY <1>4, <2>1, <2>2 DEF Works, Progress, Window, Working, Filling, Inside, Stages
<1>5. CASE MoveFails(c) \/ CommitFails(c)
  BY <1>4, <1>5 DEF MoveFails, CommitFails, Does, Filling
<1>6. CASE Publication(c)
  <2>1. closing[c].stage = "publication" /\ (Then(c, "restore") \/ Then(c, "commit"))
    BY <1>6 DEF Publication, Does
  <2>2. CASE Then(c, "commit")
    <3>1. closing'[c].stage = "commit" /\ Places(c)' /\ Staged(c)' /\ Tried(c)'
      BY <1>1, <2>1, <2>2, ThenIs DEF Stages, Works, Places, Staged, Tried, Working, Filling
    <3>2. Progress(c)'
      BY <1>1, <2>1, <2>2, ThenIs DEF Stages, Works, Progress, Working, Filling
    <3> QED
      BY <2>1, <3>1, <3>2 DEF Works, Window, Inside, Stages
  <2> QED
    BY <1>4, <2>1, <2>2 DEF Filling
<1>7. CASE \E n \in Note : Seen(c, n)
  <2>1. PICK n \in Note : Seen(c, n)
    BY <1>7
  <2>2. closing[c].stage = "seen" /\ closing[c].note = {n}
    BY <2>1 DEF Seen, Does
  <2>3. CASE Then(c, "restore")
    BY <1>4, <2>2, <2>3 DEF Filling
  <2>4. ASSUME NEW s \in {"publication", "look"}, Then(c, s), archive[n] = closing[c].pack[n],
               s = "publication" => Remaining(c) = {}
        PROVE  Works(c)' /\ closing[c].stage \in Inside
    <3>1. closing'[c].stage = s /\ Places(c)' /\ Staged(c)' /\ Tried(c)'
      BY <1>1, <2>2, <2>4, ThenIs DEF Stages, Works, Places, Staged, Tried, Working, Filling
    <3>2. s = "publication" => closing[c].moved = Captured(closing[c].pack)
      BY <1>1, <2>4 DEF Remaining, Knows
    <3>3. Progress(c)'
      BY <1>1, <2>2, <2>4, <3>2, ThenIs DEF Stages, Works, Progress, Working, Filling
    <3> QED
      BY <2>2, <3>1, <3>3 DEF Works, Window, Inside, Stages
  <2> QED
    BY <2>1, <2>3, <2>4 DEF Seen
<1> QED
  BY <1>2, <1>3, <1>5, <1>6, <1>7 DEF Onward

LEMMA OnwardKeeps ==
  ASSUME CloseTyped, Unrobbed, NEW c \in Closer, Onward(c)
  PROVE  Unrobbed'
<1>1. Works(c)' /\ closing[c].stage \in Inside
  BY OnwardWorks
<1>2. CloseQuiet(c) /\ lock' = lock
  BY OnwardIs, ThenIs DEF CloseQuiet
<1>3. CloseExclusive'
  BY <1>1, <1>2, ExclusiveKept DEF Unrobbed, CloseQuiet
<1>4. done' \subseteq marker
  BY DEF Onward, Again, NotesUnfit, Seen, Publication, CommitFails, Restored, MoveFails,
         Unrobbed, MarkerHolds
<1> QED
  BY <1>1, <1>2, <1>3, <1>4, CloseQuietKeeps

-----------------------------------------------------------------------------
(* The steps inside the lock                                               *)

LEMMA CheckKeeps ==
  ASSUME CloseTyped, Unrobbed, NEW c \in Closer, CheckNotes(c)
  PROVE  Unrobbed'
<1>1. /\ closing[c].stage = "check" /\ Movable(closing[c].pack)
      /\ UNCHANGED <<notes, archive, written, packs, changed, marker, lock, safe, done, budget>>
      /\ done \subseteq marker /\ \A p \in marker : Archived(p)
  BY DEF CheckNotes, Does, Unrobbed, MarkerHolds
<1>2. CloseQuiet(c) /\ closing'[c].stage = "stage"
  BY <1>1, CheckIs DEF CloseQuiet
<1>3. Works(c)'
  <2>1. closing[c].moved = {} /\ closing[c].tried = {}
    BY <1>1 DEF Unrobbed, Works, Progress, Tried, Stages, Working, Filling
  <2>2. closing'[c].moved = {} /\ closing'[c].tried = {}
    BY <2>1, CheckIs
  <2>3. ASSUME NEW n \in Captured(closing[c].pack) \ closing'[c].kept
        PROVE  archive[n] = Absent /\ \A p \in marker : p[n] = Absent
    <3>1. archive[n] = Absent
      BY <1>1, CheckIs DEF Movable
    <3> QED
      BY <1>1, <3>1 DEF Archived, Captured
  <2>4. Places(c)'
    BY <1>1, <2>3, CheckIs DEF Places
  <2>5. Progress(c)'
    BY <1>1, <1>2, <2>2, <2>3, CheckIs DEF Progress, Working, Filling
  <2> QED
    BY <1>2, <2>2, <2>4, <2>5 DEF Works, Staged, Window, Tried
<1>4. CloseExclusive'
  BY <1>1, <1>2, ExclusiveKept DEF Unrobbed, CloseQuiet, Inside, Stages
<1> QED
  BY <1>1, <1>2, <1>3, <1>4, CloseQuietKeeps

LEMMA StageKeeps ==
  ASSUME CloseTyped, Unrobbed, NEW c \in Closer, StageRan(c)
  PROVE  Unrobbed'
<1>1. /\ closing[c].stage = "stage"
      /\ UNCHANGED <<notes, archive, written, packs, changed, marker, lock, safe, done, budget>>
      /\ done \subseteq marker
  BY DEF StageRan, Does, Unrobbed, MarkerHolds
<1>2. CloseQuiet(c) /\ closing'[c].stage = "look"
  BY <1>1, StageIs DEF CloseQuiet
<1>3. Works(c)'
  <2>1. Works(c)
    BY DEF Unrobbed
  <2>2. Places(c)' /\ Staged(c)'
    BY <1>1, <2>1, StageIs DEF Works, Places, Staged, Working, Filling
  <2>3. Progress(c)' /\ Tried(c)'
    BY <1>1, <2>1, StageIs DEF Works, Progress, Tried, Working, Filling, Stages
  <2> QED
    BY <1>2, <2>2, <2>3 DEF Works, Window
<1>4. CloseExclusive'
  BY <1>1, <1>2, ExclusiveKept DEF Unrobbed, CloseQuiet, Inside, Stages
<1> QED
  BY <1>1, <1>2, <1>3, <1>4, CloseQuietKeeps

\* The note that is looked at is not moved yet, and is as it was captured.
LEMMA LookKeeps ==
  ASSUME CloseTyped, Unrobbed, NEW c \in Closer, NEW n \in Note, LookAgain(c, n)
  PROVE  Unrobbed'
<1>1. /\ closing[c].stage = "look" /\ n \notin closing[c].moved
      /\ UNCHANGED <<notes, archive, written, packs, changed, marker, lock, safe, done, budget>>
      /\ done \subseteq marker
  BY DEF LookAgain, Does, Remaining, Unrobbed, MarkerHolds
<1>2. CloseQuiet(c) /\ closing'[c].stage \in {"move", "restore"}
  BY <1>1, LookIs DEF CloseQuiet
<1>3. Works(c)'
  <2>1. Works(c)
    BY DEF Unrobbed
  <2>2. Places(c)' /\ Staged(c)'
    BY <1>1, <1>2, <2>1, LookIs DEF Works, Places, Staged, Working, Filling
  <2>3. Progress(c)' /\ Tried(c)'
    BY <1>1, <1>2, <2>1, LookIs DEF Works, Progress, Tried, Working, Filling, Stages
  <2>4. Window(c)'
    BY <1>1, LookIs DEF Window
  <2> QED
    BY <2>2, <2>3, <2>4 DEF Works
<1>4. CloseExclusive'
  BY <1>1, <1>2, ExclusiveKept DEF Unrobbed, CloseQuiet, Inside, Stages
<1> QED
  BY <1>1, <1>2, <1>3, <1>4, CloseQuietKeeps

LEMMA PutBackFailsKeeps ==
  ASSUME CloseTyped, Unrobbed, NEW c \in Closer, NEW n \in Note, PutBackFails(c, n)
  PROVE  Unrobbed'
<1>1. /\ UNCHANGED <<notes, archive, written, packs, changed, marker, lock, safe, done>>
      /\ done \subseteq marker /\ closing[c].stage = "restore" /\ closing'[c].stage = "restore"
  BY PutBackFailsIs DEF Unrobbed, MarkerHolds
<1>2. CloseQuiet(c)
  BY PutBackFailsIs DEF CloseQuiet
<1>3. Works(c)'
  <2>1. Works(c)
    BY DEF Unrobbed
  <2>2. Places(c)' /\ Staged(c)'
    BY <1>1, <2>1, PutBackFailsIs DEF Works, Places, Staged
  <2> QED
    BY <1>1, <2>2, PutBackFailsIs DEF Works, Progress, Window, Tried, Working, Filling
<1>4. CloseExclusive'
  BY <1>1, <1>2, ExclusiveKept DEF Unrobbed, CloseQuiet
<1> QED
  BY <1>1, <1>2, <1>3, <1>4, CloseQuietKeeps

\* A step inside the lock that is no quiet one.
LEMMA InsideKeeps ==
  ASSUME CloseTyped, Unrobbed, NEW c \in Closer, closing[c].stage \in Inside, Others(c),
         lock' = lock, Works(c)', MarkerHolds', LastKept'
  PROVE  Unrobbed'
<1>1. CloseExclusive'
  BY ExclusiveKept DEF Unrobbed
<1>2. \A x \in Closer : Works(x)'
  BY InsideOthers
<1> QED
  BY <1>1, <1>2 DEF Unrobbed

\* The place a note is moved to is free and no completed pack's, and what is
\* moved there is the note that was looked at, unless an author wrote it since.
LEMMA MoveKeeps ==
  ASSUME CloseTyped, Unrobbed, NEW c \in Closer, NEW n \in Note, Move(c, n)
  PROVE  Unrobbed'
<1>1. /\ closing[c].stage = "move" /\ closing[c].note = {n} /\ notes[n] # Absent
      /\ archive' = IF n \in closing[c].kept THEN archive ELSE [archive EXCEPT ![n] = notes[n]]
      /\ notes' = [notes EXCEPT ![n] = Absent]
      /\ UNCHANGED <<written, packs, changed, marker, lock, safe, done, budget>>
  BY DEF Move, Does
<1>2. Works(c) /\ MarkerHolds /\ LastKept /\ Knows(c)
  BY DEF Unrobbed, CloseTyped
<1>3. n \in Captured(closing[c].pack) /\ n \notin closing[c].moved
  BY <1>1, <1>2 DEF Knows, Works, Window
<1>4. /\ \A m \in closing[c].kept : archive[m] = closing[c].pack[m]
      /\ \A m \in Captured(closing[c].pack) \ closing[c].kept : \A p \in marker : p[m] = Absent
  BY <1>1, <1>2 DEF Works, Places, Working, Filling
<1>5. /\ \A m \in Captured(closing[c].pack) \ (closing[c].kept \cup closing[c].moved) :
           archive[m] = Absent
      /\ \A m \in closing[c].moved : archive[m] = closing[c].pack[m]
  BY <1>1, <1>2 DEF Works, Progress, Filling
<1>6. /\ archive \in [Note -> Version] /\ notes \in [Note -> Version]
      /\ archive'[n] = IF n \in closing[c].kept THEN archive[n] ELSE notes[n]
      /\ \A m \in Note \ {n} : archive'[m] = archive[m] /\ notes'[m] = notes[m]
  BY <1>1 DEF CloseTyped, Pack
<1>7. Captured(closing[c].pack) \subseteq Note
  BY DEF Captured
<1>8. Works(c)'
  <2>1. Places(c)' /\ Staged(c)'
    <3>1. Staged(c)'
      BY <1>1, <1>2, MoveIs DEF Works, Staged, Working, Filling
    <3>2. \A m \in closing[c].kept : archive'[m] = closing[c].pack[m]
      BY <1>2, <1>4, <1>6, <1>7 DEF Knows
    <3> QED
      BY <1>1, <1>4, <3>1, <3>2, MoveIs DEF Places
  <2>2. Progress(c)'
    <3>1. \A m \in Captured(closing[c].pack) \ (closing[c].kept \cup closing'[c].moved) :
            archive'[m] = Absent
      BY <1>5, <1>6, <1>7, MoveIs
    <3>2. \A m \in closing'[c].moved : archive'[m] = closing[c].pack[m] \/ m \in {n}
      BY <1>2, <1>5, <1>6, <1>7, MoveIs DEF Knows
    <3> QED
      BY <3>1, <3>2, MoveIs DEF Progress, Filling, Working
  <2>3. closing'[c].stage = "seen" /\ closing'[c].tried = {}
    BY <1>1, <1>2, MoveIs DEF Works, Tried
  <2> QED
    BY <2>1, <2>2, <2>3 DEF Works, Window, Tried
<1>9. MarkerHolds'
  <2>1. ASSUME NEW p \in marker, NEW m \in Captured(p)
        PROVE  archive'[m] = p[m]
    <3>1. m \in Note /\ p[m] # Absent /\ archive[m] = p[m]
      BY <1>2 DEF Captured, MarkerHolds, Archived
    <3>2. m = n => n \in closing[c].kept
      BY <1>3, <1>4, <3>1
    <3> QED
      BY <1>6, <3>1, <3>2
  <2> QED
    BY <1>1, <1>2, <2>1 DEF MarkerHolds, Archived
<1>10. LastKept'
  <2>1. safe[n] # Absent => safe[n] = archive'[n]
    <3>1. CASE safe[n] # Absent
      <4>1. notes[n] = closing[c].pack[n] /\ safe[n] \in {notes[n], archive[n]}
        BY <1>1, <1>2, <3>1 DEF Works, Window, LastKept
      <4>2. CASE n \in closing[c].kept
        BY <1>4, <1>6, <4>1, <4>2
      <4>3. CASE n \notin closing[c].kept
        BY <1>3, <1>5, <1>6, <3>1, <4>1, <4>3
      <4> QED
        BY <4>2, <4>3
    <3> QED
      BY <3>1
  <2> QED
    BY <1>1, <1>2, <1>6, <2>1 DEF LastKept
<1> QED
  BY <1>1, <1>8, <1>9, <1>10, MoveIs, InsideKeeps DEF Inside, Stages

\* What is taken back was in no completed pack's place.
LEMMA PutBackKeeps ==
  ASSUME CloseTyped, Unrobbed, NEW c \in Closer, NEW n \in Note, PutBack(c, n)
  PROVE  Unrobbed'
<1>1. /\ closing[c].stage = "restore" /\ closing'[c].stage = "restore"
      /\ notes' = IF Back(c, n) THEN [notes EXCEPT ![n] = closing[c].pack[n]] ELSE notes
      /\ archive' = IF Back(c, n) /\ n \notin closing[c].kept
                    THEN [archive EXCEPT ![n] = Absent] ELSE archive
      /\ UNCHANGED <<written, packs, changed, marker, lock, safe, done, budget>>
  BY PutBackIs
<1>2. Works(c) /\ MarkerHolds /\ LastKept /\ Knows(c)
  BY DEF Unrobbed, CloseTyped
<1>3. n \in Captured(closing[c].pack)
  BY <1>2, PutBackIs DEF Knows
<1>4. /\ \A m \in closing[c].kept : archive[m] = closing[c].pack[m]
      /\ \A m \in Captured(closing[c].pack) \ closing[c].kept : \A p \in marker : p[m] = Absent
  BY <1>1, <1>2 DEF Works, Places, Working
<1>5. /\ archive \in [Note -> Version] /\ notes \in [Note -> Version]
      /\ \A m \in Note \ {n} : archive'[m] = archive[m] /\ notes'[m] = notes[m]
      /\ notes'[n] = IF Back(c, n) THEN closing[c].pack[n] ELSE notes[n]
      /\ n \in closing[c].kept \/ ~Back(c, n) => archive'[n] = archive[n]
  BY <1>1 DEF CloseTyped, Pack
<1>6. closing[c].pack \in [Note -> Nat] /\ Captured(closing[c].pack) \subseteq Note
  BY Fields, PackFacts DEF Pack
<1>7. Works(c)'
  <2>1. Places(c)' /\ Staged(c)'
    <3>1. Staged(c)'
      BY <1>1, <1>2, PutBackIs DEF Works, Staged
    <3>2. \A m \in closing[c].kept : archive'[m] = closing[c].pack[m]
      BY <1>2, <1>4, <1>5, <1>6 DEF Knows
    <3> QED
      BY <1>1, <1>4, <3>1, <3>2, PutBackIs DEF Places
  <2>2. Tried(c)'
    <3>1. ASSUME closing'[c].clean, NEW m \in closing[c].tried \cup {n}
          PROVE  notes'[m] >= closing[c].pack[m]
      <4>1. closing[c].clean /\ (Back(c, n) \/ notes[n] = closing[c].pack[n])
        BY <3>1, PutBackIs
      <4>2. CASE m = n
        BY <1>5, <1>6, <4>1, <4>2
      <4>3. CASE m # n
        BY <1>2, <1>5, <4>1, <4>3, <3>1, Fields DEF Works, Tried
      <4> QED
        BY <4>2, <4>3
    <3> QED
      BY <1>1, <3>1, PutBackIs DEF Tried
  <2> QED
    BY <1>1, <2>1, <2>2 DEF Works, Progress, Window, Working, Filling
<1>8. MarkerHolds'
  <2>1. ASSUME NEW p \in marker, NEW m \in Captured(p)
        PROVE  archive'[m] = p[m]
    <3>1. m \in Note /\ p[m] # Absent /\ archive[m] = p[m]
      BY <1>2 DEF Captured, MarkerHolds, Archived
    <3>2. m = n => n \in closing[c].kept
      BY <1>3, <1>4, <3>1
    <3> QED
      BY <1>5, <3>1, <3>2
  <2> QED
    BY <1>1, <1>2, <2>1 DEF MarkerHolds, Archived
<1>9. LastKept'
  <2>1. safe[n] # Absent => safe[n] \in {notes'[n], archive'[n]}
    <3>1. CASE safe[n] # Absent /\ Back(c, n)
      <4>1. safe[n] = archive[n] /\ archive[n] = closing[c].pack[n]
        BY <1>2, <1>4, <3>1 DEF LastKept, Back
      <4> QED
        BY <1>5, <3>1, <4>1
    <3>2. CASE safe[n] # Absent /\ ~Back(c, n)
      BY <1>2, <1>5, <3>2 DEF LastKept
    <3> QED
      BY <3>1, <3>2
  <2> QED
    BY <1>1, <1>2, <1>5, <2>1 DEF LastKept
<1> QED
  BY <1>1, <1>7, <1>8, <1>9, PutBackIs, InsideKeeps DEF Inside, Stages

\* Everything the pack captured is archived when its marker is written, and the
\* marker it was staged over is the marker still.
LEMMA CommitKeeps ==
  ASSUME CloseTyped, Unrobbed, NEW c \in Closer, CommitRan(c)
  PROVE  Unrobbed'
<1>1. /\ closing[c].stage = "commit" /\ Then(c, "leave") /\ marker' = closing[c].staged
      /\ done' = done \cup {closing[c].pack}
      /\ UNCHANGED <<notes, archive, written, packs, changed, lock, safe, budget>>
  BY DEF CommitRan, Does
<1>2. Works(c) /\ MarkerHolds /\ LastKept
  BY DEF Unrobbed
<1>3. closing[c].staged = marker \cup {closing[c].pack}
  BY <1>1, <1>2 DEF Works, Staged, Working, Filling
<1>4. Archived(closing[c].pack)
  BY <1>1, <1>2 DEF Works, Progress, Filling, Archived
<1>5. MarkerHolds'
  BY <1>1, <1>2, <1>3, <1>4 DEF MarkerHolds, Archived
<1>6. LastKept'
  BY <1>1, <1>2 DEF LastKept
<1>7. Works(c)'
  <2>1. closing'[c].stage = "leave" /\ closing'[c].tried = {}
    BY <1>1, <1>2, ThenIs DEF Works, Tried, Stages
  <2> QED
    BY <2>1 DEF Works, Places, Staged, Progress, Window, Tried, Working, Filling
<1>8. Others(c) /\ closing[c].stage \in Inside
  BY <1>1, ThenIs DEF Inside, Stages
<1> QED
  BY <1>1, <1>5, <1>6, <1>7, <1>8, InsideKeeps

-----------------------------------------------------------------------------
(* The authors                                                             *)

\* What an author may do to a note leaves the rest of what a closer relies on.
LEMMA AuthorWorks ==
  ASSUME NEW x \in Closer, Works(x), UNCHANGED <<archive, marker, closing>>,
         Window(x)', Tried(x)'
  PROVE  Works(x)'
<1>1. Places(x)' /\ Staged(x)'
  BY DEF Works, Places, Staged
<1>2. Progress(x)'
  BY DEF Works, Progress
<1> QED
  BY <1>1, <1>2 DEF Works

LEMMA AuthorKeeps ==
  ASSUME UNCHANGED <<archive, marker, closing, lock, done>>, Unrobbed, LastKept',
         \A x \in Closer : Window(x)' /\ Tried(x)'
  PROVE  Unrobbed'
<1>1. \A x \in Closer : Works(x)'
  BY AuthorWorks DEF Unrobbed
<1>2. CloseExclusive' /\ MarkerHolds'
  BY DEF Unrobbed, CloseExclusive, MarkerHolds, Archived
<1> QED
  BY <1>1, <1>2 DEF Unrobbed

LEMMA WriteKeeps ==
  ASSUME CloseTyped, Written, Unrobbed, NEW n \in Note, WriteNote(n)
  PROVE  Unrobbed'
<1>1. /\ notes' = [notes EXCEPT ![n] = written[n] + 1]
      /\ safe' = [safe EXCEPT ![n] = IF \E c \in Closer : closing[c].stage = "move" /\ closing[c].note = {n}
                                     THEN Absent ELSE written[n] + 1]
      /\ UNCHANGED <<archive, packs, changed, marker, lock, closing, done, budget>>
  BY DEF WriteNote, Does
<1>2. /\ notes \in [Note -> Version] /\ safe \in [Note -> Version]
      /\ \A m \in Note : written[m] \in Nat /\ notes[m] \in Nat
      /\ \A m \in Note \ {n} : notes'[m] = notes[m] /\ safe'[m] = safe[m]
      /\ notes'[n] = written[n] + 1 /\ safe'[n] \in {Absent, written[n] + 1}
  BY <1>1, PackFacts DEF CloseTyped, Pack
<1>3. LastKept'
  <2>1. \A m \in Note : safe[m] # Absent => safe[m] \in {notes[m], archive[m]}
    BY DEF Unrobbed, LastKept
  <2> QED
    BY <1>1, <1>2, <2>1 DEF LastKept
<1>4. ASSUME NEW x \in Closer
      PROVE  Window(x)' /\ Tried(x)'
  <2>1. Works(x) /\ Knows(x) /\ closing'[x] = closing[x] /\ closing[x].pack \in Pack
    BY <1>1, Fields DEF Unrobbed, CloseTyped
  <2>2. Window(x)'
    <3>1. ASSUME closing[x].stage = "move", NEW m \in closing[x].note
          PROVE  closing[x].note = {m} /\ (notes'[m] = closing[x].pack[m] \/ safe'[m] = Absent)
      <4>1. closing[x].note = {m} /\ (notes[m] = closing[x].pack[m] \/ safe[m] = Absent)
        BY <2>1, <3>1 DEF Works, Window
      <4>2. m \in Note
        BY <3>1, Fields
      <4>3. m = n => safe'[m] = Absent
        BY <1>1, <1>2, <3>1, <4>1
      <4> QED
        BY <1>2, <4>1, <4>2, <4>3
    <3> QED
      BY <2>1, <3>1 DEF Window, Works
  <2>3. Tried(x)'
    <3>1. ASSUME closing[x].clean, NEW m \in closing[x].tried
          PROVE  notes'[m] >= closing[x].pack[m]
      <4>1. m \in Note /\ notes[m] >= closing[x].pack[m]
        BY <2>1, <3>1, Fields DEF Works, Tried
      <4>2. closing[x].pack \in packs
        BY <2>1, <3>1 DEF Works, Tried, Knows
      <4>3. closing[x].pack[m] <= written[m] /\ closing[x].pack[m] \in Nat
        BY <2>1, <4>1, <4>2, PackFacts DEF Written
      <4> QED
        BY <1>2, <4>1, <4>3
    <3> QED
      BY <2>1, <3>1 DEF Works, Tried
  <2> QED
    BY <2>2, <2>3
<1> QED
  BY <1>1, <1>3, <1>4, AuthorKeeps

LEMMA BringKeeps ==
  ASSUME CloseTyped, Unrobbed, NEW n \in Note, BringBack(n)
  PROVE  Unrobbed'
<1>1. /\ notes[n] = Absent /\ notes' = [notes EXCEPT ![n] = archive[n]]
      /\ UNCHANGED <<archive, written, packs, changed, marker, lock, closing, safe, done>>
  BY DEF BringBack
<1>2. /\ notes \in [Note -> Version] /\ notes'[n] = archive[n]
      /\ \A m \in Note \ {n} : notes'[m] = notes[m]
  BY <1>1 DEF CloseTyped, Pack
<1>3. LastKept'
  BY <1>1, <1>2 DEF Unrobbed, LastKept
<1>4. ASSUME NEW x \in Closer
      PROVE  Window(x)' /\ Tried(x)'
  <2>1. /\ Works(x) /\ closing'[x] = closing[x]
        /\ \A m \in closing[x].note \cup closing[x].tried :
             m \in Note /\ closing[x].pack[m] # Absent /\ closing[x].pack[m] >= 1
    <3>1. closing[x].pack \in Pack /\ Knows(x)
      BY Fields DEF CloseTyped
    <3> QED
      BY <1>1, <3>1, PackFacts DEF Unrobbed, Knows
  <2>2. Window(x)'
    BY <1>1, <1>2, <2>1 DEF Works, Window
  <2>3. Tried(x)'
    <3>1. ASSUME closing[x].clean, NEW m \in closing[x].tried
          PROVE  notes'[m] >= closing[x].pack[m]
      <4>1. notes[m] >= closing[x].pack[m] /\ m \in Note /\ closing[x].pack[m] >= 1
        BY <2>1, <3>1 DEF Works, Tried
      <4>2. closing[x].pack[m] \in Nat
        BY <4>1, Fields, PackFacts
      <4>3. m # n
        BY <1>1, <4>1, <4>2 DEF Absent
      <4> QED
        BY <1>2, <4>1, <4>3
    <3> QED
      BY <2>1, <3>1 DEF Works, Tried
  <2> QED
    BY <2>2, <2>3
<1> QED
  BY <1>1, <1>3, <1>4, AuthorKeeps

LEMMA PacksKeep ==
  ASSUME Unrobbed, Capture \/ (\E p \in packs : Rewrite(p)) \/ UNCHANGED closeVars
  PROVE  Unrobbed'
<1>1. UNCHANGED <<notes, archive, marker, lock, closing, safe, done>>
  BY DEF Capture, Rewrite, closeVars
<1>2. \A x \in Closer : Works(x)'
  BY <1>1, StillWorks DEF Unrobbed
<1> QED
  BY <1>1, <1>2 DEF Unrobbed, CloseExclusive, MarkerHolds, LastKept, Archived

-----------------------------------------------------------------------------
(* The theorems                                                            *)

\* No step takes a robbery back.
LEMMA RobbedStays ==
  ASSUME CloseTyped, CloseNext \/ UNCHANGED closeVars, ~budget'.robbed
  PROVE  ~budget.robbed /\ \A c \in Closer : ~Rob(c)
<1>1. budget \in [fault : Nat, rob : Nat, robbed : BOOLEAN]
  BY DEF CloseTyped
<1>2. ASSUME NEW c \in Closer, Rob(c)
      PROVE  budget'.robbed
  BY <1>1, <1>2 DEF Rob
<1>3. ASSUME UNCHANGED budget \/ UseUp("fault")
      PROVE  ~budget.robbed
  BY <1>3, UseUpTyped
<1>4. \A c \in Closer : ~Rob(c)
  BY <1>2
<1>5. UNCHANGED budget \/ UseUp("fault")
  <2>1. ASSUME NEW c \in Closer, CloserStep(c)
        PROVE  UNCHANGED budget \/ UseUp("fault")
    <3>1. CASE Onward(c)
      BY <3>1 DEF Onward, Again, NotesUnfit, Seen, Publication, CommitFails, Restored, MoveFails
    <3>2. CASE \/ \E p \in packs : Begins(c, p)
               \/ TakeLock(c) \/ Name(c) \/ RemoveAbandoned(c) \/ Outwaited(c) \/ LetGo(c)
               \/ KillCloser(c)
      BY <3>2 DEF Begins, TakeLock, Name, RemoveAbandoned, Outwaited, LetGo, KillCloser
    <3>3. CASE \/ CheckNotes(c) \/ StageRan(c) \/ CommitRan(c)
               \/ \E n \in Note : LookAgain(c, n) \/ Move(c, n) \/ PutBack(c, n) \/ PutBackFails(c, n)
      BY <3>3 DEF CheckNotes, StageRan, CommitRan, LookAgain, Move, PutBack, PutBackFails
    <3> QED
      BY <1>4, <2>1, <3>1, <3>2, <3>3 DEF CloserStep, Onward
  <2>2. CASE UNCHANGED closeVars \/ Capture \/ (\E n \in Note : WriteNote(n) \/ BringBack(n))
             \/ (\E p \in packs : Rewrite(p))
    BY <2>2 DEF closeVars, Capture, WriteNote, BringBack, Rewrite
  <2> QED
    BY <2>1, <2>2 DEF CloseNext
<1> QED
  BY <1>3, <1>4, <1>5

LEMMA CloserKeeps ==
  ASSUME CloseTyped, Unrobbed, NEW c \in Closer, CloserStep(c), ~Rob(c)
  PROVE  Unrobbed'
<1>1. CASE Onward(c)
  BY <1>1, OnwardKeeps
<1>2. CASE ~Onward(c)
  BY <1>2, BeginsKeeps, TakeLockKeeps, NameKeeps, AbandonedKeeps, RestKeeps, CheckKeeps,
     StageKeeps, LookKeeps, MoveKeeps, PutBackKeeps, PutBackFailsKeeps, CommitKeeps
  DEF CloserStep, Onward
<1> QED
  BY <1>1, <1>2

LEMMA CloserWritten ==
  ASSUME CloseTyped, Written, NEW c \in Closer, CloserStep(c)
  PROVE  Written'
<1>1. CASE \E n \in Note : Move(c, n) \/ PutBack(c, n)
  BY <1>1, MovedWritten
<1>2. CASE ~\E n \in Note : Move(c, n) \/ PutBack(c, n)
  <2>1. UNCHANGED <<notes, archive, written, packs>>
    BY <1>2 DEF CloserStep, Begins, TakeLock, Name, RemoveAbandoned, Rob, Outwaited, Again,
       CheckNotes, NotesUnfit, StageRan, LookAgain, MoveFails, Seen, Publication, CommitRan,
       CommitFails, PutBackFails, Restored, LetGo, KillCloser
  <2> QED
    BY <2>1, WrittenKept
<1> QED
  BY <1>1, <1>2

LEMMA InitIInv == CloseInit => IInv
<1> SUFFICES ASSUME CloseInit
             PROVE  IInv
  OBVIOUS
<1>1. \A n \in Note : NoPack[n] = 0
  BY DEF NoPack, Absent
<1>2. \A c \in Closer : closing[c] = Resting
  BY DEF CloseInit
<1>3. CloseTyped
  <2>1. \A c \in Closer : Knows(c)
    BY <1>2, RestingFacts DEF Knows
  <2>2. budget \in [fault : Nat, rob : Nat, robbed : BOOLEAN]
    <3>1. MaxFault \in Nat /\ MaxRob \in Nat /\ 0 \in Nat
      BY CloseAssumption
    <3>2. \/ budget = [fault |-> MaxFault, rob |-> 0, robbed |-> FALSE]
          \/ budget = [fault |-> 0, rob |-> MaxRob, robbed |-> FALSE]
      BY Zenon DEF CloseInit
    <3>3. \A f, r \in Nat : [fault |-> f, rob |-> r, robbed |-> FALSE]
                              \in [fault : Nat, rob : Nat, robbed : BOOLEAN]
      OBVIOUS
    <3> QED
      BY <3>1, <3>2, <3>3, Zenon
  <2>3. lock \in [by : SUBSET Closer, named : BOOLEAN]
    BY DEF CloseInit, NoLock
  <2>4. closing \in [Closer -> Closing]
    BY RestingFacts DEF CloseInit
  <2> QED
    BY <2>1, <2>2, <2>3, <2>4, NoPackFacts DEF CloseInit, CloseTyped
<1>4. Written
  BY <1>1 DEF CloseInit, Written
<1>5. Unrobbed
  <2>1. \A c \in Closer : Works(c)
    BY <1>2, RestingFacts DEF Works, Places, Staged, Progress, Window, Tried, Working, Filling
  <2>2. CloseExclusive
    BY <1>2, RestingFacts DEF CloseExclusive, Inside
  <2>3. MarkerHolds /\ LastKept
    BY <1>1 DEF CloseInit, MarkerHolds, LastKept, Absent
  <2> QED
    BY <2>1, <2>2, <2>3 DEF Unrobbed
<1> QED
  BY <1>3, <1>4, <1>5 DEF IInv

LEMMA NextIInv == IInv /\ [CloseNext]_closeVars => IInv'
<1> SUFFICES ASSUME IInv, CloseNext \/ UNCHANGED closeVars
             PROVE  IInv'
  OBVIOUS
<1>1. CloseTyped /\ Written
  BY DEF IInv
<1>2. CloseTyped'
  <2>1. CASE UNCHANGED closeVars
    BY <1>1, <2>1 DEF closeVars, CloseTyped, Knows
  <2>2. CASE CloseNext
    BY <1>1, <2>2, AuthorTyped, PacksTyped, CloserTyped DEF CloseNext
  <2> QED
    BY <2>1, <2>2
<1>3. Written'
  <2>1. CASE UNCHANGED closeVars \/ \E p \in packs : Rewrite(p)
    BY <1>1, <2>1, WrittenKept DEF closeVars, Rewrite
  <2>2. CASE CloseNext /\ ~\E p \in packs : Rewrite(p)
    BY <1>1, <2>2, AuthorWritten, CaptureWritten, CloserWritten DEF CloseNext
  <2> QED
    BY <2>1, <2>2
<1>4. ASSUME ~budget'.robbed
      PROVE  Unrobbed'
  <2>1. Unrobbed /\ \A c \in Closer : ~Rob(c)
    BY <1>1, <1>4, RobbedStays DEF IInv
  <2>2. CASE UNCHANGED closeVars
    BY <2>1, <2>2, PacksKeep
  <2>3. CASE CloseNext
    BY <1>1, <2>1, <2>3, WriteKeeps, BringKeeps, PacksKeep, CloserKeeps DEF CloseNext
  <2> QED
    BY <2>2, <2>3
<1> QED
  BY <1>2, <1>3, <1>4 DEF IInv

LEMMA Invariance == CloseSpec => []IInv
BY InitIInv, NextIInv, PTL DEF CloseSpec

\* The state of a closing is well formed: it holds in memory only notes of its
\* own pack, and the marker and what is staged for it name only captured packs.
THEOREM CloseTyping == CloseSpec => []CloseTypeOK
<1>1. IInv => CloseTypeOK
  <2> SUFFICES ASSUME IInv
               PROVE  CloseTypeOK
    OBVIOUS
  <2>1. CloseTyped /\ lock.by \subseteq Closer
    BY DEF IInv, CloseTyped
  <2>2. ASSUME NEW c \in Closer
        PROVE  /\ closing[c].stage \in Stages /\ closing[c].pack \in Pack
               /\ closing[c].kept \cup closing[c].moved \subseteq Captured(closing[c].pack)
               /\ closing[c].staged \subseteq packs
    BY <2>1, Fields DEF CloseTyped, Knows
  <2> QED
    BY <2>1, <2>2 DEF CloseTyped, CloseTypeOK
<1> QED
  BY <1>1, Invariance, PTL

\* A pack the marker names is archived as it was captured and stays so, and a
\* retrospective reported complete stays named, until a lock is taken from a
\* process that lives.
THEOREM MarkerIsTrue == CloseSpec => []MarkerTruthful
<1>1. IInv => MarkerTruthful
  BY DEF IInv, Unrobbed, MarkerHolds, MarkerTruthful, MarkerMeansArchived, CompletionKept
<1> QED
  BY <1>1, Invariance, PTL

\* No last version of a note is lost, unless it was written into the window
\* between the last look and the move, and a closing that says it has restored
\* everything has.
THEOREM NotesAreSafe == CloseSpec => []NotesSafe
<1>1. IInv => NotesSafe
  BY DEF IInv, Unrobbed, LastKept, NotesSafe, NotesKept, FailureRestores, Works, Tried, Does
<1> QED
  BY <1>1, Invariance, PTL

\* Both together, as the runs check it (retro.py: complete).
THEOREM ClosingIsSafe == CloseSpec => []CloseSafe
<1>1. MarkerTruthful /\ NotesSafe => CloseSafe
  BY DEF CloseSafe
<1> QED
  BY <1>1, MarkerIsTrue, NotesAreSafe, PTL
=============================================================================
