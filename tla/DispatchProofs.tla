---------------------------- MODULE DispatchProofs ----------------------------
(***************************************************************************)
(* Proofs about the dispatch of runs (Dispatch), for any number of request *)
(* threads, findings, texts, runs, crashes and commits.                    *)
(*                                                                         *)
(* The invariant says who owns a run id (Identity), which thread works for *)
(* a run and what the run's row says meanwhile (Reserving, Starting,       *)
(* Watching), that a thread at work holds the one slot (Slot), that what   *)
(* waits in the queue has a row that waits (Waiting), and why a halted     *)
(* queue is only passed by a retry (Halting).  The last needs all of the   *)
(* others: the halt and the release of the slot are one step, and come     *)
(* after the result of that very run has reached the disk.                 *)
(*                                                                         *)
(* Few steps touch a row, the slot or a thread.  The lemmas first say      *)
(* which, and what each may do (RecordsOne, AppendsOne, BootOne, CallsOne, *)
(* StarterWorks, WatcherWorks); then that each part of the invariant is    *)
(* kept.                                                                   *)
(***************************************************************************)
EXTENDS Dispatch, WellFoundedInduction, SequenceTheorems, TLAPS

-----------------------------------------------------------------------------
(* The inductive invariant                                                 *)

StartBusy == {"prepare", "launch", "record", "fail", "release"}
WatchBusy == {"wait", "orphan", "finalize", "gate", "merge", "reread", "record", "release"}

\* A run id is promised to one decision: by its row, by a call of enqueue under way,
\* or by a reservation that waits for its row.
Named(r, f, k) ==
  \/ r \in DOMAIN row /\ row[r].finding = f /\ row[r].key = k
  \/ \E c \in Caller : /\ ask[c].at = "enqueue" /\ ask[c].run = r
                       /\ ask[c].finding = f /\ ask[c].key = k
  \/ /\ f \in DOMAIN accepted /\ accepted[f].state = "reserved"
     /\ accepted[f].run = r /\ accepted[f].key = k

Identity ==
  \A r \in Run \cup {NoRun}, f, g \in Finding, k, l \in Key :
    Named(r, f, k) => r \in 1 .. made /\ (Named(r, g, l) => f = g /\ k = l)

LedgerRows ==
  /\ DOMAIN row = {ledger[i] : i \in DOMAIN ledger}
  /\ \A i \in DOMAIN ended : ended[i] \in DOMAIN row /\ row[ended[i]].status \in Terminal

\* The thread that works for a run, and what the run's row says meanwhile.
Reserving ==
  adv # NoAdv =>
    /\ adv.run \in DOMAIN row /\ active = adv.run
    /\ row[adv.run].status = IF adv.at = "starting" THEN "queued" ELSE "starting"
    /\ start[adv.run] \notin StartBusy /\ watch[adv.run] \notin WatchBusy
    /\ adv.by \in Caller => ask[adv.by].at = "waiting"

StartingAt(r) ==
  /\ start[r] # "none" => r \in DOMAIN row
  /\ start[r] \in StartBusy => active = r /\ watch[r] \notin WatchBusy
  /\ start[r] \in StartBusy \ {"release"} => row[r].status = "starting"
  /\ start[r] \in {"release", "blame"} => row[r].status = "failed"
Starting == \A r \in Run : StartingAt(r)

WatchingAt(r) ==
  /\ watch[r] # "none" => r \in DOMAIN row
  /\ watch[r] \in WatchBusy => active = r
  /\ watch[r] \in WatchBusy \ {"release"} => row[r].status \in Live
  /\ watch[r] = "record" => verdict[r] \in Terminal
  /\ watch[r] \in {"release", "annotate"} =>
       verdict[r] \in Terminal /\ row[r].status = verdict[r]
  /\ watch[r] = "advance" => row[r].status \in Terminal
Watching == \A r \in Run : WatchingAt(r)

Slot ==
  /\ up = "down" => /\ active = NoRun /\ queue = <<>> /\ adv = NoAdv
                    /\ \A r \in Run : start[r] = "none" /\ watch[r] = "none"
                    /\ \A c \in Caller : ask[c] = NoAsk
  /\ up # "down" => \A r \in DOMAIN row : row[r].status \in Live => active = r

Waiting ==
  \A i \in DOMAIN queue : queue[i].status = "queued" =>
    /\ queue[i].run \in DOMAIN row /\ row[queue[i].run].status = "queued"
    /\ adv # NoAdv => adv.run # queue[i].run

\* A result is called completed only after the commit is on the branch.
Praised(r) == verdict[r] = "completed" \/ watch[r] = "reread"
Integrated == CompletedIsIntegrated /\ \A r \in Run : Praised(r) => r \in merged

\* A worker is looked after by the thread of its run.
Attended(r) == active = r /\ (start[r] = "record" \/ watch[r] = "wait")
Workers == crashes = 0 => \A r \in Run : worker[r] = "alive" => Attended(r)

\* Why a halted queue is only passed by a retry: the outcome is the latest one until the
\* slot is given up, the halt comes with that, and only a retry takes it away, which
\* is then the first that waits.
Retry(r) == row[r].key.retry # NoRun
NothingYet  == crashes = 0 /\ up = "down" => ledger = <<>> /\ ended = <<>>
ReleasesIt  == \A r \in Run : start[r] = "release" \/ watch[r] = "release" => Latest(ended) = r
StartsRetry == crashes = 0 /\ adv.at = "starting" /\ ~Resolved(Latest(ended)) => Retry(adv.run)
FreeIsRetry ==
  crashes = 0 /\ up # "down" /\ active = NoRun /\ ~halted /\ ~Resolved(Latest(ended)) =>
    FirstQueued # 0 /\ Retry(queue[FirstQueued].run)
Halting == NothingYet /\ ReleasesIt /\ StartsRetry /\ FreeIsRetry

IInv == /\ TypeOK /\ Identity /\ LedgerRows /\ OneLiveRun /\ ReplaySafe
        /\ Reserving /\ Starting /\ Watching /\ Slot
        /\ Waiting /\ Integrated /\ Workers /\ Halting

-----------------------------------------------------------------------------
(* The queue and the ledger                                                *)

LEMMA LeastNumber ==
  ASSUME NEW T \in SUBSET Nat, T # {}
  PROVE  \E x \in T : \A y \in T : x <= y
<1>1. PICK x \in T : \A y \in T : ~ (<<y, x>> \in OpToRel(<, Nat))
  BY WFMin, NatLessThanWellFounded
<1>2. ASSUME NEW y \in T, y < x PROVE FALSE
  <2>1. <<y, x>> \in {ss \in Nat \X Nat : ss[1] < ss[2]}
    BY <1>2
  <2>2. <<y, x>> \in OpToRel(<, Nat)
    BY <2>1, Zenon DEF OpToRel
  <2>. QED
    BY <1>1, <2>2
<1>. QED
  BY <1>2

LEMMA MinIsLeast ==
  ASSUME NEW T \in SUBSET Nat, T # {}
  PROVE  Min(T) \in T /\ \A y \in T : Min(T) <= y
BY LeastNumber DEF Min

\* FirstQueued is 0 or the first item that waits.
LEMMA FirstQueuedIs ==
  ASSUME queue \in Seq(Item)
  PROVE  /\ FirstQueued \in 0 .. Len(queue)
         /\ FirstQueued # 0 => /\ FirstQueued \in DOMAIN queue
                               /\ queue[FirstQueued].status = "queued"
                               /\ \A i \in 1 .. FirstQueued - 1 : queue[i].status # "queued"
         /\ FirstQueued = 0 => \A i \in DOMAIN queue : queue[i].status # "queued"
<1>. DEFINE I == {i \in 1 .. Len(queue) : queue[i].status = "queued"}
<1>1. FirstQueued = IF I # {} THEN Min(I) ELSE 0
  BY DEF FirstQueued, SelectInSeq, Waits
<1>2. CASE I = {}
  BY <1>1, <1>2
<1>3. CASE I # {}
  <2>1. I \in SUBSET Nat
    OBVIOUS
  <2>2. FirstQueued \in I /\ \A i \in I : FirstQueued <= i
    BY <1>1, <1>3, <2>1, MinIsLeast
  <2>. QED
    BY <2>2
<1>. QED
  BY <1>2, <1>3

LEMMA MarkedIs ==
  ASSUME queue \in Seq(Item), NEW r \in Run, NEW s \in Status
  PROVE  /\ Marked(r, s) \in Seq(Item)
         /\ DOMAIN Marked(r, s) = DOMAIN queue
         /\ \A i \in DOMAIN queue :
              /\ Marked(r, s)[i].run = queue[i].run
              /\ Marked(r, s)[i].status = IF queue[i].run = r THEN s ELSE queue[i].status
<1>1. DOMAIN queue = 1 .. Len(queue) /\ Len(queue) \in Nat
  BY LenProperties
<1>2. ASSUME NEW i \in DOMAIN queue
      PROVE  /\ Marked(r, s)[i] \in Item /\ Marked(r, s)[i].run = queue[i].run
             /\ Marked(r, s)[i].status = IF queue[i].run = r THEN s ELSE queue[i].status
  <2>1. queue[i] \in [run : Run, status : Status]
    BY ElementOfSeq, <1>1 DEF Item
  <2>2. Marked(r, s)[i] = IF queue[i].run = r THEN [queue[i] EXCEPT !.status = s] ELSE queue[i]
    BY DEF Marked
  <2>3. CASE queue[i].run = r
    BY <2>1, <2>2, <2>3 DEF Item
  <2>4. CASE queue[i].run # r
    BY <2>1, <2>2, <2>4 DEF Item
  <2>. QED
    BY <2>3, <2>4
<1>3. DOMAIN Marked(r, s) = DOMAIN queue
  BY DEF Marked
<1>4. Marked(r, s) \in [1 .. Len(queue) -> Item]
  BY <1>1, <1>2 DEF Marked
<1>5. Marked(r, s) \in Seq(Item)
  BY <1>1, <1>4, SeqDef
<1>. QED
  BY <1>2, <1>3, <1>5

LEMMA InsertIs ==
  ASSUME queue \in Seq(Item), NEW n \in DOMAIN queue, NEW item \in Item
  PROVE  LET q == InsertAt(queue, n, item)
         IN /\ q \in Seq(Item) /\ Len(q) = Len(queue) + 1
            /\ \A i \in 1 .. n - 1 : q[i] = queue[i]
            /\ q[n] = item
            /\ \A i \in n + 1 .. Len(q) : q[i] = queue[i - 1]
<1>. DEFINE a == SubSeq(queue, 1, n - 1)
            b == SubSeq(queue, n, Len(queue))
            q == InsertAt(queue, n, item)
<1>1. DOMAIN queue = 1 .. Len(queue) /\ Len(queue) \in Nat /\ n \in 1 .. Len(queue)
  BY LenProperties
<1>2. /\ a \in Seq(Item) /\ Len(a) = n - 1
      /\ \A i \in 1 .. n - 1 : a[i] = queue[i]
  <2>1. \A i \in 1 .. n - 1 : queue[i] \in Item
    BY <1>1, ElementOfSeq
  <2>. QED
    BY <1>1, <2>1, SubSeqProperties
<1>3. /\ b \in Seq(Item) /\ Len(b) = Len(queue) - n + 1
      /\ \A i \in 1 .. Len(queue) - n + 1 : b[i] = queue[n + i - 1]
  <2>1. \A i \in n .. Len(queue) : queue[i] \in Item
    BY <1>1, ElementOfSeq
  <2>. QED
    BY <1>1, <2>1, SubSeqProperties
<1>4. q = a \o <<item>> \o b
  BY DEF InsertAt
<1>. HIDE DEF a, b, q
<1>5. q \in Seq(Item) /\ Len(q) = Len(queue) + 1
  <2>1. <<item>> \in Seq(Item) /\ Len(<<item>>) = 1
    OBVIOUS
  <2>2. a \o <<item>> \in Seq(Item) /\ Len(a \o <<item>>) = Len(a) + 1
    BY <1>2, <2>1, ConcatProperties
  <2>. DEFINE c == a \o <<item>>
  <2>3. q = c \o b
    BY <1>4
  <2>4. c \in Seq(Item) /\ Len(c) = Len(a) + 1
    BY <2>2
  <2>. HIDE DEF c
  <2>5. q \in Seq(Item) /\ Len(q) = Len(c) + Len(b)
    BY <1>3, <2>3, <2>4, ConcatProperties
  <2>6. Len(a) = n - 1 /\ Len(b) = Len(queue) - n + 1
    BY <1>2, <1>3
  <2>7. (n - 1) + 1 + (Len(queue) - n + 1) = Len(queue) + 1
    BY <1>1
  <2>. QED
    BY <2>4, <2>5, <2>6, <2>7
<1>6. ASSUME NEW i \in 1 .. n - 1 PROVE q[i] = queue[i]
  BY <1>1, <1>2, <1>3, <1>4
<1>7. q[n] = item
  BY <1>1, <1>2, <1>3, <1>4
<1>8. ASSUME NEW i \in n + 1 .. Len(q) PROVE q[i] = queue[i - 1]
  <2>1. i - n \in 1 .. Len(queue) - n + 1
    BY <1>1, <1>5
  <2>2. q[i] = b[i - n]
    BY <1>1, <1>2, <1>3, <1>4, <1>5, <2>1
  <2>3. b[i - n] = queue[n + (i - n) - 1]
    BY <1>3, <2>1
  <2>4. n + (i - n) - 1 = i - 1
    BY <1>1, <1>5
  <2>. QED
    BY <2>2, <2>3, <2>4
<1>. QED
  BY <1>5, <1>6, <1>7, <1>8 DEF q

\* The recursion of Kept is well-founded: such a function exists, so Kept is one.
Keeps(g, n, S) ==
  g = [i \in 0 .. n |->
         IF i = 0 THEN <<>>
         ELSE IF row[ledger[i]].status \in S
              THEN Append(g[i - 1], ledger[i]) ELSE g[i - 1]]

LEMMA SomeKeeps ==
  ASSUME NEW S, NEW n \in Nat
  PROVE  \E g : Keeps(g, n, S)
<1>. DEFINE T == {m \in Nat : ~ \E g : Keeps(g, m, S)}
<1>1. ASSUME NEW m \in T, \A y \in T : m <= y PROVE FALSE
  <2>1. m # 0
    <3>1. Keeps([i \in 0 .. 0 |-> <<>>], 0, S)
      BY DEF Keeps
    <3>. QED
      BY <3>1
  <2>2. m - 1 \in Nat /\ m - 1 \notin T /\ m \in Nat
    BY <1>1, <2>1
  <2>3. PICK g : Keeps(g, m - 1, S)
    BY <2>2
  <2>. DEFINE last == IF row[ledger[m]].status \in S
                      THEN Append(g[m - 1], ledger[m]) ELSE g[m - 1]
              h == [i \in 0 .. m |-> IF i < m THEN g[i] ELSE last]
              e == [i \in 0 .. m |->
                      IF i = 0 THEN <<>>
                      ELSE IF row[ledger[i]].status \in S
                           THEN Append(h[i - 1], ledger[i]) ELSE h[i - 1]]
  <2>4. ASSUME NEW i \in 0 .. m PROVE h[i] = e[i]
    <3>1. CASE i = m
      <4>1. h[i] = last
        BY <2>2, <3>1
      <4>2. h[i - 1] = g[m - 1]
        BY <2>1, <2>2, <3>1
      <4>3. e[i] = IF row[ledger[i]].status \in S
                   THEN Append(h[i - 1], ledger[i]) ELSE h[i - 1]
        BY <2>1, <2>2, <3>1
      <4>. HIDE DEF h, e
      <4>. QED
        BY <3>1, <4>1, <4>2, <4>3
    <3>2. CASE i # m
      <4>1. i \in 0 .. m - 1
        BY <2>2, <3>2
      <4>2. h[i] = g[i] /\ (i # 0 => h[i - 1] = g[i - 1])
        BY <2>2, <4>1
      <4>3. g[i] = IF i = 0 THEN <<>>
                   ELSE IF row[ledger[i]].status \in S
                        THEN Append(g[i - 1], ledger[i]) ELSE g[i - 1]
        BY <2>3, <4>1 DEF Keeps
      <4>4. e[i] = IF i = 0 THEN <<>>
                   ELSE IF row[ledger[i]].status \in S
                        THEN Append(h[i - 1], ledger[i]) ELSE h[i - 1]
        OBVIOUS
      <4>. HIDE DEF h, e
      <4>. QED
        BY <4>2, <4>3, <4>4
    <3>. QED
      BY <3>1, <3>2
  <2>5. h = e
    BY <2>4
  <2>6. Keeps(h, m, S)
    BY <2>5 DEF Keeps
  <2>. QED
    BY <2>6
<1>. QED
  BY <1>1, LeastNumber

LEMMA KeptKeeps ==
  ASSUME ledger \in Seq(Run), NEW S
  PROVE  Keeps(Kept(S), Len(ledger), S)
<1>. DEFINE P(g) == g = [i \in 0 .. Len(ledger) |->
                           IF i = 0 THEN <<>>
                           ELSE IF row[ledger[i]].status \in S
                                THEN Append(g[i - 1], ledger[i]) ELSE g[i - 1]]
<1>0. Len(ledger) \in Nat
  BY LenProperties
<1>1. \E g : P(g)
  <2>1. PICK g : Keeps(g, Len(ledger), S)
    BY <1>0, SomeKeeps
  <2>2. P(g)
    BY <2>1, Zenon DEF Keeps
  <2>. QED
    BY <2>2
<1>2. Kept(S) = CHOOSE g : P(g)
  BY DEF Kept
<1>3. P(CHOOSE g : P(g))
  BY <1>1, Zenon
<1>. QED
  BY <1>2, <1>3, Zenon DEF Keeps

\* What the restarted board reads from the rows.
RowOf(S) == {r \in DOMAIN row : row[r].status \in S}

LEMMA RowsAre ==
  ASSUME ledger \in Seq(Run), DOMAIN row = {ledger[i] : i \in DOMAIN ledger}, NEW S
  PROVE  /\ Rows(S) \in Seq(Run)
         /\ \A k \in DOMAIN Rows(S) : Rows(S)[k] \in RowOf(S)
         /\ RowOf(S) # {} => Rows(S) # <<>>
<1>. DEFINE Good(i) ==
       /\ Kept(S)[i] \in Seq(Run)
       /\ \A k \in 1 .. Len(Kept(S)[i]) : Kept(S)[i][k] \in RowOf(S)
       /\ \A j \in 1 .. i : row[ledger[j]].status \in S => Kept(S)[i] # <<>>
     T == {i \in 0 .. Len(ledger) : ~Good(i)}
<1>1. Len(ledger) \in Nat /\ DOMAIN ledger = 1 .. Len(ledger)
      /\ \A i \in 1 .. Len(ledger) : ledger[i] \in Run
  BY LenProperties, ElementOfSeq
<1>2. \A i \in 0 .. Len(ledger) :
        Kept(S)[i] = IF i = 0 THEN <<>>
                     ELSE IF row[ledger[i]].status \in S
                          THEN Append(Kept(S)[i - 1], ledger[i]) ELSE Kept(S)[i - 1]
  BY KeptKeeps DEF Keeps
<1>3. ASSUME NEW m \in T, \A y \in T : m <= y PROVE FALSE
  <2>1. m # 0
    <3>1. Kept(S)[0] = <<>>
      BY <1>1, <1>2
    <3>2. Good(0)
      BY <3>1
    <3>. QED
      BY <1>3, <3>2
  <2>2. m \in 1 .. Len(ledger) /\ m - 1 \in 0 .. Len(ledger)
    BY <1>1, <2>1
  <2>3. Good(m - 1)
    BY <1>1, <1>3, <2>2
  <2>. DEFINE k == Kept(S)[m - 1]
              l == Kept(S)[m]
  <2>4. /\ k \in Seq(Run) /\ \A n \in 1 .. Len(k) : k[n] \in RowOf(S)
        /\ \A j \in 1 .. m - 1 : row[ledger[j]].status \in S => k # <<>>
    BY <2>3
  <2>5. l = IF row[ledger[m]].status \in S THEN Append(k, ledger[m]) ELSE k
    BY <1>2, <2>1, <2>2
  <2>6. ledger[m] \in Run /\ ledger[m] \in DOMAIN row
    BY <1>1, <2>2
  <2>7. ~ (/\ l \in Seq(Run) /\ \A n \in 1 .. Len(l) : l[n] \in RowOf(S)
           /\ \A j \in 1 .. m : row[ledger[j]].status \in S => l # <<>>)
    BY <1>3
  <2>. HIDE DEF k, l
  <2>8. CASE row[ledger[m]].status \in S
    <3>1. ledger[m] \in RowOf(S)
      BY <2>6, <2>8 DEF RowOf
    <3>2. l = Append(k, ledger[m])
      BY <2>5, <2>8
    <3>3. /\ l \in Seq(Run) /\ l # <<>> /\ Len(l) = Len(k) + 1
          /\ \A n \in 1 .. Len(k) : l[n] = k[n]
          /\ l[Len(k) + 1] = ledger[m]
      BY <2>4, <2>6, <3>2, AppendProperties
    <3>4. \A n \in 1 .. Len(l) : l[n] \in RowOf(S)
      BY <2>4, <3>1, <3>3, LenProperties
    <3>. QED
      BY <2>7, <3>3, <3>4
  <2>9. CASE row[ledger[m]].status \notin S
    <3>1. l = k
      BY <2>5, <2>9
    <3>2. \A j \in 1 .. m : row[ledger[j]].status \in S => j \in 1 .. m - 1
      BY <2>2, <2>9
    <3>. QED
      BY <2>4, <2>7, <3>1, <3>2
  <2>. QED
    BY <2>8, <2>9
<1>4. Good(Len(ledger))
  <2>1. T = {}
    <3>1. T \in SUBSET Nat
      BY <1>1
    <3>. HIDE DEF T
    <3>. QED
      BY <1>3, <3>1, LeastNumber
  <2>. QED
    BY <1>1, <2>1
<1>5. Rows(S) = Kept(S)[Len(ledger)]
  BY DEF Rows
<1>6. Rows(S) \in Seq(Run) /\ \A k \in 1 .. Len(Rows(S)) : Rows(S)[k] \in RowOf(S)
  BY <1>4, <1>5
<1>7. ASSUME RowOf(S) # {} PROVE Rows(S) # <<>>
  <2>1. PICK j \in 1 .. Len(ledger) : row[ledger[j]].status \in S
    BY <1>1, <1>7 DEF RowOf
  <2>. QED
    BY <1>4, <1>5, <2>1
<1>. QED
  BY <1>6, <1>7, LenProperties

-----------------------------------------------------------------------------
(* Types                                                                   *)

LEMMA AnnotateType ==
  ASSUME TypeOK, NEW f, NEW r \in Run \cup {NoRun}, NEW s \in DecisionState,
         Annotate(f, r, s)
  PROVE  /\ DOMAIN accepted' = DOMAIN accepted
         /\ accepted' \in [DOMAIN accepted' -> Decision]
         /\ \A g \in DOMAIN accepted :
              /\ accepted'[g].key = accepted[g].key
              /\ g # f => accepted'[g] = accepted[g]
              /\ g = f => accepted'[g].run = r /\ accepted'[g].state = s
<1>1. accepted \in [DOMAIN accepted -> [key : Key, run : Run \cup {NoRun}, state : DecisionState]]
  BY DEF TypeOK, Decision
<1>. DEFINE d(g) == [accepted[g] EXCEPT !.run = r, !.state = s]
<1>2. \A g \in DOMAIN accepted : accepted'[g] = IF g = f THEN d(g) ELSE accepted[g]
  BY DEF Annotate
<1>3. \A g \in DOMAIN accepted :
        /\ d(g) \in Decision
        /\ d(g).key = accepted[g].key /\ d(g).run = r /\ d(g).state = s
  BY <1>1 DEF Decision
<1>4. DOMAIN accepted' = DOMAIN accepted
  BY DEF Annotate
<1>5. accepted' \in [DOMAIN accepted -> Decision]
  BY <1>1, <1>2, <1>3, <1>4 DEF Annotate, Decision
<1>. QED
  BY <1>2, <1>3, <1>4, <1>5

LEMMA AnswerType ==
  ASSUME TypeOK, NEW c \in Caller, NEW r \in Run, NEW s \in Status,
         ask[c] # NoAsk, Answer(c, r, s)
  PROVE  /\ ask' \in [Caller -> {NoAsk} \cup Ask] /\ dlock' \in Request \cup {Nobody}
         /\ \A d \in Caller : d # c => ask'[d] = ask[d]
         /\ ask'[c] = NoAsk \/ ask'[c].at = "annotate"
<1>1. ask[c] \in Ask /\ ask \in [Caller -> {NoAsk} \cup Ask]
  BY DEF TypeOK
<1>2. [ask[c] EXCEPT !.at = "annotate", !.reply = r, !.status = s] \in Ask
  BY <1>1 DEF Ask
<1>3. [ask[c] EXCEPT !.at = "annotate", !.reply = r, !.status = s].at = "annotate"
  BY <1>1 DEF Ask
<1>. HIDE DEF Ask, NoAsk
<1>4. CASE ask' = [ask EXCEPT ![c] = NoAsk] /\ dlock' = Nobody
  BY <1>1, <1>4
<1>5. CASE /\ ask' = [ask EXCEPT ![c] = [ask[c] EXCEPT !.at = "annotate", !.reply = r,
                                                      !.status = s]]
           /\ UNCHANGED dlock
  BY <1>1, <1>2, <1>3, <1>5 DEF TypeOK
<1>. QED
  BY <1>4, <1>5 DEF Answer

LEMMA CallType ==
  ASSUME TypeOK, NEW c \in Caller, NEW f \in Finding, NEW k \in Key, NEW r \in Run,
         CallEnqueue(c, f, k, r)
  PROVE  /\ ask' \in [Caller -> {NoAsk} \cup Ask]
         /\ \A d \in Caller : d # c => ask'[d] = ask[d]
         /\ ask'[c].at = "enqueue" /\ ask'[c].run = r
         /\ ask'[c].finding = f /\ ask'[c].key = k
<1>. DEFINE a == [at |-> "enqueue", finding |-> f, key |-> k, run |-> r, reply |-> r,
                  status |-> "queued"]
<1>1. a \in Ask /\ a.at = "enqueue" /\ a.run = r /\ a.finding = f /\ a.key = k
  BY DEF Ask, Status
<1>2. ask' = [ask EXCEPT ![c] = a] /\ ask \in [Caller -> {NoAsk} \cup Ask]
  BY DEF CallEnqueue, TypeOK
<1>. HIDE DEF a
<1>. QED
  BY <1>1, <1>2

\* The row of one run changes, but neither its finding nor its decision.
RowChanged(r) ==
  /\ DOMAIN row' = DOMAIN row /\ row' \in [DOMAIN row' -> Row]
  /\ \A q \in DOMAIN row : /\ row'[q].finding = row[q].finding /\ row'[q].key = row[q].key
                           /\ q # r => row'[q] = row[q]

LEMMA RowChange ==
  ASSUME TypeOK, NEW r \in DOMAIN row, NEW v \in Row,
         v.finding = row[r].finding, v.key = row[r].key,
         row' = [row EXCEPT ![r] = v]
  PROVE  RowChanged(r) /\ row'[r] = v
<1>1. row \in [DOMAIN row -> Row]
  BY DEF TypeOK
<1>. QED
  BY <1>1 DEF RowChanged

LEMMA StatusChange ==
  ASSUME TypeOK, NEW r \in DOMAIN row, NEW s \in Status,
         row' = [row EXCEPT ![r].status = s]
  PROVE  RowChanged(r) /\ row'[r].status = s
<1>1. row[r] \in [status : Status, finding : Finding, key : Key, base : Nat, pid : BOOLEAN]
  BY DEF TypeOK, Row
<1>. DEFINE v == [row[r] EXCEPT !.status = s]
<1>2. /\ v \in Row /\ v.status = s
      /\ v.finding = row[r].finding /\ v.key = row[r].key
  BY <1>1 DEF Row
<1>3. row' = [row EXCEPT ![r] = v]
  OBVIOUS
<1>. HIDE DEF v
<1>. QED
  BY <1>2, <1>3, RowChange


\* The statuses of a run.
LEMMA StatusSets ==
  /\ Live \subseteq Status /\ Terminal \subseteq Status /\ "queued" \in Status
  /\ Live \cap Terminal = {} /\ "queued" \notin Live \cup Terminal
  /\ \A s \in Status : s \in Live \/ s \in Terminal \/ s = "queued"
BY DEF Live, Terminal, Status

LEMMA Callers == /\ Request \subseteq Caller /\ Board \in Caller /\ Board \notin Request
                 /\ Nobody \notin Caller /\ Caller \cap Run = {} /\ NoRun \notin Run
BY NameAssumption DEF Caller, Run, NoRun

\* The parts of TypeOK: what the disk holds, what the board remembers, what its
\* threads are doing.
DecisionsOK == /\ DOMAIN accepted \subseteq Finding /\ accepted \in [DOMAIN accepted -> Decision]
               /\ made \in 0 .. MaxRuns
RowsOK == /\ ledger \in Seq(Run) /\ ended \in Seq(Run)
          /\ DOMAIN row \subseteq Run /\ row \in [DOMAIN row -> Row]
TreeOK == /\ clone \in [Run -> {"none", "detached", "restored"}]
          /\ head \in Nat /\ merged \subseteq Run
          /\ worker \in [Run -> {"none", "alive", "gone"}]
          /\ crashes \in 0 .. MaxCrashes /\ commits \in 0 .. MaxCommits /\ deaths \in 0 .. MaxDeaths
MemoryOK == /\ up \in {"down", "booting", "serving"}
            /\ queue \in Seq(Item) /\ active \in Run \cup {NoRun} /\ halted \in BOOLEAN
ThreadsOK == /\ start \in [Run -> StartStep] /\ watch \in [Run -> WatchStep]
             /\ verdict \in [Run -> Terminal \cup {"none"}]
             /\ adv \in {NoAdv} \cup Adv
CallsOK == ask \in [Caller -> {NoAsk} \cup Ask] /\ dlock \in Request \cup {Nobody}

LEMMA TypeParts ==
  TypeOK <=> DecisionsOK /\ RowsOK /\ TreeOK /\ MemoryOK /\ ThreadsOK /\ CallsOK
BY DEF TypeOK, DecisionsOK, RowsOK, TreeOK, MemoryOK, ThreadsOK, CallsOK

-----------------------------------------------------------------------------
(* What every step may change                                              *)

\* Most steps leave the decisions, the rows or the calls alone.
Decides ==
  \/ \E q \in Request, f \in Finding, k \in Key : Approve(q, f, k) \/ ApproveOnly(q, f, k)
  \/ \E q \in Request, f \in Finding : ReplayRefused(q, f)
  \/ \E q \in Request : AnnotateApproval(q)
  \/ \E f \in Finding : BootRefused(f)
  \/ SpawnStarter
  \/ \E r \in Run : AnnotateStartFailure(r) \/ AnnotateResult(r)
Records ==
  \/ RecordStarting
  \/ \E r \in Run : \/ Prepare(r) \/ RecordRunning(r) \/ RecordStartFailure(r)
                    \/ ExitZero(r) \/ RecordResult(r)
Calls ==
  \/ \E q \in Request, f \in Finding, k \in Key : Approve(q, f, k)
  \/ \E q \in Request, f \in Finding : Replay(q, f)
  \/ \E f \in Finding : BootReplay(f)
Returns ==
  \/ \E q \in Request : AnnotateApproval(q)
  \/ \E c \in Caller : EnqueueDuplicate(c) \/ EnqueueNew(c)
  \/ \E c \in Caller \cup Run : Reserve(c) \/ NothingToReserve(c)
  \/ SpawnStarter \/ Boot \/ Crash
Appends == \E c \in Caller : EnqueueNew(c)

LEMMA Untouched ==
  ASSUME [Next]_vars
  PROVE  /\ Decides \/ UNCHANGED decisions
         /\ Records \/ Appends \/ UNCHANGED <<row, ended>>
         /\ Appends \/ UNCHANGED ledger
         /\ Calls \/ Returns \/ UNCHANGED ask
<1>. USE DEF decisions, rows, tree, memory, watcher, call, bounds
<1>1. CASE UNCHANGED vars
  BY <1>1 DEF vars
<1>2. CASE Human \/ \E q \in Request : AnnotateApproval(q)
  <2>1. ASSUME NEW q \in Request, NEW f \in Finding, NEW k \in Key,
               Approve(q, f, k) \/ ApproveOnly(q, f, k)
        PROVE  Decides /\ UNCHANGED <<row, ended, ledger>> /\ (Calls \/ UNCHANGED ask)
    BY <2>1 DEF Approve, ApproveOnly, Decides, Calls
  <2>2. ASSUME NEW q \in Request, NEW f \in Finding, Replay(q, f) \/ ReplayRefused(q, f)
        PROVE  /\ Decides \/ UNCHANGED decisions
               /\ UNCHANGED <<row, ended, ledger>> /\ (Calls \/ UNCHANGED ask)
    BY <2>2 DEF Replay, ReplayRefused, RefuseReservation, Decides, Calls
  <2>3. CASE HumanCommit
    BY <2>3 DEF HumanCommit
  <2>4. CASE \E q \in Request : AnnotateApproval(q)
    BY <2>4 DEF AnnotateApproval, Decides, Returns
  <2>. QED
    BY <1>2, <2>1, <2>2, <2>3, <2>4 DEF Human
<1>3. CASE \/ \E c \in Caller : Enqueue(c)
           \/ \E c \in Caller \cup Run : Advance(c)
           \/ Reserved
  BY <1>3 DEF Enqueue, EnqueueDuplicate, EnqueueNew, Advance, Reserve, NothingToReserve,
              Reserved, RecordStarting, SpawnStarter, Decides, Records, Returns, Appends
<1>4. CASE \E r \in Run : Starter(r)
  BY <1>4 DEF Starter, Prepare, Launch, RecordRunning, StartFails, RecordStartFailure,
              ReleaseStartFailure, AnnotateStartFailure, Decides, Records
<1>5. CASE \E r \in Run : Watcher(r) \/ WatcherDies(r) \/ WorkerExits(r)
  BY <1>5 DEF Watcher, ExitZero, ExitNonZero, WorkerTimesOut, OrphanGone, OrphanTimesOut,
              Finalize, FinalizeRefused, Verify, Integrate, IntegrateRefused,
              CheckIntegrated, RecordResult, ReleaseResult, AnnotateResult, WatcherDies,
              WorkerExits, Decides, Records
<1>6. CASE Starts \/ Crash
  BY <1>6 DEF Starts, Boot, Serve, BootReplay, BootRefused, RefuseReservation, Crash,
              Decides, Calls, Returns
<1>. QED
  BY <1>1, <1>2, <1>3, <1>4, <1>5, <1>6 DEF Next

EndedChanged(r) ==
  /\ ended' \in Seq(Run) /\ ended' # <<>> /\ Latest(ended') = r
  /\ \A i \in DOMAIN ended' : ended'[i] = r \/ \E j \in DOMAIN ended : ended'[i] = ended[j]

LEMMA FinishIs ==
  ASSUME TypeOK, NEW r \in DOMAIN row, NEW s \in Status, Finish(r, s)
  PROVE  RowChanged(r) /\ row'[r].status = s /\ EndedChanged(r)
<1>1. r \in Run /\ ended \in Seq(Run)
  BY DEF TypeOK
<1>2. RowChanged(r) /\ row'[r].status = s
  BY StatusChange DEF Finish
<1>3. ended' = Append(ended, r)
  BY DEF Finish
<1>4. /\ ended' \in Seq(Run) /\ ended' # <<>> /\ Len(ended') = Len(ended) + 1
      /\ \A i \in 1 .. Len(ended) : ended'[i] = ended[i]
      /\ ended'[Len(ended) + 1] = r
  BY <1>1, <1>3, AppendProperties
<1>5. /\ DOMAIN ended = 1 .. Len(ended) /\ Len(ended) \in Nat
      /\ DOMAIN ended' = 1 .. Len(ended')
  BY <1>1, <1>4, LenProperties
<1>6. Latest(ended') = r
  BY <1>4 DEF Latest
<1>. QED
  BY <1>2, <1>4, <1>5, <1>6 DEF EndedChanged

LEMMA RecordsOne ==
  ASSUME IInv, Records
  PROVE  \E r \in Run :
           /\ r \in DOMAIN row /\ active = r /\ row[r].status \notin Terminal
           /\ RowChanged(r)
           /\ row'[r].status \in Live \cup Terminal
           /\ \/ UNCHANGED ended /\ row'[r].status \in Live
              \/ EndedChanged(r) /\ row'[r].status \in Terminal
           /\ row'[r].status = "completed" => r \in merged
           /\ row[r].status = "queued" => adv.at = "starting" /\ adv.run = r
<1>1. /\ TypeOK /\ Reserving /\ Starting /\ Watching /\ Integrated
      /\ DOMAIN row \subseteq Run
      /\ \A r \in DOMAIN row : row[r].base \in Nat /\ row[r].pid \in BOOLEAN /\ row[r].status \in Status
  BY DEF IInv, TypeOK, Row
<1>2. CASE RecordStarting
  <2>1. /\ adv # NoAdv /\ adv.at = "starting" /\ adv.run \in DOMAIN row /\ active = adv.run
        /\ row[adv.run].status = "queued"
    BY <1>1, <1>2 DEF RecordStarting, Reserving, NoAdv
  <2>2. row' = [row EXCEPT ![adv.run].status = "starting"] /\ UNCHANGED ended
    BY <1>2 DEF RecordStarting, rows
  <2>3. RowChanged(adv.run) /\ row'[adv.run].status = "starting"
    BY <1>1, <2>1, <2>2, StatusChange DEF Status, Live
  <2>. QED
    BY <1>1, <2>1, <2>2, <2>3 DEF Live, Terminal
<1>3. ASSUME NEW r \in Run, Prepare(r) \/ RecordRunning(r)
      PROVE  /\ r \in DOMAIN row /\ active = r /\ row[r].status = "starting"
             /\ RowChanged(r) /\ UNCHANGED ended /\ row'[r].status \in Live
  <2>1. r \in DOMAIN row /\ active = r /\ row[r].status = "starting"
    BY <1>1, <1>3 DEF Starting, StartingAt, StartBusy, Prepare, RecordRunning
  <2>2. row[r] \in [status : Status, finding : Finding, key : Key, base : Nat, pid : BOOLEAN]
    BY <1>1, <2>1 DEF TypeOK, Row
  <2>3. CASE Prepare(r)
    <3>1. row' = [row EXCEPT ![r] = [row[r] EXCEPT !.base = head]] /\ head \in Nat
          /\ UNCHANGED ended
      BY <1>1, <2>3 DEF Prepare, TypeOK
    <3>. DEFINE v == [row[r] EXCEPT !.base = head]
    <3>2. /\ v \in Row /\ v.status = "starting"
          /\ v.finding = row[r].finding /\ v.key = row[r].key
      BY <2>1, <2>2, <3>1 DEF Row
    <3>. HIDE DEF v
    <3>3. RowChanged(r) /\ row'[r].status = "starting"
      BY <1>1, <2>1, <3>1, <3>2, RowChange DEF v
    <3>. QED
      BY <2>1, <3>1, <3>3 DEF Live
  <2>4. CASE RecordRunning(r)
    <3>1. row' = [row EXCEPT ![r] = [row[r] EXCEPT !.status = "running", !.pid = TRUE]]
          /\ UNCHANGED ended
      BY <2>4 DEF RecordRunning
    <3>. DEFINE u == [row[r] EXCEPT !.status = "running"]
                v == [u EXCEPT !.pid = TRUE]
    <3>2. /\ u \in [status : Status, finding : Finding, key : Key, base : Nat, pid : BOOLEAN]
          /\ u.status = "running" /\ u.finding = row[r].finding /\ u.key = row[r].key
      BY <2>2 DEF Status, Live
    <3>. HIDE DEF u
    <3>3. /\ v \in Row /\ v.status = "running"
          /\ v.finding = row[r].finding /\ v.key = row[r].key
      BY <3>2 DEF Row
    <3>4. row' = [row EXCEPT ![r] = v]
      BY <3>1 DEF u
    <3>. HIDE DEF v
    <3>5. RowChanged(r) /\ row'[r].status = "running"
      BY <1>1, <2>1, <3>3, <3>4, RowChange
    <3>. QED
      BY <2>1, <3>1, <3>5 DEF Live
  <2>. QED
    BY <1>3, <2>3, <2>4
<1>4. ASSUME NEW r \in Run, RecordStartFailure(r)
      PROVE  /\ r \in DOMAIN row /\ active = r /\ row[r].status = "starting"
             /\ RowChanged(r) /\ EndedChanged(r) /\ row'[r].status = "failed"
  <2>1. r \in DOMAIN row /\ active = r /\ row[r].status = "starting"
    BY <1>1, <1>4 DEF Starting, StartingAt, StartBusy, RecordStartFailure
  <2>. QED
    BY <1>1, <1>4, <2>1, FinishIs DEF RecordStartFailure, Status, Terminal
<1>5. ASSUME NEW r \in Run, ExitZero(r)
      PROVE  /\ r \in DOMAIN row /\ active = r /\ row[r].status \in Live
             /\ RowChanged(r) /\ UNCHANGED ended /\ row'[r].status = "verifying"
  <2>1. r \in DOMAIN row /\ active = r /\ row[r].status \in Live
    BY <1>1, <1>5 DEF Watching, WatchingAt, WatchBusy, ExitZero
  <2>2. row' = [row EXCEPT ![r].status = "verifying"] /\ UNCHANGED ended
    BY <1>5 DEF ExitZero
  <2>. QED
    BY <1>1, <2>1, <2>2, StatusChange DEF Status, Live
<1>6. ASSUME NEW r \in Run, RecordResult(r)
      PROVE  /\ r \in DOMAIN row /\ active = r /\ row[r].status \in Live
             /\ RowChanged(r) /\ EndedChanged(r) /\ row'[r].status \in Terminal
             /\ row'[r].status = "completed" => r \in merged
  <2>1. /\ r \in DOMAIN row /\ active = r /\ row[r].status \in Live
        /\ verdict[r] \in Terminal
    BY <1>1, <1>6 DEF Watching, WatchingAt, WatchBusy, RecordResult
  <2>2. verdict[r] \in Status
    BY <2>1, StatusSets
  <2>3. RowChanged(r) /\ EndedChanged(r) /\ row'[r].status = verdict[r]
    BY <1>1, <1>6, <2>1, <2>2, FinishIs DEF RecordResult
  <2>. QED
    BY <1>1, <2>1, <2>3 DEF Integrated, Praised
<1>7. "starting" \notin Terminal /\ "starting" # "queued" /\ "failed" \in Terminal
      /\ "failed" # "completed" /\ "verifying" \in Live /\ "completed" \notin Live
      /\ Live \cap Terminal = {} /\ "queued" \notin Live
  BY DEF Live, Terminal
<1>. QED
  BY <1>2, <1>3, <1>4, <1>5, <1>6, <1>7 DEF Records

\* A new run has a row of its own, and the place in the queue that its kind asks for.
PlacedAt(n, item) ==
  /\ queue' \in Seq(Item) /\ Len(queue') = Len(queue) + 1 /\ n \in 1 .. Len(queue')
  /\ queue'[n] = item
  /\ \A i \in 1 .. n - 1 : i \in DOMAIN queue /\ queue'[i] = queue[i]
  /\ \A i \in n + 1 .. Len(queue') : i - 1 \in DOMAIN queue /\ queue'[i] = queue[i - 1]

LEMMA AppendsOne ==
  ASSUME IInv, NEW c \in Caller, EnqueueNew(c)
  PROVE  LET r == ask[c].run
             n == IF ask[c].key.retry # NoRun /\ FirstQueued # 0
                  THEN FirstQueued ELSE Len(queue) + 1
         IN /\ r \in Run /\ r \notin DOMAIN row /\ ask[c] \in Ask
            /\ DOMAIN row' = DOMAIN row \cup {r} /\ row' \in [DOMAIN row' -> Row]
            /\ \A q \in DOMAIN row : row'[q] = row[q]
            /\ row'[r].status = "queued" /\ row'[r].finding = ask[c].finding
            /\ row'[r].key = ask[c].key
            /\ ledger' \in Seq(Run) /\ Len(ledger') = Len(ledger) + 1
            /\ \A i \in 1 .. Len(ledger) : ledger'[i] = ledger[i]
            /\ ledger'[Len(ledger) + 1] = r
            /\ PlacedAt(n, [run |-> r, status |-> "queued"])
            /\ halted' = (halted /\ ask[c].key.retry = NoRun)
<1>. DEFINE r == ask[c].run
            item == [run |-> r, status |-> "queued"]
            v == [status |-> "queued", finding |-> ask[c].finding, key |-> ask[c].key,
                  base |-> 0, pid |-> FALSE]
            n == IF ask[c].key.retry # NoRun /\ FirstQueued # 0
                 THEN FirstQueued ELSE Len(queue) + 1
<1>1. /\ TypeOK /\ Identity /\ ask[c] # NoAsk /\ ask[c].at = "enqueue"
      /\ SameDecision(c) = {}
  BY DEF IInv, EnqueueNew, NoAsk
<1>2. ask[c] \in Ask
  BY <1>1 DEF TypeOK
<1>3. r \in Run /\ ask[c].finding \in Finding /\ ask[c].key \in Key
  BY <1>2 DEF Ask
<1>4. r \notin DOMAIN row
  <2>1. SUFFICES ASSUME r \in DOMAIN row PROVE FALSE
    OBVIOUS
  <2>2. row[r].finding \in Finding /\ row[r].key \in Key
    BY <1>1, <2>1 DEF TypeOK, Row
  <2>3. Named(r, ask[c].finding, ask[c].key) /\ Named(r, row[r].finding, row[r].key)
    BY <1>1, <2>1 DEF Named
  <2>4. row[r].finding = ask[c].finding /\ row[r].key = ask[c].key
    BY <1>1, <1>3, <2>2, <2>3 DEF Identity
  <2>. QED
    BY <1>1, <2>1, <2>4 DEF SameDecision
<1>5. item \in Item /\ item.status = "queued" /\ item.run = r
  BY <1>3 DEF Item, Status
<1>6. /\ v \in Row /\ v.status = "queued" /\ v.finding = ask[c].finding
      /\ v.key = ask[c].key
  BY <1>3 DEF Row, Status
<1>7. /\ queue' = IF ask[c].key.retry # NoRun /\ FirstQueued # 0
                  THEN InsertAt(queue, FirstQueued, item) ELSE Append(queue, item)
      /\ halted' = (halted /\ ask[c].key.retry = NoRun)
      /\ ledger' = Append(ledger, r) /\ row' = Put(row, r, v)
  BY DEF EnqueueNew
<1>8. /\ queue \in Seq(Item) /\ ledger \in Seq(Run) /\ row \in [DOMAIN row -> Row]
  BY <1>1 DEF TypeOK
<1>. HIDE DEF item, v, r
<1>9. /\ DOMAIN row' = DOMAIN row \cup {r} /\ row' \in [DOMAIN row' -> Row]
      /\ \A q \in DOMAIN row : row'[q] = row[q]
      /\ row'[r] = v
  <2>1. /\ DOMAIN Put(row, r, v) = DOMAIN row \cup {r}
        /\ Put(row, r, v) \in [DOMAIN row \cup {r} -> Row]
        /\ Put(row, r, v)[r] = v
        /\ \A q \in DOMAIN row : q # r => Put(row, r, v)[q] = row[q]
    BY <1>6, <1>8 DEF Put
  <2>2. row' = Put(row, r, v)
    BY <1>7
  <2>. QED
    BY <1>4, <2>1, <2>2
<1>10. /\ ledger' \in Seq(Run) /\ Len(ledger') = Len(ledger) + 1
       /\ \A i \in 1 .. Len(ledger) : ledger'[i] = ledger[i]
       /\ ledger'[Len(ledger) + 1] = r
  BY <1>3, <1>7, <1>8, AppendProperties DEF r
<1>11. PlacedAt(n, item)
  <2>0. DOMAIN queue = 1 .. Len(queue) /\ Len(queue) \in Nat
    BY <1>8, LenProperties
  <2>1. CASE ask[c].key.retry # NoRun /\ FirstQueued # 0
    <3>1. FirstQueued \in DOMAIN queue
      BY <1>8, <2>1, FirstQueuedIs
    <3>2. queue' = InsertAt(queue, FirstQueued, item) /\ n = FirstQueued
      BY <1>7, <2>1
    <3>. QED
      <4>1. /\ queue' \in Seq(Item) /\ Len(queue') = Len(queue) + 1
            /\ \A i \in 1 .. FirstQueued - 1 : queue'[i] = queue[i]
            /\ queue'[FirstQueued] = item
            /\ \A i \in FirstQueued + 1 .. Len(queue') : queue'[i] = queue[i - 1]
        BY <1>5, <1>8, <3>1, <3>2, InsertIs
      <4>. QED
        BY <2>0, <3>1, <3>2, <4>1 DEF PlacedAt
  <2>2. CASE ~(ask[c].key.retry # NoRun /\ FirstQueued # 0)
    <3>1. queue' = Append(queue, item) /\ n = Len(queue) + 1
      BY <1>7, <2>2
    <3>2. /\ queue' \in Seq(Item) /\ Len(queue') = Len(queue) + 1
          /\ \A i \in 1 .. Len(queue) : queue'[i] = queue[i]
          /\ queue'[Len(queue) + 1] = item
      BY <1>5, <1>8, <3>1, AppendProperties
    <3>. QED
      BY <2>0, <3>1, <3>2 DEF PlacedAt
  <2>. QED
    BY <2>1, <2>2
<1>. QED
  BY <1>2, <1>3, <1>4, <1>6, <1>7, <1>9, <1>10, <1>11 DEF item, r

\* What the restarted board reads from the rows.
LEMMA ItemsAre ==
  ASSUME TypeOK, NEW s, s \in Seq(Run), \A k \in DOMAIN s : s[k] \in DOMAIN row
  PROVE  /\ Items(s) \in Seq(Item)
         /\ \A i \in DOMAIN Items(s) : /\ Items(s)[i].run \in DOMAIN row
                                       /\ Items(s)[i].status = row[Items(s)[i].run].status
<1>1. DOMAIN s = 1 .. Len(s) /\ Len(s) \in Nat /\ \A k \in DOMAIN s : s[k] \in Run
  BY LenProperties, ElementOfSeq
<1>2. ASSUME NEW k \in DOMAIN s
      PROVE  /\ Items(s)[k] \in Item /\ Items(s)[k].run = s[k]
             /\ Items(s)[k].status = row[s[k]].status
  <2>1. row[s[k]].status \in Status
    BY DEF TypeOK, Row
  <2>2. Items(s)[k] = [run |-> s[k], status |-> row[s[k]].status]
    BY DEF Items
  <2>. QED
    BY <1>1, <2>1, <2>2 DEF Item
<1>3. DOMAIN Items(s) = DOMAIN s
  BY DEF Items
<1>4. Items(s) \in [1 .. Len(s) -> Item]
  BY <1>1, <1>2 DEF Items
<1>5. Items(s) \in Seq(Item)
  BY <1>1, <1>4, SeqDef
<1>. QED
  BY <1>2, <1>3, <1>5

Adopts(r) ==
  /\ r \in DOMAIN row /\ row[r].status \in Live /\ active' = r
  /\ watch' = [watch EXCEPT ![r] = "orphan"]
  /\ UNCHANGED <<halted, ask>>
Resumes ==
  /\ RowOf(Live) = {}
  /\ active' = active /\ UNCHANGED watch /\ halted' \in BOOLEAN
  /\ \/ UNCHANGED ask
     \/ \E a \in Ask : a.at = "advance" /\ ask' = [ask EXCEPT ![Board] = a]

LEMMA BootOne ==
  ASSUME IInv, Boot
  PROVE  /\ queue' \in Seq(Item)
         /\ \A i \in DOMAIN queue' : /\ queue'[i].run \in DOMAIN row
                                     /\ queue'[i].status = row[queue'[i].run].status
         /\ Resumes \/ \E r \in Run : Adopts(r)
<1>. DEFINE live == Rows(Live)
            queued == Rows({"queued"})
<1>1. /\ TypeOK /\ ledger \in Seq(Run) /\ DOMAIN row = {ledger[i] : i \in DOMAIN ledger}
      /\ DOMAIN row \subseteq Run /\ row \in [DOMAIN row -> Row]
  BY DEF IInv, TypeOK, LedgerRows
<1>2. /\ live \in Seq(Run) /\ \A k \in DOMAIN live : live[k] \in RowOf(Live)
      /\ RowOf(Live) # {} => live # <<>>
  BY <1>1, RowsAre
<1>3. queued \in Seq(Run) /\ \A k \in DOMAIN queued : queued[k] \in RowOf({"queued"})
  BY <1>1, RowsAre
<1>. HIDE DEF live, queued
<1>4. CASE live # <<>>
  <2>1. live[1] \in RowOf(Live) /\ live[1] \in Run /\ live[1] \in DOMAIN row
    BY <1>1, <1>2, <1>4 DEF RowOf
  <2>2. Adopts(live[1])
    BY <1>4, <2>1 DEF Boot, live, RowOf, Adopts
  <2>. DEFINE s == <<live[1]>> \o queued
  <2>3. queue' = Items(s)
    BY <1>4 DEF Boot, live, queued
  <2>4. s \in Seq(Run) /\ \A k \in DOMAIN s : s[k] \in DOMAIN row
    <3>1. <<live[1]>> \in Seq(Run) /\ Len(<<live[1]>>) = 1
      BY <2>1
    <3>2. s \in Seq(Run) /\ Len(s) = 1 + Len(queued)
      BY <1>3, <3>1, ConcatProperties
    <3>3. DOMAIN queued = 1 .. Len(queued) /\ Len(queued) \in Nat /\ DOMAIN s = 1 .. Len(s)
      BY <1>3, <3>2, LenProperties
    <3>4. \A k \in 1 .. Len(s) : s[k] = IF k = 1 THEN live[1] ELSE queued[k - 1]
      BY <3>1, <3>2, <3>3, <1>3
    <3>. HIDE DEF s
    <3>. QED
      BY <1>3, <2>1, <3>2, <3>3, <3>4 DEF RowOf
  <2>. QED
    BY <1>1, <2>1, <2>2, <2>3, <2>4, ItemsAre
<1>5. CASE live = <<>>
  <2>1. queue' = Items(queued) /\ UNCHANGED <<active, watch>>
    BY <1>5 DEF Boot, live, queued
  <2>2. halted' \in BOOLEAN
    BY <1>5 DEF Boot, live, queued
  <2>3. UNCHANGED ask \/ \E a \in Ask : a.at = "advance" /\ ask' = [ask EXCEPT ![Board] = a]
    <3>1. CASE queued # <<>>
      <4>. DEFINE first == queued[1]
                  a == [at |-> "advance", finding |-> row[first].finding,
                        key |-> row[first].key, run |-> first, reply |-> first,
                        status |-> "queued"]
      <4>1. first \in DOMAIN row /\ first \in Run
        BY <1>1, <1>3, <3>1 DEF RowOf
      <4>2. a \in Ask /\ a.at = "advance"
        BY <1>1, <4>1 DEF Ask, Row, Status
      <4>3. ask' = [ask EXCEPT ![Board] = a] \/ UNCHANGED ask
        BY <1>5 DEF Boot, live, queued
      <4>. HIDE DEF a
      <4>. QED
        BY <4>2, <4>3
    <3>2. CASE queued = <<>>
      BY <1>5, <3>2 DEF Boot, live, queued
    <3>. QED
      BY <3>1, <3>2
  <2>4. \A k \in DOMAIN queued : queued[k] \in DOMAIN row
    BY <1>3 DEF RowOf
  <2>. QED
    BY <1>1, <1>2, <1>3, <1>5, <2>1, <2>2, <2>3, <2>4, ItemsAre DEF Resumes
<1>. QED
  BY <1>4, <1>5

-----------------------------------------------------------------------------
(* Types are kept                                                          *)

LEMMA DecisionStates == \A s : DecisionStateOf(s) \in {"dispatched", "lost"}
BY DEF DecisionStateOf

\* Which decision is annotated, and with what.
LEMMA DecidesOne ==
  ASSUME IInv, Decides
  PROVE  \/ \E q \in Request, f \in Finding, k \in Key : Approve(q, f, k)
         \/ \E f \in Finding, k \in Key :
              /\ accepted' = Put(accepted, f, [key |-> k, run |-> NoRun, state |-> "approved"])
              /\ UNCHANGED made
         \/ \E f, r, s : /\ r \in Run \cup {NoRun} /\ s \in {"dispatched", "lost"}
                         /\ Annotate(f, r, s) /\ UNCHANGED made
<1>1. TypeOK /\ Starting /\ Watching /\ Reserving
  BY DEF IInv
<1>2. CASE \E q \in Request, f \in Finding, k \in Key : Approve(q, f, k) \/ ApproveOnly(q, f, k)
  BY <1>2 DEF ApproveOnly
<1>3. ASSUME NEW f \in Finding, RefuseReservation(f)
      PROVE  \E r \in Run \cup {NoRun} : Annotate(f, r, "lost") /\ UNCHANGED made
  <2>1. /\ f \in DOMAIN accepted /\ accepted[f] \in [key : Key, run : Run \cup {NoRun}, state : DecisionState]
        /\ accepted' = [accepted EXCEPT ![f].state = "lost"] /\ UNCHANGED made
    BY <1>1, <1>3 DEF RefuseReservation, Orphaned, Decided, TypeOK, Decision
  <2>2. [accepted[f] EXCEPT !.state = "lost"] =
        [[accepted[f] EXCEPT !.run = accepted[f].run] EXCEPT !.state = "lost"]
    BY <2>1
  <2>3. Annotate(f, accepted[f].run, "lost")
    BY <2>1, <2>2 DEF Annotate
  <2>. QED
    BY <2>1, <2>3
<1>4. CASE \/ \E q \in Request, f \in Finding : ReplayRefused(q, f)
           \/ \E f \in Finding : BootRefused(f)
  BY <1>3, <1>4 DEF ReplayRefused, BootRefused
<1>5. ASSUME NEW q \in Request, AnnotateApproval(q)
      PROVE  \E f, r, s : /\ r \in Run \cup {NoRun} /\ s \in {"dispatched", "lost"}
                          /\ Annotate(f, r, s) /\ UNCHANGED made
  <2>1. ask[q] \in Ask
    BY <1>1, <1>5, Callers DEF AnnotateApproval, TypeOK, NoAsk
  <2>2. ask[q].reply \in Run
    BY <2>1 DEF Ask
  <2>. QED
    BY <1>5, <2>2, DecisionStates DEF AnnotateApproval
<1>6. CASE SpawnStarter
  <2>1. adv.run \in Run
    BY <1>1, <1>6 DEF SpawnStarter, TypeOK, Adv, NoAdv
  <2>. QED
    BY <1>6, <2>1 DEF SpawnStarter
<1>7. CASE \E r \in Run : AnnotateStartFailure(r) \/ AnnotateResult(r)
  BY <1>7, DecisionStates DEF AnnotateStartFailure, AnnotateResult
<1>. QED
  BY <1>2, <1>4, <1>5, <1>6, <1>7 DEF Decides

LEMMA DecisionsStep ==
  ASSUME IInv, [Next]_vars
  PROVE  DecisionsOK'
<1>1. /\ TypeOK /\ MaxRuns \in Nat
      /\ DOMAIN accepted \subseteq Finding /\ accepted \in [DOMAIN accepted -> Decision]
      /\ made \in 0 .. MaxRuns
  BY BoundAssumption DEF IInv, TypeOK
<1>2. CASE UNCHANGED decisions
  BY <1>1, <1>2 DEF decisions, DecisionsOK
<1>3. ASSUME NEW f \in Finding, NEW d \in Decision, accepted' = Put(accepted, f, d)
      PROVE  DOMAIN accepted' \subseteq Finding /\ accepted' \in [DOMAIN accepted' -> Decision]
  BY <1>1, <1>3 DEF Put
<1>4. ASSUME NEW q \in Request, NEW f \in Finding, NEW k \in Key, Approve(q, f, k)
      PROVE  DecisionsOK'
  <2>1. made' = made + 1 /\ made' \in Run
    BY <1>1, <1>4 DEF Approve, Run
  <2>2. [key |-> k, run |-> made + 1, state |-> "reserved"] \in Decision
    BY <1>1, <2>1 DEF Decision, DecisionState
  <2>3. accepted' = Put(accepted, f, [key |-> k, run |-> made + 1, state |-> "reserved"])
    BY <1>4 DEF Approve
  <2>. QED
    BY <1>1, <1>3, <2>1, <2>2, <2>3 DEF DecisionsOK, Run
<1>5. ASSUME NEW f \in Finding, NEW k \in Key, UNCHANGED made,
             accepted' = Put(accepted, f, [key |-> k, run |-> NoRun, state |-> "approved"])
      PROVE  DecisionsOK'
  <2>1. [key |-> k, run |-> NoRun, state |-> "approved"] \in Decision
    BY DEF Decision, DecisionState
  <2>. QED
    BY <1>1, <1>3, <1>5, <2>1 DEF DecisionsOK
<1>6. ASSUME NEW f, NEW r \in Run \cup {NoRun}, NEW s \in {"dispatched", "lost"},
             Annotate(f, r, s), UNCHANGED made
      PROVE  DecisionsOK'
  BY <1>1, <1>6, AnnotateType DEF DecisionsOK, DecisionState
<1>. QED
  BY <1>2, <1>4, <1>5, <1>6, DecidesOne, Untouched

LEMMA RowsStep ==
  ASSUME IInv, [Next]_vars
  PROVE  RowsOK'
<1>1. /\ TypeOK /\ ledger \in Seq(Run) /\ ended \in Seq(Run)
      /\ DOMAIN row \subseteq Run /\ row \in [DOMAIN row -> Row]
  BY DEF IInv, TypeOK
<1>2. CASE Records
  BY <1>1, <1>2, RecordsOne, Untouched DEF RowChanged, EndedChanged, RowsOK, Records, Appends,
     RecordStarting, Prepare, RecordRunning, RecordStartFailure, ExitZero, RecordResult, rows
<1>3. ASSUME NEW c \in Caller, EnqueueNew(c) PROVE RowsOK'
  BY <1>1, <1>3, AppendsOne DEF RowsOK, EnqueueNew
<1>4. CASE UNCHANGED <<row, ended, ledger>>
  BY <1>1, <1>4 DEF RowsOK
<1>. QED
  BY <1>2, <1>3, <1>4, Untouched DEF Appends

LEMMA TreeStep ==
  ASSUME IInv, [Next]_vars
  PROVE  TreeOK'
<1>. USE DEF decisions, rows, tree, memory, watcher, call, bounds
<1>1. TreeOK /\ MaxRuns \in Nat /\ MaxCrashes \in Nat /\ MaxCommits \in Nat /\ MaxDeaths \in Nat
  BY TypeParts, BoundAssumption DEF IInv
<1>2. CASE UNCHANGED <<tree, worker, bounds>>
  BY <1>1, <1>2 DEF TreeOK
<1>3. CASE UNCHANGED vars
  BY <1>2, <1>3 DEF vars
<1>4. ASSUME NEW q \in Request, NEW f \in Finding, NEW k \in Key,
             Approve(q, f, k) \/ ApproveOnly(q, f, k)
      PROVE  TreeOK'
  BY <1>2, <1>4 DEF Approve, ApproveOnly
<1>10. ASSUME NEW q \in Request, NEW f \in Finding,
              Replay(q, f) \/ ReplayRefused(q, f)
       PROVE  TreeOK'
  BY <1>2, <1>10 DEF Replay, ReplayRefused, RefuseReservation
<1>11. ASSUME NEW f \in Finding, BootReplay(f) \/ BootRefused(f)
       PROVE  TreeOK'
  BY <1>2, <1>11 DEF RefuseReservation, BootReplay, BootRefused
<1>5. CASE HumanCommit
  BY <1>1, <1>5 DEF HumanCommit, TreeOK
<1>6. CASE \/ \E q \in Request : AnnotateApproval(q)
           \/ \E c \in Caller : Enqueue(c)
           \/ \E c \in Caller \cup Run : Advance(c)
           \/ Reserved \/ Boot \/ Serve
  BY <1>2, <1>6 DEF AnnotateApproval, Enqueue, EnqueueDuplicate, EnqueueNew, Advance,
     Reserve, NothingToReserve, Reserved, RecordStarting, SpawnStarter, Boot, Serve
<1>7. CASE Crash
  BY <1>1, <1>7 DEF Crash, TreeOK
<1>8. ASSUME NEW r \in Run, Starter(r) PROVE TreeOK'
  <2>1. CASE Prepare(r) \/ Launch(r)
    BY <1>1, <2>1 DEF Prepare, Launch, TreeOK
  <2>2. CASE \/ RecordRunning(r) \/ StartFails(r) \/ RecordStartFailure(r)
             \/ ReleaseStartFailure(r) \/ AnnotateStartFailure(r)
    BY <1>2, <2>2 DEF RecordRunning, StartFails, RecordStartFailure, ReleaseStartFailure,
                      AnnotateStartFailure
  <2>. QED
    BY <1>8, <2>1, <2>2 DEF Starter
<1>9. ASSUME NEW r \in Run, Watcher(r) \/ WatcherDies(r) \/ WorkerExits(r) PROVE TreeOK'
  <2>1. CASE WorkerTimesOut(r) \/ WorkerExits(r) \/ Finalize(r)
    BY <1>1, <2>1 DEF WorkerTimesOut, WorkerExits, Finalize, TreeOK
  <2>2. CASE Integrate(r) \/ WatcherDies(r)
    BY <1>1, <2>2 DEF Integrate, WatcherDies, TreeOK
  <2>3. CASE \/ ExitZero(r) \/ ExitNonZero(r) \/ OrphanGone(r) \/ OrphanTimesOut(r)
             \/ FinalizeRefused(r) \/ Verify(r) \/ IntegrateRefused(r) \/ CheckIntegrated(r)
             \/ RecordResult(r) \/ ReleaseResult(r) \/ AnnotateResult(r)
    BY <1>2, <2>3 DEF ExitZero, ExitNonZero, OrphanGone, OrphanTimesOut, FinalizeRefused,
       Verify, IntegrateRefused, CheckIntegrated, RecordResult, ReleaseResult, AnnotateResult
  <2>. QED
    BY <1>9, <2>1, <2>2, <2>3 DEF Watcher
<1>. QED
  BY <1>3, <1>4, <1>5, <1>6, <1>7, <1>8, <1>9, <1>10, <1>11 DEF Next, Human, Starts

\* The steps that change the queue, the slot or the halt.
Slots ==
  \/ Appends
  \/ \E c \in Caller \cup Run : Reserve(c)
  \/ \E r \in Run : RecordRunning(r) \/ ReleaseStartFailure(r) \/ ReleaseResult(r)
  \/ Boot \/ Serve \/ Crash

LEMMA SlotsUntouched ==
  ASSUME [Next]_vars
  PROVE  Slots \/ UNCHANGED <<up, queue, active, halted>>
<1>. USE DEF decisions, rows, tree, memory, watcher, call, bounds
<1>1. CASE UNCHANGED vars
  BY <1>1 DEF vars
<1>2. ASSUME NEW q \in Request, NEW f \in Finding, NEW k \in Key,
             Approve(q, f, k) \/ ApproveOnly(q, f, k)
      PROVE  UNCHANGED <<up, memory>>
  BY <1>2 DEF Approve, ApproveOnly
<1>6. ASSUME NEW q \in Request, NEW f \in Finding, Replay(q, f) \/ ReplayRefused(q, f)
      PROVE  UNCHANGED <<up, memory>>
  BY <1>6 DEF Replay, ReplayRefused, RefuseReservation
<1>7. ASSUME NEW f \in Finding, BootReplay(f) \/ BootRefused(f)
      PROVE  UNCHANGED <<up, memory>>
  BY <1>7 DEF RefuseReservation, BootReplay, BootRefused
<1>3. CASE \/ HumanCommit
           \/ \E q \in Request : AnnotateApproval(q)
           \/ \E c \in Caller : Enqueue(c)
           \/ \E c \in Caller \cup Run : Advance(c)
           \/ Reserved \/ Boot \/ Serve \/ Crash
  BY <1>3 DEF HumanCommit, AnnotateApproval, Enqueue, EnqueueDuplicate, Advance,
     NothingToReserve, Reserved, RecordStarting, SpawnStarter, Slots, Appends
<1>4. ASSUME NEW r \in Run, Starter(r) PROVE Slots \/ UNCHANGED <<up, memory>>
  BY <1>4 DEF Starter, Prepare, Launch, StartFails, RecordStartFailure,
              AnnotateStartFailure, Slots
<1>5. ASSUME NEW r \in Run, Watcher(r) \/ WatcherDies(r) \/ WorkerExits(r)
      PROVE  Slots \/ UNCHANGED <<up, memory>>
  BY <1>5 DEF Watcher, ExitZero, ExitNonZero, WorkerTimesOut, OrphanGone, OrphanTimesOut,
              Finalize, FinalizeRefused, Verify, Integrate, IntegrateRefused,
              CheckIntegrated, RecordResult, AnnotateResult, WatcherDies, WorkerExits, Slots
<1>. QED
  BY <1>1, <1>2, <1>3, <1>4, <1>5, <1>6, <1>7 DEF Next, Human, Starts

\* A run gives the slot up.
LEMMA ReleaseIs ==
  ASSUME TypeOK, NEW r \in Run, NEW s \in Terminal, active = r, Release(r, s)
  PROVE  /\ queue' \in Seq(Item) /\ DOMAIN queue' = DOMAIN queue
         /\ \A i \in DOMAIN queue :
              /\ queue'[i].run = queue[i].run
              /\ queue'[i].status = IF queue[i].run = r THEN s ELSE queue[i].status
         /\ active' = NoRun
         /\ halted' = (halted \/ s # "completed")
BY MarkedIs, StatusSets DEF TypeOK, Release

LEMMA MemoryStep ==
  ASSUME IInv, [Next]_vars
  PROVE  MemoryOK'
<1>1. TypeOK /\ Starting /\ Watching /\ MemoryOK
  BY TypeParts DEF IInv
<1>2. CASE UNCHANGED <<up, queue, active, halted>>
  BY <1>1, <1>2 DEF MemoryOK
<1>3. ASSUME NEW c \in Caller, EnqueueNew(c) PROVE MemoryOK'
  <2>1. queue' \in Seq(Item)
    BY <1>3, AppendsOne DEF PlacedAt
  <2>2. halted' \in BOOLEAN /\ UNCHANGED <<up, active>>
    BY <1>3 DEF EnqueueNew
  <2>. QED
    BY <1>1, <2>1, <2>2 DEF MemoryOK
<1>4. ASSUME NEW c \in Caller \cup Run, Reserve(c) PROVE MemoryOK'
  <2>1. FirstQueued \in DOMAIN queue
    BY <1>1, <1>4, FirstQueuedIs DEF Reserve, CanReserve, MemoryOK
  <2>2. queue[FirstQueued].run \in Run
    <3>1. queue[FirstQueued] \in Item
      BY <1>1, <2>1, ElementOfSeq, LenProperties DEF MemoryOK
    <3>. QED
      BY <3>1 DEF Item
  <2>3. Marked(queue[FirstQueued].run, "starting") \in Seq(Item)
    BY <1>1, <2>2, MarkedIs DEF MemoryOK, Status, Live
  <2>. QED
    BY <1>1, <1>4, <2>2, <2>3 DEF Reserve, MemoryOK
<1>5. ASSUME NEW r \in Run, RecordRunning(r) PROVE MemoryOK'
  <2>1. Marked(r, "running") \in Seq(Item)
    BY <1>1, MarkedIs DEF MemoryOK, Status, Live
  <2>. QED
    BY <1>1, <1>5, <2>1 DEF RecordRunning, MemoryOK
<1>6. ASSUME NEW r \in Run, ReleaseStartFailure(r) \/ ReleaseResult(r) PROVE MemoryOK'
  <2>1. \E s \in Terminal : active = r /\ Release(r, s)
    BY <1>1, <1>6 DEF ReleaseStartFailure, ReleaseResult, Starting, StartingAt, Watching, WatchingAt, StartBusy,
                      WatchBusy, Terminal
  <2>2. UNCHANGED up
    BY <1>6 DEF ReleaseStartFailure, ReleaseResult
  <2>3. PICK s \in Terminal : active = r /\ Release(r, s)
    BY <2>1
  <2>4. queue' \in Seq(Item) /\ active' = NoRun /\ halted' = (halted \/ s # "completed")
    BY <1>1, <2>3, ReleaseIs
  <2>5. halted' \in BOOLEAN
    BY <2>4
  <2>. QED
    BY <1>1, <2>2, <2>4, <2>5 DEF MemoryOK
<1>7. CASE Boot
  <2>1. queue' \in Seq(Item) /\ active' \in Run \cup {NoRun} /\ halted' \in BOOLEAN
    BY <1>1, <1>7, BootOne DEF Adopts, Resumes, MemoryOK
  <2>. QED
    BY <1>7, <2>1 DEF Boot, MemoryOK
<1>8. CASE Serve
  BY <1>1, <1>8 DEF Serve, MemoryOK, memory
<1>9. CASE Crash
  <2>1. <<>> \in Seq(Item)
    BY EmptySeq
  <2>2. up' = "down" /\ queue' = <<>> /\ active' = NoRun /\ halted' = FALSE
    BY <1>9 DEF Crash
  <2>. QED
    BY <2>1, <2>2 DEF MemoryOK
<1>. QED
  BY <1>2, <1>3, <1>4, <1>5, <1>6, <1>7, <1>8, <1>9, SlotsUntouched DEF Slots, Appends


-----------------------------------------------------------------------------
(* Calls of enqueue                                                        *)

\* One call moves on; it waits for its run only in the hands of _advance_queue.
Moves(c) ==
  /\ up' # "down"
  /\ ask' \in [Caller -> {NoAsk} \cup Ask] /\ dlock' \in Request \cup {Nobody}
  /\ \A d \in Caller : d # c => ask'[d] = ask[d]
  /\ ask[c].at # "waiting" \/ adv' = NoAdv

\* Where the item of a run is in the queue, for a duplicate delivery.
Place(r) == SelectInSeq(queue, LAMBDA item : item.run = r)

LEMMA PlaceIs ==
  ASSUME queue \in Seq(Item), NEW r, Place(r) # 0
  PROVE  Place(r) \in DOMAIN queue
<1>. DEFINE I == {i \in 1 .. Len(queue) : queue[i].run = r}
<1>1. Place(r) = IF I # {} THEN Min(I) ELSE 0
  BY DEF SelectInSeq, Place
<1>2. I # {} => Min(I) \in I
  <2>1. I \in SUBSET Nat
    OBVIOUS
  <2>. HIDE DEF I
  <2>. QED
    BY <2>1, MinIsLeast
<1>3. DOMAIN queue = 1 .. Len(queue)
  BY LenProperties
<1>. QED
  BY <1>1, <1>2, <1>3

\* A reservation without its row has a run id of its own.
LEMMA ReservationIs ==
  ASSUME IInv, NEW f \in Finding, Orphaned(f)
  PROVE  /\ accepted[f].run \in Run /\ accepted[f].key \in Key
         /\ Named(accepted[f].run, f, accepted[f].key)
<1>1. /\ f \in DOMAIN accepted /\ accepted[f].state = "reserved"
      /\ accepted[f].run \notin DOMAIN row
  BY DEF Orphaned, Decided
<1>2. accepted[f] \in Decision
  BY <1>1 DEF IInv, TypeOK
<1>3. Named(accepted[f].run, f, accepted[f].key)
  BY <1>1 DEF Named
<1>4. accepted[f].run \in 1 .. made /\ made \in 0 .. MaxRuns
  BY <1>2, <1>3 DEF IInv, Identity, Decision, TypeOK
<1>. QED
  BY <1>2, <1>3, <1>4, BoundAssumption DEF Decision, Run

LEMMA CallsOne ==
  ASSUME IInv, [Next]_vars
  PROVE  \/ UNCHANGED <<ask, dlock>>
         \/ Crash
         \/ \E c \in Caller : Moves(c) /\ ask'[c].at # "enqueue"
         \/ \E c \in Caller, f \in Finding, k \in Key, r \in Run :
              /\ Moves(c) /\ CallEnqueue(c, f, k, r)
              /\ Named(r, f, k) \/ (r = made + 1 /\ c \in Request /\ Approve(c, f, k))
<1>. USE DEF decisions, rows, tree, memory, watcher, call, bounds
<1>1. /\ TypeOK /\ Slot /\ Reserving
      /\ ask \in [Caller -> {NoAsk} \cup Ask] /\ dlock \in Request \cup {Nobody}
      /\ DOMAIN row \subseteq Run /\ row \in [DOMAIN row -> Row]
      /\ queue \in Seq(Item)
  BY DEF IInv, TypeOK
<1>2. CASE UNCHANGED vars
  BY <1>2 DEF vars
<1>3. ASSUME NEW q \in Request, NEW f \in Finding, NEW k \in Key, Approve(q, f, k)
      PROVE  Moves(q) /\ CallEnqueue(q, f, k, made + 1) /\ made + 1 \in Run /\ q \in Caller
  <2>1. CallEnqueue(q, f, k, made + 1) /\ made + 1 \in Run /\ q \in Caller
    BY <1>1, <1>3, Callers, BoundAssumption DEF Approve, Run, TypeOK
  <2>2. ask[q].at # "waiting" /\ UNCHANGED dlock /\ up' # "down"
    BY <1>3 DEF Approve, NoAsk
  <2>. QED
    BY <1>1, <2>1, <2>2, CallType DEF Moves
<1>4. ASSUME NEW q \in Request, NEW f \in Finding, Replay(q, f)
      PROVE  \E k \in Key, r \in Run :
               Moves(q) /\ CallEnqueue(q, f, k, r) /\ q \in Caller /\ Named(r, f, k)
  <2>1. /\ accepted[f].run \in Run /\ accepted[f].key \in Key
        /\ Named(accepted[f].run, f, accepted[f].key)
    BY <1>4, ReservationIs DEF Replay
  <2>2. CallEnqueue(q, f, accepted[f].key, accepted[f].run) /\ q \in Caller
    BY <1>4, Callers DEF Replay
  <2>3. ask[q].at # "waiting" /\ dlock' = q /\ up' # "down"
    BY <1>4 DEF Replay, NoAsk
  <2>4. Moves(q)
    BY <1>1, <2>1, <2>2, <2>3, CallType DEF Moves
  <2>. QED
    BY <2>1, <2>2, <2>4
<1>5. ASSUME NEW f \in Finding, BootReplay(f)
      PROVE  \E k \in Key, r \in Run :
               Moves(Board) /\ CallEnqueue(Board, f, k, r) /\ Named(r, f, k)
  <2>1. /\ accepted[f].run \in Run /\ accepted[f].key \in Key
        /\ Named(accepted[f].run, f, accepted[f].key)
    BY <1>5, ReservationIs DEF BootReplay
  <2>2. CallEnqueue(Board, f, accepted[f].key, accepted[f].run) /\ Board \in Caller
    BY <1>5, Callers DEF BootReplay
  <2>3. ask[Board].at # "waiting" /\ UNCHANGED dlock /\ up' # "down"
    BY <1>5 DEF BootReplay, NoAsk
  <2>4. Moves(Board)
    BY <1>1, <2>1, <2>2, <2>3, CallType DEF Moves
  <2>. QED
    BY <2>1, <2>2, <2>4
<1>6. ASSUME NEW q \in Request, AnnotateApproval(q)
      PROVE  Moves(q) /\ ask'[q].at # "enqueue" /\ q \in Caller
  <2>1. /\ ask' = [ask EXCEPT ![q] = NoAsk] /\ UNCHANGED <<dlock, up>>
        /\ ask[q].at = "annotate" /\ q \in Caller
    BY <1>6, Callers DEF AnnotateApproval
  <2>2. ask[q] # NoAsk
    BY <2>1 DEF NoAsk
  <2>3. ask'[q].at # "enqueue" /\ up' # "down"
    BY <1>1, <2>1, <2>2 DEF NoAsk, Slot
  <2>. QED
    BY <1>1, <2>1, <2>3 DEF Moves
<1>7. ASSUME NEW c \in Caller, NEW r \in Run, NEW s \in Status, Answer(c, r, s),
             ask[c] # NoAsk, UNCHANGED up, ask[c].at # "waiting" \/ adv' = NoAdv
      PROVE  Moves(c) /\ ask'[c].at # "enqueue"
  <2>1. /\ ask' \in [Caller -> {NoAsk} \cup Ask] /\ dlock' \in Request \cup {Nobody}
        /\ \A d \in Caller : d # c => ask'[d] = ask[d]
        /\ ask'[c] = NoAsk \/ ask'[c].at = "annotate"
    BY <1>1, <1>7, AnswerType
  <2>2. up' # "down" /\ ask'[c].at # "enqueue"
    BY <1>1, <1>7, <2>1 DEF Slot, NoAsk
  <2>. QED
    BY <1>7, <2>1, <2>2 DEF Moves
<1>8. ASSUME NEW c \in Caller, EnqueueDuplicate(c)
      PROVE  Moves(c) /\ ask'[c].at # "enqueue"
  <2>1. PICK r \in SameDecision(c) :
          LET i == SelectInSeq(queue, LAMBDA item : item.run = r)
          IN Answer(c, r, IF i # 0 THEN queue[i].status ELSE row[r].status)
    BY <1>8 DEF EnqueueDuplicate
  <2>2. r \in Run /\ row[r].status \in Status
    BY <1>1, <2>1 DEF SameDecision, Row
  <2>3. ASSUME NEW i \in DOMAIN queue PROVE queue[i].status \in Status
    <3>1. queue[i] \in Item
      BY <1>1, <2>3, ElementOfSeq, LenProperties
    <3>. QED
      BY <3>1 DEF Item
  <2>. DEFINE s == IF Place(r) # 0 THEN queue[Place(r)].status ELSE row[r].status
  <2>7. Place(r) # 0 => Place(r) \in DOMAIN queue
    BY <1>1, PlaceIs
  <2>8. Answer(c, r, s)
    BY <2>1 DEF Place
  <2>9. s \in Status
    BY <2>2, <2>3, <2>7
  <2>. HIDE DEF s
  <2>4. \E t \in Status : Answer(c, r, t)
    BY <2>8, <2>9
  <2>5. ask[c].at = "enqueue" /\ UNCHANGED up
    BY <1>8 DEF EnqueueDuplicate
  <2>6. ask[c] # NoAsk
    BY <2>5 DEF NoAsk
  <2>. QED
    BY <1>7, <2>2, <2>4, <2>5, <2>6
<1>9. ASSUME NEW c \in Caller, EnqueueNew(c)
      PROVE  Moves(c) /\ ask'[c].at # "enqueue"
  <2>1. ask[c].at = "enqueue" /\ UNCHANGED up /\ ask[c] \in Ask /\ ask[c].run \in Run
    BY <1>9, AppendsOne DEF EnqueueNew
  <2>2. ask[c] # NoAsk
    BY <2>1 DEF NoAsk
  <2>3. CASE Answer(c, ask[c].run, "queued")
    BY <1>7, <2>1, <2>2, <2>3, StatusSets
  <2>4. CASE ask' = [ask EXCEPT ![c].at = "advance"] /\ UNCHANGED dlock
    <3>. DEFINE a == [ask[c] EXCEPT !.at = "advance"]
    <3>1. a \in Ask /\ a.at = "advance"
      BY <2>1 DEF Ask
    <3>2. ask' = [ask EXCEPT ![c] = a]
      BY <2>4
    <3>. HIDE DEF a
    <3>3. up' # "down"
      BY <1>1, <2>1, <2>2 DEF Slot
    <3>. QED
      BY <1>1, <2>1, <2>4, <3>1, <3>2, <3>3 DEF Moves
  <2>. QED
    BY <1>9, <2>3, <2>4 DEF EnqueueNew
<1>10. ASSUME NEW c \in Caller, Reserve(c)
       PROVE  Moves(c) /\ ask'[c].at # "enqueue"
  <2>1. ask[c].at = "advance" /\ UNCHANGED <<up, dlock>> /\ ask' = [ask EXCEPT ![c].at = "waiting"]
    BY <1>10 DEF Reserve, Advances
  <2>2. ask[c] # NoAsk
    BY <2>1 DEF NoAsk
  <2>3. ask[c] \in Ask
    BY <1>1, <2>2
  <2>. DEFINE a == [ask[c] EXCEPT !.at = "waiting"]
  <2>4. a \in Ask /\ a.at = "waiting"
    BY <2>3 DEF Ask
  <2>5. ask' = [ask EXCEPT ![c] = a]
    BY <2>1
  <2>. HIDE DEF a
  <2>6. up' # "down"
    BY <1>1, <2>1, <2>2 DEF Slot
  <2>. QED
    BY <1>1, <2>1, <2>4, <2>5, <2>6 DEF Moves
<1>11. ASSUME NEW c \in Caller, NothingToReserve(c)
       PROVE  Moves(c) /\ ask'[c].at # "enqueue"
  <2>1. ask[c].at = "advance" /\ UNCHANGED up /\ Answer(c, ask[c].run, "queued")
    BY <1>11 DEF NothingToReserve, Advances
  <2>2. ask[c] # NoAsk
    BY <2>1 DEF NoAsk
  <2>3. ask[c].run \in Run
    BY <1>1, <2>2 DEF Ask
  <2>. QED
    BY <1>7, <2>1, <2>2, <2>3, StatusSets
<1>12. CASE SpawnStarter /\ adv.by \in Caller
  <2>1. /\ adv # NoAdv /\ adv' = NoAdv /\ UNCHANGED up
        /\ Answer(adv.by, adv.run, "starting") /\ ask[adv.by].at = "waiting"
    BY <1>1, <1>12 DEF SpawnStarter, NoAdv, Reserving
  <2>2. ask[adv.by] # NoAsk /\ adv.run \in Run
    BY <1>1, <2>1 DEF NoAsk, TypeOK, Adv
  <2>3. "starting" \in Status
    BY DEF Status, Live
  <2>4. Moves(adv.by) /\ ask'[adv.by].at # "enqueue"
    BY <1>7, <1>12, <2>1, <2>2, <2>3
  <2>. QED
    BY <1>12, <2>4
<1>13. ASSUME NEW c \in Caller \cup Run, c \notin Caller, Advance(c)
       PROVE  UNCHANGED <<ask, dlock>>
  BY <1>13 DEF Advance, Reserve, NothingToReserve
<1>14. CASE Boot
  <2>1. UNCHANGED dlock /\ up = "down" /\ up' # "down"
    BY <1>14 DEF Boot
  <2>2. CASE UNCHANGED ask
    BY <2>1, <2>2
  <2>3. ASSUME NEW a \in Ask, a.at = "advance", ask' = [ask EXCEPT ![Board] = a]
        PROVE  Moves(Board) /\ ask'[Board].at # "enqueue"
    <3>1. ask[Board].at # "waiting"
      BY <1>1, <2>1, Callers DEF Slot, NoAsk
    <3>. QED
      BY <1>1, <2>1, <2>3, <3>1, Callers DEF Moves
  <2>4. UNCHANGED ask \/ \E a \in Ask : a.at = "advance" /\ ask' = [ask EXCEPT ![Board] = a]
    BY <1>14, BootOne DEF Adopts, Resumes
  <2>. QED
    BY <2>1, <2>3, <2>4, Callers
<1>15. CASE \E f \in Finding : BootRefused(f)
  BY <1>15 DEF BootRefused, RefuseReservation
<1>16. CASE Human \/ \E q \in Request : AnnotateApproval(q)
  <2>1. ASSUME NEW q \in Request, NEW f \in Finding, NEW k \in Key, ApproveOnly(q, f, k)
        PROVE  UNCHANGED <<ask, dlock>>
    BY <2>1 DEF ApproveOnly
  <2>2. ASSUME NEW q \in Request, NEW f \in Finding, ReplayRefused(q, f)
        PROVE  UNCHANGED <<ask, dlock>>
    BY <2>2 DEF ReplayRefused, RefuseReservation
  <2>3. HumanCommit => UNCHANGED <<ask, dlock>>
    BY DEF HumanCommit
  <2>. QED
    BY <1>3, <1>4, <1>6, <1>16, <2>1, <2>2, <2>3 DEF Human
<1>17. CASE \E r \in Run : Starter(r)
  BY <1>17 DEF Starter, Prepare, Launch, RecordRunning, StartFails, RecordStartFailure,
               ReleaseStartFailure, AnnotateStartFailure
<1>18. CASE \E r \in Run : Watcher(r) \/ WatcherDies(r) \/ WorkerExits(r)
  BY <1>18 DEF Watcher, ExitZero, ExitNonZero, WorkerTimesOut, OrphanGone, OrphanTimesOut,
               Finalize, FinalizeRefused, Verify, Integrate, IntegrateRefused,
               CheckIntegrated, RecordResult, ReleaseResult, AnnotateResult, WatcherDies,
               WorkerExits
<1>19. CASE Reserved
  BY <1>12, <1>19 DEF Reserved, RecordStarting, SpawnStarter
<1>20. CASE Starts
  BY <1>5, <1>14, <1>15, <1>20, Callers DEF Starts, Serve
<1>. QED
  BY <1>2, <1>8, <1>9, <1>10, <1>11, <1>13, <1>16, <1>17, <1>18, <1>19, <1>20
  DEF Next, Enqueue, Advance

LEMMA CallsStep ==
  ASSUME IInv, [Next]_vars
  PROVE  CallsOK'
<1>1. ask \in [Caller -> {NoAsk} \cup Ask] /\ dlock \in Request \cup {Nobody}
  BY DEF IInv, TypeOK
<1>. QED
  BY <1>1, CallsOne DEF Moves, CallsOK, Crash

-----------------------------------------------------------------------------
(* The thread that works for a run                                         *)

Busy(r) == start[r] \in StartBusy \/ watch[r] \in WatchBusy

\* A thread changes the row of its own run, and gives its own slot up.
Works(r) ==
  /\ r \in DOMAIN row /\ up # "down" /\ UNCHANGED <<adv, up, ask>>
  /\ start' \in [Run -> StartStep] /\ watch' \in [Run -> WatchStep]
  /\ verdict' \in [Run -> Terminal \cup {"none"}]
  /\ \A q \in Run : q # r => /\ start'[q] = start[q] /\ watch'[q] = watch[q]
                             /\ verdict'[q] = verdict[q]
  /\ \/ UNCHANGED <<row, active>>
     \/ Busy(r) /\ RowChanged(r) /\ UNCHANGED active
     \/ Busy(r) /\ UNCHANGED row /\ row[r].status \in Terminal /\ active' = NoRun
  /\ Busy(r) \/ ~Busy(r)'
  /\ StartingAt(r)' /\ WatchingAt(r)'

LEMMA StarterWorks ==
  ASSUME IInv, NEW r \in Run, Starter(r)
  PROVE  Works(r) /\ UNCHANGED verdict
<1>. USE DEF rows, tree, memory, watcher, call, bounds
<1>1. /\ TypeOK /\ StartingAt(r) /\ WatchingAt(r) /\ Slot
      /\ start \in [Run -> StartStep] /\ watch \in [Run -> WatchStep]
      /\ verdict \in [Run -> Terminal \cup {"none"}]
      /\ DOMAIN row \subseteq Run /\ row \in [DOMAIN row -> Row]
  BY DEF IInv, TypeOK, Starting, Watching
<1>2. start[r] # "none" /\ r \in DOMAIN row /\ up # "down" /\ UNCHANGED <<adv, up, ask>>
  BY <1>1 DEF Starter, Prepare, Launch, RecordRunning, StartFails, RecordStartFailure,
              ReleaseStartFailure, AnnotateStartFailure, StartingAt, Slot
<1>3. row[r] \in [status : Status, finding : Finding, key : Key, base : Nat, pid : BOOLEAN]
  BY <1>1, <1>2 DEF Row
<1>4. ASSUME Busy(r), Records PROVE RowChanged(r)
  <2>1. active = r
    BY <1>1, <1>4 DEF Busy, StartingAt, WatchingAt
  <2>. QED
    BY <1>4, <2>1, RecordsOne
<1>. USE DEF StartStep
<1>5. CASE Prepare(r)
  <2>1. /\ start[r] = "prepare" /\ start' = [start EXCEPT ![r] = "launch"]
        /\ UNCHANGED <<watch, verdict, active>> /\ row'[r].status = row[r].status
    BY <1>2, <1>3, <1>5 DEF Prepare
  <2>2. Busy(r) /\ RowChanged(r) /\ DOMAIN row' = DOMAIN row
    BY <1>4, <1>5, <2>1 DEF Busy, StartBusy, Records, RowChanged
  <2>3. StartingAt(r)' /\ WatchingAt(r)'
    BY <1>1, <1>2, <2>1, <2>2 DEF StartingAt, WatchingAt, StartBusy, WatchBusy, WatchStep
  <2>. QED
    BY <1>1, <1>2, <2>1, <2>2, <2>3 DEF Works
<1>6. CASE Launch(r)
  <2>1. /\ start[r] = "launch" /\ start' = [start EXCEPT ![r] = "record"]
        /\ UNCHANGED <<watch, verdict, active, row>>
    BY <1>6 DEF Launch
  <2>2. StartingAt(r)' /\ WatchingAt(r)' /\ Busy(r)
    BY <1>1, <1>2, <2>1 DEF StartingAt, WatchingAt, StartBusy, WatchBusy, WatchStep, Busy
  <2>. QED
    BY <1>1, <1>2, <2>1, <2>2 DEF Works
<1>7. CASE RecordRunning(r)
  <2>1. /\ start[r] = "record" /\ start' = [start EXCEPT ![r] = "none"]
        /\ watch' = [watch EXCEPT ![r] = "wait"]
        /\ UNCHANGED <<verdict, active>> /\ row'[r].status = "running"
    BY <1>2, <1>3, <1>7 DEF RecordRunning
  <2>2. Busy(r) /\ RowChanged(r) /\ DOMAIN row' = DOMAIN row
    BY <1>4, <1>7, <2>1 DEF Busy, StartBusy, Records, RowChanged
  <2>3. StartingAt(r)' /\ WatchingAt(r)'
    BY <1>1, <1>2, <2>1, <2>2 DEF StartingAt, WatchingAt, StartBusy, WatchBusy, Live
  <2>4. watch' \in [Run -> WatchStep]
    BY <1>1, <2>1 DEF WatchStep
  <2>. QED
    BY <1>1, <1>2, <2>1, <2>2, <2>3, <2>4 DEF Works
<1>8. CASE StartFails(r)
  <2>1. /\ start[r] \in {"prepare", "launch"} /\ start' = [start EXCEPT ![r] = "fail"]
        /\ UNCHANGED <<watch, verdict, active, row>>
    BY <1>8 DEF StartFails
  <2>2. StartingAt(r)' /\ WatchingAt(r)' /\ Busy(r)
    BY <1>1, <1>2, <2>1 DEF StartingAt, WatchingAt, StartBusy, WatchBusy, WatchStep, Busy
  <2>. QED
    BY <1>1, <1>2, <2>1, <2>2 DEF Works
<1>9. CASE RecordStartFailure(r)
  <2>1. /\ start[r] = "fail" /\ start' = [start EXCEPT ![r] = "release"]
        /\ UNCHANGED <<watch, verdict, active>> /\ row'[r].status = "failed"
    BY <1>2, <1>3, <1>9 DEF RecordStartFailure, Finish
  <2>2. Busy(r) /\ RowChanged(r) /\ DOMAIN row' = DOMAIN row
    BY <1>4, <1>9, <2>1 DEF Busy, StartBusy, Records, RowChanged
  <2>3. watch[r] \notin WatchBusy /\ row[r].status = "starting" /\ active = r
    BY <1>1, <2>1 DEF StartingAt, StartBusy
  <2>4. StartingAt(r)'
    BY <1>1, <1>2, <2>1, <2>2, <2>3 DEF StartingAt, StartBusy
  <2>5. watch[r] \notin {"annotate", "advance", "record", "release"}
    BY <1>1, <2>3 DEF WatchingAt, Live, Terminal, WatchBusy
  <2>6. WatchingAt(r)'
    BY <1>1, <1>2, <2>1, <2>2, <2>3, <2>5 DEF WatchingAt, WatchBusy, WatchStep
  <2>. QED
    BY <1>1, <1>2, <2>1, <2>2, <2>4, <2>6 DEF Works
<1>10. CASE ReleaseStartFailure(r)
  <2>1. /\ start[r] = "release" /\ start' = [start EXCEPT ![r] = "blame"]
        /\ UNCHANGED <<watch, verdict, row>> /\ row[r].status = "failed"
        /\ active = r /\ watch[r] \notin WatchBusy
    BY <1>1, <1>10 DEF ReleaseStartFailure, StartingAt, StartBusy
  <2>2. Busy(r) /\ active' = NoRun /\ row[r].status \in Terminal
    BY <1>10, <2>1 DEF ReleaseStartFailure, Release, Busy, StartBusy, Terminal
  <2>3. StartingAt(r)' /\ WatchingAt(r)'
    BY <1>1, <1>2, <2>1, <2>2 DEF StartingAt, WatchingAt, StartBusy, WatchBusy, WatchStep
  <2>. QED
    BY <1>1, <1>2, <2>1, <2>2, <2>3 DEF Works
<1>11. CASE AnnotateStartFailure(r)
  <2>1. /\ start[r] = "blame" /\ start' = [start EXCEPT ![r] = "none"]
        /\ UNCHANGED <<watch, verdict, row, active>>
    BY <1>11 DEF AnnotateStartFailure
  <2>2. StartingAt(r)' /\ WatchingAt(r)'
    BY <1>1, <1>2, <2>1 DEF StartingAt, WatchingAt, StartBusy, WatchBusy, WatchStep
  <2>3. Busy(r) \/ ~Busy(r)'
    BY <1>1, <2>1 DEF Busy, StartBusy
  <2>. QED
    BY <1>1, <1>2, <2>1, <2>2, <2>3 DEF Works
<1>. QED
  BY <1>5, <1>6, <1>7, <1>8, <1>9, <1>10, <1>11 DEF Starter

\* The thread has a result, or goes on to its next step, or is gone.
Proceeds(r) ==
  \/ \E s \in Terminal : Decide(r, s)
  \/ \E l \in {"finalize", "gate", "merge", "reread", "none"} : Step(r, l)

LEMMA WatcherWorks ==
  ASSUME IInv, NEW r \in Run, Watcher(r) \/ WatcherDies(r)
  PROVE  Works(r) /\ UNCHANGED start
<1>. USE DEF rows, tree, memory, call, bounds
<1>1. /\ TypeOK /\ StartingAt(r) /\ WatchingAt(r) /\ Slot
      /\ start \in [Run -> StartStep] /\ watch \in [Run -> WatchStep]
      /\ verdict \in [Run -> Terminal \cup {"none"}]
      /\ DOMAIN row \subseteq Run /\ row \in [DOMAIN row -> Row]
  BY DEF IInv, TypeOK, Starting, Watching
<1>2. /\ watch[r] # "none" /\ r \in DOMAIN row /\ up # "down" /\ UNCHANGED <<adv, up, start, ask>>
  BY <1>1 DEF Watcher, ExitZero, ExitNonZero, WorkerTimesOut, OrphanGone, OrphanTimesOut,
              Finalize, FinalizeRefused, Verify, Integrate, IntegrateRefused,
              CheckIntegrated, RecordResult, ReleaseResult, AnnotateResult, WatcherDies,
              WatchingAt, Slot
<1>3. row[r] \in [status : Status, finding : Finding, key : Key, base : Nat, pid : BOOLEAN]
  BY <1>1, <1>2 DEF Row
<1>4. ASSUME watch[r] \in WatchBusy PROVE active = r /\ start[r] \notin StartBusy /\ Busy(r)
  BY <1>1, <1>4 DEF Busy, StartingAt, WatchingAt
<1>5. ASSUME Busy(r), Records PROVE RowChanged(r)
  <2>1. active = r
    BY <1>1, <1>5 DEF Busy, StartingAt, WatchingAt
  <2>. QED
    BY <1>5, <2>1, RecordsOne
<1>6. ASSUME watch[r] \in WatchBusy \ {"record", "release"}, UNCHANGED <<row, active>>,
             Proceeds(r)
      PROVE  Works(r)
  <2>1. active = r /\ start[r] \notin StartBusy /\ Busy(r) /\ row[r].status \in Live
    BY <1>1, <1>4, <1>6 DEF WatchingAt
  <2>2. start[r] \notin {"release", "blame"}
    BY <1>1, <2>1 DEF StartingAt, Live
  <2>3. StartingAt(r)'
    BY <1>1, <1>2, <1>6, <2>1, <2>2 DEF StartingAt, StartBusy
  <2>4. CASE \E s \in Terminal : Decide(r, s)
    <3>1. PICK s \in Terminal : Decide(r, s)
      BY <2>4
    <3>2. /\ verdict'[r] = s /\ watch'[r] = "record" /\ verdict' \in [Run -> Terminal \cup {"none"}]
          /\ watch' \in [Run -> WatchStep]
          /\ \A q \in Run : q # r => verdict'[q] = verdict[q] /\ watch'[q] = watch[q]
      BY <1>1, <3>1 DEF Decide, WatchStep
    <3>3. WatchingAt(r)'
      BY <1>2, <1>6, <2>1, <3>2 DEF WatchingAt, WatchBusy
    <3>. QED
      BY <1>1, <1>2, <1>6, <2>1, <2>3, <3>2, <3>3 DEF Works
  <2>5. CASE \E l \in {"finalize", "gate", "merge", "reread", "none"} : Step(r, l)
    <3>1. PICK l \in {"finalize", "gate", "merge", "reread", "none"} : Step(r, l)
      BY <2>5
    <3>2. /\ watch'[r] = l /\ watch' \in [Run -> WatchStep] /\ UNCHANGED verdict
          /\ \A q \in Run : q # r => watch'[q] = watch[q]
      BY <1>1, <3>1 DEF Step, WatchStep
    <3>3. WatchingAt(r)'
      BY <1>2, <1>6, <2>1, <3>2 DEF WatchingAt, WatchBusy
    <3>. QED
      BY <1>1, <1>2, <1>6, <2>1, <2>3, <3>2, <3>3 DEF Works
  <2>. QED
    BY <1>6, <2>4, <2>5 DEF Proceeds
<1>7. CASE \/ ExitNonZero(r) \/ WorkerTimesOut(r) \/ OrphanGone(r) \/ OrphanTimesOut(r)
           \/ Finalize(r) \/ FinalizeRefused(r) \/ Verify(r)
           \/ Integrate(r) \/ IntegrateRefused(r) \/ CheckIntegrated(r) \/ WatcherDies(r)
  <2>1. watch[r] \in WatchBusy \ {"record", "release"}
    BY <1>7 DEF WatchBusy, ExitNonZero, WorkerTimesOut, OrphanGone, OrphanTimesOut, Finalize,
       FinalizeRefused, Verify, Integrate, IntegrateRefused, CheckIntegrated, WatcherDies
  <2>2. UNCHANGED <<row, active>>
    BY <1>7 DEF ExitNonZero, WorkerTimesOut, OrphanGone, OrphanTimesOut, Finalize,
       FinalizeRefused, Verify, Integrate, IntegrateRefused, CheckIntegrated, WatcherDies
  <2>3. Proceeds(r)
    <3>1. CASE CheckIntegrated(r)
      <4>. DEFINE s == IF head = row[r].base + 1 THEN "completed" ELSE "blocked"
      <4>1. Decide(r, s) /\ s \in Terminal
        BY <3>1 DEF CheckIntegrated, Terminal
      <4>. QED
        BY <4>1 DEF Proceeds
    <3>2. CASE ExitNonZero(r) \/ WorkerTimesOut(r) \/ OrphanTimesOut(r) \/ IntegrateRefused(r)
      BY <3>2 DEF ExitNonZero, WorkerTimesOut, OrphanTimesOut, IntegrateRefused, Proceeds, Terminal
    <3>3. CASE OrphanGone(r) \/ Integrate(r) \/ WatcherDies(r)
      BY <3>3 DEF OrphanGone, Integrate, WatcherDies, Proceeds
    <3>4. CASE Finalize(r) \/ FinalizeRefused(r) \/ Verify(r)
      BY <3>4 DEF Finalize, FinalizeRefused, Verify, Proceeds, Terminal
    <3>. QED
      BY <1>7, <3>1, <3>2, <3>3, <3>4
  <2>. QED
    BY <1>2, <1>6, <2>1, <2>2, <2>3
<1>8. CASE ExitZero(r)
  <2>1. /\ watch[r] = "wait" /\ watch' = [watch EXCEPT ![r] = "finalize"]
        /\ UNCHANGED <<verdict, active>> /\ row'[r].status = "verifying"
    BY <1>2, <1>3, <1>8 DEF ExitZero, Step
  <2>2. watch[r] \in WatchBusy /\ row[r].status \in Live
    BY <1>1, <2>1 DEF WatchBusy, WatchingAt
  <2>3. Busy(r) /\ active = r /\ start[r] \notin StartBusy
    BY <1>4, <2>2
  <2>4. RowChanged(r) /\ DOMAIN row' = DOMAIN row
    BY <1>5, <1>8, <2>3 DEF Records, RowChanged
  <2>5. start[r] \notin {"release", "blame"}
    BY <1>1, <2>2 DEF StartingAt, Live
  <2>6. StartingAt(r)'
    BY <1>1, <1>2, <2>1, <2>3, <2>4, <2>5 DEF StartingAt, StartBusy
  <2>7. WatchingAt(r)'
    BY <1>1, <1>2, <2>1, <2>3, <2>4 DEF WatchingAt, WatchBusy, Live
  <2>8. watch' \in [Run -> WatchStep]
    BY <1>1, <2>1 DEF WatchStep
  <2>. QED
    BY <1>1, <1>2, <2>1, <2>3, <2>4, <2>6, <2>7, <2>8 DEF Works
<1>9. CASE RecordResult(r)
  <2>1. /\ watch[r] = "record" /\ watch' = [watch EXCEPT ![r] = "release"]
        /\ UNCHANGED <<verdict, active>> /\ row'[r].status = verdict[r]
    BY <1>2, <1>3, <1>9 DEF RecordResult, Finish, Step
  <2>2. watch[r] \in WatchBusy /\ row[r].status \in Live /\ verdict[r] \in Terminal
    BY <1>1, <2>1 DEF WatchBusy, WatchingAt
  <2>3. Busy(r) /\ active = r /\ start[r] \notin StartBusy
    BY <1>4, <2>2
  <2>4. RowChanged(r) /\ DOMAIN row' = DOMAIN row
    BY <1>5, <1>9, <2>3 DEF Records, RowChanged
  <2>5. start[r] \notin {"release", "blame"}
    BY <1>1, <2>2 DEF StartingAt, Live
  <2>6. StartingAt(r)'
    BY <1>1, <1>2, <2>1, <2>3, <2>4, <2>5 DEF StartingAt, StartBusy
  <2>7. WatchingAt(r)'
    BY <1>1, <1>2, <2>1, <2>2, <2>3, <2>4 DEF WatchingAt, WatchBusy
  <2>8. watch' \in [Run -> WatchStep]
    BY <1>1, <2>1 DEF WatchStep
  <2>. QED
    BY <1>1, <1>2, <2>1, <2>3, <2>4, <2>6, <2>7, <2>8 DEF Works
<1>10. CASE ReleaseResult(r)
  <2>1. /\ watch[r] = "release" /\ watch' = [watch EXCEPT ![r] = "annotate"]
        /\ UNCHANGED <<verdict, row>>
        /\ verdict[r] \in Terminal /\ row[r].status = verdict[r]
    BY <1>1, <1>10 DEF ReleaseResult, Step, WatchingAt
  <2>2. Busy(r) /\ active = r /\ start[r] \notin StartBusy
    BY <1>4, <2>1 DEF WatchBusy
  <2>3. active' = NoRun
    BY <1>10, <2>2 DEF ReleaseResult, Release
  <2>4. StartingAt(r)' /\ WatchingAt(r)'
    BY <1>1, <1>2, <2>1, <2>2, <2>3 DEF StartingAt, WatchingAt, StartBusy, WatchBusy
  <2>5. watch' \in [Run -> WatchStep]
    BY <1>1, <2>1 DEF WatchStep
  <2>. QED
    BY <1>1, <1>2, <2>1, <2>2, <2>3, <2>4, <2>5 DEF Works
<1>11. CASE AnnotateResult(r)
  <2>1. /\ watch[r] = "annotate" /\ UNCHANGED <<row, active>>
        /\ watch' \in [Run -> WatchStep] /\ watch'[r] \in {"advance", "none"}
        /\ verdict' \in [Run -> Terminal \cup {"none"}]
        /\ \A q \in Run : q # r => verdict'[q] = verdict[q] /\ watch'[q] = watch[q]
        /\ row[r].status \in Terminal
    BY <1>1, <1>11 DEF AnnotateResult, WatchStep, WatchingAt
  <2>2. StartingAt(r)'
    BY <1>1, <1>2, <2>1 DEF StartingAt, StartBusy, WatchBusy, Terminal
  <2>3. WatchingAt(r)'
    BY <1>1, <1>2, <2>1 DEF WatchingAt, WatchBusy
  <2>4. Busy(r) \/ ~Busy(r)'
    BY <1>1, <1>2, <2>1 DEF Busy, WatchBusy
  <2>. QED
    BY <1>1, <1>2, <2>1, <2>2, <2>3, <2>4 DEF Works
<1>. QED
  BY <1>2, <1>7, <1>8, <1>9, <1>10, <1>11 DEF Watcher

LEMMA BusyIsActive ==
  ASSUME IInv, NEW r \in Run, Busy(r)
  PROVE  active = r /\ adv = NoAdv
<1>1. active = r /\ Reserving
  BY DEF IInv, Starting, StartingAt, Watching, WatchingAt, Busy
<1>. QED
  BY <1>1 DEF Reserving, Busy

LEMMA WorksKeeps ==
  ASSUME IInv, NEW r \in Run, Works(r)
  PROVE  ThreadsOK' /\ Reserving' /\ Starting' /\ Watching' /\ Slot'
<1>1. /\ TypeOK /\ Reserving /\ Slot /\ NoRun \notin Run
      /\ DOMAIN row \subseteq Run /\ adv \in {NoAdv} \cup Adv
      /\ \A q \in Run : StartingAt(q) /\ WatchingAt(q)
  BY Callers DEF IInv, TypeOK, Starting, Watching
<1>2. /\ r \in DOMAIN row /\ up # "down" /\ UNCHANGED <<adv, up, ask>>
      /\ StartingAt(r)' /\ WatchingAt(r)'
      /\ \A q \in Run : q # r => /\ start'[q] = start[q] /\ watch'[q] = watch[q]
                                 /\ verdict'[q] = verdict[q]
  BY DEF Works
<1>3. DOMAIN row' = DOMAIN row /\ \A q \in DOMAIN row : q # r => row'[q] = row[q]
  BY DEF Works, RowChanged
<1>4. ThreadsOK'
  BY <1>1, <1>2 DEF Works, ThreadsOK
<1>5. ASSUME NEW q \in Run, q # r, Busy(q) PROVE UNCHANGED <<active, row>>
  BY <1>1, <1>5, BusyIsActive DEF Works
<1>6. ASSUME NEW q \in Run, q # r PROVE StartingAt(q)' /\ WatchingAt(q)'
  <2>1. /\ start'[q] = start[q] /\ watch'[q] = watch[q] /\ verdict'[q] = verdict[q]
        /\ StartingAt(q) /\ WatchingAt(q)
    BY <1>1, <1>2, <1>6
  <2>2. start[q] # "none" \/ watch[q] # "none" => q \in DOMAIN row' /\ row'[q] = row[q]
    BY <1>3, <1>6, <2>1 DEF StartingAt, WatchingAt
  <2>3. start[q] \in StartBusy \/ watch[q] \in WatchBusy => active' = active
    BY <1>5, <1>6 DEF Busy
  <2>4. StartingAt(q)'
    BY <2>1, <2>2, <2>3 DEF StartingAt, StartBusy
  <2>5. WatchingAt(q)'
    BY <2>1, <2>2, <2>3 DEF WatchingAt, WatchBusy
  <2>. QED
    BY <2>4, <2>5
<1>7. Starting' /\ Watching'
  BY <1>2, <1>6 DEF Starting, Watching
<1>8. Reserving'
  <2>1. CASE adv = NoAdv
    BY <1>2, <2>1 DEF Reserving
  <2>2. CASE adv # NoAdv
    <3>1. ~Busy(r) /\ UNCHANGED <<row, active>> /\ ~Busy(r)'
      BY <2>2, BusyIsActive DEF Works
    <3>2. adv.run \in Run
      BY <1>1, <2>2 DEF Adv
    <3>3. start'[adv.run] \notin StartBusy /\ watch'[adv.run] \notin WatchBusy
      BY <1>1, <1>2, <2>2, <3>1, <3>2 DEF Reserving, Busy
    <3>. QED
      BY <1>1, <1>2, <2>2, <3>1, <3>3 DEF Reserving
  <2>. QED
    BY <2>1, <2>2
<1>9. Slot'
  <2>1. CASE UNCHANGED <<row, active>>
    BY <1>1, <1>2, <2>1 DEF Slot
  <2>2. CASE Busy(r) /\ RowChanged(r) /\ UNCHANGED active
    <3>1. active = r
      BY <2>2, BusyIsActive
    <3>2. \A q \in DOMAIN row : q # r => row'[q].status \notin Live
      BY <1>1, <1>2, <1>3, <3>1 DEF Slot
    <3>. QED
      BY <1>1, <1>2, <1>3, <2>2, <3>1, <3>2 DEF Slot
  <2>3. CASE Busy(r) /\ UNCHANGED row /\ row[r].status \in Terminal /\ active' = NoRun
    <3>1. active = r
      BY <2>3, BusyIsActive
    <3>2. \A q \in DOMAIN row : q # r => row[q].status \notin Live
      BY <1>1, <1>2, <3>1 DEF Slot
    <3>. QED
      BY <1>1, <1>2, <2>3, <3>2, StatusSets DEF Slot
  <2>. QED
    BY <2>1, <2>2, <2>3 DEF Works
<1>. QED
  BY <1>4, <1>7, <1>8, <1>9

\* The steps of the threads, and those that change a row or the slot.
Threads ==
  \/ \E c \in Caller : EnqueueNew(c)
  \/ \E c \in Caller \cup Run : Advance(c)
  \/ Reserved
  \/ \E r \in Run : Starter(r) \/ Watcher(r) \/ WatcherDies(r)
  \/ Boot \/ Crash

LEMMA ThreadsUntouched ==
  ASSUME [Next]_vars
  PROVE  \/ Threads
         \/ /\ UNCHANGED <<row, active, queue, start, watch, verdict, adv>>
            /\ (up' = "down") <=> (up = "down")
<1>. USE DEF decisions, rows, tree, memory, watcher, call, bounds
<1>. DEFINE Same == UNCHANGED <<row, active, queue, start, watch, verdict, adv>>
<1>1. CASE UNCHANGED vars
  BY <1>1 DEF vars
<1>2. ASSUME NEW q \in Request, NEW f \in Finding, NEW k \in Key,
             Approve(q, f, k) \/ ApproveOnly(q, f, k)
      PROVE  Same /\ UNCHANGED up
  BY <1>2 DEF Approve, ApproveOnly
<1>3. ASSUME NEW q \in Request, NEW f \in Finding, Replay(q, f) \/ ReplayRefused(q, f)
      PROVE  Same /\ UNCHANGED up
  BY <1>3 DEF Replay, ReplayRefused, RefuseReservation
<1>4. ASSUME NEW f \in Finding, BootReplay(f) \/ BootRefused(f)
      PROVE  Same /\ UNCHANGED up
  BY <1>4 DEF RefuseReservation, BootReplay, BootRefused
<1>5. CASE Serve
  BY <1>5 DEF Serve
<1>6. ASSUME HumanCommit \/ \E q \in Request : AnnotateApproval(q)
      PROVE  Same /\ UNCHANGED up
  BY <1>6 DEF HumanCommit, AnnotateApproval
<1>7. ASSUME NEW c \in Caller, Enqueue(c) PROVE EnqueueNew(c) \/ (Same /\ UNCHANGED up)
  BY <1>7 DEF Enqueue, EnqueueDuplicate
<1>8. ASSUME NEW r \in Run, WorkerExits(r) PROVE Same /\ UNCHANGED up
  BY <1>8 DEF WorkerExits
<1>. HIDE DEF Same
<1>9. Threads \/ (Same /\ ((up' = "down") <=> (up = "down")))
  <2>1. CASE Human
    BY <1>2, <1>3, <1>6, <2>1 DEF Human
  <2>2. CASE Starts
    <3>1. Serve => Same /\ up # "down" /\ up' # "down"
      BY DEF Serve, Same
    <3>. QED
      BY <1>4, <2>2, <3>1 DEF Starts, Threads
  <2>3. UNCHANGED vars => Same /\ UNCHANGED up
    BY DEF vars, Same
  <2>. QED
    BY <1>6, <1>7, <1>8, <2>1, <2>2, <2>3 DEF Next, Threads
<1>. QED
  BY <1>9 DEF Same

LEMMA StillWaits ==
  ASSUME IInv, [Next]_vars, adv # NoAdv, UNCHANGED adv, adv.by \in Caller
  PROVE  ask'[adv.by].at = "waiting"
<1>1. ask[adv.by].at = "waiting" /\ ~Crash
  BY DEF IInv, Reserving, Crash
<1>2. CASE UNCHANGED <<ask, dlock>>
  BY <1>1, <1>2
<1>3. ASSUME NEW c \in Caller, Moves(c) PROVE ask'[adv.by].at = "waiting"
  BY <1>1, <1>3 DEF Moves
<1>. QED
  BY <1>1, <1>2, <1>3, CallsOne

\* The first item that waits stands for a run that waits, when the slot is free.
LEMMA ReserveIs ==
  ASSUME IInv, NEW c \in Caller \cup Run, Reserve(c)
  PROVE  LET r == queue[FirstQueued].run
         IN /\ r \in DOMAIN row /\ row[r].status = "queued" /\ adv = NoAdv
            /\ active' = r /\ adv' = [at |-> "starting", run |-> r, by |-> c]
            /\ FirstQueued \in DOMAIN queue /\ up # "down"
            /\ \A q \in Run : ~Busy(q)
<1>. DEFINE r == queue[FirstQueued].run
<1>1. /\ TypeOK /\ Waiting /\ Reserving /\ Slot /\ queue \in Seq(Item)
      /\ DOMAIN row \subseteq Run /\ NoRun \notin Run
  BY Callers DEF IInv, TypeOK
<1>2. active = NoRun /\ FirstQueued # 0 /\ Advances(c)
  BY DEF Reserve, CanReserve
<1>3. FirstQueued \in DOMAIN queue /\ queue[FirstQueued].status = "queued"
  BY <1>1, <1>2, FirstQueuedIs
<1>4. r \in DOMAIN row /\ row[r].status = "queued"
  BY <1>1, <1>3 DEF Waiting
<1>5. adv = NoAdv /\ \A q \in Run : ~Busy(q)
  BY <1>1, <1>2, BusyIsActive DEF Reserving
<1>6. up # "down"
  <2>1. CASE c \in Caller
    BY <1>1, <1>2, <2>1 DEF Slot, Advances, NoAsk
  <2>2. CASE c \notin Caller
    BY <1>1, <1>2, <2>2 DEF Slot, Advances
  <2>. QED
    BY <2>1, <2>2
<1>. QED
  BY <1>3, <1>4, <1>5, <1>6 DEF Reserve

\* A thread that advances the queue ends with that.
LEMMA AdvanceEnds ==
  ASSUME IInv, NEW c \in Caller \cup Run, Advance(c)
  PROVE  /\ UNCHANGED <<row, start, verdict, up>> /\ up # "down"
         /\ watch' \in [Run -> WatchStep]
         /\ \A q \in Run : watch'[q] = watch[q] \/ watch'[q] = "none"
         /\ Reserve(c) \/ UNCHANGED <<active, queue, adv>>
<1>. USE DEF rows, memory
<1>1. watch \in [Run -> WatchStep] /\ Slot
  BY DEF IInv, TypeOK
<1>2. Advances(c) /\ UNCHANGED <<row, start, verdict, up>>
  BY DEF Advance, Reserve, NothingToReserve
<1>3. up # "down"
  <2>1. CASE c \in Caller
    BY <1>1, <1>2, <2>1 DEF Slot, Advances, NoAsk
  <2>2. CASE c \notin Caller
    BY <1>1, <1>2, <2>2 DEF Slot, Advances
  <2>. QED
    BY <2>1, <2>2
<1>4. UNCHANGED watch \/ (c \in Run /\ watch' = [watch EXCEPT ![c] = "none"])
  BY DEF Advance, Reserve, NothingToReserve
<1>5. Reserve(c) \/ UNCHANGED <<active, queue, adv>>
  BY DEF Advance, NothingToReserve
<1>. QED
  BY <1>1, <1>2, <1>3, <1>4, <1>5 DEF WatchStep

ThreadsHold == ThreadsOK /\ Reserving /\ Starting /\ Watching /\ Slot

LEMMA AdvanceKeeps ==
  ASSUME IInv, [Next]_vars, NEW c \in Caller \cup Run, Advance(c)
  PROVE  ThreadsHold'
<1>1. /\ TypeOK /\ ThreadsHold /\ DOMAIN row \subseteq Run /\ NoRun \notin Run
      /\ \A q \in Run : StartingAt(q) /\ WatchingAt(q)
  BY Callers, TypeParts DEF IInv, Starting, Watching, ThreadsHold, TypeOK
<1>2. /\ UNCHANGED <<row, start, verdict, up>> /\ up # "down"
      /\ watch' \in [Run -> WatchStep]
      /\ \A q \in Run : watch'[q] = watch[q] \/ watch'[q] = "none"
  BY AdvanceEnds
<1>3. CASE UNCHANGED <<active, queue, adv>>
  <2>1. ASSUME NEW q \in Run PROVE StartingAt(q)' /\ WatchingAt(q)'
    BY <1>1, <1>2, <1>3, <2>1 DEF StartingAt, WatchingAt, WatchBusy
  <2>2. Reserving'
    <3>1. CASE adv = NoAdv
      BY <1>3, <3>1 DEF Reserving
    <3>2. CASE adv # NoAdv
      BY <1>1, <1>2, <1>3, <3>2, StillWaits DEF ThreadsHold, Reserving, WatchBusy
    <3>. QED
      BY <3>1, <3>2
  <2>3. ThreadsOK' /\ Slot'
    BY <1>1, <1>2, <1>3 DEF ThreadsHold, ThreadsOK, Slot
  <2>. QED
    BY <2>1, <2>2, <2>3 DEF ThreadsHold, Starting, Watching
<1>4. CASE Reserve(c)
  <2>. DEFINE r == queue[FirstQueued].run
              a == [at |-> "starting", run |-> r, by |-> c]
  <2>1. /\ r \in DOMAIN row /\ row[r].status = "queued" /\ active' = r /\ adv' = a
        /\ \A q \in Run : ~Busy(q)
    BY <1>4, ReserveIs
  <2>. HIDE DEF r
  <2>2. a \in Adv /\ a.at = "starting" /\ a.run = r /\ a.by = c
    BY <1>1, <2>1 DEF Adv
  <2>3. c \in Caller => ask'[c].at = "waiting"
    <3>1. SUFFICES ASSUME c \in Caller PROVE ask'[c].at = "waiting"
      OBVIOUS
    <3>2. ask' = [ask EXCEPT ![c].at = "waiting"] /\ ask[c].at = "advance"
      BY <1>4, <3>1 DEF Reserve, Advances
    <3>3. ask[c] \in Ask /\ ask \in [Caller -> {NoAsk} \cup Ask]
      BY <1>1, <3>1, <3>2 DEF TypeOK, NoAsk
    <3>4. [ask[c] EXCEPT !.at = "waiting"].at = "waiting"
      BY <3>3 DEF Ask
    <3>. QED
      BY <3>1, <3>2, <3>3, <3>4
  <2>. HIDE DEF a
  <2>4. ThreadsOK'
    BY <1>1, <1>2, <2>1, <2>2 DEF ThreadsHold, ThreadsOK
  <2>5. Reserving'
    BY <1>1, <1>2, <2>1, <2>2, <2>3 DEF Reserving, Busy, WatchBusy
  <2>6. ASSUME NEW q \in Run PROVE StartingAt(q)' /\ WatchingAt(q)'
    <3>1. start'[q] = start[q] /\ start[q] \notin StartBusy /\ watch'[q] \notin WatchBusy
      BY <1>2, <2>1 DEF Busy, WatchBusy
    <3>. QED
      BY <1>1, <1>2, <3>1 DEF StartingAt, WatchingAt, WatchBusy, StartBusy
  <2>7. Slot'
    <3>1. active = NoRun
      BY <1>4 DEF Reserve, CanReserve
    <3>2. \A q \in DOMAIN row : row[q].status \notin Live
      BY <1>1, <1>2, <3>1 DEF ThreadsHold, Slot
    <3>. QED
      BY <1>2, <3>2 DEF Slot
  <2>. QED
    BY <2>4, <2>5, <2>6, <2>7 DEF ThreadsHold, Starting, Watching
<1>. QED
  BY <1>3, <1>4, AdvanceEnds

LEMMA ReservedKeeps ==
  ASSUME IInv, [Next]_vars, Reserved
  PROVE  ThreadsHold'
<1>. USE DEF rows, memory, watcher, call
<1>1. /\ TypeOK /\ ThreadsHold /\ DOMAIN row \subseteq Run /\ NoRun \notin Run
      /\ \A q \in Run : StartingAt(q) /\ WatchingAt(q)
      /\ start \in [Run -> StartStep]
  BY Callers, TypeParts DEF IInv, Starting, Watching, ThreadsHold, TypeOK
<1>. DEFINE r == adv.run
<1>2. /\ adv # NoAdv /\ adv \in Adv /\ r \in DOMAIN row /\ active = r /\ r \in Run /\ up # "down"
      /\ row[r].status = IF adv.at = "starting" THEN "queued" ELSE "starting"
      /\ start[r] \notin StartBusy /\ watch[r] \notin WatchBusy
  <2>1. adv # NoAdv
    BY DEF Reserved, RecordStarting, SpawnStarter, NoAdv
  <2>. QED
    BY <1>1, <2>1 DEF ThreadsHold, ThreadsOK, Reserving, Slot
<1>3. UNCHANGED <<active, queue, up, watch, verdict>>
  BY DEF Reserved, RecordStarting, SpawnStarter
<1>4. CASE RecordStarting
  <2>1. /\ adv.at = "starting" /\ row' = [row EXCEPT ![r].status = "starting"]
        /\ UNCHANGED <<start, ask>> /\ adv' = [adv EXCEPT !.at = "annotate"]
    BY <1>4 DEF RecordStarting
  <2>2. RowChanged(r) /\ row'[r].status = "starting" /\ DOMAIN row' = DOMAIN row
        /\ \A q \in DOMAIN row : q # r => row'[q] = row[q]
    BY <1>1, <1>2, <2>1, StatusChange DEF Status, Live, RowChanged
  <2>. DEFINE a == [adv EXCEPT !.at = "annotate"]
  <2>3. a \in Adv /\ a.at = "annotate" /\ a.run = r /\ a.by = adv.by /\ adv' = a
    BY <1>2, <2>1 DEF Adv
  <2>. HIDE DEF a
  <2>4. adv'.run = r /\ adv'.at = "annotate" /\ adv'.by = adv.by /\ adv' \in Adv
    BY <2>3
  <2>5. ThreadsOK'
    BY <1>1, <1>3, <2>1, <2>4 DEF ThreadsHold, ThreadsOK
  <2>6. Reserving'
    BY <1>1, <1>2, <1>3, <2>1, <2>2, <2>4 DEF ThreadsHold, Reserving
  <2>7. ASSUME NEW q \in Run PROVE StartingAt(q)' /\ WatchingAt(q)'
    <3>1. start[r] \notin {"release", "blame"} /\ watch[r] \notin {"annotate", "advance"}
      BY <1>1, <1>2, <2>1 DEF StartingAt, WatchingAt, Terminal
    <3>2. CASE q = r
      BY <1>1, <1>2, <1>3, <2>1, <2>2, <3>1, <3>2 DEF StartingAt, WatchingAt, WatchBusy, StartBusy
    <3>3. CASE q # r
      <4>1. q \in DOMAIN row => row'[q] = row[q]
        BY <2>2, <3>3
      <4>4. /\ UNCHANGED <<active, start, watch, verdict>> /\ DOMAIN row' = DOMAIN row
            /\ StartingAt(q) /\ WatchingAt(q)
        BY <1>1, <1>3, <2>1, <2>2
      <4>2. StartingAt(q)'
        BY <4>1, <4>4 DEF StartingAt, StartBusy
      <4>3. WatchingAt(q)'
        BY <4>1, <4>4 DEF WatchingAt, WatchBusy
      <4>. QED
        BY <4>2, <4>3
    <3>. QED
      BY <3>2, <3>3
  <2>8. Slot'
    <3>1. \A q \in DOMAIN row : q # r => row[q].status \notin Live
      BY <1>1, <1>2 DEF ThreadsHold, Slot
    <3>. QED
      BY <1>2, <1>3, <2>2, <3>1 DEF Slot
  <2>. QED
    BY <2>5, <2>6, <2>7, <2>8 DEF ThreadsHold, Starting, Watching
<1>5. CASE SpawnStarter
  <2>1. /\ adv.at = "annotate" /\ UNCHANGED row /\ adv' = NoAdv
        /\ start' = [start EXCEPT ![r] = "prepare"]
    BY <1>5 DEF SpawnStarter
  <2>2. row[r].status = "starting"
    BY <1>2, <2>1
  <2>3. ThreadsOK'
    BY <1>1, <1>2, <1>3, <2>1 DEF ThreadsHold, ThreadsOK, StartStep
  <2>4. ASSUME NEW q \in Run PROVE StartingAt(q)' /\ WatchingAt(q)'
    <3>1. WatchingAt(q)'
      BY <1>1, <1>3, <2>1 DEF WatchingAt, WatchBusy
    <3>2. StartingAt(q)'
      BY <1>1, <1>2, <1>3, <2>1, <2>2 DEF StartingAt, StartBusy
    <3>. QED
      BY <3>1, <3>2
  <2>5. Slot' /\ Reserving'
    BY <1>1, <1>2, <1>3, <2>1 DEF ThreadsHold, Slot, Reserving
  <2>. QED
    BY <2>3, <2>4, <2>5 DEF ThreadsHold, Starting, Watching
<1>. QED
  BY <1>4, <1>5 DEF Reserved

LEMMA AppendsKeep ==
  ASSUME IInv, [Next]_vars, NEW c \in Caller, EnqueueNew(c)
  PROVE  ThreadsHold'
<1>. USE DEF memory, watcher
<1>1. /\ TypeOK /\ ThreadsHold
      /\ \A q \in Run : StartingAt(q) /\ WatchingAt(q)
  BY TypeParts DEF IInv, Starting, Watching, ThreadsHold
<1>2. PICK r : /\ r \notin DOMAIN row /\ DOMAIN row' = DOMAIN row \cup {r}
               /\ row'[r].status = "queued"
               /\ \A q \in DOMAIN row : row'[q] = row[q]
  BY AppendsOne
<1>3. UNCHANGED <<up, active, start, watch, verdict, adv>> /\ ask[c].at = "enqueue"
  BY DEF EnqueueNew
<1>4. up # "down"
  BY <1>1, <1>3 DEF ThreadsHold, Slot, NoAsk
<1>5. ThreadsOK'
  BY <1>1, <1>3 DEF ThreadsHold, ThreadsOK
<1>6. Reserving'
  <2>1. CASE adv = NoAdv
    BY <1>3, <2>1 DEF Reserving
  <2>2. CASE adv # NoAdv
    BY <1>1, <1>2, <1>3, <2>2, StillWaits DEF ThreadsHold, Reserving
  <2>. QED
    BY <2>1, <2>2
<1>7. ASSUME NEW q \in Run PROVE StartingAt(q)' /\ WatchingAt(q)'
  <2>1. StartingAt(q) /\ WatchingAt(q)
    BY <1>1
  <2>2. StartingAt(q)'
    BY <1>2, <1>3, <2>1 DEF StartingAt, StartBusy
  <2>3. WatchingAt(q)'
    BY <1>2, <1>3, <2>1 DEF WatchingAt, WatchBusy
  <2>. QED
    BY <2>2, <2>3
<1>8. Slot'
  BY <1>1, <1>2, <1>3, <1>4, StatusSets DEF ThreadsHold, Slot
<1>. QED
  BY <1>5, <1>6, <1>7, <1>8 DEF ThreadsHold, Starting, Watching

LEMMA BootKeeps ==
  ASSUME IInv, Boot
  PROVE  ThreadsHold'
<1>. USE DEF rows
<1>1. /\ TypeOK /\ ThreadsHold /\ OneLiveRun /\ DOMAIN row \subseteq Run
      /\ up = "down" /\ up' = "booting" /\ UNCHANGED <<row, start, verdict, adv>>
      /\ watch \in [Run -> WatchStep]
  BY TypeParts DEF IInv, ThreadsHold, Boot, TypeOK
<1>2. active = NoRun /\ adv = NoAdv /\ \A q \in Run : start[q] = "none" /\ watch[q] = "none"
  BY <1>1 DEF ThreadsHold, Slot
<1>3. Reserving'
  BY <1>1, <1>2 DEF Reserving
<1>4. ASSUME NEW r \in Run, Adopts(r) PROVE ThreadsHold'
  <2>1. /\ r \in DOMAIN row /\ row[r].status \in Live /\ active' = r
        /\ watch' = [watch EXCEPT ![r] = "orphan"]
    BY <1>4 DEF Adopts
  <2>2. ThreadsOK'
    BY <1>1, <2>1 DEF ThreadsHold, ThreadsOK, WatchStep
  <2>3. ASSUME NEW q \in Run PROVE StartingAt(q)' /\ WatchingAt(q)'
    BY <1>1, <1>2, <2>1 DEF StartingAt, WatchingAt, StartBusy, WatchBusy
  <2>4. Slot'
    BY <1>1, <2>1 DEF Slot, OneLiveRun
  <2>. QED
    BY <1>3, <2>2, <2>3, <2>4 DEF ThreadsHold, Starting, Watching
<1>5. CASE Resumes
  <2>1. \A q \in DOMAIN row : row[q].status \notin Live
    BY <1>5 DEF Resumes, RowOf
  <2>2. UNCHANGED <<active, watch>>
    BY <1>5 DEF Resumes
  <2>3. ASSUME NEW q \in Run PROVE StartingAt(q)' /\ WatchingAt(q)'
    BY <1>1, <1>2, <2>2 DEF StartingAt, WatchingAt, StartBusy, WatchBusy
  <2>. QED
    BY <1>1, <1>3, <2>1, <2>2, <2>3
    DEF ThreadsHold, ThreadsOK, Slot, Starting, Watching
<1>. QED
  BY <1>4, <1>5, BootOne

LEMMA CrashKeeps ==
  ASSUME IInv, Crash
  PROVE  ThreadsHold'
<1>1. /\ up' = "down" /\ queue' = <<>> /\ active' = NoRun /\ adv' = NoAdv
      /\ start' = [r \in Run |-> "none"] /\ watch' = [r \in Run |-> "none"]
      /\ verdict' = [r \in Run |-> "none"] /\ ask' = [c \in Caller |-> NoAsk]
  BY DEF Crash
<1>2. ThreadsOK'
  BY <1>1 DEF ThreadsOK, StartStep, WatchStep
<1>3. Reserving' /\ Slot'
  BY <1>1 DEF Reserving, Slot
<1>4. ASSUME NEW q \in Run PROVE StartingAt(q)' /\ WatchingAt(q)'
  BY <1>1 DEF StartingAt, WatchingAt, StartBusy, WatchBusy
<1>. QED
  BY <1>2, <1>3, <1>4 DEF ThreadsHold, Starting, Watching

LEMMA ThreadsStep ==
  ASSUME IInv, [Next]_vars
  PROVE  ThreadsHold'
<1>1. CASE Threads
  <2>1. ASSUME NEW r \in Run, Starter(r) \/ Watcher(r) \/ WatcherDies(r)
        PROVE  ThreadsHold'
    BY <2>1, StarterWorks, WatcherWorks, WorksKeeps DEF ThreadsHold
  <2>. QED
    BY <1>1, <2>1, AppendsKeep, AdvanceKeeps, ReservedKeeps, BootKeeps, CrashKeeps DEF Threads
<1>2. CASE ~Threads
  <2>1. /\ UNCHANGED <<row, active, queue, start, watch, verdict, adv>>
        /\ (up' = "down") <=> (up = "down")
    BY <1>2, ThreadsUntouched
  <2>2. /\ TypeOK /\ ThreadsHold
        /\ \A q \in Run : StartingAt(q) /\ WatchingAt(q)
    BY TypeParts DEF IInv, Starting, Watching, ThreadsHold
  <2>3. ThreadsOK'
    BY <2>1, <2>2 DEF ThreadsHold, ThreadsOK
  <2>4. ASSUME NEW q \in Run PROVE StartingAt(q)' /\ WatchingAt(q)'
    <3>1. StartingAt(q) /\ WatchingAt(q)
      BY <2>2
    <3>. QED
      BY <2>1, <3>1 DEF StartingAt, WatchingAt
  <2>5. Reserving'
    <3>1. CASE adv = NoAdv
      BY <2>1, <3>1 DEF Reserving
    <3>2. CASE adv # NoAdv
      BY <2>1, <2>2, <3>2, StillWaits DEF ThreadsHold, Reserving
    <3>. QED
      BY <3>1, <3>2
  <2>6. Slot'
    <3>1. up' = "down" => UNCHANGED ask
      <4>1. ~Crash
        BY <1>2 DEF Threads
      <4>. QED
        BY <4>1, CallsOne DEF Moves
    <3>. QED
      BY <2>1, <2>2, <3>1 DEF ThreadsHold, Slot
  <2>. QED
    BY <2>3, <2>4, <2>5, <2>6 DEF ThreadsHold, Starting, Watching
<1>. QED
  BY <1>1, <1>2

LEMMA TypeStep ==
  ASSUME IInv, [Next]_vars
  PROVE  TypeOK'
<1>1. DecisionsOK' /\ RowsOK' /\ TreeOK' /\ MemoryOK' /\ ThreadsOK' /\ CallsOK'
  BY DecisionsStep, RowsStep, TreeStep, MemoryStep, ThreadsStep, CallsStep DEF ThreadsHold
<1>. QED
  BY <1>1 DEF TypeOK, DecisionsOK, RowsOK, TreeOK, MemoryOK, ThreadsOK, CallsOK

-----------------------------------------------------------------------------
(* Run ids, rows and the ledger                                            *)

LEMMA RowsOne ==
  ASSUME IInv, [Next]_vars
  PROVE  \/ UNCHANGED <<row, ended, ledger>>
         \/ Records /\ UNCHANGED ledger
         \/ \E c \in Caller : EnqueueNew(c) /\ UNCHANGED ended
<1>1. ASSUME NEW c \in Caller, EnqueueNew(c) PROVE UNCHANGED ended
  BY <1>1 DEF EnqueueNew
<1>2. Records => UNCHANGED ledger
  BY DEF Records, RecordStarting, Prepare, RecordRunning, RecordStartFailure, ExitZero,
         RecordResult, rows
<1>. QED
  BY <1>1, <1>2, Untouched DEF Appends

LEMMA RowsKeep ==
  ASSUME IInv, [Next]_vars
  PROVE  LedgerRows' /\ OneLiveRun' /\ ReplaySafe'
<1>1. /\ LedgerRows /\ OneLiveRun /\ ReplaySafe /\ Slot
      /\ ledger \in Seq(Run) /\ ended \in Seq(Run) /\ DOMAIN row \subseteq Run
      /\ DOMAIN ledger = 1 .. Len(ledger) /\ Len(ledger) \in Nat /\ NoRun \notin Run
      /\ \A i \in DOMAIN ledger : ledger[i] \in DOMAIN row
  BY Callers, LenProperties DEF IInv, TypeOK, LedgerRows
<1>2. CASE UNCHANGED <<row, ended, ledger>>
  <2>1. OneLiveRun' /\ ReplaySafe'
    BY <1>1, <1>2 DEF OneLiveRun, ReplaySafe
  <2>2. {ledger'[i] : i \in DOMAIN ledger'} = {ledger[i] : i \in DOMAIN ledger}
    BY <1>2
  <2>. QED
    BY <1>1, <1>2, <2>1, <2>2, Zenon DEF LedgerRows
<1>3. CASE Records /\ UNCHANGED ledger
  <2>1. PICK r \in Run :
           /\ r \in DOMAIN row /\ active = r /\ row[r].status \notin Terminal
           /\ RowChanged(r)
           /\ row'[r].status \in Live \cup Terminal
           /\ \/ UNCHANGED ended /\ row'[r].status \in Live
              \/ EndedChanged(r) /\ row'[r].status \in Terminal
    BY <1>3, RecordsOne
  <2>2. /\ DOMAIN row' = DOMAIN row
        /\ \A q \in DOMAIN row : /\ row'[q].finding = row[q].finding /\ row'[q].key = row[q].key
                                 /\ q # r => row'[q] = row[q]
    BY <2>1 DEF RowChanged
  <2>3. \A i \in DOMAIN ended : ended[i] \in DOMAIN row /\ row[ended[i]].status \in Terminal
    BY <1>1 DEF LedgerRows
  <2>4. LedgerRows'
    <3>1. {ledger'[i] : i \in DOMAIN ledger'} = {ledger[i] : i \in DOMAIN ledger}
      BY <1>3
    <3>2. DOMAIN row' = {ledger[i] : i \in DOMAIN ledger}
      BY <1>1, <2>2 DEF LedgerRows
    <3>3. \A i \in DOMAIN ended' : ended'[i] \in DOMAIN row' /\ row'[ended'[i]].status \in Terminal
      BY <1>1, <2>1, <2>2, <2>3 DEF EndedChanged
    <3>. QED
      BY <3>1, <3>2, <3>3, Zenon DEF LedgerRows
  <2>5. OneLiveRun'
    <3>1. \A q \in DOMAIN row : q # r => row'[q].status \notin Live
      BY <1>1, <2>1, <2>2 DEF Slot
    <3>. QED
      BY <2>2, <3>1 DEF OneLiveRun
  <2>6. ReplaySafe'
    BY <1>1, <1>3, <2>2 DEF ReplaySafe
  <2>. QED
    BY <2>4, <2>5, <2>6
<1>4. ASSUME NEW c \in Caller, EnqueueNew(c), UNCHANGED ended
      PROVE  LedgerRows' /\ OneLiveRun' /\ ReplaySafe'
  <2>. DEFINE r == ask[c].run
  <2>1. /\ r \in Run /\ r \notin DOMAIN row
        /\ DOMAIN row' = DOMAIN row \cup {r}
        /\ \A q \in DOMAIN row : row'[q] = row[q]
        /\ row'[r].status = "queued" /\ row'[r].finding = ask[c].finding
        /\ row'[r].key = ask[c].key
        /\ ledger' \in Seq(Run) /\ Len(ledger') = Len(ledger) + 1
        /\ \A i \in 1 .. Len(ledger) : ledger'[i] = ledger[i]
        /\ ledger'[Len(ledger) + 1] = r
    BY <1>4, AppendsOne
  <2>2. \A q \in DOMAIN row : ~(row[q].finding = ask[c].finding /\ row[q].key = ask[c].key)
    BY <1>4 DEF EnqueueNew, SameDecision
  <2>. HIDE DEF r
  <2>3. DOMAIN ledger' = 1 .. Len(ledger) + 1
    BY <2>1, LenProperties
  <2>4. ASSUME NEW i \in DOMAIN ledger'
        PROVE  \/ i \in DOMAIN ledger /\ ledger'[i] = ledger[i]
               \/ i = Len(ledger) + 1 /\ ledger'[i] = r
    BY <1>1, <2>1, <2>3
  <2>5. LedgerRows'
    <3>1. DOMAIN row' = {ledger'[i] : i \in DOMAIN ledger'}
      <4>1. ASSUME NEW q \in DOMAIN row' PROVE \E i \in DOMAIN ledger' : q = ledger'[i]
        <5>1. CASE q = r
          BY <1>1, <2>1, <2>3, <5>1
        <5>2. CASE q # r
          <6>1. PICK i \in DOMAIN ledger : q = ledger[i]
            BY <1>1, <2>1, <4>1, <5>2 DEF LedgerRows
          <6>2. i \in DOMAIN ledger'
            BY <1>1, <2>3
          <6>. QED
            BY <1>1, <2>1, <6>1, <6>2
        <5>. QED
          BY <5>1, <5>2
      <4>2. \A i \in DOMAIN ledger' : ledger'[i] \in DOMAIN row'
        BY <1>1, <2>1, <2>4
      <4>. QED
        BY <4>1, <4>2
    <3>2. \A i \in DOMAIN ended : ended[i] \in DOMAIN row' /\ row'[ended[i]].status \in Terminal
      BY <1>1, <2>1 DEF LedgerRows
    <3>. QED
      BY <1>4, <3>1, <3>2 DEF LedgerRows
  <2>6. OneLiveRun'
    BY <1>1, <2>1, StatusSets DEF OneLiveRun
  <2>7. ReplaySafe'
    <3>1. ASSUME NEW i \in DOMAIN ledger', NEW j \in DOMAIN ledger',
                 row'[ledger'[i]].finding = row'[ledger'[j]].finding,
                 row'[ledger'[i]].key = row'[ledger'[j]].key
          PROVE  i = j
      <4>1. CASE i \in DOMAIN ledger /\ ledger'[i] = ledger[i] /\ j \in DOMAIN ledger /\ ledger'[j] = ledger[j]
        BY <1>1, <2>1, <3>1, <4>1 DEF ReplaySafe
      <4>2. CASE ledger'[i] = r /\ j \in DOMAIN ledger /\ ledger'[j] = ledger[j]
        BY <1>1, <2>1, <2>2, <3>1, <4>2
      <4>3. CASE ledger'[j] = r /\ i \in DOMAIN ledger /\ ledger'[i] = ledger[i]
        BY <1>1, <2>1, <2>2, <3>1, <4>3
      <4>. QED
        BY <2>4, <4>1, <4>2, <4>3
    <3>. QED
      BY <3>1 DEF ReplaySafe
  <2>. QED
    BY <2>5, <2>6, <2>7
<1>. QED
  BY <1>2, <1>3, <1>4, RowsOne

\* A name is new only when a decision is made.
LEMMA NamedStep ==
  ASSUME IInv, [Next]_vars, NEW r \in Run \cup {NoRun}, NEW f \in Finding, NEW k \in Key,
         Named(r, f, k)'
  PROVE  Named(r, f, k) \/ (r = made + 1 /\ \E q \in Request : Approve(q, f, k))
<1>1. TypeOK
  BY DEF IInv
<1>2. CASE r \in DOMAIN row' /\ row'[r].finding = f /\ row'[r].key = k
  <2>1. CASE UNCHANGED row
    BY <1>2, <2>1 DEF Named
  <2>2. CASE Records
    <3>1. PICK q \in Run : RowChanged(q)
      BY <2>2, RecordsOne
    <3>. QED
      BY <1>2, <3>1 DEF Named, RowChanged
  <2>3. ASSUME NEW c \in Caller, EnqueueNew(c) PROVE Named(r, f, k)
    <3>. DEFINE n == ask[c].run
    <3>1. /\ n \notin DOMAIN row
          /\ DOMAIN row' = DOMAIN row \cup {n}
          /\ \A q \in DOMAIN row : row'[q] = row[q]
          /\ row'[n].finding = ask[c].finding /\ row'[n].key = ask[c].key
          /\ ask[c].at = "enqueue"
      BY <2>3, AppendsOne DEF EnqueueNew
    <3>. QED
      BY <1>2, <3>1 DEF Named
  <2>. QED
    BY <2>1, <2>2, <2>3, RowsOne
<1>3. ASSUME NEW c \in Caller, ask'[c].at = "enqueue", ask'[c].run = r,
             ask'[c].finding = f, ask'[c].key = k
      PROVE  Named(r, f, k) \/ (r = made + 1 /\ \E q \in Request : Approve(q, f, k))
  <2>1. CASE ask'[c] = ask[c]
    BY <1>3, <2>1 DEF Named
  <2>2. CASE Crash
    BY <1>3, <2>2 DEF Crash, NoAsk
  <2>3. ASSUME NEW d \in Caller, Moves(d), ask'[d].at # "enqueue" PROVE ask'[c] = ask[c]
    BY <1>3, <2>3 DEF Moves
  <2>4. ASSUME NEW d \in Caller, NEW g \in Finding, NEW l \in Key, NEW n \in Run,
               Moves(d), CallEnqueue(d, g, l, n),
               Named(n, g, l) \/ (n = made + 1 /\ d \in Request /\ Approve(d, g, l))
        PROVE  \/ ask'[c] = ask[c]
               \/ Named(r, f, k) \/ (r = made + 1 /\ \E q \in Request : Approve(q, f, k))
    <3>1. CASE c # d
      BY <2>4, <3>1 DEF Moves
    <3>2. CASE c = d
      <4>1. n = r /\ g = f /\ l = k
        BY <1>1, <1>3, <2>4, <3>2, CallType
      <4>. QED
        BY <2>4, <4>1
    <3>. QED
      BY <3>1, <3>2
  <2>. QED
    BY <2>1, <2>2, <2>3, <2>4, CallsOne
<1>4. ASSUME f \in DOMAIN accepted', accepted'[f].state = "reserved",
             accepted'[f].run = r, accepted'[f].key = k
      PROVE  Named(r, f, k) \/ (r = made + 1 /\ \E q \in Request : Approve(q, f, k))
  <2>1. CASE UNCHANGED accepted
    BY <1>4, <2>1 DEF Named
  <2>2. ASSUME NEW q \in Request, NEW g \in Finding, NEW l \in Key, Approve(q, g, l)
        PROVE  Named(r, f, k) \/ (r = made + 1 /\ \E p \in Request : Approve(p, f, k))
    <3>1. accepted' = Put(accepted, g, [key |-> l, run |-> made + 1, state |-> "reserved"])
      BY <2>2 DEF Approve
    <3>2. CASE f = g
      <4>1. accepted'[f] = [key |-> l, run |-> made + 1, state |-> "reserved"]
        BY <3>1, <3>2 DEF Put
      <4>2. r = made + 1 /\ k = l
        BY <1>4, <4>1
      <4>. QED
        BY <2>2, <3>2, <4>2
    <3>3. CASE f # g
      <4>1. f \in DOMAIN accepted /\ accepted'[f] = accepted[f]
        BY <1>4, <3>1, <3>3 DEF Put
      <4>. QED
        BY <1>4, <4>1 DEF Named
    <3>. QED
      BY <3>2, <3>3
  <2>3. ASSUME NEW g \in Finding, NEW l \in Key,
               accepted' = Put(accepted, g, [key |-> l, run |-> NoRun, state |-> "approved"])
        PROVE  Named(r, f, k)
    <3>1. f # g
      <4>1. [key |-> l, run |-> NoRun, state |-> "approved"].state # "reserved"
        OBVIOUS
      <4>2. accepted'[g] = [key |-> l, run |-> NoRun, state |-> "approved"]
        BY <2>3 DEF Put
      <4>. QED
        BY <1>4, <4>1, <4>2
    <3>2. f \in DOMAIN accepted /\ accepted'[f] = accepted[f]
      BY <1>4, <2>3, <3>1 DEF Put
    <3>. QED
      BY <1>4, <3>2 DEF Named
  <2>4. ASSUME NEW g, NEW n \in Run \cup {NoRun}, NEW s \in {"dispatched", "lost"},
               Annotate(g, n, s)
        PROVE  Named(r, f, k)
    <3>1. /\ DOMAIN accepted' = DOMAIN accepted
          /\ \A h \in DOMAIN accepted :
               /\ h # g => accepted'[h] = accepted[h]
               /\ h = g => accepted'[h].state = s
      BY <1>1, <2>4, AnnotateType DEF DecisionState
    <3>2. f \in DOMAIN accepted /\ accepted'[f] = accepted[f]
      BY <1>4, <2>4, <3>1
    <3>. QED
      BY <1>4, <3>2 DEF Named
  <2>. QED
    BY <2>1, <2>2, <2>3, <2>4, DecidesOne, Untouched DEF decisions
<1>. QED
  BY <1>2, <1>3, <1>4 DEF Named

LEMMA IdentityStep ==
  ASSUME IInv, [Next]_vars
  PROVE  Identity'
<1>1. TypeOK /\ Identity /\ made \in Nat
  BY BoundAssumption DEF IInv, TypeOK
<1>2. \/ UNCHANGED made
      \/ made' = made + 1 /\ \E q \in Request, f \in Finding, k \in Key : Approve(q, f, k)
  BY DecidesOne, Untouched DEF decisions, Approve
<1>3. ASSUME NEW r \in Run \cup {NoRun}, NEW f \in Finding, NEW k \in Key, Named(r, f, k)'
      PROVE  r \in 1 .. made'
  <2>1. CASE Named(r, f, k)
    BY <1>1, <1>2, <2>1 DEF Identity
  <2>2. ASSUME r = made + 1, NEW q \in Request, Approve(q, f, k) PROVE r \in 1 .. made'
    BY <1>1, <2>2 DEF Approve
  <2>. QED
    BY <1>3, <2>1, <2>2, NamedStep
<1>4. ASSUME NEW r \in Run \cup {NoRun}, NEW f \in Finding, NEW k \in Key, Named(r, f, k)',
             NEW g \in Finding, NEW l \in Key, Named(r, g, l)'
      PROVE  f = g /\ k = l
  <2>1. CASE Named(r, f, k) /\ Named(r, g, l)
    BY <1>1, <2>1 DEF Identity
  <2>2. CASE r = made + 1
    <3>1. ~Named(r, f, k) /\ ~Named(r, g, l)
      BY <1>1, <2>2 DEF Identity
    <3>2. PICK p \in Request : Approve(p, f, k)
      BY <1>4, <3>1, NamedStep
    <3>3. PICK q \in Request : Approve(q, g, l)
      BY <1>4, <3>1, NamedStep
    <3>4. p \in Caller /\ q \in Caller /\ made + 1 \in Run
      BY <1>1, <3>2, Callers, BoundAssumption DEF Approve, Run, TypeOK
    <3>5. /\ ask'[p].at = "enqueue" /\ ask'[p].finding = f /\ ask'[p].key = k
          /\ \A d \in Caller : d # p => ask'[d] = ask[d]
      BY <1>1, <3>2, <3>4, CallType DEF Approve
    <3>6. /\ ask'[q].at = "enqueue" /\ ask'[q].finding = g /\ ask'[q].key = l
      BY <1>1, <3>3, <3>4, CallType DEF Approve
    <3>7. ask[q].at # "enqueue"
      BY <3>3 DEF Approve, NoAsk
    <3>8. p = q
      BY <3>4, <3>5, <3>6, <3>7
    <3>. QED
      BY <3>5, <3>6, <3>8
  <2>. QED
    BY <1>4, <2>1, <2>2, NamedStep
<1>. QED
  BY <1>3, <1>4 DEF Identity

-----------------------------------------------------------------------------
(* The queue                                                               *)

LEMMA AdvStep ==
  ASSUME IInv, [Next]_vars
  PROVE  \/ adv' = NoAdv
         \/ adv # NoAdv /\ adv'.run = adv.run
         \/ \E c \in Caller \cup Run : Reserve(c)
<1>1. adv \in {NoAdv} \cup Adv
  BY DEF IInv, TypeOK
<1>2. ASSUME NEW r \in Run, Starter(r) \/ Watcher(r) \/ WatcherDies(r) PROVE UNCHANGED adv
  BY <1>2, StarterWorks, WatcherWorks DEF Works
<1>3. ASSUME NEW c \in Caller \cup Run, Advance(c) PROVE Reserve(c) \/ UNCHANGED adv
  BY <1>3, AdvanceEnds
<1>4. CASE RecordStarting
  <2>1. adv.at = "starting" /\ adv' = [adv EXCEPT !.at = "annotate"]
    BY <1>4 DEF RecordStarting
  <2>2. adv # NoAdv
    BY <2>1 DEF NoAdv
  <2>. QED
    BY <1>1, <2>1, <2>2 DEF Adv
<1>5. CASE SpawnStarter \/ Crash
  BY <1>5 DEF SpawnStarter, Crash
<1>6. CASE Boot \/ \E c \in Caller : EnqueueNew(c)
  BY <1>6 DEF Boot, EnqueueNew
<1>. QED
  BY <1>2, <1>3, <1>4, <1>5, <1>6, ThreadsUntouched DEF Threads, Reserved

\* Only a new run and a restart put an item that waits into the queue.
LEMMA QueueStep ==
  ASSUME IInv, [Next]_vars, NEW j \in DOMAIN queue', queue'[j].status = "queued"
  PROVE  \/ /\ \E i \in DOMAIN queue : queue[i].run = queue'[j].run /\ queue[i].status = "queued"
            /\ \A c \in Caller \cup Run : Reserve(c) => queue'[j].run # queue[FirstQueued].run
         \/ \E c \in Caller : EnqueueNew(c) /\ queue'[j].run = ask[c].run
         \/ Boot
<1>1. /\ TypeOK /\ queue \in Seq(Item) /\ Len(queue) \in Nat /\ DOMAIN queue = 1 .. Len(queue)
  BY LenProperties DEF IInv, TypeOK
<1>. DEFINE KeptItem ==
              \E i \in DOMAIN queue : queue[i].run = queue'[j].run /\ queue[i].status = "queued"
            NotReserved ==
              \A c \in Caller \cup Run : Reserve(c) => queue'[j].run # queue[FirstQueued].run
<1>2. ASSUME NEW r \in Run, NEW s \in Status, s # "queued", queue' = Marked(r, s)
      PROVE  KeptItem /\ queue'[j].run # r
  <2>1. /\ DOMAIN queue' = DOMAIN queue
        /\ queue'[j].run = queue[j].run
        /\ queue'[j].status = IF queue[j].run = r THEN s ELSE queue[j].status
    BY <1>1, <1>2, MarkedIs
  <2>. QED
    BY <1>2, <2>1
<1>3. ASSUME NEW c \in Caller, EnqueueNew(c)
      PROVE  KeptItem \/ queue'[j].run = ask[c].run
  <2>. DEFINE item == [run |-> ask[c].run, status |-> "queued"]
  <2>1. PICK n : PlacedAt(n, item)
    BY <1>3, AppendsOne
  <2>2. /\ n \in Nat /\ j \in 1 .. Len(queue') /\ Len(queue') = Len(queue) + 1
        /\ queue'[n] = item
        /\ \A i \in 1 .. n - 1 : i \in DOMAIN queue /\ queue'[i] = queue[i]
        /\ \A i \in n + 1 .. Len(queue') : i - 1 \in DOMAIN queue /\ queue'[i] = queue[i - 1]
    BY <1>1, <2>1, LenProperties DEF PlacedAt
  <2>3. CASE j = n
    <3>1. item.run = ask[c].run
      OBVIOUS
    <3>. QED
      BY <2>2, <2>3, <3>1
  <2>4. CASE j < n
    <3>1. j \in 1 .. n - 1
      BY <1>1, <2>2, <2>4
    <3>. QED
      BY <2>2, <3>1
  <2>5. CASE j > n
    <3>1. j \in n + 1 .. Len(queue')
      BY <1>1, <2>2, <2>5
    <3>. QED
      BY <2>2, <3>1
  <2>. QED
    BY <1>1, <2>2, <2>3, <2>4, <2>5
<1>4. ASSUME NEW c \in Caller \cup Run, Reserve(c)
      PROVE  KeptItem /\ queue'[j].run # queue[FirstQueued].run
  <2>1. queue' = Marked(queue[FirstQueued].run, "starting")
    BY <1>4 DEF Reserve
  <2>2. queue[FirstQueued].run \in Run
    BY <1>1, <1>4, ReserveIs DEF TypeOK
  <2>3. "starting" \in Status /\ "starting" # "queued"
    BY DEF Status, Live
  <2>. QED
    BY <1>2, <2>1, <2>2, <2>3
<1>5. ASSUME NEW r \in Run, RecordRunning(r) \/ ReleaseStartFailure(r) \/ ReleaseResult(r)
      PROVE  KeptItem /\ NotReserved
  <2>1. \E s \in Status : s # "queued" /\ queue' = Marked(r, s)
    <3>1. CASE RecordRunning(r)
      BY <3>1 DEF RecordRunning, Status, Live
    <3>2. CASE ReleaseStartFailure(r)
      BY <3>2 DEF ReleaseStartFailure, Release, Status, Terminal
    <3>3. CASE ReleaseResult(r)
      <4>1. verdict[r] \in Terminal /\ queue' = Marked(r, verdict[r])
        BY <3>3 DEF ReleaseResult, Release, IInv, Watching, WatchingAt
      <4>. QED
        BY <4>1, StatusSets
    <3>. QED
      BY <1>5, <3>1, <3>2, <3>3
  <2>2. KeptItem
    BY <1>2, <2>1
  <2>3. NotReserved
    <3>1. Busy(r) /\ r \in Run
      BY <1>5 DEF Busy, RecordRunning, ReleaseStartFailure, ReleaseResult, StartBusy, WatchBusy
    <3>. QED
      BY <3>1, ReserveIs
  <2>. QED
    BY <2>2, <2>3
<1>6. CASE UNCHANGED queue
  <2>1. KeptItem
    BY <1>6
  <2>2. NotReserved
    BY <1>4
  <2>. QED
    BY <2>1, <2>2
<1>7. CASE Crash
  BY <1>7 DEF Crash
<1>8. CASE Serve
  BY <1>6, <1>8 DEF Serve, memory
<1>9. ASSUME NEW c \in Caller, EnqueueNew(c), KeptItem PROVE NotReserved
  <2>1. ask[c].at = "enqueue" /\ UNCHANGED active
    BY <1>9 DEF EnqueueNew
  <2>2. ASSUME NEW d \in Caller \cup Run, Reserve(d) PROVE FALSE
    <3>1. active' \in DOMAIN row /\ active = NoRun
      BY <2>2, ReserveIs DEF Reserve, CanReserve
    <3>. QED
      BY <1>1, <2>1, <3>1, Callers DEF TypeOK
  <2>. QED
    BY <2>2
<1>. HIDE DEF KeptItem, NotReserved
<1>10. \/ KeptItem /\ NotReserved
       \/ \E c \in Caller : EnqueueNew(c) /\ queue'[j].run = ask[c].run
       \/ Boot
  <2>1. ASSUME NEW c \in Caller \cup Run, Reserve(c) PROVE KeptItem /\ NotReserved
    BY <1>4, <2>1 DEF NotReserved
  <2>. QED
    BY <1>3, <1>5, <1>6, <1>7, <1>8, <1>9, <2>1, SlotsUntouched
    DEF Slots, Appends, KeptItem, NotReserved
<1>. QED
  BY <1>10 DEF KeptItem, NotReserved

LEMMA WaitingStep ==
  ASSUME IInv, [Next]_vars
  PROVE  Waiting'
<1>1. TypeOK /\ Waiting /\ Slot /\ Reserving /\ DOMAIN row \subseteq Run
  BY DEF IInv, TypeOK
<1>2. SUFFICES ASSUME NEW j \in DOMAIN queue', queue'[j].status = "queued"
               PROVE  /\ queue'[j].run \in DOMAIN row' /\ row'[queue'[j].run].status = "queued"
                      /\ adv' # NoAdv => adv'.run # queue'[j].run
  BY DEF Waiting
<1>. DEFINE r == queue'[j].run
<1>3. CASE Boot
  <2>1. /\ r \in DOMAIN row /\ row[r].status = "queued"
    BY <1>2, <1>3, BootOne
  <2>2. UNCHANGED row /\ adv' = NoAdv
    BY <1>1, <1>3 DEF Boot, rows, Slot
  <2>. QED
    BY <2>1, <2>2
<1>4. ASSUME NEW c \in Caller, EnqueueNew(c), r = ask[c].run
      PROVE  /\ r \in DOMAIN row' /\ row'[r].status = "queued"
             /\ adv' # NoAdv => adv'.run # r
  <2>1. /\ r \notin DOMAIN row /\ DOMAIN row' = DOMAIN row \cup {r} /\ row'[r].status = "queued"
    BY <1>4, AppendsOne
  <2>2. UNCHANGED adv
    BY <1>4 DEF EnqueueNew
  <2>. QED
    BY <1>1, <2>1, <2>2 DEF Reserving
<1>5. ASSUME NEW i \in DOMAIN queue, queue[i].run = r, queue[i].status = "queued",
             \A c \in Caller \cup Run : Reserve(c) => r # queue[FirstQueued].run
      PROVE  /\ r \in DOMAIN row' /\ row'[r].status = "queued"
             /\ adv' # NoAdv => adv'.run # r
  <2>1. /\ r \in DOMAIN row /\ row[r].status = "queued"
        /\ adv # NoAdv => adv.run # r
    BY <1>1, <1>5 DEF Waiting
  <2>. HIDE DEF r
  <2>2. r \in DOMAIN row' /\ row'[r] = row[r]
    <3>1. CASE UNCHANGED row
      BY <2>1, <3>1
    <3>2. CASE Records
      <4>1. PICK q \in Run : /\ q \in DOMAIN row /\ RowChanged(q)
                             /\ row[q].status = "queued" => adv.at = "starting" /\ adv.run = q
        BY <3>2, RecordsOne
      <4>2. q # r
        BY <2>1, <4>1 DEF NoAdv
      <4>. QED
        BY <2>1, <4>1, <4>2 DEF RowChanged
    <3>3. ASSUME NEW c \in Caller, EnqueueNew(c) PROVE r \in DOMAIN row' /\ row'[r] = row[r]
      BY <2>1, <3>3, AppendsOne
    <3>. QED
      BY <3>1, <3>2, <3>3, RowsOne
  <2>3. adv' # NoAdv => adv'.run # r
    <3>1. ASSUME NEW c \in Caller \cup Run, Reserve(c) PROVE adv'.run # r
      BY <1>5, <3>1, ReserveIs
    <3>. QED
      BY <2>1, <3>1, AdvStep
  <2>. QED
    BY <2>1, <2>2, <2>3
<1>. QED
  BY <1>2, <1>3, <1>4, <1>5, QueueStep

-----------------------------------------------------------------------------
(* Results and workers                                                     *)

\* What the processes and the project's branch undergo.
Outside ==
  \/ \E r \in Run : Launch(r) \/ WorkerExits(r) \/ WorkerTimesOut(r) \/ Integrate(r)
  \/ Crash

LEMMA OutsideUntouched ==
  ASSUME [Next]_vars
  PROVE  Outside \/ UNCHANGED <<merged, worker, crashes>>
<1>. USE DEF decisions, rows, tree, memory, watcher, call, bounds
<1>1. CASE UNCHANGED vars
  BY <1>1 DEF vars
<1>2. ASSUME NEW q \in Request, NEW f \in Finding, NEW k \in Key,
             Approve(q, f, k) \/ ApproveOnly(q, f, k)
      PROVE  UNCHANGED <<merged, worker, crashes>>
  BY <1>2 DEF Approve, ApproveOnly
<1>3. ASSUME NEW q \in Request, NEW f \in Finding, Replay(q, f) \/ ReplayRefused(q, f)
      PROVE  UNCHANGED <<merged, worker, crashes>>
  BY <1>3 DEF Replay, ReplayRefused, RefuseReservation
<1>4. ASSUME NEW f \in Finding, BootReplay(f) \/ BootRefused(f)
      PROVE  UNCHANGED <<merged, worker, crashes>>
  BY <1>4 DEF RefuseReservation, BootReplay, BootRefused
<1>5. CASE \/ HumanCommit
           \/ \E q \in Request : AnnotateApproval(q)
           \/ \E c \in Caller : Enqueue(c)
           \/ \E c \in Caller \cup Run : Advance(c)
           \/ Reserved \/ Boot \/ Serve
  BY <1>5 DEF HumanCommit, AnnotateApproval, Enqueue, EnqueueDuplicate, EnqueueNew, Advance,
     Reserve, NothingToReserve, Reserved, RecordStarting, SpawnStarter, Boot, Serve
<1>6. ASSUME NEW r \in Run, Starter(r) PROVE Launch(r) \/ UNCHANGED <<merged, worker, crashes>>
  BY <1>6 DEF Starter, Prepare, RecordRunning, StartFails, RecordStartFailure,
              ReleaseStartFailure, AnnotateStartFailure
<1>7. ASSUME NEW r \in Run, Watcher(r) \/ WatcherDies(r)
      PROVE  WorkerTimesOut(r) \/ Integrate(r) \/ UNCHANGED <<merged, worker, crashes>>
  BY <1>7 DEF Watcher, ExitZero, ExitNonZero, OrphanGone, OrphanTimesOut,
              Finalize, FinalizeRefused, Verify, IntegrateRefused,
              CheckIntegrated, RecordResult, ReleaseResult, AnnotateResult, WatcherDies
<1>. QED
  BY <1>1, <1>2, <1>3, <1>4, <1>5, <1>6, <1>7 DEF Next, Human, Starts, Outside

LEMMA MergedGrows ==
  ASSUME [Next]_vars
  PROVE  merged \subseteq merged'
BY OutsideUntouched DEF Outside, Launch, WorkerExits, WorkerTimesOut, Integrate, Crash, tree

LEMMA PraisedStep ==
  ASSUME IInv, [Next]_vars, NEW r \in Run, Praised(r)'
  PROVE  Praised(r) \/ r \in merged'
<1>1. /\ watch \in [Run -> WatchStep] /\ verdict \in [Run -> Terminal \cup {"none"}]
      /\ Watching /\ Slot
  BY DEF IInv, TypeOK
<1>2. CASE UNCHANGED <<watch, verdict>>
  BY <1>2 DEF Praised
<1>3. ASSUME NEW q \in Run, Starter(q) PROVE Praised(r)
  <2>1. UNCHANGED verdict /\ (UNCHANGED watch \/ watch' = [watch EXCEPT ![q] = "wait"])
    BY <1>3 DEF Starter, Prepare, Launch, RecordRunning, StartFails, RecordStartFailure,
                ReleaseStartFailure, AnnotateStartFailure, watcher
  <2>. QED
    BY <1>1, <2>1 DEF Praised
<1>4. ASSUME NEW q \in Run, Watcher(q) \/ WatcherDies(q) PROVE Praised(r) \/ r \in merged'
  <2>1. CASE r # q
    BY <1>4, <2>1, WatcherWorks DEF Works, Praised
  <2>2. CASE r = q /\ Integrate(q)
    BY <2>2 DEF Integrate
  <2>3. CASE r = q /\ CheckIntegrated(q)
    BY <2>3 DEF CheckIntegrated, Praised
  <2>4. CASE r = q /\ (ExitNonZero(q) \/ WorkerTimesOut(q) \/ OrphanTimesOut(q) \/ IntegrateRefused(q))
    BY <1>1, <2>4 DEF ExitNonZero, WorkerTimesOut, OrphanTimesOut, IntegrateRefused, Decide, Praised
  <2>5. CASE r = q /\ (Finalize(q) \/ FinalizeRefused(q) \/ Verify(q))
    BY <1>1, <2>5 DEF Finalize, FinalizeRefused, Verify, Decide, Step, Praised
  <2>6. CASE r = q /\ (ExitZero(q) \/ OrphanGone(q) \/ RecordResult(q) \/ ReleaseResult(q) \/ WatcherDies(q))
    BY <1>1, <2>6 DEF ExitZero, OrphanGone, RecordResult, ReleaseResult, WatcherDies, Step, Praised
  <2>7. CASE r = q /\ AnnotateResult(q)
    BY <1>1, <2>7 DEF AnnotateResult, Praised
  <2>. QED
    BY <1>4, <2>1, <2>2, <2>3, <2>4, <2>5, <2>6, <2>7 DEF Watcher
<1>5. ASSUME NEW c \in Caller \cup Run, Advance(c) PROVE Praised(r)
  BY <1>5, AdvanceEnds DEF Praised
<1>6. CASE Reserved \/ \E c \in Caller : EnqueueNew(c)
  BY <1>2, <1>6 DEF Reserved, RecordStarting, SpawnStarter, EnqueueNew, watcher
<1>7. CASE Boot
  <2>1. UNCHANGED verdict /\ (watch'[r] = watch[r] \/ watch'[r] = "orphan")
    BY <1>1, <1>7, BootOne DEF Boot, Adopts, Resumes
  <2>. QED
    BY <2>1 DEF Praised
<1>8. CASE Crash
  BY <1>8 DEF Crash, Praised
<1>. QED
  BY <1>2, <1>3, <1>4, <1>5, <1>6, <1>7, <1>8, ThreadsUntouched DEF Threads

LEMMA IntegratedStep ==
  ASSUME IInv, [Next]_vars
  PROVE  Integrated'
<1>1. Integrated /\ CompletedIsIntegrated /\ merged \subseteq merged' /\ \A r \in Run : Praised(r) => r \in merged
  BY MergedGrows DEF IInv, Integrated, Praised
<1>2. \A r \in Run : Praised(r)' => r \in merged'
  BY <1>1, PraisedStep
<1>3. CompletedIsIntegrated'
  <2>1. CASE UNCHANGED row
    BY <1>1, <2>1 DEF CompletedIsIntegrated
  <2>2. CASE Records
    <3>1. PICK r \in Run : RowChanged(r) /\ (row'[r].status = "completed" => r \in merged)
      BY <2>2, RecordsOne
    <3>. QED
      BY <1>1, <3>1 DEF CompletedIsIntegrated, RowChanged
  <2>3. ASSUME NEW c \in Caller, EnqueueNew(c) PROVE CompletedIsIntegrated'
    <3>. DEFINE r == ask[c].run
    <3>1. /\ DOMAIN row' = DOMAIN row \cup {r} /\ row'[r].status = "queued"
          /\ \A q \in DOMAIN row : row'[q] = row[q]
      BY <2>3, AppendsOne
    <3>. QED
      BY <1>1, <3>1 DEF CompletedIsIntegrated
  <2>. QED
    BY <2>1, <2>2, <2>3, RowsOne
<1>. QED
  BY <1>2, <1>3 DEF Integrated, Praised

LEMMA WorkersStep ==
  ASSUME IInv, [Next]_vars
  PROVE  Workers'
<1>. USE DEF rows, tree, memory, watcher, call, bounds
<1>1. /\ Workers /\ Slot /\ TypeOK /\ Reserving /\ crashes \in Nat
      /\ start \in [Run -> StartStep] /\ watch \in [Run -> WatchStep]
      /\ worker \in [Run -> {"none", "alive", "gone"}]
      /\ \A r \in Run : StartingAt(r) /\ WatchingAt(r)
  BY BoundAssumption DEF IInv, TypeOK, Starting, Watching
<1>2. SUFFICES ASSUME crashes' = 0, NEW r \in Run, worker'[r] = "alive" PROVE Attended(r)'
  BY DEF Workers, Attended
<1>3. crashes = 0 /\ ~Crash
  <2>1. ~Crash
    BY <1>1, <1>2 DEF Crash
  <2>2. ASSUME NEW q \in Run, Launch(q) \/ WorkerExits(q) \/ WorkerTimesOut(q) \/ Integrate(q)
        PROVE  UNCHANGED crashes
    BY <2>2 DEF Launch, WorkerExits, WorkerTimesOut, Integrate
  <2>. QED
    BY <1>2, <2>1, <2>2, OutsideUntouched DEF Outside
<1>4. CASE Launch(r)
  <2>1. start[r] = "launch" /\ start' = [start EXCEPT ![r] = "record"] /\ UNCHANGED active
    BY <1>4 DEF Launch
  <2>. QED
    BY <1>1, <2>1 DEF Attended, StartingAt, StartBusy
<1>5. CASE ~Launch(r)
  <2>1. worker[r] = "alive" /\ ~WorkerTimesOut(r)
    <3>1. ASSUME NEW q \in Run, Launch(q) PROVE worker[r] = "alive"
      <4>1. q # r /\ worker' = [worker EXCEPT ![q] = "alive"]
        BY <1>5, <3>1 DEF Launch
      <4>. QED
        BY <1>1, <1>2, <4>1
    <3>2. ASSUME NEW q \in Run, WorkerExits(q) \/ WorkerTimesOut(q)
          PROVE  worker[r] = "alive" /\ q # r
      <4>1. worker' = [worker EXCEPT ![q] = "gone"]
        BY <3>2 DEF WorkerExits, WorkerTimesOut
      <4>. QED
        BY <1>1, <1>2, <4>1
    <3>3. ASSUME NEW q \in Run, Integrate(q) PROVE UNCHANGED worker
      BY <3>3 DEF Integrate
    <3>. QED
      BY <1>2, <1>3, <3>1, <3>2, <3>3, OutsideUntouched DEF Outside
  <2>2. Attended(r) /\ worker[r] # "gone"
    BY <1>1, <1>3, <2>1 DEF Workers, Attended
  <2>3. Busy(r) /\ active = r /\ adv = NoAdv /\ up # "down"
    <3>1. Busy(r)
      BY <2>2 DEF Attended, Busy, StartBusy, WatchBusy
    <3>2. up # "down"
      BY <1>1, <2>2 DEF Attended, Slot
    <3>. QED
      BY <3>1, <3>2, BusyIsActive
  <2>4. CASE UNCHANGED <<active, start, watch>>
    BY <2>2, <2>4 DEF Attended
  <2>5. ASSUME NEW q \in Run, q # r, Starter(q) \/ Watcher(q) \/ WatcherDies(q)
        PROVE  Attended(r)'
    <3>1. start'[r] = start[r] /\ watch'[r] = watch[r]
      BY <2>5, StarterWorks, WatcherWorks DEF Works
    <3>2. ~Busy(q)
      BY <2>3, <2>5, BusyIsActive
    <3>3. UNCHANGED active
      BY <2>5, <3>2, StarterWorks, WatcherWorks DEF Works
    <3>. QED
      BY <2>2, <3>1, <3>3 DEF Attended
  <2>6. CASE start[r] = "record" /\ Starter(r)
    <3>1. RecordRunning(r)
      BY <2>6 DEF Starter, Prepare, Launch, StartFails, RecordStartFailure,
                  ReleaseStartFailure, AnnotateStartFailure
    <3>. QED
      BY <1>1, <2>3, <3>1 DEF RecordRunning, Attended
  <2>7. CASE watch[r] = "wait" /\ Starter(r)
    <3>1. start[r] \notin StartBusy
      BY <1>1, <2>7 DEF StartingAt, WatchBusy
    <3>2. AnnotateStartFailure(r)
      BY <2>7, <3>1 DEF Starter, Prepare, Launch, RecordRunning, StartFails,
                  RecordStartFailure, ReleaseStartFailure, StartBusy
    <3>. QED
      BY <2>3, <2>7, <3>2 DEF AnnotateStartFailure, Attended
  <2>8. CASE watch[r] = "wait" /\ (Watcher(r) \/ WatcherDies(r))
    BY <2>1, <2>2, <2>8 DEF Watcher, ExitZero, ExitNonZero, OrphanGone,
       OrphanTimesOut, Finalize, FinalizeRefused, Verify, Integrate, IntegrateRefused,
       CheckIntegrated, RecordResult, ReleaseResult, AnnotateResult, WatcherDies
  <2>9. CASE start[r] = "record" /\ (Watcher(r) \/ WatcherDies(r))
    <3>1. watch[r] \notin WatchBusy
      BY <1>1, <2>9 DEF StartingAt, StartBusy
    <3>2. AnnotateResult(r)
      BY <2>9, <3>1 DEF Watcher, ExitZero, ExitNonZero, WorkerTimesOut, OrphanGone,
       OrphanTimesOut, Finalize, FinalizeRefused, Verify, Integrate, IntegrateRefused,
       CheckIntegrated, RecordResult, ReleaseResult, WatcherDies, WatchBusy
    <3>. QED
      BY <2>3, <2>9, <3>2 DEF AnnotateResult, Attended
  <2>10. ASSUME NEW c \in Caller \cup Run, Advance(c) PROVE Attended(r)'
    <3>1. ~Reserve(c)
      BY <2>3, ReserveIs
    <3>2. NothingToReserve(c) /\ UNCHANGED <<active, start>>
      BY <2>10, <3>1 DEF Advance, NothingToReserve
    <3>3. watch'[r] = watch[r] \/ watch[r] = "advance"
      BY <1>1, <3>2 DEF NothingToReserve, Advances
    <3>. QED
      BY <2>2, <3>2, <3>3 DEF Attended
  <2>11. ~Reserved /\ ~Boot
    BY <2>3 DEF Reserved, RecordStarting, SpawnStarter, NoAdv, Boot
  <2>12. CASE \E c \in Caller : EnqueueNew(c)
    BY <2>4, <2>12 DEF EnqueueNew
  <2>. QED
    BY <1>3, <2>2, <2>4, <2>5, <2>6, <2>7, <2>8, <2>9, <2>10, <2>11, <2>12,
       ThreadsUntouched DEF Threads, Attended
<1>. QED
  BY <1>4, <1>5

-----------------------------------------------------------------------------
(* The halt                                                                *)

LEMMA FirstWaitsAt ==
  ASSUME NEW q \in Seq(Item), NEW n \in DOMAIN q, q[n].status = "queued",
         \A i \in 1 .. n - 1 : q[i].status # "queued"
  PROVE  SelectInSeq(q, Waits) = n
<1>. DEFINE I == {i \in 1 .. Len(q) : q[i].status = "queued"}
<1>1. SelectInSeq(q, Waits) = IF I # {} THEN Min(I) ELSE 0
  BY DEF SelectInSeq, Waits
<1>2. n \in I /\ I \in SUBSET Nat
  BY LenProperties
<1>3. Min(I) \in I /\ Min(I) <= n
  BY <1>2, MinIsLeast
<1>4. ~(Min(I) \in 1 .. n - 1)
  BY <1>3
<1>. QED
  BY <1>1, <1>2, <1>3, <1>4

LEMMA LatestIs ==
  ASSUME IInv, ended # <<>>
  PROVE  Latest(ended) \in DOMAIN row /\ row[Latest(ended)].status \in Terminal
<1>1. ended \in Seq(Run) /\ LedgerRows
  BY DEF IInv, TypeOK
<1>2. Len(ended) \in DOMAIN ended
  <2>1. DOMAIN ended = 1 .. Len(ended) /\ Len(ended) \in Nat
    BY <1>1, LenProperties
  <2>2. Len(ended) # 0
    BY <1>1, EmptySeq
  <2>. QED
    BY <2>1, <2>2
<1>. QED
  BY <1>1, <1>2 DEF Latest, LedgerRows

\* What the last outcome was changes only with the next outcome.
LEMMA ResolvedStep ==
  ASSUME IInv, [Next]_vars, UNCHANGED ended
  PROVE  Resolved(Latest(ended))' <=> Resolved(Latest(ended))
<1>1. CASE ended = <<>>
  BY <1>1 DEF Resolved, Latest
<1>2. CASE ended # <<>>
  <2>. DEFINE l == Latest(ended)
  <2>1. l \in DOMAIN row /\ row[l].status \in Terminal
    BY <1>2, LatestIs
  <2>2. Latest(ended') = l
    OBVIOUS
  <2>. HIDE DEF l
  <2>3. row'[l] = row[l]
    <3>1. CASE Records
      <4>1. PICK r \in Run : r \in DOMAIN row /\ row[r].status \notin Terminal /\ RowChanged(r)
        BY <3>1, RecordsOne
      <4>. QED
        BY <2>1, <4>1 DEF RowChanged
    <3>2. ASSUME NEW c \in Caller, EnqueueNew(c) PROVE row'[l] = row[l]
      BY <2>1, <3>2, AppendsOne
    <3>. QED
      BY <3>1, <3>2, RowsOne
  <2>. QED
    BY <2>2, <2>3 DEF Resolved, l
<1>. QED
  BY <1>1, <1>2

\* The slot is taken while a row is written.
LEMMA RecordsActive ==
  ASSUME IInv, Records
  PROVE  active \in Run /\ up # "down" /\ UNCHANGED active
<1>1. active \in Run /\ Slot /\ NoRun \notin Run
  BY RecordsOne, Callers DEF IInv
<1>2. UNCHANGED active
  BY DEF Records, RecordStarting, Prepare, RecordRunning, RecordStartFailure, ExitZero,
         RecordResult, memory
<1>. QED
  BY <1>1, <1>2 DEF Slot

LEMMA CrashesGrow ==
  ASSUME IInv, [Next]_vars, crashes' = 0
  PROVE  crashes = 0 /\ ~Crash
<1>1. crashes \in Nat
  BY BoundAssumption DEF IInv, TypeOK
<1>2. ~Crash
  BY <1>1 DEF Crash
<1>3. ASSUME NEW q \in Run, Launch(q) \/ WorkerExits(q) \/ WorkerTimesOut(q) \/ Integrate(q)
      PROVE  UNCHANGED crashes
  BY <1>3 DEF Launch, WorkerExits, WorkerTimesOut, Integrate, bounds
<1>. QED
  BY <1>2, <1>3, OutsideUntouched DEF Outside

LEMMA NothingYetStep ==
  ASSUME IInv, [Next]_vars
  PROVE  NothingYet'
<1>1. NothingYet /\ Slot
  BY DEF IInv, Halting
<1>2. SUFFICES ASSUME crashes' = 0, up' = "down" PROVE ledger' = <<>> /\ ended' = <<>>
  BY DEF NothingYet
<1>3. crashes = 0 /\ ~Crash
  BY <1>2, CrashesGrow
<1>4. up = "down"
  BY <1>2, <1>3, SlotsUntouched DEF Slots, Appends, EnqueueNew, Reserve, RecordRunning,
     ReleaseStartFailure, ReleaseResult, Boot, Serve
<1>5. ~Records
  BY <1>4, RecordsActive
<1>6. ASSUME NEW c \in Caller, EnqueueNew(c) PROVE FALSE
  BY <1>1, <1>4, <1>6 DEF EnqueueNew, Slot, NoAsk
<1>. QED
  BY <1>1, <1>3, <1>4, <1>5, <1>6, RowsOne DEF NothingYet

LEMMA ReleasesItStep ==
  ASSUME IInv, [Next]_vars
  PROVE  ReleasesIt'
<1>1. /\ ReleasesIt /\ TypeOK /\ NoRun \notin Run
      /\ start \in [Run -> StartStep] /\ watch \in [Run -> WatchStep]
      /\ \A r \in Run : StartingAt(r) /\ WatchingAt(r)
  BY Callers DEF IInv, Halting, TypeOK, Starting, Watching
<1>2. SUFFICES ASSUME NEW r \in Run, start'[r] = "release" \/ watch'[r] = "release"
               PROVE  Latest(ended') = r
  BY DEF ReleasesIt
<1>3. CASE start[r] = "release" \/ watch[r] = "release"
  <2>1. Latest(ended) = r /\ active = r /\ row[r].status \in Terminal
    BY <1>1, <1>3 DEF ReleasesIt, StartingAt, WatchingAt, StartBusy, WatchBusy, Terminal
  <2>2. ~Records
    BY <2>1, RecordsOne
  <2>. QED
    BY <2>1, <2>2, RowsOne
<1>4. CASE RecordStartFailure(r) \/ RecordResult(r)
  <2>1. Records /\ Busy(r)
    BY <1>4 DEF Records, Busy, StartBusy, WatchBusy, RecordStartFailure, RecordResult
  <2>2. active = r
    BY <2>1, BusyIsActive
  <2>3. Finish(r, "failed") \/ Finish(r, verdict[r])
    BY <1>4 DEF RecordStartFailure, RecordResult
  <2>4. ended' = Append(ended, r) /\ ended \in Seq(Run)
    BY <1>1, <2>3 DEF Finish, TypeOK
  <2>5. ended' # <<>> /\ Len(ended') = Len(ended) + 1 /\ ended'[Len(ended) + 1] = r
    BY <2>4, AppendProperties
  <2>. QED
    BY <2>5 DEF Latest
<1>5. CASE start[r] # "release" /\ watch[r] # "release" /\ ~RecordStartFailure(r) /\ ~RecordResult(r)
  <2>1. ASSUME NEW q \in Run, Starter(q) \/ Watcher(q) \/ WatcherDies(q), q # r PROVE FALSE
    BY <1>2, <1>5, <2>1, StarterWorks, WatcherWorks DEF Works
  <2>2. ASSUME Starter(r) PROVE FALSE
    <3>1. start'[r] # "release"
      BY <1>1, <1>5, <2>2 DEF Starter, Prepare, Launch, RecordRunning, StartFails,
         ReleaseStartFailure, AnnotateStartFailure
    <3>2. watch'[r] = watch[r] \/ watch'[r] = "wait"
      BY <1>1, <1>5, <2>2 DEF Starter, Prepare, Launch, RecordRunning, StartFails,
         ReleaseStartFailure, AnnotateStartFailure, watcher
    <3>. QED
      BY <1>2, <1>5, <3>1, <3>2
  <2>3. ASSUME Watcher(r) \/ WatcherDies(r) PROVE FALSE
    <3>1. UNCHANGED start
      BY <2>3, WatcherWorks
    <3>2. watch'[r] # "release"
      BY <1>1, <1>5, <2>3 DEF Watcher, ExitZero, ExitNonZero, WorkerTimesOut, OrphanGone,
         OrphanTimesOut, Finalize, FinalizeRefused, Verify, Integrate, IntegrateRefused,
         CheckIntegrated, ReleaseResult, AnnotateResult, WatcherDies, Step, Decide
    <3>. QED
      BY <1>2, <1>5, <3>1, <3>2
  <2>4. ASSUME NEW c \in Caller \cup Run, Advance(c) PROVE FALSE
    BY <1>2, <1>5, <2>4, AdvanceEnds
  <2>5. ~Reserved
    BY <1>1, <1>2, <1>5 DEF Reserved, RecordStarting, SpawnStarter, watcher
  <2>6. ~Boot
    <3>1. Boot => UNCHANGED start /\ (watch'[r] = watch[r] \/ watch'[r] = "orphan")
      BY <1>1, BootOne DEF Boot, Adopts, Resumes
    <3>. QED
      BY <1>2, <1>5, <3>1
  <2>7. ~Crash
    BY <1>2 DEF Crash
  <2>8. ASSUME NEW c \in Caller, EnqueueNew(c) PROVE FALSE
    BY <1>2, <1>5, <2>8 DEF EnqueueNew, watcher
  <2>. QED
    BY <1>2, <1>5, <2>1, <2>2, <2>3, <2>4, <2>5, <2>6, <2>7, <2>8, ThreadsUntouched DEF Threads
<1>. QED
  BY <1>3, <1>4, <1>5

LEMMA StartsRetryStep ==
  ASSUME IInv, [Next]_vars
  PROVE  StartsRetry'
<1>1. /\ StartsRetry /\ FreeIsRetry /\ Reserving /\ adv \in {NoAdv} \cup Adv
  BY DEF IInv, Halting, TypeOK
<1>2. SUFFICES ASSUME crashes' = 0, adv'.at = "starting", ~Resolved(Latest(ended))'
               PROVE  Retry(adv.run)'
  BY DEF StartsRetry
<1>3. crashes = 0 /\ ~Crash
  BY <1>2, CrashesGrow
<1>4. ASSUME NEW c \in Caller \cup Run, Reserve(c) PROVE Retry(adv.run)'
  <2>. DEFINE r == queue[FirstQueued].run
  <2>1. /\ r \in DOMAIN row /\ adv' = [at |-> "starting", run |-> r, by |-> c] /\ up # "down"
    BY <1>4, ReserveIs
  <2>2. UNCHANGED ended /\ active = NoRun /\ ~halted
    BY <1>4 DEF Reserve, CanReserve, rows
  <2>7. ~Resolved(Latest(ended))
    BY <1>2, <2>2, ResolvedStep
  <2>3. Retry(r)
    BY <1>1, <1>3, <2>1, <2>2, <2>7 DEF FreeIsRetry
  <2>. HIDE DEF r
  <2>5. adv'.run = r /\ UNCHANGED row
    BY <1>4, <2>1 DEF Reserve, rows
  <2>6. row'[r].key.retry # NoRun
    BY <2>1, <2>3, <2>5 DEF Retry
  <2>. QED
    BY <2>5, <2>6 DEF Retry
<1>5. CASE UNCHANGED adv
  <2>1. adv.at = "starting" /\ adv # NoAdv
    BY <1>2, <1>5 DEF NoAdv
  <2>2. ~Records
    <3>1. ~RecordStarting
      BY <1>1, <1>2, <1>5, <2>1 DEF RecordStarting, Adv
    <3>2. ASSUME NEW r \in Run, \/ Prepare(r) \/ RecordRunning(r) \/ RecordStartFailure(r)
                                \/ ExitZero(r) \/ RecordResult(r)
          PROVE  FALSE
      <4>1. Busy(r)
        BY <3>2 DEF Prepare, RecordRunning, RecordStartFailure, ExitZero, RecordResult, Busy,
                    StartBusy, WatchBusy
      <4>. QED
        BY <2>1, <4>1, BusyIsActive
    <3>. QED
      BY <3>1, <3>2 DEF Records
  <2>3. UNCHANGED ended
    BY <2>2, RowsOne
  <2>4. Retry(adv.run) /\ adv.run \in DOMAIN row
    BY <1>1, <1>2, <1>3, <2>1, <2>3, ResolvedStep DEF StartsRetry, Reserving
  <2>5. adv.run \in DOMAIN row' /\ row'[adv.run].key.retry = row[adv.run].key.retry
    <3>1. CASE UNCHANGED row
      BY <2>4, <3>1
    <3>2. ASSUME NEW c \in Caller, EnqueueNew(c)
          PROVE  adv.run \in DOMAIN row' /\ row'[adv.run] = row[adv.run]
      BY <2>4, <3>2, AppendsOne
    <3>. QED
      BY <2>2, <3>1, <3>2, RowsOne
  <2>. QED
    BY <1>5, <2>4, <2>5 DEF Retry
<1>6. UNCHANGED adv \/ \E c \in Caller \cup Run : Reserve(c)
  <2>1. adv' # NoAdv
    BY <1>2 DEF NoAdv
  <2>2. ~SpawnStarter /\ ~RecordStarting
    <3>1. ~SpawnStarter
      BY <2>1 DEF SpawnStarter
    <3>2. RecordStarting => adv' = [adv EXCEPT !.at = "annotate"] /\ adv # NoAdv
      BY DEF RecordStarting, NoAdv
    <3>3. adv # NoAdv => [adv EXCEPT !.at = "annotate"].at = "annotate"
      BY <1>1 DEF Adv
    <3>. QED
      BY <1>2, <3>1, <3>2, <3>3
  <2>3. ASSUME NEW r \in Run, Starter(r) \/ Watcher(r) \/ WatcherDies(r) PROVE UNCHANGED adv
    BY <2>3, StarterWorks, WatcherWorks DEF Works
  <2>4. ASSUME NEW c \in Caller \cup Run, Advance(c) PROVE Reserve(c) \/ UNCHANGED adv
    BY <2>4, AdvanceEnds
  <2>5. CASE Boot \/ \E c \in Caller : EnqueueNew(c)
    BY <2>5 DEF Boot, EnqueueNew
  <2>. QED
    BY <1>3, <2>2, <2>3, <2>4, <2>5, ThreadsUntouched DEF Threads, Reserved
<1>. QED
  BY <1>4, <1>5, <1>6

\* A retry goes to the front; any other run goes to the end of a queue that is not halted.
LEMMA AppendsFirst ==
  ASSUME IInv, NEW c \in Caller, EnqueueNew(c), ~halted', FreeIsRetry,
         crashes = 0, active = NoRun, up # "down", ~Resolved(Latest(ended))
  PROVE  LET m == FirstQueued'
         IN m # 0 /\ row'[queue'[m].run].key.retry # NoRun
<1>. DEFINE r == ask[c].run
            item == [run |-> r, status |-> "queued"]
            n == IF ask[c].key.retry # NoRun /\ FirstQueued # 0
                 THEN FirstQueued ELSE Len(queue) + 1
<1>1. /\ queue \in Seq(Item) /\ Waiting /\ DOMAIN queue = 1 .. Len(queue) /\ Len(queue) \in Nat
  BY LenProperties DEF IInv, TypeOK
<1>2. /\ PlacedAt(n, item) /\ row'[r].key = ask[c].key
      /\ \A q \in DOMAIN row : row'[q] = row[q]
      /\ halted' = (halted /\ ask[c].key.retry = NoRun)
  BY AppendsOne
<1>3. /\ FirstQueued \in 0 .. Len(queue)
      /\ FirstQueued # 0 => /\ FirstQueued \in DOMAIN queue
                            /\ queue[FirstQueued].status = "queued"
                            /\ \A i \in 1 .. FirstQueued - 1 : queue[i].status # "queued"
      /\ FirstQueued = 0 => \A i \in DOMAIN queue : queue[i].status # "queued"
  BY <1>1, FirstQueuedIs
<1>4. /\ queue' \in Seq(Item) /\ Len(queue') = Len(queue) + 1 /\ n \in 1 .. Len(queue')
      /\ queue'[n] = item /\ DOMAIN queue' = 1 .. Len(queue')
      /\ \A i \in 1 .. n - 1 : i \in DOMAIN queue /\ queue'[i] = queue[i]
  BY <1>2, LenProperties DEF PlacedAt
<1>5. item.run = r /\ item.status = "queued"
  OBVIOUS
<1>6. \A m : SelectInSeq(queue', Waits) = m => FirstQueued' = m
  BY DEF FirstQueued
<1>7. CASE ask[c].key.retry # NoRun
  <2>1. \A i \in 1 .. n - 1 : queue'[i].status # "queued"
    BY <1>1, <1>3, <1>4, <1>7
  <2>. HIDE DEF n, item, r
  <2>2. SelectInSeq(queue', Waits) = n
    BY <1>4, <1>5, <2>1, FirstWaitsAt
  <2>3. FirstQueued' = n /\ n # 0
    BY <1>4, <1>6, <2>2
  <2>. QED
    BY <1>2, <1>4, <1>5, <1>7, <2>3
<1>8. CASE ask[c].key.retry = NoRun
  <2>1. ~halted
    BY <1>2, <1>8
  <2>. DEFINE m == FirstQueued
  <2>2. m # 0 /\ Retry(queue[m].run) /\ n = Len(queue) + 1
    BY <1>8, <2>1 DEF FreeIsRetry
  <2>3. m \in 1 .. n - 1 /\ m \in DOMAIN queue' /\ queue'[m] = queue[m]
    BY <1>1, <1>3, <1>4, <2>2
  <2>4. queue'[m].status = "queued" /\ \A i \in 1 .. m - 1 : queue'[i].status # "queued"
    BY <1>1, <1>3, <1>4, <2>2, <2>3
  <2>5. queue[m].run \in DOMAIN row
    BY <1>1, <1>3, <2>2 DEF Waiting
  <2>. HIDE DEF m, n, item, r
  <2>6. SelectInSeq(queue', Waits) = m
    BY <1>4, <2>3, <2>4, FirstWaitsAt
  <2>7. FirstQueued' = m
    BY <1>6, <2>6
  <2>. QED
    BY <1>2, <2>2, <2>3, <2>5, <2>7 DEF Retry
<1>. QED
  BY <1>7, <1>8

LEMMA FreeIsRetryStep ==
  ASSUME IInv, [Next]_vars
  PROVE  FreeIsRetry'
<1>1. /\ FreeIsRetry /\ NothingYet /\ ReleasesIt /\ Slot /\ TypeOK /\ Waiting
      /\ NoRun \notin Run /\ DOMAIN row \subseteq Run
      /\ \A r \in Run : StartingAt(r) /\ WatchingAt(r)
  BY Callers DEF IInv, Halting, TypeOK, Starting, Watching
<1>2. SUFFICES ASSUME crashes' = 0, up' # "down", active' = NoRun, ~halted',
                      ~Resolved(Latest(ended))'
               PROVE  FirstQueued' # 0 /\ Retry(queue[FirstQueued].run)'
  BY DEF FreeIsRetry
<1>3. crashes = 0 /\ ~Crash
  BY <1>2, CrashesGrow
<1>4. ~Records
  BY <1>1, <1>2, RecordsActive
<1>5. UNCHANGED ended /\ ~Resolved(Latest(ended))
  BY <1>2, <1>4, RowsOne, ResolvedStep
<1>6. up # "down" /\ ~Boot
  <2>1. up # "down"
    BY <1>1, <1>3, <1>5 DEF NothingYet, Resolved, Latest
  <2>. QED
    BY <2>1 DEF Boot
<1>7. ASSUME NEW c \in Caller, EnqueueNew(c)
      PROVE  FirstQueued' # 0 /\ Retry(queue[FirstQueued].run)'
  <2>1. UNCHANGED active
    BY <1>7 DEF EnqueueNew
  <2>2. LET m == FirstQueued' IN m # 0 /\ row'[queue'[m].run].key.retry # NoRun
    BY <1>1, <1>2, <1>3, <1>5, <1>6, <1>7, <2>1, AppendsFirst
  <2>. QED
    BY <2>2 DEF Retry
<1>8. ASSUME NEW c \in Caller \cup Run, Reserve(c) PROVE FALSE
  BY <1>1, <1>2, <1>8, ReserveIs
<1>9. ASSUME NEW r \in Run, RecordRunning(r) PROVE FALSE
  BY <1>4, <1>9 DEF Records
<1>10. ASSUME NEW r \in Run, ReleaseStartFailure(r) PROVE FALSE
  BY <1>2, <1>10 DEF ReleaseStartFailure, Release
<1>11. ASSUME NEW r \in Run, ReleaseResult(r) PROVE FALSE
  <2>1. watch[r] = "release" /\ verdict[r] = "completed"
    BY <1>2, <1>11 DEF ReleaseResult, Release
  <2>2. Latest(ended) = r /\ row[r].status = "completed"
    BY <1>1, <2>1 DEF ReleasesIt, WatchingAt
  <2>. QED
    BY <1>5, <2>2 DEF Resolved
<1>12. CASE UNCHANGED <<queue, active, halted>> /\ UNCHANGED row
  <2>1. /\ FirstQueued # 0 /\ Retry(queue[FirstQueued].run)
    BY <1>1, <1>2, <1>3, <1>5, <1>6, <1>12 DEF FreeIsRetry
  <2>2. FirstQueued' = FirstQueued
    BY <1>12 DEF FirstQueued, SelectInSeq, Waits
  <2>. QED
    BY <1>12, <2>1, <2>2 DEF Retry
<1>13. Slots \/ (UNCHANGED <<queue, active, halted>> /\ UNCHANGED row) \/ Appends
  BY <1>4, Untouched, SlotsUntouched
<1>14. Serve => UNCHANGED <<queue, active, halted>> /\ UNCHANGED row
  BY DEF Serve, memory, rows
<1>. QED
  BY <1>3, <1>6, <1>7, <1>8, <1>9, <1>10, <1>11, <1>12, <1>13, <1>14 DEF Slots, Appends

LEMMA HaltingStep ==
  ASSUME IInv, [Next]_vars
  PROVE  Halting'
<1>1. NothingYet' /\ ReleasesIt' /\ StartsRetry' /\ FreeIsRetry'
  BY NothingYetStep, ReleasesItStep, StartsRetryStep, FreeIsRetryStep
<1>. QED
  BY <1>1 DEF Halting

-----------------------------------------------------------------------------
(* The invariant and the theorems                                          *)

LEMMA Initially == Init => IInv
<1>. SUFFICES ASSUME Init PROVE IInv
  OBVIOUS
<1>1. /\ DOMAIN row = {} /\ DOMAIN accepted = {} /\ DOMAIN ledger = {} /\ DOMAIN ended = {}
      /\ DOMAIN queue = {}
  BY DEF Init
<1>2. TypeOK
  <2>1. /\ ledger \in Seq(Run) /\ ended \in Seq(Run) /\ queue \in Seq(Item)
    BY EmptySeq DEF Init
  <2>2. /\ accepted \in [{} -> Decision] /\ row \in [{} -> Row]
    BY DEF Init
  <2>3. DecisionsOK /\ RowsOK
    BY <1>1, <2>1, <2>2, BoundAssumption DEF Init, DecisionsOK, RowsOK
  <2>4. TreeOK
    BY BoundAssumption DEF Init, TreeOK
  <2>6. MemoryOK
    BY <2>1 DEF Init, MemoryOK
  <2>5. ThreadsOK /\ CallsOK
    BY DEF Init, ThreadsOK, CallsOK, StartStep, WatchStep
  <2>. QED
    BY <2>3, <2>4, <2>5, <2>6, TypeParts
<1>3. \A r, f, k : ~Named(r, f, k)
  BY <1>1 DEF Init, Named, NoAsk
<1>4. Identity
  BY <1>3 DEF Identity
<1>5. LedgerRows /\ OneLiveRun /\ ReplaySafe /\ Waiting
  BY <1>1 DEF LedgerRows, OneLiveRun, ReplaySafe, Waiting
<1>6. Starting /\ Watching
  BY DEF Init, Starting, StartingAt, Watching, WatchingAt, StartBusy, WatchBusy
<1>7. Reserving /\ Slot /\ Workers
  BY <1>1 DEF Init, Reserving, Slot, Workers
<1>8. Integrated
  BY <1>1 DEF Init, Integrated, Praised, CompletedIsIntegrated
<1>9. Halting
  BY DEF Init, Halting, NothingYet, ReleasesIt, StartsRetry, FreeIsRetry, Latest, NoAdv,
     Resolved
<1>. QED
  BY <1>2, <1>4, <1>5, <1>6, <1>7, <1>8, <1>9 DEF IInv

LEMMA Inductive == IInv /\ [Next]_vars => IInv'
<1>. SUFFICES ASSUME IInv, [Next]_vars PROVE IInv'
  OBVIOUS
<1>1. TypeOK' /\ Identity' /\ LedgerRows' /\ OneLiveRun' /\ ReplaySafe'
  BY TypeStep, IdentityStep, RowsKeep
<1>2. Reserving' /\ Starting' /\ Watching' /\ Slot'
  BY ThreadsStep DEF ThreadsHold
<1>3. Waiting' /\ Integrated' /\ Workers' /\ Halting'
  BY WaitingStep, IntegratedStep, WorkersStep, HaltingStep
<1>. QED
  BY <1>1, <1>2, <1>3 DEF IInv

LEMMA Always == Spec => []IInv
BY Initially, Inductive, PTL DEF Spec

\* Every variable of the dispatch keeps to its type.
THEOREM Typing == Spec => []TypeOK
<1>1. IInv => TypeOK
  BY DEF IInv
<1>. QED
  BY <1>1, Always, PTL

\* One run at a time is between its reservation and its result, whatever threads
\* approve, advance the queue or release the slot, and however often the board is
\* killed; while it is not killed one worker process at most is alive.
THEOREM Sequential == Spec => []OneRunAtATime
<1>1. IInv => OneRunAtATime
  <2>1. SUFFICES ASSUME IInv PROVE OneLiveRun /\ OneWorker
    BY DEF OneRunAtATime
  <2>2. OneWorker
    BY <2>1 DEF IInv, Workers, Attended, OneWorker
  <2>. QED
    BY <2>1, <2>2 DEF IInv
<1>. QED
  BY <1>1, Always, PTL

\* One exact approval of a finding gets one row of the run ledger at most, however often it
\* is delivered and replayed, before and after a crash.
THEOREM DispatchedOnce == Spec => []ReplaySafe
<1>1. IInv => ReplaySafe
  BY DEF IInv
<1>. QED
  BY <1>1, Always, PTL

\* What a row says of a run that ended is never changed, and "completed" is only said
\* of a run whose commit is on the project's branch.
THEOREM ResultIsFinal == Spec => ResultStands
<1>1. IInv => CompletedIsIntegrated
  BY DEF IInv, Integrated
<1>2. IInv /\ [Next]_vars =>
        [\A r \in Run : StatusOf(r) \in Terminal => StatusOf(r)' = StatusOf(r)]_vars
  <2>1. SUFFICES ASSUME IInv, [Next]_vars, NEW r \in Run, StatusOf(r) \in Terminal
                 PROVE  StatusOf(r)' = StatusOf(r)
    OBVIOUS
  <2>2. r \in DOMAIN row /\ row[r].status \in Terminal
    BY <2>1 DEF StatusOf, Terminal
  <2>3. r \in DOMAIN row' /\ row'[r] = row[r]
    <3>1. CASE UNCHANGED row
      BY <2>2, <3>1
    <3>2. CASE Records
      <4>1. PICK q \in Run : q \in DOMAIN row /\ row[q].status \notin Terminal /\ RowChanged(q)
        BY <2>1, <3>2, RecordsOne
      <4>. QED
        BY <2>2, <4>1 DEF RowChanged
    <3>3. ASSUME NEW c \in Caller, EnqueueNew(c) PROVE r \in DOMAIN row' /\ row'[r] = row[r]
      BY <2>1, <2>2, <3>3, AppendsOne
    <3>. QED
      BY <2>1, <3>1, <3>2, <3>3, RowsOne
  <2>. QED
    BY <2>2, <2>3 DEF StatusOf
<1>. QED
  BY <1>1, <1>2, Always, PTL DEF Spec, ResultStands, TerminalIsFinal

\* After a run that did not complete, a board that was not killed starts no other run than
\* one a human asked for as a retry: the queue is halted before its slot is free, and a
\* retry goes before every run that waits.
THEOREM HaltsAtFailure == Spec => StopsAtFailure
<1>1. IInv /\ [Next]_vars =>
        [\A r \in Run : crashes = 0 /\ StatusOf(r) = "queued" /\ StatusOf(r)' = "starting"
           => Resolved(Latest(ended)) \/ row[r].key.retry # NoRun]_vars
  <2>1. SUFFICES ASSUME IInv, [Next]_vars, NEW r \in Run, crashes = 0,
                        StatusOf(r) = "queued", StatusOf(r)' = "starting",
                        ~Resolved(Latest(ended))
                 PROVE  row[r].key.retry # NoRun
    OBVIOUS
  <2>2. r \in DOMAIN row /\ row[r].status = "queued"
    BY <2>1 DEF StatusOf
  <2>3. r \in DOMAIN row' => row'[r].status = "starting"
    BY <2>1 DEF StatusOf
  <2>4. adv.at = "starting" /\ adv.run = r
    <3>1. CASE UNCHANGED row
      BY <2>2, <2>3, <3>1
    <3>2. CASE Records
      <4>1. PICK q \in Run : /\ q \in DOMAIN row /\ RowChanged(q)
                             /\ row[q].status = "queued" => adv.at = "starting" /\ adv.run = q
        BY <2>1, <3>2, RecordsOne
      <4>2. q = r
        BY <2>2, <2>3, <4>1 DEF RowChanged
      <4>. QED
        BY <2>2, <4>1, <4>2
    <3>3. ASSUME NEW c \in Caller, EnqueueNew(c) PROVE FALSE
      <4>1. r \in DOMAIN row' /\ row'[r] = row[r]
        BY <2>1, <2>2, <3>3, AppendsOne
      <4>. QED
        BY <2>2, <2>3, <4>1
    <3>. QED
      BY <2>1, <3>1, <3>2, <3>3, RowsOne
  <2>5. Halting
    BY <2>1 DEF IInv
  <2>. QED
    BY <2>1, <2>4, <2>5 DEF Halting, StartsRetry, Retry
<1>. QED
  BY <1>1, Always, PTL DEF Spec, StopsAtFailure
=============================================================================
