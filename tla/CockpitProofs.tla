---------------------------- MODULE CockpitProofs ----------------------------
(***************************************************************************)
(* Proofs about the two halves of a decision on the plan: who may say that *)
(* it may be built (Authority), for any number of plans, intents, rulings  *)
(* and edits, and how one decision reaches the disk (PlanDecision), for    *)
(* any number of processes, decisions, edits, mishaps and thefts.          *)
(*                                                                         *)
(* Authority.  The events are a ledger that is only appended to, and the   *)
(* inductive invariant says what each ruling left in it: an approval       *)
(* stands behind every confirmation (Backed), a veto that was not lifted   *)
(* shows as the last event on its intent (VetoShows), and a request for    *)
(* changes as an event that nothing has superseded and only rejections     *)
(* follow (RequestShows).  What is in proposal.json and in the design,     *)
(* which agents write, does not occur in it.                               *)
(*                                                                         *)
(* PlanDecision.  What holds whatever happens to the guard is in Basic:    *)
(* the memory of a process fits its step, and no copy of a file that is    *)
(* held anywhere, the journal's two included, misses an edit made outside  *)
(* the guard.  What depends on the guard is in Guarded: one process at a   *)
(* time is inside (Exclusive), the journal holds the two versions that the *)
(* latest decision has of the files (Journalled), every earlier decision   *)
(* is in all of its files or in none (Whole), and each step knows what its *)
(* process has on the disk by then (Works).                                *)
(***************************************************************************)
EXTENDS Authority, PlanDecision, TLAPS

(***************************************************************************)
(* The authority                                                           *)
(***************************************************************************)

-----------------------------------------------------------------------------
(* The inductive invariant                                                 *)

Digests == {NoDigest} \cup (Plan \X Section \X Status \X Nat)
Contracts == [plan : Plan, intent : Intent]
Proposals == [plan : Plan, ref : Section, status : Status, stored : Digests, revised : Nat]
Events == [id : Nat, action : {"confirm", "veto"}, scope : {"design-and-plan", "plan-only"},
           intent : Intent, design : Section, proposal : Digests, reviewed : Contracts,
           supersedes : SUBSET Nat]
Ruling == [kind : {"approve", "veto", "request-changes"}, contract : Contracts]

Typed ==
  /\ design \in Section /\ proposal \in Proposals
  /\ shape \in Seq(Events) /\ rulings \in Seq(Ruling) /\ revisions \in Nat

\* An event is numbered by its place and supersedes earlier events only.
Numbered(s) == \A i \in DOMAIN s : s[i].id = i /\ s[i].supersedes \subseteq 1 .. i - 1

\* Of the events some are last, whatever is asked of them.
HasLast(s) == \A T \in SUBSET DOMAIN s : T # {} => LastOf(T) # {}

\* No event supersedes a rejection of the plan only.
Withdrawn(s) ==
  \A i, j \in DOMAIN s :
    s[i].id \in s[j].supersedes => s[i].action = "confirm" \/ s[i].scope = "design-and-plan"

\* A human approved what an event confirms.
ApprovedBy(e) == [kind |-> "approve", contract |-> [plan |-> e.proposal[1], intent |-> e.design.intent]]
Backed(s, rs) ==
  \A i \in DOMAIN s : s[i].action = "confirm" => \E k \in DOMAIN rs : rs[k] = ApprovedBy(s[i])

\* No approval of the intent, or of the contract, came after ruling i.
LiftedIntent(rs, i, x) ==
  \E k \in DOMAIN rs : k > i /\ rs[k].kind = "approve" /\ rs[k].contract.intent = x
LiftedContract(rs, i, c) ==
  \E k \in DOMAIN rs : k > i /\ rs[k].kind = "approve" /\ rs[k].contract = c

VetoShows(s, rs) ==
  \A i \in DOMAIN rs : \A x \in Intent :
    rs[i].kind = "veto" /\ rs[i].contract.intent = x /\ ~LiftedIntent(rs, i, x) =>
      ActiveDesignVeto(s, x) # {}

\* Event k rejects the contract, and of those in force after it all do.
Rejects(s, k, c) ==
  /\ s[k].action = "veto" /\ s[k].scope = "plan-only"
  /\ k \in OnContract(s, c)
  /\ \A j \in OnContract(s, c) : j > k => s[j].action = "veto"

RequestShows(s, rs) ==
  \A i \in DOMAIN rs : \A c \in Contracts :
    rs[i].kind = "request-changes" /\ rs[i].contract = c /\ ~LiftedContract(rs, i, c) =>
      \E k \in DOMAIN s : Rejects(s, k, c)

Shown(s, rs) == Backed(s, rs) /\ VetoShows(s, rs) /\ RequestShows(s, rs)
Ordered(s) == Numbered(s) /\ HasLast(s) /\ Withdrawn(s)

RulingInv == Typed /\ Ordered(shape) /\ Shown(shape, rulings)

-----------------------------------------------------------------------------
(* Appending to the ledger                                                 *)

LEMMA Appending ==
  ASSUME NEW S, NEW s \in Seq(S), NEW e \in S
  PROVE  LET t == Append(s, e)
         IN  /\ t \in Seq(S)
             /\ Len(s) \in Nat /\ DOMAIN s = 1 .. Len(s)
             /\ DOMAIN t = 1 .. Len(s) + 1 /\ Len(t) = Len(s) + 1
             /\ t[Len(s) + 1] = e
             /\ \A i \in DOMAIN s : t[i] = s[i]
  OBVIOUS

\* An event as the decisions append it.
NextEvent(s, e) ==
  /\ s \in Seq(Events) /\ e \in Events /\ Ordered(s)
  /\ e.id = Len(s) + 1 /\ e.supersedes \subseteq 1 .. Len(s)
  /\ \A i \in DOMAIN s :
       i \in e.supersedes => s[i].action = "confirm" \/ s[i].scope = "design-and-plan"

LEMMA OrderedAppend ==
  ASSUME NEW s, NEW e, NextEvent(s, e)
  PROVE  Ordered(Append(s, e))
<1> DEFINE t == Append(s, e)
           n == Len(s) + 1
<1>1. /\ n \in Nat /\ Len(s) \in Nat /\ DOMAIN s = 1 .. Len(s)
      /\ DOMAIN t = DOMAIN s \cup {n} /\ n \notin DOMAIN s
      /\ t[n] = e /\ \A i \in DOMAIN s : t[i] = s[i] /\ i < n
  BY Appending DEF NextEvent
<1> HIDE DEF t, n
<1>0. n = Len(s) + 1
  BY DEF n
<1>2. Numbered(t)
  <2> SUFFICES ASSUME NEW i \in DOMAIN t PROVE t[i].id = i /\ t[i].supersedes \subseteq 1 .. i - 1
    BY DEF Numbered
  <2>1. CASE i = n
    <3>1. n - 1 = Len(s)
      BY <1>1, <1>0
    <3> QED
      BY <2>1, <1>1, <1>0, <3>1 DEF NextEvent
  <2>2. CASE i # n
    BY <2>2, <1>1 DEF NextEvent, Ordered, Numbered
  <2> QED
    BY <2>1, <2>2
<1>3. HasLast(t)
  <2> SUFFICES ASSUME NEW T \in SUBSET DOMAIN t, T # {} PROVE LastOf(T) # {}
    BY DEF HasLast
  <2>1. CASE n \in T
    <3>1. \A j \in T : j <= n
      BY <1>1
    <3> QED
      BY <2>1, <3>1 DEF LastOf
  <2>2. CASE n \notin T
    BY <2>2, <1>1 DEF NextEvent, Ordered, HasLast
  <2> QED
    BY <2>1, <2>2
<1>4. Withdrawn(t)
  <2> SUFFICES ASSUME NEW i \in DOMAIN t, NEW j \in DOMAIN t, t[i].id \in t[j].supersedes
               PROVE  t[i].action = "confirm" \/ t[i].scope = "design-and-plan"
    BY DEF Withdrawn
  <2>1. t[i].id = i /\ t[j].supersedes \subseteq 1 .. j - 1
    BY <1>2 DEF Numbered
  <2>2. i \in DOMAIN s
    <3>1. i \in Nat /\ j \in Nat /\ j <= n
      BY <1>1
    <3>2. i <= j - 1
      BY <2>1, <3>1
    <3> QED
      BY <3>1, <3>2, <1>1
  <2>3. CASE j = n
    BY <2>1, <2>2, <2>3, <1>1 DEF NextEvent
  <2>4. CASE j # n
    BY <2>2, <2>4, <1>1 DEF NextEvent, Ordered, Withdrawn
  <2> QED
    BY <2>3, <2>4
<1> QED
  BY <1>2, <1>3, <1>4 DEF Ordered, t

\* What an event does not speak of stays as the ledger showed it.
LEMMA OtherIntents ==
  ASSUME NEW s, NEW e, NextEvent(s, e), NEW x, e.intent # x \/ e.scope # "design-and-plan"
  PROVE  ActiveDesignVeto(Append(s, e), x) = ActiveDesignVeto(s, x)
<1> DEFINE t == Append(s, e)
           n == Len(s) + 1
<1>1. /\ DOMAIN t = DOMAIN s \cup {n} /\ n \notin DOMAIN s
      /\ t[n] = e /\ \A i \in DOMAIN s : t[i] = s[i]
  BY Appending DEF NextEvent
<1> HIDE DEF t, n
<1>2. OnDesign(t, x) = OnDesign(s, x)
  BY <1>1 DEF OnDesign
<1>3. \A k \in LastOf(OnDesign(s, x)) : t[k] = s[k]
  BY <1>1 DEF OnDesign, LastOf
<1> QED
  BY <1>2, <1>3 DEF ActiveDesignVeto, t

LEMMA VetoAppended ==
  ASSUME NEW s, NEW e, NextEvent(s, e), e.action = "veto", e.scope = "design-and-plan"
  PROVE  ActiveDesignVeto(Append(s, e), e.intent) # {}
<1> DEFINE t == Append(s, e)
           n == Len(s) + 1
<1>1. /\ DOMAIN t = DOMAIN s \cup {n} /\ t[n] = e /\ n \in Nat /\ \A i \in DOMAIN t : i <= n
  BY Appending DEF NextEvent
<1> HIDE DEF t, n
<1>2. n \in LastOf(OnDesign(t, e.intent))
  BY <1>1 DEF LastOf, OnDesign
<1> QED
  BY <1>1, <1>2 DEF ActiveDesignVeto, t

\* The event appended is in force, and no other comes into force.
LEMMA ActiveAppended ==
  ASSUME NEW s, NEW e, NextEvent(s, e)
  PROVE  LET t == Append(s, e)
         IN  /\ Len(s) + 1 \in ActiveDecisions(t)
             /\ \A i \in DOMAIN s : i \in ActiveDecisions(t) <=>
                                      i \in ActiveDecisions(s) /\ i \notin e.supersedes
             /\ ActiveDecisions(t) \subseteq ActiveDecisions(s) \cup {Len(s) + 1}
<1> DEFINE t == Append(s, e)
           n == Len(s) + 1
<1>1. /\ n \in Nat /\ DOMAIN s \subseteq Nat /\ n \in DOMAIN t
      /\ DOMAIN t = DOMAIN s \cup {n} /\ n \notin DOMAIN s
      /\ t[n] = e /\ \A i \in DOMAIN s : t[i] = s[i] /\ i < n
  BY Appending DEF NextEvent
<1>2. Numbered(t) /\ Numbered(s)
  BY OrderedAppend DEF Ordered, NextEvent
<1> HIDE DEF t, n
<1>3. \A j \in DOMAIN t : n \notin t[j].supersedes
  <2> SUFFICES ASSUME NEW j \in DOMAIN t, n \in t[j].supersedes PROVE FALSE
    OBVIOUS
  <2>1. n \in 1 .. j - 1
    BY <1>2 DEF Numbered
  <2>2. j \in Nat /\ j <= n
    BY <1>1
  <2> QED
    BY <2>1, <2>2, <1>1
<1>4. n \in ActiveDecisions(t)
  BY <1>1, <1>2, <1>3 DEF ActiveDecisions, Numbered
<1>5. \A i \in DOMAIN s : t[i].id = i /\ s[i].id = i
  BY <1>1, <1>2 DEF Numbered
<1>6. ASSUME NEW i \in DOMAIN s
      PROVE  i \in ActiveDecisions(t) <=> i \in ActiveDecisions(s) /\ i \notin e.supersedes
  <2>1. i \in ActiveDecisions(t) <=> \A j \in DOMAIN t : i \notin t[j].supersedes
    BY <1>1, <1>5 DEF ActiveDecisions
  <2>2. i \in ActiveDecisions(s) <=> \A j \in DOMAIN s : i \notin s[j].supersedes
    BY <1>5 DEF ActiveDecisions
  <2>3. (\A j \in DOMAIN t : i \notin t[j].supersedes) <=>
          (\A j \in DOMAIN s : i \notin s[j].supersedes) /\ i \notin e.supersedes
    BY <1>1
  <2> QED
    BY <2>1, <2>2, <2>3
<1>7. ActiveDecisions(t) \subseteq DOMAIN t
  BY DEF ActiveDecisions
<1> QED
  BY <1>1, <1>4, <1>6, <1>7 DEF t, n

\* A rejection in force stays so unless its own contract is confirmed.
LEMMA StillRejects ==
  ASSUME NEW s, NEW e, NextEvent(s, e), NEW c, NEW k \in DOMAIN s, Rejects(s, k, c),
         e.action = "veto" \/ e.reviewed # c
  PROVE  k \in DOMAIN Append(s, e) /\ Rejects(Append(s, e), k, c)
<1> DEFINE t == Append(s, e)
           n == Len(s) + 1
<1>1. /\ DOMAIN t = DOMAIN s \cup {n} /\ n \notin DOMAIN s
      /\ t[n] = e /\ \A i \in DOMAIN s : t[i] = s[i]
  BY Appending DEF NextEvent
<1>2. /\ \A i \in DOMAIN s : i \in ActiveDecisions(t) <=>
                               i \in ActiveDecisions(s) /\ i \notin e.supersedes
      /\ ActiveDecisions(t) \subseteq ActiveDecisions(s) \cup {n}
  BY ActiveAppended
<1> HIDE DEF t, n
<1>3. s[k].action = "veto" /\ s[k].scope = "plan-only"
  BY DEF Rejects
<1>4. k \notin e.supersedes
  BY <1>3 DEF NextEvent
<1>5. k \in ActiveDecisions(s) /\ s[k].reviewed = c
  BY DEF Rejects, OnContract
<1>6. k \in OnContract(t, c)
  BY <1>1, <1>2, <1>4, <1>5 DEF OnContract
<1>7. ASSUME NEW j \in OnContract(t, c), j > k
      PROVE  t[j].action = "veto"
  <2>1. j \in ActiveDecisions(t) /\ t[j].reviewed = c /\ j \in DOMAIN t
    BY DEF OnContract, ActiveDecisions
  <2>2. CASE j = n
    BY <2>1, <2>2, <1>1
  <2>3. CASE j # n
    <3>1. j \in DOMAIN s /\ j \in ActiveDecisions(s) /\ s[j].reviewed = c
      BY <2>1, <2>3, <1>1, <1>2
    <3>2. j \in OnContract(s, c)
      BY <3>1 DEF OnContract
    <3> QED
      BY <3>1, <3>2, <1>1, <1>7 DEF Rejects
  <2> QED
    BY <2>2, <2>3
<1> QED
  BY <1>1, <1>3, <1>6, <1>7 DEF Rejects, t

LEMMA NowRejects ==
  ASSUME NEW s, NEW e, NextEvent(s, e), e.action = "veto", e.scope = "plan-only"
  PROVE  \E k \in DOMAIN Append(s, e) : Rejects(Append(s, e), k, e.reviewed)
<1> DEFINE t == Append(s, e)
           n == Len(s) + 1
<1>1. /\ n \in DOMAIN t /\ t[n] = e /\ n \in Nat /\ \A i \in DOMAIN t : i <= n /\ i \in Nat
  BY Appending DEF NextEvent
<1>2. n \in ActiveDecisions(t)
  BY ActiveAppended
<1> HIDE DEF t, n
<1>3. n \in OnContract(t, e.reviewed)
  BY <1>1, <1>2 DEF OnContract
<1>4. \A j \in OnContract(t, e.reviewed) : ~(j > n)
  BY <1>1 DEF OnContract, ActiveDecisions
<1>5. Rejects(t, n, e.reviewed)
  BY <1>1, <1>3, <1>4 DEF Rejects
<1> QED
  BY <1>1, <1>5 DEF t

-----------------------------------------------------------------------------
(* What a ruling leaves in the ledger                                      *)

LEMMA BackedStep ==
  ASSUME NEW s, NEW t, NEW rs \in Seq(Ruling), NEW r \in Ruling, Backed(s, rs),
         \A i \in DOMAIN t :
           \/ i \in DOMAIN s /\ t[i] = s[i]
           \/ t[i].action = "confirm" => r = ApprovedBy(t[i])
  PROVE  Backed(t, Append(rs, r))
<1> DEFINE us == Append(rs, r)
<1>1. /\ DOMAIN us = DOMAIN rs \cup {Len(rs) + 1} /\ us[Len(rs) + 1] = r
      /\ \A k \in DOMAIN rs : us[k] = rs[k]
  BY Appending
<1> HIDE DEF us
<1>2. ASSUME NEW i \in DOMAIN t, t[i].action = "confirm"
      PROVE  \E k \in DOMAIN us : us[k] = ApprovedBy(t[i])
  <2>1. CASE i \in DOMAIN s /\ t[i] = s[i]
    <3>1. PICK k \in DOMAIN rs : rs[k] = ApprovedBy(s[i])
      BY <2>1, <1>2 DEF Backed
    <3> QED
      BY <3>1, <2>1, <1>1
  <2>2. CASE r = ApprovedBy(t[i])
    BY <2>2, <1>1
  <2> QED
    BY <2>1, <2>2, <1>2
<1> QED
  BY <1>2 DEF Backed, us

LEMMA VetoShowsStep ==
  ASSUME NEW s, NEW t, NEW rs \in Seq(Ruling), NEW r \in Ruling, VetoShows(s, rs),
         \A x \in Intent :
           \/ r.kind = "approve" /\ r.contract.intent = x
           \/ ActiveDesignVeto(t, x) = ActiveDesignVeto(s, x)
           \/ ActiveDesignVeto(t, x) # {},
         r.kind = "veto" => ActiveDesignVeto(t, r.contract.intent) # {}
  PROVE  VetoShows(t, Append(rs, r))
<1> DEFINE us == Append(rs, r)
           n == Len(rs) + 1
<1>1. /\ DOMAIN us = DOMAIN rs \cup {n} /\ us[n] = r /\ n \in Nat
      /\ \A k \in DOMAIN rs : us[k] = rs[k] /\ n > k /\ k # n
  BY Appending
<1> HIDE DEF us, n
<1> SUFFICES ASSUME NEW i \in DOMAIN us, NEW x \in Intent, us[i].kind = "veto",
                    us[i].contract.intent = x, ~LiftedIntent(us, i, x)
             PROVE  ActiveDesignVeto(t, x) # {}
  BY DEF VetoShows, us
<1>2. CASE i = n
  BY <1>1, <1>2
<1>3. CASE i \in DOMAIN rs
  <2>1. ~(r.kind = "approve" /\ r.contract.intent = x)
    BY <1>1, <1>3 DEF LiftedIntent
  <2>2. ~LiftedIntent(rs, i, x)
    BY <1>1, <1>3 DEF LiftedIntent
  <2>3. ActiveDesignVeto(s, x) # {}
    BY <1>1, <1>3, <2>2 DEF VetoShows
  <2> QED
    BY <2>1, <2>3
<1> QED
  BY <1>1, <1>2, <1>3

LEMMA RequestShowsStep ==
  ASSUME NEW s, NEW t, NEW rs \in Seq(Ruling), NEW r \in Ruling, RequestShows(s, rs),
         \A c \in Contracts :
           \/ r.kind = "approve" /\ r.contract = c
           \/ \A k \in DOMAIN s : Rejects(s, k, c) => k \in DOMAIN t /\ Rejects(t, k, c),
         r.kind = "request-changes" => \E k \in DOMAIN t : Rejects(t, k, r.contract)
  PROVE  RequestShows(t, Append(rs, r))
<1> DEFINE us == Append(rs, r)
           n == Len(rs) + 1
<1>1. /\ DOMAIN us = DOMAIN rs \cup {n} /\ us[n] = r /\ n \in Nat
      /\ \A k \in DOMAIN rs : us[k] = rs[k] /\ n > k /\ k # n
  BY Appending
<1> HIDE DEF us, n
<1> SUFFICES ASSUME NEW i \in DOMAIN us, NEW c \in Contracts, us[i].kind = "request-changes",
                    us[i].contract = c, ~LiftedContract(us, i, c)
             PROVE  \E k \in DOMAIN t : Rejects(t, k, c)
  BY DEF RequestShows, us
<1>2. CASE i = n
  BY <1>1, <1>2
<1>3. CASE i \in DOMAIN rs
  <2>1. ~(r.kind = "approve" /\ r.contract = c)
    BY <1>1, <1>3 DEF LiftedContract
  <2>2. ~LiftedContract(rs, i, c)
    BY <1>1, <1>3 DEF LiftedContract
  <2>3. PICK k \in DOMAIN s : Rejects(s, k, c)
    BY <1>1, <1>3, <2>2 DEF RequestShows
  <2> QED
    BY <2>1, <2>3
<1> QED
  BY <1>1, <1>2, <1>3

-----------------------------------------------------------------------------
(* The events of the decisions                                             *)

LEMMA EventIs ==
  ASSUME NEW action \in {"confirm", "veto"}, NEW scope \in {"design-and-plan", "plan-only"},
         NEW p \in Proposals, NEW d \in Section, NEW digest \in Digests,
         NEW sup \in SUBSET (1 .. Len(shape)), shape \in Seq(Events), Ordered(shape),
         \A i \in DOMAIN shape :
           i \in sup => shape[i].action = "confirm" \/ shape[i].scope = "design-and-plan"
  PROVE  LET e == Event(action, scope, p, d, digest, sup)
         IN  /\ NextEvent(shape, e)
             /\ e.action = action /\ e.scope = scope /\ e.intent = d.intent
             /\ e.design = p.ref /\ e.proposal = digest /\ e.reviewed = Contract(p, d)
<1> DEFINE e == Event(action, scope, p, d, digest, sup)
<1>1. NextId \in Nat /\ NextId = Len(shape) + 1 /\ sup \in SUBSET Nat
  BY DEF NextId
<1>2. Contract(p, d) \in Contracts /\ d.intent \in Intent /\ p.ref \in Section
  BY DEF Contract, Contracts, Proposals, Section
<1>3. /\ e.id = Len(shape) + 1 /\ e.supersedes = sup
      /\ e.action = action /\ e.scope = scope /\ e.intent = d.intent
      /\ e.design = p.ref /\ e.proposal = digest /\ e.reviewed = Contract(p, d)
  BY <1>1 DEF Event
<1>4. e \in Events
  BY <1>1, <1>2 DEF Event, Events
<1> QED
  BY <1>3, <1>4 DEF NextEvent

LEMMA DigestTyped ==
  ASSUME NEW p \in Proposals
  PROVE  Digest(p) \in Digests /\ Digest(p)[1] = p.plan
BY DEF Digest, Digests, Proposals

LEMMA VetoIds ==
  ASSUME shape \in Seq(Events), Ordered(shape), NEW x
  PROVE  /\ ActiveDesignVeto(shape, x) \subseteq 1 .. Len(shape)
         /\ \A i \in DOMAIN shape :
              i \in ActiveDesignVeto(shape, x) => shape[i].scope = "design-and-plan"
<1>1. \A i \in DOMAIN shape : shape[i].id = i
  BY DEF Ordered, Numbered
<1>2. LastOf(OnDesign(shape, x)) \subseteq {i \in DOMAIN shape : shape[i].scope = "design-and-plan"}
  BY DEF LastOf, OnDesign
<1>3. \A i \in ActiveDesignVeto(shape, x) : i \in LastOf(OnDesign(shape, x))
  BY <1>1, <1>2 DEF ActiveDesignVeto
<1>4. DOMAIN shape = 1 .. Len(shape)
  OBVIOUS
<1> QED
  BY <1>2, <1>3, <1>4

LEMMA ConfirmationIds ==
  ASSUME shape \in Seq(Events), Ordered(shape), NEW p, NEW digest
  PROVE  /\ Confirmation(p, digest) \subseteq 1 .. Len(shape)
         /\ \A i \in DOMAIN shape :
              i \in Confirmation(p, digest) => shape[i].action = "confirm"
<1> DEFINE K == {k \in ActiveDecisions(shape) : Confirms(shape[k], p.ref, digest)}
<1>1. \A i \in DOMAIN shape : shape[i].id = i
  BY DEF Ordered, Numbered
<1>2. K \subseteq {i \in DOMAIN shape : shape[i].action = "confirm"}
  BY DEF ActiveDecisions, Confirms
<1>3. LastOf(K) \subseteq K
  BY DEF LastOf
<1> HIDE DEF K
<1>4. Confirmation(p, digest) = {shape[i].id : i \in LastOf(K)}
  BY DEF Confirmation, K
<1>5. \A i \in Confirmation(p, digest) : i \in K
  BY <1>1, <1>2, <1>3, <1>4
<1>6. DOMAIN shape = 1 .. Len(shape)
  OBVIOUS
<1> QED
  BY <1>2, <1>5, <1>6

\* Whether a rejection is appended or one is in force already, the ledger shows
\* it afterwards and nothing it showed is lost.
LEMMA RejectionKeeps ==
  ASSUME RulingInv, NEW scope \in {"design-and-plan", "plan-only"}, NEW r \in Ruling,
         r.contract = Contract(proposal, design), r.kind # "approve",
         r.kind = "veto" => scope = "design-and-plan",
         r.kind = "request-changes" => scope = "plan-only"
  PROVE  LET t == AppendRejection(proposal, design, scope)
         IN  t \in Seq(Events) /\ Ordered(t) /\ Shown(t, Append(rulings, r))
<1> DEFINE t == AppendRejection(proposal, design, scope)
           c == Contract(proposal, design)
           digest == IF proposal.stored = NoDigest THEN Digest(proposal) ELSE proposal.stored
           e == Event("veto", scope, proposal, design, digest, Confirmation(proposal, digest))
           said == IF scope = "plan-only"
                     THEN \E i \in MatchingRejection(shape, c) : shape[i].scope = scope
                     ELSE ActiveDesignVeto(shape, design.intent) # {}
<1>1. shape \in Seq(Events) /\ Ordered(shape) /\ rulings \in Seq(Ruling)
      /\ proposal \in Proposals /\ design \in Section
      /\ Backed(shape, rulings) /\ VetoShows(shape, rulings) /\ RequestShows(shape, rulings)
  BY DEF RulingInv, Typed, Shown
<1>2. t = IF said THEN shape ELSE Append(shape, e)
  BY DEF AppendRejection
<1>3. c.intent = design.intent /\ design.intent \in Intent /\ c \in Contracts
  BY <1>1 DEF Contract, Contracts, Proposals, Section
<1>4. CASE said
  <2>1. t = shape
    BY <1>2, <1>4
  <2>2. Backed(t, Append(rulings, r))
    BY <1>1, <2>1, BackedStep
  <2>3. VetoShows(t, Append(rulings, r))
    <3>1. r.kind = "veto" => ActiveDesignVeto(t, r.contract.intent) # {}
      BY <2>1, <1>3, <1>4
    <3> QED
      BY <3>1, <1>1, <2>1, VetoShowsStep
  <2>4. RequestShows(t, Append(rulings, r))
    <3>1. ASSUME r.kind = "request-changes"
          PROVE  \E k \in DOMAIN t : Rejects(t, k, r.contract)
      <4>1. PICK i \in MatchingRejection(shape, c) : shape[i].scope = "plan-only"
        BY <1>4, <3>1
      <4>2. i \in LastOf(OnContract(shape, c)) /\ shape[i].action = "veto"
        BY DEF MatchingRejection
      <4>3. i \in OnContract(shape, c) /\ \A j \in OnContract(shape, c) : j <= i
        BY <4>2 DEF LastOf
      <4>4. OnContract(shape, c) \subseteq Nat /\ OnContract(shape, c) \subseteq DOMAIN shape
        BY <1>1 DEF OnContract, ActiveDecisions
      <4>5. \A j \in OnContract(shape, c) : ~(j > i)
        BY <4>3, <4>4
      <4>6. Rejects(shape, i, c)
        BY <4>1, <4>2, <4>3, <4>5 DEF Rejects
      <4> QED
        BY <4>3, <4>4, <4>6, <2>1
    <3> QED
      BY <3>1, <1>1, <2>1, RequestShowsStep
  <2> QED
    BY <1>1, <2>1, <2>2, <2>3, <2>4 DEF Shown
<1>5. CASE ~said
  <2>1. t = Append(shape, e)
    BY <1>2, <1>5
  <2>2. digest \in Digests
    BY <1>1, DigestTyped DEF Proposals
  <2>3. /\ NextEvent(shape, e)
        /\ e.action = "veto" /\ e.scope = scope /\ e.intent = design.intent /\ e.reviewed = c
    <3>1. /\ Confirmation(proposal, digest) \subseteq 1 .. Len(shape)
          /\ \A i \in DOMAIN shape :
               i \in Confirmation(proposal, digest) => shape[i].action = "confirm"
      BY <1>1, ConfirmationIds
    <3> QED
      BY <1>1, <2>2, <3>1, EventIs
  <2> HIDE DEF e, t, digest, said
  <2>4. t \in Seq(Events) /\ Ordered(t)
    BY <2>1, <2>3, OrderedAppend, Appending DEF NextEvent
  <2>5. /\ DOMAIN t = DOMAIN shape \cup {Len(shape) + 1} /\ t[Len(shape) + 1] = e
        /\ \A i \in DOMAIN shape : t[i] = shape[i]
    BY <2>1, <2>3, Appending DEF NextEvent
  <2>6. Backed(t, Append(rulings, r))
    <3>1. \A i \in DOMAIN t : \/ i \in DOMAIN shape /\ t[i] = shape[i]
                              \/ t[i].action = "confirm" => r = ApprovedBy(t[i])
      BY <2>3, <2>5
    <3> QED
      BY <3>1, <1>1, BackedStep
  <2>7. VetoShows(t, Append(rulings, r))
    <3>1. ASSUME NEW x \in Intent, ActiveDesignVeto(t, x) # ActiveDesignVeto(shape, x)
          PROVE  ActiveDesignVeto(t, x) # {}
      <4>1. e.intent = x /\ e.scope = "design-and-plan"
        BY <3>1, <2>1, <2>3, OtherIntents
      <4> QED
        BY <4>1, <2>1, <2>3, VetoAppended
    <3>2. r.kind = "veto" => ActiveDesignVeto(t, r.contract.intent) # {}
      BY <1>3, <2>1, <2>3, VetoAppended
    <3> QED
      BY <3>1, <3>2, <1>1, VetoShowsStep
  <2>8. RequestShows(t, Append(rulings, r))
    <3>1. \A b \in Contracts : \A k \in DOMAIN shape :
            Rejects(shape, k, b) => k \in DOMAIN t /\ Rejects(t, k, b)
      BY <2>1, <2>3, StillRejects
    <3>2. r.kind = "request-changes" => \E k \in DOMAIN t : Rejects(t, k, r.contract)
      BY <2>1, <2>3, NowRejects
    <3> QED
      BY <3>1, <3>2, <1>1, RequestShowsStep
  <2> QED
    BY <2>4, <2>6, <2>7, <2>8 DEF Shown, t
<1> QED
  BY <1>4, <1>5

\* An approval stands behind the confirmation it appends, and lifts what that hides.
LEMMA ConfirmationKeeps ==
  ASSUME RulingInv, NEW p \in Proposals, NEW d \in Section, NEW r \in Ruling,
         r = [kind |-> "approve", contract |-> Contract(p, d)],
         p.ref = d, p.stored \in Digests, p.stored[1] = p.plan
  PROVE  LET t == AppendConfirmation(p, d)
         IN  t \in Seq(Events) /\ Ordered(t) /\ Shown(t, Append(rulings, r))
<1> DEFINE t == AppendConfirmation(p, d)
           e == Event("confirm", "design-and-plan", p, d, p.stored,
                      ActiveDesignVeto(shape, d.intent))
<1>1. shape \in Seq(Events) /\ Ordered(shape) /\ rulings \in Seq(Ruling)
      /\ Backed(shape, rulings) /\ VetoShows(shape, rulings) /\ RequestShows(shape, rulings)
  BY DEF RulingInv, Typed, Shown
<1>2. t = shape \/ t = Append(shape, e)
  BY DEF AppendConfirmation
<1>3. r.kind = "approve" /\ r.contract.intent = d.intent /\ r.contract = Contract(p, d)
  BY DEF Contract
<1>4. CASE t = shape
  <2>1. Backed(t, Append(rulings, r))
    BY <1>1, <1>4, BackedStep
  <2>2. VetoShows(t, Append(rulings, r))
    BY <1>1, <1>3, <1>4, VetoShowsStep
  <2>3. RequestShows(t, Append(rulings, r))
    BY <1>1, <1>3, <1>4, RequestShowsStep
  <2> QED
    BY <1>1, <1>4, <2>1, <2>2, <2>3 DEF Shown
<1>5. CASE t = Append(shape, e)
  <2>1. /\ NextEvent(shape, e)
        /\ e.action = "confirm" /\ e.intent = d.intent /\ e.design = p.ref
        /\ e.proposal = p.stored /\ e.reviewed = Contract(p, d)
    <3>1. /\ ActiveDesignVeto(shape, d.intent) \subseteq 1 .. Len(shape)
          /\ \A i \in DOMAIN shape :
               i \in ActiveDesignVeto(shape, d.intent) => shape[i].scope = "design-and-plan"
      BY <1>1, VetoIds
    <3> QED
      BY <1>1, <3>1, EventIs
  <2> HIDE DEF e, t
  <2>2. t \in Seq(Events) /\ Ordered(t)
    BY <1>5, <2>1, OrderedAppend, Appending DEF NextEvent
  <2>3. /\ DOMAIN t = DOMAIN shape \cup {Len(shape) + 1} /\ t[Len(shape) + 1] = e
        /\ \A i \in DOMAIN shape : t[i] = shape[i]
    BY <1>5, <2>1, Appending DEF NextEvent
  <2>4. Backed(t, Append(rulings, r))
    <3>1. r = ApprovedBy(e)
      BY <2>1 DEF ApprovedBy, Contract
    <3>2. \A i \in DOMAIN t : \/ i \in DOMAIN shape /\ t[i] = shape[i]
                              \/ t[i].action = "confirm" => r = ApprovedBy(t[i])
      BY <3>1, <2>3
    <3> QED
      BY <3>2, <1>1, BackedStep
  <2>5. VetoShows(t, Append(rulings, r))
    <3>1. \A x \in Intent : \/ r.contract.intent = x
                            \/ ActiveDesignVeto(t, x) = ActiveDesignVeto(shape, x)
      BY <1>3, <1>5, <2>1, OtherIntents
    <3> QED
      BY <3>1, <1>1, <1>3, VetoShowsStep
  <2>6. RequestShows(t, Append(rulings, r))
    <3>1. ASSUME NEW b \in Contracts, r.contract # b, NEW k \in DOMAIN shape,
                 Rejects(shape, k, b)
          PROVE  k \in DOMAIN t /\ Rejects(t, k, b)
      <4>1. e.reviewed # b
        BY <3>1, <1>3, <2>1
      <4> QED
        BY <4>1, <3>1, <1>5, <2>1, StillRejects
    <3> QED
      BY <3>1, <1>1, <1>3, RequestShowsStep
  <2> QED
    BY <2>2, <2>4, <2>5, <2>6 DEF Shown, t
<1> QED
  BY <1>2, <1>4, <1>5

-----------------------------------------------------------------------------
(* The steps                                                               *)

LEMMA RuleIs ==
  ASSUME RulingInv, NEW kind \in {"approve", "veto", "request-changes"}, Rule(kind)
  PROVE  LET r == [kind |-> kind, contract |-> Contract(proposal, design)]
         IN  r \in Ruling /\ rulings' = Append(rulings, r) /\ rulings' \in Seq(Ruling)
             /\ revisions' = revisions
<1> DEFINE r == [kind |-> kind, contract |-> Contract(proposal, design)]
<1>1. r \in Ruling
  BY DEF RulingInv, Typed, Ruling, Contract, Contracts, Proposals, Section
<1>2. rulings' = Append(rulings, r) /\ revisions' = revisions /\ rulings \in Seq(Ruling)
  BY DEF Rule, RulingInv, Typed
<1> QED
  BY <1>1, <1>2

LEMMA ApproveKeeps == RulingInv /\ Approve => RulingInv'
<1> SUFFICES ASSUME RulingInv, Approve PROVE RulingInv'
  OBVIOUS
<1> DEFINE section == [design EXCEPT !.authority = "human-confirmed"]
           bound == [proposal EXCEPT !.ref = section, !.status = "approved"]
           stored == [bound EXCEPT !.stored = Digest(bound)]
           r == [kind |-> "approve", contract |-> Contract(proposal, design)]
<1>1. design \in Section /\ proposal \in Proposals /\ revisions \in Nat
  BY DEF RulingInv, Typed
<1>2. section \in Section /\ section.intent = design.intent
  BY <1>1 DEF Section
<1>3. design' = section /\ proposal' = stored /\ shape' = AppendConfirmation(stored, section)
      /\ Rule("approve")
  BY DEF Approve
<1> HIDE DEF section
<1>4. bound \in Proposals /\ bound.plan = proposal.plan /\ bound.ref = section
  BY <1>1, <1>2 DEF Proposals, Status
<1> HIDE DEF bound
<1>5. Digest(bound) \in Digests /\ Digest(bound)[1] = bound.plan
  BY <1>4, DigestTyped
<1>6. /\ stored \in Proposals /\ stored.plan = proposal.plan /\ stored.ref = section
      /\ stored.stored = Digest(bound)
  BY <1>4, <1>5 DEF Proposals
<1> HIDE DEF stored
<1>7. Contract(stored, section) = Contract(proposal, design)
  BY <1>2, <1>6 DEF Contract
<1>8. /\ r \in Ruling /\ rulings' = Append(rulings, r) /\ rulings' \in Seq(Ruling)
      /\ revisions' = revisions
  BY <1>3, RuleIs
<1>9. stored.stored \in Digests /\ stored.stored[1] = stored.plan
  BY <1>4, <1>5, <1>6
<1>10. shape' \in Seq(Events) /\ Ordered(shape') /\ Shown(shape', rulings')
  BY <1>2, <1>3, <1>6, <1>7, <1>8, <1>9, ConfirmationKeeps
<1> QED
  BY <1>1, <1>2, <1>3, <1>6, <1>8, <1>10 DEF RulingInv, Typed

LEMMA DraftTyped ==
  ASSUME NEW p \in Proposals
  PROVE  Draft(p) \in Proposals
<1>1. NoDigest \in Digests /\ p.revised + 1 \in Nat /\ "draft" \in Status
  BY DEF Proposals, Digests, Status
<1> QED
  BY <1>1 DEF Draft, Proposals

LEMMA VetoKeeps == RulingInv /\ Veto => RulingInv'
<1> SUFFICES ASSUME RulingInv, Veto PROVE RulingInv'
  OBVIOUS
<1> DEFINE section == IF design.author = "agent"
                        THEN [design EXCEPT !.authority = "agent-provisional"] ELSE design
           r == [kind |-> "veto", contract |-> Contract(proposal, design)]
<1>1. design \in Section /\ proposal \in Proposals /\ revisions \in Nat
  BY DEF RulingInv, Typed
<1>2. section \in Section
  BY <1>1 DEF Section
<1>3. /\ design' = section /\ proposal' = Draft([proposal EXCEPT !.ref = section])
      /\ shape' = AppendRejection(proposal, design, "design-and-plan") /\ Rule("veto")
  BY DEF Veto
<1> HIDE DEF section
<1>4. [proposal EXCEPT !.ref = section] \in Proposals
  BY <1>1, <1>2 DEF Proposals
<1>5. proposal' \in Proposals
  BY <1>3, <1>4, DraftTyped
<1>6. /\ r \in Ruling /\ rulings' = Append(rulings, r) /\ rulings' \in Seq(Ruling)
      /\ revisions' = revisions
  BY <1>3, RuleIs
<1>7. shape' \in Seq(Events) /\ Ordered(shape') /\ Shown(shape', rulings')
  <2>1. r.contract = Contract(proposal, design) /\ r.kind = "veto"
    OBVIOUS
  <2> HIDE DEF r
  <2> QED
    BY <1>3, <1>6, <2>1, RejectionKeeps
<1> QED
  BY <1>1, <1>2, <1>3, <1>5, <1>6, <1>7 DEF RulingInv, Typed

LEMMA RequestKeeps == RulingInv /\ RequestChanges => RulingInv'
<1> SUFFICES ASSUME RulingInv, RequestChanges PROVE RulingInv'
  OBVIOUS
<1> DEFINE r == [kind |-> "request-changes", contract |-> Contract(proposal, design)]
<1>1. design \in Section /\ proposal \in Proposals /\ revisions \in Nat
  BY DEF RulingInv, Typed
<1>2. /\ design' = design /\ proposal' = Draft(proposal)
      /\ shape' = AppendRejection(proposal, design, "plan-only") /\ Rule("request-changes")
  BY DEF RequestChanges
<1>3. proposal' \in Proposals
  BY <1>1, <1>2, DraftTyped
<1>4. /\ r \in Ruling /\ rulings' = Append(rulings, r) /\ rulings' \in Seq(Ruling)
      /\ revisions' = revisions
  BY <1>2, RuleIs
<1>5. shape' \in Seq(Events) /\ Ordered(shape') /\ Shown(shape', rulings')
  <2>1. r.contract = Contract(proposal, design) /\ r.kind = "request-changes"
    OBVIOUS
  <2> HIDE DEF r
  <2> QED
    BY <1>2, <1>4, <2>1, RejectionKeeps
<1> QED
  BY <1>1, <1>2, <1>3, <1>4, <1>5 DEF RulingInv, Typed

\* The edits of agents change nothing that the ledger rests on.
LEMMA EditKeeps == RulingInv /\ (EditProposal \/ EditDesign) => RulingInv'
<1> SUFFICES ASSUME RulingInv, EditProposal \/ EditDesign PROVE RulingInv'
  OBVIOUS
<1>1. design \in Section /\ proposal \in Proposals /\ revisions \in Nat
  BY DEF RulingInv, Typed
<1>2. shape' = shape /\ rulings' = rulings /\ revisions' \in Nat
  <2>1. Revise
    BY DEF EditProposal, EditDesign
  <2> QED
    BY <1>1, <2>1 DEF Revise
<1>3. CASE EditDesign
  BY <1>1, <1>2, <1>3 DEF EditDesign, Section, RulingInv, Typed
<1>4. CASE EditProposal
  <2>1. PICK plan \in Plan, status \in Status, ref \in {proposal.ref, design},
              revised \in 0 .. proposal.revised :
           LET p == [proposal EXCEPT !.plan = plan, !.status = status, !.ref = ref,
                                     !.revised = revised]
           IN  \E stored \in {proposal.stored, NoDigest, Digest(p)} :
                 proposal' = [p EXCEPT !.stored = stored]
    BY <1>4 DEF EditProposal
  <2> DEFINE p == [proposal EXCEPT !.plan = plan, !.status = status, !.ref = ref,
                                   !.revised = revised]
  <2>2. PICK stored \in {proposal.stored, NoDigest, Digest(p)} :
           proposal' = [p EXCEPT !.stored = stored]
    BY <2>1
  <2>3. p \in Proposals
    <3>1. revised \in Nat /\ ref \in Section
      BY <1>1 DEF Proposals
    <3> QED
      BY <3>1, <1>1 DEF Proposals
  <2>4. stored \in Digests
    BY <1>1, <2>3, DigestTyped DEF Proposals, Digests
  <2> HIDE DEF p
  <2>5. proposal' \in Proposals
    BY <2>2, <2>3, <2>4 DEF Proposals
  <2>6. design' = design
    BY <1>4 DEF EditProposal
  <2> QED
    BY <1>1, <1>2, <2>5, <2>6 DEF RulingInv, Typed
<1> QED
  BY <1>3, <1>4

LEMMA RulingsBegin == AuthorityInit => RulingInv
<1> SUFFICES ASSUME AuthorityInit PROVE RulingInv
  OBVIOUS
<1>1. shape = <<>> /\ rulings = <<>> /\ revisions \in Nat /\ design \in Section
  BY AuthorityAssumption DEF AuthorityInit
<1>2. proposal \in Proposals
  BY <1>1, AuthorityAssumption DEF AuthorityInit, Proposals, Plan, Status, Digests
<1>3. DOMAIN shape = {} /\ DOMAIN rulings = {} /\ shape \in Seq(Events) /\ rulings \in Seq(Ruling)
  BY <1>1
<1>4. Ordered(shape)
  BY <1>3 DEF Ordered, Numbered, HasLast, Withdrawn
<1>5. Shown(shape, rulings)
  BY <1>3 DEF Shown, Backed, VetoShows, RequestShows
<1> QED
  BY <1>1, <1>2, <1>3, <1>4, <1>5 DEF RulingInv, Typed

LEMMA RulingsInvariance == AuthoritySpec => []RulingInv
<1>1. RulingInv /\ [AuthorityNext]_authorityVars => RulingInv'
  <2> SUFFICES ASSUME RulingInv, [AuthorityNext]_authorityVars PROVE RulingInv'
    OBVIOUS
  <2>1. CASE UNCHANGED authorityVars
    BY <2>1 DEF authorityVars, RulingInv, Typed
  <2> QED
    BY <2>1, ApproveKeeps, VetoKeeps, RequestKeeps, EditKeeps DEF AuthorityNext
<1> QED
  BY <1>1, RulingsBegin, PTL DEF AuthoritySpec

-----------------------------------------------------------------------------
(* What follows                                                            *)

\* The proposal, the design section and the events stay in their vocabulary,
\* and an event supersedes only earlier ones.
THEOREM AuthorityTyping == AuthoritySpec => []AuthorityTypeOK
<1>1. RulingInv => AuthorityTypeOK
  BY DEF RulingInv, Typed, Ordered, Numbered, AuthorityTypeOK, Proposals
<1> QED
  BY <1>1, RulingsInvariance, PTL

LEMMA ApprovalIsExact == RulingInv => ExactApproval
<1> SUFFICES ASSUME RulingInv, Approved(proposal, design, shape)
             PROVE  \E k \in DOMAIN rulings :
                      rulings[k] = [kind |-> "approve", contract |-> Contract(proposal, design)]
  BY DEF ExactApproval
<1>1. proposal.stored = Digest(proposal) /\ proposal.ref = design
  BY DEF Approved
<1>2. PICK i \in ActiveDecisions(shape) : Confirms(shape[i], proposal.ref, proposal.stored)
  BY DEF Approved, ExactConfirmation
<1>3. /\ i \in DOMAIN shape /\ shape[i].action = "confirm"
      /\ shape[i].design = design /\ shape[i].proposal = Digest(proposal)
  BY <1>1, <1>2 DEF ActiveDecisions, Confirms
<1>4. PICK k \in DOMAIN rulings : rulings[k] = ApprovedBy(shape[i])
  BY <1>3 DEF RulingInv, Shown, Backed
<1>5. Digest(proposal)[1] = proposal.plan
  BY DEF Digest
<1> QED
  BY <1>3, <1>4, <1>5 DEF ApprovedBy, Contract

LEMMA StandingRejections == RulingInv => RejectionStands
<1> DEFINE now == Contract(proposal, design)
           later(i) == {rulings[j] : j \in i + 1 .. Len(rulings)}
<1> SUFFICES ASSUME RulingInv, Authorised, NEW i \in DOMAIN rulings
             PROVE  /\ rulings[i].kind = "veto" /\ rulings[i].contract.intent = now.intent =>
                         \E r \in later(i) : r.kind = "approve" /\ r.contract.intent = now.intent
                    /\ rulings[i].kind = "request-changes" /\ rulings[i].contract = now =>
                         \E r \in later(i) : r.kind = "approve" /\ r.contract = now
  BY DEF RejectionStands
<1>1. /\ ActiveDesignVeto(shape, design.intent) = {}
      /\ MatchingRejection(shape, now) = {}
  BY DEF Authorised, Approved, MayRecord, Rejected
<1>2. now.intent = design.intent /\ now.intent \in Intent /\ now \in Contracts
  BY DEF RulingInv, Typed, Contract, Contracts, Proposals, Section
<1>3. \A k \in DOMAIN rulings : k > i => rulings[k] \in later(i)
  <2>1. rulings \in Seq(Ruling)
    BY DEF RulingInv, Typed
  <2>2. \A k \in DOMAIN rulings : k > i => k \in i + 1 .. Len(rulings)
    BY <2>1
  <2> QED
    BY <2>2
<1>4. ASSUME rulings[i].kind = "veto", rulings[i].contract.intent = now.intent
      PROVE  \E r \in later(i) : r.kind = "approve" /\ r.contract.intent = now.intent
  <2>1. LiftedIntent(rulings, i, now.intent)
    BY <1>1, <1>2, <1>4 DEF RulingInv, Shown, VetoShows
  <2> QED
    BY <2>1, <1>3 DEF LiftedIntent
<1>5. ASSUME rulings[i].kind = "request-changes", rulings[i].contract = now
      PROVE  \E r \in later(i) : r.kind = "approve" /\ r.contract = now
  <2>1. ASSUME NEW k \in DOMAIN shape, Rejects(shape, k, now) PROVE FALSE
    <3>1. OnContract(shape, now) \subseteq DOMAIN shape /\ k \in OnContract(shape, now)
      BY <2>1 DEF OnContract, ActiveDecisions, Rejects
    <3>2. PICK m \in LastOf(OnContract(shape, now)) : TRUE
      BY <3>1 DEF RulingInv, Ordered, HasLast
    <3>3. m \in OnContract(shape, now) /\ k <= m
      BY <3>1, <3>2 DEF LastOf
    <3>4. m \in Nat /\ k \in Nat
      BY <3>1, <3>3 DEF RulingInv, Typed
    <3>5. shape[m].action = "veto"
      BY <2>1, <3>3, <3>4 DEF Rejects
    <3>6. m \in MatchingRejection(shape, now)
      BY <3>2, <3>5 DEF MatchingRejection
    <3> QED
      BY <3>6, <1>1
  <2>2. LiftedContract(rulings, i, now)
    BY <1>2, <1>5, <2>1 DEF RulingInv, Shown, RequestShows
  <2> QED
    BY <2>2, <1>3 DEF LiftedContract
<1> QED
  BY <1>4, <1>5

\* Whatever agents write in proposal.json or in the design, the plan counts as
\* approved only where a human approved exactly it (exact_approval_state), and
\* neither a new label nor an old text brings back what a human rejected
\* (validate_approval_contract).
THEOREM RulingsAreKept == AuthoritySpec => []RulingsHold
<1>1. RulingInv => RulingsHold
  BY ApprovalIsExact, StandingRejections DEF RulingsHold
<1> QED
  BY <1>1, RulingsInvariance, PTL

(***************************************************************************)
(* The decision on disk                                                    *)
(***************************************************************************)

-----------------------------------------------------------------------------
(* The inductive invariant                                                 *)

Stages == {"idle", "look", "reading", "enter", "remove"} \cup Inside
Content == [made : SUBSET Nat, edits : SUBSET Nat]
Part == UNION {[D -> Content] : D \in SUBSET File}
Calls == [goal : {"view", "decide", "undo", "failed"}, page : Part, read : Part,
          original : Part, number : Nat, todo : SUBSET File]
Journals == [state : {"prepared", "committed"}, before : Part, after : Part]
Guards == [by : Process \cup {"none", "dead"}, stamped : BOOLEAN]
Left == [decision : Nat, edit : Nat, mishap : Nat, steal : Nat, stolen : BOOLEAN]

Shapes ==
  /\ at \in [Process -> Stages] /\ call \in [Process -> Calls]
  /\ disk \in [File -> Content]
  /\ journal \in Journals \cup {NoJournal}
  /\ guard \in Guards
  /\ basis \in Seq([touch : SUBSET File, seen : BOOLEAN])
  /\ told \subseteq Nat /\ quiet \subseteq File \X Nat
  /\ left \in Left

\* Decisions are numbered as they are made, and edits as the allowance shrinks.
Known(part, n, k) ==
  \A f \in DOMAIN part :
    /\ part[f].made \subseteq 1 .. n
    /\ \A e \in part[f].edits : k < e

\* No edit that was made outside the guard is missing.
Holds(part, edits) == \A e \in edits : e[1] \in DOMAIN part => e[2] \in part[e[1]].edits

\* What a process has in memory at a stage of its work.
Making == {"parse", "bytes", "compare", "prepare", "originals", "check", "log"}
Writing == {"write", "verify", "commit"}

Fits(s, v) ==
  /\ s \notin Inside => v.read = Nothing /\ v.original = Nothing
  /\ s = "bytes" => DOMAIN v.read = {"proposal", "receipt"} /\ DOMAIN v.original = {"receipt"}
  /\ s = "compare" => /\ DOMAIN v.read = {"proposal", "receipt", "shape"}
                      /\ DOMAIN v.original = {"proposal", "receipt"}
  /\ s = "prepare" => /\ DOMAIN v.read = {"proposal", "receipt", "shape"}
                      /\ DOMAIN v.original = {"proposal", "receipt", "shape"}
  /\ s = "originals" => DOMAIN v.read \ {"design"} \subseteq DOMAIN v.original
  /\ s \in {"check", "log"} \cup Writing => DOMAIN v.read = DOMAIN v.original
  /\ s \in {"restore", "write"} => v.todo \subseteq DOMAIN v.original

\* The page is there as long as a decision may still be made on it.
Paged(s, v) ==
  /\ s = "reading" => DOMAIN v.page = Edited
  /\ s \in Making => v.goal = "decide"
  /\ /\ v.goal = "decide"
     /\ s \in {"enter", "remove", "stamp", "recover", "restore", "drop"} \cup Making
     => DOMAIN v.page = Edited

Sound(s, v, n, k, edits) ==
  /\ Known(v.page, n, k) /\ Known(v.read, n, k) /\ Known(v.original, n, k)
  /\ Holds(v.read, edits) /\ Holds(v.original, edits)
  /\ Fits(s, v) /\ Paged(s, v)

\* The two versions in the journal hold the same edits made outside the guard.
JournalSound(j, n, k, edits) ==
  j # NoJournal =>
    /\ Known(j.before, n, k) /\ Known(j.after, n, k)
    /\ DOMAIN j.before = DOMAIN j.after
    /\ \A e \in edits : e[1] \in DOMAIN j.before =>
         (e[2] \in j.before[e[1]].edits <=> e[2] \in j.after[e[1]].edits)

Basic ==
  /\ Shapes
  /\ Known(disk, Len(basis), left.edit) /\ Holds(disk, quiet)
  /\ JournalSound(journal, Len(basis), left.edit, quiet)
  /\ \A p \in Process : Sound(at[p], call[p], Len(basis), left.edit, quiet)

\* The journal is that of the last decision, and every file in it has one of
\* its two versions as far as decisions go.
Journalled(j, d, b, t) ==
  j # NoJournal =>
    /\ Len(b) \in DOMAIN b /\ DOMAIN j.before = b[Len(b)].touch /\ Len(b) \notin t
    /\ \A f \in DOMAIN j.before :
         /\ j.before[f].made = d[f].made \ {Len(b)}
         /\ j.after[f].made = d[f].made \cup {Len(b)}
         /\ j.state = "committed" => Len(b) \in d[f].made
    /\ \A f \in File \ DOMAIN j.before : Len(b) \notin d[f].made

InAll(n, b, d) == \A f \in b[n].touch : n \in d[f].made
InNone(n, d) == \A f \in File : n \notin d[f].made

\* Apart from the one that is being written, decisions are whole.
Whole(j, d, b) ==
  \A n \in DOMAIN b : InAll(n, b, d) \/ InNone(n, d) \/ (j # NoJournal /\ n = Len(b))

Kept(d, b, t) == \A n \in t : n \in DOMAIN b /\ InAll(n, b, d)

Decided(j, d, b, t) ==
  /\ Journalled(j, d, b, t) /\ Whole(j, d, b) /\ Kept(d, b, t)
  /\ \A n \in DOMAIN b : b[n].seen

\* A decision is made on the page, though an editor may come in between.
Reads(s, v, d) ==
  /\ s = "compare" => \/ v.read["shape"] = d["shape"]
                      \/ ~(d["shape"].edits \subseteq v.page["shape"].edits)
  /\ s = "prepare" => \A f \in {"shape", "proposal"} : v.read[f] = v.page[f]
  /\ s \in {"originals", "check", "log"} =>
       \A f \in DOMAIN v.read \ {"receipt"} : v.read[f] = v.page[f]

\* What a process inside the guard knows of the disk.
Same(part, d) == \A f \in DOMAIN part : part[f].made = d[f].made

Works(s, v, j, d, n) ==
  /\ s \in Making => j = NoJournal
  /\ s \in Making \ {"parse"} => Same(v.read, d) /\ Same(v.original, d)
  /\ Reads(s, v, d)
  /\ s \in Writing =>
       /\ j = [state |-> "prepared", before |-> v.original, after |-> v.read]
       /\ v.number = n
  /\ s = "commit" => \A f \in DOMAIN v.read : n \in d[f].made
  /\ s = "finish" => j # NoJournal /\ j.state = "committed" /\ v.number = n
  /\ s = "restore" =>
       /\ j # NoJournal /\ j.state = "prepared" /\ v.original = j.before
       /\ \A f \in DOMAIN v.original \ v.todo : n \notin d[f].made
  /\ s = "drop" =>
       /\ j # NoJournal
       /\ j.state = "committed" \/ InNone(n, d)

\* While no guard was stolen.
Exclusive == \A p \in Process : at[p] \in Inside => guard.by = p
Guarded ==
  /\ Exclusive
  /\ Decided(journal, disk, basis, told)
  /\ \A p \in Process : Works(at[p], call[p], journal, disk, Len(basis))

DecisionInv == Basic /\ (~left.stolen => Guarded)

-----------------------------------------------------------------------------
(* Parts of the disk                                                       *)

LEMMA PartIs ==
  ASSUME NEW g \in Part
  PROVE  DOMAIN g \subseteq File /\ \A f \in DOMAIN g : g[f] \in Content
BY DEF Part

LEMMA PartMade ==
  ASSUME NEW D \in SUBSET File, NEW g \in [D -> Content]
  PROVE  g \in Part
BY DEF Part

LEMMA NothingIs ==
  /\ Nothing \in Part /\ DOMAIN Nothing = {}
  /\ \A n, k : Known(Nothing, n, k)
  /\ \A edits : Holds(Nothing, edits)
  /\ \A d : Same(Nothing, d)
<1>1. DOMAIN Nothing = {} /\ Nothing \in [{} -> Content]
  BY DEF Nothing
<1>2. Nothing \in Part
  BY <1>1, PartMade
<1> QED
  BY <1>1, <1>2 DEF Known, Holds, Same

LEMMA NoCallIs ==
  /\ NoCall \in Calls /\ [NoCall EXCEPT !.goal = "failed"] \in Calls
  /\ NoCall.page = Nothing /\ NoCall.read = Nothing /\ NoCall.original = Nothing
  /\ NoCall.goal = "view"
  /\ [NoCall EXCEPT !.goal = "failed"].page = Nothing
  /\ [NoCall EXCEPT !.goal = "failed"].read = Nothing
  /\ [NoCall EXCEPT !.goal = "failed"].original = Nothing
  /\ [NoCall EXCEPT !.goal = "failed"].goal = "failed"
BY NothingIs DEF NoCall, Calls

\* Nothing in memory is sound wherever a process may stand with it.
LEMMA EmptySound ==
  ASSUME NEW v, v.page = Nothing, v.read = Nothing, v.original = Nothing, v.goal # "decide",
         NEW s \in {"idle", "look", "unlock"}, NEW n, NEW k, NEW edits
  PROVE  Sound(s, v, n, k, edits)
<1>1. Known(v.page, n, k) /\ Known(v.read, n, k) /\ Known(v.original, n, k)
      /\ Holds(v.read, edits) /\ Holds(v.original, edits)
  BY NothingIs
<1>2. Fits(s, v)
  BY DEF Fits, Writing
<1>3. Paged(s, v)
  BY DEF Paged, Making
<1> QED
  BY <1>1, <1>2, <1>3 DEF Sound

LEMMA OutsideWorks ==
  ASSUME NEW s, s \notin Inside \/ s \in {"stamp", "recover", "unlock"},
         NEW v, NEW j, NEW d, NEW n
  PROVE  Works(s, v, j, d, n)
BY DEF Works, Reads, Making, Writing, Inside

LEMMA KnownGrows ==
  ASSUME NEW part \in Part, NEW n \in Nat, NEW m \in Nat, NEW k \in Nat, NEW l \in Nat,
         n <= m, l <= k, Known(part, n, k)
  PROVE  Known(part, m, l)
<1> SUFFICES ASSUME NEW f \in DOMAIN part
             PROVE  part[f].made \subseteq 1 .. m /\ \A e \in part[f].edits : l < e
  BY DEF Known
<1>1. part[f] \in Content
  BY PartIs
<1>2. part[f].made \subseteq 1 .. n /\ \A e \in part[f].edits : k < e
  BY DEF Known
<1>3. part[f].edits \subseteq Nat
  BY <1>1 DEF Content
<1>4. \A e \in part[f].edits : l < e
  BY <1>2, <1>3
<1> QED
  BY <1>2, <1>4

-----------------------------------------------------------------------------
(* Steps of one process                                                    *)

Becomes(p, s, v) ==
  /\ s \in Stages /\ v \in Calls
  /\ at' = [at EXCEPT ![p] = s] /\ call' = [call EXCEPT ![p] = v]

LEMMA Moves ==
  ASSUME Shapes, NEW p \in Process, NEW s, NEW v, Becomes(p, s, v)
  PROVE  /\ at' \in [Process -> Stages] /\ call' \in [Process -> Calls]
         /\ at'[p] = s /\ call'[p] = v
         /\ \A q \in Process \ {p} : at'[q] = at[q] /\ call'[q] = call[q]
BY DEF Shapes, Becomes

\* A step that changes no file and no history.
Still == UNCHANGED <<disk, journal, basis, told, quiet>>

LEMMA StillStep ==
  ASSUME DecisionInv, NEW p \in Process, NEW s, NEW v, Becomes(p, s, v), Still,
         guard' \in Guards, left' \in Left, left'.edit = left.edit,
         ~left'.stolen => ~left.stolen,
         Sound(s, v, Len(basis), left.edit, quiet),
         ~left'.stolen =>
           /\ Works(s, v, journal, disk, Len(basis))
           /\ s \in Inside => guard'.by = p
           /\ \A q \in Process \ {p} : at[q] \in Inside => guard'.by = q
  PROVE  DecisionInv'
<1>1. /\ at' \in [Process -> Stages] /\ call' \in [Process -> Calls]
      /\ at'[p] = s /\ call'[p] = v
      /\ \A q \in Process \ {p} : at'[q] = at[q] /\ call'[q] = call[q]
  BY Moves DEF DecisionInv, Basic
<1>2. Shapes'
  BY <1>1 DEF DecisionInv, Basic, Shapes, Still
<1>3. ASSUME NEW q \in Process
      PROVE  Sound(at'[q], call'[q], Len(basis), left.edit, quiet)
  <2>1. CASE q = p
    BY <1>1, <2>1
  <2>2. CASE q # p
    <3>1. Sound(at[q], call[q], Len(basis), left.edit, quiet)
      BY DEF DecisionInv, Basic
    <3> QED
      BY <1>1, <2>2, <3>1
  <2> QED
    BY <2>1, <2>2
<1>4. Basic'
  BY <1>2, <1>3 DEF DecisionInv, Basic, Still
<1>5. ASSUME ~left'.stolen PROVE Guarded'
  <2>1. Guarded
    BY <1>5 DEF DecisionInv
  <2>2. Exclusive'
    <3> SUFFICES ASSUME NEW q \in Process, at'[q] \in Inside PROVE guard'.by = q
      BY DEF Exclusive
    <3>1. CASE q = p
      BY <3>1, <1>1, <1>5
    <3>2. CASE q # p
      BY <3>2, <1>1, <1>5
    <3> QED
      BY <3>1, <3>2
  <2>3. ASSUME NEW q \in Process
        PROVE  Works(at'[q], call'[q], journal, disk, Len(basis))
    <3>1. CASE q = p
      BY <3>1, <1>1, <1>5
    <3>2. CASE q # p
      <4>1. Works(at[q], call[q], journal, disk, Len(basis))
        BY <2>1 DEF Guarded
      <4> QED
        BY <4>1, <3>2, <1>1
    <3> QED
      BY <3>1, <3>2
  <2> QED
    BY <2>1, <2>2, <2>3 DEF Guarded, Still
<1> QED
  BY <1>4, <1>5 DEF DecisionInv

\* Inside the guard a process meets no other there.
LEMMA InsideStep ==
  ASSUME DecisionInv, NEW p \in Process, at[p] \in Inside, NEW s, NEW v,
         Becomes(p, s, v), Still, guard' = guard,
         left' \in Left, left'.edit = left.edit, left'.stolen = left.stolen,
         Sound(s, v, Len(basis), left.edit, quiet),
         Guarded => Works(s, v, journal, disk, Len(basis))
  PROVE  DecisionInv'
<1>1. guard' \in Guards
  BY DEF DecisionInv, Basic, Shapes
<1>2. ~left'.stolen =>
           /\ Works(s, v, journal, disk, Len(basis))
           /\ s \in Inside => guard'.by = p
           /\ \A q \in Process \ {p} : at[q] \in Inside => guard'.by = q
  BY DEF DecisionInv, Guarded, Exclusive
<1> QED
  BY <1>1, <1>2, StillStep

LEMMA SoundGrows ==
  ASSUME NEW v \in Calls, NEW s, NEW n \in Nat, NEW m \in Nat, NEW k \in Nat, NEW l \in Nat,
         n <= m, l <= k, NEW edits, Sound(s, v, n, k, edits)
  PROVE  Sound(s, v, m, l, edits)
<1>1. v.page \in Part /\ v.read \in Part /\ v.original \in Part
  BY DEF Calls
<1>2. Known(v.page, n, k) /\ Known(v.read, n, k) /\ Known(v.original, n, k)
  BY DEF Sound
<1>3. Known(v.page, m, l) /\ Known(v.read, m, l) /\ Known(v.original, m, l)
  BY <1>1, <1>2, KnownGrows
<1> QED
  BY <1>3 DEF Sound

\* A step inside the guard that changes the disk, the journal or a history.
LEMMA WriteStep ==
  ASSUME DecisionInv, NEW p \in Process, at[p] \in Inside, NEW s, NEW v,
         Becomes(p, s, v), guard' = guard, quiet' = quiet,
         left' \in Left, left'.edit = left.edit, left'.stolen = left.stolen,
         disk' \in [File -> Content], journal' \in Journals \cup {NoJournal},
         basis' \in Seq([touch : SUBSET File, seen : BOOLEAN]), told' \subseteq Nat,
         Len(basis) <= Len(basis'),
         Known(disk', Len(basis'), left.edit), Holds(disk', quiet),
         JournalSound(journal', Len(basis'), left.edit, quiet),
         Sound(s, v, Len(basis'), left.edit, quiet),
         Guarded => /\ Decided(journal', disk', basis', told')
                    /\ Works(s, v, journal', disk', Len(basis'))
  PROVE  DecisionInv'
<1>0. Shapes
  BY DEF DecisionInv, Basic
<1>1. /\ at' \in [Process -> Stages] /\ call' \in [Process -> Calls]
      /\ at'[p] = s /\ call'[p] = v
      /\ \A q \in Process \ {p} : at'[q] = at[q] /\ call'[q] = call[q]
  BY <1>0, Moves
<1>2. Shapes'
  BY <1>0, <1>1 DEF Shapes
<1>3. ASSUME NEW q \in Process
      PROVE  Sound(at'[q], call'[q], Len(basis'), left.edit, quiet)
  <2>1. CASE q = p
    BY <1>1, <2>1
  <2>2. CASE q # p
    <3>1. Sound(at[q], call[q], Len(basis), left.edit, quiet)
      BY DEF DecisionInv, Basic
    <3>2. call[q] \in Calls /\ Len(basis) \in Nat /\ Len(basis') \in Nat /\ left.edit \in Nat
      BY <1>0 DEF Shapes, Left
    <3>3. Sound(at[q], call[q], Len(basis'), left.edit, quiet)
      BY <3>1, <3>2, SoundGrows
    <3> QED
      BY <1>1, <2>2, <3>3
  <2> QED
    BY <2>1, <2>2
<1>4. Basic'
  BY <1>2, <1>3 DEF Basic
<1>5. ASSUME ~left'.stolen PROVE Guarded'
  <2>1. Guarded
    BY <1>5 DEF DecisionInv
  <2>2. \A q \in Process \ {p} : at[q] \notin Inside
    BY <2>1 DEF Guarded, Exclusive
  <2>3. Exclusive'
    <3> SUFFICES ASSUME NEW q \in Process, at'[q] \in Inside PROVE guard'.by = q
      BY DEF Exclusive
    <3>1. q = p
      BY <1>1, <2>2
    <3> QED
      BY <3>1, <2>1 DEF Guarded, Exclusive
  <2>4. ASSUME NEW q \in Process
        PROVE  Works(at'[q], call'[q], journal', disk', Len(basis'))
    <3>1. CASE q = p
      BY <3>1, <1>1, <2>1
    <3>2. CASE q # p
      BY <3>2, <1>1, <2>2, OutsideWorks
    <3> QED
      BY <3>1, <3>2
  <2> QED
    BY <2>1, <2>3, <2>4 DEF Guarded
<1> QED
  BY <1>4, <1>5 DEF DecisionInv

\* What the invariant says of one process.
LEMMA Mine ==
  ASSUME DecisionInv, NEW p \in Process
  PROVE  /\ Shapes /\ call[p] \in Calls /\ at[p] \in Stages
         /\ call[p].page \in Part /\ call[p].read \in Part /\ call[p].original \in Part
         /\ Len(basis) \in Nat /\ left.edit \in Nat /\ left \in Left /\ guard \in Guards
         /\ Sound(at[p], call[p], Len(basis), left.edit, quiet)
         /\ Known(call[p].page, Len(basis), left.edit)
         /\ Known(call[p].read, Len(basis), left.edit)
         /\ Known(call[p].original, Len(basis), left.edit)
         /\ Holds(call[p].read, quiet) /\ Holds(call[p].original, quiet)
         /\ Fits(at[p], call[p]) /\ Paged(at[p], call[p])
         /\ Guarded => Works(at[p], call[p], journal, disk, Len(basis))
<1>1. Shapes /\ Sound(at[p], call[p], Len(basis), left.edit, quiet)
  BY DEF DecisionInv, Basic
<1>2. call[p] \in Calls /\ at[p] \in Stages /\ Len(basis) \in Nat /\ left.edit \in Nat
      /\ left \in Left /\ guard \in Guards
  BY <1>1 DEF Shapes, Left
<1>3. call[p].page \in Part /\ call[p].read \in Part /\ call[p].original \in Part
  BY <1>2 DEF Calls
<1> QED
  BY <1>1, <1>2, <1>3 DEF Sound, Guarded

\* What the disk gives to memory.
LEMMA Taken ==
  ASSUME DecisionInv, NEW D \in SUBSET File
  PROVE  LET g == [f \in D |-> disk[f]]
         IN  /\ g \in Part /\ DOMAIN g = D
             /\ Known(g, Len(basis), left.edit) /\ Holds(g, quiet) /\ Same(g, disk)
<1> DEFINE g == [f \in D |-> disk[f]]
<1>1. disk \in [File -> Content] /\ Known(disk, Len(basis), left.edit) /\ Holds(disk, quiet)
  BY DEF DecisionInv, Basic, Shapes
<1>2. g \in [D -> Content] /\ DOMAIN g = D
  BY <1>1
<1>3. g \in Part
  BY <1>2, PartMade
<1>4. Known(g, Len(basis), left.edit) /\ Holds(g, quiet) /\ Same(g, disk)
  BY <1>1 DEF Known, Holds, Same
<1> QED
  BY <1>2, <1>3, <1>4

-----------------------------------------------------------------------------
(* The guard and the page                                                  *)

\* The process keeps in memory what it has, and goes elsewhere.
LEMMA Stays ==
  ASSUME Shapes, NEW p \in Process, NEW s \in Stages, Go(p, s), call' = call
  PROVE  Becomes(p, s, call[p])
<1>1. call[p] \in Calls /\ call' = [call EXCEPT ![p] = call[p]]
  BY DEF Shapes
<1> QED
  BY <1>1 DEF Becomes, Go

LEMMA OpenStep == ASSUME DecisionInv, NEW p \in Process, Open(p) PROVE DecisionInv'
<1> DEFINE v == [call[p] EXCEPT !.goal = "view"]
           s == IF journal = NoJournal THEN "look" ELSE "enter"
<1>1. /\ v \in Calls /\ v.page = call[p].page /\ v.read = call[p].read
      /\ v.original = call[p].original /\ v.goal = "view"
  BY Mine DEF Calls
<1>2. Becomes(p, s, v)
  BY <1>1 DEF Open, Go, Becomes, Stages
<1> HIDE DEF v
<1>3. at[p] = "idle" /\ Still /\ guard' = guard /\ left' = left
  BY DEF Open, Holding, Still
<1>4. s \notin Inside /\ at[p] \notin Inside /\ s \notin Making \cup {"reading"}
  BY <1>3 DEF Inside, Making
<1>5. Fits(s, v)
  BY <1>1, <1>3, <1>4, Mine DEF Fits, Writing
<1>6. Paged(s, v)
  BY <1>1, <1>4 DEF Paged
<1>7. Sound(s, v, Len(basis), left.edit, quiet)
  BY <1>1, <1>5, <1>6, Mine DEF Sound
<1>8. ~left'.stolen =>
        /\ Works(s, v, journal, disk, Len(basis))
        /\ s \in Inside => guard'.by = p
        /\ \A q \in Process \ {p} : at[q] \in Inside => guard'.by = q
  BY <1>3, <1>4, OutsideWorks DEF DecisionInv, Guarded, Exclusive
<1> HIDE DEF s
<1> QED
  BY <1>2, <1>3, <1>7, <1>8, Mine, StillStep

LEMMA LookStep == ASSUME DecisionInv, NEW p \in Process, Look(p) PROVE DecisionInv'
<1> DEFINE g == [f \in Edited |-> disk[f]]
           v == [call[p] EXCEPT !.page = g]
<1>0. g \in Part /\ DOMAIN g = Edited /\ Known(g, Len(basis), left.edit)
  BY Taken DEF Edited
<1>1. /\ v \in Calls /\ v.page = g /\ v.read = call[p].read
      /\ v.original = call[p].original /\ v.goal = call[p].goal
  BY <1>0, Mine DEF Calls
<1>2. Becomes(p, "reading", v)
  BY <1>1 DEF Look, Go, Becomes, Stages
<1>3. at[p] = "look" /\ Still /\ guard' = guard /\ left' = left
  BY DEF Look, Holding, Still
<1> HIDE DEF v, g
<1>4. "reading" \notin Inside /\ at[p] \notin Inside /\ "reading" \notin Making
  BY <1>3 DEF Inside, Making
<1>5. Fits("reading", v)
  BY <1>1, <1>3, <1>4, Mine DEF Fits, Writing
<1>6. Paged("reading", v)
  BY <1>0, <1>1, <1>4 DEF Paged
<1>7. Sound("reading", v, Len(basis), left.edit, quiet)
  BY <1>0, <1>1, <1>5, <1>6, Mine DEF Sound
<1>8. ~left'.stolen =>
        /\ Works("reading", v, journal, disk, Len(basis))
        /\ "reading" \in Inside => guard'.by = p
        /\ \A q \in Process \ {p} : at[q] \in Inside => guard'.by = q
  BY <1>3, <1>4, OutsideWorks DEF DecisionInv, Guarded, Exclusive
<1> QED
  BY <1>2, <1>3, <1>7, <1>8, Mine, StillStep

LEMMA DecideStep == ASSUME DecisionInv, NEW p \in Process, Decide(p) PROVE DecisionInv'
<1> DEFINE v == [call[p] EXCEPT !.goal = "decide"]
<1>1. /\ v \in Calls /\ v.page = call[p].page /\ v.read = call[p].read
      /\ v.original = call[p].original
  BY Mine DEF Calls
<1>2. Becomes(p, "enter", v)
  BY <1>1 DEF Decide, Go, Becomes, Stages
<1>3. at[p] = "reading" /\ Still /\ guard' = guard /\ left' = left
  BY DEF Decide, Holding, Still
<1> HIDE DEF v
<1>4. "enter" \notin Inside /\ at[p] \notin Inside /\ "enter" \notin Making
  BY <1>3 DEF Inside, Making
<1>5. Fits("enter", v)
  BY <1>1, <1>3, <1>4, Mine DEF Fits, Writing
<1>6. Paged("enter", v)
  BY <1>1, <1>3, <1>4, Mine DEF Paged
<1>7. Sound("enter", v, Len(basis), left.edit, quiet)
  BY <1>1, <1>5, <1>6, Mine DEF Sound
<1>8. ~left'.stolen =>
        /\ Works("enter", v, journal, disk, Len(basis))
        /\ "enter" \in Inside => guard'.by = p
        /\ \A q \in Process \ {p} : at[q] \in Inside => guard'.by = q
  BY <1>3, <1>4, OutsideWorks DEF DecisionInv, Guarded, Exclusive
<1> QED
  BY <1>2, <1>3, <1>7, <1>8, Mine, StillStep

LEMMA LeaveStep == ASSUME DecisionInv, NEW p \in Process, Leave(p) PROVE DecisionInv'
<1>1. Becomes(p, "idle", NoCall)
  BY NoCallIs DEF Leave, Go, Becomes, Stages
<1>2. Still /\ guard' = guard /\ left' = left
  BY DEF Leave, Still
<1>3. Sound("idle", NoCall, Len(basis), left.edit, quiet)
  BY NoCallIs, EmptySound
<1>4. "idle" \notin Inside
  BY DEF Inside
<1>5. ~left'.stolen =>
        /\ Works("idle", NoCall, journal, disk, Len(basis))
        /\ "idle" \in Inside => guard'.by = p
        /\ \A q \in Process \ {p} : at[q] \in Inside => guard'.by = q
  BY <1>2, <1>4, OutsideWorks DEF DecisionInv, Guarded, Exclusive
<1> QED
  BY <1>1, <1>2, <1>3, <1>5, Mine, StillStep

LEMMA EnterStep == ASSUME DecisionInv, NEW p \in Process, Enter(p) PROVE DecisionInv'
<1>1. at[p] = "enter" /\ Still /\ left' = left /\ guard.by = "none" /\ guard' \in Guards
      /\ guard'.by = p
  BY DEF Enter, Holding, Still, NoGuard, Guards
<1>2. Becomes(p, "stamp", call[p])
  BY Mine, Stays DEF Enter, Stages, Inside
<1>3. Fits("stamp", call[p]) /\ Paged("stamp", call[p])
  BY <1>1, Mine DEF Fits, Paged, Inside, Making, Writing
<1>4. Sound("stamp", call[p], Len(basis), left.edit, quiet)
  BY <1>3, Mine DEF Sound
<1>5. ~left'.stolen =>
        /\ Works("stamp", call[p], journal, disk, Len(basis))
        /\ "stamp" \in Inside => guard'.by = p
        /\ \A q \in Process \ {p} : at[q] \in Inside => guard'.by = q
  BY <1>1, OutsideWorks, DecisionAssumption DEF DecisionInv, Guarded, Exclusive
<1> QED
  BY <1>1, <1>2, <1>4, <1>5, Mine, StillStep

LEMMA StampStep == ASSUME DecisionInv, NEW p \in Process, Stamp(p) PROVE DecisionInv'
<1>1. at[p] = "stamp" /\ Still /\ left' = left /\ guard' \in Guards /\ guard'.by = guard.by
  BY Mine DEF Stamp, Holding, Still, Guards
<1>2. Becomes(p, "recover", call[p])
  BY Mine, Stays DEF Stamp, Stages, Inside
<1>3. Fits("recover", call[p]) /\ Paged("recover", call[p])
  BY <1>1, Mine DEF Fits, Paged, Inside, Making, Writing
<1>4. Sound("recover", call[p], Len(basis), left.edit, quiet)
  BY <1>3, Mine DEF Sound
<1>5. at[p] \in Inside
  BY <1>1 DEF Inside
<1>6. ~left'.stolen =>
        /\ Works("recover", call[p], journal, disk, Len(basis))
        /\ "recover" \in Inside => guard'.by = p
        /\ \A q \in Process \ {p} : at[q] \in Inside => guard'.by = q
  BY <1>1, <1>5, OutsideWorks DEF DecisionInv, Guarded, Exclusive
<1> QED
  BY <1>1, <1>2, <1>4, <1>6, Mine, StillStep

LEMMA SuspectStep == ASSUME DecisionInv, NEW p \in Process, Suspect(p) PROVE DecisionInv'
<1>1. at[p] = "enter" /\ Still /\ left' = left /\ guard' = guard
  BY DEF Suspect, Holding, Still
<1>2. Becomes(p, "remove", call[p])
  BY Mine, Stays DEF Suspect, Stages
<1>3. Fits("remove", call[p]) /\ Paged("remove", call[p])
  BY <1>1, Mine DEF Fits, Paged, Inside, Making, Writing
<1>4. Sound("remove", call[p], Len(basis), left.edit, quiet)
  BY <1>3, Mine DEF Sound
<1>5. "remove" \notin Inside
  BY DEF Inside
<1>6. ~left'.stolen =>
        /\ Works("remove", call[p], journal, disk, Len(basis))
        /\ "remove" \in Inside => guard'.by = p
        /\ \A q \in Process \ {p} : at[q] \in Inside => guard'.by = q
  BY <1>1, <1>5, OutsideWorks DEF DecisionInv, Guarded, Exclusive
<1> QED
  BY <1>1, <1>2, <1>4, <1>6, Mine, StillStep

\* A guard that is removed without theft is that of no process.
LEMMA TakeAwayStep == ASSUME DecisionInv, NEW p \in Process, TakeAway(p) PROVE DecisionInv'
<1>1. at[p] = "remove" /\ Still /\ guard' \in Guards
  BY DEF TakeAway, Holding, Still, NoGuard, Guards
<1>2. /\ left' \in Left /\ left'.edit = left.edit
      /\ ~left'.stolen => ~left.stolen /\ guard.by \notin Process
  <2>1. CASE guard.by \in Process
    <3>1. left' = [left EXCEPT !.steal = @ - 1, !.stolen = TRUE] /\ left.steal > 0
      BY <2>1 DEF TakeAway
    <3>2. left.steal \in Nat /\ left.steal - 1 \in Nat
      BY <3>1, Mine DEF Left
    <3> QED
      BY <3>1, <3>2, Mine DEF Left
  <2>2. CASE guard.by \notin Process
    BY <2>2, Mine DEF TakeAway
  <2> QED
    BY <2>1, <2>2
<1>3. Becomes(p, "enter", call[p])
  BY Mine, Stays DEF TakeAway, Stages
<1>4. Fits("enter", call[p]) /\ Paged("enter", call[p])
  BY <1>1, Mine DEF Fits, Paged, Inside, Making, Writing
<1>5. Sound("enter", call[p], Len(basis), left.edit, quiet)
  BY <1>4, Mine DEF Sound
<1>6. "enter" \notin Inside
  BY DEF Inside
<1>7. ~left'.stolen =>
        /\ Works("enter", call[p], journal, disk, Len(basis))
        /\ "enter" \in Inside => guard'.by = p
        /\ \A q \in Process \ {p} : at[q] \in Inside => guard'.by = q
  BY <1>2, <1>6, OutsideWorks DEF DecisionInv, Guarded, Exclusive
<1> QED
  BY <1>1, <1>2, <1>3, <1>5, <1>7, Mine, StillStep

LEMMA UnlockStep == ASSUME DecisionInv, NEW p \in Process, Unlock(p) PROVE DecisionInv'
<1> DEFINE s == IF call[p].goal = "view" THEN "look" ELSE "idle"
<1>1. at[p] = "unlock" /\ Still /\ left' = left /\ guard' \in Guards
  BY DEF Unlock, Holding, Still, NoGuard, Guards
<1>2. s \in {"idle", "look"} /\ Becomes(p, s, NoCall)
  BY NoCallIs DEF Unlock, Go, Becomes, Stages
<1>3. Sound(s, NoCall, Len(basis), left.edit, quiet)
  BY <1>2, NoCallIs, EmptySound
<1>4. s \notin Inside /\ at[p] \in Inside
  BY <1>1, <1>2 DEF Inside
<1> HIDE DEF s
<1>5. ~left'.stolen =>
        /\ Works(s, NoCall, journal, disk, Len(basis))
        /\ s \in Inside => guard'.by = p
        /\ \A q \in Process \ {p} : at[q] \in Inside => guard'.by = q
  BY <1>1, <1>4, OutsideWorks DEF DecisionInv, Guarded, Exclusive
<1> QED
  BY <1>1, <1>2, <1>3, <1>5, Mine, StillStep

\* A process that is killed leaves the guard to nobody.
LEMMA KillStep == ASSUME DecisionInv, NEW p \in Process, Kill(p) PROVE DecisionInv'
<1>1. at[p] \in Inside /\ Still /\ guard' \in Guards
      /\ \A q \in Process \ {p} : guard.by = q => guard'.by = q
  BY Mine DEF Kill, Still, Guards
<1>2. left' \in Left /\ left'.edit = left.edit /\ left'.stolen = left.stolen
  BY Mine DEF Kill, Spend, Left
<1>3. Becomes(p, "idle", NoCall)
  BY NoCallIs DEF Kill, Go, Becomes, Stages
<1>4. Sound("idle", NoCall, Len(basis), left.edit, quiet)
  BY NoCallIs, EmptySound
<1>5. "idle" \notin Inside
  BY DEF Inside
<1>6. ~left'.stolen =>
        /\ Works("idle", NoCall, journal, disk, Len(basis))
        /\ "idle" \in Inside => guard'.by = p
        /\ \A q \in Process \ {p} : at[q] \in Inside => guard'.by = q
  BY <1>1, <1>2, <1>5, OutsideWorks DEF DecisionInv, Guarded, Exclusive
<1> QED
  BY <1>1, <1>2, <1>3, <1>4, <1>6, Mine, StillStep

-----------------------------------------------------------------------------
(* Reading and checking inside the guard                                   *)

LeftKept == left' \in Left /\ left'.edit = left.edit /\ left'.stolen = left.stolen

LEMMA FailStep ==
  ASSUME DecisionInv, NEW p \in Process, at[p] \in Inside, Fail(p), Still, guard' = guard, LeftKept
  PROVE  DecisionInv'
<1> DEFINE v == [NoCall EXCEPT !.goal = "failed"]
<1>1. Becomes(p, "unlock", v)
  BY NoCallIs DEF Fail, Go, Becomes, Stages, Inside
<1>2. v.page = Nothing /\ v.read = Nothing /\ v.original = Nothing /\ v.goal = "failed"
  BY NoCallIs
<1> HIDE DEF v
<1>3. Sound("unlock", v, Len(basis), left.edit, quiet)
  BY <1>2, EmptySound
<1>4. Works("unlock", v, journal, disk, Len(basis))
  BY OutsideWorks
<1> QED
  BY <1>1, <1>3, <1>4, InsideStep DEF LeftKept

LEMMA UndoStep ==
  ASSUME DecisionInv, NEW p \in Process, at[p] \in Inside, Undo(p), Still, guard' = guard, LeftKept
  PROVE  DecisionInv'
<1> DEFINE v == [call[p] EXCEPT !.goal = "undo"]
<1>1. /\ v \in Calls /\ v.page = call[p].page /\ v.read = call[p].read
      /\ v.original = call[p].original /\ v.goal = "undo"
  BY Mine DEF Calls
<1>2. Becomes(p, "recover", v)
  BY <1>1 DEF Undo, Go, Becomes, Stages, Inside
<1> HIDE DEF v
<1>3. Fits("recover", v) /\ Paged("recover", v)
  BY <1>1 DEF Fits, Paged, Inside, Making, Writing
<1>4. Sound("recover", v, Len(basis), left.edit, quiet)
  BY <1>1, <1>3, Mine DEF Sound
<1>5. Works("recover", v, journal, disk, Len(basis))
  BY OutsideWorks
<1> QED
  BY <1>2, <1>4, <1>5, InsideStep DEF LeftKept

LEMMA Spent ==
  ASSUME Shapes, Spend("mishap") \/ left' = left
  PROVE  LeftKept
BY DEF Shapes, Spend, LeftKept, Left

LEMMA RecoveryFailsStep ==
  ASSUME DecisionInv, NEW p \in Process, RecoveryFails(p) PROVE DecisionInv'
<1>1. at[p] \in Inside /\ Still /\ guard' = guard /\ LeftKept /\ Fail(p)
  BY Mine, Spent DEF RecoveryFails, Still, Inside
<1> QED
  BY <1>1, FailStep

LEMMA WriteFailsStep ==
  ASSUME DecisionInv, NEW p \in Process, WriteFails(p) PROVE DecisionInv'
<1>1. at[p] \in Inside /\ Still /\ guard' = guard /\ LeftKept /\ (Fail(p) \/ Undo(p))
  BY Mine, Spent DEF WriteFails, Still, Inside
<1> QED
  BY <1>1, FailStep, UndoStep

\* What the journal holds, for whoever reads it.
LEMMA JournalIs ==
  ASSUME DecisionInv, journal # NoJournal
  PROVE  /\ journal \in Journals /\ journal.before \in Part /\ journal.after \in Part
         /\ DOMAIN journal.before = DOMAIN journal.after /\ DOMAIN journal.before \subseteq File
         /\ Known(journal.before, Len(basis), left.edit)
         /\ Known(journal.after, Len(basis), left.edit)
<1>1. journal \in Journals
  BY DEF DecisionInv, Basic, Shapes
<1>2. journal.before \in Part /\ journal.after \in Part
  BY <1>1 DEF Journals
<1> QED
  BY <1>1, <1>2, PartIs DEF DecisionInv, Basic, JournalSound

\* Where nobody edited a file of the journal, what would be restored has every
\* edit that was made outside the guard.
LEMMA RecoverableHolds ==
  ASSUME DecisionInv, journal # NoJournal, Recoverable
  PROVE  Holds(journal.before, quiet)
<1> SUFFICES ASSUME NEW e \in quiet, e[1] \in DOMAIN journal.before
             PROVE  e[2] \in journal.before[e[1]].edits
  BY DEF Holds
<1>1. e[1] \in File /\ e[2] \in disk[e[1]].edits
  <2>1. e[1] \in File /\ DOMAIN disk = File
    BY JournalIs DEF DecisionInv, Basic, Shapes
  <2> QED
    BY <2>1 DEF DecisionInv, Basic, Holds
<1>2. disk[e[1]] = journal.after[e[1]] \/ disk[e[1]] = journal.before[e[1]]
  BY DEF Recoverable
<1>3. e[2] \in journal.before[e[1]].edits <=> e[2] \in journal.after[e[1]].edits
  BY DEF DecisionInv, Basic, JournalSound
<1> QED
  BY <1>1, <1>2, <1>3

LEMMA RecoverStep == ASSUME DecisionInv, NEW p \in Process, Recover(p) PROVE DecisionInv'
<1>1. at[p] = "recover" /\ at[p] \in Inside /\ Still /\ guard' = guard /\ left' = left /\ LeftKept
  BY Mine, Spent DEF Recover, Holding, Still, Inside
<1>2. CASE journal = NoJournal /\ Go(p, Settled(p)) /\ UNCHANGED call
  <2>1. Settled(p) \in {"unlock", "parse"} /\ (Settled(p) = "parse" => call[p].goal = "decide")
    BY DEF Settled
  <2> DEFINE s == Settled(p)
  <2>2. Becomes(p, s, call[p])
    BY <1>2, <2>1, Mine, Stays DEF Stages, Inside
  <2>3. Fits(s, call[p])
    BY <2>1 DEF Fits, Inside, Writing
  <2>4. Paged(s, call[p])
    BY <1>1, <2>1, Mine DEF Paged, Making
  <2>5. Sound(s, call[p], Len(basis), left.edit, quiet)
    BY <2>3, <2>4, Mine DEF Sound
  <2>6. Works(s, call[p], journal, disk, Len(basis))
    BY <1>2, <2>1 DEF Works, Reads, Making, Writing
  <2> QED
    BY <1>1, <2>2, <2>5, <2>6, InsideStep DEF LeftKept
<1>3. CASE journal # NoJournal /\ ~Recoverable /\ Fail(p)
  BY <1>1, <1>3, FailStep
<1>4. CASE journal # NoJournal /\ Recoverable /\ ~(journal # NoJournal /\ ~Recoverable /\ Fail(p))
             /\ Go(p, IF journal.state = "prepared" THEN "restore" ELSE "drop")
             /\ call' = [call EXCEPT ![p].todo = DOMAIN journal.before,
                                     ![p].read = Nothing, ![p].original = journal.before]
  <2> DEFINE v == [call[p] EXCEPT !.todo = DOMAIN journal.before, !.read = Nothing,
                                  !.original = journal.before]
             s == IF journal.state = "prepared" THEN "restore" ELSE "drop"
  <2>1. /\ v \in Calls /\ v.page = call[p].page /\ v.read = Nothing
        /\ v.original = journal.before /\ v.goal = call[p].goal /\ v.todo = DOMAIN journal.before
    BY <1>4, Mine, NothingIs, JournalIs DEF Calls
  <2>2. s \in {"restore", "drop"} /\ Becomes(p, s, v)
    BY <1>4, <2>1, Mine DEF Go, Becomes, Stages, Inside, Shapes
  <2>3. (s = "restore" => journal.state = "prepared") /\ (s = "drop" => journal.state = "committed")
    BY <1>4, JournalIs DEF Journals
  <2> HIDE DEF v, s
  <2>4. Fits(s, v)
    BY <2>1, <2>2 DEF Fits, Inside, Writing
  <2>5. Paged(s, v)
    BY <1>1, <2>1, <2>2, Mine DEF Paged, Making
  <2>6. Sound(s, v, Len(basis), left.edit, quiet)
    BY <1>4, <2>1, <2>4, <2>5, Mine, NothingIs, JournalIs, RecoverableHolds DEF Sound
  <2>7. Works(s, v, journal, disk, Len(basis))
    BY <1>4, <2>1, <2>2, <2>3 DEF Works, Reads, Making, Writing
  <2> QED
    BY <1>1, <2>2, <2>6, <2>7, InsideStep DEF LeftKept
<1> QED
  BY <1>2, <1>3, <1>4 DEF Recover

LEMMA CheckStep == ASSUME DecisionInv, NEW p \in Process, Check(p) PROVE DecisionInv'
<1>1. at[p] = "check" /\ at[p] \in Inside /\ Still /\ guard' = guard /\ left' = left /\ LeftKept
  BY Mine, Spent DEF Check, Holding, Still, Inside
<1>2. CASE Fail(p)
  BY <1>1, <1>2, FailStep
<1>3. CASE Go(p, "log") /\ call' = call
  <2>1. Becomes(p, "log", call[p])
    BY <1>3, Mine, Stays DEF Stages, Inside
  <2>2. Fits("log", call[p]) /\ Paged("log", call[p])
    BY <1>1, Mine DEF Fits, Paged, Inside, Making, Writing
  <2>3. Sound("log", call[p], Len(basis), left.edit, quiet)
    BY <2>2, Mine DEF Sound
  <2>4. Guarded => Works("log", call[p], journal, disk, Len(basis))
    BY <1>1, Mine DEF Works, Reads, Making, Writing
  <2> QED
    BY <1>1, <2>1, <2>3, <2>4, InsideStep DEF LeftKept
<1> QED
  BY <1>2, <1>3 DEF Check

LEMMA VerifyStep == ASSUME DecisionInv, NEW p \in Process, Verify(p) PROVE DecisionInv'
<1>1. at[p] = "verify" /\ at[p] \in Inside /\ Still /\ guard' = guard /\ left' = left /\ LeftKept
  BY Mine, Spent DEF Verify, Holding, Still, Inside
<1>2. CASE Undo(p)
  BY <1>1, <1>2, UndoStep
<1>3. CASE (\A f \in Touch(p) : disk[f] = call[p].read[f]) /\ Go(p, "commit") /\ call' = call
  <2>1. Becomes(p, "commit", call[p])
    BY <1>3, Mine, Stays DEF Stages, Inside
  <2>2. Fits("commit", call[p]) /\ Paged("commit", call[p])
    BY <1>1, Mine DEF Fits, Paged, Inside, Making, Writing
  <2>3. Sound("commit", call[p], Len(basis), left.edit, quiet)
    BY <2>2, Mine DEF Sound
  <2>4. ASSUME Guarded PROVE Works("commit", call[p], journal, disk, Len(basis))
    <3>1. /\ journal = [state |-> "prepared", before |-> call[p].original, after |-> call[p].read]
          /\ call[p].number = Len(basis)
      BY <1>1, <2>4, Mine DEF Works, Writing
    <3>2. DOMAIN call[p].read = DOMAIN call[p].original
      BY <1>1, Mine DEF Fits, Writing
    <3>3. journal # NoJournal /\ journal.before = call[p].original /\ journal.after = call[p].read
      BY <3>1 DEF NoJournal
    <3>4. \A f \in DOMAIN call[p].read : Len(basis) \in disk[f].made
      BY <1>3, <2>4, <3>2, <3>3 DEF Guarded, Decided, Journalled, Touch
    <3> QED
      BY <3>1, <3>4 DEF Works, Reads, Making, Writing
  <2> QED
    BY <1>1, <2>1, <2>3, <2>4, InsideStep DEF LeftKept
<1> QED
  BY <1>2, <1>3 DEF Verify

LEMMA ParseStep == ASSUME DecisionInv, NEW p \in Process, Parse(p) PROVE DecisionInv'
<1> DEFINE g == [f \in {"proposal", "receipt"} |-> disk[f]]
           h == [f \in {"receipt"} |-> disk[f]]
           v == [call[p] EXCEPT !.read = g, !.original = h]
<1>1. at[p] = "parse" /\ at[p] \in Inside /\ Still /\ guard' = guard /\ left' = left /\ LeftKept
  BY Mine, Spent DEF Parse, Holding, Still, Inside
<1>2. /\ g \in Part /\ DOMAIN g = {"proposal", "receipt"}
      /\ Known(g, Len(basis), left.edit) /\ Holds(g, quiet) /\ Same(g, disk)
  BY Taken DEF File
<1>3. /\ h \in Part /\ DOMAIN h = {"receipt"}
      /\ Known(h, Len(basis), left.edit) /\ Holds(h, quiet) /\ Same(h, disk)
  BY Taken DEF File
<1>4. /\ v \in Calls /\ v.page = call[p].page /\ v.read = g /\ v.original = h
      /\ v.goal = call[p].goal
  BY <1>2, <1>3, Mine DEF Calls
<1>5. Becomes(p, "bytes", v)
  BY <1>4 DEF Parse, Go, Becomes, Stages, Inside
<1> HIDE DEF g, h, v
<1>6. Fits("bytes", v)
  BY <1>2, <1>3, <1>4 DEF Fits, Inside, Writing
<1>7. Paged("bytes", v)
  BY <1>1, <1>4, Mine DEF Paged, Making
<1>8. Sound("bytes", v, Len(basis), left.edit, quiet)
  BY <1>2, <1>3, <1>4, <1>6, <1>7, Mine DEF Sound
<1>9. Guarded => Works("bytes", v, journal, disk, Len(basis))
  BY <1>1, <1>2, <1>3, <1>4, Mine DEF Works, Reads, Making, Writing
<1> QED
  BY <1>1, <1>5, <1>8, <1>9, InsideStep DEF LeftKept

\* A part to which one file as it is now on the disk is added.
LEMMA Added ==
  ASSUME DecisionInv, NEW part \in Part, NEW f \in File, NEW D \in SUBSET File,
         D \ {f} \subseteq DOMAIN part,
         Known(part, Len(basis), left.edit), Holds(part, quiet)
  PROVE  LET g == [x \in D |-> IF x = f THEN disk[x] ELSE part[x]]
         IN  /\ g \in Part /\ DOMAIN g = D
             /\ Known(g, Len(basis), left.edit) /\ Holds(g, quiet)
             /\ Same(part, disk) => Same(g, disk)
             /\ \A x \in D : g[x] = IF x = f THEN disk[x] ELSE part[x]
<1> DEFINE g == [x \in D |-> IF x = f THEN disk[x] ELSE part[x]]
<1>1. disk \in [File -> Content] /\ Known(disk, Len(basis), left.edit) /\ Holds(disk, quiet)
  BY DEF DecisionInv, Basic, Shapes
<1>2. \A x \in D : (IF x = f THEN disk[x] ELSE part[x]) \in Content
  BY <1>1, PartIs
<1>3. g \in [D -> Content] /\ DOMAIN g = D
  BY <1>2
<1>4. g \in Part
  BY <1>3, PartMade
<1>5. Known(g, Len(basis), left.edit)
  BY <1>1 DEF Known
<1>6. Holds(g, quiet)
  BY <1>1 DEF Holds
<1>7. Same(part, disk) => Same(g, disk)
  BY DEF Same
<1> QED
  BY <1>3, <1>4, <1>5, <1>6, <1>7

LEMMA BytesStep == ASSUME DecisionInv, NEW p \in Process, Bytes(p) PROVE DecisionInv'
<1> DEFINE g == [f \in {"proposal", "receipt", "shape"} |->
                   IF f = "shape" THEN disk[f] ELSE call[p].read[f]]
           h == [f \in {"receipt", "proposal"} |->
                   IF f = "proposal" THEN disk[f] ELSE call[p].original[f]]
           v == [call[p] EXCEPT !.read = g, !.original = h]
<1>1. at[p] = "bytes" /\ at[p] \in Inside /\ Still /\ guard' = guard /\ left' = left /\ LeftKept
  BY Mine, Spent DEF Bytes, Holding, Still, Inside
<1>0. DOMAIN call[p].read = {"proposal", "receipt"} /\ DOMAIN call[p].original = {"receipt"}
  BY <1>1, Mine DEF Fits
<1>2. /\ g \in Part /\ DOMAIN g = {"proposal", "receipt", "shape"}
      /\ Known(g, Len(basis), left.edit) /\ Holds(g, quiet)
      /\ Same(call[p].read, disk) => Same(g, disk)
      /\ g["shape"] = disk["shape"]
  <2>1. {"proposal", "receipt", "shape"} \in SUBSET File /\ "shape" \in File
        /\ {"proposal", "receipt", "shape"} \ {"shape"} \subseteq DOMAIN call[p].read
    BY <1>0 DEF File
  <2> QED
    BY <2>1, Mine, Added
<1>3. /\ h \in Part /\ DOMAIN h = {"proposal", "receipt"}
      /\ Known(h, Len(basis), left.edit) /\ Holds(h, quiet)
      /\ Same(call[p].original, disk) => Same(h, disk)
  <2>1. {"receipt", "proposal"} \in SUBSET File /\ "proposal" \in File
        /\ {"receipt", "proposal"} \ {"proposal"} \subseteq DOMAIN call[p].original
    BY <1>0 DEF File
  <2> QED
    BY <2>1, Mine, Added
<1>4. /\ v \in Calls /\ v.page = call[p].page /\ v.read = g /\ v.original = h
      /\ v.goal = call[p].goal
  BY <1>2, <1>3, Mine DEF Calls
<1>5. Becomes(p, "compare", v)
  BY <1>4 DEF Bytes, Go, Becomes, Stages, Inside
<1> HIDE DEF g, h, v
<1>6. Fits("compare", v)
  BY <1>2, <1>3, <1>4 DEF Fits, Inside, Writing
<1>7. Paged("compare", v)
  BY <1>1, <1>4, Mine DEF Paged, Making
<1>8. Sound("compare", v, Len(basis), left.edit, quiet)
  BY <1>2, <1>3, <1>4, <1>6, <1>7, Mine DEF Sound
<1>9. ASSUME Guarded PROVE Works("compare", v, journal, disk, Len(basis))
  <2>1. journal = NoJournal /\ Same(call[p].read, disk) /\ Same(call[p].original, disk)
    BY <1>1, <1>9, Mine DEF Works, Making
  <2> QED
    BY <2>1, <1>2, <1>3, <1>4 DEF Works, Reads, Making, Writing
<1> QED
  BY <1>1, <1>5, <1>8, <1>9, InsideStep DEF LeftKept

LEMMA CompareStep == ASSUME DecisionInv, NEW p \in Process, Compare(p) PROVE DecisionInv'
<1> DEFINE h == [f \in {"receipt", "proposal", "shape"} |->
                   IF f = "shape" THEN disk[f] ELSE call[p].original[f]]
           v == [call[p] EXCEPT !.original = h]
<1>1. at[p] = "compare" /\ at[p] \in Inside /\ Still /\ guard' = guard /\ left' = left /\ LeftKept
  BY Mine, Spent DEF Compare, Holding, Still, Inside
<1>2. CASE Fail(p)
  BY <1>1, <1>2, FailStep
<1>3. CASE SameAsPage(p) /\ call' = [call EXCEPT ![p].original = h] /\ Go(p, "prepare")
  <2>1. /\ DOMAIN call[p].read = {"proposal", "receipt", "shape"}
        /\ DOMAIN call[p].original = {"proposal", "receipt"}
    BY <1>1, Mine DEF Fits
  <2>2. /\ h \in Part /\ DOMAIN h = {"proposal", "receipt", "shape"}
        /\ Known(h, Len(basis), left.edit) /\ Holds(h, quiet)
        /\ Same(call[p].original, disk) => Same(h, disk)
    <3>1. {"receipt", "proposal", "shape"} \in SUBSET File /\ "shape" \in File
          /\ {"receipt", "proposal", "shape"} \ {"shape"} \subseteq DOMAIN call[p].original
      BY <2>1 DEF File
    <3> QED
      BY <3>1, Mine, Added
  <2>3. /\ v \in Calls /\ v.page = call[p].page /\ v.read = call[p].read /\ v.original = h
        /\ v.goal = call[p].goal
    BY <2>2, Mine DEF Calls
  <2>4. Becomes(p, "prepare", v)
    BY <1>3, <2>3 DEF Go, Becomes, Stages, Inside
  <2> HIDE DEF h, v
  <2>5. Fits("prepare", v)
    BY <2>1, <2>2, <2>3 DEF Fits, Inside, Writing
  <2>6. Paged("prepare", v)
    BY <1>1, <2>3, Mine DEF Paged, Making
  <2>7. Sound("prepare", v, Len(basis), left.edit, quiet)
    BY <2>2, <2>3, <2>5, <2>6, Mine DEF Sound
  <2>8. ASSUME Guarded PROVE Works("prepare", v, journal, disk, Len(basis))
    <3>1. /\ journal = NoJournal /\ Same(call[p].read, disk) /\ Same(call[p].original, disk)
          /\ \/ call[p].read["shape"] = disk["shape"]
             \/ ~(disk["shape"].edits \subseteq call[p].page["shape"].edits)
      BY <1>1, <2>8, Mine DEF Works, Reads, Making
    <3>2. call[p].read["proposal"] = call[p].page["proposal"] /\ disk["shape"] = call[p].page["shape"]
      BY <1>3 DEF SameAsPage
    <3>3. \A f \in {"shape", "proposal"} : v.read[f] = v.page[f]
      BY <3>1, <3>2, <2>3
    <3> QED
      BY <3>1, <3>3, <2>2, <2>3 DEF Works, Reads, Making, Writing
  <2> QED
    BY <1>1, <2>4, <2>7, <2>8, InsideStep DEF LeftKept
<1> QED
  BY <1>2, <1>3 DEF Compare

LEMMA PrepareStep == ASSUME DecisionInv, NEW p \in Process, Prepare(p) PROVE DecisionInv'
<1>1. at[p] = "prepare" /\ at[p] \in Inside /\ Still /\ guard' = guard /\ left' = left /\ LeftKept
  BY Mine, Spent DEF Prepare, Holding, Still, Inside
<1>2. CASE Fail(p)
  BY <1>1, <1>2, FailStep
<1>3. ASSUME NEW touch \in {{"receipt", "proposal"}, {"receipt", "shape", "proposal"}, File},
             "design" \in touch => disk["design"] = call[p].page["design"],
             call' = [call EXCEPT ![p].read =
               [f \in touch |-> IF f = "design" THEN disk[f] ELSE call[p].read[f]]],
             Go(p, "originals")
      PROVE  DecisionInv'
  <2> DEFINE g == [f \in touch |-> IF f = "design" THEN disk[f] ELSE call[p].read[f]]
             v == [call[p] EXCEPT !.read = g]
  <2>1. /\ DOMAIN call[p].read = {"proposal", "receipt", "shape"}
        /\ DOMAIN call[p].original = {"proposal", "receipt", "shape"}
    BY <1>1, Mine DEF Fits
  <2>2. touch \in SUBSET File /\ touch \ {"design"} \subseteq {"proposal", "receipt", "shape"}
    BY DEF File
  <2>3. /\ g \in Part /\ DOMAIN g = touch
        /\ Known(g, Len(basis), left.edit) /\ Holds(g, quiet)
        /\ Same(call[p].read, disk) => Same(g, disk)
        /\ \A f \in touch : g[f] = IF f = "design" THEN disk[f] ELSE call[p].read[f]
    <3>1. "design" \in File
      BY DEF File
    <3> QED
      BY <2>1, <2>2, <3>1, Mine, Added
  <2>4. /\ v \in Calls /\ v.page = call[p].page /\ v.read = g /\ v.original = call[p].original
        /\ v.goal = call[p].goal
    BY <2>3, Mine DEF Calls
  <2>5. Becomes(p, "originals", v)
    BY <1>3, <2>4 DEF Go, Becomes, Stages, Inside
  <2> HIDE DEF g, v
  <2>6. Fits("originals", v)
    BY <2>1, <2>2, <2>3, <2>4 DEF Fits, Inside, Writing
  <2>7. Paged("originals", v)
    BY <1>1, <2>4, Mine DEF Paged, Making
  <2>8. Sound("originals", v, Len(basis), left.edit, quiet)
    BY <2>3, <2>4, <2>6, <2>7, Mine DEF Sound
  <2>9. ASSUME Guarded PROVE Works("originals", v, journal, disk, Len(basis))
    <3>1. /\ journal = NoJournal /\ Same(call[p].read, disk) /\ Same(call[p].original, disk)
          /\ \A f \in {"shape", "proposal"} : call[p].read[f] = call[p].page[f]
      BY <1>1, <2>9, Mine DEF Works, Reads, Making
    <3>2. \A f \in DOMAIN v.read \ {"receipt"} : v.read[f] = v.page[f]
      BY <1>3, <2>2, <2>3, <2>4, <3>1
    <3> QED
      BY <3>1, <3>2, <2>3, <2>4 DEF Works, Reads, Making, Writing
  <2> QED
    BY <1>1, <2>5, <2>8, <2>9, InsideStep DEF LeftKept
<1> QED
  BY <1>2, <1>3 DEF Prepare

LEMMA OriginalsStep == ASSUME DecisionInv, NEW p \in Process, Originals(p) PROVE DecisionInv'
<1> DEFINE D == DOMAIN call[p].read
           h == [f \in D |-> IF f = "design" THEN disk[f] ELSE call[p].original[f]]
           v == [call[p] EXCEPT !.original = h]
<1>1. at[p] = "originals" /\ at[p] \in Inside /\ Still /\ guard' = guard /\ left' = left /\ LeftKept
  BY Mine, Spent DEF Originals, Holding, Still, Inside
<1>2. D \in SUBSET File /\ D \ {"design"} \subseteq DOMAIN call[p].original /\ "design" \in File
  BY <1>1, Mine, PartIs DEF Fits, File
<1>3. /\ h \in Part /\ DOMAIN h = D
      /\ Known(h, Len(basis), left.edit) /\ Holds(h, quiet)
      /\ Same(call[p].original, disk) => Same(h, disk)
  BY <1>2, Mine, Added
<1>4. /\ v \in Calls /\ v.page = call[p].page /\ v.read = call[p].read /\ v.original = h
      /\ v.goal = call[p].goal
  BY <1>3, Mine DEF Calls
<1>5. Becomes(p, "check", v)
  BY <1>4 DEF Originals, Go, Becomes, Stages, Inside
<1> HIDE DEF h, v
<1>6. Fits("check", v)
  BY <1>3, <1>4 DEF Fits, Inside, Writing
<1>7. Paged("check", v)
  BY <1>1, <1>4, Mine DEF Paged, Making
<1>8. Sound("check", v, Len(basis), left.edit, quiet)
  BY <1>3, <1>4, <1>6, <1>7, Mine DEF Sound
<1>9. ASSUME Guarded PROVE Works("check", v, journal, disk, Len(basis))
  <2>1. /\ journal = NoJournal /\ Same(call[p].read, disk) /\ Same(call[p].original, disk)
        /\ \A f \in DOMAIN call[p].read \ {"receipt"} : call[p].read[f] = call[p].page[f]
    BY <1>1, <1>9, Mine DEF Works, Reads, Making
  <2> QED
    BY <2>1, <1>3, <1>4 DEF Works, Reads, Making, Writing
<1> QED
  BY <1>1, <1>5, <1>8, <1>9, InsideStep DEF LeftKept

-----------------------------------------------------------------------------
(* Writing inside the guard                                                *)

LEMMA TouchIs ==
  ASSUME NEW b \in Seq([touch : SUBSET File, seen : BOOLEAN]), NEW n \in DOMAIN b
  PROVE  b[n].touch \subseteq File
<1> DEFINE R == [touch : SUBSET File, seen : BOOLEAN]
<1>1. \A r \in R : r.touch \subseteq File
  OBVIOUS
<1>2. b \in Seq(R)
  OBVIOUS
<1> HIDE DEF R
<1>3. b[n] \in R
  BY <1>2
<1> QED
  BY <1>1, <1>3

\* What a change of the disk leaves alone when it concerns the last decision.
LEMMA OthersKept ==
  ASSUME NEW j, j # NoJournal, NEW d, NEW e, NEW b \in Seq([touch : SUBSET File, seen : BOOLEAN]),
         NEW t, Whole(j, d, b), Kept(d, b, t), Len(b) \notin t,
         \A f \in File : \A n \in DOMAIN b : n # Len(b) => (n \in e[f].made <=> n \in d[f].made)
  PROVE  Whole(j, e, b) /\ Kept(e, b, t)
<1>1. \A n \in DOMAIN b : b[n].touch \subseteq File
  BY TouchIs
<1>2. \A n \in DOMAIN b : n # Len(b) => (InAll(n, b, d) <=> InAll(n, b, e))
  BY <1>1 DEF InAll
<1>3. \A n \in DOMAIN b : n # Len(b) => (InNone(n, d) <=> InNone(n, e))
  BY DEF InNone
<1>4. Whole(j, e, b)
  BY <1>2, <1>3 DEF Whole
<1>5. Kept(e, b, t)
  BY <1>2 DEF Kept
<1> QED
  BY <1>4, <1>5

\* One file takes one of its two versions.
LEMMA VersionPut ==
  ASSUME NEW b \in Seq([touch : SUBSET File, seen : BOOLEAN]), NEW j, j # NoJournal,
         j.state = "prepared", NEW d \in [File -> Content], NEW t, Decided(j, d, b, t),
         NEW f \in DOMAIN j.before, f \in File, NEW c \in Content,
         c.made = j.before[f].made \/ c.made = j.after[f].made
  PROVE  Decided(j, [d EXCEPT ![f] = c], b, t)
<1> DEFINE e == [d EXCEPT ![f] = c]
           n == Len(b)
<1>1. e \in [File -> Content] /\ e[f] = c /\ \A g \in File \ {f} : e[g] = d[g]
  OBVIOUS
<1> HIDE DEF e
<1>2. /\ n \in DOMAIN b /\ DOMAIN j.before = b[n].touch /\ n \notin t
      /\ \A g \in DOMAIN j.before :
           /\ j.before[g].made = d[g].made \ {n}
           /\ j.after[g].made = d[g].made \cup {n}
      /\ \A g \in File \ DOMAIN j.before : n \notin d[g].made
      /\ Whole(j, d, b) /\ Kept(d, b, t)
      /\ \A m \in DOMAIN b : b[m].seen
  BY DEF Decided, Journalled
<1>3. DOMAIN j.before \subseteq File
  BY <1>2, TouchIs
<1>4. \A g \in File : e[g].made \ {n} = d[g].made \ {n} /\ e[g].made \cup {n} = d[g].made \cup {n}
  <2> SUFFICES ASSUME NEW g \in File
               PROVE  e[g].made \ {n} = d[g].made \ {n} /\ e[g].made \cup {n} = d[g].made \cup {n}
    OBVIOUS
  <2>1. CASE g = f
    <3>1. d[f].made \subseteq Nat /\ c.made \subseteq Nat
      BY DEF Content
    <3>2. c.made = d[f].made \ {n} \/ c.made = d[f].made \cup {n}
      BY <1>2
    <3> QED
      BY <2>1, <1>1, <3>2
  <2>2. CASE g # f
    BY <2>2, <1>1
  <2> QED
    BY <2>1, <2>2
<1>5. \A g \in File : \A m \in DOMAIN b : m # Len(b) => (m \in e[g].made <=> m \in d[g].made)
  BY <1>4
<1>6. Whole(j, e, b) /\ Kept(e, b, t)
  BY <1>2, <1>5, OthersKept
<1>7. Journalled(j, e, b, t)
  <2>1. \A g \in DOMAIN j.before :
          j.before[g].made = e[g].made \ {n} /\ j.after[g].made = e[g].made \cup {n}
    BY <1>2, <1>3, <1>4
  <2>2. \A g \in File \ DOMAIN j.before : n \notin e[g].made
    BY <1>1, <1>2
  <2> QED
    BY <1>2, <2>1, <2>2 DEF Journalled
<1> QED
  BY <1>2, <1>6, <1>7 DEF Decided, e

\* The disk with a file put there from memory.
LEMMA Put ==
  ASSUME DecisionInv, NEW part \in Part, NEW f \in DOMAIN part,
         Known(part, Len(basis), left.edit), Holds(part, quiet)
  PROVE  LET d == [disk EXCEPT ![f] = part[f]]
         IN  /\ f \in File /\ part[f] \in Content /\ d \in [File -> Content]
             /\ d[f] = part[f] /\ \A g \in File \ {f} : d[g] = disk[g]
             /\ Known(d, Len(basis), left.edit) /\ Holds(d, quiet)
<1> DEFINE d == [disk EXCEPT ![f] = part[f]]
<1>1. disk \in [File -> Content] /\ Known(disk, Len(basis), left.edit) /\ Holds(disk, quiet)
  BY DEF DecisionInv, Basic, Shapes
<1>2. f \in File /\ part[f] \in Content
  BY PartIs
<1>3. d \in [File -> Content] /\ d[f] = part[f] /\ \A g \in File \ {f} : d[g] = disk[g]
  BY <1>1, <1>2
<1> HIDE DEF d
<1>4. Known(d, Len(basis), left.edit)
  BY <1>1, <1>3 DEF Known
<1>5. Holds(d, quiet)
  BY <1>1, <1>3 DEF Holds
<1> QED
  BY <1>2, <1>3, <1>4, <1>5 DEF d

\* What stays as it is in a step that only writes a file.
LEMMA Globals ==
  ASSUME DecisionInv
  PROVE  /\ journal \in Journals \cup {NoJournal} /\ told \subseteq Nat
         /\ basis \in Seq([touch : SUBSET File, seen : BOOLEAN]) /\ Len(basis) \in Nat
         /\ disk \in [File -> Content] /\ Known(disk, Len(basis), left.edit) /\ Holds(disk, quiet)
         /\ JournalSound(journal, Len(basis), left.edit, quiet)
BY DEF DecisionInv, Basic, Shapes

\* A step inside the guard that makes no decision.
LEMMA FileStep ==
  ASSUME DecisionInv, NEW p \in Process, at[p] \in Inside, NEW s, NEW v,
         Becomes(p, s, v), guard' = guard, quiet' = quiet, basis' = basis, LeftKept,
         disk' \in [File -> Content], journal' \in Journals \cup {NoJournal}, told' \subseteq Nat,
         Known(disk', Len(basis), left.edit), Holds(disk', quiet),
         JournalSound(journal', Len(basis), left.edit, quiet),
         Sound(s, v, Len(basis), left.edit, quiet),
         Guarded => /\ Decided(journal', disk', basis, told')
                    /\ Works(s, v, journal', disk', Len(basis))
  PROVE  DecisionInv'
<1>1. basis' \in Seq([touch : SUBSET File, seen : BOOLEAN]) /\ Len(basis) <= Len(basis')
      /\ Len(basis') = Len(basis)
  BY Globals
<1>2. left' \in Left /\ left'.edit = left.edit /\ left'.stolen = left.stolen
  BY DEF LeftKept
<1>3. /\ Known(disk', Len(basis'), left.edit)
      /\ JournalSound(journal', Len(basis'), left.edit, quiet)
      /\ Sound(s, v, Len(basis'), left.edit, quiet)
      /\ Guarded => /\ Decided(journal', disk', basis', told')
                    /\ Works(s, v, journal', disk', Len(basis'))
  BY <1>1
<1> QED
  BY <1>1, <1>2, <1>3, WriteStep

LEMMA RestoreStep == ASSUME DecisionInv, NEW p \in Process, Restore(p) PROVE DecisionInv'
<1>1. /\ at[p] = "restore" /\ at[p] \in Inside /\ guard' = guard /\ left' = left /\ LeftKept
      /\ UNCHANGED <<journal, basis, told, quiet>>
  BY Mine, Spent DEF Restore, Holding, Inside
<1>2. PICK f \in RestoreFirst(call[p].todo) :
        /\ disk' = [disk EXCEPT ![f] = call[p].original[f]]
        /\ call' = [call EXCEPT ![p].todo = @ \ {f}]
        /\ Go(p, IF call[p].todo = {f} THEN "drop" ELSE "restore")
  BY DEF Restore
<1> DEFINE v == [call[p] EXCEPT !.todo = @ \ {f}]
           s == IF call[p].todo = {f} THEN "drop" ELSE "restore"
<1>3. f \in call[p].todo /\ f \in DOMAIN call[p].original
  BY <1>1, Mine DEF RestoreFirst, Fits
<1>4. /\ v \in Calls /\ v.page = call[p].page /\ v.read = call[p].read
      /\ v.original = call[p].original /\ v.goal = call[p].goal /\ v.todo = call[p].todo \ {f}
  BY Mine DEF Calls
<1>5. s \in {"restore", "drop"} /\ Becomes(p, s, v) /\ (s = "drop" => call[p].todo = {f})
  BY <1>2, <1>4 DEF Go, Becomes, Stages, Inside
<1>6. /\ f \in File /\ call[p].original[f] \in Content /\ disk' \in [File -> Content]
      /\ disk'[f] = call[p].original[f] /\ \A g \in File \ {f} : disk'[g] = disk[g]
      /\ Known(disk', Len(basis), left.edit) /\ Holds(disk', quiet)
  BY <1>2, <1>3, Mine, Put
<1> HIDE DEF v, s
<1>7. Fits(s, v)
  BY <1>1, <1>4, <1>5, Mine DEF Fits, Inside, Writing
<1>8. Paged(s, v)
  BY <1>1, <1>4, <1>5, Mine DEF Paged, Making
<1>9. Sound(s, v, Len(basis), left.edit, quiet)
  BY <1>4, <1>7, <1>8, Mine DEF Sound
<1>10. ASSUME Guarded
       PROVE  Decided(journal, disk', basis, told) /\ Works(s, v, journal, disk', Len(basis))
  <2>1. /\ journal # NoJournal /\ journal.state = "prepared" /\ call[p].original = journal.before
        /\ \A g \in DOMAIN call[p].original \ call[p].todo : Len(basis) \notin disk[g].made
    BY <1>1, <1>10, Mine DEF Works
  <2>2. Decided(journal, disk, basis, told)
    BY <1>10 DEF Guarded
  <2>3. Decided(journal, disk', basis, told)
    BY <1>2, <1>3, <1>6, <2>1, <2>2, Globals, VersionPut
  <2>4. Len(basis) \notin disk'[f].made
    <3>1. journal.before[f].made = disk[f].made \ {Len(basis)}
      BY <1>3, <2>1, <2>2 DEF Decided, Journalled
    <3> QED
      BY <3>1, <1>6, <2>1
  <2>5. \A g \in DOMAIN v.original \ v.todo : Len(basis) \notin disk'[g].made
    <3> SUFFICES ASSUME NEW g \in DOMAIN v.original \ v.todo PROVE Len(basis) \notin disk'[g].made
      OBVIOUS
    <3>1. CASE g = f
      BY <3>1, <2>4
    <3>2. CASE g # f
      <4>1. g \in File /\ g \in DOMAIN call[p].original \ call[p].todo
        BY <3>2, <1>4, Mine, PartIs
      <4> QED
        BY <4>1, <3>2, <1>6, <2>1
    <3> QED
      BY <3>1, <3>2
  <2>6. ASSUME s = "drop" PROVE InNone(Len(basis), disk')
    <3> SUFFICES ASSUME NEW g \in File PROVE Len(basis) \notin disk'[g].made
      BY DEF InNone
    <3>1. CASE g \in DOMAIN journal.before
      BY <3>1, <2>1, <2>5, <2>6, <1>4, <1>5
    <3>2. CASE g \notin DOMAIN journal.before
      BY <3>2, <2>1, <2>3 DEF Decided, Journalled
    <3> QED
      BY <3>1, <3>2
  <2>7. Works(s, v, journal, disk', Len(basis))
    BY <1>4, <1>5, <2>1, <2>5, <2>6 DEF Works, Reads, Making, Writing
  <2> QED
    BY <2>3, <2>7
<1> QED
  BY <1>1, <1>5, <1>6, <1>9, <1>10, Globals, FileStep

LEMMA WritesStep == ASSUME DecisionInv, NEW p \in Process, Write(p) PROVE DecisionInv'
<1>1. /\ at[p] = "write" /\ at[p] \in Inside /\ guard' = guard /\ left' = left /\ LeftKept
      /\ UNCHANGED <<journal, basis, told, quiet>>
  BY Mine, Spent DEF Write, Holding, Inside
<1>2. PICK f \in WriteFirst(call[p].todo) :
        /\ disk' = [disk EXCEPT ![f] = call[p].read[f]]
        /\ call' = [call EXCEPT ![p].todo = @ \ {f}]
        /\ Go(p, IF call[p].todo = {f} THEN "verify" ELSE "write")
  BY DEF Write
<1> DEFINE v == [call[p] EXCEPT !.todo = @ \ {f}]
           s == IF call[p].todo = {f} THEN "verify" ELSE "write"
<1>3. f \in DOMAIN call[p].read /\ DOMAIN call[p].read = DOMAIN call[p].original
  BY <1>1, Mine DEF WriteFirst, Fits, Writing
<1>4. /\ v \in Calls /\ v.page = call[p].page /\ v.read = call[p].read
      /\ v.original = call[p].original /\ v.goal = call[p].goal /\ v.todo = call[p].todo \ {f}
      /\ v.number = call[p].number
  BY Mine DEF Calls
<1>5. s \in {"write", "verify"} /\ Becomes(p, s, v)
  BY <1>2, <1>4 DEF Go, Becomes, Stages, Inside
<1>6. /\ f \in File /\ call[p].read[f] \in Content /\ disk' \in [File -> Content]
      /\ Known(disk', Len(basis), left.edit) /\ Holds(disk', quiet)
  BY <1>2, <1>3, Mine, Put
<1> HIDE DEF v, s
<1>7. Fits(s, v)
  BY <1>1, <1>3, <1>4, <1>5, Mine DEF Fits, Inside, Writing
<1>8. Paged(s, v)
  BY <1>4, <1>5 DEF Paged, Making
<1>9. Sound(s, v, Len(basis), left.edit, quiet)
  BY <1>4, <1>7, <1>8, Mine DEF Sound
<1>10. ASSUME Guarded
       PROVE  Decided(journal, disk', basis, told) /\ Works(s, v, journal, disk', Len(basis))
  <2>1. /\ journal = [state |-> "prepared", before |-> call[p].original, after |-> call[p].read]
        /\ call[p].number = Len(basis)
    BY <1>1, <1>10, Mine DEF Works, Writing
  <2>2. /\ journal # NoJournal /\ journal.state = "prepared"
        /\ journal.before = call[p].original /\ journal.after = call[p].read
    BY <2>1 DEF NoJournal
  <2>3. Decided(journal, disk, basis, told)
    BY <1>10 DEF Guarded
  <2>4. Decided(journal, disk', basis, told)
    BY <1>2, <1>3, <1>6, <2>2, <2>3, Globals, VersionPut
  <2>5. Works(s, v, journal, disk', Len(basis))
    BY <1>4, <1>5, <2>1 DEF Works, Reads, Making, Writing
  <2> QED
    BY <2>4, <2>5
<1> QED
  BY <1>1, <1>5, <1>6, <1>9, <1>10, Globals, FileStep

\* Without a journal the last decision is as whole as the others.
LEMMA JournalGone ==
  ASSUME NEW j, NEW d, NEW b, NEW t, Decided(j, d, b, t), j # NoJournal,
         j.state = "committed" \/ InNone(Len(b), d)
  PROVE  Decided(NoJournal, d, b, t)
<1>1. j.state = "committed" => InAll(Len(b), b, d)
  BY DEF Decided, Journalled, InAll
<1>2. Whole(NoJournal, d, b)
  BY <1>1 DEF Decided, Whole
<1> QED
  BY <1>2 DEF Decided, Journalled

LEMMA DropStep == ASSUME DecisionInv, NEW p \in Process, Drop(p) PROVE DecisionInv'
<1> DEFINE v == [call[p] EXCEPT !.original = Nothing, !.number = 0, !.todo = {}]
           s == Settled(p)
<1>1. /\ at[p] = "drop" /\ at[p] \in Inside /\ guard' = guard /\ left' = left /\ LeftKept
      /\ journal' = NoJournal /\ UNCHANGED <<disk, basis, told, quiet>>
  BY Mine, Spent DEF Drop, Holding, Inside
<1>2. /\ v \in Calls /\ v.page = call[p].page /\ v.read = call[p].read
      /\ v.original = Nothing /\ v.goal = call[p].goal
  BY Mine, NothingIs DEF Calls
<1>3. s \in {"unlock", "parse"} /\ (s = "parse" => call[p].goal = "decide")
  BY DEF Settled
<1>4. Becomes(p, s, v)
  BY <1>2, <1>3 DEF Drop, Go, Becomes, Stages, Inside
<1> HIDE DEF v, s
<1>5. Fits(s, v)
  BY <1>3 DEF Fits, Inside, Writing
<1>6. Paged(s, v)
  BY <1>1, <1>2, <1>3, Mine DEF Paged, Making
<1>7. Sound(s, v, Len(basis), left.edit, quiet)
  BY <1>2, <1>5, <1>6, Mine, NothingIs DEF Sound
<1>8. JournalSound(journal', Len(basis), left.edit, quiet)
  BY <1>1 DEF JournalSound
<1>9. ASSUME Guarded
      PROVE  Decided(journal', disk, basis, told) /\ Works(s, v, journal', disk, Len(basis))
  <2>1. /\ journal # NoJournal
        /\ journal.state = "committed" \/ InNone(Len(basis), disk)
    BY <1>1, <1>9, Mine DEF Works
  <2>2. Decided(journal, disk, basis, told)
    BY <1>9 DEF Guarded
  <2>3. Decided(journal', disk, basis, told)
    BY <1>1, <2>1, <2>2, JournalGone
  <2>4. Works(s, v, journal', disk, Len(basis))
    BY <1>1, <1>3 DEF Works, Reads, Making, Writing
  <2> QED
    BY <2>3, <2>4
<1> QED
  BY <1>1, <1>4, <1>7, <1>8, <1>9, Globals, FileStep

LEMMA FinishStep == ASSUME DecisionInv, NEW p \in Process, Finish(p) PROVE DecisionInv'
<1>1. /\ at[p] = "finish" /\ at[p] \in Inside /\ guard' = guard /\ left' = left /\ LeftKept
      /\ journal' = NoJournal /\ told' = told \cup {call[p].number}
      /\ UNCHANGED <<disk, basis, quiet, call>>
  BY Mine, Spent DEF Finish, Holding, Inside
<1>2. Becomes(p, "unlock", call[p])
  BY <1>1, Mine, Stays DEF Finish, Stages, Inside
<1>3. Fits("unlock", call[p]) /\ Paged("unlock", call[p])
  BY DEF Fits, Paged, Inside, Making, Writing
<1>4. Sound("unlock", call[p], Len(basis), left.edit, quiet)
  BY <1>3, Mine DEF Sound
<1>5. JournalSound(journal', Len(basis), left.edit, quiet)
  BY <1>1 DEF JournalSound
<1>6. call[p].number \in Nat /\ told' \subseteq Nat
  BY <1>1, Mine, Globals DEF Calls
<1>7. ASSUME Guarded
      PROVE  /\ Decided(journal', disk, basis, told')
             /\ Works("unlock", call[p], journal', disk, Len(basis))
  <2>1. journal # NoJournal /\ journal.state = "committed" /\ call[p].number = Len(basis)
    BY <1>1, <1>7, Mine DEF Works
  <2>2. Decided(journal, disk, basis, told)
    BY <1>7 DEF Guarded
  <2>3. Len(basis) \in DOMAIN basis /\ InAll(Len(basis), basis, disk)
    BY <2>1, <2>2 DEF Decided, Journalled, InAll
  <2>4. Decided(NoJournal, disk, basis, told)
    BY <2>1, <2>2, JournalGone
  <2>5. Kept(disk, basis, told')
    BY <1>1, <2>1, <2>3, <2>4 DEF Decided, Kept
  <2>6. Decided(journal', disk, basis, told')
    BY <1>1, <2>4, <2>5 DEF Decided, Journalled
  <2> QED
    BY <2>6, OutsideWorks
<1> QED
  BY <1>1, <1>2, <1>4, <1>5, <1>6, <1>7, Globals, FileStep

LEMMA CommitStep == ASSUME DecisionInv, NEW p \in Process, Commit(p) PROVE DecisionInv'
<1> DEFINE j == [state |-> "committed", before |-> call[p].original, after |-> call[p].read]
<1>1. /\ at[p] = "commit" /\ at[p] \in Inside /\ guard' = guard /\ left' = left /\ LeftKept
      /\ journal' = j /\ UNCHANGED <<disk, basis, told, quiet, call>>
  BY Mine, Spent DEF Commit, Holding, Inside
<1>2. Becomes(p, "finish", call[p])
  BY <1>1, Mine, Stays DEF Commit, Stages, Inside
<1>3. Fits("finish", call[p]) /\ Paged("finish", call[p])
  BY DEF Fits, Paged, Inside, Making, Writing
<1>4. Sound("finish", call[p], Len(basis), left.edit, quiet)
  BY <1>3, Mine DEF Sound
<1>5. /\ j \in Journals /\ j # NoJournal /\ j.state = "committed"
      /\ j.before = call[p].original /\ j.after = call[p].read
  BY Mine DEF Journals, NoJournal
<1>6. DOMAIN call[p].read = DOMAIN call[p].original
  BY <1>1, Mine DEF Fits, Writing
<1> HIDE DEF j
<1>7. JournalSound(j, Len(basis), left.edit, quiet)
  BY <1>5, <1>6, Mine DEF JournalSound, Holds
<1>8. ASSUME Guarded
      PROVE  Decided(j, disk, basis, told) /\ Works("finish", call[p], j, disk, Len(basis))
  <2>1. /\ journal = [state |-> "prepared", before |-> call[p].original, after |-> call[p].read]
        /\ call[p].number = Len(basis)
        /\ \A f \in DOMAIN call[p].read : Len(basis) \in disk[f].made
    BY <1>1, <1>8, Mine DEF Works, Writing
  <2>2. /\ journal # NoJournal
        /\ journal.before = call[p].original /\ journal.after = call[p].read
    BY <2>1 DEF NoJournal
  <2>3. Decided(journal, disk, basis, told)
    BY <1>8 DEF Guarded
  <2>4. Journalled(j, disk, basis, told)
    BY <1>5, <1>6, <2>1, <2>2, <2>3 DEF Decided, Journalled
  <2>5. Whole(j, disk, basis)
    BY <1>5, <2>2, <2>3 DEF Decided, Whole
  <2>6. Decided(j, disk, basis, told)
    BY <2>3, <2>4, <2>5 DEF Decided
  <2>7. Works("finish", call[p], j, disk, Len(basis))
    BY <1>5, <2>1 DEF Works, Reads, Making, Writing
  <2> QED
    BY <2>6, <2>7
<1> QED
  BY <1>1, <1>2, <1>4, <1>5, <1>7, <1>8, Globals, FileStep

\* What a decision writes: what it read, and itself.
LEMMA AfterIs ==
  ASSUME DecisionInv, NEW p \in Process, at[p] = "log"
  PROVE  LET n == Len(basis) + 1
             after == [f \in Touch(p) |-> [call[p].read[f] EXCEPT !.made = @ \cup {n}]]
         IN  /\ n \in Nat /\ Touch(p) = DOMAIN call[p].read /\ Touch(p) \subseteq File
             /\ after \in Part /\ DOMAIN after = Touch(p)
             /\ Known(after, n, left.edit) /\ Holds(after, quiet)
             /\ \A f \in Touch(p) : after[f].made = call[p].read[f].made \cup {n}
<1> DEFINE n == Len(basis) + 1
           D == Touch(p)
           after == [f \in D |-> [call[p].read[f] EXCEPT !.made = @ \cup {n}]]
<1>1. n \in Nat /\ D = DOMAIN call[p].read /\ D \subseteq File
  BY Mine, PartIs DEF Touch, Fits
<1>2. ASSUME NEW f \in D
      PROVE  /\ after[f] \in Content /\ after[f].made = call[p].read[f].made \cup {n}
             /\ after[f].edits = call[p].read[f].edits
  <2>1. call[p].read[f] \in Content
    BY <1>1, Mine, PartIs
  <2> QED
    BY <1>1, <2>1 DEF Content
<1>3. after \in [D -> Content] /\ DOMAIN after = D
  BY <1>2
<1>4. after \in Part
  BY <1>1, <1>3, PartMade
<1> HIDE DEF after, D
<1>5. Known(after, n, left.edit)
  <2> SUFFICES ASSUME NEW f \in D
               PROVE  after[f].made \subseteq 1 .. n /\ \A e \in after[f].edits : left.edit < e
    BY <1>3 DEF Known
  <2>1. call[p].read[f].made \subseteq 1 .. Len(basis)
        /\ \A e \in call[p].read[f].edits : left.edit < e
    BY <1>1, Mine DEF Known
  <2> QED
    BY <1>1, <1>2, <2>1, Mine
<1>6. Holds(after, quiet)
  BY <1>1, <1>2, <1>3, Mine DEF Holds
<1> QED
  BY <1>1, <1>2, <1>3, <1>4, <1>5, <1>6 DEF after, D

LEMMA LogStep == ASSUME DecisionInv, NEW p \in Process, Log(p) PROVE DecisionInv'
<1> DEFINE n == Len(basis) + 1
           D == Touch(p)
           after == [f \in D |-> [call[p].read[f] EXCEPT !.made = @ \cup {n}]]
           seen == \A f \in D \ {"receipt"} : call[p].read[f] = call[p].page[f]
           r == [touch |-> D, seen |-> seen]
           j == [state |-> "prepared", before |-> call[p].original, after |-> after]
           v == [call[p] EXCEPT !.number = n, !.todo = D, !.page = Nothing, !.read = after]
<1>1. /\ at[p] = "log" /\ at[p] \in Inside /\ guard' = guard
      /\ UNCHANGED <<disk, told, quiet>> /\ Go(p, "write")
      /\ basis' = Append(basis, r) /\ journal' = j /\ call' = [call EXCEPT ![p] = v]
  BY DEF Log, Holding, Inside
<1>2. left' \in Left /\ left'.edit = left.edit /\ left'.stolen = left.stolen
  BY Mine DEF Log, Spend, Left
<1>3. /\ n \in Nat /\ D = DOMAIN call[p].read /\ D \subseteq File
      /\ after \in Part /\ DOMAIN after = D
      /\ Known(after, n, left.edit) /\ Holds(after, quiet)
      /\ \A f \in D : after[f].made = call[p].read[f].made \cup {n}
  BY <1>1, AfterIs
<1>4. D = DOMAIN call[p].original
  BY DEF Touch
<1>5. seen \in BOOLEAN
  OBVIOUS
<1> HIDE DEF after, D, seen
<1>6. r.touch = D /\ r.seen = seen /\ r \in [touch : SUBSET File, seen : BOOLEAN]
  BY <1>3, <1>5
<1>7. /\ v \in Calls /\ v.page = Nothing /\ v.read = after
      /\ v.original = call[p].original /\ v.number = n /\ v.todo = D /\ v.goal = call[p].goal
  BY <1>3, Mine, NothingIs DEF Calls
<1>8. Becomes(p, "write", v)
  BY <1>1, <1>7 DEF Go, Becomes, Stages, Inside
<1>9. /\ j \in Journals /\ j # NoJournal /\ j.state = "prepared"
      /\ j.before = call[p].original /\ j.after = after
  BY <1>3, Mine DEF Journals, NoJournal
<1> HIDE DEF r
<1>10. /\ basis' \in Seq([touch : SUBSET File, seen : BOOLEAN]) /\ Len(basis') = n
       /\ DOMAIN basis' = DOMAIN basis \cup {n} /\ n \notin DOMAIN basis
       /\ basis'[n] = r /\ \A m \in DOMAIN basis : basis'[m] = basis[m]
       /\ Len(basis) <= n /\ DOMAIN basis = 1 .. Len(basis)
  BY <1>1, <1>6, Globals
<1> HIDE DEF v, n
<1>11. Known(call[p].original, n, left.edit) /\ Known(disk, n, left.edit)
  <2>1. Known(call[p].original, n, left.edit)
    BY <1>3, <1>10, Mine, KnownGrows
  <2>2. disk \in Part
    BY Globals, PartMade
  <2> QED
    BY <1>3, <1>10, <2>1, <2>2, Mine, Globals, KnownGrows
<1>12. Fits("write", v)
  BY <1>3, <1>4, <1>7 DEF Fits, Inside, Writing
<1>13. Paged("write", v)
  BY DEF Paged, Making
<1>14. Sound("write", v, n, left.edit, quiet)
  BY <1>3, <1>7, <1>11, <1>12, <1>13, Mine, NothingIs DEF Sound
<1>15. JournalSound(j, n, left.edit, quiet)
  BY <1>3, <1>4, <1>9, <1>11, Mine DEF JournalSound, Holds
<1>16. ASSUME Guarded
       PROVE  Decided(j, disk, basis', told) /\ Works("write", v, j, disk, n)
  <2>1. /\ journal = NoJournal /\ Same(call[p].read, disk) /\ Same(call[p].original, disk)
        /\ \A f \in DOMAIN call[p].read \ {"receipt"} : call[p].read[f] = call[p].page[f]
    BY <1>1, <1>16, Mine DEF Works, Reads, Making
  <2>2. Decided(journal, disk, basis, told)
    BY <1>16 DEF Guarded
  <2>3. \A f \in File : n \notin disk[f].made
    <3>1. \A f \in File : disk[f].made \subseteq DOMAIN basis
      BY <1>10, Globals DEF Known
    <3> QED
      BY <3>1, <1>10
  <2>4. n \notin told
    BY <1>10, <2>2 DEF Decided, Kept
  <2>5. \A f \in D : /\ call[p].original[f].made = disk[f].made \ {n}
                     /\ after[f].made = disk[f].made \cup {n}
    BY <1>3, <1>4, <2>1, <2>3 DEF Same
  <2>6. Journalled(j, disk, basis', told)
    BY <1>4, <1>6, <1>9, <1>10, <2>3, <2>4, <2>5 DEF Journalled
  <2>7. Whole(j, disk, basis')
    <3> SUFFICES ASSUME NEW m \in DOMAIN basis', m # n
                 PROVE  InAll(m, basis', disk) \/ InNone(m, disk)
      BY <1>9, <1>10 DEF Whole
    <3>1. m \in DOMAIN basis /\ basis'[m] = basis[m]
      BY <1>10
    <3>2. InAll(m, basis, disk) \/ InNone(m, disk)
      BY <3>1, <2>1, <2>2 DEF Decided, Whole
    <3> QED
      BY <3>1, <3>2 DEF InAll
  <2>8. Kept(disk, basis', told)
    BY <1>10, <2>2 DEF Decided, Kept, InAll
  <2>9. \A m \in DOMAIN basis' : basis'[m].seen
    <3>1. r.seen
      BY <1>3, <1>6, <2>1 DEF seen
    <3> QED
      BY <3>1, <1>10, <2>2 DEF Decided
  <2>10. Works("write", v, j, disk, n)
    <3>1. j = [state |-> "prepared", before |-> v.original, after |-> v.read]
      BY <1>7
    <3> QED
      BY <3>1, <1>7 DEF Works, Reads, Making, Writing
  <2> QED
    BY <2>6, <2>7, <2>8, <2>9, <2>10 DEF Decided
<1>17. /\ disk' = disk /\ told' = told /\ quiet' = quiet /\ journal' = j /\ Len(basis') = n
  BY <1>1, <1>10
<1> HIDE DEF j
<1>18. /\ disk' \in [File -> Content] /\ journal' \in Journals \cup {NoJournal} /\ told' \subseteq Nat
       /\ Len(basis) <= Len(basis')
       /\ Known(disk', Len(basis'), left.edit) /\ Holds(disk', quiet)
       /\ JournalSound(journal', Len(basis'), left.edit, quiet)
       /\ Sound("write", v, Len(basis'), left.edit, quiet)
       /\ Guarded => /\ Decided(journal', disk', basis', told')
                     /\ Works("write", v, journal', disk', Len(basis'))
  BY <1>9, <1>10, <1>11, <1>14, <1>15, <1>16, <1>17, Globals
<1> QED
  BY <1>1, <1>2, <1>8, <1>10, <1>17, <1>18, WriteStep

-----------------------------------------------------------------------------
(* The world                                                               *)

\* An edit changes no decision, and it is new wherever it is not yet seen.
LEMMA EditStep == ASSUME DecisionInv, NEW f \in Edited, Edit(f) PROVE DecisionInv'
<1> DEFINE k == left.edit
           c == [disk[f] EXCEPT !.edits = @ \cup {k}]
           n == Len(basis)
<1>1. /\ disk' = [disk EXCEPT ![f] = c] /\ UNCHANGED <<at, call, journal, guard, basis, told>>
      /\ quiet' = IF AtRest THEN quiet \cup {<<f, k>>} ELSE quiet
  BY DEF Edit
<1>0. Shapes /\ f \in File /\ k \in Nat /\ n \in Nat
  BY DEF DecisionInv, Basic, Shapes, Left, Edited
<1>2. /\ left' \in Left /\ left'.edit \in Nat /\ left'.edit < k /\ left'.edit <= k
      /\ left'.stolen = left.stolen
  <2>1. left.edit > 0 /\ left' = [left EXCEPT !.edit = @ - 1] /\ left \in Left
    BY <1>0 DEF Edit, Spend, Shapes
  <2>2. left.edit - 1 \in Nat /\ left.edit - 1 < left.edit
    BY <1>0, <2>1
  <2> QED
    BY <2>1, <2>2 DEF Left
<1>3. /\ c \in Content /\ c.made = disk[f].made /\ c.edits = disk[f].edits \cup {k}
      /\ disk' \in [File -> Content] /\ disk'[f] = c
      /\ \A g \in File \ {f} : disk'[g] = disk[g]
  <2>1. disk \in [File -> Content] /\ disk[f] \in Content
    BY <1>0 DEF Shapes
  <2>2. c \in Content /\ c.made = disk[f].made /\ c.edits = disk[f].edits \cup {k}
    BY <1>0, <2>1 DEF Content
  <2> HIDE DEF c
  <2> QED
    BY <1>0, <1>1, <2>1, <2>2
<1>4. \A g \in File : disk'[g].made = disk[g].made /\ disk[g].edits \subseteq disk'[g].edits
  BY <1>3
<1> HIDE DEF k, c, n
<1>5. Shapes'
  <2>1. quiet' \subseteq File \X Nat
    BY <1>0, <1>1 DEF Shapes
  <2> QED
    BY <1>0, <1>1, <1>2, <1>3, <2>1 DEF Shapes
<1>6. Known(disk', n, left'.edit)
  <2>1. disk \in Part /\ Known(disk, n, k)
    BY Globals, PartMade DEF n, k
  <2>2. Known(disk, n, left'.edit)
    BY <1>0, <1>2, <2>1, KnownGrows
  <2> QED
    BY <1>0, <1>2, <1>3, <2>2, Globals DEF Known
<1>7. Holds(disk', quiet')
  <2> SUFFICES ASSUME NEW e \in quiet', e[1] \in File PROVE e[2] \in disk'[e[1]].edits
    BY <1>3 DEF Holds
  <2>1. CASE e \in quiet
    BY <2>1, <1>4, Globals DEF Holds
  <2>2. CASE e = <<f, k>>
    BY <2>2, <1>3
  <2> QED
    BY <2>1, <2>2, <1>1
<1>8. JournalSound(journal', n, left'.edit, quiet')
  <2> SUFFICES ASSUME journal # NoJournal PROVE JournalSound(journal, n, left'.edit, quiet')
    BY <1>1 DEF JournalSound
  <2>1. /\ journal.before \in Part /\ journal.after \in Part
        /\ DOMAIN journal.before = DOMAIN journal.after
        /\ Known(journal.before, n, k) /\ Known(journal.after, n, k)
    BY JournalIs DEF n, k
  <2>2. Known(journal.before, n, left'.edit) /\ Known(journal.after, n, left'.edit)
    BY <1>0, <1>2, <2>1, KnownGrows
  <2>3. ASSUME NEW e \in quiet', e[1] \in DOMAIN journal.before
        PROVE  e[2] \in journal.before[e[1]].edits <=> e[2] \in journal.after[e[1]].edits
    <3>1. CASE e \in quiet
      BY <3>1, <2>3, Globals DEF JournalSound
    <3>2. CASE e = <<f, k>>
      <4>1. ~(k < k)
        BY <1>0
      <4>2. k \notin journal.before[f].edits /\ k \notin journal.after[f].edits
        BY <2>1, <2>3, <3>2, <4>1 DEF Known
      <4> QED
        BY <3>2, <4>2
    <3> QED
      BY <3>1, <3>2, <1>1
  <2> QED
    BY <2>1, <2>2, <2>3 DEF JournalSound
<1>9. ASSUME NEW p \in Process
      PROVE  Sound(at[p], call[p], n, left'.edit, quiet')
  <2>1. Sound(at[p], call[p], n, k, quiet) /\ call[p] \in Calls
    BY Mine DEF n, k
  <2>2. Sound(at[p], call[p], n, left'.edit, quiet)
    BY <1>0, <1>2, <2>1, SoundGrows
  <2>3. Holds(call[p].read, quiet') /\ Holds(call[p].original, quiet')
    <3>1. CASE AtRest
      <4>1. call[p].read = Nothing /\ call[p].original = Nothing
        BY <3>1, <2>1 DEF AtRest, Sound, Fits
      <4> QED
        BY <4>1, NothingIs
    <3>2. CASE ~AtRest
      BY <3>2, <1>1, <2>1 DEF Sound
    <3> QED
      BY <3>1, <3>2
  <2> QED
    BY <2>2, <2>3 DEF Sound
<1>10. Basic'
  BY <1>1, <1>5, <1>6, <1>7, <1>8, <1>9 DEF Basic, n
<1>11. ASSUME Guarded, NEW p \in Process
       PROVE  Works(at[p], call[p], journal, disk', n)
  <2>1. Works(at[p], call[p], journal, disk, n)
    BY <1>11 DEF Guarded, n
  <2>2. DOMAIN call[p].read \subseteq File /\ DOMAIN call[p].original \subseteq File
    BY Mine, PartIs
  <2>3. /\ Same(call[p].read, disk) => Same(call[p].read, disk')
        /\ Same(call[p].original, disk) => Same(call[p].original, disk')
    BY <1>4, <2>2 DEF Same
  <2>4. InNone(n, disk) => InNone(n, disk')
    BY <1>4 DEF InNone
  <2>5. ASSUME at[p] = "compare"
        PROVE  \/ call[p].read["shape"] = disk'["shape"]
               \/ ~(disk'["shape"].edits \subseteq call[p].page["shape"].edits)
    <3>1. \/ call[p].read["shape"] = disk["shape"]
          \/ ~(disk["shape"].edits \subseteq call[p].page["shape"].edits)
      BY <2>1, <2>5 DEF Works, Reads
    <3>2. CASE f = "shape"
      <4>1. "shape" \in DOMAIN call[p].page
        BY <2>5, Mine DEF Paged, Making, Edited, File
      <4>2. ~(k < k)
        BY <1>0
      <4>3. k \notin call[p].page["shape"].edits
        BY <4>1, <4>2, Mine DEF Known, k
      <4> QED
        BY <4>3, <3>2, <1>3
    <3>3. CASE f # "shape"
      BY <3>1, <3>3, <1>3 DEF File
    <3> QED
      BY <3>2, <3>3
  <2>6. Reads(at[p], call[p], disk')
    BY <2>1, <2>5 DEF Works, Reads
  <2>7. at[p] = "commit" => \A g \in DOMAIN call[p].read : n \in disk'[g].made
    BY <1>4, <2>1, <2>2 DEF Works
  <2>8. at[p] = "restore" => \A g \in DOMAIN call[p].original \ call[p].todo : n \notin disk'[g].made
    BY <1>4, <2>1, <2>2 DEF Works
  <2> QED
    BY <2>1, <2>3, <2>4, <2>6, <2>7, <2>8 DEF Works
<1>12. ASSUME Guarded PROVE Decided(journal, disk', basis, told)
  <2>1. Decided(journal, disk, basis, told)
    BY <1>12 DEF Guarded
  <2>2. \A m \in DOMAIN basis : basis[m].touch \subseteq File
    BY Globals, TouchIs
  <2>3. \A m \in DOMAIN basis : /\ InAll(m, basis, disk) => InAll(m, basis, disk')
                                /\ InNone(m, disk) => InNone(m, disk')
    BY <1>4, <2>2 DEF InAll, InNone
  <2>4. Whole(journal, disk', basis) /\ Kept(disk', basis, told)
    BY <2>1, <2>3 DEF Decided, Whole, Kept
  <2>5. journal # NoJournal => DOMAIN journal.before \subseteq File
    BY JournalIs
  <2>6. Journalled(journal, disk', basis, told)
    BY <1>4, <2>1, <2>5 DEF Decided, Journalled
  <2> QED
    BY <2>1, <2>4, <2>6 DEF Decided
<1>13. Guarded => Guarded'
  BY <1>1, <1>11, <1>12 DEF Guarded, Exclusive, n
<1> QED
  BY <1>2, <1>10, <1>13 DEF DecisionInv

LEMMA DecisionInvInit == DecisionInit => DecisionInv
<1> SUFFICES ASSUME DecisionInit PROVE DecisionInv
  OBVIOUS
<1>1. /\ at = [p \in Process |-> "idle"] /\ call = [p \in Process |-> NoCall]
      /\ disk = [f \in File |-> Blank] /\ journal = NoJournal /\ guard = NoGuard
      /\ basis = <<>> /\ told = {} /\ quiet = {} /\ left \in Left
  <2>1. left \in Allowances
    BY DEF DecisionInit
  <2>2. /\ MaxDecision \in Nat /\ MaxEdit \in Nat /\ MaxMishap \in Nat /\ MaxSteal \in Nat
    BY DecisionAssumption
  <2>3. /\ 0 .. MaxDecision \subseteq Nat /\ 0 .. MaxEdit \subseteq Nat
        /\ 0 .. MaxMishap \subseteq Nat /\ 0 .. MaxSteal \subseteq Nat
    BY <2>2
  <2>4. left \in [decision : Nat, edit : Nat, mishap : Nat, steal : Nat, stolen : {FALSE}]
    BY <2>1, <2>3 DEF Allowances
  <2>5. left \in Left
    BY <2>4 DEF Left
  <2> QED
    BY <2>5 DEF DecisionInit
<1>2. Blank \in Content /\ Blank.made = {} /\ Blank.edits = {}
  BY DEF Blank, Content
<1>3. Len(basis) = 0 /\ DOMAIN basis = {}
      /\ basis \in Seq([touch : SUBSET File, seen : BOOLEAN])
  BY <1>1
<1>4. disk \in [File -> Content]
  BY <1>1, <1>2
<1>5. Shapes
  BY <1>1, <1>3, <1>4, NoCallIs DEF Shapes, Stages, NoGuard, Guards
<1>6. Known(disk, Len(basis), left.edit) /\ Holds(disk, quiet)
      /\ JournalSound(journal, Len(basis), left.edit, quiet)
  BY <1>1, <1>2 DEF Known, Holds, JournalSound
<1>7. \A p \in Process : Sound(at[p], call[p], Len(basis), left.edit, quiet)
  BY <1>1, NoCallIs, EmptySound
<1>8. \A p \in Process : at[p] \notin Inside
  BY <1>1 DEF Inside
<1>9. \A p \in Process : Works(at[p], call[p], journal, disk, Len(basis))
  BY <1>8, OutsideWorks
<1>10. Decided(journal, disk, basis, told)
  BY <1>1, <1>3 DEF Decided, Journalled, Whole, Kept
<1> QED
  BY <1>5, <1>6, <1>7, <1>8, <1>9, <1>10 DEF DecisionInv, Basic, Guarded, Exclusive

LEMMA DecisionInvNext == DecisionInv /\ [DecisionNext]_decisionVars => DecisionInv'
<1> SUFFICES ASSUME DecisionInv, [DecisionNext]_decisionVars PROVE DecisionInv'
  OBVIOUS
<1>1. ASSUME NEW p \in Process, Step(p) PROVE DecisionInv'
  BY <1>1, LookStep, EnterStep, StampStep, SuspectStep, TakeAwayStep, UnlockStep, RecoverStep,
     RestoreStep, DropStep, ParseStep, BytesStep, CompareStep, PrepareStep, OriginalsStep,
     CheckStep, LogStep, WritesStep, VerifyStep, CommitStep, FinishStep
     DEF Step
<1>2. ASSUME NEW p \in Process,
             \/ Open(p) \/ Decide(p) \/ Leave(p)
             \/ RecoveryFails(p) \/ WriteFails(p) \/ Kill(p)
      PROVE  DecisionInv'
  BY <1>2, OpenStep, DecideStep, LeaveStep, RecoveryFailsStep, WriteFailsStep, KillStep
<1>3. ASSUME UNCHANGED decisionVars PROVE DecisionInv'
  BY <1>3 DEF decisionVars, DecisionInv, Basic, Shapes, Guarded, Exclusive
<1> QED
  BY <1>1, <1>2, <1>3, EditStep DEF DecisionNext

LEMMA DecisionInvariance == DecisionSpec => []DecisionInv
BY DecisionInvInit, DecisionInvNext, PTL DEF DecisionSpec

-----------------------------------------------------------------------------
(* What follows                                                            *)

\* The journal, the guard and the memory of the processes stay well formed, and
\* no content carries a decision that was not made.
THEOREM DecisionTyping == DecisionSpec => []DecisionTypeOK
<1>1. ASSUME DecisionInv PROVE DecisionTypeOK
  <2>1. Shapes
    BY <1>1 DEF DecisionInv, Basic
  <2>2. DOMAIN at = Process /\ DOMAIN call = Process /\ DOMAIN disk = File
        /\ guard.by \in Process \cup {"none", "dead"}
    BY <2>1 DEF Shapes, Guards
  <2>3. journal.state \in {"none", "prepared", "committed"}
    BY <2>1 DEF Shapes, Journals, NoJournal
  <2>4. journal # NoJournal => DOMAIN journal.before = DOMAIN journal.after
    BY <1>1, JournalIs
  <2>5. \A d \in UNION {disk[f].made : f \in File} : d <= Len(basis)
    <3> SUFFICES ASSUME NEW f \in File, NEW d \in disk[f].made PROVE d <= Len(basis)
      OBVIOUS
    <3>1. d \in 1 .. Len(basis) /\ Len(basis) \in Nat
      BY <1>1, Globals DEF Known
    <3> QED
      BY <3>1
  <2> QED
    BY <2>2, <2>3, <2>4, <2>5 DEF DecisionTypeOK
<1> QED
  BY <1>1, DecisionInvariance, PTL

\* One process at a time is inside the guard; a decision is in all of its files
\* or in none once no journal is left, and one reported as recorded stays, under
\* every kill, failed write and edit (_transactional_replace and
\* _recover_decision_transaction_locked).
THEOREM DecisionsAreIntact == DecisionSpec => []DecisionIntact
<1>1. ASSUME DecisionInv PROVE DecisionIntact
  <2>1. OneInside
    <3> SUFFICES ASSUME ~left.stolen, NEW p \in Process, NEW q \in Process,
                        at[p] \in Inside, at[q] \in Inside
                 PROVE  p = q
      BY DEF OneInside
    <3> QED
      BY <1>1 DEF DecisionInv, Guarded, Exclusive
  <2>2. WholeDecisions
    <3> SUFFICES ASSUME journal = NoJournal, ~left.stolen, NEW n \in DOMAIN basis
                 PROVE  InAll(n, basis, disk) \/ InNone(n, disk)
      BY DEF WholeDecisions, InAll, InNone
    <3> QED
      BY <1>1 DEF DecisionInv, Guarded, Decided, Whole
  <2>3. WordKept
    BY <1>1 DEF WordKept, DecisionInv, Guarded, Decided, Kept, InAll
  <2> QED
    BY <2>1, <2>2, <2>3 DEF DecisionIntact
<1> QED
  BY <1>1, DecisionInvariance, PTL

\* Nothing that others write is ruled upon unseen, and what they write while no
\* process is inside the guard is never overwritten.
THEOREM EditsAreSeen == DecisionSpec => []EditsSeen
<1>1. ASSUME DecisionInv PROVE EditsSeen
  <2>1. RuledAsSeen
    BY <1>1 DEF RuledAsSeen, DecisionInv, Guarded, Decided
  <2>2. QuietEditSurvives
    <3> SUFFICES ASSUME NEW e \in quiet PROVE e[2] \in disk[e[1]].edits
      BY DEF QuietEditSurvives
    <3>1. e[1] \in File
      BY <1>1 DEF DecisionInv, Basic, Shapes
    <3>2. DOMAIN disk = File /\ Holds(disk, quiet)
      BY <1>1, Globals
    <3> QED
      BY <3>1, <3>2 DEF Holds
  <2> QED
    BY <2>1, <2>2 DEF EditsSeen
<1> QED
  BY <1>1, DecisionInvariance, PTL
=============================================================================
