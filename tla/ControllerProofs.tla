---------------------------- MODULE ControllerProofs ----------------------------
(***************************************************************************)
(* Proofs about the review session (Controller), for every number of       *)
(* releases, folders, game files, reviews, transactions, edits, faults and *)
(* crashes.                                                                *)
(*                                                                         *)
(* A review keeps its promises because what it is bound to is never wider  *)
(* than it thinks: every transaction a review started is the one that the  *)
(* running command or its session file names (Sessions, Running), although *)
(* the reverse does not hold (ExactTransaction is refuted).  So what a     *)
(* command rolls back is all that there is to roll back, and a review that *)
(* says restored has nothing left.  The same is kept of its baseline: from *)
(* the restored document on, the one there is the prior one, unless the    *)
(* developer wrote another.                                                *)
(***************************************************************************)
EXTENDS Controller, TLAPS

-----------------------------------------------------------------------------
(* The inductive invariant                                                 *)

Doc     == Document \cup {Absent, Foreign}
TxnFile == [state : TxnState, plan : Plan \cup {Unset}, by : Review \cup {Unset}]
Process == [pc : Step, s : Review \cup {Unset}, t : Txn \cup {NoTxn}, how : How,
            scan : SUBSET GameFile, ok : BOOLEAN, clean : BOOLEAN]

Typed ==
  /\ DOMAIN session \subseteq Review
  /\ session \in [DOMAIN session -> Session]
  /\ txn \in [Txn -> TxnFile]
  /\ project \in [kit : Kit, edited : BOOLEAN, mixed : Txn \cup {NoTxn}]
  /\ baseline \in [doc : Doc, kept : Doc, dev : BOOLEAN]
  /\ game \in [GameFile -> 0 .. MaxVersion]
  /\ proc \in Process
  /\ proc.pc # "idle" => proc.s \in DOMAIN session

Own(s) == {t \in Txn : txn[t].state # "none" /\ txn[t].by = s}

Undone    == {"restored", "restored_failure"}
Accepted  == {"complete", "adoption_required"}
BoundOnes == {"checking", "recovery_required"} \cup Accepted

\* Every transaction belongs to a review that was approved, and has its plan.
Logged ==
  /\ \A t \in Txn : txn[t].state # "none" =>
       /\ txn[t].by \in DOMAIN session
       /\ txn[t].plan = txn[t].by.plan
       /\ session[txn[t].by].state \notin OpenState
  /\ \A s \in DOMAIN session : session[s].txn # NoTxn => txn[session[s].txn].state # "none"

\* What a session file says of its review.
Sound(s) ==
  /\ session[s].state # "none"
  /\ session[s].state \in OpenState \cup {"applying"} => session[s].generated = Unset
  /\ session[s].state \notin OpenState => session[s].prior # Unset
  /\ session[s].state \in BoundOnes => Own(s) \subseteq {session[s].txn}
  /\ session[s].state \in Undone => \A t \in Own(s) : txn[t].state = "rolled_back"
  /\ /\ s.plan.from # NoKit
     /\ session[s].prior \in Document /\ session[s].generated \in Document
     => session[s].generated.allow \subseteq session[s].prior.allow

Sessions == \A s \in DOMAIN session : Sound(s)

Applying  == {"call", "writing", "applied"}
Checking  == {"check", "scanned", "intent", "written", "verified", "recorded"}
Rolling   == {"rolling", "rolled", "stuck"}
Restoring == {"restore", "unbased"} \cup Rolling
ByReview  == {"auto", "manual"}

\* What the running command relies on, at each of its steps.
Running ==
  /\ proc.t # NoTxn => txn[proc.t].state # "none"
  /\ proc.pc \in Applying => session[proc.s].state = "applying"
  /\ proc.pc = "call" => Own(proc.s) = {} /\ proc.how = "none"
  /\ proc.pc \in Checking => session[proc.s].state = "checking"
  /\ proc.pc \in {"writing", "applied"} \cup Rolling => Own(proc.s) \subseteq {proc.t}
  /\ proc.pc \in {"writing", "rolling", "stuck"} => proc.t # NoTxn
  /\ proc.pc = "writing" => /\ proc.how \in {"none", "resume"}
                             /\ txn[proc.t].state \in {"open", "writing", "activated"}
  /\ proc.pc = "intent" => session[proc.s].generated # Unset
  /\ proc.pc \in {"restore", "unbased"} => proc.how \in ByReview
  /\ proc.pc \in Rolling => proc.how # "none"
  /\ proc.pc \in Rolling /\ proc.how \in ByReview => proc.t = session[proc.s].txn
  /\ proc.pc \in Rolling /\ proc.how \notin ByReview => session[proc.s].state = "applying"
  /\ proc.pc = "rolling" /\ proc.how \notin ByReview => txn[proc.t].state # "applied"
  /\ proc.pc = "rolled" /\ proc.t # NoTxn => txn[proc.t].state = "rolled_back"
  /\ proc.pc \in Restoring /\ proc.how = "auto" =>
       session[proc.s].state \in {"checking", "recovery_required"}
  /\ proc.pc \in Restoring /\ proc.how = "manual" =>
       session[proc.s].state \in Accepted \cup {"recovery_required"}

\* The baseline a restoring command has dealt with.
Rebased ==
  (/\ proc.pc \in Restoring \ {"restore"} /\ proc.how \in ByReview
   /\ session[proc.s].generated # Unset /\ ~baseline.dev)
  => baseline.doc = session[proc.s].prior

IInv == Typed /\ Logged /\ OneTransactionPerReview /\ Sessions /\ Running /\ Rebased

-----------------------------------------------------------------------------
(* Session files                                                           *)

LEMMA TxnFacts == NoTxn \notin Txn
BY DEF NoTxn, Txn

LEMMA SaveIs ==
  ASSUME Typed, NEW s \in Review, NEW r \in Session, Save(s, r)
  PROVE  /\ DOMAIN session' = DOMAIN session \cup {s}
         /\ session' \in [DOMAIN session' -> Session] /\ DOMAIN session' \subseteq Review
         /\ session'[s] = r
         /\ \A x \in DOMAIN session \ {s} : session'[x] = session[x]
BY DEF Typed, Save

\* A session file that changes in its state and, perhaps, its transaction.
Update(s, state, t) ==
  \E r \in Session :
    /\ Save(s, r)
    /\ r.state = state /\ r.txn = t
    /\ r.prior = session[s].prior /\ r.generated = session[s].generated

LEMMA SessionFields ==
  ASSUME Typed, NEW s \in DOMAIN session
  PROVE  /\ s \in Review /\ session[s] \in Session
         /\ session[s].state \in State /\ session[s].txn \in Txn \cup {NoTxn}
         /\ session[s].prior \in Doc \cup {Unset}
         /\ session[s].generated \in Document \cup {Unset}
<1>1. s \in Review /\ session[s] \in Session
  BY DEF Typed
<1> QED
  BY <1>1 DEF Session, Doc

LEMMA TransitionIs ==
  ASSUME Typed, NEW s \in DOMAIN session, NEW state \in State, Transition(s, state)
  PROVE  Update(s, state, session[s].txn)
<1> DEFINE r == [session[s] EXCEPT !.state = state]
<1>1. session[s] \in Session
  BY SessionFields
<1>2. /\ r \in Session /\ r.state = state /\ r.txn = session[s].txn
      /\ r.prior = session[s].prior /\ r.generated = session[s].generated
  BY <1>1 DEF Session
<1>3. Save(s, r)
  BY DEF Transition
<1> HIDE DEF r
<1> QED
  BY <1>2, <1>3 DEF Update

LEMMA FinishIs ==
  ASSUME Typed, NEW s \in DOMAIN session, NEW state \in FinalState, Finish(s, state)
  PROVE  Update(s, state, session[s].txn)
<1> DEFINE r == [session[s] EXCEPT !.state = state, !.result = state]
<1>1. session[s] \in Session /\ state \in State
  BY SessionFields DEF State
<1>2. /\ r \in Session /\ r.state = state /\ r.txn = session[s].txn
      /\ r.prior = session[s].prior /\ r.generated = session[s].generated
  BY <1>1 DEF Session
<1>3. Save(s, r)
  BY DEF Finish
<1> HIDE DEF r
<1> QED
  BY <1>2, <1>3 DEF Update

LEMMA BindIs ==
  ASSUME Typed, NEW s \in DOMAIN session, NEW state \in State, NEW t \in Txn \cup {NoTxn},
         Save(s, [session[s] EXCEPT !.state = state, !.txn = t])
  PROVE  Update(s, state, t)
<1> DEFINE r == [session[s] EXCEPT !.state = state, !.txn = t]
<1>1. session[s] \in Session
  BY SessionFields
<1>2. /\ r \in Session /\ r.state = state /\ r.txn = t
      /\ r.prior = session[s].prior /\ r.generated = session[s].generated
  BY <1>1 DEF Session
<1>3. Save(s, r)
  OBVIOUS
<1> HIDE DEF r
<1> QED
  BY <1>2, <1>3 DEF Update

LEMMA FinishBoundIs ==
  ASSUME Typed, NEW s \in DOMAIN session, NEW state \in FinalState, NEW t \in Txn \cup {NoTxn},
         Save(s, [session[s] EXCEPT !.state = state, !.result = state, !.txn = t])
  PROVE  Update(s, state, t)
<1> DEFINE r == [session[s] EXCEPT !.state = state, !.result = state, !.txn = t]
<1>1. session[s] \in Session /\ state \in State
  BY SessionFields DEF State
<1>2. /\ r \in Session /\ r.state = state /\ r.txn = t
      /\ r.prior = session[s].prior /\ r.generated = session[s].generated
  BY <1>1 DEF Session
<1>3. Save(s, r)
  OBVIOUS
<1> HIDE DEF r
<1> QED
  BY <1>2, <1>3 DEF Update

Closed == State \ (OpenState \cup {"none", "applying"})

\* What is left true of all session files by an update of one that was approved.
LEMMA UpdateKeeps ==
  ASSUME Typed, Logged, Sessions, OneTransactionPerReview,
         NEW s \in DOMAIN session, NEW state \in Closed, NEW t \in Txn \cup {NoTxn},
         Update(s, state, t), txn' = txn, session[s].state \notin OpenState,
         t # NoTxn => txn[t].state # "none",
         state \in BoundOnes => Own(s) \subseteq {t},
         state \in Undone => \A u \in Own(s) : txn[u].state = "rolled_back"
  PROVE  /\ session' \in [DOMAIN session' -> Session] /\ DOMAIN session' = DOMAIN session
         /\ Logged' /\ Sessions' /\ OneTransactionPerReview'
<1>1. PICK r \in Session :
        /\ Save(s, r) /\ r.state = state /\ r.txn = t
        /\ r.prior = session[s].prior /\ r.generated = session[s].generated
  BY DEF Update
<1>2. s \in Review
  BY DEF Typed
<1>3. /\ DOMAIN session' = DOMAIN session
      /\ session' \in [DOMAIN session' -> Session]
      /\ session'[s] = r
      /\ \A x \in DOMAIN session \ {s} : session'[x] = session[x]
  BY <1>1, <1>2, SaveIs
<1>4. Logged'
  BY <1>1, <1>3 DEF Logged, Closed
<1>5. Sessions'
  <2>1. ASSUME NEW x \in DOMAIN session, x # s
        PROVE  Sound(x)'
    <3>1. Sound(x) /\ session'[x] = session[x]
      BY <1>3, <2>1 DEF Sessions
    <3>2. Own(x)' = Own(x)
      BY DEF Own
    <3> QED
      BY <3>1, <3>2 DEF Sound
  <2>2. Sound(s)'
    <3>1. Sound(s)
      BY DEF Sessions
    <3>2. Own(s)' = Own(s)
      BY DEF Own
    <3> QED
      BY <1>1, <1>3, <3>1, <3>2 DEF Sound, Closed, OpenState
  <2> QED
    BY <1>3, <2>1, <2>2 DEF Sessions
<1>6. OneTransactionPerReview'
  BY DEF OneTransactionPerReview
<1> QED
  BY <1>3, <1>4, <1>5, <1>6

LEMMA SameFiles ==
  ASSUME Logged, Sessions, OneTransactionPerReview, UNCHANGED <<session, txn>>
  PROVE  Logged' /\ Sessions' /\ OneTransactionPerReview'
BY DEF Logged, Sessions, Sound, Own, OneTransactionPerReview

-----------------------------------------------------------------------------
(* The running command                                                     *)

LEMMA ProcFields ==
  ASSUME Typed
  PROVE  /\ proc.pc \in Step /\ proc.t \in Txn \cup {NoTxn} /\ proc.how \in How
         /\ proc.s \in Review \cup {Unset} /\ proc.scan \in SUBSET GameFile
BY DEF Typed, Process

LEMMA IdleFields ==
  /\ Idle \in Process
  /\ Idle.pc = "idle" /\ Idle.t = NoTxn
BY DEF Idle, Process, Step, How

\* A command that has returned relies on nothing.
LEMMA ReturnKeeps ==
  ASSUME proc' = Idle \/ (proc' = proc /\ proc.pc = "idle" /\ Running /\ txn' = txn)
  PROVE  Running' /\ Rebased'
<1>1. proc'.pc = "idle" /\ (proc'.t # NoTxn => txn'[proc'.t].state # "none")
  BY IdleFields DEF Running
<1> QED
  BY <1>1 DEF Running, Rebased, Applying, Checking, Rolling, Restoring

\* A command that ends with an update of its session.
LEMMA UpdateReturns ==
  ASSUME IInv, NEW s \in DOMAIN session, NEW state \in Closed, NEW t \in Txn \cup {NoTxn},
         Update(s, state, t), session[s].state \notin OpenState,
         t # NoTxn => txn[t].state # "none",
         state \in BoundOnes => Own(s) \subseteq {t},
         state \in Undone => \A u \in Own(s) : txn[u].state = "rolled_back",
         UNCHANGED <<txn, project, baseline, game>>,
         proc' = Idle \/ (proc' = proc /\ proc.pc = "idle")
  PROVE  IInv'
<1>1. /\ session' \in [DOMAIN session' -> Session] /\ DOMAIN session' = DOMAIN session
      /\ Logged' /\ Sessions' /\ OneTransactionPerReview'
  BY UpdateKeeps DEF IInv
<1>2. Running' /\ Rebased'
  BY ReturnKeeps DEF IInv
<1>3. proc' \in Process /\ proc'.pc = "idle"
  BY IdleFields DEF IInv, Typed
<1>4. Typed'
  BY <1>1, <1>3 DEF IInv, Typed
<1> QED
  BY <1>1, <1>2, <1>4 DEF IInv

LEMMA EnterIs ==
  ASSUME NEW s \in Review, NEW label \in Step, NEW t \in Txn \cup {NoTxn}, NEW how \in How,
         Enter(s, label, t, how)
  PROVE  /\ proc' \in Process
         /\ proc'.pc = label /\ proc'.s = s /\ proc'.t = t /\ proc'.how = how
BY DEF Enter, Idle, Process

LEMMA GotoIs ==
  ASSUME Typed, NEW label \in Step, Goto(label)
  PROVE  /\ proc' \in Process
         /\ proc'.pc = label /\ proc'.s = proc.s /\ proc'.t = proc.t /\ proc'.how = proc.how
BY DEF Goto, Typed, Process

\* A command that only goes on: the files are as they were.
LEMMA GoesOn ==
  ASSUME IInv, UNCHANGED <<session, txn, project, baseline, game>>,
         proc' \in Process, proc'.pc # "idle" => proc'.s \in DOMAIN session, Running', Rebased'
  PROVE  IInv'
<1>1. Logged' /\ Sessions' /\ OneTransactionPerReview'
  BY SameFiles DEF IInv
<1>2. Typed'
  BY DEF IInv, Typed
<1> QED
  BY <1>1, <1>2 DEF IInv

LEMMA JustReturns ==
  ASSUME IInv, UNCHANGED <<session, txn, project, baseline, game>>, proc' = Idle
  PROVE  IInv'
BY IdleFields, ReturnKeeps, GoesOn

LEMMA UpdateIs ==
  ASSUME Typed, NEW s \in DOMAIN session, NEW state, NEW t, Update(s, state, t)
  PROVE  /\ DOMAIN session' = DOMAIN session
         /\ session'[s].state = state /\ session'[s].txn = t
         /\ session'[s].prior = session[s].prior /\ session'[s].generated = session[s].generated
BY SaveIs, SessionFields DEF Update

\* Of a review that is bound to a transaction, no other one is its own.
LEMMA BoundOwn ==
  ASSUME IInv, NEW s \in DOMAIN session, session[s].state \in BoundOnes
  PROVE  Own(s) \subseteq {session[s].txn}
BY DEF IInv, Sessions, Sound

LEMMA TxnLogged ==
  ASSUME IInv, NEW s \in DOMAIN session
  PROVE  session[s].txn # NoTxn => txn[session[s].txn].state # "none"
BY DEF IInv, Logged

-----------------------------------------------------------------------------
(* The ends of a command                                                   *)

LEMMA RefusedKeeps ==
  ASSUME IInv, ApplyRefused
  PROVE  IInv'
<1>1. proc.pc = "call" /\ Finish(proc.s, "failed") /\ proc' = Idle
      /\ UNCHANGED <<txn, project, baseline, game>>
  BY DEF ApplyRefused, Return
<1>2. proc.s \in DOMAIN session /\ session[proc.s].state = "applying"
  BY <1>1 DEF IInv, Typed, Running, Applying
<1>3. Update(proc.s, "failed", session[proc.s].txn)
  BY <1>1, <1>2, FinishIs DEF IInv, FinalState
<1>4. /\ session[proc.s].txn \in Txn \cup {NoTxn}
      /\ session[proc.s].txn # NoTxn => txn[session[proc.s].txn].state # "none"
  BY <1>2, SessionFields, TxnLogged DEF IInv
<1>5. "failed" \in Closed /\ "failed" \notin BoundOnes \cup Undone
  BY DEF Closed, State, FinalState, OpenState, BoundOnes, Undone, Accepted
<1> QED
  BY <1>1, <1>2, <1>3, <1>4, <1>5, UpdateReturns DEF OpenState

\* A rollback that succeeded has undone everything its review started.
LEMMA RolledOwn ==
  ASSUME IInv, proc.pc = "rolled"
  PROVE  \A u \in Own(proc.s) : txn[u].state = "rolled_back"
BY TxnFacts DEF IInv, Running, Rolling, Own

LEMMA RolledBackKeeps ==
  ASSUME IInv, RolledBack
  PROVE  IInv'
<1> DEFINE s == proc.s
<1>1. /\ proc.pc = "rolled" /\ proc' = Idle
      /\ UNCHANGED <<txn, project, baseline, game>>
  BY DEF RolledBack, Return
<1>2. s \in DOMAIN session
  BY <1>1 DEF IInv, Typed
<1>3. /\ proc.how \in How \ {"none"} /\ proc.t \in Txn \cup {NoTxn}
      /\ proc.t # NoTxn => txn[proc.t].state # "none"
  BY <1>1, ProcFields DEF IInv, Running, Rolling
<1>4. session[s].state \notin OpenState
  BY <1>1, <1>3 DEF IInv, Running, Rolling, Restoring, ByReview, How, OpenState, Accepted
<1>5. /\ session[s].txn \in Txn \cup {NoTxn}
      /\ session[s].txn # NoTxn => txn[session[s].txn].state # "none"
  BY <1>2, SessionFields, TxnLogged DEF IInv
<1>6. \E state \in Undone \cup {"failed"}, t \in {proc.t, session[s].txn} : Update(s, state, t)
  <2>1. CASE proc.how \in {"apply-failed", "auto"}
    <3>1. Finish(s, "restored_failure")
      BY <2>1 DEF RolledBack
    <3> QED
      BY <1>2, <3>1, FinishIs DEF IInv, FinalState, Undone
  <2>2. CASE proc.how = "resume"
    <3>1. Save(s, [session[s] EXCEPT !.state = "restored_failure",
                     !.result = "restored_failure", !.txn = proc.t])
      BY <2>2 DEF RolledBack
    <3> QED
      BY <1>2, <1>3, <3>1, FinishBoundIs DEF IInv, FinalState, Undone
  <2>3. CASE proc.how = "manual"
    <3>1. Transition(s, "restored")
      BY <2>3 DEF RolledBack
    <3> QED
      BY <1>2, <3>1, TransitionIs DEF IInv, State, FinalState, Undone
  <2>4. CASE proc.how = "apply-refused"
    <3>1. Finish(s, "failed")
      BY <2>4 DEF RolledBack
    <3> QED
      BY <1>2, <3>1, FinishIs DEF IInv, FinalState
  <2> QED
    BY <1>3, <2>1, <2>2, <2>3, <2>4 DEF How
<1>7. PICK state \in Undone \cup {"failed"}, t \in {proc.t, session[s].txn} : Update(s, state, t)
  BY <1>6
<1>8. state \in Closed /\ state \notin BoundOnes
  BY DEF Closed, State, FinalState, OpenState, BoundOnes, Undone, Accepted
<1>9. \A u \in Own(s) : txn[u].state = "rolled_back"
  BY <1>1, RolledOwn
<1> QED
  BY <1>1, <1>2, <1>3, <1>4, <1>5, <1>7, <1>8, <1>9, UpdateReturns

LEMMA NotRolledBackKeeps ==
  ASSUME IInv, NotRolledBack
  PROVE  IInv'
<1> DEFINE s == proc.s
<1>1. /\ proc.pc = "stuck" /\ proc' = Idle
      /\ UNCHANGED <<txn, project, baseline, game>>
  BY DEF NotRolledBack, Return
<1>2. s \in DOMAIN session
  BY <1>1 DEF IInv, Typed
<1>3. /\ proc.how \in How \ {"none"} /\ proc.t \in Txn \cup {NoTxn}
      /\ proc.t # NoTxn => txn[proc.t].state # "none"
      /\ Own(s) \subseteq {proc.t}
      /\ proc.how \in ByReview => proc.t = session[s].txn
  BY <1>1, ProcFields DEF IInv, Running, Rolling
<1>4. session[s].state \notin OpenState
  BY <1>1, <1>3 DEF IInv, Running, Rolling, Restoring, ByReview, How, OpenState, Accepted
<1>5. /\ session[s].txn \in Txn \cup {NoTxn}
      /\ session[s].txn # NoTxn => txn[session[s].txn].state # "none"
  BY <1>2, SessionFields, TxnLogged DEF IInv
<1>6. /\ {"failed", "recovery_required"} \subseteq Closed
      /\ {"failed", "recovery_required"} \cap Undone = {} /\ "failed" \notin BoundOnes
  BY DEF Closed, State, FinalState, OpenState, BoundOnes, Undone, Accepted
<1>7. CASE proc.how = "resume"
  <2>1. Finish(s, "failed")
    BY <1>7 DEF NotRolledBack
  <2>2. Update(s, "failed", session[s].txn)
    BY <1>2, <2>1, FinishIs DEF IInv, FinalState
  <2> QED
    BY <1>1, <1>2, <1>4, <1>5, <1>6, <2>2, UpdateReturns
<1>8. CASE proc.how \in ByReview
  <2>1. Transition(s, "recovery_required")
    BY <1>8 DEF NotRolledBack, ByReview
  <2>2. Update(s, "recovery_required", session[s].txn)
    BY <1>2, <2>1, TransitionIs DEF IInv, State
  <2> QED
    BY <1>1, <1>2, <1>3, <1>4, <1>5, <1>6, <1>8, <2>2, UpdateReturns
<1>9. CASE proc.how \in {"apply-failed", "apply-refused"}
  <2>1. \/ Save(s, [session[s] EXCEPT !.state = "recovery_required", !.txn = proc.t])
        \/ UNCHANGED session
    BY <1>9 DEF NotRolledBack
  <2>2. CASE UNCHANGED session
    BY <1>1, <2>2, JustReturns
  <2>3. CASE Save(s, [session[s] EXCEPT !.state = "recovery_required", !.txn = proc.t])
    <3>1. Update(s, "recovery_required", proc.t)
      BY <1>2, <1>3, <2>3, BindIs DEF IInv, State
    <3> QED
      BY <1>1, <1>2, <1>3, <1>4, <1>6, <3>1, UpdateReturns
  <2> QED
    BY <2>1, <2>2, <2>3
<1> QED
  BY <1>3, <1>7, <1>8, <1>9 DEF How, ByReview

LEMMA KeptKeeps ==
  ASSUME IInv, BaselineKept
  PROVE  IInv'
<1> DEFINE s == proc.s
<1>1. /\ proc.pc = "restore" /\ proc' = Idle /\ Transition(s, "recovery_required")
      /\ UNCHANGED <<txn, project, baseline, game>>
  BY DEF BaselineKept, Return
<1>2. s \in DOMAIN session
  BY <1>1 DEF IInv, Typed
<1>3. session[s].state \in BoundOnes
  BY <1>1 DEF IInv, Running, Restoring, ByReview, BoundOnes
<1>4. /\ session[s].txn \in Txn \cup {NoTxn} /\ Own(s) \subseteq {session[s].txn}
      /\ session[s].txn # NoTxn => txn[session[s].txn].state # "none"
  BY <1>2, <1>3, SessionFields, TxnLogged, BoundOwn DEF IInv
<1>5. "recovery_required" \in Closed /\ "recovery_required" \notin Undone
  BY DEF Closed, State, OpenState, Undone
<1>6. Update(s, "recovery_required", session[s].txn)
  BY <1>1, <1>2, TransitionIs DEF IInv, State
<1> QED
  BY <1>1, <1>2, <1>3, <1>4, <1>5, <1>6, UpdateReturns DEF BoundOnes, Accepted, OpenState

\* A check ends in a result, pauses, or is to be undone.
LEMMA CheckEndKeeps ==
  ASSUME IInv, RecordGenerated \/ Conclude
  PROVE  IInv'
<1> DEFINE s == proc.s
<1>1. /\ proc.pc \in {"verified", "recorded"}
      /\ UNCHANGED <<txn, project, baseline, game>>
  BY DEF RecordGenerated, Conclude
<1>2. s \in DOMAIN session /\ session[s].state = "checking"
  BY <1>1 DEF IInv, Typed, Running, Checking
<1>3. /\ session[s].txn \in Txn \cup {NoTxn} /\ Own(s) \subseteq {session[s].txn}
      /\ session[s].txn # NoTxn => txn[session[s].txn].state # "none"
  BY <1>2, SessionFields, TxnLogged, BoundOwn DEF IInv, BoundOnes
<1>4. CASE \E state \in Accepted \cup {"failed"} : Finish(s, state) /\ proc' = Idle
  <2>1. PICK state \in Accepted \cup {"failed"} : Finish(s, state)
    BY <1>4
  <2>2. state \in Closed /\ state \in FinalState /\ state \notin Undone
    BY DEF Closed, State, FinalState, OpenState, Undone, Accepted
  <2>3. Update(s, state, session[s].txn)
    BY <1>2, <2>1, <2>2, FinishIs DEF IInv
  <2> QED
    BY <1>1, <1>2, <1>3, <1>4, <2>2, <2>3, UpdateReturns DEF OpenState
<1>5. CASE UNCHANGED session /\ proc' = Idle
  BY <1>1, <1>5, JustReturns
<1>6. CASE UNCHANGED session /\ Goto("recorded")
  <2>1. /\ proc' \in Process /\ proc'.pc = "recorded" /\ proc'.s = s /\ proc'.t = proc.t
        /\ proc'.t # NoTxn => txn[proc'.t].state # "none"
    BY <1>6, GotoIs DEF IInv, Step, Running
  <2>2. Running' /\ Rebased'
    BY <1>1, <1>2, <1>6, <2>1 DEF Running, Rebased, Applying, Checking, Rolling, Restoring
  <2> QED
    BY <1>1, <1>2, <1>6, <2>1, <2>2, GoesOn
<1>7. CASE UNCHANGED session /\ proc' = [proc EXCEPT !.pc = "restore", !.how = "auto"]
  <2>1. /\ proc' \in Process /\ proc'.pc = "restore" /\ proc'.s = s /\ proc'.t = proc.t
        /\ proc'.how = "auto"
        /\ proc'.t # NoTxn => txn[proc'.t].state # "none"
    BY <1>7 DEF IInv, Typed, Process, Step, How, Running
  <2>2. Running' /\ Rebased'
    BY <1>1, <1>2, <1>7, <2>1
    DEF Running, Rebased, Applying, Checking, Rolling, Restoring, ByReview, Accepted
  <2> QED
    BY <1>1, <1>2, <1>7, <2>1, <2>2, GoesOn
<1> QED
  BY <1>4, <1>5, <1>6, <1>7 DEF RecordGenerated, Conclude, Return, Accepted

-----------------------------------------------------------------------------
(* Transactions                                                            *)

LEMMA TxnFields ==
  ASSUME Typed, NEW t \in Txn
  PROVE  txn[t].state \in TxnState /\ txn[t] \in TxnFile
BY DEF Typed, TxnFile

\* The plan of a logged transaction is the one that its review approved.
LEMMA TxnPlan ==
  ASSUME IInv, NEW t \in Txn, txn[t].state # "none"
  PROVE  /\ txn[t].by \in DOMAIN session /\ txn[t].plan = txn[t].by.plan
         /\ txn[t].plan \in Plan /\ txn[t].plan.rel \in Kit /\ txn[t].plan.from \in Kit
BY DEF IInv, Typed, Logged, Review, Plan, Kit

\* A transaction that is not rolled back moves on: whose it is stays.
LEMMA MoveIs ==
  ASSUME Typed, NEW t \in Txn, NEW state \in TxnState, Move(t, state)
  PROVE  /\ txn' \in [Txn -> TxnFile]
         /\ \A u \in Txn \ {t} : txn'[u] = txn[u]
         /\ txn'[t].state = state /\ txn'[t].by = txn[t].by /\ txn'[t].plan = txn[t].plan
<1>1. txn[t] \in TxnFile /\ txn \in [Txn -> TxnFile]
  BY DEF Typed
<1>2. [txn[t] EXCEPT !.state = state] \in TxnFile
  BY <1>1 DEF TxnFile
<1>3. txn' = [txn EXCEPT ![t] = [txn[t] EXCEPT !.state = state]]
  BY DEF Move
<1>4. txn'[t] = [txn[t] EXCEPT !.state = state]
  BY <1>1, <1>3
<1> QED
  BY <1>1, <1>2, <1>3, <1>4 DEF TxnFile

LEMMA MoveKeeps ==
  ASSUME IInv, NEW t \in Txn, NEW state \in TxnState \ {"none"}, Move(t, state),
         txn[t].state \notin {"none", "rolled_back"}, UNCHANGED session
  PROVE  /\ \A s : Own(s)' = Own(s)
         /\ Logged' /\ Sessions' /\ OneTransactionPerReview'
<1>1. /\ \A u \in Txn \ {t} : txn'[u] = txn[u]
      /\ txn'[t].state = state /\ txn'[t].by = txn[t].by /\ txn'[t].plan = txn[t].plan
  BY MoveIs DEF IInv
<1>2. \A u \in Txn : /\ txn'[u].state # "none" <=> txn[u].state # "none"
                     /\ txn'[u].by = txn[u].by /\ txn'[u].plan = txn[u].plan
  BY <1>1
<1>3. \A s : Own(s)' = Own(s)
  BY <1>2 DEF Own
<1>4. Logged'
  BY <1>2 DEF IInv, Logged, Typed, Session
<1>5. OneTransactionPerReview'
  BY <1>2 DEF IInv, OneTransactionPerReview
<1>6. ASSUME NEW s \in DOMAIN session
      PROVE  Sound(s)'
  <2>1. Sound(s) /\ Own(s)' = Own(s)
    BY <1>3 DEF IInv, Sessions
  <2>2. session[s].state \in Undone => \A u \in Own(s) : txn'[u].state = "rolled_back"
    BY <1>1, <2>1 DEF Sound, Own
  <2> QED
    BY <2>1, <2>2 DEF Sound
<1> QED
  BY <1>3, <1>4, <1>5, <1>6 DEF Sessions

\* A running command that moves its transaction, or not, and goes on.
LEMMA TxnStepKeeps ==
  ASSUME IInv, proc.t \in Txn, txn[proc.t].state # "none",
         \/ txn' = txn
         \/ /\ txn[proc.t].state # "rolled_back"
            /\ \E state \in TxnState \ {"none"} : Move(proc.t, state),
         UNCHANGED <<session, baseline, game>>,
         project' \in [kit : Kit, edited : BOOLEAN, mixed : Txn \cup {NoTxn}],
         NEW label \in Step, (proc' = proc /\ label = proc.pc) \/ Goto(label),
         proc.pc # "idle"
  PROVE  /\ Typed' /\ Logged' /\ Sessions' /\ OneTransactionPerReview'
         /\ \A s : Own(s)' = Own(s)
         /\ txn'[proc.t].state # "none"
         /\ proc'.pc = label /\ proc'.s = proc.s /\ proc'.t = proc.t /\ proc'.how = proc.how
<1>1. /\ Logged' /\ Sessions' /\ OneTransactionPerReview' /\ \A s : Own(s)' = Own(s)
      /\ txn' \in [Txn -> TxnFile] /\ txn'[proc.t].state # "none"
  <2>1. CASE txn' = txn
    BY <2>1, SameFiles DEF IInv, Own, Typed
  <2>2. CASE txn[proc.t].state # "rolled_back" /\ \E state \in TxnState \ {"none"} : Move(proc.t, state)
    BY <2>2, MoveIs, MoveKeeps DEF IInv
  <2> QED
    BY <2>1, <2>2
<1>2. /\ proc' \in Process
      /\ proc'.pc = label /\ proc'.s = proc.s /\ proc'.t = proc.t /\ proc'.how = proc.how
  BY GotoIs DEF IInv, Typed
<1>3. Typed'
  BY <1>1, <1>2 DEF IInv, Typed
<1> QED
  BY <1>1, <1>2, <1>3

LEMMA ApplyWritesKeeps ==
  ASSUME IInv, ApplyWrites
  PROVE  IInv'
<1> DEFINE t == proc.t
<1>1. /\ proc.pc = "writing" /\ UNCHANGED <<session, baseline, game>>
  BY DEF ApplyWrites
<1>2. /\ t \in Txn /\ txn[t].state # "none" /\ proc.how \in {"none", "resume"}
      /\ session[proc.s].state = "applying" /\ Own(proc.s) \subseteq {t}
  BY <1>1, ProcFields DEF IInv, Running, Applying
<1>3. project \in [kit : Kit, edited : BOOLEAN, mixed : Txn \cup {NoTxn}]
  BY DEF IInv, Typed
<1>4. txn[t].plan.rel \in Kit
  BY <1>2, TxnPlan
<1>5. PICK label \in {"writing", "applied"} :
        /\ (proc' = proc /\ label = proc.pc) \/ Goto(label)
        /\ txn[t].state # "rolled_back" /\ \E state \in TxnState \ {"none"} : Move(t, state)
        /\ label = "writing" => txn'[t].state \in {"writing", "activated"}
  <2>1. \A state \in {"writing", "activated", "applied"} :
          state \in TxnState \ {"none"} /\ (Move(t, state) => txn'[t].state = state)
    BY <1>2, MoveIs DEF IInv, TxnState
  <2> QED
    BY <1>1, <2>1 DEF ApplyWrites
<1>6. project' \in [kit : Kit, edited : BOOLEAN, mixed : Txn \cup {NoTxn}]
  BY <1>2, <1>3, <1>4 DEF ApplyWrites
<1>7. label \in Step
  BY DEF Step
<1>8. /\ Typed' /\ Logged' /\ Sessions' /\ OneTransactionPerReview'
      /\ \A s : Own(s)' = Own(s) /\ txn'[t].state # "none"
      /\ proc'.pc = label /\ proc'.s = proc.s /\ proc'.t = t /\ proc'.how = proc.how
  BY <1>1, <1>2, <1>5, <1>6, <1>7, TxnStepKeeps
<1>9. Running' /\ Rebased'
  BY <1>1, <1>2, <1>5, <1>8, TxnFacts DEF Running, Rebased, Applying, Checking, Rolling, Restoring
<1> QED
  BY <1>8, <1>9 DEF IInv

\* What a rollback knows of the transaction it undoes.
LEMMA RollingKnows ==
  ASSUME IInv, proc.pc = "rolling"
  PROVE  /\ proc.t \in Txn /\ txn[proc.t].state # "none"
         /\ Own(proc.s) \subseteq {proc.t} /\ proc.how \in How \ {"none"}
         /\ proc.how \in ByReview => proc.t = session[proc.s].txn
         /\ proc.how \notin ByReview => session[proc.s].state = "applying"
         /\ proc.how = "auto" => session[proc.s].state \in {"checking", "recovery_required"}
         /\ proc.how = "manual" => session[proc.s].state \in Accepted \cup {"recovery_required"}
         /\ (proc.how \in ByReview /\ session[proc.s].generated # Unset /\ ~baseline.dev)
            => baseline.doc = session[proc.s].prior
BY ProcFields DEF IInv, Running, Rebased, Rolling, Restoring

LEMMA RollBackKeeps ==
  ASSUME IInv, RollBack
  PROVE  IInv'
<1> DEFINE t == proc.t
<1>1. /\ proc.pc = "rolling" /\ UNCHANGED <<session, baseline, game>>
  BY DEF RollBack
<1>2. project \in [kit : Kit, edited : BOOLEAN, mixed : Txn \cup {NoTxn}]
  BY DEF IInv, Typed
<1>3. /\ t \in Txn /\ txn[t].state # "none" /\ txn[t].plan.from \in Kit
  BY <1>1, RollingKnows, TxnPlan
<1>4. \/ /\ txn[t].state = "rolled_back" /\ txn' = txn /\ Goto("rolled")
      \/ /\ txn[t].state # "rolled_back"
         /\ \/ Move(t, "rolling_back") /\ proc' = proc
            \/ Move(t, "rolled_back") /\ Goto("rolled")
            \/ txn[t].state = "rolling_back" /\ txn' = txn /\ proc' = proc
  BY <1>1 DEF RollBack
<1>5. PICK label \in {"rolling", "rolled"} :
        /\ (proc' = proc /\ label = proc.pc) \/ Goto(label)
        /\ \/ txn' = txn
           \/ /\ txn[t].state # "rolled_back"
              /\ \E state \in TxnState \ {"none"} : Move(t, state)
        /\ label = "rolled" => txn'[t].state = "rolled_back"
        /\ label = "rolling" => txn'[t].state = "rolling_back"
  <2>1. \A state \in {"rolling_back", "rolled_back"} :
          state \in TxnState \ {"none"} /\ (Move(t, state) => txn'[t].state = state)
    BY <1>3, MoveIs DEF IInv, TxnState
  <2> QED
    BY <1>1, <1>4, <2>1
<1>6. project' \in [kit : Kit, edited : BOOLEAN, mixed : Txn \cup {NoTxn}]
  BY <1>2, <1>3 DEF RollBack
<1>7. label \in Step /\ proc.pc # "idle"
  BY <1>1 DEF Step
<1>8. /\ Typed' /\ Logged' /\ Sessions' /\ OneTransactionPerReview'
      /\ \A s : Own(s)' = Own(s) /\ txn'[t].state # "none"
      /\ proc'.pc = label /\ proc'.s = proc.s /\ proc'.t = t /\ proc'.how = proc.how
  BY <1>1, <1>3, <1>5, <1>6, <1>7, TxnStepKeeps
<1>9. Running'
  BY <1>1, <1>5, <1>8, RollingKnows, TxnFacts DEF Running, Applying, Checking, Rolling, Restoring
<1>10. Rebased'
  BY <1>1, <1>8, RollingKnows DEF Rebased
<1> QED
  BY <1>8, <1>9, <1>10 DEF IInv

LEMMA RollBackStuckKeeps ==
  ASSUME IInv, RollBackStuck
  PROVE  IInv'
<1> DEFINE t == proc.t
<1>1. /\ proc.pc = "rolling" /\ UNCHANGED <<session, project, baseline, game>>
      /\ txn[t].state # "rolled_back" /\ Goto("stuck")
      /\ Move(t, "blocked") \/ txn' = txn
  BY DEF RollBackStuck
<1>2. project' \in [kit : Kit, edited : BOOLEAN, mixed : Txn \cup {NoTxn}]
  BY <1>1 DEF IInv, Typed
<1>3. /\ t \in Txn /\ txn[t].state # "none"
  BY <1>1, RollingKnows
<1>4. "blocked" \in TxnState \ {"none"} /\ "stuck" \in Step /\ proc.pc # "idle"
  BY <1>1 DEF TxnState, Step
<1>5. /\ Typed' /\ Logged' /\ Sessions' /\ OneTransactionPerReview'
      /\ \A s : Own(s)' = Own(s) /\ txn'[t].state # "none"
      /\ proc'.pc = "stuck" /\ proc'.s = proc.s /\ proc'.t = t /\ proc'.how = proc.how
  BY <1>1, <1>2, <1>3, <1>4, TxnStepKeeps
<1>6. Running'
  BY <1>1, <1>3, <1>5, RollingKnows, TxnFacts DEF Running, Applying, Checking, Rolling, Restoring
<1>7. Rebased'
  BY <1>1, <1>5, RollingKnows DEF Rebased
<1> QED
  BY <1>5, <1>6, <1>7 DEF IInv

LEMMA ApplyFailsKeeps ==
  ASSUME IInv, ApplyFails
  PROVE  IInv'
<1>1. PICK how \in {"apply-failed", "apply-refused"} :
        proc' = [proc EXCEPT !.pc = "rolling", !.how = how]
  BY DEF ApplyFails
<1>2. /\ proc.pc = "writing" /\ UNCHANGED <<session, txn, project, baseline, game>>
  BY DEF ApplyFails
<1>3. /\ proc.t \in Txn /\ txn[proc.t].state # "none" /\ proc.s \in DOMAIN session
      /\ session[proc.s].state = "applying" /\ Own(proc.s) \subseteq {proc.t}
      /\ txn[proc.t].state # "applied"
  BY <1>2, ProcFields DEF IInv, Typed, Running, Applying
<1>4. /\ proc' \in Process /\ proc'.pc = "rolling" /\ proc'.how = how
      /\ proc'.s = proc.s /\ proc'.t = proc.t
  BY <1>1 DEF IInv, Typed, Process, Step, How
<1>5. Running' /\ Rebased'
  BY <1>2, <1>3, <1>4, TxnFacts
  DEF Running, Rebased, Own, Applying, Checking, Rolling, Restoring, ByReview
<1> QED
  BY <1>2, <1>3, <1>4, <1>5, GoesOn

\* The steps of a check that change no file: the session keeps checking.
LEMMA CheckGoesOn ==
  ASSUME IInv, UNCHANGED <<session, txn, project, baseline, game>>,
         proc.pc \in Checking, proc' \in Process, proc'.s = proc.s, proc'.t = proc.t,
         \/ proc'.pc \in Checking \ {"intent"}
         \/ proc'.pc = "restore" /\ proc'.how = "auto"
  PROVE  IInv'
<1>1. /\ proc.s \in DOMAIN session /\ session[proc.s].state = "checking"
      /\ proc.t # NoTxn => txn[proc.t].state # "none"
  BY DEF IInv, Typed, Running, Checking
<1>2. Running' /\ Rebased'
  BY <1>1 DEF Running, Rebased, Applying, Checking, Rolling, Restoring, ByReview
<1> QED
  BY <1>1, <1>2, GoesOn

LEMMA CheckStepKeeps ==
  ASSUME IInv, CheckScans \/ CheckFails \/ Verify
  PROVE  IInv'
<1>1. proc \in Process /\ UNCHANGED <<session, txn, project, baseline, game>>
  BY DEF IInv, Typed, CheckScans, CheckFails, Verify
<1>2. CASE CheckScans
  <2>1. /\ proc' \in Process /\ proc'.s = proc.s /\ proc'.t = proc.t
        /\ proc.pc = "check" /\ proc'.pc = "scanned"
    BY <1>1, <1>2 DEF CheckScans, Process, Step, Problems
  <2> QED
    BY <1>1, <2>1, CheckGoesOn DEF Checking
<1>3. CASE CheckFails
  <2>1. /\ proc' \in Process /\ proc'.s = proc.s /\ proc'.t = proc.t
        /\ proc.pc \in {"check", "scanned", "intent"}
        /\ proc'.pc = "restore" /\ proc'.how = "auto"
    BY <1>1, <1>3 DEF CheckFails, Process, Step, How
  <2> QED
    BY <1>1, <2>1, CheckGoesOn DEF Checking
<1>4. CASE Verify
  <2>1. PICK ok, skipped \in BOOLEAN :
          proc' = [proc EXCEPT !.pc = "verified", !.ok = ok,
                     !.clean = (proc.scan = {} /\ ~skipped)]
    BY <1>4 DEF Verify
  <2>2. (proc.scan = {} /\ ~skipped) \in BOOLEAN
    OBVIOUS
  <2>3. /\ proc' \in Process /\ proc'.s = proc.s /\ proc'.t = proc.t
        /\ proc.pc = "written" /\ proc'.pc = "verified"
    BY <1>1, <1>4, <2>1, <2>2 DEF Verify, Process, Step
  <2> QED
    BY <1>1, <2>3, CheckGoesOn DEF Checking
<1> QED
  BY <1>2, <1>3, <1>4

LEMMA StartCheckKeeps ==
  ASSUME IInv, StartCheck
  PROVE  IInv'
<1> DEFINE s == proc.s  t == proc.t
<1>1. /\ proc.pc = "applied" /\ UNCHANGED <<txn, project, baseline, game>>
      /\ Goto("check")
      /\ Save(s, [session[s] EXCEPT !.state = "checking", !.txn = t])
  BY DEF StartCheck
<1>2. /\ s \in DOMAIN session /\ session[s].state = "applying" /\ Own(s) \subseteq {t}
      /\ t \in Txn \cup {NoTxn}
      /\ t # NoTxn => txn[t].state # "none"
  BY <1>1, ProcFields DEF IInv, Typed, Running, Applying
<1>3. Update(s, "checking", t)
  BY <1>1, <1>2, BindIs DEF IInv, State
<1>4. "checking" \in Closed /\ "checking" \notin Undone
  BY DEF Closed, State, OpenState, Undone
<1>5. /\ session' \in [DOMAIN session' -> Session] /\ DOMAIN session' = DOMAIN session
      /\ Logged' /\ Sessions' /\ OneTransactionPerReview'
  BY <1>1, <1>2, <1>3, <1>4, UpdateKeeps DEF IInv, OpenState
<1>6. session'[s].state = "checking"
  BY <1>2, <1>3, UpdateIs DEF IInv
<1>7. proc' \in Process /\ proc'.pc = "check" /\ proc'.s = s /\ proc'.t = t
  BY <1>1, GotoIs DEF IInv, Step
<1>8. Typed'
  BY <1>1, <1>2, <1>5, <1>7 DEF IInv, Typed
<1>9. Running' /\ Rebased'
  BY <1>1, <1>2, <1>6, <1>7 DEF Running, Rebased, Applying, Checking, Rolling, Restoring
<1> QED
  BY <1>5, <1>8, <1>9 DEF IInv

-----------------------------------------------------------------------------
(* A review begins                                                         *)

LEMMA PrepareKeeps ==
  ASSUME IInv, proc.pc = "idle", NEW rel \in Release, NEW folder \in Folder \cup {Unset},
         Prepare(rel, folder)
  PROVE  IInv'
<1> DEFINE p == Fingerprint(rel, folder)
<1>1. PICK a \in Attempt(p) : LET s == [plan |-> p, attempt |-> a] IN
        /\ Saved(s).state = "none"
        /\ Save(s, [NoSession EXCEPT !.state = IF Blocked(p) THEN "blocked" ELSE "ready"])
  BY DEF Prepare
<1> DEFINE s == [plan |-> p, attempt |-> a]
           r == [NoSession EXCEPT !.state = IF Blocked(p) THEN "blocked" ELSE "ready"]
<1>2. UNCHANGED <<txn, project, baseline, game, proc>>
  BY DEF Prepare
<1>3. s \in Review
  BY DEF IInv, Typed, Fingerprint, Plan, Review, Attempt
<1>4. /\ r \in Session /\ r.state \in OpenState /\ r.txn = NoTxn
      /\ r.prior = Unset /\ r.generated = Unset
  BY DEF NoSession, Session, State, OpenState
<1>5. s \notin DOMAIN session
  BY <1>1 DEF Saved, IInv, Sessions, Sound
<1> HIDE DEF s, r, p
<1>6. Save(s, r)
  BY <1>1 DEF s, r
<1>7. /\ DOMAIN session' = DOMAIN session \cup {s}
      /\ session' \in [DOMAIN session' -> Session] /\ DOMAIN session' \subseteq Review
      /\ session'[s] = r
      /\ \A x \in DOMAIN session : session'[x] = session[x]
  BY <1>3, <1>4, <1>5, <1>6, SaveIs DEF IInv
<1>8. Typed'
  BY <1>2, <1>7 DEF IInv, Typed
<1>9. Logged'
  BY <1>2, <1>4, <1>5, <1>7 DEF IInv, Logged
<1>10. Own(s) = {} /\ \A x : Own(x)' = Own(x)
  BY <1>2, <1>5 DEF IInv, Logged, Own
<1>11. Sessions'
  <2>1. ASSUME NEW x \in DOMAIN session
        PROVE  Sound(x)'
    BY <1>2, <1>7, <1>10, <2>1 DEF IInv, Sessions, Sound
  <2>2. ASSUME NEW x, x = s
        PROVE  Sound(x)'
    <3>1. /\ session'[x].state \in OpenState /\ session'[x].prior = Unset
          /\ session'[x].generated = Unset
      BY <1>4, <1>7, <2>2
    <3>2. session'[x].state \notin {"none"} \cup BoundOnes \cup Undone
      BY <3>1 DEF OpenState, BoundOnes, Undone, Accepted
    <3>3. session'[x].prior \notin Document
      BY <3>1, FieldAssumption
    <3> QED
      BY <3>1, <3>2, <3>3 DEF Sound
  <2> QED
    BY <1>7, <2>1, <2>2 DEF Sessions
<1>12. OneTransactionPerReview'
  BY <1>2 DEF IInv, OneTransactionPerReview
<1>13. Running' /\ Rebased'
  BY <1>2, ReturnKeeps DEF IInv
<1> QED
  BY <1>8, <1>9, <1>11, <1>12, <1>13 DEF IInv

LEMMA ReprepareKeeps ==
  ASSUME IInv, proc.pc = "idle", NEW s \in DOMAIN session, NEW folder \in Folder,
         Reprepare(s, folder)
  PROVE  IInv'
<1>1. s.plan.rel \in Release
  BY DEF IInv, Typed, Review, Plan
<1> QED
  BY <1>1, PrepareKeeps DEF Reprepare

LEMMA ApplyKeeps ==
  ASSUME IInv, proc.pc = "idle", NEW s \in DOMAIN session, Apply(s)
  PROVE  IInv'
<1> DEFINE r == [session[s] EXCEPT !.state = "applying",
                   !.prior = IF @ = Unset THEN baseline.doc ELSE @]
<1>1. /\ session[s].state = "ready" /\ Save(s, r) /\ Enter(s, "call", NoTxn, "none")
      /\ UNCHANGED <<txn, project, baseline, game>>
  BY DEF Apply
<1>2. s \in Review /\ session[s] \in Session /\ baseline.doc \in Doc
  BY DEF IInv, Typed
<1>3. /\ session[s].state = "ready" /\ session[s].generated = Unset
      /\ session[s].txn \in Txn \cup {NoTxn}
  BY <1>1, <1>2 DEF IInv, Sessions, Sound, OpenState, Session
<1>4. r \in Session
  BY <1>2 DEF Session, State, Doc
<1>5. /\ r.state = "applying" /\ r.prior # Unset /\ r.generated = Unset
      /\ r.txn = session[s].txn
  BY <1>2, <1>3, FieldAssumption DEF Session, Doc
<1> HIDE DEF r
<1>6. /\ DOMAIN session' = DOMAIN session
      /\ session' \in [DOMAIN session' -> Session] /\ DOMAIN session' \subseteq Review
      /\ session'[s] = r
      /\ \A x \in DOMAIN session \ {s} : session'[x] = session[x]
  BY <1>1, <1>2, <1>4, SaveIs DEF IInv
<1>7. /\ proc' \in Process
      /\ proc'.pc = "call" /\ proc'.s = s /\ proc'.t = NoTxn /\ proc'.how = "none"
  BY <1>1, <1>2, EnterIs DEF Step, How
<1>8. Typed'
  BY <1>1, <1>6, <1>7 DEF IInv, Typed
<1>9. Logged'
  BY <1>1, <1>5, <1>6 DEF IInv, Logged, OpenState
<1>10. Own(s) = {} /\ \A x : Own(x)' = Own(x)
  BY <1>1 DEF IInv, Logged, Own, OpenState
<1>11. Sessions'
  <2>1. ASSUME NEW x \in DOMAIN session \ {s}
        PROVE  Sound(x)'
    BY <1>1, <1>6, <1>10, <2>1 DEF IInv, Sessions, Sound
  <2>2. Sound(s)'
    <3>1. /\ session'[s].state = "applying" /\ session'[s].prior # Unset
          /\ session'[s].generated = Unset
      BY <1>5, <1>6
    <3>2. session'[s].state \notin {"none"} \cup BoundOnes \cup Undone
      BY <3>1 DEF BoundOnes, Undone, Accepted
    <3>3. session'[s].generated \notin Document
      BY <3>1, FieldAssumption
    <3> QED
      BY <3>1, <3>2, <3>3 DEF Sound
  <2> QED
    BY <1>6, <2>1, <2>2 DEF Sessions
<1>12. OneTransactionPerReview'
  BY <1>1 DEF IInv, OneTransactionPerReview
<1>13. Running' /\ Rebased'
  BY <1>5, <1>6, <1>7, <1>10 DEF Running, Rebased, Applying, Checking, Rolling, Restoring
<1> QED
  BY <1>8, <1>9, <1>11, <1>12, <1>13 DEF IInv

\* The approved change is logged: the first and only one of its review.
LEMMA ApplyBeginsKeeps ==
  ASSUME IInv, ApplyBegins
  PROVE  IInv'
<1> DEFINE s == proc.s
<1>1. proc.pc = "call" /\ UNCHANGED <<session, project, baseline, game>>
  BY DEF ApplyBegins
<1>2. /\ s \in DOMAIN session /\ s \in Review /\ proc \in Process
      /\ session[s].state = "applying" /\ Own(s) = {} /\ proc.how = "none"
      /\ proc.t # NoTxn => txn[proc.t].state # "none"
  BY <1>1 DEF IInv, Typed, Running, Applying
<1>3. CASE Goto("applied") /\ txn' = txn
  <2>1. /\ proc' \in Process /\ proc'.pc = "applied" /\ proc'.s = s /\ proc'.t = proc.t
    BY <1>3, GotoIs DEF IInv, Step
  <2>2. Running' /\ Rebased'
    BY <1>1, <1>2, <1>3, <2>1
    DEF Running, Rebased, Own, Applying, Checking, Rolling, Restoring
  <2> QED
    BY <1>1, <1>2, <1>3, <2>1, <2>2, GoesOn
<1>4. ASSUME NEW t \in Txn, txn[t].state = "none",
             txn' = [txn EXCEPT ![t] = [state |-> "open", plan |-> s.plan, by |-> s]],
             proc' = [proc EXCEPT !.pc = "writing", !.t = t]
      PROVE  IInv'
  <2>1. /\ txn' \in [Txn -> TxnFile]
        /\ txn'[t].state = "open" /\ txn'[t].plan = s.plan /\ txn'[t].by = s
        /\ \A u \in Txn \ {t} : txn'[u] = txn[u]
    <3>1. s.plan \in Plan
      BY <1>2 DEF Review
    <3> QED
      BY <1>2, <1>4, <3>1 DEF IInv, Typed, TxnFile, TxnState
  <2>2. /\ proc' \in Process /\ proc'.pc = "writing" /\ proc'.s = s /\ proc'.t = t
    BY <1>2, <1>4 DEF Process, Step
  <2>3. Typed'
    BY <1>1, <1>2, <2>1, <2>2 DEF IInv, Typed
  <2>4. Own(s)' = {t} /\ \A x : x # s => Own(x)' = Own(x)
    BY <1>2, <1>4, <2>1 DEF Own
  <2>5. Logged'
    BY <1>1, <1>2, <1>4, <2>1 DEF IInv, Logged, OpenState, Typed, Session
  <2>6. OneTransactionPerReview'
    BY <1>2, <2>1 DEF IInv, OneTransactionPerReview, Own
  <2>7. Sessions'
    <3>1. ASSUME NEW x \in DOMAIN session, x # s
          PROVE  Sound(x)'
      <4>1. Sound(x) /\ Own(x)' = Own(x) /\ t \notin Own(x)
        BY <1>4, <2>4, <3>1 DEF IInv, Sessions, Own
      <4>2. session[x].state \in Undone => \A u \in Own(x) : txn'[u].state = "rolled_back"
        BY <2>1, <4>1 DEF Sound, Own
      <4> QED
        BY <1>1, <4>1, <4>2 DEF Sound
    <3>2. ASSUME NEW x \in DOMAIN session, x = s
          PROVE  Sound(x)'
      <4>1. Sound(x)
        BY DEF IInv, Sessions
      <4>2. session[x].state \notin {"none"} \cup OpenState \cup BoundOnes \cup Undone
        BY <1>2, <3>2 DEF OpenState, BoundOnes, Undone, Accepted
      <4> QED
        BY <1>1, <4>1, <4>2 DEF Sound
    <3> QED
      BY <1>1, <3>1, <3>2 DEF Sessions
  <2>8. Running' /\ Rebased'
    <3>1. proc'.how = "none"
      BY <1>1, <1>2, <1>4 DEF Process
    <3> QED
      BY <1>1, <1>2, <2>1, <2>2, <2>4, <3>1, TxnFacts
      DEF Running, Rebased, Applying, Checking, Rolling, Restoring
  <2> QED
    BY <2>3, <2>5, <2>6, <2>7, <2>8 DEF IInv
<1> QED
  <2>1. (Goto("applied") /\ txn' = txn)
        \/ \E t \in Txn :
             /\ \A u \in 1 .. t : txn[u].state = "none" <=> u = t
             /\ txn' = [txn EXCEPT ![t] = [state |-> "open", plan |-> s.plan, by |-> s]]
             /\ proc' = [proc EXCEPT !.pc = "writing", !.t = t]
    BY DEF ApplyBegins
  <2>2. \A t \in Txn : t \in 1 .. t
    BY DEF Txn
  <2> QED
    BY <1>3, <1>4, <2>1, <2>2

-----------------------------------------------------------------------------
(* The baseline                                                            *)

LEMMA BaselinePlanIs ==
  ASSUME Typed, NEW s \in DOMAIN session, NEW scan \in SUBSET GameFile
  PROVE  /\ BaselinePlan(s, scan) \in Document
         /\ (s.plan.from # NoKit /\ session[s].prior \in Document)
            => BaselinePlan(s, scan).allow \subseteq session[s].prior.allow
<1>1. s.plan.rel \in Release
  BY DEF Typed, Review, Plan
<1>2. Exact(scan) \subseteq Allowance
  BY DEF Typed, Exact, Allowance
<1>3. \A A \in SUBSET Allowance : [rel |-> s.plan.rel, allow |-> A] \in Document
  BY <1>1 DEF Document
<1>4. BaselinePlan(s, scan) \in Document
  BY <1>2, <1>3 DEF BaselinePlan
<1>5. (s.plan.from # NoKit /\ session[s].prior \in Document) => ~FirstBaseline(s)
  BY FieldAssumption DEF FirstBaseline
<1> QED
  BY <1>4, <1>5 DEF BaselinePlan

LEMMA RecordIntentKeeps ==
  ASSUME IInv, RecordIntent
  PROVE  IInv'
<1>1. PICK s \in DOMAIN session : s = proc.s
  BY DEF RecordIntent, IInv, Typed
<1> DEFINE d == BaselinePlan(s, proc.scan)
           r == [session[s] EXCEPT !.generated = d]
<1>2. /\ proc.pc = "scanned" /\ Save(s, r) /\ Goto("intent")
      /\ UNCHANGED <<txn, project, baseline, game>>
  BY <1>1 DEF RecordIntent
<1>3. /\ s \in Review /\ session[s] \in Session /\ proc.scan \in SUBSET GameFile
      /\ session[s].state = "checking"
      /\ proc.t # NoTxn => txn[proc.t].state # "none"
  BY <1>1, <1>2, ProcFields DEF IInv, Typed, Running, Checking
<1>4. /\ d \in Document
      /\ (s.plan.from # NoKit /\ session[s].prior \in Document)
         => d.allow \subseteq session[s].prior.allow
  BY <1>3, BaselinePlanIs DEF IInv
<1> HIDE DEF d
<1>5. /\ r \in Session /\ r.state = session[s].state /\ r.prior = session[s].prior
      /\ r.txn = session[s].txn /\ r.generated = d
  BY <1>3, <1>4 DEF Session
<1> HIDE DEF r
<1>6. /\ DOMAIN session' = DOMAIN session
      /\ session' \in [DOMAIN session' -> Session] /\ DOMAIN session' \subseteq Review
      /\ session'[s] = r
      /\ \A x \in DOMAIN session \ {s} : session'[x] = session[x]
  BY <1>2, <1>3, <1>5, SaveIs DEF IInv
<1>7. proc' \in Process /\ proc'.pc = "intent" /\ proc'.s = s /\ proc'.t = proc.t
  BY <1>1, <1>2, GotoIs DEF IInv, Step
<1>8. Typed'
  BY <1>2, <1>6, <1>7 DEF IInv, Typed
<1>9. Logged'
  BY <1>2, <1>5, <1>6 DEF IInv, Logged
<1>10. \A x : Own(x)' = Own(x)
  BY <1>2 DEF Own
<1>11. Sessions'
  <2>1. ASSUME NEW x \in DOMAIN session \ {s}
        PROVE  Sound(x)'
    BY <1>2, <1>6, <1>10, <2>1 DEF IInv, Sessions, Sound
  <2>2. Sound(s)'
    <3>1. Sound(s) /\ Own(s)' = Own(s)
      BY <1>10 DEF IInv, Sessions
    <3>2. session'[s].state \notin {"applying"} \cup OpenState \cup Undone
      BY <1>3, <1>5, <1>6 DEF OpenState, Undone
    <3> QED
      BY <1>3, <1>4, <1>5, <1>6, <3>1, <3>2 DEF Sound
  <2> QED
    BY <1>6, <2>1, <2>2 DEF Sessions
<1>12. OneTransactionPerReview'
  BY <1>2 DEF IInv, OneTransactionPerReview
<1>13. r.generated # Unset
  BY <1>4, <1>5, FieldAssumption
<1>14. Running' /\ Rebased'
  BY <1>2, <1>3, <1>5, <1>6, <1>7, <1>13
  DEF Running, Rebased, Applying, Checking, Rolling, Restoring
<1> QED
  BY <1>8, <1>9, <1>11, <1>12, <1>14 DEF IInv

\* A command that writes the baseline or leaves it, and goes on.
LEMMA BaselineStepKeeps ==
  ASSUME IInv, UNCHANGED <<session, txn, project, game>>,
         baseline' \in [doc : Doc, kept : Doc, dev : BOOLEAN],
         proc' \in Process, proc'.pc # "idle" => proc'.s \in DOMAIN session, Running', Rebased'
  PROVE  IInv'
<1>1. Logged' /\ Sessions' /\ OneTransactionPerReview'
  BY SameFiles DEF IInv
<1>2. Typed'
  BY DEF IInv, Typed
<1> QED
  BY <1>1, <1>2 DEF IInv

LEMMA WriteBaselineKeeps ==
  ASSUME IInv, WriteBaseline
  PROVE  IInv'
<1>1. PICK s \in DOMAIN session : s = proc.s
  BY DEF WriteBaseline, IInv, Typed
<1>2. /\ proc.pc = "intent" /\ Goto("written") /\ UNCHANGED <<session, txn, project, game>>
      /\ baseline' = [baseline EXCEPT !.doc = session[s].generated, !.dev = FALSE]
  BY <1>1 DEF WriteBaseline
<1>3. /\ session[s].state = "checking" /\ session[s].generated \in Document
      /\ proc.t # NoTxn => txn[proc.t].state # "none"
  BY <1>1, <1>2, SessionFields DEF IInv, Running, Checking
<1>4. baseline' \in [doc : Doc, kept : Doc, dev : BOOLEAN]
  BY <1>2, <1>3 DEF IInv, Typed, Doc
<1>5. proc' \in Process /\ proc'.pc = "written" /\ proc'.s = s /\ proc'.t = proc.t
  BY <1>1, <1>2, GotoIs DEF IInv, Step
<1>6. Running' /\ Rebased'
  BY <1>2, <1>3, <1>5 DEF Running, Rebased, Applying, Checking, Rolling, Restoring
<1> QED
  BY <1>2, <1>4, <1>5, <1>6, BaselineStepKeeps

\* What a command that undoes a change knows of its review.
LEMMA RestoringKnows ==
  ASSUME IInv, proc.pc \in {"restore", "unbased"}
  PROVE  /\ proc.s \in DOMAIN session /\ proc.how \in ByReview
         /\ proc.t # NoTxn => txn[proc.t].state # "none"
         /\ session[proc.s].state \in BoundOnes
         /\ proc.how = "auto" => session[proc.s].state \in {"checking", "recovery_required"}
         /\ proc.how = "manual" => session[proc.s].state \in Accepted \cup {"recovery_required"}
         /\ session[proc.s].prior # Unset
<1>1. /\ proc.s \in DOMAIN session /\ proc.how \in ByReview
      /\ proc.t # NoTxn => txn[proc.t].state # "none"
      /\ proc.how = "auto" => session[proc.s].state \in {"checking", "recovery_required"}
      /\ proc.how = "manual" => session[proc.s].state \in Accepted \cup {"recovery_required"}
  BY DEF IInv, Typed, Running, Restoring
<1>2. session[proc.s].state \in BoundOnes
  BY <1>1 DEF BoundOnes, ByReview
<1>3. session[proc.s].state \notin OpenState
  BY <1>2 DEF BoundOnes, OpenState, Accepted
<1> QED
  BY <1>1, <1>2, <1>3 DEF IInv, Sessions, Sound

LEMMA RestoreBaselineKeeps ==
  ASSUME IInv, RestoreBaseline
  PROVE  IInv'
<1>1. proc.pc = "restore" /\ Goto("unbased") /\ UNCHANGED <<session, txn, project, game>>
  BY DEF RestoreBaseline
<1>2. PICK s \in DOMAIN session : s = proc.s
  BY <1>1, RestoringKnows
<1> DEFINE prior == session[s].prior
<1>3. \/ baseline' = baseline /\ (session[s].generated = Unset \/ baseline.doc = prior)
      \/ baseline' = [baseline EXCEPT !.doc = prior, !.dev = FALSE]
  BY <1>1, <1>2, RestoringKnows DEF RestoreBaseline
<1>4. prior \in Doc /\ baseline \in [doc : Doc, kept : Doc, dev : BOOLEAN]
  BY <1>1, <1>2, RestoringKnows, SessionFields DEF IInv, Typed
<1>5. /\ baseline' \in [doc : Doc, kept : Doc, dev : BOOLEAN]
      /\ session[s].generated = Unset \/ baseline'.doc = prior
  BY <1>3, <1>4
<1>6. /\ proc' \in Process /\ proc'.pc = "unbased" /\ proc'.s = s /\ proc'.t = proc.t
      /\ proc'.how = proc.how
  BY <1>1, <1>2, GotoIs DEF IInv, Step
<1>7. Running'
  BY <1>1, <1>2, <1>6, RestoringKnows
  DEF Running, Applying, Checking, Rolling, Restoring
<1>8. Rebased'
  BY <1>1, <1>5, <1>6 DEF Rebased
<1> QED
  BY <1>1, <1>5, <1>6, <1>7, <1>8, BaselineStepKeeps

LEMMA RestoreTransactionKeeps ==
  ASSUME IInv, RestoreTransaction
  PROVE  IInv'
<1>1. proc.pc = "unbased" /\ UNCHANGED <<session, txn, project, baseline, game>>
  BY DEF RestoreTransaction
<1>2. PICK s \in DOMAIN session : s = proc.s
  BY <1>1, RestoringKnows
<1> DEFINE t == session[s].txn
<1>3. proc' = [proc EXCEPT !.pc = IF t = NoTxn THEN "rolled" ELSE "rolling", !.t = t]
  BY <1>2 DEF RestoreTransaction
<1>4. /\ t \in Txn \cup {NoTxn} /\ Own(s) \subseteq {t}
      /\ t # NoTxn => txn[t].state # "none"
  BY <1>1, <1>2, RestoringKnows, SessionFields, BoundOwn, TxnLogged DEF IInv
<1>5. /\ proc' \in Process /\ proc'.s = s /\ proc'.t = t /\ proc'.how = proc.how
      /\ proc'.pc = IF t = NoTxn THEN "rolled" ELSE "rolling"
  BY <1>2, <1>3, <1>4 DEF IInv, Typed, Process, Step
<1>6. Running'
  <2>1. proc.how \in ByReview /\ proc.how # "none"
    BY <1>1, RestoringKnows DEF ByReview
  <2> QED
    BY <1>1, <1>2, <1>4, <1>5, <2>1, RestoringKnows
    DEF Running, Own, Applying, Checking, Rolling, Restoring
<1>7. Rebased'
  BY <1>1, <1>2, <1>5 DEF IInv, Rebased, Rolling, Restoring
<1> QED
  BY <1>1, <1>5, <1>6, <1>7, GoesOn

-----------------------------------------------------------------------------
(* restore and recover                                                     *)

LEMMA EnterRestoreKeeps ==
  ASSUME IInv, NEW s \in DOMAIN session, NEW how \in ByReview,
         Enter(s, "restore", NoTxn, how), UNCHANGED <<session, txn, project, baseline, game>>,
         session[s].state \in {"recovery_required"} \cup IF how = "manual" THEN Accepted ELSE {}
  PROVE  IInv'
<1>1. s \in Review /\ how \in How
  BY DEF IInv, Typed, ByReview, How
<1>2. /\ proc' \in Process
      /\ proc'.pc = "restore" /\ proc'.s = s /\ proc'.t = NoTxn /\ proc'.how = how
  BY <1>1, EnterIs DEF Step
<1>3. Running' /\ Rebased'
  BY <1>2 DEF Running, Rebased, Applying, Checking, Rolling, Restoring
<1> QED
  BY <1>2, <1>3, GoesOn

LEMMA RestoreKeeps ==
  ASSUME IInv, NEW s \in DOMAIN session,
         \/ Restore(s)
         \/ RecoverRequired(s) /\ UNCHANGED <<txn, project, baseline, game, bounds>>
  PROVE  IInv'
<1>1. PICK how \in ByReview :
        /\ Enter(s, "restore", NoTxn, how)
        /\ session[s].state \in {"recovery_required"} \cup IF how = "manual" THEN Accepted ELSE {}
  BY DEF Restore, RecoverRequired, ByReview, Accepted
<1>2. UNCHANGED <<session, txn, project, baseline, game>>
  BY DEF Restore, RecoverRequired
<1> QED
  BY <1>1, <1>2, EnterRestoreKeeps

\* Every transaction of a review is among those of its exact plan.
LEMMA FoundOwn ==
  ASSUME IInv, NEW s \in DOMAIN session
  PROVE  Own(s) \subseteq Matching(s.plan)
BY DEF IInv, Logged, Own, Matching

\* Recovery takes up the transaction of its review, or leaves nothing of it out.
LEMMA EnterTxnKeeps ==
  ASSUME IInv, NEW s \in DOMAIN session, NEW t \in Txn, NEW label \in {"writing", "applied", "rolling"},
         NEW how \in {"none", "resume"}, Enter(s, label, t, how),
         UNCHANGED <<session, txn, project, baseline, game>>,
         session[s].state = "applying", txn[t].state # "none", Own(s) \subseteq {t},
         label = "writing" => txn[t].state = "activated",
         label = "rolling" => how = "resume" /\ txn[t].state # "applied"
  PROVE  IInv'
<1>1. s \in Review /\ how \in How /\ label \in Step
  BY DEF IInv, Typed, How, Step
<1>2. /\ proc' \in Process
      /\ proc'.pc = label /\ proc'.s = s /\ proc'.t = t /\ proc'.how = how
  BY <1>1, EnterIs
<1>3. Running'
  BY <1>2, TxnFacts DEF Running, Own, Applying, Checking, Rolling, Restoring, ByReview
<1>4. Rebased'
  BY <1>2 DEF Rebased, ByReview
<1> QED
  BY <1>2, <1>3, <1>4, GoesOn

LEMMA RecoverCheckingKeeps ==
  ASSUME IInv, NEW s \in DOMAIN session, RecoverChecking(s), UNCHANGED <<txn, project, baseline, game>>
  PROVE  IInv'
<1>1. /\ session[s].state = "checking" /\ UNCHANGED session
      /\ Enter(s, "check", session[s].txn, "none")
  BY DEF RecoverChecking
<1>2. /\ s \in Review /\ session[s].txn \in Txn \cup {NoTxn}
      /\ session[s].txn # NoTxn => txn[session[s].txn].state # "none"
  BY SessionFields, TxnLogged DEF IInv
<1>3. /\ proc' \in Process
      /\ proc'.pc = "check" /\ proc'.s = s /\ proc'.t = session[s].txn
  BY <1>1, <1>2, EnterIs DEF Step, How
<1>4. Running' /\ Rebased'
  BY <1>1, <1>2, <1>3 DEF Running, Rebased, Applying, Checking, Rolling, Restoring
<1> QED
  BY <1>1, <1>3, <1>4, GoesOn

LEMMA FailsKeeps ==
  ASSUME IInv, NEW s \in DOMAIN session, session[s].state = "applying", Finish(s, "failed"),
         proc.pc = "idle", UNCHANGED <<txn, project, baseline, game, proc>>
  PROVE  IInv'
<1>1. Update(s, "failed", session[s].txn)
  BY FinishIs DEF IInv, FinalState
<1>2. /\ session[s].txn \in Txn \cup {NoTxn}
      /\ session[s].txn # NoTxn => txn[session[s].txn].state # "none"
  BY SessionFields, TxnLogged DEF IInv
<1>3. "failed" \in Closed /\ "failed" \notin BoundOnes \cup Undone
  BY DEF Closed, State, FinalState, OpenState, BoundOnes, Undone, Accepted
<1> QED
  BY <1>1, <1>2, <1>3, UpdateReturns DEF OpenState

LEMMA RecoverRolledBackKeeps ==
  ASSUME IInv, NEW s \in DOMAIN session, RecoverRolledBack(s), proc.pc = "idle",
         UNCHANGED <<txn, project, baseline, game>>
  PROVE  IInv'
<1>1. PICK t \in Txn :
        /\ Found(s, t) /\ txn[t].state = "rolled_back"
        /\ Save(s, [session[s] EXCEPT !.state = "restored_failure",
                      !.result = "restored_failure", !.txn = t])
  BY DEF RecoverRolledBack
<1>2. session[s].state = "applying" /\ proc' = proc
  BY DEF RecoverRolledBack
<1>3. Update(s, "restored_failure", t)
  BY <1>1, FinishBoundIs DEF IInv, FinalState
<1>4. "restored_failure" \in Closed /\ "restored_failure" \notin BoundOnes
  BY DEF Closed, State, FinalState, OpenState, BoundOnes, Accepted
<1>5. \A u \in Own(s) : txn[u].state = "rolled_back"
  BY <1>1, FoundOwn DEF Found
<1> QED
  BY <1>1, <1>2, <1>3, <1>4, <1>5, UpdateReturns DEF OpenState

LEMMA RecoverAppliedKeeps ==
  ASSUME IInv, NEW s \in DOMAIN session, RecoverApplied(s), UNCHANGED <<txn, project, baseline, game>>
  PROVE  IInv'
<1>1. PICK t \in Txn : /\ Found(s, t) /\ txn[t].state = "applied"
                       /\ Enter(s, "applied", t, "none")
  BY DEF RecoverApplied
<1>2. session[s].state = "applying" /\ UNCHANGED session
  BY DEF RecoverApplied
<1>3. Own(s) \subseteq {t}
  BY <1>1, FoundOwn DEF Found
<1> QED
  BY <1>1, <1>2, <1>3, EnterTxnKeeps

\* Resuming: the one open transaction there is, when no other one of this plan
\* is logged, leaves nothing of the review out.
LEMMA RecoverResumeKeeps ==
  ASSUME IInv, NEW s \in DOMAIN session, RecoverResume(s), proc.pc = "idle",
         UNCHANGED <<txn, project, baseline, game>>
  PROVE  IInv'
<1>1. session[s].state = "applying"
  BY DEF RecoverResume
<1>2. CASE Finish(s, "failed") /\ UNCHANGED proc
  BY <1>1, <1>2, FailsKeeps
<1>3. ASSUME NEW t \in Txn, Pending = {t}, UNCHANGED session,
             \/ txn[t].state = "activated" /\ Enter(s, "writing", t, "resume")
             \/ Enter(s, "rolling", t, "resume")
      PROVE  IInv'
  <2>1. /\ txn[t].state \notin Settled
        /\ \A u \in Txn : txn[u].state \notin Settled => u = t
    BY <1>3 DEF Pending
  <2>2. txn[t].state # "none" /\ txn[t].state # "applied"
    BY <2>1 DEF Settled
  <2>3. Own(s) \subseteq {t}
    <3>1. \/ Matching(s.plan) = {}
          \/ \E u \in Txn : Matching(s.plan) = {u} /\ txn[u].state \notin {"applied", "rolled_back"}
      BY DEF RecoverResume, Found
    <3>2. \A u \in Own(s) : u \in Matching(s.plan) /\ u \in Txn /\ txn[u].state # "none"
      BY FoundOwn DEF Own
    <3> QED
      BY <2>1, <3>1, <3>2 DEF Settled
  <2>4. CASE txn[t].state = "activated" /\ Enter(s, "writing", t, "resume")
    BY <1>1, <1>3, <2>2, <2>3, <2>4, EnterTxnKeeps
  <2>5. CASE Enter(s, "rolling", t, "resume")
    BY <1>1, <1>3, <2>2, <2>3, <2>5, EnterTxnKeeps
  <2> QED
    BY <1>3, <2>4, <2>5
<1>4. \/ Finish(s, "failed") /\ UNCHANGED proc
      \/ \E t \in Txn :
           /\ Pending = {t} /\ UNCHANGED session
           /\ \/ txn[t].state = "activated" /\ Enter(s, "writing", t, "resume")
              \/ Enter(s, "rolling", t, "resume")
  BY DEF RecoverResume
<1> QED
  BY <1>2, <1>3, <1>4

LEMMA RecoverKeeps ==
  ASSUME IInv, NEW s \in DOMAIN session, Recover(s), proc.pc = "idle"
  PROVE  IInv'
<1>1. UNCHANGED <<txn, project, baseline, game, bounds>>
  BY DEF Recover
<1>2. CASE RecoverRequired(s)
  BY <1>1, <1>2, RestoreKeeps
<1>3. CASE RecoverChecking(s)
  BY <1>1, <1>3, RecoverCheckingKeeps
<1>4. CASE RecoverApplied(s)
  BY <1>1, <1>4, RecoverAppliedKeeps
<1>5. CASE RecoverRolledBack(s)
  BY <1>1, <1>5, RecoverRolledBackKeeps
<1>6. CASE RecoverAmbiguous(s)
  BY <1>1, <1>6, FailsKeeps DEF RecoverAmbiguous
<1>7. CASE RecoverResume(s)
  BY <1>1, <1>7, RecoverResumeKeeps
<1> QED
  BY <1>2, <1>3, <1>4, <1>5, <1>6, <1>7 DEF Recover

-----------------------------------------------------------------------------
(* The developer, the machine, and the whole step                          *)

LEMMA OutsideKeeps ==
  ASSUME IInv, UNCHANGED <<session, txn, proc>>,
         project' \in [kit : Kit, edited : BOOLEAN, mixed : Txn \cup {NoTxn}],
         baseline' \in [doc : Doc, kept : Doc, dev : BOOLEAN],
         game' \in [GameFile -> 0 .. MaxVersion],
         baseline' = baseline \/ baseline'.dev
  PROVE  IInv'
<1>1. Logged' /\ Sessions' /\ OneTransactionPerReview'
  BY SameFiles DEF IInv
<1>2. Typed'
  BY DEF IInv, Typed
<1>3. Running'
  BY DEF IInv, Running, Own
<1>4. Rebased'
  BY DEF IInv, Rebased
<1> QED
  BY <1>1, <1>2, <1>3, <1>4 DEF IInv

LEMMA EnvironmentKeeps ==
  ASSUME IInv,
         \/ EditKitFile \/ EditBaseline \/ RevertEdit \/ Crash
         \/ \E f \in GameFile, v \in 0 .. MaxVersion : EditGame(f, v)
  PROVE  IInv'
<1>1. /\ project \in [kit : Kit, edited : BOOLEAN, mixed : Txn \cup {NoTxn}]
      /\ baseline \in [doc : Doc, kept : Doc, dev : BOOLEAN]
      /\ game \in [GameFile -> 0 .. MaxVersion]
      /\ Foreign \in Doc /\ Absent \in Doc
  BY DEF IInv, Typed, Doc
<1>2. CASE EditKitFile
  BY <1>1, <1>2, OutsideKeeps DEF EditKitFile, Edit
<1>3. CASE EditBaseline
  BY <1>1, <1>3, OutsideKeeps DEF EditBaseline, Edit
<1>4. CASE RevertEdit
  <2>1. UNCHANGED <<session, txn, game, proc>>
    BY <1>4 DEF RevertEdit
  <2>2. CASE project' = [project EXCEPT !.edited = FALSE] /\ UNCHANGED baseline
    <3>1. project' \in [kit : Kit, edited : BOOLEAN, mixed : Txn \cup {NoTxn}]
      BY <1>1, <2>2
    <3> QED
      BY <1>1, <2>1, <2>2, <3>1, OutsideKeeps
  <2>3. CASE /\ UNCHANGED project
             /\ baseline' = [doc |-> baseline.kept, kept |-> Absent, dev |-> TRUE]
    <3>1. baseline' \in [doc : Doc, kept : Doc, dev : BOOLEAN] /\ baseline'.dev
      BY <1>1, <2>3
    <3> QED
      BY <1>1, <2>1, <2>3, <3>1, OutsideKeeps
  <2> QED
    BY <1>4, <2>2, <2>3 DEF RevertEdit
<1>5. CASE Crash
  BY <1>5, JustReturns DEF Crash, Return
<1>6. CASE \E f \in GameFile, v \in 0 .. MaxVersion : EditGame(f, v)
  BY <1>1, <1>6, OutsideKeeps DEF EditGame, Edit
<1> QED
  BY <1>2, <1>3, <1>4, <1>5, <1>6

LEMMA WorkKeeps ==
  ASSUME IInv, Work
  PROVE  IInv'
<1>1. CASE ApplyRefused \/ ApplyBegins \/ ApplyWrites \/ ApplyFails
  BY <1>1, RefusedKeeps, ApplyBeginsKeeps, ApplyWritesKeeps, ApplyFailsKeeps
<1>2. CASE RollBack \/ RollBackStuck \/ RolledBack \/ NotRolledBack
  BY <1>2, RollBackKeeps, RollBackStuckKeeps, RolledBackKeeps, NotRolledBackKeeps
<1>3. CASE \/ StartCheck \/ CheckScans \/ CheckFails \/ RecordIntent \/ WriteBaseline
           \/ Verify \/ RecordGenerated \/ Conclude
  BY <1>3, StartCheckKeeps, CheckStepKeeps, RecordIntentKeeps, WriteBaselineKeeps, CheckEndKeeps
<1>4. CASE RestoreBaseline \/ BaselineKept \/ RestoreTransaction
  BY <1>4, RestoreBaselineKeeps, KeptKeeps, RestoreTransactionKeeps
<1> QED
  BY <1>1, <1>2, <1>3, <1>4 DEF Work

LEMMA CommandKeeps ==
  ASSUME IInv, NEW s \in DOMAIN session, Command(s)
  PROVE  IInv'
<1>1. proc.pc = "idle" /\ (Apply(s) \/ Restore(s) \/ Recover(s))
  BY DEF Command
<1> QED
  BY <1>1, ApplyKeeps, RestoreKeeps, RecoverKeeps

LEMMA InitIInv == Init => IInv
<1> SUFFICES ASSUME Init PROVE IInv
  OBVIOUS
<1>1. PICK k \in From, g \in [GameFile -> 0 .. MaxVersion] :
       /\ project = [kit |-> k, edited |-> FALSE, mixed |-> NoTxn]
       /\ game = g
       /\ baseline = [kept |-> Absent, dev |-> FALSE, doc |->
            IF k \in Release
            THEN [rel |-> k, allow |-> {<<f, g[f]>> : f \in {x \in GameFile : g[x] > 0}}]
            ELSE Absent]
  BY DEF Init
<1>2. /\ session = [s \in {} |-> NoSession] /\ DOMAIN session = {}
      /\ txn = [t \in Txn |-> NoTransaction] /\ proc = Idle
  BY DEF Init
<1>3. k \in Kit
  BY BoundAssumption
<1>4. {<<f, g[f]>> : f \in {x \in GameFile : g[x] > 0}} \subseteq Allowance
  BY DEF Allowance
<1>5. \A A \in SUBSET Allowance : k \in Release => [rel |-> k, allow |-> A] \in Document
  BY DEF Document
<1>6. baseline \in [doc : Doc, kept : Doc, dev : BOOLEAN]
  BY <1>1, <1>4, <1>5 DEF Doc
<1>7. txn \in [Txn -> TxnFile] /\ \A t \in Txn : txn[t].state = "none"
  BY <1>2 DEF NoTransaction, TxnFile, TxnState
<1>8. proc \in Process /\ proc.pc = "idle" /\ proc.t = NoTxn
  BY <1>2, IdleFields
<1>9. Typed
  BY <1>1, <1>2, <1>3, <1>6, <1>7, <1>8 DEF Typed
<1>10. Logged /\ Sessions /\ OneTransactionPerReview
  BY <1>2, <1>7 DEF Logged, Sessions, OneTransactionPerReview
<1>11. Running /\ Rebased
  BY <1>8 DEF Running, Rebased, Applying, Checking, Rolling, Restoring
<1> QED
  BY <1>9, <1>10, <1>11 DEF IInv

LEMMA NextIInv == IInv /\ [Next]_vars => IInv'
<1> SUFFICES ASSUME IInv, [Next]_vars PROVE IInv'
  OBVIOUS
<1>1. CASE proc.pc = "idle" /\ \E r \in Release, d \in Folder \cup {Unset} : Prepare(r, d)
  BY <1>1, PrepareKeeps
<1>2. CASE proc.pc = "idle" /\ \E s \in DOMAIN session, d \in Folder : Reprepare(s, d)
  BY <1>2, ReprepareKeeps
<1>3. CASE \E s \in DOMAIN session : Command(s)
  BY <1>3, CommandKeeps
<1>4. CASE Work
  BY <1>4, WorkKeeps
<1>5. CASE \/ EditKitFile \/ EditBaseline \/ RevertEdit \/ Crash
           \/ \E f \in GameFile, v \in 0 .. MaxVersion : EditGame(f, v)
  BY <1>5, EnvironmentKeeps
<1>6. CASE UNCHANGED vars
  <2>1. UNCHANGED <<session, txn, proc, project, baseline, game>>
    BY <1>6 DEF vars
  <2> QED
    BY <2>1, OutsideKeeps DEF IInv, Typed
<1> QED
  BY <1>1, <1>2, <1>3, <1>4, <1>5, <1>6 DEF Next

THEOREM Invariant == Spec => []IInv
BY InitIInv, NextIInv, PTL DEF Spec

-----------------------------------------------------------------------------
(* What follows from the invariant                                         *)

\* The values of a session file and of the running command are those that the
\* code can hold, in every reachable state.
THEOREM Typing == Spec => []TypeOK
<1>1. ASSUME IInv
      PROVE  TypeOK
  <2>1. \A s \in DOMAIN session : session[s] \in Session
    BY <1>1 DEF IInv, Typed
  <2>2. \A t \in Txn : /\ txn[t].state \in TxnState
                       /\ txn[t].state # "none" => txn[t].plan \in Plan /\ txn[t].by \in DOMAIN session
    BY <1>1, TxnFields, TxnPlan DEF IInv
  <2>3. baseline.doc \in Doc /\ proc.pc \in Step /\ proc.how \in How
    BY <1>1, ProcFields DEF IInv, Typed
  <2> QED
    BY <1>1, <2>1, <2>2, <2>3 DEF TypeOK, IInv, Typed, Doc
<1> QED
  BY <1>1, Invariant, PTL

\* One approved review starts at most one transaction, however often it is
\* applied, killed and recovered.
THEOREM OneTransaction == Spec => []OneTransactionPerReview
<1>1. IInv => OneTransactionPerReview
  BY DEF IInv
<1> QED
  BY <1>1, Invariant, PTL

\* A review that says restored has undone every change it made.
THEOREM RestoredMeansUndone == Spec => []RestoredIsUndone
<1>1. ASSUME IInv
      PROVE  RestoredIsUndone
  <2>1. SUFFICES ASSUME NEW t \in Txn, txn[t].state # "none",
                        session[txn[t].by].state \in {"restored", "restored_failure"}
                 PROVE  txn[t].state = "rolled_back"
    BY DEF RestoredIsUndone
  <2>2. txn[t].by \in DOMAIN session /\ t \in Own(txn[t].by)
    BY <1>1, <2>1, TxnPlan DEF Own
  <2> QED
    BY <1>1, <2>1, <2>2 DEF IInv, Sessions, Sound, Undone
<1> QED
  BY <1>1, Invariant, PTL


\* Nothing but its own rollback makes an applied transaction anything else.
LEMMA LeavesApplied ==
  ASSUME IInv, [Next]_vars, NEW t \in Txn, txn[t].state = "applied", txn'[t].state # "applied"
  PROVE  proc.pc = "rolling" /\ proc.t = t
<1>1. CASE ApplyBegins
  <2>1. txn' = txn \/ \E u \in Txn : \E r : txn[u].state = "none" /\ txn' = [txn EXCEPT ![u] = r]
    <3>1. \A u \in Txn : u \in 1 .. u
      BY DEF Txn
    <3> QED
      BY <1>1, <3>1 DEF ApplyBegins
  <2>2. \A u \in Txn : \A r : txn[u].state = "none" /\ txn' = [txn EXCEPT ![u] = r] => txn'[t] = txn[t]
    BY DEF IInv, Typed
  <2> QED
    BY <2>1, <2>2
<1>2. CASE ApplyWrites
  <2>1. proc.t \in Txn /\ txn[proc.t].state # "applied"
    BY <1>2, ProcFields DEF ApplyWrites, IInv, Running
  <2>2. \A state : Move(proc.t, state) => txn'[t] = txn[t]
    BY <2>1 DEF Move, IInv, Typed
  <2> QED
    BY <1>2, <2>2 DEF ApplyWrites
<1>3. CASE RollBack \/ RollBackStuck
  <2>1. proc.pc = "rolling" /\ proc.t \in Txn
    BY <1>3, RollingKnows DEF RollBack, RollBackStuck
  <2>2. \A state : Move(proc.t, state) /\ proc.t # t => txn'[t] = txn[t]
    BY DEF Move, IInv, Typed
  <2>3. txn' = txn \/ \E state : Move(proc.t, state)
    BY <1>3 DEF RollBack, RollBackStuck
  <2> QED
    BY <2>1, <2>2, <2>3
<1>4. CASE txn' = txn
  BY <1>4
<1>5. Work => \/ txn' = txn \/ ApplyBegins \/ ApplyWrites \/ RollBack \/ RollBackStuck
  BY DEF Work, ApplyRefused, ApplyFails, RolledBack, NotRolledBack, StartCheck, CheckScans,
         CheckFails, RecordIntent, WriteBaseline, Verify, RecordGenerated, Conclude,
         RestoreBaseline, BaselineKept, RestoreTransaction
<1>6. \A s : Command(s) => txn' = txn
  BY DEF Command, Apply, Restore, Recover
<1>7. \A r, d : Prepare(r, d) => txn' = txn
  BY DEF Prepare
<1>8. \A s, d : Reprepare(s, d) => txn' = txn
  BY <1>7 DEF Reprepare
<1>9. \/ EditKitFile \/ EditBaseline \/ RevertEdit \/ Crash
      \/ (\E f \in GameFile, v \in 0 .. MaxVersion : EditGame(f, v))
      \/ UNCHANGED vars
      => txn' = txn
  BY DEF EditKitFile, EditBaseline, RevertEdit, Crash, EditGame, Edit, vars
<1> QED
  BY <1>1, <1>2, <1>3, <1>4, <1>5, <1>6, <1>7, <1>8, <1>9 DEF Next

\* What a check accepted, only the developer's own Restore of that review takes
\* back, as long as every review is bound to its own transaction.
THEOREM AcceptedIsKept == Spec => KeptUntilRestored
<1>1. ASSUME IInv, [Next]_vars, NEW t \in Txn, ExactTransaction,
             txn[t].state = "applied", txn'[t].state # "applied",
             session[txn[t].by].state \in {"complete", "adoption_required"}
      PROVE  proc.how = "manual" /\ proc.s = txn[t].by
  <2>1. proc.pc = "rolling" /\ proc.t = t
    BY <1>1, LeavesApplied
  <2>2. proc.how \in ByReview /\ t = session[proc.s].txn
    BY <1>1, <2>1 DEF IInv, Running, Rolling
  <2>3. proc.s \in DOMAIN session
    BY <1>1, <2>1 DEF IInv, Typed
  <2>4. txn[t].by = proc.s
    BY <1>1, <2>2, <2>3, TxnFacts DEF ExactTransaction
  <2>5. proc.how # "auto"
    BY <1>1, <2>1, <2>4, RollingKnows
  <2> QED
    BY <2>2, <2>4, <2>5 DEF ByReview
<1>2. IInv /\ [Next]_vars =>
        [ \A t \in Txn :
            (/\ ExactTransaction
             /\ txn[t].state = "applied"
             /\ txn'[t].state # "applied"
             /\ session[txn[t].by].state \in {"complete", "adoption_required"})
            => proc.how = "manual" /\ proc.s = txn[t].by ]_vars
  BY <1>1
<1> QED
  BY <1>2, Invariant, PTL DEF Spec, KeptUntilRestored


\* Every baseline that the kit puts in place, and every one that it replaces, is
\* named in the session file.
THEOREM BaselineLogged == Spec => BaselineIsLogged
<1>1. ASSUME IInv, [Next]_vars, baseline' # baseline, proc.pc # "idle", proc' # proc
      PROVE  LET known == {session[proc.s].prior, session[proc.s].generated}
             IN  baseline.doc \in known /\ baseline'.doc \in known
  <2>1. CASE WriteBaseline
    BY <1>1, <2>1 DEF WriteBaseline, IInv, Typed
  <2>2. CASE RestoreBaseline
    BY <1>1, <2>2 DEF RestoreBaseline, BaselineRestorable, IInv, Typed
  <2>3. Work /\ baseline' # baseline => WriteBaseline \/ RestoreBaseline
    BY DEF Work, ApplyRefused, ApplyBegins, ApplyWrites, ApplyFails, RollBack, RollBackStuck,
           RolledBack, NotRolledBack, StartCheck, CheckScans, CheckFails, RecordIntent,
           Verify, RecordGenerated, Conclude, BaselineKept, RestoreTransaction
  <2>4. \A s : ~Command(s)
    BY <1>1 DEF Command
  <2>5. \/ EditKitFile \/ EditBaseline \/ RevertEdit
        \/ (\E f \in GameFile, v \in 0 .. MaxVersion : EditGame(f, v))
        \/ UNCHANGED vars
        => proc' = proc
    BY DEF EditKitFile, EditBaseline, RevertEdit, EditGame, Edit, vars
  <2>6. Crash => baseline' = baseline
    BY DEF Crash
  <2> QED
    BY <1>1, <2>1, <2>2, <2>3, <2>4, <2>5, <2>6 DEF Next
<1>2. IInv /\ [Next]_vars =>
        [ (baseline' # baseline /\ proc.pc # "idle" /\ proc' # proc) =>
            LET known == {session[proc.s].prior, session[proc.s].generated}
            IN  baseline.doc \in known /\ baseline'.doc \in known ]_vars
  BY <1>1
<1> QED
  BY <1>2, Invariant, PTL DEF Spec, BaselineIsLogged

\* The baseline document of an upgrade allows nothing that the one before it,
\* which it replaces, did not allow.
THEOREM AllowancesOnlyShrink == Spec => AllowancesShrink
<1>1. ASSUME IInv, [Next]_vars, baseline'.doc \in Document, baseline.doc \in Document,
             baseline'.doc # baseline.doc, proc.pc = "intent", proc.s.plan.from # NoKit
      PROVE  baseline'.doc.allow \subseteq baseline.doc.allow
  <2>1. CASE WriteBaseline
    <3>1. PICK s \in DOMAIN session : s = proc.s
      BY <1>1 DEF IInv, Typed
    <3>2. /\ baseline.doc = session[s].prior
          /\ baseline'.doc = session[s].generated
      BY <1>1, <2>1, <3>1 DEF WriteBaseline, IInv, Typed
    <3> QED
      BY <1>1, <3>1, <3>2 DEF IInv, Sessions, Sound
  <2>2. Work => WriteBaseline \/ baseline' = baseline
    BY <1>1 DEF Work, ApplyRefused, ApplyBegins, ApplyWrites, ApplyFails, RollBack,
                RollBackStuck, RolledBack, NotRolledBack, StartCheck, CheckScans, CheckFails,
                RecordIntent, Verify, RecordGenerated, Conclude, RestoreBaseline,
                BaselineKept, RestoreTransaction
  <2>3. \A s : ~Command(s)
    BY <1>1 DEF Command
  <2>4. ~EditBaseline /\ (RevertEdit => baseline' = baseline)
    BY <1>1, FieldAssumption DEF EditBaseline, RevertEdit
  <2>5. \/ EditKitFile \/ Crash
        \/ (\E f \in GameFile, v \in 0 .. MaxVersion : EditGame(f, v))
        \/ UNCHANGED vars
        => baseline' = baseline
    BY DEF EditKitFile, Crash, EditGame, Edit, vars
  <2> QED
    BY <1>1, <2>1, <2>2, <2>3, <2>4, <2>5 DEF Next
<1>2. IInv /\ [Next]_vars =>
        [ (/\ baseline'.doc \in Document
           /\ baseline.doc \in Document
           /\ baseline'.doc # baseline.doc
           /\ proc.pc = "intent" /\ proc.s.plan.from # NoKit)
          => baseline'.doc.allow \subseteq baseline.doc.allow ]_vars
  BY <1>1
<1> QED
  BY <1>2, Invariant, PTL DEF Spec, AllowancesShrink


\* A step that saves one session file leaves the others as they were.
LEMMA SaveOne ==
  ASSUME NEW s, NEW r, Save(s, r), NEW x \in DOMAIN session
  PROVE  session'[x] = IF x = s THEN r ELSE session[x]
BY DEF Save

\* A review becomes restored at the end of a rollback, or when recovery finds
\* its transaction rolled back.
LEMMA BecomesRestored ==
  ASSUME IInv, [Next]_vars, NEW s \in DOMAIN session,
         session'[s].state # session[s].state, session'[s].state \in Undone
  PROVE  \/ RolledBack /\ proc.s = s
         \/ session[s].state = "applying"
<1>1. \A x \in DOMAIN session : session[x] \in Session
  BY DEF IInv, Typed
<1>a. ASSUME NEW x \in DOMAIN session, NEW r, Save(x, r)
      PROVE  x = s /\ r.state # session[s].state /\ r.state \in Undone
  BY <1>a, SaveOne
<1>2. ASSUME NEW x \in DOMAIN session, NEW state, state \notin Undone,
             Finish(x, state) \/ Transition(x, state)
      PROVE  FALSE
  <2>1. CASE Finish(x, state)
    <3> DEFINE r == [session[x] EXCEPT !.state = state, !.result = state]
    <3>1. Save(x, r)
      BY <2>1 DEF Finish
    <3>2. r.state = state
      BY <1>1 DEF Session
    <3> HIDE DEF r
    <3> QED
      BY <1>2, <1>a, <3>1, <3>2
  <2>2. CASE Transition(x, state)
    <3> DEFINE r == [session[x] EXCEPT !.state = state]
    <3>1. Save(x, r)
      BY <2>2 DEF Transition
    <3>2. r.state = state
      BY <1>1 DEF Session
    <3> HIDE DEF r
    <3> QED
      BY <1>2, <1>a, <3>1, <3>2
  <2> QED
    BY <1>2, <2>1, <2>2
<1>3. ~(session' = session)
  OBVIOUS
<1>4. CASE ApplyRefused \/ ApplyBegins \/ ApplyWrites \/ ApplyFails
  <2>1. ApplyRefused /\ proc.s \in DOMAIN session
    BY <1>3, <1>4 DEF ApplyRefused, ApplyBegins, ApplyWrites, ApplyFails, IInv, Typed
  <2>2. "failed" \notin Undone
    BY DEF Undone
  <2> QED
    BY <1>2, <2>1, <2>2 DEF ApplyRefused
<1>5. CASE RollBack \/ RollBackStuck \/ NotRolledBack
  <2>1. NotRolledBack /\ proc.s \in DOMAIN session
    BY <1>3, <1>5 DEF RollBack, RollBackStuck, NotRolledBack, IInv, Typed
  <2>2. ~Finish(proc.s, "failed") /\ ~Transition(proc.s, "recovery_required")
    BY <1>2, <2>1 DEF Undone
  <2> DEFINE r == [session[proc.s] EXCEPT !.state = "recovery_required", !.txn = proc.t]
  <2>3. Save(proc.s, r)
    BY <1>3, <2>1, <2>2 DEF NotRolledBack
  <2>4. r.state = "recovery_required"
    BY <1>1, <2>1 DEF Session
  <2> HIDE DEF r
  <2> QED
    BY <1>a, <2>1, <2>3, <2>4 DEF Undone
<1>6. CASE RolledBack
  <2>1. proc.s \in DOMAIN session /\ \E r : Save(proc.s, r)
    BY <1>6, ProcFields DEF RolledBack, Finish, Transition, IInv, Typed, Running, Rolling, How
  <2> QED
    BY <1>6, <2>1, SaveOne
<1>7. CASE \/ StartCheck \/ CheckScans \/ CheckFails \/ RecordIntent \/ WriteBaseline
           \/ Verify
  <2>1. proc.pc \in {"applied", "scanned"} => proc.s \in DOMAIN session
    BY DEF IInv, Typed
  <2>2. CASE StartCheck
    <3> DEFINE r == [session[proc.s] EXCEPT !.state = "checking", !.txn = proc.t]
    <3>1. proc.s \in DOMAIN session /\ Save(proc.s, r)
      BY <2>1, <2>2 DEF StartCheck
    <3>2. r.state = "checking"
      BY <1>1, <3>1 DEF Session
    <3> HIDE DEF r
    <3> QED
      BY <1>a, <3>1, <3>2 DEF Undone
  <2>3. CASE RecordIntent
    <3> DEFINE r == [session[proc.s] EXCEPT !.generated = BaselinePlan(proc.s, proc.scan)]
    <3>1. proc.s \in DOMAIN session /\ Save(proc.s, r)
      BY <2>1, <2>3 DEF RecordIntent
    <3>2. r.state = session[proc.s].state
      BY <1>1, <3>1 DEF Session
    <3> HIDE DEF r
    <3> QED
      BY <1>a, <3>1, <3>2
  <2> QED
    BY <1>3, <1>7, <2>2, <2>3 DEF CheckScans, CheckFails, WriteBaseline, Verify
<1>8. CASE RecordGenerated \/ Conclude
  <2>1. proc.s \in DOMAIN session
    BY <1>8 DEF RecordGenerated, Conclude, IInv, Typed
  <2>2. \E state \in Accepted \cup {"failed"} : Finish(proc.s, state)
    BY <1>3, <1>8 DEF RecordGenerated, Conclude, Accepted
  <2> QED
    BY <1>2, <2>1, <2>2 DEF Accepted, Undone
<1>9. CASE RestoreBaseline \/ BaselineKept \/ RestoreTransaction
  <2>1. BaselineKept /\ proc.s \in DOMAIN session
    BY <1>3, <1>9 DEF RestoreBaseline, BaselineKept, RestoreTransaction, IInv, Typed
  <2> QED
    BY <1>2, <2>1 DEF BaselineKept, Undone
<1>10. CASE proc.pc = "idle" /\ \E r, d : Prepare(r, d)
  <2>1. PICK x, r : Save(x, r) /\ Saved(x).state = "none"
    BY <1>10 DEF Prepare
  <2>2. x # s
    BY <2>1 DEF Saved, IInv, Sessions, Sound
  <2> QED
    BY <2>1, <2>2, SaveOne
<1>11. ASSUME NEW x \in DOMAIN session, Command(x)
       PROVE  session[s].state = "applying"
  <2>1. ASSUME Apply(x)
        PROVE  FALSE
    <3> DEFINE r == [session[x] EXCEPT !.state = "applying",
                       !.prior = IF @ = Unset THEN baseline.doc ELSE @]
    <3>1. Save(x, r)
      BY <2>1 DEF Apply
    <3>2. r.state = "applying"
      BY <1>1 DEF Session
    <3> HIDE DEF r
    <3> QED
      BY <1>a, <3>1, <3>2 DEF Undone
  <2>2. Recover(x)
    BY <1>3, <1>11, <2>1 DEF Command, Restore
  <2>3. CASE RecoverRolledBack(x)
    BY <2>3, SaveOne DEF RecoverRolledBack
  <2>4. CASE ~RecoverRolledBack(x)
    <3>1. Finish(x, "failed")
      BY <1>3, <2>2, <2>4 DEF Recover, RecoverRequired, RecoverChecking, RecoverApplied,
                              RecoverAmbiguous, RecoverResume
    <3> QED
      BY <1>2, <3>1 DEF Undone
  <2> QED
    BY <2>3, <2>4
<1>12. CASE \/ EditKitFile \/ EditBaseline \/ RevertEdit \/ Crash
            \/ (\E f \in GameFile, v \in 0 .. MaxVersion : EditGame(f, v))
            \/ UNCHANGED vars
  BY <1>3, <1>12 DEF EditKitFile, EditBaseline, RevertEdit, Crash, EditGame, Edit, vars
<1>13. CASE Work
  BY <1>4, <1>5, <1>6, <1>7, <1>8, <1>9, <1>13 DEF Work
<1> QED
  BY <1>10, <1>11, <1>12, <1>13 DEF Next, Reprepare

\* A review that becomes restored leaves no baseline of its own behind, but one
\* that the developer put back.
THEOREM NothingLeftBehind == Spec => NoBaselineLeftBehind
<1>1. ASSUME IInv, [Next]_vars, NEW s \in DOMAIN session, ~baseline.dev,
             session'[s].state # session[s].state,
             session'[s].state \in {"restored", "restored_failure"},
             session[s].generated # Unset
      PROVE  baseline.doc # session[s].generated \/ session[s].prior = session[s].generated
  <2>1. session[s].state # "applying"
    BY <1>1 DEF IInv, Sessions, Sound
  <2>2. RolledBack /\ proc.s = s
    BY <1>1, <2>1, BecomesRestored DEF Undone
  <2>3. proc.pc = "rolled" /\ proc.how \in ByReview
    BY <1>1, <2>1, <2>2 DEF RolledBack, IInv, Running, Rolling
  <2>4. baseline.doc = session[s].prior
    BY <1>1, <2>2, <2>3 DEF IInv, Rebased, Restoring, Rolling
  <2> QED
    BY <2>4
<1>2. IInv /\ [Next]_vars =>
        [ \A s \in DOMAIN session :
            (/\ ~baseline.dev
             /\ session'[s].state # session[s].state
             /\ session'[s].state \in {"restored", "restored_failure"}
             /\ session[s].generated # Unset)
            => baseline.doc # session[s].generated
               \/ session[s].prior = session[s].generated ]_vars
  BY <1>1
<1> QED
  BY <1>2, Invariant, PTL DEF Spec, NoBaselineLeftBehind

\* Every baseline the kit wrote can be taken back, and is.
THEOREM BaselineCanBeUndone == Spec => BaselineUndoable
BY BaselineLogged, NothingLeftBehind DEF BaselineUndoable

=============================================================================
