------------------------------ MODULE Authority ------------------------------
(***************************************************************************)
(* Who may say that a plan may be built (src/tools/proposal_authority.py,  *)
(* with the decisions of src/tools/cockpit.py that write what it reads).   *)
(*                                                                         *)
(* A human approves, vetoes or asks for changes of the plan on the cockpit *)
(* page; each decision appends an event to project.shape.json and rewrites *)
(* proposal.json and the authority line of the design document it rests    *)
(* on.  Agents edit the proposal and the design freely, so authority is    *)
(* always projected again from the events and the present content.         *)
(*                                                                         *)
(* A decision is one step here: PlanDecision says how its files are        *)
(* written.  A digest is the content it is taken of, so two are equal      *)
(* exactly when the contents are.  One design section is referred to.      *)
(***************************************************************************)
EXTENDS Naturals, Sequences

CONSTANTS MaxPlan,     \* substantively different plans
          MaxIntent,   \* different player experiences of the design section
          MaxRuling,   \* human decisions in a behaviour
          MaxRevision  \* edits by agents in a behaviour

ASSUME AuthorityAssumption ==
  {MaxPlan, MaxIntent} \subseteq Nat \ {0} /\ {MaxRuling, MaxRevision} \subseteq Nat

VARIABLES
  proposal,  \* proposal.json
  design,    \* the design section: its intent, its authority line, its author
  shape,     \* the authority events of project.shape.json
  rulings,   \* history: what the human decided, on which contract
  revisions  \* edits still allowed

authorityVars == <<proposal, design, shape, rulings, revisions>>

Plan   == 1 .. MaxPlan
Intent == 1 .. MaxIntent
Status == {"draft", "recorded", "approved"}
Section == [intent : Intent, authority : {"agent-provisional", "human-confirmed"},
            author : {"agent", "human"}]

NoDigest == <<>>

\* approval_sha256: everything the proposal says but the stored digest itself.
Digest(p) == <<p.plan, p.ref, p.status, p.revised>>

\* reviewed_contract_sha256: what was reviewed, whatever its labels say now.
Contract(p, d) == [plan |-> p.plan, intent |-> d.intent]

(***************************************************************************)
(* The projections of the events.                                          *)
(***************************************************************************)

\* Of a set of positions the last one, if there is any.
LastOf(S) == {i \in S : \A j \in S : j <= i}

\* The positions of the events that no event supersedes.
ActiveDecisions(events) ==
  {i \in DOMAIN events : \A j \in DOMAIN events : events[i].id \notin events[j].supersedes}

\* Ledger order decides for one intent; only an event on the design counts.
OnDesign(events, intent) ==
  {i \in DOMAIN events : events[i].intent = intent /\ events[i].scope = "design-and-plan"}

ActiveDesignVeto(events, intent) ==
  {events[i].id : i \in {k \in LastOf(OnDesign(events, intent)) : events[k].action = "veto"}}

\* The last event still active on exactly this contract, if it is a rejection.
OnContract(events, contract) ==
  {i \in ActiveDecisions(events) : events[i].reviewed = contract}

MatchingRejection(events, contract) ==
  {i \in LastOf(OnContract(events, contract)) : events[i].action = "veto"}

\* Mutant: only the contract is looked up, not the design's intent.
RejectedContract(p, d, events) == MatchingRejection(events, Contract(p, d)) # {}

Rejected(p, d, events) ==
  \/ ActiveDesignVeto(events, d.intent) # {}
  \/ MatchingRejection(events, Contract(p, d)) # {}

Confirms(e, ref, digest) ==
  e.action = "confirm" /\ e.design = ref /\ e.proposal = digest

ExactConfirmation(p, events) ==
  \E i \in ActiveDecisions(events) : Confirms(events[i], p.ref, p.stored)

\* exact_approval_state: the stored approval is exact, current and active.
Approved(p, d, events) ==
  /\ p.status = "approved"
  /\ p.stored = Digest(p)
  /\ p.ref = d
  /\ ExactConfirmation(p, events)
  /\ ~Rejected(p, d, events)

\* validate_approval_contract for autonomous work: only a rejection refuses it.
MayRecord(p, d, events) ==
  p.status = "recorded" /\ p.ref = d /\ ~Rejected(p, d, events)

Authorised == Approved(proposal, design, shape) \/ MayRecord(proposal, design, shape)

(***************************************************************************)
(* What a decision appends.                                                *)
(***************************************************************************)

\* Mutant: the next event takes the place of the last one.
LastId == IF shape = <<>> THEN 1 ELSE Len(shape)

NextId == Len(shape) + 1

Event(action, scope, p, d, digest, supersedes) ==
  [id |-> NextId, action |-> action, scope |-> scope, intent |-> d.intent,
   design |-> p.ref, proposal |-> digest, reviewed |-> Contract(p, d),
   supersedes |-> supersedes]

\* A confirmation of this design and this proposal that no veto has withdrawn.
StillConfirmed(p) ==
  \E i \in DOMAIN shape :
    /\ Confirms(shape[i], p.ref, p.stored)
    /\ \A v \in DOMAIN shape : shape[v].action = "veto" => shape[i].id \notin shape[v].supersedes

AppendConfirmation(p, d) ==
  IF StillConfirmed(p) THEN shape
  ELSE Append(shape, Event("confirm", "design-and-plan", p, d, p.stored,
                           ActiveDesignVeto(shape, d.intent)))

\* The approval of exactly this proposal and this design, if there is one.
Confirmation(p, digest) ==
  {shape[i].id : i \in LastOf({k \in ActiveDecisions(shape) : Confirms(shape[k], p.ref, digest)})}

\* A rejection is appended unless one of its scope is in force already.
AppendRejection(p, d, scope) ==
  LET digest == IF p.stored = NoDigest THEN Digest(p) ELSE p.stored
      said   == IF scope = "plan-only"
                  THEN \E i \in MatchingRejection(shape, Contract(p, d)) : shape[i].scope = scope
                  ELSE ActiveDesignVeto(shape, d.intent) # {}
  IN  IF said THEN shape
      ELSE Append(shape, Event("veto", scope, p, d, digest, Confirmation(p, digest)))

Rule(kind) ==
  /\ Len(rulings) < MaxRuling
  /\ rulings' = Append(rulings, [kind |-> kind, contract |-> Contract(proposal, design)])
  /\ UNCHANGED revisions

(***************************************************************************)
(* The human's decisions.                                                  *)
(***************************************************************************)

\* record_plan_decision("approve"): a provisional section becomes confirmed,
\* the proposal is bound to it again and stores the digest of what it now says.
Approve ==
  LET section == [design EXCEPT !.authority = "human-confirmed"]
      bound   == [proposal EXCEPT !.ref = section, !.status = "approved"]
      stored  == [bound EXCEPT !.stored = Digest(bound)]
  IN  /\ proposal.status \in {"draft", "recorded"}
      /\ proposal.ref = design
      /\ design' = section
      /\ proposal' = stored
      /\ shape' = AppendConfirmation(stored, section)
      /\ Rule("approve")

\* A rejected proposal is a draft again, with the reason among its revisions.
Draft(p) ==
  [p EXCEPT !.status = "draft", !.stored = NoDigest, !.revised = @ + 1]

\* "veto": only the authority an agent's own text gained is taken back.
Veto ==
  LET section == IF design.author = "agent"
                   THEN [design EXCEPT !.authority = "agent-provisional"] ELSE design
  IN  /\ proposal.ref = design
      /\ shape' = AppendRejection(proposal, design, "design-and-plan")
      /\ design' = section
      /\ proposal' = Draft([proposal EXCEPT !.ref = section])
      /\ Rule("veto")

\* "request-changes": the design keeps the authority it has.
RequestChanges ==
  /\ shape' = AppendRejection(proposal, design, "plan-only")
  /\ proposal' = Draft(proposal)
  /\ Rule("request-changes")
  /\ UNCHANGED design

(***************************************************************************)
(* What agents write: external to the cockpit, which only reads it.        *)
(***************************************************************************)

Revise == revisions > 0 /\ revisions' = revisions - 1 /\ UNCHANGED <<shape, rulings>>

\* Any plan, any label, any older list of revisions; a digest that was kept,
\* dropped, or computed anew; a reference kept or brought up to date.
EditProposal ==
  /\ Revise
  /\ \E plan \in Plan, status \in Status, ref \in {proposal.ref, design},
        revised \in 0 .. proposal.revised :
       LET p == [proposal EXCEPT !.plan = plan, !.status = status, !.ref = ref,
                                 !.revised = revised]
       IN  \E stored \in {proposal.stored, NoDigest, Digest(p)} :
             proposal' = [p EXCEPT !.stored = stored]
  /\ proposal' # proposal
  /\ UNCHANGED design

EditDesign ==
  /\ Revise
  /\ \E intent \in Intent : design' = [design EXCEPT !.intent = intent]
  /\ design' # design
  /\ UNCHANGED proposal

AuthorityInit ==
  /\ design \in {s \in Section : s.author = "human" => s.authority = "human-confirmed"}
  /\ design.intent = 1
  /\ proposal = [plan |-> 1, ref |-> design, status |-> "draft", stored |-> NoDigest,
                 revised |-> 0]
  /\ shape = <<>>
  /\ rulings = <<>>
  /\ revisions = MaxRevision

AuthorityNext == Approve \/ Veto \/ RequestChanges \/ EditProposal \/ EditDesign

AuthoritySpec == AuthorityInit /\ [][AuthorityNext]_authorityVars

(***************************************************************************)
(* Properties.                                                             *)
(***************************************************************************)

\* The files stay in the vocabulary the schema gives them.
AuthorityTypeOK ==
  /\ design \in Section
  /\ proposal.plan \in Plan /\ proposal.ref \in Section /\ proposal.status \in Status
  /\ \A i \in DOMAIN shape : shape[i].id = i /\ shape[i].supersedes \subseteq 1 .. i - 1

\* Whatever an agent writes, restores or relabels, the plan counts as approved
\* only where a human approved exactly this plan with this design.
ExactApproval ==
  Approved(proposal, design, shape) =>
    \E i \in DOMAIN rulings :
      rulings[i] = [kind |-> "approve", contract |-> Contract(proposal, design)]

\* A rejection holds until a later approval lifts it, under every label: a veto
\* until the design's intent is approved again, a request for changes until the
\* very contract is.
RejectionStands ==
  Authorised =>
    LET now == Contract(proposal, design)
        later(i) == {rulings[j] : j \in i + 1 .. Len(rulings)}
    IN  \A i \in DOMAIN rulings :
          /\ rulings[i].kind = "veto" /\ rulings[i].contract.intent = now.intent =>
               \E r \in later(i) : r.kind = "approve" /\ r.contract.intent = now.intent
          /\ rulings[i].kind = "request-changes" /\ rulings[i].contract = now =>
               \E r \in later(i) : r.kind = "approve" /\ r.contract = now

\* Both: what the events project is what humans ruled, never more.
RulingsHold == ExactApproval /\ RejectionStands

\* proposal_authority.py:9-11: "a vetoed plan cannot be resumed by changing
\* approved to recorded".  What it would take: no later approval of another
\* plan brings a vetoed one back.
VetoedPlanStays ==
  Authorised =>
    LET now == Contract(proposal, design)
    IN  \A i \in DOMAIN rulings :
          rulings[i].kind = "veto" /\ rulings[i].contract = now =>
            \E j \in i + 1 .. Len(rulings) :
              rulings[j] = [kind |-> "approve", contract |-> now]

\* What the human approves is approved.
ApprovalTakesEffect == [][Approve => Approved(proposal', design', shape')]_authorityVars
=============================================================================
