------------------------------- MODULE MCStores -------------------------------
(***************************************************************************)
(* Six parts that humans, programs and processes work on at one time:     *)
(* what the authority events project (Authority), how one decision reaches *)
(* the disk (PlanDecision), the ledger of accepted findings (RetroLedger), *)
(* the closing of a retrospective (RetroClose), the commands of a          *)
(* verification (StrictVerify) and the making of a release (Packaging).    *)
(* They share no state, so that a behaviour follows one of them and the    *)
(* others stay as they began.                                              *)
(***************************************************************************)
EXTENDS Authority, PlanDecision, RetroLedger, RetroClose, StrictVerify,
        Packaging, TLC

VARIABLE scene  \* which part the behaviour follows

vars == <<scene, authorityVars, decisionVars, ledgerVars, closeVars, strictVars,
          packVars>>

\* Thefts are followed by themselves; edits and mishaps with two decisions, and
\* both of them with one.
Allow(decision, edit, mishap, steal) ==
  [decision |-> decision, edit |-> edit, mishap |-> mishap, steal |-> steal,
   stolen |-> FALSE]
Followed == {Allow(MaxDecision, 0, MaxMishap, 0), Allow(MaxDecision, MaxEdit, 0, 0),
             Allow(1, MaxEdit, MaxMishap, 0), Allow(1, 0, 0, MaxSteal)}

\* A part that is not followed begins in one state.
Init ==
  /\ scene \in {"authority", "decision", "ledger", "close", "strict", "package",
               "packages"}
  /\ AuthorityInit /\ DecisionInit /\ LedgerInit /\ CloseInit /\ StrictInit
  /\ PackagingInit
  /\ scene # "authority" => design.authority = "agent-provisional"
  /\ left \in Followed
  /\ scene # "decision" => left.edit = 0 /\ left.steal = 0
  /\ scene # "close" => budget.rob = 0

\* Two commands at one time are followed with one disturbance, and one command
\* after the other with as many as there are.
OneByOne == \E p \in Packer : \A q \in Packer \ {p} : packer'[q] = Dormant
PackagesNext ==
  /\ PackagingNext
  /\ IF scene = "package" THEN OneByOne ELSE meddle' >= MaxMeddle - 1

Next ==
  \/ /\ scene = "authority" /\ AuthorityNext
     /\ UNCHANGED <<scene, decisionVars, ledgerVars, closeVars, strictVars, packVars>>
  \/ /\ scene = "decision" /\ DecisionNext
     /\ UNCHANGED <<scene, authorityVars, ledgerVars, closeVars, strictVars, packVars>>
  \/ /\ scene = "ledger" /\ LedgerNext
     /\ UNCHANGED <<scene, authorityVars, decisionVars, closeVars, strictVars, packVars>>
  \/ /\ scene = "close" /\ CloseNext
     /\ UNCHANGED <<scene, authorityVars, decisionVars, ledgerVars, strictVars, packVars>>
  \/ /\ scene = "strict" /\ StrictNext
     /\ UNCHANGED <<scene, authorityVars, decisionVars, ledgerVars, closeVars, packVars>>
  \/ /\ scene \in {"package", "packages"} /\ PackagesNext
     /\ UNCHANGED <<scene, authorityVars, decisionVars, ledgerVars, closeVars, strictVars>>

Spec == Init /\ [][Next]_vars

\* The same names serve as processes, writers and closers, and the same as
\* findings and notes: to exchange either is a symmetry of every part.
Symmetry == {p @@ n : p \in Permutations(Process), n \in Permutations(Note)}

\* Every file, journal, lock and process table is well formed in the part
\* that is followed.
StoresTypeOK ==
  CASE scene = "authority" -> AuthorityTypeOK
    [] scene = "decision" -> DecisionTypeOK
    [] scene = "ledger" -> LedgerTypeOK
    [] scene = "close" -> CloseTypeOK
    [] scene = "strict" -> StrictTypeOK
    [] OTHER -> PackagingTypeOK
=============================================================================
