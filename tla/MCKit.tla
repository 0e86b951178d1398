-------------------------------- MODULE MCKit --------------------------------
(***************************************************************************)
(* What the commands of the launcher do to a project and to its processes: *)
(* a change of the kit (KitChange), the launcher finding the kit while one *)
(* is under way (Launcher), the life of the board (BoardLife), and the     *)
(* tests that a core runs of itself (TestBed).  The board and the tests    *)
(* share no state with the others.  A behaviour follows one scene, and     *)
(* what it does not follow stays as it began.                              *)
(***************************************************************************)
EXTENDS MCKitChange, Launcher, MCBoard, TestBed

VARIABLE scene  \* which part the behaviour follows

kitVars == <<scene, vars, launchVars, boardVars, bedVars>>

\* A part that is not followed begins in one state.
KitInit ==
  /\ scene \in {"change", "launch", "board", "bed", "beds", "logs"}
  /\ Init /\ LaunchInit /\ BoardStart /\ TestBedInit
  /\ scene \notin {"change", "launch"} => \A r \in Release : ~Exists(r)
  /\ scene \notin {"change", "launch"} => file[Marker].kit = NoKit
  /\ scene # "board" => spare.review = 1

\* One tester is followed with all that may happen to its directory, two at one time
\* with one disturbance, and two with their logs.
Alone == \E t \in Tester : \A q \in Tester \ {t} : tester'[q] = Asleep
NoLog == \A t \in Tester : tester'[t].step # "list"
TestsNext ==
  /\ TestBedNext
  /\ CASE scene = "bed"  -> Alone /\ NoLog
       [] scene = "beds" -> NoLog /\ snag' >= MaxSnag - 1 /\ UNCHANGED coreVars
       [] OTHER -> /\ <<kit, chosen, snag>>' = <<kit, chosen, snag>> /\ tested' = tested
                   /\ \A t \in Tester : tester'[t].task = "self" /\ tester'[t].step # "look"

\* The changes that commands meet fail only of themselves: the bounds on crashes
\* and faults are for the scene that follows nothing else.
KitNext ==
  \/ scene = "change" /\ Next /\ UNCHANGED <<scene, launchVars, boardVars, bedVars>>
  \/ /\ scene = "launch" /\ LaunchNext /\ crashes' = 0 /\ faults' = 0
     /\ UNCHANGED <<scene, boardVars, bedVars>>
  \/ scene = "board" /\ BoardMoves /\ UNCHANGED <<scene, vars, launchVars, bedVars>>
  \/ /\ scene \in {"bed", "beds", "logs"} /\ TestsNext
     /\ UNCHANGED <<scene, vars, launchVars, boardVars>>

KitSpec == KitInit /\ [][KitNext]_kitVars

\* The commands of one scene have the names that transactions have in another, so that
\* TLC has few permutations to try.
KitSymmetry == Symmetry \cup CallerSymmetry
=============================================================================
