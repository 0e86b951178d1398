------------------------------- MODULE Launcher -------------------------------
(***************************************************************************)
(* How a command finds the kit it runs (src/tools/managed_launcher.py).    *)
(* The launcher takes no lock: it reads the record of the installed        *)
(* release, every member of that release's core and every surface of the   *)
(* project that the kit owns, one after another, while a kit change        *)
(* (KitChange) may replace any of them.  Then it starts the core's kit.py, *)
(* which resolves the installation again before it does anything, and      *)
(* stops when that is no longer the core it runs from.                     *)
(***************************************************************************)
EXTENDS KitChange

CONSTANT MaxLaunch  \* commands started

ASSUME LaunchAssumption == MaxLaunch \in Nat

VARIABLES
  launch,   \* the command under way
  launches  \* how many were started

launchVars == <<launch, launches>>

LaunchStep == {"idle", "root", "mode", "record", "core", "surfaces", "entry", "config",
               "running", "flat", "refused"}
Round      == {"launcher", "kit"}

\* Read by the launcher: rel, and bound for the process that it starts.
\* History: checked, whether the core was whole at the last look of the launcher,
\* or of kit.py; calm, whether no kit change took a step since the command began
\* in an installed project that none waits to change.
Launch == [step : LaunchStep, round : Round, rel : Release \cup {NoKit},
           bound : Release \cup {NoKit}, unread : SUBSET (Member \cup Path),
           checked : BOOLEAN, calm : BOOLEAN]

NoLaunch == [step |-> "idle", round |-> "launcher", rel |-> NoKit, bound |-> NoKit,
             unread |-> {}, checked |-> FALSE, calm |-> FALSE]

Reading(step)  == launch.step = step
Turn(step)     == launch' = [launch EXCEPT !.step = step]
LooksOn        == UNCHANGED <<vars, launches>>

\* Installed, and nothing waits for recovery.
InForce == pc = "idle" /\ Mode = "managed" /\ \A t \in Txn : ~Open(t)

\* .agent-kit exists.
Managed == \/ \E r \in Release : Exists(r)
           \/ \E p \in Inside \cup {Current} : file[p] # Absent
           \/ litter

\* What the record of release r says of a surface: an owned file is compared as a
\* whole, of a block only the part between its marks.
Surfaces     == Owned \cup Blocks
Stands(p, r) == IF p \in Owned THEN file[p] = KitFile(r) ELSE file[p].kit = r

-----------------------------------------------------------------------------

\* launch and _project_argument: the project is the one named, or the launcher's own.
Commanded(calm) == [NoLaunch EXCEPT !.step = "root", !.calm = calm]

Begin ==
  /\ Reading("idle") /\ launches < MaxLaunch
  /\ launch' = Commanded(InForce)
  /\ launches' = launches + 1
  /\ UNCHANGED vars

\* locate_project_root
Locate ==
  /\ Reading("root")
  /\ Turn(IF file[Marker] # Absent THEN "mode" ELSE "refused")
  /\ LooksOn

\* resolve_installation: a project without .agent-kit is its own kit.  A change
\* makes the directory before there is anything in it.
SelectMode ==
  /\ Reading("mode")
  /\ \/ Managed /\ Turn("record")
     \/ ~Managed /\ Turn(IF launch.round = "kit" THEN "refused" ELSE "flat")
     \/ ~Managed /\ pc # "idle" /\ Turn("refused")
  /\ LooksOn

\* _validate_current
ReadRecord ==
  /\ Reading("record")
  /\ launch' = IF Selected \in Release /\ file[Current] = KitFile(Selected)
               THEN [launch EXCEPT !.step = "core", !.rel = Selected, !.unread = Member]
               ELSE [launch EXCEPT !.step = "refused"]
  /\ LooksOn

\* What follows the last look: the launcher starts kit.py, and kit.py goes on if it
\* runs from the core that is selected.
Accepted == IF launch.round = "launcher" THEN "entry"
            ELSE IF launch.rel = launch.bound THEN "config" ELSE "refused"

\* _validate_core_tree: the names in the core's directory are those of its manifest.
CoreListed == \A m \in Member : core[launch.rel][m] # "absent"

\* Mutant: the surfaces are not compared.
ReadMemberOnly(m) ==
  /\ Reading("core") /\ m \in launch.unread
  /\ launch.unread = Member => CoreListed
  /\ core[launch.rel][m] = "good"
  /\ launch' = IF launch.unread = {m}
               THEN [launch EXCEPT !.step = Accepted, !.unread = {},
                                   !.checked = Intact(launch.rel)]
               ELSE [launch EXCEPT !.unread = @ \ {m}]
  /\ LooksOn

\* _validate_manifest: the members by their digests, and all of them together.
ReadMember(m) ==
  /\ Reading("core") /\ m \in launch.unread
  /\ launch.unread = Member => CoreListed
  /\ core[launch.rel][m] = "good"
  /\ launch' = IF launch.unread = {m}
               THEN [launch EXCEPT !.step = "surfaces", !.unread = Surfaces]
               ELSE [launch EXCEPT !.unread = @ \ {m}]
  /\ LooksOn

MemberRefused ==
  /\ Reading("core")
  /\ \/ launch.unread = Member /\ ~CoreListed
     \/ \E m \in launch.unread : core[launch.rel][m] # "good"
  /\ Turn("refused")
  /\ LooksOn

\* _validate_installed_surfaces
ReadSurface(p) ==
  /\ Reading("surfaces") /\ p \in launch.unread /\ Stands(p, launch.rel)
  /\ launch' = IF launch.unread = {p}
               THEN [launch EXCEPT !.step = Accepted, !.unread = {},
                                   !.checked = Intact(launch.rel)]
               ELSE [launch EXCEPT !.unread = @ \ {p}]
  /\ LooksOn

SurfaceRefused ==
  /\ Reading("surfaces")
  /\ \E p \in launch.unread : ~Stands(p, launch.rel)
  /\ Turn("refused")
  /\ LooksOn

\* kit.py is read once more, and given to the process on its standard input.  Which
\* member it is does not matter.
Start ==
  /\ Reading("entry")
  /\ \E m \in Member : core[launch.rel][m] # "absent"
  /\ launch' = [NoLaunch EXCEPT !.step = "root", !.round = "kit", !.bound = launch.rel,
                                !.calm = launch.calm]
  /\ LooksOn

EntryGone ==
  /\ Reading("entry")
  /\ \E m \in Member : core[launch.rel][m] = "absent"
  /\ Turn("refused")
  /\ LooksOn

\* load_active_context: the project's configuration.
ReadConfig ==
  /\ Reading("config")
  /\ Turn(IF \A p \in Config : file[p] # Absent THEN "running" ELSE "refused")
  /\ LooksOn

Return ==
  /\ launch.step \in {"running", "flat", "refused"}
  /\ launch' = NoLaunch
  /\ LooksOn

-----------------------------------------------------------------------------

LaunchInit == launch = NoLaunch /\ launches = 0

LaunchMoves ==
  \/ Begin \/ Locate \/ SelectMode \/ ReadRecord
  \/ \E m \in Member : ReadMember(m)
  \/ MemberRefused
  \/ \E p \in Surfaces : ReadSurface(p)
  \/ SurfaceRefused \/ Start \/ EntryGone \/ ReadConfig \/ Return

\* A step of a kit change, or of anybody else.
ChangeMoves ==
  /\ Next
  /\ launch' = [launch EXCEPT !.calm = FALSE]
  /\ UNCHANGED launches

LaunchNext == LaunchMoves \/ ChangeMoves
LaunchSpec == Init /\ LaunchInit /\ [][LaunchNext]_<<vars, launchVars>>

LaunchTypeOK == launch \in Launch /\ launches \in 0 .. MaxLaunch

\* While nobody edits: the launcher's looks are spread over many moments, and in
\* between changes may be applied, fail, be rolled back and applied again; yet where
\* all of them were good the core was whole at the last one, and so was it when
\* kit.py had looked again.
CheckedWhole ==
  edits = 0 /\ launch.step \in {"entry", "config", "running"} => launch.checked

\* A change and its rollback leave only what the launcher accepts: in an installed
\* project that no change touches meanwhile, no command is refused.
SettledLaunches == edits = 0 /\ launch.calm => launch.step # "refused"

LaunchSafe == CheckedWhole /\ SettledLaunches
=============================================================================
