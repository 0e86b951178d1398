------------------------------- MODULE UndoLog -------------------------------
(***************************************************************************)
(* What a journaled change promises about the files of a project.          *)
(*                                                                         *)
(* A transaction is logged, with both versions of everything it may touch, *)
(* before it touches anything.  The kit moves one file at a time, only     *)
(* between the two logged versions and only for an open transaction.  It   *)
(* calls a transaction undone only when every file is back.  The outside   *)
(* world may write anything at any time, but never acts for the kit.       *)
(***************************************************************************)
CONSTANTS Txn, Path, Content

VARIABLES
  file,   \* Path -> Content
  log,    \* Txn -> [phase, before, after]
  kit     \* what the kit is doing; no outside step changes it

vars == <<file, log, kit>>

Phase == {"none", "open", "applied", "undone", "stuck"}

Touched(t) == {p \in Path : log[t].before[p] # log[t].after[p]}
Enter(t, phase) == log' = [log EXCEPT ![t].phase = phase]

Init ==
  /\ file \in [Path -> Content]
  /\ \A t \in Txn : log[t].phase = "none"

\* The kit decides, reads, or changes something other than the files.
Work == UNCHANGED <<file, log>>

\* Any two versions of each file may be logged.
Begin(t) ==
  /\ log[t].phase = "none"
  /\ log'[t].phase = "open"
  /\ log' = [log EXCEPT ![t] = log'[t]]
  /\ UNCHANGED file

Move(t, p) ==
  /\ log[t].phase = "open"
  /\ \/ file[p] = log[t].before[p] /\ file' = [file EXCEPT ![p] = log[t].after[p]]
     \/ file[p] = log[t].after[p] /\ file' = [file EXCEPT ![p] = log[t].before[p]]
  /\ UNCHANGED log

Close(t)  == log[t].phase = "open" /\ Enter(t, "applied") /\ UNCHANGED file
Reopen(t) == log[t].phase \in {"applied", "stuck"} /\ Enter(t, "open") /\ UNCHANGED file
Stick(t)  == log[t].phase \in {"open", "applied"} /\ Enter(t, "stuck") /\ UNCHANGED file

Undo(t) ==
  /\ log[t].phase = "open"
  /\ \A p \in Touched(t) : file[p] = log[t].before[p]
  /\ Enter(t, "undone")
  /\ UNCHANGED file

Outside(p) ==
  /\ \E c \in Content : file' = [file EXCEPT ![p] = c]
  /\ UNCHANGED <<log, kit>>

Next ==
  \/ Work
  \/ \E t \in Txn : Begin(t) \/ Close(t) \/ Reopen(t) \/ Stick(t) \/ Undo(t)
  \/ \E t \in Txn, p \in Path : Move(t, p)
  \/ \E p \in Path : Outside(p)

Spec == Init /\ [][Next]_vars
=============================================================================
