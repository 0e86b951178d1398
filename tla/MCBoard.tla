------------------------------- MODULE MCBoard -------------------------------
(***************************************************************************)
(* The life of the board for TLC.  A behaviour is followed up to the first *)
(* slip between two processes: what the properties say holds until then.   *)
(***************************************************************************)
EXTENDS BoardLife, TLC

Give(update, click, review, downing, slips) ==
  [update |-> update, click |-> click, review |-> review, downing |-> downing, slip |-> slips]

\* An update of the source code with a run, and with what may slip; two runs;
\* a kill with a run; a run beside the review of a kit change.
Given == {Give(MaxUpdate, 1, 0, 0, MaxSlip), Give(0, MaxRetro, 0, 0, MaxSlip),
          Give(0, 1, 0, MaxDowning, 0), Give(0, 1, 1, 0, 0)}

BoardStart == BoardInit /\ spare \in Given
BoardMoves == slip = {} /\ BoardNext
MCBoardSpec == BoardStart /\ [][BoardMoves]_boardVars

CallerSymmetry == Permutations(Caller)
=============================================================================
