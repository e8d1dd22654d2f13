---------------------------- MODULE MCMpscQueue -----------------------------
(* Small instances of MpscQueue for TLC; the runs' cfg files choose the      *)
(* policy, the capacity and what the environment may do.                     *)
EXTENDS MpscQueue

CONSTANTS s1, s2, a1, a2, exit

MCSenders == {s1, s2}
MCActions == {a1, a2}
MCControls == {exit}

\* The policy spares a2, so that a full queue may hold a victim, or none.
MCPredicate == {a1}

=============================================================================
