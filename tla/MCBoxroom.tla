----------------------------- MODULE MCBoxroom ------------------------------
(* Values of the constants of Boxroom for TLC.                              *)
EXTENDS Boxroom

CONSTANTS m1, m2, n1

MCSecond == [p \in 1..MaxPods |-> p]

\* The earlier backup is done and the restore is asked for it: a restore that
\* finds no archive leaves the cluster alone.
MCInit == BoxroomInit /\ step[m1] = "done" /\ slot[m2] = slot[m1]
MCSpec == MCInit /\ [][BoxroomNext]_boxroomVars /\ Fairness
=============================================================================
