--------------------------- MODULE FailureDetector ---------------------------
(***************************************************************************)
(* What tcp_probe promises its callers: the peer is reported as down at    *)
(* every (MaxFail + 1)-th probe in a row that nothing answers, and at no   *)
(* other.                                                                  *)
(***************************************************************************)
EXTENDS Naturals

CONSTANT MaxFail    \* config.probe_max_fail

VARIABLES
    streak,     \* probes in a row without an answer
    due,        \* the streak at which the next report is due
    alive       \* what the last probe returned

dvars == <<streak, due, alive>>

DetectorInit == streak = 0 /\ due = MaxFail + 1 /\ alive = TRUE

Answered == streak' = 0 /\ due' = MaxFail + 1 /\ alive' = TRUE

Missed ==
    /\ streak' = streak + 1
    /\ alive' = (streak + 1 # due)
    /\ due' = IF streak + 1 = due THEN due + MaxFail + 1 ELSE due

DetectorSpec == DetectorInit /\ [][Answered \/ Missed]_dvars
=============================================================================
