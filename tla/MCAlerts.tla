------------------------------ MODULE MCAlerts ------------------------------
(* Instances of Alerts for TLC.                                            *)
EXTENDS Alerts, TLC

CONSTANTS r1, c1

OneRule == {r1}
OneChannel == {c1}

Plain(grades) == [grades |-> grades, expiring |-> FALSE, vulnerable |-> FALSE]

\* A good host, one whose endpoints disagree, and one with endpoints that have
\* no grade or a grade bothan does not know.
FewReports == {Plain(<<"A">>), Plain(<<"A", "C">>), Plain(<<"T", "", "Z">>)}

GradeRules ==
    {[cond |-> "grade_below", threshold |-> "B"], [cond |-> "grade_downgraded", threshold |-> ""]}
=============================================================================
