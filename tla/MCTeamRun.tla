------------------------------ MODULE MCTeamRun ------------------------------
EXTENDS TeamRun, TLC

CONSTANTS t1, t2, t3

OneTask == {t1}
TwoTasks == {t1, t2}
ThreeTasks == {t1, t2, t3}
SecondTask == {t2}
NoTasks == {}
=============================================================================
