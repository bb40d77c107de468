---------------------------- MODULE MCLogsAndTasks ----------------------------
EXTENDS LogsAndTasks, TLC

Alike == Permutations(Members) \cup Permutations(Runs)
=============================================================================
