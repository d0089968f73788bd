---------------------------- MODULE MCIssueReminder ----------------------------
(* Two people, periods of two units and one, runs up to two units apart,   *)
(* and the time of both periods with their overruns.                       *)
EXTENDS IssueReminder, TLC

Symmetry == Permutations(Person)
===============================================================================
