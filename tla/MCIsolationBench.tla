--------------------------- MODULE MCIsolationBench ---------------------------
(* One level, one retry, and two or three invocations on one workspace.    *)
EXTENDS IsolationBench

MCLevels == <<"20">>
===============================================================================
