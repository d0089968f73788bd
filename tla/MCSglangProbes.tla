--------------------------- MODULE MCSglangProbes ---------------------------
(* One replica is enough to see the probe pass too early.                  *)
EXTENDS SglangProbes
=============================================================================
