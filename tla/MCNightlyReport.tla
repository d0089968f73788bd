---------------------------- MODULE MCNightlyReport ---------------------------
EXTENDS NightlyReport

(* One nightly routed to the fallback channel, one skipped.                *)
MCMains ==
  {[ name     |-> [f \in File |-> IF f = "f1" THEN "n1" ELSE "n2"],
     routes   |-> [c \in Channel |-> IF c = Fallback THEN {"f1"} ELSE {}],
     skip     |-> {"f2"},
     reasoned |-> {"f2"},
     trigger  |-> [n \in Name |-> IF n = "n1" THEN 1 ELSE 0] ]}
===============================================================================
