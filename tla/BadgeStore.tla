------------------------------ MODULE BadgeStore ------------------------------
(***************************************************************************)
(* What scripts/seed-release-badges.py promises about the badge files of   *)
(* gh-pages: seeding creates, in one step, a placeholder for every badge   *)
(* of the matrix that has no file, and touches no other file; the result   *)
(* of a lane is replaced by nothing but a later result of that lane.       *)
(***************************************************************************)
CONSTANTS Badge,    \* the badge files
          Wanted    \* those of the release branch's matrix

VARIABLE badge      \* file -> what it says

Content == {"absent", "placeholder", "result"}

(* The files with every missing badge of the matrix created.               *)
Seeded(files) ==
  [b \in Badge |-> IF b \in Wanted /\ files[b] = "absent" THEN "placeholder"
                                                          ELSE files[b]]

StoreInit == badge \in [Badge -> {"absent", "result"}]

Seed == badge' = Seeded(badge)

Report(b) == badge' = [badge EXCEPT ![b] = "result"]

StoreNext == Seed \/ \E b \in Badge : Report(b)

StoreSpec == StoreInit /\ [][StoreNext]_badge
===============================================================================
