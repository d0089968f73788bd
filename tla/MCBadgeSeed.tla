------------------------------ MODULE MCBadgeSeed ------------------------------
(* Two dispatches, and the lanes of two badges of a grid of two guides by  *)
(* two providers; a lane without a label, one of another connector; a lane *)
(* that comes later.                                                       *)
EXTENDS ReleaseBadges, TLC

Lane(guide, provider, connector, name, label) ==
  [guide |-> guide, provider |-> provider, connector |-> connector, badge |-> name, label |-> label]

MCGuides == << [slugs |-> {"cache"}, connector |-> "native"],
               [slugs |-> {"pd", "pdd"}, connector |-> "none"] >>

MCLanes == { Lane("cache", "gke", "native", "b1", "l1"),
             Lane("cache", "gke", "lmcache", "b4", "l4"),
             Lane("pdd", "amd", "x", "b2", "l2"),
             Lane("pd", "amd", "y", "b5", "none"),
             Lane("other", "amd", "y", "b6", "l6") }

MCNewLanes == { Lane("pd", "gke", "x", "b3", "l3") }

MCBadge == {<<"b1", "release-1.0">>, <<"b2", "release-1.0">>}

MCOlder == << [series |-> "release-0.9", version |-> "v0.9.0", table |-> M!Table({}, "release-0.9")] >>

(* The seeders are alike.                                                  *)
MCSymmetry == Permutations(Seeder)
===============================================================================
