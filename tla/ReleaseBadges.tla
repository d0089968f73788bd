----------------------------- MODULE ReleaseBadges ----------------------------
(***************************************************************************)
(* A release's section of the testing matrix and the badge files its cells *)
(* point at: the seeders and the lanes of BadgeSeed, which write the files,*)
(* composed with sync-release-matrix.py (dispatched by release-matrix.yaml)*)
(* and sync-nightly-matrix.py, which write release/README.md, while main   *)
(* gains lanes.                                                            *)
(*                                                                         *)
(* A rendering and its pull request are one step.                          *)
(***************************************************************************)
EXTENDS BadgeSeed, Sequences

CONSTANTS Lanes,     \* the lanes of main that the seeders see
          NewLanes,  \* those it may gain once they have run
          Guides,    \* GUIDES of matrix_common.py
          Providers, \* PROVIDERS
          None,      \* no value
          Series,    \* the release branch seeded
          Version,   \* its tags
          Older      \* the sections of earlier releases

M == INSTANCE Matrix

(* The files the seeders want are those of the series, for the badges of   *)
(* the grid (main() of seed-release-badges.py).                            *)
ASSUME WantedAssumption ==
  Wanted = {M!BadgeFile(name, Series) : name \in M!MatrixBadges(Lanes)}

ASSUME OlderAssumption ==
  /\ Older \in Seq(M!ToSet(Older))
  /\ \A i \in DOMAIN Older : Older[i].series # Series

(* A badge belongs to one workflow, and a release branch is not named like *)
(* the nightly matrix, whose files carry no suffix.                        *)
ASSUME LanesAssumption ==
  /\ \A l, k \in Lanes \cup NewLanes : l.badge = k.badge /\ l.badge # None => l = k
  /\ \A file \in Badge : file[2] # ""

VARIABLES lanes,    \* the lanes of main
          nightly,  \* the nightly table
          sections  \* the release sections, newest first

readmeVars == <<lanes, nightly, sections>>

RInit ==
  /\ Init
  /\ lanes = Lanes
  /\ nightly = M!Table(Lanes, M!Nightly)
  /\ sections = Older

(* Seeders and lanes go on; sync-release-matrix.py is run by hand, after   *)
(* them.                                                                   *)
Seeded == \A s \in Seeder : pc[s] \in Ends

(* --check in pre-commit keeps the nightly table in step with main.        *)
AddLane ==
  /\ Seeded
  /\ \E l \in NewLanes \ lanes : lanes' = lanes \cup {l}
  /\ nightly' = M!Table(lanes', M!Nightly)
  /\ UNCHANGED <<vars, sections>>

Section(version) ==
  [series |-> Series, version |-> version, table |-> M!Table(lanes, Series)]

Render ==
  /\ Seeded
  /\ \E version \in Version : sections' = M!Splice(sections, Section(version))
  /\ UNCHANGED <<vars, lanes, nightly>>

RNext == (Next /\ UNCHANGED readmeVars) \/ AddLane \/ Render

RSpec == RInit /\ [][RNext]_<<vars, readmeVars>>

-------------------------------------------------------------------------------
(* release-e2e.yaml seeds so that no cell is "resource not found": once a  *)
(* seeder has reported success, the cells of the series' section have a    *)
(* file each, but for lanes without a badge label, which are not seeded,   *)
(* and lanes that main got after the seeders read it.  The matrix has at   *)
(* most one such section, above those of earlier releases, left as they    *)
(* were; the nightly table points at none of the release's files and at    *)
(* every lane main now has.                                                *)
NoBrokenCells ==
  LET ours == {i \in DOMAIN sections : sections[i].series = Series}
      seen == {M!BadgeFile(l.badge, Series) : l \in {k \in Lanes : k.label # None}}
  IN  /\ \/ sections = Older
         \/ sections # <<>> /\ Head(sections).series = Series /\ Tail(sections) = Older
      /\ M!Files(nightly) \cap Badge = {}
      /\ \A name \in M!MatrixBadges(lanes) : <<name, "">> \in M!Files(nightly)
      /\ (\E s \in Seeder : pc[s] = "done") =>
           \A i \in ours : \A file \in M!Files(sections[i].table) \cap seen :
             file \in Badge /\ badge[file] # "absent"
===============================================================================
