-------------------------------- MODULE Matrix --------------------------------
(***************************************************************************)
(* scripts/matrix_common.py: the guide x provider grid that the nightly    *)
(* and the release matrices render, and that the badges are seeded for.    *)
(*                                                                         *)
(* A lane is a nightly-e2e-* workflow of main, as its file name and its    *)
(* text are parsed: [guide, provider, connector, badge, label], the last   *)
(* two None if its text has none.                                          *)
(***************************************************************************)
EXTENDS Naturals, SequencesExt

CONSTANTS Guides,     \* GUIDES: sequence of [slugs, connector]
          Providers,  \* PROVIDERS
          None        \* no value; as a connector, any

Nightly == "nightly"

(* badge_file_name: nightly carries no suffix.                             *)
BadgeFile(badgeName, matrixType) ==
  <<badgeName, IF matrixType \in {"", Nightly} THEN "" ELSE matrixType>>

(* A lane with neither a provider's name in its file's nor a badge has no  *)
(* cell.                                                                   *)
Discovered(lanes) == {l \in lanes : l.provider \in Providers /\ l.badge # None}

(* iter_provider_entries.                                                  *)
Entries(lanes, guide, provider) ==
  {l \in Discovered(lanes) : /\ l.guide \in guide.slugs
                             /\ l.provider = provider
                             /\ guide.connector \in {None, l.connector}}

(* matrix_badge_labels: the badges the tables point at.                    *)
MatrixBadges(lanes) ==
  LET rendered == UNION {Entries(lanes, g, p) : g \in ToSet(Guides), p \in Providers}
  IN  {l.badge : l \in {k \in rendered : k.label # None}}

(* generate_table, generate_section: the badge files of every cell.        *)
Table(lanes, matrixType) ==
  [cell \in (DOMAIN Guides) \X Providers |->
     {BadgeFile(l.badge, matrixType) : l \in Entries(lanes, Guides[cell[1]], cell[2])}]

Files(table) == UNION {table[cell] : cell \in DOMAIN table}

-------------------------------------------------------------------------------
(* The sections of release/README.md, newest first: [series, version,      *)
(* table].                                                                 *)

(* A section is put at the top whether or not the series has one.          *)
Splice_OnTop(sections, section) == <<section>> \o sections

(* splice_section: in the place of the series' section, or at the top.     *)
Splice(sections, section) ==
  LET at == SelectInSeq(sections, LAMBDA s : s.series = section.series)
  IN  IF at # 0 THEN [sections EXCEPT ![at] = section] ELSE <<section>> \o sections
===============================================================================
