------------------------------- MODULE GuideBook -------------------------------
(***************************************************************************)
(* scripts/guide.py at work on the guides of the repository: authors edit  *)
(* the files, render and set-branch go through their targets one by one    *)
(* and write what they can, and the CI Guides Check decides what merges.   *)
(* A command is killed between any two of its writes, or ended by the      *)
(* first GuideError, and leaves behind what it has written.                *)
(***************************************************************************)
EXTENDS Guide

CONSTANTS Targets,    \* the guides' directories, in the order of a command
          CiTargets,  \* those that the CI Guides Check names
          Books,      \* dir -> what may be in it: [yaml, readme, overlays, nightly]
          Redrafts,   \* dir -> the guide.yamls its authors may come up with
          Manifests,  \* the publish manifest, as it is and as it may be edited
          Refs,       \* the refs of set-branch
          MaxMoves    \* bound on the edits and commands

Dir == Range(Targets)

ASSUME GuideBookAssumption ==
  /\ Targets \in Seq(Dir) /\ IsInjective(Targets)
  /\ CiTargets \subseteq Dir
  /\ DOMAIN Books = Dir /\ DOMAIN Redrafts = Dir
  /\ \A d \in Dir : /\ \A g \in {b.yaml : b \in Books[d]} \cup Redrafts[d] : IsGuide(g)
                    /\ \A b \in Books[d] : IsReadme(b.readme)
  /\ Manifests # <<>> /\ Manifests \in Seq(Range(Manifests))
  /\ Refs \subseteq STRING
  /\ MaxMoves \in Nat

VARIABLES yaml,      \* dir -> its guide.yaml
          readme,    \* dir -> its README.md
          overlays,  \* dir -> the overlays under its modelserver/
          nightly,   \* dir -> the pairings that nightly workflows of it run
          manifest,  \* docs/well-lit-paths/guides.yaml
          cli,       \* the command that runs
          last,      \* how the last one ended, if nothing was edited since
          gate,      \* the CI Guides Check of the files as they are
          moves      \* the edits and commands so far

files == <<yaml, readme, overlays, nightly, manifest>>
vars  == <<files, cli, last, gate, moves>>

(* to: the ref of set-branch.  pinned: the guide.yaml of the first target  *)
(* left is rewritten, its README not yet.                                  *)
NoCommand == [cmd |-> "none", to |-> "", validate |-> TRUE, todo |-> <<>>, failed |-> 0, pinned |-> FALSE]
NotRun    == [cmd |-> "none", to |-> "", code |-> 0]

TypeOK ==
  /\ DOMAIN yaml = Dir /\ DOMAIN readme = Dir
  /\ \A d \in Dir : IsGuide(yaml[d]) /\ IsReadme(readme[d])
  /\ manifest \in Range(Manifests)
  /\ cli.cmd \in {"none", "render", "set-branch"}
  /\ cli.cmd = "set-branch" => cli.to \in Refs
  /\ IsSuffix(cli.todo, Targets)
  /\ cli.failed \in 0 .. Len(Targets) - Len(cli.todo)
  /\ cli.pinned => cli.cmd = "set-branch" /\ cli.todo # <<>>
  /\ last.cmd \in {"none", "render", "set-branch"}
  /\ last.code \in {0, 1, 130}
  /\ gate \in {"none", "green", "red"}
  /\ moves \in 0 .. MaxMoves

Init ==
  /\ \E book \in {b \in [Dir -> UNION Range(Books)] : \A d \in Dir : b[d] \in Books[d]} :
       /\ yaml = [d \in Dir |-> book[d].yaml]
       /\ readme = [d \in Dir |-> book[d].readme]
       /\ overlays = [d \in Dir |-> book[d].overlays]
       /\ nightly = [d \in Dir |-> book[d].nightly]
  /\ manifest = Manifests[1]
  /\ cli = NoCommand
  /\ last = NotRun
  /\ gate = "none"
  /\ moves = 0

IsIdle == cli.cmd = "none"

Move == IsIdle /\ moves < MaxMoves /\ moves' = moves + 1

-------------------------------------------------------------------------------
(* Authors, while no command runs.                                         *)

Edited == last' = NotRun /\ gate' = "none" /\ UNCHANGED cli

EditYaml(d) ==
  /\ Move
  /\ \E g \in Redrafts[d] : yaml[d] # g /\ yaml' = [yaml EXCEPT ![d] = g]
  /\ Edited
  /\ UNCHANGED <<readme, overlays, nightly, manifest>>

(* Something is typed between the markers of the last region.              *)
EditReadme(d) ==
  /\ Move
  /\ readme[d].regions # <<>>
  /\ readme' = [readme EXCEPT ![d].regions[Len(readme[d].regions)].body =
                  <<Piece("prose", FALSE, <<>>, {})>>]
  /\ Edited
  /\ UNCHANGED <<yaml, overlays, nightly, manifest>>

(* The workflow of one pairing is added or removed.                        *)
EditNightly(d) ==
  /\ Move
  /\ yaml[d].support.on
  /\ nightly' = [nightly EXCEPT ![d] = SymDiff(@, {<<"gpu", "vllm">>})]
  /\ Edited
  /\ UNCHANGED <<yaml, readme, overlays, manifest>>

EditManifest ==
  /\ Move
  /\ \E m \in Range(Manifests) \ {manifest} : manifest' = m
  /\ Edited
  /\ UNCHANGED <<yaml, readme, overlays, nightly>>

-------------------------------------------------------------------------------
(* Commands.                                                               *)

Start(cmd, to, validate) ==
  /\ Move
  /\ cli' = [cmd |-> cmd, to |-> to, validate |-> validate,
             todo |-> Targets, failed |-> 0, pinned |-> FALSE]
  /\ last' = NotRun
  /\ UNCHANGED <<files, gate>>

Exit(code) ==
  /\ last' = [cmd |-> cli.cmd, to |-> cli.to, code |-> code]
  /\ cli' = NoCommand

(* The number of failures for an exit code.                                *)
Finish_CountsFailures ==
  /\ ~IsIdle /\ cli.todo = <<>>
  /\ Exit(cli.failed)
  /\ UNCHANGED <<files, gate, moves>>

Finish ==
  /\ ~IsIdle /\ cli.todo = <<>>
  /\ Exit(IF cli.failed = 0 THEN 0 ELSE 1)
  /\ UNCHANGED <<files, gate, moves>>

(* An uncaught GuideError leaves the targets that follow as they are.      *)
Abort == Exit(1)

Kill ==
  /\ ~IsIdle
  /\ Exit(130)
  /\ UNCHANGED <<files, gate, moves>>

NextTarget(failures) ==
  /\ cli' = [cli EXCEPT !.todo = Tail(@), !.failed = @ + failures, !.pinned = FALSE]
  /\ UNCHANGED last

Checked(d) == Check(yaml[d], readme[d], overlays[d], nightly[d])

Rendered(d) == RenderMd(yaml[d], readme[d])

WriteReadme(d) ==
  /\ readme' = [readme EXCEPT ![d] = Rendered(d)]
  /\ gate' = IF Rendered(d) = readme[d] THEN gate ELSE "none"

Keep == UNCHANGED <<readme, gate>>

(* One target of render; --no-validate only asks that the YAML parses.     *)
RenderNext ==
  /\ cli.cmd = "render" /\ cli.todo # <<>>
  /\ LET d == Head(cli.todo) IN
       \/ /\ ~readme[d].there \/ (cli.validate /\ ~Checked(d))
          /\ NextTarget(1) /\ Keep
       \/ /\ readme[d].there /\ (cli.validate => Checked(d))
          /\ ~(ParseOk(yaml[d]) /\ Renders(yaml[d], readme[d]))
          /\ Abort /\ Keep
       \/ /\ readme[d].there /\ (cli.validate => Checked(d))
          /\ ParseOk(yaml[d]) /\ Renders(yaml[d], readme[d])
          /\ WriteReadme(d) /\ NextTarget(0)
  /\ UNCHANGED <<yaml, overlays, nightly, manifest, moves>>

(* set-branch writes the guide.yaml of a target before it checks it.       *)
PinNext ==
  /\ cli.cmd = "set-branch" /\ cli.todo # <<>> /\ ~cli.pinned
  /\ LET d == Head(cli.todo)
         g == SetBranch(yaml[d], cli.to)
     IN  /\ yaml' = [yaml EXCEPT ![d] = g]
         /\ gate' = IF g = yaml[d] THEN gate ELSE "none"
  /\ cli' = [cli EXCEPT !.pinned = TRUE]
  /\ UNCHANGED <<readme, overlays, nightly, manifest, last, moves>>

(* Then it loads it again, checks it and writes the README, if any.        *)
RerenderNext ==
  /\ cli.cmd = "set-branch" /\ cli.pinned
  /\ LET d == Head(cli.todo) IN
       \/ ~Checked(d) /\ NextTarget(1) /\ Keep
       \/ Checked(d) /\ ~readme[d].there /\ NextTarget(0) /\ Keep
       \/ Checked(d) /\ readme[d].there /\ ~Renders(yaml[d], readme[d]) /\ Abort /\ Keep
       \/ /\ Checked(d) /\ readme[d].there /\ Renders(yaml[d], readme[d])
          /\ WriteReadme(d) /\ NextTarget(0)
  /\ UNCHANGED <<yaml, overlays, nightly, manifest, moves>>

-------------------------------------------------------------------------------
(* The CI Guides Check: render --check of its targets, check-manifest.     *)
(* What is pushed is what a command, or its killing, has left.             *)

IsCurrent(d) == readme[d].there /\ Renders(yaml[d], readme[d]) /\ Rendered(d) = readme[d]

Published == {p.dir : p \in Range(manifest)}

Gate ==
  /\ IsIdle /\ gate = "none"
  /\ gate' = IF /\ \A d \in CiTargets : readme[d].there /\ Checked(d) /\ IsCurrent(d)
                /\ ManifestOk(manifest, {d \in Dir : readme[d].there}, Dir)
             THEN "green" ELSE "red"
  /\ UNCHANGED <<files, cli, last, moves>>

Next ==
  \/ \E d \in Dir : EditYaml(d) \/ EditReadme(d) \/ EditNightly(d)
  \/ EditManifest
  \/ \E validate \in BOOLEAN : Start("render", "", validate)
  \/ \E to \in Refs : Start("set-branch", to, TRUE)
  \/ RenderNext \/ PinNext \/ RerenderNext \/ Finish \/ Kill
  \/ Gate

Spec == Init /\ [][Next]_vars

-------------------------------------------------------------------------------
(* Properties.                                                             *)

(* Every line of BRANCH that set-branch is there for.                      *)
Pinned(g, to) ==
  /\ \A x \in Range(g.env) : x.var = "BRANCH" /\ x.form = "text" => x.default = to
  /\ \A s \in AllSteps(g) : s.branch \in {"", to}

(* A command that exits 0 has done it for every one of its targets: render *)
(* leaves READMEs that are what their guide.yaml says, and set-branch too, *)
(* with every BRANCH pinned in a guide.yaml that is valid and in its       *)
(* README.                                                                 *)
CommandKeepsPromise ==
  last.cmd # "none" /\ last.code = 0 =>
    \A d \in Dir :
      /\ last.cmd = "render" \/ readme[d].there => IsCurrent(d)
      /\ last.cmd = "set-branch" =>
           /\ ParseOk(yaml[d]) /\ CheckYaml(yaml[d])
           /\ Pinned(yaml[d], last.to)
           /\ \A r \in Range(readme[d].regions) : \A piece \in Range(r.body) :
                \A l \in Range(piece.lines) : l[1] = "run" => l[3] \in {"", last.to}

(* A line without its annotation.                                          *)
Command(l) == <<l[1], l[2], l[3]>>

(* What a README-parsing runner runs between the markers of one path.      *)
Harvest(body) ==
  FlattenSeq([i \in DOMAIN body |->
    IF body[i].skip THEN <<>>
    ELSE [l \in DOMAIN body[i].lines |-> Command(body[i].lines[l])]])

Exports(lines) ==
  FlattenSeq([i \in DOMAIN lines |-> IF lines[i][1] = "export" THEN <<lines[i]>> ELSE <<>>])

(* Two readers of one guide.yaml agree: what CI harvests from a README     *)
(* that the check found current is what emit puts into a script for CI,    *)
(* the environment in the same order, and the steps of any section whose   *)
(* filters are all variants, and on no placeholder.                        *)
HarvestAgrees ==
  gate = "green" =>
    \A d \in CiTargets : \A r \in Range(readme[d].regions) :
      LET g == yaml[d] IN
      /\ r.path.at = "env.static" =>
           Exports(Harvest(r.body)) = EmitExports(g, NoFilter)
      /\ /\ r.path.at \in DOMAIN g.steps /\ r.path.i = 0
         /\ \A s \in Range(g.steps[r.path.at]) :
              \/ s.when = NoFilter
              \/ IsVariant(g, s) /\ \A var \in DOMAIN s.when : ~IsPlaceholder(g, NoFilter, var)
         => /\ EmitOk(g, NoFilter, TRUE, r.path.at)
            /\ LET emitted == EmitSteps(g, NoFilter, TRUE, g.steps[r.path.at])
               IN  /\ Len(Harvest(r.body)) = Len(emitted)
                   /\ Range(Harvest(r.body)) = Range(emitted)

(* A placeholder stays in the page it is written for: a runner of a        *)
(* current README never exports it, no script does, whichever credentials  *)
(* are given and for CI or not, and no script has a step by a filter on    *)
(* one.  (The steps of a README do follow such filters: there, the         *)
(* placeholder counts as a default, _when_matches_defaults.)               *)
SecretsStayOut ==
  \A d \in Dir :
    LET g == yaml[d]
        secret == {x.var : x \in {x \in Range(g.env) : x.sensitive}}
    IN  /\ gate = "green" /\ d \in CiTargets =>
             \A r \in Range(readme[d].regions) : \A l \in Range(Harvest(r.body)) :
               ~(l[1] = "export" /\ l[2] \in secret)
        /\ ParseOk(g) => \A given \in SUBSET secret, ci \in BOOLEAN, section \in DOMAIN g.steps :
             LET overrides == [var \in given |-> "credential"] IN
             EmitOk(g, overrides, ci, section) =>
               /\ \A l \in Range(Emit(g, overrides, ci, section)) :
                    l[1] = "export" /\ l[2] \in secret => l[3] = "credential"
               /\ \A s \in Range(g.steps[section]) :
                    /\ <<"run", s.run, s.branch>> \in Range(Emit(g, overrides, ci, section))
                    /\ \A t \in Range(g.steps[section]) : t.run = s.run => t = s
                    => DOMAIN s.when \cap secret \subseteq given

(* What llm-d.ai may publish when the check is green: no two pages in one  *)
(* place, and of the guides the check names, READMEs whose support table   *)
(* calls validated exactly the pairings that run every night.              *)
PublishedTruth ==
  gate = "green" =>
    /\ \A i, j \in DOMAIN manifest : manifest[i].slug = manifest[j].slug => i = j
    /\ \A d \in Published \cap CiTargets : \A r \in Range(readme[d].regions) :
         r.path.at = "support" =>
           {<<c[1], c[2]>> : c \in {c \in r.body[1].cells : c[3] = "validated"}} = nightly[d]
===============================================================================
