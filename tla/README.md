# A verification project for llm-d/llm-d

The repository deploys other people's servers: vLLM and SGLang behind a router
on Kubernetes. Its own logic is in the code that starts and snapshots those
servers, in the automation that runs on GitHub, and in the benchmarks and
checks of the nightly runs. This directory holds TLA+ models of the parts of
that code that keep state, race with others or survive failures, the TLC
configurations that check them, and proofs of the most important properties
for every value of the constants.

Paths are relative to `src/`, the repository.

## 1. Inventory

| Part | State it keeps | Operations | What makes it hard | What makes it correct |
|---|---|---|---|---|
| Snapshot provider, `docker/scripts/snapshot/providers.py` | the open control file; files under `MODEL_CACHE_DIR` | `is_available`, `clear_cache`, `trigger` | the process is frozen in the middle of `os.read` and restored copies continue there; permission may change between check and open; every system call may fail | weight files are deleted only by a trigger, which reports a checkpoint only with all of them gone; the read never blocks for ever; lean checkpoints |
| vLLM launcher and wrapper, `docker/scripts/snapshot/vllm/` | the engine's memory, the lifespan context | hook `build_app`; sleep, trigger, wake, yield | failure after the memory is released; restored copies | what serves has its memory |
| SGLang launcher and wrapper, `docker/scripts/snapshot/sglang/` | the server status, `held_status`, `prev_status` | refuse or hook; warm up and hold; callback | the status is held twice and saved once; SGLang reports Up by itself in between; some arguments lose the weights | /health is 200 only with the memory there; the status is given back as it was |
| Probes of the SGLang guide, `guides/pod-snapshot/modelserver/gpu/sglang/gke/patch-sglang.yaml` | the kubelet's view of a container | startupProbe, livenessProbe, readinessProbe | a probe between two status changes | the liveness probe starts after the snapshot |
| PR needs-rebase automation, `.github/scripts/pr-needs-rebase.cjs` and its workflow | labels and comments of a pull request | scan of open PRs, check of one PR, clearing re-approve | three jobs on one PR, each acting on a snapshot it read once; two layers of concurrency groups; cancelled runs | labels match conflicts; one comment per conflict; approvers are asked again |
| Release badge seeding, `scripts/seed-release-badges.py` | commits and files of gh-pages | read head and files, commit, update the branch, retry | other dispatches and the lanes' own pushes; rejected updates; lost answers | create-if-absent; the full set |
| Assigned-issue reminder, `scripts/assigned-issue-reminder.py` | assignees, labels, reminders of an issue | read, decide, remind, unassign | people act between the read and the calls; a call fails between two others; weeks of history | one reminder per silence; nobody removed unwarned; quiet issues are freed in time |
| Async multi-tenant isolation benchmark, `.github/scripts/e2e/async-multitenant/` | workspace, RESULTS_DIR, the sampler's samples | run in parts, drain, retry levels, merge, judge, save; `--analyze-only` | treatments that do not come back; directories shared by parts, retries and invocations; a sampler thread; exceptions after 40 minutes | a level is judged on one run's members; nothing stale is judged |
| Nightly verification helpers, `.github/scripts/nightly-e2e-verification/` | none | find results, aggregate metrics | file layout | (arithmetic) |
| Matrix rendering, `scripts/sync-*-matrix.py`, `scripts/matrix_common.py` | the sections of `release/README.md` | discover workflows, lay out the grid, render a table, splice a section | its lanes are those of main on the day, the badge files those the seeders wrote another day; earlier releases share the file | no cell points at a missing file; earlier sections stay as they are |
| Guide publisher, `scripts/guide.py` and `ci-guides-check.yaml` | `guide.yaml` and `README.md` of every guide, the publish manifest | `check`, `render`, `emit`, `set-branch`, `check-manifest` | batches that end in the middle; two readers of one file (README fences and `emit`); a support table that depends on other files; placeholders of credentials | exit 0 means done; both readers agree; what is published is true; no placeholder is used as a value |
| Nightly deploy and verdict of pod-snapshot, `guides/pod-snapshot/scripts/` and `e2e-validate-pod-snapshot.sh` | `pods.json`, logs, events and PodSnapshots read at different times | deploy, wait, capture, parse, compare with thresholds | restarts, evictions, rotated logs and expired events between the reads | a pass has seen a cold start and a restore from its snapshot |
| Slack notifier and channel sync, `.github/scripts/notify-slack-nightly.py`, `scripts/sync-slack-channels.py` | routing, trigger list, the run and its attempts | classify the jobs, resolve the channel, post; `--check`, `--fix` | the run and its jobs are read after the event, in two calls, and may be of another attempt; the routing and the trigger list change by pull requests; a badge job that fails is no failure of the guide | a failure is heard where it is routed; owners are paged only for their guide |
| Lints, `prepare_for_release.sh` | none | text in, text out | | |
| e2e scripts, verifiers, deploy scripts, installers, traffic generators | the cluster's | sequences of kubectl, helm, curl | waits and time-outs | |
| Prow-style workflows and slash commands | labels of pull requests | mostly reusable workflows of `llm-d-infra` | the code is elsewhere | |
| Guides, Helm values, kustomize, Dockerfiles | configuration | none | | |

How they interact. The two wrappers call the provider, and meet the kubelet and
GKE (checkpoint, restore, probes) through the control file, the bound port and
the server status. The GitHub scripts meet people, GitHub's own schedulers and
each other only through the objects they read and write: labels, branches,
issues. The benchmark's invocations meet through two directories. The seeders and
the matrix meet through the badge files on gh-pages and the lanes of main; the
guide publisher, its authors and the CI check through the files of the guides; a
nightly's verdict reaches people through a workflow run that the notifier reads
later.

## 2. The modules

| Module | Models | Composes |
|---|---|---|
| `ReadyGate` | what a snapshotting server promises to the router (abstract) | |
| `SnapshotProvider` | `providers.py`, call by call, and gVisor around it | |
| `VllmSnapshot` | vLLM launcher and wrapper | EXTENDS `SnapshotProvider`; implements `ReadyGate` |
| `SglangSnapshot` | SGLang launcher and wrapper | EXTENDS `SnapshotProvider`; implements `ReadyGate` |
| `SglangProbes` | the probes of the guide | EXTENDS `SglangSnapshot` |
| `NeedsRebase` | `pr-needs-rebase.cjs` and its workflow | |
| `BadgeStore` | create-if-absent in one step (abstract) | |
| `BadgeSeed` | `seed-release-badges.py` on a git server, with lanes | implements `BadgeStore` |
| `IssueReminder` | `assigned-issue-reminder.py` and its workflow | |
| `IsolationBench` | invocations of the benchmark on shared directories | |
| `Matrix` | `matrix_common.py`: grid, badge files, splicing (functions) | |
| `ReleaseBadges` | rendering of `release/README.md` while main gains lanes | EXTENDS `BadgeSeed`, INSTANCE `Matrix` |
| `Guide` | `guide.py` as functions of a guide.yaml and a README | |
| `GuideBook` | authors, `render`, `set-branch` and the CI Guides Check on the files | EXTENDS `Guide` |
| `PodTimings` | `snapshot_timings.py`, `check_thresholds.py` (functions) | |
| `SlackRouting` | `sync-slack-channels.py`, `notify-slack-nightly.py` (functions) | |
| `NightlyReport` | one pod-snapshot nightly, from the cluster to Slack | EXTENDS `PodTimings`, `SlackRouting` |
| `VllmSnapshot_proofs`, `SglangSnapshot_proofs`, `ReleaseBadges_proofs`, `NeedsRebase_proofs`, `IssueReminder_proofs`, `IsolationBench_proofs`, `GuideBook_proofs`, `NightlyReport_proofs` | theorems | each EXTENDS the module it is named after |

Each `MC` module is what TLC is run on. Definitions named `X_Something` beside
a definition `X` are plausible bugs: replacing `X` by one of them has to break a
property, which shows that the property depends on that piece of code.

### Snapshots

One process of the specification is a pod. `pc` is where the start-up of its
server stands and `trig` where `trigger()` stands: `check`, `clear`, `open`,
`write`, `read` are the state before that call, `skipped`, `ok`, `error` the way
it ended. `request` is gVisor's side. A checkpoint (`images`) holds what a
restored process finds again: the wrapper's variables and the disk. `RestoreFrom`
starts a pod as such a copy, in the middle of the read, so everything after the
read runs in processes that never executed what came before. `Kill` may end a
pod at any point, `ControlFileChanges` takes the permission away or gives it back
until the file is open. Failures of every call are actions of their own.

For vLLM, `engine` distinguishes an engine without `sleep`, one whose `sleep` does
nothing (no `--enable-sleep-mode`) and one that frees the memory; `patched` whether
the hook was installed and a provider configured. Readiness is the bound port,
that is `Yield`. For SGLang it is `server_status`, and the status SGLang last
set by itself is kept in `warmedUp` to state that it is given back. A memory
request that fails or whose answer is lost ends the process, as
`kill_process_tree` does.

### The needs-rebase automation

One pull request. `pc` is the next API call of each job's run, `seen` the labels,
mergeability and head it read. `pr.mergeable` is GitHub's cached view, `unknown`
from a push until `ComputeMergeable`; a check waits for it, or gives up
(`GiveUp`). Workflow-level concurrency (per event and action) and job-level
concurrency (per job) are both modelled: `CancelledBy` and `ClearOn` are the
first, `Trigger` the second. The scan's group does not cancel: one waits
(`pending`). Cancellation takes effect between two calls. What
`collectApprovalState` concludes is kept as `approval`: was anybody's approval
standing, does anybody request changes, and for which head is there an approving
review.

History variables (`disturbed`, `raced`, `owed`, `reapproved`, `comments`) are
there for the properties only.

### Badge seeding

Commits know their ancestors, since git's rule on unforced updates is about
ancestry and the whole of create-if-absent hangs on it. A seeder's
`existing_badges()` is two reads (`ReadRef`, `ReadTree`), the commit is an object
nothing refers to, and `Patch` moves the branch if it may. `PatchUnanswered` is
the update whose answer is lost. Lanes check out, commit and push without a
retry, like `reusable-update-badge.yaml` of llm-d-infra, which is external.

### The release matrix

A lane is what its workflow's file name and text are parsed to, a table a function
from guide and provider to the badge files of that cell, and `release/README.md` a
nightly table and a sequence of sections. `Render` is `sync-release-matrix.py` run
by hand after the seeders, for the lanes main then has (`AddLane`), and replaces
the section of its series or puts a new one on top (`Splice`). Rendering and the
pull request that merges it are one step.

### The guide publisher

`Guide` translates `guide.py` as operators: what makes a guide.yaml and a README
valid, what `render` writes between markers, what `emit` puts into a script, what
`set-branch` rewrites. A line is a tuple (an export, a source, a step's text), a
fence a sequence of lines, and text appears only where behaviour depends on it: a
step with a line of three backticks (`Backticks`), the ref a step exports as
BRANCH, the placeholder of a sensitive variable.

`GuideBook` is the program at work. A command is `Start`, then one step per target
(`RenderNext`; `PinNext` and `RerenderNext`, since `set-branch` writes guide.yaml
before it checks it), then `Finish`. It may be killed between any two writes, and a
GuideError nobody catches ends the batch (`Abort`). Authors edit any file while no
command runs. `gate` is the result of the CI check for the files as they are; any
change takes it back to "none". The harvest of a README by a CI runner is
`Harvest`, a property's definition: the runner is not in this repository.

### A nightly and its report

`PodTimings` holds the pure part: which log lines count, how boundaries are clamped,
every check of the verdict. In `NightlyReport` pods are created, scheduled, start
cold or restored, warm up, checkpoint, become Ready, and one fault of the cluster
(`MaxFaults`) may crash a container, make Ready flap, rotate a log, evict a pod or
fail a checkpoint or restore. `Capture` takes pods.json, `Judge` reads everything
else later. The verdict becomes the e2e job of a run; `Complete`, `Rerun` and
`StartupFails` are GitHub's side of it, `Merge` a pull request that edits the
routing and passes `sync-slack-channels.py --check`. A completion that is in the
trigger list puts a notifier into the run's concurrency group (`Completed`, `Queue`),
and so does a manual dispatch (`Replay`); the group holds the one in progress and one
that waits. A notifier has the routing of the commit it was started on, and reads the
run (`FetchRun`), then its jobs (`FetchJobs`), each as it is by then; `NotifyFails`
ends it before either or before the post. `due` is a history variable: the failure
that has to be heard, and in which channel.

### The reminder

One issue, time in units that GitHub's timestamps tell apart; a unit may pass between
any two calls. `ReadIssues` and `ReadPulls` are the two paginated reads, the second of
which takes the `now` of the run; `Decide` is `decide()`, and every API call is an
action. People comment, assign, unassign, label and open pull requests between any
two. `RunFails` ends a run before any call. `last` and `missed` are history variables:
they say whether runs have kept to the interval `Every`, a constant, which for a daily
cron entry is a day, GitHub's delays and the length of a run.

### The benchmark

A treatment's records are the run that wrote them, its invocation and whether
they hold enough requests. `RunPart` is one `llmdbenchmark` run, of which any
treatments may fail to come back; `Collected` is `collect_results(exclude)`.
`GroupsDone` is the end of `run_groups()` and, in a retry, `merge_rerun()`.
`StartAnalyze` is `--analyze-only`. `Breaks` is the `except Exception` of `main()`,
which writes what `main()` has by then, and `WriteFails` a failing copy in
`write_outputs()`. Latencies, rates and tolerances are left open: any verdict is
possible when the treatments are there and usable.

## 3. What the runs check

| Run | Bounds | Shows |
|---|---|---|
| `vllm_snapshot` | 2 pods, cache directory set or not | `ServingResident`, `ImagesLean`, `PurgeAccountedFor`, `StartSettles` (liveness), `KeepsReadyGate` (refinement) |
| `sglang_snapshot` | 2 pods, all arguments, with and without warmup | `HealthyResident`, `StatusGivenBack`, `ImagesHeld`, `StartSettles`, `KeepsReadyGate` (refinement) |
| `needs_rebase` | 4 events, own branch or fork, failing calls (667,421 states) | `RestIsRight`, `AsksWhenAlone`, `CommentedOnce` |
| `badge_seed` | 2 seeders, 2 lanes, 2 attempts, 5 commits; 2 badges, 2x2 grid, a lane that comes later, an earlier section (971,468 states) | `DoneMeansComplete`, `CreatedOnce`, `NoBrokenCells`, `KeepsStore` (refinement) |
| `guide_book` | 2 guides, 2 edits or commands, some 20 forms of a guide.yaml or README (46,309 states) | `CommandKeepsPromise`, `HarvestAgrees`, `SecretsStayOut`, `PublishedTruth` |
| `nightly_report` | clock to 5, 3 pods, 1 fault, 2 merges or replays, 2 attempts, 2 workflows, names and channels (1,640,983 states) | `VerdictIsTrue`, `FailureHeard`, `GuideBlamedRightly` |
| `issue_reminder` | 2 people, periods of 2 units and 1, runs up to 2 apart, clock to 7 (2,925,550 states) | `WarnedBeforeRemoval`, `OneReminder`, `HelpWantedFirst`, `FreedInTime` |
| `isolation_bench` | 1 level, 1 retry, 2 invocations (2,407,931 states) | `LevelsTogether`, `PassesOnItsOwn`, `RetryLosesNothing` |

Each of them checks its module's `TypeOK` too. Four more runs are expected to find
a violation, see section 5.

Why the bounds are enough. Pods share nothing but the checkpoints, so one that
writes and one that restores show every interaction; a second generation of
checkpoints occurs as well, since the writer may be killed and restored. Four
events let a conflict arise, be reported, be resolved by a push and be
disturbed once more, which is what the counterexamples of section 5 need. Two
seeders and two lanes with two attempts exhaust the ways an update can lose its
race; five commits are the first, one of each seeder's two attempts and room for
two lanes. The reminder's clock ends at seven, where the deadline
of an issue that nothing happens to falls, and that is more than two rounds of both
periods without their overruns. Two invocations let one
find what the other left; one level is enough because `merge_rerun()` and
`rerun_plan()` treat levels independently, and async-only is a second part
beside it.

Two moves are enough for the guides: an edit and a command, or a command that is
killed and the one that follows; guides share nothing but the order of a batch and
the manifest, so a guide that renders, one that is refused and one that ends the
batch show the ways they depend on each other. What a guide.yaml may hold is chosen
so that each check of `guide.py` refuses one of the drafts and each way of rendering
a step (plain, skipped, variant of the default or not, grouped or on its own)
occurs. A pod-snapshot nightly needs two pods, the third is one that replaces an
evicted pod; in five ticks a cold start of two, a checkpoint and a restore have
room, with the thresholds (5, 3, 2, 1) close enough that each is missed in some
behaviour; one fault already separates the times at which the pieces of evidence
are read. Two merges let the routing change before and after the run's end, and two
attempts let the notifier read another one than the event was about, in both of its
reads or only in the second.

Deadlock is checked for both snapshot modules, where a pod can always start
again, and switched off where the system may rest: a pull request nobody
touches, seeders that are done, guides after `MaxMoves`, a nightly that was
reported, an issue past `MaxTime`, invocations past `MaxInvocations`.

Fairness is assumed in the snapshot modules only, and there of two things: the
server process keeps executing (`WF` of `ServerStep`), and gVisor answers a
checkpoint request (`WF` of `GvisorStep`), which its control file promises: the
read "blocks until checkpoint/restore completes". Nothing is assumed of the
kubelet, the cluster or whoever changes the control file. `StartSettles` needs
no more, because a pod that is ended has settled too.

What each property is about is stated above its definition in the module.

## 4. What is proved

`VllmSnapshot_proofs`, for any set of pods and any deployment:

* `TypeCorrect`, `ReadyMeansResident` (`ServingResident`), `CheckpointsLean`
  (`ImagesLean`), `PurgesAreAccountedFor` (`PurgeAccountedFor`);
* `ImplementsReadyGate`: `Spec => KeepsReadyGate`.

`ServingResident` is not inductive: a pod in `wake` must have come from a state
with the memory as `sleep` left it, and a restored pod has not come from any. The
inductive invariant `IInv` therefore says where in the start-up the memory is in
which state (`MemoryFollowsStartUp`), that the trigger runs, and the control file
is open, only while the wrapper waits for it (`TriggerOwnsControl`), in which order
the files go, and that all are gone when it reports success (`PurgeComesFirst`),
and, of every checkpoint, what the pod it came from satisfied in the read
(`ImagesAsleep`): restoring is then a step like the others. The refinement proof
takes each action under `IInv` to one step of `ReadyGate` or to none.

`ReleaseBadges_proofs`, its first half about `BadgeSeed` alone, for any sets of
seeders, badges and wanted badges, any number of attempts and commits:

* `TypeCorrect`, `Complete` (`DoneMeansComplete`), `SeededOnce` (`CreatedOnce`);
* `ImplementsStore`: `Spec => KeepsStore`, that is, create-if-absent.

The argument: an unforced update goes through only if the branch is at an
ancestor of the new commit; the head the seeder read is one the branch has been
at (`Bases`), the branch only moves to descendants, and ancestors are strictly
older (`Ancestry`); hence the branch is still at the head that was read
(`FastForwardIsCompareAndSwap`), the list of missing badges is exact
(`Lists`, `Proposals`), and files are never lost on the way (`FilesStay`).

Its second half, for any grid, lanes and earlier sections:
`SeedingCarriesOver` takes the invariant of `BadgeSeed` and its refinement over to
the composition, every step of which is a step of the seeding or leaves it alone;
`CellsAreThere` is `NoBrokenCells`. Its core: the files of a table rendered for a
series are files the seeders wanted, as far as they saw the lane, and those exist
once a seeder is done. `LastSplicingCounts` is about the operator, for sections of
any kind: a section rendered again gives the file that would be there had only the
last one been rendered.

`SglangSnapshot_proofs`, for any pods and arguments: `HealthyMeansResident`,
`StatusIsGivenBack`, `WeightsAreKept`, `CheckpointsHeld`, and `ImplementsReadyGate`,
after the pattern of the vLLM proofs. Besides where the memory is, the invariant says
which of the hook and the callback has saved the status, that what it saved is what
SGLang itself had set, and that every checkpoint carries the same. `ReadyGate`'s
"serving" is a pod past its start-up; that nothing healthy is without memory before
is `HealthyResident`. Under the probes of `SglangProbes`, `NoLivenessInWarmup` is what
is left of the comment that `sglang_probes` refutes: the livenessProbe starts after
the warmup, if not after the snapshot; and `ProbesKeepReadyGate`: the pods it kills
in their cycle break nothing that routers rely on.

`NeedsRebase_proofs`, for any number of events, with or without forks and failing
calls: `OneComment` (`CommentedOnce`), `ChecksRepair` (`RestIsRight`),
`AsksAndClears` (`AsksWhenAlone`). The invariant has five parts: each job makes only
its own calls (`OwnCalls`); while nothing has disturbed it, a run's snapshot is the
state of the pull request (`ViewIsCurrent`); the number of comments follows from
label and place in the run (`CommentsFollow`); an undisturbed check is on its way
to the right labels (`Undisturbed`); and as long as runs take turns, what is owed
to an approver is owed by exactly one run (`Alone`).

`IssueReminder_proofs`, for any people, periods, interval between runs and bound on
the time: all five properties of the run. The invariant says that what a run has read
is what there is, as long as nobody touched the issue since, and never ahead of it
(`SnapIsFresh`), that the run does what it decided on (`ActsOnDecision`), that the only
reminder since the last activity stands (`StandingCounts`) and names everybody still
assigned (`EverybodyMentioned`), and that the `now` of the last successful run lies
within the period it found not over (`PeriodsHold`). `FreedInTime`, "eventually" to a
reader, is a safety property here: an issue is free at RemindAfter + UnassignAfter +
2 * Every after its last activity. One `Every` is not enough, as TLC shows: a run whose
`now` is just short of 30 days does nothing, the next one posts the reminder a day
later, and the 14 days, which count from the post, may end just after the `now` of a
run too.

`IsolationBench_proofs`, for any distinct levels, retries and invocations:
`MembersRanTogether` (`LevelsTogether`), `NoOldResultsPass` (`PassesOnItsOwn`),
`RetriesOnlyAdd` (`RetryLosesNothing`). The invariant: the newest directory of the
workspace is of one run (`NewestOfOneRun`), what `run_groups()` has found is one run
per part (`BackPartByPart`), and what an invocation holds is its own, or is a single
older part, on which no level can be judged (`OwnOrOnePart`).

`GuideBook_proofs`, for guides of any length, READMEs and manifests: all five
properties of the run.

* `GreenMeansTrue` (`PublishedTruth`): a green check is about the files as they are,
  since a README that is written as it was is the only write that leaves it green
  (`Invariant`), and a support table that would be rendered again as it is has a cell
  for every pair of the matrix.
* `ExitZeroIsDone` (`CommandKeepsPromise`) and `TypeCorrect`: every target behind a
  command without failures is current, because rendering twice is rendering once
  (`RenderTwice`), and pinned, in guide.yaml and inside every fence (`PInv`). The two
  are inductive together: the promise needs the shape of the files, and that a
  command names no target twice; the shape needs what the command has left.
* `RunnersAgree` (`HarvestAgrees`): the harvest of a rendered page is the commands of
  its script. The exports agree line by line (`EnvAgrees`), the steps as often and as
  a set (`StepsHarvest`), since a group of variants is printed filter by filter.
* `PlaceholdersStay` (`SecretsStayOut`): what is exported is known declaration by
  declaration (`RenderedPage`, `ExportsAre`), what is run step by step (`StepsAre`).

Fences and scripts are folds over sequences of any length. Their lemmas are proved by
induction over a *set* of sequences that have the property (`SequenceInduction`, from
the well-foundedness of <), which no operator parameter is needed for. Everything is
then said in terms of one operation, `Bind(h, s)`, which replaces each element of `s`
by the sequence `h` has for it: it distributes over concatenation and composes
(`BindBind`), consecutive elements of one key may be gathered first (`RunsBind`), and
gathering all elements of a key, the first key first, changes only the order
(`KeyByKey`).

`NightlyReport_proofs`, for any times and thresholds, any routing that passed its
check, and any number of pods, merges, replays and attempts:

* `TypeCorrect`, and `PassIsTrue` (`VerdictIsTrue`): a verdict "pass" has the cold start
  of an older pod and the restore of a younger one from another pod's snapshot, each
  within its threshold. The invariant follows the evidence: what a pod's log and its
  PodSnapshot say is what happened to it, as far as they still exist (`ClusterInv`).
  That the snapshot is the older pod's own holds if that is the first pod there was
  and one thing at most went wrong, and that one fault has to be counted: once there
  are to be two pods, the first one's snapshot is Ready, and any other is of a cold
  start that was the fault (`FirstSnapshot`).
* `FailureIsHeard` (`FailureHeard`), `BlamedRightly` (`GuideBlamedRightly`): while a
  failure is due in some channel, either a notifier that will post it there is in the
  group, or it has been posted; a notifier between its two reads holds a run as it was,
  and if the run has been re-run since, the jobs that are still to run say nothing, so
  that the post is of what was read (`SlackInv`).

The proof found `VerdictIsTrue` false as it was first stated, with the snapshot always
the older pod's own. Given time enough (TLC: `MaxTime` 8), one fault refutes it: the
first pod is evicted before its snapshot is uploaded, the second starts cold, the
first one's upload ends, and the third is restored from it. The program never asks
whose snapshot it was, so the property was corrected, not the model.

The assumptions are those the modules state about their constants, which TLC
evaluates in every run. Most say that a bound is a number. Those that carry an
argument: `LanesAssumption` (a badge belongs to one workflow, a release branch has a
name), `WantedAssumption` (the seeders want the files of the grid), `OlderAssumption`
(the series has no section yet), `IsolationBenchAssumption` (levels are distinct),
`GuideBookAssumption` (a command names a target once, files have the shape a parser
gives them, refs are strings, no section of steps is called like a marker of another
kind),
`MainsAssumption` (the routing in force had passed its check), `LoadAssumption` (the
threshold of a restore is below the time a cold start takes to load) and
`FiniteAssumption` (workflow files and channels are finite in number).

Model-checked only: liveness (`StartSettles`), which needs fairness and `ENABLED`. Of
the functions of `Matrix`, `PodTimings` and `SlackRouting` only what these theorems
need is proved.

## 5. Disagreements with the documentation

Each is a run that violates one property, a sentence of the repository.

* `sglang_probes` / `StartupProbeHolds`: between SGLang's own Up at the end of its
  warmup and the hook's Starting (`sglang/wrapper.py:147-154`) a startupProbe can
  pass, and the livenessProbe then runs during the checkpoint, which the comment
  in `patch-sglang.yaml:98-100` excludes.
* `asks_for_reapproval` / `AsksForReApproval`: needs-rebase is removed before the
  approvals are collected. A run cancelled in between, or a scan that removes the
  label first, leaves an approved and rebased pull request whose approvers are
  never asked (`pr-needs-rebase.cjs:297-310`, `456-459`; header of the workflow).
* `clears_reapproval` / `ClearsReApproval`: an unrelated comment or label cancels
  the run that was to remove re-approve (`pr-needs-rebase.yaml:28-30`). The run
  takes a branch of the repository; for a head in a fork the sentence fails without
  any race, since an approving review of it starts no job at all
  (`pr-needs-rebase.yaml:51`): re-approve stays until an approval by comment or label.
* `isolation_bench_passed` / `PassedTogether`: RESULTS_DIR keeps treatments of an
  earlier invocation, and `--analyze-only` passes a level put together from two
  runs (`run.py:679-685`; README of the benchmark, lines 82-84).

Met while modelling, without a run of their own:

* An lgtm given after the push, while its run is queued or polls the mergeability,
  is removed, although the comment at `pr-needs-rebase.cjs:304-308` says it
  predates the push.
* `render` of a step whose text has a line of three backticks exits 0, and the next
  check refuses the fence it wrote (`guide.py:1106`). A marker that resolves to
  something that is no step passes `check`, then raises in `render` and ends the
  batch. `set-branch` does not pin a BRANCH written as a map, and exits 0; `Pinned`
  is about the form it is written for. Whether a filter matches the defaults is
  asked of a sensitive variable's placeholder too (`_when_matches_defaults`).
* A variant group gathers equal filters, so a README may have the steps of a section
  in another order than `emit`; `HarvestAgrees` compares their number and their set.
* A filter on a placeholder ends `emit` with a GuideError, but not if a variable before
  it in the filter rules the step out (`_step_included`). Filters are sets in the model:
  `EmitOk` is whether a script may be emitted, in some order, and `HarvestAgrees` is
  about sections without a filter on a placeholder.
* The paths of `ci-guides-check.yaml:59` do not reach the guides below
  `workload-autoscaling/`, and a guide whose name is a prefix of another's also
  matches the other's workflows. `CiTargets` is a constant for that reason.
* With a failed badge job, `notify-slack-nightly.py` does not filter out cancelled
  and skipped test jobs as the comment at line 308 has it.
* A log rotated so that it starts at the checkpoint line makes a cold start look
  restored; only the warm-start threshold, below any loading time, keeps the verdict
  right (`LoadAssumption`).
* The notifier reads a run, then its jobs (`notify-slack-nightly.py:392-393`). If the
  run is re-run in between, it has the conclusion of one attempt and the jobs of the
  next, which have none yet: `nightly_outcome` then falls through to the conclusion
  (148-149) and pages the owners of a guide when only its badge had failed, which
  "should not page guide owners" (143-144). `GuideBlamedRightly` names this as its one
  exception.
* A failure that is re-run before its notifier has read it is never posted: the
  notifier finds a run in progress. `Rerun` takes it out of `due`, unless a notifier
  has the failed run already and will post it where it is due.
* A replay while one notifier of the run is in progress and one waits cancels the one
  that waits, without a word (`Replay`); one that fails posts nothing (`NotifyFails`).
  A nightly that is renamed while it runs may never be reported; `Owed` leaves that
  out.
* A purge that fails half way, or a control file that cannot be opened after it
  (`providers.py:59-60`, `71-78`), leaves a cache without some or all of its weights
  and no checkpoint asked for. The server goes on without them; `PurgeAccountedFor`
  says that files are missing after such an error only.
* A reminder counts from the second it was posted, and a comment of that very second
  counts as before it (`assigned-issue-reminder.py:166`): `WarnedBeforeRemoval` leaves
  it out (`late`).
* A lane without a badge label is in the grid but is never seeded, one added to main
  after the seeding has no file until it reports, and one whose name is not in
  `GUIDES` is left out of the matrix without a word. `NoBrokenCells` is about the
  lanes the seeders saw.

The passing runs say how far the promises do hold: `AsksWhenAlone` when nothing
happens during a run, and for every approval but the review of a head in a fork
(`ByForksReview`), `LevelsTogether` for the invocation that ran the
benchmark, `HealthyResident` also in the window the probe sees.

## 6. What is not modelled

* vLLM, SGLang, gVisor, GKE, GitHub, git and llmdbenchmark, except for what the
  code relies on; those definitions are marked external in `PROJECT.json`.
* `get_snapshot_provider()` and vLLM's version-dependent import of `build_app`: their
  result is `patched`, either way.
* `collectApprovalState` beyond its result, comment texts, pagination.
* YAML syntax, quoting, labels and layout of `guide.py`; the ids and wording of a
  Slack message; the finer rows of the timings' CSV; wording and links of the cells
  of a matrix.
* A reminder whose answer is lost, the window of 100 timeline items, bot
  comments (no activity by definition), and dry runs, the default of a manual
  dispatch: they do nothing, and do not count as a run in `FreedInTime`. The runner's
  clock is taken to be GitHub's.
* `set-branch` on a filter: `when:` with a `BRANCH: [x]` of one token is rewritten like
  the variable (`guide.py:2019-2022`), after which the check of the same command refuses
  the guide.yaml, since a filter must be a list. No guide filters on BRANCH.
* The benchmark's statistics, its sampler thread and `wait_for_drain()`.
* Everything the inventory lists as stateless, as sequences of commands or as
  configuration: `PROJECT.json` gives the reason part by part.

## 7. Plan

Done, in this order because of what is at stake when it goes wrong: the snapshot
cycle (pods that serve without memory, or never), the badge store, the label
automation, the reminder, the benchmark's bookkeeping; then the guide publisher,
the nightly and its report, the release matrix; and the proofs of all of these:
every property of a passing run but `StartSettles` is a theorem.

What is left:

1. `DrainWait`: the sampler thread, `async_backlog()` and `wait_for_drain()` against
   a pool and its queues: what "drained" proves, with samples up to three intervals
   old and a Redis that cannot be read; and that it always ends. Composed with
   `IsolationBench` through the start of a part.
2. `PrApprovals`: `collectApprovalState` as an operator on sequences of reviews,
   label events and comments, compared with a chronological reference over all short
   histories; then the abstraction used in `NeedsRebase` justified by it.
3. More of what the operators compute, as theorems: that the grid of `Matrix` has a
   row and a column for every lane it lists, that `SlackRouting`'s routes are those
   of the table.
