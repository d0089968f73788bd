----------------------------- MODULE SlackRouting -----------------------------
(***************************************************************************)
(* Which nightly is reported to which Slack channel, and what is said of a *)
(* run: scripts/sync-slack-channels.py, .github/slack-channels.yaml, the   *)
(* trigger of notify-slack-nightly.yaml and notify-slack-nightly.py.       *)
(*                                                                         *)
(* What main holds is a record: name, the display name of every nightly    *)
(* workflow file or Absent; routes, the files of every channel; skip, the  *)
(* files not notified; reasoned, those of them with a reason; and trigger, *)
(* the display names that start the notifier, a bag generated from these.  *)
(***************************************************************************)
EXTENDS Integers, SequencesExt

CONSTANTS File,      \* nightly workflow files
          Name,      \* their display names
          Channel,   \* Slack channels
          Fallback   \* fallback_channel

ASSUME FallbackAssumption == Fallback \in Channel
ASSUME FiniteAssumption   == IsFiniteSet(File) /\ IsFiniteSet(Channel)

Absent  == "absent"
Nowhere == "nowhere"

Mapping ==
  [ name : [File -> Name \cup {Absent}], routes : [Channel -> SUBSET File],
    skip : SUBSET File, reasoned : SUBSET File, trigger : [Name -> Nat] ]

OnDisk(repo)  == {f \in File : repo.name[f] # Absent}
Routed(repo)  == UNION {repo.routes[c] : c \in Channel}

-------------------------------------------------------------------------------
(* sync-slack-channels.py.                                                 *)

(* Without the coverage check.                                             *)
Valid_Uncovered(repo) ==
  /\ \A f \in File : \A c, d \in Channel : f \in repo.routes[c] \cap repo.routes[d] => c = d
  /\ Routed(repo) \cap repo.skip = {}
  /\ Routed(repo) \cup repo.skip \subseteq OnDisk(repo)
  /\ repo.skip \subseteq repo.reasoned
  /\ \A f, g \in Routed(repo) : repo.name[f] = repo.name[g] => f = g

Valid(repo) ==
  /\ \A f \in File : \A c, d \in Channel : f \in repo.routes[c] \cap repo.routes[d] => c = d
  /\ Routed(repo) \cap repo.skip = {}
  /\ Routed(repo) \cup repo.skip = OnDisk(repo)
  /\ repo.skip \subseteq repo.reasoned
  /\ \A f, g \in Routed(repo) : repo.name[f] = repo.name[g] => f = g

(* How often each display name is in the generated list.                   *)
TriggerList(repo) ==
  [n \in Name |-> Cardinality({r \in Channel \X File :
                                 r[2] \in repo.routes[r[1]] /\ repo.name[r[2]] = n})]

CheckPasses(repo) == Valid(repo) /\ repo.trigger = TriggerList(repo)

(* --fix leaves the workflow alone when the mapping is not valid.          *)
Fixed(repo) == IF Valid(repo) THEN [repo EXCEPT !.trigger = TriggerList(repo)] ELSE repo

-------------------------------------------------------------------------------
(* notify-slack-nightly.py.                                                *)

Failing  == {"failure", "timed_out"}
Unstable == {"neutral", "stale", "action_required"}
Notifiable == Failing \cup {"unstable"}

(* The `if:` of the notify job on the conclusion the event carries.        *)
Triggering == Failing \cup Unstable \cup {"startup_failure"}

IsBadgeJob(job) == job.name = "update-badge"

BadgeFailed(jobs) ==
  \E job \in ToSet(jobs) : IsBadgeJob(job) /\ job.conclusion \in Triggering

TestJobs(jobs) == {i \in DOMAIN jobs : ~IsBadgeJob(jobs[i])}

(* The first of some jobs to conclude so, or 0.                            *)
FirstIn(jobs, some, conclusions) ==
  LET found == {i \in some : jobs[i].conclusion \in conclusions}
  IN  IF found = {} THEN 0 ELSE Min(found)

NoJob == "none"

(* [outcome, job]: of the run whose jobs are jobs, some of them its tests, *)
(* and which, if nothing in the tests decides, ended as concluded.         *)
OutcomeOf(jobs, tests, concluded) ==
  LET failed   == FirstIn(jobs, tests, Failing)
      unstable == FirstIn(jobs, tests, Unstable)
      All(conclusions) == \A i \in tests : jobs[i].conclusion \in conclusions
      Is(outcome) == [outcome |-> outcome, job |-> NoJob]
  IN  CASE failed # 0 -> [outcome |-> jobs[failed].conclusion, job |-> jobs[failed].name]
        [] failed = 0 /\ unstable # 0 -> [outcome |-> "unstable", job |-> jobs[unstable].name]
        [] OTHER ->
             CASE FirstIn(jobs, tests, {"cancelled"}) # 0 -> Is("cancelled")
               [] tests # {} /\ All({"skipped"})          -> Is("skipped")
               [] OTHER ->
                    IF BadgeFailed(jobs) /\ All({"success", "skipped"}) THEN Is("success")
                    ELSE IF concluded \in Failing         THEN Is(concluded)
                    ELSE IF concluded = "startup_failure" THEN Is("failure")
                    ELSE IF concluded \in Unstable        THEN Is("unstable")
                    ELSE Is("success")

(* The badge job counts as one of the guide's.                             *)
NightlyOutcome_AnyJob(jobs, concluded) == OutcomeOf(jobs, DOMAIN jobs, concluded)

(* nightly_outcome: the guide's result apart from its badge's.             *)
NightlyOutcome(jobs, concluded) == OutcomeOf(jobs, TestJobs(jobs), concluded)

Resolve(repo, f) ==
  IF f \in repo.skip THEN Nowhere
  ELSE IF f \in Routed(repo) THEN CHOOSE c \in Channel : f \in repo.routes[c]
  ELSE Fallback

(* Where a run of file f is posted; override is the channel of a replay,   *)
(* or Nowhere.                                                             *)
Target(repo, f, override) == IF override = Nowhere THEN Resolve(repo, f) ELSE override

(* main: the messages posted, one or none, of a run of file f that was read*)
(* as run and later had these jobs.                                        *)
Report(repo, f, run, jobs, override) ==
  LET result  == NightlyOutcome(jobs, run.conclusion)
      channel == Target(repo, f, override)
  IN  IF ~run.scheduled \/ channel = Nowhere
         \/ (result.outcome \notin Notifiable /\ ~BadgeFailed(jobs))
      THEN {}
      ELSE {[ channel  |-> channel,
              kind     |-> result.outcome,
              job      |-> result.job,
              unrouted |-> override = Nowhere /\ f \notin Routed(repo),
              owners   |-> result.outcome \in Notifiable /\ repo.name[f] # Absent,
              attempt  |-> run.attempt ]}
===============================================================================
