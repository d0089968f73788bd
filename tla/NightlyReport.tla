---------------------------- MODULE NightlyReport -----------------------------
(***************************************************************************)
(* One pod-snapshot nightly, from the cluster to the Slack channel.        *)
(*                                                                         *)
(* nightly-deploy-gke.sh brings up Pod 1, waits for its snapshot, scales to*)
(* two replicas, waits for Pod 2 and captures pods.json; check_thresholds  *)
(* then judges what it finds (PodTimings).  The verdict is one job of the  *)
(* workflow run; when the run completes, a notifier is queued, which reads *)
(* the run, then its jobs, and posts what SlackRouting says of the two,    *)
(* while the run may be re-run and pull requests change the routing.       *)
(*                                                                         *)
(* The kubelet, the snapshot controller and GitHub are external.           *)
(***************************************************************************)
EXTENDS PodTimings, SlackRouting

CONSTANTS LoadTime,    \* the least time from a start to the end of the warmup
          MaxTime,     \* bound on the clock
          MaxPods,     \* bound on the pods created
          MaxFaults,   \* bound on the faults of the cluster
          MaxManual,   \* bound on the pull requests merged and the runs replayed
          MaxAttempts, \* bound on the attempts of the run
          Mains,       \* what main may hold at first
          Nightly      \* the workflow file of the run

ASSUME TimesAssumption    == LoadTime \in Nat /\ MaxTime \in Nat \ {0}
ASSUME BoundsAssumption   == /\ {MaxPods, MaxFaults, MaxManual} \subseteq Nat
                             /\ MaxAttempts \in Nat \ {0}

(* A restore is what beats a cold start.                                   *)
ASSUME LoadAssumption == MaxWarm < LoadTime
ASSUME NightlyAssumption == Nightly \in File

(* The routing in force had passed the check.                              *)
ASSUME MainsAssumption ==
  \A repo \in Mains : repo \in Mapping /\ CheckPasses(repo)

VARIABLES step,     \* of the nightly
          now,      \* the clock of the cluster
          pods,     \* sequence of pods by creation, as the API shows them, and
                    \* where each first came from, when it was first warm and
                    \* how far its container is
          logs,     \* pod -> log of its container, for the pods that exist
          snaps,    \* PodSnapshots: whose, and when they became Ready
          shot,     \* pods.json: {}, or one sequence of pods
          faults,   \* faults so far
          verdict,  \* of check_thresholds
          metrics,  \* what it computed
          main,     \* what the default branch holds
          manual,   \* pull requests merged and replays so far
          run,      \* the workflow run as the API shows it
          notifiers,\* the concurrency group of the run's notifiers, the first
                    \* in progress: the commit each has checked out, the
                    \* channel it was told to take, and if it posts
          answers,  \* what the first has read of the run: nothing or one answer
          messages, \* posted for this run
          due       \* history: the failure that must be heard, if any, and where

cluster  == <<now, pods, logs, snaps, shot, faults>>
notifier == <<notifiers, answers>>
slack    == <<main, manual, run, notifier, messages, due>>
vars     == <<step, verdict, metrics, cluster, slack>>

NoMetrics == [ecs |-> 0, cs |-> 0, tsot |-> 0, wsr |-> 0]

NewPod(i) ==
  [ name |-> i, created |-> now, scheduled |-> None, sandbox |-> None,
    pulling |-> None, pulled |-> None, started |-> None, restored |-> None,
    ready |-> None, live |-> TRUE, origin |-> None, warm |-> None, at |-> "new" ]

Line(what) == [ts |-> now, what |-> what]

Init ==
  /\ step = "pod1" /\ now = 1 /\ pods = <<>> /\ logs = <<>> /\ shot = {} /\ faults = 0
  /\ snaps \in {{}, {[by |-> 0, ready |-> 0]}}
  /\ verdict = "none" /\ metrics = NoMetrics
  /\ main \in Mains /\ manual = 0 /\ messages = {} /\ due = {}
  /\ notifiers = <<>> /\ answers = {}
  /\ run = [ scheduled |-> TRUE, name |-> main.name[Nightly], jobs |-> <<>>,
             conclusion |-> "none", attempt |-> 1 ]

-------------------------------------------------------------------------------
(* The cluster.                                                            *)

Deploying == step \in {"pod1", "snapshot", "pod2", "captured"}

Live == Listed(pods)

Replicas == IF step \in {"pod1", "snapshot"} THEN 1 ELSE 2

(* Pod i moves on, with lines added to its log.                            *)
Move(i, pod, lines) ==
  /\ pods' = [pods EXCEPT ![i] = pod]
  /\ logs' = [logs EXCEPT ![i] = @ \o lines]

(* The ReplicaSet controller does not wait.                                *)
Tick ==
  /\ Deploying /\ now < MaxTime
  /\ Cardinality(Live) < Replicas => Len(pods) = MaxPods
  /\ now' = now + 1
  /\ UNCHANGED <<step, verdict, metrics, pods, logs, snaps, shot, faults, slack>>

Create ==
  /\ Deploying /\ Cardinality(Live) < Replicas /\ Len(pods) < MaxPods
  /\ LET i == Len(pods) + 1
     IN  /\ pods' = Append(pods, NewPod(i))
         /\ logs' = [j \in DOMAIN logs \cup {i} |-> IF j = i THEN <<>> ELSE logs[j]]
  /\ UNCHANGED <<step, verdict, metrics, now, snaps, shot, faults, slack>>

Schedule(i) ==
  /\ pods[i].at = "new"
  /\ Move(i, [pods[i] EXCEPT !.scheduled = now, !.at = "scheduled"], <<>>)
  /\ UNCHANGED <<snaps, faults>>

Launched(i) ==
  [pods[i] EXCEPT !.sandbox = now, !.pulling = now, !.pulled = now, !.started = now]

ReadySnaps == {s \in snaps : s.ready # None}

(* Of the newest snapshot; a restored log starts at the checkpoint line.   *)
StartRestored(i) ==
  /\ pods[i].at = "scheduled" /\ ReadySnaps # {}
  /\ LET newest == CHOOSE s \in ReadySnaps : \A r \in ReadySnaps : r.ready <= s.ready
     IN  Move(i, [Launched(i) EXCEPT !.origin = newest.by, !.restored = now, !.at = "frozen"],
              <<Line("checkpoint")>>)
  /\ UNCHANGED <<snaps, faults>>

(* With a snapshot there, only if the restore fails.                       *)
StartCold(i) ==
  /\ pods[i].at = "scheduled"
  /\ ReadySnaps # {} => faults < MaxFaults
  /\ faults' = IF ReadySnaps # {} THEN faults + 1 ELSE faults
  /\ Move(i, [Launched(i) EXCEPT !.origin = i, !.at = "loading"], <<Line("weights_begin")>>)
  /\ UNCHANGED snaps

FirstTime(t) == IF t = None THEN now ELSE t

Warm(i) ==
  /\ pods[i].at = "loading" /\ now >= pods[i].started + LoadTime
  /\ Move(i, [pods[i] EXCEPT !.warm = FirstTime(@), !.at = "warm"],
          <<Line("weights_end"), Line("kv"), Line("graph_end"), Line("warmup_done")>>)
  /\ UNCHANGED <<snaps, faults>>

Checkpoint(i) ==
  /\ pods[i].at = "warm"
  /\ Move(i, [pods[i] EXCEPT !.at = "frozen"], <<Line("released"), Line("checkpoint")>>)
  /\ snaps' = snaps \cup {[by |-> i, ready |-> None]}
  /\ UNCHANGED faults

(* The wrapper serves without a snapshot.                                  *)
CheckpointFails(i) ==
  /\ pods[i].at = "warm" /\ faults < MaxFaults
  /\ Move(i, [pods[i] EXCEPT !.at = "frozen"], <<Line("released")>>)
  /\ faults' = faults + 1
  /\ UNCHANGED snaps

Up(i) ==
  /\ pods[i].at = "frozen"
  /\ Move(i, [pods[i] EXCEPT !.at = "up"], <<Line("up")>>)
  /\ UNCHANGED <<snaps, faults>>

Ready(i) ==
  /\ pods[i].at = "up"
  /\ Move(i, [pods[i] EXCEPT !.ready = now, !.at = "ready"], <<>>)
  /\ UNCHANGED <<snaps, faults>>

(* The container restarts, cold, with a log of its own.                    *)
Crash(i) ==
  /\ pods[i].at \in {"loading", "warm", "frozen", "up", "ready"} /\ faults < MaxFaults
  /\ pods' = [pods EXCEPT ![i].started = now, ![i].ready = None, ![i].at = "loading"]
  /\ logs' = [logs EXCEPT ![i] = <<Line("weights_begin")>>]
  /\ faults' = faults + 1
  /\ UNCHANGED snaps

(* The readiness probe fails for a while.                                  *)
Blip(i) ==
  /\ pods[i].at = "ready" /\ faults < MaxFaults
  /\ Move(i, [pods[i] EXCEPT !.ready = None, !.at = "up"], <<>>)
  /\ faults' = faults + 1
  /\ UNCHANGED snaps

(* The kubelet rotates the log: its first lines are gone.                  *)
Rotate(i) ==
  /\ faults < MaxFaults
  /\ \E n \in DOMAIN logs[i] : logs' = [logs EXCEPT ![i] = SubSeq(@, n + 1, Len(@))]
  /\ faults' = faults + 1
  /\ UNCHANGED <<pods, snaps>>

Evict(i) ==
  /\ faults < MaxFaults
  /\ pods' = [pods EXCEPT ![i].live = FALSE, ![i].at = "gone"]
  /\ logs' = [j \in DOMAIN logs \ {i} |-> logs[j]]
  /\ faults' = faults + 1
  /\ UNCHANGED snaps

PodStep(i) ==
  /\ Deploying /\ i \in Live
  /\ \/ Schedule(i) \/ StartRestored(i) \/ StartCold(i) \/ Warm(i)
     \/ Checkpoint(i) \/ CheckpointFails(i) \/ Up(i) \/ Ready(i)
     \/ Crash(i) \/ Blip(i) \/ Rotate(i) \/ Evict(i)
  /\ UNCHANGED <<step, verdict, metrics, now, shot, slack>>

SnapshotUploaded ==
  /\ Deploying
  /\ \E s \in snaps : s.ready = None /\ snaps' = (snaps \ {s}) \cup {[s EXCEPT !.ready = now]}
  /\ UNCHANGED <<step, verdict, metrics, now, pods, logs, shot, faults, slack>>

-------------------------------------------------------------------------------
(* The deploy script and the check.                                        *)

AllReady == Live # {} /\ \A i \in Live : pods[i].ready # None

(* The first wait, for Pod 1.                                              *)
Pod1Ready ==
  /\ step = "pod1" /\ AllReady
  /\ step' = "snapshot"
  /\ UNCHANGED <<verdict, metrics, cluster, slack>>

(* The second: every PodSnapshot is Ready, of which there are some.        *)
ScaleUp ==
  /\ step = "snapshot"
  /\ snaps # {} /\ ReadySnaps = snaps
  /\ step' = "pod2"
  /\ UNCHANGED <<verdict, metrics, cluster, slack>>

(* A capture that fails leaves no pods.json.                               *)
Capture ==
  /\ step = "pod2" /\ AllReady /\ Cardinality(Live) = 2
  /\ step' = "captured"
  /\ shot' \in {{pods}, {}}
  /\ UNCHANGED <<verdict, metrics, now, pods, logs, snaps, faults, slack>>

Seen == IF shot = {} THEN pods ELSE CHOOSE p \in shot : TRUE

Jobs == [i \in 1 .. 3 |-> [name |-> <<"e2e", "report", "update-badge">>[i], conclusion |-> "none"]]

(* The run has its jobs; what started it matters from here on.             *)
Tested == \E scheduled \in BOOLEAN : run' = [run EXCEPT !.jobs = Jobs, !.scheduled = scheduled]

(* The events of the image pulls expire.                                   *)
Expired(seen) == [i \in DOMAIN seen |-> [seen[i] EXCEPT !.pulling = None, !.pulled = None]]

Judge ==
  /\ step = "captured"
  /\ step' = "judged"
  /\ \E seen \in {Seen, Expired(Seen)} :
       /\ verdict' = IF Verdict(seen, logs, {s.ready : s \in ReadySnaps}) THEN "pass" ELSE "fail"
       /\ metrics' = Measured(seen, logs)
  /\ Tested
  /\ UNCHANGED <<cluster, main, manual, notifier, messages, due>>

(* A wait of the script times out.                                         *)
DeployFails ==
  /\ step \in {"pod1", "snapshot", "pod2"} /\ now = MaxTime
  /\ step' = "judged" /\ verdict' = "fail"
  /\ Tested
  /\ UNCHANGED <<metrics, cluster, main, manual, notifier, messages, due>>

-------------------------------------------------------------------------------
(* The workflow run and its report.                                        *)

(* What a job that ran may conclude; after the e2e job, the two others.    *)
Conclusions(i) ==
  CASE i = 1 /\ run.attempt = 1 ->
         IF verdict = "pass" THEN {"success", "cancelled"} ELSE {"failure", "timed_out", "cancelled"}
    [] i = 1 /\ run.attempt > 1 -> {"success", "failure", "skipped"}
    [] i = 2 -> {"success", "neutral", "skipped"}
    [] i = 3 -> {"success", "failure"}

Concluded(jobs) ==
  LET All == {job.conclusion : job \in ToSet(jobs)}
  IN  CASE All \cap Failing # {}      -> {"failure"} \cup (All \cap {"cancelled"})
        [] All \cap Failing = {} /\ "cancelled" \in All -> {"cancelled"}
        [] OTHER -> IF "neutral" \in All THEN {"neutral", "success"} ELSE {"success"}

(* What the completion of an attempt must lead to: if the nightly failed,  *)
(* is not skipped and was not renamed meanwhile, it is to be heard of.     *)
Owed(done) ==
  IF /\ done.scheduled /\ done.conclusion \in Failing \cup {"startup_failure"}
     /\ done.jobs = <<>> \/ \E i \in TestJobs(done.jobs) : done.jobs[i].conclusion \in Failing
     /\ done.name = main.name[Nightly] /\ Resolve(main, Nightly) # Nowhere
  THEN {[channel |-> Resolve(main, Nightly), attempt |-> done.attempt]} ELSE {}

(* The group holds one notifier in progress and one that waits, which a    *)
(* newer one replaces.                                                     *)
Queue(new) ==
  notifiers' = IF Len(notifiers) < 2 THEN Append(notifiers, new) ELSE <<Head(notifiers), new>>

(* Any completion starts a notifier, whose job has a condition.            *)
Completed(done) ==
  /\ run' = done /\ due' = Owed(done)
  /\ \E name \in {run.name, main.name[Nightly]} \ {Absent} :
       IF main.trigger[name] > 0
       THEN Queue([ repo |-> main, override |-> Nowhere,
                    posts |-> done.scheduled /\ done.conclusion \in Triggering ])
       ELSE UNCHANGED notifiers
  /\ UNCHANGED answers

(* The cluster is cleaned up; the run goes on to its last jobs.            *)
Cleanup ==
  /\ step = "judged"
  /\ step' = "cleaned" /\ metrics' = NoMetrics
  /\ now' = 0 /\ pods' = <<>> /\ logs' = <<>> /\ snaps' = {} /\ shot' = {} /\ faults' = 0
  /\ UNCHANGED <<verdict, slack>>

Complete ==
  /\ step \in {"cleaned", "reported"} /\ run.conclusion = "none"
  /\ \E a \in Conclusions(1), b \in Conclusions(2), c \in Conclusions(3) :
       LET End(i) == IF run.jobs[i].conclusion = "none" THEN <<a, b, c>>[i]
                     ELSE run.jobs[i].conclusion
           jobs   == [i \in 1 .. 3 |-> [run.jobs[i] EXCEPT !.conclusion = End(i)]]
       IN  \E ended \in Concluded(jobs) :
             Completed([run EXCEPT !.jobs = jobs, !.conclusion = ended])
  /\ step' = "reported" /\ verdict' = "none"
  /\ UNCHANGED <<metrics, cluster, main, manual, messages>>

StartupFails ==
  /\ step = "pod1" /\ now = 1 /\ pods = <<>>
  /\ Completed([run EXCEPT !.conclusion = "startup_failure"])
  /\ step' = "reported"
  /\ UNCHANGED <<verdict, metrics, cluster, main, manual, messages>>

Answer(r) == [scheduled |-> r.scheduled, conclusion |-> r.conclusion, attempt |-> r.attempt]

(* The first notifier has read the failure d, and will post where it is due*)
BeingPosted(d) ==
  /\ answers = {Answer(run)} /\ run.attempt = d.attempt
  /\ Target(Head(notifiers).repo, Nightly, Head(notifiers).override) = d.channel

(* The jobs from the first that did not succeed on run again.  A failure   *)
(* that no notifier has read by then is never heard of.                    *)
Rerun ==
  /\ run.conclusion \notin {"none", "startup_failure"} /\ run.attempt < MaxAttempts
  /\ \E first \in 1 .. 3 :
       /\ run.jobs[first].conclusion # "success"
       /\ \A i \in 1 .. first - 1 : run.jobs[i].conclusion = "success"
       /\ run' = [run EXCEPT !.attempt = @ + 1, !.conclusion = "none",
                             !.jobs = [i \in 1 .. 3 |-> IF i < first THEN @[i] ELSE Jobs[i]]]
  /\ due' = {d \in due : BeingPosted(d)}
  /\ UNCHANGED <<step, verdict, metrics, cluster, main, manual, notifier, messages>>

Leave == notifiers' = Tail(notifiers) /\ answers' = {}

(* fetch_run, the first call of a notifier, by the id of the run.          *)
FetchRun ==
  /\ notifiers # <<>> /\ Head(notifiers).posts /\ answers = {}
  /\ answers' = {Answer(run)}
  /\ UNCHANGED <<step, verdict, metrics, cluster, main, manual, run, notifiers, messages, due>>

(* fetch_jobs, the second, by the same id, and the post.                   *)
FetchJobs ==
  /\ \E answer \in answers :
       messages' = messages \cup
         Report(Head(notifiers).repo, Nightly, answer, run.jobs, Head(notifiers).override)
  /\ Leave
  /\ UNCHANGED <<step, verdict, metrics, cluster, main, manual, run, due>>

(* Its job is skipped, or it is a dry run.                                 *)
Silent ==
  /\ notifiers # <<>> /\ ~Head(notifiers).posts
  /\ Leave
  /\ UNCHANGED <<step, verdict, metrics, cluster, main, manual, run, messages, due>>

(* GitHub or Slack refuses it: the notifier's own run is red.              *)
NotifyFails ==
  /\ notifiers # <<>> /\ Head(notifiers).posts
  /\ Leave /\ due' = {}
  /\ UNCHANGED <<step, verdict, metrics, cluster, main, manual, run, messages>>

(* workflow_dispatch of the notifier; one that waits is cancelled by it.   *)
Replay ==
  /\ step = "reported" /\ manual < MaxManual
  /\ manual' = manual + 1
  /\ \E override \in Channel \cup {Nowhere}, posts \in BOOLEAN :
       Queue([repo |-> main, override |-> override, posts |-> posts])
  /\ due' = IF Len(notifiers) < 2 THEN due ELSE {}
  /\ UNCHANGED <<step, verdict, metrics, cluster, main, run, answers, messages>>

(* A pull request gives a workflow another name or place; its author may   *)
(* have run --fix; it is merged if the check passes.                       *)
Merge ==
  /\ step \in {"cleaned", "reported"} /\ manual < MaxManual
  /\ \E f \in File, name \in Name \cup {Absent}, place \in Channel \cup {"skip", Nowhere}, fix \in BOOLEAN :
       LET edited == [main EXCEPT
                        !.name[f] = name,
                        !.routes  = [c \in Channel |-> IF c = place THEN @[c] \cup {f} ELSE @[c] \ {f}],
                        !.skip     = IF place = "skip" THEN @ \cup {f} ELSE @ \ {f},
                        !.reasoned = IF place = "skip" THEN @ \cup {f} ELSE @ \ {f}]
       IN  main' = IF fix THEN Fixed(edited) ELSE edited
  /\ main' # main /\ CheckPasses(main')
  /\ manual' = manual + 1
  /\ UNCHANGED <<step, verdict, metrics, cluster, run, notifier, messages, due>>

Next ==
  \/ Tick \/ Create \/ SnapshotUploaded \/ (\E i \in DOMAIN pods : PodStep(i))
  \/ Pod1Ready \/ ScaleUp \/ Capture \/ Judge \/ DeployFails \/ Cleanup
  \/ Complete \/ StartupFails \/ Rerun \/ Merge
  \/ FetchRun \/ FetchJobs \/ Silent \/ NotifyFails \/ Replay

Spec == Init /\ [][Next]_vars

-------------------------------------------------------------------------------
(* The state is of its type; in particular no duration computed is         *)
(* negative, though its boundaries were read at different times            *)
(* (snapshot_timings.py clamps each to the one before it).                 *)
TypeOK ==
  /\ step \in {"pod1", "snapshot", "pod2", "captured", "judged", "cleaned", "reported"}
  /\ now \in 0 .. MaxTime /\ faults \in 0 .. MaxFaults /\ manual \in 0 .. MaxManual
  /\ Len(pods) <= MaxPods /\ DOMAIN logs = Live
  /\ \A s \in snaps : s.by \in 0 .. MaxPods /\ s.ready \in {None} \cup 0 .. MaxTime
  /\ verdict \in {"none", "pass", "fail"}
  /\ \A name \in DOMAIN metrics : metrics[name] \in Nat
  /\ \A m \in messages : m.channel \in Channel /\ m.attempt \in 1 .. MaxAttempts
  /\ due \subseteq [channel : Channel, attempt : 1 .. MaxAttempts]
  /\ Len(notifiers) <= 2 /\ (answers # {} => notifiers # <<>>)

(* A nightly that passes has seen what it is there to see: of the pods     *)
(* read, an older one that really cold-started, within the limit, and a    *)
(* younger one that did not: it was restored, within the limit, from a     *)
(* snapshot of another pod, Ready by then; and both are Ready.  Though     *)
(* pods.json, the logs and the snapshots are read at different times, a    *)
(* container may have restarted and a log may have lost its first lines.   *)
(* If the older one is the first pod there was, and not more than one thing*)
(* went wrong, the snapshot is its own.                                    *)
VerdictIsTrue ==
  step = "judged" /\ verdict = "pass" =>
    \E i, j \in DOMAIN Seen :
      LET p == Seen[i]
          q == Seen[j]
      IN  /\ i < j /\ p.live /\ q.live /\ p.ready # None /\ q.ready # None
          /\ p.origin = p.name /\ p.warm # None /\ p.warm - p.scheduled <= MaxCold
          /\ \E s \in ReadySnaps : s.by = q.origin /\ s.by # q.name /\ s.ready <= q.ready
          /\ q.ready - q.scheduled <= MaxWarm
          /\ i = 1 /\ faults <= 1 => q.origin = p.name

(* Once the notifiers of a run are done, the last failure of the guide in a*)
(* scheduled nightly that is not skipped has been posted where it is routed*)
(* (sync-slack-channels.py: a nightly the check misses "never fires and    *)
(* nobody notices"), whatever pull requests the check let through, before  *)
(* the run or while it was reported, and also if it was re-run after a     *)
(* notifier had asked for the run and before it asked for the jobs.  A     *)
(* failure that is re-run before is nobody's: see Rerun.                   *)
FailureHeard ==
  notifiers = <<>> =>
    \A d \in due : \E m \in messages :
      m.channel = d.channel /\ m.attempt = d.attempt /\ m.kind \in Failing

(* The test jobs to blame: those that failed, else those that are unstable.*)
Culprits(jobs) ==
  LET Ended(conclusions) == {i \in TestJobs(jobs) : jobs[i].conclusion \in conclusions}
  IN  IF Ended(Failing) # {} THEN Ended(Failing) ELSE Ended(Unstable)

(* A post names the first job to blame, or none; and it pages the owners of*)
(* a guide only if there is one or the run never started: a badge alone, or*)
(* an attempt still running, does not, "credible false positives are       *)
(* exactly what makes people stop trusting an alert channel".  Except that *)
(* a run read as failed and re-run before its jobs were read pages them,   *)
(* whatever had failed: its conclusion is all that is left to go by.       *)
GuideBlamedRightly ==
  [][\A m \in messages' \ messages : \A answer \in answers :
       LET blamed == Culprits(run.jobs) IN
         /\ m.owners => \/ blamed # {} \/ answer.conclusion = "startup_failure"
                        \/ answer.attempt < run.attempt /\ answer.conclusion \in Failing \cup Unstable
         /\ m.job # NoJob => \E i \in blamed : run.jobs[i].name = m.job /\ \A j \in blamed : i <= j]_vars
===============================================================================
