-------------------------- MODULE NightlyReport_proofs --------------------------
(***************************************************************************)
(* The verdict of a pod-snapshot nightly and its way to Slack, for any     *)
(* thresholds, any number of pods, faults, pull requests and attempts, and *)
(* any routing that the check accepts.                                     *)
(***************************************************************************)
EXTENDS NightlyReport, NaturalsInduction, WellFoundedInduction,
        FiniteSetTheorems, TLAPS

Time == 0 .. MaxTime

MaybeTime == {None} \cup Time

Phase == {"new", "scheduled", "loading", "warm", "frozen", "up", "ready", "gone"}

PodType ==
  [ name : Nat, created : Time, scheduled : MaybeTime, sandbox : MaybeTime,
    pulling : MaybeTime, pulled : MaybeTime, started : MaybeTime,
    restored : MaybeTime, ready : MaybeTime, live : BOOLEAN, origin : Int,
    warm : MaybeTime, at : Phase ]

LineType == [ts : Time, what : Markers]

SnapType == [by : Nat, ready : MaybeTime]

Warmed == {"warm", "frozen", "up", "ready"}

-------------------------------------------------------------------------------
(* The cluster.                                                            *)

(* What is so at time t of pod k, as it is or as pods.json has it.         *)
PodFacts(k, pod, t) ==
  /\ pod.name = k
  /\ pod.created <= t
  /\ pod.scheduled # None => pod.created <= pod.scheduled /\ pod.scheduled <= t
  /\ pod.at \in {"new", "scheduled"} =>
       pod.origin = None /\ pod.ready = None /\ pod.warm = None /\ pod.restored = None
  /\ pod.at = "scheduled" => pod.scheduled # None
  /\ pod.at \in {"loading"} \cup Warmed => pod.origin # None
  /\ pod.origin # None =>
       pod.scheduled # None /\ pod.started # None /\ pod.scheduled <= pod.started
  /\ pod.restored # None <=> pod.origin \notin {None, k}
  /\ pod.origin = k /\ (pod.at \in Warmed \/ pod.ready # None) => pod.warm # None
  /\ pod.origin = k /\ pod.at \in Warmed => pod.scheduled + LoadTime <= t
  /\ pod.warm <= t /\ pod.restored <= t
  /\ pod.ready # None =>
       pod.at \in {"ready", "gone"} /\ pod.origin # None /\ pod.restored <= pod.ready

(* A restored pod is of a snapshot that was Ready by then.                 *)
Restorable(k, pod, S) ==
  pod.origin \notin {None, k} =>
    \E s \in S : s.by = pod.origin /\ s.ready # None /\ s.ready <= pod.restored

LogFacts(k, pod, log) ==
  /\ log \in Seq(LineType)
  /\ pod.at \in {"new", "scheduled"} => log = <<>>
  /\ \A n \in DOMAIN log :
       /\ log[n].what = "warmup_done" => pod.warm # None /\ pod.warm <= log[n].ts
       /\ log[n].what = "up" /\ pod.origin = k => pod.scheduled + LoadTime <= log[n].ts

SnapFacts(s, P, t) ==
  /\ s.by <= Len(P) /\ s.ready <= t
  /\ s.by = 0 => s.ready = 0
  /\ s.by # 0 => P[s.by].origin # None /\ s.ready # 0

(* Where pod came from, and when it was first warm, is settled.            *)
Settled(pod, later) ==
  pod.origin # None =>
    /\ later.origin = pod.origin
    /\ later.scheduled = pod.scheduled
    /\ pod.warm # None => later.warm = pod.warm

(* A pod that was Ready in pods.json comes from where it came from then.   *)
ShotFacts ==
  \A taken \in shot :
    /\ taken \in Seq(PodType) /\ Len(taken) <= Len(pods)
    /\ \A k \in DOMAIN taken :
         /\ PodFacts(k, taken[k], now)
         /\ Restorable(k, taken[k], snaps)
         /\ Settled(taken[k], pods[k])

ClusterTypes ==
  /\ step \in {"pod1", "snapshot", "pod2", "captured", "judged", "cleaned", "reported"}
  /\ now \in Time /\ (Deploying => 1 <= now)
  /\ faults \in 0 .. MaxFaults
  /\ pods \in Seq(PodType) /\ Len(pods) <= MaxPods
  /\ DOMAIN logs = Live
  /\ snaps \subseteq SnapType
  /\ shot = {} \/ \E taken \in Seq(PodType) : shot = {taken}
  /\ step \in {"pod1", "snapshot", "pod2"} => shot = {}

ClusterInv ==
  /\ ClusterTypes
  /\ \A k \in DOMAIN pods :
       /\ PodFacts(k, pods[k], now)
       /\ Restorable(k, pods[k], snaps)
       /\ pods[k].live <=> pods[k].at # "gone"
  /\ \A k \in Live : LogFacts(k, pods[k], logs[k])
  /\ \A s \in snaps : SnapFacts(s, pods, now)
  /\ ShotFacts

(* With one fault, and the first pod still there: once it was Ready it has *)
(* a snapshot, and once there are to be two pods that one is Ready, and any*)
(* other but the one from before is of the second pod, whose cold start was*)
(* the fault.                                                              *)
First == 1 \in DOMAIN pods /\ pods[1].live

OneOther == \A j, k \in Live \ {1} : j = k

Has(by) == \E s \in snaps : s.by = by

Frozen == {"frozen", "up", "ready"}

OwnSnapshot ==
  /\ \E s \in ReadySnaps : s.by = 1
  /\ \A s \in snaps : s.by \notin {0, 1} => faults = 1 /\ s.by \in Live
  /\ \A k \in DOMAIN pods \ {1} :
       /\ pods[k].origin \in {None, 1, k}
       /\ pods[k].origin = k \/ pods[k].at \in {"loading", "warm"} => faults = 1

Scaled == step \in {"pod2", "captured"}

Begun == Scaled \/ step = "snapshot"

FirstSnapshot ==
  /\ step \in {"pod1", "snapshot"} /\ First => Len(pods) = 1
  /\ Begun => pods # <<>>
  /\ Begun /\ First => pods[1].origin # None
  /\ Scaled /\ First => OneOther
  /\ First /\ pods[1].origin = 1 /\ faults <= 1 /\ Has(0) =>
       faults = 1 /\ (pods[1].at \in Frozen \/ step = "snapshot" => Has(1))
  /\ Scaled /\ First /\ pods[1].origin = 1 /\ faults <= 1 => OwnSnapshot

-------------------------------------------------------------------------------
(* The workflow run and its report.                                        *)

Ends == {"success", "failure", "timed_out", "cancelled", "skipped", "neutral"}

JobType == [name : {"e2e", "report", "update-badge"}, conclusion : {"none"} \cup Ends]

RunType ==
  [ scheduled : BOOLEAN, name : Name \cup {Absent}, jobs : {<<>>} \cup [1 .. 3 -> JobType],
    conclusion : {"none", "startup_failure"} \cup Ends, attempt : 1 .. MaxAttempts ]

Finished(done) == done.conclusion \notin {"none", "startup_failure"}

(* The jobs of a run that has them, and what it concludes from them.       *)
RunFacts(done) ==
  /\ done \in RunType
  /\ done.jobs # <<>> =>
       /\ done.jobs[1].name = "e2e" /\ done.jobs[2].name = "report" /\ done.jobs[3].name = "update-badge"
       /\ done.jobs[3].conclusion \in {"none", "success", "failure"}
  /\ done.conclusion = "startup_failure" => done.jobs = <<>>
  /\ Finished(done) =>
       /\ done.jobs # <<>> /\ \A i \in 1 .. 3 : done.jobs[i].conclusion # "none"
       /\ done.conclusion \in Concluded(done.jobs)
  /\ done.conclusion = "none" /\ done.jobs # <<>> =>
       /\ done.jobs[3].conclusion = "none"
       /\ \A i \in {1, 2} : done.jobs[i].conclusion \in {"none", "success"}

NotifierType == [repo : Mapping, override : Channel \cup {Nowhere}, posts : BOOLEAN]

AnswerType == {Answer(done) : done \in RunType}

(* A failure that is to be heard of, unless it is renamed or skipped.      *)
Failed(done) ==
  /\ done.scheduled /\ done.conclusion \in Failing \cup {"startup_failure"}
  /\ done.jobs = <<>> \/ \E i \in TestJobs(done.jobs) : done.jobs[i].conclusion \in Failing

Heard(d) ==
  \E m \in messages : m.channel = d.channel /\ m.attempt = d.attempt /\ m.kind \in Failing

(* The k-th notifier posts where d is due.                                 *)
Sends(k, d) ==
  /\ k \in DOMAIN notifiers /\ notifiers[k].posts
  /\ Target(notifiers[k].repo, Nightly, notifiers[k].override) = d.channel

(* The run still shows the failure d, and a notifier will read it.         *)
Unread(d) ==
  /\ run.attempt = d.attempt /\ Failed(run)
  /\ \E k \in DOMAIN notifiers : Sends(k, d) /\ (k = 1 => answers \subseteq {Answer(run)})

(* The run goes on again, and the first notifier has read the failure d.   *)
Halfway(d) ==
  /\ run.conclusion = "none" /\ Sends(1, d) /\ answers # {}
  /\ \A answer \in answers :
       answer.scheduled /\ answer.conclusion \in Failing /\ answer.attempt = d.attempt

ReportTypes ==
  /\ verdict \in {"none", "pass", "fail"}
  /\ \A name \in DOMAIN metrics : metrics[name] \in Nat
  /\ manual \in 0 .. MaxManual
  /\ main \in Mapping /\ CheckPasses(main)
  /\ \A m \in messages : m.channel \in Channel /\ m.attempt \in 1 .. MaxAttempts
  /\ notifiers \in Seq(NotifierType) /\ Len(notifiers) <= 2
  /\ answers \subseteq AnswerType

RunInv ==
  /\ RunFacts(run)
  /\ Deploying => run.jobs = <<>>
  /\ step \in {"judged", "cleaned"} => run.jobs # <<>>
  /\ step = "reported" /\ run.jobs = <<>> => run.conclusion = "startup_failure"
  /\ step # "reported" => due = {} /\ run.conclusion = "none"

(* What was read of an attempt is what it concluded, or that it had not.   *)
AnswerInv ==
  /\ \A answer, other \in answers : answer = other
  /\ answers # {} => notifiers # <<>> /\ notifiers[1].posts
  /\ \A answer \in answers :
       /\ answer.attempt <= run.attempt
       /\ answer.attempt = run.attempt => answer.conclusion \in {"none", run.conclusion}

DueInv ==
  \A d \in due :
    /\ d \in [channel : Channel, attempt : 1 .. MaxAttempts] /\ d.channel # Nowhere
    /\ Heard(d) \/ Unread(d) \/ Halfway(d)

SlackInv == ReportTypes /\ RunInv /\ AnswerInv /\ DueInv

-------------------------------------------------------------------------------
(* The least and the greatest of some indices.                             *)

LEMMA NatMin ==
  ASSUME NEW T, T \subseteq Nat, T # {}
  PROVE  \E x \in T : \A y \in T : x <= y
  <1> DEFINE R == {p \in Nat \X Nat : p[1] < p[2]}
  <1>1. IsWellFoundedOn(R, Nat)
    BY NatLessThanWellFounded DEF OpToRel
  <1>2. PICK x \in T : \A y \in T : ~(<<y, x>> \in R)
    BY <1>1, WFMin
  <1>3. ASSUME NEW y \in T
        PROVE  x <= y
    <2>1. x \in Nat /\ y \in Nat /\ <<y, x>> \in Nat \X Nat
      OBVIOUS
    <2>2. ~(y < x)
      BY <1>2, <2>1
    <2>3. QED
      BY <2>1, <2>2
  <1>4. QED
    BY <1>3

LEMMA MinOfNats ==
  ASSUME NEW T, T \subseteq Nat, T # {}
  PROVE  Min(T) \in T /\ \A y \in T : Min(T) <= y
  BY NatMin DEF Min

LEMMA MaxOfIndices ==
  ASSUME NEW n \in Nat, NEW T, T \subseteq 1 .. n, T # {}
  PROVE  Max(T) \in T /\ \A y \in T : y <= Max(T)
  <1> DEFINE U == {n - x : x \in T}
  <1>1. U \subseteq Nat /\ U # {}
    OBVIOUS
  <1>2. PICK u \in U : \A y \in U : u <= y
    BY <1>1, NatMin
  <1>3. PICK x \in T : u = n - x
    OBVIOUS
  <1>4. ASSUME NEW y \in T
        PROVE  y <= x
    <2>1. n - y \in U /\ y \in Int /\ x \in Int
      OBVIOUS
    <2>2. n - x <= n - y
      BY <1>2, <1>3, <2>1
    <2>3. QED
      BY <2>1, <2>2
  <1>5. \E z \in T : \A y \in T : z >= y
    BY <1>4
  <1>6. QED
    BY <1>5 DEF Max

-------------------------------------------------------------------------------
(* What the logs and the timings say.                                      *)

(* A time read from a log is that of one of its lines: for most markers,   *)
(* one that carries the marker.                                            *)
LEMMA LogValueIsALine ==
  ASSUME NEW log \in Seq(LineType), NEW m \in Markers
  PROVE  /\ LogValues(log)[m] \in MaybeTime
         /\ LogValues(log)[m] # None /\ m \notin {"restore", "checkpoint"} =>
              \E n \in DOMAIN log : log[n].what = m /\ log[n].ts = LogValues(log)[m]
  <1> DEFINE Lines(w)    == {i \in DOMAIN log : log[i].what = w}
             checkpoints == {i \in Lines("checkpoint") : \E j \in 1 .. i - 1 : IsColdLine(log[j])}
             restores    == Lines("checkpoint") \ checkpoints
             Earliest(S) == IF S = {} THEN None ELSE log[Min(S)].ts
             Latest(S)   == IF S = {} THEN None ELSE log[Max(S)].ts
  <1>1. DOMAIN log = 1 .. Len(log) /\ Len(log) \in Nat /\ \A i \in DOMAIN log : log[i] \in LineType
    OBVIOUS
  <1>2. LogValues(log)[m] = CASE m = "restore"    -> Earliest(restores)
                              [] m = "checkpoint" -> Latest(checkpoints)
                              [] OTHER            -> Latest(Lines(m))
    BY DEF LogValues
  <1>3. ASSUME NEW S, S \subseteq DOMAIN log, S # {}
        PROVE  Min(S) \in S /\ Max(S) \in S
    <2>1. S \subseteq Nat /\ S \subseteq 1 .. Len(log)
      BY <1>1, <1>3
    <2>2. QED
      BY <2>1, <1>1, <1>3, MinOfNats, MaxOfIndices
  <1>4. ASSUME NEW S, S \subseteq DOMAIN log
        PROVE  Earliest(S) \in MaybeTime /\ Latest(S) \in MaybeTime
    BY <1>1, <1>3, <1>4 DEF MaybeTime, LineType
  <1>5. Lines("checkpoint") \subseteq DOMAIN log /\ checkpoints \subseteq DOMAIN log
        /\ restores \subseteq DOMAIN log /\ Lines(m) \subseteq DOMAIN log
    OBVIOUS
  <1>6. LogValues(log)[m] \in MaybeTime
    <2> HIDE DEF Lines, checkpoints, restores, Earliest, Latest
    <2>1. QED
      BY <1>2, <1>4, <1>5
  <1>7. ASSUME LogValues(log)[m] # None, m \notin {"restore", "checkpoint"}
        PROVE  \E n \in DOMAIN log : log[n].what = m /\ log[n].ts = LogValues(log)[m]
    <2>1. LogValues(log)[m] = Latest(Lines(m))
      BY <1>2, <1>7
    <2>2. Lines(m) # {}
      BY <2>1, <1>7
    <2>3. Max(Lines(m)) \in Lines(m)
      BY <1>3, <1>5, <2>2
    <2>4. QED
      BY <2>1, <2>2, <2>3
  <1>8. QED
    BY <1>6, <1>7

(* What a check computes: no duration is negative, and none is less than   *)
(* what its boundaries say.                                                *)
LEMMA Durations ==
  ASSUME NEW pod \in PodType, NEW log, \A m \in Markers : log[m] \in MaybeTime
  PROVE  LET p == [pod |-> pod, log |-> log]
         IN  /\ ColdMetrics(p).ecs \in Nat /\ ColdMetrics(p).cs \in Nat /\ ColdMetrics(p).tsot \in Nat
             /\ RestoreTime(p) \in Nat
             /\ log["warmup_done"] - Scheduled(pod) <= ColdMetrics(p).cs
             /\ log["up"] - Scheduled(pod) <= RestoreTime(p)
             /\ pod.ready - Scheduled(pod) <= RestoreTime(p)
  <1> DEFINE p == [pod |-> pod, log |-> log]
  <1>1. p.pod = pod /\ p.log = log
    OBVIOUS
  <1>2. MaybeTime \subseteq Int /\ Time \subseteq Int
    BY TimesAssumption DEF MaybeTime, Time, None
  <1>3. /\ pod.created \in Int /\ pod.scheduled \in Int /\ pod.sandbox \in Int /\ pod.pulling \in Int
        /\ pod.pulled \in Int /\ pod.started \in Int /\ pod.restored \in Int /\ pod.ready \in Int
    BY <1>2 DEF PodType
  <1>4. \A m \in Markers : log[m] \in Int
    BY <1>2
  <1>5. /\ log["weights_begin"] \in Int /\ log["weights_end"] \in Int /\ log["kv"] \in Int
        /\ log["graph_end"] \in Int /\ log["warmup_done"] \in Int /\ log["released"] \in Int
        /\ log["checkpoint"] \in Int /\ log["up"] \in Int /\ log["restore"] \in Int
    BY <1>4 DEF Markers, ColdMarkers, RestoreMarkers, Breakdown
  <1>6. \A t, u \in Int : Later(t, u) \in Int /\ t <= Later(t, u) /\ u <= Later(t, u)
    BY DEF Later
  <1>7. Scheduled(pod) \in Int /\ pod.created <= Scheduled(pod)
    BY <1>3, <1>6 DEF Scheduled
  <1>8. Started(pod) \in Int /\ Scheduled(pod) <= Started(pod)
    <2> DEFINE sandbox == IF pod.sandbox # None THEN pod.sandbox ELSE pod.pulling
               t1 == Later(Scheduled(pod), sandbox)
               t2 == Later(t1, pod.pulled)
    <2>1. sandbox \in Int
      BY <1>3
    <2> HIDE DEF sandbox
    <2>2. t1 \in Int /\ Scheduled(pod) <= t1
      BY <2>1, <1>6, <1>7
    <2> HIDE DEF t1
    <2>3. t2 \in Int /\ t1 <= t2
      BY <2>2, <1>6, <1>3
    <2> HIDE DEF t2
    <2>4. Later(t2, pod.started) \in Int /\ t2 <= Later(t2, pod.started)
      BY <2>3, <1>6, <1>3
    <2>5. Started(pod) = Later(t2, pod.started)
      BY DEF Started, t2, t1, sandbox
    <2>6. QED
      BY <2>2, <2>3, <2>4, <2>5, <1>7
  <1>9. /\ WarmedUp(p) \in Int /\ Started(pod) <= WarmedUp(p)
        /\ log["warmup_done"] <= WarmedUp(p)
    <2> DEFINE t1 == Later(Started(pod), log["weights_begin"])
               t2 == Later(t1, log["weights_end"])
               t3 == Later(t2, log["kv"])
               t4 == Later(t3, log["graph_end"])
               t5 == Later(t4, log["warmup_done"])
    <2>1. t1 \in Int /\ Started(pod) <= t1
      BY <1>6, <1>8, <1>5
    <2> HIDE DEF t1
    <2>2. t2 \in Int /\ t1 <= t2
      BY <2>1, <1>6, <1>5
    <2> HIDE DEF t2
    <2>3. t3 \in Int /\ t2 <= t3
      BY <2>2, <1>6, <1>5
    <2> HIDE DEF t3
    <2>4. t4 \in Int /\ t3 <= t4
      BY <2>3, <1>6, <1>5
    <2> HIDE DEF t4
    <2>5. t5 \in Int /\ t4 <= t5 /\ log["warmup_done"] <= t5
      BY <2>4, <1>6, <1>5
    <2>6. WarmedUp(p) = t5
      BY <1>1 DEF WarmedUp, t4, t3, t2, t1
    <2> HIDE DEF t5
    <2>7. QED
      BY <2>1, <2>2, <2>3, <2>4, <2>5, <2>6, <1>8, <1>5
  <1>10. Resumed(p) \in Int /\ WarmedUp(p) <= Resumed(p)
    <2> DEFINE t1 == Later(WarmedUp(p), log["released"])
               t2 == Later(t1, log["checkpoint"])
               t3 == Later(t2, log["up"])
    <2>1. t1 \in Int /\ WarmedUp(p) <= t1
      BY <1>6, <1>9, <1>5
    <2> HIDE DEF t1
    <2>2. t2 \in Int /\ t1 <= t2
      BY <2>1, <1>6, <1>5
    <2> HIDE DEF t2
    <2>3. t3 \in Int /\ t2 <= t3
      BY <2>2, <1>6, <1>5
    <2>4. Resumed(p) = t3
      BY <1>1 DEF Resumed, t2, t1
    <2> HIDE DEF t3
    <2>5. QED
      BY <2>1, <2>2, <2>3, <2>4, <1>9
  <1> DEFINE up == Later(Resumed(p), pod.ready)
  <1>11. up \in Int /\ Resumed(p) <= up
    BY <1>6, <1>10, <1>3
  <1>12. ColdMetrics(p) = [ ecs  |-> WarmedUp(p) - pod.created + (up - Resumed(p)),
                            cs   |-> WarmedUp(p) - Scheduled(pod),
                            tsot |-> Resumed(p) - WarmedUp(p) ]
    BY <1>1 DEF ColdMetrics
  <1>13. /\ ColdMetrics(p).ecs = WarmedUp(p) - pod.created + (up - Resumed(p))
         /\ ColdMetrics(p).cs = WarmedUp(p) - Scheduled(pod)
         /\ ColdMetrics(p).tsot = Resumed(p) - WarmedUp(p)
    BY <1>12
  <1>14. /\ RestoreTime(p) \in Nat
         /\ log["up"] - Scheduled(pod) <= RestoreTime(p)
         /\ pod.ready - Scheduled(pod) <= RestoreTime(p)
    <2> DEFINE line == IF log["restore"] # None THEN log["restore"] ELSE pod.restored
               t1 == Later(Started(pod), line)
               t2 == Later(t1, log["up"])
               t3 == Later(t2, pod.ready)
    <2>1. line \in Int
      BY <1>3, <1>5
    <2> HIDE DEF line
    <2>2. t1 \in Int /\ Started(pod) <= t1
      BY <2>1, <1>6, <1>8
    <2> HIDE DEF t1
    <2>3. t2 \in Int /\ t1 <= t2 /\ log["up"] <= t2
      BY <2>2, <1>6, <1>5
    <2> HIDE DEF t2
    <2>4. t3 \in Int /\ t2 <= t3 /\ pod.ready <= t3
      BY <2>3, <1>6, <1>3
    <2>5. RestoreTime(p) = t3 - Scheduled(pod)
      BY <1>1 DEF RestoreTime, t2, t1, line
    <2> HIDE DEF t3
    <2>6. QED
      BY <2>2, <2>3, <2>4, <2>5, <1>7, <1>8, <1>3, <1>5
  <1> HIDE DEF up
  <1>15. /\ ColdMetrics(p).ecs \in Nat /\ ColdMetrics(p).cs \in Nat /\ ColdMetrics(p).tsot \in Nat
         /\ log["warmup_done"] - Scheduled(pod) <= ColdMetrics(p).cs
    BY <1>13, <1>3, <1>5, <1>7, <1>8, <1>9, <1>10, <1>11
  <1>16. QED
    BY <1>14, <1>15

-------------------------------------------------------------------------------
(* The steps of the cluster.                                               *)

LEMMA LiveIsListed ==
  /\ Live = {k \in DOMAIN pods : pods[k].live}
  /\ Live' = {k \in DOMAIN pods' : pods'[k].live}
  BY DEF Live, Listed

LEMMA TimesAreNumbers ==
  MaybeTime \subseteq Int /\ Time \subseteq Nat /\ Time \subseteq Int /\ MaxTime \in Nat
  BY TimesAssumption DEF MaybeTime, Time, None

(* A pod moves on: its record and its log change, and it may leave a       *)
(* snapshot that is not Ready yet.                                         *)
LEMMA PodMoves ==
  ASSUME ClusterInv, NEW i \in Live, NEW pod \in PodType, NEW log,
         PodFacts(i, pod, now), Restorable(i, pod, snaps), pod.live <=> pod.at # "gone",
         Settled(pods[i], pod),
         pod.live => LogFacts(i, pod, log),
         pods' = [pods EXCEPT ![i] = pod],
         logs' = IF pod.live THEN [logs EXCEPT ![i] = log] ELSE [j \in DOMAIN logs \ {i} |-> logs[j]],
         snaps' = snaps \/ (snaps' = snaps \cup {[by |-> i, ready |-> None]} /\ pod.origin # None),
         faults' \in 0 .. MaxFaults,
         step' = step, now' = now, shot' = shot
  PROVE  ClusterInv'
  <1>1. /\ pods \in Seq(PodType) /\ i \in DOMAIN pods /\ pods[i].live /\ Live \subseteq DOMAIN pods
        /\ DOMAIN pods = 1 .. Len(pods) /\ Len(pods) \in Nat /\ DOMAIN logs = Live
    BY LiveIsListed DEF ClusterInv, ClusterTypes
  <1>2. /\ pods' \in Seq(PodType) /\ Len(pods') = Len(pods) /\ DOMAIN pods' = DOMAIN pods
        /\ pods'[i] = pod /\ \A k \in DOMAIN pods \ {i} : pods'[k] = pods[k]
    BY <1>1
  <1>3. Live' = IF pod.live THEN Live ELSE Live \ {i}
    BY <1>1, <1>2, LiveIsListed
  <1>4. DOMAIN logs' = Live'
    BY <1>1, <1>3
  <1>5. snaps \subseteq snaps' /\ snaps' \subseteq SnapType
    <2>1. [by |-> i, ready |-> None] \in SnapType /\ snaps \subseteq SnapType
      BY <1>1 DEF SnapType, MaybeTime, ClusterInv, ClusterTypes
    <2>2. QED
      BY <2>1
  <1>6. ClusterTypes'
    <2>1. Deploying' = Deploying
      BY DEF Deploying
    <2>2. QED
      BY <2>1, <1>2, <1>4, <1>5 DEF ClusterInv, ClusterTypes
  <1>7. ASSUME NEW k, NEW some, Restorable(k, some, snaps)
        PROVE  Restorable(k, some, snaps')
    BY <1>5, <1>7 DEF Restorable
  <1>8. ASSUME NEW k \in DOMAIN pods'
        PROVE  /\ PodFacts(k, pods'[k], now')
               /\ Restorable(k, pods'[k], snaps')
               /\ pods'[k].live <=> pods'[k].at # "gone"
    BY <1>2, <1>7 DEF ClusterInv
  <1>9. ASSUME NEW k \in Live'
        PROVE  LogFacts(k, pods'[k], logs'[k])
    <2>1. CASE k = i
      <3>1. pod.live
        BY <2>1, <1>3
      <3>2. logs'[i] = log
        BY <3>1, <1>1
      <3>3. QED
        BY <2>1, <3>1, <3>2, <1>2
    <2>2. CASE k # i
      <3>1. k \in Live
        BY <1>3
      <3>2. logs'[k] = logs[k] /\ pods'[k] = pods[k]
        BY <2>2, <3>1, <1>1, <1>2
      <3>3. QED
        BY <3>1, <3>2 DEF ClusterInv
    <2>3. QED
      BY <2>1, <2>2
  <1>10. ASSUME NEW s \in snaps'
         PROVE  SnapFacts(s, pods', now')
    <2>1. CASE s \in snaps
      <3>1. SnapFacts(s, pods, now) /\ s.by \in Nat
        BY <2>1 DEF ClusterInv, ClusterTypes, SnapType
      <3>2. s.by # 0 => pods'[s.by].origin # None
        <4>1. s.by # 0 => s.by \in DOMAIN pods /\ pods[s.by].origin # None
          BY <3>1, <1>1 DEF SnapFacts
        <4>2. QED
          BY <4>1, <1>2 DEF Settled
      <3>3. QED
        BY <3>1, <3>2, <1>2 DEF SnapFacts
    <2>2. CASE s = [by |-> i, ready |-> None] /\ pod.origin # None
      <3>1. s.by = i /\ s.ready = None
        BY <2>2
      <3>2. now \in Nat /\ i \in 1 .. Len(pods)
        BY <1>1, TimesAreNumbers DEF ClusterInv, ClusterTypes
      <3>3. QED
        BY <2>2, <3>1, <3>2, <1>2 DEF SnapFacts, None
    <2>3. QED
      BY <2>1, <2>2
  <1>11. ShotFacts'
    <2> SUFFICES ASSUME NEW taken \in shot
                 PROVE  /\ taken \in Seq(PodType) /\ Len(taken) <= Len(pods)
                        /\ \A k \in DOMAIN taken :
                             /\ PodFacts(k, taken[k], now)
                             /\ Restorable(k, taken[k], snaps')
                             /\ Settled(taken[k], pods'[k])
      BY <1>2 DEF ShotFacts
    <2>1. taken \in Seq(PodType) /\ Len(taken) <= Len(pods)
      BY DEF ClusterInv, ShotFacts
    <2>2. ASSUME NEW k \in DOMAIN taken
          PROVE  /\ PodFacts(k, taken[k], now)
                 /\ Restorable(k, taken[k], snaps')
                 /\ Settled(taken[k], pods'[k])
      <3>1. PodFacts(k, taken[k], now) /\ Restorable(k, taken[k], snaps) /\ Settled(taken[k], pods[k])
        BY DEF ClusterInv, ShotFacts
      <3>2. k \in DOMAIN pods
        BY <2>1, <1>1
      <3>3. Settled(taken[k], pods'[k])
        BY <3>1, <3>2, <1>2 DEF Settled
      <3>4. QED
        BY <3>1, <3>3, <1>7
    <2>3. QED
      BY <2>1, <2>2
  <1>12. QED
    BY <1>6, <1>8, <1>9, <1>10, <1>11 DEF ClusterInv

(* A log that grows, of a pod that has started.                            *)
LEMMA LogGrows ==
  ASSUME ClusterInv, NEW i \in Live, NEW pod, Settled(pods[i], pod),
         NEW lines \in Seq(LineType),
         pod.at \in {"new", "scheduled"} => pods[i].at \in {"new", "scheduled"} /\ lines = <<>>,
         \A n \in DOMAIN lines :
           /\ lines[n].what = "warmup_done" => pod.warm # None /\ pod.warm <= lines[n].ts
           /\ lines[n].what = "up" /\ pod.origin = i => pod.scheduled + LoadTime <= lines[n].ts
  PROVE  LogFacts(i, pod, logs[i] \o lines)
  <1> DEFINE log == logs[i] \o lines
  <1>1. /\ logs[i] \in Seq(LineType) /\ PodFacts(i, pods[i], now) /\ LogFacts(i, pods[i], logs[i])
        /\ pods[i] \in PodType /\ pods[i].at # "gone"
    BY LiveIsListed DEF ClusterInv, ClusterTypes, LogFacts
  <1>2. log \in Seq(LineType)
    BY <1>1
  <1>3. pods[i].at \notin {"new", "scheduled"} => pods[i].origin # None
    BY <1>1 DEF PodFacts, PodType, Phase, Warmed
  <1>4. pod.at \in {"new", "scheduled"} => log = <<>>
    BY <1>1 DEF LogFacts
  <1>5. ASSUME NEW n \in DOMAIN log
        PROVE  /\ log[n].what = "warmup_done" => pod.warm # None /\ pod.warm <= log[n].ts
               /\ log[n].what = "up" /\ pod.origin = i => pod.scheduled + LoadTime <= log[n].ts
    <2>1. CASE n \in DOMAIN logs[i]
      <3>1. log[n] = logs[i][n]
        BY <2>1, <1>1
      <3>2. pods[i].origin # None
        BY <2>1, <1>1, <1>3 DEF LogFacts
      <3>3. QED
        BY <3>1, <3>2, <2>1, <1>1 DEF LogFacts, Settled
    <2>2. CASE n \notin DOMAIN logs[i]
      <3>1. n - Len(logs[i]) \in DOMAIN lines /\ log[n] = lines[n - Len(logs[i])]
        BY <2>2, <1>1
      <3>2. QED
        BY <3>1
    <2>3. QED
      BY <2>1, <2>2
  <1> HIDE DEF log
  <1>6. LogFacts(i, pod, log)
    BY <1>2, <1>4, <1>5 DEF LogFacts
  <1>7. QED
    BY <1>6 DEF log

LEMMA MoveKeeps ==
  ASSUME ClusterInv, NEW i \in Live, NEW pod \in PodType, NEW lines \in Seq(LineType),
         Move(i, pod, lines),
         PodFacts(i, pod, now), Restorable(i, pod, snaps), pod.live, pod.at # "gone",
         Settled(pods[i], pod),
         pod.at \in {"new", "scheduled"} => pods[i].at \in {"new", "scheduled"} /\ lines = <<>>,
         \A n \in DOMAIN lines :
           /\ lines[n].what = "warmup_done" => pod.warm # None /\ pod.warm <= lines[n].ts
           /\ lines[n].what = "up" /\ pod.origin = i => pod.scheduled + LoadTime <= lines[n].ts,
         snaps' = snaps \/ (snaps' = snaps \cup {[by |-> i, ready |-> None]} /\ pod.origin # None),
         faults' \in 0 .. MaxFaults,
         step' = step, now' = now, shot' = shot
  PROVE  ClusterInv'
  <1>1. LogFacts(i, pod, logs[i] \o lines)
    BY LogGrows
  <1>2. i \in DOMAIN logs
    BY DEF ClusterInv, ClusterTypes
  <1>3. pods' = [pods EXCEPT ![i] = pod] /\ logs' = [logs EXCEPT ![i] = logs[i] \o lines]
    BY <1>2 DEF Move
  <1>4. QED
    BY <1>1, <1>3, PodMoves

(* A step that writes nothing.                                             *)
LEMMA QuietMoveKeeps ==
  ASSUME ClusterInv, NEW i \in Live, NEW pod \in PodType,
         Move(i, pod, <<>>),
         PodFacts(i, pod, now), Restorable(i, pod, snaps), pod.live, pod.at # "gone",
         Settled(pods[i], pod),
         pod.at \in {"new", "scheduled"} => pods[i].at \in {"new", "scheduled"},
         snaps' = snaps, faults' \in 0 .. MaxFaults,
         step' = step, now' = now, shot' = shot
  PROVE  ClusterInv'
  <1> DEFINE lines == <<>>
  <1>1. lines \in Seq(LineType) /\ DOMAIN lines = {} /\ lines = <<>> /\ Move(i, pod, lines)
    OBVIOUS
  <1> HIDE DEF lines
  <1>2. QED
    BY <1>1, MoveKeeps

(* What a pod on its way is known to be.                                   *)
LEMMA LivePod ==
  ASSUME ClusterInv, NEW i \in Live
  PROVE  /\ pods[i] \in PodType /\ i \in DOMAIN pods /\ pods[i].live /\ pods[i].at # "gone"
         /\ PodFacts(i, pods[i], now) /\ Restorable(i, pods[i], snaps)
         /\ now \in Time /\ now \in Nat /\ i \in Nat \ {0} /\ DOMAIN pods = 1 .. Len(pods)
  <1>1. i \in DOMAIN pods /\ pods[i].live /\ pods \in Seq(PodType) /\ now \in Time
    BY LiveIsListed DEF ClusterInv, ClusterTypes
  <1>2. DOMAIN pods = 1 .. Len(pods) /\ pods[i] \in PodType
    BY <1>1
  <1>3. QED
    BY <1>1, <1>2, TimesAreNumbers DEF ClusterInv

LEMMA ALine ==
  ASSUME now \in Time, NEW what \in Markers
  PROVE  Line(what) \in LineType /\ Line(what).ts = now /\ Line(what).what = what
  BY DEF Line, LineType

LEMMA ScheduleKeeps ==
  ASSUME ClusterInv, NEW i \in Live, Schedule(i), UNCHANGED <<step, now, shot>>
  PROVE  ClusterInv'
  <1> DEFINE pod == [pods[i] EXCEPT !.scheduled = now, !.at = "scheduled"]
  <1>1. /\ pods[i] \in PodType /\ pods[i].at = "new" /\ PodFacts(i, pods[i], now)
        /\ now \in Time /\ now \in Nat
    BY LivePod DEF Schedule
  <1>2. pod \in PodType
    BY <1>1 DEF PodType, MaybeTime, Phase
  <1>3. PodFacts(i, pod, now)
    BY <1>1 DEF PodFacts, PodType, Warmed, None
  <1>4. Restorable(i, pod, snaps) /\ Settled(pods[i], pod) /\ pod.live /\ pod.at = "scheduled"
    BY <1>1, LivePod DEF PodFacts, Restorable, Settled, PodType
  <1>5. Move(i, pod, <<>>) /\ snaps' = snaps /\ faults' = faults /\ faults \in 0 .. MaxFaults
    BY DEF Schedule, ClusterInv, ClusterTypes
  <1> HIDE DEF pod
  <1>6. QED
    BY <1>1, <1>2, <1>3, <1>4, <1>5, QuietMoveKeeps

(* Blip and Ready set only the condition of the pod.                       *)
LEMMA ReadyKeeps ==
  ASSUME ClusterInv, NEW i \in Live, Ready(i) \/ Blip(i), UNCHANGED <<step, now, shot>>
  PROVE  ClusterInv'
  <1> DEFINE pod == IF Ready(i) THEN [pods[i] EXCEPT !.ready = now, !.at = "ready"]
                    ELSE [pods[i] EXCEPT !.ready = None, !.at = "up"]
  <1>1. /\ pods[i] \in PodType /\ pods[i].at \in {"up", "ready"} /\ PodFacts(i, pods[i], now)
        /\ now \in Time /\ now \in Nat /\ pods[i].at \in Warmed
    BY LivePod DEF Ready, Blip, Warmed
  <1>2. pod \in PodType
    BY <1>1 DEF PodType, MaybeTime, Phase
  <1>3. PodFacts(i, pod, now)
    BY <1>1 DEF PodFacts, PodType, Warmed, None
  <1>4. Restorable(i, pod, snaps) /\ Settled(pods[i], pod) /\ pod.live /\ pod.at \in {"ready", "up"}
    BY <1>1, LivePod DEF PodFacts, Restorable, Settled, PodType
  <1>5. Move(i, pod, <<>>) /\ snaps' = snaps
    BY DEF Ready, Blip
  <1>6. faults' \in 0 .. MaxFaults
    BY BoundsAssumption DEF Ready, Blip, ClusterInv, ClusterTypes
  <1> HIDE DEF pod
  <1>7. QED
    BY <1>1, <1>2, <1>3, <1>4, <1>5, <1>6, QuietMoveKeeps

(* A container starts from a snapshot.                                     *)
RestoredPod(i, from) == [Launched(i) EXCEPT !.origin = from, !.restored = now, !.at = "frozen"]

LEMMA LaunchedPod ==
  ASSUME ClusterInv, NEW i \in Live, pods[i].at = "scheduled",
         NEW from \in Int, from \notin {None, i},
         NEW pod, pod = RestoredPod(i, from)
  PROVE  /\ pod \in PodType /\ PodFacts(i, pod, now) /\ Settled(pods[i], pod)
         /\ pod.live /\ pod.at = "frozen" /\ pod.origin = from /\ pod.restored = now
  <1>1. /\ pods[i] \in PodType /\ PodFacts(i, pods[i], now) /\ pods[i].live
        /\ now \in Time /\ now \in Nat /\ i \in Nat \ {0} /\ now \in MaybeTime /\ "frozen" \in Phase
    BY LivePod DEF MaybeTime, Phase
  <1>2. /\ pod \in PodType
        /\ pod.name = pods[i].name /\ pod.created = pods[i].created /\ pod.scheduled = pods[i].scheduled
        /\ pod.started = now /\ pod.restored = now /\ pod.ready = pods[i].ready
        /\ pod.live = pods[i].live /\ pod.origin = from /\ pod.warm = pods[i].warm /\ pod.at = "frozen"
    <2> DEFINE L == Launched(i)
    <2>1. /\ L \in PodType
          /\ L.name = pods[i].name /\ L.created = pods[i].created /\ L.scheduled = pods[i].scheduled
          /\ L.started = now /\ L.ready = pods[i].ready
          /\ L.live = pods[i].live /\ L.warm = pods[i].warm
      BY <1>1 DEF Launched, PodType
    <2>2. pod = [L EXCEPT !.origin = from, !.restored = now, !.at = "frozen"]
      BY DEF RestoredPod
    <2> HIDE DEF L
    <2>3. pod \in PodType
      BY <1>1, <2>1, <2>2 DEF PodType
    <2>4. QED
      BY <1>1, <2>1, <2>2, <2>3 DEF PodType
  <1>3. /\ pods[i].name = i /\ pods[i].created <= now /\ pods[i].scheduled # None
        /\ pods[i].created <= pods[i].scheduled /\ pods[i].scheduled <= now
        /\ pods[i].origin = None /\ pods[i].ready = None /\ pods[i].warm = None
    BY <1>1 DEF PodFacts
  <1>4. PodFacts(i, pod, now)
    BY <1>1, <1>2, <1>3 DEF PodFacts, Warmed, None
  <1>5. Settled(pods[i], pod)
    BY <1>3 DEF Settled
  <1>6. QED
    BY <1>1, <1>2, <1>4, <1>5

LEMMA StartColdKeeps ==
  ASSUME ClusterInv, NEW i \in Live, StartCold(i), UNCHANGED <<step, now, shot>>
  PROVE  ClusterInv'
  <1> DEFINE pod   == [Launched(i) EXCEPT !.origin = i, !.at = "loading"]
             lines == <<Line("weights_begin")>>
  <1>1. /\ pods[i] \in PodType /\ pods[i].at = "scheduled" /\ PodFacts(i, pods[i], now)
        /\ now \in Time /\ now \in Nat /\ i \in Nat \ {0}
    BY LivePod DEF StartCold
  <1>2. /\ pod \in PodType
        /\ pod.name = pods[i].name /\ pod.created = pods[i].created /\ pod.scheduled = pods[i].scheduled
        /\ pod.started = now /\ pod.restored = pods[i].restored /\ pod.ready = pods[i].ready
        /\ pod.live = pods[i].live /\ pod.origin = i /\ pod.warm = pods[i].warm /\ pod.at = "loading"
    <2>1. now \in MaybeTime /\ i \in Int /\ "loading" \in Phase
      BY <1>1 DEF MaybeTime, Phase
    <2> DEFINE L == Launched(i)
    <2>2. L \in PodType /\ /\ L.name = pods[i].name /\ L.created = pods[i].created /\ L.scheduled = pods[i].scheduled
        /\ L.started = now /\ L.restored = pods[i].restored /\ L.ready = pods[i].ready
        /\ L.live = pods[i].live /\ L.warm = pods[i].warm
      BY <1>1, <2>1 DEF Launched, PodType
    <2>3. pod = [L EXCEPT !.origin = i, !.at = "loading"]
      OBVIOUS
    <2> HIDE DEF L, pod
    <2>4. pod \in PodType
      BY <2>1, <2>2, <2>3 DEF PodType
    <2>5. QED
      BY <2>1, <2>2, <2>3, <2>4 DEF PodType
  <1>3. /\ pod \in PodType /\ PodFacts(i, pod, now) /\ Settled(pods[i], pod)
        /\ pod.live /\ pod.at = "loading" /\ pod.origin = i
    <2> HIDE DEF pod
    <2>1. PodFacts(i, pod, now)
      BY <1>1, <1>2 DEF PodFacts, Warmed, None
    <2>2. QED
      BY <1>1, <1>2, <2>1, LivePod DEF PodFacts, Settled
  <1>4. Restorable(i, pod, snaps)
    BY <1>3 DEF Restorable
  <1>6. Move(i, pod, lines) /\ snaps' = snaps
    BY DEF StartCold
  <1>7. faults' \in 0 .. MaxFaults
    BY BoundsAssumption DEF StartCold, ClusterInv, ClusterTypes
  <1>8. lines \in Seq(LineType) /\ \A n \in DOMAIN lines : lines[n].what = "weights_begin"
    BY <1>1, ALine DEF Markers, Breakdown
  <1> HIDE DEF pod, lines
  <1>9. QED
    BY <1>3, <1>4, <1>6, <1>7, <1>8, MoveKeeps

(* There are only so many times, so some snapshot is the newest.           *)
LEMMA NewestIsReady ==
  ASSUME snaps \subseteq SnapType, ReadySnaps # {}
  PROVE  LET newest == CHOOSE s \in ReadySnaps : \A r \in ReadySnaps : r.ready <= s.ready
         IN  newest \in ReadySnaps /\ \A r \in ReadySnaps : r.ready <= newest.ready
  <1> DEFINE Ages == {MaxTime - s.ready : s \in ReadySnaps}
  <1>1. \A s \in ReadySnaps : s.ready \in Time
    BY DEF ReadySnaps, SnapType, MaybeTime
  <1>2. Ages \subseteq Nat /\ Ages # {}
    BY <1>1, TimesAreNumbers DEF Time
  <1>3. PICK age \in Ages : \A a \in Ages : age <= a
    BY <1>2, NatMin
  <1>4. PICK s \in ReadySnaps : age = MaxTime - s.ready
    OBVIOUS
  <1>5. ASSUME NEW r \in ReadySnaps
        PROVE  r.ready <= s.ready
    <2>0. r.ready \in Nat /\ s.ready \in Nat
      BY <1>1, TimesAreNumbers
    <2>1. MaxTime - r.ready \in Ages /\ r.ready \in Int /\ s.ready \in Int /\ MaxTime \in Int
      BY <2>0, TimesAreNumbers
    <2>2. MaxTime - s.ready <= MaxTime - r.ready
      BY <2>1, <1>3, <1>4
    <2>3. QED
      BY <2>1, <2>2
  <1>6. QED
    BY <1>5

LEMMA StartRestoredKeeps ==
  ASSUME ClusterInv, NEW i \in Live, StartRestored(i), UNCHANGED <<step, now, shot>>
  PROVE  ClusterInv'
  <1> DEFINE newest == CHOOSE s \in ReadySnaps : \A r \in ReadySnaps : r.ready <= s.ready
             pod    == [Launched(i) EXCEPT !.origin = newest.by, !.restored = now, !.at = "frozen"]
             lines  == <<Line("checkpoint")>>
  <1>1. /\ pods[i] \in PodType /\ pods[i].at = "scheduled" /\ PodFacts(i, pods[i], now)
        /\ now \in Time /\ now \in Nat /\ i \in Nat \ {0}
    BY LivePod DEF StartRestored
  <1>2. newest \in snaps /\ newest \in SnapType /\ newest.ready # None /\ SnapFacts(newest, pods, now)
    BY NewestIsReady DEF StartRestored, ClusterInv, ClusterTypes, ReadySnaps
  <1>3. newest.by # i
    BY <1>1, <1>2 DEF SnapFacts, PodFacts
  <1> HIDE DEF newest
  <1>4. pod = RestoredPod(i, newest.by)
    BY DEF RestoredPod
  <1>5. /\ pod \in PodType /\ PodFacts(i, pod, now) /\ Settled(pods[i], pod) /\ pod.live
        /\ pod.at = "frozen" /\ pod.origin = newest.by /\ pod.restored = now
    <2>1. newest.by \in Int /\ newest.by \notin {None, i}
      BY <1>1, <1>2, <1>3 DEF None, SnapType
    <2> HIDE DEF pod
    <2>2. QED
      BY <1>1, <1>3, <1>4, <2>1, LaunchedPod
  <1>6. newest.ready <= now
    BY <1>2 DEF SnapFacts
  <1>7. Restorable(i, pod, snaps)
    BY <1>2, <1>5, <1>6 DEF Restorable
  <1>8. Move(i, pod, lines) /\ snaps' = snaps /\ faults' = faults /\ faults \in 0 .. MaxFaults
    BY DEF StartRestored, ClusterInv, ClusterTypes, newest
  <1>9. lines \in Seq(LineType) /\ \A n \in DOMAIN lines : lines[n].what = "checkpoint"
    BY <1>1, ALine DEF Markers, ColdMarkers
  <1> HIDE DEF pod, lines
  <1>10. QED
    BY <1>5, <1>7, <1>8, <1>9, MoveKeeps


LEMMA WarmKeeps ==
  ASSUME ClusterInv, NEW i \in Live, Warm(i), UNCHANGED <<step, now, shot>>
  PROVE  ClusterInv'
  <1> DEFINE pod   == [pods[i] EXCEPT !.warm = FirstTime(@), !.at = "warm"]
             lines == <<Line("weights_end"), Line("kv"), Line("graph_end"), Line("warmup_done")>>
             first == FirstTime(pods[i].warm)
  <1>1. /\ pods[i] \in PodType /\ pods[i].at = "loading" /\ PodFacts(i, pods[i], now)
        /\ now \in Time /\ now \in Nat /\ pods[i].started + LoadTime <= now
    BY LivePod DEF Warm
  <1>2. /\ pods[i].warm \in Int /\ pods[i].started \in Int /\ pods[i].scheduled \in Int /\ LoadTime \in Nat
        /\ pods[i].warm \in MaybeTime
    BY <1>1, TimesAreNumbers, TimesAssumption DEF PodType
  <1>3. /\ first \in Time /\ first # None /\ first <= now
        /\ pods[i].warm # None => first = pods[i].warm
    BY <1>1, <1>2 DEF FirstTime, PodFacts, MaybeTime, None, Time
  <1>4. pods[i].origin # None /\ pods[i].scheduled + LoadTime <= now
    <2>1. pods[i].origin # None /\ pods[i].scheduled <= pods[i].started
      BY <1>1 DEF PodFacts
    <2>2. QED
      BY <2>1, <1>1, <1>2
  <1>5. pod = [pods[i] EXCEPT !.warm = first, !.at = "warm"]
    OBVIOUS
  <1> HIDE DEF first, pod
  <1>6. pod \in PodType
    BY <1>1, <1>3, <1>5 DEF PodType, MaybeTime, Phase
  <1>7. PodFacts(i, pod, now)
    BY <1>1, <1>3, <1>4, <1>5 DEF PodFacts, PodType, Warmed
  <1>8. /\ Restorable(i, pod, snaps) /\ Settled(pods[i], pod) /\ pod.live /\ pod.at = "warm"
        /\ pod.warm = first
    BY <1>1, <1>3, <1>5, LivePod DEF PodFacts, Restorable, Settled, PodType
  <1>9. Move(i, pod, lines) /\ snaps' = snaps /\ faults' = faults /\ faults \in 0 .. MaxFaults
    BY DEF Warm, ClusterInv, ClusterTypes, pod
  <1>10. lines \in Seq(LineType) /\ \A n \in DOMAIN lines : lines[n].what # "up" /\ lines[n].ts = now
    <2>1. {"weights_end", "kv", "graph_end", "warmup_done"} \subseteq Markers
      BY DEF Markers, Breakdown, ColdMarkers
    <2>2. QED
      BY <2>1, <1>1, ALine
  <1> HIDE DEF lines
  <1>11. QED
    BY <1>3, <1>6, <1>7, <1>8, <1>9, <1>10, MoveKeeps

(* The wrapper has its checkpoint, or goes on without.                     *)
LEMMA CheckpointKeeps ==
  ASSUME ClusterInv, NEW i \in Live, Checkpoint(i) \/ CheckpointFails(i),
         UNCHANGED <<step, now, shot>>
  PROVE  ClusterInv'
  <1> DEFINE pod   == [pods[i] EXCEPT !.at = "frozen"]
             lines == IF Checkpoint(i) THEN <<Line("released"), Line("checkpoint")>>
                      ELSE <<Line("released")>>
  <1>1. /\ pods[i] \in PodType /\ pods[i].at = "warm" /\ PodFacts(i, pods[i], now)
        /\ now \in Time /\ now \in Nat
    BY LivePod DEF Checkpoint, CheckpointFails
  <1>2. pod \in PodType
    BY <1>1 DEF PodType, Phase
  <1>3. PodFacts(i, pod, now)
    BY <1>1 DEF PodFacts, PodType, Warmed
  <1>4. /\ Restorable(i, pod, snaps) /\ Settled(pods[i], pod) /\ pod.live /\ pod.at = "frozen"
        /\ pod.origin # None
    BY <1>1, LivePod DEF PodFacts, Restorable, Settled, PodType, Warmed
  <1>5. Move(i, pod, lines)
    BY DEF Checkpoint, CheckpointFails
  <1>6. snaps' = snaps \/ snaps' = snaps \cup {[by |-> i, ready |-> None]}
    BY DEF Checkpoint, CheckpointFails
  <1>7. faults' \in 0 .. MaxFaults
    BY BoundsAssumption DEF Checkpoint, CheckpointFails, ClusterInv, ClusterTypes
  <1>8. lines \in Seq(LineType) /\ \A n \in DOMAIN lines : lines[n].what \in {"released", "checkpoint"}
    <2>1. {"released", "checkpoint"} \subseteq Markers
      BY DEF Markers, ColdMarkers
    <2>2. Line("released") \in LineType /\ Line("checkpoint") \in LineType
          /\ Line("released").what = "released" /\ Line("checkpoint").what = "checkpoint"
      BY <2>1, <1>1, ALine
    <2>3. QED
      BY <2>2
  <1> HIDE DEF pod, lines
  <1>9. QED
    BY <1>2, <1>3, <1>4, <1>5, <1>6, <1>7, <1>8, MoveKeeps

LEMMA UpKeeps ==
  ASSUME ClusterInv, NEW i \in Live, Up(i), UNCHANGED <<step, now, shot>>
  PROVE  ClusterInv'
  <1> DEFINE pod   == [pods[i] EXCEPT !.at = "up"]
             lines == <<Line("up")>>
  <1>1. /\ pods[i] \in PodType /\ pods[i].at = "frozen" /\ PodFacts(i, pods[i], now)
        /\ now \in Time /\ now \in Nat
    BY LivePod DEF Up
  <1>2. pod \in PodType
    BY <1>1 DEF PodType, Phase
  <1>3. PodFacts(i, pod, now)
    BY <1>1 DEF PodFacts, PodType, Warmed
  <1>4. /\ Restorable(i, pod, snaps) /\ Settled(pods[i], pod) /\ pod.live /\ pod.at = "up"
    BY <1>1, LivePod DEF PodFacts, Restorable, Settled, PodType
  <1>5. pod.origin = i => pod.scheduled + LoadTime <= now
    BY <1>3, <1>4 DEF PodFacts, Warmed
  <1>6. Move(i, pod, lines) /\ snaps' = snaps /\ faults' = faults /\ faults \in 0 .. MaxFaults
    BY DEF Up, ClusterInv, ClusterTypes
  <1>7. lines \in Seq(LineType) /\ \A n \in DOMAIN lines : lines[n].what = "up" /\ lines[n].ts = now
    BY <1>1, ALine DEF Markers, ColdMarkers
  <1> HIDE DEF pod, lines
  <1>8. QED
    BY <1>2, <1>3, <1>4, <1>5, <1>6, <1>7, MoveKeeps

LEMMA CrashKeeps ==
  ASSUME ClusterInv, NEW i \in Live, Crash(i), UNCHANGED <<step, now, shot>>
  PROVE  ClusterInv'
  <1> DEFINE pod   == [pods[i] EXCEPT !.started = now, !.ready = None, !.at = "loading"]
             lines == <<Line("weights_begin")>>
  <1>1. /\ pods[i] \in PodType /\ pods[i].at \in {"loading"} \cup Warmed /\ PodFacts(i, pods[i], now)
        /\ now \in Time /\ now \in Nat /\ None \in MaybeTime /\ now \in MaybeTime
    BY LivePod DEF Crash, Warmed, MaybeTime
  <1>2. pod \in PodType
    BY <1>1 DEF PodType, Phase
  <1>3. PodFacts(i, pod, now)
    <2>1. /\ pod.name = pods[i].name /\ pod.created = pods[i].created /\ pod.scheduled = pods[i].scheduled
          /\ pod.started = now /\ pod.restored = pods[i].restored /\ pod.ready = None
          /\ pod.origin = pods[i].origin /\ pod.warm = pods[i].warm /\ pod.at = "loading"
      BY <1>1 DEF PodType
    <2> HIDE DEF pod
    <2>2. /\ pods[i].name = i /\ pods[i].created <= now /\ pods[i].origin # None
          /\ pods[i].scheduled # None /\ pods[i].created <= pods[i].scheduled
          /\ pods[i].scheduled <= now /\ pods[i].warm <= now /\ pods[i].restored <= now
          /\ pods[i].restored # None <=> pods[i].origin \notin {None, i}
      BY <1>1 DEF PodFacts
    <2>3. now # None
      BY <1>1 DEF None
    <2>4. QED
      BY <2>1, <2>2, <2>3 DEF PodFacts, Warmed
  <1>4. Restorable(i, pod, snaps) /\ Settled(pods[i], pod) /\ pod.live /\ pod.at = "loading"
    BY <1>1, LivePod DEF PodFacts, Restorable, Settled, PodType
  <1>5. pods' = [pods EXCEPT ![i] = pod]
    BY DEF Crash
  <1>6. /\ logs' = [logs EXCEPT ![i] = lines] /\ snaps' = snaps
        /\ faults' \in 0 .. MaxFaults
    BY BoundsAssumption DEF Crash, ClusterInv, ClusterTypes
  <1>7. lines \in Seq(LineType) /\ \A n \in DOMAIN lines : lines[n].what = "weights_begin"
    BY <1>1, ALine DEF Markers, Breakdown
  <1> HIDE DEF pod, lines
  <1>8. LogFacts(i, pod, lines)
    BY <1>4, <1>7 DEF LogFacts
  <1>9. QED
    BY <1>2, <1>3, <1>4, <1>5, <1>6, <1>8, PodMoves

(* What is left of a rotated log is as good as the log.                    *)
LEMMA RotateKeeps ==
  ASSUME ClusterInv, NEW i \in Live, Rotate(i), UNCHANGED <<step, now, shot>>
  PROVE  ClusterInv'
  <1>1. PICK n \in DOMAIN logs[i] : logs' = [logs EXCEPT ![i] = SubSeq(@, n + 1, Len(@))]
    BY DEF Rotate
  <1> DEFINE pod == pods[i]
             log == SubSeq(logs[i], n + 1, Len(logs[i]))
  <1>2. /\ pod \in PodType /\ PodFacts(i, pod, now) /\ Restorable(i, pod, snaps)
        /\ pod.live /\ pod.at # "gone" /\ i \in DOMAIN pods /\ pods \in Seq(PodType)
    BY LivePod DEF ClusterInv, ClusterTypes
  <1>3. logs[i] \in Seq(LineType) /\ LogFacts(i, pod, logs[i]) /\ i \in DOMAIN logs
    BY DEF ClusterInv, ClusterTypes, LogFacts
  <1>4. n \in 1 .. Len(logs[i]) /\ Len(logs[i]) \in Nat
    BY <1>3
  <1>5. /\ log \in Seq(LineType)
        /\ \A m \in DOMAIN log : m + n \in DOMAIN logs[i] /\ log[m] = logs[i][m + n]
    BY <1>3, <1>4
  <1>6. pod.at \notin {"new", "scheduled"}
    BY <1>3, <1>4 DEF LogFacts
  <1> HIDE DEF log
  <1>7. LogFacts(i, pod, log)
    BY <1>3, <1>5, <1>6 DEF LogFacts
  <1>8. pods' = [pods EXCEPT ![i] = pod] /\ logs' = [logs EXCEPT ![i] = log]
    <2>1. pods = [pods EXCEPT ![i] = pods[i]]
      BY <1>2
    <2>2. pods' = pods
      BY DEF Rotate
    <2>3. QED
      BY <1>1, <1>3, <2>1, <2>2 DEF log
  <1>9. snaps' = snaps /\ faults' \in 0 .. MaxFaults /\ Settled(pods[i], pod)
    BY BoundsAssumption DEF Rotate, ClusterInv, ClusterTypes, Settled
  <1> HIDE DEF pod
  <1>10. QED
    BY <1>2, <1>7, <1>8, <1>9, PodMoves

LEMMA EvictKeeps ==
  ASSUME ClusterInv, NEW i \in Live, Evict(i), UNCHANGED <<step, now, shot>>
  PROVE  ClusterInv'
  <1> DEFINE pod == [pods[i] EXCEPT !.live = FALSE, !.at = "gone"]
  <1>1. /\ pods[i] \in PodType /\ PodFacts(i, pods[i], now)
        /\ now \in Time /\ now \in Nat /\ pods[i].at # "gone"
    BY LivePod
  <1>2. pod \in PodType
    BY <1>1 DEF PodType, Phase
  <1>3. PodFacts(i, pod, now)
    BY <1>1 DEF PodFacts, PodType, Warmed
  <1>4. Restorable(i, pod, snaps) /\ Settled(pods[i], pod) /\ ~pod.live /\ pod.at = "gone"
    BY <1>1, LivePod DEF PodFacts, Restorable, Settled, PodType
  <1>5. pods' = [pods EXCEPT ![i] = pod]
    BY DEF Evict
  <1>6. /\ logs' = [j \in DOMAIN logs \ {i} |-> logs[j]] /\ snaps' = snaps
        /\ faults' \in 0 .. MaxFaults
    BY BoundsAssumption DEF Evict, ClusterInv, ClusterTypes
  <1> HIDE DEF pod
  <1>7. QED
    BY <1>2, <1>3, <1>4, <1>5, <1>6, PodMoves

LEMMA PodStepKeeps ==
  ASSUME ClusterInv, NEW i \in DOMAIN pods, PodStep(i)
  PROVE  ClusterInv'
  <1>1. i \in Live /\ UNCHANGED <<step, now, shot>>
    BY DEF PodStep
  <1>2. \/ Schedule(i) \/ StartRestored(i) \/ StartCold(i) \/ Warm(i)
        \/ Checkpoint(i) \/ CheckpointFails(i) \/ Up(i) \/ Ready(i)
        \/ Crash(i) \/ Blip(i) \/ Rotate(i) \/ Evict(i)
    BY DEF PodStep
  <1>3. QED
    BY <1>1, <1>2, ScheduleKeeps, StartRestoredKeeps, StartColdKeeps, WarmKeeps, CheckpointKeeps,
       UpKeeps, ReadyKeeps, CrashKeeps, RotateKeeps, EvictKeeps


(* What was so of a pod stays so as time passes.                           *)
LEMMA TimePasses ==
  ASSUME NEW k, NEW pod \in PodType, NEW t \in Nat, NEW u \in Nat, t <= u, PodFacts(k, pod, t)
  PROVE  PodFacts(k, pod, u)
  <1>1. MaybeTime \subseteq Int /\ Time \subseteq Int
    BY TimesAreNumbers
  <1>2. /\ pod.created \in Int /\ pod.scheduled \in Int /\ pod.warm \in Int
        /\ pod.restored \in Int
    BY <1>1 DEF PodType
  <1>3. LoadTime \in Int
    BY TimesAssumption
  <1>4. QED
    BY <1>2, <1>3 DEF PodFacts

LEMMA TickKeeps == ClusterInv /\ Tick => ClusterInv'
  <1> SUFFICES ASSUME ClusterInv, Tick
               PROVE  ClusterInv'
    OBVIOUS
  <1>1. /\ now' = now + 1 /\ now < MaxTime /\ now \in Nat /\ MaxTime \in Nat /\ now \in Time
        /\ UNCHANGED <<step, pods, logs, snaps, shot, faults>>
    BY TimesAreNumbers DEF Tick, ClusterInv, ClusterTypes
  <1>2. now' \in Time /\ 1 <= now'
    BY <1>1 DEF Time
  <1>3. Live' = Live /\ Deploying' = Deploying
    BY <1>1 DEF Live, Listed, Deploying
  <1>4. ClusterTypes'
    BY <1>1, <1>2, <1>3 DEF ClusterInv, ClusterTypes
  <1>5. ASSUME NEW k, NEW pod \in PodType, PodFacts(k, pod, now)
        PROVE  PodFacts(k, pod, now')
    BY <1>1, <1>5, TimePasses
  <1>6. \A k \in DOMAIN pods : pods[k] \in PodType
    BY DEF ClusterInv, ClusterTypes
  <1>7. \A taken \in shot : \A k \in DOMAIN taken : taken[k] \in PodType
    BY DEF ClusterInv, ShotFacts
  <1>8. \A k \in DOMAIN pods' :
          /\ PodFacts(k, pods'[k], now')
          /\ Restorable(k, pods'[k], snaps')
          /\ pods'[k].live <=> pods'[k].at # "gone"
    BY <1>1, <1>5, <1>6 DEF ClusterInv
  <1>9. ShotFacts'
    BY <1>1, <1>5, <1>7 DEF ClusterInv, ShotFacts
  <1>10. ASSUME NEW s \in snaps
         PROVE  SnapFacts(s, pods', now')
    <2>1. SnapFacts(s, pods, now) /\ s.ready \in Int
      BY TimesAreNumbers DEF ClusterInv, ClusterTypes, SnapType
    <2>2. QED
      BY <2>1, <1>1 DEF SnapFacts
  <1>11. \A k \in Live' : LogFacts(k, pods'[k], logs'[k])
    BY <1>1, <1>3 DEF ClusterInv
  <1>12. QED
    BY <1>1, <1>4, <1>8, <1>9, <1>10, <1>11 DEF ClusterInv

LEMMA CreateKeeps == ClusterInv /\ Create => ClusterInv'
  <1> SUFFICES ASSUME ClusterInv, Create
               PROVE  ClusterInv'
    OBVIOUS
  <1> DEFINE i   == Len(pods) + 1
             new == NewPod(i)
  <1>1. /\ pods \in Seq(PodType) /\ DOMAIN pods = 1 .. Len(pods) /\ Len(pods) \in Nat
        /\ Len(pods) < MaxPods /\ MaxPods \in Nat /\ now \in Time /\ now \in Nat /\ now \in MaybeTime
        /\ i \in Nat /\ i # 0 /\ None \in MaybeTime
    BY BoundsAssumption, TimesAreNumbers DEF Create, ClusterInv, ClusterTypes, MaybeTime
  <1>2. /\ pods' = Append(pods, new)
        /\ logs' = [j \in DOMAIN logs \cup {i} |-> IF j = i THEN <<>> ELSE logs[j]]
        /\ UNCHANGED <<step, now, snaps, shot, faults>>
    BY DEF Create
  <1>3. new \in PodType
    BY <1>1 DEF NewPod, PodType, Phase, None
  <1>4. PodFacts(i, new, now) /\ new.live /\ new.at = "new" /\ new.origin = None
    BY <1>1 DEF NewPod, PodFacts, Warmed, None
  <1> HIDE DEF new
  <1>5. /\ pods' \in Seq(PodType) /\ Len(pods') = i /\ DOMAIN pods' = DOMAIN pods \cup {i}
        /\ pods'[i] = new /\ \A k \in DOMAIN pods : k # i /\ pods'[k] = pods[k]
    BY <1>1, <1>2, <1>3
  <1>6. Live' = Live \cup {i} /\ Deploying' = Deploying
    BY <1>2, <1>4, <1>5, LiveIsListed DEF Deploying
  <1>7. ClusterTypes'
    BY <1>1, <1>2, <1>5, <1>6 DEF ClusterInv, ClusterTypes
  <1>8. ASSUME NEW k \in DOMAIN pods'
        PROVE  /\ PodFacts(k, pods'[k], now')
               /\ Restorable(k, pods'[k], snaps')
               /\ pods'[k].live <=> pods'[k].at # "gone"
    <2>1. CASE k = i
      BY <2>1, <1>2, <1>4, <1>5 DEF Restorable
    <2>2. CASE k # i
      BY <2>2, <1>2, <1>5 DEF ClusterInv
    <2>3. QED
      BY <2>1, <2>2
  <1>9. ASSUME NEW k \in Live'
        PROVE  LogFacts(k, pods'[k], logs'[k])
    <2>1. CASE k = i
      <3>1. logs'[k] = <<>> /\ pods'[k] = new
        BY <2>1, <1>2, <1>5
      <3>2. QED
        BY <3>1 DEF LogFacts
    <2>2. CASE k # i
      <3>1. k \in Live /\ k \in DOMAIN pods /\ k \in DOMAIN logs
        BY <2>2, <1>6, LiveIsListed DEF ClusterInv, ClusterTypes
      <3>2. logs'[k] = logs[k] /\ pods'[k] = pods[k]
        BY <2>2, <3>1, <1>2, <1>5
      <3>3. QED
        BY <3>1, <3>2 DEF ClusterInv
    <2>3. QED
      BY <2>1, <2>2
  <1>10. ASSUME NEW s \in snaps
         PROVE  SnapFacts(s, pods', now')
    <2>1. SnapFacts(s, pods, now) /\ s.by \in Nat
      BY DEF ClusterInv, ClusterTypes, SnapType
    <2>2. s.by # 0 => s.by \in DOMAIN pods
      BY <2>1, <1>1 DEF SnapFacts
    <2>3. QED
      BY <2>1, <2>2, <1>1, <1>2, <1>5 DEF SnapFacts
  <1>11. ShotFacts'
    <2>1. ASSUME NEW taken \in shot
          PROVE  /\ Len(taken) <= Len(pods')
                 /\ \A k \in DOMAIN taken : pods'[k] = pods[k]
      <3>1. taken \in Seq(PodType) /\ Len(taken) <= Len(pods)
        BY DEF ClusterInv, ShotFacts
      <3>2. QED
        BY <3>1, <1>1, <1>5
    <2>2. QED
      BY <2>1, <1>2 DEF ClusterInv, ShotFacts
  <1>12. QED
    BY <1>2, <1>7, <1>8, <1>9, <1>10, <1>11 DEF ClusterInv

LEMMA SnapshotUploadedKeeps == ClusterInv /\ SnapshotUploaded => ClusterInv'
  <1> SUFFICES ASSUME ClusterInv, SnapshotUploaded
               PROVE  ClusterInv'
    OBVIOUS
  <1> DEFINE New(s) == [s EXCEPT !.ready = now]
  <1>1. PICK s \in snaps : s.ready = None /\ snaps' = (snaps \ {s}) \cup {New(s)}
    BY DEF SnapshotUploaded
  <1>2. /\ UNCHANGED <<step, now, pods, logs, shot, faults>> /\ Deploying /\ 1 <= now
        /\ now \in Time /\ now \in Nat /\ now \in MaybeTime
    BY TimesAreNumbers DEF SnapshotUploaded, ClusterInv, ClusterTypes, MaybeTime
  <1>3. s \in SnapType /\ SnapFacts(s, pods, now)
    BY DEF ClusterInv, ClusterTypes
  <1>4. New(s) \in SnapType /\ New(s).by = s.by /\ New(s).ready = now
    BY <1>2, <1>3 DEF SnapType
  <1> HIDE DEF New
  <1>5. Live' = Live /\ Deploying' = Deploying
    BY <1>2 DEF Live, Listed, Deploying
  <1>6. ClusterTypes'
    BY <1>1, <1>2, <1>4, <1>5 DEF ClusterInv, ClusterTypes
  <1>7. ASSUME NEW k, NEW some, Restorable(k, some, snaps)
        PROVE  Restorable(k, some, snaps')
    BY <1>1, <1>7 DEF Restorable
  <1>8. \A r \in snaps' : SnapFacts(r, pods', now')
    <2>1. ASSUME NEW r \in snaps
          PROVE  SnapFacts(r, pods', now')
      BY <1>2 DEF ClusterInv, SnapFacts
    <2>2. SnapFacts(New(s), pods', now')
      BY <1>1, <1>2, <1>3, <1>4 DEF SnapFacts, None
    <2>3. QED
      BY <2>1, <2>2, <1>1
  <1>9. ShotFacts'
    BY <1>2, <1>7 DEF ClusterInv, ShotFacts
  <1>10. \A k \in DOMAIN pods' :
          /\ PodFacts(k, pods'[k], now')
          /\ Restorable(k, pods'[k], snaps')
          /\ pods'[k].live <=> pods'[k].at # "gone"
    BY <1>2, <1>7 DEF ClusterInv
  <1>11. \A k \in Live' : LogFacts(k, pods'[k], logs'[k])
    BY <1>2, <1>5 DEF ClusterInv
  <1>12. QED
    BY <1>6, <1>8, <1>9, <1>10, <1>11 DEF ClusterInv


(* The steps of the nightly, and what does not touch the cluster.          *)
LEMMA NightlyKeeps ==
  ASSUME ClusterInv,
         Pod1Ready \/ ScaleUp \/ Capture \/ Judge \/ DeployFails \/ Complete \/ StartupFails
           \/ (UNCHANGED <<step, cluster>>)
  PROVE  ClusterInv'
  <1>1. UNCHANGED <<now, pods, logs, snaps, faults>>
    BY DEF Pod1Ready, ScaleUp, Capture, Judge, DeployFails, Complete, StartupFails, cluster
  <1>2. Live' = Live
    BY <1>1 DEF Live, Listed
  <1>3. shot' = shot \/ (step = "pod2" /\ step' = "captured" /\ shot' \in {{pods}, {}})
    BY DEF Pod1Ready, ScaleUp, Capture, Judge, DeployFails, Complete, StartupFails, cluster
  <1>4. /\ step' \in {"pod1", "snapshot", "pod2", "captured", "judged", "cleaned", "reported"}
        /\ Deploying' => Deploying
        /\ step' \in {"pod1", "snapshot", "pod2"} =>
             step \in {"pod1", "snapshot", "pod2"} /\ shot' = shot
    BY DEF Pod1Ready, ScaleUp, Capture, Judge, DeployFails, Complete, StartupFails, cluster, Deploying,
           ClusterInv, ClusterTypes
  <1>5. ClusterTypes'
    <2>1. shot' = {} \/ \E taken \in Seq(PodType) : shot' = {taken}
      BY <1>3 DEF ClusterInv, ClusterTypes
    <2>2. QED
      BY <2>1, <1>1, <1>2, <1>4 DEF ClusterInv, ClusterTypes
  <1>6. ShotFacts'
    <2> SUFFICES ASSUME NEW taken \in shot'
                 PROVE  /\ taken \in Seq(PodType) /\ Len(taken) <= Len(pods)
                        /\ \A k \in DOMAIN taken :
                             /\ PodFacts(k, taken[k], now)
                             /\ Restorable(k, taken[k], snaps)
                             /\ Settled(taken[k], pods[k])
      BY <1>1 DEF ShotFacts
    <2>1. CASE taken \in shot
      BY <2>1 DEF ClusterInv, ShotFacts
    <2>2. CASE taken = pods
      <3>1. pods \in Seq(PodType) /\ Len(pods) \in Nat
        BY DEF ClusterInv, ClusterTypes
      <3>2. \A k \in DOMAIN pods : Settled(pods[k], pods[k])
        BY DEF Settled
      <3>3. QED
        BY <2>2, <3>1, <3>2 DEF ClusterInv
    <2>3. QED
      BY <2>1, <2>2, <1>3
  <1>7. QED
    BY <1>1, <1>2, <1>5, <1>6 DEF ClusterInv

LEMMA CleanupKeeps == ClusterInv /\ Cleanup => ClusterInv'
  <1> SUFFICES ASSUME ClusterInv, Cleanup
               PROVE  ClusterInv'
    OBVIOUS
  <1>1. /\ step' = "cleaned" /\ now' = 0 /\ pods' = <<>> /\ logs' = <<>> /\ snaps' = {}
        /\ shot' = {} /\ faults' = 0
    BY DEF Cleanup
  <1>2. Live' = {} /\ DOMAIN logs' = {} /\ DOMAIN pods' = {} /\ ~Deploying'
    BY <1>1, LiveIsListed DEF Deploying
  <1>3. pods' \in Seq(PodType) /\ Len(pods') = 0 /\ 0 \in Time /\ MaxPods \in Nat /\ 0 \in 0 .. MaxFaults
    BY <1>1, BoundsAssumption, TimesAssumption DEF Time
  <1>4. ClusterTypes'
    BY <1>1, <1>2, <1>3 DEF ClusterTypes
  <1>5. QED
    BY <1>1, <1>2, <1>4 DEF ClusterInv, ShotFacts

LEMMA ClusterInit == Init => ClusterInv
  <1> SUFFICES ASSUME Init
               PROVE  ClusterInv
    OBVIOUS
  <1>1. /\ step = "pod1" /\ now = 1 /\ pods = <<>> /\ logs = <<>> /\ shot = {} /\ faults = 0
        /\ snaps \in {{}, {[by |-> 0, ready |-> 0]}}
    BY DEF Init
  <1>2. Live = {} /\ DOMAIN logs = {} /\ DOMAIN pods = {}
    BY <1>1, LiveIsListed
  <1>3. pods \in Seq(PodType) /\ Len(pods) = 0 /\ 1 \in Time /\ MaxPods \in Nat /\ 0 \in 0 .. MaxFaults
        /\ 0 \in Time
    BY <1>1, BoundsAssumption, TimesAssumption DEF Time
  <1>4. snaps \subseteq SnapType /\ \A s \in snaps : s.by = 0 /\ s.ready = 0
    BY <1>1, <1>3 DEF SnapType, MaybeTime
  <1>5. ClusterTypes
    BY <1>1, <1>2, <1>3, <1>4 DEF ClusterTypes
  <1>6. \A s \in snaps : SnapFacts(s, pods, now)
    BY <1>1, <1>3, <1>4 DEF SnapFacts
  <1>7. QED
    BY <1>1, <1>2, <1>5, <1>6 DEF ClusterInv, ShotFacts

(* What happens beside the nightly.                                        *)
Aside == Rerun \/ Merge \/ FetchRun \/ FetchJobs \/ Silent \/ NotifyFails \/ Replay

LEMMA ClusterStep == ClusterInv /\ [Next]_vars => ClusterInv'
  <1> SUFFICES ASSUME ClusterInv, [Next]_vars
               PROVE  ClusterInv'
    OBVIOUS
  <1>1. CASE Aside \/ UNCHANGED vars
    <2>1. UNCHANGED <<step, cluster>>
      BY <1>1 DEF Aside, Rerun, FetchRun, FetchJobs, Silent, NotifyFails, Replay, Merge, vars
    <2>2. QED
      BY <2>1, NightlyKeeps
  <1>2. QED
    BY <1>1, TickKeeps, CreateKeeps, SnapshotUploadedKeeps, PodStepKeeps, NightlyKeeps, CleanupKeeps
    DEF Next, Aside


-------------------------------------------------------------------------------
(* With one fault.                                                         *)

(* What a step of pod i does to what FirstSnapshot is about.               *)
Same(i) == pods'[i].origin = pods[i].origin /\ snaps' = snaps

Quiet(i) ==
  /\ Same(i) /\ faults' = faults /\ Live' = Live
  /\ pods'[i].at \in {"loading", "warm"} => pods[i].at \in {"loading", "warm"}
  /\ pods'[i].at \in Frozen => pods[i].at \in Frozen

Restored(i) ==
  /\ pods[i].at = "scheduled" /\ pods'[i].at = "frozen"
  /\ \E s \in ReadySnaps : /\ \A r \in ReadySnaps : r.ready <= s.ready
                           /\ pods'[i].origin = s.by
  /\ snaps' = snaps /\ faults' = faults /\ Live' = Live

Cold(i) ==
  /\ pods[i].at = "scheduled" /\ pods'[i].at = "loading" /\ pods'[i].origin = i
  /\ snaps' = snaps /\ Live' = Live
  /\ faults' = IF ReadySnaps # {} THEN faults + 1 ELSE faults

Checkpointed(i) ==
  /\ pods[i].at = "warm" /\ pods'[i].at = "frozen" /\ pods'[i].origin = pods[i].origin
  /\ snaps' = snaps \cup {[by |-> i, ready |-> None]}
  /\ faults' = faults /\ Live' = Live

Faulted(i) == Same(i) /\ faults' = faults + 1

LEMMA PodStepDoes ==
  ASSUME ClusterInv, NEW i \in DOMAIN pods, PodStep(i)
  PROVE  /\ i \in Live /\ step' = step
         /\ DOMAIN pods' = DOMAIN pods /\ \A k \in DOMAIN pods \ {i} : pods'[k] = pods[k]
         /\ Live' \subseteq Live
         /\ Quiet(i) \/ Restored(i) \/ Cold(i) \/ Checkpointed(i) \/ Faulted(i)
  <1>1. /\ i \in Live /\ i \in DOMAIN pods /\ pods \in Seq(PodType) /\ pods[i] \in PodType
        /\ step' = step /\ pods[i].live
    BY LivePod DEF PodStep, ClusterInv, ClusterTypes
  <1>2. ASSUME NEW pod, pods' = [pods EXCEPT ![i] = pod]
        PROVE  /\ DOMAIN pods' = DOMAIN pods /\ \A k \in DOMAIN pods \ {i} : pods'[k] = pods[k]
               /\ pods'[i] = pod
               /\ pod.live => Live' = Live
               /\ Live' \subseteq Live
    <2>1. /\ DOMAIN pods' = DOMAIN pods /\ \A k \in DOMAIN pods \ {i} : pods'[k] = pods[k]
          /\ pods'[i] = pod
      BY <1>1, <1>2
    <2>2. QED
      BY <1>1, <2>1, LiveIsListed
  <1>3. CASE Schedule(i) \/ Warm(i) \/ Up(i) \/ Ready(i)
    <2>1. PICK pod : /\ pods' = [pods EXCEPT ![i] = pod]
                     /\ pod.live /\ pod.origin = pods[i].origin
                     /\ pod.at \in {"loading", "warm"} => pods[i].at \in {"loading", "warm"}
                     /\ pod.at \in Frozen => pods[i].at \in Frozen
      <3> DEFINE scheduled == [pods[i] EXCEPT !.scheduled = now, !.at = "scheduled"]
                 warm      == [pods[i] EXCEPT !.warm = FirstTime(@), !.at = "warm"]
                 up        == [pods[i] EXCEPT !.at = "up"]
                 ready     == [pods[i] EXCEPT !.ready = now, !.at = "ready"]
      <3>1. /\ scheduled.live /\ scheduled.origin = pods[i].origin /\ scheduled.at = "scheduled"
            /\ warm.live /\ warm.origin = pods[i].origin /\ warm.at = "warm"
            /\ up.live /\ up.origin = pods[i].origin /\ up.at = "up"
            /\ ready.live /\ ready.origin = pods[i].origin /\ ready.at = "ready"
        BY <1>1 DEF PodType
      <3>2. CASE Schedule(i)
        <4>1. pods' = [pods EXCEPT ![i] = scheduled]
          BY <3>2 DEF Schedule, Move
        <4> HIDE DEF scheduled
        <4>2. QED
          BY <3>1, <4>1 DEF Frozen
      <3>3. CASE Warm(i)
        <4>1. pods' = [pods EXCEPT ![i] = warm] /\ pods[i].at = "loading"
          BY <3>3 DEF Warm, Move
        <4> HIDE DEF warm
        <4>2. QED
          BY <3>1, <4>1 DEF Frozen
      <3>4. CASE Up(i)
        <4>1. pods' = [pods EXCEPT ![i] = up] /\ pods[i].at = "frozen"
          BY <3>4 DEF Up, Move
        <4> HIDE DEF up
        <4>2. QED
          BY <3>1, <4>1 DEF Frozen
      <3>5. CASE Ready(i)
        <4>1. pods' = [pods EXCEPT ![i] = ready] /\ pods[i].at = "up"
          BY <3>5 DEF Ready, Move
        <4> HIDE DEF ready
        <4>2. QED
          BY <3>1, <4>1 DEF Frozen
      <3>6. QED
        BY <1>3, <3>2, <3>3, <3>4, <3>5
    <2>2. snaps' = snaps /\ faults' = faults
      BY <1>3 DEF Schedule, Warm, Up, Ready
    <2>3. QED
      BY <1>1, <2>1, <2>2, <1>2 DEF Quiet, Same
  <1>4. CASE StartRestored(i)
    <2> DEFINE newest == CHOOSE s \in ReadySnaps : \A r \in ReadySnaps : r.ready <= s.ready
               pod    == [Launched(i) EXCEPT !.origin = newest.by, !.restored = now, !.at = "frozen"]
    <2>1. newest \in ReadySnaps /\ \A r \in ReadySnaps : r.ready <= newest.ready
      BY <1>4, NewestIsReady DEF StartRestored, ClusterInv, ClusterTypes
    <2> HIDE DEF newest
    <2>2. pod.live /\ pod.origin = newest.by /\ pod.at = "frozen"
      BY <1>1 DEF Launched, PodType
    <2>3. pods' = [pods EXCEPT ![i] = pod]
      BY <1>4 DEF StartRestored, Move, newest
    <2> HIDE DEF pod
    <2>4. pods[i].at = "scheduled" /\ snaps' = snaps /\ faults' = faults
      BY <1>4 DEF StartRestored
    <2>5. QED
      BY <1>1, <2>1, <2>2, <2>3, <2>4, <1>2 DEF Restored
  <1>5. CASE StartCold(i)
    <2> DEFINE pod == [Launched(i) EXCEPT !.origin = i, !.at = "loading"]
    <2>1. pod.live /\ pod.origin = i /\ pod.at = "loading"
      BY <1>1 DEF Launched, PodType
    <2>2. pods' = [pods EXCEPT ![i] = pod]
      BY <1>5 DEF StartCold, Move
    <2> HIDE DEF pod
    <2>3. /\ pods[i].at = "scheduled" /\ snaps' = snaps
          /\ faults' = IF ReadySnaps # {} THEN faults + 1 ELSE faults
      BY <1>5 DEF StartCold
    <2>4. QED
      BY <1>1, <2>1, <2>2, <2>3, <1>2 DEF Cold
  <1>6. CASE Checkpoint(i)
    <2> DEFINE pod == [pods[i] EXCEPT !.at = "frozen"]
    <2>1. pod.live /\ pod.origin = pods[i].origin /\ pod.at = "frozen"
      BY <1>1 DEF PodType
    <2>2. pods' = [pods EXCEPT ![i] = pod]
      BY <1>6 DEF Checkpoint, Move
    <2> HIDE DEF pod
    <2>3. pods[i].at = "warm" /\ snaps' = snaps \cup {[by |-> i, ready |-> None]} /\ faults' = faults
      BY <1>6 DEF Checkpoint
    <2>4. QED
      BY <1>1, <2>1, <2>2, <2>3, <1>2 DEF Checkpointed
  <1>7. CASE CheckpointFails(i) \/ Crash(i) \/ Blip(i) \/ Rotate(i) \/ Evict(i)
    <2>1. PICK pod : pods' = [pods EXCEPT ![i] = pod] /\ pod.origin = pods[i].origin
      <3> DEFINE frozen  == [pods[i] EXCEPT !.at = "frozen"]
                 crashed == [pods[i] EXCEPT !.started = now, !.ready = None, !.at = "loading"]
                 blipped == [pods[i] EXCEPT !.ready = None, !.at = "up"]
                 evicted == [pods[i] EXCEPT !.live = FALSE, !.at = "gone"]
      <3>1. pods = [pods EXCEPT ![i] = pods[i]]
        BY <1>1
      <3>2. /\ frozen.origin = pods[i].origin /\ crashed.origin = pods[i].origin
            /\ blipped.origin = pods[i].origin /\ evicted.origin = pods[i].origin
        BY <1>1 DEF PodType
      <3>3. /\ CheckpointFails(i) => pods' = [pods EXCEPT ![i] = frozen]
            /\ Crash(i) => pods' = [pods EXCEPT ![i] = crashed]
            /\ Blip(i) => pods' = [pods EXCEPT ![i] = blipped]
            /\ Rotate(i) => pods' = [pods EXCEPT ![i] = pods[i]]
            /\ Evict(i) => pods' = [pods EXCEPT ![i] = evicted]
        BY <3>1 DEF CheckpointFails, Crash, Blip, Rotate, Evict, Move
      <3> HIDE DEF frozen, crashed, blipped, evicted
      <3>4. QED
        BY <1>7, <3>2, <3>3
    <2>2. snaps' = snaps /\ faults' = faults + 1
      BY <1>7 DEF CheckpointFails, Crash, Blip, Rotate, Evict
    <2>3. QED
      BY <1>1, <2>1, <2>2, <1>2 DEF Faulted, Same
  <1>8. QED
    BY <1>1, <1>3, <1>4, <1>5, <1>6, <1>7 DEF PodStep


(* A snapshot that is Ready is of before, or of a pod that has started.    *)
LEMMA ReadySnap ==
  ASSUME ClusterInv, NEW s \in ReadySnaps
  PROVE  /\ s \in snaps /\ s.by \in Nat /\ s.ready \in Nat /\ s.ready # None
         /\ s.by = 0 <=> s.ready = 0
         /\ s.by # 0 => s.by \in DOMAIN pods /\ pods[s.by].origin # None
  <1>1. s \in snaps /\ s.ready # None /\ s \in SnapType /\ SnapFacts(s, pods, now)
    BY DEF ClusterInv, ClusterTypes, ReadySnaps
  <1>2. s.by \in Nat /\ s.ready \in Time
    BY <1>1 DEF SnapType, MaybeTime
  <1>3. s.ready \in Nat
    BY <1>2, TimesAreNumbers
  <1>4. DOMAIN pods = 1 .. Len(pods) /\ Len(pods) \in Nat
    BY DEF ClusterInv, ClusterTypes
  <1>5. QED
    BY <1>1, <1>2, <1>3, <1>4 DEF SnapFacts

LEMMA PodStepKeepsFirst ==
  ASSUME ClusterInv, FirstSnapshot, NEW i \in DOMAIN pods, PodStep(i)
  PROVE  FirstSnapshot'
  <1>1. /\ i \in Live /\ step' = step
        /\ DOMAIN pods' = DOMAIN pods /\ \A k \in DOMAIN pods \ {i} : pods'[k] = pods[k]
        /\ Live' \subseteq Live
        /\ Quiet(i) \/ Restored(i) \/ Cold(i) \/ Checkpointed(i) \/ Faulted(i)
    BY PodStepDoes
  <1>2. /\ i \in Nat \ {0} /\ i \in DOMAIN pods /\ DOMAIN pods = 1 .. Len(pods) /\ PodFacts(i, pods[i], now)
        /\ pods \in Seq(PodType) /\ pods' \in Seq(PodType) /\ ClusterInv'
    BY LivePod, PodStepKeeps DEF ClusterInv, ClusterTypes
  <1>3. DOMAIN pods' = 1 .. Len(pods') /\ Len(pods) \in Nat /\ Len(pods') \in Nat
    BY <1>2
  <1>4. Len(pods') = Len(pods)
    BY <1>1, <1>2, <1>3
  <1>5. First' => First /\ 1 \in Live /\ 1 \in Live'
    BY <1>1, LiveIsListed DEF First
  <1>6. Scaled' = Scaled /\ Begun' = Begun
    BY <1>1 DEF Scaled, Begun
  <1>7. faults \in Nat /\ faults' \in {faults, faults + 1}
    <2>1. faults \in Nat
      BY BoundsAssumption DEF ClusterInv, ClusterTypes
    <2>2. QED
      BY <1>1, <2>1 DEF Quiet, Restored, Cold, Checkpointed, Faulted
  <1>8. pods[i].at = "scheduled" => pods[i].origin = None
    BY <1>2 DEF PodFacts
  <1>9. ASSUME pods[i].origin # None
        PROVE  pods'[i].origin = pods[i].origin
    BY <1>1, <1>8, <1>9 DEF Quiet, Restored, Cold, Checkpointed, Faulted, Same
  <1>10. snaps \subseteq snaps' /\ ReadySnaps \subseteq ReadySnaps'
         /\ \A s \in snaps' \ snaps : Checkpointed(i) /\ s.by = i
    BY <1>1 DEF Quiet, Restored, Cold, Checkpointed, Faulted, Same, ReadySnaps
  <1>11. Has(0)' => Has(0)
    BY <1>2, <1>10 DEF Has
  <1>12. step' \in {"pod1", "snapshot"} /\ First' => Len(pods') = 1
    BY <1>1, <1>4, <1>5 DEF FirstSnapshot
  <1>13. Begun' => pods' # <<>>
    BY <1>3, <1>4, <1>6 DEF FirstSnapshot
  <1>18. Begun' /\ First' => pods'[1].origin # None
    BY <1>1, <1>5, <1>6, <1>9 DEF FirstSnapshot
  <1>14. Scaled' /\ First' => OneOther'
    BY <1>1, <1>5, <1>6 DEF FirstSnapshot, OneOther
  <1>15. ASSUME First', pods'[1].origin = 1, faults' <= 1, Has(0)'
         PROVE  faults' = 1 /\ (pods'[1].at \in Frozen \/ step' = "snapshot" => Has(1)')
    <2>1. CASE pods[1].origin = 1
      <3>1. faults = 1 /\ (pods[1].at \in Frozen \/ step = "snapshot" => Has(1))
        BY <1>5, <1>7, <1>11, <1>15, <2>1 DEF FirstSnapshot
      <3>2. faults' = 1 /\ ~Faulted(i)
        BY <1>7, <1>15, <3>1 DEF Faulted
      <3>3. Has(1) => Has(1)'
        BY <1>10 DEF Has
      <3>4. ASSUME pods'[1].at \in Frozen, pods[1].at \notin Frozen
            PROVE  Has(1)'
        <4>1. i = 1
          BY <1>1, <1>5, <1>15, <3>4 DEF First
        <4>2. ~Quiet(i) /\ ~Restored(i) /\ ~Cold(i)
          BY <3>4, <4>1, <1>8, <2>1 DEF Quiet, Restored, Cold, None
        <4>3. Checkpointed(i)
          BY <1>1, <3>2, <4>2
        <4>4. [by |-> 1, ready |-> None] \in snaps' /\ [by |-> 1, ready |-> None].by = 1
          BY <4>1, <4>3 DEF Checkpointed
        <4>5. QED
          BY <4>4 DEF Has
      <3>5. QED
        BY <1>1, <3>1, <3>2, <3>3, <3>4
    <2>2. CASE pods[1].origin # 1
      <3>1. i = 1 /\ pods[i].origin # 1 /\ pods'[i].origin = 1
        BY <1>1, <1>5, <1>15, <2>2 DEF First
      <3>2. ~Restored(i)
        <4> SUFFICES ASSUME Restored(i)
                     PROVE  FALSE
          OBVIOUS
        <4>1. PICK s \in ReadySnaps : pods'[i].origin = s.by
          BY DEF Restored
        <4>2. s.by = 1
          BY <3>1, <4>1
        <4>3. pods[1].origin # None
          BY <4>2, ReadySnap
        <4>4. QED
          BY <4>3, <3>1, <1>8 DEF Restored
      <3>3. Cold(i)
        BY <1>1, <3>1, <3>2 DEF Quiet, Checkpointed, Faulted, Same
      <3>4. PICK s \in snaps : s.by = 0
        BY <1>11, <1>15 DEF Has
      <3>5. s \in ReadySnaps
        <4>1. SnapFacts(s, pods, now)
          BY DEF ClusterInv
        <4>2. QED
          BY <3>4, <4>1 DEF SnapFacts, ReadySnaps, None
      <3>6. faults' = faults + 1
        BY <3>3, <3>5 DEF Cold
      <3>7. faults' = 1
        BY <3>6, <1>7, <1>15
      <3>8. pods'[1].at \notin Frozen
        BY <3>1, <3>3 DEF Cold, Frozen
      <3>9. step' # "snapshot"
        <4>1. pods[1].origin = None
          BY <3>1, <3>3, <1>8 DEF Cold
        <4>2. QED
          BY <4>1, <1>1, <1>5, <1>15 DEF FirstSnapshot, Begun
      <3>10. QED
        BY <3>7, <3>8, <3>9
    <2>3. QED
      BY <2>1, <2>2
  <1>16. ASSUME Scaled', First', pods'[1].origin = 1, faults' <= 1
         PROVE  OwnSnapshot'
    <2>1. pods[1].origin = 1 /\ faults <= 1 /\ OwnSnapshot /\ OneOther
      <3>1. pods[1].origin # None /\ OneOther
        BY <1>5, <1>6, <1>16 DEF FirstSnapshot, Begun
      <3>2. pods[1].origin = 1
        BY <3>1, <1>1, <1>5, <1>9, <1>16 DEF First
      <3>3. faults <= 1
        BY <1>7, <1>16
      <3>4. QED
        BY <3>1, <3>2, <3>3, <1>5, <1>6, <1>16 DEF FirstSnapshot
    <2>2. faults = 1 => faults' = 1 /\ ~Faulted(i)
      BY <1>7, <1>16 DEF Faulted
    <2>3. ~Faulted(i) => Live' = Live
      BY <1>1 DEF Quiet, Restored, Cold, Checkpointed
    <2>4. \E s \in ReadySnaps' : s.by = 1
      BY <1>10, <2>1 DEF OwnSnapshot
    <2>5. ASSUME NEW s \in snaps', s.by \notin {0, 1}
          PROVE  faults' = 1 /\ s.by \in Live'
      <3>1. CASE s \in snaps
        BY <3>1, <2>1, <2>2, <2>3, <2>5 DEF OwnSnapshot
      <3>2. CASE s \notin snaps
        <4>1. Checkpointed(i) /\ s.by = i
          BY <3>2, <1>10
        <4>2. i # 1 /\ pods[i].at = "warm"
          BY <4>1, <2>5 DEF Checkpointed
        <4>3. faults = 1
          BY <4>2, <1>2, <2>1 DEF OwnSnapshot
        <4>4. QED
          BY <4>1, <4>3, <2>2, <2>3, <1>1
      <3>3. QED
        BY <3>1, <3>2
    <2>6. ASSUME NEW k \in DOMAIN pods' \ {1}
          PROVE  /\ pods'[k].origin \in {None, 1, k}
                 /\ pods'[k].origin = k \/ pods'[k].at \in {"loading", "warm"} => faults' = 1
      <3>1. /\ pods[k].origin \in {None, 1, k}
            /\ pods[k].origin = k \/ pods[k].at \in {"loading", "warm"} => faults = 1
        BY <1>1, <2>1 DEF OwnSnapshot
      <3>2. CASE k # i \/ Quiet(i)
        BY <3>1, <3>2, <2>2, <1>1 DEF Quiet, Same
      <3>3. CASE k = i /\ Restored(i)
        <4>1. PICK s \in ReadySnaps : /\ \A r \in ReadySnaps : r.ready <= s.ready
                                      /\ pods'[i].origin = s.by
          BY <3>3 DEF Restored
        <4>2. PICK own \in ReadySnaps : own.by = 1
          BY <2>1 DEF OwnSnapshot
        <4>3. s.by # 0
          <5>1. own.ready \in Nat /\ own.ready # 0 /\ s.ready \in Nat /\ own.ready <= s.ready
            BY <4>1, <4>2, ReadySnap
          <5>2. s.ready # 0
            BY <5>1
          <5>3. QED
            BY <5>2, ReadySnap
        <4>4. s.by = 1
          <5> SUFFICES ASSUME s.by # 1
                       PROVE  FALSE
            OBVIOUS
          <5>1. s \in snaps /\ s.by \in Live /\ pods[s.by].origin # None
            BY <4>3, <2>1, ReadySnap DEF OwnSnapshot
          <5>2. s.by = i
            BY <5>1, <1>1, <2>1, <2>6, <3>3 DEF OneOther
          <5>3. QED
            BY <5>1, <5>2, <1>8, <3>3 DEF Restored
        <4>5. pods'[k].origin = 1 /\ pods'[k].at = "frozen"
          BY <3>3, <4>1, <4>4 DEF Restored
        <4>6. QED
          BY <4>5, <2>6
      <3>4. CASE k = i /\ Cold(i)
        <4>1. pods'[k].origin = k
          BY <3>4 DEF Cold
        <4>2. faults' = faults + 1
          BY <3>4, <2>1 DEF Cold, OwnSnapshot
        <4>3. faults' = 1
          BY <4>2, <1>7, <1>16
        <4>4. QED
          BY <4>1, <4>3
      <3>5. CASE k = i /\ Checkpointed(i)
        BY <3>1, <3>5, <2>2 DEF Checkpointed
      <3>6. CASE k = i /\ Faulted(i)
        <4>1. pods'[k].origin = pods[k].origin
          BY <3>6 DEF Faulted, Same
        <4>2. faults' = 1
          BY <3>6, <1>7, <1>16 DEF Faulted
        <4>3. QED
          BY <3>1, <4>1, <4>2
      <3>7. QED
        BY <1>1, <3>2, <3>3, <3>4, <3>5, <3>6
    <2>7. QED
      BY <2>4, <2>5, <2>6 DEF OwnSnapshot
  <1>17. QED
    BY <1>12, <1>13, <1>14, <1>15, <1>16, <1>18 DEF FirstSnapshot


(* The ReplicaSet controller replaces what is gone.                        *)
LEMMA FewLive ==
  ASSUME ClusterInv
  PROVE  /\ IsFiniteSet(Live) /\ Cardinality(Live) \in Nat
         /\ Cardinality(Live) < 1 => Live = {}
         /\ Cardinality(Live) < 2 => \A j, k \in Live : j = k
  <1>1. Live \subseteq 1 .. Len(pods) /\ Len(pods) \in Nat
    BY LiveIsListed DEF ClusterInv, ClusterTypes
  <1>2. IsFiniteSet(1 .. Len(pods))
    BY <1>1, FS_Interval
  <1>3. IsFiniteSet(Live)
    BY <1>1, <1>2, FS_Subset
  <1>4. Cardinality(Live) \in Nat
    BY <1>3, FS_CardinalityType
  <1>5. Cardinality(Live) < 1 => Live = {}
    BY <1>3, <1>4, FS_EmptySet
  <1>6. ASSUME Cardinality(Live) < 2, NEW j \in Live, NEW k \in Live
        PROVE  j = k
    <2>1. IsFiniteSet({j, k}) /\ (j # k => Cardinality({j, k}) = 2)
      <3>1. IsFiniteSet({j}) /\ Cardinality({j}) = 1
        BY FS_Singleton
      <3>2. /\ IsFiniteSet({j} \cup {k})
            /\ k \notin {j} => Cardinality({j} \cup {k}) = Cardinality({j}) + 1
        BY <3>1, FS_AddElement
      <3>3. {j} \cup {k} = {j, k}
        OBVIOUS
      <3>4. QED
        BY <3>1, <3>2, <3>3
    <2>2. Cardinality({j, k}) <= Cardinality(Live)
      <3>1. {j, k} \subseteq Live
        OBVIOUS
      <3>2. QED
        BY <3>1, <1>3, FS_Subset
    <2>3. QED
      BY <2>1, <2>2, <1>4, <1>6
  <1>7. QED
    BY <1>3, <1>4, <1>5, <1>6

LEMMA CreateKeepsFirst ==
  ASSUME ClusterInv, FirstSnapshot, Create
  PROVE  FirstSnapshot'
  <1> DEFINE i   == Len(pods) + 1
             new == NewPod(i)
  <1>1. /\ pods \in Seq(PodType) /\ DOMAIN pods = 1 .. Len(pods) /\ Len(pods) \in Nat
        /\ i \in Nat /\ i # 0 /\ faults \in Nat
    BY BoundsAssumption DEF ClusterInv, ClusterTypes
  <1>2. new.at = "new" /\ new.live /\ new.origin = None
    BY DEF NewPod
  <1> HIDE DEF new
  <1>3. /\ pods' = Append(pods, new) /\ UNCHANGED <<step, snaps, faults>>
        /\ Deploying /\ Cardinality(Live) < Replicas
    BY DEF Create, new
  <1>4. /\ DOMAIN pods' = DOMAIN pods \cup {i} /\ pods'[i] = new /\ Len(pods') = i
        /\ \A k \in DOMAIN pods : k # i /\ pods'[k] = pods[k]
    <2>1. DOMAIN pods' = 1 .. i /\ Len(pods') = i
      BY <1>1, <1>3
    <2>2. pods'[i] = new /\ \A k \in 1 .. Len(pods) : pods'[k] = pods[k]
      BY <1>1, <1>3
    <2>3. 1 .. i = 1 .. Len(pods) \cup {i} /\ \A k \in 1 .. Len(pods) : k # i
      BY <1>1
    <2>4. QED
      BY <1>1, <2>1, <2>2, <2>3
  <1>5. Live' = Live \cup {i} /\ Scaled' = Scaled
    BY <1>2, <1>3, <1>4, LiveIsListed DEF Scaled
  <1>6. ReadySnaps' = ReadySnaps /\ Has(0)' = Has(0) /\ Has(1)' = Has(1)
    BY <1>3 DEF ReadySnaps, Has
  <1>7. i = 1 \/ (i # 1 /\ (First' => First))
    BY <1>4 DEF First
  <1>8. First => 1 \in Live /\ 1 \in DOMAIN pods
    BY LiveIsListed DEF First
  <1>9. ASSUME step' \in {"pod1", "snapshot"}, First'
        PROVE  Len(pods') = 1 /\ step' # "snapshot"
    <2>1. Live = {}
      BY <1>3, <1>9, FewLive DEF Replicas
    <2>2. ~First
      BY <1>8, <2>1
    <2>3. i = 1
      BY <1>7, <1>9, <2>2
    <2>4. step = "snapshot" => Len(pods) # 0
      BY <1>1 DEF FirstSnapshot, Begun
    <2>5. QED
      BY <1>1, <1>3, <1>4, <2>3, <2>4
  <1>10. pods' # <<>>
    BY <1>1, <1>4
  <1>16. Begun' => Scaled' \/ step' = "snapshot"
    BY DEF Begun
  <1>11. ASSUME Scaled', First'
         PROVE  First /\ i # 1 /\ pods'[1].origin # None /\ OneOther'
    <2>1. Begun /\ pods # <<>>
      BY <1>5, <1>11 DEF FirstSnapshot, Begun
    <2>2. i # 1
      BY <1>1, <2>1
    <2>3. First
      BY <1>7, <1>11, <2>2
    <2>4. pods'[1].origin # None
      BY <1>4, <1>8, <2>1, <2>3 DEF FirstSnapshot
    <2>5. \A j \in Live : j = 1
      <3>1. Replicas = 2
        BY <1>3, <1>5, <1>11 DEF Scaled, Replicas
      <3>2. QED
        BY <3>1, <2>3, <1>3, <1>8, FewLive
    <2>6. QED
      BY <2>2, <2>3, <2>4, <2>5, <1>5 DEF OneOther
  <1>12. ASSUME First', pods'[1].origin = 1
         PROVE  First /\ pods[1].origin = 1 /\ pods'[1] = pods[1]
    <2>1. i # 1
      BY <1>2, <1>4, <1>12 DEF None
    <2>2. QED
      BY <2>1, <1>4, <1>7, <1>8, <1>12
  <1>13. ASSUME First', pods'[1].origin = 1, faults' <= 1, Has(0)'
         PROVE  faults' = 1 /\ (pods'[1].at \in Frozen \/ step' = "snapshot" => Has(1)')
    <2>1. First /\ pods[1].origin = 1 /\ pods'[1] = pods[1]
      BY <1>12, <1>13
    <2>2. QED
      BY <2>1, <1>3, <1>6, <1>13 DEF FirstSnapshot
  <1>14. ASSUME Scaled', First', pods'[1].origin = 1, faults' <= 1
         PROVE  OwnSnapshot'
    <2>1. OwnSnapshot
      BY <1>3, <1>5, <1>12, <1>14 DEF FirstSnapshot
    <2>2. ASSUME NEW k \in DOMAIN pods' \ {1}
          PROVE  /\ pods'[k].origin \in {None, 1, k}
                 /\ pods'[k].origin = k \/ pods'[k].at \in {"loading", "warm"} => faults' = 1
      <3>1. CASE k \in DOMAIN pods
        BY <3>1, <2>1, <2>2, <1>3, <1>4 DEF OwnSnapshot
      <3>2. CASE k = i
        BY <3>2, <1>1, <1>2, <1>4 DEF None
      <3>3. QED
        BY <3>1, <3>2, <2>2, <1>4
    <2>3. QED
      BY <2>1, <2>2, <1>3, <1>5, <1>6 DEF OwnSnapshot
  <1>15. QED
    BY <1>9, <1>10, <1>11, <1>13, <1>14, <1>16 DEF FirstSnapshot

(* The first pod alone is Ready: it came from somewhere, and if it was cold*)
(* though there was a snapshot it has one of its own.                      *)
LEMMA Pod1ReadyKeepsFirst ==
  ASSUME ClusterInv, FirstSnapshot, Pod1Ready
  PROVE  FirstSnapshot'
  <1>1. /\ step = "pod1" /\ step' = "snapshot" /\ UNCHANGED <<pods, snaps, faults>>
        /\ Live # {} /\ \A k \in Live : pods[k].ready # None
    BY DEF Pod1Ready, cluster, AllReady
  <1>2. First' = First /\ Has(0)' = Has(0) /\ Has(1)' = Has(1) /\ ~Scaled'
    BY <1>1 DEF First, Has, Scaled
  <1>3. Live \subseteq DOMAIN pods /\ pods \in Seq(PodType)
    BY LiveIsListed DEF ClusterInv, ClusterTypes
  <1>4. pods' # <<>>
    BY <1>1, <1>3
  <1>5. ASSUME First
        PROVE  Len(pods) = 1 /\ pods[1].origin # None /\ (pods[1].origin = 1 => pods[1].at \in Frozen)
    <2>1. Len(pods) = 1
      BY <1>1, <1>5 DEF FirstSnapshot
    <2>2. 1 \in Live
      BY <1>5, LiveIsListed DEF First
    <2>3. PodFacts(1, pods[1], now) /\ pods[1].ready # None /\ pods[1].at # "gone"
      BY <1>1, <2>2, LivePod
    <2>4. QED
      BY <2>1, <2>3 DEF PodFacts, Frozen
  <1>6. QED
    BY <1>1, <1>2, <1>4, <1>5 DEF FirstSnapshot

(* All snapshots there are, of the first pod alone, are Ready.             *)
LEMMA ScaleUpKeepsFirst ==
  ASSUME ClusterInv, FirstSnapshot, ScaleUp
  PROVE  FirstSnapshot'
  <1>1. /\ step = "snapshot" /\ step' = "pod2" /\ UNCHANGED <<pods, snaps, faults>>
        /\ snaps # {} /\ ReadySnaps = snaps
    BY DEF ScaleUp, cluster
  <1>2. /\ Live' = Live /\ ReadySnaps' = ReadySnaps /\ First' = First
        /\ Has(0)' = Has(0) /\ Has(1)' = Has(1) /\ Scaled' /\ Begun
    BY <1>1 DEF Live, Listed, ReadySnaps, First, Has, Scaled, Begun
  <1>3. Live \subseteq DOMAIN pods /\ pods \in Seq(PodType) /\ faults \in Nat
    BY LiveIsListed, BoundsAssumption DEF ClusterInv, ClusterTypes
  <1>4. pods' # <<>>
    BY <1>1, <1>2 DEF FirstSnapshot
  <1>5. ASSUME First
        PROVE  DOMAIN pods = {1} /\ pods'[1].origin # None /\ OneOther'
    <2>1. Len(pods) = 1
      BY <1>1, <1>5 DEF FirstSnapshot
    <2>2. DOMAIN pods = {1}
      BY <1>3, <2>1
    <2>3. pods[1].origin # None
      BY <1>2, <1>5 DEF FirstSnapshot
    <2>4. QED
      BY <1>1, <1>2, <1>3, <2>2, <2>3 DEF OneOther
  <1>6. ASSUME First, pods[1].origin = 1, faults <= 1
        PROVE  OwnSnapshot'
    <2>1. \A s \in snaps : s \in ReadySnaps /\ s.by \in {0, 1}
      BY <1>1, <1>5, <1>6, ReadySnap
    <2>2. Has(0) => Has(1)
      BY <1>1, <1>6 DEF FirstSnapshot
    <2>3. Has(1)
      BY <2>1, <2>2, <1>1 DEF Has
    <2>4. QED
      BY <2>1, <2>3, <1>1, <1>2, <1>5, <1>6 DEF OwnSnapshot, Has
  <1>7. step' \notin {"pod1", "snapshot"}
    BY <1>1
  <1>8. ASSUME First, pods[1].origin = 1, faults <= 1, Has(0)
        PROVE  faults = 1 /\ (pods[1].at \in Frozen => Has(1))
    BY <1>8 DEF FirstSnapshot
  <1>9. QED
    BY <1>1, <1>2, <1>4, <1>5, <1>6, <1>7, <1>8 DEF FirstSnapshot

(* A snapshot is Ready: it is still of the same pod.                       *)
LEMMA UploadKeepsFirst ==
  ASSUME ClusterInv, FirstSnapshot, SnapshotUploaded
  PROVE  FirstSnapshot'
  <1>1. PICK s \in snaps : s.ready = None /\ snaps' = (snaps \ {s}) \cup {[s EXCEPT !.ready = now]}
    BY DEF SnapshotUploaded
  <1> DEFINE t == [s EXCEPT !.ready = now]
  <1>2. t.by = s.by /\ t.ready = now
    BY DEF ClusterInv, ClusterTypes, SnapType
  <1> HIDE DEF t
  <1>3. snaps' = (snaps \ {s}) \cup {t} /\ UNCHANGED <<step, pods, faults>>
    BY <1>1 DEF SnapshotUploaded, t
  <1>4. \A by : (\E r \in snaps : r.by = by) <=> (\E r \in snaps' : r.by = by)
    BY <1>2, <1>3
  <1>5. ReadySnaps \subseteq ReadySnaps'
    BY <1>1, <1>3 DEF ReadySnaps
  <1>6. /\ Live' = Live /\ First' = First /\ Has(0)' = Has(0) /\ Has(1)' = Has(1)
        /\ Scaled' = Scaled /\ Begun' = Begun /\ OneOther' = OneOther
    BY <1>3, <1>4 DEF Live, Listed, First, Has, Scaled, Begun, OneOther
  <1>7. ASSUME OwnSnapshot
        PROVE  OwnSnapshot'
    <2>1. \A r \in snaps' : \E o \in snaps : o.by = r.by
      BY <1>2, <1>3
    <2>2. QED
      BY <2>1, <1>3, <1>5, <1>6, <1>7 DEF OwnSnapshot
  <1>8. QED
    BY <1>3, <1>6, <1>7 DEF FirstSnapshot


LEMMA FirstInit == Init => FirstSnapshot
  <1> SUFFICES ASSUME Init
               PROVE  FirstSnapshot
    OBVIOUS
  <1>1. step = "pod1" /\ pods = <<>> /\ DOMAIN pods = {}
    BY DEF Init
  <1>2. ~First /\ ~Scaled /\ ~Begun
    BY <1>1 DEF First, Scaled, Begun
  <1>3. QED
    BY <1>1, <1>2 DEF FirstSnapshot

LEMMA FirstStep == ClusterInv /\ FirstSnapshot /\ [Next]_vars => FirstSnapshot'
  <1> SUFFICES ASSUME ClusterInv, FirstSnapshot, [Next]_vars
               PROVE  FirstSnapshot'
    OBVIOUS
  <1>1. ASSUME UNCHANGED <<pods, snaps, faults>>, Scaled' => Scaled,
               step' \in {"pod1", "snapshot"} => step' = step
        PROVE  FirstSnapshot'
    <2>1. /\ Live' = Live /\ ReadySnaps' = ReadySnaps /\ First' = First
          /\ Has(0)' = Has(0) /\ Has(1)' = Has(1)
      BY <1>1 DEF Live, Listed, ReadySnaps, First, Has
    <2>2. OneOther => OneOther'
      BY <2>1 DEF OneOther
    <2>3. OwnSnapshot => OwnSnapshot'
      BY <1>1, <2>1 DEF OwnSnapshot
    <2>4. Begun' => Begun
      BY <1>1 DEF Begun
    <2>5. QED
      BY <1>1, <2>1, <2>2, <2>3, <2>4 DEF FirstSnapshot
  <1>2. CASE Create
    BY <1>2, CreateKeepsFirst
  <1>3. CASE SnapshotUploaded
    BY <1>3, UploadKeepsFirst
  <1>4. CASE \E i \in DOMAIN pods : PodStep(i)
    BY <1>4, PodStepKeepsFirst
  <1>5. CASE ScaleUp
    BY <1>5, ScaleUpKeepsFirst
  <1>10. CASE Pod1Ready
    BY <1>10, Pod1ReadyKeepsFirst
  <1>6. CASE Cleanup
    <2>1. step' = "cleaned" /\ pods' = <<>> /\ DOMAIN pods' = {}
      BY <1>6 DEF Cleanup
    <2>2. ~First' /\ ~Scaled' /\ ~Begun'
      BY <2>1 DEF First, Scaled, Begun
    <2>3. QED
      BY <2>1, <2>2 DEF FirstSnapshot
  <1>7. CASE Tick \/ Capture
    BY <1>1, <1>7 DEF Tick, Capture, Scaled
  <1>8. CASE Judge \/ DeployFails \/ Complete \/ StartupFails
    BY <1>1, <1>8 DEF Judge, DeployFails, Complete, StartupFails, Scaled, cluster
  <1>9. CASE Aside \/ UNCHANGED vars
    BY <1>1, <1>9 DEF Aside, Rerun, FetchRun, FetchJobs, Silent, NotifyFails, Replay, Merge, Scaled, cluster, vars
  <1>11. QED
    BY <1>2, <1>3, <1>4, <1>5, <1>6, <1>7, <1>8, <1>9, <1>10
    DEF Next, Aside

-------------------------------------------------------------------------------
(* The verdict.                                                            *)

(* Two readings of the same pods, but for the events of their image pulls. *)
Alike(seen, P) ==
  /\ seen \in Seq(PodType) /\ DOMAIN seen = DOMAIN P
  /\ \A k \in DOMAIN P :
       /\ seen[k].name = P[k].name /\ seen[k].live = P[k].live
       /\ seen[k].created = P[k].created /\ seen[k].scheduled = P[k].scheduled
       /\ seen[k].restored = P[k].restored /\ seen[k].ready = P[k].ready

LEMMA SeenFacts ==
  ASSUME ClusterInv
  PROVE  /\ Seen \in Seq(PodType) /\ DOMAIN Seen \subseteq DOMAIN pods
         /\ \A k \in DOMAIN Seen :
              /\ PodFacts(k, Seen[k], now) /\ Restorable(k, Seen[k], snaps)
              /\ Settled(Seen[k], pods[k])
         /\ \A seen \in {Seen, Expired(Seen)} : Alike(seen, Seen)
  <1>1. pods \in Seq(PodType) /\ DOMAIN pods = 1 .. Len(pods) /\ Len(pods) \in Nat
    BY DEF ClusterInv, ClusterTypes
  <1>2. /\ Seen \in Seq(PodType) /\ DOMAIN Seen \subseteq DOMAIN pods
        /\ \A k \in DOMAIN Seen :
             /\ PodFacts(k, Seen[k], now) /\ Restorable(k, Seen[k], snaps)
             /\ Settled(Seen[k], pods[k])
    <2>1. CASE shot = {}
      <3>1. Seen = pods
        BY <2>1 DEF Seen
      <3>2. QED
        BY <3>1, <1>1 DEF ClusterInv, Settled
    <2>2. CASE shot # {}
      <3>1. Seen \in shot
        BY <2>2 DEF Seen
      <3>2. Seen \in Seq(PodType) /\ Len(Seen) <= Len(pods)
        BY <3>1 DEF ClusterInv, ShotFacts
      <3>3. DOMAIN Seen \subseteq DOMAIN pods
        BY <3>2, <1>1
      <3>4. QED
        BY <3>1, <3>2, <3>3 DEF ClusterInv, ShotFacts
    <2>3. QED
      BY <2>1, <2>2
  <1>3. Alike(Seen, Seen)
    BY <1>2 DEF Alike
  <1>4. Alike(Expired(Seen), Seen)
    <2>1. Len(Seen) \in Nat /\ DOMAIN Seen = 1 .. Len(Seen) /\ None \in MaybeTime
      BY <1>2 DEF MaybeTime
    <2>2. ASSUME NEW k \in DOMAIN Seen
          PROVE  /\ Expired(Seen)[k] \in PodType
                 /\ Expired(Seen)[k].name = Seen[k].name /\ Expired(Seen)[k].live = Seen[k].live
                 /\ Expired(Seen)[k].created = Seen[k].created
                 /\ Expired(Seen)[k].scheduled = Seen[k].scheduled
                 /\ Expired(Seen)[k].restored = Seen[k].restored
                 /\ Expired(Seen)[k].ready = Seen[k].ready
      <3>1. Seen[k] \in PodType
        BY <1>2
      <3>2. Expired(Seen)[k] = [Seen[k] EXCEPT !.pulling = None, !.pulled = None]
        BY DEF Expired
      <3>3. QED
        BY <3>1, <3>2, <2>1 DEF PodType
    <2>3. DOMAIN Expired(Seen) = DOMAIN Seen /\ Expired(Seen) = [k \in 1 .. Len(Seen) |-> Expired(Seen)[k]]
      BY <2>1 DEF Expired
    <2>4. Expired(Seen) \in Seq(PodType)
      BY <2>1, <2>2, <2>3
    <2>5. QED
      BY <2>2, <2>3, <2>4 DEF Alike
  <1>5. QED
    BY <1>2, <1>3, <1>4

(* What the check read of one of the pods listed, k, whose log it has.     *)
LEMMA PodRead ==
  ASSUME ClusterInv, NEW seen, Alike(seen, Seen), NEW k \in DOMAIN seen, k \in DOMAIN logs
  PROVE  LET log == LogValues(logs[k])
             p   == [pod |-> seen[k], log |-> log]
         IN  /\ ColdMetrics(p).ecs \in Nat /\ ColdMetrics(p).cs \in Nat /\ ColdMetrics(p).tsot \in Nat
             /\ RestoreTime(p) \in Nat
             /\ Seen[k].origin # None =>
                  /\ Seen[k].warm # None /\ log["warmup_done"] # None =>
                       Seen[k].warm - Seen[k].scheduled <= ColdMetrics(p).cs
                  /\ Seen[k].ready - Seen[k].scheduled <= RestoreTime(p)
                  /\ Seen[k].origin = k /\ log["up"] # None => LoadTime <= RestoreTime(p)
  <1> DEFINE log == LogValues(logs[k])
             p   == [pod |-> seen[k], log |-> log]
  <1>1. k \in Live /\ LogFacts(k, pods[k], logs[k]) /\ logs[k] \in Seq(LineType)
    BY DEF ClusterInv, ClusterTypes, LogFacts
  <1>2. seen[k] \in PodType /\ Seen[k] \in PodType /\ k \in DOMAIN Seen
    BY SeenFacts DEF Alike
  <1>3. /\ seen[k].created = Seen[k].created /\ seen[k].scheduled = Seen[k].scheduled
        /\ seen[k].ready = Seen[k].ready
        /\ PodFacts(k, Seen[k], now) /\ Settled(Seen[k], pods[k])
    BY <1>2, SeenFacts DEF Alike
  <1>4. \A m \in Markers : log[m] \in MaybeTime
    BY <1>1, LogValueIsALine
  <1>5. /\ log["warmup_done"] # None =>
             \E n \in DOMAIN logs[k] : logs[k][n].what = "warmup_done" /\ logs[k][n].ts = log["warmup_done"]
        /\ log["up"] # None =>
             \E n \in DOMAIN logs[k] : logs[k][n].what = "up" /\ logs[k][n].ts = log["up"]
    BY <1>1, LogValueIsALine DEF Markers, ColdMarkers
  <1>6. log["warmup_done"] \in Int /\ log["up"] \in Int
    BY <1>4, TimesAreNumbers DEF Markers, ColdMarkers
  <1> HIDE DEF log
  <1>7. /\ ColdMetrics(p).ecs \in Nat /\ ColdMetrics(p).cs \in Nat /\ ColdMetrics(p).tsot \in Nat
        /\ RestoreTime(p) \in Nat
        /\ log["warmup_done"] - Scheduled(seen[k]) <= ColdMetrics(p).cs
        /\ log["up"] - Scheduled(seen[k]) <= RestoreTime(p)
        /\ seen[k].ready - Scheduled(seen[k]) <= RestoreTime(p)
    BY <1>2, <1>4, Durations
  <1> HIDE DEF p
  <1>8. /\ Seen[k].created \in Int /\ Seen[k].scheduled \in Int /\ Seen[k].ready \in Int
        /\ Seen[k].warm \in Int
    BY <1>2, TimesAreNumbers DEF PodType
  <1>9. ASSUME Seen[k].origin # None
        PROVE  /\ Scheduled(seen[k]) = Seen[k].scheduled
               /\ pods[k].origin = Seen[k].origin /\ pods[k].scheduled = Seen[k].scheduled
               /\ Seen[k].warm # None => pods[k].warm = Seen[k].warm
    <2>1. Seen[k].created <= Seen[k].scheduled
      BY <1>3, <1>9 DEF PodFacts
    <2>2. Scheduled(seen[k]) = Seen[k].scheduled
      BY <2>1, <1>3, <1>8 DEF Scheduled, Later
    <2>3. QED
      BY <2>2, <1>3, <1>9 DEF Settled
  <1>10. ASSUME Seen[k].origin # None, Seen[k].warm # None, log["warmup_done"] # None
         PROVE  Seen[k].warm - Seen[k].scheduled <= ColdMetrics(p).cs
    <2>1. pods[k].warm <= log["warmup_done"]
      BY <1>1, <1>5, <1>10 DEF LogFacts
    <2>2. Seen[k].warm <= log["warmup_done"] /\ Scheduled(seen[k]) = Seen[k].scheduled
      BY <2>1, <1>9, <1>10
    <2>3. log["warmup_done"] - Seen[k].scheduled <= ColdMetrics(p).cs
      BY <2>2, <1>7
    <2>4. QED
      BY <2>2, <2>3, <1>6, <1>7, <1>8
  <1>11. Seen[k].origin # None => Seen[k].ready - Seen[k].scheduled <= RestoreTime(p)
    BY <1>3, <1>7, <1>9
  <1>12. ASSUME Seen[k].origin # None, Seen[k].origin = k, log["up"] # None
         PROVE  LoadTime <= RestoreTime(p)
    <2>1. pods[k].scheduled + LoadTime <= log["up"]
      BY <1>1, <1>5, <1>9, <1>12 DEF LogFacts
    <2>2. Seen[k].scheduled + LoadTime <= log["up"] /\ Scheduled(seen[k]) = Seen[k].scheduled
      BY <2>1, <1>9, <1>12
    <2>3. log["up"] - Seen[k].scheduled <= RestoreTime(p)
      BY <2>2, <1>7
    <2>4. QED
      BY <2>2, <2>3, <1>6, <1>7, <1>8, TimesAssumption
  <1>13. QED
    BY <1>7, <1>10, <1>11, <1>12 DEF p, log


LEMMA VerdictOfSeen ==
  ASSUME ClusterInv, FirstSnapshot, Scaled, NEW seen, Alike(seen, Seen),
         Verdict(seen, logs, {s.ready : s \in ReadySnaps})
  PROVE  \E i, j \in DOMAIN Seen :
           LET p == Seen[i]
               q == Seen[j]
           IN  /\ i < j /\ p.live /\ q.live /\ p.ready # None /\ q.ready # None
               /\ p.origin = p.name /\ p.warm # None /\ p.warm - p.scheduled <= MaxCold
               /\ \E s \in ReadySnaps : s.by = q.origin /\ s.by # q.name /\ s.ready <= q.ready
               /\ q.ready - q.scheduled <= MaxWarm
               /\ i = 1 /\ faults <= 1 => q.origin = p.name
  <1>1. /\ Readable(seen, logs)
        /\ ColdStartChecks(Timed(Pods1(seen), logs)) /\ RestoreChecks(Timed(Pods2(seen), logs))
    BY DEF Verdict, Passes
  <1>2. PICK i \in Listed(seen) :
          /\ \A k \in Listed(seen) : i <= k
          /\ seen[i] \in Pods1(seen)
          /\ LET p == [pod |-> seen[i], log |-> LogValues(logs[seen[i].name])]
             IN  IsReady(p) /\ ~IsRestored(p) /\ HasMarkers(p, ColdMarkers) /\ ColdMetrics(p).cs <= MaxCold
    <2>1. PICK p \in Timed(Pods1(seen), logs) :
            IsReady(p) /\ ~IsRestored(p) /\ HasMarkers(p, ColdMarkers) /\ ColdMetrics(p).cs <= MaxCold
      BY <1>1 DEF ColdStartChecks
    <2>2. PICK pod \in Pods1(seen) : p = [pod |-> pod, log |-> LogValues(logs[pod.name])]
      BY DEF Timed
    <2>3. PICK i \in Listed(seen) : pod = seen[i] /\ \A k \in Listed(seen) : i <= k
      BY DEF Pods1
    <2>4. QED
      BY <2>1, <2>2, <2>3
  <1>3. PICK j \in Listed(seen) :
          /\ \E k \in Listed(seen) : k < j
          /\ seen[j] \in Pods2(seen)
          /\ LET p == [pod |-> seen[j], log |-> LogValues(logs[seen[j].name])]
             IN  IsReady(p) /\ HasMarkers(p, RestoreMarkers) /\ RestoreTime(p) <= MaxWarm
    <2>1. PICK p \in Timed(Pods2(seen), logs) :
            IsReady(p) /\ HasMarkers(p, RestoreMarkers) /\ RestoreTime(p) <= MaxWarm
      BY <1>1 DEF RestoreChecks
    <2>2. PICK pod \in Pods2(seen) : p = [pod |-> pod, log |-> LogValues(logs[pod.name])]
      BY DEF Timed
    <2>3. PICK j \in Listed(seen) : pod = seen[j] /\ \E k \in Listed(seen) : k < j
      BY DEF Pods2
    <2>4. QED
      BY <2>1, <2>2, <2>3
  <1>4. /\ DOMAIN seen = DOMAIN Seen /\ DOMAIN Seen \subseteq DOMAIN pods /\ DOMAIN pods = 1 .. Len(pods)
        /\ Len(pods) \in Nat
    BY SeenFacts DEF Alike, ClusterInv, ClusterTypes
  <1>5. /\ i \in DOMAIN Seen /\ j \in DOMAIN Seen /\ i \in Int /\ j \in Int /\ seen[i].live /\ seen[j].live
    BY <1>4 DEF Listed
  <1>6. i < j
    <2>1. PICK k \in Listed(seen) : k < j
      BY <1>3
    <2>2. i <= k /\ k \in Int
      BY <1>2, <1>4 DEF Listed
    <2>3. QED
      BY <2>1, <2>2, <1>5
  <1>7. /\ PodFacts(i, Seen[i], now) /\ PodFacts(j, Seen[j], now)
        /\ Restorable(j, Seen[j], snaps) /\ Settled(Seen[i], pods[i]) /\ Settled(Seen[j], pods[j])
        /\ seen[i].name = i /\ seen[j].name = j /\ Seen[i].name = i /\ Seen[j].name = j
        /\ Seen[i].live /\ Seen[j].live
        /\ seen[i].ready = Seen[i].ready /\ seen[j].ready = Seen[j].ready
        /\ seen[i].restored = Seen[i].restored
    BY <1>5, SeenFacts DEF Alike, PodFacts
  <1>8. i \in DOMAIN logs /\ j \in DOMAIN logs
    BY <1>1, <1>2, <1>3, <1>7 DEF Readable
  <1> DEFINE p == [pod |-> seen[i], log |-> LogValues(logs[i])]
             q == [pod |-> seen[j], log |-> LogValues(logs[j])]
  <1>9. /\ Seen[i].ready # None /\ Seen[i].restored = None /\ LogValues(logs[i])["warmup_done"] # None
        /\ ColdMetrics(p).cs <= MaxCold
    BY <1>2, <1>7 DEF IsReady, IsRestored, HasMarkers, ColdMarkers
  <1>10. Seen[j].ready # None /\ LogValues(logs[j])["up"] # None /\ RestoreTime(q) <= MaxWarm
    BY <1>3, <1>7 DEF IsReady, HasMarkers, RestoreMarkers
  <1>11. Seen[i].origin = i /\ Seen[i].warm # None
    BY <1>7, <1>9 DEF PodFacts
  <1>12. Seen[i].origin # None /\ Seen[j].origin # None
    BY <1>7, <1>9, <1>10 DEF PodFacts
  <1>13. Seen[i].warm - Seen[i].scheduled <= MaxCold
    <2>1. Seen[i].warm - Seen[i].scheduled <= ColdMetrics(p).cs /\ ColdMetrics(p).cs \in Nat
      BY <1>4, <1>5, <1>8, <1>9, <1>11, <1>12, PodRead
    <2>2. Seen[i] \in PodType /\ MaxCold \in Int
      BY <1>5, SeenFacts, ThresholdsAssumption
    <2>3. Seen[i].warm \in Int /\ Seen[i].scheduled \in Int
      BY <2>2, TimesAreNumbers DEF PodType
    <2> HIDE DEF p
    <2>4. QED
      BY <2>1, <2>2, <2>3, <1>9
  <1>14. /\ RestoreTime(q) \in Nat /\ Seen[j].ready - Seen[j].scheduled <= RestoreTime(q)
         /\ Seen[j].origin = j => LoadTime <= RestoreTime(q)
    BY <1>4, <1>5, <1>8, <1>10, <1>12, PodRead
  <1>15. /\ Seen[j].ready \in Int /\ Seen[j].scheduled \in Int /\ Seen[j].restored \in Int
         /\ MaxWarm \in Int /\ LoadTime \in Int
    <2>1. Seen[j] \in PodType /\ MaxWarm \in Int /\ LoadTime \in Int
      BY <1>5, SeenFacts, TimesAssumption, ThresholdsAssumption
    <2>2. QED
      BY <2>1, TimesAreNumbers DEF PodType
  <1> HIDE DEF p, q
  <1>16. Seen[j].ready - Seen[j].scheduled <= MaxWarm
    BY <1>10, <1>14, <1>15
  <1>17. Seen[j].origin # j
    BY <1>10, <1>14, <1>15, LoadAssumption
  <1>18. \E s \in ReadySnaps : s.by = Seen[j].origin /\ s.by # j /\ s.ready <= Seen[j].ready
    <2>1. PICK s \in snaps : s.by = Seen[j].origin /\ s.ready # None /\ s.ready <= Seen[j].restored
      BY <1>7, <1>12, <1>17 DEF Restorable
    <2>2. s \in ReadySnaps
      BY <2>1 DEF ReadySnaps
    <2>3. Seen[j].restored <= Seen[j].ready
      BY <1>7, <1>10 DEF PodFacts
    <2>4. s.ready \in Int
      BY <2>2, ReadySnap
    <2>5. QED
      BY <2>1, <2>2, <2>3, <2>4, <1>15, <1>17
  <1>19. ASSUME i = 1, faults <= 1
         PROVE  Seen[j].origin = i
    <2>1. 1 \in Live
      BY <1>8, <1>19 DEF ClusterInv, ClusterTypes
    <2>2. First
      BY <2>1, LiveIsListed DEF First
    <2>3. pods[1].origin = 1 /\ pods[j].origin = Seen[j].origin
      BY <1>7, <1>11, <1>12, <1>19 DEF Settled
    <2>4. OwnSnapshot
      BY <2>2, <2>3, <1>19 DEF FirstSnapshot
    <2>5. j \in DOMAIN pods \ {1}
      BY <1>4, <1>5, <1>6, <1>19
    <2>6. QED
      BY <2>3, <2>4, <2>5, <1>12, <1>17, <1>19 DEF OwnSnapshot
  <1>20. QED
    BY <1>5, <1>6, <1>7, <1>9, <1>10, <1>11, <1>13, <1>16, <1>18, <1>19

LEMMA VerdictStep ==
  ClusterInv /\ FirstSnapshot /\ VerdictIsTrue /\ [Next]_vars => VerdictIsTrue'
  <1> SUFFICES ASSUME ClusterInv, FirstSnapshot, VerdictIsTrue, [Next]_vars,
                      step' = "judged", verdict' = "pass"
               PROVE  VerdictIsTrue'
    BY DEF VerdictIsTrue
  <1>1. ASSUME UNCHANGED <<pods, shot, snaps, faults>>
        PROVE  Seen' = Seen /\ ReadySnaps' = ReadySnaps
    BY <1>1 DEF Seen, ReadySnaps
  <1>2. CASE Judge
    <2>1. step = "captured" /\ UNCHANGED <<pods, shot, snaps, faults>>
      BY <1>2 DEF Judge, cluster
    <2>2. PICK seen \in {Seen, Expired(Seen)} : Verdict(seen, logs, {s.ready : s \in ReadySnaps})
      BY <1>2 DEF Judge
    <2>3. Scaled /\ Alike(seen, Seen)
      BY <2>1, SeenFacts DEF Scaled
    <2>4. \E i, j \in DOMAIN Seen :
            LET p == Seen[i]
                q == Seen[j]
            IN  /\ i < j /\ p.live /\ q.live /\ p.ready # None /\ q.ready # None
                /\ p.origin = p.name /\ p.warm # None /\ p.warm - p.scheduled <= MaxCold
                /\ \E s \in ReadySnaps : s.by = q.origin /\ s.by # q.name /\ s.ready <= q.ready
                /\ q.ready - q.scheduled <= MaxWarm
                /\ i = 1 /\ faults <= 1 => q.origin = p.name
      BY <2>2, <2>3, VerdictOfSeen
    <2>5. QED
      BY <2>1, <2>4, <1>1 DEF VerdictIsTrue
  <1>3. CASE step = "judged" /\ verdict = "pass" /\ UNCHANGED <<pods, shot, snaps, faults>>
    BY <1>3, <1>1 DEF VerdictIsTrue
  <1>4. CASE Aside \/ UNCHANGED vars
    BY <1>3, <1>4 DEF Aside, Rerun, FetchRun, FetchJobs, Silent, NotifyFails, Replay, Merge, cluster, vars
  <1>5. ~Tick /\ ~Create /\ ~SnapshotUploaded /\ ~(\E i \in DOMAIN pods : PodStep(i))
    BY DEF Tick, Create, SnapshotUploaded, PodStep, Deploying
  <1>6. ~Pod1Ready /\ ~ScaleUp /\ ~Capture /\ ~DeployFails /\ ~Cleanup /\ ~Complete /\ ~StartupFails
    BY DEF Pod1Ready, ScaleUp, Capture, DeployFails, Cleanup, Complete, StartupFails
  <1>7. QED
    BY <1>2, <1>4, <1>5, <1>6 DEF Next, Aside

(* What is computed of pods whose logs can be read.                        *)
LEMMA MeasuredAreNumbers ==
  ASSUME ClusterInv, NEW seen, Alike(seen, Seen)
  PROVE  \A name \in DOMAIN Measured(seen, logs) : Measured(seen, logs)[name] \in Nat
  <1> DEFINE p1 == IF Readable(seen, logs) THEN Timed(Pods1(seen), logs) ELSE {}
             p2 == IF Readable(seen, logs) THEN Timed(Pods2(seen), logs) ELSE {}
             cold == {ColdMetrics(p) : p \in {p \in p1 : IsReady(p) /\ ~IsRestored(p) /\ HasMarkers(p, ColdMarkers)}}
             warm == {RestoreTime(p) : p \in {p \in p2 : IsReady(p) /\ IsRestored(p) /\ HasMarkers(p, RestoreMarkers)}}
             The(S) == IF S = {} THEN 0 ELSE CHOOSE x \in S : TRUE
  <1>1. ASSUME NEW p \in p1 \cup p2
        PROVE  /\ ColdMetrics(p).ecs \in Nat /\ ColdMetrics(p).cs \in Nat /\ ColdMetrics(p).tsot \in Nat
               /\ RestoreTime(p) \in Nat
    <2>1. PICK pod \in Pods1(seen) \cup Pods2(seen) :
            p = [pod |-> pod, log |-> LogValues(logs[pod.name])] /\ pod.name \in DOMAIN logs
      BY DEF Timed, Readable
    <2>2. PICK k \in DOMAIN seen : pod = seen[k]
      BY DEF Pods1, Pods2, Listed
    <2>3. pod.name = k
      BY <2>2, SeenFacts DEF Alike, PodFacts
    <2>4. p = [pod |-> seen[k], log |-> LogValues(logs[k])] /\ k \in DOMAIN logs
      BY <2>1, <2>2, <2>3
    <2>5. QED
      BY <2>4, PodRead
  <1> HIDE DEF p1, p2
  <1>2. \A m \in cold : m.ecs \in Nat /\ m.cs \in Nat /\ m.tsot \in Nat
    BY <1>1
  <1>3. warm \subseteq Nat
    BY <1>1
  <1> HIDE DEF cold, warm
  <1>4. \A S : S \subseteq Nat => The(S) \in Nat
    OBVIOUS
  <1>5. {m.ecs : m \in cold} \subseteq Nat /\ {m.cs : m \in cold} \subseteq Nat
        /\ {m.tsot : m \in cold} \subseteq Nat
    BY <1>2
  <1>6. The({m.ecs : m \in cold}) \in Nat /\ The({m.cs : m \in cold}) \in Nat
        /\ The({m.tsot : m \in cold}) \in Nat /\ The(warm) \in Nat
    BY <1>3, <1>4, <1>5
  <1>7. Measured(seen, logs) = [ ecs  |-> The({m.ecs : m \in cold}),
                                 cs   |-> The({m.cs : m \in cold}),
                                 tsot |-> The({m.tsot : m \in cold}),
                                 wsr  |-> The(warm) ]
    BY DEF Measured, cold, warm, p1, p2
  <1> HIDE DEF The
  <1>8. QED
    BY <1>6, <1>7


-------------------------------------------------------------------------------
(* What is said of a run.                                                  *)

LEMMA FirstInFinds ==
  ASSUME NEW jobs, NEW some, some \subseteq Nat \ {0}, NEW conclusions
  PROVE  LET first == FirstIn(jobs, some, conclusions)
         IN  /\ first # 0 <=> \E i \in some : jobs[i].conclusion \in conclusions
             /\ first # 0 =>
                  /\ first \in some /\ jobs[first].conclusion \in conclusions
                  /\ \A i \in some : jobs[i].conclusion \in conclusions => first <= i
  <1> DEFINE found == {i \in some : jobs[i].conclusion \in conclusions}
  <1>1. FirstIn(jobs, some, conclusions) = IF found = {} THEN 0 ELSE Min(found)
    BY DEF FirstIn
  <1>2. found # {} => Min(found) \in found /\ \A i \in found : Min(found) <= i
    BY MinOfNats
  <1>3. QED
    BY <1>1, <1>2

LEMMA TestsOfARun ==
  ASSUME NEW done, RunFacts(done)
  PROVE  /\ TestJobs(done.jobs) \subseteq DOMAIN done.jobs /\ TestJobs(done.jobs) \subseteq Nat \ {0}
         /\ done.jobs = <<>> => TestJobs(done.jobs) = {} /\ ~BadgeFailed(done.jobs)
         /\ done.jobs # <<>> =>
              /\ done.jobs \in [1 .. 3 -> JobType] /\ DOMAIN done.jobs = {1, 2, 3}
              /\ TestJobs(done.jobs) = {1, 2}
              /\ BadgeFailed(done.jobs) <=> done.jobs[3].conclusion = "failure"
  <1>1. CASE done.jobs = <<>>
    <2>1. DOMAIN done.jobs = {}
      BY <1>1
    <2>2. QED
      BY <1>1, <2>1 DEF TestJobs, BadgeFailed, ToSet
  <1>2. CASE done.jobs # <<>>
    <2>1. done.jobs \in [1 .. 3 -> JobType] /\ 1 .. 3 = {1, 2, 3}
      BY <1>2 DEF RunFacts, RunType
    <2>2. /\ done.jobs[1].name = "e2e" /\ done.jobs[2].name = "report" /\ done.jobs[3].name = "update-badge"
          /\ done.jobs[3].conclusion \in {"none", "success", "failure"}
      BY <1>2 DEF RunFacts
    <2>3. TestJobs(done.jobs) = {1, 2}
      BY <2>1, <2>2 DEF TestJobs, IsBadgeJob
    <2>4. ToSet(done.jobs) = {done.jobs[1], done.jobs[2], done.jobs[3]}
      BY <2>1 DEF ToSet
    <2>5. BadgeFailed(done.jobs) <=> done.jobs[3].conclusion = "failure"
      BY <2>2, <2>4 DEF BadgeFailed, IsBadgeJob, Triggering, Failing, Unstable
    <2>6. QED
      BY <1>2, <2>1, <2>3, <2>5
  <1>3. QED
    BY <1>1, <1>2

(* What a finished run concludes of its jobs.                              *)
LEMMA FinishedRun ==
  ASSUME NEW done, RunFacts(done), Finished(done)
  PROVE  /\ done.conclusion \in {"failure", "cancelled", "neutral", "success"}
         /\ done.conclusion = "failure" =>
              \E i \in {1, 2, 3} : done.jobs[i].conclusion \in Failing
         /\ done.conclusion = "neutral" =>
              \E i \in {1, 2, 3} : done.jobs[i].conclusion = "neutral"
  <1> DEFINE All == {job.conclusion : job \in ToSet(done.jobs)}
  <1>1. done.jobs # <<>> /\ done.conclusion \in Concluded(done.jobs)
    BY DEF RunFacts
  <1>2. DOMAIN done.jobs = {1, 2, 3}
    BY <1>1, TestsOfARun
  <1>3. All = {done.jobs[i].conclusion : i \in {1, 2, 3}}
    BY <1>2 DEF ToSet
  <1>4. Concluded(done.jobs) =
          CASE All \cap Failing # {}      -> {"failure"} \cup (All \cap {"cancelled"})
            [] All \cap Failing = {} /\ "cancelled" \in All -> {"cancelled"}
            [] OTHER -> IF "neutral" \in All THEN {"neutral", "success"} ELSE {"success"}
    BY DEF Concluded
  <1> HIDE DEF All
  <1>5. /\ done.conclusion \in {"failure", "cancelled", "neutral", "success"}
        /\ done.conclusion = "failure" => All \cap Failing # {}
        /\ done.conclusion = "neutral" => "neutral" \in All
    BY <1>1, <1>4
  <1>6. QED
    BY <1>3, <1>5

(* What is said of a run that was read as concluded and has its jobs now.  *)
LEMMA OutcomeOfARun ==
  ASSUME NEW done, RunFacts(done), NEW concluded
  PROVE  LET result == NightlyOutcome(done.jobs, concluded)
             blamed == Culprits(done.jobs)
         IN  /\ result.outcome \in Notifiable =>
                  blamed # {} \/ concluded \in Failing \cup Unstable \cup {"startup_failure"}
             /\ result.outcome \in Notifiable /\ concluded \in {"none", done.conclusion} =>
                  blamed # {} \/ concluded = "startup_failure"
             /\ result.job # NoJob =>
                  \E i \in blamed : done.jobs[i].name = result.job /\ \A j \in blamed : i <= j
             /\ (\E i \in TestJobs(done.jobs) : done.jobs[i].conclusion \in Failing) =>
                  result.outcome \in Failing
             /\ done.jobs = <<>> /\ concluded = "startup_failure" => result.outcome = "failure"
             /\ done.jobs # <<>> /\ done.conclusion = "none" /\ concluded \in Failing =>
                  result.outcome \in Failing
  <1> DEFINE tests    == TestJobs(done.jobs)
             blamed   == Culprits(done.jobs)
             failed   == FirstIn(done.jobs, tests, Failing)
             unstable == FirstIn(done.jobs, tests, Unstable)
             stopped  == FirstIn(done.jobs, tests, {"cancelled"})
             All(conclusions) == \A i \in tests : done.jobs[i].conclusion \in conclusions
             result   == NightlyOutcome(done.jobs, concluded)
             Named(i) == done.jobs[i].name = result.job /\ \A j \in blamed : i <= j
  <1>1. tests \subseteq Nat \ {0}
    BY TestsOfARun
  <1>2. /\ failed # 0 <=> \E i \in tests : done.jobs[i].conclusion \in Failing
        /\ failed # 0 =>
             /\ failed \in tests /\ done.jobs[failed].conclusion \in Failing
             /\ \A i \in tests : done.jobs[i].conclusion \in Failing => failed <= i
        /\ unstable # 0 <=> \E i \in tests : done.jobs[i].conclusion \in Unstable
        /\ unstable # 0 =>
             /\ unstable \in tests /\ done.jobs[unstable].conclusion \in Unstable
             /\ \A i \in tests : done.jobs[i].conclusion \in Unstable => unstable <= i
        /\ stopped # 0 <=> \E i \in tests : done.jobs[i].conclusion \in {"cancelled"}
    <2> HIDE DEF tests
    <2>1. ASSUME NEW C
          PROVE  LET first == FirstIn(done.jobs, tests, C)
                 IN  /\ first # 0 <=> \E i \in tests : done.jobs[i].conclusion \in C
                     /\ first # 0 =>
                          /\ first \in tests /\ done.jobs[first].conclusion \in C
                          /\ \A i \in tests : done.jobs[i].conclusion \in C => first <= i
      BY <1>1, FirstInFinds
    <2>2. stopped # 0 <=> \E i \in tests : done.jobs[i].conclusion \in {"cancelled"}
      <3> DEFINE C == {"cancelled"}
      <3> HIDE DEF C
      <3>1. FirstIn(done.jobs, tests, C) # 0 <=> \E i \in tests : done.jobs[i].conclusion \in C
        BY <2>1
      <3>2. QED
        BY <3>1 DEF C
    <2>3. QED
      BY <2>1, <2>2
  <1>3. failed # 0 => result = [outcome |-> done.jobs[failed].conclusion, job |-> done.jobs[failed].name]
    BY DEF NightlyOutcome, OutcomeOf
  <1>4. failed = 0 /\ unstable # 0 => result = [outcome |-> "unstable", job |-> done.jobs[unstable].name]
    BY DEF NightlyOutcome, OutcomeOf
  <1>5. failed = 0 /\ unstable = 0 /\ (stopped # 0 \/ (tests # {} /\ All({"skipped"}))) =>
          result.outcome \in {"cancelled", "skipped"} /\ result.job = NoJob
    BY DEF NightlyOutcome, OutcomeOf
  <1>6. failed = 0 /\ unstable = 0 /\ stopped = 0 /\ ~(tests # {} /\ All({"skipped"})) =>
          /\ result.job = NoJob
          /\ result.outcome =
               IF BadgeFailed(done.jobs) /\ All({"success", "skipped"}) THEN "success"
               ELSE IF concluded \in Failing         THEN concluded
               ELSE IF concluded = "startup_failure" THEN "failure"
               ELSE IF concluded \in Unstable        THEN "unstable"
               ELSE "success"
    BY DEF NightlyOutcome, OutcomeOf
  <1>7. blamed = IF failed # 0 THEN {i \in tests : done.jobs[i].conclusion \in Failing}
                 ELSE {i \in tests : done.jobs[i].conclusion \in Unstable}
    BY <1>2 DEF Culprits
  <1> HIDE DEF failed, unstable, stopped, result, tests, blamed
  <1>8. failed # 0 \/ unstable # 0 => blamed # {}
    BY <1>2, <1>7
  <1>9. ASSUME result.job # NoJob
        PROVE  \E i \in blamed : Named(i)
    <2>1. CASE failed # 0
      <3>1. failed \in blamed /\ done.jobs[failed].name = result.job
        BY <2>1, <1>2, <1>3, <1>7
      <3>2. \A j \in blamed : failed <= j
        BY <2>1, <1>2, <1>7
      <3>3. QED
        BY <3>1, <3>2
    <2>2. CASE failed = 0 /\ unstable # 0
      <3>1. unstable \in blamed /\ done.jobs[unstable].name = result.job
        BY <2>2, <1>2, <1>4, <1>7
      <3>2. \A j \in blamed : unstable <= j
        BY <2>2, <1>2, <1>7
      <3>3. QED
        BY <3>1, <3>2
    <2>3. QED
      BY <2>1, <2>2, <1>5, <1>6, <1>9
  <1>10. ASSUME blamed = {}, result.outcome \in Notifiable
         PROVE  /\ concluded \in Failing \cup Unstable \cup {"startup_failure"}
                /\ concluded \in {"none", done.conclusion} => concluded = "startup_failure"
    <2>1. failed = 0 /\ unstable = 0
      BY <1>8, <1>10
    <2>2. stopped = 0 /\ ~(tests # {} /\ All({"skipped"}))
      BY <2>1, <1>5, <1>10 DEF Notifiable, Failing
    <2>3. /\ ~(BadgeFailed(done.jobs) /\ All({"success", "skipped"}))
          /\ concluded \in Failing \cup Unstable \cup {"startup_failure"}
      BY <2>1, <2>2, <1>6, <1>10 DEF Notifiable, Failing
    <2>4. ASSUME concluded = done.conclusion, concluded # "startup_failure"
          PROVE  FALSE
      <3>1. Finished(done)
        BY <2>3, <2>4 DEF Finished, Failing, Unstable
      <3>2. /\ done.jobs # <<>> /\ tests = {1, 2} /\ done.jobs \in [1 .. 3 -> JobType]
            /\ \A i \in 1 .. 3 : done.jobs[i].conclusion # "none"
            /\ BadgeFailed(done.jobs) <=> done.jobs[3].conclusion = "failure"
            /\ done.jobs[3].conclusion \in {"none", "success", "failure"}
        BY <3>1, TestsOfARun DEF RunFacts, tests
      <3>3. \A i \in tests : done.jobs[i].conclusion \in Ends \ (Failing \cup Unstable \cup {"cancelled"})
        <4>1. \A i \in tests : done.jobs[i] \in JobType /\ done.jobs[i].conclusion # "none"
          BY <3>2
        <4>2. QED
          BY <4>1, <1>2, <2>1, <2>2 DEF JobType
      <3>4. All({"success", "skipped"})
        BY <3>3 DEF Ends, Failing, Unstable
      <3>5. concluded \in Failing => BadgeFailed(done.jobs)
        <4>1. concluded \in Failing => \E i \in {1, 2, 3} : done.jobs[i].conclusion \in Failing
          BY <3>1, <2>4, FinishedRun DEF Failing
        <4>2. QED
          BY <4>1, <3>2, <3>3 DEF Failing
      <3>6. concluded \notin Unstable
        <4>1. concluded \in Unstable => \E i \in {1, 2, 3} : done.jobs[i].conclusion = "neutral"
          BY <3>1, <2>4, FinishedRun DEF Unstable
        <4>2. QED
          BY <4>1, <3>2, <3>3 DEF Unstable
      <3>7. QED
        BY <3>4, <3>5, <3>6, <2>3, <2>4
    <2>5. "none" \notin Failing \cup Unstable
      BY DEF Failing, Unstable
    <2>6. QED
      BY <2>3, <2>4, <2>5
  <1>11. (\E i \in tests : done.jobs[i].conclusion \in Failing) => result.outcome \in Failing
    BY <1>2, <1>3
  <1>12. done.jobs = <<>> /\ concluded = "startup_failure" => result.outcome = "failure"
    <2>1. done.jobs = <<>> => tests = {} /\ ~BadgeFailed(done.jobs)
      BY TestsOfARun DEF tests
    <2>2. QED
      BY <2>1, <1>2, <1>6 DEF Failing
  <1>13. ASSUME done.jobs # <<>>, done.conclusion = "none", concluded \in Failing
         PROVE  result.outcome \in Failing
    <2>1. /\ tests = {1, 2} /\ ~BadgeFailed(done.jobs)
          /\ \A i \in tests : done.jobs[i].conclusion \in {"none", "success"}
      BY <1>13, TestsOfARun DEF RunFacts, tests
    <2>2. failed = 0 /\ unstable = 0 /\ stopped = 0 /\ ~(tests # {} /\ All({"skipped"}))
      BY <2>1, <1>2 DEF Failing, Unstable
    <2>3. QED
      BY <2>1, <2>2, <1>6, <1>13
  <1>14. QED
    BY <1>9, <1>10, <1>11, <1>12, <1>13 DEF result, tests, blamed

-------------------------------------------------------------------------------
(* Where it is posted.                                                     *)

LEMMA ResolvesToAChannel ==
  ASSUME NEW repo, NEW f
  PROVE  Resolve(repo, f) \in Channel \cup {Nowhere}
  <1>1. CASE f \in Routed(repo)
    <2>1. \E c \in Channel : f \in repo.routes[c]
      BY <1>1 DEF Routed
    <2>2. (CHOOSE c \in Channel : f \in repo.routes[c]) \in Channel
      BY <2>1
    <2>3. QED
      BY <1>1, <2>2 DEF Resolve
  <1>2. CASE f \notin Routed(repo)
    BY <1>2, FallbackAssumption DEF Resolve
  <1>3. QED
    BY <1>1, <1>2

LEMMA TriggerCounts ==
  ASSUME NEW repo \in Mapping, NEW n \in Name
  PROVE  /\ TriggerList(repo)[n] \in Nat
         /\ (\E f \in Routed(repo) : repo.name[f] = n) => TriggerList(repo)[n] > 0
  <1> DEFINE R == {r \in Channel \X File : r[2] \in repo.routes[r[1]] /\ repo.name[r[2]] = n}
  <1>1. IsFiniteSet(Channel \X File)
    BY FiniteAssumption, FS_Product
  <1>2. IsFiniteSet(R)
    BY <1>1, FS_Subset
  <1>3. TriggerList(repo)[n] = Cardinality(R)
    BY DEF TriggerList
  <1>4. Cardinality(R) \in Nat /\ (R # {} => Cardinality(R) # 0)
    BY <1>2, FS_CardinalityType, FS_EmptySet
  <1>5. ASSUME NEW f \in Routed(repo), repo.name[f] = n
        PROVE  R # {}
    <2>1. PICK c \in Channel : f \in repo.routes[c]
      BY DEF Routed
    <2>2. f \in File
      BY <2>1 DEF Mapping
    <2>3. <<c, f>> \in R
      BY <1>5, <2>1, <2>2
    <2>4. QED
      BY <2>3
  <1> HIDE DEF R
  <1>6. QED
    BY <1>3, <1>4, <1>5

(* A nightly that the check lets through, and that is not skipped, starts  *)
(* the notifier.                                                           *)
LEMMA RoutedTriggers ==
  ASSUME NEW repo \in Mapping, CheckPasses(repo), NEW f \in File,
         Resolve(repo, f) # Nowhere, repo.name[f] # Absent
  PROVE  repo.name[f] \in Name /\ repo.trigger[repo.name[f]] > 0
  <1>1. repo.name[f] \in Name
    BY DEF Mapping
  <1>2. f \in Routed(repo)
    BY DEF CheckPasses, Valid, OnDisk, Resolve
  <1>3. TriggerList(repo)[repo.name[f]] > 0
    BY <1>1, <1>2, TriggerCounts
  <1>4. QED
    BY <1>1, <1>3 DEF CheckPasses

LEMMA FixedIsAMapping ==
  ASSUME NEW repo \in Mapping
  PROVE  Fixed(repo) \in Mapping
  <1>1. TriggerList(repo) \in [Name -> Nat]
    <2>1. \A n \in Name : TriggerList(repo)[n] \in Nat
      BY TriggerCounts
    <2>2. TriggerList(repo) = [n \in Name |-> TriggerList(repo)[n]]
      BY DEF TriggerList
    <2>3. QED
      BY <2>1, <2>2
  <1>2. [repo EXCEPT !.trigger = TriggerList(repo)] \in Mapping
    BY <1>1 DEF Mapping
  <1>3. QED
    BY <1>2 DEF Fixed

(* What a post says, and when there is one.                                *)
LEMMA ReportSays ==
  ASSUME NEW repo, NEW f, NEW answer, NEW jobs, NEW override \in Channel \cup {Nowhere}
  PROVE  LET result == NightlyOutcome(jobs, answer.conclusion)
         IN  /\ \A m \in Report(repo, f, answer, jobs, override) :
                  /\ m.channel \in Channel /\ m.attempt = answer.attempt /\ m.job = result.job
                  /\ m.owners => result.outcome \in Notifiable
             /\ Target(repo, f, override) # Nowhere /\ answer.scheduled /\ result.outcome \in Failing =>
                \E m \in Report(repo, f, answer, jobs, override) :
                  /\ m.channel = Target(repo, f, override) /\ m.attempt = answer.attempt
                  /\ m.kind \in Failing
  <1> DEFINE result  == NightlyOutcome(jobs, answer.conclusion)
             channel == Target(repo, f, override)
             post    == [ channel  |-> channel,
                          kind     |-> result.outcome,
                          job      |-> result.job,
                          unrouted |-> override = Nowhere /\ f \notin Routed(repo),
                          owners   |-> result.outcome \in Notifiable /\ repo.name[f] # Absent,
                          attempt  |-> answer.attempt ]
  <1>1. Report(repo, f, answer, jobs, override) =
          IF ~answer.scheduled \/ channel = Nowhere
             \/ (result.outcome \notin Notifiable /\ ~BadgeFailed(jobs))
          THEN {} ELSE {post}
    BY DEF Report
  <1>2. /\ post.channel = channel /\ post.attempt = answer.attempt /\ post.kind = result.outcome
        /\ post.job = result.job
        /\ post.owners => result.outcome \in Notifiable
    OBVIOUS
  <1>3. channel \in Channel \cup {Nowhere}
    BY ResolvesToAChannel DEF Target
  <1>4. result.outcome \in Failing => result.outcome \in Notifiable
    BY DEF Notifiable
  <1> HIDE DEF post, channel, result
  <1>5. \A m \in Report(repo, f, answer, jobs, override) : m = post /\ channel # Nowhere
    BY <1>1
  <1>6. ASSUME NEW m \in Report(repo, f, answer, jobs, override)
        PROVE  /\ m.channel \in Channel /\ m.attempt = answer.attempt /\ m.job = result.job
               /\ m.owners => result.outcome \in Notifiable
    <2>1. m = post /\ channel # Nowhere
      BY <1>5
    <2>2. m.channel = channel /\ m.attempt = answer.attempt /\ m.job = result.job
      BY <1>2, <2>1
    <2>3. m.owners => result.outcome \in Notifiable
      BY <1>2, <2>1, Zenon
    <2>4. channel \in Channel
      BY <1>3, <2>1
    <2>5. QED
      BY <2>2, <2>3, <2>4, Zenon
  <1>7. ASSUME channel # Nowhere, answer.scheduled, result.outcome \in Failing
        PROVE  \E m \in Report(repo, f, answer, jobs, override) :
                 m.channel = channel /\ m.attempt = answer.attempt /\ m.kind \in Failing
    <2>1. post \in Report(repo, f, answer, jobs, override)
      BY <1>1, <1>4, <1>7
    <2>2. post.channel = channel /\ post.attempt = answer.attempt /\ post.kind \in Failing
      BY <1>2, <1>7
    <2>3. QED
      BY <2>1, <2>2
  <1>8. QED
    BY <1>6, <1>7 DEF result, channel

(* A pull request that passes the check leaves a mapping that passes it.   *)
LEMMA MergeKeepsMain ==
  ASSUME main \in Mapping, Merge
  PROVE  main' \in Mapping /\ CheckPasses(main')
  <1>1. PICK f \in File, name \in Name \cup {Absent}, place \in Channel \cup {"skip", Nowhere}, fix \in BOOLEAN :
          LET edited == [main EXCEPT
                           !.name[f] = name,
                           !.routes  = [c \in Channel |-> IF c = place THEN @[c] \cup {f} ELSE @[c] \ {f}],
                           !.skip     = IF place = "skip" THEN @ \cup {f} ELSE @ \ {f},
                           !.reasoned = IF place = "skip" THEN @ \cup {f} ELSE @ \ {f}]
          IN  main' = IF fix THEN Fixed(edited) ELSE edited
    BY DEF Merge
  <1> DEFINE routes   == [c \in Channel |-> IF c = place THEN main.routes[c] \cup {f} ELSE main.routes[c] \ {f}]
             skip     == IF place = "skip" THEN main.skip \cup {f} ELSE main.skip \ {f}
             reasoned == IF place = "skip" THEN main.reasoned \cup {f} ELSE main.reasoned \ {f}
             names    == [main.name EXCEPT ![f] = name]
             edited   == [main EXCEPT !.name = names, !.routes = routes, !.skip = skip, !.reasoned = reasoned]
  <1>2. main' = IF fix THEN Fixed(edited) ELSE edited
    BY <1>1
  <1>3. names \in [File -> Name \cup {Absent}]
    BY DEF Mapping
  <1>4. routes \in [Channel -> SUBSET File]
    <2>1. main.routes \in [Channel -> SUBSET File]
      BY DEF Mapping
    <2>2. \A c \in Channel : main.routes[c] \cup {f} \in SUBSET File /\ main.routes[c] \ {f} \in SUBSET File
      BY <2>1
    <2>3. QED
      BY <2>2
  <1>5. skip \in SUBSET File /\ reasoned \in SUBSET File
    BY DEF Mapping
  <1> HIDE DEF names, routes, skip, reasoned
  <1>6. edited \in Mapping
    BY <1>3, <1>4, <1>5 DEF Mapping
  <1> HIDE DEF edited
  <1>7. main' \in Mapping
    BY <1>2, <1>6, FixedIsAMapping
  <1>8. QED
    BY <1>7 DEF Merge


-------------------------------------------------------------------------------
(* The steps of the report.                                                *)

LEMMA JobsOfARun ==
  /\ Jobs \in [1 .. 3 -> JobType] /\ Jobs # <<>>
  /\ Jobs[1].name = "e2e" /\ Jobs[2].name = "report" /\ Jobs[3].name = "update-badge"
  /\ \A i \in 1 .. 3 : Jobs[i].conclusion = "none"
  <1> DEFINE names == <<"e2e", "report", "update-badge">>
  <1>1. /\ names[1] = "e2e" /\ names[2] = "report" /\ names[3] = "update-badge"
        /\ \A i \in 1 .. 3 : names[i] \in {"e2e", "report", "update-badge"}
    OBVIOUS
  <1>2. Jobs = [i \in 1 .. 3 |-> [name |-> names[i], conclusion |-> "none"]]
    BY DEF Jobs
  <1> HIDE DEF names
  <1>3. Jobs \in [1 .. 3 -> JobType]
    BY <1>1, <1>2 DEF JobType
  <1>4. 1 \in DOMAIN Jobs /\ 1 \notin DOMAIN <<>>
    BY <1>2
  <1>5. QED
    BY <1>1, <1>2, <1>3, <1>4

LEMMA TestedKeeps ==
  ASSUME SlackInv, step # "reported", step' = "judged", Tested,
         verdict' \in {"pass", "fail"}, \A name \in DOMAIN metrics' : metrics'[name] \in Nat,
         UNCHANGED <<main, manual, notifiers, answers, messages, due>>
  PROVE  SlackInv'
  <1>1. PICK scheduled \in BOOLEAN : run' = [run EXCEPT !.jobs = Jobs, !.scheduled = scheduled]
    BY DEF Tested
  <1>2. run \in RunType /\ run.conclusion = "none" /\ due = {}
    BY DEF SlackInv, RunInv, RunFacts
  <1>3. /\ run' \in RunType /\ run'.jobs = Jobs /\ run'.conclusion = "none"
        /\ run'.attempt = run.attempt
    BY <1>1, <1>2, JobsOfARun DEF RunType
  <1>4. RunFacts(run')
    BY <1>3, JobsOfARun DEF RunFacts, Finished
  <1>5. ~Deploying'
    BY DEF Deploying
  <1>6. ReportTypes'
    BY DEF SlackInv, ReportTypes
  <1>7. RunInv'
    BY <1>2, <1>3, <1>4, <1>5, JobsOfARun DEF RunInv
  <1>8. AnswerInv'
    BY <1>2, <1>3 DEF SlackInv, AnswerInv
  <1>9. DueInv'
    BY <1>2 DEF DueInv
  <1>10. QED
    BY <1>6, <1>7, <1>8, <1>9 DEF SlackInv

LEMMA ScaleKeepsReport ==
  ASSUME SlackInv, UNCHANGED <<verdict, slack>>,
         metrics' = metrics \/ metrics' = NoMetrics,
         step' = step \/ (Deploying /\ step' \in {"snapshot", "pod2", "captured"})
           \/ (step = "judged" /\ step' = "cleaned")
  PROVE  SlackInv'
  <1>1. /\ UNCHANGED <<verdict, main, manual, run, notifiers, answers, messages, due>>
        /\ \A name \in DOMAIN metrics' : metrics'[name] \in Nat
    BY DEF slack, notifier, SlackInv, ReportTypes, NoMetrics
  <1>2. /\ Deploying' => Deploying
        /\ step' \in {"judged", "cleaned"} => step \in {"judged", "cleaned"}
        /\ step' = "reported" => step = "reported"
        /\ step' # "reported" => step # "reported"
    BY DEF Deploying
  <1>3. ReportTypes'
    BY <1>1 DEF SlackInv, ReportTypes
  <1>4. RunInv'
    BY <1>1, <1>2 DEF SlackInv, RunInv
  <1>5. AnswerInv'
    BY <1>1 DEF SlackInv, AnswerInv
  <1>6. DueInv'
    BY <1>1 DEF SlackInv, DueInv, Heard, Unread, Halfway, Sends
  <1>7. QED
    BY <1>3, <1>4, <1>5, <1>6 DEF SlackInv

(* The group of the notifiers: a new one is last, and comes at once if     *)
(* there is no other; one that waits goes only when there are two.         *)
LEMMA QueueOrders ==
  ASSUME notifiers \in Seq(NotifierType), Len(notifiers) <= 2, NEW new \in NotifierType, Queue(new)
  PROVE  /\ notifiers' \in Seq(NotifierType) /\ Len(notifiers') <= 2
         /\ Len(notifiers') \in DOMAIN notifiers' /\ notifiers'[Len(notifiers')] = new
         /\ Len(notifiers') = 1 => notifiers = <<>>
         /\ notifiers # <<>> => notifiers' # <<>> /\ notifiers'[1] = notifiers[1]
         /\ Len(notifiers) < 2 =>
              \A k \in DOMAIN notifiers : k \in DOMAIN notifiers' /\ notifiers'[k] = notifiers[k]
  <1>1. CASE Len(notifiers) < 2
    <2>1. notifiers' = Append(notifiers, new)
      BY <1>1 DEF Queue
    <2>2. QED
      BY <1>1, <2>1
  <1>2. CASE ~(Len(notifiers) < 2)
    <2>1. notifiers' = <<Head(notifiers), new>> /\ Len(notifiers) = 2
      BY <1>2 DEF Queue
    <2>2. Head(notifiers) = notifiers[1] /\ notifiers[1] \in NotifierType
      BY <2>1
    <2>3. QED
      BY <1>2, <2>1, <2>2
  <1>3. QED
    BY <1>1, <1>2

LEMMA LeaveOrders ==
  ASSUME notifiers \in Seq(NotifierType), Len(notifiers) <= 2, notifiers # <<>>, Leave
  PROVE  /\ notifiers' \in Seq(NotifierType) /\ Len(notifiers') <= 2 /\ answers' = {}
         /\ \A k \in DOMAIN notifiers \ {1} :
              k - 1 \in DOMAIN notifiers' /\ notifiers'[k - 1] = notifiers[k]
  BY DEF Leave

(* A failure in the jobs is one in the report.                             *)
LEMMA FailedSays ==
  ASSUME NEW done, RunFacts(done), Failed(done),
         done.jobs = <<>> => done.conclusion = "startup_failure"
  PROVE  NightlyOutcome(done.jobs, done.conclusion).outcome \in Failing
  <1>1. CASE \E i \in TestJobs(done.jobs) : done.jobs[i].conclusion \in Failing
    BY <1>1, OutcomeOfARun
  <1>2. CASE done.jobs = <<>>
    BY <1>2, OutcomeOfARun DEF Failing
  <1>3. QED
    BY <1>1, <1>2 DEF Failed

(* A failure that is owed has its notifier.                                *)
LEMMA CompletedKeeps ==
  ASSUME SlackInv, NEW done, Completed(done), RunFacts(done),
         done.name = run.name, done.attempt = run.attempt, run.conclusion = "none",
         done.jobs = <<>> => done.conclusion = "startup_failure",
         done.conclusion = "startup_failure" \/ Finished(done),
         step' = "reported", verdict' \in {"none", "pass", "fail"},
         UNCHANGED <<metrics, main, manual, messages>>
  PROVE  SlackInv'
  <1>1. run' = done /\ due' = Owed(done) /\ answers' = answers
    BY DEF Completed
  <1>2. PICK name \in {run.name, main.name[Nightly]} \ {Absent} :
          IF main.trigger[name] > 0
          THEN Queue([ repo |-> main, override |-> Nowhere,
                       posts |-> done.scheduled /\ done.conclusion \in Triggering ])
          ELSE UNCHANGED notifiers
    BY DEF Completed
  <1> DEFINE new == [ repo |-> main, override |-> Nowhere,
                      posts |-> done.scheduled /\ done.conclusion \in Triggering ]
  <1>3. new \in NotifierType
    <2>1. (done.scheduled /\ done.conclusion \in Triggering) \in BOOLEAN
      BY DEF RunFacts, RunType
    <2>2. main \in Mapping
      BY DEF SlackInv, ReportTypes
    <2> DEFINE posts == done.scheduled /\ done.conclusion \in Triggering
    <2> HIDE DEF posts
    <2>3. [repo |-> main, override |-> Nowhere, posts |-> posts] \in NotifierType
      BY <2>1, <2>2 DEF NotifierType, posts
    <2>4. QED
      BY <2>3 DEF posts
  <1>4. new.repo = main /\ new.override = Nowhere
        /\ (new.posts <=> done.scheduled /\ done.conclusion \in Triggering)
    OBVIOUS
  <1>5. IF main.trigger[name] > 0 THEN Queue(new) ELSE UNCHANGED notifiers
    BY <1>2
  <1> HIDE DEF new
  <1>6. notifiers \in Seq(NotifierType) /\ Len(notifiers) <= 2
    BY DEF SlackInv, ReportTypes
  <1>7. /\ notifiers' \in Seq(NotifierType) /\ Len(notifiers') <= 2
        /\ notifiers # <<>> => notifiers' # <<>> /\ notifiers'[1] = notifiers[1]
    BY <1>3, <1>5, <1>6, QueueOrders
  <1>8. ReportTypes'
    BY <1>1, <1>7 DEF SlackInv, ReportTypes
  <1>9. RunInv'
    <2>1. ~Deploying'
      BY DEF Deploying
    <2>2. QED
      BY <1>1, <2>1 DEF RunInv
  <1>10. AnswerInv'
    BY <1>1, <1>7 DEF SlackInv, AnswerInv
  <1>11. ASSUME NEW d \in due'
         PROVE  /\ d \in [channel : Channel, attempt : 1 .. MaxAttempts] /\ d.channel # Nowhere
                /\ Unread(d)'
    <2>1. /\ Failed(done) /\ done.name = main.name[Nightly] /\ Resolve(main, Nightly) # Nowhere
          /\ d = [channel |-> Resolve(main, Nightly), attempt |-> done.attempt]
      BY <1>1, <1>11 DEF Owed, Failed
    <2>2. d.channel = Resolve(main, Nightly) /\ d.attempt = done.attempt
      BY <2>1
    <2>3. name = main.name[Nightly] /\ name # Absent
      BY <2>1
    <2>4. main.trigger[name] > 0
      BY <2>1, <2>3, RoutedTriggers, NightlyAssumption DEF SlackInv, ReportTypes
    <2>5. PICK k \in DOMAIN notifiers' : notifiers'[k] = new /\ (k = 1 => notifiers = <<>>)
      BY <1>3, <1>5, <1>6, <2>4, QueueOrders
    <2>6. new.posts
      BY <1>4, <2>1 DEF Failed, Triggering
    <2>7. Target(new.repo, Nightly, new.override) = d.channel
      BY <1>4, <2>2 DEF Target
    <2>8. Sends(k, d)'
      BY <2>5, <2>6, <2>7 DEF Sends
    <2>9. k = 1 => answers' = {}
      BY <2>5, <1>1 DEF SlackInv, AnswerInv
    <2>10. Unread(d)'
      BY <1>1, <2>1, <2>2, <2>5, <2>8, <2>9 DEF Unread
    <2>11. d \in [channel : Channel, attempt : 1 .. MaxAttempts]
      BY <2>1, ResolvesToAChannel DEF RunFacts, RunType
    <2>12. QED
      BY <2>1, <2>2, <2>10, <2>11
  <1>12. DueInv'
    BY <1>11 DEF DueInv
  <1>13. QED
    BY <1>8, <1>9, <1>10, <1>12 DEF SlackInv

LEMMA StartupFailsKeepsReport ==
  ASSUME SlackInv, StartupFails
  PROVE  SlackInv'
  <1> DEFINE done == [run EXCEPT !.conclusion = "startup_failure"]
  <1>1. step = "pod1" /\ Completed(done) /\ step' = "reported"
        /\ UNCHANGED <<verdict, metrics, main, manual, messages>>
    BY DEF StartupFails
  <1>2. run \in RunType /\ run.jobs = <<>> /\ verdict \in {"none", "pass", "fail"}
    BY <1>1 DEF SlackInv, RunInv, ReportTypes, RunFacts, Deploying
  <1>3. /\ done \in RunType /\ done.jobs = <<>> /\ done.name = run.name
        /\ done.conclusion = "startup_failure" /\ done.attempt = run.attempt
    BY <1>2 DEF RunType
  <1> HIDE DEF done
  <1>4. RunFacts(done)
    BY <1>3 DEF RunFacts, Finished
  <1>5. run.conclusion = "none"
    BY <1>1 DEF SlackInv, RunInv
  <1>6. QED
    BY <1>1, <1>2, <1>3, <1>4, <1>5, CompletedKeeps

LEMMA CompleteKeepsReport ==
  ASSUME SlackInv, Complete
  PROVE  SlackInv'
  <1>1. /\ run \in RunType /\ run.jobs # <<>> /\ run.attempt \in 1 .. MaxAttempts
        /\ run.conclusion = "none" /\ RunFacts(run) /\ MaxAttempts \in Nat
    BY BoundsAssumption DEF Complete, SlackInv, RunInv, RunFacts, RunType
  <1>2. PICK a \in Conclusions(1), b \in Conclusions(2), c \in Conclusions(3) :
          LET End(i) == IF run.jobs[i].conclusion = "none" THEN <<a, b, c>>[i]
                        ELSE run.jobs[i].conclusion
              jobs   == [i \in 1 .. 3 |-> [run.jobs[i] EXCEPT !.conclusion = End(i)]]
          IN  \E ended \in Concluded(jobs) :
                Completed([run EXCEPT !.jobs = jobs, !.conclusion = ended])
    BY DEF Complete
  <1> DEFINE End(i) == IF run.jobs[i].conclusion = "none" THEN <<a, b, c>>[i] ELSE run.jobs[i].conclusion
             jobs   == [i \in 1 .. 3 |-> [run.jobs[i] EXCEPT !.conclusion = End(i)]]
  <1>3. PICK ended \in Concluded(jobs) : Completed([run EXCEPT !.jobs = jobs, !.conclusion = ended])
    BY <1>2
  <1>4. a \in Ends /\ b \in Ends /\ c \in {"success", "failure"}
    <2>1. Conclusions(1) \subseteq Ends
      <3>1. run.attempt = 1 \/ run.attempt > 1
        BY <1>1
      <3>2. QED
        BY <3>1 DEF Conclusions, Ends
    <2>2. Conclusions(2) \subseteq Ends /\ Conclusions(3) = {"success", "failure"}
      BY DEF Conclusions, Ends
    <2>3. QED
      BY <2>1, <2>2
  <1>5. /\ run.jobs \in [1 .. 3 -> JobType]
        /\ run.jobs[1].name = "e2e" /\ run.jobs[2].name = "report" /\ run.jobs[3].name = "update-badge"
        /\ run.jobs[3].conclusion \in {"none", "success", "failure"}
    BY <1>1 DEF RunFacts, RunType
  <1>6. /\ \A i \in 1 .. 3 : End(i) \in Ends
        /\ End(3) \in {"success", "failure"}
    <2>1. \A i \in 1 .. 3 : <<a, b, c>>[i] \in Ends
      BY <1>4 DEF Ends
    <2>2. <<a, b, c>>[3] = c
      OBVIOUS
    <2>3. \A i \in 1 .. 3 : run.jobs[i].conclusion \in {"none"} \cup Ends
      BY <1>5 DEF JobType
    <2>4. QED
      BY <2>1, <2>2, <2>3, <1>4, <1>5
  <1> HIDE DEF End
  <1>7. /\ jobs \in [1 .. 3 -> JobType] /\ jobs # <<>>
        /\ \A i \in 1 .. 3 : jobs[i].name = run.jobs[i].name /\ jobs[i].conclusion = End(i)
    <2>1. ASSUME NEW i \in 1 .. 3
          PROVE  /\ [run.jobs[i] EXCEPT !.conclusion = End(i)] \in JobType
                 /\ [run.jobs[i] EXCEPT !.conclusion = End(i)].name = run.jobs[i].name
                 /\ [run.jobs[i] EXCEPT !.conclusion = End(i)].conclusion = End(i)
      <3>1. run.jobs[i] \in JobType /\ End(i) \in Ends
        BY <1>5, <1>6
      <3>2. QED
        BY <3>1 DEF JobType
    <2>2. 1 \in DOMAIN jobs /\ 1 \notin DOMAIN <<>>
      OBVIOUS
    <2>3. QED
      BY <2>1, <2>2
  <1> HIDE DEF jobs
  <1> DEFINE done == [run EXCEPT !.jobs = jobs, !.conclusion = ended]
  <1>8. ended \in Ends \ {"none"}
    <2> DEFINE All == {job.conclusion : job \in ToSet(jobs)}
    <2>1. Concluded(jobs) =
            CASE All \cap Failing # {}      -> {"failure"} \cup (All \cap {"cancelled"})
              [] All \cap Failing = {} /\ "cancelled" \in All -> {"cancelled"}
              [] OTHER -> IF "neutral" \in All THEN {"neutral", "success"} ELSE {"success"}
      BY DEF Concluded
    <2> HIDE DEF All
    <2>2. QED
      BY <2>1 DEF Ends
  <1>9. /\ done \in RunType /\ done.jobs = jobs /\ done.conclusion = ended /\ done.name = run.name
        /\ done.attempt = run.attempt
    BY <1>1, <1>7, <1>8 DEF RunType
  <1>10. Completed(done)
    BY <1>3
  <1> HIDE DEF done
  <1>11. Finished(done) /\ done.conclusion \notin {"startup_failure", "none"}
    BY <1>8, <1>9 DEF Finished, Ends
  <1>12. RunFacts(done)
    BY <1>5, <1>6, <1>7, <1>9, <1>11 DEF RunFacts, Ends
  <1>13. step' = "reported" /\ verdict' = "none" /\ UNCHANGED <<metrics, main, manual, messages>>
    BY DEF Complete
  <1>14. verdict' \in {"none", "pass", "fail"}
    BY <1>13
  <1>15. QED
    BY <1>1, <1>7, <1>9, <1>10, <1>11, <1>12, <1>13, <1>14, CompletedKeeps

LEMMA RerunKeepsReport ==
  ASSUME SlackInv, Rerun
  PROVE  SlackInv'
  <1>1. PICK first \in 1 .. 3 :
          /\ \A i \in 1 .. first - 1 : run.jobs[i].conclusion = "success"
          /\ run' = [run EXCEPT !.attempt = @ + 1, !.conclusion = "none",
                                !.jobs = [i \in 1 .. 3 |-> IF i < first THEN @[i] ELSE Jobs[i]]]
    BY DEF Rerun
  <1>2. /\ run \in RunType /\ RunFacts(run) /\ Finished(run) /\ run.attempt < MaxAttempts
        /\ MaxAttempts \in Nat /\ step = "reported"
    BY BoundsAssumption DEF Rerun, SlackInv, RunInv, RunFacts, Finished
  <1>3. /\ run.jobs \in [1 .. 3 -> JobType] /\ run.attempt \in 1 .. MaxAttempts
        /\ run.jobs[1].name = "e2e" /\ run.jobs[2].name = "report" /\ run.jobs[3].name = "update-badge"
        /\ run.jobs[3].conclusion \in {"none", "success", "failure"}
    BY <1>2 DEF RunFacts, RunType
  <1> DEFINE jobs == [i \in 1 .. 3 |-> IF i < first THEN run.jobs[i] ELSE Jobs[i]]
  <1>4. /\ jobs \in [1 .. 3 -> JobType] /\ jobs # <<>>
        /\ \A i \in 1 .. 3 : jobs[i] \in {run.jobs[i], Jobs[i]}
    <2>1. \A i \in 1 .. 3 : run.jobs[i] \in JobType /\ Jobs[i] \in JobType
      BY <1>3, JobsOfARun
    <2>2. 1 \in DOMAIN jobs /\ 1 \notin DOMAIN <<>>
      OBVIOUS
    <2>3. QED
      BY <2>1, <2>2
  <1>5. run' = [run EXCEPT !.attempt = run.attempt + 1, !.conclusion = "none", !.jobs = jobs]
    BY <1>1
  <1> HIDE DEF jobs
  <1>6. run.attempt + 1 \in 1 .. MaxAttempts
    BY <1>2, <1>3
  <1>7. /\ run' \in RunType /\ run'.jobs = jobs /\ run'.conclusion = "none"
        /\ run'.attempt = run.attempt + 1
    BY <1>2, <1>4, <1>5, <1>6 DEF RunType
  <1>8. /\ jobs[1].name = "e2e" /\ jobs[2].name = "report" /\ jobs[3].name = "update-badge"
        /\ jobs[3].conclusion = "none"
        /\ \A i \in {1, 2} : jobs[i].conclusion \in {"none", "success"}
    <2>1. \A i \in 1 .. 3 : i < first => run.jobs[i].conclusion = "success"
      BY <1>1
    <2>2. ~(3 < first)
      OBVIOUS
    <2>3. QED
      BY <1>3, <2>1, <2>2, JobsOfARun DEF jobs
  <1>9. RunFacts(run')
    BY <1>4, <1>7, <1>8 DEF RunFacts, Finished
  <1>10. UNCHANGED <<step, verdict, metrics, main, manual, notifiers, answers, messages>>
    BY DEF Rerun, notifier
  <1>11. ~Deploying'
    BY <1>2, <1>10 DEF Deploying
  <1>12. ReportTypes'
    BY <1>10 DEF SlackInv, ReportTypes
  <1>13. RunInv'
    BY <1>2, <1>4, <1>7, <1>9, <1>10, <1>11 DEF RunInv
  <1>14. AnswerInv'
    <2>1. ASSUME NEW answer \in answers
          PROVE  answer.attempt < run'.attempt
      <3>1. answer \in AnswerType /\ answer.attempt <= run.attempt
        BY DEF SlackInv, AnswerInv, ReportTypes
      <3>2. answer.attempt \in Nat /\ run.attempt \in Nat
        BY <3>1, <1>3 DEF AnswerType, Answer, RunType
      <3>3. QED
        BY <3>1, <3>2, <1>7
    <2>2. run'.attempt \in Nat /\ \A answer \in answers : answer.attempt \in Nat
      BY <1>3, <1>7 DEF SlackInv, ReportTypes, AnswerType, Answer, RunType
    <2>3. \A answer \in answers : answer.attempt <= run'.attempt /\ answer.attempt # run'.attempt
      BY <2>1, <2>2
    <2>4. QED
      BY <2>3, <1>10 DEF SlackInv, AnswerInv
  <1>15. ASSUME NEW d \in due'
         PROVE  /\ d \in [channel : Channel, attempt : 1 .. MaxAttempts] /\ d.channel # Nowhere
                /\ Heard(d)' \/ Halfway(d)'
    <2>1. d \in due /\ BeingPosted(d)
      BY <1>15 DEF Rerun
    <2>2. /\ d \in [channel : Channel, attempt : 1 .. MaxAttempts] /\ d.channel # Nowhere
          /\ Heard(d) \/ Unread(d) \/ Halfway(d)
      BY <2>1 DEF SlackInv, DueInv
    <2>3. Heard(d) => Heard(d)'
      BY <1>10 DEF Heard
    <2>4. ~Halfway(d)
      BY <1>2 DEF Halfway, Finished
    <2>5. ASSUME Unread(d)
          PROVE  Halfway(d)'
      <3>1. answers = {Answer(run)} /\ run.attempt = d.attempt
            /\ Target(Head(notifiers).repo, Nightly, Head(notifiers).override) = d.channel
        BY <2>1 DEF BeingPosted
      <3>2. notifiers # <<>> /\ notifiers[1].posts /\ notifiers \in Seq(NotifierType)
        BY <3>1 DEF SlackInv, AnswerInv, ReportTypes
      <3>3. 1 \in DOMAIN notifiers /\ Head(notifiers) = notifiers[1]
        BY <3>2
      <3>4. Sends(1, d)'
        BY <3>1, <3>2, <3>3, <1>10 DEF Sends
      <3>5. run.scheduled /\ run.conclusion \in Failing
        BY <2>5, <1>2 DEF Unread, Failed, Finished
      <3>6. Answer(run).scheduled = run.scheduled /\ Answer(run).conclusion = run.conclusion
            /\ Answer(run).attempt = run.attempt
        BY DEF Answer
      <3>7. QED
        BY <3>1, <3>4, <3>5, <3>6, <1>7, <1>10 DEF Halfway
    <2>6. QED
      BY <2>2, <2>3, <2>4, <2>5
  <1>16. DueInv'
    BY <1>15 DEF DueInv
  <1>17. QED
    BY <1>12, <1>13, <1>14, <1>16 DEF SlackInv

(* What is due stays so if what it is about stays.                         *)
LEMMA DueStays ==
  ASSUME SlackInv, due' \subseteq due,
         \A d \in due : Heard(d) \/ Unread(d) \/ Halfway(d) => Heard(d)' \/ Unread(d)' \/ Halfway(d)'
  PROVE  DueInv'
  BY DEF SlackInv, DueInv

(* The first notifier reads the run.                                       *)
LEMMA FetchRunKeepsReport ==
  ASSUME SlackInv, FetchRun
  PROVE  SlackInv'
  <1>1. /\ notifiers # <<>> /\ Head(notifiers).posts /\ answers = {} /\ answers' = {Answer(run)}
        /\ UNCHANGED <<step, verdict, metrics, main, manual, run, notifiers, messages, due>>
    BY DEF FetchRun
  <1>2. run \in RunType /\ run.attempt \in Nat /\ notifiers \in Seq(NotifierType)
    BY DEF SlackInv, RunInv, ReportTypes, RunFacts, RunType
  <1>3. ReportTypes'
    BY <1>1, <1>2 DEF SlackInv, ReportTypes, AnswerType
  <1>4. RunInv'
    BY <1>1 DEF SlackInv, RunInv, Deploying
  <1>5. AnswerInv'
    <2>1. Head(notifiers) = notifiers[1]
      BY <1>1, <1>2
    <2>2. Answer(run).attempt = run.attempt /\ Answer(run).conclusion = run.conclusion
      BY DEF Answer
    <2>3. QED
      BY <1>1, <1>2, <2>1, <2>2 DEF AnswerInv
  <1>6. DueInv'
    <2>1. ASSUME NEW d \in due
          PROVE  /\ Heard(d) => Heard(d)'
                 /\ Unread(d) => Unread(d)'
                 /\ ~Halfway(d)
      BY <1>1 DEF Heard, Unread, Halfway, Sends
    <2>2. QED
      BY <2>1, <1>1, DueStays
  <1>7. QED
    BY <1>3, <1>4, <1>5, <1>6 DEF SlackInv

(* A notifier leaves, having posted what it was to post, if anything.      *)
LEMMA LeavingKeepsReport ==
  ASSUME SlackInv, notifiers # <<>>, Leave, messages \subseteq messages',
         \A m \in messages' : m.channel \in Channel /\ m.attempt \in 1 .. MaxAttempts,
         \A d \in due' : Halfway(d) \/ (Unread(d) /\ Sends(1, d) /\ answers \subseteq {Answer(run)}) =>
                          Heard(d)',
         due' \subseteq due,
         UNCHANGED <<step, verdict, metrics, main, manual, run>>
  PROVE  SlackInv'
  <1>1. /\ notifiers' \in Seq(NotifierType) /\ Len(notifiers') <= 2 /\ answers' = {}
        /\ \A k \in DOMAIN notifiers \ {1} :
             k - 1 \in DOMAIN notifiers' /\ notifiers'[k - 1] = notifiers[k]
    BY LeaveOrders DEF SlackInv, ReportTypes
  <1>2. ReportTypes'
    BY <1>1 DEF SlackInv, ReportTypes
  <1>3. RunInv'
    BY DEF SlackInv, RunInv, Deploying
  <1>4. AnswerInv'
    BY <1>1 DEF AnswerInv
  <1>5. ASSUME NEW d \in due'
        PROVE  Heard(d) \/ Unread(d) \/ Halfway(d) => Heard(d)' \/ Unread(d)'
    <2>1. Heard(d) => Heard(d)'
      BY DEF Heard
    <2>2. Halfway(d) => Heard(d)'
      BY <1>5
    <2>3. ASSUME Unread(d), ~Heard(d)'
          PROVE  Unread(d)'
      <3>1. PICK k \in DOMAIN notifiers : Sends(k, d) /\ (k = 1 => answers \subseteq {Answer(run)})
        BY <2>3 DEF Unread
      <3>2. k # 1
        BY <1>5, <2>3, <3>1
      <3>3. k - 1 \in DOMAIN notifiers' /\ notifiers'[k - 1] = notifiers[k]
        BY <1>1, <3>2
      <3>4. PICK j \in DOMAIN notifiers' : notifiers'[j] = notifiers[k]
        BY <3>3
      <3>5. Sends(j, d)'
        BY <3>1, <3>4 DEF Sends
      <3>6. run'.attempt = d.attempt /\ Failed(run')
        BY <2>3 DEF Unread
      <3>7. QED
        BY <3>5, <3>6, <1>1 DEF Unread
    <2>4. QED
      BY <2>1, <2>2, <2>3
  <1>6. DueInv'
    BY <1>5 DEF SlackInv, DueInv
  <1>7. QED
    BY <1>2, <1>3, <1>4, <1>6 DEF SlackInv

(* The first notifier reads the jobs and posts.                            *)
LEMMA FetchJobsKeepsReport ==
  ASSUME SlackInv, FetchJobs
  PROVE  SlackInv'
  <1>1. PICK answer \in answers :
          messages' = messages \cup
            Report(Head(notifiers).repo, Nightly, answer, run.jobs, Head(notifiers).override)
    BY DEF FetchJobs
  <1>2. Leave /\ UNCHANGED <<step, verdict, metrics, main, manual, run, due>>
    BY DEF FetchJobs
  <1>3. notifiers # <<>> /\ notifiers \in Seq(NotifierType) /\ answer \in AnswerType /\ RunFacts(run)
    BY <1>1 DEF SlackInv, AnswerInv, ReportTypes, RunInv
  <1>4. 1 \in DOMAIN notifiers /\ Head(notifiers) = notifiers[1] /\ notifiers[1] \in NotifierType
    BY <1>3
  <1> DEFINE first == notifiers[1]
             result == NightlyOutcome(run.jobs, answer.conclusion)
  <1>5. first.override \in Channel \cup {Nowhere}
    BY <1>4 DEF NotifierType
  <1>6. messages' = messages \cup Report(first.repo, Nightly, answer, run.jobs, first.override)
    BY <1>1, <1>4
  <1> HIDE DEF first
  <1>7. answer.attempt \in 1 .. MaxAttempts
    BY <1>3 DEF AnswerType, Answer, RunType
  <1>8. \A m \in messages' : m.channel \in Channel /\ m.attempt \in 1 .. MaxAttempts
    BY <1>5, <1>6, <1>7, ReportSays DEF SlackInv, ReportTypes
  <1>9. ASSUME NEW d \in due,
               Halfway(d) \/ (Unread(d) /\ Sends(1, d) /\ answers \subseteq {Answer(run)})
        PROVE  Heard(d)'
    <2>1. Target(first.repo, Nightly, first.override) = d.channel /\ d.channel # Nowhere
      BY <1>9 DEF Halfway, Sends, first, SlackInv, DueInv
    <2>2. answer.scheduled /\ answer.attempt = d.attempt /\ result.outcome \in Failing
      <3>1. CASE Halfway(d)
        <4>1. answer.scheduled /\ answer.conclusion \in Failing /\ answer.attempt = d.attempt
              /\ run.conclusion = "none"
          BY <3>1 DEF Halfway
        <4>2. run.jobs # <<>>
          BY <4>1 DEF SlackInv, RunInv
        <4>3. QED
          BY <4>1, <4>2, <1>3, OutcomeOfARun
      <3>2. CASE Unread(d) /\ answers \subseteq {Answer(run)}
        <4>1. run.attempt = d.attempt /\ Failed(run) /\ answer = Answer(run)
          BY <3>2 DEF Unread
        <4>2. answer.scheduled = run.scheduled /\ answer.conclusion = run.conclusion
              /\ answer.attempt = run.attempt
          BY <4>1 DEF Answer
        <4>3. run.jobs = <<>> => run.conclusion = "startup_failure"
          BY <4>1 DEF SlackInv, RunInv, Failed, Failing
        <4>4. QED
          BY <4>1, <4>2, <4>3, <1>3, FailedSays DEF Failed
      <3>3. QED
        BY <3>1, <3>2, <1>9
    <2>3. PICK m \in Report(first.repo, Nightly, answer, run.jobs, first.override) :
            m.channel = d.channel /\ m.attempt = d.attempt /\ m.kind \in Failing
      BY <2>1, <2>2, <1>5, ReportSays
    <2>4. QED
      BY <2>3, <1>6 DEF Heard
  <1>10. QED
    BY <1>2, <1>3, <1>6, <1>8, <1>9, LeavingKeepsReport

LEMMA SilentKeepsReport ==
  ASSUME SlackInv, Silent
  PROVE  SlackInv'
  <1>1. /\ notifiers # <<>> /\ ~Head(notifiers).posts /\ Leave
        /\ UNCHANGED <<step, verdict, metrics, main, manual, run, messages, due>>
    BY DEF Silent
  <1>2. notifiers \in Seq(NotifierType)
    BY DEF SlackInv, ReportTypes
  <1>3. Head(notifiers) = notifiers[1]
    BY <1>1, <1>2
  <1>4. \A d : ~Sends(1, d)
    BY <1>1, <1>3 DEF Sends
  <1>5. \A d : ~Halfway(d)
    BY <1>4 DEF Halfway
  <1>6. \A m \in messages' : m.channel \in Channel /\ m.attempt \in 1 .. MaxAttempts
    BY <1>1 DEF SlackInv, ReportTypes
  <1>7. QED
    BY <1>1, <1>4, <1>5, <1>6, LeavingKeepsReport

LEMMA NotifyFailsKeepsReport ==
  ASSUME SlackInv, NotifyFails
  PROVE  SlackInv'
  <1>1. /\ notifiers # <<>> /\ Leave /\ due' = {}
        /\ UNCHANGED <<step, verdict, metrics, main, manual, run, messages>>
    BY DEF NotifyFails
  <1>2. \A m \in messages' : m.channel \in Channel /\ m.attempt \in 1 .. MaxAttempts
    BY <1>1 DEF SlackInv, ReportTypes
  <1>3. QED
    BY <1>1, <1>2, LeavingKeepsReport

(* A replay that finds nobody waiting takes no notifier's place.           *)
LEMMA ReplayKeepsReport ==
  ASSUME SlackInv, Replay
  PROVE  SlackInv'
  <1>1. PICK override \in Channel \cup {Nowhere}, posts \in BOOLEAN :
          Queue([repo |-> main, override |-> override, posts |-> posts])
    BY DEF Replay
  <1> DEFINE new == [repo |-> main, override |-> override, posts |-> posts]
  <1>2. /\ manual < MaxManual /\ manual' = manual + 1
        /\ due' = IF Len(notifiers) < 2 THEN due ELSE {}
        /\ UNCHANGED <<step, verdict, metrics, main, run, answers, messages>>
    BY DEF Replay
  <1>3. notifiers \in Seq(NotifierType) /\ Len(notifiers) <= 2 /\ main \in Mapping
    BY DEF SlackInv, ReportTypes
  <1>4. new \in NotifierType
    BY <1>3 DEF NotifierType
  <1>5. Queue(new)
    BY <1>1
  <1> HIDE DEF new
  <1>6. /\ notifiers' \in Seq(NotifierType) /\ Len(notifiers') <= 2
        /\ notifiers # <<>> => notifiers' # <<>> /\ notifiers'[1] = notifiers[1]
        /\ Len(notifiers) < 2 =>
             \A k \in DOMAIN notifiers : k \in DOMAIN notifiers' /\ notifiers'[k] = notifiers[k]
    BY <1>3, <1>4, <1>5, QueueOrders
  <1>7. manual' \in 0 .. MaxManual
    BY <1>2, BoundsAssumption DEF SlackInv, ReportTypes
  <1>8. ReportTypes'
    BY <1>2, <1>6, <1>7 DEF SlackInv, ReportTypes
  <1>9. RunInv'
    BY <1>2 DEF SlackInv, RunInv, Deploying
  <1>10. AnswerInv'
    BY <1>2, <1>6 DEF SlackInv, AnswerInv
  <1>11. DueInv'
    <2>1. CASE Len(notifiers) < 2
      <3>1. \A k, d : Sends(k, d) => Sends(k, d)'
        BY <2>1, <1>6 DEF Sends
      <3>2. ASSUME NEW d \in due
            PROVE  /\ Heard(d) => Heard(d)'
                   /\ Unread(d) => Unread(d)'
                   /\ Halfway(d) => Halfway(d)'
        <4>1. Heard(d) => Heard(d)'
          BY <1>2 DEF Heard
        <4>2. Unread(d) => Unread(d)'
          BY <1>2, <1>6, <2>1, <3>1 DEF Unread
        <4>3. Halfway(d) => Halfway(d)'
          BY <1>2, <3>1 DEF Halfway
        <4>4. QED
          BY <4>1, <4>2, <4>3
      <3>3. QED
        BY <2>1, <3>2, <1>2, DueStays
    <2>2. CASE ~(Len(notifiers) < 2)
      BY <2>2, <1>2 DEF DueInv
    <2>3. QED
      BY <2>1, <2>2
  <1>12. QED
    BY <1>8, <1>9, <1>10, <1>11 DEF SlackInv

(* A notifier has the routing of the commit it was started on.             *)
LEMMA MergeKeepsReport ==
  ASSUME SlackInv, Merge
  PROVE  SlackInv'
  <1>1. /\ manual < MaxManual /\ manual' = manual + 1
        /\ UNCHANGED <<step, verdict, metrics, run, notifiers, answers, messages, due>>
    BY DEF Merge, notifier
  <1>2. manual' \in 0 .. MaxManual
    BY <1>1, BoundsAssumption DEF SlackInv, ReportTypes
  <1>3. main' \in Mapping /\ CheckPasses(main')
    BY MergeKeepsMain DEF SlackInv, ReportTypes
  <1>4. ReportTypes'
    BY <1>1, <1>2, <1>3 DEF SlackInv, ReportTypes
  <1>5. RunInv'
    BY <1>1 DEF SlackInv, RunInv, Deploying
  <1>6. AnswerInv'
    BY <1>1 DEF SlackInv, AnswerInv
  <1>7. DueInv'
    BY <1>1 DEF SlackInv, DueInv, Heard, Unread, Halfway, Sends
  <1>8. QED
    BY <1>4, <1>5, <1>6, <1>7 DEF SlackInv


LEMMA SlackInit == Init => SlackInv
  <1> SUFFICES ASSUME Init
               PROVE  SlackInv
    OBVIOUS
  <1>1. /\ main \in Mapping /\ CheckPasses(main)
        /\ step = "pod1" /\ verdict = "none" /\ metrics = NoMetrics /\ manual = 0
        /\ notifiers = <<>> /\ answers = {} /\ messages = {} /\ due = {}
        /\ run = [ scheduled |-> TRUE, name |-> main.name[Nightly], jobs |-> <<>>,
                   conclusion |-> "none", attempt |-> 1 ]
    BY MainsAssumption DEF Init
  <1>2. main.name[Nightly] \in Name \cup {Absent} /\ 1 \in 1 .. MaxAttempts /\ 0 \in 0 .. MaxManual
    BY <1>1, NightlyAssumption, BoundsAssumption DEF Mapping
  <1>3. run \in RunType /\ run.jobs = <<>> /\ run.conclusion = "none"
    BY <1>1, <1>2 DEF RunType
  <1>4. RunFacts(run)
    BY <1>3 DEF RunFacts, Finished
  <1>5. \A name \in DOMAIN metrics : metrics[name] \in Nat
    BY <1>1 DEF NoMetrics
  <1>6. notifiers \in Seq(NotifierType) /\ Len(notifiers) <= 2
    BY <1>1
  <1>7. ReportTypes
    BY <1>1, <1>2, <1>5, <1>6 DEF ReportTypes
  <1>8. RunInv
    BY <1>1, <1>3, <1>4 DEF RunInv
  <1>9. QED
    BY <1>1, <1>7, <1>8 DEF SlackInv, AnswerInv, DueInv

LEMMA SlackStep == ClusterInv /\ SlackInv /\ [Next]_vars => SlackInv'
  <1> SUFFICES ASSUME ClusterInv, SlackInv, [Next]_vars
               PROVE  SlackInv'
    OBVIOUS
  <1>1. CASE Tick \/ Create \/ SnapshotUploaded \/ (\E i \in DOMAIN pods : PodStep(i)) \/ UNCHANGED vars
    BY <1>1, ScaleKeepsReport DEF Tick, Create, SnapshotUploaded, PodStep, vars
  <1>2. CASE Pod1Ready \/ ScaleUp \/ Capture
    BY <1>2, ScaleKeepsReport DEF Pod1Ready, ScaleUp, Capture, Deploying
  <1>3. CASE Cleanup
    BY <1>3, ScaleKeepsReport DEF Cleanup
  <1>4. CASE Judge
    <2>1. PICK seen \in {Seen, Expired(Seen)} :
            /\ verdict' = IF Verdict(seen, logs, {s.ready : s \in ReadySnaps}) THEN "pass" ELSE "fail"
            /\ metrics' = Measured(seen, logs)
      BY <1>4 DEF Judge
    <2>2. \A name \in DOMAIN metrics' : metrics'[name] \in Nat
      BY <2>1, SeenFacts, MeasuredAreNumbers
    <2>3. verdict' \in {"pass", "fail"}
      BY <2>1
    <2>4. QED
      BY <1>4, <2>2, <2>3, TestedKeeps DEF Judge, notifier
  <1>5. CASE DeployFails
    BY <1>5, TestedKeeps DEF DeployFails, notifier, SlackInv, ReportTypes
  <1>6. CASE Complete \/ StartupFails \/ Rerun
    BY <1>6, CompleteKeepsReport, StartupFailsKeepsReport, RerunKeepsReport
  <1>7. CASE FetchRun \/ FetchJobs \/ Silent \/ NotifyFails \/ Replay \/ Merge
    BY <1>7, FetchRunKeepsReport, FetchJobsKeepsReport, SilentKeepsReport, NotifyFailsKeepsReport,
       ReplayKeepsReport, MergeKeepsReport
  <1>8. QED
    BY <1>1, <1>2, <1>3, <1>4, <1>5, <1>6, <1>7 DEF Next

-------------------------------------------------------------------------------
(* The nightly, from the cluster to the channel.                           *)

Inv == ClusterInv /\ FirstSnapshot /\ VerdictIsTrue /\ SlackInv

(* What is so of the pods, their logs and snapshots, of the listing taken, *)
(* of the verdict and of the run that reports it, at every moment.         *)
THEOREM Invariant == Spec => []Inv
  <1>1. Init => Inv
    <2>1. Init => VerdictIsTrue
      BY DEF Init, VerdictIsTrue
    <2>2. QED
      BY <2>1, ClusterInit, FirstInit, SlackInit DEF Inv
  <1>2. Inv /\ [Next]_vars => Inv'
    BY ClusterStep, FirstStep, VerdictStep, SlackStep DEF Inv
  <1>3. QED
    BY <1>1, <1>2, PTL DEF Spec

(* The times a nightly computes are never negative, its clock, pods and    *)
(* faults keep their bounds, and every post goes to a channel there is.    *)
THEOREM TypeCorrect == Spec => []TypeOK
  <1>1. Inv => TypeOK
    <2> SUFFICES ASSUME Inv
                 PROVE  TypeOK
      OBVIOUS
    <2>1. /\ step \in {"pod1", "snapshot", "pod2", "captured", "judged", "cleaned", "reported"}
          /\ now \in 0 .. MaxTime /\ faults \in 0 .. MaxFaults
          /\ Len(pods) <= MaxPods /\ DOMAIN logs = Live
      BY DEF Inv, ClusterInv, ClusterTypes, Time
    <2>2. ASSUME NEW s \in snaps
          PROVE  s.by \in 0 .. MaxPods /\ s.ready \in {None} \cup 0 .. MaxTime
      <3>1. /\ s \in SnapType /\ s.by <= Len(pods) /\ Len(pods) <= MaxPods
            /\ pods \in Seq(PodType) /\ MaxPods \in Nat
        BY BoundsAssumption DEF Inv, ClusterInv, ClusterTypes, SnapFacts
      <3>2. s.by \in Nat /\ s.ready \in {None} \cup 0 .. MaxTime /\ Len(pods) \in Nat
        BY <3>1 DEF SnapType, MaybeTime, Time
      <3>3. QED
        BY <3>1, <3>2
    <2>3. /\ manual \in 0 .. MaxManual /\ verdict \in {"none", "pass", "fail"}
          /\ \A name \in DOMAIN metrics : metrics[name] \in Nat
          /\ \A m \in messages : m.channel \in Channel /\ m.attempt \in 1 .. MaxAttempts
          /\ due \subseteq [channel : Channel, attempt : 1 .. MaxAttempts]
          /\ Len(notifiers) <= 2 /\ (answers # {} => notifiers # <<>>)
      BY DEF Inv, SlackInv, ReportTypes, AnswerInv, DueInv
    <2>4. QED
      BY <2>1, <2>2, <2>3 DEF TypeOK
  <1>2. QED
    BY <1>1, Invariant, PTL

(* A nightly that passes has seen a cold start and a restore, whatever     *)
(* restarts, evictions, rotated logs and stale listings it had.            *)
THEOREM PassIsTrue == Spec => []VerdictIsTrue
  <1>1. Inv => VerdictIsTrue
    BY DEF Inv
  <1>2. QED
    BY <1>1, Invariant, PTL

(* Once no notifier is left, the failure that is owed a message has been   *)
(* posted: it is if the guide failed in a scheduled nightly that is not    *)
(* skipped and was not renamed meanwhile, was not re-run before a notifier *)
(* had read it, and no notifier failed or was pushed out by a replay.      *)
THEOREM FailureIsHeard == Spec => []FailureHeard
  <1>1. Inv => FailureHeard
    <2> SUFFICES ASSUME Inv, notifiers = <<>>, NEW d \in due
                 PROVE  Heard(d)
      BY DEF FailureHeard, Heard
    <2>1. DOMAIN notifiers = {}
      OBVIOUS
    <2>2. ~Unread(d) /\ ~Halfway(d)
      BY <2>1 DEF Unread, Halfway, Sends
    <2>3. QED
      BY <2>2 DEF Inv, SlackInv, DueInv
  <1>2. QED
    BY <1>1, Invariant, PTL

(* A post names the first of the guide's own jobs to blame, or none, and   *)
(* pages its owners only if there is one, if the run never started, or if  *)
(* the run was re-run after it was read as failed and before its jobs were.*)
THEOREM BlamedRightly == Spec => GuideBlamedRightly
  <1> DEFINE Pages(m, answer) ==
        m.owners => \/ Culprits(run.jobs) # {} \/ answer.conclusion = "startup_failure"
                    \/ answer.attempt < run.attempt /\ answer.conclusion \in Failing \cup Unstable
      Names(m) ==
        m.job # NoJob =>
          \E i \in Culprits(run.jobs) :
            run.jobs[i].name = m.job /\ \A j \in Culprits(run.jobs) : i <= j
      Blame ==
        \A m \in messages' \ messages : \A answer \in answers :
          LET blamed == Culprits(run.jobs) IN
            /\ m.owners => \/ blamed # {} \/ answer.conclusion = "startup_failure"
                           \/ answer.attempt < run.attempt /\ answer.conclusion \in Failing \cup Unstable
            /\ m.job # NoJob => \E i \in blamed : run.jobs[i].name = m.job /\ \A j \in blamed : i <= j
  <1>1. Inv /\ [Next]_vars => [Blame]_vars
    <2> SUFFICES ASSUME Inv, Next
                 PROVE  Blame
      OBVIOUS
    <2>1. CASE FetchJobs
      <3>1. /\ notifiers \in Seq(NotifierType) /\ RunFacts(run) /\ answers \subseteq AnswerType
            /\ AnswerInv
        BY DEF Inv, SlackInv, RunInv, ReportTypes
      <3>2. notifiers # <<>>
        BY <2>1, <3>1 DEF FetchJobs, AnswerInv
      <3>3. Head(notifiers).override \in Channel \cup {Nowhere}
        <4>1. Head(notifiers) = notifiers[1] /\ notifiers[1] \in NotifierType
          BY <3>1, <3>2
        <4>2. QED
          BY <4>1 DEF NotifierType
      <3> DEFINE posted(a) == Report(Head(notifiers).repo, Nightly, a, run.jobs, Head(notifiers).override)
      <3>4. PICK a \in answers : messages' = messages \cup posted(a)
        BY <2>1 DEF FetchJobs
      <3>5. ASSUME NEW m \in posted(a)
            PROVE  Pages(m, a) /\ Names(m)
        <4> DEFINE result == NightlyOutcome(run.jobs, a.conclusion)
                   blamed == Culprits(run.jobs)
        <4>1. (m.owners => result.outcome \in Notifiable) /\ m.job = result.job
          BY <3>3, ReportSays
        <4>2. /\ result.outcome \in Notifiable =>
                   blamed # {} \/ a.conclusion \in Failing \cup Unstable \cup {"startup_failure"}
              /\ result.outcome \in Notifiable /\ a.conclusion \in {"none", run.conclusion} =>
                   blamed # {} \/ a.conclusion = "startup_failure"
              /\ result.job # NoJob =>
                   \E i \in blamed : run.jobs[i].name = result.job /\ \A j \in blamed : i <= j
          BY <3>1, OutcomeOfARun
        <4>3. a.attempt < run.attempt \/ a.conclusion \in {"none", run.conclusion}
          <5>1. a.attempt <= run.attempt /\ (a.attempt = run.attempt => a.conclusion \in {"none", run.conclusion})
            BY <3>1 DEF AnswerInv
          <5>2. a.attempt \in Nat /\ run.attempt \in Nat
            BY <3>1 DEF AnswerType, Answer, RunFacts, RunType
          <5>3. QED
            BY <5>1, <5>2
        <4> HIDE DEF result, blamed
        <4>4. m.owners => \/ blamed # {} \/ a.conclusion = "startup_failure"
                          \/ a.attempt < run.attempt /\ a.conclusion \in Failing \cup Unstable
          BY <4>1, <4>2, <4>3, Zenon
        <4>5. m.job # NoJob =>
                \E i \in blamed : run.jobs[i].name = m.job /\ \A j \in blamed : i <= j
          BY <4>1, <4>2
        <4>6. QED
          BY <4>4, <4>5 DEF blamed
      <3>6. \A answer \in answers : answer = a
        BY <3>1 DEF AnswerInv
      <3> HIDE DEF posted
      <3>7. QED
        BY <3>4, <3>5, <3>6
    <2>2. ASSUME messages' = messages
          PROVE  Blame
      BY <2>2
    <2> HIDE DEF Blame
    <2>3. CASE Tick \/ Create \/ SnapshotUploaded \/ (\E i \in DOMAIN pods : PodStep(i))
               \/ Pod1Ready \/ ScaleUp \/ Capture \/ Judge \/ DeployFails \/ Cleanup
      BY <2>2, <2>3 DEF Tick, Create, SnapshotUploaded, PodStep, Pod1Ready, ScaleUp, Capture, Judge,
         DeployFails, Cleanup, slack
    <2>4. CASE Complete \/ StartupFails \/ Rerun \/ FetchRun \/ Silent \/ NotifyFails \/ Replay \/ Merge
      BY <2>2, <2>4 DEF Complete, StartupFails, Rerun, FetchRun, Silent, NotifyFails, Replay, Merge
    <2>5. QED
      BY <2>1, <2>3, <2>4 DEF Next
  <1>2. Spec => [][Blame]_vars
    BY <1>1, Invariant, PTL DEF Spec
  <1>3. QED
    BY <1>2 DEF GuideBlamedRightly

===============================================================================
