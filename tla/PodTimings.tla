------------------------------ MODULE PodTimings ------------------------------
(***************************************************************************)
(* guides/pod-snapshot/scripts: what snapshot_timings.py makes of pods and *)
(* of their logs, and what check_thresholds.py says of it.                 *)
(*                                                                         *)
(* A pod is what `kubectl get pods` and the events show: [name, created,   *)
(* scheduled, sandbox, pulling, pulled, started, restored, ready, live],   *)
(* times or None.  A log is a sequence of lines [ts, what], what being the *)
(* marker its text matches.                                                *)
(***************************************************************************)
EXTENDS Integers, SequencesExt

CONSTANTS MaxE2E,       \* max_e2e_cold_start_s
          MaxCold,      \* max_cold_start_s
          MaxOverhead,  \* max_snapshot_overhead_s
          MaxWarm       \* max_warm_start_s

ASSUME ThresholdsAssumption == {MaxE2E, MaxCold, MaxOverhead, MaxWarm} \subseteq Nat

None == -1

ColdMarkers    == {"warmup_done", "released", "checkpoint", "up"}
RestoreMarkers == {"restore", "up"}
Breakdown      == {"weights_begin", "weights_end", "kv", "graph_end"}
Markers        == ColdMarkers \cup RestoreMarkers \cup Breakdown

(* Lines that only a cold start writes.                                    *)
IsColdLine(line) == line.what \in {"weights_begin", "weights_end", "warmup_done", "released"}

(* The last line of a marker counts.  A checkpoint line is the cold start's*)
(* if lines of one come before it; if none do, the first is a restore.     *)
LogValues(log) ==
  LET Lines(m)    == {i \in DOMAIN log : log[i].what = m}
      checkpoints == {i \in Lines("checkpoint") : \E j \in 1 .. i - 1 : IsColdLine(log[j])}
      restores    == Lines("checkpoint") \ checkpoints
      First(S)    == IF S = {} THEN None ELSE log[Min(S)].ts
      Latest(S)   == IF S = {} THEN None ELSE log[Max(S)].ts
  IN  [m \in Markers |-> CASE m = "restore"    -> First(restores)
                           [] m = "checkpoint" -> Latest(checkpoints)
                           [] OTHER            -> Latest(Lines(m))]

(* What is used of one pod: its times and those of its log.                *)
IsRestored(p) == p.pod.restored # None \/ p.log["restore"] # None

-------------------------------------------------------------------------------
(* Boundaries: each at least the one before it.                            *)

Later(t, u) == IF u > t THEN u ELSE t

Scheduled(pod) == Later(pod.created, pod.scheduled)

Started(pod) ==
  LET sandbox == IF pod.sandbox # None THEN pod.sandbox ELSE pod.pulling
  IN  Later(Later(Later(Scheduled(pod), sandbox), pod.pulled), pod.started)

(* Up to the end of the warmup, and from the resume on.                    *)
WarmedUp(p) ==
  LET begun    == Later(Started(p.pod), p.log["weights_begin"])
      loaded   == Later(begun, p.log["weights_end"])
      cached   == Later(loaded, p.log["kv"])
      captured == Later(cached, p.log["graph_end"])
  IN  Later(captured, p.log["warmup_done"])

Resumed(p) ==
  LET released     == Later(WarmedUp(p), p.log["released"])
      checkpointed == Later(released, p.log["checkpoint"])
  IN  Later(checkpointed, p.log["up"])

(* Row 4 the wrong way around.                                             *)
ColdMetrics_Backwards(p) ==
  [ecs |-> 0, cs |-> 0, tsot |-> WarmedUp(p) - Resumed(p)]

(* ecs, cs and row 4.                                                      *)
ColdMetrics(p) ==
  LET row12 == WarmedUp(p) - p.pod.created
      row3  == Later(Resumed(p), p.pod.ready) - Resumed(p)
  IN  [ ecs  |-> row12 + row3,
        cs   |-> WarmedUp(p) - Scheduled(p.pod),
        tsot |-> Resumed(p) - WarmedUp(p) ]

(* wsr.                                                                    *)
RestoreTime(p) ==
  LET line == IF p.log["restore"] # None THEN p.log["restore"] ELSE p.pod.restored
      up   == Later(Later(Started(p.pod), line), p.log["up"])
  IN  Later(up, p.pod.ready) - Scheduled(p.pod)

-------------------------------------------------------------------------------
(* The checks.  p1 and p2 are at most one pod each, as sets; snaps are the *)
(* times at which PodSnapshots became Ready.                               *)

SnapshotReady(p1, snaps) == \E p \in p1 : \E t \in snaps : t >= p.pod.created

(* A pod counts as soon as it exists.                                      *)
IsReady_Created(p) == TRUE

IsReady(p) == p.pod.ready # None

HasMarkers(p, markers) == \A m \in markers : p.log[m] # None

ColdStartChecks(p1) ==
  \E p \in p1 :
    /\ IsReady(p) /\ ~IsRestored(p)
    /\ HasMarkers(p, ColdMarkers)
    /\ ColdMetrics(p).ecs <= MaxE2E
    /\ ColdMetrics(p).cs <= MaxCold
    /\ 0 < ColdMetrics(p).tsot /\ ColdMetrics(p).tsot <= MaxOverhead

RestoreChecks(p2) ==
  \E p \in p2 :
    /\ IsReady(p) /\ IsRestored(p)
    /\ HasMarkers(p, RestoreMarkers)
    /\ 0 < RestoreTime(p) /\ RestoreTime(p) <= MaxWarm

Passes(p1, p2, snaps) ==
  ColdStartChecks(p1) /\ RestoreChecks(p2) /\ SnapshotReady(p1, snaps)

-------------------------------------------------------------------------------
(* load_pods: the oldest and the newest of the pods listed, and their logs *)
(* as they are now; a pod whose log cannot be read ends the checks.        *)

Listed(pods) == {i \in DOMAIN pods : pods[i].live}

Pods1(pods) == {pods[i] : i \in {i \in Listed(pods) : \A j \in Listed(pods) : i <= j}}

Pods2(pods) ==
  {pods[i] : i \in {i \in Listed(pods) : /\ \A j \in Listed(pods) : j <= i
                                         /\ \E j \in Listed(pods) : j < i}}

(* logs: the names of the pods that still exist -> their log.              *)
Readable(pods, logs) == \A pod \in Pods1(pods) \cup Pods2(pods) : pod.name \in DOMAIN logs

Timed(some, logs) == {[pod |-> pod, log |-> LogValues(logs[pod.name])] : pod \in some}

Verdict(pods, logs, snaps) ==
  /\ Readable(pods, logs)
  /\ Passes(Timed(Pods1(pods), logs), Timed(Pods2(pods), logs), snaps)

(* What the checks that apply compute.                                     *)
Measured(pods, logs) ==
  LET p1 == IF Readable(pods, logs) THEN Timed(Pods1(pods), logs) ELSE {}
      p2 == IF Readable(pods, logs) THEN Timed(Pods2(pods), logs) ELSE {}
      cold == {ColdMetrics(p) : p \in {p \in p1 : IsReady(p) /\ ~IsRestored(p) /\ HasMarkers(p, ColdMarkers)}}
      warm == {RestoreTime(p) : p \in {p \in p2 : IsReady(p) /\ IsRestored(p) /\ HasMarkers(p, RestoreMarkers)}}
      The(S) == IF S = {} THEN 0 ELSE CHOOSE x \in S : TRUE
  IN  [ ecs  |-> The({m.ecs : m \in cold}),
        cs   |-> The({m.cs : m \in cold}),
        tsot |-> The({m.tsot : m \in cold}),
        wsr  |-> The(warm) ]
===============================================================================
