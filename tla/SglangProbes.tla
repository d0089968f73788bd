---------------------------- MODULE SglangProbes ----------------------------
(***************************************************************************)
(* The SGLang replicas under the kubelet's probes, which all ask /health   *)
(* (guides/pod-snapshot/modelserver/gpu/sglang/gke/patch-sglang.yaml).     *)
(* Until the startupProbe has succeeded once there is no livenessProbe;    *)
(* afterwards a server that keeps answering 503 is killed.                 *)
(***************************************************************************)
EXTENDS SglangSnapshot

VARIABLE started      \* pod -> has its startupProbe succeeded

probedVars == <<vars, started>>

ProbedInit == Init /\ started = [p \in Pod |-> FALSE]

StartupProbe(p) ==
  /\ ~started[p]
  /\ Healthy(p)
  /\ started' = [started EXCEPT ![p] = TRUE]
  /\ UNCHANGED vars

(* failureThreshold failures in a row, taken as one step.                  *)
LivenessKill(p) ==
  /\ started[p]
  /\ ~Healthy(p)
  /\ EndProcess(p)
  /\ started' = [started EXCEPT ![p] = FALSE]

(* The kubelet forgets the probes of a container that ended.               *)
ServerRuns ==
  /\ Next
  /\ started' = [p \in Pod |-> started[p] /\ pc'[p] # "off"]

ProbedNext == ServerRuns \/ \E p \in Pod : StartupProbe(p) \/ LivenessKill(p)

ProbedSpec == ProbedInit /\ [][ProbedNext]_probedVars

(* The comment on the probes says that /health answers 503 "so             *)
(* startupProbe does not pass early and hand off to livenessProbe during   *)
(* cold start": a server whose startupProbe has passed is past its         *)
(* snapshot cycle.                                                         *)
StartupProbeHolds == \A p \in Pod : started[p] => pc[p] = "serving"
=============================================================================
