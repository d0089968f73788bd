------------------------------ MODULE ReadyGate ------------------------------
(***************************************************************************)
(* What a snapshotting model server promises to whoever routes requests    *)
(* to it, with nothing of how vLLM or SGLang keep the promise: a pod first *)
(* becomes ready with its GPU memory resident, and from then on it stays   *)
(* ready, memory resident, until its process ends.  In between it may give *)
(* its GPU memory up, be checkpointed and take the memory back, and a pod  *)
(* may start from a checkpoint that another pod wrote.                     *)
(***************************************************************************)
CONSTANT Pod    \* the replicas of the model server Deployment

VARIABLES life,     \* pod -> "down", "starting" or "serving"
          gpu,      \* pod -> "none", "resident" or "released"
          saved     \* the GPU states found in the checkpoints written so far

gateVars == <<life, gpu, saved>>

GateInit ==
  /\ life = [p \in Pod |-> "down"]
  /\ gpu = [p \in Pod |-> "none"]
  /\ saved = {}

(* A process starts: cold, or as the restored copy of a checkpointed one.  *)
Start(p) ==
  /\ life[p] = "down"
  /\ life' = [life EXCEPT ![p] = "starting"]
  /\ \E g \in {"none"} \cup saved : gpu' = [gpu EXCEPT ![p] = g]
  /\ UNCHANGED saved

(* GPU memory is allocated, released or re-allocated, before serving only. *)
SetGpu(p) ==
  /\ life[p] = "starting"
  /\ \E g \in {"resident", "released"} : gpu' = [gpu EXCEPT ![p] = g]
  /\ UNCHANGED <<life, saved>>

(* A checkpoint is written; a serving pod is never checkpointed.           *)
Checkpoint(p) ==
  /\ life[p] = "starting"
  /\ saved' = saved \cup {gpu[p]}
  /\ UNCHANGED <<life, gpu>>

(* The pod reports ready.                                                  *)
BecomeReady(p) ==
  /\ life[p] = "starting"
  /\ gpu[p] = "resident"
  /\ life' = [life EXCEPT ![p] = "serving"]
  /\ UNCHANGED <<gpu, saved>>

(* The process ends, which is the only way out of serving.                 *)
Stop(p) ==
  /\ life[p] # "down"
  /\ life' = [life EXCEPT ![p] = "down"]
  /\ gpu' = [gpu EXCEPT ![p] = "none"]
  /\ UNCHANGED saved

GateNext ==
  \E p \in Pod : Start(p) \/ SetGpu(p) \/ Checkpoint(p) \/ BecomeReady(p) \/ Stop(p)

GateSpec == GateInit /\ [][GateNext]_gateVars
=============================================================================
