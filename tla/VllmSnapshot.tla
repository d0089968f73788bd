---------------------------- MODULE VllmSnapshot ----------------------------
(***************************************************************************)
(* vLLM replicas started by docker/scripts/snapshot/vllm/launcher.py: the  *)
(* lifespan context that vllm/wrapper.py puts around vLLM's own puts the   *)
(* engine to sleep, triggers a checkpoint, wakes the engine up, and only   *)
(* then lets uvicorn bind its port.  Pods also start as copies of the      *)
(* checkpoints other pods wrote, and die at any moment.                    *)
(***************************************************************************)
EXTENDS SnapshotProvider

VARIABLES pc,        \* pod -> where its start-up stands
          gpu,       \* pod -> its GPU memory
          patched,   \* was build_app hooked and a provider configured
          engine     \* "none": no engine_client; "plain": sleep() does nothing;
                     \* "sleepMode": sleep() frees the memory

wrapperVars == <<pc, gpu, patched, engine>>
vars == <<providerVars, wrapperVars>>

Starting == {"init", "lifespan", "sleep", "trigger", "wake", "yield"}

TypeOK ==
  /\ ProviderTypeOK
  /\ pc \in [Pod -> {"off", "serving"} \cup Starting]
  /\ gpu \in [Pod -> {"none", "resident", "released"}]
  /\ images \subseteq [mem : [gpu : {"resident", "released"}], cache : CacheStates]
  /\ patched \in BOOLEAN
  /\ engine \in {"none", "plain", "sleepMode"}

Init ==
  /\ ProviderInit
  /\ pc = [p \in Pod |-> "off"]
  /\ gpu = [p \in Pod |-> "none"]
  /\ patched \in BOOLEAN
  /\ engine \in {"none", "plain", "sleepMode"}

Goto(p, step) == pc' = [pc EXCEPT ![p] = step]

(* The kubelet starts the container with no checkpoint to restore.         *)
ColdStart(p) ==
  /\ pc[p] = "off"
  /\ BootSandbox(p)
  /\ Goto(p, "init")
  /\ UNCHANGED <<gpu, patched, engine>>

(* vLLM's own start-up: weights downloaded and loaded, graphs captured.    *)
EngineInit(p) ==
  /\ pc[p] = "init"
  /\ LoadWeights(p)
  /\ gpu' = [gpu EXCEPT ![p] = "resident"]
  /\ Goto(p, IF patched THEN "lifespan" ELSE "yield")
  /\ UNCHANGED <<patched, engine>>

(* patched_lifespan, before anything is released.                          *)
CheckAvailable(p) ==
  /\ pc[p] = "lifespan"
  /\ Goto(p, IF IsAvailable(p) THEN "sleep" ELSE "yield")
  /\ UNCHANGED <<providerVars, gpu, patched, engine>>

(* sleep(level=2) would keep no copy of the weights.                       *)
AfterSleep_Level2(p) == IF engine = "sleepMode" THEN "none" ELSE gpu[p]

(* What `await engine.sleep(level=1)` leaves resident.                     *)
AfterSleep(p) == IF engine = "sleepMode" THEN "released" ELSE gpu[p]

Sleep(p) ==
  /\ pc[p] = "sleep"
  /\ gpu' = [gpu EXCEPT ![p] = AfterSleep(p)]
  /\ Goto(p, "trigger")
  /\ CallTrigger(p)
  /\ UNCHANGED <<patched, engine>>

Trigger(p) ==
  /\ pc[p] = "trigger"
  /\ TriggerStep(p)
  /\ UNCHANGED wrapperVars

(* A wrapper that re-raises to the yield instead of falling through to     *)
(* wake_up() would bind the port with the engine still asleep.             *)
TriggerReturns_ErrorSkipsWakeUp(p) ==
  /\ pc[p] = "trigger"
  /\ TriggerEnded(p)
  /\ Goto(p, IF trig[p] = "error" THEN "yield" ELSE "wake")
  /\ UNCHANGED <<providerVars, gpu, patched, engine>>

(* `except Exception` logs and swallows the error: every outcome resumes.  *)
TriggerReturns(p) ==
  /\ pc[p] = "trigger"
  /\ TriggerEnded(p)
  /\ Goto(p, "wake")
  /\ UNCHANGED <<providerVars, gpu, patched, engine>>

WakeUp(p) ==
  /\ pc[p] = "wake"
  /\ gpu' = [gpu EXCEPT ![p] = IF engine = "none" THEN @ ELSE "resident"]
  /\ Goto(p, "yield")
  /\ UNCHANGED <<providerVars, patched, engine>>

(* `yield state`: uvicorn binds its port and the readiness probe passes.   *)
Yield(p) ==
  /\ pc[p] = "yield"
  /\ Goto(p, "serving")
  /\ UNCHANGED <<providerVars, gpu, patched, engine>>

EndProcess(p) ==
  /\ Goto(p, "off")
  /\ gpu' = [gpu EXCEPT ![p] = "none"]
  /\ DropProcess(p)
  /\ UNCHANGED <<patched, engine>>

(* sleep() and wake_up() are outside the try: their exception fails the    *)
(* lifespan start-up and the server process exits.                         *)
EngineCallFails(p) ==
  /\ pc[p] \in {"sleep", "wake"}
  /\ engine # "none"
  /\ EndProcess(p)

(* The container is killed or deleted, at any moment.                      *)
Kill(p) ==
  /\ pc[p] # "off"
  /\ EndProcess(p)

-----------------------------------------------------------------------------
(* The node's side of a checkpoint.                                        *)

CheckpointSaved(p) ==
  /\ GvisorSaves(p, [gpu |-> gpu[p]])
  /\ UNCHANGED wrapperVars

CheckpointFails(p) ==
  /\ GvisorFails(p)
  /\ UNCHANGED wrapperVars

(* A pod that starts from a checkpoint is a copy of the checkpointed one.  *)
RestoreFrom(p) ==
  /\ pc[p] = "off"
  /\ \E image \in images :
       /\ ContinueFrom(p, image)
       /\ gpu' = [gpu EXCEPT ![p] = image.mem.gpu]
  /\ Goto(p, "trigger")
  /\ UNCHANGED <<patched, engine>>

ControlFileChanges(p) ==
  /\ pc[p] \in {"init", "lifespan", "sleep", "trigger"}
  /\ ControlChanges(p)
  /\ UNCHANGED wrapperVars

-----------------------------------------------------------------------------
ServerStep(p) ==
  \/ EngineInit(p)
  \/ CheckAvailable(p)
  \/ Sleep(p)
  \/ Trigger(p)
  \/ TriggerReturns(p)
  \/ WakeUp(p)
  \/ Yield(p)
  \/ EngineCallFails(p)

GvisorStep(p) == CheckpointSaved(p) \/ CheckpointFails(p)

EnvironmentStep(p) ==
  \/ ColdStart(p)
  \/ RestoreFrom(p)
  \/ Kill(p)
  \/ ControlFileChanges(p)

Next == \E p \in Pod : ServerStep(p) \/ GvisorStep(p) \/ EnvironmentStep(p)

(* The process keeps running and gVisor answers every request; nothing is  *)
(* assumed of the kubelet, the cluster or whoever changes the policy.      *)
Fairness == \A p \in Pod : WF_vars(ServerStep(p)) /\ WF_vars(GvisorStep(p))

Spec == Init /\ [][Next]_vars /\ Fairness

-----------------------------------------------------------------------------
(* A pod that accepts requests has its GPU memory allocated and the        *)
(* control file closed, whether it was checkpointed, failed to be, or was  *)
(* restored from a copy frozen with the memory released.                   *)
ServingResident == \A p \in Pod : pc[p] = "serving" => gpu[p] = "resident" /\ ~fd[p]

(* Every checkpoint is as small as the launcher can make it: no weight     *)
(* file is in it when there is a cache to purge, and no GPU memory when    *)
(* the engine can sleep.  It takes the order sleep, purge, write.          *)
ImagesLean ==
  \A image \in images :
    /\ cacheDirSet => image.cache = "empty"
    /\ engine = "sleepMode" => image.mem.gpu = "released"

(* No weight file goes unaccounted for.  Of a pod that serves: a trigger   *)
(* that was never called, or found the control file gone and returned      *)
(* without an exception, has left every file; one that returned as         *)
(* checkpointed has left none.  Files that are gone, some or all, without  *)
(* a checkpoint are those of a trigger that raised a SnapshotError, on the *)
(* purge itself or on the control file after it, which the wrapper logs.   *)
PurgeAccountedFor ==
  \A p \in Pod : pc[p] = "serving" =>
    /\ trig[p] \in {"idle", "skipped"} => cache[p] = "full"
    /\ trig[p] = "ok" /\ cacheDirSet => cache[p] = "empty"

(* A replica that starts comes to serve or ends: nothing in the cycle can  *)
(* leave it blocked, in the read of the control file least of all.         *)
StartSettles ==
  \A p \in Pod : (pc[p] \in Starting) ~> (pc[p] \in {"serving", "off"})

(* The replicas keep the promise of ReadyGate.                             *)
life == [p \in Pod |-> CASE pc[p] = "off" -> "down"
                         [] pc[p] = "serving" -> "serving"
                         [] OTHER -> "starting"]
Gate == INSTANCE ReadyGate WITH saved <- {image.mem.gpu : image \in images}

KeepsReadyGate == Gate!GateSpec
=============================================================================
