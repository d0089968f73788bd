---------------------------- MODULE SglangSnapshot ----------------------------
(***************************************************************************)
(* SGLang replicas started by docker/scripts/snapshot/sglang/launcher.py.  *)
(* SGLang's HTTP server listens from the beginning, so readiness is not a  *)
(* bound port but the server status: sglang/wrapper.py holds it at         *)
(* "Starting" from the end of the warmup until GPU memory is back.         *)
(***************************************************************************)
EXTENDS SnapshotProvider

VARIABLES pc,        \* pod -> where its start-up stands
          gpu,       \* pod -> its GPU memory; "discarded": released with no copy kept
          hooked,    \* pod -> did the launcher plug in the snapshot hooks
          status,    \* pod -> tokenizer_manager.server_status
          held,      \* pod -> held_status["status"], or "unset"
          prev,      \* pod -> prev_status of the callback, or "unset"
          args,      \* the server arguments that matter to the launcher
          skipWarmup,\* --skip-server-warmup
          warmedUp   \* history: pod -> the status SGLang itself last reported

serverVars == <<pc, gpu, hooked, status, held, prev, warmedUp>>
optionVars == <<args, skipWarmup>>
vars == <<providerVars, serverVars, optionVars>>

(* "unsupported": no provider, or a mode the launcher refuses to snapshot. *)
ArgSets  == {"unsupported", "noSaver", "saverOnly", "saverAndBackup"}
Statuses == {"Starting", "Up", "UnHealthy"}
Cycle    == {"callback", "wait", "release", "trigger", "resume", "restore"}
StartUp  == {"launch", "init", "warmup", "hold"} \cup Cycle

TypeOK ==
  /\ ProviderTypeOK
  /\ pc \in [Pod -> {"off", "serving"} \cup StartUp]
  /\ gpu \in [Pod -> {"none", "resident", "released", "discarded"}]
  /\ hooked \in [Pod -> BOOLEAN]
  /\ status \in [Pod -> Statuses]
  /\ held \in [Pod -> Statuses \cup {"unset"}]
  /\ prev \in [Pod -> Statuses \cup {"unset"}]
  /\ warmedUp \in [Pod -> Statuses]
  /\ args \in ArgSets
  /\ skipWarmup \in BOOLEAN

Init ==
  /\ ProviderInit
  /\ pc = [p \in Pod |-> "off"]
  /\ gpu = [p \in Pod |-> "none"]
  /\ hooked = [p \in Pod |-> FALSE]
  /\ status = [p \in Pod |-> "Starting"]
  /\ held = [p \in Pod |-> "unset"]
  /\ prev = [p \in Pod |-> "unset"]
  /\ warmedUp = [p \in Pod |-> "Starting"]
  /\ args \in ArgSets
  /\ skipWarmup \in BOOLEAN

Goto(p, step) == pc' = [pc EXCEPT ![p] = step]

(* /health answers 503 while the status is Starting.                       *)
Healthy(p) == pc[p] # "off" /\ status[p] # "Starting"

EndProcess(p) ==
  /\ Goto(p, "off")
  /\ gpu' = [gpu EXCEPT ![p] = "none"]
  /\ hooked' = [hooked EXCEPT ![p] = FALSE]
  /\ status' = [status EXCEPT ![p] = "Starting"]
  /\ held' = [held EXCEPT ![p] = "unset"]
  /\ prev' = [prev EXCEPT ![p] = "unset"]
  /\ warmedUp' = [warmedUp EXCEPT ![p] = "Starting"]
  /\ DropProcess(p)
  /\ UNCHANGED optionVars

-------------------------------------------------------------------------------
(* launcher.py and SGLang's own start-up.                                  *)

ColdStart(p) ==
  /\ pc[p] = "off"
  /\ BootSandbox(p)
  /\ Goto(p, "launch")
  /\ UNCHANGED <<gpu, hooked, status, held, prev, warmedUp, optionVars>>

(* A launcher that does not insist on --enable-weights-cpu-backup.         *)
TakesSnapshot_NoBackupCheck(p) == args # "unsupported" /\ IsAvailable(p)

(* _get_snapshot_provider_for_launch                                       *)
TakesSnapshot(p) == args \notin {"unsupported", "saverOnly"} /\ IsAvailable(p)

Launch(p) ==
  /\ pc[p] = "launch"
  /\ hooked' = [hooked EXCEPT ![p] = TakesSnapshot(p)]
  /\ Goto(p, "init")
  /\ UNCHANGED <<providerVars, gpu, status, held, prev, warmedUp, optionVars>>

EngineInit(p) ==
  /\ pc[p] = "init"
  /\ LoadWeights(p)
  /\ gpu' = [gpu EXCEPT ![p] = "resident"]
  /\ Goto(p, "warmup")
  /\ UNCHANGED <<hooked, status, held, prev, warmedUp, optionVars>>

(* SGLang sets Up (UnHealthy after a partial warmup of a prefill/decode    *)
(* pair) by itself, and only then gives control back to the hooks.         *)
Warmup(p) ==
  /\ pc[p] = "warmup"
  /\ \E s \in IF skipWarmup THEN {"Up"} ELSE {"Up", "UnHealthy"} :
       /\ status' = [status EXCEPT ![p] = s]
       /\ warmedUp' = [warmedUp EXCEPT ![p] = s]
  /\ Goto(p, IF ~hooked[p] THEN "serving"
             ELSE IF skipWarmup THEN "callback" ELSE "hold")
  /\ UNCHANGED <<providerVars, gpu, hooked, held, prev, optionVars>>

-------------------------------------------------------------------------------
(* wrapper.py                                                              *)

(* sglang_warmup_and_hold, once the warmup has succeeded.                  *)
Hold(p) ==
  /\ pc[p] = "hold"
  /\ held' = [held EXCEPT ![p] = status[p]]
  /\ status' = [status EXCEPT ![p] = "Starting"]
  /\ Goto(p, "callback")
  /\ UNCHANGED <<providerVars, gpu, hooked, prev, warmedUp, optionVars>>

(* A callback that takes the warmup hook for granted.                      *)
SavedStatus_HeldOnly(p) == held[p]

(* A callback that saves the current status, held or not.                  *)
SavedStatus_Current(p) == status[p]

(* held_status.get("status", tokenizer_manager.server_status)              *)
SavedStatus(p) == IF held[p] # "unset" THEN held[p] ELSE status[p]

(* A callback that leaves the status alone.                                *)
Callback_NoStarting(p) ==
  /\ pc[p] = "callback"
  /\ prev' = [prev EXCEPT ![p] = SavedStatus(p)]
  /\ Goto(p, "wait")
  /\ UNCHANGED <<providerVars, gpu, hooked, held, status, warmedUp, optionVars>>

Callback(p) ==
  /\ pc[p] = "callback"
  /\ prev' = [prev EXCEPT ![p] = SavedStatus(p)]
  /\ status' = [status EXCEPT ![p] = "Starting"]
  /\ Goto(p, "wait")
  /\ UNCHANGED <<providerVars, gpu, hooked, held, warmedUp, optionVars>>

WaitForServer(p) ==
  /\ pc[p] = "wait"
  /\ Goto(p, "release")
  /\ UNCHANGED <<providerVars, gpu, hooked, status, held, prev, warmedUp,
                 optionVars>>

(* What POST /release_memory_occupation does under the server's arguments. *)
AfterRelease(p) ==
  CASE args = "saverAndBackup" -> "released"
    [] args = "saverOnly" -> "discarded"
    [] OTHER -> gpu[p]

Release(p) ==
  /\ pc[p] = "release"
  /\ gpu' = [gpu EXCEPT ![p] = AfterRelease(p)]
  /\ Goto(p, "trigger")
  /\ CallTrigger(p)
  /\ UNCHANGED <<hooked, status, held, prev, warmedUp, optionVars>>

Trigger(p) ==
  /\ pc[p] = "trigger"
  /\ TriggerStep(p)
  /\ UNCHANGED <<serverVars, optionVars>>

(* `finally` of the trigger: resumed whatever its outcome.                 *)
TriggerReturns(p) ==
  /\ pc[p] = "trigger"
  /\ TriggerEnded(p)
  /\ Goto(p, "resume")
  /\ UNCHANGED <<providerVars, gpu, hooked, status, held, prev, warmedUp,
                 optionVars>>

Resume(p) ==
  /\ pc[p] = "resume"
  /\ gpu' = [gpu EXCEPT ![p] = IF @ = "released" THEN "resident" ELSE @]
  /\ Goto(p, "restore")
  /\ UNCHANGED <<providerVars, hooked, status, held, prev, warmedUp, optionVars>>

RestoreStatus(p) ==
  /\ pc[p] = "restore"
  /\ status' = [status EXCEPT ![p] = prev[p]]
  /\ Goto(p, "serving")
  /\ UNCHANGED <<providerVars, gpu, hooked, held, prev, warmedUp, optionVars>>

(* SGLang ends the process when its warmup fails; the callback does when   *)
(* the server never listens or a memory request fails (or only its answer  *)
(* is lost): kill_process_tree(os.getpid()).                               *)
StartUpFails(p) ==
  /\ pc[p] \in {"warmup", "wait", "release", "resume"}
  /\ EndProcess(p)

-------------------------------------------------------------------------------
(* The node: gVisor, and the cluster's events.                             *)

CheckpointSaved(p) ==
  /\ GvisorSaves(p, [gpu |-> gpu[p], hooked |-> hooked[p], status |-> status[p],
                     held |-> held[p], prev |-> prev[p], warmedUp |-> warmedUp[p]])
  /\ UNCHANGED <<serverVars, optionVars>>

CheckpointFails(p) ==
  /\ GvisorFails(p)
  /\ UNCHANGED <<serverVars, optionVars>>

RestoreFrom(p) ==
  /\ pc[p] = "off"
  /\ \E image \in images :
       /\ ContinueFrom(p, image)
       /\ gpu' = [gpu EXCEPT ![p] = image.mem.gpu]
       /\ hooked' = [hooked EXCEPT ![p] = image.mem.hooked]
       /\ status' = [status EXCEPT ![p] = image.mem.status]
       /\ held' = [held EXCEPT ![p] = image.mem.held]
       /\ prev' = [prev EXCEPT ![p] = image.mem.prev]
       /\ warmedUp' = [warmedUp EXCEPT ![p] = image.mem.warmedUp]
  /\ Goto(p, "trigger")
  /\ UNCHANGED optionVars

Kill(p) ==
  /\ pc[p] # "off"
  /\ EndProcess(p)

ControlFileChanges(p) ==
  /\ pc[p] \in {"launch", "release", "trigger"}
  /\ ControlChanges(p)
  /\ UNCHANGED <<serverVars, optionVars>>

-------------------------------------------------------------------------------
ServerStep(p) ==
  \/ Launch(p)
  \/ EngineInit(p)
  \/ Warmup(p)
  \/ Hold(p)
  \/ Callback(p)
  \/ WaitForServer(p)
  \/ Release(p)
  \/ Trigger(p)
  \/ TriggerReturns(p)
  \/ Resume(p)
  \/ RestoreStatus(p)
  \/ StartUpFails(p)

GvisorStep(p) == CheckpointSaved(p) \/ CheckpointFails(p)

EnvironmentStep(p) ==
  \/ ColdStart(p)
  \/ RestoreFrom(p)
  \/ Kill(p)
  \/ ControlFileChanges(p)

Next == \E p \in Pod : ServerStep(p) \/ GvisorStep(p) \/ EnvironmentStep(p)

(* As for vLLM: the process runs and gVisor answers; nothing else.         *)
Fairness == \A p \in Pod : WF_vars(ServerStep(p)) /\ WF_vars(GvisorStep(p))

Spec == Init /\ [][Next]_vars /\ Fairness

-------------------------------------------------------------------------------
(* A pod that answers /health with 200 has its GPU memory resident: also   *)
(* in the window before the hold, also when the checkpoint failed, and     *)
(* also in a pod restored with the memory released.                        *)
HealthyResident == \A p \in Pod : Healthy(p) => gpu[p] = "resident"

(* The status a pod ends up with is the one SGLang gave it: a server whose *)
(* warmup was only partial is not promoted to Up by the snapshot cycle,    *)
(* nor is a good one left at Starting, in the pods restored from it too.   *)
StatusGivenBack == \A p \in Pod : pc[p] = "serving" => status[p] = warmedUp[p]

(* A pod restored from any checkpoint answers 503 until it has its memory  *)
(* back, because every checkpoint was taken with the status held.          *)
ImagesHeld ==
  \A image \in images :
    /\ image.mem.status = "Starting"
    /\ image.mem.prev \in {"Up", "UnHealthy"}
    /\ image.mem.hooked

(* A replica that starts comes to serve or ends.                           *)
StartSettles ==
  \A p \in Pod : (pc[p] \in StartUp) ~> (pc[p] \in {"serving", "off"})

(* The replicas keep the promise of ReadyGate, with the end of the start-up*)
(* for ready: they come to serve with their memory resident, are never     *)
(* checkpointed or released from then on, and never throw weights away of  *)
(* which there is no copy (the launcher refuses the arguments under which  *)
(* releasing the memory would).                                            *)
life == [p \in Pod |-> CASE pc[p] = "off" -> "down"
                         [] pc[p] = "serving" -> "serving"
                         [] OTHER -> "starting"]
Gate == INSTANCE ReadyGate WITH saved <- {image.mem.gpu : image \in images}

KeepsReadyGate == Gate!GateSpec
===============================================================================
