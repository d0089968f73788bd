------------------------- MODULE SglangSnapshot_proofs -------------------------
(***************************************************************************)
(* The safety of the SGLang snapshot cycle for any number of replicas, any *)
(* server arguments and any sequence of checkpoints, kills and restores,   *)
(* and what of it is left under the kubelet's probes.                      *)
(***************************************************************************)
EXTENDS SglangProbes, TLAPS

(* The GPU memory of a pod between the two memory requests.                *)
InTrigger == IF args = "saverAndBackup" THEN "released" ELSE "resident"

Finished == {"Up", "UnHealthy"}

(* The launcher hooks only what keeps a copy of what it releases, and the  *)
(* wrapper's steps are those of a hooked server.                           *)
HooksAreSafe ==
  \A p \in Pod :
    /\ hooked[p] => args \in {"noSaver", "saverAndBackup"}
    /\ pc[p] \in {"hold"} \cup Cycle => hooked[p]

(* Where start-up stands decides what the GPU memory is.                   *)
MemoryFollowsStartUp ==
  \A p \in Pod :
    /\ pc[p] \in {"off", "launch", "init"} => gpu[p] = "none"
    /\ pc[p] \in {"warmup", "hold", "callback", "wait", "release", "restore", "serving"} =>
         gpu[p] = "resident"
    /\ pc[p] \in {"trigger", "resume"} => gpu[p] = InTrigger

(* Where the status the warmup ended with is kept: by the server, then by  *)
(* the hold, then by the callback, then by the server again.               *)
StatusFollowsStartUp ==
  \A p \in Pod :
    /\ pc[p] \in {"off", "launch", "init", "warmup"} => status[p] = "Starting"
    /\ pc[p] \in {"off", "launch", "init", "warmup", "hold"} => held[p] = "unset"
    /\ pc[p] \in {"hold", "serving"} \cup Cycle => warmedUp[p] \in Finished
    /\ pc[p] \in {"hold", "serving"} => status[p] = warmedUp[p]
    /\ pc[p] = "callback" => \/ held[p] = warmedUp[p]
                             \/ held[p] = "unset" /\ status[p] = warmedUp[p]
    /\ pc[p] \in Cycle \ {"callback"} => status[p] = "Starting" /\ prev[p] = warmedUp[p]

(* The trigger runs only while the callback waits for it.                  *)
TriggerOwnsControl ==
  \A p \in Pod :
    /\ trig[p] \in TrigSteps \ {"idle"} => pc[p] = "trigger"
    /\ request[p] # "none" => trig[p] = "read"

(* Every checkpoint is of a process inside its trigger.                    *)
ImagesInTrigger ==
  \A image \in images :
    /\ image.cache \in CacheStates
    /\ image.mem.gpu = InTrigger
    /\ image.mem.hooked = TRUE
    /\ image.mem.status = "Starting"
    /\ image.mem.held \in Statuses \cup {"unset"}
    /\ image.mem.warmedUp \in Finished
    /\ image.mem.prev = image.mem.warmedUp
    /\ args \in {"noSaver", "saverAndBackup"}

(* The inductive invariant: a restored pod takes all of its memory from a  *)
(* checkpoint, so what holds inside the trigger is kept of those too.      *)
IInv ==
  /\ TypeOK
  /\ HooksAreSafe
  /\ MemoryFollowsStartUp
  /\ StatusFollowsStartUp
  /\ TriggerOwnsControl
  /\ ImagesInTrigger

(* The inductive invariant holds initially.                                *)
LEMMA InitIInv == Init => IInv
  <1> SUFFICES ASSUME Init PROVE IInv
    OBVIOUS
  <1>1. TypeOK
    BY CacheDirAssumption
    DEF Init, ProviderInit, TypeOK, ProviderTypeOK, TrigSteps, CacheStates, Statuses
  <1>2. QED
    BY <1>1
    DEF Init, ProviderInit, IInv, HooksAreSafe, MemoryFollowsStartUp,
        StatusFollowsStartUp, TriggerOwnsControl, ImagesInTrigger, TrigSteps, Cycle

-------------------------------------------------------------------------------
(* Every step keeps the types.                                             *)
LEMMA TypeStep == IInv /\ [Next]_vars => TypeOK'
  <1> SUFFICES ASSUME IInv, [Next]_vars PROVE TypeOK'
    OBVIOUS
  <1>0. TypeOK
    BY DEF IInv
  <1> USE DEF TypeOK, ProviderTypeOK, TrigSteps, TrigOutcomes, CacheStates, StartUp, Cycle,
              Statuses, providerVars, serverVars, optionVars, Goto
  <1>1. ASSUME NEW p \in Pod, Trigger(p)
        PROVE  TypeOK'
    <2>0. UNCHANGED <<serverVars, optionVars>> /\ ProviderTypeOK
      BY <1>0, <1>1 DEF Trigger
    <2> HIDE DEF TypeOK
    <2>1. ASSUME ProviderTypeOK' PROVE TypeOK'
      BY <1>0, <2>0, <2>1 DEF TypeOK
    <2>2. CASE TrigCheck(p)
      BY <2>0, <2>1, <2>2 DEF TrigCheck, IsAvailable
    <2>3. CASE ClearSome(p) \/ ClearCache(p) \/ ClearCacheFails(p)
      BY <2>0, <2>1, <2>3 DEF ClearSome, ClearCache, ClearCacheFails
    <2>4. CASE OpenControl(p) \/ OpenControlFails(p)
      BY <2>0, <2>1, <2>4 DEF OpenControl, OpenControlFails
    <2>5. CASE WriteControl(p)
      BY <2>0, <2>1, <2>5 DEF WriteControl
    <2>6. CASE WriteControlFails(p) \/ ReadResumed(p) \/ ReadFails(p)
      BY <2>0, <2>1, <2>6 DEF WriteControlFails, ReadResumed, ReadFails, CloseAs
    <2>7. QED
      BY <1>1, <2>2, <2>3, <2>4, <2>5, <2>6 DEF Trigger, TriggerStep
  <1>2. ASSUME NEW p \in Pod, EndProcess(p)
        PROVE  TypeOK'
    BY <1>0, <1>2 DEF EndProcess, DropProcess
  <1>3. ASSUME NEW p \in Pod, ServerStep(p)
        PROVE  TypeOK'
    <2>1. CASE Launch(p)
      BY <1>0, <2>1 DEF Launch, TakesSnapshot, IsAvailable
    <2>2. CASE EngineInit(p)
      BY <1>0, <2>2 DEF EngineInit, LoadWeights
    <2>3. CASE Warmup(p)
      BY <1>0, <2>3 DEF Warmup
    <2>4. CASE Hold(p)
      BY <1>0, <2>4 DEF Hold
    <2>5. CASE Callback(p)
      <3>1. SavedStatus(p) \in Statuses \cup {"unset"}
        BY <1>0 DEF SavedStatus
      <3>2. QED
        BY <1>0, <2>5, <3>1 DEF Callback
    <2>6. CASE WaitForServer(p) \/ TriggerReturns(p)
      BY <1>0, <2>6 DEF WaitForServer, TriggerReturns
    <2>7. CASE Release(p)
      <3>1. AfterRelease(p) \in {"none", "resident", "released", "discarded"}
        BY <1>0 DEF AfterRelease
      <3>2. QED
        BY <1>0, <2>7, <3>1 DEF Release, CallTrigger
    <2>8. CASE Trigger(p)
      BY <1>1, <2>8
    <2>9. CASE Resume(p)
      BY <1>0, <2>9 DEF Resume
    <2>10. CASE RestoreStatus(p)
      <3>1. prev[p] \in Statuses
        BY <2>10 DEF RestoreStatus, IInv, StatusFollowsStartUp, Finished
      <3>2. QED
        BY <1>0, <2>10, <3>1 DEF RestoreStatus
    <2>11. CASE StartUpFails(p)
      BY <1>2, <2>11 DEF StartUpFails
    <2>12. QED
      BY <1>3, <2>1, <2>2, <2>3, <2>4, <2>5, <2>6, <2>7, <2>8, <2>9, <2>10, <2>11
      DEF ServerStep
  <1>4. ASSUME NEW p \in Pod, GvisorStep(p)
        PROVE  TypeOK'
    BY <1>0, <1>4
    DEF GvisorStep, CheckpointSaved, CheckpointFails, GvisorSaves, GvisorFails
  <1>5. ASSUME NEW p \in Pod, EnvironmentStep(p)
        PROVE  TypeOK'
    <2>1. CASE ColdStart(p)
      BY <1>0, <2>1 DEF ColdStart, BootSandbox
    <2>2. CASE RestoreFrom(p)
      <3>1. PICK image \in images :
              /\ ContinueFrom(p, image)
              /\ gpu' = [gpu EXCEPT ![p] = image.mem.gpu]
              /\ hooked' = [hooked EXCEPT ![p] = image.mem.hooked]
              /\ status' = [status EXCEPT ![p] = image.mem.status]
              /\ held' = [held EXCEPT ![p] = image.mem.held]
              /\ prev' = [prev EXCEPT ![p] = image.mem.prev]
              /\ warmedUp' = [warmedUp EXCEPT ![p] = image.mem.warmedUp]
        BY <2>2 DEF RestoreFrom
      <3>2. /\ image.cache \in CacheStates
            /\ image.mem.gpu \in {"resident", "released"}
            /\ image.mem.hooked \in BOOLEAN
            /\ image.mem.status \in Statuses
            /\ image.mem.held \in Statuses \cup {"unset"}
            /\ image.mem.prev \in Statuses
            /\ image.mem.warmedUp \in Statuses
        BY DEF IInv, ImagesInTrigger, InTrigger, Finished
      <3>3. ProviderTypeOK'
        BY <1>0, <3>1, <3>2 DEF ContinueFrom
      <3>4. pc' = [pc EXCEPT ![p] = "trigger"] /\ UNCHANGED optionVars
        BY <2>2 DEF RestoreFrom
      <3>5. QED
        BY <1>0, <3>1, <3>2, <3>3, <3>4
    <2>3. CASE Kill(p)
      BY <1>2, <2>3 DEF Kill
    <2>4. CASE ControlFileChanges(p)
      BY <1>0, <2>4 DEF ControlFileChanges, ControlChanges
    <2>5. QED
      BY <1>5, <2>1, <2>2, <2>3, <2>4 DEF EnvironmentStep
  <1>6. CASE UNCHANGED vars
    BY <1>0, <1>6 DEF vars
  <1>7. QED
    BY <1>3, <1>4, <1>5, <1>6 DEF Next

-------------------------------------------------------------------------------
(* The parts of the inductive invariant besides the types.                 *)
Held ==
  /\ HooksAreSafe
  /\ MemoryFollowsStartUp
  /\ StatusFollowsStartUp
  /\ TriggerOwnsControl
  /\ ImagesInTrigger

(* The steps of the trigger touch the control file and the disk only.      *)
LEMMA TriggerKeeps ==
  ASSUME IInv, NEW p \in Pod, Trigger(p)
  PROVE  Held'
  <1> USE DEF Trigger
  <1>1. UNCHANGED <<serverVars, optionVars, images>>
    BY DEF TriggerStep, TrigCheck, ClearSome, ClearCache, ClearCacheFails, OpenControl,
           OpenControlFails, WriteControl, WriteControlFails, ReadResumed, ReadFails
  <1>2. HooksAreSafe' /\ MemoryFollowsStartUp' /\ StatusFollowsStartUp' /\ ImagesInTrigger'
    BY <1>1
    DEF IInv, HooksAreSafe, MemoryFollowsStartUp, StatusFollowsStartUp, ImagesInTrigger,
        InTrigger, serverVars, optionVars
  <1>3. TriggerOwnsControl'
    <2> USE <1>1
        DEF IInv, TypeOK, ProviderTypeOK, TriggerOwnsControl, TrigSteps, TrigOutcomes,
            serverVars
    <2>1. CASE TrigCheck(p) \/ ClearSome(p) \/ ClearCache(p) \/ ClearCacheFails(p)
      BY <2>1 DEF TrigCheck, ClearSome, ClearCache, ClearCacheFails
    <2>2. CASE OpenControl(p) \/ OpenControlFails(p) \/ WriteControl(p)
      BY <2>2 DEF OpenControl, OpenControlFails, WriteControl
    <2>3. CASE WriteControlFails(p) \/ ReadResumed(p) \/ ReadFails(p)
      BY <2>3 DEF WriteControlFails, ReadResumed, ReadFails, CloseAs
    <2>4. QED
      BY <2>1, <2>2, <2>3 DEF TriggerStep
  <1>4. QED
    BY <1>2, <1>3 DEF Held

(* Whatever ends the process: a failed start-up, or a kill.                *)
LEMMA EndProcessKeeps ==
  ASSUME IInv, NEW p \in Pod, EndProcess(p)
  PROVE  Held'
  <1> USE DEF EndProcess, DropProcess, Goto, IInv, TypeOK, ProviderTypeOK, optionVars
  <1>1. HooksAreSafe'
    BY DEF HooksAreSafe, Cycle
  <1>2. MemoryFollowsStartUp'
    BY DEF MemoryFollowsStartUp, InTrigger
  <1>3. StatusFollowsStartUp'
    BY DEF StatusFollowsStartUp, Cycle
  <1>4. TriggerOwnsControl' /\ ImagesInTrigger'
    BY DEF TriggerOwnsControl, TrigSteps, ImagesInTrigger, InTrigger
  <1>5. QED
    BY <1>1, <1>2, <1>3, <1>4 DEF Held

(* The rest of the launcher and the wrapper, one case for each step.       *)
LEMMA ServerKeeps ==
  ASSUME IInv, NEW p \in Pod, ServerStep(p)
  PROVE  Held'
  <1> USE DEF IInv, TypeOK, ProviderTypeOK, Goto, Held, HooksAreSafe, MemoryFollowsStartUp,
              StatusFollowsStartUp, TriggerOwnsControl, ImagesInTrigger, InTrigger, Cycle,
              TrigSteps, TrigOutcomes, providerVars, optionVars
  <1>1. CASE Launch(p)
    BY <1>1 DEF Launch, TakesSnapshot, ArgSets
  <1>2. CASE EngineInit(p)
    BY <1>2 DEF EngineInit, LoadWeights
  <1>3. CASE Warmup(p)
    BY <1>3 DEF Warmup, Finished, Statuses
  <1>4. CASE Hold(p)
    BY <1>4 DEF Hold
  <1>5. CASE Callback(p)
    <2>1. SavedStatus(p) = warmedUp[p]
      BY <1>5 DEF Callback, SavedStatus, Finished
    <2>2. QED
      BY <1>5, <2>1 DEF Callback
  <1>6. CASE WaitForServer(p)
    BY <1>6 DEF WaitForServer
  <1>7. CASE Release(p)
    <2>1. AfterRelease(p) = InTrigger
      BY <1>7 DEF Release, AfterRelease
    <2>2. QED
      BY <1>7, <2>1 DEF Release, CallTrigger
  <1>8. CASE Trigger(p)
    BY <1>8, TriggerKeeps
  <1>9. CASE TriggerReturns(p)
    BY <1>9 DEF TriggerReturns, TriggerEnded
  <1>10. CASE Resume(p)
    BY <1>10 DEF Resume
  <1>11. CASE RestoreStatus(p)
    BY <1>11 DEF RestoreStatus
  <1>12. CASE StartUpFails(p)
    BY <1>12, EndProcessKeeps DEF StartUpFails
  <1>13. QED
    BY <1>1, <1>2, <1>3, <1>4, <1>5, <1>6, <1>7, <1>8, <1>9, <1>10, <1>11, <1>12
    DEF ServerStep

(* gVisor writes a checkpoint, or fails to.                                *)
LEMMA GvisorKeeps ==
  ASSUME IInv, NEW p \in Pod, GvisorStep(p)
  PROVE  Held'
  <1> USE DEF IInv
  <1>1. UNCHANGED <<serverVars, optionVars, trig>>
    BY DEF GvisorStep, CheckpointSaved, CheckpointFails, GvisorSaves, GvisorFails
  <1>2. HooksAreSafe' /\ MemoryFollowsStartUp' /\ StatusFollowsStartUp'
    BY <1>1
    DEF HooksAreSafe, MemoryFollowsStartUp, StatusFollowsStartUp, InTrigger, serverVars,
        optionVars
  <1>3. TriggerOwnsControl'
    BY <1>1
    DEF TriggerOwnsControl, TypeOK, ProviderTypeOK, serverVars, GvisorStep,
        CheckpointSaved, CheckpointFails, GvisorSaves, GvisorFails
  <1>4. ImagesInTrigger'
    <2>1. CASE CheckpointSaved(p)
      <3> DEFINE mem == [gpu |-> gpu[p], hooked |-> hooked[p], status |-> status[p],
                         held |-> held[p], prev |-> prev[p], warmedUp |-> warmedUp[p]]
                 new == [mem |-> mem, cache |-> cache[p]]
      <3>1. pc[p] = "trigger"
        BY <2>1 DEF CheckpointSaved, GvisorSaves, TriggerOwnsControl, TrigSteps
      <3>2. /\ gpu[p] = InTrigger
            /\ hooked[p] = TRUE
            /\ status[p] = "Starting"
            /\ warmedUp[p] \in Finished
            /\ prev[p] = warmedUp[p]
            /\ args \in {"noSaver", "saverAndBackup"}
        BY <3>1
        DEF HooksAreSafe, MemoryFollowsStartUp, StatusFollowsStartUp, Cycle, TypeOK
      <3>3. /\ new.cache \in CacheStates
            /\ new.mem.gpu = InTrigger
            /\ new.mem.hooked = TRUE
            /\ new.mem.status = "Starting"
            /\ new.mem.held \in Statuses \cup {"unset"}
            /\ new.mem.warmedUp \in Finished
            /\ new.mem.prev = new.mem.warmedUp
        BY <3>2 DEF TypeOK, ProviderTypeOK
      <3>4. images' = images \cup {new}
        BY <2>1 DEF CheckpointSaved, GvisorSaves
      <3> HIDE DEF new
      <3>5. QED
        BY <1>1, <3>2, <3>3, <3>4 DEF ImagesInTrigger, InTrigger, optionVars
    <2>2. CASE CheckpointFails(p)
      BY <1>1, <2>2
      DEF CheckpointFails, GvisorFails, ImagesInTrigger, InTrigger, optionVars
    <2>3. QED
      BY <2>1, <2>2 DEF GvisorStep
  <1>5. QED
    BY <1>2, <1>3, <1>4 DEF Held

(* The pod starts, cold or from a checkpoint, or its control file changes. *)
LEMMA EnvironmentKeeps ==
  ASSUME IInv, NEW p \in Pod, EnvironmentStep(p)
  PROVE  Held'
  <1> USE DEF IInv, TypeOK, ProviderTypeOK, Goto, Held, HooksAreSafe, MemoryFollowsStartUp,
              StatusFollowsStartUp, TriggerOwnsControl, ImagesInTrigger, InTrigger, Cycle,
              TrigSteps, serverVars, optionVars
  <1>1. CASE ColdStart(p)
    BY <1>1 DEF ColdStart, BootSandbox
  <1>2. CASE RestoreFrom(p)
    <2>1. PICK image \in images :
            /\ ContinueFrom(p, image)
            /\ gpu' = [gpu EXCEPT ![p] = image.mem.gpu]
            /\ hooked' = [hooked EXCEPT ![p] = image.mem.hooked]
            /\ status' = [status EXCEPT ![p] = image.mem.status]
            /\ held' = [held EXCEPT ![p] = image.mem.held]
            /\ prev' = [prev EXCEPT ![p] = image.mem.prev]
            /\ warmedUp' = [warmedUp EXCEPT ![p] = image.mem.warmedUp]
      BY <1>2 DEF RestoreFrom
    <2>2. HooksAreSafe' /\ MemoryFollowsStartUp'
      BY <1>2, <2>1 DEF RestoreFrom
    <2>3. StatusFollowsStartUp'
      BY <1>2, <2>1 DEF RestoreFrom
    <2>4. TriggerOwnsControl' /\ ImagesInTrigger'
      BY <1>2, <2>1 DEF RestoreFrom, ContinueFrom
    <2>5. QED
      BY <2>2, <2>3, <2>4
  <1>3. CASE Kill(p)
    BY <1>3, EndProcessKeeps DEF Kill
  <1>4. CASE ControlFileChanges(p)
    BY <1>4 DEF ControlFileChanges, ControlChanges
  <1>5. QED
    BY <1>1, <1>2, <1>3, <1>4 DEF EnvironmentStep

(* The inductive invariant holds after every step.                         *)
LEMMA StepIInv == IInv /\ [Next]_vars => IInv'
  <1> SUFFICES ASSUME IInv, [Next]_vars PROVE IInv'
    OBVIOUS
  <1>1. TypeOK'
    BY TypeStep
  <1>2. CASE UNCHANGED vars
    BY <1>1, <1>2
    DEF vars, providerVars, serverVars, optionVars, IInv, HooksAreSafe,
        MemoryFollowsStartUp, StatusFollowsStartUp, TriggerOwnsControl, ImagesInTrigger,
        InTrigger
  <1>3. CASE Next
    <2>1. Held'
      BY <1>3, ServerKeeps, GvisorKeeps, EnvironmentKeeps DEF Next
    <2>2. QED
      BY <1>1, <2>1 DEF IInv, Held
  <1>4. QED
    BY <1>2, <1>3

-------------------------------------------------------------------------------
(* The inductive invariant.                                                *)
THEOREM Invariant == Spec => []IInv
  BY InitIInv, StepIInv, PTL DEF Spec

(* Every reachable state is well formed, in a restored pod too.            *)
THEOREM TypeCorrect == Spec => []TypeOK
  BY Invariant, PTL DEF IInv

LEMMA HealthyFromInv == IInv => HealthyResident
  BY DEF IInv, TypeOK, StartUp, Cycle, MemoryFollowsStartUp, StatusFollowsStartUp,
         HealthyResident, Healthy

(* A pod that answers /health with 200 has its GPU memory resident, before *)
(* the hold, after a failed trigger and after a restore.                   *)
THEOREM HealthyMeansResident == Spec => []HealthyResident
  BY HealthyFromInv, Invariant, PTL

(* The status a server ends its start-up with is the one SGLang gave it.   *)
THEOREM StatusIsGivenBack == Spec => []StatusGivenBack
  <1>1. IInv => StatusGivenBack
    BY DEF IInv, StatusFollowsStartUp, StatusGivenBack
  <1>2. QED
    BY <1>1, Invariant, PTL

(* The weights are never thrown away: the launcher refuses the arguments   *)
(* under which releasing the memory keeps no copy of them.                 *)
WeightsKept == \A p \in Pod : gpu[p] # "discarded"

(* No pod ever releases weights of which it keeps no copy.                 *)
THEOREM WeightsAreKept == Spec => []WeightsKept
  <1>1. IInv => WeightsKept
    BY DEF IInv, TypeOK, StartUp, Cycle, MemoryFollowsStartUp, InTrigger, WeightsKept
  <1>2. QED
    BY <1>1, Invariant, PTL

(* Every checkpoint shows a server whose status is held.                   *)
THEOREM CheckpointsHeld == Spec => []ImagesHeld
  <1>1. IInv => ImagesHeld
    BY DEF IInv, ImagesInTrigger, Finished, ImagesHeld
  <1>2. QED
    BY <1>1, Invariant, PTL

-------------------------------------------------------------------------------
(* The replicas implement ReadyGate, step by step.                         *)

SavedGpu == {image.mem.gpu : image \in images}

(* What the routers see of a pod follows from where its start-up stands.   *)
LEMMA LifeIsStartUp ==
  ASSUME IInv, NEW p \in Pod
  PROVE  /\ life[p] = "down" <=> pc[p] = "off"
         /\ life[p] = "serving" <=> pc[p] = "serving"
         /\ life[p] = "starting" <=> pc[p] \in StartUp
  BY DEF life, IInv, TypeOK, StartUp, Cycle

(* What a change of the program counter is to the router.                  *)
LEMMA LifeChanges ==
  ASSUME IInv, NEW p \in Pod, NEW step, Goto(p, step)
  PROVE  life' = [life EXCEPT ![p] = CASE step = "off" -> "down"
                                       [] step = "serving" -> "serving"
                                       [] OTHER -> "starting"]
  BY DEF life, IInv, TypeOK, Goto

(* Within start-up, a step changes the GPU memory of its pod or nothing.   *)
LEMMA WithinStartUp ==
  ASSUME IInv, NEW p \in Pod, pc[p] \in StartUp, NEW step \in StartUp, Goto(p, step)
  PROVE  life' = life /\ life[p] = "starting"
  BY DEF life, IInv, TypeOK, Goto, StartUp, Cycle

(* A pod comes to serve where its memory is resident, by the warmup or by  *)
(* the callback.                                                           *)
LEMMA ServesResident ==
  ASSUME IInv, NEW p \in Pod, pc[p] \in {"warmup", "restore"}, Goto(p, "serving"),
         UNCHANGED <<gpu, images>>
  PROVE  Gate!BecomeReady(p)
  <1>1. life' = [life EXCEPT ![p] = "serving"]
    BY LifeChanges
  <1>2. life[p] = "starting" /\ gpu[p] = "resident"
    BY LifeIsStartUp DEF StartUp, Cycle, IInv, MemoryFollowsStartUp
  <1>3. QED
    BY <1>1, <1>2 DEF Gate!BecomeReady

(* A process that ends, of itself or killed.                               *)
LEMMA EndsAsStop ==
  ASSUME IInv, NEW p \in Pod, pc[p] # "off", EndProcess(p)
  PROVE  Gate!Stop(p)
  <1>1. life' = [life EXCEPT ![p] = "down"]
    BY LifeChanges DEF EndProcess
  <1>2. life[p] # "down"
    BY LifeIsStartUp
  <1>3. QED
    BY <1>1, <1>2 DEF EndProcess, DropProcess, Gate!Stop

(* Every step of the server process is a step of ReadyGate, or none.       *)
LEMMA ServerImplements ==
  ASSUME IInv, NEW p \in Pod, ServerStep(p)
  PROVE  [Gate!GateNext]_Gate!gateVars
  <1> USE DEF Gate!GateNext, Gate!gateVars, providerVars
  <1>1. CASE Launch(p) \/ Hold(p) \/ Callback(p) \/ WaitForServer(p) \/ TriggerReturns(p)
    <2>1. UNCHANGED <<gpu, images>>
      BY <1>1 DEF Launch, Hold, Callback, WaitForServer, TriggerReturns
    <2>2. \E step \in StartUp : pc[p] \in StartUp /\ Goto(p, step)
      BY <1>1 DEF Launch, Hold, Callback, WaitForServer, TriggerReturns, StartUp, Cycle
    <2>3. life' = life
      BY <2>2, WithinStartUp
    <2>4. QED
      BY <2>1, <2>3
  <1>2. CASE EngineInit(p)
    <2>1. life' = life /\ life[p] = "starting"
      BY <1>2, WithinStartUp DEF EngineInit, StartUp
    <2>2. Gate!SetGpu(p)
      BY <1>2, <2>1 DEF EngineInit, LoadWeights, Gate!SetGpu
    <2>3. QED
      BY <2>2
  <1>3. CASE Warmup(p)
    <2>1. UNCHANGED <<gpu, images>>
      BY <1>3 DEF Warmup
    <2>2. CASE ~hooked[p]
      BY <1>3, <2>1, <2>2, ServesResident DEF Warmup
    <2>3. CASE hooked[p]
      <3>1. \E step \in StartUp : pc[p] \in StartUp /\ Goto(p, step)
        BY <1>3, <2>3 DEF Warmup, StartUp, Cycle
      <3>2. life' = life
        BY <3>1, WithinStartUp
      <3>3. QED
        BY <2>1, <3>2
    <2>4. QED
      BY <2>2, <2>3
  <1>4. CASE Release(p)
    <2>1. life' = life /\ life[p] = "starting"
      BY <1>4, WithinStartUp DEF Release, StartUp, Cycle
    <2>2. AfterRelease(p) \in {"resident", "released"}
      BY <1>4 DEF Release, AfterRelease, IInv, HooksAreSafe, MemoryFollowsStartUp, Cycle
    <2>3. Gate!SetGpu(p)
      BY <1>4, <2>1, <2>2 DEF Release, CallTrigger, Gate!SetGpu
    <2>4. QED
      BY <2>3
  <1>5. CASE Trigger(p)
    <2>1. UNCHANGED <<pc, gpu, images>>
      BY <1>5
      DEF Trigger, serverVars, TriggerStep, TrigCheck, ClearSome, ClearCache,
          ClearCacheFails, OpenControl, OpenControlFails, WriteControl,
          WriteControlFails, ReadResumed, ReadFails
    <2>2. QED
      BY <2>1 DEF life
  <1>6. CASE Resume(p)
    <2>1. life' = life /\ life[p] = "starting"
      BY <1>6, WithinStartUp DEF Resume, StartUp, Cycle
    <2>2. gpu' = [gpu EXCEPT ![p] = "resident"]
      BY <1>6 DEF Resume, IInv, TypeOK, MemoryFollowsStartUp, InTrigger
    <2>3. Gate!SetGpu(p)
      BY <1>6, <2>1, <2>2 DEF Resume, Gate!SetGpu
    <2>4. QED
      BY <2>3
  <1>7. CASE RestoreStatus(p)
    BY <1>7, ServesResident DEF RestoreStatus
  <1>8. CASE StartUpFails(p)
    BY <1>8, EndsAsStop DEF StartUpFails
  <1>9. QED
    BY <1>1, <1>2, <1>3, <1>4, <1>5, <1>6, <1>7, <1>8 DEF ServerStep

(* So is every step of gVisor, which checkpoints a pod in its trigger only.*)
LEMMA GvisorImplements ==
  ASSUME IInv, NEW p \in Pod, GvisorStep(p)
  PROVE  [Gate!GateNext]_Gate!gateVars
  <1> USE DEF Gate!GateNext, Gate!gateVars
  <1>1. life' = life /\ gpu' = gpu
    BY DEF life, GvisorStep, CheckpointSaved, CheckpointFails, serverVars
  <1>2. CASE CheckpointSaved(p)
    <2> DEFINE mem == [gpu |-> gpu[p], hooked |-> hooked[p], status |-> status[p],
                       held |-> held[p], prev |-> prev[p], warmedUp |-> warmedUp[p]]
               new == [mem |-> mem, cache |-> cache[p]]
    <2>1. pc[p] = "trigger"
      BY <1>2 DEF CheckpointSaved, GvisorSaves, IInv, TriggerOwnsControl, TrigSteps
    <2>2. life[p] = "starting"
      BY <2>1, LifeIsStartUp DEF StartUp, Cycle
    <2>3. new.mem.gpu = gpu[p] /\ images' = images \cup {new}
      BY <1>2 DEF CheckpointSaved, GvisorSaves
    <2> HIDE DEF new
    <2>4. SavedGpu' = {image.mem.gpu : image \in images \cup {new}}
      BY <2>3 DEF SavedGpu
    <2>5. SavedGpu' = SavedGpu \cup {gpu[p]}
      BY <2>3, <2>4 DEF SavedGpu
    <2>6. Gate!Checkpoint(p)
      BY <1>1, <2>2, <2>5 DEF Gate!Checkpoint, SavedGpu
    <2>7. QED
      BY <2>6
  <1>3. CASE CheckpointFails(p)
    BY <1>1, <1>3 DEF CheckpointFails, GvisorFails
  <1>4. QED
    BY <1>2, <1>3 DEF GvisorStep

(* So is every step of the cluster.                                        *)
LEMMA EnvironmentImplements ==
  ASSUME IInv, NEW p \in Pod, EnvironmentStep(p)
  PROVE  [Gate!GateNext]_Gate!gateVars
  <1> USE DEF Gate!GateNext, Gate!gateVars, serverVars
  <1>1. CASE ColdStart(p)
    <2>1. life' = [life EXCEPT ![p] = "starting"] /\ life[p] = "down"
      BY <1>1, LifeChanges, LifeIsStartUp DEF ColdStart
    <2>2. gpu' = [gpu EXCEPT ![p] = "none"]
      BY <1>1 DEF ColdStart, IInv, TypeOK, MemoryFollowsStartUp
    <2>3. Gate!Start(p)
      BY <1>1, <2>1, <2>2 DEF ColdStart, BootSandbox, Gate!Start
    <2>4. QED
      BY <2>3
  <1>2. CASE RestoreFrom(p)
    <2>1. life' = [life EXCEPT ![p] = "starting"] /\ life[p] = "down"
      BY <1>2, LifeChanges, LifeIsStartUp DEF RestoreFrom
    <2>2. \E g \in SavedGpu : gpu' = [gpu EXCEPT ![p] = g]
      BY <1>2 DEF RestoreFrom, SavedGpu
    <2>3. Gate!Start(p)
      BY <1>2, <2>1, <2>2 DEF RestoreFrom, ContinueFrom, Gate!Start, SavedGpu
    <2>4. QED
      BY <2>3
  <1>3. CASE Kill(p)
    BY <1>3, EndsAsStop DEF Kill
  <1>4. CASE ControlFileChanges(p)
    BY <1>4 DEF ControlFileChanges, ControlChanges, life
  <1>5. QED
    BY <1>1, <1>2, <1>3, <1>4 DEF EnvironmentStep

LEMMA GateInits == Init => Gate!GateInit
  BY DEF Init, ProviderInit, Gate!GateInit, life

LEMMA GateSteps == IInv /\ [Next]_vars => [Gate!GateNext]_Gate!gateVars
  <1> SUFFICES ASSUME IInv, [Next]_vars
               PROVE  [Gate!GateNext]_Gate!gateVars
    OBVIOUS
  <1>1. CASE UNCHANGED vars
    BY <1>1 DEF vars, providerVars, serverVars, Gate!gateVars, life
  <1>2. QED
    BY <1>1, ServerImplements, GvisorImplements, EnvironmentImplements DEF Next

(* The router may believe ReadyGate of SGLang as of vLLM: once past its    *)
(* start-up a pod has its memory resident, until its process ends, and is  *)
(* never checkpointed; and no copy of the weights is ever lost before.     *)
THEOREM ImplementsReadyGate == Spec => KeepsReadyGate
  BY GateInits, GateSteps, Invariant, PTL DEF Spec, KeepsReadyGate, Gate!GateSpec

-------------------------------------------------------------------------------
(* The probes.                                                             *)

(* A startupProbe passes once SGLang's own warmup is over, if not always   *)
(* at the end of the start-up.                                             *)
ProbeWaits ==
  /\ started \in [Pod -> BOOLEAN]
  /\ \A p \in Pod : started[p] => pc[p] \in {"hold", "serving"} \cup Cycle

(* What the probes do to a pod is nothing, or the end of its process.      *)
LEMMA ProbedStep ==
  ASSUME ProbeWaits, [ProbedNext]_probedVars
  PROVE  [Next]_vars
  <1>1. ASSUME NEW p \in Pod, LivenessKill(p) PROVE Next
    <2>1. Kill(p)
      BY <1>1 DEF LivenessKill, ProbeWaits, Kill, Cycle
    <2>2. QED
      BY <2>1 DEF Next, EnvironmentStep
  <1>2. ASSUME NEW p \in Pod, StartupProbe(p) PROVE UNCHANGED vars
    BY <1>2 DEF StartupProbe
  <1>3. CASE UNCHANGED probedVars
    BY <1>3 DEF probedVars
  <1>4. CASE ServerRuns
    BY <1>4 DEF ServerRuns
  <1>5. QED
    BY <1>1, <1>2, <1>3, <1>4 DEF ProbedNext

(* Once warm, a pod stays so until its process ends.                       *)
LEMMA WarmStays ==
  ASSUME IInv, Next, NEW q \in Pod, pc[q] \in {"hold", "serving"} \cup Cycle
  PROVE  pc'[q] \in {"hold", "serving", "off"} \cup Cycle
  <1> USE DEF IInv, TypeOK, Goto, Cycle
  <1>1. PICK p \in Pod : ServerStep(p) \/ GvisorStep(p) \/ EnvironmentStep(p)
    BY DEF Next
  <1>2. CASE Launch(p) \/ EngineInit(p) \/ Warmup(p) \/ Hold(p) \/ Callback(p)
    BY <1>2 DEF Launch, EngineInit, Warmup, Hold, Callback
  <1>3. CASE WaitForServer(p) \/ Release(p) \/ TriggerReturns(p) \/ Resume(p) \/ RestoreStatus(p)
    BY <1>3 DEF WaitForServer, Release, TriggerReturns, Resume, RestoreStatus
  <1>4. CASE Trigger(p) \/ GvisorStep(p) \/ ControlFileChanges(p)
    BY <1>4 DEF Trigger, GvisorStep, CheckpointSaved, CheckpointFails, ControlFileChanges, serverVars
  <1>5. CASE StartUpFails(p) \/ Kill(p)
    BY <1>5 DEF StartUpFails, Kill, EndProcess
  <1>6. CASE ColdStart(p) \/ RestoreFrom(p)
    BY <1>6 DEF ColdStart, RestoreFrom
  <1>7. QED
    BY <1>1, <1>2, <1>3, <1>4, <1>5, <1>6 DEF ServerStep, EnvironmentStep

LEMMA ProbeWaitsStep == IInv /\ ProbeWaits /\ [ProbedNext]_probedVars => ProbeWaits'
  <1> SUFFICES ASSUME IInv, ProbeWaits, [ProbedNext]_probedVars PROVE ProbeWaits'
    OBVIOUS
  <1>1. CASE UNCHANGED probedVars
    BY <1>1 DEF probedVars, vars, serverVars, ProbeWaits
  <1>2. CASE ServerRuns
    <2>1. started' = [p \in Pod |-> started[p] /\ pc'[p] # "off"]
      BY <1>2 DEF ServerRuns
    <2>2. ASSUME NEW p \in Pod, started'[p]
          PROVE  pc'[p] \in {"hold", "serving"} \cup Cycle
      <3>1. pc'[p] \in {"hold", "serving", "off"} \cup Cycle
        BY <1>2, <2>1, <2>2, WarmStays DEF ProbeWaits, ServerRuns
      <3>2. QED
        BY <2>1, <2>2, <3>1
    <2>3. QED
      BY <2>1, <2>2 DEF ProbeWaits
  <1>3. ASSUME NEW p \in Pod, StartupProbe(p) PROVE ProbeWaits'
    <2>1. pc[p] \in {"hold", "serving"} \cup Cycle
      BY <1>3 DEF StartupProbe, Healthy, IInv, TypeOK, StartUp, StatusFollowsStartUp
    <2>2. QED
      BY <1>3, <2>1 DEF StartupProbe, ProbeWaits, vars, serverVars
  <1>4. ASSUME NEW p \in Pod, LivenessKill(p) PROVE ProbeWaits'
    BY <1>4 DEF LivenessKill, EndProcess, Goto, ProbeWaits, IInv, TypeOK
  <1>5. QED
    BY <1>1, <1>2, <1>3, <1>4 DEF ProbedNext

(* The startupProbe does not hand over to the livenessProbe before SGLang  *)
(* has warmed up: of what the comment on the probes promises, this is left.*)
THEOREM NoLivenessInWarmup == ProbedSpec => [](IInv /\ ProbeWaits)
  <1>1. ProbedInit => IInv /\ ProbeWaits
    BY InitIInv DEF ProbedInit, ProbeWaits
  <1>2. IInv /\ ProbeWaits /\ [ProbedNext]_probedVars => IInv' /\ ProbeWaits'
    BY StepIInv, ProbeWaitsStep, ProbedStep
  <1>3. QED
    BY <1>1, <1>2, PTL DEF ProbedSpec

(* A livenessProbe that kills a pod in its snapshot cycle breaks nothing   *)
(* that the router relies on.                                              *)
THEOREM ProbesKeepReadyGate == ProbedSpec => KeepsReadyGate /\ []HealthyResident
  <1>1. ProbedInit => Init
    BY DEF ProbedInit
  <1>2. IInv /\ ProbeWaits /\ [ProbedNext]_probedVars => [Next]_vars
    BY ProbedStep
  <1>3. Init => Gate!GateInit
    BY GateInits
  <1>4. IInv /\ [Next]_vars => [Gate!GateNext]_Gate!gateVars
    BY GateSteps
  <1>5. IInv => HealthyResident
    BY HealthyFromInv
  <1>6. QED
    BY <1>1, <1>2, <1>3, <1>4, <1>5, NoLivenessInWarmup, PTL
    DEF ProbedSpec, KeepsReadyGate, Gate!GateSpec
===============================================================================
