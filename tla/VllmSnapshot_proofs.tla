-------------------------- MODULE VllmSnapshot_proofs --------------------------
(***************************************************************************)
(* The safety of the vLLM snapshot cycle for any number of replicas and    *)
(* any sequence of checkpoints, failed triggers, kills and restores.       *)
(***************************************************************************)
EXTENDS VllmSnapshot, TLAPS

(* The GPU memory of a pod whose engine has been put to sleep.             *)
Asleep == IF engine = "sleepMode" THEN "released" ELSE "resident"

(* Where start-up stands decides what the GPU memory is.                   *)
MemoryFollowsStartUp ==
  \A p \in Pod :
    /\ pc[p] \in {"off", "init"} => gpu[p] = "none"
    /\ pc[p] \in {"lifespan", "sleep", "yield", "serving"} => gpu[p] = "resident"
    /\ pc[p] \in {"trigger", "wake"} => gpu[p] = Asleep

(* The trigger runs only while the wrapper waits for it, the control file  *)
(* is open and a request is under way only at the end of it.               *)
TriggerOwnsControl ==
  \A p \in Pod :
    /\ pc[p] \in {"off", "init", "lifespan", "sleep"} => trig[p] = "idle"
    /\ trig[p] \in TrigSteps \ {"idle"} => pc[p] = "trigger"
    /\ fd[p] => trig[p] \in {"write", "read"}
    /\ request[p] # "none" => trig[p] = "read"

(* The weight files go between the availability check and the open.        *)
PurgeComesFirst ==
  \A p \in Pod :
    /\ cacheDirSet /\ trig[p] \in {"open", "write", "read"} => cache[p] = "empty"
    /\ cacheDirSet /\ trig[p] = "ok" => cache[p] = "empty"
    /\ cache[p] \in {"partial", "empty"} =>
         trig[p] \in {"clear", "open", "write", "read", "ok", "error"}
    /\ cache[p] = "none" => pc[p] \in {"off", "init"}

(* Every checkpoint shows a sleeping engine without its weight files.      *)
ImagesAsleep ==
  \A image \in images :
    /\ image.mem.gpu = Asleep
    /\ cacheDirSet => image.cache = "empty"
    /\ image.cache # "none"

(* The inductive invariant: a restored pod continues in the middle of the  *)
(* trigger, so what holds there has to be known of the checkpoints too.    *)
IInv ==
  /\ TypeOK
  /\ MemoryFollowsStartUp
  /\ TriggerOwnsControl
  /\ PurgeComesFirst
  /\ ImagesAsleep

(* The inductive invariant holds initially.                                *)
LEMMA InitIInv == Init => IInv
  <1> SUFFICES ASSUME Init PROVE IInv
    OBVIOUS
  <1>1. TypeOK
    BY CacheDirAssumption
    DEF Init, ProviderInit, TypeOK, ProviderTypeOK, TrigSteps, CacheStates
  <1>2. QED
    BY <1>1
    DEF Init, ProviderInit, IInv, MemoryFollowsStartUp, TriggerOwnsControl,
        PurgeComesFirst, ImagesAsleep, TrigSteps

-------------------------------------------------------------------------------
(* A pod under checkpoint is in its trigger, its engine asleep.            *)
LEMMA RequestMeansAsleep ==
  ASSUME IInv, NEW p \in Pod, request[p] # "none"
  PROVE  pc[p] = "trigger" /\ trig[p] = "read" /\ gpu[p] = Asleep
  BY DEF IInv, TriggerOwnsControl, MemoryFollowsStartUp, TrigSteps

(* Every step keeps the types.                                             *)
LEMMA TypeStep == IInv /\ [Next]_vars => TypeOK'
  <1> SUFFICES ASSUME IInv, [Next]_vars PROVE TypeOK'
    OBVIOUS
  <1>0. TypeOK
    BY DEF IInv
  <1> USE DEF TypeOK, ProviderTypeOK, TrigSteps, TrigOutcomes, CacheStates, Starting,
              providerVars, wrapperVars, Goto
  <1>1. ASSUME NEW p \in Pod, TriggerStep(p), UNCHANGED wrapperVars
        PROVE  TypeOK'
    <2>1. CASE TrigCheck(p)
      BY <1>0, <1>1, <2>1 DEF TrigCheck, IsAvailable
    <2>2. CASE ClearSome(p) \/ ClearCache(p) \/ ClearCacheFails(p)
      BY <1>0, <1>1, <2>2 DEF ClearSome, ClearCache, ClearCacheFails
    <2>3. CASE OpenControl(p) \/ OpenControlFails(p)
      BY <1>0, <1>1, <2>3 DEF OpenControl, OpenControlFails
    <2>4. CASE WriteControl(p)
      BY <1>0, <1>1, <2>4 DEF WriteControl
    <2>5. CASE WriteControlFails(p) \/ ReadResumed(p) \/ ReadFails(p)
      BY <1>0, <1>1, <2>5 DEF WriteControlFails, ReadResumed, ReadFails, CloseAs
    <2>6. QED
      BY <1>0, <1>1, <2>1, <2>2, <2>3, <2>4, <2>5 DEF TriggerStep
  <1>2. ASSUME NEW p \in Pod, ServerStep(p)
        PROVE  TypeOK'
    <2>1. CASE EngineInit(p)
      BY <1>0, <2>1 DEF EngineInit, LoadWeights
    <2>2. CASE CheckAvailable(p) \/ TriggerReturns(p) \/ Yield(p)
      BY <1>0, <2>2 DEF CheckAvailable, TriggerReturns, Yield
    <2>3. CASE Sleep(p)
      BY <1>0, <2>3 DEF Sleep, CallTrigger, AfterSleep
    <2>4. CASE Trigger(p)
      BY <1>0, <2>4, <1>1 DEF Trigger
    <2>5. CASE WakeUp(p)
      BY <1>0, <2>5 DEF WakeUp
    <2>6. CASE EngineCallFails(p)
      BY <1>0, <2>6 DEF EngineCallFails, EndProcess, DropProcess
    <2>7. QED
      BY <1>0, <1>2, <2>1, <2>2, <2>3, <2>4, <2>5, <2>6 DEF ServerStep
  <1>3. ASSUME NEW p \in Pod, GvisorStep(p)
        PROVE  TypeOK'
    <2>1. CASE CheckpointSaved(p)
      <3>1. gpu[p] \in {"resident", "released"}
        BY <2>1, RequestMeansAsleep DEF CheckpointSaved, GvisorSaves, Asleep
      <3>2. QED
        BY <1>0, <2>1, <3>1 DEF CheckpointSaved, GvisorSaves
    <2>2. CASE CheckpointFails(p)
      BY <1>0, <2>2 DEF CheckpointFails, GvisorFails
    <2>3. QED
      BY <1>0, <1>3, <2>1, <2>2 DEF GvisorStep
  <1>4. ASSUME NEW p \in Pod, EnvironmentStep(p)
        PROVE  TypeOK'
    <2>1. CASE ColdStart(p)
      BY <1>0, <2>1 DEF ColdStart, BootSandbox
    <2>2. CASE RestoreFrom(p)
      BY <1>0, <2>2 DEF RestoreFrom, ContinueFrom
    <2>3. CASE Kill(p)
      BY <1>0, <2>3 DEF Kill, EndProcess, DropProcess
    <2>4. CASE ControlFileChanges(p)
      BY <1>0, <2>4 DEF ControlFileChanges, ControlChanges
    <2>5. QED
      BY <1>0, <1>4, <2>1, <2>2, <2>3, <2>4 DEF EnvironmentStep
  <1>5. CASE UNCHANGED vars
    BY <1>0, <1>5 DEF vars
  <1>6. QED
    BY <1>0, <1>2, <1>3, <1>4, <1>5 DEF Next

-------------------------------------------------------------------------------
(* The steps of the trigger, which leave the wrapper where it is.          *)
LEMMA TriggerKeeps ==
  ASSUME IInv, NEW p \in Pod, Trigger(p)
  PROVE  MemoryFollowsStartUp' /\ TriggerOwnsControl' /\ PurgeComesFirst' /\ ImagesAsleep'
  <1> USE DEF Trigger
  <1>1. UNCHANGED <<pc, gpu, engine, images, cacheDirSet>>
    BY DEF wrapperVars, TriggerStep, TrigCheck, ClearSome, ClearCache, ClearCacheFails,
           OpenControl, OpenControlFails, WriteControl, WriteControlFails, ReadResumed,
           ReadFails
  <1>2. MemoryFollowsStartUp' /\ ImagesAsleep'
    BY <1>1 DEF IInv, MemoryFollowsStartUp, ImagesAsleep, Asleep
  <1>3. TriggerOwnsControl' /\ PurgeComesFirst'
    <2> USE <1>1
        DEF IInv, TypeOK, ProviderTypeOK, TriggerOwnsControl, PurgeComesFirst, TrigSteps,
            TrigOutcomes
    <2>1. CASE TrigCheck(p)
      BY <2>1 DEF TrigCheck
    <2>2. CASE ClearSome(p)
      BY <2>2 DEF ClearSome
    <2>3. CASE ClearCache(p)
      BY <2>3 DEF ClearCache
    <2>4. CASE ClearCacheFails(p)
      BY <2>4 DEF ClearCacheFails
    <2>5. CASE OpenControl(p)
      BY <2>5 DEF OpenControl
    <2>6. CASE OpenControlFails(p)
      BY <2>6 DEF OpenControlFails
    <2>7. CASE WriteControl(p)
      BY <2>7 DEF WriteControl
    <2>8. CASE WriteControlFails(p)
      BY <2>8 DEF WriteControlFails, CloseAs
    <2>9. CASE ReadResumed(p)
      BY <2>9 DEF ReadResumed, CloseAs
    <2>10. CASE ReadFails(p)
      BY <2>10 DEF ReadFails, CloseAs
    <2>11. QED
      BY <2>1, <2>2, <2>3, <2>4, <2>5, <2>6, <2>7, <2>8, <2>9, <2>10 DEF TriggerStep
  <1>4. QED
    BY <1>2, <1>3

(* Whatever ends the process: an engine call that fails, or a kill.        *)
LEMMA EndProcessKeeps ==
  ASSUME IInv, NEW p \in Pod, EndProcess(p)
  PROVE  MemoryFollowsStartUp' /\ TriggerOwnsControl' /\ PurgeComesFirst' /\ ImagesAsleep'
  <1> USE DEF EndProcess, DropProcess, Goto, IInv, TypeOK, ProviderTypeOK
  <1>1. MemoryFollowsStartUp'
    BY DEF MemoryFollowsStartUp, Asleep
  <1>2. TriggerOwnsControl'
    BY DEF TriggerOwnsControl, TrigSteps
  <1>3. PurgeComesFirst' /\ ImagesAsleep'
    BY DEF PurgeComesFirst, ImagesAsleep, Asleep
  <1>4. QED
    BY <1>1, <1>2, <1>3

(* The rest of the wrapper, one case for each of its steps.                *)
LEMMA ServerKeeps ==
  ASSUME IInv, NEW p \in Pod, ServerStep(p)
  PROVE  MemoryFollowsStartUp' /\ TriggerOwnsControl' /\ PurgeComesFirst' /\ ImagesAsleep'
  <1> USE DEF IInv, TypeOK, ProviderTypeOK, Goto, MemoryFollowsStartUp, TriggerOwnsControl,
              PurgeComesFirst, ImagesAsleep, Asleep, TrigSteps, TrigOutcomes, providerVars
  <1>1. CASE EngineInit(p)
    BY <1>1 DEF EngineInit, LoadWeights
  <1>2. CASE CheckAvailable(p)
    BY <1>2 DEF CheckAvailable
  <1>3. CASE Sleep(p)
    BY <1>3 DEF Sleep, AfterSleep, CallTrigger
  <1>4. CASE Trigger(p)
    BY <1>4, TriggerKeeps
  <1>5. CASE TriggerReturns(p)
    BY <1>5 DEF TriggerReturns, TriggerEnded
  <1>6. CASE WakeUp(p)
    BY <1>6 DEF WakeUp
  <1>7. CASE Yield(p)
    BY <1>7 DEF Yield
  <1>8. CASE EngineCallFails(p)
    BY <1>8, EndProcessKeeps DEF EngineCallFails
  <1>9. QED
    BY <1>1, <1>2, <1>3, <1>4, <1>5, <1>6, <1>7, <1>8 DEF ServerStep

(* gVisor writes a checkpoint, or fails to.                                *)
LEMMA GvisorKeeps ==
  ASSUME IInv, NEW p \in Pod, GvisorStep(p)
  PROVE  MemoryFollowsStartUp' /\ TriggerOwnsControl' /\ PurgeComesFirst' /\ ImagesAsleep'
  <1> USE DEF IInv, TypeOK, ProviderTypeOK, wrapperVars, TriggerOwnsControl,
              PurgeComesFirst
  <1>1. UNCHANGED <<pc, gpu, engine, trig, fd, cache, cacheDirSet>>
    BY DEF GvisorStep, CheckpointSaved, CheckpointFails, GvisorSaves, GvisorFails
  <1>2. MemoryFollowsStartUp'
    BY <1>1 DEF MemoryFollowsStartUp, Asleep
  <1>3. TriggerOwnsControl' /\ PurgeComesFirst'
    BY <1>1 DEF GvisorStep, CheckpointSaved, CheckpointFails, GvisorSaves, GvisorFails
  <1>4. ImagesAsleep'
    <2>1. CASE CheckpointSaved(p)
      <3>1. gpu[p] = Asleep /\ (cacheDirSet => cache[p] = "empty")
        BY <2>1, RequestMeansAsleep DEF CheckpointSaved, GvisorSaves
      <3>0. cache[p] # "none"
        BY <2>1 DEF CheckpointSaved, GvisorSaves, TrigSteps
      <3>2. images' = images \cup {[mem |-> [gpu |-> gpu[p]], cache |-> cache[p]]}
        BY <2>1 DEF CheckpointSaved, GvisorSaves
      <3>3. QED
        BY <1>1, <3>0, <3>1, <3>2 DEF ImagesAsleep, Asleep
    <2>2. CASE CheckpointFails(p)
      BY <1>1, <2>2 DEF CheckpointFails, GvisorFails, ImagesAsleep, Asleep
    <2>3. QED
      BY <2>1, <2>2 DEF GvisorStep
  <1>5. QED
    BY <1>2, <1>3, <1>4

(* The pod starts, cold or from a checkpoint, or its control file changes. *)
LEMMA EnvironmentKeeps ==
  ASSUME IInv, NEW p \in Pod, EnvironmentStep(p)
  PROVE  MemoryFollowsStartUp' /\ TriggerOwnsControl' /\ PurgeComesFirst' /\ ImagesAsleep'
  <1> USE DEF IInv, TypeOK, ProviderTypeOK, Goto, MemoryFollowsStartUp, TriggerOwnsControl,
              PurgeComesFirst, ImagesAsleep, Asleep, TrigSteps, wrapperVars
  <1>1. CASE ColdStart(p)
    BY <1>1 DEF ColdStart, BootSandbox
  <1>2. CASE RestoreFrom(p)
    BY <1>2 DEF RestoreFrom, ContinueFrom
  <1>3. CASE Kill(p)
    BY <1>3, EndProcessKeeps DEF Kill
  <1>4. CASE ControlFileChanges(p)
    BY <1>4 DEF ControlFileChanges, ControlChanges
  <1>5. QED
    BY <1>1, <1>2, <1>3, <1>4 DEF EnvironmentStep

(* The inductive invariant holds after every step.                         *)
LEMMA StepIInv == IInv /\ [Next]_vars => IInv'
  <1> SUFFICES ASSUME IInv, [Next]_vars PROVE IInv'
    OBVIOUS
  <1>1. TypeOK'
    BY TypeStep
  <1>2. MemoryFollowsStartUp' /\ TriggerOwnsControl' /\ PurgeComesFirst' /\ ImagesAsleep'
    <2>1. CASE UNCHANGED vars
      BY <2>1 DEF vars, providerVars, wrapperVars, IInv, MemoryFollowsStartUp,
                  TriggerOwnsControl, PurgeComesFirst, ImagesAsleep, Asleep
    <2>2. QED
      BY <2>1, ServerKeeps, GvisorKeeps, EnvironmentKeeps DEF Next
  <1>3. QED
    BY <1>1, <1>2 DEF IInv

-------------------------------------------------------------------------------
(* The inductive invariant.                                                *)
THEOREM Invariant == Spec => []IInv
  BY InitIInv, StepIInv, PTL DEF Spec

(* Every reachable state is well formed; in particular no checkpoint is    *)
(* ever taken of a process that holds no model.                            *)
THEOREM TypeCorrect == Spec => []TypeOK
  BY Invariant, PTL DEF IInv

(* A pod that accepts requests has its GPU memory resident and the control *)
(* file closed, however its trigger ended and wherever it was restored.    *)
THEOREM ReadyMeansResident == Spec => []ServingResident
  <1>1. IInv => ServingResident
    BY DEF IInv, MemoryFollowsStartUp, TriggerOwnsControl, TrigSteps, ServingResident
  <1>2. QED
    BY <1>1, Invariant, PTL

(* Every checkpoint is as small as the launcher can make it.               *)
THEOREM CheckpointsLean == Spec => []ImagesLean
  <1>1. IInv => ImagesLean
    BY DEF IInv, ImagesAsleep, Asleep, ImagesLean
  <1>2. QED
    BY <1>1, Invariant, PTL

(* A serving pod whose trigger was not called or was skipped has all its   *)
(* weight files, one that was checkpointed has none, and whatever else is  *)
(* missing was reported.                                                   *)
THEOREM PurgesAreAccountedFor == Spec => []PurgeAccountedFor
  <1>1. IInv => PurgeAccountedFor
    BY DEF IInv, TypeOK, ProviderTypeOK, TriggerOwnsControl, PurgeComesFirst, TrigSteps,
           CacheStates, PurgeAccountedFor
  <1>2. QED
    BY <1>1, Invariant, PTL

-------------------------------------------------------------------------------
(* The wrapper implements ReadyGate, step by step.                         *)

SavedGpu == {image.mem.gpu : image \in images}

(* What the routers see of a pod follows from where its start-up stands.   *)
LEMMA LifeIsStartUp ==
  ASSUME IInv, NEW p \in Pod
  PROVE  /\ life[p] = "down" <=> pc[p] = "off"
         /\ life[p] = "serving" <=> pc[p] = "serving"
         /\ life[p] = "starting" <=> pc[p] \in Starting
  BY DEF life, IInv, TypeOK, Starting

(* What a change of the program counter is to the router.                  *)
LEMMA LifeChanges ==
  ASSUME IInv, NEW p \in Pod, NEW step, Goto(p, step)
  PROVE  life' = [life EXCEPT ![p] = CASE step = "off" -> "down"
                                       [] step = "serving" -> "serving"
                                       [] OTHER -> "starting"]
  BY DEF life, IInv, TypeOK, Goto

(* A step inside start-up is a change of GPU memory or no step of the      *)
(* gate.                                                                   *)
LEMMA WithinStartUp ==
  ASSUME IInv, NEW p \in Pod, pc[p] \in Starting, NEW step \in Starting, Goto(p, step)
  PROVE  life' = life /\ life[p] = "starting"
  BY DEF life, IInv, TypeOK, Goto, Starting

(* Every step of the server process is a step of ReadyGate.                *)
LEMMA ServerImplements ==
  ASSUME IInv, NEW p \in Pod, ServerStep(p)
  PROVE  [Gate!GateNext]_Gate!gateVars
  <1> USE DEF Gate!GateNext, Gate!gateVars, providerVars
  <1>1. CASE EngineInit(p)
    <2>1. life' = life /\ life[p] = "starting"
      BY <1>1, WithinStartUp DEF EngineInit, Starting
    <2>2. Gate!SetGpu(p)
      BY <1>1, <2>1 DEF EngineInit, LoadWeights, Gate!SetGpu
    <2>3. QED
      BY <2>2
  <1>2. CASE CheckAvailable(p)
    BY <1>2, WithinStartUp DEF CheckAvailable, Starting
  <1>3. CASE Sleep(p)
    <2>1. life' = life /\ life[p] = "starting"
      BY <1>3, WithinStartUp DEF Sleep, Starting
    <2>2. AfterSleep(p) \in {"resident", "released"}
      BY <1>3 DEF Sleep, AfterSleep, IInv, MemoryFollowsStartUp
    <2>3. Gate!SetGpu(p)
      BY <1>3, <2>1, <2>2 DEF Sleep, CallTrigger, Gate!SetGpu
    <2>4. QED
      BY <2>3
  <1>4. CASE Trigger(p)
    <2>1. UNCHANGED <<pc, gpu, images>>
      BY <1>4
      DEF Trigger, wrapperVars, TriggerStep, TrigCheck, ClearSome, ClearCache,
          ClearCacheFails, OpenControl, OpenControlFails, WriteControl,
          WriteControlFails, ReadResumed, ReadFails
    <2>2. QED
      BY <2>1 DEF life
  <1>5. CASE TriggerReturns(p)
    BY <1>5, WithinStartUp DEF TriggerReturns, Starting
  <1>6. CASE WakeUp(p)
    <2>1. life' = life /\ life[p] = "starting"
      BY <1>6, WithinStartUp DEF WakeUp, Starting
    <2>2. gpu' = [gpu EXCEPT ![p] = "resident"]
      BY <1>6 DEF WakeUp, IInv, TypeOK, MemoryFollowsStartUp, Asleep
    <2>3. Gate!SetGpu(p)
      BY <1>6, <2>1, <2>2 DEF WakeUp, Gate!SetGpu
    <2>4. QED
      BY <2>3
  <1>7. CASE Yield(p)
    <2>1. life' = [life EXCEPT ![p] = "serving"]
      BY <1>7, LifeChanges DEF Yield
    <2>2. life[p] = "starting" /\ gpu[p] = "resident"
      BY <1>7, LifeIsStartUp DEF Yield, Starting, IInv, MemoryFollowsStartUp
    <2>3. Gate!BecomeReady(p)
      BY <1>7, <2>1, <2>2 DEF Yield, Gate!BecomeReady
    <2>4. QED
      BY <2>3
  <1>8. CASE EngineCallFails(p)
    <2>1. life' = [life EXCEPT ![p] = "down"] /\ life[p] # "down"
      BY <1>8, LifeChanges, LifeIsStartUp DEF EngineCallFails, EndProcess
    <2>2. Gate!Stop(p)
      BY <1>8, <2>1 DEF EngineCallFails, EndProcess, DropProcess, Gate!Stop
    <2>3. QED
      BY <2>2
  <1>9. QED
    BY <1>1, <1>2, <1>3, <1>4, <1>5, <1>6, <1>7, <1>8 DEF ServerStep

(* So is every step of gVisor.                                             *)
LEMMA GvisorImplements ==
  ASSUME IInv, NEW p \in Pod, GvisorStep(p)
  PROVE  [Gate!GateNext]_Gate!gateVars
  <1> USE DEF Gate!GateNext, Gate!gateVars, wrapperVars
  <1>1. life' = life /\ gpu' = gpu
    BY DEF life, GvisorStep, CheckpointSaved, CheckpointFails
  <1>2. CASE CheckpointSaved(p)
    <2>1. life[p] = "starting"
      BY <1>2, RequestMeansAsleep, LifeIsStartUp DEF CheckpointSaved, GvisorSaves, Starting
    <2>2. images' = images \cup {[mem |-> [gpu |-> gpu[p]], cache |-> cache[p]]}
      BY <1>2 DEF CheckpointSaved, GvisorSaves
    <2>3. SavedGpu' = SavedGpu \cup {gpu[p]}
      <3> DEFINE new == [mem |-> [gpu |-> gpu[p]], cache |-> cache[p]]
      <3>1. new.mem.gpu = gpu[p] /\ images' = images \cup {new}
        BY <2>2
      <3> HIDE DEF new
      <3>2. SavedGpu' = {image.mem.gpu : image \in images \cup {new}}
        BY <3>1 DEF SavedGpu
      <3>3. QED
        BY <3>1, <3>2 DEF SavedGpu
    <2>4. Gate!Checkpoint(p)
      BY <1>1, <2>1, <2>3 DEF Gate!Checkpoint, SavedGpu
    <2>5. QED
      BY <2>4
  <1>3. CASE CheckpointFails(p)
    BY <1>1, <1>3 DEF CheckpointFails, GvisorFails
  <1>4. QED
    BY <1>2, <1>3 DEF GvisorStep

(* So is every step of the cluster.                                        *)
LEMMA EnvironmentImplements ==
  ASSUME IInv, NEW p \in Pod, EnvironmentStep(p)
  PROVE  [Gate!GateNext]_Gate!gateVars
  <1> USE DEF Gate!GateNext, Gate!gateVars, wrapperVars
  <1>1. CASE ColdStart(p)
    <2>1. life' = [life EXCEPT ![p] = "starting"] /\ life[p] = "down"
      BY <1>1, LifeChanges, LifeIsStartUp DEF ColdStart
    <2>2. gpu' = [gpu EXCEPT ![p] = "none"]
      BY <1>1 DEF ColdStart, IInv, TypeOK, MemoryFollowsStartUp
    <2>3. Gate!Start(p)
      BY <1>1, <2>1, <2>2 DEF ColdStart, BootSandbox, Gate!Start
    <2>4. QED
      BY <2>3
  <1>2. CASE RestoreFrom(p)
    <2>1. life' = [life EXCEPT ![p] = "starting"] /\ life[p] = "down"
      BY <1>2, LifeChanges, LifeIsStartUp DEF RestoreFrom
    <2>2. \E g \in SavedGpu : gpu' = [gpu EXCEPT ![p] = g]
      BY <1>2 DEF RestoreFrom, SavedGpu
    <2>3. Gate!Start(p)
      BY <1>2, <2>1, <2>2 DEF RestoreFrom, ContinueFrom, Gate!Start, SavedGpu
    <2>4. QED
      BY <2>3
  <1>3. CASE Kill(p)
    <2>1. life' = [life EXCEPT ![p] = "down"] /\ life[p] # "down"
      BY <1>3, LifeChanges, LifeIsStartUp DEF Kill, EndProcess
    <2>2. Gate!Stop(p)
      BY <1>3, <2>1 DEF Kill, EndProcess, DropProcess, Gate!Stop
    <2>3. QED
      BY <2>2
  <1>4. CASE ControlFileChanges(p)
    BY <1>4 DEF ControlFileChanges, ControlChanges, life
  <1>5. QED
    BY <1>1, <1>2, <1>3, <1>4 DEF EnvironmentStep

(* The router may believe ReadyGate: a pod becomes ready with its memory   *)
(* resident, stays so until its process ends, and is never checkpointed in *)
(* between.                                                                *)
THEOREM ImplementsReadyGate == Spec => KeepsReadyGate
  <1>1. Init => Gate!GateInit
    BY DEF Init, ProviderInit, Gate!GateInit, life
  <1>2. IInv /\ [Next]_vars => [Gate!GateNext]_Gate!gateVars
    <2> SUFFICES ASSUME IInv, [Next]_vars
                 PROVE  [Gate!GateNext]_Gate!gateVars
      OBVIOUS
    <2>1. CASE UNCHANGED vars
      BY <2>1 DEF vars, providerVars, wrapperVars, Gate!gateVars, life
    <2>2. QED
      BY <2>1, ServerImplements, GvisorImplements, EnvironmentImplements DEF Next
  <1>3. QED
    BY <1>1, <1>2, Invariant, PTL DEF Spec, KeepsReadyGate, Gate!GateSpec
===============================================================================
