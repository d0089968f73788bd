--------------------------- MODULE SnapshotProvider ---------------------------
(***************************************************************************)
(* GKESnapshotProvider (docker/scripts/snapshot/providers.py): the trigger *)
(* that purges the weight cache and asks gVisor, through the control file  *)
(* /proc/gvisor/checkpoint, to checkpoint the container.  The trigger is   *)
(* split at every system call, because the control file, the disk and      *)
(* gVisor change under it and because a checkpoint freezes the process in  *)
(* the middle of it: a restored pod continues inside the blocked read.     *)
(* The two engine wrappers extend this module and consume its outcome.     *)
(***************************************************************************)
EXTENDS Naturals, FiniteSets

CONSTANTS Pod,            \* the replicas of the model server
          CacheDirOptions \* is MODEL_CACHE_DIR set: the deployments considered

ASSUME CacheDirAssumption == CacheDirOptions \subseteq BOOLEAN

VARIABLES trig,         \* pod -> where its trigger() stands
          fd,           \* pod -> is the control file open
          cache,        \* pod -> the files under MODEL_CACHE_DIR
          ctl,          \* pod -> is the control file writable
          request,      \* pod -> gVisor's answer to the pod's checkpoint request
          images,       \* the checkpoints in storage
          cacheDirSet   \* is MODEL_CACHE_DIR configured (the same for every pod)

providerVars == <<trig, fd, cache, ctl, request, images, cacheDirSet>>

TrigSteps    == {"idle", "check", "clear", "open", "write", "read"}
TrigOutcomes == {"skipped", "ok", "error"}
CacheStates  == {"none", "full", "partial", "empty"}

ProviderTypeOK ==
  /\ trig \in [Pod -> TrigSteps \cup TrigOutcomes]
  /\ fd \in [Pod -> BOOLEAN]
  /\ cache \in [Pod -> CacheStates]
  /\ ctl \in [Pod -> BOOLEAN]
  /\ request \in [Pod -> {"none", "pending", "saved", "failed"}]
  /\ cacheDirSet \in BOOLEAN

ProviderInit ==
  /\ trig = [p \in Pod |-> "idle"]
  /\ fd = [p \in Pod |-> FALSE]
  /\ cache = [p \in Pod |-> "none"]
  /\ ctl = [p \in Pod |-> FALSE]
  /\ request = [p \in Pod |-> "none"]
  /\ images = {}
  /\ cacheDirSet \in CacheDirOptions

(* os.access(proc_path, W_OK)                                              *)
IsAvailable(p) == ctl[p]

(* The wrapper calls trigger(), and later consumes the way it ended.       *)
CallTrigger(p) ==
  /\ trig' = [trig EXCEPT ![p] = "check"]
  /\ UNCHANGED <<fd, cache, ctl, request, images, cacheDirSet>>

TriggerEnded(p) == trig[p] \in TrigOutcomes

-------------------------------------------------------------------------------
(* The steps of trigger().                                                 *)

(* Purging before the availability check would empty the cache of a pod    *)
(* that is not going to be checkpointed.                                   *)
TrigCheck_PurgeFirst(p) ==
  /\ trig[p] = "check"
  /\ cache' = [cache EXCEPT ![p] = IF cacheDirSet THEN "empty" ELSE @]
  /\ trig' = [trig EXCEPT ![p] = IF IsAvailable(p) THEN "open" ELSE "skipped"]
  /\ UNCHANGED <<fd, ctl, request, images, cacheDirSet>>

(* `if not self.is_available(): return` -- no exception, so the caller     *)
(* cannot tell this return from a checkpoint.                              *)
TrigCheck(p) ==
  /\ trig[p] = "check"
  /\ trig' = [trig EXCEPT ![p] = IF IsAvailable(p) THEN "clear" ELSE "skipped"]
  /\ UNCHANGED <<fd, cache, ctl, request, images, cacheDirSet>>

(* clear_cache(): entries are unlinked one at a time, and an OSError stops *)
(* it wherever it stands.                                                  *)
ClearSome(p) ==
  /\ trig[p] = "clear"
  /\ cacheDirSet
  /\ cache[p] = "full"
  /\ cache' = [cache EXCEPT ![p] = "partial"]
  /\ UNCHANGED <<trig, fd, ctl, request, images, cacheDirSet>>

(* A purge that gives up quietly on an OSError and lets the trigger go on. *)
ClearCache_IgnoreError(p) ==
  /\ trig[p] = "clear"
  /\ trig' = [trig EXCEPT ![p] = "open"]
  /\ \E c \in {cache[p], "empty"} : cache' = [cache EXCEPT ![p] = c]
  /\ UNCHANGED <<fd, ctl, request, images, cacheDirSet>>

ClearCache(p) ==
  /\ trig[p] = "clear"
  /\ trig' = [trig EXCEPT ![p] = "open"]
  /\ cache' = [cache EXCEPT ![p] = IF cacheDirSet THEN "empty" ELSE @]
  /\ UNCHANGED <<fd, ctl, request, images, cacheDirSet>>

ClearCacheFails(p) ==
  /\ trig[p] = "clear"
  /\ cacheDirSet
  /\ trig' = [trig EXCEPT ![p] = "error"]
  /\ UNCHANGED <<fd, cache, ctl, request, images, cacheDirSet>>

OpenControl(p) ==
  /\ trig[p] = "open"
  /\ IsAvailable(p)
  /\ trig' = [trig EXCEPT ![p] = "write"]
  /\ fd' = [fd EXCEPT ![p] = TRUE]
  /\ UNCHANGED <<cache, ctl, request, images, cacheDirSet>>

(* PermissionError or another OSError of os.open; the cache stays purged.  *)
OpenControlFails(p) ==
  /\ trig[p] = "open"
  /\ trig' = [trig EXCEPT ![p] = "error"]
  /\ UNCHANGED <<fd, cache, ctl, request, images, cacheDirSet>>

(* Under a policy of type manual the write does nothing.                   *)
WriteControl(p) ==
  /\ trig[p] = "write"
  /\ trig' = [trig EXCEPT ![p] = "read"]
  /\ \E r \in {"pending", "none"} : request' = [request EXCEPT ![p] = r]
  /\ UNCHANGED <<fd, cache, ctl, images, cacheDirSet>>

(* Every way out of the inner try passes `finally: os.close(fd)`, which    *)
(* ends the request.                                                       *)
CloseAs(p, outcome) ==
  /\ trig' = [trig EXCEPT ![p] = outcome]
  /\ request' = [request EXCEPT ![p] = "none"]
  /\ fd' = [fd EXCEPT ![p] = FALSE]

WriteControlFails(p) ==
  /\ trig[p] = "write"
  /\ CloseAs(p, "error")
  /\ UNCHANGED <<cache, ctl, images, cacheDirSet>>

(* os.read(fd, 1) blocks while the request is pending.  It returns b"" or  *)
(* b"r" once the checkpoint is written, in the checkpointed process and in *)
(* every process restored from it.                                         *)
ReadResumed(p) ==
  /\ trig[p] = "read"
  /\ request[p] = "saved"
  /\ CloseAs(p, "ok")
  /\ UNCHANGED <<cache, ctl, images, cacheDirSet>>

(* A read that expects an answer to a write that started nothing.          *)
ReadFails_NoEinval(p) ==
  /\ trig[p] = "read"
  /\ request[p] = "failed"
  /\ CloseAs(p, "error")
  /\ UNCHANGED <<cache, ctl, images, cacheDirSet>>

(* EINVAL when no checkpoint was ever initiated, another OSError or an     *)
(* unexpected status byte when it failed: a SnapshotError in every case.   *)
ReadFails(p) ==
  /\ trig[p] = "read"
  /\ request[p] \in {"none", "failed"}
  /\ CloseAs(p, "error")
  /\ UNCHANGED <<cache, ctl, images, cacheDirSet>>

TriggerStep(p) ==
  \/ TrigCheck(p)
  \/ ClearSome(p)
  \/ ClearCache(p)
  \/ ClearCacheFails(p)
  \/ OpenControl(p)
  \/ OpenControlFails(p)
  \/ WriteControl(p)
  \/ WriteControlFails(p)
  \/ ReadResumed(p)
  \/ ReadFails(p)

-------------------------------------------------------------------------------
(* gVisor and the node, outside this repository.                           *)

(* gVisor freezes the process at any point after the write, and stores     *)
(* mem, the wrapper's view of the process, with the state of the disk.     *)
GvisorSaves(p, mem) ==
  /\ request[p] = "pending"
  /\ request' = [request EXCEPT ![p] = "saved"]
  /\ images' = images \cup {[mem |-> mem, cache |-> cache[p]]}
  /\ UNCHANGED <<trig, fd, cache, ctl, cacheDirSet>>

GvisorFails(p) ==
  /\ request[p] = "pending"
  /\ request' = [request EXCEPT ![p] = "failed"]
  /\ UNCHANGED <<trig, fd, cache, ctl, images, cacheDirSet>>

(* The control file loses or gains its write permission while the server   *)
(* runs, before the trigger has it open: what trigger() re-checks for.     *)
ControlChanges(p) ==
  /\ trig[p] \in {"idle", "check", "clear", "open"}
  /\ ctl' = [ctl EXCEPT ![p] = ~@]
  /\ UNCHANGED <<trig, fd, cache, request, images, cacheDirSet>>

(* A new sandbox, which may or may not expose the control file.            *)
BootSandbox(p) ==
  /\ \E c \in BOOLEAN : ctl' = [ctl EXCEPT ![p] = c]
  /\ UNCHANGED <<trig, fd, cache, request, images, cacheDirSet>>

(* The sandbox is gone, its process and writable layer with it.            *)
DropProcess(p) ==
  /\ trig' = [trig EXCEPT ![p] = "idle"]
  /\ fd' = [fd EXCEPT ![p] = FALSE]
  /\ cache' = [cache EXCEPT ![p] = "none"]
  /\ request' = [request EXCEPT ![p] = "none"]
  /\ ctl' = [ctl EXCEPT ![p] = FALSE]
  /\ UNCHANGED <<images, cacheDirSet>>

(* A cold start has downloaded and loaded the weights.                     *)
LoadWeights(p) ==
  /\ cache' = [cache EXCEPT ![p] = "full"]
  /\ UNCHANGED <<trig, fd, ctl, request, images, cacheDirSet>>

(* A new process is the copy of the one in image, inside the blocked read. *)
ContinueFrom(p, image) ==
  /\ trig' = [trig EXCEPT ![p] = "read"]
  /\ fd' = [fd EXCEPT ![p] = TRUE]
  /\ cache' = [cache EXCEPT ![p] = image.cache]
  /\ request' = [request EXCEPT ![p] = "saved"]
  /\ UNCHANGED <<ctl, images, cacheDirSet>>
===============================================================================
