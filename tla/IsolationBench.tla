----------------------------- MODULE IsolationBench -----------------------------
(***************************************************************************)
(* .github/scripts/e2e/async-multitenant/run.py: invocations that share a  *)
(* workspace and a RESULTS_DIR.  An invocation runs the benchmark part by  *)
(* part, re-runs the levels whose comparison is unusable, merges what came *)
(* back and judges it; --analyze-only judges what an earlier one saved.    *)
(*                                                                         *)
(* A treatment's records are the run that wrote them, its invocation, and  *)
(* whether they hold MIN_SAMPLES requests in the window they are judged    *)
(* on.  Dry runs, which judge nothing, are left out.                       *)
(***************************************************************************)
EXTENDS Naturals, Sequences, SequencesExt, Functions

CONSTANTS Levels,          \* cfg.levels, in order
          Retries,         \* cfg.retries
          MaxInvocations   \* bound on the invocations considered

ASSUME IsolationBenchAssumption ==
  /\ Levels \in Seq(STRING \ {"async_only"})
  /\ \A i, j \in DOMAIN Levels : Levels[i] = Levels[j] => i = j
  /\ Retries \in Nat
  /\ MaxInvocations \in Nat

VARIABLES newest,     \* the workspace's newest results/ directory: treatment -> records
          saved,      \* RESULTS_DIR/results: treatment -> records
          savedOf,    \* the invocation whose samples.json is in RESULTS_DIR; 0 for none
          inv,        \* the invocation
          mode,       \* "run" or "analyze" (--analyze-only)
          pc,
          todo,       \* the parts run_groups() has still to run
          back,       \* the treatments run_groups() found so far
          attempt,    \* of retry_invalid_levels(); 0 before it
          results,    \* the treatments the invocation goes on with
          kept,       \* those main() has while retry_invalid_levels() is at work
          samplesOf,  \* the invocation its samples were taken in; 0 for none
          runs,       \* history: how many times llmdbenchmark has run
          verdict     \* the exit status of the last invocation that ended

vars == <<newest, saved, savedOf, inv, mode, pc, todo, back, attempt, results, kept,
          samplesOf, runs, verdict>>

Parts        == <<"async_only">> \o Levels
Members(part) == IF part = "async_only" THEN {<<part, "async">>}
                 ELSE {<<part, m>> : m \in {"baseline", "rt", "async"}}
Treatments   == UNION {Members(part) : part \in ToSet(Parts)}
Nothing      == [t \in {} |-> {}]

Records == [run : Nat \ {0}, inv : 1 .. MaxInvocations, enough : BOOLEAN]
IsFound(f) == DOMAIN f \subseteq Treatments /\ \A t \in DOMAIN f : f[t] \in Records

TypeOK ==
  /\ \A f \in {newest, saved, back, results, kept} : IsFound(f)
  /\ {savedOf, samplesOf} \subseteq 0 .. inv
  /\ inv \in 0 .. MaxInvocations
  /\ mode \in {"run", "analyze"}
  /\ pc \in {"idle", "part", "plan", "collect", "judge"}
  /\ todo \subseteq ToSet(Parts)
  /\ attempt \in 0 .. Retries
  /\ runs \in Nat
  /\ verdict \in {"none", "pass", "fail"}

Init ==
  /\ newest = Nothing /\ saved = Nothing /\ savedOf = 0
  /\ inv = 0 /\ mode = "run" /\ pc = "idle"
  /\ todo = {} /\ back = Nothing /\ attempt = 0
  /\ results = Nothing /\ kept = Nothing /\ samplesOf = 0
  /\ runs = 0
  /\ verdict = "none"

-------------------------------------------------------------------------------
Has(f, part) == Members(part) \subseteq DOMAIN f

(* comparison_valid(): two members of different runs never overlapped.     *)
Comparable(f, level) ==
  /\ Has(f, level)
  /\ \A t \in Members(level) : f[t].enough
  /\ f[<<level, "rt">>].run = f[<<level, "async">>].run

Usable(f, part) ==
  IF part = "async_only" THEN Has(f, part) /\ f[<<part, "async">>].enough
                         ELSE Comparable(f, part)

(* Every part is run again once one is unusable.                           *)
RerunPlan_All(f) ==
  IF \A part \in ToSet(Parts) : Usable(f, part) THEN {} ELSE ToSet(Parts)

(* rerun_plan().                                                           *)
RerunPlan(f) == {part \in ToSet(Parts) : ~Usable(f, part)}

(* The entries of new over those of old.                                   *)
Over(new, old) ==
  [t \in DOMAIN new \cup DOMAIN old |-> IF t \in DOMAIN new THEN new[t] ELSE old[t]]

(* Whatever came back replaces what there was.                             *)
Merge_Each(old, new, plan) == Over(new, old)

(* merge_rerun(): a level's treatments replace the old ones all or none.   *)
Merge(old, new, plan) ==
  Over(Restrict(new, UNION {Members(part) : part \in {p \in plan : Has(new, p)}}), old)

-------------------------------------------------------------------------------
(* An invocation that runs the benchmark: run_groups(), and again for each *)
(* retry.                                                                  *)

StartRun ==
  /\ pc = "idle" /\ inv < MaxInvocations
  /\ inv' = inv + 1
  /\ mode' = "run"
  /\ results' = Nothing /\ kept' = Nothing /\ samplesOf' = 0
  /\ todo' = ToSet(Parts) /\ back' = Nothing /\ attempt' = 0
  /\ verdict' = "none"
  /\ pc' = "part"
  /\ UNCHANGED <<newest, saved, savedOf, runs>>

(* Any treatment may fail to come back (treatment_stop_on_error: false).   *)
Written(part) ==
  {[t \in ts |-> [run |-> runs + 1, inv |-> inv, enough |-> e]] :
     ts \in SUBSET Members(part), e \in BOOLEAN}

(* The newest directory, be it of an earlier part or an earlier run.       *)
Collected_Newest(before, written) == IF written = Nothing THEN before ELSE written

(* collect_results(exclude): nothing when the run wrote no directory.      *)
Collected(before, written) == written

(* The parts are run in their order.                                       *)
IsFirst(i) == Parts[i] \in todo /\ \A j \in 1 .. (i - 1) : Parts[j] \notin todo

RunPart ==
  /\ pc = "part"
  /\ \E i \in DOMAIN Parts :
       /\ IsFirst(i)
       /\ \E written \in Written(Parts[i]) :
            /\ newest' = IF written = Nothing THEN newest ELSE written
            /\ back' = Over(Collected(newest, written), back)
       /\ todo' = todo \ {Parts[i]}
  /\ runs' = runs + 1
  /\ UNCHANGED <<saved, savedOf, inv, mode, pc, attempt, results, kept, samplesOf, verdict>>

GroupsDone ==
  /\ pc = "part" /\ todo = {}
  /\ results' = IF attempt = 0 THEN back ELSE Merge(results, back, RerunPlan(results))
  /\ kept' = IF attempt = 0 THEN back ELSE kept
  /\ back' = Nothing
  /\ pc' = "plan"
  /\ UNCHANGED <<newest, saved, savedOf, inv, mode, todo, attempt, samplesOf, runs, verdict>>

(* range(1, retries + 2).                                                  *)
Retry_OnceMore ==
  /\ pc = "plan"
  /\ attempt <= Retries /\ RerunPlan(results) # {}
  /\ attempt' = attempt + 1
  /\ todo' = RerunPlan(results)
  /\ pc' = "part"
  /\ UNCHANGED <<newest, saved, savedOf, inv, mode, back, results, kept, samplesOf, runs,
                 verdict>>

(* The levels that are run again are those whose comparison is unusable.   *)
Retry ==
  /\ pc = "plan"
  /\ attempt < Retries /\ RerunPlan(results) # {}
  /\ attempt' = attempt + 1
  /\ todo' = RerunPlan(results)
  /\ pc' = "part"
  /\ UNCHANGED <<newest, saved, savedOf, inv, mode, back, results, kept, samplesOf, runs,
                 verdict>>

(* The sampler is stopped and its samples are taken.                       *)
NoRetry ==
  /\ pc = "plan"
  /\ attempt = Retries \/ RerunPlan(results) = {}
  /\ samplesOf' = inv
  /\ kept' = Nothing
  /\ pc' = "collect"
  /\ UNCHANGED <<newest, saved, savedOf, inv, mode, todo, back, attempt, results, runs,
                 verdict>>

(* --analyze-only: saved_results() and samples.json.                       *)
StartAnalyze ==
  /\ pc = "idle" /\ inv < MaxInvocations
  /\ inv' = inv + 1
  /\ mode' = "analyze"
  /\ results' = saved /\ kept' = Nothing /\ samplesOf' = savedOf
  /\ todo' = {} /\ back' = Nothing /\ attempt' = 0
  /\ verdict' = "none"
  /\ pc' = "collect"
  /\ UNCHANGED <<newest, saved, savedOf, runs>>

(* "if not results": what the workspace holds, whoever wrote it.           *)
Collect ==
  /\ pc = "collect"
  /\ results' = IF results = Nothing THEN newest ELSE results
  /\ pc' = "judge"
  /\ UNCHANGED <<newest, saved, savedOf, inv, mode, todo, back, attempt, kept, samplesOf,
                 runs, verdict>>

-------------------------------------------------------------------------------
(* The end: analyze(), write_outputs() and the exit status.                *)

(* The checks that can be told from the records: every treatment is there, *)
(* every level's members overlapped and have samples, and the pool was     *)
(* sampled during async-only.  The latencies and rates are left open.      *)
MayPass(f) ==
  /\ \A part \in ToSet(Parts) : Usable(f, part)
  /\ f[<<"async_only", "async">>].inv = samplesOf

(* write_outputs() copies the treatments over those that are there.        *)
Save(f) == saved' = Over(f, saved)

Judge ==
  /\ pc = "judge"
  /\ verdict' \in IF MayPass(results) THEN {"pass", "fail"} ELSE {"fail"}
  /\ Save(results)
  /\ savedOf' = samplesOf
  /\ pc' = "idle"
  /\ UNCHANGED <<newest, inv, mode, todo, back, attempt, results, kept, samplesOf, runs>>

(* A copy fails, perhaps with the directory it replaces already deleted;   *)
(* by then the samples are written, and some treatments.                   *)
WriteFails ==
  /\ pc = "judge"
  /\ \E copied \in SUBSET DOMAIN results :
       \/ Save(Restrict(results, copied))
       \/ /\ mode = "run"
          /\ \E t \in DOMAIN results \ copied :
               saved' = Over(Restrict(results, copied), Restrict(saved, DOMAIN saved \ {t}))
  /\ savedOf' = samplesOf
  /\ verdict' = "fail"
  /\ pc' = "idle"
  /\ UNCHANGED <<newest, inv, mode, todo, back, attempt, results, kept, samplesOf, runs>>

(* An exception on the way, such as a kubectl call that times out: what    *)
(* main() has by then is written, and samples only once they were taken.   *)
Breaks ==
  /\ pc \in {"part", "plan", "collect", "judge"}
  /\ Save(IF pc \in {"part", "plan"} THEN kept ELSE results)
  /\ savedOf' = samplesOf
  /\ verdict' = "fail"
  /\ pc' = "idle"
  /\ UNCHANGED <<newest, inv, mode, todo, back, attempt, results, kept, samplesOf, runs>>

Next ==
  \/ StartRun
  \/ RunPart
  \/ GroupsDone
  \/ Retry
  \/ NoRetry
  \/ StartAnalyze
  \/ Collect
  \/ Judge
  \/ WriteFails
  \/ Breaks

Spec == Init /\ [][Next]_vars

-------------------------------------------------------------------------------
OneRun(f, level) ==
  \A t, u \in Members(level) \cap DOMAIN f : f[t].run = f[u].run

(* "A level's members always come from the same run", as long as an        *)
(* invocation judges what it ran itself: whichever treatments its first    *)
(* run and its retries lost.                                               *)
LevelsTogether ==
  mode = "run" => \A level \in ToSet(Levels) : OneRun(results, level)

(* An invocation that ran the benchmark never passes on the results of an  *)
(* earlier one that are still in its workspace.                            *)
PassesOnItsOwn ==
  verdict = "pass" /\ mode = "run" => \A t \in Treatments : results[t].inv = inv

(* A retry takes nothing back: a usable level stays, and so does whatever  *)
(* was found of the others until it is replaced as a whole.                *)
RetryLosesNothing ==
  [][ attempt > 0 /\ attempt' = attempt =>
        /\ DOMAIN results \subseteq DOMAIN results'
        /\ \A part \in ToSet(Parts) :
             Usable(results, part) =>
               \A t \in Members(part) : results'[t] = results[t] ]_vars

(* The same of whatever an invocation judges and passes, --analyze-only    *)
(* included.                                                               *)
PassedTogether ==
  verdict = "pass" => \A level \in ToSet(Levels) : OneRun(results, level)
===============================================================================
