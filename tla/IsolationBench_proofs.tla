------------------------- MODULE IsolationBench_proofs -------------------------
(***************************************************************************)
(* What an invocation of the benchmark judges, for any levels and any      *)
(* number of retries and invocations: whichever treatments its runs lose,  *)
(* and whatever the workspace and RESULTS_DIR still hold.                  *)
(***************************************************************************)
EXTENDS IsolationBench, TLAPS

Together(f)   == \A level \in ToSet(Levels) : OneRun(f, level)
OwnRecords(f) == \A t \in DOMAIN f : f[t].inv = inv
OfOnePart(f)  == \E part \in ToSet(Parts) : DOMAIN f \subseteq Members(part)

(* A directory is written by one run, for one part.                        *)
NewestOfOneRun ==
  /\ OfOnePart(newest)
  /\ \A t, u \in DOMAIN newest : newest[t].run = newest[u].run

(* Each part is run once at most before what came back is merged.          *)
BackPartByPart ==
  /\ Together(back)
  /\ \A part \in todo : Members(part) \cap DOMAIN back = {}
  /\ pc = "plan" => back = Nothing /\ todo = {}

(* An invocation that runs the benchmark holds its own records, or, if     *)
(* nothing came back, what the newest directory holds of one part.         *)
OwnOrOnePart ==
  /\ pc \in {"part", "plan"} => mode = "run" /\ OwnRecords(back) /\ OwnRecords(results)
  /\ pc \in {"collect", "judge"} /\ mode = "run" =>
       samplesOf = inv /\ (OwnRecords(results) \/ OfOnePart(results))
  /\ pc # "idle" => verdict = "none" /\ inv # 0

(* The inductive invariant.                                                *)
IInv ==
  /\ TypeOK
  /\ NewestOfOneRun
  /\ BackPartByPart
  /\ OwnOrOnePart
  /\ LevelsTogether
  /\ PassesOnItsOwn

-------------------------------------------------------------------------------
(* The parts are async-only and the levels.                                *)
LEMMA PartsAre ==
  /\ ToSet(Parts) = {"async_only"} \cup ToSet(Levels)
  /\ "async_only" \notin ToSet(Levels)
  <1>1. Levels \in Seq(STRING \ {"async_only"})
    BY IsolationBenchAssumption
  <1>2. "async_only" \notin ToSet(Levels)
    BY <1>1 DEF ToSet
  <1>3. /\ DOMAIN Parts = 1 .. (Len(Levels) + 1) /\ DOMAIN Levels = 1 .. Len(Levels)
        /\ Len(Levels) \in Nat
        /\ Parts[1] = "async_only"
        /\ \A i \in 1 .. Len(Levels) : Parts[i + 1] = Levels[i]
    BY <1>1 DEF Parts
  <1>4. ASSUME NEW i \in DOMAIN Parts
        PROVE  Parts[i] \in {"async_only"} \cup ToSet(Levels)
    <2>1. CASE i = 1
      BY <1>3, <2>1
    <2>2. CASE i # 1
      <3>1. i - 1 \in 1 .. Len(Levels) /\ (i - 1) + 1 = i
        BY <1>3, <2>2
      <3>2. QED
        BY <1>3, <3>1 DEF ToSet
    <2>3. QED
      BY <2>1, <2>2
  <1>5. ASSUME NEW i \in DOMAIN Levels
        PROVE  Levels[i] \in ToSet(Parts)
    <2>1. i + 1 \in DOMAIN Parts /\ Parts[i + 1] = Levels[i]
      BY <1>3
    <2>2. QED
      BY <2>1 DEF ToSet
  <1>6. "async_only" \in ToSet(Parts)
    BY <1>3 DEF ToSet
  <1>7. QED
    BY <1>2, <1>4, <1>5, <1>6 DEF ToSet

(* A treatment belongs to one part.                                        *)
LEMMA MembersApart ==
  ASSUME NEW p, NEW q, NEW t, t \in Members(p), t \in Members(q)
  PROVE  p = q
  BY DEF Members

LEMMA MembersThere ==
  ASSUME NEW part
  PROVE  <<part, "async">> \in Members(part)
  BY DEF Members

(* What overrides what.                                                    *)
LEMMA OverIs ==
  ASSUME NEW f, NEW g
  PROVE  /\ DOMAIN Over(f, g) = DOMAIN f \cup DOMAIN g
         /\ \A t \in DOMAIN f : Over(f, g)[t] = f[t]
         /\ \A t \in DOMAIN g \ DOMAIN f : Over(f, g)[t] = g[t]
  BY DEF Over

LEMMA RestrictIs ==
  ASSUME NEW f, NEW S
  PROVE  DOMAIN Restrict(f, S) = S /\ \A x \in S : Restrict(f, S)[x] = f[x]
  BY DEF Restrict

LEMMA NothingIs == DOMAIN Nothing = {}
  BY DEF Nothing

(* merge_rerun(): of a part that is run again and came back, all is new;   *)
(* of any other, all is as it was.                                         *)
LEMMA MergeIs ==
  ASSUME NEW old, NEW new, NEW plan
  PROVE  /\ DOMAIN old \subseteq DOMAIN Merge(old, new, plan)
         /\ \A part \in plan : \A t \in Members(part) :
              Has(new, part) => /\ t \in DOMAIN Merge(old, new, plan)
                                /\ t \in DOMAIN new
                                /\ Merge(old, new, plan)[t] = new[t]
         /\ \A part : \A t \in Members(part) :
              ~(part \in plan /\ Has(new, part)) /\ t \in DOMAIN Merge(old, new, plan) =>
                t \in DOMAIN old /\ Merge(old, new, plan)[t] = old[t]
         /\ \A t \in DOMAIN Merge(old, new, plan) :
              \/ t \in DOMAIN new /\ Merge(old, new, plan)[t] = new[t]
              \/ t \in DOMAIN old /\ Merge(old, new, plan)[t] = old[t]
  <1> DEFINE Back == UNION {Members(part) : part \in {p \in plan : Has(new, p)}}
             R == Restrict(new, Back)
             M == Merge(old, new, plan)
  <1>1. M = Over(R, old)
    BY DEF Merge
  <1>2. DOMAIN R = Back /\ \A t \in Back : R[t] = new[t]
    BY RestrictIs
  <1>3. Back \subseteq DOMAIN new
    BY DEF Has
  <1>4. \A part : \A t \in Members(part) : t \in Back <=> part \in plan /\ Has(new, part)
    BY MembersApart
  <1> HIDE DEF Back, R, M
  <1>5. /\ DOMAIN Over(R, old) = DOMAIN R \cup DOMAIN old
        /\ \A t \in DOMAIN R : Over(R, old)[t] = R[t]
        /\ \A t \in DOMAIN old \ DOMAIN R : Over(R, old)[t] = old[t]
    BY OverIs
  <1>6. /\ DOMAIN M = Back \cup DOMAIN old
        /\ \A t \in Back : M[t] = new[t]
        /\ \A t \in DOMAIN old \ Back : M[t] = old[t]
    BY <1>1, <1>2, <1>5
  <1>7. DOMAIN old \subseteq DOMAIN M
    BY <1>6
  <1>8. \A part \in plan : \A t \in Members(part) :
          Has(new, part) => t \in DOMAIN M /\ t \in DOMAIN new /\ M[t] = new[t]
    BY <1>3, <1>4, <1>6
  <1>9. \A part : \A t \in Members(part) :
          ~(part \in plan /\ Has(new, part)) /\ t \in DOMAIN M =>
            t \in DOMAIN old /\ M[t] = old[t]
    BY <1>4, <1>6
  <1>10. \A t \in DOMAIN M : \/ t \in DOMAIN new /\ M[t] = new[t]
                             \/ t \in DOMAIN old /\ M[t] = old[t]
    BY <1>3, <1>6
  <1>11. QED
    BY <1>7, <1>8, <1>9, <1>10 DEF M

-------------------------------------------------------------------------------
(* Types: what is put together of treatments are treatments.               *)
LEMMA FoundNothing == IsFound(Nothing)
  BY NothingIs DEF IsFound

LEMMA FoundOver ==
  ASSUME NEW f, NEW g, IsFound(f), IsFound(g)
  PROVE  IsFound(Over(f, g))
  BY DEF IsFound, Over

LEMMA FoundOf ==
  ASSUME NEW f, NEW S \in SUBSET DOMAIN f, IsFound(f)
  PROVE  IsFound(Restrict(f, S))
  <1>1. DOMAIN Restrict(f, S) = S /\ \A x \in S : Restrict(f, S)[x] = f[x]
    BY RestrictIs
  <1>2. QED
    BY <1>1 DEF IsFound

LEMMA FoundMerge ==
  ASSUME NEW f, NEW g, NEW plan, IsFound(f), IsFound(g)
  PROVE  IsFound(Merge(f, g, plan))
  <1>1. \A t \in DOMAIN Merge(f, g, plan) :
          \/ t \in DOMAIN g /\ Merge(f, g, plan)[t] = g[t]
          \/ t \in DOMAIN f /\ Merge(f, g, plan)[t] = f[t]
    BY MergeIs
  <1>2. QED
    BY <1>1 DEF IsFound

(* What a run writes.                                                      *)
LEMMA WrittenIs ==
  ASSUME TypeOK, inv # 0, NEW part \in ToSet(Parts), NEW written \in Written(part)
  PROVE  /\ IsFound(written)
         /\ DOMAIN written \subseteq Members(part)
         /\ \A t \in DOMAIN written : written[t].run = runs + 1 /\ written[t].inv = inv
  <1>1. PICK ts \in SUBSET Members(part), e \in BOOLEAN :
          written = [t \in ts |-> [run |-> runs + 1, inv |-> inv, enough |-> e]]
    BY DEF Written
  <1>2. [run |-> runs + 1, inv |-> inv, enough |-> e] \in Records
    <2>1. runs + 1 \in Nat \ {0} /\ inv \in 1 .. MaxInvocations
      BY IsolationBenchAssumption DEF TypeOK
    <2>2. QED
      BY <2>1 DEF Records
  <1>3. Members(part) \subseteq Treatments
    BY DEF Treatments
  <1>4. /\ DOMAIN written = ts
        /\ \A t \in ts : written[t] = [run |-> runs + 1, inv |-> inv, enough |-> e]
    BY <1>1
  <1>5. QED
    BY <1>2, <1>3, <1>4 DEF IsFound

-------------------------------------------------------------------------------
LEMMA InitHolds == Init => IInv
  <1> SUFFICES ASSUME Init PROVE IInv
    OBVIOUS
  <1>1. TypeOK
    BY FoundNothing, IsolationBenchAssumption DEF Init, TypeOK
  <1>2. NewestOfOneRun
    BY NothingIs, PartsAre DEF Init, NewestOfOneRun, OfOnePart
  <1>3. BackPartByPart /\ LevelsTogether
    BY NothingIs DEF Init, BackPartByPart, LevelsTogether, Together, OneRun
  <1>4. OwnOrOnePart /\ PassesOnItsOwn
    BY DEF Init, OwnOrOnePart, PassesOnItsOwn
  <1>5. QED
    BY <1>1, <1>2, <1>3, <1>4 DEF IInv

LEMMA TypeStep == IInv /\ [Next]_vars => TypeOK'
  <1> SUFFICES ASSUME IInv, [Next]_vars PROVE TypeOK'
    OBVIOUS
  <1> USE IsolationBenchAssumption
  <1>0. TypeOK
    BY DEF IInv
  <1>1. CASE StartRun
    BY <1>0, <1>1, FoundNothing DEF TypeOK, StartRun
  <1>2. CASE RunPart
    <2>1. PICK part \in todo : \E written \in Written(part) :
            /\ newest' = IF written = Nothing THEN newest ELSE written
            /\ back' = Over(written, back)
      BY <1>2 DEF RunPart, IsFirst, Collected
    <2>2. inv # 0
      BY <1>2 DEF IInv, OwnOrOnePart, RunPart
    <2>3. \A written \in Written(part) : IsFound(written)
      BY <1>0, <2>2, WrittenIs DEF TypeOK
    <2>4. IsFound(newest') /\ IsFound(back')
      BY <1>0, <2>1, <2>3, FoundOver DEF TypeOK
    <2>5. QED
      BY <1>0, <1>2, <2>4 DEF TypeOK, RunPart
  <1>3. CASE GroupsDone
    <2>1. IsFound(Merge(results, back, RerunPlan(results)))
      BY <1>0, FoundMerge DEF TypeOK
    <2>2. IsFound(results') /\ IsFound(kept') /\ IsFound(back')
      BY <1>0, <1>3, <2>1, FoundNothing DEF TypeOK, GroupsDone
    <2>3. QED
      BY <1>0, <1>3, <2>2 DEF TypeOK, GroupsDone
  <1>4. CASE Retry
    BY <1>0, <1>4 DEF TypeOK, Retry, RerunPlan
  <1>5. CASE NoRetry
    BY <1>0, <1>5, FoundNothing DEF TypeOK, NoRetry
  <1>6. CASE StartAnalyze
    BY <1>0, <1>6, FoundNothing DEF TypeOK, StartAnalyze
  <1>7. CASE Collect
    BY <1>0, <1>7 DEF TypeOK, Collect
  <1>8. CASE Judge
    <2>1. IsFound(saved')
      BY <1>0, <1>8, FoundOver DEF TypeOK, Judge, Save
    <2>2. QED
      BY <1>0, <1>8, <2>1 DEF TypeOK, Judge
  <1>9. CASE WriteFails
    <2>1. \A copied \in SUBSET DOMAIN results : IsFound(Restrict(results, copied))
      BY <1>0, FoundOf DEF TypeOK
    <2>2. \A t : IsFound(Restrict(saved, DOMAIN saved \ {t}))
      BY <1>0, FoundOf DEF TypeOK
    <2>3. IsFound(saved')
      BY <1>0, <1>9, <2>1, <2>2, FoundOver DEF TypeOK, WriteFails, Save
    <2>4. QED
      BY <1>0, <1>9, <2>3 DEF TypeOK, WriteFails
  <1>10. CASE Breaks
    <2>1. IsFound(saved')
      BY <1>0, <1>10, FoundOver DEF TypeOK, Breaks, Save
    <2>2. QED
      BY <1>0, <1>10, <2>1 DEF TypeOK, Breaks
  <1>11. CASE UNCHANGED vars
    BY <1>0, <1>11 DEF TypeOK, vars
  <1>12. QED
    BY <1>1, <1>2, <1>3, <1>4, <1>5, <1>6, <1>7, <1>8, <1>9, <1>10, <1>11 DEF Next

-------------------------------------------------------------------------------
(* RunPart, seen from what it leaves behind.                               *)
LEMMA RunPartIs ==
  ASSUME IInv, RunPart
  PROVE  \E part, written :
           /\ part \in todo
           /\ DOMAIN written \subseteq Members(part)
           /\ \A t \in DOMAIN written :
                written[t].run = runs + 1 /\ written[t].inv = inv
           /\ newest' = written \/ newest' = newest
           /\ back' = Over(written, back)
           /\ todo' = todo \ {part}
  <1>1. TypeOK /\ inv # 0 /\ todo \subseteq ToSet(Parts)
    BY DEF IInv, OwnOrOnePart, RunPart, TypeOK
  <1>2. PICK part \in todo : \E written \in Written(part) :
          /\ newest' = IF written = Nothing THEN newest ELSE written
          /\ back' = Over(written, back)
          /\ todo' = todo \ {part}
    BY DEF RunPart, IsFirst, Collected
  <1>3. PICK written \in Written(part) :
          /\ newest' = IF written = Nothing THEN newest ELSE written
          /\ back' = Over(written, back)
          /\ todo' = todo \ {part}
    BY <1>2
  <1>4. /\ DOMAIN written \subseteq Members(part)
        /\ \A t \in DOMAIN written : written[t].run = runs + 1 /\ written[t].inv = inv
    BY <1>1, WrittenIs
  <1>5. QED
    BY <1>3, <1>4

(* The newest directory stays or is replaced as a whole.                   *)
LEMMA NewestStep == IInv /\ [Next]_vars => NewestOfOneRun'
  <1> SUFFICES ASSUME IInv, [Next]_vars PROVE NewestOfOneRun'
    OBVIOUS
  <1>1. NewestOfOneRun /\ todo \subseteq ToSet(Parts)
    BY DEF IInv, TypeOK
  <1>2. CASE RunPart
    <2>1. PICK part, written :
            /\ part \in todo
            /\ DOMAIN written \subseteq Members(part)
            /\ \A t \in DOMAIN written : written[t].run = runs + 1
            /\ newest' = written \/ newest' = newest
      BY <1>2, RunPartIs
    <2>2. QED
      BY <1>1, <2>1 DEF NewestOfOneRun, OfOnePart
  <1>3. CASE newest' = newest
    BY <1>1, <1>3 DEF NewestOfOneRun, OfOnePart
  <1>4. RunPart \/ newest' = newest
    BY DEF Next, vars, StartRun, GroupsDone, Retry, NoRetry, StartAnalyze, Collect, Judge,
           WriteFails, Breaks
  <1>5. QED
    BY <1>2, <1>3, <1>4

(* What comes back of a part comes back of one run.                        *)
LEMMA BackStep == IInv /\ [Next]_vars => BackPartByPart'
  <1> SUFFICES ASSUME IInv, [Next]_vars PROVE BackPartByPart'
    OBVIOUS
  <1>1. BackPartByPart
    BY DEF IInv
  <1>2. CASE RunPart
    <2>1. PICK part, written :
            /\ part \in todo
            /\ DOMAIN written \subseteq Members(part)
            /\ \A t \in DOMAIN written : written[t].run = runs + 1
            /\ back' = Over(written, back)
            /\ todo' = todo \ {part}
      BY <1>2, RunPartIs
    <2>2. /\ DOMAIN back' = DOMAIN written \cup DOMAIN back
          /\ \A t \in DOMAIN written : back'[t] = written[t]
          /\ \A t \in DOMAIN back \ DOMAIN written : back'[t] = back[t]
      BY <2>1 DEF Over
    <2>3. Members(part) \cap DOMAIN back = {}
      BY <1>1, <2>1 DEF BackPartByPart
    <2>4. ASSUME NEW level \in ToSet(Levels),
                 NEW t \in Members(level) \cap DOMAIN back',
                 NEW u \in Members(level) \cap DOMAIN back'
          PROVE  back'[t].run = back'[u].run
      <3>1. CASE level = part
        BY <2>1, <2>2, <2>3, <3>1
      <3>2. CASE level # part
        <4>1. t \notin DOMAIN written /\ u \notin DOMAIN written
          BY <2>1, <2>4, <3>2, MembersApart
        <4>2. QED
          BY <1>1, <2>2, <4>1 DEF BackPartByPart, Together, OneRun
      <3>3. QED
        BY <3>1, <3>2
    <2>5. \A q \in todo' : Members(q) \cap DOMAIN back' = {}
      <3>1. \A q \in todo' : q \in todo /\ q # part
        BY <2>1
      <3>2. \A q \in todo' : Members(q) \cap DOMAIN written = {}
        BY <2>1, <3>1, MembersApart
      <3>3. QED
        BY <1>1, <2>2, <3>1, <3>2 DEF BackPartByPart
    <2>6. pc' # "plan"
      BY <1>2 DEF RunPart
    <2>7. QED
      BY <2>4, <2>5, <2>6 DEF BackPartByPart, Together, OneRun
  <1>3. CASE StartRun \/ StartAnalyze \/ GroupsDone
    BY <1>3, NothingIs
       DEF StartRun, StartAnalyze, GroupsDone, BackPartByPart, Together, OneRun
  <1>4. CASE Retry
    <2>1. back' = Nothing /\ pc' = "part"
      BY <1>1, <1>4 DEF Retry, BackPartByPart
    <2>2. QED
      BY <2>1, NothingIs DEF BackPartByPart, Together, OneRun
  <1>5. CASE back' = back /\ todo' = todo /\ (pc' # "plan" \/ pc' = pc)
    BY <1>1, <1>5 DEF BackPartByPart, Together, OneRun
  <1>6. \/ RunPart \/ StartRun \/ StartAnalyze \/ GroupsDone \/ Retry
        \/ back' = back /\ todo' = todo /\ (pc' # "plan" \/ pc' = pc)
    BY DEF Next, vars, NoRetry, Collect, Judge, WriteFails, Breaks
  <1>7. QED
    BY <1>2, <1>3, <1>4, <1>5, <1>6

(* Merging keeps every level of one run.                                   *)
LEMMA MergeTogether ==
  ASSUME NEW old, NEW new, NEW plan, Together(old), Together(new)
  PROVE  Together(Merge(old, new, plan))
  <1> DEFINE M == Merge(old, new, plan)
  <1>1. /\ \A part \in plan : \A t \in Members(part) :
             Has(new, part) => t \in DOMAIN M /\ t \in DOMAIN new /\ M[t] = new[t]
        /\ \A part : \A t \in Members(part) :
             ~(part \in plan /\ Has(new, part)) /\ t \in DOMAIN M =>
               t \in DOMAIN old /\ M[t] = old[t]
    BY MergeIs
  <1> HIDE DEF M
  <1>2. ASSUME NEW level \in ToSet(Levels),
               NEW t \in Members(level) \cap DOMAIN M, NEW u \in Members(level) \cap DOMAIN M
        PROVE  M[t].run = M[u].run
    <2>1. CASE level \in plan /\ Has(new, level)
      <3>1. /\ t \in DOMAIN new /\ M[t] = new[t]
            /\ u \in DOMAIN new /\ M[u] = new[u]
        BY <1>1, <2>1
      <3>2. QED
        BY <3>1 DEF Together, OneRun
    <2>2. CASE ~(level \in plan /\ Has(new, level))
      <3>1. /\ t \in DOMAIN old /\ M[t] = old[t]
            /\ u \in DOMAIN old /\ M[u] = old[u]
        BY <1>1, <2>2
      <3>2. QED
        BY <3>1 DEF Together, OneRun
    <2>3. QED
      BY <2>1, <2>2
  <1>3. QED
    BY <1>2 DEF Together, OneRun, M

LEMMA LevelsStep == IInv /\ [Next]_vars => LevelsTogether'
  <1> SUFFICES ASSUME IInv, [Next]_vars, mode' = "run" PROVE Together(results')
    BY DEF LevelsTogether, Together, OneRun
  <1>1. CASE StartRun
    BY <1>1, NothingIs DEF StartRun, Together, OneRun
  <1>2. CASE GroupsDone
    <2>1. Together(back) /\ Together(results)
      BY <1>2 DEF IInv, BackPartByPart, LevelsTogether, GroupsDone, Together
    <2>2. Together(Merge(results, back, RerunPlan(results)))
      BY <2>1, MergeTogether
    <2>3. QED
      BY <1>2, <2>1, <2>2 DEF GroupsDone
  <1>3. CASE Collect
    <2>1. Together(results) /\ Together(newest)
      BY <1>3 DEF IInv, NewestOfOneRun, LevelsTogether, Collect, Together, OneRun
    <2>2. QED
      BY <1>3, <2>1 DEF Collect
  <1>4. CASE results' = results /\ mode' = mode
    BY <1>4 DEF IInv, LevelsTogether, Together
  <1>5. StartRun \/ GroupsDone \/ Collect \/ (results' = results /\ mode' = mode)
    BY DEF Next, vars, RunPart, Retry, NoRetry, StartAnalyze, Judge, WriteFails, Breaks
  <1>6. QED
    BY <1>1, <1>2, <1>3, <1>4, <1>5

(* The invocation's records, step by step.                                 *)
LEMMA OwnStep == IInv /\ [Next]_vars => OwnOrOnePart'
  <1> SUFFICES ASSUME IInv, [Next]_vars PROVE OwnOrOnePart'
    OBVIOUS
  <1>1. OwnOrOnePart
    BY DEF IInv
  <1>2. CASE StartRun
    <2>1. inv' # 0
      BY <1>2 DEF IInv, TypeOK, StartRun
    <2>2. QED
      BY <1>2, <2>1, NothingIs DEF StartRun, OwnOrOnePart, OwnRecords
  <1>3. CASE RunPart
    <2>1. PICK written :
            /\ \A t \in DOMAIN written : written[t].inv = inv
            /\ back' = Over(written, back)
      BY <1>3, RunPartIs
    <2>2. /\ DOMAIN back' = DOMAIN written \cup DOMAIN back
          /\ \A t \in DOMAIN written : back'[t] = written[t]
          /\ \A t \in DOMAIN back \ DOMAIN written : back'[t] = back[t]
      BY <2>1 DEF Over
    <2>3. OwnRecords(back)'
      BY <1>1, <1>3, <2>1, <2>2 DEF OwnOrOnePart, OwnRecords, RunPart
    <2>4. QED
      BY <1>1, <1>3, <2>3 DEF OwnOrOnePart, OwnRecords, RunPart
  <1>4. CASE GroupsDone
    <2> DEFINE M == Merge(results, back, RerunPlan(results))
    <2>1. \A t \in DOMAIN M : \/ t \in DOMAIN back /\ M[t] = back[t]
                              \/ t \in DOMAIN results /\ M[t] = results[t]
      BY MergeIs
    <2> HIDE DEF M
    <2>2. OwnRecords(back) /\ OwnRecords(results)
      BY <1>1, <1>4 DEF OwnOrOnePart, GroupsDone
    <2>3. OwnRecords(M)
      BY <2>1, <2>2 DEF OwnRecords
    <2>4. results' \in {back, M} /\ back' = Nothing /\ inv' = inv
      BY <1>4 DEF GroupsDone, M
    <2>5. OwnRecords(results)' /\ OwnRecords(back)'
      BY <2>2, <2>3, <2>4, NothingIs DEF OwnRecords
    <2>6. QED
      BY <1>1, <1>4, <2>5 DEF OwnOrOnePart, GroupsDone
  <1>5. CASE Retry
    BY <1>1, <1>5 DEF Retry, OwnOrOnePart, OwnRecords
  <1>6. CASE NoRetry
    BY <1>1, <1>6 DEF NoRetry, OwnOrOnePart, OwnRecords
  <1>7. CASE StartAnalyze
    <2>1. inv' # 0
      BY <1>7 DEF IInv, TypeOK, StartAnalyze
    <2>2. QED
      BY <1>7, <2>1 DEF StartAnalyze, OwnOrOnePart
  <1>8. CASE Collect
    <2>1. OfOnePart(newest)
      BY DEF IInv, NewestOfOneRun
    <2>2. results' \in {results, newest}
      BY <1>8 DEF Collect
    <2>3. QED
      BY <1>1, <1>8, <2>1, <2>2 DEF Collect, OwnOrOnePart, OwnRecords, OfOnePart
  <1>9. CASE Judge \/ WriteFails \/ Breaks
    BY <1>9 DEF Judge, WriteFails, Breaks, OwnOrOnePart
  <1>10. CASE UNCHANGED vars
    BY <1>1, <1>10 DEF vars, OwnOrOnePart, OwnRecords, OfOnePart
  <1>11. QED
    BY <1>2, <1>3, <1>4, <1>5, <1>6, <1>7, <1>8, <1>9, <1>10 DEF Next

(* A pass needs every part: what one part left behind is not enough, but   *)
(* for async-only alone, which must be the invocation's own.               *)
LEMMA PassesStep == IInv /\ [Next]_vars => PassesOnItsOwn'
  <1> SUFFICES ASSUME IInv, [Next]_vars, verdict' = "pass", mode' = "run"
               PROVE  \A t \in Treatments : results'[t].inv = inv'
    BY DEF PassesOnItsOwn
  <1>1. CASE Judge
    <2>1. /\ MayPass(results) /\ mode = "run" /\ results' = results /\ inv' = inv
      BY <1>1 DEF Judge
    <2>2. samplesOf = inv /\ (OwnRecords(results) \/ OfOnePart(results))
      BY <1>1, <2>1 DEF IInv, OwnOrOnePart, Judge
    <2>3. \A part \in ToSet(Parts) : Members(part) \subseteq DOMAIN results
      BY <2>1 DEF MayPass, Usable, Comparable, Has
    <2>4. Treatments \subseteq DOMAIN results
      BY <2>3 DEF Treatments
    <2>5. CASE OwnRecords(results)
      BY <2>1, <2>4, <2>5 DEF OwnRecords
    <2>6. CASE OfOnePart(results)
      <3>1. PICK q \in ToSet(Parts) : DOMAIN results \subseteq Members(q)
        BY <2>6 DEF OfOnePart
      <3>2. \A part \in ToSet(Parts) : part = q
        BY <2>3, <3>1, MembersApart, MembersThere
      <3>3. "async_only" \in ToSet(Parts)
        BY PartsAre
      <3>4. \A t \in Treatments : t = <<"async_only", "async">>
        BY <3>2, <3>3 DEF Treatments, Members
      <3>5. results[<<"async_only", "async">>].inv = inv
        BY <2>1, <2>2 DEF MayPass
      <3>6. QED
        BY <2>1, <3>4, <3>5
    <2>7. QED
      BY <2>2, <2>5, <2>6
  <1>2. CASE verdict' = verdict /\ results' = results /\ mode' = mode /\ inv' = inv
    BY <1>2 DEF IInv, PassesOnItsOwn
  <1>3. CASE pc # "idle" /\ verdict' = verdict
    BY <1>3 DEF IInv, OwnOrOnePart
  <1>4. Judge \/ (verdict' = verdict /\ results' = results /\ mode' = mode /\ inv' = inv)
          \/ (pc # "idle" /\ verdict' = verdict)
    BY DEF Next, vars, StartRun, RunPart, GroupsDone, Retry, NoRetry, StartAnalyze, Collect,
           WriteFails, Breaks
  <1>5. QED
    BY <1>1, <1>2, <1>3, <1>4

-------------------------------------------------------------------------------
(* The inductive invariant holds of whatever invocations there are.        *)
THEOREM Invariant == Spec => []IInv
  <1>1. IInv /\ [Next]_vars => IInv'
    BY TypeStep, NewestStep, BackStep, OwnStep, LevelsStep, PassesStep DEF IInv
  <1>2. QED
    BY <1>1, InitHolds, PTL DEF Spec

(* main(): its results are treatments of the levels it was given, and it   *)
(* retries no more than cfg.retries times.                                 *)
THEOREM TypeCorrect == Spec => []TypeOK
  <1>1. IInv => TypeOK
    BY DEF IInv
  <1>2. QED
    BY <1>1, Invariant, PTL

(* merge_rerun() and comparison_valid(): however many treatments and       *)
(* retries fail, the members of a level that an invocation compares are of *)
(* the same run, hence ran at the same time, if the invocation ran the     *)
(* benchmark; of one with --analyze-only nothing of the kind holds.        *)
THEOREM MembersRanTogether == Spec => []LevelsTogether
  <1>1. IInv => LevelsTogether
    BY DEF IInv
  <1>2. QED
    BY <1>1, Invariant, PTL

(* collect_results(): whatever earlier invocations left in the workspace,  *)
(* an invocation that runs the benchmark passes on what it ran itself.     *)
THEOREM NoOldResultsPass == Spec => []PassesOnItsOwn
  <1>1. IInv => PassesOnItsOwn
    BY DEF IInv
  <1>2. QED
    BY <1>1, Invariant, PTL

(* merge_rerun(): a retry that fails, in part or as a whole, costs nothing *)
(* of what the runs before it found.                                       *)
THEOREM RetriesOnlyAdd == Spec => RetryLosesNothing
  <1>1. ASSUME [Next]_vars, attempt > 0, attempt' = attempt, attempt \in Nat
        PROVE  /\ DOMAIN results \subseteq DOMAIN results'
               /\ \A part \in ToSet(Parts) :
                    Usable(results, part) =>
                      \A t \in Members(part) : results'[t] = results[t]
    <2>1. CASE GroupsDone
      <3> DEFINE M == Merge(results, back, RerunPlan(results))
      <3>1. /\ DOMAIN results \subseteq DOMAIN M
            /\ \A part : \A t \in Members(part) :
                 ~(part \in RerunPlan(results) /\ Has(back, part)) /\ t \in DOMAIN M =>
                   t \in DOMAIN results /\ M[t] = results[t]
        BY MergeIs
      <3>2. results' = M
        BY <1>1, <2>1 DEF GroupsDone
      <3> HIDE DEF M
      <3>3. ASSUME NEW part \in ToSet(Parts), Usable(results, part), NEW t \in Members(part)
            PROVE  M[t] = results[t]
        <4>1. part \notin RerunPlan(results)
          BY <3>3 DEF RerunPlan
        <4>2. t \in DOMAIN results
          BY <3>3 DEF Usable, Comparable, Has
        <4>3. QED
          BY <3>1, <3>3, <4>1, <4>2
      <3>4. QED
        BY <3>1, <3>2, <3>3
    <2>2. CASE Collect
      <3>1. CASE results = Nothing
        <4>1. \A part \in ToSet(Parts) : ~Usable(results, part)
          BY <3>1, NothingIs, MembersThere DEF Usable, Comparable, Has
        <4>2. QED
          BY <3>1, <4>1, NothingIs
      <3>2. CASE results # Nothing
        BY <2>2, <3>2 DEF Collect
      <3>3. QED
        BY <3>1, <3>2
    <2>3. CASE results' = results
      BY <2>3
    <2>4. ~StartRun /\ ~StartAnalyze
      BY <1>1 DEF StartRun, StartAnalyze
    <2>5. GroupsDone \/ Collect \/ results' = results
      BY <1>1, <2>4 DEF Next, vars, RunPart, Retry, NoRetry, Judge, WriteFails, Breaks
    <2>6. QED
      BY <2>1, <2>2, <2>3, <2>5
  <1>2. IInv => attempt \in Nat
    BY IsolationBenchAssumption DEF IInv, TypeOK
  <1>3. QED
    BY <1>1, <1>2, Invariant, PTL DEF Spec, RetryLosesNothing
===============================================================================
