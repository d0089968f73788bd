--------------------------- MODULE NeedsRebase_proofs ---------------------------
(***************************************************************************)
(* What the jobs of pr-needs-rebase.yaml keep true of a pull request's     *)
(* labels, whatever people do to it, however often runs fail, and however  *)
(* long it goes on.                                                        *)
(***************************************************************************)
EXTENDS NeedsRebase, TLAPS

Marked   == "needs-rebase" \in labels
AskedFor == "re-approve" \in labels

(* GitHub's cached view of the conflict is current once it is known.       *)
ViewIsCurrent == pr.mergeable # "unknown" => (pr.mergeable = "no" <=> pr.conflict)

(* A run that is about to put the label has not commented on it, even if   *)
(* another run puts it first.                                              *)
WillPut(j) ==
  \/ pc[j] = "addNeedsRebase"
  \/ pc[j] = "dropReApprove" /\ "needs-rebase" \notin seen[j].labels

CommentsFollow ==
  \A j \in Checker :
    /\ comments[j] <= 1
    /\ pc[j] = "commentConflict" => comments[j] = 0
    /\ WillPut(j) /\ Marked => comments[j] = 0

(* What a check that nothing disturbed knows and has done at each call.    *)
OnCourse(j) ==
  /\ pc[j] \in {"dropNeedsRebase", "dropLgtm", "collect", "addReApprove", "ping"} =>
       ~pr.conflict
  /\ pc[j] \in {"dropLgtm", "collect", "addReApprove", "ping"} => ~Marked
  /\ pc[j] \in {"dropReApprove", "addNeedsRebase", "commentConflict"} => pr.conflict
  /\ pc[j] = "dropReApprove" => (Marked <=> "needs-rebase" \in seen[j].labels)
  /\ pc[j] = "addNeedsRebase" => ~AskedFor
  /\ pc[j] = "commentConflict" => Marked /\ ~AskedFor

RightLabels ==
  /\ Marked <=> pr.conflict
  /\ pr.conflict => ~AskedFor

Undisturbed ==
  ~disturbed =>
    /\ \A j \in Checker, k \in Checker : Running(j) /\ Running(k) => j = k
    /\ \A j \in Checker : OnCourse(j)
    /\ (\A j \in Checker : pc[j] = "idle") /\ ~pr.draft => RightLabels

(* As long as nothing happens while a run is in progress, the runs take    *)
(* turns, and the one that is there pays what is owed.                     *)
Pays ==
  /\ pc["single"] \in {"queued", "fetch", "dropNeedsRebase", "dropLgtm", "collect",
                       "addReApprove"}
  /\ action = "synchronize"
  /\ ~pr.conflict /\ ~AskedFor
  /\ approval.prior /\ ~approval.changes /\ approval.head # pr.head
  /\ pc["single"] \in {"queued", "fetch"} => Marked
  /\ pc["single"] \in {"dropNeedsRebase", "dropLgtm", "collect"} =>
       seen["single"].head = pr.head /\ "re-approve" \notin seen["single"].labels

Alone ==
  /\ approval.head <= pr.head
  /\ ~raced =>
       /\ ~pending
       /\ \A j, k \in Job : pc[j] # "idle" /\ pc[k] # "idle" => j = k
       /\ owed => Pays
       /\ reapproved # "no" => ByForksReview \/ pc["clear"] \in {"queued", "dropReApprove"}

(* Every job makes its own calls only.                                     *)
OwnCalls ==
  /\ pc["clear"] \in {"idle", "queued", "dropReApprove"}
  /\ pc["scan"] \in {"idle", "queued", "list", "fetch", "dropReApprove", "addNeedsRebase",
                     "commentConflict", "dropNeedsRebase"}
  /\ pc["single"] # "list"

(* The inductive invariant.                                                *)
IInv ==
  /\ TypeOK
  /\ OwnCalls
  /\ ViewIsCurrent
  /\ CommentsFollow
  /\ Undisturbed
  /\ Alone

-------------------------------------------------------------------------------
(* What a call does to the runs.                                           *)
LEMMA FinishIs ==
  ASSUME TypeOK, NEW j \in Job, Finish(j)
  PROVE  /\ pc'[j] \in {"idle", "queued"}
         /\ (pc'[j] = "queued" <=> j = "scan" /\ pending)
         /\ \A k \in Job \ {j} : pc'[k] = pc[k]
         /\ pc' \in [Job -> {"idle", "queued"} \cup CallName]
         /\ pending' \in BOOLEAN /\ (pending' => pending)
         /\ action' = action /\ cause' = cause
  BY DEF TypeOK, Finish, Ended

LEMMA CallIs ==
  ASSUME TypeOK, NEW j \in Job, NEW next \in CallName, Call(j, next)
  PROVE  /\ pc'[j] = next
         /\ \A k \in Job \ {j} : pc'[k] = pc[k]
         /\ pc' \in [Job -> {"idle", "queued"} \cup CallName]
         /\ pending' = pending /\ action' = action /\ cause' = cause
  BY DEF TypeOK, Call

LEMMA TriggerIs ==
  ASSUME TypeOK, NEW j \in Job, Trigger(j)
  PROVE  /\ pc'[j] = "queued"
         /\ \A k \in Job \ {j} : pc'[k] = pc[k]
         /\ pc' \in [Job -> {"idle", "queued"} \cup CallName]
  BY DEF TypeOK, Trigger

(* Activity that may concern the job "clear".                              *)
LEMMA ClearOnIs ==
  ASSUME TypeOK, NEW kind \in {"comment", "label", "review"}, NEW wanted \in BOOLEAN,
         ClearOn(kind, wanted)
  PROVE  /\ pc'["clear"] \in {"idle", "queued", pc["clear"]}
         /\ wanted /\ AskedFor => pc'["clear"] = "queued"
         /\ \A k \in Checker : pc'[k] = pc[k]
         /\ pc' \in [Job -> {"idle", "queued"} \cup CallName]
         /\ seen' = seen /\ action' = action /\ pending' = pending
         /\ cause' \in {"comment", "label", "review"}
  <1>1. pc \in [Job -> {"idle", "queued"} \cup CallName] /\ cause \in {"comment", "label", "review"}
    BY DEF TypeOK
  <1>2. CASE wanted /\ AskedFor
    BY <1>1, <1>2 DEF ClearOn, Trigger, AskedFor, Job, Checker
  <1>3. CASE ~(wanted /\ AskedFor)
    BY <1>1, <1>3 DEF ClearOn, AskedFor, Job, Checker
  <1>4. QED
    BY <1>2, <1>3

(* The first call follows from what was read.                              *)
LEMMA FetchIs ==
  ASSUME TypeOK, NEW j \in Checker, Fetch(j)
  PROVE  /\ pc[j] = "fetch" /\ pr.mergeable \in {"yes", "no"}
         /\ seen' = [seen EXCEPT ![j] = [mergeable |-> pr.mergeable, labels |-> labels,
                                         head |-> pr.head]]
         /\ seen'[j].labels = labels /\ seen'[j].head = pr.head
         /\ seen' \in [Checker -> Snapshot]
         /\ \A k \in Checker \ {j} : seen'[k] = seen[k]
         /\ \/ pr.mergeable = "yes" /\ Marked /\ Call(j, "dropNeedsRebase")
            \/ pr.mergeable = "no" /\ AskedFor /\ Call(j, "dropReApprove")
            \/ pr.mergeable = "no" /\ ~AskedFor /\ ~Marked /\ Call(j, "addNeedsRebase")
            \/ pr.mergeable = "yes" /\ ~Marked /\ Finish(j)
            \/ pr.mergeable = "no" /\ Marked /\ ~AskedFor /\ Finish(j)
  <1>1. pc[j] = "fetch" /\ pr.mergeable \in {"yes", "no"}
    BY DEF Fetch, TypeOK
  <1>2. seen' = [seen EXCEPT ![j] = [mergeable |-> pr.mergeable, labels |-> labels,
                                    head |-> pr.head]]
    BY DEF Fetch
  <1>3. [mergeable |-> pr.mergeable, labels |-> labels, head |-> pr.head] \in Snapshot
    BY <1>1 DEF TypeOK, Snapshot
  <1>4. /\ seen' \in [Checker -> Snapshot]
        /\ seen'[j] = [mergeable |-> pr.mergeable, labels |-> labels, head |-> pr.head]
        /\ \A k \in Checker \ {j} : seen'[k] = seen[k]
    BY <1>2, <1>3 DEF TypeOK
  <1>5. seen'[j].labels = labels /\ seen'[j].head = pr.head
    BY <1>4
  <1>6. /\ HasNeedsRebase(j) <=> Marked
        /\ HasReApprove(j) <=> AskedFor
    BY <1>5 DEF HasNeedsRebase, HasReApprove, Marked, AskedFor
  <1>7. \/ pr.mergeable = "yes" /\ Marked /\ FirstCall(j) = "dropNeedsRebase"
        \/ pr.mergeable = "no" /\ AskedFor /\ FirstCall(j) = "dropReApprove"
        \/ pr.mergeable = "no" /\ ~AskedFor /\ ~Marked /\ FirstCall(j) = "addNeedsRebase"
        \/ pr.mergeable = "yes" /\ ~Marked /\ FirstCall(j) = "done"
        \/ pr.mergeable = "no" /\ Marked /\ ~AskedFor /\ FirstCall(j) = "done"
    BY <1>1, <1>6 DEF FirstCall
  <1>8. IF FirstCall(j) = "done" THEN Finish(j) ELSE Call(j, FirstCall(j))
    BY DEF Fetch
  <1>9. QED
    BY <1>1, <1>2, <1>4, <1>5, <1>7, <1>8

-------------------------------------------------------------------------------
LEMMA InitHolds == Init => IInv
  <1> SUFFICES ASSUME Init PROVE IInv
    OBVIOUS
  <1>1. PICK f \in ForkOptions :
          pr = [head |-> 1, fork |-> f, draft |-> FALSE, conflict |-> FALSE,
                mergeable |-> "yes"]
    BY DEF Init
  <1>2. pc = [j \in Job |-> "idle"] /\ comments = [j \in Checker |-> 0]
    BY DEF Init
  <1>3. TypeOK
    <2>1. pr \in [head : Nat, fork : ForkOptions, draft : BOOLEAN, conflict : BOOLEAN,
                  mergeable : {"yes", "no", "unknown"}]
      BY <1>1
    <2>2. approval \in [prior : BOOLEAN, changes : BOOLEAN, head : Nat]
      <3>1. CASE approval = [prior |-> FALSE, changes |-> FALSE, head |-> 0]
        BY <3>1
      <3>2. CASE approval = [prior |-> TRUE, changes |-> FALSE, head |-> 1]
        BY <3>2
      <3>3. QED
        BY <3>1, <3>2 DEF Init
    <2>3. seen \in [Checker -> Snapshot]
      BY DEF Init, Snapshot, Unread
    <2>4. events \in 0 .. MaxEvents
      BY NeedsRebaseAssumption DEF Init
    <2>5. /\ pc \in [Job -> {"idle", "queued"} \cup CallName]
          /\ comments \in [Checker -> Nat]
      BY <1>2
    <2>6. owed \in BOOLEAN /\ reapproved \in {"no", "review", "command"} /\ disturbed \in BOOLEAN /\ raced \in BOOLEAN
      BY DEF Init
    <2>7. labels \in SUBSET Label /\ action \in {"synchronize", "other"}
          /\ cause \in {"comment", "label", "review"} /\ pending \in BOOLEAN
      BY DEF Init
    <2>8. QED
      BY <2>1, <2>2, <2>3, <2>4, <2>5, <2>6, <2>7 DEF TypeOK
  <1>4. OwnCalls
    BY <1>2 DEF OwnCalls, Job
  <1>5. ViewIsCurrent
    BY <1>1 DEF ViewIsCurrent
  <1>6. CommentsFollow
    BY <1>2 DEF CommentsFollow, WillPut, Checker, Job
  <1>7. Undisturbed
    BY <1>1, <1>2 DEF Init, Undisturbed, OnCourse, RightLabels, Running, Marked, Checker, Job
  <1>8. Alone
    BY <1>1, <1>2 DEF Init, Alone, Job
  <1>9. QED
    BY <1>3, <1>4, <1>5, <1>6, <1>7, <1>8 DEF IInv

LEMMA TypeStep == TypeOK /\ [Next]_vars => TypeOK'
  <1> SUFFICES ASSUME TypeOK, [Next]_vars PROVE TypeOK'
    OBVIOUS
  <1> USE NeedsRebaseAssumption
  <1>1. ASSUME NEW j \in Job, StartRun(j)
        PROVE  TypeOK'
    <2>1. disturbed' \in BOOLEAN
      BY <1>1 DEF StartRun, TypeOK
    <2>2. pc' \in [Job -> {"idle", "queued"} \cup CallName]
      BY <1>1 DEF StartRun, TypeOK, Job, CallName
    <2>3. /\ labels' = labels /\ pr' = pr /\ approval' = approval /\ seen' = seen
          /\ action' = action /\ cause' = cause /\ pending' = pending /\ comments' = comments
          /\ owed' = owed /\ reapproved' = reapproved /\ raced' = raced /\ events' = events
      BY <1>1 DEF StartRun, github
    <2>4. QED
      BY <2>1, <2>2, <2>3 DEF TypeOK
  <1>2. ASSUME NEW j \in Job, RunFails(j)
        PROVE  TypeOK'
    BY <1>2, FinishIs DEF RunFails, TypeOK, github
  <1>3. ASSUME NEW j \in Checker, CheckerStep(j)
        PROVE  TypeOK'
    <2>0. j \in Job
      BY DEF Checker, Job
    <2>1. CASE Fetch(j)
      <3>1. seen' \in [Checker -> Snapshot]
        BY <2>1, FetchIs
      <3>2. /\ pc' \in [Job -> {"idle", "queued"} \cup CallName]
            /\ pending' \in BOOLEAN /\ action' = action /\ cause' = cause
        BY <2>0, <2>1, FetchIs, FinishIs, CallIs DEF CallName, TypeOK
      <3>3. QED
        BY <2>1, <3>1, <3>2 DEF Fetch, TypeOK, github, history
    <2>2. CASE GiveUp(j)
      BY <2>0, <2>2, FinishIs DEF GiveUp, TypeOK, github
    <2>3. CASE DropReApprove(j)
      <3>1. /\ pc' \in [Job -> {"idle", "queued"} \cup CallName]
            /\ pending' \in BOOLEAN /\ action' = action /\ cause' = cause
        BY <2>0, <2>3, FinishIs, CallIs DEF DropReApprove, CallName, TypeOK
      <3>2. QED
        BY <2>3, <3>1 DEF DropReApprove, TypeOK
    <2>4. CASE AddNeedsRebase(j)
      <3>1. /\ pc' \in [Job -> {"idle", "queued"} \cup CallName]
            /\ pending' \in BOOLEAN /\ action' = action /\ cause' = cause
        BY <2>0, <2>4, CallIs DEF AddNeedsRebase, CallName, TypeOK
      <3>2. QED
        <4>1. /\ labels' \in SUBSET Label /\ comments' \in [Checker -> Nat]
              /\ owed' = FALSE
          BY <2>4 DEF AddNeedsRebase, TypeOK, Label
        <4>2. UNCHANGED <<pr, approval, seen, reapproved, disturbed, raced, events>>
          BY <2>4 DEF AddNeedsRebase
        <4>3. QED
          BY <3>1, <4>1, <4>2 DEF TypeOK
    <2>5. CASE CommentConflict(j)
      <3>1. comments' \in [Checker -> Nat]
        BY <2>5 DEF CommentConflict, TypeOK
      <3>2. QED
        BY <2>0, <2>5, <3>1, FinishIs DEF CommentConflict, TypeOK, github
    <2>6. CASE DropNeedsRebase(j)
      <3>1. Finish(j) \/ Call(j, "dropLgtm") \/ Call(j, "collect")
        BY <2>6 DEF DropNeedsRebase, Checker
      <3>2. /\ pc' \in [Job -> {"idle", "queued"} \cup CallName]
            /\ pending' \in BOOLEAN /\ action' = action /\ cause' = cause
        BY <2>0, <3>1, FinishIs, CallIs DEF CallName, TypeOK
      <3>3. QED
        BY <2>6, <3>2 DEF DropNeedsRebase, TypeOK, history
    <2>7. QED
      BY <1>3, <2>1, <2>2, <2>3, <2>4, <2>5, <2>6 DEF CheckerStep
  <1>4. CASE ListOpenPrs \/ DropLgtm \/ Collect \/ AddReApprove \/ Ping \/ ClearReApprove
    <2>1. /\ pc' \in [Job -> {"idle", "queued"} \cup CallName]
          /\ pending' \in BOOLEAN /\ action' = action /\ cause' = cause
      BY <1>4, FinishIs, CallIs
         DEF ListOpenPrs, DropLgtm, Collect, AddReApprove, Ping, ClearReApprove, CallName, Job,
             TypeOK
    <2>2. labels' \in SUBSET Label
      BY <1>4 DEF ListOpenPrs, DropLgtm, Collect, AddReApprove, Ping, ClearReApprove, TypeOK,
                  Label, github
    <2>3. reapproved' \in {"no", "review", "command"} /\ owed' \in BOOLEAN
      BY <1>4 DEF ListOpenPrs, DropLgtm, Collect, AddReApprove, Ping, ClearReApprove, TypeOK,
                  history
    <2>4. /\ pr' = pr /\ approval' = approval /\ seen' = seen /\ comments' = comments
          /\ disturbed' = disturbed /\ raced' = raced /\ events' = events
      BY <1>4 DEF ListOpenPrs, DropLgtm, Collect, AddReApprove, Ping, ClearReApprove, github,
                  history
    <2>5. QED
      BY <2>1, <2>2, <2>3, <2>4 DEF TypeOK
  <1>5. CASE People
    <2>1. Event
      BY <1>5 DEF People, PushMain, PushHead, ConvertToDraft, ReadyForReview, ApproveByReview,
                  RequestChanges, ApproveByCommand, OtherActivity
    <2>2. events' \in 0 .. MaxEvents
      BY <2>1 DEF Event, TypeOK
    <2>3. disturbed' \in BOOLEAN /\ raced' \in BOOLEAN
      BY <2>1 DEF Event, TypeOK
    <2>4. owed' \in BOOLEAN /\ reapproved' \in {"no", "review", "command"}
      <3>1. CASE PushMain
        BY <3>1, Zenon DEF PushMain, TypeOK
      <3>2. CASE PushHead
        BY <3>2, Zenon DEF PushHead, TypeOK
      <3>3. CASE ConvertToDraft \/ ReadyForReview \/ OtherActivity
        BY <3>3, Zenon DEF ConvertToDraft, ReadyForReview, OtherActivity, TypeOK
      <3>4. CASE Approves("review") \/ Approves("command")
        BY <3>4 DEF Approves
      <3>5. CASE RequestChanges
        BY <3>5 DEF RequestChanges
      <3>6. QED
        BY <1>5, <3>1, <3>2, <3>3, <3>4, <3>5 DEF People, ApproveByReview, ApproveByCommand
    <2>5. labels' \in SUBSET Label
      BY <1>5 DEF People, PushMain, PushHead, ConvertToDraft, ReadyForReview, ApproveByReview,
                  RequestChanges, ApproveByCommand, OtherActivity, TypeOK, github, Label
    <2>6. pr' \in [head : Nat, fork : ForkOptions, draft : BOOLEAN, conflict : BOOLEAN,
                   mergeable : {"yes", "no", "unknown"}]
      <3>0. \A c \in BOOLEAN :
              Invalidated(c) \in [head : Nat, fork : ForkOptions, draft : BOOLEAN,
                                 conflict : BOOLEAN, mergeable : {"yes", "no", "unknown"}]
        BY DEF Invalidated, TypeOK
      <3>1. CASE PushMain
        BY <3>0, <3>1 DEF PushMain
      <3>2. CASE PushHead
        <4>1. PICK c \in BOOLEAN : pr' = [Invalidated(c) EXCEPT !.head = @ + 1]
          BY <3>2 DEF PushHead
        <4>2. QED
          BY <3>0, <4>1
      <3>3. CASE ConvertToDraft \/ ReadyForReview
        BY <3>3 DEF ConvertToDraft, ReadyForReview, TypeOK
      <3>4. CASE pr' = pr
        BY <3>4 DEF TypeOK
      <3>5. QED
        BY <1>5, <3>1, <3>2, <3>3, <3>4
           DEF People, ApproveByReview, RequestChanges, ApproveByCommand, OtherActivity, github
    <2>7. approval' \in [prior : BOOLEAN, changes : BOOLEAN, head : Nat]
      <3>1. CASE ApproveByReview
        <4>1. pr.head \in Nat
          BY DEF TypeOK
        <4>2. QED
          BY <3>1, <4>1 DEF ApproveByReview
      <3>2. CASE RequestChanges \/ ApproveByCommand
        BY <3>2 DEF RequestChanges, ApproveByCommand, TypeOK
      <3>3. CASE approval' = approval
        BY <3>3 DEF TypeOK
      <3>4. QED
        BY <1>5, <3>1, <3>2, <3>3
           DEF People, PushMain, PushHead, ConvertToDraft, ReadyForReview, OtherActivity, github
    <2>8. seen' = seen /\ comments' = comments
      BY <1>5 DEF People, PushMain, PushHead, ConvertToDraft, ReadyForReview, ApproveByReview,
                  RequestChanges, ApproveByCommand, OtherActivity, github, runs, ClearOn
    <2>9. /\ pc' \in [Job -> {"idle", "queued"} \cup CallName]
          /\ action' \in {"synchronize", "other"} /\ cause' \in {"comment", "label", "review"}
          /\ pending' \in BOOLEAN
      <3>1. CASE PushMain
        BY <3>1, TriggerIs DEF PushMain, TypeOK, Job
      <3>2. CASE PushHead
        <4>1. CancelledBy("synchronize") \in {"idle", "queued"} \cup CallName
          BY DEF CancelledBy, TypeOK, Job
        <4>2. QED
          BY <3>2, <4>1, TriggerIs DEF PushHead, TypeOK, Job
      <3>3. CASE ConvertToDraft
        BY <3>3 DEF ConvertToDraft, TypeOK, runs
      <3>4. CASE ReadyForReview
        BY <3>4, TriggerIs DEF ReadyForReview, TypeOK, Job
      <3>5. CASE ApproveByReview
        BY <3>5, ClearOnIs DEF ApproveByReview, TypeOK
      <3>6. CASE RequestChanges
        BY <3>6, ClearOnIs DEF RequestChanges, TypeOK
      <3>7. CASE ApproveByCommand
        BY <3>7, ClearOnIs DEF ApproveByCommand, TypeOK
      <3>8. CASE OtherActivity
        BY <3>8, ClearOnIs DEF OtherActivity, TypeOK
      <3>9. QED
        BY <1>5, <3>1, <3>2, <3>3, <3>4, <3>5, <3>6, <3>7, <3>8 DEF People
    <2>10. QED
      BY <2>2, <2>3, <2>4, <2>5, <2>6, <2>7, <2>8, <2>9 DEF TypeOK
  <1>6. CASE ComputeMergeable
    BY <1>6 DEF ComputeMergeable, TypeOK, runs, history
  <1>7. CASE UNCHANGED vars
    BY <1>7 DEF vars, github, runs, history, TypeOK
  <1>8. QED
    BY <1>1, <1>2, <1>3, <1>4, <1>5, <1>6, <1>7 DEF Next, JobStep

(* People start and cancel runs, but never take a run's next step, and     *)
(* they leave the two labels alone.                                        *)
LEMMA PeopleIs ==
  ASSUME TypeOK, People
  PROVE  /\ Event
         /\ \A j \in Job : pc'[j] \in {pc[j], "idle", "queued"}
         /\ Marked' = Marked /\ AskedFor' = AskedFor
         /\ comments' = comments /\ seen' = seen
  <1>1. Event
    BY DEF People, PushMain, PushHead, ConvertToDraft, ReadyForReview, ApproveByReview,
           RequestChanges, ApproveByCommand, OtherActivity
  <1>2. seen' = seen /\ comments' = comments
    BY DEF People, PushMain, PushHead, ConvertToDraft, ReadyForReview, ApproveByReview,
           RequestChanges, ApproveByCommand, OtherActivity, github, runs, ClearOn
  <1>3. labels' \in {labels, labels \ {"lgtm"}, labels \cup {"lgtm"}}
    BY DEF People, PushMain, PushHead, ConvertToDraft, ReadyForReview, ApproveByReview,
           RequestChanges, ApproveByCommand, OtherActivity, github
  <1>4. Marked' = Marked /\ AskedFor' = AskedFor
    BY <1>3 DEF Marked, AskedFor
  <1>5. \A j \in Job : pc'[j] \in {pc[j], "idle", "queued"}
    <2>1. CASE PushMain \/ PushHead \/ ReadyForReview
      <3>1. \A j, k \in Job : Trigger(j) => pc'[k] \in {pc[k], "queued"}
        BY TriggerIs
      <3>2. CASE PushMain
        BY <3>1, <3>2 DEF PushMain, Job
      <3>3. CASE PushHead
        BY <3>1, <3>3 DEF PushHead, Job, CancelledBy, TypeOK
      <3>4. CASE ReadyForReview
        BY <3>1, <3>4 DEF ReadyForReview, Job
      <3>5. QED
        BY <2>1, <3>2, <3>3, <3>4
    <2>2. CASE ConvertToDraft
      BY <2>2 DEF ConvertToDraft, runs
    <2>3. CASE ApproveByReview \/ RequestChanges \/ ApproveByCommand \/ OtherActivity
      <3>1. PICK kind \in {"comment", "label", "review"}, wanted \in BOOLEAN :
              ClearOn(kind, wanted)
        BY <2>3 DEF ApproveByReview, RequestChanges, ApproveByCommand, OtherActivity, TypeOK
      <3>2. /\ pc'["clear"] \in {"idle", "queued", pc["clear"]}
            /\ \A k \in Checker : pc'[k] = pc[k]
        BY <3>1, ClearOnIs
      <3>3. QED
        BY <3>2 DEF Job, Checker
    <2>4. QED
      BY <2>1, <2>2, <2>3 DEF People
  <1>6. QED
    BY <1>1, <1>2, <1>4, <1>5

-------------------------------------------------------------------------------
LEMMA OwnCallsStep == IInv /\ [Next]_vars => OwnCalls'
  <1> SUFFICES ASSUME IInv, [Next]_vars PROVE OwnCalls'
    OBVIOUS
  <1>0. TypeOK /\ OwnCalls /\ Job = {"scan", "single", "clear"} /\ Checker = {"scan", "single"}
    BY DEF IInv, Job, Checker
  <1> DEFINE Calls(j) == CASE j = "clear" -> {"idle", "queued", "dropReApprove"}
                           [] j = "scan" -> {"idle", "queued", "list", "fetch", "dropReApprove",
                                             "addNeedsRebase", "commentConflict", "dropNeedsRebase"}
                           [] j = "single" -> {"idle", "queued"} \cup (CallName \ {"list"})
  <1>1. SUFFICES \A j \in Job : pc'[j] \in {pc[j]} \cup Calls(j)
    BY <1>0 DEF OwnCalls
  <1>2. ASSUME NEW j \in Job, StartRun(j)
        PROVE  \A k \in Job : pc'[k] \in {pc[k]} \cup Calls(k)
    BY <1>0, <1>2 DEF StartRun, TypeOK, CallName
  <1>3. ASSUME NEW j \in Job, RunFails(j)
        PROVE  \A k \in Job : pc'[k] \in {pc[k]} \cup Calls(k)
    BY <1>0, <1>3, FinishIs DEF RunFails
  <1>4. ASSUME NEW j \in Checker, CheckerStep(j)
        PROVE  \A k \in Job : pc'[k] \in {pc[k]} \cup Calls(k)
    <2>1. \/ Finish(j)
          \/ \E next \in {"dropReApprove", "addNeedsRebase", "commentConflict",
                          "dropNeedsRebase"} : Call(j, next)
          \/ j = "single" /\ (Call(j, "dropLgtm") \/ Call(j, "collect"))
      BY <1>0, <1>4, FetchIs
         DEF CheckerStep, GiveUp, DropReApprove, AddNeedsRebase, CommentConflict, DropNeedsRebase
    <2>2. QED
      BY <1>0, <2>1, FinishIs, CallIs DEF CallName
  <1>5. CASE ListOpenPrs \/ DropLgtm \/ Collect \/ AddReApprove \/ Ping \/ ClearReApprove
    <2>1. \/ \E j \in Job : Finish(j)
          \/ Call("scan", "fetch")
          \/ \E next \in {"collect", "addReApprove", "ping"} : Call("single", next)
      BY <1>0, <1>5 DEF ListOpenPrs, DropLgtm, Collect, AddReApprove, Ping, ClearReApprove
    <2>2. QED
      BY <1>0, <2>1, FinishIs, CallIs DEF CallName
  <1>6. CASE People
    BY <1>0, <1>6, PeopleIs
  <1>7. CASE ComputeMergeable
    BY <1>7 DEF ComputeMergeable, runs
  <1>8. CASE UNCHANGED vars
    BY <1>8 DEF vars, runs
  <1>9. QED
    BY <1>2, <1>3, <1>4, <1>5, <1>6, <1>7, <1>8 DEF Next, JobStep

(* The conflict changes only together with the cached view of it.          *)
LEMMA ViewStep == IInv /\ [Next]_vars => ViewIsCurrent'
  <1> SUFFICES ASSUME IInv, [Next]_vars PROVE ViewIsCurrent'
    OBVIOUS
  <1>0. TypeOK /\ ViewIsCurrent
    BY DEF IInv
  <1>1. CASE PushMain \/ PushHead
    BY <1>0, <1>1 DEF PushMain, PushHead, Invalidated, ViewIsCurrent, TypeOK
  <1>2. CASE ConvertToDraft \/ ReadyForReview
    BY <1>0, <1>2 DEF ConvertToDraft, ReadyForReview, ViewIsCurrent, TypeOK
  <1>3. CASE ComputeMergeable
    <2>1. pr'.conflict = pr.conflict /\ pr'.mergeable = IF pr.conflict THEN "no" ELSE "yes"
      BY <1>0, <1>3 DEF ComputeMergeable, TypeOK
    <2>2. QED
      BY <2>1 DEF ViewIsCurrent
  <1>4. CASE pr' = pr
    BY <1>0, <1>4 DEF ViewIsCurrent
  <1>5. PushMain \/ PushHead \/ ConvertToDraft \/ ReadyForReview \/ ComputeMergeable \/ pr' = pr
    BY DEF Next, JobStep, CheckerStep, People, vars, StartRun, RunFails, Fetch, GiveUp,
           DropReApprove, AddNeedsRebase, CommentConflict, DropNeedsRebase, ListOpenPrs, DropLgtm,
           Collect, AddReApprove, Ping, ClearReApprove, ApproveByReview, RequestChanges,
           ApproveByCommand, OtherActivity, github
  <1>6. QED
    BY <1>1, <1>2, <1>3, <1>4, <1>5

-------------------------------------------------------------------------------
(* Comments: a run that puts the label has not commented on it, and one    *)
(* that read the label does not comment.                                   *)
LEMMA CommentsStep == IInv /\ [Next]_vars => CommentsFollow'
  <1> SUFFICES ASSUME IInv, [Next]_vars, NEW j \in Checker
               PROVE  /\ comments'[j] <= 1
                      /\ pc'[j] = "commentConflict" => comments'[j] = 0
                      /\ WillPut(j)' /\ Marked' => comments'[j] = 0
    BY DEF CommentsFollow
  <1>0. /\ TypeOK /\ OwnCalls /\ j \in Job
        /\ comments[j] <= 1 /\ comments[j] \in Nat
        /\ pc[j] = "commentConflict" => comments[j] = 0
        /\ WillPut(j) /\ Marked => comments[j] = 0
    BY DEF IInv, CommentsFollow, TypeOK, Job, Checker
  <1>1. CASE /\ comments' = comments /\ (Marked' => Marked) /\ seen'[j] = seen[j]
             /\ pc'[j] \in {pc[j]} \cup {"idle", "queued", "list", "fetch", "dropNeedsRebase",
                                       "dropLgtm", "collect", "addReApprove", "ping"}
    <2>1. pc'[j] = "commentConflict" => pc[j] = "commentConflict"
      BY <1>1
    <2>2. WillPut(j)' => WillPut(j)
      BY <1>1 DEF WillPut
    <2>3. QED
      BY <1>0, <1>1, <2>1, <2>2
  <1>2. ASSUME NEW k \in Job, StartRun(k)
        PROVE  /\ comments' = comments /\ (Marked' => Marked) /\ seen'[j] = seen[j]
               /\ pc'[j] \in {pc[j]} \cup {"idle", "queued", "list", "fetch"}
    BY <1>0, <1>2 DEF StartRun, TypeOK, github, Marked, Checker
  <1>3. ASSUME NEW k \in Job, RunFails(k)
        PROVE  /\ comments' = comments /\ (Marked' => Marked) /\ seen'[j] = seen[j]
               /\ pc'[j] \in {pc[j]} \cup {"idle", "queued"}
    BY <1>0, <1>3, FinishIs DEF RunFails, github, Marked
  <1>4. ASSUME NEW k \in Checker, CheckerStep(k)
        PROVE  /\ comments'[j] <= 1
               /\ pc'[j] = "commentConflict" => comments'[j] = 0
               /\ WillPut(j)' /\ Marked' => comments'[j] = 0
    <2>0. k \in Job
      BY DEF Checker, Job
    <2>1. CASE Fetch(k)
      <3>1. comments' = comments /\ Marked' = Marked /\ AskedFor' = AskedFor
        BY <2>1 DEF Fetch, github, history, Marked, AskedFor
      <3>2. CASE k = j
        <4>1. pc'[j] # "commentConflict"
          BY <1>0, <2>0, <2>1, <3>2, FetchIs, FinishIs, CallIs DEF CallName
        <4>2. WillPut(j)' => ~Marked
          <5>1. seen'[j].labels = labels
            BY <1>0, <2>1, <3>2, FetchIs
          <5>2. pc'[j] = "addNeedsRebase" => ~Marked
            BY <1>0, <2>0, <2>1, <3>2, FetchIs, FinishIs, CallIs DEF CallName
          <5>3. QED
            BY <5>1, <5>2 DEF WillPut, Marked
        <4>3. QED
          BY <1>0, <3>1, <4>1, <4>2
      <3>3. CASE k # j
        <4>1. pc'[j] = pc[j] /\ seen'[j] = seen[j]
          BY <1>0, <2>0, <2>1, <3>3, FetchIs, FinishIs, CallIs DEF CallName
        <4>2. QED
          BY <1>0, <1>1, <3>1, <4>1
      <3>4. QED
        BY <3>2, <3>3
    <2>2. CASE GiveUp(k)
      <3>1. /\ comments' = comments /\ Marked' = Marked /\ seen' = seen
            /\ pc'[j] \in {pc[j]} \cup {"idle", "queued"}
        BY <1>0, <2>0, <2>2, FinishIs DEF GiveUp, github, Marked
      <3>2. QED
        BY <1>1, <3>1
    <2>3. CASE DropReApprove(k)
      <3>1. comments' = comments /\ Marked' = Marked /\ seen' = seen
        BY <2>3 DEF DropReApprove, Marked
      <3>2. CASE k # j
        <4>1. pc'[j] = pc[j]
          BY <1>0, <2>0, <2>3, <3>2, FinishIs, CallIs DEF DropReApprove, CallName
        <4>2. QED
          BY <1>1, <3>1, <4>1
      <3>3. CASE k = j
        <4>1. /\ pc[j] = "dropReApprove"
              /\ \/ Finish(j)
                 \/ Call(j, "addNeedsRebase") /\ "needs-rebase" \notin seen[j].labels
          BY <2>3, <3>3 DEF DropReApprove
        <4>2. \/ pc'[j] \in {"idle", "queued"}
              \/ pc'[j] = "addNeedsRebase" /\ WillPut(j)
          BY <1>0, <4>1, FinishIs, CallIs DEF CallName, WillPut
        <4>3. QED
          BY <1>0, <3>1, <4>2 DEF WillPut
      <3>4. QED
        BY <3>2, <3>3
    <2>4. CASE AddNeedsRebase(k)
      <3>1. /\ pc[k] = "addNeedsRebase" /\ seen' = seen
            /\ comments' = IF Marked THEN comments ELSE [i \in Checker |-> 0]
        BY <2>4 DEF AddNeedsRebase, Marked
      <3>2. pc'[k] = "commentConflict" /\ \A i \in Job \ {k} : pc'[i] = pc[i]
        BY <1>0, <2>0, <2>4, CallIs DEF AddNeedsRebase, CallName
      <3>3. CASE ~Marked
        <4>1. comments'[j] = 0
          BY <3>1, <3>3
        <4>2. QED
          BY <4>1
      <3>4. CASE Marked /\ k = j
        <4>1. comments'[j] = 0
          BY <1>0, <3>1, <3>4 DEF WillPut
        <4>2. QED
          BY <4>1
      <3>5. CASE Marked /\ k # j
        <4>1. comments' = comments /\ pc'[j] = pc[j]
          BY <1>0, <3>1, <3>2, <3>5
        <4>2. QED
          BY <1>1, <3>1, <3>5, <4>1
      <3>6. QED
        BY <3>3, <3>4, <3>5
    <2>5. CASE CommentConflict(k)
      <3>1. /\ pc[k] = "commentConflict" /\ seen' = seen /\ Marked' = Marked
            /\ comments' = [comments EXCEPT ![k] = @ + 1]
        BY <2>5 DEF CommentConflict, github, Marked
      <3>2. CASE k = j
        <4>1. comments'[j] = 1
          BY <1>0, <3>1, <3>2 DEF TypeOK
        <4>2. pc'[j] \in {"idle", "queued"}
          BY <1>0, <2>5, <3>2, FinishIs DEF CommentConflict
        <4>3. QED
          BY <4>1, <4>2 DEF WillPut
      <3>3. CASE k # j
        <4>1. comments'[j] = comments[j]
          BY <1>0, <3>1, <3>3 DEF TypeOK
        <4>2. pc'[j] = pc[j]
          BY <1>0, <2>0, <2>5, <3>3, FinishIs DEF CommentConflict
        <4>3. QED
          BY <1>0, <3>1, <4>1, <4>2 DEF WillPut
      <3>4. QED
        BY <3>2, <3>3
    <2>6. CASE DropNeedsRebase(k)
      <3>1. comments' = comments /\ ~Marked' /\ seen' = seen
        BY <2>6 DEF DropNeedsRebase, history, Marked
      <3>2. Finish(k) \/ Call(k, "dropLgtm") \/ Call(k, "collect")
        BY <2>6 DEF DropNeedsRebase, Checker
      <3>3. pc'[j] \in {pc[j], "idle", "queued", "dropLgtm", "collect"}
        BY <1>0, <2>0, <3>2, FinishIs, CallIs DEF CallName
      <3>4. QED
        BY <1>1, <3>1, <3>3
    <2>7. QED
      BY <1>4, <2>1, <2>2, <2>3, <2>4, <2>5, <2>6 DEF CheckerStep
  <1>5. CASE ListOpenPrs \/ DropLgtm \/ Collect \/ AddReApprove \/ Ping \/ ClearReApprove
    <2>1. /\ comments' = comments /\ seen' = seen
          /\ labels' \in {labels, labels \ {"lgtm"}, labels \ {"re-approve"},
                         labels \cup {"re-approve"}}
      BY <1>5 DEF ListOpenPrs, DropLgtm, Collect, AddReApprove, Ping, ClearReApprove, github, history
    <2>2. \/ \E k \in Job : Finish(k)
          \/ \E k \in Job, next \in {"fetch", "collect", "addReApprove", "ping"} : Call(k, next)
      BY <1>5 DEF ListOpenPrs, DropLgtm, Collect, AddReApprove, Ping, ClearReApprove, Job
    <2>3. pc'[j] \in {pc[j], "idle", "queued", "fetch", "collect", "addReApprove", "ping"}
      BY <1>0, <2>2, FinishIs, CallIs DEF CallName
    <2>4. Marked' = Marked
      BY <2>1 DEF Marked
    <2>5. QED
      BY <1>1, <2>1, <2>3, <2>4
  <1>6. CASE People
    BY <1>0, <1>1, <1>6, PeopleIs
  <1>7. CASE ComputeMergeable \/ UNCHANGED vars
    BY <1>1, <1>7 DEF ComputeMergeable, vars, github, runs, history, Marked
  <1>8. QED
    BY <1>1, <1>2, <1>3, <1>4, <1>5, <1>6, <1>7 DEF Next, JobStep

-------------------------------------------------------------------------------
(* A call of an undisturbed check keeps to the course, and its last one    *)
(* leaves the labels right.                                                *)
LEMMA CourseStep ==
  ASSUME IInv, ~disturbed, NEW j \in Checker, Running(j),
         \/ CheckerStep(j)
         \/ j = "scan" /\ ListOpenPrs
         \/ j = "single" /\ (DropLgtm \/ Collect \/ AddReApprove \/ Ping)
  PROVE  /\ OnCourse(j)'
         /\ \A k \in Checker \ {j} : pc'[k] = pc[k]
         /\ pc'[j] = "idle" /\ ~disturbed' /\ ~pr'.draft => RightLabels'
  <1>0. /\ TypeOK /\ OwnCalls /\ ViewIsCurrent /\ OnCourse(j) /\ j \in Job
        /\ \A k \in Checker \ {j} : k \in Job \ {j}
    BY DEF IInv, Undisturbed, Checker, Job
  <1>1. CASE Fetch(j)
    <2>1. labels' = labels /\ pr' = pr /\ Marked' = Marked /\ AskedFor' = AskedFor
      BY <1>1 DEF Fetch, github, Marked, AskedFor
    <2>2. pr.mergeable = "no" <=> pr.conflict
      BY <1>0, <1>1, FetchIs DEF ViewIsCurrent
    <2>3. CASE pr.mergeable = "yes" /\ Marked /\ Call(j, "dropNeedsRebase")
      <3>1. pc'[j] = "dropNeedsRebase" /\ \A k \in Checker \ {j} : pc'[k] = pc[k]
        BY <1>0, <2>3, CallIs DEF CallName
      <3>2. QED
        BY <2>1, <2>2, <2>3, <3>1 DEF OnCourse
    <2>4. CASE pr.mergeable = "no" /\ AskedFor /\ Call(j, "dropReApprove")
      <3>1. pc'[j] = "dropReApprove" /\ \A k \in Checker \ {j} : pc'[k] = pc[k]
        BY <1>0, <2>4, CallIs DEF CallName
      <3>2. seen'[j].labels = labels
        BY <1>0, <1>1, FetchIs
      <3>3. Marked' <=> "needs-rebase" \in seen'[j].labels
        BY <2>1, <3>2 DEF Marked
      <3>4. QED
        BY <2>1, <2>2, <2>4, <3>1, <3>3 DEF OnCourse
    <2>5. CASE pr.mergeable = "no" /\ ~AskedFor /\ ~Marked /\ Call(j, "addNeedsRebase")
      <3>1. pc'[j] = "addNeedsRebase" /\ \A k \in Checker \ {j} : pc'[k] = pc[k]
        BY <1>0, <2>5, CallIs DEF CallName
      <3>2. QED
        BY <2>1, <2>2, <2>5, <3>1 DEF OnCourse
    <2>6. CASE /\ Finish(j)
               /\ \/ pr.mergeable = "yes" /\ ~Marked
                  \/ pr.mergeable = "no" /\ Marked /\ ~AskedFor
      <3>1. pc'[j] \in {"idle", "queued"} /\ \A k \in Checker \ {j} : pc'[k] = pc[k]
        BY <1>0, <2>6, FinishIs
      <3>2. RightLabels'
        BY <2>1, <2>2, <2>6 DEF RightLabels
      <3>3. QED
        BY <3>1, <3>2 DEF OnCourse
    <2>7. QED
      BY <1>0, <1>1, <2>3, <2>4, <2>5, <2>6, FetchIs
  <1>2. CASE GiveUp(j)
    <2>1. disturbed' /\ pc'[j] \in {"idle", "queued"} /\ \A k \in Checker \ {j} : pc'[k] = pc[k]
      BY <1>0, <1>2, FinishIs DEF GiveUp
    <2>2. QED
      BY <2>1 DEF OnCourse
  <1>3. CASE DropReApprove(j)
    <2>1. /\ pc[j] = "dropReApprove" /\ pr' = pr /\ labels' = labels \ {"re-approve"}
          /\ IF "needs-rebase" \in seen[j].labels THEN Finish(j) ELSE Call(j, "addNeedsRebase")
      BY <1>3 DEF DropReApprove
    <2>2. ~AskedFor' /\ Marked' = Marked
      BY <2>1 DEF AskedFor, Marked
    <2>3. pr.conflict /\ (Marked <=> "needs-rebase" \in seen[j].labels)
      BY <1>0, <2>1 DEF OnCourse
    <2>4. CASE Marked
      <3>1. pc'[j] \in {"idle", "queued"} /\ \A k \in Checker \ {j} : pc'[k] = pc[k]
        BY <1>0, <2>1, <2>3, <2>4, FinishIs
      <3>2. QED
        BY <2>1, <2>2, <2>3, <2>4, <3>1 DEF OnCourse, RightLabels
    <2>5. CASE ~Marked
      <3>1. pc'[j] = "addNeedsRebase" /\ \A k \in Checker \ {j} : pc'[k] = pc[k]
        BY <1>0, <2>1, <2>3, <2>5, CallIs DEF CallName
      <3>2. QED
        BY <2>1, <2>2, <2>3, <3>1 DEF OnCourse
    <2>6. QED
      BY <2>4, <2>5
  <1>4. CASE AddNeedsRebase(j)
    <2>1. pc[j] = "addNeedsRebase" /\ pr' = pr /\ labels' = labels \cup {"needs-rebase"}
      BY <1>4 DEF AddNeedsRebase
    <2>2. Marked' /\ AskedFor' = AskedFor
      BY <2>1 DEF AskedFor, Marked
    <2>3. pc'[j] = "commentConflict" /\ \A k \in Checker \ {j} : pc'[k] = pc[k]
      BY <1>0, <1>4, CallIs DEF AddNeedsRebase, CallName
    <2>4. QED
      BY <1>0, <2>1, <2>2, <2>3 DEF OnCourse
  <1>5. CASE CommentConflict(j)
    <2>1. pc[j] = "commentConflict" /\ pr' = pr /\ Marked' = Marked /\ AskedFor' = AskedFor
      BY <1>5 DEF CommentConflict, github, Marked, AskedFor
    <2>2. pc'[j] \in {"idle", "queued"} /\ \A k \in Checker \ {j} : pc'[k] = pc[k]
      BY <1>0, <1>5, FinishIs DEF CommentConflict
    <2>3. QED
      BY <1>0, <2>1, <2>2 DEF OnCourse, RightLabels
  <1>6. CASE DropNeedsRebase(j)
    <2>1. /\ pc[j] = "dropNeedsRebase" /\ pr' = pr /\ ~Marked'
          /\ Finish(j) \/ Call(j, "dropLgtm") \/ Call(j, "collect")
      BY <1>6 DEF DropNeedsRebase, Marked, Checker
    <2>2. ~pr.conflict
      BY <1>0, <2>1 DEF OnCourse
    <2>3. /\ pc'[j] \in {"idle", "queued", "dropLgtm", "collect"}
          /\ \A k \in Checker \ {j} : pc'[k] = pc[k]
      BY <1>0, <2>1, FinishIs, CallIs DEF CallName
    <2>4. QED
      BY <2>1, <2>2, <2>3 DEF OnCourse, RightLabels
  <1>7. CASE j = "scan" /\ ListOpenPrs
    <2>1. pr' = pr /\ IF pr.draft THEN Finish(j) ELSE Call(j, "fetch")
      BY <1>7 DEF ListOpenPrs, github
    <2>2. /\ pc'[j] \in {"idle", "queued", "fetch"} /\ (pc'[j] = "idle" => pr.draft)
          /\ \A k \in Checker \ {j} : pc'[k] = pc[k]
      BY <1>0, <2>1, FinishIs, CallIs DEF CallName
    <2>3. QED
      BY <2>1, <2>2 DEF OnCourse
  <1>8. CASE j = "single" /\ (DropLgtm \/ Collect \/ AddReApprove \/ Ping)
    <2>1. pc[j] \in {"dropLgtm", "collect", "addReApprove", "ping"} /\ pr' = pr
      BY <1>8 DEF DropLgtm, Collect, AddReApprove, Ping, github
    <2>2. labels' \in {labels, labels \ {"lgtm"}, labels \cup {"re-approve"}}
      BY <1>8 DEF DropLgtm, Collect, AddReApprove, Ping, github
    <2>3. Marked' = Marked
      BY <2>2 DEF Marked
    <2>4. ~pr.conflict /\ ~Marked
      BY <1>0, <2>1 DEF OnCourse
    <2>5. Finish(j) \/ Call(j, "collect") \/ Call(j, "addReApprove") \/ Call(j, "ping")
      BY <1>8 DEF DropLgtm, Collect, AddReApprove, Ping
    <2>6. /\ pc'[j] \in {"idle", "queued", "collect", "addReApprove", "ping"}
          /\ \A k \in Checker \ {j} : pc'[k] = pc[k]
      BY <1>0, <2>5, FinishIs, CallIs DEF CallName
    <2>7. QED
      BY <2>1, <2>3, <2>4, <2>6 DEF OnCourse, RightLabels
  <1>9. QED
    BY <1>1, <1>2, <1>3, <1>4, <1>5, <1>6, <1>7, <1>8 DEF CheckerStep

LEMMA UndisturbedStep == IInv /\ [Next]_vars => Undisturbed'
  <1> SUFFICES ASSUME IInv, [Next]_vars, ~disturbed'
               PROVE  /\ \A j \in Checker, k \in Checker : Running(j)' /\ Running(k)' => j = k
                      /\ \A j \in Checker : OnCourse(j)'
                      /\ (\A j \in Checker : pc'[j] = "idle") /\ ~pr'.draft => RightLabels'
    BY DEF Undisturbed
  <1>0. /\ TypeOK /\ OwnCalls /\ Checker \subseteq Job
        /\ \A j \in Checker : pc[j] \in {"idle", "queued"} <=> ~Running(j)
    BY DEF IInv, Running, Checker, Job
  <1>1. ASSUME ~disturbed, NEW j \in Checker, Running(j),
               \/ CheckerStep(j)
               \/ j = "scan" /\ ListOpenPrs
               \/ j = "single" /\ (DropLgtm \/ Collect \/ AddReApprove \/ Ping)
        PROVE  /\ \A i \in Checker, k \in Checker : Running(i)' /\ Running(k)' => i = k
               /\ \A i \in Checker : OnCourse(i)'
               /\ (\A i \in Checker : pc'[i] = "idle") /\ ~pr'.draft => RightLabels'
    <2>1. /\ OnCourse(j)'
          /\ \A k \in Checker \ {j} : pc'[k] = pc[k]
          /\ pc'[j] = "idle" /\ ~disturbed' /\ ~pr'.draft => RightLabels'
      BY <1>1, CourseStep
    <2>2. \A k \in Checker \ {j} : pc'[k] \in {"idle", "queued"}
      BY <1>0, <1>1, <2>1 DEF IInv, Undisturbed
    <2>3. \A k \in Checker \ {j} : OnCourse(k)' /\ ~Running(k)'
      BY <2>2 DEF OnCourse, Running
    <2>4. QED
      BY <2>1, <2>3
  <1>2. ASSUME ~disturbed, \A j \in Checker : pc'[j] = pc[j] /\ seen'[j] = seen[j],
               pr'.conflict = pr.conflict, pr'.draft = pr.draft, Marked' = Marked,
               AskedFor' => AskedFor
        PROVE  /\ \A i \in Checker, k \in Checker : Running(i)' /\ Running(k)' => i = k
               /\ \A i \in Checker : OnCourse(i)'
               /\ (\A i \in Checker : pc'[i] = "idle") /\ ~pr'.draft => RightLabels'
    <2>1. \A i \in Checker : Running(i)' <=> Running(i)
      BY <1>2 DEF Running
    <2>2. \A i \in Checker : OnCourse(i)'
      <3>1. TAKE i \in Checker
      <3>2. OnCourse(i)
        BY <1>2 DEF IInv, Undisturbed
      <3>3. QED
        BY <1>2, <3>2 DEF OnCourse
    <2>3. (\A i \in Checker : pc'[i] = "idle") /\ ~pr'.draft => RightLabels'
      BY <1>2 DEF IInv, Undisturbed, RightLabels
    <2>4. QED
      BY <1>2, <2>1, <2>2, <2>3 DEF IInv, Undisturbed
  <1>3. ASSUME NEW j \in Job, StartRun(j)
        PROVE  /\ \A i \in Checker, k \in Checker : Running(i)' /\ Running(k)' => i = k
               /\ \A i \in Checker : OnCourse(i)'
               /\ (\A i \in Checker : pc'[i] = "idle") /\ ~pr'.draft => RightLabels'
    <2>1. CASE j \in Checker
      <3>1. /\ pc'[j] \in {"list", "fetch"}
            /\ \A k \in Checker \ {j} : pc'[k] = pc[k] /\ ~Running(k)
        BY <1>0, <1>3, <2>1 DEF StartRun, TypeOK, Checker
      <3>2. \A k \in Checker \ {j} : pc'[k] \in {"idle", "queued"}
        BY <1>0, <3>1
      <3>3. \A k \in Checker : OnCourse(k)'
        BY <3>1, <3>2 DEF OnCourse
      <3>4. QED
        BY <2>1, <3>1, <3>2, <3>3 DEF Running
    <2>2. CASE j = "clear"
      <3>1. /\ disturbed' = disturbed /\ \A k \in Checker : pc'[k] = pc[k]
            /\ labels' = labels /\ pr' = pr /\ seen' = seen
        BY <1>0, <1>3, <2>2 DEF StartRun, TypeOK, Checker, github
      <3>2. QED
        BY <1>2, <3>1 DEF Marked, AskedFor
    <2>3. QED
      BY <2>1, <2>2 DEF Job, Checker
  <1>4. ASSUME NEW j \in Job, RunFails(j)
        PROVE  /\ \A i \in Checker, k \in Checker : Running(i)' /\ Running(k)' => i = k
               /\ \A i \in Checker : OnCourse(i)'
               /\ (\A i \in Checker : pc'[i] = "idle") /\ ~pr'.draft => RightLabels'
    <2>1. j = "clear" /\ ~disturbed
      BY <1>4 DEF RunFails
    <2>2. /\ \A k \in Checker : pc'[k] = pc[k]
          /\ labels' = labels /\ pr' = pr /\ seen' = seen
      BY <1>0, <1>4, <2>1, FinishIs DEF RunFails, github, Checker
    <2>3. QED
      BY <1>2, <2>1, <2>2 DEF Marked, AskedFor
  <1>5. ASSUME NEW j \in Checker, CheckerStep(j)
        PROVE  Running(j) /\ ~disturbed
    BY <1>5 DEF CheckerStep, Fetch, GiveUp, DropReApprove, AddNeedsRebase, CommentConflict,
                DropNeedsRebase, Running, history
  <1>6. ASSUME ListOpenPrs
        PROVE  Running("scan") /\ ~disturbed
    BY <1>6 DEF ListOpenPrs, Running, history
  <1>7. ASSUME DropLgtm \/ Collect \/ AddReApprove \/ Ping
        PROVE  Running("single") /\ ~disturbed
    BY <1>7 DEF DropLgtm, Collect, AddReApprove, Ping, Running, history
  <1>8. CASE ClearReApprove
    <2>1. /\ disturbed' = disturbed /\ labels' = labels \ {"re-approve"}
          /\ pr' = pr /\ seen' = seen /\ Finish("clear")
      BY <1>8 DEF ClearReApprove
    <2>2. \A k \in Checker : pc'[k] = pc[k]
      BY <1>0, <2>1, FinishIs DEF Checker, Job
    <2>3. Marked' = Marked /\ ~AskedFor'
      BY <2>1 DEF Marked, AskedFor
    <2>4. QED
      BY <1>2, <2>1, <2>2, <2>3
  <1>9. CASE People
    <2>1. /\ ~disturbed /\ \A j \in Checker : ~Running(j)
          /\ \A j \in Job : pc'[j] \in {pc[j], "idle", "queued"}
          /\ Marked' = Marked /\ AskedFor' = AskedFor
      BY <1>0, <1>9, PeopleIs DEF Event
    <2>2. \A j \in Checker : pc'[j] \in {"idle", "queued"}
      BY <1>0, <2>1
    <2>3. \A j \in Checker : OnCourse(j)' /\ ~Running(j)'
      BY <2>2 DEF OnCourse, Running
    <2>4. ASSUME \A j \in Checker : pc'[j] = "idle", ~pr'.draft
          PROVE  /\ \A j \in Checker : pc[j] = "idle"
                 /\ ~pr.draft /\ pr'.conflict = pr.conflict
      <3>1. ~PushMain
        <4>1. SUFFICES ASSUME PushMain PROVE FALSE
          OBVIOUS
        <4>2. CASE pc["scan"] = "idle"
          BY <1>0, <2>4, <4>1, <4>2, TriggerIs DEF PushMain, Checker, Job
        <4>3. CASE pc["scan"] # "idle"
          BY <2>4, <4>1, <4>3 DEF PushMain, Checker
        <4>4. QED
          BY <4>2, <4>3
      <3>2. ~PushHead
        <4>1. SUFFICES ASSUME PushHead, ~pr.draft PROVE FALSE
          BY <1>0, <2>4 DEF PushHead, Invalidated, TypeOK
        <4>2. pc'["single"] = "queued"
          BY <1>0, <4>1, TriggerIs DEF PushHead, Job
        <4>3. QED
          BY <2>4, <4>2 DEF Checker
      <3>3. ~ConvertToDraft
        BY <1>0, <2>4 DEF ConvertToDraft, TypeOK
      <3>4. ~ReadyForReview
        <4>1. SUFFICES ASSUME ReadyForReview PROVE FALSE
          OBVIOUS
        <4>2. pc'["single"] = "queued"
          BY <1>0, <4>1, TriggerIs DEF ReadyForReview, Job
        <4>3. QED
          BY <2>4, <4>2 DEF Checker
      <3>5. CASE ApproveByReview \/ RequestChanges \/ ApproveByCommand \/ OtherActivity
        <4>1. PICK kind \in {"comment", "label", "review"}, wanted \in BOOLEAN :
                ClearOn(kind, wanted)
          BY <1>0, <3>5 DEF ApproveByReview, RequestChanges, ApproveByCommand, OtherActivity, TypeOK
        <4>2. \A k \in Checker : pc'[k] = pc[k]
          BY <1>0, <4>1, ClearOnIs
        <4>3. pr' = pr
          BY <3>5 DEF ApproveByReview, RequestChanges, ApproveByCommand, OtherActivity, github
        <4>4. QED
          BY <2>4, <4>2, <4>3
      <3>6. QED
        BY <1>9, <3>1, <3>2, <3>3, <3>4, <3>5 DEF People
    <2>5. ASSUME \A j \in Checker : pc'[j] = "idle", ~pr'.draft
          PROVE  RightLabels'
      BY <2>1, <2>4, <2>5 DEF IInv, Undisturbed, RightLabels
    <2>6. QED
      BY <2>3, <2>5
  <1>10. CASE ComputeMergeable
    <2>1. /\ pr'.conflict = pr.conflict /\ pr'.draft = pr.draft
          /\ disturbed' = disturbed /\ labels' = labels /\ pc' = pc /\ seen' = seen
      BY <1>0, <1>10 DEF ComputeMergeable, runs, history, TypeOK
    <2>2. QED
      BY <1>2, <2>1 DEF Marked, AskedFor
  <1>11. CASE UNCHANGED vars
    BY <1>2, <1>11 DEF vars, github, runs, history, Marked, AskedFor
  <1>12. "scan" \in Checker /\ "single" \in Checker
    BY DEF Checker
  <1>13. QED
    BY <1>1, <1>3, <1>4, <1>5, <1>6, <1>7, <1>8, <1>9, <1>10, <1>11, <1>12 DEF Next, JobStep

-------------------------------------------------------------------------------
(* The job whose turn it is pays what is owed and clears what was asked.   *)
Turns ==
  /\ ~pending
  /\ \A j, k \in Job : pc[j] # "idle" /\ pc[k] # "idle" => j = k
  /\ owed => Pays
  /\ reapproved # "no" => ByForksReview \/ pc["clear"] \in {"queued", "dropReApprove"}

(* A job's calls, as long as nothing happens meanwhile.                    *)
LEMMA TurnStep ==
  ASSUME IInv, ~raced', JobStep
  PROVE  Turns'
  <1> USE DEF ByForksReview
  <1>0. /\ TypeOK /\ OwnCalls /\ ViewIsCurrent
        /\ Job = {"scan", "single", "clear"} /\ Checker = {"scan", "single"}
    BY DEF IInv, Job, Checker
  <1>1. ~raced
    BY DEF JobStep, CheckerStep, StartRun, RunFails, Fetch, GiveUp, DropReApprove, AddNeedsRebase,
           CommentConflict, DropNeedsRebase, ListOpenPrs, DropLgtm, Collect, AddReApprove, Ping,
           ClearReApprove, history
  <1>2. Turns
    BY <1>1 DEF IInv, Alone, Turns
  (* A call of j, all the others being idle.                               *)
  <1>3. ASSUME NEW j \in Job, pc[j] # "idle",
               \A k \in Job \ {j} : pc'[k] = pc[k], ~pending',
               owed' => Pays',
               reapproved' # "no" => ByForksReview' \/ pc'["clear"] \in {"queued", "dropReApprove"}
        PROVE  Turns'
    BY <1>2, <1>3 DEF Turns
  <1>4. ASSUME NEW j \in Job, StartRun(j)
        PROVE  Turns'
    <2>1. /\ pc[j] = "queued" /\ \A k \in Job \ {j} : pc'[k] = pc[k]
          /\ pr' = pr /\ labels' = labels /\ approval' = approval /\ seen' = seen
          /\ action' = action /\ pending' = pending /\ owed' = owed /\ reapproved' = reapproved
          /\ j = "single" => pc'["single"] = "fetch"
          /\ j = "clear" => pc'["clear"] = "dropReApprove"
      BY <1>0, <1>4 DEF StartRun, TypeOK, github
    <2>2. ~pending /\ (owed => Pays)
      BY <1>2 DEF Turns
    <2>3. ASSUME owed PROVE Pays'
      <3>1. j = "single"
        BY <1>0, <1>2, <2>1, <2>3 DEF Turns, Pays
      <3>2. QED
        BY <2>1, <2>2, <2>3, <3>1 DEF Pays, AskedFor, Marked
    <2>4. reapproved # "no" => ByForksReview \/ pc'["clear"] \in {"queued", "dropReApprove"}
      BY <1>0, <1>2, <2>1 DEF Turns
    <2>5. QED
      BY <1>3, <2>1, <2>2, <2>3, <2>4
  <1>5. ASSUME NEW j \in Job, RunFails(j)
        PROVE  FALSE
    BY <1>5 DEF RunFails
  (* Nothing is owed while another job than "single" is at work.           *)
  <1>6. ASSUME NEW j \in Job, pc[j] \notin {"idle", "queued", "fetch", "dropNeedsRebase", "dropLgtm",
                                         "collect", "addReApprove"}
        PROVE  ~owed
    BY <1>0, <1>2, <1>6 DEF Turns, Pays
  <1>7. ASSUME pc["scan"] # "idle"
        PROVE  ~owed
    BY <1>0, <1>2, <1>7 DEF Turns, Pays
  <1>8. ASSUME NEW j \in Checker, pc[j] # "idle", reapproved # "no"
        PROVE  ByForksReview
    BY <1>0, <1>2, <1>8 DEF Turns
  <1>9. ~pending
    BY <1>2 DEF Turns
  <1>10. ASSUME NEW j \in Checker, Fetch(j)
         PROVE  Turns'
    <2>1. /\ pr' = pr /\ labels' = labels /\ approval' = approval /\ owed' = owed
          /\ reapproved' = reapproved
      BY <1>10 DEF Fetch, github, history
    <2>2. /\ pc[j] = "fetch" /\ action' = action /\ ~pending'
          /\ \A k \in Job \ {j} : pc'[k] = pc[k]
      BY <1>0, <1>9, <1>10, FetchIs, FinishIs, CallIs DEF CallName
    <2>3. ASSUME owed PROVE Pays'
      <3>1. j = "single"
        BY <1>0, <1>7, <2>2, <2>3
      <3>2. Pays
        BY <1>2, <2>3 DEF Turns
      <3>3. Marked /\ ~AskedFor /\ ~pr.conflict
        BY <2>2, <3>1, <3>2 DEF Pays
      <3>4. pr.mergeable = "yes"
        BY <1>0, <1>10, <3>3, FetchIs DEF ViewIsCurrent
      <3>5. Call(j, "dropNeedsRebase")
        BY <1>0, <1>10, <3>3, <3>4, FetchIs
      <3>6. pc'["single"] = "dropNeedsRebase"
        BY <1>0, <3>1, <3>5, CallIs DEF CallName
      <3>7. seen'["single"].head = pr.head /\ seen'["single"].labels = labels
        BY <1>0, <1>10, <3>1, FetchIs
      <3>8. QED
        BY <2>1, <2>2, <3>2, <3>3, <3>6, <3>7 DEF Pays, AskedFor
    <2>4. QED
      BY <1>0, <1>3, <1>8, <2>1, <2>2, <2>3
  <1>11. ASSUME NEW j \in Checker, GiveUp(j)
         PROVE  FALSE
    BY <1>11 DEF GiveUp
  <1>12. ASSUME NEW j \in Checker, DropReApprove(j) \/ AddNeedsRebase(j) \/ CommentConflict(j)
         PROVE  Turns'
    <2>1. /\ pc[j] \in {"dropReApprove", "addNeedsRebase", "commentConflict"} /\ pr' = pr
          /\ owed' => owed
          /\ reapproved' \in {reapproved, "no"}
          /\ Finish(j) \/ Call(j, "addNeedsRebase") \/ Call(j, "commentConflict")
      BY <1>12 DEF DropReApprove, AddNeedsRebase, CommentConflict, github
    <2>2. ~pending' /\ \A k \in Job \ {j} : pc'[k] = pc[k]
      BY <1>0, <1>9, <2>1, FinishIs, CallIs DEF CallName
    <2>3. j \in Job /\ pc[j] # "idle"
      BY <1>0, <2>1
    <2>4. ~owed'
      <3>1. ~owed
        BY <1>0, <1>6, <2>1
      <3>2. QED
        BY <2>1, <3>1, Zenon
    <2>5. reapproved' # "no" => ByForksReview'
      <3>1. reapproved # "no" => ByForksReview
        BY <1>8, <2>3
      <3>2. QED
        BY <2>1, <3>1
    <2>6. QED
      BY <1>3, <2>2, <2>3, <2>4, <2>5
  <1>13. ASSUME NEW j \in Checker, DropNeedsRebase(j)
         PROVE  Turns'
    <2>1. /\ pc[j] = "dropNeedsRebase" /\ pr' = pr /\ approval' = approval /\ seen' = seen
          /\ owed' = owed /\ reapproved' = reapproved /\ labels' = labels \ {"needs-rebase"}
          /\ \/ j = "scan" /\ Finish(j)
             \/ j = "single" /\ (Call(j, "dropLgtm") \/ Call(j, "collect"))
      BY <1>0, <1>13 DEF DropNeedsRebase, history
    <2>2. /\ ~pending' /\ action' = action /\ \A k \in Job \ {j} : pc'[k] = pc[k]
          /\ j = "single" => pc'[j] \in {"dropLgtm", "collect"}
      BY <1>0, <1>9, <2>1, FinishIs, CallIs DEF CallName
    <2>3. ASSUME owed PROVE Pays'
      <3>1. j = "single" /\ Pays
        BY <1>0, <1>2, <1>7, <2>1, <2>3 DEF Turns
      <3>2. AskedFor' = AskedFor
        BY <2>1 DEF AskedFor
      <3>3. QED
        BY <2>1, <2>2, <3>1, <3>2 DEF Pays
    <2>4. QED
      BY <1>0, <1>3, <1>8, <2>1, <2>2, <2>3
  <1>14. CASE ListOpenPrs
    <2>1. /\ pc["scan"] = "list" /\ pr' = pr /\ owed' = owed /\ reapproved' = reapproved
          /\ Finish("scan") \/ Call("scan", "fetch")
      BY <1>14 DEF ListOpenPrs, github, history
    <2>2. ~pending' /\ \A k \in Job \ {"scan"} : pc'[k] = pc[k]
      BY <1>0, <1>9, <2>1, FinishIs, CallIs DEF CallName
    <2>3. QED
      BY <1>0, <1>3, <1>7, <1>8, <2>1, <2>2
  <1>15. CASE DropLgtm \/ Collect
    <2>1. /\ pc["single"] \in {"dropLgtm", "collect"} /\ pr' = pr /\ approval' = approval
          /\ seen' = seen /\ owed' = owed /\ reapproved' = reapproved
          /\ labels' \in {labels, labels \ {"lgtm"}}
      BY <1>15 DEF DropLgtm, Collect, github, history
    <2>2. \/ Call("single", "collect")
          \/ Call("single", "addReApprove")
          \/ Finish("single") /\ pc["single"] = "collect" /\ ~WantsReApproval(seen["single"])
      BY <1>15 DEF DropLgtm, Collect
    <2>3. ~pending' /\ action' = action /\ \A k \in Job \ {"single"} : pc'[k] = pc[k]
      BY <1>0, <1>9, <2>2, FinishIs, CallIs DEF CallName
    <2>4. ASSUME owed PROVE Pays'
      <3>1. Pays
        BY <1>2, <2>4 DEF Turns
      <3>2. pc["single"] = "collect" => WantsReApproval(seen["single"])
        BY <3>1 DEF Pays, WantsReApproval, ApprovedOnHead
      <3>3. pc'["single"] \in {"collect", "addReApprove"}
        BY <1>0, <2>2, <3>2, CallIs DEF CallName
      <3>4. AskedFor' = AskedFor
        BY <2>1 DEF AskedFor
      <3>5. seen["single"].head = pr.head /\ "re-approve" \notin seen["single"].labels
        BY <2>1, <3>1 DEF Pays
      <3>6. QED
        BY <2>1, <2>3, <3>1, <3>3, <3>4, <3>5 DEF Pays
    <2>5. QED
      BY <1>0, <1>3, <1>8, <2>1, <2>3, <2>4
  <1>16. CASE AddReApprove \/ Ping
    <2>1. /\ pc["single"] \in {"addReApprove", "ping"} /\ pr' = pr
          /\ Call("single", "ping") \/ Finish("single")
      BY <1>16 DEF AddReApprove, Ping, github
    <2>2. ~pending' /\ \A k \in Job \ {"single"} : pc'[k] = pc[k]
      BY <1>0, <1>9, <2>1, FinishIs, CallIs DEF CallName
    <2>3. ~owed'
      <3>1. CASE AddReApprove
        BY <3>1 DEF AddReApprove
      <3>2. CASE Ping
        BY <1>0, <1>6, <3>2 DEF Ping, history
      <3>3. QED
        BY <1>16, <3>1, <3>2
    <2>4. reapproved' \in {reapproved, "no"}
      <3>1. CASE AddReApprove
        BY <3>1 DEF AddReApprove
      <3>2. CASE Ping
        BY <3>2 DEF Ping, history
      <3>3. QED
        BY <1>16, <3>1, <3>2
    <2>5. reapproved' # "no" => ByForksReview'
      BY <1>0, <1>8, <2>1, <2>4
    <2>6. QED
      BY <1>0, <1>3, <2>1, <2>2, <2>3, <2>5
  <1>17. CASE ClearReApprove
    <2>1. pc["clear"] = "dropReApprove" /\ owed' = owed /\ reapproved' = "no" /\ Finish("clear")
      BY <1>17 DEF ClearReApprove
    <2>2. ~pending' /\ \A k \in Job \ {"clear"} : pc'[k] = pc[k]
      BY <1>0, <1>9, <2>1, FinishIs
    <2>3. QED
      BY <1>0, <1>3, <1>6, <2>1, <2>2
  <1>18. QED
    BY <1>4, <1>5, <1>10, <1>11, <1>12, <1>13, <1>14, <1>15, <1>16, <1>17 DEF JobStep, CheckerStep

(* What people do when every job is at rest.                               *)
LEMMA EventTurns ==
  ASSUME IInv, ~raced', People
  PROVE  Turns'
  <1> USE DEF ByForksReview
  <1>0. /\ TypeOK /\ OwnCalls
        /\ Job = {"scan", "single", "clear"} /\ Checker = {"scan", "single"}
        /\ approval.head <= pr.head /\ approval.head \in Nat /\ pr.head \in Nat
    BY DEF IInv, Alone, TypeOK, Job, Checker
  <1>1. ~raced /\ \A j \in Job : pc[j] = "idle"
    BY <1>0, PeopleIs DEF Event, Quiet
  <1>2. Turns
    BY <1>1 DEF IInv, Alone, Turns
  <1>3. ~owed /\ ~pending /\ (reapproved # "no" => ByForksReview)
    BY <1>0, <1>1, <1>2 DEF Turns, Pays
  <1>4. ASSUME ~pending', NEW j \in Job, \A k \in Job \ {j} : pc'[k] = pc[k], owed' => Pays',
               reapproved' # "no" => ByForksReview' \/ pc'["clear"] \in {"queued", "dropReApprove"}
        PROVE  Turns'
    BY <1>1, <1>4 DEF Turns
  <1>5. CASE PushMain
    <2>1. \A k \in Job \ {"scan"} : pc'[k] = pc[k]
      BY <1>0, <1>1, <1>5, TriggerIs DEF PushMain
    <2>2. ~pending' /\ reapproved' = reapproved /\ pr'.fork = pr.fork
      BY <1>0, <1>1, <1>3, <1>5 DEF PushMain, Invalidated, TypeOK
    <2>3. ~owed'
      BY <1>3, <1>5 DEF PushMain
    <2>4. QED
      BY <1>0, <1>3, <1>4, <2>1, <2>2, <2>3
  <1>6. CASE PushHead
    <2>1. /\ pr'.fork = pr.fork /\ pr'.head = pr.head + 1
          /\ reapproved' = reapproved /\ pending' = pending /\ approval' = approval
      BY <1>0, <1>6 DEF PushHead, Invalidated, TypeOK
    <2>2. \A k \in Job \ {"single"} : pc'[k] = pc[k]
      BY <1>0, <1>6, TriggerIs DEF PushHead, TypeOK
    <2>3. ASSUME owed' PROVE Pays'
      <3>1. /\ ~pr'.conflict /\ ~pr.draft /\ Marked /\ ~AskedFor
            /\ approval.prior /\ ~approval.changes
        BY <1>3, <1>6, <2>3 DEF PushHead, Marked, AskedFor
      <3>2. pc'["single"] = "queued" /\ action' = "synchronize"
        BY <1>0, <1>6, <3>1, TriggerIs DEF PushHead
      <3>3. Marked' /\ ~AskedFor'
        BY <1>0, <1>6, <3>1, PeopleIs DEF People
      <3>4. approval'.head # pr'.head
        BY <1>0, <2>1
      <3>5. QED
        BY <2>1, <3>1, <3>2, <3>3, <3>4 DEF Pays
    <2>4. QED
      BY <1>0, <1>3, <1>4, <2>1, <2>2, <2>3
  <1>7. CASE ConvertToDraft
    <2>1. /\ pr'.fork = pr.fork /\ reapproved' = reapproved /\ pending' = pending /\ owed' = owed
          /\ pc' = pc
      BY <1>0, <1>7 DEF ConvertToDraft, runs, TypeOK
    <2>2. QED
      BY <1>0, <1>3, <1>4, <2>1
  <1>8. CASE ReadyForReview
    <2>1. /\ pr'.fork = pr.fork /\ reapproved' = reapproved /\ pending' = pending /\ owed' = owed
          /\ \A k \in Job \ {"single"} : pc'[k] = pc[k]
      BY <1>0, <1>8, TriggerIs DEF ReadyForReview, TypeOK
    <2>2. QED
      BY <1>0, <1>3, <1>4, <2>1
  <1>9. ASSUME NEW kind \in {"comment", "label", "review"}, NEW wanted \in BOOLEAN,
               ClearOn(kind, wanted), ~owed', pr' = pr,
               reapproved' # "no" => ByForksReview' \/ (wanted /\ AskedFor)
        PROVE  Turns'
    <2>1. /\ wanted /\ AskedFor => pc'["clear"] = "queued"
          /\ \A k \in Job \ {"clear"} : pc'[k] = pc[k]
          /\ pending' = pending
      BY <1>0, <1>9, ClearOnIs
    <2>2. QED
      BY <1>0, <1>3, <1>4, <1>9, <2>1
  <1>10. CASE ApproveByReview
    <2>1. /\ ClearOn("review", ~pr.fork) /\ pr' = pr /\ ~owed'
          /\ reapproved' = IF "re-approve" \in labels THEN "review" ELSE "no"
      BY <1>10 DEF ApproveByReview, Approves
    <2>2. reapproved' # "no" => AskedFor /\ reapproved' = "review"
      BY <2>1 DEF AskedFor
    <2>3. (~pr.fork) \in BOOLEAN
      BY Zenon
    <2>4. QED
      BY <1>9, <2>1, <2>2, <2>3
  <1>11. CASE ApproveByCommand
    <2>1. /\ pr' = pr /\ ~owed'
          /\ reapproved' = IF "re-approve" \in labels THEN "command" ELSE "no"
          /\ \E kind \in {"comment", "label"} : ClearOn(kind, TRUE)
      BY <1>11 DEF ApproveByCommand, Approves
    <2>2. reapproved' # "no" => AskedFor
      BY <2>1 DEF AskedFor
    <2>3. QED
      BY <1>9, <2>1, <2>2
  <1>12. CASE RequestChanges
    BY <1>9, <1>12 DEF RequestChanges
  <1>13. CASE OtherActivity
    BY <1>3, <1>9, <1>13 DEF OtherActivity, github
  <1>14. QED
    BY <1>5, <1>6, <1>7, <1>8, <1>10, <1>11, <1>12, <1>13 DEF People

LEMMA AloneStep == IInv /\ [Next]_vars => Alone'
  <1> USE DEF ByForksReview
  <1> SUFFICES ASSUME IInv, [Next]_vars PROVE Alone'
    OBVIOUS
  <1>0. TypeOK /\ Alone
    BY DEF IInv
  <1>1. approval'.head <= pr'.head
    <2>0. approval.head <= pr.head /\ approval.head \in Nat /\ pr.head \in Nat
      BY <1>0 DEF Alone, TypeOK
    <2>1. CASE PushMain \/ PushHead
      <3>1. approval' = approval /\ pr'.head \in {pr.head, pr.head + 1}
        BY <1>0, <2>1 DEF PushMain, PushHead, Invalidated, TypeOK
      <3>2. QED
        BY <2>0, <3>1
    <2>2. CASE ConvertToDraft \/ ReadyForReview \/ ComputeMergeable
      <3>1. approval' = approval /\ pr'.head = pr.head
        BY <1>0, <2>2 DEF ConvertToDraft, ReadyForReview, ComputeMergeable, TypeOK
      <3>2. QED
        BY <2>0, <3>1
    <2>3. CASE ApproveByReview
      BY <2>0, <2>3 DEF ApproveByReview
    <2>4. CASE RequestChanges \/ ApproveByCommand
      <3>1. pr' = pr /\ approval'.head = approval.head
        BY <1>0, <2>4 DEF RequestChanges, ApproveByCommand, TypeOK
      <3>2. QED
        BY <2>0, <3>1
    <2>5. CASE pr' = pr /\ approval' = approval
      BY <2>0, <2>5
    <2>6. \/ PushMain \/ PushHead \/ ConvertToDraft \/ ReadyForReview \/ ComputeMergeable
          \/ ApproveByReview \/ RequestChanges \/ ApproveByCommand
          \/ pr' = pr /\ approval' = approval
      BY DEF Next, JobStep, CheckerStep, People, vars, StartRun, RunFails, Fetch, GiveUp,
             DropReApprove, AddNeedsRebase, CommentConflict, DropNeedsRebase, ListOpenPrs, DropLgtm,
             Collect, AddReApprove, Ping, ClearReApprove, OtherActivity, github
    <2>7. QED
      BY <2>1, <2>2, <2>3, <2>4, <2>5, <2>6
  <1>2. ASSUME ~raced' PROVE Turns'
    <2>1. CASE JobStep
      BY <1>2, <2>1, TurnStep
    <2>2. CASE People
      BY <1>2, <2>2, EventTurns
    <2>3. CASE ComputeMergeable
      <3>1. /\ pr'.conflict = pr.conflict /\ pr'.head = pr.head /\ pr'.fork = pr.fork
            /\ labels' = labels /\ approval' = approval /\ pc' = pc /\ seen' = seen
            /\ action' = action /\ pending' = pending
            /\ raced' = raced /\ owed' = owed /\ reapproved' = reapproved
        BY <1>0, <2>3 DEF ComputeMergeable, runs, history, TypeOK
      <3>2. Turns
        BY <1>2, <3>1 DEF IInv, Alone, Turns
      <3>3. Pays => Pays'
        BY <3>1 DEF Pays, Marked, AskedFor
      <3>4. QED
        BY <3>1, <3>2, <3>3 DEF Turns
    <2>4. CASE UNCHANGED vars
      <3>1. Turns
        BY <1>2, <2>4 DEF IInv, Alone, Turns, vars, history
      <3>2. QED
        BY <2>4, <3>1 DEF Turns, Pays, Marked, AskedFor, vars, github, runs, history
    <2>5. QED
      BY <2>1, <2>2, <2>3, <2>4 DEF Next
  <1>3. QED
    BY <1>1, <1>2 DEF Alone, Turns

-------------------------------------------------------------------------------
(* The inductive invariant, whatever people do and whichever runs fail.    *)
THEOREM Invariant == Spec => []IInv
  <1>1. IInv /\ [Next]_vars => IInv'
    BY TypeStep, OwnCallsStep, ViewStep, CommentsStep, UndisturbedStep, AloneStep DEF IInv
  <1>2. QED
    BY <1>1, InitHolds, PTL DEF Spec

(* The jobs of pr-needs-rebase.yaml make calls of their own only, on the   *)
(* labels there are.                                                       *)
THEOREM TypeCorrect == Spec => []TypeOK
  <1>1. IInv => TypeOK
    BY DEF IInv
  <1>2. QED
    BY <1>1, Invariant, PTL

(* "A cancelled or retried run cannot post duplicate comments": for any    *)
(* number of events, runs, cancellations and failures.                     *)
THEOREM OneComment == Spec => []CommentedOnce
  <1>1. IInv => CommentedOnce
    BY DEF IInv, CommentsFollow, CommentedOnce
  <1>2. QED
    BY <1>1, Invariant, PTL

(* A check that nothing disturbs repairs the labels whatever races, failed *)
(* runs and cancellations left behind.                                     *)
THEOREM ChecksRepair == Spec => []RestIsRight
  <1>1. IInv => RestIsRight
    <2> SUFFICES ASSUME IInv, Quiet, ~disturbed, ~pr.draft
                 PROVE  RightLabels
      BY DEF RestIsRight, RightLabels, Marked, AskedFor
    <2>1. \A j \in Checker : pc[j] = "idle"
      BY DEF Quiet, Checker, Job
    <2>2. QED
      BY <2>1 DEF IInv, Undisturbed
  <1>2. QED
    BY <1>1, Invariant, PTL

(* markUpdated and clearReApprove: as long as the runs take turns, every   *)
(* rebase of an approved pull request is followed by the request to        *)
(* approve it again, which an approval takes away that starts a run: any   *)
(* but a review of a head in a fork.                                       *)
THEOREM AsksAndClears == Spec => []AsksWhenAlone
  <1>1. IInv => AsksWhenAlone
    <2> SUFFICES ASSUME IInv, Quiet, ~raced
                 PROVE  ~owed /\ (reapproved # "no" => ByForksReview)
      BY DEF AsksWhenAlone
    <2>1. pc["single"] = "idle" /\ pc["clear"] = "idle"
      BY DEF Quiet, Job
    <2>2. QED
      BY <2>1 DEF IInv, Alone, Pays
  <1>2. QED
    BY <1>1, Invariant, PTL
===============================================================================
