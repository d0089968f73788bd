----------------------------- MODULE NeedsRebase -----------------------------
(***************************************************************************)
(* The labels of one pull request under .github/scripts/pr-needs-rebase.cjs*)
(* and the three jobs of .github/workflows/pr-needs-rebase.yaml that run   *)
(* it.  The jobs share nothing but the pull request on GitHub: each reads  *)
(* it once, acts on that snapshot call by call, and may be overtaken or    *)
(* cancelled between two calls.  One pull request is enough, because a     *)
(* scan treats the others independently and may stop at any of them.       *)
(***************************************************************************)
EXTENDS Naturals, FiniteSets

CONSTANTS ForkOptions, \* is the head in another repository: the cases considered
          Faults,      \* may API calls fail, and may mergeability stay unknown
          MaxEvents    \* bound on what people do to the pull request

ASSUME NeedsRebaseAssumption ==
  ForkOptions \subseteq BOOLEAN /\ Faults \in BOOLEAN /\ MaxEvents \in Nat

VARIABLES labels,     \* the labels on the pull request
          pr,         \* its head (a counter of pushes), whether that is in a fork,
                      \* draft flag and conflict, and mergeable, GitHub's cached
                      \* view of the conflict
          approval,   \* what its reviews and approval commands amount to
          pc,         \* job -> the next call of its run
          seen,       \* job -> the snapshot its run acts on
          action,     \* what triggered the run of "single"
          cause,      \* what triggered the run of "clear"
          pending,    \* is another scan waiting in the concurrency group
          comments,   \* history: job -> its conflict comments since the label was put
          owed,       \* history: was an approved PR rebased, and not asked about yet
          reapproved, \* history: how it was last approved since re-approve was
                      \* put: "no", by a "review" or by a "command"
          disturbed,  \* history: did something disturb the last check
          raced,      \* history: did anything happen while a run was in progress
          events      \* the number of events so far

history == <<comments, owed, reapproved, disturbed, raced, events>>
github  == <<labels, pr, approval>>
runs    == <<pc, seen, action, cause, pending>>
vars    == <<github, runs, history>>

Label    == {"needs-rebase", "re-approve", "lgtm"}
Job      == {"scan", "single", "clear"}
Checker  == {"scan", "single"}
CallName == {"list", "fetch", "dropReApprove", "addNeedsRebase", "commentConflict",
             "dropNeedsRebase", "dropLgtm", "collect", "addReApprove", "ping"}
Snapshot == [mergeable : {"yes", "no"}, labels : SUBSET Label, head : Nat]
Unread   == [mergeable |-> "no", labels |-> {}, head |-> 0]

TypeOK ==
  /\ labels \in SUBSET Label
  /\ pr \in [head : Nat, fork : ForkOptions, draft : BOOLEAN, conflict : BOOLEAN,
             mergeable : {"yes", "no", "unknown"}]
  /\ approval \in [prior : BOOLEAN, changes : BOOLEAN, head : Nat]
  /\ pc \in [Job -> {"idle", "queued"} \cup CallName]
  /\ seen \in [Checker -> Snapshot]
  /\ action \in {"synchronize", "other"}
  /\ cause \in {"comment", "label", "review"}
  /\ pending \in BOOLEAN
  /\ comments \in [Checker -> Nat]
  /\ owed \in BOOLEAN /\ reapproved \in {"no", "review", "command"}
  /\ disturbed \in BOOLEAN /\ raced \in BOOLEAN
  /\ events \in 0 .. MaxEvents

Init ==
  /\ labels = {}
  /\ \E f \in ForkOptions :
       pr = [head |-> 1, fork |-> f, draft |-> FALSE, conflict |-> FALSE,
             mergeable |-> "yes"]
  /\ approval \in {[prior |-> FALSE, changes |-> FALSE, head |-> 0],
                   [prior |-> TRUE, changes |-> FALSE, head |-> 1]}
  /\ pc = [j \in Job |-> "idle"]
  /\ seen = [j \in Checker |-> Unread]
  /\ action = "other"
  /\ cause = "label"
  /\ pending = FALSE
  /\ comments = [j \in Checker |-> 0]
  /\ owed = FALSE /\ reapproved = "no"
  /\ disturbed = FALSE /\ raced = FALSE
  /\ events = 0

Running(j) == pc[j] \notin {"idle", "queued"}
Quiet == \A j \in Job : pc[j] = "idle"

-------------------------------------------------------------------------------
(* GitHub's scheduling of the jobs.                                        *)

(* A run gets its runner.  Its snapshot is still to be read, so whatever   *)
(* happened before does not matter to a check, unless the other is acting. *)
StartRun(j) ==
  /\ pc[j] = "queued"
  /\ pc' = [pc EXCEPT ![j] = CASE j = "scan" -> "list"
                               [] j = "single" -> "fetch"
                               [] j = "clear" -> "dropReApprove"]
  /\ disturbed' = IF j = "clear" THEN disturbed ELSE \E k \in Checker \ {j} : Running(k)
  /\ UNCHANGED <<github, seen, action, cause, pending, comments, owed,
                 reapproved, raced, events>>

(* A scan that waited behind the one that ends is queued in its place.     *)
Ended(j) == IF j = "scan" /\ pending THEN "queued" ELSE "idle"

Finish(j) ==
  /\ pc' = [pc EXCEPT ![j] = Ended(j)]
  /\ pending' = (pending /\ j # "scan")
  /\ UNCHANGED <<action, cause>>

Call(j, next) ==
  /\ pc' = [pc EXCEPT ![j] = next]
  /\ UNCHANGED <<action, cause, pending>>

(* An API call fails, or the runner is lost: the run ends where it is.     *)
RunFails(j) ==
  /\ Faults
  /\ Running(j)
  /\ Finish(j)
  /\ disturbed' = (disturbed \/ j # "clear")
  /\ raced' = TRUE
  /\ UNCHANGED <<github, seen, comments, owed, reapproved, events>>

-------------------------------------------------------------------------------
(* What the two checking jobs read.                                        *)

(* pulls.list and the filter on draft.                                     *)
ListOpenPrs ==
  /\ pc["scan"] = "list"
  /\ IF pr.draft THEN Finish("scan") ELSE Call("scan", "fetch")
  /\ UNCHANGED <<github, seen, history>>

HasNeedsRebase(j) == "needs-rebase" \in seen'[j].labels
HasReApprove(j) == "re-approve" \in seen'[j].labels

(* A conflict that is reported again although the label is there.          *)
FirstCall_ReportsAgain(j) ==
  CASE pr.mergeable = "yes" /\ HasNeedsRebase(j) -> "dropNeedsRebase"
    [] pr.mergeable = "no" -> "addNeedsRebase"
    [] OTHER -> "done"

(* A conflict on which an open request to approve again is left standing.  *)
FirstCall_KeepsReApprove(j) ==
  CASE pr.mergeable = "yes" /\ HasNeedsRebase(j) -> "dropNeedsRebase"
    [] pr.mergeable = "no" /\ ~HasNeedsRebase(j) -> "addNeedsRebase"
    [] OTHER -> "done"

(* A pull request found mergeable: only checkSinglePr goes on after the    *)
(* label is gone.  One found in conflict: applyNeedsRebase.                *)
FirstCall(j) ==
  CASE pr.mergeable = "yes" /\ HasNeedsRebase(j) -> "dropNeedsRebase"
    [] pr.mergeable = "no" /\ HasReApprove(j) -> "dropReApprove"
    [] pr.mergeable = "no" /\ ~HasReApprove(j) /\ ~HasNeedsRebase(j) -> "addNeedsRebase"
    [] OTHER -> "done"

(* A check that does not wait for the mergeability to be known.            *)
Fetch_NoRetry(j) ==
  /\ pc[j] = "fetch"
  /\ seen' = [seen EXCEPT ![j] = [mergeable |-> pr.mergeable, labels |-> labels,
                                  head |-> pr.head]]
  /\ IF FirstCall(j) = "done" THEN Finish(j) ELSE Call(j, FirstCall(j))
  /\ UNCHANGED <<github, history>>

(* pulls.get, repeated while mergeable is null.                            *)
Fetch(j) ==
  /\ pc[j] = "fetch"
  /\ pr.mergeable # "unknown"
  /\ seen' = [seen EXCEPT ![j] = [mergeable |-> pr.mergeable, labels |-> labels,
                                  head |-> pr.head]]
  /\ IF FirstCall(j) = "done" THEN Finish(j) ELSE Call(j, FirstCall(j))
  /\ UNCHANGED <<github, history>>

(* Still null after the last attempt: the run ends and does nothing.       *)
GiveUp(j) ==
  /\ Faults
  /\ pc[j] = "fetch"
  /\ pr.mergeable = "unknown"
  /\ Finish(j)
  /\ disturbed' = TRUE /\ raced' = TRUE
  /\ UNCHANGED <<github, seen, comments, owed, reapproved, events>>

-------------------------------------------------------------------------------
(* applyNeedsRebase, in both jobs.                                         *)

DropReApprove(j) ==
  /\ pc[j] = "dropReApprove"
  /\ labels' = labels \ {"re-approve"}
  /\ reapproved' = "no"
  /\ IF "needs-rebase" \in seen[j].labels THEN Finish(j) ELSE Call(j, "addNeedsRebase")
  /\ UNCHANGED <<pr, approval, seen, comments, owed, disturbed, raced, events>>

(* The label comes before the comment, "so a cancelled or retried run      *)
(* cannot post duplicate comments".                                        *)
AddNeedsRebase(j) ==
  /\ pc[j] = "addNeedsRebase"
  /\ labels' = labels \cup {"needs-rebase"}
  /\ comments' = IF "needs-rebase" \in labels THEN comments ELSE [k \in Checker |-> 0]
  /\ owed' = FALSE
  /\ Call(j, "commentConflict")
  /\ UNCHANGED <<pr, approval, seen, reapproved, disturbed, raced, events>>

CommentConflict(j) ==
  /\ pc[j] = "commentConflict"
  /\ comments' = [comments EXCEPT ![j] = @ + 1]
  /\ Finish(j)
  /\ UNCHANGED <<github, seen, owed, reapproved, disturbed, raced, events>>

-------------------------------------------------------------------------------
(* A pull request found free of conflicts.                                 *)

DropNeedsRebase(j) ==
  /\ pc[j] = "dropNeedsRebase"
  /\ labels' = labels \ {"needs-rebase"}
  /\ CASE j = "scan" -> Finish(j)
       [] j = "single" /\ action = "synchronize" /\ "lgtm" \in seen[j].labels
            -> Call(j, "dropLgtm")
       [] OTHER -> Call(j, "collect")
  /\ UNCHANGED <<pr, approval, seen, history>>

DropLgtm ==
  /\ pc["single"] = "dropLgtm"
  /\ labels' = labels \ {"lgtm"}
  /\ Call("single", "collect")
  /\ UNCHANGED <<pr, approval, seen, history>>

ApprovedOnHead(head) == approval.head = head

(* Any approving review counts as one of the head, whatever its commit_id. *)
WantsReApproval_AnyCommit(s) ==
  /\ approval.prior
  /\ ~approval.changes
  /\ approval.head = 0
  /\ "re-approve" \notin s.labels

(* collectApprovalState and the condition on its result.  What it makes of *)
(* the reviews, label events and comments is abstracted to approval.       *)
WantsReApproval(s) ==
  /\ approval.prior
  /\ ~approval.changes
  /\ ~ApprovedOnHead(s.head)
  /\ "re-approve" \notin s.labels

Collect ==
  /\ pc["single"] = "collect"
  /\ IF WantsReApproval(seen["single"]) THEN Call("single", "addReApprove")
                                        ELSE Finish("single")
  /\ UNCHANGED <<github, seen, history>>

AddReApprove ==
  /\ pc["single"] = "addReApprove"
  /\ labels' = labels \cup {"re-approve"}
  /\ owed' = FALSE
  /\ reapproved' = IF "re-approve" \in labels THEN reapproved ELSE "no"
  /\ Call("single", "ping")
  /\ UNCHANGED <<pr, approval, seen, comments, disturbed, raced, events>>

Ping ==
  /\ pc["single"] = "ping"
  /\ Finish("single")
  /\ UNCHANGED <<github, seen, history>>

(* clearReApprove, once the comment's author is known to be allowed.       *)
ClearReApprove ==
  /\ pc["clear"] = "dropReApprove"
  /\ labels' = labels \ {"re-approve"}
  /\ reapproved' = "no"
  /\ Finish("clear")
  /\ UNCHANGED <<pr, approval, seen, comments, owed, disturbed, raced, events>>

-------------------------------------------------------------------------------
(* What happens to the pull request, and the runs GitHub starts for it.    *)

(* An event counts as a disturbance of the checks that are in progress.    *)
Event ==
  /\ events < MaxEvents
  /\ events' = events + 1
  /\ disturbed' = (disturbed \/ \E j \in Checker : Running(j))
  /\ raced' = (raced \/ ~Quiet)

(* cancel-in-progress: the run that is there makes room for the new one.   *)
Trigger(j) == pc' = [pc EXCEPT ![j] = "queued"]

(* GitHub invalidates its mergeability, and computes it again on demand.   *)
Invalidated(conflict) == [pr EXCEPT !.conflict = conflict, !.mergeable = "unknown"]

(* A push to main: a scan, which never cancels the one in progress.        *)
PushMain ==
  /\ Event
  /\ \E c \in BOOLEAN : pr' = Invalidated(c)
  /\ IF pc["scan"] = "idle" THEN Trigger("scan") /\ UNCHANGED pending
     ELSE pending' = (pending \/ Running("scan")) /\ UNCHANGED pc
  /\ owed' = (owed /\ ~pr'.conflict)
  /\ UNCHANGED <<labels, approval, seen, action, cause, comments, reapproved>>

(* The workflow-level group cancels the run of the previous event of the   *)
(* same kind before the job-level condition is looked at.                  *)
CancelledBy(a) == IF action = a THEN "idle" ELSE pc["single"]

(* A push to the pull request.  The workflow prow-pr-remove-lgtm may take  *)
(* the lgtm label away; it cannot for a fork.                              *)
PushHead ==
  /\ Event
  /\ \E c \in BOOLEAN : pr' = [Invalidated(c) EXCEPT !.head = @ + 1]
  /\ \/ UNCHANGED labels
     \/ ~pr.fork /\ labels' = labels \ {"lgtm"}
  /\ owed' = /\ ~pr'.conflict
             /\ \/ owed
                \/ /\ ~pr.draft
                   /\ "needs-rebase" \in labels /\ "re-approve" \notin labels
                   /\ approval.prior /\ ~approval.changes
  /\ IF pr.draft THEN /\ pc' = [pc EXCEPT !["single"] = CancelledBy("synchronize")]
                      /\ UNCHANGED action
                 ELSE Trigger("single") /\ action' = "synchronize"
  /\ UNCHANGED <<approval, seen, cause, pending, comments, reapproved>>

ConvertToDraft ==
  /\ Event
  /\ ~pr.draft
  /\ pr' = [pr EXCEPT !.draft = TRUE]
  /\ UNCHANGED <<labels, approval, runs, comments, owed, reapproved>>

(* ready_for_review; a reopened pull request triggers the same run.        *)
ReadyForReview ==
  /\ Event
  /\ pr' = [pr EXCEPT !.draft = FALSE]
  /\ Trigger("single")
  /\ action' = "other"
  /\ UNCHANGED <<labels, approval, seen, cause, pending, comments, owed,
                 reapproved>>

(* Here too the condition decides whether the event starts clearReApprove, *)
(* and the workflow-level group cancels the previous run in either case.   *)
ClearOn(kind, wanted) ==
  /\ IF wanted /\ "re-approve" \in labels
     THEN Trigger("clear") /\ cause' = kind
     ELSE /\ pc' = [pc EXCEPT !["clear"] = IF cause = kind THEN "idle" ELSE @]
          /\ UNCHANGED cause
  /\ UNCHANGED <<seen, action, pending>>

Approves(how) ==
  /\ reapproved' = IF "re-approve" \in labels THEN how ELSE "no"
  /\ owed' = FALSE

(* An approving review, which counts for the head it was made on; for a    *)
(* fork its run would have no permission to write, so it has none.         *)
ApproveByReview ==
  /\ Event
  /\ Approves("review")
  /\ approval' = [prior |-> TRUE, changes |-> FALSE, head |-> pr.head]
  /\ ClearOn("review", ~pr.fork)
  /\ UNCHANGED <<labels, pr, comments>>

RequestChanges ==
  /\ Event
  /\ approval' = [approval EXCEPT !.prior = FALSE, !.changes = TRUE]
  /\ owed' = FALSE
  /\ reapproved' = "no"
  /\ ClearOn("review", FALSE)
  /\ UNCHANGED <<labels, pr, comments>>

(* /lgtm in a comment, or the lgtm label put by hand: no head on record.   *)
ApproveByCommand ==
  /\ Event
  /\ Approves("command")
  /\ approval' = [approval EXCEPT !.prior = ~approval.changes]
  /\ labels' = labels \cup {"lgtm"}
  /\ \E kind \in {"comment", "label"} : ClearOn(kind, TRUE)
  /\ UNCHANGED <<pr, comments>>

(* Any other comment, or any other label.                                  *)
OtherActivity ==
  /\ Event
  /\ \E kind \in {"comment", "label"} : ClearOn(kind, FALSE)
  /\ UNCHANGED <<github, comments, owed, reapproved>>

(* GitHub's test merge.                                                    *)
ComputeMergeable ==
  /\ pr.mergeable = "unknown"
  /\ pr' = [pr EXCEPT !.mergeable = IF pr.conflict THEN "no" ELSE "yes"]
  /\ UNCHANGED <<labels, approval, runs, history>>

-------------------------------------------------------------------------------
CheckerStep(j) ==
  \/ Fetch(j)
  \/ GiveUp(j)
  \/ DropReApprove(j)
  \/ AddNeedsRebase(j)
  \/ CommentConflict(j)
  \/ DropNeedsRebase(j)

JobStep ==
  \/ \E j \in Job : StartRun(j) \/ RunFails(j)
  \/ \E j \in Checker : CheckerStep(j)
  \/ ListOpenPrs
  \/ DropLgtm
  \/ Collect
  \/ AddReApprove
  \/ Ping
  \/ ClearReApprove

People ==
  \/ PushMain
  \/ PushHead
  \/ ConvertToDraft
  \/ ReadyForReview
  \/ ApproveByReview
  \/ RequestChanges
  \/ ApproveByCommand
  \/ OtherActivity

(* Everybody may have finished: nothing has to happen to a pull request.   *)
Next == JobStep \/ People \/ ComputeMergeable

Spec == Init /\ [][Next]_vars

-------------------------------------------------------------------------------
(* Every run that is left alone repairs what earlier races left behind: at *)
(* rest after it, a pull request that is not a draft carries needs-rebase  *)
(* if and only if it has conflicts, and never re-approve besides.          *)
RestIsRight ==
  Quiet /\ ~disturbed /\ ~pr.draft =>
    /\ "needs-rebase" \in labels <=> pr.conflict
    /\ pr.conflict => "re-approve" \notin labels

(* The review of a pull request from a fork starts no run.                 *)
ByForksReview == pr.fork /\ reapproved = "review"

(* As long as nothing happens while a run is in progress, a rebase of an   *)
(* approved pull request is always followed by the request to approve it   *)
(* again, and the label is gone after a new approval by a comment or by a  *)
(* label, or, unless the head is in a fork, by a review.                   *)
AsksWhenAlone == Quiet /\ ~raced => ~owed /\ (reapproved # "no" => ByForksReview)

(* "a cancelled or retried run cannot post duplicate comments": a job      *)
(* comments once for each time the label is put, however often its runs    *)
(* are cancelled, fail and start over, and whatever the other jobs do.     *)
CommentedOnce == \A j \in Checker : comments[j] <= 1

(* The workflow's header, item 2: when a pull request with needs-rebase is *)
(* updated and conflict-free, re-approve is added if it was approved.      *)
AsksForReApproval == Quiet /\ ~pr.draft /\ pr.mergeable = "yes" => ~owed

(* The workflow's header, item 3: re-approve is removed once the pull      *)
(* request is re-approved.                                                 *)
ClearsReApproval == Quiet => reapproved = "no"
===============================================================================
