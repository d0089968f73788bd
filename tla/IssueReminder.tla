----------------------------- MODULE IssueReminder -----------------------------
(***************************************************************************)
(* scripts/assigned-issue-reminder.py on one open issue, among people who  *)
(* comment, assign, label and open pull requests while a run is between    *)
(* its reads and its writes.  Time is counted in units that GitHub's       *)
(* timestamps tell apart, and passes between any two calls; the workflow   *)
(* serializes the runs.                                                    *)
(***************************************************************************)
EXTENDS Integers, FiniteSets

CONSTANTS Person,         \* who may be assigned
          RemindAfter,    \* REMIND_AFTER
          UnassignAfter,  \* UNASSIGN_AFTER
          Every,          \* from the time that a run takes as its now to the
                          \* end of the next: what the cron entry is to keep to
          MaxTime         \* bound on the times considered

ASSUME IssueReminderAssumption ==
  /\ RemindAfter \in Nat \ {0}
  /\ UnassignAfter \in Nat \ {0}
  /\ Every \in Nat \ {0}
  /\ MaxTime \in Nat

VARIABLES now,        \* the time
          assignees,  \* of the issue
          exempt,     \* does it carry a label of EXEMPT_LABELS
          hasPr,      \* has_pull_request(): linked, or mentioned by an assignee's
          helpWanted, \* does it carry the help wanted label
          activity,   \* when it last had a human comment or assignment, or was created
          reminder,   \* when the last reminder was posted
          pc,         \* the run's next call
          snap,       \* what the run has read, and its now
          reminders,  \* history: the reminders since the last activity
          mentioned,  \* history: whom the last reminder mentions
          late,       \* history: did anybody do anything while it was decided on
          touched,    \* history: has anybody done anything since the run's first read
          last,       \* history: the now of the last successful run left alone, or
                      \* the last activity when there has been none since
          missed      \* history: was there ever more than Every to the end of the next

issue   == <<assignees, exempt, hasPr, helpWanted, activity, reminder>>
warning == <<mentioned, late>>
history == <<reminders, warning, touched, last, missed>>
vars    == <<now, issue, pc, snap, history>>

Time == 0 .. MaxTime
None == -1     \* no reminder yet
Snapshot == [assignees : SUBSET Person, exempt : BOOLEAN, hasPr : BOOLEAN,
             activity : Time, reminder : Time \cup {None}, at : Time]
NothingRead == [assignees |-> {}, exempt |-> FALSE, hasPr |-> FALSE, activity |-> 0,
                reminder |-> None, at |-> 0]

TypeOK ==
  /\ now \in Time
  /\ assignees \subseteq Person
  /\ exempt \in BOOLEAN /\ hasPr \in BOOLEAN /\ helpWanted \in BOOLEAN
  /\ activity \in 0 .. now
  /\ reminder \in {None} \cup 0 .. now
  /\ pc \in {"idle", "pulls", "decide", "remind", "label", "unassign", "comment"}
  /\ snap \in Snapshot
  /\ reminders \in Nat
  /\ mentioned \subseteq Person
  /\ late \in BOOLEAN /\ touched \in BOOLEAN
  /\ last \in Time
  /\ missed \in BOOLEAN

Init ==
  /\ now = 0
  /\ assignees \in SUBSET Person
  /\ exempt = FALSE /\ hasPr = FALSE /\ helpWanted = FALSE
  /\ activity = 0 /\ reminder = None
  /\ pc = "idle" /\ snap = NothingRead
  /\ reminders = 0
  /\ mentioned = {} /\ late = FALSE
  /\ touched = FALSE
  /\ last = 0 /\ missed = FALSE

Goto(step) == pc' = step

(* A reminder r that no activity has answered; one of the same second has  *)
(* not.                                                                    *)
Stands(r, a) == r # None /\ r >= a

-------------------------------------------------------------------------------
(* A run.                                                                  *)

(* The query asks for assigned issues only.                                *)
ReadIssues ==
  /\ pc = "idle"
  /\ IF assignees = {}
       THEN last' = now /\ UNCHANGED <<pc, snap>>
       ELSE /\ snap' = [snap EXCEPT !.assignees = assignees, !.exempt = exempt,
                                    !.activity = activity, !.reminder = reminder]
            /\ Goto("pulls")
            /\ UNCHANGED last
  /\ UNCHANGED <<now, issue, reminders, warning, touched, missed>>

(* The run's now is taken after both reads, once for all issues.           *)
ReadPulls ==
  /\ pc = "pulls"
  /\ snap' = [snap EXCEPT !.hasPr = hasPr, !.at = now]
  /\ Goto("decide")
  /\ UNCHANGED <<now, issue, history>>

(* Our own reminder taken for a comment by the user whose token posted it. *)
Decision_ReminderIsActivity(s) ==
  LET active == IF Stands(s.reminder, s.activity) THEN s.reminder ELSE s.activity
  IN  IF ~(s.exempt \/ s.hasPr) /\ s.at - active >= RemindAfter THEN "remind" ELSE "none"

(* An action that ACTIONS has no entry for.                                *)
Decision_Unknown(s) ==
  IF s.at - s.activity >= RemindAfter THEN "warn" ELSE "none"

(* The grace period counted from the last activity.                        *)
Decision_GraceFromActivity(s) ==
  CASE s.exempt \/ s.hasPr -> "none"
    [] ~(s.exempt \/ s.hasPr) /\ Stands(s.reminder, s.activity) ->
         IF s.at - s.activity >= RemindAfter THEN "label" ELSE "none"
    [] OTHER -> IF s.at - s.activity >= RemindAfter THEN "remind" ELSE "none"

(* decide(): what to do first, if anything.                                *)
Decision(s) ==
  CASE s.exempt \/ s.hasPr -> "none"
    [] ~(s.exempt \/ s.hasPr) /\ Stands(s.reminder, s.activity) ->
         IF s.at - s.reminder >= UnassignAfter THEN "label" ELSE "none"
    [] OTHER -> IF s.at - s.activity >= RemindAfter THEN "remind" ELSE "none"

Leave == Goto("idle") /\ snap' = NothingRead /\ touched' = FALSE

Finish == Leave /\ last' = IF touched THEN last ELSE snap.at

Decide ==
  /\ pc = "decide"
  /\ IF Decision(snap) = "none" THEN Finish
                                ELSE Goto(Decision(snap)) /\ UNCHANGED <<snap, touched, last>>
  /\ UNCHANGED <<now, issue, reminders, warning, missed>>

Remind ==
  /\ pc = "remind"
  /\ reminder' = now
  /\ reminders' = reminders + 1
  /\ mentioned' = snap.assignees
  /\ late' = touched
  /\ Finish
  /\ UNCHANGED <<now, assignees, exempt, hasPr, helpWanted, activity, missed>>

(* unassign(): "last among the state changes so a failure leaves the issue *)
(* assigned and the next run retries".                                     *)
AddHelpWanted_Skipped ==
  /\ pc = "label"
  /\ Goto("unassign")
  /\ UNCHANGED <<now, issue, snap, history>>

AddHelpWanted ==
  /\ pc = "label"
  /\ helpWanted' = TRUE
  /\ Goto("unassign")
  /\ UNCHANGED <<now, assignees, exempt, hasPr, activity, reminder, snap, history>>

(* The assignees that were read.                                           *)
Removed == assignees \cap snap.assignees

Unassign ==
  /\ pc = "unassign"
  /\ assignees' = assignees \ Removed
  /\ Goto("comment")
  /\ UNCHANGED <<now, exempt, hasPr, helpWanted, activity, reminder, snap, history>>

(* UNASSIGN_BODY, which is no activity: it is a bot's.                     *)
CommentUnassigned ==
  /\ pc = "comment"
  /\ Finish
  /\ UNCHANGED <<now, issue, reminders, warning, missed>>

(* A call fails: counted for an ApiError, a traceback for anything else.   *)
RunFails ==
  /\ pc # "idle"
  /\ Leave
  /\ UNCHANGED <<now, issue, reminders, warning, last, missed>>

-------------------------------------------------------------------------------
(* What people do, and the time that passes.                               *)

Active ==
  /\ activity' = now
  /\ reminders' = 0
  /\ late' = (late \/ reminder = now)
  /\ touched' = (pc # "idle")
  /\ last' = now
  /\ missed' = FALSE
  /\ UNCHANGED mentioned

HumanComments ==
  /\ Active
  /\ UNCHANGED <<now, assignees, exempt, hasPr, helpWanted, reminder, pc, snap>>

(* An assigned event.                                                      *)
Assign(p) ==
  /\ Active
  /\ assignees' = assignees \cup {p}
  /\ UNCHANGED <<now, exempt, hasPr, helpWanted, reminder, pc, snap>>

(* Neither labels nor pull requests nor an unassignment are activity.      *)
ChangeIssue ==
  /\ \/ exempt' = ~exempt /\ UNCHANGED <<hasPr, assignees, helpWanted>>
     \/ hasPr' = ~hasPr /\ UNCHANGED <<exempt, assignees, helpWanted>>
     \/ \E p \in assignees :
          assignees' = assignees \ {p} /\ UNCHANGED <<exempt, hasPr, helpWanted>>
     \/ assignees # {} /\ helpWanted' = FALSE /\ UNCHANGED <<exempt, hasPr, assignees>>
  /\ touched' = (pc # "idle")
  /\ missed' = TRUE
  /\ UNCHANGED <<now, activity, reminder, pc, snap, reminders, warning, last>>

Tick ==
  /\ now < MaxTime
  /\ now' = now + 1
  /\ missed' = (missed \/ now' - last > Every)
  /\ UNCHANGED <<issue, pc, snap, reminders, warning, touched, last>>

Run ==
  \/ ReadIssues
  \/ ReadPulls
  \/ Decide
  \/ Remind
  \/ AddHelpWanted
  \/ Unassign
  \/ CommentUnassigned
  \/ RunFails

Next ==
  \/ Run
  \/ HumanComments
  \/ \E p \in Person : Assign(p)
  \/ ChangeIssue
  \/ Tick

Spec == Init /\ [][Next]_vars

-------------------------------------------------------------------------------
(* Nobody is unassigned without having been mentioned in a reminder and    *)
(* given the whole grace period, unless people were active just while one  *)
(* of the two runs went from its reads to its writes, or in the very       *)
(* second of the reminder, which counts as before it.                      *)
WarnedBeforeRemoval ==
  pc = "unassign" /\ ~touched /\ ~late =>
    /\ Stands(reminder, activity)
    /\ Removed \subseteq mentioned
    /\ reminder + UnassignAfter <= now

(* "Post one comment asking for an update": the silence of an issue is     *)
(* never met with two, whatever runs failed and however long it lasts; a   *)
(* comment made while a run decides may still leave one reminder behind.   *)
OneReminder == reminders <= 1

(* The script frees an issue that carries help wanted, whichever call of   *)
(* an earlier run failed, unless somebody takes the label off meanwhile.   *)
HelpWantedFirst == pc = "comment" /\ ~touched => helpWanted

(* As long as there is never more than Every from the now of a successful  *)
(* run to the end of the next, an issue nobody touches is free again once  *)
(* both periods are over, each run over by at most one such interval: the  *)
(* threshold may be met just after a run took its now, and the reminder,   *)
(* which starts the second period, is posted when the next one ends.       *)
FreedInTime ==
  ~missed /\ ~exempt /\ ~hasPr
    /\ now - activity >= RemindAfter + UnassignAfter + 2 * Every
    => assignees = {}
===============================================================================
