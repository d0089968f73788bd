-------------------------- MODULE IssueReminder_proofs -------------------------
(***************************************************************************)
(* The promises of the reminder, for any people, periods, times between    *)
(* runs and bound on the time.  A run acts on what it read, so the         *)
(* invariant says how far that still holds: all of it until somebody does  *)
(* something, and the reminder even then, because no other run posts one.  *)
(***************************************************************************)
EXTENDS IssueReminder, TLAPS

Standing == Stands(reminder, activity)

(* A reminder since the last activity stands.                              *)
StandingCounts ==
  /\ reminders \in {0, 1}
  /\ reminders = 1 => Standing

(* What the run is about to do is what it decided on.                      *)
ActsOnDecision ==
  /\ pc = "remind" => Decision(snap) = "remind"
  /\ pc \in {"label", "unassign", "comment"} => Decision(snap) = "label"

(* What was read stays behind, never ahead, and until somebody does        *)
(* something it is what there is, but for what the run itself changes.     *)
SnapIsFresh ==
  /\ pc # "idle" => snap.reminder = reminder /\ snap.activity <= activity
  /\ pc \notin {"idle", "pulls"} => snap.at <= now
  /\ pc # "idle" /\ ~touched =>
       /\ snap.exempt = exempt
       /\ snap.activity = activity
       /\ pc # "comment" => snap.assignees = assignees
       /\ pc = "comment" => assignees = {}
       /\ pc # "pulls" => snap.hasPr = hasPr /\ last <= snap.at
       /\ pc \in {"unassign", "comment"} => helpWanted

(* A reminder that nobody did anything before names everybody assigned.    *)
EverybodyMentioned == Standing /\ ~late => assignees \subseteq mentioned

(* The last successful run found its period not over, and with the next in *)
(* time neither period runs over by more than Every.                       *)
PeriodsHold ==
  /\ activity <= last /\ last <= now
  /\ ~missed => now - last <= Every
  /\ ~missed /\ ~exempt /\ ~hasPr /\ assignees # {} =>
       /\ ~Standing => last < activity + RemindAfter
       /\ Standing => /\ reminder < activity + RemindAfter + Every
                      /\ last < reminder + UnassignAfter

IInv ==
  /\ TypeOK
  /\ StandingCounts
  /\ ActsOnDecision
  /\ SnapIsFresh
  /\ EverybodyMentioned
  /\ PeriodsHold
-------------------------------------------------------------------------------
(* decide(), case by case.                                                 *)
LEMMA Decisions ==
  ASSUME NEW s \in Snapshot
  PROVE  /\ Decision(s) \in {"none", "remind", "label"}
         /\ Decision(s) = "remind" => /\ ~Stands(s.reminder, s.activity)
                                      /\ s.at - s.activity >= RemindAfter
         /\ Decision(s) = "label" => /\ Stands(s.reminder, s.activity)
                                     /\ s.at - s.reminder >= UnassignAfter
         /\ Decision(s) = "none" /\ ~s.exempt /\ ~s.hasPr =>
              /\ Stands(s.reminder, s.activity) => ~(s.at - s.reminder >= UnassignAfter)
              /\ ~Stands(s.reminder, s.activity) => ~(s.at - s.activity >= RemindAfter)
  BY DEF Decision, Snapshot

(* What the types say of the numbers.                                      *)
LEMMA Numbers ==
  ASSUME TypeOK
  PROVE  /\ now \in Nat /\ last \in Nat
         /\ activity \in Nat /\ activity <= now
         /\ reminder \in Int /\ reminder <= now
         /\ Standing <=> reminder >= activity
         /\ snap.at \in Nat /\ snap.activity \in Nat /\ snap.reminder \in Int
         /\ RemindAfter \in Nat /\ RemindAfter > 0
         /\ UnassignAfter \in Nat /\ UnassignAfter > 0
         /\ Every \in Nat /\ Every > 0
  BY IssueReminderAssumption DEF TypeOK, Time, None, Snapshot, Standing, Stands

LEMMA NothingIsRead == NothingRead \in Snapshot
  BY IssueReminderAssumption DEF NothingRead, Snapshot, Time

(* The beginning.                                                          *)
LEMMA InitHolds == Init => IInv
  <1> SUFFICES ASSUME Init PROVE IInv
    OBVIOUS
  <1> USE DEF Init
  <1>1. 0 \in Time /\ 0 \in 0 .. 0
    BY IssueReminderAssumption DEF Time
  <1>2. TypeOK
    BY <1>1, NothingIsRead DEF TypeOK
  <1>3. StandingCounts /\ ActsOnDecision /\ SnapIsFresh
    BY DEF StandingCounts, ActsOnDecision, SnapIsFresh
  <1>4. ~Standing
    BY DEF Standing, Stands
  <1>5. PeriodsHold
    BY <1>4, IssueReminderAssumption DEF PeriodsHold
  <1>6. QED
    BY <1>2, <1>3, <1>4, <1>5 DEF IInv, EverybodyMentioned

-------------------------------------------------------------------------------
(* The two halves of TypeOK, the flags and the rest.                       *)
Flags ==
  /\ exempt \in BOOLEAN /\ hasPr \in BOOLEAN /\ helpWanted \in BOOLEAN
  /\ late \in BOOLEAN /\ touched \in BOOLEAN
  /\ missed \in BOOLEAN

Rest ==
  /\ now \in Time
  /\ assignees \subseteq Person
  /\ activity \in 0 .. now
  /\ reminder \in {None} \cup 0 .. now
  /\ pc \in {"idle", "pulls", "decide", "remind", "label", "unassign", "comment"}
  /\ snap \in Snapshot
  /\ reminders \in Nat
  /\ mentioned \subseteq Person
  /\ last \in Time

(* The types are inductive by themselves.                                  *)
LEMMA TypeStep == TypeOK /\ [Next]_vars => TypeOK'
  <1> SUFFICES ASSUME TypeOK, [Next]_vars
               PROVE  TypeOK'
    OBVIOUS
  <1>1. Flags /\ Rest
    BY DEF TypeOK, Flags, Rest
  <1>2. now \in 0 .. now /\ activity \in Time /\ reminder \in Time \cup {None}
        /\ snap.at \in Time
    BY <1>1, IssueReminderAssumption DEF Rest, Time, Snapshot
  <1>3. Flags'
    <2> USE <1>1 DEF Flags, Goto, Leave, Finish, Active, issue, history, warning
    <2>1. CASE ReadIssues
      BY <2>1 DEF ReadIssues
    <2>2. CASE ReadPulls
      BY <2>2 DEF ReadPulls
    <2>3. CASE Decide
      BY <2>3 DEF Decide
    <2>4. CASE Remind
      BY <2>4 DEF Remind
    <2>5. CASE AddHelpWanted
      BY <2>5 DEF AddHelpWanted
    <2>6. CASE Unassign
      BY <2>6 DEF Unassign
    <2>7. CASE CommentUnassigned
      BY <2>7 DEF CommentUnassigned
    <2>8. CASE RunFails
      BY <2>8 DEF RunFails
    <2>9. CASE HumanComments
      BY <2>9 DEF HumanComments
    <2>10. CASE ChangeIssue
      BY <2>10 DEF ChangeIssue
    <2>11. CASE Tick
      BY <2>11 DEF Tick
    <2>12. CASE \E p \in Person : Assign(p)
      BY <2>12 DEF Assign
    <2>13. CASE UNCHANGED vars
      BY <2>13 DEF vars
    <2>14. QED
      BY <2>1, <2>2, <2>3, <2>4, <2>5, <2>6, <2>7, <2>8, <2>9, <2>10, <2>11, <2>12,
         <2>13 DEF Next, Run
  <1>4. Rest'
    <2> USE <1>1, NothingIsRead DEF Rest, Goto, Leave, Finish, Active, issue, history, warning
    <2>1. CASE ReadIssues
      <3>1. snap' \in Snapshot
        BY <2>1, <1>2 DEF ReadIssues, Flags, Snapshot
      <3>2. QED
        BY <2>1, <3>1 DEF ReadIssues
    <2>2. CASE ReadPulls
      <3>1. snap' \in Snapshot
        BY <2>2 DEF ReadPulls, Flags, Snapshot
      <3>2. QED
        BY <2>2, <3>1 DEF ReadPulls
    <2>3. CASE Decide
      <3>1. pc' \in {"idle", "remind", "label"} /\ snap' \in Snapshot /\ last' \in Time
        BY <1>2, <2>3, Decisions DEF Decide
      <3>2. QED
        BY <2>3, <3>1 DEF Decide
    <2>4. CASE Remind
      <3>1. pc' = "idle" /\ reminders' \in Nat /\ last' \in Time /\ snap' \in Snapshot
        BY <1>2, <2>4 DEF Remind
      <3>2. now' \in Time /\ activity' \in 0 .. now' /\ reminder' \in 0 .. now'
        BY <1>2, <2>4 DEF Remind
      <3>3. assignees' \subseteq Person /\ mentioned' \subseteq Person
        BY <2>4 DEF Remind, Snapshot
      <3>4. QED
        BY <3>1, <3>2, <3>3
    <2>5. CASE AddHelpWanted
      BY <2>5 DEF AddHelpWanted
    <2>6. CASE Unassign
      BY <2>6 DEF Unassign
    <2>7. CASE CommentUnassigned
      BY <1>2, <2>7 DEF CommentUnassigned
    <2>8. CASE RunFails
      BY <2>8 DEF RunFails
    <2>9. CASE HumanComments
      BY <1>2, <2>9 DEF HumanComments
    <2>10. CASE ChangeIssue
      BY <2>10 DEF ChangeIssue
    <2>11. CASE Tick
      <3>1. now' \in Time /\ 0 .. now \subseteq 0 .. now'
        BY <2>11, IssueReminderAssumption DEF Tick, Time
      <3>2. QED
        BY <2>11, <3>1 DEF Tick
    <2>12. CASE \E p \in Person : Assign(p)
      BY <1>2, <2>12 DEF Assign
    <2>13. CASE UNCHANGED vars
      BY <2>13 DEF vars
    <2>14. QED
      BY <2>1, <2>2, <2>3, <2>4, <2>5, <2>6, <2>7, <2>8, <2>9, <2>10, <2>11, <2>12,
         <2>13 DEF Next, Run
  <1>5. QED
    BY <1>3, <1>4 DEF TypeOK, Flags, Rest

-------------------------------------------------------------------------------
(* The rest of the invariant, action by action.                            *)
Kept == StandingCounts /\ ActsOnDecision /\ SnapIsFresh /\ EverybodyMentioned /\ PeriodsHold

(* A run that ends holds nothing it read.                                  *)
LEMMA RunEnds ==
  ASSUME Leave
  PROVE  ActsOnDecision' /\ SnapIsFresh'
  BY DEF Leave, Goto, ActsOnDecision, SnapIsFresh

LEMMA ReadIssuesKeeps ==
  ASSUME IInv, ReadIssues
  PROVE  Kept'
  <1> USE DEF ReadIssues, issue, history, warning, Goto, Standing
  <1>1. StandingCounts' /\ EverybodyMentioned'
    BY DEF IInv, StandingCounts, EverybodyMentioned
  <1>2. CASE assignees = {}
    <2>1. ActsOnDecision' /\ SnapIsFresh'
      BY <1>2 DEF ActsOnDecision, SnapIsFresh
    <2>2. now - now <= Every
      BY Numbers DEF IInv
    <2>3. PeriodsHold'
      BY <1>2, <2>2, Numbers DEF IInv, PeriodsHold
    <2>4. QED
      BY <1>1, <2>1, <2>3 DEF Kept
  <1>3. CASE assignees # {}
    <2>1. pc' = "pulls" /\ UNCHANGED last
      BY <1>3
    <2>2. /\ snap'.assignees = assignees /\ snap'.exempt = exempt
          /\ snap'.activity = activity /\ snap'.reminder = reminder
      BY <1>3 DEF IInv, TypeOK, Snapshot
    <2>3. SnapIsFresh' /\ ActsOnDecision'
      BY <2>1, <2>2, Numbers DEF IInv, SnapIsFresh, ActsOnDecision
    <2>4. PeriodsHold'
      BY <2>1 DEF IInv, PeriodsHold
    <2>5. QED
      BY <1>1, <2>3, <2>4 DEF Kept
  <1>4. QED
    BY <1>2, <1>3

LEMMA ReadPullsKeeps ==
  ASSUME IInv, ReadPulls
  PROVE  Kept'
  <1> USE DEF ReadPulls, issue, history, warning, Goto, Standing
  <1>1. StandingCounts' /\ EverybodyMentioned' /\ PeriodsHold'
    BY DEF IInv, StandingCounts, EverybodyMentioned, PeriodsHold
  <1>2. /\ snap'.assignees = snap.assignees /\ snap'.exempt = snap.exempt
        /\ snap'.activity = snap.activity /\ snap'.reminder = snap.reminder
        /\ snap'.hasPr = hasPr /\ snap'.at = now
    BY DEF IInv, TypeOK, Snapshot
  <1>3. pc = "pulls" /\ pc' = "decide"
    OBVIOUS
  <1>4. last <= now /\ now <= now
    BY Numbers DEF IInv, PeriodsHold
  <1>5. SnapIsFresh'
    BY <1>2, <1>3, <1>4 DEF IInv, SnapIsFresh
  <1>6. ActsOnDecision'
    BY <1>3 DEF ActsOnDecision
  <1>7. QED
    BY <1>1, <1>5, <1>6 DEF Kept

LEMMA DecideKeeps ==
  ASSUME IInv, Decide
  PROVE  Kept'
  <1> USE DEF Decide, issue, history, warning, Goto, Standing
  <1>1. snap \in Snapshot /\ pc = "decide"
    BY DEF IInv, TypeOK
  <1>2. StandingCounts' /\ EverybodyMentioned'
    BY DEF IInv, StandingCounts, EverybodyMentioned
  <1>3. CASE Decision(snap) = "none"
    <2>1. Finish
      BY <1>3
    <2>2. ActsOnDecision' /\ SnapIsFresh'
      BY <2>1, RunEnds DEF Finish
    <2>3. CASE touched
      BY <1>2, <2>1, <2>2, <2>3 DEF IInv, PeriodsHold, Finish, Kept
    <2>4. CASE ~touched
      <3>1. /\ snap.exempt = exempt /\ snap.hasPr = hasPr
            /\ snap.activity = activity /\ snap.reminder = reminder
            /\ last <= snap.at /\ snap.at <= now
        BY <1>1, <2>4 DEF IInv, SnapIsFresh
      <3>2. ~exempt /\ ~hasPr =>
              /\ Standing => snap.at < reminder + UnassignAfter
              /\ ~Standing => snap.at < activity + RemindAfter
        BY <1>1, <1>3, <3>1, Decisions, Numbers DEF IInv
      <3>3. last' = snap.at
        BY <2>1, <2>4 DEF Finish
      <3>4. ~missed => now - snap.at <= Every
        BY <3>1, Numbers DEF IInv, PeriodsHold
      <3>5. activity <= snap.at
        BY <3>1, Numbers DEF IInv, PeriodsHold
      <3>6. PeriodsHold'
        BY <3>1, <3>2, <3>3, <3>4, <3>5 DEF IInv, PeriodsHold
      <3>7. QED
        BY <1>2, <2>2, <3>6 DEF Kept
    <2>5. QED
      BY <2>3, <2>4
  <1>4. CASE Decision(snap) # "none"
    <2>1. /\ pc' = Decision(snap) /\ pc' \in {"remind", "label"}
          /\ UNCHANGED <<snap, touched, last>>
      BY <1>1, <1>4, Decisions
    <2>2. Decision(snap)' = Decision(snap)
      BY <2>1 DEF Decision
    <2>3. ActsOnDecision'
      BY <2>1, <2>2 DEF ActsOnDecision
    <2>4. SnapIsFresh'
      BY <1>1, <2>1 DEF IInv, SnapIsFresh
    <2>5. PeriodsHold'
      BY <2>1 DEF IInv, PeriodsHold
    <2>6. QED
      BY <1>2, <2>3, <2>4, <2>5 DEF Kept
  <1>5. QED
    BY <1>3, <1>4

LEMMA RemindKeeps ==
  ASSUME IInv, Remind
  PROVE  Kept'
  <1> USE DEF Remind, issue, history, warning
  <1>1. snap \in Snapshot /\ pc = "remind"
    BY DEF IInv, TypeOK
  <1>2. ~Standing
    <2>1. ~Stands(snap.reminder, snap.activity)
      BY <1>1, Decisions DEF IInv, ActsOnDecision
    <2>2. snap.reminder = reminder /\ snap.activity <= activity
      BY <1>1 DEF IInv, SnapIsFresh
    <2>3. QED
      BY <2>1, <2>2, Numbers, <1>1 DEF IInv, Stands, Standing
  <1>3. Standing'
    BY Numbers, IssueReminderAssumption DEF IInv, Standing, Stands, None
  <1>4. StandingCounts'
    BY <1>2, <1>3 DEF IInv, StandingCounts
  <1>5. ActsOnDecision' /\ SnapIsFresh'
    BY RunEnds DEF Finish
  <1>6. EverybodyMentioned'
    BY <1>1 DEF IInv, EverybodyMentioned, SnapIsFresh
  <1>7. last <= last' /\ last' <= now
    BY <1>1, Numbers DEF IInv, SnapIsFresh, PeriodsHold, Finish, TypeOK
  <1>8. ~missed /\ ~exempt /\ ~hasPr /\ assignees # {} => now < activity + RemindAfter + Every
    BY <1>2, Numbers DEF IInv, PeriodsHold
  <1>9. last' \in Nat
    BY Numbers DEF IInv, Finish
  <1>10. last' < now + UnassignAfter /\ activity <= last' /\ (~missed => now - last' <= Every)
    BY <1>7, <1>9, Numbers DEF IInv, PeriodsHold
  <1>11. PeriodsHold'
    BY <1>3, <1>7, <1>8, <1>10 DEF PeriodsHold
  <1>12. QED
    BY <1>4, <1>5, <1>6, <1>11 DEF Kept

LEMMA AddHelpWantedKeeps ==
  ASSUME IInv, AddHelpWanted
  PROVE  Kept'
  <1> USE DEF AddHelpWanted, issue, history, warning, Goto, Standing
  <1>1. StandingCounts' /\ EverybodyMentioned' /\ PeriodsHold'
    BY DEF IInv, StandingCounts, EverybodyMentioned, PeriodsHold
  <1>2. ActsOnDecision'
    BY DEF IInv, ActsOnDecision, Decision
  <1>3. SnapIsFresh'
    BY DEF IInv, SnapIsFresh
  <1>4. QED
    BY <1>1, <1>2, <1>3 DEF Kept

LEMMA UnassignKeeps ==
  ASSUME IInv, Unassign
  PROVE  Kept'
  <1> USE DEF Unassign, issue, history, warning, Goto, Standing
  <1>1. StandingCounts' /\ EverybodyMentioned' /\ PeriodsHold'
    BY DEF IInv, StandingCounts, EverybodyMentioned, PeriodsHold
  <1>2. ActsOnDecision'
    BY DEF IInv, ActsOnDecision, Decision
  <1>3. SnapIsFresh'
    BY DEF IInv, SnapIsFresh, Removed
  <1>4. QED
    BY <1>1, <1>2, <1>3 DEF Kept

LEMMA CommentUnassignedKeeps ==
  ASSUME IInv, CommentUnassigned
  PROVE  Kept'
  <1> USE DEF CommentUnassigned, issue, history, warning, Standing
  <1>1. StandingCounts' /\ EverybodyMentioned'
    BY DEF IInv, StandingCounts, EverybodyMentioned
  <1>2. ActsOnDecision' /\ SnapIsFresh'
    BY RunEnds DEF Finish
  <1>3. CASE touched
    BY <1>1, <1>2, <1>3 DEF IInv, PeriodsHold, Finish, Kept
  <1>4. CASE ~touched
    <2>1. assignees = {} /\ last <= snap.at /\ snap.at <= now
      BY <1>4 DEF IInv, SnapIsFresh
    <2>2. last' = snap.at
      BY <1>4 DEF Finish
    <2>3. /\ activity <= snap.at
          /\ ~missed => now - snap.at <= Every
      BY <2>1, Numbers DEF IInv, PeriodsHold
    <2>4. PeriodsHold'
      BY <2>1, <2>2, <2>3 DEF PeriodsHold
    <2>5. QED
      BY <1>1, <1>2, <2>4 DEF Kept
  <1>5. QED
    BY <1>3, <1>4

LEMMA RunFailsKeeps ==
  ASSUME IInv, RunFails
  PROVE  Kept'
  <1> USE DEF RunFails, issue, history, warning, Standing
  <1>1. StandingCounts' /\ EverybodyMentioned' /\ PeriodsHold'
    BY DEF IInv, StandingCounts, EverybodyMentioned, PeriodsHold
  <1>2. QED
    BY <1>1, RunEnds DEF Kept

(* Activity starts everything anew, but for a reminder of the same second. *)
LEMMA ActiveKeeps ==
  ASSUME IInv, Active, now' = now, pc' = pc, snap' = snap, reminder' = reminder,
         exempt' = exempt, hasPr' = hasPr, helpWanted' = helpWanted
  PROVE  StandingCounts' /\ ActsOnDecision' /\ SnapIsFresh' /\ PeriodsHold'
  <1> USE DEF Active
  <1>1. Standing' => reminder = now
    BY Numbers DEF IInv, Standing, Stands
  <1>2. StandingCounts'
    BY DEF StandingCounts
  <1>3. ActsOnDecision'
    BY DEF IInv, ActsOnDecision, Decision
  <1>4. SnapIsFresh'
    <2>1. pc # "idle" => touched'
      OBVIOUS
    <2>2. pc # "idle" => snap.activity <= now
      BY Numbers DEF IInv, SnapIsFresh
    <2>3. QED
      BY <2>1, <2>2 DEF IInv, SnapIsFresh
  <1>5. PeriodsHold'
    <2>1. /\ now <= now /\ now - now <= Every /\ now < now + RemindAfter
          /\ now < now + RemindAfter + Every /\ now < now + UnassignAfter
      BY Numbers DEF IInv
    <2>2. QED
      BY <1>1, <2>1 DEF PeriodsHold
  <1>6. QED
    BY <1>2, <1>3, <1>4, <1>5

LEMMA HumanCommentsKeeps ==
  ASSUME IInv, HumanComments
  PROVE  Kept'
  <1>1. StandingCounts' /\ ActsOnDecision' /\ SnapIsFresh' /\ PeriodsHold'
    BY ActiveKeeps DEF HumanComments
  <1>2. Standing' => reminder = now
    BY Numbers DEF IInv, HumanComments, Active, Standing, Stands
  <1>3. EverybodyMentioned'
    BY <1>2 DEF EverybodyMentioned, HumanComments, Active
  <1>4. QED
    BY <1>1, <1>3 DEF Kept

LEMMA AssignKeeps ==
  ASSUME NEW p \in Person, IInv, Assign(p)
  PROVE  Kept'
  <1>1. StandingCounts' /\ ActsOnDecision' /\ SnapIsFresh' /\ PeriodsHold'
    BY ActiveKeeps DEF Assign
  <1>2. Standing' => reminder = now
    BY Numbers DEF IInv, Assign, Active, Standing, Stands
  <1>3. EverybodyMentioned'
    BY <1>2 DEF EverybodyMentioned, Assign, Active
  <1>4. QED
    BY <1>1, <1>3 DEF Kept

LEMMA ChangeIssueKeeps ==
  ASSUME IInv, ChangeIssue
  PROVE  Kept'
  <1> USE DEF ChangeIssue, issue, history, warning, Standing
  <1>1. StandingCounts' /\ EverybodyMentioned' /\ PeriodsHold'
    BY DEF IInv, StandingCounts, EverybodyMentioned, PeriodsHold
  <1>2. ActsOnDecision'
    BY DEF IInv, ActsOnDecision, Decision
  <1>3. SnapIsFresh'
    BY DEF IInv, SnapIsFresh
  <1>4. QED
    BY <1>1, <1>2, <1>3 DEF Kept

LEMMA TickKeeps ==
  ASSUME IInv, Tick
  PROVE  Kept'
  <1> USE DEF Tick, issue, history, warning, Standing
  <1>1. StandingCounts' /\ EverybodyMentioned'
    BY DEF IInv, StandingCounts, EverybodyMentioned
  <1>2. ActsOnDecision'
    BY DEF IInv, ActsOnDecision, Decision
  <1>3. SnapIsFresh'
    BY Numbers DEF IInv, SnapIsFresh
  <1>4. activity' <= last' /\ last' <= now'
    BY Numbers DEF IInv, PeriodsHold
  <1>5. now' - last \in Int
    BY Numbers DEF IInv
  <1>6. ~missed' => ~missed /\ now' - last <= Every
    <2>1. ~missed' => ~missed /\ ~(now' - last > Every)
      OBVIOUS
    <2>2. QED
      BY <1>5, <2>1, Numbers DEF IInv
  <1>7. PeriodsHold'
    BY <1>4, <1>6 DEF IInv, PeriodsHold
  <1>8. QED
    BY <1>1, <1>2, <1>3, <1>7 DEF Kept

(* The step of the induction.                                              *)
LEMMA NextKeeps == IInv /\ [Next]_vars => IInv'
  <1> SUFFICES ASSUME IInv, [Next]_vars
               PROVE  IInv'
    OBVIOUS
  <1>1. TypeOK'
    BY TypeStep DEF IInv
  <1>2. CASE UNCHANGED vars
    <2>1. Decision(snap)' = Decision(snap) /\ Standing' = Standing
      BY <1>2 DEF vars, issue, Decision, Standing
    <2>2. QED
      BY <1>1, <1>2, <2>1
      DEF vars, issue, history, warning, IInv, StandingCounts, ActsOnDecision, SnapIsFresh,
          EverybodyMentioned, PeriodsHold
  <1>3. CASE Run
    <2>1. Kept'
      BY <1>3, ReadIssuesKeeps, ReadPullsKeeps, DecideKeeps, RemindKeeps, AddHelpWantedKeeps,
         UnassignKeeps, CommentUnassignedKeeps, RunFailsKeeps DEF Run
    <2>2. QED
      BY <1>1, <2>1 DEF IInv, Kept
  <1>4. CASE HumanComments \/ (\E p \in Person : Assign(p)) \/ ChangeIssue \/ Tick
    <2>1. Kept'
      BY <1>4, HumanCommentsKeeps, AssignKeeps, ChangeIssueKeeps, TickKeeps
    <2>2. QED
      BY <1>1, <2>1 DEF IInv, Kept
  <1>5. QED
    BY <1>2, <1>3, <1>4 DEF Next

-------------------------------------------------------------------------------
(* The invariant holds in every reachable state, for any people, periods,  *)
(* times between runs and bound on the time.                               *)
THEOREM Invariant == Spec => []IInv
  BY InitHolds, NextKeeps, PTL DEF Spec

(* Every variable keeps its type.                                          *)
THEOREM TypeCorrect == Spec => []TypeOK
  BY Invariant, PTL DEF IInv

(* "Post one comment asking for an update": one reminder per silence.      *)
THEOREM RemindedOnce == Spec => []OneReminder
  <1>1. IInv => OneReminder
    BY DEF IInv, StandingCounts, OneReminder
  <1>2. QED
    BY <1>1, Invariant, PTL

(* An issue the script freed carries help wanted, unless somebody took it  *)
(* off meanwhile.                                                          *)
THEOREM FreedIssuesAreOffered == Spec => []HelpWantedFirst
  <1>1. IInv => HelpWantedFirst
    BY DEF IInv, SnapIsFresh, HelpWantedFirst
  <1>2. QED
    BY <1>1, Invariant, PTL

(* Nobody is removed by a run that was left alone, and on a reminder that  *)
(* was, without having been mentioned and given the whole grace period.    *)
THEOREM NobodyUnwarned == Spec => []WarnedBeforeRemoval
  <1>1. IInv => WarnedBeforeRemoval
    <2> SUFFICES ASSUME IInv, pc = "unassign", ~touched, ~late
                 PROVE  /\ Standing
                        /\ Removed \subseteq mentioned
                        /\ reminder + UnassignAfter <= now
      BY DEF WarnedBeforeRemoval, Standing
    <2>1. /\ snap.assignees = assignees /\ snap.activity = activity
          /\ snap.reminder = reminder /\ snap.at <= now
      BY DEF IInv, SnapIsFresh
    <2>2. /\ Stands(snap.reminder, snap.activity)
          /\ snap.at - snap.reminder >= UnassignAfter
      BY Decisions DEF IInv, TypeOK, ActsOnDecision
    <2>3. reminder + UnassignAfter <= now
      BY <2>1, <2>2, Numbers DEF IInv
    <2>4. Standing
      BY <2>1, <2>2 DEF Standing
    <2>5. QED
      BY <2>1, <2>3, <2>4 DEF IInv, EverybodyMentioned, Removed
  <1>2. QED
    BY <1>1, Invariant, PTL

(* As long as no successful run is followed by the end of the next more    *)
(* than Every after, an issue nobody touches is free once both periods are *)
(* over, each run over by at most that.                                    *)
THEOREM QuietIssuesAreFreed == Spec => []FreedInTime
  <1>1. IInv => FreedInTime
    <2> SUFFICES ASSUME IInv, ~missed, ~exempt, ~hasPr, assignees # {}
                 PROVE  ~(now - activity >= RemindAfter + UnassignAfter + 2 * Every)
      BY DEF FreedInTime
    <2>1. CASE Standing
      BY <2>1, Numbers DEF IInv, PeriodsHold
    <2>2. CASE ~Standing
      BY <2>2, Numbers DEF IInv, PeriodsHold
    <2>3. QED
      BY <2>1, <2>2
  <1>2. QED
    BY <1>1, Invariant, PTL
===============================================================================
