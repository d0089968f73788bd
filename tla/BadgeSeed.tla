------------------------------- MODULE BadgeSeed -------------------------------
(***************************************************************************)
(* scripts/seed-release-badges.py: seeders (dispatches of release-e2e.yaml,*)
(* which has no concurrency group) and lanes commit to gh-pages at the     *)
(* same time.  Nothing but git's fast-forward rule on the update of the    *)
(* branch keeps them apart, so commits are modelled with their ancestors.  *)
(***************************************************************************)
EXTENDS Naturals, FiniteSets

CONSTANTS Seeder,     \* the seeding runs
          Badge,      \* the badge files
          Wanted,     \* those of the release branch's matrix
          Retries,    \* --retries
          MaxCommits  \* bound on the commits made

ASSUME BadgeSeedAssumption ==
  /\ Wanted \subseteq Badge
  /\ Retries \in Nat \ {0}
  /\ MaxCommits \in Nat \ {0}

VARIABLES n,         \* the number of commits made, the first of them included
          anc,       \* commit -> its ancestors
          tree,      \* commit -> its badge files
          ref,       \* the commit gh-pages points at
          pc,        \* seeder -> its next API call
          attempt,   \* seeder -> the attempt it is in
          head,      \* seeder -> the commit it read
          missing,   \* seeder -> the badges it found missing
          made,      \* seeder -> the commit it made
          created,   \* seeder -> the badges it reports to have seeded
          base       \* lane -> the commit its working tree is at, 0 if none

git        == <<n, anc, tree, ref>>
seederVars == <<pc, attempt, head, missing, made, created>>
vars       == <<git, seederVars, base>>

Content == {"absent", "placeholder", "result"}
Commit  == 1 .. MaxCommits
Steps   == {"readRef", "readTree", "build", "patch"}
Ends    == {"done", "failed"}

TypeOK ==
  /\ n \in Commit
  /\ anc \in [Commit -> SUBSET Commit]
  /\ tree \in [Commit -> [Badge -> Content]]
  /\ ref \in 1 .. n
  /\ pc \in [Seeder -> Steps \cup Ends]
  /\ attempt \in [Seeder -> 1 .. Retries]
  /\ head \in [Seeder -> 0 .. n]
  /\ missing \in [Seeder -> SUBSET Wanted]
  /\ made \in [Seeder -> 0 .. n]
  /\ created \in [Seeder -> SUBSET Wanted]
  /\ base \in [Badge -> 0 .. n]

NoFiles == [b \in Badge |-> "absent"]

Init ==
  /\ n = 1
  /\ anc = [c \in Commit |-> {}]
  /\ \E files \in [Badge -> {"absent", "result"}] :
       tree = [c \in Commit |-> IF c = 1 THEN files ELSE NoFiles]
  /\ ref = 1
  /\ pc = [s \in Seeder |-> "readRef"]
  /\ attempt = [s \in Seeder |-> 1]
  /\ head = [s \in Seeder |-> 0]
  /\ missing = [s \in Seeder |-> {}]
  /\ made = [s \in Seeder |-> 0]
  /\ created = [s \in Seeder |-> {}]
  /\ base = [b \in Badge |-> 0]

Goto(s, step) == pc' = [pc EXCEPT ![s] = step]

(* An attempt that ends leaves nothing to the next.                        *)
Forget(s) ==
  /\ head' = [head EXCEPT ![s] = 0]
  /\ missing' = [missing EXCEPT ![s] = {}]
  /\ made' = [made EXCEPT ![s] = 0]

-------------------------------------------------------------------------------
(* Git, on the server.                                                     *)

(* A new commit on top of parent.                                          *)
AddCommit(parent, files) ==
  /\ n < MaxCommits
  /\ n' = n + 1
  /\ anc' = [anc EXCEPT ![n + 1] = anc[parent] \cup {parent}]
  /\ tree' = [tree EXCEPT ![n + 1] = files]

(* A forced update.                                                        *)
FastForward_Forced(ancestors) == TRUE

(* An update that is not forced goes through only if the branch moves to a *)
(* descendant of where it is.                                              *)
FastForward(ancestors) == ref \in ancestors

-------------------------------------------------------------------------------
(* seed_once() and the retries of seed() around it.                        *)

ReadRef(s) ==
  /\ pc[s] = "readRef"
  /\ head' = [head EXCEPT ![s] = ref]
  /\ Goto(s, "readTree")
  /\ UNCHANGED <<git, attempt, missing, made, created, base>>

Present(c) == {b \in Badge : tree[c][b] # "absent"}

(* What a listing leaves to create.                                        *)
Listed(s, present) ==
  /\ missing' = [missing EXCEPT ![s] = Wanted \ present]
  /\ Goto(s, IF Wanted \subseteq present THEN "done" ELSE "build")
  /\ UNCHANGED <<git, attempt, head, made, created, base>>

(* A truncated listing taken for a complete one.                           *)
ReadTree_Truncated(s) ==
  /\ pc[s] = "readTree"
  /\ \E present \in SUBSET Present(head[s]) : Listed(s, present)

(* A truncated listing is refused, see Fails.                              *)
ReadTree(s) ==
  /\ pc[s] = "readTree"
  /\ Listed(s, Present(head[s]))

(* POST git/trees on top of the tree read, and POST git/commits: objects   *)
(* nothing refers to yet.                                                  *)
Build(s) ==
  /\ pc[s] = "build"
  /\ AddCommit(head[s], [b \in Badge |-> IF b \in missing[s] THEN "placeholder"
                                                             ELSE tree[head[s]][b]])
  /\ made' = [made EXCEPT ![s] = n + 1]
  /\ Goto(s, "patch")
  /\ UNCHANGED <<ref, attempt, head, missing, created, base>>

Patch(s) ==
  /\ pc[s] = "patch"
  /\ FastForward(anc[made[s]])
  /\ ref' = made[s]
  /\ created' = [created EXCEPT ![s] = missing[s]]
  /\ Goto(s, "done")
  /\ UNCHANGED <<n, anc, tree, attempt, head, missing, made, base>>

(* The update is done, and its answer lost: no retry.                      *)
PatchUnanswered(s) ==
  /\ pc[s] = "patch"
  /\ FastForward(anc[made[s]])
  /\ ref' = made[s]
  /\ Goto(s, "failed")
  /\ UNCHANGED <<n, anc, tree, attempt, head, missing, made, created, base>>

(* An attempt too many.                                                    *)
Moved_OneTooMany(s) ==
  /\ attempt[s] <= Retries
  /\ attempt' = [attempt EXCEPT ![s] = @ + 1]
  /\ Forget(s)
  /\ Goto(s, "readRef")

(* A retry on the new head that does not list its files again.             *)
Moved_SameList(s) ==
  /\ attempt[s] < Retries
  /\ attempt' = [attempt EXCEPT ![s] = @ + 1]
  /\ head' = [head EXCEPT ![s] = ref]
  /\ Goto(s, "build")
  /\ UNCHANGED <<missing, made>>

(* 409 or 422: again from a fresh read, up to Retries attempts.            *)
Moved(s) ==
  /\ attempt[s] < Retries
  /\ attempt' = [attempt EXCEPT ![s] = @ + 1]
  /\ Forget(s)
  /\ Goto(s, "readRef")

(* A rejected update taken for the sign that another run seeded the badges.*)
Rejected_IsDone(s) ==
  /\ pc[s] = "patch"
  /\ ~FastForward(anc[made[s]])
  /\ Goto(s, "done")
  /\ UNCHANGED <<git, attempt, head, missing, made, created, base>>

(* The update is not a fast forward, or GitHub gives that answer to any    *)
(* other call: seed() does not ask which it was.                           *)
Rejected(s) ==
  /\ pc[s] \in Steps
  /\ Moved(s)
  /\ UNCHANGED <<git, created, base>>

(* The last attempt rejected, any other API error, a truncated tree.       *)
Fails(s) ==
  /\ pc[s] \in Steps
  /\ Goto(s, "failed")
  /\ Forget(s)
  /\ UNCHANGED <<git, attempt, created, base>>

-------------------------------------------------------------------------------
(* The lanes' badge update, reusable-update-badge.yaml of llm-d-infra:     *)
(* commits in a checkout and pushes, with no retry.                        *)

LaneCheckout(b) ==
  /\ base[b] = 0
  /\ base' = [base EXCEPT ![b] = ref]
  /\ UNCHANGED <<git, seederVars>>

LanePush(b) ==
  /\ base[b] # 0
  /\ FastForward(anc[base[b]] \cup {base[b]})
  /\ AddCommit(base[b], [tree[base[b]] EXCEPT ![b] = "result"])
  /\ ref' = n + 1
  /\ base' = [base EXCEPT ![b] = 0]
  /\ UNCHANGED seederVars

LaneRejected(b) ==
  /\ base[b] # 0
  /\ base' = [base EXCEPT ![b] = 0]
  /\ UNCHANGED <<git, seederVars>>

-------------------------------------------------------------------------------
SeederStep(s) ==
  \/ ReadRef(s)
  \/ ReadTree(s)
  \/ Build(s)
  \/ Patch(s)
  \/ PatchUnanswered(s)
  \/ Rejected(s)
  \/ Fails(s)

LaneStep(b) ==
  \/ LaneCheckout(b)
  \/ LanePush(b)
  \/ LaneRejected(b)

Next == \/ \E s \in Seeder : SeederStep(s)
        \/ \E b \in Badge : LaneStep(b)

Spec == Init /\ [][Next]_vars

-------------------------------------------------------------------------------
(* The badge files shields.io serves.                                      *)
badge == tree[ref]

Store == INSTANCE BadgeStore

(* "A placeholder must never overwrite a real result": every update of the *)
(* branch, whatever it races with, is a seeding of exactly the badges that *)
(* are missing at that moment, or the report of one lane.                  *)
KeepsStore == Store!StoreSpec

(* "The full set, never a filtered one": a run that reports success leaves *)
(* no cell of the matrix without a file, at that time or later.            *)
DoneMeansComplete ==
  \A s \in Seeder : pc[s] = "done" => \A b \in Wanted : tree[ref][b] # "absent"

(* Two concurrent dispatches never both report the same badge as seeded,   *)
(* and what a run reports is in the files.                                 *)
CreatedOnce ==
  \A s \in Seeder :
    /\ \A b \in created[s] : tree[ref][b] # "absent"
    /\ \A t \in Seeder \ {s} : created[s] \cap created[t] = {}
===============================================================================
