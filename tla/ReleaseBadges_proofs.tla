------------------------- MODULE ReleaseBadges_proofs -------------------------
(***************************************************************************)
(* First create-if-absent, for any number of seeders, lanes, badges,       *)
(* retries and commits.  The heart of it is FastForwardIsCompareAndSwap:   *)
(* with commits that know their ancestors, an update that is not forced    *)
(* goes through only if the branch is still at the commit the seeder read. *)
(* Then the composition: it keeps what is proved of the badge store alone, *)
(* because nothing that writes release/README.md touches gh-pages; and the *)
(* cells of the matrix are those the seeders want, whatever lanes, grid,   *)
(* earlier sections and order of renderings; a section rendered again      *)
(* replaces the one before and leaves no other trace.                      *)
(***************************************************************************)
EXTENDS ReleaseBadges, SequenceTheorems, WellFoundedInduction, TLAPS


(* The commit s works on is known to be one the branch has been at.        *)
HasHead(s) == pc[s] \in {"readTree", "build", "patch"}

OnBranch(c) == c \in anc[ref] \cup {ref}

(* Ancestors are older, and theirs are among them.                         *)
Ancestry ==
  \A c \in Commit :
    /\ anc[c] \subseteq 1 .. (c - 1)
    /\ c > n => anc[c] = {}
    /\ \A d \in anc[c] : anc[d] \subseteq anc[c]

(* A file, once there, is in every later commit of the branch.             *)
FilesStay ==
  \A c \in Commit : \A d \in anc[c] : \A b \in Badge :
    tree[d][b] # "absent" => tree[c][b] # "absent"

(* Seeders and lanes work on commits the branch has been at.               *)
Bases ==
  /\ \A s \in Seeder : HasHead(s) => OnBranch(head[s])
  /\ \A b \in Badge : base[b] # 0 => OnBranch(base[b])

(* What a seeder is about to create is what its head has not.              *)
Lists ==
  \A s \in Seeder : pc[s] \in {"build", "patch"} =>
    missing[s] = Wanted \ Present(head[s])

(* The commit it proposes is the seeding of that head, on top of it.       *)
Proposals ==
  \A s \in Seeder : pc[s] = "patch" =>
    /\ made[s] \in Commit
    /\ anc[made[s]] = anc[head[s]] \cup {head[s]}
    /\ tree[made[s]] = Store!Seeded(tree[head[s]])

(* The inductive invariant: DoneMeansComplete and CreatedOnce are about    *)
(* what seeders proposed, and proposals about the ancestry of commits.     *)
IInv ==
  /\ TypeOK
  /\ Ancestry
  /\ FilesStay
  /\ Bases
  /\ Lists
  /\ Proposals
  /\ DoneMeansComplete
  /\ CreatedOnce

-------------------------------------------------------------------------------
(* A seeder or a lane only works on commits that exist.                    *)
LEMMA OnBranchExists ==
  ASSUME TypeOK, Ancestry, NEW c, OnBranch(c)
  PROVE  c \in 1 .. n /\ c \in Commit
  <1>1. ref \in 1 .. n /\ ref \in Commit /\ n \in 1 .. MaxCommits
    BY BadgeSeedAssumption DEF TypeOK, Commit
  <1>2. c = ref \/ c \in 1 .. (ref - 1)
    BY <1>1 DEF Ancestry, OnBranch
  <1>3. QED
    BY <1>1, <1>2, BadgeSeedAssumption DEF Commit

(* The commit a seeder read its files from exists.                         *)
LEMMA HeadExists ==
  ASSUME IInv, NEW s \in Seeder, HasHead(s)
  PROVE  head[s] \in 1 .. n /\ head[s] \in Commit
  BY OnBranchExists DEF IInv, Bases

(* The commit a lane works on exists.                                      *)
LEMMA BaseExists ==
  ASSUME IInv, NEW b \in Badge, base[b] # 0
  PROVE  base[b] \in 1 .. n /\ base[b] \in Commit
  BY OnBranchExists DEF IInv, Bases

(* If the branch is at an ancestor of c, or at c, and has been at c, it is *)
(* at c: ancestors are strictly older.                                     *)
LEMMA AncestorOfItself ==
  ASSUME TypeOK, Ancestry, NEW c \in Commit, OnBranch(c),
         FastForward(anc[c] \cup {c})
  PROVE  ref = c
  <1>1. ref \in Commit
    BY BadgeSeedAssumption DEF TypeOK, Commit
  <1>2. ref = c \/ ref \in 1 .. (c - 1)
    BY DEF Ancestry, FastForward
  <1>3. ref = c \/ c \in 1 .. (ref - 1)
    BY <1>1 DEF Ancestry, OnBranch
  <1>4. QED
    BY <1>1, <1>2, <1>3 DEF Commit

(* The update of seed_once(), which is not forced, is a compare-and-swap.  *)
LEMMA FastForwardIsCompareAndSwap ==
  ASSUME IInv, NEW s \in Seeder, pc[s] = "patch", FastForward(anc[made[s]])
  PROVE  ref = head[s]
  <1>1. anc[made[s]] = anc[head[s]] \cup {head[s]}
    BY DEF IInv, Proposals
  <1>2. OnBranch(head[s]) /\ head[s] \in Commit
    BY HeadExists DEF IInv, Bases, HasHead
  <1>3. QED
    BY <1>1, <1>2, AncestorOfItself DEF IInv

(* So is the push of a lane.                                               *)
LEMMA LanePushIsCompareAndSwap ==
  ASSUME IInv, NEW b \in Badge, base[b] # 0, FastForward(anc[base[b]] \cup {base[b]})
  PROVE  ref = base[b]
  BY BaseExists, AncestorOfItself DEF IInv, Bases

(* A commit on top of an existing one changes no other, and keeps the      *)
(* order of ancestors and the files.                                       *)
LEMMA AddCommitKeeps ==
  ASSUME TypeOK, Ancestry, FilesStay,
         NEW p \in 1 .. n, NEW files \in [Badge -> Content],
         \A b \in Badge : tree[p][b] # "absent" => files[b] # "absent",
         AddCommit(p, files)
  PROVE  /\ n + 1 \in Commit
         /\ anc' \in [Commit -> SUBSET Commit]
         /\ tree' \in [Commit -> [Badge -> Content]]
         /\ \A c \in 1 .. n : anc'[c] = anc[c] /\ tree'[c] = tree[c]
         /\ anc'[n + 1] = anc[p] \cup {p}
         /\ tree'[n + 1] = files
         /\ Ancestry'
         /\ FilesStay'
  <1>1. /\ n + 1 \in Commit
        /\ p \in Commit
        /\ \A c \in 1 .. n : c \in Commit /\ c # n + 1
    BY BadgeSeedAssumption DEF TypeOK, Commit, AddCommit
  <1>2. anc' \in [Commit -> SUBSET Commit]
    BY <1>1 DEF TypeOK, AddCommit
  <1>3. tree' \in [Commit -> [Badge -> Content]]
    BY <1>1 DEF TypeOK, AddCommit
  <1>4. \A c \in Commit \ {n + 1} : anc'[c] = anc[c] /\ tree'[c] = tree[c]
    BY <1>1 DEF TypeOK, AddCommit
  <1>5. anc'[n + 1] = anc[p] \cup {p} /\ tree'[n + 1] = files
    BY <1>1 DEF TypeOK, AddCommit
  <1>6. \A c \in Commit : anc[c] \subseteq 1 .. n
    BY DEF Ancestry, TypeOK, Commit
  <1>7. Ancestry'
    <2> SUFFICES ASSUME NEW c \in Commit
                 PROVE  /\ anc'[c] \subseteq 1 .. (c - 1)
                        /\ c > n' => anc'[c] = {}
                        /\ \A d \in anc'[c] : anc'[d] \subseteq anc'[c]
      BY DEF Ancestry
    <2>1. n' = n + 1
      BY DEF AddCommit
    <2>2. CASE c = n + 1
      <3>1. anc'[c] \subseteq 1 .. (c - 1)
        BY <1>5, <1>6, <1>1, <2>2 DEF TypeOK, Commit
      <3>2. \A d \in anc'[c] : anc'[d] = anc[d]
        BY <1>4, <1>5, <1>6, <1>1, <2>2
      <3>3. \A d \in anc[p] \cup {p} : anc[d] \subseteq anc[p] \cup {p}
        BY <1>1 DEF Ancestry
      <3>4. QED
        BY <2>1, <2>2, <3>1, <3>2, <3>3, <1>5 DEF TypeOK, Commit
    <2>3. CASE c # n + 1
      <3>1. anc'[c] = anc[c]
        BY <1>4, <2>3
      <3>2. \A d \in anc[c] : anc'[d] = anc[d]
        BY <1>4, <1>6, <1>1
      <3>3. c > n' => c > n
        BY <2>1 DEF TypeOK, Commit
      <3>4. QED
        BY <3>1, <3>2, <3>3 DEF Ancestry
    <2>4. QED
      BY <2>2, <2>3
  <1>8. FilesStay'
    <2> SUFFICES ASSUME NEW c \in Commit, NEW d \in anc'[c], NEW b \in Badge,
                        tree'[d][b] # "absent"
                 PROVE  tree'[c][b] # "absent"
      BY DEF FilesStay
    <2>1. CASE c = n + 1
      <3>1. d \in anc[p] \cup {p} /\ tree'[d] = tree[d]
        BY <1>4, <1>5, <1>6, <1>1, <2>1
      <3>2. tree[p][b] # "absent"
        BY <3>1, <1>1 DEF FilesStay
      <3>3. QED
        BY <3>2, <1>5, <2>1
    <2>2. CASE c # n + 1
      BY <1>4, <1>6, <1>1, <2>2 DEF FilesStay
    <2>3. QED
      BY <2>1, <2>2
  <1>9. QED
    BY <1>1, <1>2, <1>3, <1>4, <1>5, <1>7, <1>8

-------------------------------------------------------------------------------
(* The inductive invariant holds initially.                                *)
LEMMA InitIInv == Init => IInv
  <1> SUFFICES ASSUME Init PROVE IInv
    OBVIOUS
  <1> USE DEF Init
  <1>1. TypeOK
    <2>1. tree \in [Commit -> [Badge -> Content]]
      BY DEF Content, NoFiles
    <2>2. 1 \in Commit
      BY BadgeSeedAssumption DEF Commit
    <2>3. QED
      BY <2>1, <2>2, BadgeSeedAssumption DEF TypeOK, Steps
  <1>2. Ancestry /\ FilesStay
    BY DEF Ancestry, FilesStay
  <1>3. Bases /\ Lists /\ Proposals
    BY DEF Bases, Lists, Proposals, HasHead
  <1>4. DoneMeansComplete /\ CreatedOnce
    BY DEF DoneMeansComplete, CreatedOnce
  <1>5. QED
    BY <1>1, <1>2, <1>3, <1>4 DEF IInv

-------------------------------------------------------------------------------
(* The steps that leave the repository alone.                              *)

(* A step that leaves the repository alone keeps its two invariants.       *)
LEMMA GitUnchanged ==
  ASSUME IInv, UNCHANGED git
  PROVE  Ancestry' /\ FilesStay'
  BY DEF IInv, Ancestry, FilesStay, git

(* existing_badges() reads the head of the branch.                         *)
LEMMA ReadRefKeeps ==
  ASSUME IInv, NEW s \in Seeder, ReadRef(s)
  PROVE  IInv'
  <1> USE DEF IInv, ReadRef, Goto, git
  <1>1. TypeOK'
    BY DEF TypeOK, Steps
  <1>2. Bases'
    BY DEF TypeOK, Bases, OnBranch, HasHead
  <1>3. Lists' /\ Proposals'
    BY DEF TypeOK, Lists, Proposals, Present
  <1>4. DoneMeansComplete' /\ CreatedOnce'
    BY DEF TypeOK, DoneMeansComplete, CreatedOnce
  <1>5. QED
    BY <1>1, <1>2, <1>3, <1>4, GitUnchanged

(* existing_badges() lists the files of that head; with nothing to create, *)
(* the run is done.                                                        *)
LEMMA ReadTreeKeeps ==
  ASSUME IInv, NEW s \in Seeder, ReadTree(s)
  PROVE  IInv'
  <1> USE DEF IInv, ReadTree, Listed, Goto, git
  <1>1. TypeOK'
    BY DEF TypeOK, Steps, Ends
  <1>2. Bases'
    BY DEF TypeOK, Bases, OnBranch, HasHead
  <1>3. Lists' /\ Proposals'
    BY DEF TypeOK, Lists, Proposals, Present
  <1>4. DoneMeansComplete'
    <2>1. ASSUME Wanted \subseteq Present(head[s]), NEW b \in Wanted
          PROVE  tree[ref][b] # "absent"
      <3>1. tree[head[s]][b] # "absent" /\ b \in Badge
        BY <2>1, BadgeSeedAssumption DEF Present
      <3>2. OnBranch(head[s])
        BY DEF Bases, HasHead
      <3>3. ref \in Commit
        BY BadgeSeedAssumption DEF TypeOK, Commit
      <3>4. QED
        BY <3>1, <3>2, <3>3 DEF FilesStay, OnBranch
    <2>2. QED
      BY <2>1 DEF TypeOK, DoneMeansComplete
  <1>5. CreatedOnce'
    BY DEF TypeOK, CreatedOnce
  <1>6. QED
    BY <1>1, <1>2, <1>3, <1>4, <1>5, GitUnchanged

(* An answer of 409 or 422 only leads to another attempt.                  *)
LEMMA RejectedKeeps ==
  ASSUME IInv, NEW s \in Seeder, Rejected(s)
  PROVE  IInv'
  <1> USE DEF IInv, Rejected, Moved, Forget, Goto, git
  <1>1. TypeOK'
    <2>1. attempt[s] + 1 \in 1 .. Retries
      BY BadgeSeedAssumption DEF TypeOK
    <2>2. {} \subseteq Wanted /\ 0 \in 0 .. n
      BY DEF TypeOK, Commit
    <2>3. head' \in [Seeder -> 0 .. n] /\ made' \in [Seeder -> 0 .. n]
          /\ missing' \in [Seeder -> SUBSET Wanted]
      BY <2>2 DEF TypeOK
    <2>4. pc' \in [Seeder -> Steps \cup Ends] /\ attempt' \in [Seeder -> 1 .. Retries]
      BY <2>1 DEF TypeOK, Steps
    <2>5. QED
      BY <2>3, <2>4 DEF TypeOK
  <1>2. Bases'
    BY DEF TypeOK, Bases, OnBranch, HasHead
  <1>3. Lists' /\ Proposals'
    BY DEF TypeOK, Lists, Proposals, Present
  <1>4. DoneMeansComplete' /\ CreatedOnce'
    BY DEF TypeOK, DoneMeansComplete, CreatedOnce
  <1>5. QED
    BY <1>1, <1>2, <1>3, <1>4, GitUnchanged

(* Nor does a run that fails leave anything behind.                        *)
LEMMA FailsKeeps ==
  ASSUME IInv, NEW s \in Seeder, Fails(s)
  PROVE  IInv'
  <1> USE DEF IInv, Fails, Forget, Goto, git
  <1>1. TypeOK'
    <2>1. {} \subseteq Wanted /\ 0 \in 0 .. n
      BY DEF TypeOK, Commit
    <2>2. head' \in [Seeder -> 0 .. n] /\ made' \in [Seeder -> 0 .. n]
          /\ missing' \in [Seeder -> SUBSET Wanted]
      BY <2>1 DEF TypeOK
    <2>3. pc' \in [Seeder -> Steps \cup Ends]
      BY DEF TypeOK, Ends
    <2>4. QED
      BY <2>2, <2>3 DEF TypeOK
  <1>2. Bases'
    BY DEF TypeOK, Bases, OnBranch, HasHead
  <1>3. Lists' /\ Proposals'
    BY DEF TypeOK, Lists, Proposals, Present
  <1>4. DoneMeansComplete' /\ CreatedOnce'
    BY DEF TypeOK, DoneMeansComplete, CreatedOnce
  <1>5. QED
    BY <1>1, <1>2, <1>3, <1>4, GitUnchanged

(* Nor do the checkout of a lane and a push that is rejected.              *)
LEMMA LaneOutsideGitKeeps ==
  ASSUME IInv, NEW b \in Badge, LaneCheckout(b) \/ LaneRejected(b)
  PROVE  IInv'
  <1> USE DEF IInv, LaneCheckout, LaneRejected, git, seederVars
  <1>1. TypeOK'
    <2>1. ref \in 0 .. n /\ 0 \in 0 .. n
      BY BadgeSeedAssumption DEF TypeOK, Commit
    <2>2. QED
      BY <2>1 DEF TypeOK
  <1>2. Bases'
    BY DEF TypeOK, Bases, OnBranch, HasHead
  <1>3. Lists' /\ Proposals'
    BY DEF Lists, Proposals, Present
  <1>4. DoneMeansComplete' /\ CreatedOnce'
    BY DEF DoneMeansComplete, CreatedOnce
  <1>5. QED
    BY <1>1, <1>2, <1>3, <1>4, GitUnchanged

-------------------------------------------------------------------------------
(* The steps that add a commit or move the branch.                         *)

(* What a seeder proposes is the seeding of the tree it read.              *)
LEMMA BuildsSeeding ==
  ASSUME IInv, NEW s \in Seeder, pc[s] = "build"
  PROVE  [b \in Badge |-> IF b \in missing[s] THEN "placeholder" ELSE tree[head[s]][b]]
           = Store!Seeded(tree[head[s]])
  <1>1. missing[s] = Wanted \ Present(head[s])
    BY DEF IInv, Lists
  <1>2. ASSUME NEW b \in Badge
        PROVE  b \in missing[s] <=> b \in Wanted /\ tree[head[s]][b] = "absent"
    BY <1>1 DEF Present
  <1>3. QED
    BY <1>2 DEF Store!Seeded

(* Seeding files leaves none missing of the matrix, and none that was      *)
(* there.                                                                  *)
LEMMA SeededFiles ==
  ASSUME NEW files \in [Badge -> Content]
  PROVE  /\ Store!Seeded(files) \in [Badge -> Content]
         /\ \A b \in Badge : files[b] # "absent" => Store!Seeded(files)[b] # "absent"
         /\ \A b \in Wanted : Store!Seeded(files)[b] # "absent"
  BY BadgeSeedAssumption DEF Store!Seeded, Content

(* seed_once() makes a commit nothing refers to yet.                       *)
LEMMA BuildKeeps ==
  ASSUME IInv, NEW s \in Seeder, Build(s)
  PROVE  IInv'
  <1> DEFINE files == Store!Seeded(tree[head[s]])
  <1>1. head[s] \in 1 .. n /\ head[s] \in Commit
    BY HeadExists DEF Build, HasHead
  <1>2. AddCommit(head[s], files)
    BY BuildsSeeding DEF Build
  <1>3. files \in [Badge -> Content]
        /\ \A b \in Badge : tree[head[s]][b] # "absent" => files[b] # "absent"
    BY <1>1, SeededFiles DEF IInv, TypeOK
  <1> HIDE DEF files
  <1>4. /\ n + 1 \in Commit
        /\ anc' \in [Commit -> SUBSET Commit]
        /\ tree' \in [Commit -> [Badge -> Content]]
        /\ \A c \in 1 .. n : anc'[c] = anc[c] /\ tree'[c] = tree[c]
        /\ anc'[n + 1] = anc[head[s]] \cup {head[s]}
        /\ tree'[n + 1] = files
        /\ Ancestry'
        /\ FilesStay'
    BY <1>1, <1>2, <1>3, AddCommitKeeps DEF IInv
  <1>5. n \in Nat /\ n' = n + 1
    BY <1>2, BadgeSeedAssumption DEF AddCommit, IInv, TypeOK, Commit
  <1>6. ref' = ref /\ ref \in 1 .. n
    BY DEF Build, IInv, TypeOK
  <1>7. TypeOK'
    <2>1. 1 .. n \subseteq 1 .. n' /\ 0 .. n \subseteq 0 .. n' /\ n' \in 0 .. n'
      BY <1>5
    <2>2. made' \in [Seeder -> 0 .. n']
      BY <2>1, <1>5 DEF Build, IInv, TypeOK
    <2>3. pc' \in [Seeder -> Steps \cup Ends]
      BY DEF Build, Goto, IInv, TypeOK, Steps
    <2>4. QED
      BY <2>1, <2>2, <2>3, <1>4, <1>5 DEF Build, IInv, TypeOK
  <1>8. ASSUME NEW c, OnBranch(c)
        PROVE  OnBranch(c)'
    BY <1>4, <1>6, <1>8 DEF OnBranch
  <1>9. Bases'
    BY <1>8 DEF IInv, TypeOK, Bases, OnBranch, HasHead, Build, Goto
  <1>10. Lists'
    <2> SUFFICES ASSUME NEW t \in Seeder, pc'[t] \in {"build", "patch"}
                 PROVE  missing'[t] = Wanted \ Present(head[t])'
      BY DEF Lists, Build, Present
    <2>1. pc[t] \in {"build", "patch"}
      BY DEF Build, Goto, IInv, TypeOK
    <2>2. head[t] \in 1 .. n
      BY <2>1, HeadExists DEF HasHead
    <2>3. QED
      BY <2>1, <2>2, <1>4 DEF IInv, Lists, Build, Present
  <1>11. Proposals'
    <2> SUFFICES ASSUME NEW t \in Seeder, pc'[t] = "patch"
                 PROVE  /\ made'[t] \in Commit
                        /\ anc'[made'[t]] = anc'[head[t]] \cup {head[t]}
                        /\ tree'[made'[t]] = Store!Seeded(tree'[head[t]])
      BY DEF Proposals, Build, Store!Seeded
    <2>1. CASE t = s
      BY <2>1, <1>1, <1>4 DEF Build, IInv, TypeOK, files
    <2>2. CASE t # s
      <3>1. pc[t] = "patch" /\ made'[t] = made[t]
        BY <2>2 DEF Build, Goto, IInv, TypeOK
      <3>2. head[t] \in 1 .. n /\ made[t] \in 1 .. n
        BY <3>1, HeadExists, BadgeSeedAssumption
        DEF HasHead, IInv, TypeOK, Proposals, Commit
      <3>3. /\ made[t] \in Commit
            /\ anc[made[t]] = anc[head[t]] \cup {head[t]}
            /\ tree[made[t]] = Store!Seeded(tree[head[t]])
        BY <3>1 DEF IInv, Proposals
      <3>4. /\ anc'[made[t]] = anc[made[t]] /\ anc'[head[t]] = anc[head[t]]
            /\ tree'[made[t]] = tree[made[t]] /\ tree'[head[t]] = tree[head[t]]
        BY <3>2, <1>4
      <3>5. QED
        BY <3>1, <3>3, <3>4
    <2>3. QED
      BY <2>1, <2>2
  <1>12. DoneMeansComplete' /\ CreatedOnce'
    BY <1>4, <1>6 DEF IInv, TypeOK, Build, Goto, DoneMeansComplete, CreatedOnce
  <1>13. QED
    BY <1>4, <1>7, <1>9, <1>10, <1>11, <1>12 DEF IInv

(* The update that goes through seeds the files as they are at that        *)
(* moment, and no file is lost by it.                                      *)
LEMMA PatchSeeds ==
  ASSUME IInv, NEW s \in Seeder, pc[s] = "patch", FastForward(anc[made[s]])
  PROVE  /\ tree[made[s]] = Store!Seeded(tree[ref])
         /\ missing[s] = {b \in Wanted : tree[ref][b] = "absent"}
         /\ made[s] \in 1 .. n
         /\ \A c : OnBranch(c) => c \in anc[made[s]]
         /\ \A b \in Badge : tree[ref][b] # "absent" => tree[made[s]][b] # "absent"
         /\ \A b \in Wanted : tree[made[s]][b] # "absent"
  <1>1. ref = head[s]
    BY FastForwardIsCompareAndSwap
  <1>2. tree[made[s]] = Store!Seeded(tree[ref]) /\ anc[made[s]] = anc[ref] \cup {ref}
    BY <1>1 DEF IInv, Proposals
  <1>3. missing[s] = {b \in Wanted : tree[ref][b] = "absent"}
    BY <1>1, BadgeSeedAssumption DEF IInv, Lists, Present
  <1>4. made[s] \in 1 .. n
    BY BadgeSeedAssumption DEF IInv, Proposals, TypeOK, Commit
  <1>5. tree[ref] \in [Badge -> Content]
    BY BadgeSeedAssumption DEF IInv, TypeOK, Commit
  <1>6. QED
    BY <1>2, <1>3, <1>4, <1>5, SeededFiles DEF OnBranch

(* The update of the branch goes through, its answer received or lost.     *)
LEMMA PatchKeeps ==
  ASSUME IInv, NEW s \in Seeder, Patch(s) \/ PatchUnanswered(s)
  PROVE  IInv'
  <1>1. /\ tree[made[s]] = Store!Seeded(tree[ref])
        /\ missing[s] = {b \in Wanted : tree[ref][b] = "absent"}
        /\ made[s] \in 1 .. n
        /\ \A c : OnBranch(c) => c \in anc[made[s]]
        /\ \A b \in Badge : tree[ref][b] # "absent" => tree[made[s]][b] # "absent"
        /\ \A b \in Wanted : tree[made[s]][b] # "absent"
    BY PatchSeeds DEF Patch, PatchUnanswered
  <1>2. /\ UNCHANGED <<n, anc, tree, attempt, head, missing, made, base>>
        /\ ref' = made[s]
        /\ pc' \in {[pc EXCEPT ![s] = "done"], [pc EXCEPT ![s] = "failed"]}
        /\ created' \in {created, [created EXCEPT ![s] = missing[s]]}
    BY DEF Patch, PatchUnanswered, Goto
  <1>3. TypeOK'
    BY <1>1, <1>2 DEF IInv, TypeOK, Ends
  <1>4. Ancestry' /\ FilesStay'
    BY <1>2 DEF IInv, Ancestry, FilesStay
  <1>5. ASSUME NEW c, OnBranch(c)
        PROVE  OnBranch(c)'
    BY <1>1, <1>2, <1>5 DEF OnBranch
  <1>6. \A t \in Seeder : pc'[t] \in Steps => pc'[t] = pc[t]
    BY <1>2 DEF IInv, TypeOK, Steps
  <1>7. Bases'
    <2>1. \A t \in Seeder : HasHead(t)' => HasHead(t)
      BY <1>6 DEF HasHead, Steps
    <2>2. QED
      BY <2>1, <1>5, <1>2 DEF IInv, Bases, OnBranch
  <1>8. Lists' /\ Proposals'
    BY <1>6, <1>2 DEF IInv, Lists, Proposals, Present, Steps, Store!Seeded
  <1>9. DoneMeansComplete'
    BY <1>1, <1>2 DEF DoneMeansComplete
  <1>10. CreatedOnce'
    <2>1. CASE created' = created
      BY <1>1, <1>2, <2>1, BadgeSeedAssumption DEF IInv, TypeOK, CreatedOnce
    <2>2. CASE created' = [created EXCEPT ![s] = missing[s]]
      <3>1. \A t \in Seeder : created'[t] = IF t = s THEN missing[s] ELSE created[t]
        BY <2>2 DEF IInv, TypeOK
      <3>2. \A t \in Seeder : missing[s] \cap created[t] = {}
        BY <1>1 DEF IInv, CreatedOnce
      <3>3. \A t \in Seeder : \A b \in created'[t] : tree'[ref'][b] # "absent"
        BY <1>1, <1>2, <3>1, BadgeSeedAssumption DEF IInv, TypeOK, CreatedOnce
      <3>4. \A t, u \in Seeder : t # u => created'[t] \cap created'[u] = {}
        BY <3>1, <3>2 DEF IInv, CreatedOnce
      <3>5. QED
        BY <3>3, <3>4 DEF CreatedOnce
    <2>3. QED
      BY <2>1, <2>2, <1>2
  <1>11. QED
    BY <1>3, <1>4, <1>7, <1>8, <1>9, <1>10 DEF IInv

(* A lane reports its result.                                              *)
LEMMA LanePushKeeps ==
  ASSUME IInv, NEW b \in Badge, LanePush(b)
  PROVE  IInv'
  <1> DEFINE files == [tree[base[b]] EXCEPT ![b] = "result"]
  <1>1. base[b] \in 1 .. n /\ base[b] \in Commit /\ ref = base[b]
    BY BaseExists, LanePushIsCompareAndSwap DEF LanePush
  <1>2. AddCommit(base[b], files)
    BY DEF LanePush
  <1>3. files \in [Badge -> Content]
        /\ \A d \in Badge : tree[base[b]][d] # "absent" => files[d] # "absent"
    BY <1>1 DEF IInv, TypeOK, Content
  <1> HIDE DEF files
  <1>4. /\ n + 1 \in Commit
        /\ anc' \in [Commit -> SUBSET Commit]
        /\ tree' \in [Commit -> [Badge -> Content]]
        /\ \A c \in 1 .. n : anc'[c] = anc[c] /\ tree'[c] = tree[c]
        /\ anc'[n + 1] = anc[ref] \cup {ref}
        /\ tree'[n + 1] = files
        /\ Ancestry'
        /\ FilesStay'
    BY <1>1, <1>2, <1>3, AddCommitKeeps DEF IInv
  <1>5. n \in Nat /\ n' = n + 1 /\ ref' = n + 1
    BY <1>2, BadgeSeedAssumption DEF AddCommit, IInv, TypeOK, Commit, LanePush
  <1>6. UNCHANGED seederVars /\ base' = [base EXCEPT ![b] = 0]
    BY DEF LanePush
  <1>7. TypeOK'
    <2>1. 1 .. n \subseteq 1 .. n' /\ 0 .. n \subseteq 0 .. n' /\ n' \in 1 .. n' /\ 0 \in 0 .. n'
      BY <1>5
    <2>2. QED
      BY <2>1, <1>4, <1>5, <1>6 DEF IInv, TypeOK, seederVars
  <1>8. ASSUME NEW c, OnBranch(c)
        PROVE  OnBranch(c)'
    BY <1>4, <1>5, <1>8 DEF OnBranch
  <1>9. Bases'
    BY <1>8, <1>6 DEF IInv, TypeOK, Bases, OnBranch, HasHead, seederVars
  <1>10. Lists' /\ Proposals'
    <2> SUFFICES ASSUME NEW t \in Seeder
                 PROVE  /\ pc[t] \in {"build", "patch"} =>
                             missing[t] = Wanted \ Present(head[t])'
                        /\ pc[t] = "patch" =>
                             /\ made[t] \in Commit
                             /\ anc'[made[t]] = anc'[head[t]] \cup {head[t]}
                             /\ tree'[made[t]] = Store!Seeded(tree'[head[t]])
      BY <1>6 DEF Lists, Proposals, seederVars, Present, Store!Seeded
    <2>1. pc[t] \in {"build", "patch"} => head[t] \in 1 .. n
      BY HeadExists DEF HasHead
    <2>2. pc[t] = "patch" => made[t] \in 1 .. n
      BY BadgeSeedAssumption DEF IInv, TypeOK, Proposals, Commit
    <2>3. QED
      BY <2>1, <2>2, <1>4, <1>6 DEF IInv, Lists, Proposals, Present, seederVars
  <1>11. \A d \in Badge : tree[ref][d] # "absent" => tree'[ref'][d] # "absent"
    BY <1>1, <1>3, <1>4, <1>5
  <1>12. DoneMeansComplete' /\ CreatedOnce'
    BY <1>11, <1>6, BadgeSeedAssumption
    DEF IInv, TypeOK, DoneMeansComplete, CreatedOnce, seederVars
  <1>13. QED
    BY <1>4, <1>7, <1>9, <1>10, <1>12 DEF IInv

-------------------------------------------------------------------------------
(* The inductive invariant holds after every step.                         *)
LEMMA StepIInv == IInv /\ [Next]_vars => IInv'
  <1> SUFFICES ASSUME IInv, [Next]_vars PROVE IInv'
    OBVIOUS
  <1>1. ASSUME NEW s \in Seeder, SeederStep(s)
        PROVE  IInv'
    BY <1>1, ReadRefKeeps, ReadTreeKeeps, BuildKeeps, PatchKeeps, RejectedKeeps, FailsKeeps
    DEF SeederStep
  <1>2. ASSUME NEW b \in Badge, LaneStep(b)
        PROVE  IInv'
    BY <1>2, LaneOutsideGitKeeps, LanePushKeeps DEF LaneStep
  <1>3. CASE UNCHANGED vars
    BY <1>3 DEF vars, git, seederVars, IInv, TypeOK, Ancestry, FilesStay, Bases, Lists,
                Proposals, DoneMeansComplete, CreatedOnce, HasHead, OnBranch, Present,
                Store!Seeded
  <1>4. QED
    BY <1>1, <1>2, <1>3 DEF Next

(* The inductive invariant.                                                *)
THEOREM Invariant == Spec => []IInv
  BY InitIInv, StepIInv, PTL DEF Spec

(* Every state of the seeding and its commits is well formed.              *)
THEOREM TypeCorrect == Spec => []TypeOK
  BY Invariant, PTL DEF IInv

(* "The full set": after a run reports success no cell of the matrix is    *)
(* ever without its file again.                                            *)
THEOREM Complete == Spec => []DoneMeansComplete
  BY Invariant, PTL DEF IInv

(* No badge is ever reported as seeded by two dispatches, however they     *)
(* overlap.                                                                *)
THEOREM SeededOnce == Spec => []CreatedOnce
  BY Invariant, PTL DEF IInv

(* "A placeholder must never overwrite a real result": the concurrent      *)
(* seeders and lanes implement the store in which seeding is one step.     *)
THEOREM ImplementsStore == Spec => KeepsStore
  <1>1. Init => Store!StoreInit
    <2> SUFFICES ASSUME Init PROVE tree[ref] \in [Badge -> {"absent", "result"}]
      BY DEF Store!StoreInit, badge
    <2>1. 1 \in Commit
      BY BadgeSeedAssumption DEF Commit
    <2>2. QED
      BY <2>1 DEF Init
  <1>2. IInv /\ [Next]_vars => [Store!StoreNext]_badge
    <2> SUFFICES ASSUME IInv, [Next]_vars
                 PROVE  [Store!StoreNext]_badge
      OBVIOUS
    <2>1. ASSUME NEW s \in Seeder, Patch(s) \/ PatchUnanswered(s)
          PROVE  Store!Seed
      <3>1. tree[made[s]] = Store!Seeded(tree[ref])
        BY <2>1, PatchSeeds DEF Patch, PatchUnanswered
      <3>2. tree' = tree /\ ref' = made[s]
        BY <2>1 DEF Patch, PatchUnanswered
      <3>3. QED
        BY <3>1, <3>2 DEF Store!Seed, badge
    <2>2. ASSUME NEW s \in Seeder, Build(s)
          PROVE  badge' = badge
      <3>1. ref \in 1 .. n /\ n \in 1 .. MaxCommits /\ MaxCommits \in Nat
        BY BadgeSeedAssumption DEF IInv, TypeOK, Commit
      <3>2. ref # n + 1 /\ ref' = ref
        BY <3>1, <2>2 DEF Build
      <3>3. \E f : tree' = [tree EXCEPT ![n + 1] = f]
        BY <2>2 DEF Build, AddCommit
      <3>4. ref \in Commit
        BY <3>1 DEF Commit
      <3>5. QED
        BY <3>2, <3>3, <3>4 DEF badge, IInv, TypeOK
    <2>3. ASSUME NEW b \in Badge, LanePush(b)
          PROVE  Store!Report(b)
      <3>1. ref = base[b]
        BY <2>3, LanePushIsCompareAndSwap DEF LanePush
      <3>2. n + 1 \in Commit
        BY <2>3, BadgeSeedAssumption DEF LanePush, AddCommit, IInv, TypeOK, Commit
      <3>3. tree'[ref'] = [tree[ref] EXCEPT ![b] = "result"]
        BY <3>1, <3>2, <2>3 DEF LanePush, AddCommit, IInv, TypeOK
      <3>4. QED
        BY <3>3 DEF Store!Report, badge
    <2>4. ASSUME NEW s \in Seeder, ReadRef(s) \/ ReadTree(s) \/ Rejected(s) \/ Fails(s)
          PROVE  badge' = badge
      BY <2>4 DEF ReadRef, ReadTree, Listed, Rejected, Fails, git, badge
    <2>5. ASSUME NEW b \in Badge, LaneCheckout(b) \/ LaneRejected(b)
          PROVE  badge' = badge
      BY <2>5 DEF LaneCheckout, LaneRejected, git, badge
    <2>6. CASE UNCHANGED vars
      BY <2>6 DEF vars, git, badge
    <2>7. QED
      BY <2>1, <2>2, <2>3, <2>4, <2>5, <2>6
      DEF Next, SeederStep, LaneStep, Store!StoreNext
  <1>3. QED
    BY <1>1, <1>2, Invariant, PTL DEF Spec, KeepsStore, Store!StoreSpec

-------------------------------------------------------------------------------
(* The composition with the matrix of release/README.md.                   *)


LaneSets == {L \in SUBSET (Lanes \cup NewLanes) : Lanes \subseteq L}

SectionOf(L, version) ==
  [series |-> Series, version |-> version, table |-> M!Table(L, Series)]

(* The inductive invariant of the README: its section of the series was    *)
(* rendered for lanes among which are those the seeders saw.               *)
ReadmeInv ==
  /\ lanes \in LaneSets
  /\ nightly = M!Table(lanes, M!Nightly)
  /\ \/ sections = Older
     \/ \E L \in LaneSets, version \in Version :
          sections = <<SectionOf(L, version)>> \o Older

-------------------------------------------------------------------------------
(* Every step of the composition is a step of the seeders and lanes, or    *)
(* leaves gh-pages alone.                                                  *)
LEMMA Composes == RSpec => Spec
  <1>1. RInit => Init
    BY DEF RInit
  <1>2. [RNext]_<<vars, readmeVars>> => [Next]_vars
    BY DEF RNext, AddLane, Render
  <1>3. QED
    BY <1>1, <1>2, PTL DEF RSpec, Spec

(* What is proved of the seeders and lanes alone, carried over.            *)
THEOREM SeedingCarriesOver ==
  RSpec => /\ []IInv
           /\ KeepsStore
  BY Composes, Invariant, ImplementsStore, PTL

-------------------------------------------------------------------------------
(* The series' section is found at the top, where it was put.              *)
LEMMA SpliceKeepsOlder ==
  ASSUME NEW section, section.series = Series,
         NEW old, old.series = Series,
         NEW seq, seq = Older \/ seq = <<old>> \o Older
  PROVE  M!Splice(seq, section) = <<section>> \o Older
  <1> DEFINE Found == {i \in 1 .. Len(seq) : seq[i].series = section.series}
             At == IF Found # {} THEN M!Min(Found) ELSE 0
  <1>1. /\ Older \in Seq(M!ToSet(Older))
        /\ \A i \in 1 .. Len(Older) : Older[i].series # Series
    BY OlderAssumption
  <1>2. M!Splice(seq, section)
          = IF At # 0 THEN [seq EXCEPT ![At] = section] ELSE <<section>> \o seq
    BY DEF M!Splice, M!SelectInSeq
  <1>3. CASE seq = Older
    <2>1. Found = {}
      BY <1>1, <1>3
    <2>2. QED
      BY <1>2, <1>3, <2>1
  <1>4. CASE seq = <<old>> \o Older
    <2> DEFINE All == M!ToSet(Older) \cup {old, section}
    <2>1. /\ Older \in Seq(All)
          /\ seq \in Seq(All) /\ Len(seq) = Len(Older) + 1 /\ seq[1] = old
          /\ \A i \in 2 .. Len(seq) : seq[i] = Older[i - 1]
      BY <1>1, <1>4
    <2>2. Found = {1}
      <3>1. 1 \in 1 .. Len(seq) /\ seq[1].series = section.series
        BY <2>1
      <3>2. ASSUME NEW i \in 2 .. Len(seq)
            PROVE  seq[i].series # section.series
        <4>1. i - 1 \in 1 .. Len(Older) /\ seq[i] = Older[i - 1]
          BY <2>1
        <4>2. QED
          BY <1>1, <4>1
      <3>3. 1 .. Len(seq) = {1} \cup 2 .. Len(seq)
        BY <2>1
      <3>4. QED
        BY <3>1, <3>2, <3>3
    <2>3. At = 1
      <3>1. M!Min({1}) = CHOOSE i \in {1} : \A j \in {1} : i <= j
        BY DEF M!Min
      <3>2. \A i \in {1} : i = 1
        OBVIOUS
      <3>3. (CHOOSE i \in {1} : \A j \in {1} : i <= j) = 1
        BY <3>2
      <3>4. QED
        BY <2>2, <3>1, <3>3
    <2> HIDE DEF At
    <2>4. M!Splice(seq, section) = [seq EXCEPT ![1] = section]
      BY <1>2, <2>3
    <2> HIDE DEF All
    <2>5. [seq EXCEPT ![1] = section] = <<section>> \o Older
      BY <2>1 DEF All
    <2>6. QED
      BY <2>4, <2>5
  <1>5. QED
    BY <1>3, <1>4

LEMMA ReadmeKept == RInit /\ [][RNext]_<<vars, readmeVars>> => []ReadmeInv
  <1>1. RInit => ReadmeInv
    BY DEF RInit, ReadmeInv, LaneSets
  <1>2. ReadmeInv /\ [RNext]_<<vars, readmeVars>> => ReadmeInv'
    <2> SUFFICES ASSUME ReadmeInv, [RNext]_<<vars, readmeVars>>
                 PROVE  ReadmeInv'
      OBVIOUS
    <2>1. CASE AddLane
      BY <2>1 DEF AddLane, ReadmeInv, LaneSets
    <2>2. CASE Render
      <3>1. PICK version \in Version : sections' = M!Splice(sections, Section(version))
        BY <2>2 DEF Render
      <3>2. Section(version) = SectionOf(lanes, version)
        BY DEF Section, SectionOf
      <3>3. \A L, v : SectionOf(L, v).series = Series
        BY DEF SectionOf
      <3>4. sections' = <<SectionOf(lanes, version)>> \o Older
        BY <3>1, <3>2, <3>3, SpliceKeepsOlder DEF ReadmeInv
      <3>5. QED
        BY <3>4, <2>2 DEF Render, ReadmeInv
    <2>3. CASE UNCHANGED readmeVars
      BY <2>3 DEF readmeVars, ReadmeInv
    <2>4. QED
      BY <2>1, <2>2, <2>3 DEF RNext
  <1>3. QED
    BY <1>1, <1>2, PTL
-------------------------------------------------------------------------------
(* A table points at one file for each entry of each cell.                 *)
LEMMA FilesOfTable ==
  ASSUME NEW L, NEW type, NEW file
  PROVE  file \in M!Files(M!Table(L, type)) <=>
           \E i \in DOMAIN Guides, p \in Providers :
             \E l \in M!Entries(L, Guides[i], p) : file = M!BadgeFile(l.badge, type)
  <1> DEFINE T == M!Table(L, type)
             At(i, p) == {M!BadgeFile(l.badge, type) : l \in M!Entries(L, Guides[i], p)}
  <1>1. /\ DOMAIN T = (DOMAIN Guides) \X Providers
        /\ \A cell \in (DOMAIN Guides) \X Providers : T[cell] = At(cell[1], cell[2])
    BY DEF M!Table
  <1>2. file \in M!Files(T) <=> \E cell \in DOMAIN T : file \in T[cell]
    BY DEF M!Files
  <1> HIDE DEF T, At
  <1>3. file \in M!Files(T) <=>
          \E i \in DOMAIN Guides, p \in Providers : file \in At(i, p)
    <2>1. ASSUME NEW cell \in (DOMAIN Guides) \X Providers, file \in T[cell]
          PROVE  cell[1] \in DOMAIN Guides /\ cell[2] \in Providers
                 /\ file \in At(cell[1], cell[2])
      BY <1>1, <2>1
    <2>2. ASSUME NEW i \in DOMAIN Guides, NEW p \in Providers, file \in At(i, p)
          PROVE  <<i, p>> \in DOMAIN T /\ file \in T[<<i, p>>]
      <3>1. <<i, p>> \in (DOMAIN Guides) \X Providers
        OBVIOUS
      <3>2. T[<<i, p>>] = At(<<i, p>>[1], <<i, p>>[2])
        BY <1>1, <3>1
      <3>3. <<i, p>>[1] = i /\ <<i, p>>[2] = p
        OBVIOUS
      <3>4. QED
        BY <1>1, <2>2, <3>1, <3>2, <3>3
    <2>3. QED
      BY <1>1, <1>2, <2>1, <2>2
  <1>4. QED
    BY <1>3 DEF At, T

(* A cell of lanes that the seeders saw is one of those they want.         *)
LEMMA SeenIsWanted ==
  ASSUME NEW L \in LaneSets,
         NEW l \in Lanes, l.label # None,
         NEW file \in M!Files(M!Table(L, Series)), file = M!BadgeFile(l.badge, Series)
  PROVE  file \in Wanted
  <1>1. PICK i \in DOMAIN Guides, p \in Providers :
          \E k \in M!Entries(L, Guides[i], p) : file = M!BadgeFile(k.badge, Series)
    BY FilesOfTable
  <1>2. PICK k \in M!Entries(L, Guides[i], p) : file = M!BadgeFile(k.badge, Series)
    BY <1>1
  <1>3. k.badge = l.badge
    <2>1. \A name : M!BadgeFile(name, Series)[1] = name
      BY DEF M!BadgeFile
    <2>2. QED
      BY <1>2, <2>1
  <1>4. k = l
    BY <1>2, <1>3, LanesAssumption DEF M!Entries, M!Discovered, LaneSets
  <1>5. l \in M!Entries(Lanes, Guides[i], p)
    BY <1>2, <1>4 DEF M!Entries, M!Discovered
  <1>6. l.badge \in M!MatrixBadges(Lanes)
    BY <1>5 DEF M!MatrixBadges, M!ToSet
  <1>7. QED
    BY <1>6, WantedAssumption

(* The nightly table has a file without suffix for every badge of main.    *)
LEMMA NightlyTable ==
  ASSUME NEW L
  PROVE  LET files == M!Files(M!Table(L, M!Nightly))
         IN  /\ \A file \in files : file[2] = ""
             /\ \A name \in M!MatrixBadges(L) : <<name, "">> \in files
  <1>1. \A name : M!BadgeFile(name, M!Nightly) = <<name, "">>
    BY DEF M!BadgeFile
  <1>2. ASSUME NEW file \in M!Files(M!Table(L, M!Nightly))
        PROVE  file[2] = ""
    <2>1. PICK i \in DOMAIN Guides, p \in Providers :
            \E l \in M!Entries(L, Guides[i], p) : file = M!BadgeFile(l.badge, M!Nightly)
      BY FilesOfTable
    <2>2. PICK name : file = <<name, "">>
      BY <1>1, <2>1
    <2>3. <<name, "">>[2] = ""
      OBVIOUS
    <2>4. QED
      BY <2>2, <2>3
  <1>3. ASSUME NEW name \in M!MatrixBadges(L)
        PROVE  <<name, "">> \in M!Files(M!Table(L, M!Nightly))
    <2>1. PICK i \in DOMAIN Guides, p \in Providers :
            \E l \in M!Entries(L, Guides[i], p) : name = l.badge
      BY DEF M!MatrixBadges, M!ToSet
    <2>2. QED
      BY <1>1, <2>1, FilesOfTable
  <1>4. QED
    BY <1>2, <1>3

(* release-e2e.yaml seeds so that no cell is "resource not found", for any *)
(* grid, lanes and earlier sections, and whatever races with the seeders,  *)
(* of the labelled lanes that the seeders saw on main.                     *)
THEOREM CellsAreThere == RSpec => []NoBrokenCells
  <1>1. IInv /\ ReadmeInv => NoBrokenCells
    <2> SUFFICES ASSUME IInv, ReadmeInv
                 PROVE  NoBrokenCells
      OBVIOUS
    <2>1. M!Files(nightly) \cap Badge = {}
      BY NightlyTable, LanesAssumption DEF ReadmeInv
    <2>2. \A name \in M!MatrixBadges(lanes) : <<name, "">> \in M!Files(nightly)
      BY NightlyTable DEF ReadmeInv
    <2>3. CASE sections = Older
      <3>1. {i \in DOMAIN sections : sections[i].series = Series} = {}
        BY <2>3, OlderAssumption
      <3>2. QED
        BY <2>1, <2>2, <2>3, <3>1 DEF NoBrokenCells
    <2>4. ASSUME NEW L \in LaneSets, NEW version \in Version,
                 sections = <<SectionOf(L, version)>> \o Older
          PROVE  NoBrokenCells
      <3> DEFINE Top == SectionOf(L, version)
                 All == M!ToSet(Older) \cup {Top}
      <3>1. /\ sections \in Seq(All) /\ sections # <<>>
            /\ Head(sections) = Top /\ Tail(sections) = Older
            /\ Older \in Seq(All)
        BY <2>4, OlderAssumption
      <3>2. Top.series = Series /\ Top.table = M!Table(L, Series)
        BY DEF SectionOf
      <3> HIDE DEF Top, All
      <3>3. ASSUME NEW i \in DOMAIN sections, sections[i].series = Series
            PROVE  sections[i] = Top
        <4>1. CASE i = 1
          BY <3>1, <4>1
        <4>2. CASE i # 1
          <5>1. i - 1 \in 1 .. Len(Older) /\ sections[i] = Older[i - 1]
            BY <3>1, <4>2
          <5>2. QED
            BY <3>1, <3>3, <5>1, OlderAssumption
        <4>3. QED
          BY <4>1, <4>2
      <3>4. ASSUME NEW s \in Seeder, pc[s] = "done",
                   NEW i \in DOMAIN sections, sections[i].series = Series,
                   NEW file \in M!Files(sections[i].table),
                   NEW l \in Lanes, l.label # None, file = M!BadgeFile(l.badge, Series)
            PROVE  file \in Badge /\ badge[file] # "absent"
        <4>1. file \in Wanted
          BY <3>2, <3>3, <3>4, SeenIsWanted
        <4>2. QED
          BY <3>4, <4>1, BadgeSeedAssumption DEF IInv, DoneMeansComplete, badge
      <3>5. QED
        BY <2>1, <2>2, <3>1, <3>2, <3>4 DEF NoBrokenCells
    <2>5. QED
      BY <2>3, <2>4 DEF ReadmeInv
  <1>2. QED
    BY <1>1, SeedingCarriesOver, ReadmeKept, PTL DEF RSpec

-------------------------------------------------------------------------------
(* Splicing, whatever sections there are.                                  *)

(* A section of the series, the first one there is.                        *)
FirstOf(seq, section, at) ==
  /\ at \in DOMAIN seq /\ seq[at].series = section.series
  /\ \A i \in 1 .. at - 1 : seq[i].series # section.series

LEMMA SpliceCases ==
  ASSUME NEW X, NEW seq \in Seq(X), NEW section
  PROVE  \/ /\ \A i \in DOMAIN seq : seq[i].series # section.series
            /\ M!Splice(seq, section) = <<section>> \o seq
         \/ \E at : /\ FirstOf(seq, section, at)
                    /\ M!Splice(seq, section) = [seq EXCEPT ![at] = section]
  <1> DEFINE Found == {i \in 1 .. Len(seq) : seq[i].series = section.series}
             At == IF Found # {} THEN M!Min(Found) ELSE 0
  <1>1. M!Splice(seq, section)
          = IF At # 0 THEN [seq EXCEPT ![At] = section] ELSE <<section>> \o seq
    BY DEF M!Splice, M!SelectInSeq
  <1>2. CASE Found = {}
    <2>1. \A i \in DOMAIN seq : seq[i].series # section.series
      BY <1>2
    <2>2. At = 0
      BY <1>2
    <2> HIDE DEF At
    <2>3. QED
      BY <1>1, <2>1, <2>2
  <1>3. CASE Found # {}
    <2>1. At = M!Min(Found)
      BY <1>3
    <2>2. PICK x \in Found : \A i \in Found : x <= i
      <3> DEFINE R == {q \in Nat \X Nat : q[1] < q[2]}
      <3>1. IsWellFoundedOn(R, Nat)
        BY NatLessThanWellFounded DEF OpToRel
      <3>2. Found \subseteq Nat
        OBVIOUS
      <3> HIDE DEF R, Found
      <3>3. PICK x \in Found : \A i \in Found : ~(<<i, x>> \in R)
        BY <1>3, <3>1, <3>2, WFMin
      <3>4. ASSUME NEW i \in Found PROVE x <= i
        <4>1. i \in Nat /\ x \in Nat
          BY <3>2
        <4>2. ~(i < x)
          BY <3>3, <4>1 DEF R
        <4>3. QED
          BY <4>1, <4>2
      <3>5. QED
        BY <3>4
    <2>3. M!Min(Found) \in Found /\ \A i \in Found : M!Min(Found) <= i
      <3> HIDE DEF Found
      <3>1. QED
        BY <2>2 DEF M!Min
    <2>4. At \in 1 .. Len(seq) /\ seq[At].series = section.series /\ At # 0
      BY <2>1, <2>3
    <2>5. ASSUME NEW i \in 1 .. At - 1 PROVE seq[i].series # section.series
      <3>1. i \in 1 .. Len(seq) /\ ~(At <= i)
        <4> HIDE DEF At
        <4>1. QED
          BY <2>4
      <3>2. i \notin Found
        BY <2>1, <2>3, <3>1
      <3>3. QED
        BY <3>1, <3>2
    <2> HIDE DEF At
    <2>6. FirstOf(seq, section, At) /\ M!Splice(seq, section) = [seq EXCEPT ![At] = section]
      BY <1>1, <2>4, <2>5 DEF FirstOf
    <2>7. QED
      BY <2>6
  <1>4. QED
    BY <1>2, <1>3

(* There is only one such place, and none if it has to be put on top.      *)
LEMMA SpliceThere ==
  ASSUME NEW X, NEW seq \in Seq(X), NEW section, NEW at, FirstOf(seq, section, at)
  PROVE  M!Splice(seq, section) = [seq EXCEPT ![at] = section]
  <1>1. PICK to : /\ FirstOf(seq, section, to)
                  /\ M!Splice(seq, section) = [seq EXCEPT ![to] = section]
    <2>1. ~(\A i \in DOMAIN seq : seq[i].series # section.series)
      BY DEF FirstOf
    <2>2. QED
      BY <2>1, SpliceCases
  <1>2. at = to
    BY <1>1 DEF FirstOf
  <1>3. QED
    BY <1>1, <1>2

LEMMA SpliceOnTop ==
  ASSUME NEW X, NEW seq \in Seq(X), NEW section,
         \A i \in DOMAIN seq : seq[i].series # section.series
  PROVE  M!Splice(seq, section) = <<section>> \o seq
  <1>1. \A at : ~FirstOf(seq, section, at)
    BY DEF FirstOf
  <1>2. QED
    BY <1>1, SpliceCases

(* A section that is rendered again takes the place of the one before, and *)
(* nothing else of the file shows that there was one: the matrix of a      *)
(* release may be dispatched as often as one likes.                        *)
THEOREM LastSplicingCounts ==
  ASSUME NEW X, NEW seq \in Seq(X), NEW old \in X, NEW new \in X, old.series = new.series
  PROVE  M!Splice(M!Splice(seq, old), new) = M!Splice(seq, new)
  <1>1. CASE \A i \in DOMAIN seq : seq[i].series # new.series
    <2> DEFINE out == <<old>> \o seq
    <2>1. M!Splice(seq, old) = out /\ M!Splice(seq, new) = <<new>> \o seq
      BY <1>1, SpliceOnTop
    <2>2. out \in Seq(X) /\ out[1] = old /\ 1 \in DOMAIN out
      OBVIOUS
    <2>3. [out EXCEPT ![1] = new] = <<new>> \o seq
      <3> DEFINE there == [out EXCEPT ![1] = new]
                 top == <<new>> \o seq
      <3>1. top \in Seq(X) /\ Len(top) = Len(out) /\ top[1] = new
        OBVIOUS
      <3>2. ASSUME NEW i \in 1 .. Len(out), i # 1 PROVE top[i] = out[i]
        BY <3>2
      <3> HIDE DEF top, out
      <3>3. there \in Seq(X) /\ Len(there) = Len(out)
        BY <2>2
      <3>4. ASSUME NEW i \in 1 .. Len(out) PROVE there[i] = top[i]
        BY <2>2, <3>1, <3>2
      <3> HIDE DEF there
      <3>5. there = top
        BY <3>1, <3>3, <3>4, SeqEqual
      <3>6. QED
        BY <3>5 DEF there, top
    <2> HIDE DEF out
    <2>4. FirstOf(out, new, 1)
      BY <2>2 DEF FirstOf
    <2>5. M!Splice(out, new) = [out EXCEPT ![1] = new]
      BY <2>2, <2>4, SpliceThere
    <2>6. QED
      BY <2>1, <2>3, <2>5
  <1>2. CASE ~(\A i \in DOMAIN seq : seq[i].series # new.series)
    <2>1. PICK at : FirstOf(seq, old, at)
      BY <1>2, SpliceCases
    <2>2. FirstOf(seq, new, at) /\ at \in DOMAIN seq
      BY <2>1 DEF FirstOf
    <2> DEFINE out == [seq EXCEPT ![at] = old]
    <2>3. M!Splice(seq, old) = out /\ M!Splice(seq, new) = [seq EXCEPT ![at] = new]
      BY <2>1, <2>2, SpliceThere
    <2>4. /\ out \in Seq(X) /\ DOMAIN out = DOMAIN seq /\ out[at] = old
          /\ \A i \in DOMAIN seq : i # at => out[i] = seq[i]
      BY <2>2
    <2>5. [out EXCEPT ![at] = new] = [seq EXCEPT ![at] = new]
      BY <2>2
    <2> HIDE DEF out
    <2>6. FirstOf(out, new, at)
      BY <2>2, <2>4 DEF FirstOf
    <2>7. M!Splice(out, new) = [out EXCEPT ![at] = new]
      BY <2>4, <2>6, SpliceThere
    <2>8. QED
      BY <2>3, <2>5, <2>7
  <1>3. QED
    BY <1>1, <1>2
===============================================================================
