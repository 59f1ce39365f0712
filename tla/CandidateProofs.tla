--------------------------- MODULE CandidateProofs ---------------------------
(***************************************************************************)
(* Proofs about Candidate, for any checkout, history of main, proposal and *)
(* left-over process: what reaches the branch was tested and reviewed.     *)
(*                                                                         *)
(* Nothing compares the files of the workspace with the base commit.  They *)
(* are its files because of a test made much later: main of the remote is  *)
(* still the base commit when the publisher begins, and as main only grows *)
(* the checkout cannot have been pulled in between (BaseInv).  The digest  *)
(* does the rest: it joins what was snapshot, tested and loaded.           *)
(***************************************************************************)
EXTENDS Candidate, TLAPS

Copied == {"develop", "snapshot", "test", "command", "verified", "loaded", "read", "published"}
Snapped == {"test", "command", "verified", "loaded", "read", "published"}
Begun == {"command", "verified", "loaded", "read", "published"}
Publishing == {"verified", "loaded", "read", "published"}

(* The places where a candidate can be, and the shapes of the files.       *)
ShapeInv ==
    /\ pc \in {"idle", "head", "status", "copy", "failed"} \cup Copied
    /\ DOMAIN ws = Paths /\ DOMAIN mirror.files = Tracked
    /\ mirror = [head |-> mirror.head, files |-> mirror.files]
    /\ pc = "read" => DOMAIN tree = Tracked \cup Ignored
    /\ ran > 0 => pc \in Begun \cup {"failed"}
    /\ pc = "copy" => todo \subseteq Tracked
    /\ pc \in {"head", "status"} => todo = Tracked
    /\ pc \in {"loaded", "read"} => snap.changed \cap (GitPaths \cup Links) = {}
    /\ branch # NoBranch => pc \in Publishing
    /\ snap.changed \subseteq Paths
    /\ base # 0 => base <= mirror.head
    /\ meddled \in BOOLEAN

(* While main is still the base commit, so is the checkout: what was       *)
(* copied from it, and the manifest taken of the copy, is the base's tree. *)
BaseInv ==
    base # 0 /\ main = base =>
        /\ pc \in {"copy"} \cup Copied => \A p \in Tracked : mirror.files[p] = TreeOf(base)[p]
        /\ pc = "copy" => \A p \in Tracked \ todo : ws[p] = TreeOf(base)[p]
        /\ pc \in Copied => \A p \in Tracked : manifest0[p] = TreeOf(base)[p]

(* What the evidence says of the files, from one step to the next.         *)
EvidenceInv ==
    /\ pc = "develop" => \A p \in Tracked : ws[p] = manifest0[p]
    /\ pc = "snapshot" =>
          \A p \in Tracked : Lines(ws[p]) # Lines(manifest0[p]) => p \in review
    /\ pc \in Snapped => \A p \in Tracked :
          /\ Lines(snap.content[p]) # Lines(manifest0[p]) => p \in review
          /\ p \notin snap.changed => snap.content[p] = manifest0[p]
    /\ pc \in Begun => \A p \in Tracked : tested[p] = snap.content[p]
    /\ pc \in {"loaded", "read"} /\ ~meddled => \A p \in Tracked : ws[p] = snap.content[p]

(* The tree under construction: the base's, with what was read so far.     *)
TreeInv ==
    pc = "read" =>
        /\ base # 0 /\ todo \subseteq snap.changed
        /\ \A p \in Tracked :
              /\ manifest0[p] = TreeOf(base)[p]
              /\ p \notin snap.changed => tree[p] = TreeOf(base)[p]
              /\ p \notin todo /\ ~meddled => tree[p] = snap.content[p]

CandInv ==
    /\ CandidateTypeOK /\ ShapeInv /\ BaseInv /\ EvidenceInv /\ TreeInv
    /\ PublishedIsTested /\ PublishedIsReviewed

USE CandidateAssumption DEF CandidateAssumption

-----------------------------------------------------------------------------
LEMMA InitCand == CandidateInit => CandInv
<1>. SUFFICES ASSUME CandidateInit PROVE CandInv OBVIOUS
<1>1. CandidateTypeOK BY DEF CandidateInit, CandidateTypeOK
<1>2. ShapeInv
  <2>1. meddled \in BOOLEAN BY Zenon DEF CandidateInit
  <2>. QED BY <2>1 DEF CandidateInit, ShapeInv, Copied, Begun, Publishing, Same, TreeOf
<1>3. BaseInv /\ EvidenceInv /\ TreeInv
  BY DEF CandidateInit, BaseInv, EvidenceInv, TreeInv, Copied, Snapped, Begun
<1>4. PublishedIsTested /\ PublishedIsReviewed
  BY DEF CandidateInit, PublishedIsTested, PublishedIsReviewed
<1>. QED BY <1>1, <1>2, <1>3, <1>4 DEF CandInv

(* The candidate's own actions, and those of the world around it.          *)
CandStep ==
    \/ \E git \in BOOLEAN : ResolveBase(git)
    \/ CheckHead \/ CheckClean \/ EndCopy \/ (\E p \in Tracked : CopyFile(p))
    \/ (\E changes \in Proposals : ApplyChanges(changes))
    \/ Snapshot \/ StartTests \/ RunCommand \/ Verify
    \/ LoadVerified(snap.changed) \/ CheckBase(base)
    \/ (\E p \in todo : ReadChangedFile(p))
    \/ CreateBranch \/ PublishFails
WorldStep == Merge \/ PullHead \/ (\E p \in Tracked : PullFile(p)) \/ (\E d \in Droppings : Stray(d))

LEMMA TwoKinds == CandidateNext <=> CandStep \/ WorldStep
BY DEF CandidateNext, CandStep, WorldStep

LEMMA StepType ==
    ASSUME CandidateTypeOK, ShapeInv, CandidateNext
    PROVE  CandidateTypeOK'
<1>. USE DEF CandidateTypeOK
<1>1. CASE WorldStep
  BY <1>1 DEF ShapeInv, WorldStep, Merge, PullHead, PullFile, Stray
<1>2. CASE \E git \in BOOLEAN : ResolveBase(git)
  BY <1>2 DEF ResolveBase, fileVars
<1>3. CASE \E p \in Tracked : CopyFile(p)
  BY <1>3 DEF CopyFile
<1>4. ASSUME NEW changes \in Proposals, ApplyChanges(changes) PROVE CandidateTypeOK'
  <2>1. Acceptable(changes) => ReviewDiff(changes) \subseteq Paths \ Links
    BY DEF Acceptable, ReviewDiff, Touched
  <2>. QED BY <1>4, <2>1 DEF ApplyChanges
<1>5. CASE RunCommand BY <1>5 DEF RunCommand
<1>6. CASE CheckBase(base) BY <1>6 DEF ShapeInv, CheckBase, Paths
<1>7. CASE \E p \in todo : ReadChangedFile(p) BY <1>7 DEF ReadChangedFile
<1>8. CASE CheckHead \/ CheckClean \/ EndCopy \/ Snapshot \/ StartTests \/ Verify
           \/ LoadVerified(snap.changed) \/ CreateBranch \/ PublishFails
  BY <1>8 DEF CheckHead, CheckClean, EndCopy, Snapshot, StartTests, Verify, LoadVerified,
              CreateBranch, PublishFails, fileVars
<1>. QED BY <1>1, <1>2, <1>3, <1>4, <1>5, <1>6, <1>7, <1>8, TwoKinds DEF CandStep

LEMMA StepShape ==
    ASSUME CandidateTypeOK, ShapeInv, CandidateNext
    PROVE  ShapeInv'
<1>. USE DEF ShapeInv, Copied, Begun, Publishing
<1>1. CASE Merge \/ PullHead \/ (\E p \in Tracked : PullFile(p))
  BY <1>1 DEF CandidateTypeOK, Merge, PullHead, PullFile
<1>0. CASE \E d \in Droppings : Stray(d) BY <1>0 DEF CandidateTypeOK, Stray
<1>2. CASE \E git \in BOOLEAN : ResolveBase(git)
  BY <1>2 DEF CandidateTypeOK, ResolveBase, fileVars
<1>3. CASE \E p \in Tracked : CopyFile(p) BY <1>3 DEF CopyFile, CandidateTypeOK
<1>4. CASE EndCopy BY <1>4 DEF EndCopy, CandidateTypeOK
<1>5. ASSUME NEW changes \in Proposals, ApplyChanges(changes) PROVE ShapeInv'
  <2>1. DOMAIN After(changes) = Paths BY DEF After
  <2>. QED BY <1>5, <2>1 DEF ApplyChanges, CandidateTypeOK
<1>6. CASE Snapshot \/ StartTests BY <1>6 DEF Snapshot, StartTests, CandidateTypeOK
<1>7. CASE RunCommand BY <1>7 DEF RunCommand, CandidateTypeOK
<1>8. CASE CheckBase(base) BY <1>8 DEF CheckBase, CandidateTypeOK
<1>9. CASE \E p \in todo : ReadChangedFile(p) BY <1>9 DEF ReadChangedFile, CandidateTypeOK
<1>10. CASE CheckHead \/ CheckClean \/ Verify \/ LoadVerified(snap.changed) \/ PublishFails
  BY <1>10 DEF CheckHead, CheckClean, Verify, LoadVerified, PublishFails, fileVars,
               CandidateTypeOK
<1>11. CASE CreateBranch BY <1>11 DEF CreateBranch, CandidateTypeOK
<1>. QED BY <1>0, <1>1, <1>2, <1>3, <1>4, <1>5, <1>6, <1>7, <1>8, <1>9, <1>10, <1>11, TwoKinds
         DEF CandStep, WorldStep

(* As main only grows, a step after which main is the base commit began    *)
(* with main at the base commit, unless it resolved the base.              *)
LEMMA StepBase ==
    ASSUME CandidateTypeOK, ShapeInv, BaseInv, CandidateNext
    PROVE  BaseInv'
<1>. USE DEF BaseInv, Copied, TreeOf
<1>0. base # 0 /\ main = base => mirror.head = base BY DEF CandidateTypeOK, ShapeInv
<1>1. CASE Merge BY <1>1 DEF Merge, CandidateTypeOK
<1>2. CASE PullHead
  <2>1. /\ mirror'.files = mirror.files
        /\ UNCHANGED <<main, base, pc, todo, ws, manifest0>>
    BY <1>2 DEF PullHead, ShapeInv
  <2>. QED BY <2>1
<1>3. ASSUME NEW p \in Tracked, PullFile(p) PROVE BaseInv'
  <2>1. \A q \in Tracked : mirror'.files[q] = IF q = p THEN TreeOf(main)[p] ELSE mirror.files[q]
    BY <1>3 DEF PullFile, ShapeInv
  <2>. QED BY <1>3, <2>1 DEF PullFile
<1>4. CASE \E d \in Droppings : Stray(d) BY <1>4 DEF Stray, ShapeInv, Begun
<1>5. CASE \E git \in BOOLEAN : ResolveBase(git)
  BY <1>5 DEF ResolveBase, fileVars
<1>6. CASE CheckClean BY <1>0, <1>6 DEF CheckClean, fileVars, ShapeInv
<1>7. CASE \E p \in Tracked : CopyFile(p) BY <1>7 DEF CopyFile, ShapeInv, Paths
<1>8. CASE EndCopy BY <1>8 DEF EndCopy, ShapeInv, Paths
<1>9. CASE CheckHead \/ (\E changes \in Proposals : ApplyChanges(changes)) \/ Snapshot
           \/ StartTests \/ RunCommand \/ Verify \/ LoadVerified(snap.changed)
           \/ CheckBase(base) \/ (\E p \in todo : ReadChangedFile(p)) \/ CreateBranch
           \/ PublishFails
  <2>1. /\ UNCHANGED <<main, mirror, manifest0, base>> /\ pc' # "copy"
        /\ pc \in Copied \/ pc' \notin Copied
    BY <1>9 DEF CheckHead, ApplyChanges, Snapshot, StartTests, RunCommand, Verify,
                LoadVerified, CheckBase, ReadChangedFile, CreateBranch, PublishFails, fileVars
  <2>. QED BY <2>1
<1>. QED BY <1>1, <1>2, <1>3, <1>4, <1>5, <1>6, <1>7, <1>8, <1>9, TwoKinds
         DEF CandStep, WorldStep

(* A proposal is shown wherever it changes the lines of a file.            *)
LEMMA DiffShows ==
    ASSUME NEW changes, NEW p \in Paths, Lines(After(changes)[p]) # Lines(ws[p])
    PROVE  p \in ReviewDiff(changes)
<1>1. p \in Touched(changes)
  BY DEF After, Touched
<1>. QED BY <1>1 DEF ReviewDiff

LEMMA StepEvidence ==
    ASSUME CandidateTypeOK, ShapeInv, EvidenceInv, CandidateNext
    PROVE  EvidenceInv'
<1>. USE DEF EvidenceInv, Snapped, Begun, Paths
<1>1. CASE Merge \/ PullHead \/ (\E p \in Tracked : PullFile(p))
  BY <1>1 DEF Merge, PullHead, PullFile
<1>2. CASE \E d \in Droppings : Stray(d)
  BY <1>2 DEF Stray, ShapeInv
<1>3. CASE (\E git \in BOOLEAN : ResolveBase(git)) \/ CheckHead \/ CheckClean
           \/ (\E p \in Tracked : CopyFile(p))
  BY <1>3 DEF ResolveBase, CheckHead, CheckClean, CopyFile, fileVars
<1>4. CASE EndCopy BY <1>4 DEF EndCopy
<1>5. ASSUME NEW changes \in Proposals, ApplyChanges(changes) PROVE EvidenceInv'
  <2>1. pc = "develop" BY <1>5 DEF ApplyChanges
  <2>2. CASE pc' = "failed" BY <2>2
  <2>3. CASE pc' # "failed"
    <3>1. /\ ws' = After(changes) /\ review' = ReviewDiff(changes) /\ pc' = "snapshot"
          /\ manifest0' = manifest0
      BY <1>5, <2>3 DEF ApplyChanges
    <3>2. \A p \in Tracked : Lines(ws'[p]) # Lines(manifest0'[p]) => p \in review'
      BY <2>1, <3>1, DiffShows
    <3>. QED BY <3>1, <3>2
  <2>. QED BY <2>2, <2>3
<1>6. CASE Snapshot BY <1>6 DEF Snapshot, Manifest
<1>7. CASE StartTests BY <1>7 DEF StartTests, SnapshotIsCurrent, Manifest
<1>8. CASE RunCommand BY <1>8 DEF RunCommand
<1>9. CASE Verify \/ PublishFails BY <1>9 DEF Verify, PublishFails, fileVars
<1>10. CASE LoadVerified(snap.changed)
  BY <1>10 DEF LoadVerified, SnapshotIsCurrent, Manifest, fileVars
<1>11. CASE CheckBase(base) \/ (\E p \in todo : ReadChangedFile(p)) \/ CreateBranch
  BY <1>11 DEF CheckBase, ReadChangedFile, CreateBranch
<1>. QED BY <1>1, <1>2, <1>3, <1>4, <1>5, <1>6, <1>7, <1>8, <1>9, <1>10, <1>11, TwoKinds
         DEF CandStep, WorldStep

LEMMA StepTree ==
    ASSUME CandidateTypeOK, ShapeInv, BaseInv, EvidenceInv, TreeInv, CandidateNext
    PROVE  TreeInv'
<1>. USE DEF TreeInv
<1>1. CASE WorldStep
  <2>1. UNCHANGED <<pc, base, todo, snap, manifest0, tree>> /\ (meddled => meddled')
    BY <1>1 DEF WorldStep, Merge, PullHead, PullFile, Stray, ShapeInv
  <2>. QED BY <2>1 DEF TreeOf
<1>2. CASE CheckBase(base)
  <2>1. /\ pc = "loaded" /\ base # 0 /\ main = base /\ todo' = snap.changed
        /\ \A p \in Tracked : tree'[p] = TreeOf(base)[p]
        /\ UNCHANGED <<main, manifest0, snap, base, meddled>>
    BY <1>2 DEF CheckBase
  <2>2. \A p \in Tracked : manifest0[p] = TreeOf(base)[p] BY <2>1 DEF BaseInv, Copied
  <2>3. \A p \in Tracked : p \notin snap.changed => snap.content[p] = manifest0[p]
    BY <2>1 DEF EvidenceInv, Snapped
  <2>. QED BY <2>1, <2>2, <2>3 DEF TreeOf
<1>3. ASSUME NEW f \in todo, ReadChangedFile(f) PROVE TreeInv'
  <2>1. /\ pc = "read" /\ pc' = "read" /\ todo' = todo \ {f}
        /\ tree' = [tree EXCEPT ![f] = ws[f]]
        /\ UNCHANGED <<manifest0, snap, base, meddled, ws>>
    BY <1>3 DEF ReadChangedFile
  <2>2. f \in snap.changed /\ f \in Tracked \cup Ignored BY <1>3, <2>1 DEF CandidateTypeOK
  <2>3. \A p \in Tracked : tree'[p] = IF p = f THEN ws[f] ELSE tree[p]
    BY <2>1, <2>2 DEF ShapeInv
  <2>4. ~meddled => \A p \in Tracked : ws[p] = snap.content[p] BY <2>1 DEF EvidenceInv
  <2>. QED BY <2>1, <2>2, <2>3, <2>4 DEF TreeOf
<1>4. CASE (\E git \in BOOLEAN : ResolveBase(git)) \/ CheckHead \/ CheckClean \/ EndCopy
           \/ (\E p \in Tracked : CopyFile(p))
           \/ (\E changes \in Proposals : ApplyChanges(changes)) \/ Snapshot \/ StartTests
           \/ RunCommand \/ Verify \/ LoadVerified(snap.changed) \/ CreateBranch \/ PublishFails
  <2>1. pc' # "read"
    BY <1>4 DEF ResolveBase, CheckHead, CheckClean, EndCopy, CopyFile, ApplyChanges, Snapshot,
                StartTests, RunCommand, Verify, LoadVerified, CreateBranch, PublishFails
  <2>. QED BY <2>1
<1>. QED BY <1>1, <1>2, <1>3, <1>4, TwoKinds DEF CandStep

(* Nothing of what the branch is compared with changes once it exists.     *)
LEMMA StepPublished ==
    ASSUME ShapeInv, EvidenceInv, TreeInv, PublishedIsTested, PublishedIsReviewed,
           CandidateNext
    PROVE  PublishedIsTested' /\ PublishedIsReviewed'
<1>. USE DEF PublishedIsTested, PublishedIsReviewed
<1>1. CASE CreateBranch
  <2>1. /\ pc = "read" /\ todo = {} /\ branch' = [parent |-> base, tree |-> tree]
        /\ UNCHANGED <<snap, review, tested, meddled>>
    BY <1>1 DEF CreateBranch
  <2>2. ASSUME NEW p \in Tracked, ~meddled PROVE branch'.tree[p] = tested'[p]
    BY <2>1, <2>2 DEF TreeInv, EvidenceInv, Begun
  <2>3. ASSUME NEW p \in Tracked, Lines(branch'.tree[p]) # Lines(TreeOf(branch'.parent)[p])
        PROVE  p \in review \/ (meddled /\ p \in snap.changed)
    <3>1. p \in snap.changed BY <2>1, <2>3 DEF TreeInv
    <3>2. CASE ~meddled
      <4>1. tree[p] = snap.content[p] /\ manifest0[p] = TreeOf(base)[p]
        BY <2>1, <3>2 DEF TreeInv
      <4>. QED BY <2>1, <2>3, <4>1 DEF EvidenceInv, Snapped
    <3>. QED BY <3>1, <3>2
  <2>. QED BY <2>1, <2>2, <2>3
<1>2. CASE UNCHANGED <<branch, tested, review, snap>> /\ (meddled => meddled')
  BY <1>2 DEF TreeOf
<1>3. CASE WorldStep
  <2>1. UNCHANGED <<branch, tested, review, snap>> /\ (meddled => meddled')
    BY <1>3 DEF WorldStep, Merge, PullHead, PullFile, Stray, ShapeInv
  <2>. QED BY <1>2, <2>1
<1>4. CASE Snapshot \/ StartTests \/ (\E changes \in Proposals : ApplyChanges(changes))
  <2>1. branch' = NoBranch
    BY <1>4 DEF Snapshot, StartTests, ApplyChanges, ShapeInv, Publishing
  <2>. QED BY <2>1
<1>5. CASE (\E git \in BOOLEAN : ResolveBase(git)) \/ CheckHead \/ CheckClean \/ EndCopy
           \/ (\E p \in Tracked : CopyFile(p)) \/ RunCommand \/ Verify
           \/ LoadVerified(snap.changed) \/ CheckBase(base)
           \/ (\E p \in todo : ReadChangedFile(p)) \/ PublishFails
  <2>1. UNCHANGED <<branch, tested, review, snap, meddled>>
    BY <1>5 DEF ResolveBase, CheckHead, CheckClean, EndCopy, CopyFile, RunCommand, Verify,
                LoadVerified, CheckBase, ReadChangedFile, PublishFails, fileVars
  <2>. QED BY <1>2, <2>1
<1>. QED BY <1>1, <1>3, <1>4, <1>5, TwoKinds DEF CandStep

LEMMA StepCand == CandInv /\ [CandidateNext]_candVars => CandInv'
<1>. SUFFICES ASSUME CandInv, [CandidateNext]_candVars PROVE CandInv' OBVIOUS
<1>1. CASE CandidateNext
  BY <1>1, StepType, StepShape, StepBase, StepEvidence, StepTree, StepPublished DEF CandInv
<1>2. CASE UNCHANGED candVars
  BY <1>2 DEF candVars, fileVars, CandInv, CandidateTypeOK, ShapeInv, BaseInv, EvidenceInv,
              TreeInv, PublishedIsTested, PublishedIsReviewed, TreeOf
<1>. QED BY <1>1, <1>2

LEMMA AlwaysCand == CandidateSpec => []CandInv
BY InitCand, StepCand, PTL DEF CandidateSpec

-----------------------------------------------------------------------------
(* The variables of a candidate have their types: commits are commits of   *)
(* main, and only paths that may be published are read for publication.    *)
THEOREM CandidateTypeCorrect == CandidateSpec => []CandidateTypeOK
BY AlwaysCand, PTL DEF CandInv

(* The branch holds the files that were tested, for any interleaving of    *)
(* pulls, merges and late writes outside the publisher's own reads.        *)
THEOREM BranchIsTested == CandidateSpec => []PublishedIsTested
BY AlwaysCand, PTL DEF CandInv

(* No tracked file has other lines on the branch than on main without      *)
(* having been shown to the reviewers, late writes aside.  Of an empty     *)
(* file that is created or deleted it says nothing: that is never shown.   *)
THEOREM BranchIsReviewed == CandidateSpec => []PublishedIsReviewed
BY AlwaysCand, PTL DEF CandInv
=============================================================================
