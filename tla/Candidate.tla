------------------------------ MODULE Candidate ------------------------------
(***************************************************************************)
(* One candidate on its way from the source checkout to a branch on the    *)
(* remote: IsolatedRepositorySandbox copies the checkout into a workspace, *)
(* applies the developer's changes and runs the tests, CandidateVerifier   *)
(* ties the evidence together, and after QA and approval (CodeChange) the  *)
(* publisher reopens the workspace and builds a commit from its files.     *)
(*                                                                         *)
(* Nothing holds the checkout, the remote or the workspace still: main     *)
(* advances and the checkout is pulled while files are copied one by one,  *)
(* test commands leave files behind, and a process that outlives them may  *)
(* write to the workspace at any later moment.                             *)
(***************************************************************************)
EXTENDS Integers, Sequences, FiniteSets

CONSTANTS
    Tracked,      \* paths git may track
    Ignored,      \* paths git ignores, caches among them
    GitPaths,     \* paths under .git
    Links,        \* paths that are or cross a symbolic link of the workspace
    MainTrees,    \* the commits of main: what each has at every tracked path
    Local,        \* what the checkout has at the paths git does not track
    Proposals,    \* changes a developer may propose: sequences of path, op, content
    Droppings,    \* what test commands may write: [path, content]
    MAX_REVIEW_DIFF, \* most files with a difference that fit a review
    TestCommands, \* number of commands in the test profile
    MaxStrays,    \* bound: writes of a process that outlives the tests
    NoBranch

Paths == Tracked \cup Ignored \cup GitPaths \cup Links

(* Git tracks nothing under .git, and what it does not track is elsewhere  *)
(* than what it does; main has a first commit, a tree of tracked paths.    *)
ASSUME CandidateAssumption ==
    /\ Tracked \cap GitPaths = {} /\ Tracked \cap DOMAIN Local = {}
    /\ Len(MainTrees) \in Nat \ {0}
    /\ \A i \in 1 .. Len(MainTrees) : DOMAIN MainTrees[i] = Tracked
    /\ TestCommands \in Nat

VARIABLES
    main,     \* commit of main on the remote
    mirror,   \* the checkout: head and files
    ws,       \* files of the workspace
    pc,       \* where the candidate is
    base,     \* base_commit; 0 stands for NO_GIT_BASE_COMMIT
    todo,     \* paths still to copy or to read
    manifest0,\* base_manifest
    snap,     \* CandidateSnapshot: changed_files and content_digest
    review,   \* files the review diff shows
    ran,      \* test commands that have run
    tree,     \* tree under construction on the remote
    branch,   \* the generated branch: parent and tree
    tested,   \* history: files as they were when the tests began
    strays,
    meddled   \* history: a file was written while the publisher read

fileVars == <<main, mirror, ws, manifest0, snap, review, ran, tree, branch, tested, strays, meddled>>
candVars == <<fileVars, pc, base, todo>>

\* A content is its text and how its lines end.
Absent == [text |-> "absent", crlf |-> FALSE]
\* The lines a diff compares: a file that is not there has none, like an empty one.
Lines(f) == IF f = Absent THEN "empty" ELSE f.text
TreeOf(commit) == MainTrees[commit]
Same(f) == [p \in Paths |-> f]

CandidateInit ==
    /\ main = 1 /\ mirror = [head |-> 1, files |-> TreeOf(1)]
    /\ ws = Same(Absent) /\ pc = "idle" /\ base = 0 /\ todo = {}
    /\ manifest0 = Same(Absent) /\ snap = [changed |-> {}, content |-> Same(Absent)]
    /\ review = {} /\ ran = 0 /\ tree = [p \in Tracked |-> Absent] /\ branch = NoBranch
    /\ tested = Same(Absent) /\ strays = 0 /\ meddled = FALSE

\* _manifest: every file and link of the workspace but those under .git
Manifest == [p \in Paths |-> IF p \in GitPaths THEN Absent ELSE ws[p]]

-----------------------------------------------------------------------------
(* sandbox.prepare                                                         *)

\* _resolve_base_commit, rev-parse of the base reference; a source without
\* .git has no base commit and is copied as it is
ResolveBase(git) ==
    /\ pc = "idle"
    /\ base' = IF git THEN mirror.head ELSE 0
    /\ pc' = IF git THEN "head" ELSE "copy"
    /\ todo' = Tracked
    /\ UNCHANGED fileVars

\* rev-parse of HEAD, which must be that commit
CheckHead ==
    /\ pc = "head"
    /\ pc' = IF mirror.head = base THEN "status" ELSE "failed"
    /\ UNCHANGED <<fileVars, base, todo>>

\* status: ignored files do not count
CheckClean ==
    /\ pc = "status"
    /\ pc' = IF mirror.files = TreeOf(mirror.head) THEN "copy" ELSE "failed"
    /\ UNCHANGED <<fileVars, base, todo>>

\* copytree, file by file
CopyFile(p) ==
    /\ pc = "copy" /\ p \in todo
    /\ ws' = [ws EXCEPT ![p] = mirror.files[p]]
    /\ todo' = todo \ {p}
    /\ UNCHANGED <<main, mirror, manifest0, snap, review, ran, tree, branch, tested, strays, meddled, pc, base>>

\* what git does not track, the shared links, and the manifest to compare with
EndCopy ==
    /\ pc = "copy" /\ todo = {}
    /\ ws' = [p \in Paths |-> IF p \in DOMAIN Local THEN Local[p] ELSE ws[p]]
    /\ manifest0' = [p \in Paths |-> IF p \in GitPaths THEN Absent ELSE ws'[p]]
    /\ pc' = "develop"
    /\ UNCHANGED <<main, mirror, snap, review, ran, tree, branch, tested, strays, meddled, base, todo>>

-----------------------------------------------------------------------------
(* sandbox.apply_changes and snapshot, over the changes of the developer   *)

Touched(changes) == {changes[i].path : i \in 1 .. Len(changes)}

\* _candidate_file_changes, FileChange, _safe_target and the first _review_text
Acceptable(changes) ==
    \A i \in 1 .. Len(changes) :
        /\ changes[i].op \in {"write", "delete"}
        /\ changes[i].path \in Paths \ Links
        /\ ws[changes[i].path].text # "binary"

\* The last change of a path wins.
After(changes) ==
    [p \in Paths |->
        LET mine == {i \in 1 .. Len(changes) : changes[i].path = p}
            last == changes[CHOOSE i \in mine : \A j \in mine : j <= i]
        IN  IF mine = {} THEN ws[p] ELSE IF last.op = "delete" THEN Absent ELSE last.content]

\* Mutant: a file that is deleted gets no section.
ReviewDiffOfWrites(changes) ==
    {p \in Touched(changes) : /\ Lines(ws[p]) # Lines(After(changes)[p])
                              /\ After(changes)[p] # Absent}

\* _build_review_diff: the lines are compared, with their endings already
\* translated; for an empty file that is created or deleted unified_diff has
\* nothing to say, and its section is empty
ReviewDiff(changes) == {p \in Touched(changes) : Lines(ws[p]) # Lines(After(changes)[p])}

ApplyChanges(changes) ==
    /\ pc = "develop"
    /\ IF Acceptable(changes) /\ Cardinality(ReviewDiff(changes)) <= MAX_REVIEW_DIFF
       THEN ws' = After(changes) /\ review' = ReviewDiff(changes) /\ pc' = "snapshot"
       ELSE pc' = "failed" /\ UNCHANGED <<ws, review>>
    /\ UNCHANGED <<main, mirror, manifest0, snap, ran, tree, branch, tested, strays, meddled, base, todo>>

Snapshot ==
    /\ pc = "snapshot"
    /\ snap' = [changed |-> {p \in Paths : manifest0[p] # Manifest[p]}, content |-> Manifest]
    /\ pc' = "test"
    /\ UNCHANGED <<main, mirror, ws, manifest0, review, ran, tree, branch, tested, strays, meddled, base, todo>>

-----------------------------------------------------------------------------
(* sandbox.run_tests and verifier.verify                                   *)

\* _require_current_snapshot
SnapshotIsCurrent == snap.content = Manifest

StartTests ==
    /\ pc = "test"
    /\ tested' = ws
    /\ pc' = IF SnapshotIsCurrent THEN "command" ELSE "failed"
    /\ UNCHANGED <<main, mirror, ws, manifest0, snap, review, ran, tree, branch, strays, meddled, base, todo>>

\* A command passes, leaving files or not; or it fails or runs into its timeout.
RunCommand ==
    /\ pc = "command" /\ ran < TestCommands
    /\ ran' = ran + 1
    /\ ws' \in {ws} \cup {[ws EXCEPT ![d.path] = d.content] : d \in Droppings}
    /\ pc' \in {"command", "failed"}
    /\ UNCHANGED <<main, mirror, manifest0, snap, review, tree, branch, tested, strays, meddled, base, todo>>

\* verify: a change without a difference to show is refused
Verify ==
    /\ pc = "command" /\ ran = TestCommands
    /\ pc' = IF snap.changed # {} /\ review = {} THEN "failed" ELSE "verified"
    /\ UNCHANGED <<fileVars, base, todo>>

-----------------------------------------------------------------------------
(* The approved candidate: store.load_verified and publisher.publish       *)

\* The evidence has not changed, the files must have the digest they had.
LoadVerified(changed) ==
    /\ pc = "verified" /\ changed = snap.changed
    /\ changed \cap (GitPaths \cup Links) = {}
    /\ SnapshotIsCurrent
    /\ pc' = "loaded"
    /\ UNCHANGED <<fileVars, base, todo>>

\* Mutant: the commit goes onto the base, wherever main is by now.
CheckBaseLoosely(commit) ==
    /\ pc = "loaded" /\ base # 0 /\ commit = base
    /\ pc' = "read" /\ todo' = snap.changed
    /\ tree' = [p \in Tracked \cup Ignored |-> IF p \in Tracked THEN TreeOf(base)[p] ELSE Absent]
    /\ UNCHANGED <<main, mirror, ws, manifest0, snap, review, ran, branch, tested, strays, meddled, base>>

\* publish: main of the remote is still the base commit; its tree is read
CheckBase(commit) ==
    /\ pc = "loaded" /\ base # 0 /\ commit = base /\ main = commit
    /\ pc' = "read" /\ todo' = snap.changed
    /\ tree' = [p \in Tracked \cup Ignored |-> IF p \in Tracked THEN TreeOf(base)[p] ELSE Absent]
    /\ UNCHANGED <<main, mirror, ws, manifest0, snap, review, ran, branch, tested, strays, meddled, base>>

\* read_changed_file and its blob; a deletion needs an entry to delete
ReadChangedFile(p) ==
    /\ pc = "read" /\ p \in todo
    /\ ws[p] = Absent => tree[p] # Absent
    /\ tree' = [tree EXCEPT ![p] = ws[p]]
    /\ todo' = todo \ {p}
    /\ UNCHANGED <<main, mirror, ws, manifest0, snap, review, ran, branch, tested, strays, meddled, pc, base>>

\* Tree, commit and, last, the branch, which must be new; the answer may be lost.
CreateBranch ==
    /\ pc = "read" /\ todo = {} /\ branch = NoBranch
    /\ branch' = [parent |-> base, tree |-> tree]
    /\ pc' \in {"published", "verified"}
    /\ UNCHANGED <<main, mirror, ws, manifest0, snap, review, ran, tree, tested, strays, meddled, base, todo>>

\* A request to the remote fails or is refused, or the process stops; the
\* next attempt begins with load_verified.
PublishFails ==
    /\ pc \in {"loaded", "read"}
    /\ pc' = "verified" /\ todo' = {}
    /\ UNCHANGED <<fileVars, base>>

-----------------------------------------------------------------------------
(* The world around                                                        *)

Merge ==
    /\ main < Len(MainTrees)
    /\ main' = main + 1
    /\ UNCHANGED <<mirror, ws, manifest0, snap, review, ran, tree, branch, tested, strays, meddled, pc, base, todo>>

\* git pull in the checkout: the files, then HEAD
PullFile(p) ==
    /\ mirror.files[p] # TreeOf(main)[p]
    /\ mirror' = [mirror EXCEPT !.files[p] = TreeOf(main)[p]]
    /\ UNCHANGED <<main, ws, manifest0, snap, review, ran, tree, branch, tested, strays, meddled, pc, base, todo>>

PullHead ==
    /\ mirror.head # main /\ mirror.files = TreeOf(main)
    /\ mirror' = [mirror EXCEPT !.head = main]
    /\ UNCHANGED <<main, ws, manifest0, snap, review, ran, tree, branch, tested, strays, meddled, pc, base, todo>>

\* A process the tests started is still there and writes.
Stray(d) ==
    /\ ran > 0 /\ strays < MaxStrays
    /\ strays' = strays + 1
    /\ ws' = [ws EXCEPT ![d.path] = d.content]
    /\ meddled' = (meddled \/ pc \in {"loaded", "read"})
    /\ UNCHANGED <<main, mirror, manifest0, snap, review, ran, tree, branch, tested, pc, base, todo>>

CandidateNext ==
    \/ \E git \in BOOLEAN : ResolveBase(git)
    \/ CheckHead \/ CheckClean \/ EndCopy
    \/ \E p \in Tracked : CopyFile(p) \/ PullFile(p)
    \/ \E changes \in Proposals : ApplyChanges(changes)
    \/ Snapshot \/ StartTests \/ RunCommand \/ Verify
    \/ LoadVerified(snap.changed) \/ CheckBase(base)
    \/ \E p \in todo : ReadChangedFile(p)
    \/ CreateBranch \/ PublishFails
    \/ Merge \/ PullHead
    \/ \E d \in Droppings : Stray(d)

CandidateSpec == CandidateInit /\ [][CandidateNext]_candVars

-----------------------------------------------------------------------------
CandidateTypeOK ==
    /\ main \in 1 .. Len(MainTrees) /\ mirror.head \in 1 .. main
    /\ base \in 0 .. main
    /\ todo \subseteq Tracked \cup Ignored /\ ran \in 0 .. TestCommands
    /\ review \subseteq Paths \ Links

(* The branch holds the files that were tested, file by file, although the *)
(* checkout may have been pulled while it was copied and the workspace     *)
(* written to since: the digest refuses the one, the base commit the       *)
(* other.  Only a write while the publisher reads gets through.            *)
PublishedIsTested ==
    branch # NoBranch /\ ~meddled => \A p \in Tracked : branch.tree[p] = tested[p]

(* Whatever lines the branch changes in a tracked file, the reviewers have *)
(* been shown: the diff of QA and owner is built from the proposal, the    *)
(* commit from a comparison of manifests.  What changes no line is not     *)
(* shown: the way lines end, and an empty file created or deleted.  A      *)
(* write while the publisher reads gets through in a file that the         *)
(* candidate changed, and in no other.                                     *)
PublishedIsReviewed ==
    branch # NoBranch => \A p \in Tracked :
        Lines(branch.tree[p]) # Lines(TreeOf(branch.parent)[p]) =>
            p \in review \/ (meddled /\ p \in snap.changed)
=============================================================================
