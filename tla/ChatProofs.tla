------------------------------ MODULE ChatProofs ------------------------------
(***************************************************************************)
(* Proofs about Chat and the Departments it extends, for any number of     *)
(* workers, requests, missions and questions.                              *)
(*                                                                         *)
(* BaseInv is the inductive core: the worker loop and the rows of the      *)
(* board (DeptTyped), the conversation and its requests (ChatTyped), and   *)
(* which messages are linked to which mission (Linked).  What the rest of  *)
(* the system may do to a mission meanwhile is Evolves: its subject stays, *)
(* a completed one keeps its evidence, a release goes forward.  A step is  *)
(* then one of three (StepCases): a message is added, a request goes on    *)
(* without one (Proceeds), or only missions and workers move.  Unraced and *)
(* Untangled are kept by each of the three, on top of BaseInv.             *)
(***************************************************************************)
EXTENDS Chat, SequenceTheorems, FiniteSetTheorems, WellFoundedInduction, TLAPS

-----------------------------------------------------------------------------
(* What the variables hold.                                                *)

Tools == {"dripvid.config.read", "dripvid.release.read", "dripvid.service.status.read",
          "dripvid.health.read", "system.health.read", "service.status.read",
          "service.logs.read"}
ReleaseStates == {"none", "published", "deployed", "rolled_back"}
MissionRows ==
    [kind : {"op", "code", "hand"}, route : BOOLEAN, text : SUBSET Cues, steps : SUBSET Tools,
     status : MissionStatus, planned : BOOLEAN, done : Nat, open : {"none", "claimed", "failed"},
     running : BOOLEAN, release : ReleaseStates, dropped : BOOLEAN,
     foe : LoopWorkers \cup {"nobody"}]
PlanStages == {"plan", "claim", "begin", "step", "conclude"}
Loops ==
    [pc : PlanStages \cup {"idle", "changes", "change", "department", "route", "routed",
                           "start", "work", "inspect", "done"},
     mission : Nat, snap : MissionStatus \cup {"none"},
     result : {"none", "supported", "unsupported", "COMPLETED", "FAILED"}]

(* How far a release has come.                                             *)
RankOf(x) == CHOOSE n \in 1 .. 4 : ReleaseSteps[n] = x

(* What happens to a mission: its subject stays, a completed one has its   *)
(* evidence, and a release goes forward.                                   *)
Evolves(x, y) ==
    /\ y.kind = x.kind /\ y.text = x.text /\ y.steps = x.steps
    /\ x.status = "COMPLETED" => y.status = "COMPLETED" /\ y.running = x.running
    /\ RankOf(x.release) <= RankOf(y.release)

BoardStep ==
    /\ board' \in Seq(MissionRows)
    /\ Len(board') >= Len(board)
    /\ \A m \in Ids : Evolves(board[m], board'[m])

SameFoes == \A m \in Ids : board'[m].foe = board[m].foe

LEMMA Ranks ==
    /\ RankOf("none") = 1 /\ RankOf("published") = 2
    /\ RankOf("deployed") = 3 /\ RankOf("rolled_back") = 4
<1>1. /\ ReleaseSteps[1] = "none" /\ ReleaseSteps[2] = "published"
      /\ ReleaseSteps[3] = "deployed" /\ ReleaseSteps[4] = "rolled_back"
  BY DEF ReleaseSteps
<1>2. ASSUME NEW k \in 1 .. 4 PROVE RankOf(ReleaseSteps[k]) = k
  <2>1. \A n \in 1 .. 4 : n = 1 \/ n = 2 \/ n = 3 \/ n = 4 OBVIOUS
  <2>2. \A n \in 1 .. 4 : ReleaseSteps[n] = ReleaseSteps[k] => n = k
    BY <1>1, <2>1
  <2>. QED BY <2>2 DEF RankOf
<1>. QED BY <1>1, <1>2

LEMMA RankNat == ASSUME NEW x \in ReleaseStates PROVE RankOf(x) \in 1 .. 4
BY Ranks DEF ReleaseStates

LEMMA EvolvesRefl ==
    ASSUME NEW x \in MissionRows PROVE Evolves(x, x)
<1>1. x.release \in ReleaseStates BY DEF MissionRows
<1>2. RankOf(x.release) \in 1 .. 4 BY <1>1, RankNat
<1>. QED BY <1>2 DEF Evolves

LEMMA BoardAppend ==
    ASSUME board \in Seq(MissionRows), NEW x \in MissionRows, board' = Append(board, x)
    PROVE  /\ BoardStep /\ Len(board') = Len(board) + 1
           /\ board'[Len(board) + 1] = x
           /\ \A m \in Ids : board'[m] = board[m]
<1>1. /\ board' \in Seq(MissionRows) /\ Len(board') = Len(board) + 1
      /\ board'[Len(board) + 1] = x
      /\ \A m \in 1 .. Len(board) : board'[m] = board[m]
  BY AppendProperties
<1>2. Len(board) \in Nat BY LenProperties
<1>3. \A m \in Ids : board[m] \in MissionRows BY ElementOfSeq DEF Ids
<1>4. \A m \in Ids : Evolves(board[m], board'[m]) BY <1>1, <1>3, EvolvesRefl DEF Ids
<1>. QED BY <1>1, <1>2, <1>4 DEF BoardStep, Ids

(* A mission is replaced by another version of itself.                     *)
Patch(m, x) == board' = [board EXCEPT ![m] = x]

LEMMA BoardPatch ==
    ASSUME board \in Seq(MissionRows), NEW m \in Ids, NEW x \in MissionRows,
           Patch(m, x), Evolves(board[m], x)
    PROVE  /\ BoardStep /\ Len(board') = Len(board) /\ board'[m] = x
           /\ \A n \in Ids \ {m} : board'[n] = board[n]
<1>1. /\ board' \in Seq(MissionRows) /\ Len(board') = Len(board)
      /\ \A n \in 1 .. Len(board) : board'[n] = IF n = m THEN x ELSE board[n]
  BY ExceptSeq DEF Patch, Ids
<1>2. Len(board) \in Nat BY LenProperties
<1>3. \A n \in Ids : board[n] \in MissionRows BY ElementOfSeq DEF Ids
<1>4. \A n \in Ids : Evolves(board[n], board'[n]) BY <1>1, <1>3, EvolvesRefl DEF Ids
<1>. QED BY <1>1, <1>2, <1>4 DEF BoardStep, Ids

LEMMA BoardSame ==
    ASSUME board \in Seq(MissionRows), board' = board
    PROVE  BoardStep
<1>1. Len(board) \in Nat BY LenProperties
<1>2. \A n \in Ids : board[n] \in MissionRows BY ElementOfSeq DEF Ids
<1>. QED BY <1>1, <1>2, EvolvesRefl DEF BoardStep

(* Somebody writes to a mission: it stays about the same, and one that is  *)
(* completed stays so.                                                     *)
LEMMA WriteStep ==
    ASSUME board \in Seq(MissionRows), NEW m \in Ids, NEW x \in MissionRows, Patch(m, x),
           /\ x.kind = board[m].kind /\ x.text = board[m].text /\ x.steps = board[m].steps
           /\ x.release = board[m].release /\ x.foe = board[m].foe,
           \/ board[m].status # "COMPLETED"
           \/ x.status = board[m].status /\ x.running = board[m].running
    PROVE  BoardStep /\ SameFoes
<1>1. board[m] \in MissionRows BY ElementOfSeq DEF Ids
<1>2. Evolves(board[m], x) BY <1>1, EvolvesRefl DEF Evolves
<1>3. BoardStep /\ board'[m] = x /\ \A n \in Ids \ {m} : board'[n] = board[n]
  BY <1>2, BoardPatch
<1>. QED BY <1>3 DEF SameFoes

LEMMA StatusStep ==
    ASSUME board \in Seq(MissionRows), NEW m \in Ids, NEW s \in MissionStatus,
           board[m].status # "COMPLETED", board' = [board EXCEPT ![m].status = s]
    PROVE  BoardStep /\ SameFoes
<1>1. PICK x : x = [board[m] EXCEPT !.status = s] OBVIOUS
<1>2. board[m] \in MissionRows BY ElementOfSeq DEF Ids
<1>3. /\ x \in MissionRows /\ x.kind = board[m].kind /\ x.text = board[m].text
      /\ x.steps = board[m].steps /\ x.release = board[m].release /\ x.foe = board[m].foe
  BY <1>1, <1>2 DEF MissionRows
<1>4. Patch(m, x) BY <1>1 DEF Patch
<1>. QED BY <1>3, <1>4, WriteStep

(* MissionService.transition, accepted or not.                             *)
LEMMA TransitionStep ==
    ASSUME board \in Seq(MissionRows), NEW m \in Ids, NEW s \in MissionStatus, Transition(m, s)
    PROVE  BoardStep /\ SameFoes
<1>1. CASE board' = board BY <1>1, BoardSame DEF SameFoes
<1>2. CASE s \in AllowedTransitions(board[m].status)
  <2>1. board[m].status # "COMPLETED" BY <1>2 DEF AllowedTransitions
  <2>. QED BY <1>2, <2>1, StatusStep DEF Transition
<1>. QED BY <1>1, <1>2 DEF Transition

(* A step of a plan is claimed, succeeds or fails.                         *)
LEMMA PlanRowStep ==
    ASSUME board \in Seq(MissionRows), NEW m \in Ids, NEW n \in Nat,
           NEW o \in {"none", "claimed", "failed"},
           Patch(m, [board[m] EXCEPT !.done = n, !.open = o])
    PROVE  BoardStep /\ SameFoes
<1>1. PICK x : x = [board[m] EXCEPT !.done = n, !.open = o] OBVIOUS
<1>2. board[m] \in MissionRows BY ElementOfSeq DEF Ids
<1>3. /\ x \in MissionRows /\ x.kind = board[m].kind /\ x.text = board[m].text
      /\ x.steps = board[m].steps /\ x.release = board[m].release /\ x.foe = board[m].foe
      /\ x.status = board[m].status /\ x.running = board[m].running
  BY <1>1, <1>2 DEF MissionRows
<1>4. Patch(m, x) BY <1>1
<1>. QED BY <1>3, <1>4, WriteStep

(* The verdict on a plan, and the department's verdict on a mission that   *)
(* Commander does not know.                                                *)
LEMMA VerdictStep ==
    ASSUME board \in Seq(MissionRows), NEW m \in Ids, NEW b \in BOOLEAN,
           NEW s \in AllowedTransitions(board[m].status),
           board' = [board EXCEPT ![m].status = s, ![m].running = b]
    PROVE  BoardStep /\ SameFoes
<1>1. PICK x : x = [board[m] EXCEPT !.status = s, !.running = b] OBVIOUS
<1>2. board[m] \in MissionRows BY ElementOfSeq DEF Ids
<1>3. board[m].status # "COMPLETED" /\ s \in MissionStatus
  BY DEF AllowedTransitions, MissionStatus
<1>4. /\ x \in MissionRows /\ x.kind = board[m].kind /\ x.text = board[m].text
      /\ x.steps = board[m].steps /\ x.release = board[m].release /\ x.foe = board[m].foe
  BY <1>1, <1>2, <1>3 DEF MissionRows
<1>5. Patch(m, x)
  <2>1. m \in DOMAIN board BY LenProperties DEF Ids
  <2>. QED BY <1>1, <2>1 DEF Patch
<1>. QED BY <1>3, <1>4, <1>5, WriteStep

LEMMA UnsupportedStep ==
    ASSUME board \in Seq(MissionRows), NEW m \in Ids, NEW w \in LoopWorkers,
           board' = IF "FAILED" \in AllowedTransitions(board[m].status)
                    THEN [board EXCEPT ![m].status = "FAILED", ![m].foe = w]
                    ELSE board
    PROVE  BoardStep /\ \A n \in Ids : board'[n].foe = board[n].foe \/ board'[n].foe = w
<1>1. CASE board' = board BY <1>1, BoardSame
<1>2. CASE "FAILED" \in AllowedTransitions(board[m].status)
  <2>1. PICK x : x = [board[m] EXCEPT !.status = "FAILED", !.foe = w] OBVIOUS
  <2>2. board[m] \in MissionRows BY ElementOfSeq DEF Ids
  <2>3. board[m].status # "COMPLETED" BY <1>2 DEF AllowedTransitions
  <2>4. /\ x \in MissionRows /\ x.kind = board[m].kind /\ x.text = board[m].text
        /\ x.steps = board[m].steps /\ x.release = board[m].release /\ x.foe = w
    BY <2>1, <2>2 DEF MissionRows, MissionStatus
  <2>5. Evolves(board[m], x) BY <2>2, <2>3, <2>4, EvolvesRefl DEF Evolves
  <2>6. Patch(m, x)
    <3>1. m \in DOMAIN board BY LenProperties DEF Ids
    <3>. QED BY <1>2, <2>1, <3>1 DEF Patch
  <2>7. BoardStep /\ board'[m] = x /\ \A n \in Ids \ {m} : board'[n] = board[n]
    BY <2>4, <2>5, <2>6, BoardPatch
  <2>. QED BY <2>4, <2>7
<1>. QED BY <1>1, <1>2

-----------------------------------------------------------------------------
(* The worker loop.                                                        *)

LoopOK(x, seen) ==
    /\ x.mission \in {0} \cup Ids
    /\ x.mission = 0 <=> x.pc \in {"idle", "changes", "department"}
    /\ x.pc \notin PlanStages => seen = {}

DeptTyped ==
    /\ scope \in Scopes
    /\ board \in Seq(MissionRows)
    /\ agents \in [{"commander", "sysadmin"} -> {0} \cup Ids]
    /\ at \in [LoopWorkers -> Loops]
    /\ seenPlanned \in [LoopWorkers -> SUBSET Nat]
    /\ loopCrashes \in Nat
    /\ \A w \in LoopWorkers : LoopOK(at[w], seenPlanned[w])

LEMMA DeptTypedTypeOK == ASSUME DeptTyped PROVE DeptTypeOK
<1>1. \A m \in Ids : board[m] \in MissionRows BY ElementOfSeq DEF DeptTyped, Ids
<1>2. \A m \in Ids : board[m].status \in MissionStatus /\ board[m].planned \in BOOLEAN
  BY <1>1 DEF MissionRows
<1>. QED BY <1>2 DEF DeptTyped, DeptTypeOK, LoopOK

LEMMA IdsGrow ==
    ASSUME board \in Seq(MissionRows), BoardStep PROVE Ids \subseteq Ids'
<1>1. Len(board) \in Nat /\ Len(board') \in Nat BY LenProperties DEF BoardStep
<1>. QED BY <1>1 DEF BoardStep, Ids

(* One worker of the loop moves, the board evolves.                        *)
Turn(w, x, S) ==
    /\ at' = [at EXCEPT ![w] = x]
    /\ seenPlanned' = [seenPlanned EXCEPT ![w] = S]

LEMMA TurnTyped ==
    ASSUME DeptTyped, BoardStep, NEW w \in LoopWorkers, NEW x \in Loops, NEW S \in SUBSET Nat,
           Turn(w, x, S), LoopOK(x, S), scope' = scope,
           agents' = agents \/ \E a \in {"commander", "sysadmin"}, m \in {0} \cup Ids :
                                  agents' = [agents EXCEPT ![a] = m],
           loopCrashes' \in Nat
    PROVE  DeptTyped'
<1>1. Ids \subseteq Ids' BY IdsGrow DEF DeptTyped
<1>2. /\ at' \in [LoopWorkers -> Loops] /\ seenPlanned' \in [LoopWorkers -> SUBSET Nat]
      /\ \A v \in LoopWorkers : /\ at'[v] = IF v = w THEN x ELSE at[v]
                                /\ seenPlanned'[v] = IF v = w THEN S ELSE seenPlanned[v]
  BY DEF DeptTyped, Turn
<1>3. agents' \in [{"commander", "sysadmin"} -> {0} \cup Ids'] BY <1>1 DEF DeptTyped
<1>4. ASSUME NEW v \in LoopWorkers PROVE LoopOK(at[v], seenPlanned[v])'
  <2>1. CASE v = w BY <1>1, <1>2, <2>1 DEF LoopOK
  <2>2. CASE v # w
    <3>1. LoopOK(at[v], seenPlanned[v]) BY DEF DeptTyped
    <3>. QED BY <1>1, <1>2, <2>2, <3>1 DEF LoopOK
  <2>. QED BY <2>1, <2>2
<1>. QED BY <1>2, <1>3, <1>4 DEF DeptTyped, BoardStep

LEMMA LeastNatural ==
    ASSUME NEW S, S \subseteq Nat, S # {}
    PROVE  \E x \in S : \A y \in S : x <= y
<1>1. PICK R : R = {ss \in Nat \X Nat : ss[1] < ss[2]} OBVIOUS
<1>2. IsWellFoundedOn(R, Nat) BY <1>1, NatLessThanWellFounded DEF OpToRel
<1>3. PICK x \in S : \A y \in S : ~ (<<y, x>> \in R) BY <1>2, WFMin
<1>4. \A y \in S : ~ (y < x) BY <1>1, <1>3
<1>. QED BY <1>4

LEMMA Oldest ==
    ASSUME board \in Seq(MissionRows), NEW S, S \subseteq Ids, S # {}
    PROVE  OldestIn(S) \in S /\ OldestIn(S) \in Ids
<1>1. S \subseteq Nat BY LenProperties DEF Ids
<1>2. \E m \in S : \A n \in S : m <= n BY <1>1, LeastNatural
<1>. QED BY <1>2 DEF OldestIn

(* What a step of the worker loop keeps, and what it says of a mission     *)
(* that gets a foe.                                                        *)
Spares ==
    \A w \in LoopWorkers, m \in Ids :
        board[m].foe # w /\ board'[m].foe = w => m \notin seenPlanned[w]
DeptKeeps == DeptTyped' /\ BoardStep /\ Spares

LEMMA LoopFacts ==
    ASSUME DeptTyped, NEW w \in LoopWorkers
    PROVE  /\ at[w] \in Loops /\ LoopOK(at[w], seenPlanned[w])
           /\ seenPlanned[w] \in SUBSET Nat /\ Ids \subseteq Nat
           /\ AtRest \in Loops /\ LoopOK(AtRest, {})
           /\ at[w].pc \notin {"idle", "changes", "department"} => at[w].mission \in Ids
<1>1. Ids \subseteq Nat BY LenProperties DEF Ids
<1>2. at[w] \in Loops /\ LoopOK(at[w], seenPlanned[w]) /\ seenPlanned[w] \in SUBSET Nat
  BY DEF DeptTyped
<1>3. AtRest \in Loops /\ LoopOK(AtRest, {}) BY DEF AtRest, Loops, LoopOK, PlanStages
<1>. QED BY <1>1, <1>2, <1>3 DEF LoopOK

LEMMA RestTurn ==
    ASSUME DeptTyped, NEW w \in LoopWorkers, Rest(w), BoardStep, SameFoes, scope' = scope,
           agents' = agents \/ \E a \in {"commander", "sysadmin"}, m \in {0} \cup Ids :
                                  agents' = [agents EXCEPT ![a] = m],
           loopCrashes' \in Nat
    PROVE  DeptKeeps
<1>1. Turn(w, AtRest, {}) BY DEF Rest, Turn
<1>2. AtRest \in Loops /\ LoopOK(AtRest, {}) BY LoopFacts
<1>3. DeptTyped' BY <1>1, <1>2, TurnTyped
<1>. QED BY <1>3 DEF DeptKeeps, Spares, SameFoes

LEMMA MoveTurn ==
    ASSUME DeptTyped, NEW w \in LoopWorkers, NEW pc, Move(w, pc),
           pc \in {"routed", "start", "work", "inspect", "done"},
           at[w].pc \in {"route", "routed", "start", "work", "inspect"},
           UNCHANGED <<seenPlanned, scope>>, BoardStep, SameFoes,
           agents' = agents \/ \E a \in {"commander", "sysadmin"}, m \in {0} \cup Ids :
                                  agents' = [agents EXCEPT ![a] = m],
           loopCrashes' \in Nat
    PROVE  DeptKeeps
<1>1. PICK x : x = [at[w] EXCEPT !.pc = pc] OBVIOUS
<1>2. at[w] \in Loops /\ LoopOK(at[w], seenPlanned[w]) BY LoopFacts
<1>3. x \in Loops /\ x.pc = pc /\ x.mission = at[w].mission BY <1>1, <1>2 DEF Loops
<1>4. LoopOK(x, {}) /\ seenPlanned[w] = {} BY <1>2, <1>3 DEF LoopOK, PlanStages
<1>5. Turn(w, x, {})
  <2>1. w \in DOMAIN at /\ seenPlanned \in [LoopWorkers -> SUBSET Nat] BY DEF DeptTyped
  <2>2. seenPlanned = [seenPlanned EXCEPT ![w] = {}] BY <1>4, <2>1
  <2>. QED BY <1>1, <2>1, <2>2 DEF Turn, Move
<1>6. DeptTyped' BY <1>3, <1>4, <1>5, TurnTyped
<1>. QED BY <1>6 DEF DeptKeeps, Spares, SameFoes

LEMMA TakeTurn ==
    ASSUME DeptTyped, NEW w \in LoopWorkers, NEW pc \in {"plan", "change", "route"},
           NEW m \in Ids, NEW S \in SUBSET Nat, Take(w, pc, m),
           seenPlanned' = [seenPlanned EXCEPT ![w] = S], pc # "plan" => S = {},
           scope' = scope, BoardStep, SameFoes,
           agents' = agents \/ \E a \in {"commander", "sysadmin"}, n \in {0} \cup Ids :
                                  agents' = [agents EXCEPT ![a] = n],
           loopCrashes' \in Nat
    PROVE  DeptKeeps
<1>1. PICK x : x = [AtRest EXCEPT !.pc = pc, !.mission = m] OBVIOUS
<1>2. Ids \subseteq Nat /\ 0 \notin Ids BY LenProperties DEF Ids, DeptTyped
<1>3. x \in Loops /\ x.pc = pc /\ x.mission = m BY <1>1, <1>2 DEF Loops, AtRest, PlanStages
<1>4. LoopOK(x, S) BY <1>2, <1>3 DEF LoopOK, PlanStages
<1>5. Turn(w, x, S) BY <1>1 DEF Turn, Take
<1>6. DeptTyped' BY <1>3, <1>4, <1>5, TurnTyped
<1>. QED BY <1>6 DEF DeptKeeps, Spares, SameFoes

(* A look that finds nothing sends the worker to the next stage.           *)
LEMMA NextStage ==
    ASSUME DeptTyped, NEW w \in LoopWorkers, NEW pc \in {"changes", "department"},
           Move(w, pc), at[w].pc \in {"idle", "changes"},
           seenPlanned' = [seenPlanned EXCEPT ![w] = {}],
           UNCHANGED <<scope, board, agents, loopCrashes>>
    PROVE  DeptKeeps
<1>1. PICK x : x = [at[w] EXCEPT !.pc = pc] OBVIOUS
<1>2. at[w] \in Loops /\ LoopOK(at[w], seenPlanned[w]) BY LoopFacts
<1>3. x \in Loops /\ x.pc = pc /\ x.mission = at[w].mission BY <1>1, <1>2 DEF Loops
<1>4. LoopOK(x, {}) BY <1>2, <1>3 DEF LoopOK
<1>5. Turn(w, x, {}) BY <1>1 DEF Turn, Move, DeptTyped
<1>6. BoardStep BY BoardSame DEF DeptTyped
<1>7. DeptTyped' BY <1>3, <1>4, <1>5, <1>6, TurnTyped DEF DeptTyped
<1>. QED BY <1>6, <1>7 DEF DeptKeeps, Spares

LEMMA KeptSeen ==
    ASSUME DeptTyped, NEW w \in LoopWorkers, at[w].pc \notin PlanStages
    PROVE  seenPlanned[w] = {} /\ seenPlanned = [seenPlanned EXCEPT ![w] = {}]
<1>1. seenPlanned[w] = {} BY LoopFacts DEF LoopOK
<1>. QED BY <1>1 DEF DeptTyped

(* A worker goes on with the plan it has in hand.                          *)
LEMMA PlanTurn ==
    ASSUME DeptTyped, NEW w \in LoopWorkers, NEW x \in Loops, at' = [at EXCEPT ![w] = x],
           x.pc \in PlanStages, x.mission = at[w].mission, at[w].pc \in PlanStages,
           UNCHANGED <<seenPlanned, scope, agents, loopCrashes>>, BoardStep, SameFoes
    PROVE  DeptKeeps
<1>1. /\ LoopOK(at[w], seenPlanned[w]) /\ seenPlanned[w] \in SUBSET Nat
  BY LoopFacts
<1>2. LoopOK(x, seenPlanned[w]) BY <1>1 DEF LoopOK, PlanStages
<1>3. Turn(w, x, seenPlanned[w]) BY DEF Turn, DeptTyped
<1>4. DeptTyped' BY <1>1, <1>2, <1>3, TurnTyped DEF DeptTyped
<1>. QED BY <1>4 DEF DeptKeeps, Spares, SameFoes

LEMMA LookForPlanKeeps ==
    ASSUME DeptTyped, NEW w \in LoopWorkers, LookForPlan(w) PROVE DeptKeeps
<1>1. Executable \subseteq Ids /\ Executable \in SUBSET Nat BY LoopFacts DEF Executable
<1>2. CASE Executable # {}
  <2>1. OldestIn(Executable) \in Ids BY <1>1, <1>2, Oldest DEF DeptTyped
  <2>2. BoardStep /\ SameFoes BY BoardSame DEF LookForPlan, DeptTyped, SameFoes
  <2>. QED BY <1>1, <1>2, <2>1, <2>2, TakeTurn DEF LookForPlan, DeptTyped
<1>3. CASE Executable = {}
  BY <1>3, NextStage DEF LookForPlan
<1>. QED BY <1>2, <1>3

LEMMA GetPlannedKeeps ==
    ASSUME DeptTyped, NEW w \in LoopWorkers, GetPlanned(w) PROVE DeptKeeps
<1>1. /\ at[w].mission \in Ids /\ at[w] \in Loops /\ at[w].pc \in PlanStages
  BY LoopFacts DEF GetPlanned, PlanStages
<1>2. BoardStep /\ SameFoes BY BoardSame DEF GetPlanned, DeptTyped, SameFoes
<1>3. CASE Rest(w) BY <1>2, <1>3, RestTurn DEF GetPlanned, DeptTyped
<1>4. CASE ~Rest(w)
  <2>1. PICK x : x = [at[w] EXCEPT !.pc = "claim", !.snap = board[at[w].mission].status]
    OBVIOUS
  <2>2. board[at[w].mission] \in MissionRows BY <1>1, ElementOfSeq DEF Ids, DeptTyped
  <2>3. board[at[w].mission].status \in MissionStatus BY <2>2 DEF MissionRows
  <2>4. x \in Loops /\ x.pc \in PlanStages /\ x.mission = at[w].mission
    BY <1>1, <2>1, <2>3 DEF Loops, PlanStages
  <2>5. at' = [at EXCEPT ![w] = x] BY <1>4, <2>1 DEF GetPlanned, DeptTyped
  <2>. QED BY <1>1, <1>2, <1>4, <2>4, <2>5, PlanTurn DEF GetPlanned
<1>. QED BY <1>3, <1>4

LEMMA ClaimPlanStepKeeps ==
    ASSUME DeptTyped, NEW w \in LoopWorkers, ClaimPlanStep(w) PROVE DeptKeeps
<1>1. /\ at[w].mission \in Ids /\ at[w] \in Loops /\ at[w].pc \in PlanStages
  BY LoopFacts DEF ClaimPlanStep, PlanStages
<1>2. board \in Seq(MissionRows) /\ board[at[w].mission] \in MissionRows
  BY <1>1, ElementOfSeq DEF Ids, DeptTyped
<1>3. CASE Rest(w) /\ UNCHANGED board
  <2>1. BoardStep /\ SameFoes BY <1>3, BoardSame DEF DeptTyped, SameFoes
  <2>. QED BY <1>3, <2>1, RestTurn DEF ClaimPlanStep, DeptTyped
<1>4. ASSUME NEW pc \in {"begin", "step"}, Advance(w, pc),
             board' = [board EXCEPT ![at[w].mission].open = "claimed"]
      PROVE  DeptKeeps
  <2>1. Patch(at[w].mission, [board[at[w].mission] EXCEPT !.done = board[at[w].mission].done,
                                                          !.open = "claimed"])
    BY <1>2, <1>4 DEF Patch, MissionRows
  <2>2. board[at[w].mission].done \in Nat BY <1>2 DEF MissionRows
  <2>3. BoardStep /\ SameFoes BY <1>1, <1>2, <2>1, <2>2, PlanRowStep
  <2>4. PICK x : x = [at[w] EXCEPT !.pc = pc] OBVIOUS
  <2>5. x \in Loops /\ x.pc \in PlanStages /\ x.mission = at[w].mission
    BY <1>1, <2>4 DEF Loops, PlanStages
  <2>6. at' = [at EXCEPT ![w] = x] /\ UNCHANGED seenPlanned
    BY <1>4, <2>4 DEF Advance, Move, DeptTyped
  <2>. QED BY <1>1, <2>3, <2>5, <2>6, PlanTurn DEF ClaimPlanStep
<1>5. ASSUME NEW pc \in {"begin", "conclude"}, UNCHANGED <<board, seenPlanned>>,
             at' = [at EXCEPT ![w].pc = pc, ![w].result = "COMPLETED"]
      PROVE  DeptKeeps
  <2>1. BoardStep /\ SameFoes BY <1>5, BoardSame DEF DeptTyped, SameFoes
  <2>2. PICK x : x = [at[w] EXCEPT !.pc = pc, !.result = "COMPLETED"] OBVIOUS
  <2>3. x \in Loops /\ x.pc \in PlanStages /\ x.mission = at[w].mission
    BY <1>1, <2>2 DEF Loops, PlanStages
  <2>4. at' = [at EXCEPT ![w] = x] BY <1>5, <2>2 DEF DeptTyped
  <2>. QED BY <1>1, <1>5, <2>1, <2>3, <2>4, PlanTurn DEF ClaimPlanStep
<1>. QED BY <1>3, <1>4, <1>5 DEF ClaimPlanStep

LEMMA BeginPlanKeeps ==
    ASSUME DeptTyped, NEW w \in LoopWorkers, BeginPlan(w) PROVE DeptKeeps
<1>1. /\ at[w].mission \in Ids /\ at[w] \in Loops /\ at[w].pc \in PlanStages
  BY LoopFacts DEF BeginPlan, PlanStages
<1>2. BoardStep /\ SameFoes
  BY <1>1, TransitionStep DEF BeginPlan, DeptTyped, MissionStatus
<1>3. CASE Rest(w) BY <1>2, <1>3, RestTurn DEF BeginPlan, DeptTyped
<1>4. ASSUME NEW pc \in {"conclude", "step"}, Advance(w, pc) PROVE DeptKeeps
  <2>1. PICK x : x = [at[w] EXCEPT !.pc = pc] OBVIOUS
  <2>2. x \in Loops /\ x.pc \in PlanStages /\ x.mission = at[w].mission
    BY <1>1, <2>1 DEF Loops, PlanStages
  <2>3. at' = [at EXCEPT ![w] = x] /\ UNCHANGED seenPlanned
    BY <1>4, <2>1 DEF Advance, Move, DeptTyped
  <2>. QED BY <1>1, <1>2, <2>2, <2>3, PlanTurn DEF BeginPlan
<1>. QED BY <1>3, <1>4 DEF BeginPlan

LEMMA RunPlanStepKeeps ==
    ASSUME DeptTyped, NEW w \in LoopWorkers, RunPlanStep(w) PROVE DeptKeeps
<1>. DEFINE m == at[w].mission
<1>1. /\ m \in Ids /\ at[w] \in Loops /\ at[w].pc \in PlanStages
  BY LoopFacts DEF RunPlanStep, PlanStages
<1>2. board \in Seq(MissionRows) /\ board[m] \in MissionRows /\ m \in DOMAIN board
  BY <1>1, ElementOfSeq, LenProperties DEF Ids, DeptTyped
<1>3. BoardStep /\ SameFoes
  <2>1. board[m].done \in Nat /\ board[m].done + 1 \in Nat BY <1>2 DEF MissionRows
  <2>2. CASE board' = [board EXCEPT ![m].done = @ + 1, ![m].open = "none"]
    <3>1. Patch(m, [board[m] EXCEPT !.done = board[m].done + 1, !.open = "none"])
      BY <1>2, <2>2 DEF Patch, MissionRows
    <3>. QED BY <1>1, <1>2, <2>1, <3>1, PlanRowStep
  <2>3. CASE board' = [board EXCEPT ![m].open = "failed"]
    <3>1. Patch(m, [board[m] EXCEPT !.done = board[m].done, !.open = "failed"])
      BY <1>2, <2>3 DEF Patch, MissionRows
    <3>. QED BY <1>1, <1>2, <2>1, <3>1, PlanRowStep
  <2>. QED BY <2>2, <2>3 DEF RunPlanStep
<1>4. CASE Rest(w) BY <1>3, <1>4, RestTurn DEF RunPlanStep, DeptTyped
<1>5. ASSUME NEW r \in {"COMPLETED", "FAILED"}, UNCHANGED seenPlanned,
             at' = [at EXCEPT ![w].pc = "conclude", ![w].result = r]
      PROVE  DeptKeeps
  <2>1. PICK x : x = [at[w] EXCEPT !.pc = "conclude", !.result = r] OBVIOUS
  <2>2. x \in Loops /\ x.pc \in PlanStages /\ x.mission = at[w].mission
    BY <1>1, <2>1 DEF Loops, PlanStages
  <2>3. at' = [at EXCEPT ![w] = x] BY <1>5, <2>1 DEF DeptTyped
  <2>. QED BY <1>1, <1>3, <1>5, <2>2, <2>3, PlanTurn DEF RunPlanStep
<1>. QED BY <1>4, <1>5 DEF RunPlanStep

LEMMA ConcludePlanKeeps ==
    ASSUME DeptTyped, NEW w \in LoopWorkers, ConcludePlan(w) PROVE DeptKeeps
<1>. DEFINE m == at[w].mission
<1>1. m \in Ids BY LoopFacts DEF ConcludePlan
<1>2. PICK b \in BOOLEAN :
          board' = IF at[w].result \in AllowedTransitions(board[m].status)
                   THEN [board EXCEPT ![m].status = at[w].result, ![m].running = b]
                   ELSE board
  BY DEF ConcludePlan
<1>3. BoardStep /\ SameFoes
  <2>1. CASE board' = board BY <2>1, BoardSame DEF DeptTyped, SameFoes
  <2>2. CASE at[w].result \in AllowedTransitions(board[m].status)
    BY <1>1, <1>2, <2>2, VerdictStep DEF DeptTyped
  <2>. QED BY <1>2, <2>1, <2>2
<1>. QED BY <1>3, RestTurn DEF ConcludePlan, DeptTyped

LEMMA LookForChangeKeeps ==
    ASSUME DeptTyped, NEW w \in LoopWorkers, LookForChange(w) PROVE DeptKeeps
<1>1. PICK expired \in SUBSET Changes("RUNNING") :
          LET claimable == Changes("QUEUED") \cup expired
          IN  IF claimable # {}
              THEN /\ Take(w, "change", OldestIn(claimable))
                   /\ board' = [board EXCEPT ![OldestIn(claimable)].status = "RUNNING"]
              ELSE Move(w, "department") /\ UNCHANGED board
  BY DEF LookForChange
<1>. DEFINE claimable == Changes("QUEUED") \cup expired
<1>2. /\ claimable \subseteq Ids /\ \A m \in claimable : board[m].status # "COMPLETED"
  BY DEF Changes
<1>. HIDE DEF claimable
<1>3. seenPlanned' = [seenPlanned EXCEPT ![w] = {}] BY KeptSeen DEF LookForChange, PlanStages
<1>4. CASE claimable # {}
  <2>1. OldestIn(claimable) \in Ids /\ OldestIn(claimable) \in claimable
    BY <1>2, <1>4, Oldest DEF DeptTyped
  <2>2. /\ Take(w, "change", OldestIn(claimable))
        /\ board' = [board EXCEPT ![OldestIn(claimable)].status = "RUNNING"]
    BY <1>1, <1>4 DEF claimable
  <2>3. BoardStep /\ SameFoes
    BY <1>2, <2>1, <2>2, StatusStep DEF DeptTyped, MissionStatus
  <2>. QED BY <1>3, <2>1, <2>2, <2>3, TakeTurn DEF LookForChange, DeptTyped
<1>5. CASE claimable = {}
  <2>1. Move(w, "department") /\ UNCHANGED board BY <1>1, <1>5 DEF claimable
  <2>. QED BY <1>3, <2>1, NextStage DEF LookForChange
<1>. QED BY <1>4, <1>5

LEMMA ChangeEndsKeeps ==
    ASSUME DeptTyped, NEW w \in LoopWorkers, ChangeEnds(w) PROVE DeptKeeps
<1>1. at[w].mission \in Ids BY LoopFacts DEF ChangeEnds
<1>2. BoardStep /\ SameFoes
  BY <1>1, TransitionStep DEF ChangeEnds, DeptTyped, MissionStatus
<1>. QED BY <1>2, RestTurn DEF ChangeEnds, DeptTyped

LEMMA ChangeRaisesKeeps ==
    ASSUME DeptTyped, NEW w \in LoopWorkers, ChangeRaises(w) PROVE DeptKeeps
<1>1. at[w].mission \in Ids BY LoopFacts DEF ChangeRaises
<1>2. BoardStep /\ SameFoes
  <2>1. CASE board' = board BY <2>1, BoardSame DEF DeptTyped, SameFoes
  <2>2. CASE board' # board BY <1>1, <2>2, StatusStep DEF ChangeRaises, DeptTyped, MissionStatus
  <2>. QED BY <2>1, <2>2
<1>3. PICK x : x = [AtRest EXCEPT !.pc = "department", !.mission = 0] OBVIOUS
<1>4. x \in Loops /\ LoopOK(x, {}) BY <1>3 DEF AtRest, Loops, LoopOK, PlanStages
<1>5. Turn(w, x, {})
  BY <1>3, KeptSeen DEF ChangeRaises, PlanStages, Turn, Take
<1>6. DeptTyped' BY <1>2, <1>4, <1>5, TurnTyped DEF ChangeRaises, DeptTyped
<1>. QED BY <1>2, <1>6 DEF DeptKeeps, Spares, SameFoes

LEMMA PickQueuedKeeps ==
    ASSUME DeptTyped, NEW w \in LoopWorkers, PickQueued(w) PROVE DeptKeeps
<1>1. Queued \subseteq Ids BY DEF Queued
<1>2. BoardStep /\ SameFoes BY BoardSame DEF PickQueued, DeptTyped, SameFoes
<1>3. CASE Queued # {}
  <2>1. OldestIn(Queued) \in Ids BY <1>1, <1>3, Oldest DEF DeptTyped
  <2>2. seenPlanned' = [seenPlanned EXCEPT ![w] = {}] BY <1>3, KeptSeen DEF PickQueued, PlanStages
  <2>3. Take(w, "route", OldestIn(Queued)) BY <1>3 DEF PickQueued
  <2>4. agents' = [agents EXCEPT !["commander"] = OldestIn(Queued)] BY <1>3 DEF PickQueued
  <2>5. scope' = scope /\ loopCrashes' \in Nat BY DEF PickQueued, DeptTyped
  <2>. QED BY <1>2, <2>1, <2>2, <2>3, <2>4, <2>5, TakeTurn
<1>4. CASE Queued = {}
  BY <1>2, <1>4, RestTurn DEF PickQueued, DeptTyped
<1>. QED BY <1>3, <1>4

LEMMA RouteKeeps ==
    ASSUME DeptTyped, NEW w \in LoopWorkers, Route(w) PROVE DeptKeeps
<1>1. at[w].mission \in Ids BY LoopFacts DEF Route
<1>2. seenPlanned[w] = {} /\ seenPlanned' = [seenPlanned EXCEPT ![w] = {}]
  BY KeptSeen DEF Route, PlanStages
<1>3. BoardStep /\ \A n \in Ids : board'[n].foe = board[n].foe \/ board'[n].foe = w
  <2>1. CASE board' = board BY <2>1, BoardSame DEF DeptTyped
  <2>2. CASE board' # board
    BY <1>1, <2>2, UnsupportedStep DEF Route, DeptTyped
  <2>. QED BY <2>1, <2>2
<1>4. PICK r \in {"supported", "unsupported"} :
          at' = [at EXCEPT ![w].pc = "routed", ![w].result = r]
  BY DEF Route
<1>5. PICK x : x = [at[w] EXCEPT !.pc = "routed", !.result = r] OBVIOUS
<1>6. at[w] \in Loops /\ LoopOK(at[w], seenPlanned[w]) BY LoopFacts
<1>7. x \in Loops /\ x.pc = "routed" /\ x.mission = at[w].mission BY <1>5, <1>6 DEF Loops
<1>8. LoopOK(x, {}) BY <1>6, <1>7 DEF LoopOK, Route, PlanStages
<1>9. Turn(w, x, {}) BY <1>2, <1>4, <1>5 DEF Turn, DeptTyped
<1>10. DeptTyped' BY <1>3, <1>7, <1>8, <1>9, TurnTyped DEF Route, DeptTyped
<1>11. Spares BY <1>2, <1>3 DEF Spares
<1>. QED BY <1>3, <1>10, <1>11 DEF DeptKeeps

LEMMA CommanderIdleKeeps ==
    ASSUME DeptTyped, NEW w \in LoopWorkers, CommanderIdle(w) PROVE DeptKeeps
<1>1. BoardStep /\ SameFoes BY BoardSame DEF CommanderIdle, DeptTyped, SameFoes
<1>2. agents' = [agents EXCEPT !["commander"] = 0] /\ scope' = scope /\ loopCrashes' \in Nat
  BY DEF CommanderIdle, DeptTyped
<1>3. CASE Rest(w) BY <1>1, <1>2, <1>3, RestTurn
<1>4. CASE Advance(w, "start")
  BY <1>1, <1>2, <1>4, MoveTurn DEF Advance, CommanderIdle
<1>. QED BY <1>3, <1>4 DEF CommanderIdle

LEMMA StartMissionKeeps ==
    ASSUME DeptTyped, NEW w \in LoopWorkers, StartMission(w) PROVE DeptKeeps
<1>1. at[w].mission \in Ids BY LoopFacts DEF StartMission
<1>2. BoardStep /\ SameFoes
  BY <1>1, TransitionStep DEF StartMission, DeptTyped, MissionStatus
<1>3. agents' = agents /\ scope' = scope /\ loopCrashes' \in Nat
  BY DEF StartMission, DeptTyped
<1>4. CASE Rest(w) BY <1>2, <1>3, <1>4, RestTurn
<1>5. CASE Advance(w, "work")
  BY <1>2, <1>3, <1>5, MoveTurn DEF Advance, StartMission
<1>. QED BY <1>4, <1>5 DEF StartMission

LEMMA SysadminWorksKeeps ==
    ASSUME DeptTyped, NEW w \in LoopWorkers, SysadminWorks(w) PROVE DeptKeeps
<1>1. at[w].mission \in Ids BY LoopFacts DEF SysadminWorks
<1>2. BoardStep /\ SameFoes BY BoardSame DEF SysadminWorks, DeptTyped, SameFoes
<1>3. agents' = [agents EXCEPT !["sysadmin"] = at[w].mission] /\ loopCrashes' \in Nat
  BY DEF SysadminWorks, DeptTyped
<1>. QED BY <1>1, <1>2, <1>3, MoveTurn DEF SysadminWorks

LEMMA FinishMissionKeeps ==
    ASSUME DeptTyped, NEW w \in LoopWorkers, FinishMission(w) PROVE DeptKeeps
<1>1. at[w].mission \in Ids BY LoopFacts DEF FinishMission
<1>2. PICK d, h : Transition(at[w].mission, SysadminExecute(d, h)) BY DEF FinishMission
<1>3. SysadminExecute(d, h) \in MissionStatus BY DEF SysadminExecute, MissionStatus
<1>4. BoardStep /\ SameFoes BY <1>1, <1>2, <1>3, TransitionStep DEF DeptTyped
<1>. QED BY <1>4, MoveTurn DEF FinishMission, DeptTyped

LEMMA SysadminIdleKeeps ==
    ASSUME DeptTyped, NEW w \in LoopWorkers, SysadminIdle(w) \/ LoopCrash(w) PROVE DeptKeeps
<1>1. BoardStep /\ SameFoes BY BoardSame DEF SysadminIdle, LoopCrash, DeptTyped, SameFoes
<1>2. Rest(w) /\ scope' = scope /\ loopCrashes' \in Nat
  BY DEF SysadminIdle, LoopCrash, DeptTyped
<1>3. agents' = agents \/ agents' = [agents EXCEPT !["sysadmin"] = 0]
  BY DEF SysadminIdle, LoopCrash
<1>. QED BY <1>1, <1>2, <1>3, RestTurn

(* A mission appears or changes and the loop does not move.                *)
LEMMA BoardOnlyTyped ==
    ASSUME DeptTyped, BoardStep, UNCHANGED <<scope, agents, at, seenPlanned, loopCrashes>>
    PROVE  DeptTyped'
<1>1. Ids \subseteq Ids' BY IdsGrow DEF DeptTyped
<1>2. ASSUME NEW w \in LoopWorkers PROVE LoopOK(at[w], seenPlanned[w])'
  <2>1. LoopOK(at[w], seenPlanned[w]) BY DEF DeptTyped
  <2>. QED BY <1>1, <2>1 DEF LoopOK
<1>3. agents' \in [{"commander", "sysadmin"} -> {0} \cup Ids'] BY <1>1 DEF DeptTyped
<1>. QED BY <1>2, <1>3 DEF DeptTyped, BoardStep

LEMMA NewMissionRow ==
    ASSUME NEW k \in {"op", "code", "hand"}, NEW route \in BOOLEAN, NEW t \in SUBSET Cues,
           NEW S \in SUBSET Tools
    PROVE  /\ NewMission(k, route, t, S) \in MissionRows
           /\ NewMission(k, route, t, S).text = t
BY DEF NewMission, MissionRows, MissionStatus, ReleaseStates

LEMMA NewChangeRow ==
    ASSUME NEW t \in SUBSET Cues
    PROVE  /\ NewMission("code", FALSE, t, {}) \in MissionRows
           /\ NewMission("code", FALSE, t, {}).text = t
<1>1. {} \in SUBSET Tools /\ FALSE \in BOOLEAN OBVIOUS
<1>. QED BY <1>1 DEF NewMission, MissionRows, MissionStatus, ReleaseStates

LEMMA CreateByHandKeeps ==
    ASSUME DeptTyped, NEW route \in BOOLEAN, CreateByHand(route) PROVE DeptKeeps
<1>1. NewMission("hand", route, {}, {}) \in MissionRows BY NewMissionRow
<1>2. /\ BoardStep /\ \A m \in Ids : board'[m] = board[m]
  BY <1>1, BoardAppend DEF CreateByHand, DeptTyped
<1>3. DeptTyped' BY <1>2, BoardOnlyTyped DEF CreateByHand
<1>. QED BY <1>2, <1>3 DEF DeptKeeps, Spares

LEMMA DeptStep == ASSUME DeptTyped, DeptNext PROVE DeptKeeps
<1>1. ASSUME NEW route \in BOOLEAN, CreateByHand(route) PROVE DeptKeeps
  BY <1>1, CreateByHandKeeps
<1>2. ASSUME NEW w \in scope.staff, LoopStep(w) \/ LoopCrash(w) PROVE DeptKeeps
  <2>1. w \in LoopWorkers BY DeptAssumption DEF DeptTyped
  <2>. QED
    BY <1>2, <2>1, LookForPlanKeeps, GetPlannedKeeps, ClaimPlanStepKeeps, BeginPlanKeeps,
       RunPlanStepKeeps, ConcludePlanKeeps, LookForChangeKeeps, ChangeEndsKeeps,
       ChangeRaisesKeeps, PickQueuedKeeps, RouteKeeps, CommanderIdleKeeps, StartMissionKeeps, SysadminWorksKeeps,
       FinishMissionKeeps, SysadminIdleKeeps DEF LoopStep
<1>. QED BY <1>1, <1>2 DEF DeptNext

-----------------------------------------------------------------------------
(* The conversation and its requests.                                      *)

IntentKinds == {"refused", "conversation", "code_change", "operational"}
MessageKinds ==
    IntentKinds \cup {"none", "question", "notice", "answer", "failed", "candidate",
                      "change_failed"}
Claims ==
    ReleaseStates \cup {"model", "unconfigured", "Healthy", "Attention_Required",
                        "Partially_Verified", "Unable_to_Verify"}
Messages ==
    [role : {"none", "user", "assistant"}, kind : MessageKinds, mission : Nat,
     question : SUBSET Cues, claim : Claims]
RequestRows ==
    [pc : {"idle", "add", "intent", "plan", "completed", "failed", "candidate"},
     kind : {"none", "submit", "refresh"}, text : SUBSET Cues, mission : Nat, pos : Nat,
     msg : Messages]

(* A message is about a mission there is, and the record bears out what it *)
(* says.                                                                   *)
Claimed(x) ==
    /\ x.mission \in {0} \cup Ids
    /\ x.claim = "Healthy" =>
          /\ x.mission \in Ids
          /\ {"system.health.read", "service.status.read"} \subseteq board[x.mission].steps
          /\ board[x.mission].running /\ board[x.mission].status = "COMPLETED"
    /\ x.kind = "candidate" =>
          /\ x.mission \in Ids /\ x.claim \in ReleaseStates
          /\ RankOf(x.claim) <= RankOf(board[x.mission].release)
Grounded == {x \in Messages : Claimed(x)}

(* A request and the mission it is about.                                  *)
RowOK(x) ==
    /\ x.mission \in {0} \cup Ids /\ x.pos <= Len(msgs) + 1
    /\ x.pc = "idle" <=> x.kind = "none"
    /\ x.pc \in {"intent", "plan"} => x.kind = "submit"
    /\ x.pc \in {"completed", "failed", "candidate"} => x.kind = "refresh"
    /\ x.pc = "intent" => x.mission = 0
    /\ x.pc = "plan" \/ x.kind = "refresh" => x.mission \in Ids
    /\ x.pc = "completed" =>
          board[x.mission].status = "COMPLETED" /\ board[x.mission].kind = "op"
    /\ x.kind = "submit" /\ x.mission # 0 => board[x.mission].text = x.text

(* The message a request is about to add.                                  *)
SayOK(x) ==
    x.pc = "add" =>
        /\ x.msg.mission = x.mission /\ Claimed(x.msg)
        /\ x.msg.kind = "notice" => x.kind = "submit" /\ x.mission \in Ids
        /\ x.kind = "submit" =>
              /\ x.msg.kind \notin {"answer", "failed"}
              /\ x.mission # 0 => x.msg.kind = "notice" /\ x.msg.role = "assistant"
              /\ x.msg.role = "user" => x.msg.question = x.text
        /\ x.kind = "refresh" => x.msg.role = "assistant"
GoodRows == {x \in RequestRows : RowOK(x) /\ SayOK(x)}

(* A mission is linked to the conversation by the request that created it, *)
(* and first by its notice.                                                *)
LinkOK(r) ==
    /\ req[r].kind = "refresh" => LinkedTo(req[r].mission) # {}
    /\ req[r].kind = "submit" /\ req[r].mission # 0 => LinkedTo(req[r].mission) = {}
Creates(r, m) == req[r].kind = "submit" /\ req[r].mission = m
Linked ==
    /\ \A r \in Requests : LinkOK(r)
    /\ \A m \in Ids : LinkedTo(m) # {} => Notes(m, "notice") # {}
    /\ \A m \in Ids : \A r, s \in Requests : Creates(r, m) /\ Creates(s, m) => r = s

ChatTyped ==
    /\ msgs \in Seq(Grounded) /\ req \in [Requests -> GoodRows]
    /\ asked \in Nat /\ died \in Nat /\ asked <= scope.asked /\ died <= scope.died
    /\ polling \subseteq Ids

BaseInv == DeptTyped /\ ChatTyped /\ Linked

LEMMA ChatFacts ==
    ASSUME BaseInv
    PROVE  /\ board \in Seq(MissionRows) /\ Len(board) \in Nat /\ Ids \subseteq Nat /\ 0 \notin Ids
           /\ msgs \in Seq(Messages) /\ Len(msgs) \in Nat
           /\ \A i \in 1 .. Len(msgs) : msgs[i] \in Messages /\ Claimed(msgs[i])
           /\ \A r \in Requests : req[r] \in RequestRows /\ RowOK(req[r]) /\ SayOK(req[r])
           /\ \A m \in Ids : board[m] \in MissionRows
<1>1. board \in Seq(MissionRows) /\ Len(board) \in Nat BY LenProperties DEF BaseInv, DeptTyped
<1>2. \A m \in Ids : board[m] \in MissionRows BY <1>1, ElementOfSeq DEF Ids
<1>3. msgs \in Seq(Grounded) /\ Len(msgs) \in Nat BY LenProperties DEF BaseInv, ChatTyped
<1>4. \A i \in 1 .. Len(msgs) : msgs[i] \in Grounded BY <1>3, ElementOfSeq
<1>5. \A i \in 1 .. Len(msgs) : msgs[i] \in Messages /\ Claimed(msgs[i]) BY <1>4 DEF Grounded
<1>6. msgs \in Seq(Messages)
  <2>1. Grounded \subseteq Messages BY DEF Grounded
  <2>. QED BY <1>3, <2>1
<1>7. \A r \in Requests : req[r] \in RequestRows /\ RowOK(req[r]) /\ SayOK(req[r])
  BY DEF BaseInv, ChatTyped, GoodRows
<1>. QED BY <1>1, <1>2, <1>3, <1>5, <1>6, <1>7 DEF Ids

LEMMA BaseTypeOK == ASSUME BaseInv PROVE ChatTypeOK
<1>1. DeptTypeOK BY DeptTypedTypeOK DEF BaseInv
<1>2. \A r \in Requests : req[r].mission \in {0} \cup Ids /\ req[r].pos <= Len(msgs) + 1
  BY ChatFacts DEF RowOK
<1>3. \A i \in 1 .. Len(msgs) : msgs[i].mission \in {0} \cup Ids BY ChatFacts DEF Claimed
<1>. QED BY <1>1, <1>2, <1>3 DEF BaseInv, ChatTyped, ChatTypeOK

LEMMA BaseGrounded == ASSUME BaseInv PROVE ClaimsAreGrounded
<1>1. \A i \in 1 .. Len(msgs) : Claimed(msgs[i]) BY ChatFacts
<1>. QED BY <1>1 DEF Claimed, ClaimsAreGrounded, RankOf

(* What plan_sysadmin_intent returns, for any question.                    *)
Intents == [kind : IntentKinds, steps : SUBSET Tools]

LEMMA DripvidIntent ==
    ASSUME NEW t PROVE plan_dripvid_read(t) = {} \/ \E x \in Intents : plan_dripvid_read(t) = {x}
<1>1. Refused \in Intents BY DEF Refused, Intents, IntentKinds, Tools
<1>2. \A S \in SUBSET Tools : Operational(S) \in Intents
  BY DEF Operational, Intents, IntentKinds
<1>3. /\ Operational({"dripvid.config.read"}) \in Intents
      /\ Operational({"dripvid.release.read"}) \in Intents
      /\ Operational({"dripvid.service.status.read"}) \in Intents
      /\ Operational({"dripvid.health.read"}) \in Intents
      /\ Operational({"dripvid.health.read", "dripvid.release.read"}) \in Intents
  BY <1>2 DEF Tools
<1>. QED BY <1>1, <1>3 DEF plan_dripvid_read

LEMMA HqIntent == ASSUME NEW t PROVE PlanHqRead(t) \in Intents
<1>1. \A S \in SUBSET Tools : Operational(S) \in Intents
  BY DEF Operational, Intents, IntentKinds
<1>2. PICK S : S = (IF "system_health" \in t THEN {"system.health.read"} ELSE {})
                   \cup (IF "service_status" \in t THEN {"service.status.read"} ELSE {})
                   \cup (IF "logs" \in t THEN {"service.logs.read"} ELSE {})
  OBVIOUS
<1>3. S \in SUBSET Tools BY <1>2 DEF Tools
<1>4. Operational({"system.health.read", "service.status.read", "service.logs.read"}) \in Intents
  BY <1>1 DEF Tools
<1>5. Operational(S) \in Intents BY <1>1, <1>3
<1>6. [kind |-> "conversation", steps |-> {}] \in Intents BY DEF Intents, IntentKinds
<1>7. PICK W : W = {x \in {"logs", "service_status", "system_health"} : x \in t} OBVIOUS
<1>8. /\ "system_health" \in W <=> "system_health" \in t
      /\ "service_status" \in W <=> "service_status" \in t
      /\ "logs" \in W <=> "logs" \in t
  BY <1>7
<1>9. PlanHqRead(t) \in {Operational({"system.health.read", "service.status.read",
                                       "service.logs.read"}),
                         Operational(S), [kind |-> "conversation", steps |-> {}]}
  BY <1>2, <1>7, <1>8 DEF PlanHqRead
<1>. QED BY <1>4, <1>5, <1>6, <1>9

LEMMA IntentTyped == ASSUME NEW t PROVE plan_sysadmin_intent(t) \in Intents
<1>1. Refused \in Intents BY DEF Refused, Intents, IntentKinds, Tools
<1>2. CodeChangeIntent(t) \in Intents BY <1>1 DEF CodeChangeIntent, Intents, IntentKinds
<1>3. ASSUME plan_dripvid_read(t) # {} PROVE (CHOOSE x \in plan_dripvid_read(t) : TRUE) \in Intents
  BY <1>3, DripvidIntent
<1>. QED BY <1>1, <1>2, <1>3, HqIntent DEF plan_sysadmin_intent

-----------------------------------------------------------------------------
(* Steps of a request.                                                     *)

MsgStep(r) == msgs' = msgs \/ (req[r].pc = "add" /\ msgs' = Append(msgs, req[r].msg))
Only(r, x) == req' = [req EXCEPT ![r] = x]

LEMMA GroundedStays ==
    ASSUME BaseInv, BoardStep PROVE Grounded \subseteq Grounded'
<1>. SUFFICES ASSUME NEW x \in Messages, Claimed(x) PROVE Claimed(x)'
  BY DEF Grounded
<1>1. Ids \subseteq Ids' BY IdsGrow, ChatFacts
<1>2. CASE x.mission \in Ids
  <2>1. PICK y, z : y = board[x.mission] /\ z = board'[x.mission] OBVIOUS
  <2>2. Evolves(y, z) BY <1>2, <2>1 DEF BoardStep
  <2>3. y.release \in ReleaseStates BY <1>2, <2>1, ChatFacts DEF MissionRows
  <2>4. z.release \in ReleaseStates
    <3>1. board' \in Seq(MissionRows) /\ x.mission \in 1 .. Len(board')
      BY <1>1, <1>2 DEF BoardStep, Ids
    <3>2. z \in MissionRows BY <2>1, <3>1, ElementOfSeq
    <3>. QED BY <3>2 DEF MissionRows
  <2>5. RankOf(y.release) \in Nat /\ RankOf(z.release) \in Nat BY <2>3, <2>4, RankNat
  <2>6. x.claim \in ReleaseStates => RankOf(x.claim) \in Nat BY RankNat
  <2>. QED BY <1>1, <1>2, <2>1, <2>2, <2>5, <2>6 DEF Claimed, Evolves
<1>3. CASE x.mission \notin Ids BY <1>1, <1>3 DEF Claimed
<1>. QED BY <1>2, <1>3

LEMMA RowsStay ==
    ASSUME BaseInv, BoardStep, Len(msgs') \in Nat, Len(msgs) <= Len(msgs')
    PROVE  GoodRows \subseteq GoodRows'
<1>. SUFFICES ASSUME NEW x \in RequestRows, RowOK(x), SayOK(x) PROVE RowOK(x)' /\ SayOK(x)'
  BY DEF GoodRows
<1>1. Ids \subseteq Ids' /\ Len(msgs) \in Nat /\ 0 \notin Ids BY IdsGrow, ChatFacts
<1>2. x.msg \in Messages /\ x.pos \in Nat BY DEF RequestRows
<1>3. Claimed(x.msg) => Claimed(x.msg)' BY <1>2, GroundedStays DEF Grounded
<1>4. SayOK(x)' BY <1>1, <1>3 DEF SayOK
<1>5. CASE x.mission \in Ids
  <2>1. Evolves(board[x.mission], board'[x.mission]) BY <1>5 DEF BoardStep
  <2>. QED BY <1>1, <1>2, <1>4, <1>5, <2>1 DEF RowOK, Evolves
<1>6. CASE x.mission \notin Ids BY <1>1, <1>2, <1>4, <1>6 DEF RowOK
<1>. QED BY <1>5, <1>6

LEMMA MsgStepFacts ==
    ASSUME BaseInv, BoardStep, NEW r \in Requests, MsgStep(r)
    PROVE  /\ msgs' \in Seq(Grounded') /\ Len(msgs') \in Nat /\ Len(msgs) <= Len(msgs')
<1>1. Grounded \subseteq Grounded' BY GroundedStays
<1>2. msgs \in Seq(Grounded) /\ Len(msgs) \in Nat BY ChatFacts DEF BaseInv, ChatTyped
<1>3. msgs \in Seq(Grounded') BY <1>1, <1>2
<1>4. CASE msgs' = msgs BY <1>2, <1>3, <1>4
<1>5. CASE req[r].pc = "add" /\ msgs' = Append(msgs, req[r].msg)
  <2>1. req[r].msg \in Grounded BY <1>5, ChatFacts DEF SayOK, RequestRows, Grounded
  <2>. QED BY <1>1, <1>2, <1>3, <1>5, <2>1, AppendProperties
<1>. QED BY <1>4, <1>5 DEF MsgStep

LEMMA RequestTyped ==
    ASSUME BaseInv, BoardStep, NEW r \in Requests, MsgStep(r), NEW x \in GoodRows', Only(r, x),
           polling' \subseteq Ids', scope' = scope, asked' \in Nat, asked' <= scope.asked,
           died' \in Nat, died' <= scope.died
    PROVE  ChatTyped'
<1>1. /\ msgs' \in Seq(Grounded') /\ Len(msgs') \in Nat /\ Len(msgs) <= Len(msgs')
  BY MsgStepFacts
<1>2. GoodRows \subseteq GoodRows' BY <1>1, RowsStay
<1>3. req' \in [Requests -> GoodRows'] BY <1>2 DEF BaseInv, ChatTyped, Only
<1>. QED BY <1>1, <1>3 DEF ChatTyped

(* The missions change and the conversation does not.                      *)
LEMMA LinkedFrame ==
    ASSUME BaseInv, BoardStep, msgs' = msgs,
           \A r \in Requests : req'[r].kind = req[r].kind /\ req'[r].mission = req[r].mission
    PROVE  Linked'
<1>1. \A m : LinkedTo(m)' = LinkedTo(m) BY DEF LinkedTo
<1>2. \A m : Notes(m, "notice")' = Notes(m, "notice") BY <1>1 DEF Notes
<1>3. ASSUME NEW r \in Requests PROVE LinkOK(r)'
  <2>1. LinkOK(r) BY DEF BaseInv, Linked
  <2>2. LinkedTo(req[r].mission)' = LinkedTo(req[r].mission) BY DEF LinkedTo
  <2>. QED BY <2>1, <2>2 DEF LinkOK
<1>4. ASSUME NEW m \in Ids', m \notin Ids PROVE LinkedTo(m) = {}
  <2>1. m # 0 BY LenProperties DEF Ids
  <2>. QED BY <1>4, <2>1, ChatFacts DEF LinkedTo, Claimed
<1>5. ASSUME NEW m \in Ids', LinkedTo(m)' # {} PROVE Notes(m, "notice")' # {}
  BY <1>1, <1>2, <1>4, <1>5 DEF BaseInv, Linked
<1>6. ASSUME NEW m \in Ids', NEW r \in Requests, NEW s \in Requests,
             Creates(r, m)', Creates(s, m)'
      PROVE  r = s
  <2>1. Creates(r, m) /\ Creates(s, m) BY <1>6 DEF Creates
  <2>2. m \in Ids
    <3>1. m # 0 BY LenProperties DEF Ids
    <3>. QED BY <2>1, <3>1, ChatFacts DEF Creates, RowOK
  <2>. QED BY <2>1, <2>2 DEF BaseInv, Linked
<1>. QED BY <1>3, <1>5, <1>6 DEF Linked

(* A request goes on or ends and says nothing.                             *)
LEMMA LinkedQuiet ==
    ASSUME BaseInv, BoardStep, msgs' = msgs, NEW r \in Requests, NEW x, Only(r, x),
           x.kind = "refresh" => LinkedTo(x.mission) # {},
           x.kind = "submit" /\ x.mission # 0 =>
              \/ x.mission = req[r].mission /\ req[r].kind = "submit"
              \/ x.mission \in Nat \ Ids
    PROVE  Linked'
<1>1. \A m : LinkedTo(m)' = LinkedTo(m) BY DEF LinkedTo
<1>2. \A m : Notes(m, "notice")' = Notes(m, "notice") BY <1>1 DEF Notes
<1>3. \A s \in Requests : req'[s] = IF s = r THEN x ELSE req[s]
  BY DEF Only, BaseInv, ChatTyped
<1>4. ASSUME NEW m \in Nat \ Ids, m # 0 PROVE LinkedTo(m) = {}
  BY <1>4, ChatFacts DEF LinkedTo, Claimed
<1>5. ASSUME NEW s \in Requests PROVE LinkOK(s)'
  <2>1. CASE s # r
    <3>1. LinkOK(s) BY DEF BaseInv, Linked
    <3>2. req'[s] = req[s] BY <1>3, <2>1
    <3>3. LinkedTo(req[s].mission)' = LinkedTo(req[s].mission) BY <3>2 DEF LinkedTo
    <3>. QED BY <3>1, <3>2, <3>3 DEF LinkOK
  <2>2. CASE s = r
    <3>1. LinkOK(r) BY DEF BaseInv, Linked
    <3>2. req'[s] = x BY <1>3, <2>2
    <3>3. LinkedTo(req[s].mission)' = LinkedTo(x.mission) BY <3>2 DEF LinkedTo
    <3>. QED BY <1>4, <3>1, <3>2, <3>3 DEF LinkOK
  <2>. QED BY <2>1, <2>2
<1>6. ASSUME NEW m \in Ids', LinkedTo(m)' # {} PROVE Notes(m, "notice")' # {}
  <2>1. m \in Nat /\ m # 0 BY LenProperties DEF Ids
  <2>. QED BY <1>1, <1>2, <1>4, <1>6, <2>1 DEF BaseInv, Linked
<1>7. ASSUME NEW m \in Ids', NEW s \in Requests, NEW p \in Requests,
             Creates(s, m)', Creates(p, m)'
      PROVE  s = p
  <2>0. m # 0 BY LenProperties DEF Ids
  <2>1. \A q \in Requests : Creates(q, m) => m \in Ids BY <2>0, ChatFacts DEF Creates, RowOK
  <2>2. \A q \in Requests : q # r /\ Creates(q, m)' => Creates(q, m) BY <1>3 DEF Creates
  <2>3. Creates(r, m)' => Creates(r, m) \/ m \notin Ids BY <1>3, <2>0 DEF Creates
  <2>. QED BY <1>7, <2>1, <2>2, <2>3 DEF BaseInv, Linked
<1>. QED BY <1>5, <1>6, <1>7 DEF Linked

(* A message is added: it is the newest, and the others stay.              *)
LEMMA Added ==
    ASSUME BaseInv, NEW r \in Requests, req[r].pc = "add", msgs' = Append(msgs, req[r].msg)
    PROVE  /\ Len(msgs') = Len(msgs) + 1 /\ msgs'[Len(msgs) + 1] = req[r].msg
           /\ \A i \in 1 .. Len(msgs) : msgs'[i] = msgs[i]
           /\ \A m : LinkedTo(m)' = IF req[r].mission = m THEN LinkedTo(m) \cup {Len(msgs) + 1}
                                    ELSE LinkedTo(m)
<1>1. msgs \in Seq(Messages) /\ req[r].msg \in Messages /\ Len(msgs) \in Nat
  BY ChatFacts DEF RequestRows
<1>2. /\ Len(msgs') = Len(msgs) + 1 /\ msgs'[Len(msgs) + 1] = req[r].msg
      /\ \A i \in 1 .. Len(msgs) : msgs'[i] = msgs[i]
  BY <1>1, AppendProperties
<1>3. req[r].msg.mission = req[r].mission BY ChatFacts DEF SayOK
<1>4. 1 .. Len(msgs') = 1 .. Len(msgs) \cup {Len(msgs) + 1} BY <1>1, <1>2
<1>5. \A i \in 1 .. Len(msgs) : i # Len(msgs) + 1 BY <1>1
<1>6. ASSUME NEW m
      PROVE  LinkedTo(m)' = IF req[r].mission = m THEN LinkedTo(m) \cup {Len(msgs) + 1}
                            ELSE LinkedTo(m)
  <2>1. LinkedTo(m)' = {i \in 1 .. Len(msgs') : msgs'[i].mission = m} BY DEF LinkedTo
  <2>2. LinkedTo(m) = {i \in 1 .. Len(msgs) : msgs[i].mission = m} BY DEF LinkedTo
  <2>. QED BY <1>2, <1>3, <1>4, <1>5, <2>1, <2>2
<1>. QED BY <1>2, <1>6

(* What a request becomes when its message is there.                       *)
AfterAdd(r) == IF req[r].msg.role = "user" THEN [req[r] EXCEPT !.pc = "intent"] ELSE Free

LEMMA AddRow ==
    ASSUME BaseInv, NEW r \in Requests, AddMessage(r)
    PROVE  /\ Only(r, AfterAdd(r)) /\ BoardStep
           /\ AfterAdd(r).mission = 0 /\ AfterAdd(r).kind # "refresh"
           /\ AfterAdd(r).pc \in {"idle", "intent"} /\ AfterAdd(r).text \in {req[r].text, {}}
           /\ req[r].msg.role = "user" => AfterAdd(r).kind = "submit" /\ req[r].mission = 0
           /\ req[r].msg.role # "user" => AfterAdd(r) = Free
           /\ AfterAdd(r) \in GoodRows'
<1>1. Only(r, AfterAdd(r)) BY DEF AddMessage, Only, AfterAdd, BaseInv, ChatTyped
<1>2. board' = board /\ Ids' = Ids BY DEF AddMessage, deptVars, Ids
<1>3. BoardStep BY <1>2, BoardSame, ChatFacts
<1>4. req[r] \in RequestRows /\ RowOK(req[r]) /\ SayOK(req[r]) /\ req[r].pc = "add"
  BY ChatFacts DEF AddMessage
<1>5. Len(msgs) \in Nat /\ Len(msgs') = Len(msgs) + 1 BY ChatFacts, Added DEF AddMessage
<1>6. CASE req[r].msg.role = "user"
  <2>1. PICK x : x = [req[r] EXCEPT !.pc = "intent"] OBVIOUS
  <2>2. req[r].kind = "submit" /\ req[r].mission = 0
    BY <1>4, <1>6 DEF RowOK, SayOK, RequestRows
  <2>3. /\ x \in RequestRows /\ x.pc = "intent" /\ x.kind = "submit" /\ x.mission = 0
        /\ x.pos = req[r].pos /\ x.text = req[r].text
    BY <1>4, <2>1, <2>2 DEF RequestRows
  <2>4. x.pos \in Nat /\ x.pos <= Len(msgs) + 1 BY <1>4, <2>3 DEF RowOK, RequestRows
  <2>5. x \in GoodRows' BY <1>5, <2>3, <2>4 DEF GoodRows, RowOK, SayOK
  <2>. QED BY <1>1, <1>3, <1>6, <2>1, <2>2, <2>3, <2>5 DEF AfterAdd
<1>7. CASE req[r].msg.role # "user"
  <2>1. Free \in RequestRows
    BY DEF Free, RequestRows, NoMessage, Messages, MessageKinds, Claims, ReleaseStates
  <2>2. Free \in GoodRows' BY <1>5, <2>1 DEF Free, GoodRows, RowOK, SayOK
  <2>. QED BY <1>1, <1>3, <1>7, <2>2 DEF AfterAdd, Free
<1>. QED BY <1>6, <1>7

LEMMA AddMessageBase ==
    ASSUME BaseInv, NEW r \in Requests, AddMessage(r) PROVE BaseInv'
<1>1. /\ Only(r, AfterAdd(r)) /\ BoardStep /\ AfterAdd(r) \in GoodRows' BY AddRow
<1>2. Ids' = Ids /\ board' = board BY DEF AddMessage, deptVars, Ids
<1>3. req[r].pc = "add" /\ msgs' = Append(msgs, req[r].msg) BY DEF AddMessage
<1>4. ChatTyped'
  <2>1. polling' \subseteq Ids'
    BY <1>2, <1>3, ChatFacts DEF AddMessage, PageAfterNotice, SayOK, BaseInv, ChatTyped
  <2>2. MsgStep(r) BY <1>3 DEF MsgStep
  <2>. QED
    BY <1>1, <2>1, <2>2, RequestTyped DEF AddMessage, deptVars, BaseInv, ChatTyped
<1>5. DeptTyped' BY <1>1, BoardOnlyTyped DEF AddMessage, deptVars, BaseInv
<1>6. /\ Len(msgs') = Len(msgs) + 1 /\ msgs'[Len(msgs) + 1] = req[r].msg
      /\ \A i \in 1 .. Len(msgs) : msgs'[i] = msgs[i]
      /\ \A m : LinkedTo(m)' = IF req[r].mission = m THEN LinkedTo(m) \cup {Len(msgs) + 1}
                               ELSE LinkedTo(m)
  BY <1>3, Added
<1>7. \A s \in Requests : req'[s] = IF s = r THEN AfterAdd(r) ELSE req[s]
  BY <1>1 DEF Only, BaseInv, ChatTyped
<1>8. AfterAdd(r).mission = 0 /\ AfterAdd(r).kind # "refresh" BY AddRow
<1>9. ASSUME NEW s \in Requests PROVE LinkOK(s)'
  <2>1. CASE s = r BY <1>7, <1>8, <2>1 DEF LinkOK
  <2>2. CASE s # r
    <3>1. PICK m : m = req[s].mission OBVIOUS
    <3>2. LinkOK(s) /\ LinkOK(r) BY DEF BaseInv, Linked
    <3>3. req'[s] = req[s] BY <1>7, <2>2
    <3>4. LinkedTo(req[s].mission)' = LinkedTo(m)' BY <3>1, <3>3 DEF LinkedTo
    <3>5. req[s].kind = "submit" /\ m # 0 => req[r].mission # m
      <4>. SUFFICES ASSUME req[s].kind = "submit", m # 0, req[r].mission = m PROVE FALSE
        OBVIOUS
      <4>1. m \in Ids BY <3>1, ChatFacts DEF RowOK
      <4>2. req[r].kind = "submit"
        BY <1>3, <3>1, <3>2, ChatFacts DEF LinkOK, RowOK, RequestRows
      <4>. QED BY <2>2, <3>1, <4>1, <4>2 DEF BaseInv, Linked, Creates
    <3>6. LinkedTo(m) \subseteq LinkedTo(m)' BY <1>6
    <3>7. req[s].kind = "submit" /\ m # 0 => LinkedTo(m)' = LinkedTo(m) BY <1>6, <3>5
    <3>. QED BY <3>1, <3>2, <3>3, <3>4, <3>6, <3>7 DEF LinkOK
  <2>. QED BY <2>1, <2>2
<1>10. ASSUME NEW m \in Ids', LinkedTo(m)' # {} PROVE Notes(m, "notice")' # {}
  <2>1. ASSUME NEW i \in Notes(m, "notice") PROVE i \in Notes(m, "notice")'
    <3>1. i \in LinkedTo(m) /\ i \in 1 .. Len(msgs) /\ msgs[i].kind = "notice"
      BY DEF Notes, LinkedTo
    <3>2. i \in LinkedTo(m)' /\ msgs'[i] = msgs[i] BY <1>6, <3>1
    <3>. QED BY <3>1, <3>2 DEF Notes
  <2>2. CASE LinkedTo(m) # {} BY <1>2, <2>1, <2>2 DEF BaseInv, Linked
  <2>3. CASE LinkedTo(m) = {}
    <3>1. req[r].mission = m /\ m # 0 BY <1>2, <1>6, <1>10, <2>3, ChatFacts
    <3>2. req[r].kind = "submit"
      <4>1. LinkOK(r) BY DEF BaseInv, Linked
      <4>. QED BY <1>3, <2>3, <3>1, <4>1, ChatFacts DEF LinkOK, RowOK, RequestRows
    <3>3. req[r].msg.kind = "notice" BY <1>3, <3>1, <3>2, ChatFacts DEF SayOK
    <3>4. Len(msgs) + 1 \in LinkedTo(m)' BY <1>6, <3>1
    <3>. QED BY <1>6, <3>3, <3>4 DEF Notes
  <2>. QED BY <2>2, <2>3
<1>11. ASSUME NEW m \in Ids', NEW s \in Requests, NEW p \in Requests,
              Creates(s, m)', Creates(p, m)'
       PROVE  s = p
  <2>0. m # 0 BY <1>2, ChatFacts
  <2>1. \A q \in Requests : Creates(q, m)' => Creates(q, m) BY <1>7, <1>8, <2>0 DEF Creates
  <2>. QED BY <1>2, <1>11, <2>1 DEF BaseInv, Linked
<1>12. Linked' BY <1>9, <1>10, <1>11 DEF Linked
<1>. QED BY <1>4, <1>5, <1>12 DEF BaseInv

(* The missions evolve and the conversation stays.                         *)
LEMMA BoardFrameBase ==
    ASSUME BaseInv, BoardStep, DeptTyped', UNCHANGED chatVars, scope' = scope
    PROVE  BaseInv'
<1>1. Ids \subseteq Ids' BY IdsGrow, ChatFacts
<1>2. Linked' BY LinkedFrame DEF chatVars
<1>3. msgs' = msgs /\ req' = req /\ Len(msgs') \in Nat /\ Len(msgs) <= Len(msgs')
  BY ChatFacts DEF chatVars
<1>4. Grounded \subseteq Grounded' /\ GoodRows \subseteq GoodRows'
  BY <1>3, GroundedStays, RowsStay
<1>5. msgs' \in Seq(Grounded') /\ req' \in [Requests -> GoodRows']
  BY <1>3, <1>4 DEF BaseInv, ChatTyped
<1>6. ChatTyped' BY <1>1, <1>5 DEF ChatTyped, BaseInv, chatVars
<1>. QED BY <1>2, <1>6 DEF BaseInv

LEMMA ScopeKept == ASSUME DeptNext PROVE scope' = scope
BY DEF DeptNext, CreateByHand, LoopStep, LoopCrash, LookForPlan, GetPlanned, ClaimPlanStep,
       BeginPlan, RunPlanStep, ConcludePlan, LookForChange, ChangeEnds, ChangeRaises, PickQueued, Route, CommanderIdle, StartMission, SysadminWorks,
       FinishMission, SysadminIdle

LEMMA FreeGood == ASSUME Len(msgs') \in Nat PROVE Free \in GoodRows' /\ Free \in RequestRows
<1>1. Free \in RequestRows
  BY DEF Free, RequestRows, NoMessage, Messages, MessageKinds, Claims, ReleaseStates
<1>. QED BY <1>1 DEF Free, GoodRows, RowOK, SayOK

(* A step of a request that adds no message: what it may become.           *)
PlacedRow(x) ==
    x.kind = "submit" /\ (x.pc \in {"intent", "plan"} \/ (x.pc = "add" /\ x.msg.role = "assistant"))
Concludes(x) == x.pc = "add" /\ x.msg.kind \in {"answer", "failed"}
Answers(x) == x.pc = "add" /\ x.msg.kind = "answer"

Proceeds(r, x) ==
    /\ Only(r, x) /\ x \in GoodRows' /\ msgs' = msgs /\ BoardStep
    /\ x.kind = "refresh" => LinkedTo(x.mission) # {}
    /\ x.kind = "submit" /\ x.mission # 0 =>
          \/ x.mission = req[r].mission /\ req[r].kind = "submit"
          \/ x.mission \in Nat \ Ids
    /\ \/ x.kind \in {"none", req[r].kind}
       \/ x.kind = "submit" /\ (~tangled' => Busy("submit") = {})
       \/ x.kind = "refresh" /\ (~raced' => Busy("refresh") = {})
    /\ (~tangled' => ~tangled) /\ (~raced' => ~raced)
    /\ PlacedRow(x) => PlacedRow(req[r]) /\ x.text = req[r].text
    /\ Concludes(x) => LinkedTo(x.mission) # {} /\ ~ReplyPresent(x.mission) /\ x.mission \in Ids
    /\ Answers(x) => x.msg.question \in {MissionQuestion(x.mission), board[x.mission].text}
    /\ polling' \subseteq polling /\ UNCHANGED <<scope, agents, at, seenPlanned, loopCrashes>>
    /\ asked' \in Nat /\ asked' <= scope.asked /\ died' \in Nat /\ died' <= scope.died

LEMMA ProceedsBase ==
    ASSUME BaseInv, NEW r \in Requests, NEW x, Proceeds(r, x) PROVE BaseInv'
<1>1. DeptTyped' BY BoardOnlyTyped DEF BaseInv, Proceeds
<1>2. Ids \subseteq Ids' BY IdsGrow, ChatFacts DEF Proceeds
<1>3. polling' \subseteq Ids' BY <1>2 DEF BaseInv, ChatTyped, Proceeds
<1>4. ChatTyped' BY <1>3, RequestTyped DEF MsgStep, Proceeds
<1>5. Linked' BY LinkedQuiet DEF Proceeds
<1>. QED BY <1>1, <1>4, <1>5 DEF BaseInv

(* A row of the board changes in what the chat does not rely on.           *)
LEMMA DroppedStep ==
    ASSUME BaseInv, NEW r \in Requests, board' = Dropped(r) PROVE BoardStep /\ SameFoes
<1>1. CASE board' = board BY <1>1, BoardSame, ChatFacts DEF SameFoes
<1>2. CASE req[r].kind = "submit" /\ req[r].mission # 0
  <2>1. PICK m : m = req[r].mission OBVIOUS
  <2>2. m \in Ids BY <1>2, <2>1, ChatFacts DEF RowOK
  <2>3. PICK x : x = [board[m] EXCEPT !.dropped = TRUE] OBVIOUS
  <2>4. board[m] \in MissionRows BY <2>2, ChatFacts
  <2>5. /\ x \in MissionRows /\ x.kind = board[m].kind /\ x.text = board[m].text
        /\ x.steps = board[m].steps /\ x.release = board[m].release
        /\ x.status = board[m].status /\ x.running = board[m].running /\ x.foe = board[m].foe
    BY <2>3, <2>4 DEF MissionRows
  <2>6. Evolves(board[m], x) BY <2>4, <2>5, EvolvesRefl DEF Evolves
  <2>7. Patch(m, x) BY <1>2, <2>1, <2>3 DEF Dropped, Patch
  <2>8. BoardStep /\ board'[m] = x /\ \A n \in Ids \ {m} : board'[n] = board[n]
    BY <2>2, <2>5, <2>6, <2>7, BoardPatch, ChatFacts
  <2>. QED BY <2>5, <2>8 DEF SameFoes
<1>. QED BY <1>1, <1>2 DEF Dropped

LEMMA PlannedStep ==
    ASSUME board \in Seq(MissionRows), NEW m \in Ids,
           board' = [board EXCEPT ![m].planned = TRUE]
    PROVE  BoardStep /\ SameFoes /\ board'[m].text = board[m].text
<1>1. PICK x : x = [board[m] EXCEPT !.planned = TRUE] OBVIOUS
<1>2. board[m] \in MissionRows BY ElementOfSeq DEF Ids
<1>3. /\ x \in MissionRows /\ x.kind = board[m].kind /\ x.text = board[m].text
      /\ x.steps = board[m].steps /\ x.release = board[m].release
      /\ x.status = board[m].status /\ x.running = board[m].running /\ x.foe = board[m].foe
  BY <1>1, <1>2 DEF MissionRows
<1>4. Evolves(board[m], x) BY <1>2, <1>3, EvolvesRefl DEF Evolves
<1>5. Patch(m, x) BY <1>1 DEF Patch
<1>6. BoardStep /\ board'[m] = x /\ \A n \in Ids \ {m} : board'[n] = board[n]
  BY <1>3, <1>4, <1>5, BoardPatch
<1>. QED BY <1>3, <1>6 DEF SameFoes

LEMMA ReleaseStep ==
    ASSUME BaseInv, NEW m \in Ids, ReleaseAdvances(m) PROVE BoardStep /\ SameFoes
<1>1. PICK i \in 1 .. 3 : /\ board[m].release = ReleaseSteps[i]
                          /\ board' = [board EXCEPT ![m].release = ReleaseSteps[i + 1]]
  BY DEF ReleaseAdvances
<1>2. PICK y : y = ReleaseSteps[i + 1] OBVIOUS
<1>3. i = 1 \/ i = 2 \/ i = 3 BY <1>1
<1>4. /\ board[m].release \in ReleaseStates /\ y \in ReleaseStates
      /\ RankOf(board[m].release) <= RankOf(y)
  BY <1>1, <1>2, <1>3, Ranks DEF ReleaseSteps, ReleaseStates
<1>5. PICK x : x = [board[m] EXCEPT !.release = y] OBVIOUS
<1>6. board[m] \in MissionRows BY ChatFacts
<1>7. /\ x \in MissionRows /\ x.kind = board[m].kind /\ x.text = board[m].text
      /\ x.steps = board[m].steps /\ x.release = y
      /\ x.status = board[m].status /\ x.running = board[m].running /\ x.foe = board[m].foe
  BY <1>4, <1>5, <1>6 DEF MissionRows
<1>8. Evolves(board[m], x) BY <1>4, <1>7 DEF Evolves
<1>9. Patch(m, x) BY <1>1, <1>2, <1>5 DEF Patch
<1>10. BoardStep /\ board'[m] = x /\ \A n \in Ids \ {m} : board'[n] = board[n]
  BY <1>7, <1>8, <1>9, BoardPatch, ChatFacts
<1>. QED BY <1>7, <1>10 DEF SameFoes

LEMMA SayRow ==
    ASSUME BaseInv, NEW r \in Requests, NEW k \in MessageKinds, NEW m \in Nat,
           NEW q \in SUBSET Cues, NEW c \in Claims, NEW x, x = Say(r, k, m, q, c)
    PROVE  /\ x \in RequestRows /\ x.pc = "add" /\ x.kind = req[r].kind /\ x.text = req[r].text
           /\ x.mission = m /\ x.pos = Len(msgs) + 1
           /\ x.msg.role = "assistant" /\ x.msg.kind = k /\ x.msg.mission = m
           /\ x.msg.question = q /\ x.msg.claim = c
<1>1. req[r] \in RequestRows /\ Len(msgs) \in Nat BY ChatFacts
<1>2. PICK y : y = [role |-> "assistant", kind |-> k, mission |-> m, question |-> q, claim |-> c]
  OBVIOUS
<1>3. y \in Messages BY <1>2 DEF Messages
<1>4. x = [req[r] EXCEPT !.pc = "add", !.mission = m, !.pos = Len(msgs) + 1, !.msg = y]
  BY <1>2 DEF Say
<1>5. PICK z, n : z = req[r] /\ n = Len(msgs) + 1 OBVIOUS
<1>6. z \in RequestRows /\ n \in Nat BY <1>1, <1>5
<1>7. x = [z EXCEPT !.pc = "add", !.mission = m, !.pos = n, !.msg = y] BY <1>4, <1>5
<1>8. /\ x.pc = "add" /\ x.kind = z.kind /\ x.text = z.text /\ x.mission = m /\ x.pos = n
      /\ x.msg = y
  BY <1>6, <1>7 DEF RequestRows
<1>9. x \in RequestRows BY <1>3, <1>6, <1>7 DEF RequestRows
<1>10. /\ y.role = "assistant" /\ y.kind = k /\ y.mission = m /\ y.question = q /\ y.claim = c
  BY <1>2
<1>. QED BY <1>5, <1>8, <1>9, <1>10

LEMMA SayGood ==
    ASSUME BaseInv, BoardStep, msgs' = msgs, NEW r \in Requests, NEW k \in MessageKinds,
           NEW m \in {0} \cup Ids', NEW q \in SUBSET Cues, NEW c \in Claims,
           NEW x, x = Say(r, k, m, q, c), req[r].kind # "none",
           req[r].kind = "refresh" => m \in Ids' /\ k # "notice",
           req[r].kind = "submit" => k \notin {"answer", "failed", "candidate"},
           req[r].kind = "submit" /\ m # 0 => k = "notice" /\ board'[m].text = req[r].text,
           k = "notice" => m \in Ids',
           c = "Healthy" =>
              /\ m \in Ids'
              /\ {"system.health.read", "service.status.read"} \subseteq board'[m].steps
              /\ board'[m].running /\ board'[m].status = "COMPLETED",
           k = "candidate" =>
              /\ m \in Ids' /\ c \in ReleaseStates /\ RankOf(c) <= RankOf(board'[m].release)
    PROVE  x \in GoodRows'
<1>1. m \in Nat BY LenProperties DEF BoardStep, Ids
<1>2. /\ x \in RequestRows /\ x.pc = "add" /\ x.kind = req[r].kind /\ x.text = req[r].text
      /\ x.mission = m /\ x.pos = Len(msgs) + 1
      /\ x.msg.role = "assistant" /\ x.msg.kind = k /\ x.msg.mission = m
      /\ x.msg.question = q /\ x.msg.claim = c
  BY <1>1, SayRow
<1>3. Len(msgs) \in Nat /\ req[r].kind \in {"none", "submit", "refresh"}
  BY ChatFacts DEF RequestRows
<1>4. Claimed(x.msg)' BY <1>2 DEF Claimed
<1>5. SayOK(x)' BY <1>2, <1>3, <1>4 DEF SayOK
<1>6. RowOK(x)' BY <1>2, <1>3 DEF RowOK
<1>. QED BY <1>2, <1>5, <1>6 DEF GoodRows

LEMMA GreatestNatural ==
    ASSUME NEW n \in Nat, NEW S, S \subseteq 1 .. n, S # {}
    PROVE  \E x \in S : \A y \in S : y <= x
<1>1. PICK T : T = {k \in 0 .. n : n - k \in S} OBVIOUS
<1>2. T \subseteq Nat BY <1>1
<1>3. \A y \in S : n - y \in T BY <1>1
<1>4. T # {} BY <1>3
<1>5. PICK k \in T : \A j \in T : k <= j BY <1>2, <1>4, LeastNatural
<1>6. n - k \in S /\ k \in Nat BY <1>1, <1>2
<1>7. \A y \in S : y <= n - k
  <2>1. \A y \in S : k <= n - y /\ y \in Nat BY <1>3, <1>5
  <2>. QED BY <1>6, <2>1
<1>. QED BY <1>6, <1>7

(* _mission_question finds a place, and the text there is one of the       *)
(* questions.                                                              *)
LEMMA QuestionTyped ==
    ASSUME BaseInv, NEW m, LinkedTo(m) # {} PROVE MissionQuestion(m) \in SUBSET Cues
<1>1. LinkedTo(m) \subseteq 1 .. Len(msgs) /\ Len(msgs) \in Nat BY ChatFacts DEF LinkedTo
<1>2. PICK first : first = CHOOSE i \in LinkedTo(m) : \A j \in LinkedTo(m) : i <= j OBVIOUS
<1>3. \E i \in LinkedTo(m) : \A j \in LinkedTo(m) : i <= j
  <2>1. LinkedTo(m) \subseteq Nat BY <1>1
  <2>. QED BY <2>1, LeastNatural
<1>4. first \in 1 .. Len(msgs) BY <1>1, <1>2, <1>3
<1>5. PICK before : before = {i \in 1 .. first - 1 : msgs[i].role = "user"} OBVIOUS
<1>6. MissionQuestion(m) = IF before = {} THEN {}
                           ELSE msgs[CHOOSE i \in before : \A j \in before : j <= i].question
  BY <1>2, <1>5 DEF MissionQuestion
<1>7. CASE before = {} BY <1>6, <1>7
<1>8. CASE before # {}
  <2>1. before \subseteq 1 .. Len(msgs) BY <1>1, <1>4, <1>5
  <2>2. \E i \in before : \A j \in before : j <= i BY <1>1, <1>8, <2>1, GreatestNatural
  <2>3. PICK p : p = CHOOSE i \in before : \A j \in before : j <= i OBVIOUS
  <2>4. p \in 1 .. Len(msgs) BY <2>1, <2>2, <2>3
  <2>5. msgs[p] \in Messages BY <2>4, ChatFacts
  <2>. QED BY <1>6, <1>8, <2>3, <2>5 DEF Messages
<1>. QED BY <1>7, <1>8

LEMMA SummaryTyped ==
    ASSUME BaseInv, NEW m \in Ids
    PROVE  /\ DeterministicSummary(m) \in Claims
           /\ DeterministicSummary(m) = "Healthy" =>
                /\ {"system.health.read", "service.status.read"} \subseteq board[m].steps
                /\ board[m].running
<1>1. board[m] \in MissionRows BY ChatFacts
<1>2. board[m].running \in BOOLEAN BY <1>1 DEF MissionRows
<1>. QED BY <1>2 DEF DeterministicSummary, Claims

(* Every other step of a request proceeds.                                 *)
LEMMA EndProceeds ==
    ASSUME BaseInv, NEW r \in Requests, PositionTaken(r) \/ RequestDies(r)
    PROVE  Proceeds(r, Free)
<1>1. BoardStep BY DroppedStep DEF PositionTaken, RequestDies
<1>2. Only(r, Free) /\ msgs' = msgs BY DEF PositionTaken, RequestDies, Only
<1>3. Free \in GoodRows' BY <1>2, FreeGood, ChatFacts
<1>4. polling' \subseteq polling BY DEF PositionTaken, RequestDies, PageAfterError
<1>5. scope \in Scopes /\ scope.died \in Nat BY ChatAssumption DEF BaseInv, DeptTyped
<1>6. asked' \in Nat /\ asked' <= scope.asked /\ died' \in Nat /\ died' <= scope.died
  BY <1>5 DEF PositionTaken, RequestDies, BaseInv, ChatTyped
<1>7. /\ UNCHANGED <<scope, agents, at, seenPlanned, loopCrashes, tangled, raced>>
  BY DEF PositionTaken, RequestDies
<1>8. Free.kind = "none" /\ Free.pc = "idle" BY DEF Free
<1>9. ~PlacedRow(Free) /\ ~Concludes(Free) /\ ~Answers(Free)
  BY <1>8 DEF PlacedRow, Concludes, Answers
<1>. QED BY <1>1, <1>2, <1>3, <1>4, <1>6, <1>7, <1>8, <1>9 DEF Proceeds

LEMMA SubmitProceeds ==
    ASSUME BaseInv, NEW r \in Requests, NEW t \in SUBSET Cues, Submit(r, t)
    PROVE  \E x : Proceeds(r, x)
<1>1. PICK y : y = [NoMessage EXCEPT !.role = "user", !.kind = "question", !.question = t]
  OBVIOUS
<1>2. PICK x : x = [Free EXCEPT !.pc = "add", !.kind = "submit", !.text = t,
                                !.pos = Len(msgs) + 1, !.msg = y]
  OBVIOUS
<1>3. Only(r, x) /\ msgs' = msgs /\ UNCHANGED deptVars BY <1>1, <1>2 DEF Submit, Only
<1>4. BoardStep BY <1>3, BoardSame, ChatFacts DEF deptVars
<1>5. Len(msgs) \in Nat /\ Ids' = Ids BY <1>3, ChatFacts DEF deptVars, Ids
<1>6. /\ y \in Messages /\ y.role = "user" /\ y.kind = "question" /\ y.question = t
      /\ y.mission = 0 /\ y.claim = "none"
  <2>1. /\ NoMessage \in Messages /\ NoMessage.mission = 0 /\ NoMessage.claim = "none"
    BY DEF NoMessage, Messages, MessageKinds, Claims, ReleaseStates
  <2>. QED BY <1>1, <2>1 DEF Messages, MessageKinds
<1>7. /\ x \in RequestRows /\ x.pc = "add" /\ x.kind = "submit" /\ x.text = t
      /\ x.mission = 0 /\ x.pos = Len(msgs) + 1 /\ x.msg = y
  <2>1. Free \in RequestRows /\ Free.mission = 0 BY <1>3, <1>5, FreeGood DEF Free
  <2>2. PICK z, n : z = Free /\ n = Len(msgs) + 1 OBVIOUS
  <2>3. z \in RequestRows /\ n \in Nat /\ y \in Messages BY <1>5, <1>6, <2>1, <2>2
  <2>4. x = [z EXCEPT !.pc = "add", !.kind = "submit", !.text = t, !.pos = n, !.msg = y]
    BY <1>2, <2>2
  <2>5. x \in RequestRows BY <2>3, <2>4 DEF RequestRows
  <2>6. /\ x.pc = "add" /\ x.kind = "submit" /\ x.text = t /\ x.mission = z.mission
        /\ x.pos = n /\ x.msg = y
    BY <2>3, <2>4 DEF RequestRows
  <2>. QED BY <2>1, <2>2, <2>5, <2>6
<1>8. Claimed(y)' BY <1>6 DEF Claimed
<1>9. x \in GoodRows'
  <2>1. RowOK(x)' BY <1>3, <1>5, <1>7 DEF RowOK
  <2>2. SayOK(x)' BY <1>6, <1>7, <1>8 DEF SayOK
  <2>. QED BY <1>7, <2>1, <2>2 DEF GoodRows
<1>10. ~PlacedRow(x) /\ ~Concludes(x) /\ ~Answers(x)
  BY <1>6, <1>7 DEF PlacedRow, Concludes, Answers
<1>11. scope \in Scopes /\ scope.asked \in Nat BY ChatAssumption DEF BaseInv, DeptTyped
<1>12. /\ asked' \in Nat /\ asked' <= scope.asked /\ died' \in Nat /\ died' <= scope.died
       /\ polling' \subseteq polling
  BY <1>11 DEF Submit, BaseInv, ChatTyped
<1>13. /\ ~tangled' => Busy("submit") = {} /\ ~tangled
       /\ ~raced' => ~raced
  BY DEF Submit
<1>14. x.kind = "submit" /\ x.mission = 0 BY <1>7
<1>. QED BY <1>3, <1>4, <1>9, <1>10, <1>12, <1>13, <1>14 DEF Proceeds, deptVars

LEMMA IntentSays ==
    ASSUME BaseInv, NEW r \in Requests, ActOnIntent(r), NEW k \in IntentKinds \cup {"notice"},
           NEW m \in {0} \cup Ids', BoardStep, NEW x, x = Say(r, k, m, {}, "none"), Only(r, x),
           m = 0 \/ (k = "notice" /\ m \in Nat \ Ids /\ board'[m].text = req[r].text),
           k = "notice" => m \in Ids'
    PROVE  Proceeds(r, x)
<1>1. k \in MessageKinds /\ "none" \in Claims /\ {} \in SUBSET Cues
  BY DEF MessageKinds, Claims, ReleaseStates
<1>2. req[r].kind = "submit" /\ req[r].pc = "intent" /\ msgs' = msgs
  BY ChatFacts DEF ActOnIntent, RowOK
<1>3. m \in Nat BY LenProperties DEF BoardStep, Ids
<1>4. x \in GoodRows' BY <1>1, <1>2, SayGood DEF IntentKinds
<1>5. /\ x.pc = "add" /\ x.kind = "submit" /\ x.text = req[r].text /\ x.mission = m
      /\ x.msg.kind = k
  BY <1>1, <1>2, <1>3, SayRow
<1>6. PlacedRow(req[r]) BY <1>2 DEF PlacedRow
<1>7. ~Concludes(x) /\ ~Answers(x) BY <1>5 DEF Concludes, Answers, IntentKinds
<1>8. /\ asked' \in Nat /\ asked' <= scope.asked /\ died' \in Nat /\ died' <= scope.died
      /\ polling' \subseteq polling
      /\ UNCHANGED <<scope, agents, at, seenPlanned, loopCrashes, tangled, raced>>
  BY DEF ActOnIntent, BaseInv, ChatTyped
<1>. QED BY <1>2, <1>4, <1>5, <1>6, <1>7, <1>8 DEF Proceeds

LEMMA ActOnIntentProceeds ==
    ASSUME BaseInv, NEW r \in Requests, ActOnIntent(r)
    PROVE  \E x : Proceeds(r, x)
<1>1. PICK intent : intent = plan_sysadmin_intent(req[r].text) OBVIOUS
<1>2. intent.kind \in IntentKinds /\ intent.steps \in SUBSET Tools
  BY <1>1, IntentTyped DEF Intents
<1>3. /\ req[r].kind = "submit" /\ req[r].pc = "intent" /\ msgs' = msgs
      /\ req[r] \in RequestRows /\ req[r].text \in SUBSET Cues
  BY ChatFacts DEF ActOnIntent, RowOK, RequestRows
<1>4. PICK new : new = Len(board) + 1 OBVIOUS
<1>5. new \in Nat /\ new \notin Ids /\ new # 0 BY <1>4, ChatFacts DEF Ids
<1>6. \/ board' = board /\ Only(r, Say(r, intent.kind, 0, {}, "none"))
      \/ /\ board' = Append(board, NewMission("code", FALSE, req[r].text, {}))
         /\ Only(r, Say(r, "notice", new, {}, "none"))
      \/ /\ board' = Append(board, NewMission("op", FALSE, req[r].text, intent.steps))
         /\ req' = [req EXCEPT ![r].pc = "plan", ![r].mission = new]
  BY <1>1, <1>4 DEF ActOnIntent, Only
<1>7. CASE board' = board /\ Only(r, Say(r, intent.kind, 0, {}, "none"))
  <2>1. BoardStep BY <1>7, BoardSame, ChatFacts
  <2>2. PICK x : x = Say(r, intent.kind, 0, {}, "none") OBVIOUS
  <2>3. intent.kind # "notice" BY <1>2 DEF IntentKinds
  <2>. QED BY <1>2, <1>7, <2>1, <2>2, <2>3, IntentSays
<1>8. CASE /\ board' = Append(board, NewMission("code", FALSE, req[r].text, {}))
           /\ Only(r, Say(r, "notice", new, {}, "none"))
  <2>1. PICK y : y = NewMission("code", FALSE, req[r].text, {}) OBVIOUS
  <2>2. y \in MissionRows /\ y.text = req[r].text BY <1>3, <2>1, NewChangeRow
  <2>3. BoardStep /\ Len(board') = new /\ board'[new] = y
    BY <1>4, <1>8, <2>1, <2>2, BoardAppend, ChatFacts
  <2>4. new \in Ids' BY <1>5, <2>3 DEF Ids
  <2>5. PICK x : x = Say(r, "notice", new, {}, "none") OBVIOUS
  <2>. QED BY <1>5, <1>8, <2>2, <2>3, <2>4, <2>5, IntentSays
<1>9. CASE /\ board' = Append(board, NewMission("op", FALSE, req[r].text, intent.steps))
           /\ req' = [req EXCEPT ![r].pc = "plan", ![r].mission = new]
  <2>1. PICK y : y = NewMission("op", FALSE, req[r].text, intent.steps) OBVIOUS
  <2>2. y \in MissionRows /\ y.text = req[r].text BY <1>2, <1>3, <2>1, NewMissionRow
  <2>3. BoardStep /\ Len(board') = new /\ board'[new] = y
    BY <1>4, <1>9, <2>1, <2>2, BoardAppend, ChatFacts
  <2>4. new \in Ids' BY <1>5, <2>3 DEF Ids
  <2>5. PICK x : x = [req[r] EXCEPT !.pc = "plan", !.mission = new] OBVIOUS
  <2>6. Only(r, x) BY <1>9, <2>5 DEF Only, BaseInv, ChatTyped
  <2>7. /\ x \in RequestRows /\ x.pc = "plan" /\ x.mission = new /\ x.kind = "submit"
        /\ x.text = req[r].text /\ x.pos = req[r].pos
    BY <1>3, <1>5, <2>5 DEF RequestRows
  <2>8. req[r].pos <= Len(msgs) + 1 BY ChatFacts DEF RowOK
  <2>9. x \in GoodRows'
    BY <1>3, <2>2, <2>3, <2>4, <2>7, <2>8 DEF GoodRows, RowOK, SayOK
  <2>10. PlacedRow(req[r]) /\ ~Concludes(x) /\ ~Answers(x)
    BY <1>3, <2>7 DEF PlacedRow, Concludes, Answers
  <2>11. /\ asked' \in Nat /\ asked' <= scope.asked /\ died' \in Nat /\ died' <= scope.died
         /\ polling' \subseteq polling
         /\ UNCHANGED <<scope, agents, at, seenPlanned, loopCrashes, tangled, raced>>
    BY DEF ActOnIntent, BaseInv, ChatTyped
  <2>12. Proceeds(r, x)
    BY <1>3, <1>5, <2>3, <2>6, <2>7, <2>9, <2>10, <2>11 DEF Proceeds
  <2>. QED BY <2>12
<1>. QED BY <1>6, <1>7, <1>8, <1>9

LEMMA CreatePlanProceeds ==
    ASSUME BaseInv, NEW r \in Requests, CreateChatPlan(r)
    PROVE  \E x : Proceeds(r, x)
<1>1. PICK m : m = req[r].mission OBVIOUS
<1>2. /\ req[r].kind = "submit" /\ req[r].pc = "plan" /\ msgs' = msgs /\ m \in Ids
      /\ board[m].text = req[r].text /\ m # 0 /\ m \in Nat
  BY <1>1, ChatFacts DEF CreateChatPlan, RowOK
<1>3. BoardStep /\ board'[m].text = req[r].text
  BY <1>1, <1>2, PlannedStep, ChatFacts DEF CreateChatPlan
<1>4. m \in Ids' BY <1>2, <1>3, IdsGrow, ChatFacts
<1>5. PICK x : x = Say(r, "notice", m, {}, "none") OBVIOUS
<1>6. "notice" \in MessageKinds /\ "none" \in Claims /\ {} \in SUBSET Cues
  BY DEF MessageKinds, Claims, ReleaseStates
<1>7. x \in GoodRows' BY <1>2, <1>3, <1>4, <1>5, <1>6, SayGood
<1>8. /\ x.pc = "add" /\ x.kind = "submit" /\ x.text = req[r].text /\ x.mission = m
      /\ x.msg.kind = "notice"
  BY <1>2, <1>5, <1>6, SayRow
<1>9. PlacedRow(req[r]) /\ ~Concludes(x) /\ ~Answers(x)
  BY <1>2, <1>8 DEF PlacedRow, Concludes, Answers
<1>10. Only(r, x) BY <1>1, <1>5 DEF CreateChatPlan, Only
<1>11. /\ asked' \in Nat /\ asked' <= scope.asked /\ died' \in Nat /\ died' <= scope.died
       /\ polling' \subseteq polling
       /\ UNCHANGED <<scope, agents, at, seenPlanned, loopCrashes, tangled, raced>>
  BY DEF CreateChatPlan, BaseInv, ChatTyped
<1>12. Proceeds(r, x)
  BY <1>1, <1>2, <1>3, <1>7, <1>8, <1>9, <1>10, <1>11 DEF Proceeds
<1>. QED BY <1>12

LEMMA RefreshProceeds ==
    ASSUME BaseInv, NEW r \in Requests, NEW m \in Ids, Refresh(r, m)
    PROVE  \E x : Proceeds(r, x)
<1>1. msgs' = msgs /\ UNCHANGED deptVars BY DEF Refresh
<1>2. BoardStep BY <1>1, BoardSame, ChatFacts DEF deptVars
<1>3. Len(msgs) \in Nat /\ Ids' = Ids /\ board' = board /\ m \in Nat /\ m # 0
  BY <1>1, ChatFacts DEF deptVars, Ids
<1>4. Free \in RequestRows /\ NoMessage \in Messages
  BY <1>1, <1>3, FreeGood DEF NoMessage, Messages, MessageKinds, Claims, ReleaseStates
<1>5. PICK begun : begun = [Free EXCEPT !.kind = "refresh", !.mission = m] OBVIOUS
<1>6. /\ begun \in RequestRows /\ begun.kind = "refresh" /\ begun.mission = m /\ begun.pos = 0
  <2>1. Free.pos = 0 BY DEF Free
  <2>. QED BY <1>3, <1>4, <1>5, <2>1 DEF RequestRows
<1>7. /\ ~raced' => Busy("refresh") = {} /\ ~raced
      /\ ~tangled' => ~tangled
  BY DEF Refresh
<1>8. /\ asked' \in Nat /\ asked' <= scope.asked /\ died' \in Nat /\ died' <= scope.died
      /\ polling' \subseteq polling
      /\ UNCHANGED <<scope, agents, at, seenPlanned, loopCrashes>>
  BY DEF Refresh, BaseInv, ChatTyped, deptVars
<1>9. LinkedTo(m) # {} BY DEF Refresh
<1>10. ASSUME NEW pc \in {"completed", "failed", "candidate"}, NEW x,
              x = [begun EXCEPT !.pc = pc], Only(r, x),
              pc = "completed" => board[m].status = "COMPLETED" /\ board[m].kind = "op"
       PROVE  Proceeds(r, x)
  <2>1. /\ x \in RequestRows /\ x.pc = pc /\ x.kind = "refresh" /\ x.mission = m /\ x.pos = 0
    BY <1>6, <1>10 DEF RequestRows
  <2>2. x \in GoodRows'
    <3>1. SayOK(x)' BY <2>1 DEF SayOK
    <3>2. x.pos <= Len(msgs') + 1 BY <1>1, <1>3, <2>1
    <3>3. RowOK(x)' BY <1>3, <1>10, <2>1, <3>2 DEF RowOK
    <3>. QED BY <2>1, <3>1, <3>3 DEF GoodRows
  <2>3. ~PlacedRow(x) /\ ~Concludes(x) /\ ~Answers(x)
    BY <2>1 DEF PlacedRow, Concludes, Answers
  <2>. QED BY <1>1, <1>2, <1>7, <1>8, <1>9, <1>10, <2>1, <2>2, <2>3 DEF Proceeds
<1>11. ASSUME NEW y, y = [NoMessage EXCEPT !.role = "assistant", !.mission = m,
                                           !.kind = "change_failed"],
              NEW x, x = [begun EXCEPT !.pc = "add", !.pos = Len(msgs) + 1, !.msg = y], Only(r, x)
       PROVE  Proceeds(r, x)
  <2>1. /\ y \in Messages /\ y.role = "assistant" /\ y.kind = "change_failed"
        /\ y.mission = m /\ y.claim = "none"
    <3>1. NoMessage.claim = "none" BY DEF NoMessage
    <3>. QED BY <1>3, <1>4, <1>11, <3>1 DEF Messages, MessageKinds
  <2>2. PICK n : n = Len(msgs) + 1 OBVIOUS
  <2>3. n \in Nat BY <1>3, <2>2
  <2>4. x = [begun EXCEPT !.pc = "add", !.pos = n, !.msg = y] BY <1>11, <2>2
  <2>5. x \in RequestRows BY <1>6, <2>1, <2>3, <2>4 DEF RequestRows
  <2>6. x.pc = "add" /\ x.kind = "refresh" /\ x.mission = m /\ x.pos = n /\ x.msg = y
    BY <1>6, <2>4 DEF RequestRows
  <2>7. Claimed(y)' BY <1>3, <2>1 DEF Claimed
  <2>8. RowOK(x)' BY <1>1, <1>3, <2>2, <2>6 DEF RowOK
  <2>9. SayOK(x)' BY <2>1, <2>6, <2>7 DEF SayOK
  <2>10. ~PlacedRow(x) /\ ~Concludes(x) /\ ~Answers(x)
    BY <2>1, <2>6 DEF PlacedRow, Concludes, Answers
  <2>11. x \in GoodRows' BY <2>5, <2>8, <2>9 DEF GoodRows
  <2>. QED BY <1>1, <1>2, <1>7, <1>8, <1>9, <1>11, <2>6, <2>10, <2>11 DEF Proceeds
<1>12. \/ \E pc \in {"completed", "failed", "candidate"} :
             /\ req' = [req EXCEPT ![r] = [begun EXCEPT !.pc = pc]]
             /\ pc = "completed" => board[m].status = "COMPLETED" /\ board[m].kind = "op"
       \/ req' = [req EXCEPT ![r] = [begun EXCEPT !.pc = "add", !.pos = Len(msgs) + 1,
                    !.msg = [NoMessage EXCEPT !.role = "assistant", !.mission = m,
                                              !.kind = "change_failed"]]]
  BY <1>5 DEF Refresh
<1>13. ASSUME NEW pc \in {"completed", "failed", "candidate"},
              req' = [req EXCEPT ![r] = [begun EXCEPT !.pc = pc]],
              pc = "completed" => board[m].status = "COMPLETED" /\ board[m].kind = "op"
       PROVE  \E x : Proceeds(r, x)
  <2>1. PICK x : x = [begun EXCEPT !.pc = pc] OBVIOUS
  <2>2. Only(r, x) BY <1>13, <2>1 DEF Only
  <2>3. Proceeds(r, x) BY <1>10, <1>13, <2>1, <2>2
  <2>. QED BY <2>3
<1>14. CASE req' = [req EXCEPT ![r] = [begun EXCEPT !.pc = "add", !.pos = Len(msgs) + 1,
                     !.msg = [NoMessage EXCEPT !.role = "assistant", !.mission = m,
                                               !.kind = "change_failed"]]]
  <2>1. PICK y : y = [NoMessage EXCEPT !.role = "assistant", !.mission = m,
                                       !.kind = "change_failed"] OBVIOUS
  <2>2. PICK x : x = [begun EXCEPT !.pc = "add", !.pos = Len(msgs) + 1, !.msg = y] OBVIOUS
  <2>3. Only(r, x) BY <1>14, <2>1, <2>2 DEF Only
  <2>4. Proceeds(r, x) BY <1>11, <2>1, <2>2, <2>3
  <2>. QED BY <2>4
<1>. QED BY <1>12, <1>13, <1>14

(* The replies of a refresh: nothing, or a message about its mission.      *)
LEMMA ReplyFrees ==
    ASSUME BaseInv, NEW r \in Requests, ReplyCompleted(r) \/ ReplyFailed(r) \/ ReplyCandidate(r),
           Only(r, Free)
    PROVE  Proceeds(r, Free)
<1>1. msgs' = msgs /\ UNCHANGED deptVars BY DEF ReplyCompleted, ReplyFailed, ReplyCandidate
<1>2. BoardStep BY <1>1, BoardSame, ChatFacts DEF deptVars
<1>3. Free \in GoodRows' BY <1>1, FreeGood, ChatFacts
<1>4. Free.kind = "none" /\ Free.pc = "idle" BY DEF Free
<1>5. ~PlacedRow(Free) /\ ~Concludes(Free) /\ ~Answers(Free)
  BY <1>4 DEF PlacedRow, Concludes, Answers
<1>6. /\ asked' \in Nat /\ asked' <= scope.asked /\ died' \in Nat /\ died' <= scope.died
      /\ polling' \subseteq polling
      /\ UNCHANGED <<scope, agents, at, seenPlanned, loopCrashes, tangled, raced>>
  BY <1>1 DEF ReplyCompleted, ReplyFailed, ReplyCandidate, BaseInv, ChatTyped, deptVars
<1>. QED BY <1>1, <1>2, <1>3, <1>4, <1>5, <1>6 DEF Proceeds

LEMMA ReplySays ==
    ASSUME BaseInv, NEW r \in Requests, ReplyCompleted(r) \/ ReplyFailed(r) \/ ReplyCandidate(r),
           NEW m, m = req[r].mission, NEW k \in {"answer", "failed", "candidate"},
           NEW q \in SUBSET Cues, NEW c \in Claims,
           NEW x, x = Say(r, k, m, q, c), Only(r, x),
           k # "candidate" => ~ReplyPresent(m),
           k = "answer" => q \in {MissionQuestion(m), board[m].text},
           c = "Healthy" =>
              /\ {"system.health.read", "service.status.read"} \subseteq board[m].steps
              /\ board[m].running /\ board[m].status = "COMPLETED",
           k = "candidate" => c = board[m].release
    PROVE  Proceeds(r, x)
<1>1. msgs' = msgs /\ UNCHANGED deptVars BY DEF ReplyCompleted, ReplyFailed, ReplyCandidate
<1>2. BoardStep BY <1>1, BoardSame, ChatFacts DEF deptVars
<1>3. /\ req[r].kind = "refresh" /\ m \in Ids /\ m \in Nat /\ m # 0 /\ LinkedTo(m) # {}
  <2>1. req[r].pc \in {"completed", "failed", "candidate"}
    BY DEF ReplyCompleted, ReplyFailed, ReplyCandidate
  <2>2. LinkOK(r) BY DEF BaseInv, Linked
  <2>. QED BY <2>1, <2>2, ChatFacts DEF RowOK, LinkOK
<1>4. board' = board /\ Ids' = Ids /\ board[m] \in MissionRows
  BY <1>1, <1>3, ChatFacts DEF deptVars, Ids
<1>5. board[m].release \in ReleaseStates BY <1>4 DEF MissionRows
<1>6. k = "candidate" => c \in ReleaseStates /\ RankOf(c) <= RankOf(board'[m].release)
  <2>1. RankOf(board[m].release) \in Nat BY <1>5, RankNat
  <2>. QED BY <1>4, <1>5, <2>1
<1>7. k \in MessageKinds BY DEF MessageKinds
<1>8. x \in GoodRows' BY <1>1, <1>2, <1>3, <1>4, <1>6, <1>7, SayGood
<1>9. /\ x.pc = "add" /\ x.kind = "refresh" /\ x.mission = m /\ x.msg.kind = k
      /\ x.msg.question = q
  BY <1>3, <1>7, SayRow
<1>10. ~PlacedRow(x) BY <1>9 DEF PlacedRow
<1>11. Concludes(x) => LinkedTo(x.mission) # {} /\ ~ReplyPresent(x.mission) /\ x.mission \in Ids
  BY <1>3, <1>9 DEF Concludes
<1>12. Answers(x) => x.msg.question \in {MissionQuestion(x.mission), board[x.mission].text}
  BY <1>9 DEF Answers
<1>13. /\ asked' \in Nat /\ asked' <= scope.asked /\ died' \in Nat /\ died' <= scope.died
       /\ polling' \subseteq polling
       /\ UNCHANGED <<scope, agents, at, seenPlanned, loopCrashes, tangled, raced>>
  BY <1>1 DEF ReplyCompleted, ReplyFailed, ReplyCandidate, BaseInv, ChatTyped, deptVars
<1>. QED BY <1>1, <1>2, <1>3, <1>8, <1>9, <1>10, <1>11, <1>12, <1>13 DEF Proceeds

LEMMA ReplyProceeds ==
    ASSUME BaseInv, NEW r \in Requests, ReplyCompleted(r) \/ ReplyFailed(r) \/ ReplyCandidate(r)
    PROVE  \E x : Proceeds(r, x)
<1>1. PICK m : m = req[r].mission OBVIOUS
<1>2. m \in Ids /\ LinkedTo(m) # {} /\ req[r].kind = "refresh"
  <2>1. req[r].pc \in {"completed", "failed", "candidate"}
    BY DEF ReplyCompleted, ReplyFailed, ReplyCandidate
  <2>2. LinkOK(r) BY DEF BaseInv, Linked
  <2>. QED BY <1>1, <2>1, <2>2, ChatFacts DEF RowOK, LinkOK
<1>3. board[m] \in MissionRows BY <1>2, ChatFacts
<1>4. board[m].release \in Claims /\ board[m].text \in SUBSET Cues BY <1>3 DEF MissionRows, Claims
<1>5. {} \in SUBSET Cues /\ "none" \in Claims /\ "model" \in Claims /\ "unconfigured" \in Claims
  BY DEF Claims, ReleaseStates
<1>6. CASE Only(r, Free) BY <1>6, ReplyFrees
<1>7. CASE ReplyFailed(r) /\ ~Only(r, Free)
  <2>1. PICK x : x = Say(r, "failed", m, {}, "none") OBVIOUS
  <2>2. Only(r, x) /\ ~ReplyPresent(m) BY <1>1, <1>7, <2>1 DEF ReplyFailed, Only
  <2>3. Proceeds(r, x) BY <1>1, <1>5, <1>7, <2>1, <2>2, ReplySays
  <2>. QED BY <2>3
<1>8. CASE ReplyCandidate(r) /\ ~Only(r, Free)
  <2>1. PICK c : c = board[m].release OBVIOUS
  <2>2. PICK x : x = Say(r, "candidate", m, {}, c) OBVIOUS
  <2>3. Only(r, x) BY <1>1, <1>8, <2>1, <2>2 DEF ReplyCandidate, Only, CodeChangeOutcome
  <2>4. c \in Claims /\ c # "Healthy" BY <1>3, <1>4, <2>1 DEF MissionRows, ReleaseStates
  <2>5. Proceeds(r, x) BY <1>1, <1>5, <1>8, <2>1, <2>2, <2>3, <2>4, ReplySays
  <2>. QED BY <2>5
<1>9. CASE ReplyCompleted(r) /\ ~Only(r, Free)
  <2>1. ~ReplyPresent(m) BY <1>1, <1>9 DEF ReplyCompleted, Only
  <2>2. board[m].status = "COMPLETED" BY <1>1, <1>9, ChatFacts DEF ReplyCompleted, RowOK
  <2>3. PICK q, c : /\ Only(r, Say(r, "answer", m, q, c))
                    /\ \/ /\ q = MissionQuestion(m)
                          /\ c \in {"model", DeterministicSummary(m)}
                       \/ q = board[m].text /\ c = "unconfigured"
    BY <1>1, <1>9, <2>1 DEF ReplyCompleted, Only
  <2>4. q \in SUBSET Cues BY <1>2, <1>4, <2>3, QuestionTyped
  <2>5. /\ c \in Claims
        /\ c = "Healthy" =>
              /\ {"system.health.read", "service.status.read"} \subseteq board[m].steps
              /\ board[m].running
    BY <1>2, <1>5, <2>3, SummaryTyped
  <2>6. PICK x : x = Say(r, "answer", m, q, c) OBVIOUS
  <2>7. Proceeds(r, x) BY <1>1, <1>9, <2>1, <2>2, <2>3, <2>4, <2>5, <2>6, ReplySays
  <2>. QED BY <2>7
<1>. QED BY <1>6, <1>7, <1>8, <1>9

-----------------------------------------------------------------------------
(* Every step.                                                             *)

Quiet(r) == \E x : Proceeds(r, x)
Apart(kind) == \A r, s \in Requests : req[r].kind = kind /\ req[s].kind = kind => r = s

(* What a step of the whole is: a message is added, a request goes on, or  *)
(* only missions and workers move.                                         *)
LEMMA StepCases ==
    ASSUME BaseInv, ChatNext
    PROVE  \/ \E r \in Requests : AddMessage(r)
           \/ \E r \in Requests : Quiet(r)
           \/ BoardStep /\ DeptTyped' /\ UNCHANGED chatVars /\ scope' = scope
<1>1. ASSUME NEW r \in Requests, RequestStep(r) \/ RequestDies(r)
      PROVE  AddMessage(r) \/ Quiet(r)
  BY <1>1, EndProceeds, ActOnIntentProceeds, CreatePlanProceeds, ReplyProceeds
     DEF RequestStep, Quiet
<1>2. ASSUME NEW r \in Requests, asked < scope.asked, NEW t \in scope.texts[asked + 1], Submit(r, t)
      PROVE  Quiet(r)
  <2>1. /\ scope.texts \in Seq(SUBSET (SUBSET Cues)) /\ scope.asked <= Len(scope.texts)
        /\ scope.asked \in Nat /\ asked \in Nat
    BY ChatAssumption DEF BaseInv, DeptTyped, ChatTyped
  <2>2. asked + 1 \in 1 .. Len(scope.texts) BY <1>2, <2>1, LenProperties
  <2>3. scope.texts[asked + 1] \in SUBSET (SUBSET Cues) BY <2>1, <2>2, ElementOfSeq
  <2>4. t \in SUBSET Cues BY <2>3
  <2>. QED BY <1>2, <2>4, SubmitProceeds DEF Quiet
<1>3. ASSUME NEW r \in Requests, NEW m \in Ids, Refresh(r, m) PROVE Quiet(r)
  BY <1>3, RefreshProceeds DEF Quiet
<1>4. ASSUME NEW m \in Ids, ReleaseAdvances(m)
      PROVE  BoardStep /\ DeptTyped' /\ UNCHANGED chatVars /\ scope' = scope
  <2>1. BoardStep BY <1>4, ReleaseStep
  <2>2. DeptTyped' BY <1>4, <2>1, BoardOnlyTyped DEF ReleaseAdvances, BaseInv
  <2>. QED BY <1>4, <2>1, <2>2 DEF ReleaseAdvances
<1>5. ASSUME DeptNext, UNCHANGED chatVars
      PROVE  BoardStep /\ DeptTyped' /\ UNCHANGED chatVars /\ scope' = scope
  BY <1>5, DeptStep, ScopeKept DEF BaseInv, DeptKeeps
<1>. QED BY <1>1, <1>2, <1>3, <1>4, <1>5 DEF ChatNext

LEMMA BaseStep == ASSUME BaseInv, [ChatNext]_<<chatVars, deptVars>> PROVE BaseInv'
<1>1. ASSUME NEW r \in Requests, AddMessage(r) PROVE BaseInv' BY <1>1, AddMessageBase
<1>2. ASSUME NEW r \in Requests, Quiet(r) PROVE BaseInv' BY <1>2, ProceedsBase DEF Quiet
<1>3. CASE BoardStep /\ DeptTyped' /\ UNCHANGED chatVars /\ scope' = scope
  BY <1>3, BoardFrameBase
<1>4. CASE UNCHANGED <<chatVars, deptVars>>
  <2>1. BoardStep BY <1>4, BoardSame, ChatFacts DEF deptVars
  <2>2. DeptTyped' BY <1>4, <2>1, BoardOnlyTyped DEF deptVars, BaseInv
  <2>. QED BY <1>4, <2>1, <2>2, BoardFrameBase DEF deptVars
<1>. QED BY <1>1, <1>2, <1>3, <1>4, StepCases

LEMMA BaseStart == ASSUME ChatInit PROVE BaseInv
<1>1. board = <<>> /\ msgs = <<>> /\ Len(board) = 0 /\ Len(msgs) = 0 /\ Ids = {}
  BY DEF ChatInit, DeptInit, Ids
<1>2. \A w \in LoopWorkers : at[w] = AtRest /\ seenPlanned[w] = {}
  BY DEF ChatInit, DeptInit
<1>3. DeptTyped
  <2>1. AtRest \in Loops BY DEF AtRest, Loops
  <2>2. \A w \in LoopWorkers : LoopOK(at[w], seenPlanned[w]) BY <1>2 DEF LoopOK, AtRest
  <2>. QED BY <1>1, <2>1, <2>2 DEF DeptTyped, ChatInit, DeptInit
<1>4. \A r \in Requests : req[r] = Free BY DEF ChatInit
<1>5. Free \in GoodRows
  <2>1. Free \in RequestRows
    BY DEF Free, RequestRows, NoMessage, Messages, MessageKinds, Claims, ReleaseStates
  <2>2. RowOK(Free) BY <1>1 DEF Free, RowOK
  <2>3. SayOK(Free) BY DEF Free, SayOK
  <2>. QED BY <2>1, <2>2, <2>3 DEF GoodRows
<1>6. ChatTyped
  <2>1. scope.asked \in Nat /\ scope.died \in Nat BY <1>3, ChatAssumption DEF DeptTyped
  <2>. QED BY <1>1, <1>5, <2>1 DEF ChatTyped, ChatInit
<1>7. Linked BY <1>1, <1>4 DEF Linked, LinkOK, Free
<1>. QED BY <1>3, <1>6, <1>7 DEF BaseInv

LEMMA BaseAlways == ChatSpec => []BaseInv
<1>1. ChatInit => BaseInv BY BaseStart
<1>2. BaseInv /\ [ChatNext]_<<chatVars, deptVars>> => BaseInv' BY BaseStep
<1>. QED BY <1>1, <1>2, PTL DEF ChatSpec

(* The chat, its requests and the workers it shares the missions with keep *)
(* to their types: every message, request and worker names a mission there *)
(* is, and every position is one the conversation has or will have next.   *)
THEOREM ChatTypeCorrect == ChatSpec => []ChatTypeOK
<1>1. BaseInv => ChatTypeOK BY BaseTypeOK
<1>. QED BY <1>1, BaseAlways, PTL

(* However refreshes, releases and the worker loop interleave, the chat    *)
(* says "healthy" only of a mission whose readings show it, and claims of  *)
(* a candidate no more than its release has reached                        *)
(* (_deterministic_sysadmin_summary, _code_change_outcome).                *)
THEOREM ChatClaimsGrounded == ChatSpec => []ClaimsAreGrounded
<1>1. BaseInv => ClaimsAreGrounded BY BaseGrounded
<1>. QED BY <1>1, BaseAlways, PTL

(* No request makes the department a mission's foe.                        *)
LEMMA ChatFoes == ASSUME BaseInv, ChatNext PROVE SameFoes \/ DeptNext
<1>1. CASE board' = board BY <1>1 DEF SameFoes
<1>2. ASSUME NEW r \in Requests, PositionTaken(r) \/ RequestDies(r) PROVE SameFoes
  BY <1>2, DroppedStep DEF PositionTaken, RequestDies
<1>3. ASSUME NEW r \in Requests, CreateChatPlan(r) PROVE SameFoes
  <2>1. PICK m : m = req[r].mission OBVIOUS
  <2>2. m \in Ids BY <1>3, <2>1, ChatFacts DEF CreateChatPlan, RowOK
  <2>. QED BY <1>3, <2>1, <2>2, PlannedStep, ChatFacts DEF CreateChatPlan
<1>4. ASSUME NEW r \in Requests, ActOnIntent(r), board' # board PROVE SameFoes
  <2>0. PICK I : I = plan_sysadmin_intent(req[r].text).steps OBVIOUS
  <2>1. \/ board' = Append(board, NewMission("code", FALSE, req[r].text, {}))
        \/ board' = Append(board, NewMission("op", FALSE, req[r].text, I))
    BY <1>4, <2>0 DEF ActOnIntent
  <2>2. req[r].text \in SUBSET Cues BY ChatFacts DEF RequestRows
  <2>3. I \in SUBSET Tools BY <2>0, IntentTyped DEF Intents
  <2>4. ASSUME NEW y \in MissionRows, board' = Append(board, y) PROVE SameFoes
    BY <2>4, BoardAppend, ChatFacts DEF SameFoes
  <2>5. CASE board' = Append(board, NewMission("code", FALSE, req[r].text, {}))
    <3>1. NewMission("code", FALSE, req[r].text, {}) \in MissionRows BY <2>2, NewChangeRow
    <3>. QED BY <2>4, <2>5, <3>1
  <2>6. CASE board' = Append(board, NewMission("op", FALSE, req[r].text, I))
    <3>1. NewMission("op", FALSE, req[r].text, I) \in MissionRows BY <2>2, <2>3, NewMissionRow
    <3>. QED BY <2>4, <2>6, <3>1
  <2>. QED BY <2>1, <2>5, <2>6
<1>5. ASSUME NEW r \in Requests, \/ AddMessage(r) \/ ReplyCompleted(r) \/ ReplyFailed(r)
                                 \/ ReplyCandidate(r) \/ (\E t : Submit(r, t))
                                 \/ (\E m : Refresh(r, m))
      PROVE  board' = board
  BY <1>5 DEF AddMessage, ReplyCompleted, ReplyFailed, ReplyCandidate, Submit, Refresh, deptVars
<1>. QED BY <1>1, <1>2, <1>3, <1>4, <1>5, ReleaseStep DEF ChatNext, RequestStep

(* With any number of workers, crashes and chat requests that write plans  *)
(* meanwhile, the department fails no mission that was planned when the    *)
(* worker looked for planned missions (run_worker_iteration).              *)
THEOREM DepartmentSparesPlanned == ChatSpec => PlannedMissionsSpared
<1>1. BaseInv /\ [ChatNext]_<<chatVars, deptVars>> => Spares \/ UNCHANGED deptVars
  <2>. SUFFICES ASSUME BaseInv, ChatNext PROVE Spares OBVIOUS
  <2>1. CASE DeptNext BY <2>1, DeptStep DEF BaseInv, DeptKeeps
  <2>2. CASE SameFoes BY <2>2 DEF SameFoes, Spares
  <2>. QED BY <2>1, <2>2, ChatFoes
<1>2. BaseInv /\ [ChatNext]_<<chatVars, deptVars>> =>
        [\A w \in LoopWorkers, m \in Ids :
            board[m].foe # w /\ board'[m].foe = w => m \notin seenPlanned[w]]_deptVars
  BY <1>1 DEF Spares
<1>. QED BY <1>2, BaseAlways, PTL DEF ChatSpec, PlannedMissionsSpared

-----------------------------------------------------------------------------
(* One reply, when refreshes do not overlap.                               *)

Terminals(m) == Notes(m, "answer") \cup Notes(m, "failed")
Unraced ==
    ~raced =>
        /\ Apart("refresh")
        /\ \A r \in Requests : Concludes(req[r]) => Terminals(req[r].mission) = {}
        /\ \A m \in Ids : \A i, j \in Terminals(m) : i = j

LEMMA LinkedFinite ==
    ASSUME BaseInv, NEW m, NEW S, S \subseteq LinkedTo(m)
    PROVE  IsFiniteSet(S) /\ IsFiniteSet(LinkedTo(m)) /\ Cardinality(S) \in Nat
           /\ Cardinality(LinkedTo(m)) \in Nat /\ Cardinality(S) <= Cardinality(LinkedTo(m))
<1>1. Len(msgs) \in Nat BY ChatFacts
<1>2. IsFiniteSet(1 .. Len(msgs)) BY <1>1, FS_Interval
<1>3. LinkedTo(m) \subseteq 1 .. Len(msgs) BY DEF LinkedTo
<1>4. IsFiniteSet(LinkedTo(m)) BY <1>2, <1>3, FS_Subset
<1>. QED BY <1>4, FS_Subset, FS_CardinalityType

(* The notice is linked, so a reply that is there makes two.               *)
LEMMA NoReplyYet ==
    ASSUME BaseInv, NEW m \in Ids, LinkedTo(m) # {}, ~ReplyPresent(m) PROVE Terminals(m) = {}
<1>. SUFFICES ASSUME NEW t \in Terminals(m) PROVE FALSE OBVIOUS
<1>1. PICK n \in Notes(m, "notice") : TRUE BY DEF BaseInv, Linked
<1>2. n # t BY <1>1 DEF Terminals, Notes
<1>3. PICK S : S = {n} OBVIOUS
<1>4. S \cup {t} \subseteq LinkedTo(m) BY <1>3 DEF Terminals, Notes
<1>5. IsFiniteSet(S) /\ Cardinality(S) = 1 BY <1>3, FS_Singleton
<1>6. Cardinality(S \cup {t}) = 2
  <2>1. t \notin S BY <1>2, <1>3
  <2>2. Cardinality(S \cup {t}) = Cardinality(S) + 1 BY <1>5, <2>1, FS_AddElement
  <2>. QED BY <1>5, <2>2
<1>7. Cardinality(LinkedTo(m)) \in Nat /\ Cardinality(LinkedTo(m)) >= 2
  BY <1>4, <1>6, LinkedFinite
<1>. QED BY <1>7 DEF ReplyPresent

LEMMA ConcludesRefresh ==
    ASSUME BaseInv, NEW r \in Requests, Concludes(req[r])
    PROVE  req[r].kind = "refresh" /\ req[r].mission \in Ids
BY ChatFacts DEF Concludes, SayOK, RowOK, RequestRows

LEMMA UnracedFrame ==
    ASSUME BaseInv, Unraced, BoardStep, UNCHANGED chatVars PROVE Unraced'
<1>. SUFFICES ASSUME ~raced' PROVE /\ Apart("refresh")'
                                   /\ \A r \in Requests : Concludes(req'[r]) =>
                                         Terminals(req[r].mission)' = {}
                                   /\ \A m \in Ids' : \A i, j \in Terminals(m)' : i = j
  BY DEF Unraced, Concludes
<1>1. msgs' = msgs /\ req' = req /\ ~raced BY DEF chatVars
<1>2. \A m : Terminals(m)' = Terminals(m) BY <1>1 DEF Terminals, Notes, LinkedTo
<1>3. ASSUME NEW r \in Requests, Concludes(req'[r]) PROVE Terminals(req[r].mission)' = {}
  <2>1. Terminals(req[r].mission)' = Terminals(req[r].mission)
    BY <1>1 DEF Terminals, Notes, LinkedTo
  <2>. QED BY <1>1, <1>3, <2>1 DEF Unraced
<1>4. ASSUME NEW m \in Ids', NEW i \in Terminals(m)', NEW j \in Terminals(m)' PROVE i = j
  <2>1. i \in Terminals(m) /\ j \in Terminals(m) BY <1>2
  <2>2. m # 0 BY LenProperties DEF Ids
  <2>3. m \in Ids BY <2>1, <2>2, ChatFacts DEF Terminals, Notes, LinkedTo, Claimed
  <2>. QED BY <1>1, <2>1, <2>3 DEF Unraced
<1>5. Apart("refresh")' BY <1>1 DEF Unraced, Apart
<1>. QED BY <1>3, <1>4, <1>5

LEMMA UnracedQuiet ==
    ASSUME BaseInv, Unraced, NEW r \in Requests, NEW x, Proceeds(r, x) PROVE Unraced'
<1>. SUFFICES ASSUME ~raced' PROVE /\ Apart("refresh")'
                                   /\ \A s \in Requests : Concludes(req'[s]) =>
                                         Terminals(req[s].mission)' = {}
                                   /\ \A m \in Ids' : \A i, j \in Terminals(m)' : i = j
  BY DEF Unraced, Concludes
<1>1. msgs' = msgs /\ ~raced BY DEF Proceeds
<1>2. \A s \in Requests : req'[s] = IF s = r THEN x ELSE req[s]
  BY DEF Proceeds, Only, BaseInv, ChatTyped
<1>3. \A m : Terminals(m)' = Terminals(m) BY <1>1 DEF Terminals, Notes, LinkedTo
<1>4. ASSUME NEW s \in Requests, Concludes(req'[s]) PROVE Terminals(req[s].mission)' = {}
  <2>1. CASE s = r
    <3>1. Terminals(req[s].mission)' = Terminals(x.mission)
      BY <1>1, <1>2, <2>1 DEF Terminals, Notes, LinkedTo
    <3>2. LinkedTo(x.mission) # {} /\ ~ReplyPresent(x.mission) /\ x.mission \in Ids
      BY <1>2, <1>4, <2>1 DEF Proceeds
    <3>. QED BY <3>1, <3>2, NoReplyYet
  <2>2. CASE s # r
    <3>1. Terminals(req[s].mission)' = Terminals(req[s].mission)
      BY <1>1, <1>2, <2>2 DEF Terminals, Notes, LinkedTo
    <3>. QED BY <1>1, <1>2, <1>4, <2>2, <3>1 DEF Unraced
  <2>. QED BY <2>1, <2>2
<1>5. ASSUME NEW m \in Ids', NEW i \in Terminals(m)', NEW j \in Terminals(m)' PROVE i = j
  <2>1. i \in Terminals(m) /\ j \in Terminals(m) BY <1>3
  <2>2. m # 0 BY LenProperties DEF Ids
  <2>3. m \in Ids BY <2>1, <2>2, ChatFacts DEF Terminals, Notes, LinkedTo, Claimed
  <2>. QED BY <1>1, <2>1, <2>3 DEF Unraced
<1>6. Apart("refresh")'
  <2>1. Apart("refresh") BY <1>1 DEF Unraced
  <2>2. x.kind = "refresh" => req[r].kind = "refresh" \/ Busy("refresh") = {}
    BY DEF Proceeds
  <2>. QED BY <1>2, <2>1, <2>2 DEF Apart, Busy
<1>. QED BY <1>4, <1>5, <1>6

LEMMA UnracedAdd ==
    ASSUME BaseInv, Unraced, NEW r \in Requests, AddMessage(r) PROVE Unraced'
<1>. SUFFICES ASSUME ~raced' PROVE /\ Apart("refresh")'
                                   /\ \A s \in Requests : Concludes(req'[s]) =>
                                         Terminals(req[s].mission)' = {}
                                   /\ \A m \in Ids' : \A i, j \in Terminals(m)' : i = j
  BY DEF Unraced, Concludes
<1>1. ~raced /\ Ids' = Ids /\ req[r].pc = "add" /\ msgs' = Append(msgs, req[r].msg)
  BY DEF AddMessage, deptVars, Ids
<1>2. /\ Only(r, AfterAdd(r)) /\ AfterAdd(r).kind # "refresh"
      /\ AfterAdd(r).pc \in {"idle", "intent"}
  BY AddRow
<1>3. \A s \in Requests : req'[s] = IF s = r THEN AfterAdd(r) ELSE req[s]
  BY <1>2 DEF Only, BaseInv, ChatTyped
<1>4. /\ Len(msgs') = Len(msgs) + 1 /\ msgs'[Len(msgs) + 1] = req[r].msg
      /\ \A i \in 1 .. Len(msgs) : msgs'[i] = msgs[i]
      /\ \A m : LinkedTo(m)' = IF req[r].mission = m THEN LinkedTo(m) \cup {Len(msgs) + 1}
                               ELSE LinkedTo(m)
  BY <1>1, Added
<1>5. \A m : LinkedTo(m) \subseteq 1 .. Len(msgs) BY DEF LinkedTo
<1>6. ASSUME NEW m
      PROVE  Terminals(m)' = IF req[r].mission = m /\ Concludes(req[r])
                             THEN Terminals(m) \cup {Len(msgs) + 1} ELSE Terminals(m)
  <2>1. Terminals(m) = {i \in LinkedTo(m) : msgs[i].kind \in {"answer", "failed"}}
    BY DEF Terminals, Notes
  <2>2. Terminals(m)' = {i \in LinkedTo(m)' : msgs'[i].kind \in {"answer", "failed"}}
    BY DEF Terminals, Notes
  <2>3. \A i \in LinkedTo(m) : msgs'[i] = msgs[i] BY <1>4, <1>5
  <2>4. Concludes(req[r]) <=> req[r].msg.kind \in {"answer", "failed"} BY <1>1 DEF Concludes
  <2>5. CASE req[r].mission = m
    <3>1. LinkedTo(m)' = LinkedTo(m) \cup {Len(msgs) + 1} BY <1>4, <2>5
    <3>. QED BY <1>4, <2>1, <2>2, <2>3, <2>4, <2>5, <3>1
  <2>6. CASE req[r].mission # m
    <3>1. LinkedTo(m)' = LinkedTo(m) BY <1>4, <2>6
    <3>. QED BY <2>1, <2>2, <2>3, <2>6, <3>1
  <2>. QED BY <2>5, <2>6
<1>7. Apart("refresh") BY <1>1 DEF Unraced
<1>8. Apart("refresh")' BY <1>2, <1>3, <1>7 DEF Apart
<1>9. ASSUME NEW s \in Requests, Concludes(req'[s]) PROVE Terminals(req[s].mission)' = {}
  <2>1. s # r /\ req'[s] = req[s] /\ Concludes(req[s]) BY <1>2, <1>3, <1>9 DEF Concludes
  <2>2. ~Concludes(req[r]) BY <1>7, <2>1, ConcludesRefresh DEF Apart
  <2>3. PICK m : m = req[s].mission OBVIOUS
  <2>4. Terminals(req[s].mission)' = Terminals(m)' BY <2>1, <2>3 DEF Terminals, Notes, LinkedTo
  <2>. QED BY <1>1, <1>6, <2>1, <2>2, <2>3, <2>4 DEF Unraced
<1>10. ASSUME NEW m \in Ids', NEW i \in Terminals(m)', NEW j \in Terminals(m)' PROVE i = j
  <2>1. CASE req[r].mission = m /\ Concludes(req[r])
    <3>1. Terminals(m) = {} BY <1>1, <2>1 DEF Unraced
    <3>. QED BY <1>6, <2>1, <3>1
  <2>2. CASE ~(req[r].mission = m /\ Concludes(req[r]))
    BY <1>1, <1>6, <2>2 DEF Unraced
  <2>. QED BY <2>1, <2>2
<1>. QED BY <1>8, <1>9, <1>10

LEMMA UnracedOne == ASSUME BaseInv, Unraced PROVE OneTerminalReply
<1>. SUFFICES ASSUME ~raced, NEW m \in Ids PROVE Cardinality(Terminals(m)) <= 1
  BY DEF OneTerminalReply, Terminals
<1>1. \A i, j \in Terminals(m) : i = j BY DEF Unraced
<1>2. CASE Terminals(m) = {} BY <1>2, FS_EmptySet
<1>3. CASE Terminals(m) # {}
  <2>1. PICK i : Terminals(m) = {i} BY <1>1, <1>3
  <2>2. Cardinality({i}) = 1 BY FS_Singleton
  <2>. QED BY <2>1, <2>2
<1>. QED BY <1>2, <1>3

(* For any number of requests, workers and missions: while refreshes do    *)
(* not overlap, a mission of the chat is answered or reported as failed    *)
(* once, however often the page asks (_completed_reply_if_present,         *)
(* _terminal_reply_if_present, then add_message).                          *)
THEOREM RepliesOnce == ChatSpec => []OneTerminalReply
<1>1. ChatInit => Unraced
  <2>. SUFFICES ASSUME ChatInit PROVE Unraced OBVIOUS
  <2>1. Ids = {} /\ \A r \in Requests : req[r] = Free BY DEF ChatInit, DeptInit, Ids
  <2>. QED BY <2>1 DEF Unraced, Apart, Concludes, Free
<1>2. BaseInv /\ Unraced /\ [ChatNext]_<<chatVars, deptVars>> => Unraced'
  <2>. SUFFICES ASSUME BaseInv, Unraced, [ChatNext]_<<chatVars, deptVars>> PROVE Unraced'
    OBVIOUS
  <2>1. ASSUME NEW r \in Requests, AddMessage(r) PROVE Unraced' BY <2>1, UnracedAdd
  <2>2. ASSUME NEW r \in Requests, Quiet(r) PROVE Unraced' BY <2>2, UnracedQuiet DEF Quiet
  <2>3. CASE BoardStep /\ UNCHANGED chatVars BY <2>3, UnracedFrame
  <2>4. CASE UNCHANGED <<chatVars, deptVars>>
    <3>1. BoardStep BY <2>4, BoardSame, ChatFacts DEF deptVars
    <3>. QED BY <2>4, <3>1, UnracedFrame
  <2>. QED BY <2>1, <2>2, <2>3, <2>4, StepCases
<1>3. BaseInv /\ Unraced => OneTerminalReply BY UnracedOne
<1>. QED BY <1>1, <1>2, <1>3, BaseAlways, PTL DEF ChatSpec

-----------------------------------------------------------------------------
(* The question that created a mission, when submits do not overlap.       *)

(* Message i is the first linked to m; message p is the last question      *)
(* before place i; the last question before place i is t.                  *)
IsFirst(i, m) == i \in LinkedTo(m) /\ \A j \in LinkedTo(m) : i <= j
IsLastQuestion(p, i) ==
    /\ p \in 1 .. i - 1 /\ msgs[p].role = "user"
    /\ \A j \in 1 .. i - 1 : msgs[j].role = "user" => j <= p
Asks(i, t) == \E p \in 1 .. i - 1 : IsLastQuestion(p, i) /\ msgs[p].question = t

AnswersRight(x) == x.mission \in Ids /\ x.question = board[x.mission].text
Untangled ==
    ~tangled =>
        /\ Apart("submit")
        /\ \A r \in Requests : PlacedRow(req[r]) => Asks(Len(msgs) + 1, req[r].text)
        /\ \A m \in Ids : LinkedTo(m) # {} =>
              \E i \in LinkedTo(m) : IsFirst(i, m) /\ Asks(i, board[m].text)
        /\ \A i \in 1 .. Len(msgs) : msgs[i].kind = "answer" => AnswersRight(msgs[i])
        /\ \A r \in Requests : Answers(req[r]) => AnswersRight(req[r].msg)

(* The search of _mission_question has one outcome.                        *)
LEMMA QuestionFound ==
    ASSUME BaseInv, NEW m, NEW f, IsFirst(f, m), NEW t, Asks(f, t)
    PROVE  MissionQuestion(m) = t
<1>1. LinkedTo(m) \subseteq 1 .. Len(msgs) /\ Len(msgs) \in Nat BY ChatFacts DEF LinkedTo
<1>2. PICK first : first = CHOOSE i \in LinkedTo(m) : \A j \in LinkedTo(m) : i <= j OBVIOUS
<1>3. first \in LinkedTo(m) /\ \A j \in LinkedTo(m) : first <= j BY <1>2 DEF IsFirst
<1>4. first = f /\ f \in Nat BY <1>1, <1>3 DEF IsFirst
<1>5. PICK before : before = {i \in 1 .. first - 1 : msgs[i].role = "user"} OBVIOUS
<1>6. PICK p \in 1 .. f - 1 : IsLastQuestion(p, f) /\ msgs[p].question = t BY DEF Asks
<1>7. p \in before /\ \A j \in before : j <= p BY <1>4, <1>5, <1>6 DEF IsLastQuestion
<1>8. PICK q : q = CHOOSE i \in before : \A j \in before : j <= i OBVIOUS
<1>9. q \in before /\ \A j \in before : j <= q BY <1>7, <1>8
<1>10. q = p BY <1>4, <1>5, <1>7, <1>9
<1>11. MissionQuestion(m) = IF before = {} THEN {}
                            ELSE msgs[CHOOSE i \in before : \A j \in before : j <= i].question
  BY <1>2, <1>5 DEF MissionQuestion
<1>. QED BY <1>6, <1>7, <1>8, <1>10, <1>11

LEMMA UntangledFrame ==
    ASSUME BaseInv, Untangled, BoardStep, UNCHANGED chatVars PROVE Untangled'
<1>. SUFFICES ASSUME ~tangled' PROVE
        /\ Apart("submit")'
        /\ \A r \in Requests : PlacedRow(req'[r]) => Asks(Len(msgs) + 1, req[r].text)'
        /\ \A m \in Ids' : LinkedTo(m)' # {} =>
              \E i \in LinkedTo(m)' : IsFirst(i, m)' /\ Asks(i, board[m].text)'
        /\ \A i \in 1 .. Len(msgs') : msgs'[i].kind = "answer" => AnswersRight(msgs[i])'
        /\ \A r \in Requests : Answers(req'[r]) => AnswersRight(req[r].msg)'
  BY DEF Untangled, PlacedRow, Answers
<1>1. msgs' = msgs /\ req' = req /\ ~tangled BY DEF chatVars
<1>2. Ids \subseteq Ids' /\ \A m \in Ids : board'[m].text = board[m].text
  BY IdsGrow, ChatFacts DEF BoardStep, Evolves
<1>3. Apart("submit")' BY <1>1 DEF Untangled, Apart
<1>4. ASSUME NEW r \in Requests, PlacedRow(req'[r]) PROVE Asks(Len(msgs) + 1, req[r].text)'
  <2>1. Asks(Len(msgs) + 1, req[r].text) BY <1>1, <1>4 DEF Untangled
  <2>. QED BY <1>1, <2>1 DEF Asks, IsLastQuestion
<1>5. ASSUME NEW m \in Ids', LinkedTo(m)' # {}
      PROVE  \E i \in LinkedTo(m)' : IsFirst(i, m)' /\ Asks(i, board[m].text)'
  <2>1. LinkedTo(m)' = LinkedTo(m) BY <1>1 DEF LinkedTo
  <2>2. m # 0 BY LenProperties DEF Ids
  <2>3. m \in Ids BY <1>5, <2>1, <2>2, ChatFacts DEF LinkedTo, Claimed
  <2>4. PICK i \in LinkedTo(m) : IsFirst(i, m) /\ Asks(i, board[m].text)
    BY <1>1, <1>5, <2>1, <2>3 DEF Untangled
  <2>5. IsFirst(i, m)' BY <2>1, <2>4 DEF IsFirst
  <2>6. Asks(i, board[m].text)' BY <1>1, <1>2, <2>3, <2>4 DEF Asks, IsLastQuestion
  <2>. QED BY <2>1, <2>5, <2>6
<1>6. ASSUME NEW i \in 1 .. Len(msgs'), msgs'[i].kind = "answer" PROVE AnswersRight(msgs[i])'
  <2>1. AnswersRight(msgs[i]) BY <1>1, <1>6 DEF Untangled
  <2>. QED BY <1>1, <1>2, <2>1 DEF AnswersRight
<1>7. ASSUME NEW r \in Requests, Answers(req'[r]) PROVE AnswersRight(req[r].msg)'
  <2>1. AnswersRight(req[r].msg) BY <1>1, <1>7 DEF Untangled
  <2>. QED BY <1>1, <1>2, <2>1 DEF AnswersRight
<1>. QED BY <1>3, <1>4, <1>5, <1>6, <1>7

LEMMA UntangledQuiet ==
    ASSUME BaseInv, Untangled, NEW r \in Requests, NEW x, Proceeds(r, x) PROVE Untangled'
<1>. SUFFICES ASSUME ~tangled' PROVE
        /\ Apart("submit")'
        /\ \A s \in Requests : PlacedRow(req'[s]) => Asks(Len(msgs) + 1, req[s].text)'
        /\ \A m \in Ids' : LinkedTo(m)' # {} =>
              \E i \in LinkedTo(m)' : IsFirst(i, m)' /\ Asks(i, board[m].text)'
        /\ \A i \in 1 .. Len(msgs') : msgs'[i].kind = "answer" => AnswersRight(msgs[i])'
        /\ \A s \in Requests : Answers(req'[s]) => AnswersRight(req[s].msg)'
  BY DEF Untangled, PlacedRow, Answers
<1>1. msgs' = msgs /\ ~tangled /\ BoardStep BY DEF Proceeds
<1>2. Ids \subseteq Ids' /\ \A m \in Ids : board'[m].text = board[m].text
  BY <1>1, IdsGrow, ChatFacts DEF BoardStep, Evolves
<1>3. \A s \in Requests : req'[s] = IF s = r THEN x ELSE req[s]
  BY DEF Proceeds, Only, BaseInv, ChatTyped
<1>4. Apart("submit")'
  <2>1. Apart("submit") BY <1>1 DEF Untangled
  <2>2. x.kind = "submit" => req[r].kind = "submit" \/ Busy("submit") = {}
    BY DEF Proceeds
  <2>. QED BY <1>3, <2>1, <2>2 DEF Apart, Busy
<1>5. ASSUME NEW s \in Requests, PlacedRow(req'[s]) PROVE Asks(Len(msgs) + 1, req[s].text)'
  <2>1. PlacedRow(req[s]) /\ req'[s].text = req[s].text BY <1>3, <1>5 DEF Proceeds
  <2>2. Asks(Len(msgs) + 1, req[s].text) BY <1>1, <2>1 DEF Untangled
  <2>. QED BY <1>1, <2>1, <2>2 DEF Asks, IsLastQuestion
<1>6. ASSUME NEW m \in Ids', LinkedTo(m)' # {}
      PROVE  \E i \in LinkedTo(m)' : IsFirst(i, m)' /\ Asks(i, board[m].text)'
  <2>1. LinkedTo(m)' = LinkedTo(m) BY <1>1 DEF LinkedTo
  <2>2. m # 0 BY LenProperties DEF Ids
  <2>3. m \in Ids BY <1>6, <2>1, <2>2, ChatFacts DEF LinkedTo, Claimed
  <2>4. PICK i \in LinkedTo(m) : IsFirst(i, m) /\ Asks(i, board[m].text)
    BY <1>1, <1>6, <2>1, <2>3 DEF Untangled
  <2>5. IsFirst(i, m)' BY <2>1, <2>4 DEF IsFirst
  <2>6. Asks(i, board[m].text)' BY <1>1, <1>2, <2>3, <2>4 DEF Asks, IsLastQuestion
  <2>. QED BY <2>1, <2>5, <2>6
<1>7. ASSUME NEW i \in 1 .. Len(msgs'), msgs'[i].kind = "answer" PROVE AnswersRight(msgs[i])'
  <2>1. AnswersRight(msgs[i]) BY <1>1, <1>7 DEF Untangled
  <2>. QED BY <1>1, <1>2, <2>1 DEF AnswersRight
<1>8. ASSUME NEW s \in Requests, Answers(req'[s]) PROVE AnswersRight(req[s].msg)'
  <2>1. CASE s # r
    <3>1. req'[s] = req[s] BY <1>3, <2>1
    <3>2. AnswersRight(req[s].msg) BY <1>1, <1>8, <3>1 DEF Untangled
    <3>. QED BY <1>2, <3>1, <3>2 DEF AnswersRight
  <2>2. CASE s = r
    <3>1. req'[s] = x /\ Answers(x) /\ Concludes(x)
      BY <1>3, <1>8, <2>2 DEF Answers, Concludes
    <3>2. /\ x.mission \in Ids /\ LinkedTo(x.mission) # {}
          /\ x.msg.question \in {MissionQuestion(x.mission), board[x.mission].text}
      BY <3>1 DEF Proceeds
    <3>3. x.msg.mission = x.mission
      <4>1. SayOK(x)' BY DEF Proceeds, GoodRows
      <4>. QED BY <3>1, <4>1 DEF SayOK, Answers
    <3>4. PICK i \in LinkedTo(x.mission) : IsFirst(i, x.mission) /\ Asks(i, board[x.mission].text)
      BY <1>1, <3>2 DEF Untangled
    <3>5. x.msg.question = board[x.mission].text BY <3>2, <3>4, QuestionFound
    <3>. QED BY <1>2, <3>1, <3>2, <3>3, <3>5 DEF AnswersRight
  <2>. QED BY <2>1, <2>2
<1>. QED BY <1>4, <1>5, <1>6, <1>7, <1>8

LEMMA UntangledAdd ==
    ASSUME BaseInv, Untangled, NEW r \in Requests, AddMessage(r) PROVE Untangled'
<1>. SUFFICES ASSUME ~tangled' PROVE
        /\ Apart("submit")'
        /\ \A s \in Requests : PlacedRow(req'[s]) => Asks(Len(msgs) + 1, req[s].text)'
        /\ \A m \in Ids' : LinkedTo(m)' # {} =>
              \E i \in LinkedTo(m)' : IsFirst(i, m)' /\ Asks(i, board[m].text)'
        /\ \A i \in 1 .. Len(msgs') : msgs'[i].kind = "answer" => AnswersRight(msgs[i])'
        /\ \A s \in Requests : Answers(req'[s]) => AnswersRight(req[s].msg)'
  BY DEF Untangled, PlacedRow, Answers
<1>1. /\ ~tangled /\ Ids' = Ids /\ board' = board /\ req[r].pc = "add"
      /\ msgs' = Append(msgs, req[r].msg)
  BY DEF AddMessage, deptVars, Ids
<1>2. \A s \in Requests : req'[s] = IF s = r THEN AfterAdd(r) ELSE req[s]
  BY AddRow DEF Only, BaseInv, ChatTyped
<1>3. /\ Len(msgs') = Len(msgs) + 1 /\ msgs'[Len(msgs) + 1] = req[r].msg
      /\ \A i \in 1 .. Len(msgs) : msgs'[i] = msgs[i]
      /\ \A m : LinkedTo(m)' = IF req[r].mission = m THEN LinkedTo(m) \cup {Len(msgs) + 1}
                               ELSE LinkedTo(m)
  BY <1>1, Added
<1>4. Len(msgs) \in Nat /\ \A m : LinkedTo(m) \subseteq 1 .. Len(msgs) BY ChatFacts DEF LinkedTo
<1>5. ASSUME NEW i \in 1 .. Len(msgs) + 1, NEW t, Asks(i, t) PROVE Asks(i, t)'
  <2>1. PICK p \in 1 .. i - 1 : IsLastQuestion(p, i) /\ msgs[p].question = t BY <1>5 DEF Asks
  <2>2. \A j \in 1 .. i - 1 : msgs'[j] = msgs[j] BY <1>3, <1>4
  <2>3. IsLastQuestion(p, i)' BY <2>1, <2>2 DEF IsLastQuestion
  <2>. QED BY <2>1, <2>2, <2>3 DEF Asks
<1>6. Apart("submit")'
  <2>1. Apart("submit") BY <1>1 DEF Untangled
  <2>2. AfterAdd(r).kind = "submit" => req[r].kind = "submit"
    BY AddRow DEF AfterAdd, Free
  <2>. QED BY <1>2, <2>1, <2>2 DEF Apart
<1>7. ASSUME NEW s \in Requests, PlacedRow(req'[s]) PROVE Asks(Len(msgs) + 1, req[s].text)'
  <2>1. PICK n, t : n = Len(msgs) + 1 /\ t = req'[s].text OBVIOUS
  <2>2. SUFFICES Asks(n + 1, t)' BY <1>3, <2>1 DEF Asks, IsLastQuestion
  <2>3. n \in Nat /\ n >= 1 /\ Len(msgs') = n BY <1>3, <1>4, <2>1
  <2>4. CASE s = r
    <3>1. req[r].msg.role = "user" BY <1>2, <1>7, <2>4, AddRow DEF PlacedRow, Free
    <3>2. req[r].kind = "submit" /\ t = req[r].text /\ req[r].msg.question = req[r].text
      <4>1. req[r] \in RequestRows BY ChatFacts
      <4>2. AfterAdd(r).kind = req[r].kind /\ AfterAdd(r).text = req[r].text
        BY <3>1, <4>1 DEF AfterAdd, RequestRows
      <4>3. req[r].kind = "submit" BY <3>1, <4>2, AddRow
      <4>. QED BY <1>1, <1>2, <2>1, <2>4, <3>1, <4>2, <4>3, ChatFacts DEF SayOK
    <3>3. msgs'[n] = req[r].msg BY <1>3, <2>1
    <3>4. IsLastQuestion(n, n + 1)' BY <2>3, <3>1, <3>3 DEF IsLastQuestion
    <3>. QED BY <2>3, <3>2, <3>3, <3>4 DEF Asks
  <2>5. CASE s # r
    <3>1. req'[s] = req[s] BY <1>2, <2>5
    <3>2. Asks(n, t) BY <1>1, <1>7, <2>1, <3>1 DEF Untangled
    <3>3. req[r].kind # "submit"
      <4>1. req[s].kind = "submit" BY <1>7, <3>1 DEF PlacedRow
      <4>. QED BY <1>1, <2>5, <4>1 DEF Untangled, Apart
    <3>4. req[r].msg.role # "user"
      BY <1>1, <3>3, ChatFacts DEF SayOK, RowOK, RequestRows
    <3>5. Asks(n, t)' BY <1>4, <1>5, <2>1, <3>2
    <3>6. PICK p \in 1 .. n - 1 : IsLastQuestion(p, n)' /\ msgs'[p].question = t
      BY <3>5 DEF Asks
    <3>7. msgs'[n].role # "user" BY <1>3, <2>1, <3>4
    <3>8. IsLastQuestion(p, n + 1)'
      <4>1. \A j \in 1 .. n + 1 - 1 : j = n \/ j \in 1 .. n - 1 BY <2>3
      <4>. QED BY <2>3, <3>6, <3>7, <4>1 DEF IsLastQuestion
    <3>. QED BY <2>3, <3>6, <3>8 DEF Asks
  <2>. QED BY <2>4, <2>5
<1>8. ASSUME NEW m \in Ids', LinkedTo(m)' # {}
      PROVE  \E i \in LinkedTo(m)' : IsFirst(i, m)' /\ Asks(i, board[m].text)'
  <2>1. PICK t : t = board[m].text OBVIOUS
  <2>2. \A i : Asks(i, board[m].text)' <=> Asks(i, t)' BY <1>1, <2>1 DEF Asks
  <2>3. CASE LinkedTo(m) # {}
    <3>1. PICK i \in LinkedTo(m) : IsFirst(i, m) /\ Asks(i, t)
      BY <1>1, <2>1, <2>3 DEF Untangled
    <3>2. i \in 1 .. Len(msgs) /\ i <= Len(msgs) + 1 BY <1>4, <3>1
    <3>3. i \in LinkedTo(m)' BY <1>3, <3>1
    <3>4. IsFirst(i, m)' BY <1>3, <3>1, <3>2, <3>3 DEF IsFirst
    <3>5. Asks(i, t)' BY <1>4, <1>5, <3>1, <3>2
    <3>. QED BY <2>2, <3>3, <3>4, <3>5
  <2>4. CASE LinkedTo(m) = {}
    <3>1. req[r].mission = m /\ m # 0 BY <1>1, <1>3, <1>8, <2>4, ChatFacts
    <3>2. req[r].kind = "submit"
      <4>1. LinkOK(r) BY DEF BaseInv, Linked
      <4>. QED BY <1>1, <2>4, <3>1, <4>1, ChatFacts DEF LinkOK, RowOK, RequestRows
    <3>3. PlacedRow(req[r]) /\ req[r].text = t
      BY <1>1, <2>1, <3>1, <3>2, ChatFacts DEF PlacedRow, SayOK, RowOK
    <3>4. Asks(Len(msgs) + 1, t) BY <1>1, <3>3 DEF Untangled
    <3>5. PICK n : n = Len(msgs) + 1 OBVIOUS
    <3>6. Asks(n, t)' BY <1>4, <1>5, <3>4, <3>5
    <3>7. LinkedTo(m)' = {n} BY <1>3, <2>4, <3>1, <3>5
    <3>8. IsFirst(n, m)' BY <1>4, <3>5, <3>7 DEF IsFirst
    <3>. QED BY <2>2, <3>6, <3>7, <3>8
  <2>. QED BY <2>3, <2>4
<1>9. ASSUME NEW i \in 1 .. Len(msgs'), msgs'[i].kind = "answer" PROVE AnswersRight(msgs[i])'
  <2>1. CASE i \in 1 .. Len(msgs)
    <3>1. msgs'[i] = msgs[i] BY <1>3, <2>1
    <3>2. AnswersRight(msgs[i]) BY <1>1, <1>9, <2>1, <3>1 DEF Untangled
    <3>. QED BY <1>1, <3>1, <3>2 DEF AnswersRight
  <2>2. CASE i = Len(msgs) + 1
    <3>1. msgs'[i] = req[r].msg BY <1>3, <2>2
    <3>2. AnswersRight(req[r].msg) BY <1>1, <1>9, <3>1 DEF Untangled, Answers
    <3>. QED BY <1>1, <3>1, <3>2 DEF AnswersRight
  <2>. QED BY <1>3, <1>4, <2>1, <2>2
<1>10. ASSUME NEW s \in Requests, Answers(req'[s]) PROVE AnswersRight(req[s].msg)'
  <2>1. s # r /\ req'[s] = req[s] BY <1>2, <1>10, AddRow DEF Answers
  <2>2. AnswersRight(req[s].msg) BY <1>1, <1>10, <2>1 DEF Untangled
  <2>. QED BY <1>1, <2>1, <2>2 DEF AnswersRight
<1>. QED BY <1>6, <1>7, <1>8, <1>9, <1>10

(* For any number of requests, workers and missions: while submits do not  *)
(* overlap, a reply built from a mission's evidence answers the question   *)
(* that created the mission, although it is found again by its place in    *)
(* the conversation (_mission_question).                                   *)
THEOREM AnswersOwnQuestion == ChatSpec => []AnswersItsQuestion
<1>1. ChatInit => Untangled
  <2>. SUFFICES ASSUME ChatInit PROVE Untangled OBVIOUS
  <2>1. Ids = {} /\ Len(msgs) = 0 /\ \A r \in Requests : req[r] = Free
    BY DEF ChatInit, DeptInit, Ids
  <2>. QED BY <2>1 DEF Untangled, Apart, PlacedRow, Answers, Free
<1>2. BaseInv /\ Untangled /\ [ChatNext]_<<chatVars, deptVars>> => Untangled'
  <2>. SUFFICES ASSUME BaseInv, Untangled, [ChatNext]_<<chatVars, deptVars>> PROVE Untangled'
    OBVIOUS
  <2>1. ASSUME NEW r \in Requests, AddMessage(r) PROVE Untangled' BY <2>1, UntangledAdd
  <2>2. ASSUME NEW r \in Requests, Quiet(r) PROVE Untangled' BY <2>2, UntangledQuiet DEF Quiet
  <2>3. CASE BoardStep /\ UNCHANGED chatVars BY <2>3, UntangledFrame
  <2>4. CASE UNCHANGED <<chatVars, deptVars>>
    <3>1. BoardStep BY <2>4, BoardSame, ChatFacts DEF deptVars
    <3>. QED BY <2>4, <3>1, UntangledFrame
  <2>. QED BY <2>1, <2>2, <2>3, <2>4, StepCases
<1>3. Untangled => AnswersItsQuestion BY DEF Untangled, AnswersItsQuestion, AnswersRight
<1>. QED BY <1>1, <1>2, <1>3, BaseAlways, PTL DEF ChatSpec
=============================================================================
