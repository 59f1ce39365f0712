------------------------- MODULE MCMissionExecution -------------------------
(* Small plans for the model checker.                                      *)
EXTENDS MissionExecution, TLC

CONSTANTS s1, s2, s3, ru, rv

(* One GREEN mission with two mutating steps that share a fingerprint, so  *)
(* that one approval answers both.                                         *)
PairSteps == {s1, s2}
PairMission == [s \in PairSteps |-> 1]
PairPos == [s \in PairSteps |-> IF s = s1 THEN 1 ELSE 2]
PairFp == [s \in PairSteps |-> "fp"]
PairRisk == [m \in {1} |-> "GREEN"]
NoRules == [r \in {} |-> 0]

(* Two BLUE missions, of two mutating steps and of one, in the scope of    *)
(* one rule that may be used once.                                         *)
BlueSteps == {s1, s2, s3}
BlueMission == [s \in BlueSteps |-> IF s = s3 THEN 2 ELSE 1]
BluePos == [s \in BlueSteps |-> IF s = s2 THEN 2 ELSE 1]
BlueScope == [s \in BlueSteps |-> "scope"]
BlueRisk == [m \in {1, 2} |-> "BLUE"]
OnceRuleScope == [r \in {ru} |-> "scope"]
OnceRuleRisk == [r \in {ru} |-> "BLUE"]
OnceRuleMax == [r \in {ru} |-> 1]

(* A GREEN mission that reads and then mutates, and a younger mission of   *)
(* another risk behind it; a BLUE one is in the scope of an unlimited rule.*)
MixedSteps == {s1, s2, s3}
MixedMission == [s \in MixedSteps |-> IF s = s3 THEN 2 ELSE 1]
MixedPos == [s \in MixedSteps |-> IF s = s2 THEN 2 ELSE 1]
MixedFp == [s \in MixedSteps |-> IF s = s2 THEN "write" ELSE "read"]
BlueBehind == [m \in {1, 2} |-> IF m = 1 THEN "GREEN" ELSE "BLUE"]
ReadRuleScope == [r \in {rv} |-> "read"]
ReadRuleRisk == [r \in {rv} |-> "BLUE"]
ReadRuleMax == [r \in {rv} |-> 0]

WorkerSymmetry == Permutations(Workers)
=============================================================================
