----------------------------- MODULE CalmRelease -----------------------------
(***************************************************************************)
(* Release with a memory of whether calls have been kept apart.  The       *)
(* memory is no state of the code: it tells the histories in which effect  *)
(* and record belong together from those in which another call, or a       *)
(* fault, came between.                                                    *)
(***************************************************************************)
EXTENDS Release

VARIABLE calm   \* no two calls have overlapped and none has died

CalmInit == Init /\ calm = TRUE
CalmNext ==
    /\ Next
    /\ calm' = /\ calm /\ faults' = 0
               /\ \A c, d \in Callers : pc'[c] # "idle" /\ pc'[d] # "idle" => c = d
CalmSpec == CalmInit /\ [][CalmNext]_<<vars, calm>>

(* One call at a time and none that dies: every effect has its record,     *)
(* except a deployment by a host that does not name its releases, which    *)
(* never has one; and a change is deployed once by a host that does,       *)
(* however often the routes are called.                                    *)
CalmRecorded == calm => EffectsRecorded /\ (names => DeployedOnce)

(* One call at a time and none that dies: whatever the host answers, a     *)
(* second deploy of a change answers from the record of the first.         *)
CalmDeployedOnce == calm => DeployedOnce

(* One call at a time and none that dies: a recorded rollback has taken    *)
(* the change out of production.                                           *)
CalmRollback ==
    [][calm' => \A m \in Missions :
          rb'[m] # rb[m] => live' = rb'[m] /\ live' \notin DeployedFor(m)]_<<vars, calm>>
=============================================================================
