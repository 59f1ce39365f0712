---------------------------- MODULE MissionStates ----------------------------
(***************************************************************************)
(* The status column of the missions table and the transitions that        *)
(* MissionService.transition accepts.                                      *)
(***************************************************************************)
MissionStatus == {"QUEUED", "RUNNING", "WAITING_APPROVAL", "PAUSED",
                  "COMPLETED", "FAILED", "CANCELLED"}
Terminal == {"COMPLETED", "FAILED", "CANCELLED"}

AllowedTransitions(status) ==
    CASE status = "QUEUED"           -> {"RUNNING", "PAUSED", "CANCELLED", "FAILED"}
      [] status = "RUNNING"          -> {"WAITING_APPROVAL", "PAUSED", "COMPLETED",
                                         "FAILED", "CANCELLED"}
      [] status = "WAITING_APPROVAL" -> {"RUNNING", "PAUSED", "CANCELLED", "FAILED"}
      [] status = "PAUSED"           -> {"QUEUED", "RUNNING", "CANCELLED", "FAILED"}
      [] OTHER                       -> {}
=============================================================================
