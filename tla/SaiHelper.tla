----------------------------- MODULE SaiHelper -----------------------------
(***************************************************************************)
(* The statuses SAI answers, and what orchagent/saihelper.cpp makes of     *)
(* them: success, another attempt, or a failure that is given up.          *)
(***************************************************************************)

SaiStatuses == {"success", "exists", "not_found", "full", "failed", "in_use"}

handleSaiCreateStatus(status) ==
    CASE status = "full" -> "need_retry"
      [] status = "failed" -> "failed"
      [] OTHER -> "success"

handleSaiSetStatus(status) ==
    CASE status = "full" -> "need_retry"
      [] status = "failed" -> "failed"
      [] OTHER -> "success"

handleSaiRemoveStatus(status) ==
    CASE status = "in_use" -> "need_retry"
      [] status = "failed" -> "failed"
      [] OTHER -> "success"

\* Whether the task is over although the call did not succeed.
parseHandleSaiStatusFailure(handled) == handled = "failed"
=============================================================================
