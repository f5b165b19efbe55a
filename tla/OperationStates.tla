---------------------------- MODULE OperationStates ----------------------------
(***************************************************************************)
(* The lifecycle of one durable operation: the states its row in the       *)
(* operations table can hold and the transitions every writer of that row  *)
(* is validated against (manager-core, operation/state_machine.rs and      *)
(* operation/model.rs).                                                    *)
(***************************************************************************)

OperationState ==
    {"Draft", "Prepared", "Running", "Committing", "Succeeded", "Failed",
     "CancellationRequested", "Cancelling", "Cancelled",
     "RollingBack", "RolledBack", "RecoveryRequired"}

\* What each state may move to.  Staying where it is is always accepted.
Successors ==
    [s \in OperationState |->
        CASE s = "Draft"      -> {"Prepared", "Cancelled", "Failed"}
          [] s = "Prepared"   -> {"Running", "CancellationRequested", "Cancelled", "Failed"}
          [] s = "Running"    -> {"Committing", "CancellationRequested", "Cancelling",
                                  "Failed", "RecoveryRequired"}
          [] s = "Committing" -> {"Succeeded", "Failed", "RecoveryRequired"}
          [] s = "CancellationRequested" -> {"Cancelling", "Cancelled", "Failed"}
          [] s = "Cancelling"  -> {"Cancelled", "Failed", "RecoveryRequired"}
          [] s = "RollingBack" -> {"RolledBack", "Failed", "RecoveryRequired"}
          [] s = "RecoveryRequired" -> {"Succeeded", "Prepared", "Running", "Committing",
                                        "RollingBack", "Cancelled", "Failed"}
          [] s = "Failed"     -> {"RecoveryRequired", "Draft"}
          [] OTHER            -> {}]

IsValidTransition(from, to) == from = to \/ to \in Successors[from]

\* A row that is settled: list_unresolved_operations never returns it.
Terminal == {"Succeeded", "Failed", "Cancelled", "RolledBack"}

IsUnresolved(s) == s \in OperationState \ Terminal

\* A preview claims its profile without ever standing in another change's way.
IsPreview(s) == s = "Draft"

\* The unresolved states that do stand in the way of a conflicting change.
IsBlocking(s) == IsUnresolved(s) /\ ~IsPreview(s)

\* The states commit_operation turns into RecoveryRequired when its handler
\* came back with an error and left the operation there.
IsStillMutating(s) == s \in {"Running", "Committing", "RollingBack", "Cancelling"}
================================================================================
