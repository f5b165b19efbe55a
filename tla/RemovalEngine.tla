------------------------------ MODULE RemovalEngine ------------------------------
(***************************************************************************)
(* The durable removal: execute_removal_commit (operations.rs) and its     *)
(* recovery, recover_v2_removal with undo_failed_removal                   *)
(* (operation_recovery.rs).  branch = "undo" marks the steps that run for  *)
(* undo_failed_removal, which only ever puts the folder back.              *)
(***************************************************************************)
EXTENDS ProfileStore

RemovalWrites ==
    {"start_removal", "aside_failed", "complete_aside", "start_removal_commit",
     "start_restore", "complete_restore", "restore_failed", "fail_removal_commit",
     "removed_commit_step", "reopen_removal"}

-----------------------------------------------------------------------------
(* Step 1: move the folder into the recovery tree.                          *)

StartRemoval ==
    /\ pc = "start_removal"
    /\ StepWrite("QuarantineDeployment", "running", "set_aside")

SetAside ==
    /\ pc = "set_aside"
    /\ IF Exists(live) /\ ~Exists(quar[cur])
       THEN /\ quar' = [quar EXCEPT ![cur] = live]
            /\ live' = {}
            /\ Go("check_aside")
       ELSE /\ Go(IF ~Exists(live) /\ Exists(quar[cur]) THEN "check_aside" ELSE "aside_failed")
            /\ UNCHANGED <<live, quar>>
    /\ UNCHANGED <<opState, plans, journal, store, staging, procs, cur, branch, env, faults>>

SetAsideFails ==
    /\ pc = "set_aside" /\ Exists(live) /\ ~Exists(quar[cur])
    /\ Fault
    /\ \E m \in FailedMoves(live) :
          /\ live' = m.src
          /\ quar' = [quar EXCEPT ![cur] = m.dst]
    /\ Go("aside_failed")
    /\ UNCHANGED <<opState, plans, journal, store, staging, procs, cur, branch, env>>

AsideFailed ==
    /\ pc = "aside_failed"
    /\ StepWrite("QuarantineDeployment", "failed", "undo")

\* Done only on evidence: gone from Mods, present in the recovery tree.
CheckAside ==
    /\ pc = "check_aside"
    /\ Skip(IF ~Exists(live) /\ Exists(quar[cur]) THEN "complete_aside" ELSE "to_recovery")

\* Recovery (record_step_completed) leaves out the write when the step was
\* completed in the journal it read at the start, although starting the move
\* again has reset it since.
CompleteAside ==
    /\ pc = "complete_aside"
    /\ IF branch = "aside_again"
       THEN Skip("reopen_removal")
       ELSE StepWrite("QuarantineDeployment", "completed",
                      IF Recovering THEN "reopen_removal" ELSE "start_removal_commit")

-----------------------------------------------------------------------------
(* Step 2: the atomic commit.                                               *)

StartRemovalCommit ==
    /\ pc = "start_removal_commit"
    /\ StepWrite("CommitRemovalDatabase", "running", "commit_removal")

\* Mutant: the recovery folder is tidied with the commit.
CommitRemovalTidying ==
    /\ pc = "commit_removal" /\ MayCommit(cur)
    /\ rows' = rows \ {target[cur]} /\ rev' = rev + 1
    /\ MarkStep(cur, "CommitRemovalDatabase", "completed")
    /\ opState' = [opState EXCEPT ![cur] = "Succeeded"]
    /\ quar' = [quar EXCEPT ![cur] = {}]
    /\ Go("return_ok")
    /\ UNCHANGED <<plans, idRecorded, live, staging, procs, cur, branch, env, faults>>

CommitRemoval ==
    /\ pc = "commit_removal"
    /\ CommitRow(cur, "CommitRemovalDatabase", rows \ {target[cur]},
                 IF Recovering THEN "next" ELSE "return_ok")

CommitRemovalRefused == pc = "commit_removal" /\ CommitRefused(cur, "start_restore")

-----------------------------------------------------------------------------
(* Step 3: put the folder back, after a refused commit or a failed move.    *)

Undo ==
    /\ pc = "undo"
    /\ branch' = "undo"
    /\ Go(CASE Exists(quar[cur])                    -> "start_restore"
            [] Exists(live) /\ ~Exists(quar[cur])   -> "to_failed"
            [] OTHER                                -> "to_recovery")
    /\ UNCHANGED <<opState, plans, journal, store, files, procs, cur, env, faults>>

\* Right after a failed move, evidence that cannot be read counts as present.
UndoUnread ==
    /\ pc = "undo" /\ ~Recovering
    /\ Fault
    /\ branch' = "undo"
    /\ \/ Go("start_restore")
       \/ ~Exists(quar[cur]) /\ Go("to_failed")
    /\ UNCHANGED <<opState, plans, journal, store, files, procs, cur, env>>

StartRestore ==
    /\ pc = "start_restore"
    /\ StepWrite("RestoreQuarantinedDeployment", "running", "restore")

\* restore_quarantined_deployment.
Restore ==
    /\ pc = "restore"
    /\ IF Exists(quar[cur])
       THEN \E m \in IF Exists(live) THEN Refilled(quar[cur], live)
                                     ELSE {Moved(quar[cur], live)} :
               /\ quar' = [quar EXCEPT ![cur] = m.src]
               /\ live' = m.dst
               /\ Go("complete_restore")
               /\ IF Exists(m.src) THEN Fault ELSE UNCHANGED faults
       ELSE /\ Go(IF Exists(live) THEN "complete_restore" ELSE "restore_failed")
            /\ UNCHANGED <<live, quar, faults>>
    /\ UNCHANGED <<opState, plans, journal, store, staging, procs, cur, branch, env>>

RestoreFails ==
    /\ pc = "restore" /\ Exists(quar[cur])
    /\ Fault
    /\ \E m \in IF Exists(live) THEN PartlyRefilled(quar[cur], live)
                                ELSE FailedMoves(quar[cur]) :
          /\ quar' = [quar EXCEPT ![cur] = m.src]
          /\ live' = m.dst
    /\ Go("restore_failed")
    /\ UNCHANGED <<opState, plans, journal, store, staging, procs, cur, branch, env>>

CompleteRestore ==
    /\ pc = "complete_restore"
    /\ StepWrite("RestoreQuarantinedDeployment", "completed",
                 IF branch = "undo" THEN "to_failed" ELSE "fail_removal_commit")

RestoreFailed ==
    /\ pc = "restore_failed"
    /\ StepWrite("RestoreQuarantinedDeployment", "failed", "to_recovery")

FailRemovalCommit ==
    /\ pc = "fail_removal_commit"
    /\ StepWrite("CommitRemovalDatabase", "failed", "to_failed")

-----------------------------------------------------------------------------
(* Recovery (recover_v2_removal).                                           *)

AtRemoval == pc = "inspect" /\ cur \in Removals

\* commit_removal deletes the row, so a missing row is a committed removal.
RemovedInDatabase == target[cur] \notin rows

MoveFailed == steps[cur]["QuarantineDeployment"] = "failed"

InspectUndo ==
    /\ AtRemoval /\ ~RemovedInDatabase
    /\ MoveFailed \/ (Exists(live) /\ Exists(quar[cur]))
    /\ Skip("undo")

\* Removed in the database, and yet live: nothing is provable.
InspectInconsistent ==
    /\ AtRemoval /\ RemovedInDatabase /\ Exists(live)
    /\ Skip("to_recovery")

InspectRemoved ==
    /\ AtRemoval /\ RemovedInDatabase /\ ~Exists(live)
    /\ StepWrite("QuarantineDeployment", "completed", "removed_commit_step")

RemovedCommitStep ==
    /\ pc = "removed_commit_step"
    /\ StepWrite("CommitRemovalDatabase", "completed", "to_succeeded")

InspectMissing ==
    /\ AtRemoval /\ ~RemovedInDatabase /\ ~MoveFailed
    /\ ~Exists(live) /\ ~Exists(quar[cur])
    /\ Skip("to_recovery")

\* Mutant: a removal whose folder is already aside is left to the user.
InspectRetryLiveOnly ==
    /\ AtRemoval /\ ~RemovedInDatabase /\ ~MoveFailed
    /\ Exists(live) # Exists(quar[cur])
    /\ Skip(IF Exists(live) THEN "start_removal" ELSE "to_recovery")

InspectRetry ==
    /\ AtRemoval /\ ~RemovedInDatabase /\ ~MoveFailed
    /\ Exists(live) # Exists(quar[cur])
    /\ Go(IF Exists(live) THEN "start_removal" ELSE "check_aside")
    /\ branch' = IF Exists(live) /\ steps[cur]["QuarantineDeployment"] = "completed"
                 THEN "aside_again" ELSE "plain"
    /\ UNCHANGED <<opState, plans, journal, store, files, procs, cur, env, faults>>

ReopenRemoval ==
    /\ pc = "reopen_removal"
    /\ IF snap[cur] = "Committing"
       THEN Skip("start_removal_commit")
       ELSE /\ Transition(cur, "Committing")
            /\ Go(IF Accepts(cur, "Committing") THEN "start_removal_commit" ELSE "next")
            /\ UNCHANGED <<plans, journal, store, files, procs, cur, branch, env, faults>>

RemovalExecution ==
    \/ StartRemoval \/ SetAside \/ SetAsideFails \/ AsideFailed
    \/ CheckAside \/ Unreadable("check_aside") \/ CompleteAside
    \/ StartRemovalCommit \/ CommitRemoval \/ CommitRemovalRefused
    \/ Undo \/ UndoUnread \/ StartRestore \/ Restore \/ RestoreFails \/ CompleteRestore
    \/ RestoreFailed \/ FailRemovalCommit

RemovalRecovery ==
    \/ InspectUndo \/ InspectInconsistent \/ InspectRemoved \/ RemovedCommitStep
    \/ InspectMissing \/ InspectRetry \/ ReopenRemoval

RemovalStep == RemovalExecution \/ RemovalRecovery
================================================================================
