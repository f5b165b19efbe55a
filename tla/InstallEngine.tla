------------------------------ MODULE InstallEngine ------------------------------
(***************************************************************************)
(* The durable install: execute_install_commit (operations.rs) and its     *)
(* recovery, recover_v2_install (operation_recovery.rs).  One action per   *)
(* write that can be the last thing on disk before a crash.  Execution and *)
(* recovery run the same steps where the code repeats them; what they do   *)
(* differently is decided by Recovering.                                   *)
(***************************************************************************)
EXTENDS ProfileStore

Plan == FilesOf(PackageOf[cur])

\* The labels at which an install writes its journal.
InstallWrites ==
    {"start_publish", "publish_rejected", "publish_refused", "publish_uncertain",
     "complete_publish", "start_commit", "start_quarantine", "complete_quarantine",
     "quarantine_failed", "fail_commit", "start_cleanup", "complete_cleanup",
     "adopt_commit_step", "restate_commit", "reopen_publish", "reopen_commit"}

-----------------------------------------------------------------------------
(* Step 4: publish.                                                         *)

\* A staging directory that is gone is made anew, empty: it is not the one
\* stagingDir is about.
StartPublish ==
    /\ pc = "start_publish"
    /\ MarkStep(cur, "PublishDeployment", "running")
    /\ idRecorded' = [idRecorded EXCEPT ![cur] = TRUE]
    /\ Go("verify_staged")
    /\ UNCHANGED <<opState, plans, store, files, procs, cur, branch, env, faults>>

VerifyStaged ==
    /\ pc = "verify_staged"
    /\ Skip(IF staged[cur] = Plan THEN "publish" ELSE "publish_rejected")

\* The staged folder is not what was prepared.
PublishRejected ==
    /\ pc = "publish_rejected"
    /\ StepWrite("PublishDeployment", "failed", IF Recovering THEN "to_recovery" ELSE "to_failed")

PublishMoves ==
    /\ pc = "publish" /\ ~Exists(live)
    /\ staged' = [staged EXCEPT ![cur] = {}]
    /\ live' = staged[cur]
    /\ Go("confirm_live")
    /\ UNCHANGED <<opState, plans, journal, store, stagingDir, quar, procs, cur, branch, env, faults>>

\* The adapter refuses a destination that is already there: nothing moved.
PublishOccupied ==
    /\ pc = "publish" /\ Exists(live)
    /\ Skip(IF Recovering THEN "publish_uncertain" ELSE "publish_refused")

\* Any other failure is decided by whether a folder is live afterwards.
PublishFails ==
    /\ pc = "publish" /\ ~Exists(live)
    /\ Fault
    /\ \E m \in FailedMoves(staged[cur]) :
          /\ staged' = [staged EXCEPT ![cur] = m.src]
          /\ live' = m.dst
          /\ \/ Go(IF Recovering \/ Exists(m.dst) THEN "publish_uncertain" ELSE "publish_refused")
             \/ ~Recovering /\ Go("to_recovery")   \* the evidence is unreadable
    /\ UNCHANGED <<opState, plans, journal, store, stagingDir, quar, procs, cur, branch, env>>

PublishRefused ==
    /\ pc = "publish_refused"
    /\ StepWrite("PublishDeployment", "failed", "to_failed")

PublishUncertain ==
    /\ pc = "publish_uncertain"
    /\ StepWrite("PublishDeployment", "failed", "to_recovery")

\* Publication happened only when the folder is seen live.
ConfirmLive ==
    /\ pc = "confirm_live"
    /\ Skip(IF Exists(live) THEN "complete_publish" ELSE "to_recovery")

CompletePublish ==
    /\ pc = "complete_publish"
    /\ StepWrite("PublishDeployment", "completed",
                 IF Recovering THEN "reopen_commit" ELSE "start_commit")

-----------------------------------------------------------------------------
(* Step 5: the atomic commit, and step 7 when it is refused.                *)

StartCommit ==
    /\ pc = "start_commit"
    /\ StepWrite("CommitInstallDatabase", "running", "commit")

CommitInstall ==
    /\ pc = "commit"
    /\ CommitRow(cur, "CommitInstallDatabase", rows \cup {cur},
                 IF Recovering THEN "restate_commit" ELSE "start_cleanup")

\* Mutant: the published folder is left in place when the commit is refused.
CommitInstallRefusedOnly == pc = "commit" /\ CommitRefused(cur, "fail_commit")

CommitInstallRefused == pc = "commit" /\ CommitRefused(cur, "start_quarantine")

\* resume_v2_install_commit writes the commit step once more; staging is tidied
\* only where the folder was found live, not where it was published again.
RestateCommit ==
    /\ pc = "restate_commit"
    /\ StepWrite("CommitInstallDatabase", "completed",
                 IF branch = "republish" THEN "next" ELSE "tidy")

\* The rows to commit could not be built (build_install_commit).
CommitPayloadUnavailable ==
    /\ pc = "commit"
    /\ Fault
    /\ Go(IF Recovering THEN "to_recovery" ELSE "return_err")
    /\ UNCHANGED <<opState, plans, journal, store, files, procs, cur, branch, env>>

StartQuarantine ==
    /\ pc = "start_quarantine"
    /\ StepWrite("QuarantinePublishedDeployment", "running", "quarantine")

\* quarantine_deployment: already gone to the recovery tree is done too.
QuarantinePublished ==
    /\ pc = "quarantine"
    /\ IF Exists(live) /\ ~Exists(quar[cur])
       THEN /\ quar' = [quar EXCEPT ![cur] = live]
            /\ live' = {}
            /\ Go("complete_quarantine")
       ELSE /\ Go(IF ~Exists(live) /\ Exists(quar[cur])
                  THEN "complete_quarantine" ELSE "quarantine_failed")
            /\ UNCHANGED <<live, quar>>
    /\ UNCHANGED <<opState, plans, journal, store, staging, procs, cur, branch, env, faults>>

QuarantineFails ==
    /\ pc = "quarantine" /\ Exists(live) /\ ~Exists(quar[cur])
    /\ Fault
    /\ \E m \in FailedMoves(live) :
          /\ live' = m.src
          /\ quar' = [quar EXCEPT ![cur] = m.dst]
    /\ Go("quarantine_failed")
    /\ UNCHANGED <<opState, plans, journal, store, staging, procs, cur, branch, env>>

CompleteQuarantine ==
    /\ pc = "complete_quarantine"
    /\ StepWrite("QuarantinePublishedDeployment", "completed",
                 IF branch = "compensate" /\ steps[cur]["CommitInstallDatabase"] = "none"
                 THEN "to_failed" ELSE "fail_commit")

FailCommit ==
    /\ pc = "fail_commit"
    /\ StepWrite("CommitInstallDatabase", "failed", "to_failed")

\* compensate_v2_install records no failed step, only the state.
QuarantineFailed ==
    /\ pc = "quarantine_failed"
    /\ IF branch = "compensate"
       THEN Skip("to_recovery")
       ELSE StepWrite("QuarantinePublishedDeployment", "failed", "to_recovery")

-----------------------------------------------------------------------------
(* Step 6: staging is housekeeping once the commit is durable.              *)

StartCleanup ==
    /\ pc = "start_cleanup"
    /\ StepWrite("CleanupStaging", "running", "cleanup")

\* clean_staging_dir ignores what remove_dir_all says and returns Ok.
CleanStaging(label, next) ==
    /\ pc = label
    /\ \/ /\ staged' = [staged EXCEPT ![cur] = {}]
          /\ stagingDir' = [stagingDir EXCEPT ![cur] = FALSE]
          /\ UNCHANGED faults
       \/ /\ stagingDir[cur]
          /\ Fault
          /\ \E t \in Remains(staged[cur]) \cup {{}} : staged' = [staged EXCEPT ![cur] = t]
          /\ UNCHANGED stagingDir
    /\ Go(next)
    /\ UNCHANGED <<opState, plans, journal, store, live, quar, procs, cur, branch, env>>

Cleanup == CleanStaging("cleanup", "complete_cleanup")

CompleteCleanup ==
    /\ pc = "complete_cleanup"
    /\ StepWrite("CleanupStaging", "completed",
                 IF Recovering THEN "to_succeeded" ELSE "return_ok")

\* After a commit recovery made: the leftover staged copy, unrecorded.
Tidy == CleanStaging("tidy", "next")

-----------------------------------------------------------------------------
(* Recovery: steps and evidence decide (recover_v2_install).                *)

SamePackage(d) == PackageOf[d] = PackageOf[cur]

\* The id a deployment row has is the one its own install recorded, so the
\* recorded id singles out the operation's own row; without a recorded id
\* any row of the same package passes.
IsOwn(d) == SamePackage(d) /\ (idRecorded[cur] => d = cur)

\* Mutant: a folder like the staged one is taken for the own deployment.
OwnsByContent == live = Plan

OwnsDeployment  == \E d \in rows : IsOwn(d)
ForeignOccupies == \E d \in rows : ~IsOwn(d)

AtInstall == pc = "inspect" /\ cur \in Installs

InspectAmbiguous ==
    /\ AtInstall /\ Exists(live) /\ Exists(quar[cur])
    /\ Skip("to_recovery")

InspectOwned ==
    /\ AtInstall /\ ~(Exists(live) /\ Exists(quar[cur])) /\ OwnsDeployment
    /\ IF ~Exists(live)
       THEN Skip("to_recovery")
       ELSE /\ MarkStep(cur, "PublishDeployment", "completed")
            /\ idRecorded' = [idRecorded EXCEPT ![cur] =
                                 @ /\ steps[cur]["PublishDeployment"] = "completed"]
            /\ Go("adopt_commit_step")
            /\ UNCHANGED <<opState, plans, store, files, procs, cur, branch, env, faults>>

AdoptCommitStep ==
    /\ pc = "adopt_commit_step"
    /\ StepWrite("CommitInstallDatabase", "completed", "cleanup")

InspectRolledBack ==
    /\ AtInstall /\ ~OwnsDeployment
    /\ ~Exists(live) /\ Exists(quar[cur])
    /\ Skip("to_failed")

\* A folder that is not proven to be the staged one is left alone.
InspectOccupied ==
    /\ AtInstall /\ ~OwnsDeployment
    /\ Exists(live) /\ ~Exists(quar[cur])
    /\ ForeignOccupies \/ live # Plan
    /\ Skip("to_recovery")

\* Mutant: whatever folder is there is adopted, without comparing its files.
InspectAdoptableUnseen ==
    /\ AtInstall /\ ~OwnsDeployment
    /\ Exists(live) /\ ~Exists(quar[cur]) /\ ~ForeignOccupies
    /\ branch' = "plain"
    /\ Go("reopen_commit")
    /\ UNCHANGED <<opState, plans, journal, store, files, procs, cur, env, faults>>

\* Exactly what was staged is live: adopt it, or compensate a stale plan.
\* A publish step written now carries no deployment id.
InspectAdoptable ==
    /\ AtInstall /\ ~OwnsDeployment
    /\ live = Plan /\ ~Exists(quar[cur]) /\ ~ForeignOccupies
    /\ MarkStep(cur, "PublishDeployment", "completed")
    /\ idRecorded' = [idRecorded EXCEPT ![cur] =
                         @ /\ steps[cur]["PublishDeployment"] = "completed"]
    /\ IF rev = expRev[cur]
       THEN Go("reopen_commit") /\ branch' = "plain"
       ELSE Go("start_quarantine") /\ branch' = "compensate"
    /\ UNCHANGED <<opState, plans, store, files, procs, cur, env, faults>>

InspectUnpublished ==
    /\ AtInstall /\ ~OwnsDeployment
    /\ ~Exists(live) /\ ~Exists(quar[cur])
    /\ branch' = "republish"
    /\ Go(IF Exists(staged[cur]) THEN "reopen_publish" ELSE "to_failed")
    /\ UNCHANGED <<opState, plans, journal, store, files, procs, cur, env, faults>>

\* Back to Committing, judged by the state the operation was read in.
Reopen(label, next) ==
    /\ pc = label
    /\ IF snap[cur] = "Committing"
       THEN Skip(next)
       ELSE /\ Transition(cur, "Committing")
            /\ Go(IF Accepts(cur, "Committing") THEN next ELSE "next")
            /\ UNCHANGED <<plans, journal, store, files, procs, cur, branch, env, faults>>

ReopenPublish == Reopen("reopen_publish", "start_publish")
ReopenCommit  == Reopen("reopen_commit", "start_commit")

InstallRecovery ==
    \/ InspectAmbiguous \/ InspectOwned \/ AdoptCommitStep \/ InspectRolledBack
    \/ InspectOccupied \/ InspectAdoptable \/ InspectUnpublished
    \/ ReopenPublish \/ ReopenCommit \/ RestateCommit \/ Tidy

InstallExecution ==
    \/ StartPublish \/ VerifyStaged \/ PublishRejected \/ PublishMoves \/ PublishOccupied
    \/ PublishFails \/ PublishRefused \/ PublishUncertain \/ ConfirmLive
    \/ Unreadable("confirm_live") \/ CompletePublish
    \/ StartCommit \/ CommitPayloadUnavailable \/ CommitInstall \/ CommitInstallRefused
    \/ StartQuarantine \/ QuarantinePublished \/ QuarantineFails \/ CompleteQuarantine
    \/ FailCommit \/ QuarantineFailed
    \/ StartCleanup \/ Cleanup \/ CompleteCleanup

InstallStep == InstallExecution \/ InstallRecovery
================================================================================
