------------------------------ MODULE ChangeProofs ------------------------------
(***************************************************************************)
(* Proofs about ProfileChanges for every set of operations, packages and   *)
(* processes, and every bound.                                             *)
(*                                                                         *)
(* TypeOK is not inductive by itself: what an engine reads of "its"        *)
(* operation is only well-typed while the operation is of the engine's     *)
(* kind.  CurOK says so, and IInv is the inductive invariant.  What is     *)
(* proved of the mod folders follows, with an invariant of its own.        *)
(***************************************************************************)
EXTENDS ChangeProperties, TLAPS

\* A handler at label l works on the operation cur.
Fits(l) ==
    /\ l \in InstallLabels => cur \in Installs
    /\ l \in RemovalLabels => cur \in Removals
    /\ l \in SharedLabels \ {"idle", "next"} => cur \in Ops

CurOK == Fits(pc)

IInv == TypeOK /\ CurOK

-----------------------------------------------------------------------------
(* What the shared pieces of the handlers do to the type.                   *)

\* A transition, accepted or refused, leaves a state in every row.
LEMMA TransitionType ==
    ASSUME opState \in [Ops -> States], NEW o, NEW s \in States, Transition(o, s)
    PROVE  opState' \in [Ops -> States]
BY DEF Transition, Accepts

\* Writing a step leaves a journal.
LEMMA MarkStepType ==
    ASSUME steps \in [Ops -> [StepKinds -> StepStates]], NEW o,
           NEW kind, NEW state \in StepStates, MarkStep(o, kind, state)
    PROVE  steps' \in [Ops -> [StepKinds -> StepStates]]
BY DEF MarkStep

\* Only pc moves, to a label the current operation fits.
LEMMA SkipType ==
    ASSUME IInv, NEW next \in Labels, Skip(next), Fits(next)
    PROVE  IInv'
BY DEF IInv, TypeOK, CurOK, Fits, Skip, Go, plans, journal, store, files, staging, procs, env

\* A step is written and pc moves.
LEMMA StepWriteType ==
    ASSUME IInv, NEW kind, NEW state \in StepStates, NEW next \in Labels,
           StepWrite(kind, state, next), Fits(next)
    PROVE  IInv'
<1>1. steps' \in [Ops -> [StepKinds -> StepStates]]
  BY MarkStepType DEF IInv, TypeOK, StepWrite
<1>2. QED
  BY <1>1
  DEF IInv, TypeOK, CurOK, Fits, StepWrite, Go, plans, store, files, staging, procs, env

\* An evidence query fails: the operation goes to RecoveryRequired.
LEMMA UnreadableType ==
    ASSUME IInv, NEW label, Unreadable(label), cur \in Ops
    PROVE  IInv'
BY DEF IInv, TypeOK, CurOK, Fits, Unreadable, Fault, Go, Labels, SharedLabels, InstallLabels,
       InstallWrites, RemovalLabels, RemovalWrites, plans, journal, store, files, staging, procs, env

\* The atomic commit of an install or a removal.
LEMMA CommitRowType ==
    ASSUME IInv, NEW o, NEW kind, NEW newRows \in SUBSET Installs, NEW next \in Labels,
           CommitRow(o, kind, newRows, next), Fits(next)
    PROVE  IInv'
<1>1. steps' \in [Ops -> [StepKinds -> StepStates]]
  BY MarkStepType DEF IInv, TypeOK, CommitRow, StepStates
<1>2. opState' \in [Ops -> States]
  BY DEF IInv, TypeOK, CommitRow, States, OperationState
<1>3. rev' \in Nat
  BY DEF IInv, TypeOK, CommitRow
<1>4. QED
  BY <1>1, <1>2, <1>3
  DEF IInv, TypeOK, CurOK, Fits, CommitRow, Go, plans, files, staging, procs, env

\* The atomic commit refused, or failed: only pc and the count of faults move.
LEMMA CommitRefusedType ==
    ASSUME IInv, NEW o, NEW next \in Labels, CommitRefused(o, next), Fits(next)
    PROVE  IInv'
BY DEF IInv, TypeOK, CurOK, Fits, CommitRefused, Fault, Go, plans, journal, store, files,
       staging, procs, env

\* Cleaning the staging directory.
LEMMA CleanStagingType ==
    ASSUME IInv, NEW label, NEW next \in Labels, CleanStaging(label, next),
           cur \in Installs, Fits(next)
    PROVE  IInv'
<1>1. staged' \in [Installs -> SUBSET Files]
  <2>1. staged[cur] \in SUBSET Files
    BY DEF IInv, TypeOK
  <2>2. \A t \in Remains(staged[cur]) \cup {{}} : t \in SUBSET Files
    BY <2>1 DEF Remains
  <2>3. PICK t \in SUBSET Files : staged' = [staged EXCEPT ![cur] = t]
    BY <2>2 DEF CleanStaging
  <2>4. QED
    BY <2>3 DEF IInv, TypeOK
<1>2. stagingDir' \in [Installs -> BOOLEAN]
  BY DEF IInv, TypeOK, CleanStaging
<1>3. faults' \in Nat
  BY DEF IInv, TypeOK, CleanStaging, Fault
<1>4. QED
  BY <1>1, <1>2, <1>3
  DEF IInv, TypeOK, CurOK, Fits, CleanStaging, Go, plans, journal, store, procs, env

\* The way back to Committing.
LEMMA ReopenType ==
    ASSUME IInv, NEW label, NEW next \in Labels, Reopen(label, next), Fits(next)
    PROVE  IInv'
<1>1. CASE Skip(next)
  BY <1>1, SkipType
<1>2. CASE ~Skip(next)
  <2>1. opState' \in [Ops -> States]
    BY <1>2, TransitionType DEF Reopen, IInv, TypeOK, States, OperationState
  <2>2. pc' \in {next, "next"}
    BY <1>2 DEF Reopen, Go
  <2>3. QED
    BY <1>2, <2>1, <2>2
    DEF IInv, TypeOK, CurOK, Fits, Reopen, Go, Labels, SharedLabels, InstallLabels,
        InstallWrites, RemovalLabels, RemovalWrites, plans, journal, store, files, staging,
        procs, env
<1>3. QED
  BY <1>1, <1>2

-----------------------------------------------------------------------------
(* The install engine, one step per action.                                 *)

\* Every step of execute_install_commit and recover_v2_install keeps the type.
LEMMA InstallKeepsIInv ==
    ASSUME IInv, InstallStep
    PROVE  IInv'
<1> USE DEF Labels, SharedLabels, InstallLabels, InstallWrites, RemovalLabels, RemovalWrites, Ops
<1>1. CASE StartPublish
  BY <1>1
  DEF StartPublish, IInv, TypeOK, CurOK, Fits, StepStates, MarkStep, Go, plans, journal,
      store, files, staging, procs, env
<1>2. CASE VerifyStaged
  BY <1>2, SkipType DEF VerifyStaged, CurOK, Fits, IInv
<1>3. CASE PublishRejected
  BY <1>3, StepWriteType DEF PublishRejected, CurOK, Fits, StepStates, IInv
<1>4. CASE PublishMoves
  BY <1>4
  DEF PublishMoves, IInv, TypeOK, CurOK, Fits, StepStates, MarkStep, Go, plans, journal,
      store, files, staging, procs, env
<1>5. CASE PublishOccupied
  BY <1>5, SkipType DEF PublishOccupied, CurOK, Fits, IInv
<1>6. CASE PublishFails
  BY <1>6
  DEF PublishFails, IInv, TypeOK, CurOK, Fits, StepStates, MarkStep, Go, plans, journal,
      store, files, staging, procs, env, Fault, FailedMoves, Remains
<1>7. CASE PublishRefused
  BY <1>7, StepWriteType DEF PublishRefused, CurOK, Fits, StepStates, IInv
<1>8. CASE PublishUncertain
  BY <1>8, StepWriteType DEF PublishUncertain, CurOK, Fits, StepStates, IInv
<1>9. CASE ConfirmLive
  BY <1>9, SkipType DEF ConfirmLive, CurOK, Fits, IInv
<1>10. CASE CompletePublish
  BY <1>10, StepWriteType DEF CompletePublish, CurOK, Fits, StepStates, IInv
<1>11. CASE StartCommit
  BY <1>11, StepWriteType DEF StartCommit, CurOK, Fits, StepStates, IInv
<1>12. CASE CommitInstall
  <2>1. rows \cup {cur} \in SUBSET Installs
    <3>1. pc = "commit" /\ pc \in InstallLabels
      BY <1>12 DEF CommitInstall
    <3>2. cur \in Installs
      BY <3>1 DEF IInv, CurOK, Fits
    <3>3. rows \in SUBSET Installs
      BY DEF IInv, TypeOK
    <3>4. QED
      BY <3>2, <3>3
  <2>2. ASSUME NEW next \in {"restate_commit", "start_cleanup"},
               CommitRow(cur, "CommitInstallDatabase", rows \cup {cur}, next)
        PROVE  IInv'
    <3>1. next \in Labels /\ Fits(next)
      BY <1>12 DEF CommitInstall, IInv, CurOK, Fits
    <3>2. QED
      BY <2>1, <2>2, <3>1, CommitRowType
  <2>3. QED
    BY <1>12, <2>2 DEF CommitInstall
<1>13. CASE CommitInstallRefused
  BY <1>13, CommitRefusedType DEF CommitInstallRefused, IInv, CurOK, Fits
<1>14. CASE StartQuarantine
  BY <1>14, StepWriteType DEF StartQuarantine, CurOK, Fits, StepStates, IInv
<1>15. CASE QuarantinePublished
  BY <1>15
  DEF QuarantinePublished, IInv, TypeOK, CurOK, Fits, StepStates, MarkStep, Go, plans,
      journal, store, files, staging, procs, env
<1>16. CASE QuarantineFails
  BY <1>16
  DEF QuarantineFails, IInv, TypeOK, CurOK, Fits, StepStates, MarkStep, Go, plans,
      journal, store, files, staging, procs, env, Fault, FailedMoves, Remains
<1>17. CASE CompleteQuarantine
  BY <1>17, StepWriteType DEF CompleteQuarantine, CurOK, Fits, StepStates, IInv
<1>18. CASE FailCommit
  BY <1>18, StepWriteType DEF FailCommit, CurOK, Fits, StepStates, IInv
<1>19. CASE QuarantineFailed
  BY <1>19, SkipType, StepWriteType DEF QuarantineFailed, StepStates, IInv, CurOK, Fits
<1>20. CASE StartCleanup
  BY <1>20, StepWriteType DEF StartCleanup, CurOK, Fits, StepStates, IInv
<1>21. CASE Cleanup
  BY <1>21, CleanStagingType DEF Cleanup, CleanStaging, IInv, CurOK, Fits
<1>22. CASE CompleteCleanup
  BY <1>22, StepWriteType DEF CompleteCleanup, CurOK, Fits, StepStates, IInv
<1>23. CASE InspectAmbiguous
  BY <1>23, SkipType DEF InspectAmbiguous, CurOK, Fits, IInv, AtInstall
<1>24. CASE InspectOwned
  <2>1. steps' \in [Ops -> [StepKinds -> StepStates]]
    BY <1>24, MarkStepType DEF InspectOwned, Skip, journal, IInv, TypeOK, StepStates
  <2>2. idRecorded' \in [Installs -> BOOLEAN]
    BY <1>24 DEF InspectOwned, Skip, journal, IInv, TypeOK
  <2>3. QED
    BY <1>24, <2>1, <2>2
    DEF InspectOwned, Skip, Go, AtInstall, IInv, TypeOK, CurOK, Fits, Branches,
        plans, journal, store, files, staging, procs, env
<1>25. CASE AdoptCommitStep
  BY <1>25, StepWriteType DEF AdoptCommitStep, CurOK, Fits, StepStates, IInv
<1>26. CASE InspectRolledBack
  BY <1>26, SkipType DEF InspectRolledBack, CurOK, Fits, IInv, AtInstall
<1>27. CASE InspectOccupied
  BY <1>27, SkipType DEF InspectOccupied, CurOK, Fits, IInv, AtInstall
<1>28. CASE InspectAdoptable
  <2>1. steps' \in [Ops -> [StepKinds -> StepStates]]
    BY <1>28, MarkStepType DEF InspectAdoptable, Skip, journal, IInv, TypeOK, StepStates
  <2>2. idRecorded' \in [Installs -> BOOLEAN]
    BY <1>28 DEF InspectAdoptable, Skip, journal, IInv, TypeOK
  <2>3. QED
    BY <1>28, <2>1, <2>2
    DEF InspectAdoptable, Skip, Go, AtInstall, IInv, TypeOK, CurOK, Fits, Branches,
        plans, journal, store, files, staging, procs, env
<1>29. CASE InspectUnpublished
  BY <1>29
  DEF InspectUnpublished, IInv, TypeOK, CurOK, Fits, MarkStep, Go, AtInstall, Branches,
      plans, journal, store, files, staging,
     procs, env
<1>30. CASE ReopenPublish
  BY <1>30, ReopenType DEF ReopenPublish, Reopen, IInv, CurOK, Fits
<1>31. CASE ReopenCommit
  BY <1>31, ReopenType DEF ReopenCommit, Reopen, IInv, CurOK, Fits
<1>32. CASE RestateCommit
  BY <1>32, StepWriteType DEF RestateCommit, CurOK, Fits, StepStates, IInv
<1>33. CASE Tidy
  BY <1>33, CleanStagingType DEF Tidy, CleanStaging, IInv, CurOK, Fits
<1>34. CASE CommitPayloadUnavailable
  BY <1>34
  DEF CommitPayloadUnavailable, Fault, Go, IInv, TypeOK, CurOK, Fits, plans, journal, store, files,
      staging, procs, env
<1>35. CASE Unreadable("confirm_live")
  BY <1>35, UnreadableType DEF Unreadable, IInv, CurOK, Fits
<1>36. QED
  BY <1>1, <1>2, <1>3, <1>4, <1>5, <1>6, <1>7, <1>8, <1>9, <1>10, <1>11, <1>12, <1>13, <1>14,
     <1>15, <1>16, <1>17, <1>18, <1>19, <1>20, <1>21, <1>22, <1>23, <1>24, <1>25, <1>26, <1>27,
     <1>28, <1>29, <1>30, <1>31, <1>32, <1>33, <1>34, <1>35
  DEF InstallStep, InstallExecution, InstallRecovery

-----------------------------------------------------------------------------
(* The removal engine, one step per action.                               *)

\* Every step of execute_removal_commit and recover_v2_removal keeps the type.
LEMMA RemovalKeepsIInv ==
    ASSUME IInv, RemovalStep
    PROVE  IInv'
<1> USE DEF Labels, SharedLabels, InstallLabels, InstallWrites, RemovalLabels, RemovalWrites, Ops
<1>1. CASE StartRemoval
  BY <1>1, StepWriteType DEF StartRemoval, CurOK, Fits, StepStates, IInv
<1>2. CASE SetAside
  BY <1>2
  DEF SetAside, IInv, TypeOK, CurOK, Fits, StepStates, MarkStep, Go, plans, journal,
      store, files, staging, procs, env
<1>3. CASE SetAsideFails
  BY <1>3
  DEF SetAsideFails, IInv, TypeOK, CurOK, Fits, StepStates, MarkStep, Go, plans, journal,
      store, files, staging, procs, env, Fault, FailedMoves, Remains
<1>4. CASE AsideFailed
  BY <1>4, StepWriteType DEF AsideFailed, CurOK, Fits, StepStates, IInv
<1>5. CASE CheckAside
  BY <1>5, SkipType DEF CheckAside, CurOK, Fits, IInv
<1>6. CASE CompleteAside
  BY <1>6, StepWriteType, SkipType DEF CompleteAside, CurOK, Fits, StepStates, IInv
<1>7. CASE StartRemovalCommit
  BY <1>7, StepWriteType DEF StartRemovalCommit, CurOK, Fits, StepStates, IInv
<1>8. CASE CommitRemoval
  BY <1>8, CommitRowType DEF CommitRemoval, IInv, TypeOK, CurOK, Fits
<1>9. CASE CommitRemovalRefused
  BY <1>9, CommitRefusedType DEF CommitRemovalRefused, IInv, CurOK, Fits
<1>10. CASE Undo \/ UndoUnread
  BY <1>10
  DEF Undo, UndoUnread, Fault, IInv, TypeOK, CurOK, Fits, Go, Branches, plans, journal,
      store, files, staging,
     procs, env
<1>11. CASE StartRestore
  BY <1>11, StepWriteType DEF StartRestore, CurOK, Fits, StepStates, IInv
<1>12. CASE Restore
  <2>1. quar[cur] \in SUBSET Files /\ live \in SUBSET Files
    BY <1>12 DEF Restore, IInv, TypeOK, CurOK, Fits
  <2>2. \A m \in Refilled(quar[cur], live) \cup {Moved(quar[cur], live)} :
           m.src \in SUBSET Files /\ m.dst \in SUBSET Files
    BY <2>1 DEF Refilled, Remains, Moved
  <2>3. live' \in SUBSET Files /\ quar' \in [Ops -> SUBSET Files]
    <3>1. CASE Exists(quar[cur])
      <4>1. PICK m \in Refilled(quar[cur], live) \cup {Moved(quar[cur], live)} :
               quar' = [quar EXCEPT ![cur] = m.src] /\ live' = m.dst
        BY <1>12, <3>1 DEF Restore
      <4>2. QED
        BY <4>1, <2>2 DEF IInv, TypeOK
    <3>2. CASE ~Exists(quar[cur])
      BY <1>12, <3>2 DEF Restore, IInv, TypeOK
    <3>3. QED
      BY <3>1, <3>2
  <2>4. faults' \in Nat
    BY <1>12 DEF Restore, Fault, IInv, TypeOK
  <2>5. pc' \in {"complete_restore", "restore_failed"}
    BY <1>12 DEF Restore, Go
  <2>6. QED
    BY <1>12, <2>3, <2>4, <2>5
    DEF Restore, IInv, TypeOK, CurOK, Fits, plans, journal, store, staging, procs, env
<1>13. CASE RestoreFails
  BY <1>13
  DEF RestoreFails, PartlyRefilled, FailedMoves, Remains, Fault, IInv, TypeOK, CurOK,
      Fits, Go, Branches, plans, journal, store, files, staging,
     procs, env
<1>14. CASE CompleteRestore
  BY <1>14, StepWriteType DEF CompleteRestore, CurOK, Fits, StepStates, IInv
<1>15. CASE RestoreFailed
  BY <1>15, StepWriteType DEF RestoreFailed, CurOK, Fits, StepStates, IInv
<1>16. CASE FailRemovalCommit
  BY <1>16, StepWriteType DEF FailRemovalCommit, CurOK, Fits, StepStates, IInv
<1>17. CASE InspectUndo
  BY <1>17, SkipType DEF InspectUndo, CurOK, Fits, IInv, AtRemoval
<1>18. CASE InspectInconsistent
  BY <1>18, SkipType DEF InspectInconsistent, CurOK, Fits, IInv, AtRemoval
<1>19. CASE InspectRemoved
  BY <1>19, StepWriteType DEF InspectRemoved, CurOK, Fits, StepStates, IInv, AtRemoval
<1>20. CASE RemovedCommitStep
  BY <1>20, StepWriteType DEF RemovedCommitStep, CurOK, Fits, StepStates, IInv
<1>21. CASE InspectMissing
  BY <1>21, SkipType DEF InspectMissing, CurOK, Fits, IInv, AtRemoval
<1>22. CASE InspectRetry
  BY <1>22
  DEF InspectRetry, Go, AtRemoval, Branches, IInv, TypeOK, CurOK, Fits, plans, journal,
      store, files, staging, procs, env
<1>23. CASE ReopenRemoval
  <2>1. opState' \in [Ops -> States]
    BY <1>23, TransitionType DEF ReopenRemoval, Skip, IInv, TypeOK, States, OperationState
  <2>2. pc' \in {"start_removal_commit", "next"}
    BY <1>23 DEF ReopenRemoval, Skip, Go
  <2>3. QED
    BY <1>23, <2>1, <2>2
    DEF ReopenRemoval, Skip, IInv, TypeOK, CurOK, Fits, plans, journal, store, files, staging,
        procs, env
<1>24. CASE Unreadable("check_aside")
  BY <1>24, UnreadableType DEF Unreadable, IInv, CurOK, Fits
<1>25. QED
  BY <1>1, <1>2, <1>3, <1>4, <1>5, <1>6, <1>7, <1>8, <1>9, <1>10, <1>11, <1>12, <1>13, <1>14,
     <1>15, <1>16, <1>17, <1>18, <1>19, <1>20, <1>21, <1>22, <1>23, <1>24
  DEF RemovalStep, RemovalExecution, RemovalRecovery

-----------------------------------------------------------------------------
(* The program around the engines.                                         *)

\* How a handler ends.
LEMMA EndAsType ==
    ASSUME IInv, NEW s \in States, EndAs(s), cur \in Ops
    PROVE  IInv'
<1>1. opState' \in [Ops -> States]
  BY TransitionType DEF EndAs, IInv, TypeOK
<1>2. pc' \in {"next", "return_err"}
  BY DEF EndAs, Go
<1>3. QED
  BY <1>1, <1>2
  DEF EndAs, IInv, TypeOK, CurOK, Fits, Labels, SharedLabels, InstallLabels, InstallWrites,
      RemovalLabels, RemovalWrites, plans, journal, store, files, staging, procs, env

\* One of the three writes that lead to the engine.
LEMMA AdvanceType ==
    ASSUME IInv, NEW label, NEW s \in States, NEW next \in Labels, Advance(label, s, next),
           cur \in Ops, Fits(next)
    PROVE  IInv'
<1>1. opState' \in [Ops -> States]
  BY TransitionType DEF Advance, IInv, TypeOK
<1>2. pc' \in {next, "return_early"}
  BY DEF Advance, Go
<1>3. QED
  BY <1>1, <1>2
  DEF Advance, IInv, TypeOK, CurOK, Fits, Labels, SharedLabels, InstallLabels, InstallWrites,
      RemovalLabels, RemovalWrites, plans, journal, store, files, staging, procs, env

\* Emptying staging directories.
LEMMA UnstageType ==
    ASSUME IInv, NEW os, Unstage(os)
    PROVE  staged' \in [Installs -> SUBSET Files] /\ stagingDir' \in [Installs -> BOOLEAN]
<1>1. staged' \in [Installs -> SUBSET Files]
  BY DEF Unstage, IInv, TypeOK
<1>2. stagingDir' \in [Installs -> BOOLEAN]
  BY DEF Unstage
<1>3. QED
  BY <1>1, <1>2

\* release_stale_previews keeps the type of what it writes.
LEMMA ReleaseStaleType ==
    ASSUME IInv, NEW r, ReleaseStale(r)
    PROVE  /\ opState' \in [Ops -> States]
           /\ staged' \in [Installs -> SUBSET Files]
           /\ stagingDir' \in [Installs -> BOOLEAN]
<1>1. opState' \in [Ops -> States]
  BY DEF ReleaseStale, IInv, TypeOK, States, OperationState
<1>2. QED
  BY <1>1, UnstageType DEF ReleaseStale

\* Leaving the handler: the lock is free and no handler runs.
LEMMA ReleaseType ==
    ASSUME IInv, Release
    PROVE  /\ who' \in Processes \cup {NoProc} /\ cur' \in Ops \cup {NoOp}
           /\ pc' = "idle" /\ branch' \in Branches
           /\ gate' \in [Processes -> Ops \cup {NoOp, OtherChange}]
<1>1. gate' \in [Processes -> Ops \cup {NoOp, OtherChange}]
  BY DEF Release, IInv, TypeOK
<1>2. QED
  BY <1>1 DEF Release, Branches

\* Every step of a running handler keeps the type.
LEMMA HandlerKeepsIInv ==
    ASSUME IInv, Handler
    PROVE  IInv'
<1> USE DEF Labels, SharedLabels, InstallLabels, InstallWrites, RemovalLabels, RemovalWrites, Ops
<1>1. CASE Prepare
  BY <1>1, AdvanceType DEF Prepare, Advance, IInv, CurOK, Fits, States, OperationState
<1>2. CASE Run
  BY <1>2, AdvanceType DEF Run, Advance, IInv, CurOK, Fits, States, OperationState
<1>3. CASE BeginCommit
  <2>1. CASE cur \in Installs
    BY <1>3, <2>1, AdvanceType
    DEF BeginCommit, Advance, IInv, CurOK, Fits, States, OperationState
  <2>2. CASE cur \notin Installs
    BY <1>3, <2>2, AdvanceType
    DEF BeginCommit, Advance, IInv, CurOK, Fits, States, OperationState
  <2>3. QED
    BY <2>1, <2>2
<1>4. CASE InstallStep
  BY <1>4, InstallKeepsIInv
<1>5. CASE RemovalStep
  BY <1>5, RemovalKeepsIInv
<1>6. CASE Unreadable("inspect")
  BY <1>6, UnreadableType DEF Unreadable, IInv, CurOK, Fits
<1>7. CASE pc = "undo" /\ Recovering /\ Unreadable("undo")
  BY <1>7, UnreadableType DEF IInv, CurOK, Fits
<1>8. CASE ToFailed
  BY <1>8, EndAsType DEF ToFailed, IInv, CurOK, Fits, States, OperationState
<1>9. CASE ToSucceeded
  BY <1>9, EndAsType DEF ToSucceeded, IInv, CurOK, Fits, States, OperationState
<1>10. CASE ToRecovery
  BY <1>10, EndAsType DEF ToRecovery, IInv, CurOK, Fits, States, OperationState
<1>11. CASE ReturnOk
  BY <1>11, ReleaseStaleType, ReleaseType
  DEF ReturnOk, IInv, TypeOK, CurOK, Fits, plans, journal, store, env
<1>12. CASE ReturnEarly \/ ReturnErr
  <2>1. opState' \in [Ops -> States]
    BY <1>12 DEF ReturnEarly, ReturnErr, IInv, TypeOK, States, OperationState
  <2>2. QED
    BY <1>12, <2>1, ReleaseType
    DEF ReturnEarly, ReturnErr, IInv, TypeOK, CurOK, Fits, plans, journal, store, files, staging, env
<1>13. CASE ReturnErrUnrecorded
  BY <1>13, ReleaseType
  DEF ReturnErrUnrecorded, Fault, IInv, TypeOK, CurOK, Fits, plans, journal, store, files,
      staging, env
<1>14. CASE StoreFails
  <2>1. cur \in Ops
    BY <1>14 DEF StoreFails, Advances, IInv, CurOK, Fits
  <2>2. QED
    BY <1>14, <2>1
    DEF StoreFails, Fault, Go, IInv, TypeOK, CurOK, Fits, plans, journal, store, files,
        staging, procs, env
<1>15. CASE NextListed
  BY <1>15
  DEF NextListed, Listed, IInv, TypeOK, CurOK, Fits, Branches, States, OperationState,
      plans, journal, store, files, staging, env
<1>16. CASE Reconcile
  <2>1. cur \in Ops
    BY <1>16 DEF Reconcile, IInv, CurOK, Fits
  <2>2. CASE snap[cur] \in {"Draft", "Prepared"}
    <3>1. opState' \in [Ops -> States]
      BY <1>16, <2>2, TransitionType DEF Reconcile, IInv, TypeOK, States, OperationState
    <3>2. QED
      BY <1>16, <2>2, <3>1, UnstageType
      DEF Reconcile, Go, IInv, TypeOK, CurOK, Fits, plans, journal, store, procs, env
  <2>3. CASE snap[cur] \notin {"Draft", "Prepared"}
    BY <1>16, <2>1, <2>3
    DEF Reconcile, Go, IInv, TypeOK, CurOK, Fits, plans, journal, store, staging, procs, env
  <2>4. QED
    BY <2>2, <2>3
<1>17. CASE ReconcileFails
  BY <1>17, UnstageType
  DEF ReconcileFails, Fault, Go, IInv, TypeOK, CurOK, Fits, plans, journal, store, procs, env
<1>18. QED
  BY <1>1, <1>2, <1>3, <1>4, <1>5, <1>6, <1>7, <1>8, <1>9, <1>10, <1>11, <1>12, <1>13,
     <1>14, <1>15, <1>16, <1>17 DEF Handler

\* Every step a user or a starting program asks for keeps the type.
LEMMA AskedKeepsIInv ==
    ASSUME IInv, Asked
    PROVE  IInv'
<1> USE DEF IInv, TypeOK, CurOK, Fits, plans, journal, store, files, staging, procs, env
<1>1. ASSUME NEW i \in Installs, PreviewInstall(i) PROVE IInv'
  <2>1. FilesOf(PackageOf[i]) \in SUBSET Files
    BY OpsAssumption DEF FilesOf, Files
  <2>2. staged' \in [Installs -> SUBSET Files] /\ stagingDir' \in [Installs -> BOOLEAN]
    BY <1>1, <2>1 DEF PreviewInstall
  <2>3. opState' \in [Ops -> States] /\ expRev' \in [Ops -> Nat]
    BY <1>1 DEF PreviewInstall, States, OperationState
  <2>4. installable' \in [Installs -> BOOLEAN]
    BY <1>1 DEF PreviewInstall
  <2>5. QED
    BY <1>1, <2>2, <2>3, <2>4 DEF PreviewInstall
<1>2. ASSUME NEW r \in Removals, PreviewRemoval(r) PROVE IInv'
  <2>1. opState' \in [Ops -> States] /\ expRev' \in [Ops -> Nat]
    BY <1>2 DEF PreviewRemoval, States, OperationState
  <2>2. target' \in [Removals -> Installs \cup {NoOp}]
    BY <1>2 DEF PreviewRemoval
  <2>3. QED
    BY <1>2, <2>1, <2>2 DEF PreviewRemoval
<1>3. ASSUME NEW o \in Ops, CancelPreview(o) PROVE IInv'
  <2>1. opState' \in [Ops -> States]
    BY <1>3, TransitionType DEF CancelPreview, States, OperationState
  <2>2. QED
    BY <1>3, <2>1, UnstageType DEF CancelPreview
<1>4. ASSUME NEW o \in Ops, PassGate(o) PROVE IInv'
  BY <1>4 DEF PassGate
<1>5. ASSUME NEW o \in Ops, MarkHandled(o) PROVE IInv'
  <2>1. opState' \in [Ops -> States]
    BY <1>5, TransitionType DEF MarkHandled, States, OperationState
  <2>2. QED
    BY <1>5, <2>1 DEF MarkHandled
<1>6. ASSUME NEW p \in Processes, PassGateOther(p) PROVE IInv'
  BY <1>6 DEF PassGateOther
<1>7. ASSUME NEW p \in Processes, LockRefused(p) PROVE IInv'
  BY <1>7 DEF LockRefused
<1>8. ASSUME NEW p \in Processes, Enter(p) PROVE IInv'
  <2>1. /\ opState' \in [Ops -> States]
        /\ staged' \in [Installs -> SUBSET Files]
        /\ stagingDir' \in [Installs -> BOOLEAN]
    BY <1>8, ReleaseStaleType DEF Enter
  <2>2. gate' \in [Processes -> Ops \cup {NoOp, OtherChange}]
    BY <1>8 DEF Enter
  <2>3. \/ cur' \in Ops /\ pc' = "prepare" /\ who' = p /\ branch' = "plain"
        \/ UNCHANGED <<who, cur, pc, branch>>
    BY <1>8 DEF Enter
  <2>4. QED
    BY <1>8, <2>1, <2>2, <2>3
    DEF Enter, Branches, Labels, SharedLabels, InstallLabels, InstallWrites, RemovalLabels,
        RemovalWrites
<1>9. ASSUME NEW p \in Processes, ApplyOther(p) PROVE IInv'
  <2>1. gate' \in [Processes -> Ops \cup {NoOp, OtherChange}] /\ rev' \in Nat
    BY <1>9 DEF ApplyOther
  <2>2. QED
    BY <1>9, <2>1, ReleaseStaleType DEF ApplyOther
<1>10. ASSUME NEW os, Snapshot(os) PROVE snap' \in [Ops -> States]
  BY <1>10 DEF Snapshot, States
<1>11. CASE Launch
  BY <1>10, <1>11 DEF Launch
<1>12. CASE RetryRecovery
  BY <1>10, <1>12 DEF RetryRecovery
<1>13. CASE EnterRecovery
  BY <1>13, ProcessAssumption
  DEF EnterRecovery, Go, Labels, SharedLabels, InstallLabels, InstallWrites, RemovalLabels,
      RemovalWrites
<1>14. CASE RecoveryDeferred
  BY <1>10, <1>14 DEF RecoveryDeferred
<1>15. QED
  BY <1>1, <1>2, <1>3, <1>4, <1>5, <1>6, <1>7, <1>8, <1>9, <1>11, <1>12, <1>13, <1>14
  DEF Asked

\* A process killed in the middle of a move leaves folders made of what was there.
LEMMA TornFilesType ==
    ASSUME IInv, TornFiles
    PROVE  /\ live' \in SUBSET Files
           /\ staged' \in [Installs -> SUBSET Files]
           /\ stagingDir' \in [Installs -> BOOLEAN]
           /\ quar' \in [Ops -> SUBSET Files]
<1> USE DEF IInv, TypeOK, CurOK, Fits, files, staging
<1>1. \A s, d \in SUBSET Files :
         \A m \in TornMoves(s, d) \cup Refilled(s, d) \cup PartlyRefilled(s, d) :
            m.src \in SUBSET Files /\ m.dst \in SUBSET Files
  BY DEF TornMoves, Unmoved, Refilled, PartlyRefilled, Remains
<1>2. CASE UNCHANGED files
  BY <1>2
<1>3. CASE pc = "publish" /\ UNCHANGED <<stagingDir, quar>>
           /\ \E m \in TornMoves(staged[cur], live) :
                 staged' = [staged EXCEPT ![cur] = m.src] /\ live' = m.dst
  <2>1. staged[cur] \in SUBSET Files /\ live \in SUBSET Files
    BY <1>3 DEF InstallLabels
  <2>2. QED
    BY <1>1, <1>3, <2>1
<1>4. CASE pc \in {"quarantine", "set_aside"} /\ UNCHANGED staging
           /\ \E m \in TornMoves(live, quar[cur]) :
                 live' = m.src /\ quar' = [quar EXCEPT ![cur] = m.dst]
  <2>1. quar[cur] \in SUBSET Files /\ live \in SUBSET Files
    BY <1>4 DEF InstallLabels, RemovalLabels, Ops
  <2>2. QED
    BY <1>1, <1>4, <2>1
<1>5. CASE pc = "restore" /\ UNCHANGED staging
           /\ \E m \in TornMoves(quar[cur], live) \cup Refilled(quar[cur], live)
                        \cup PartlyRefilled(quar[cur], live) :
                 quar' = [quar EXCEPT ![cur] = m.src] /\ live' = m.dst
  <2>1. quar[cur] \in SUBSET Files /\ live \in SUBSET Files
    BY <1>5 DEF RemovalLabels, Ops
  <2>2. QED
    BY <1>1, <1>5, <2>1
<1>6. QED
  BY <1>2, <1>3, <1>4, <1>5 DEF TornFiles

\* A kill and the user's own changes keep the type.
LEMMA EnvironmentKeepsIInv ==
    ASSUME IInv, Environment
    PROVE  IInv'
<1> USE DEF IInv, TypeOK, CurOK, Fits, plans, journal, store, files, staging, procs, env
<1>1. CASE Tamper
  BY <1>1 DEF Tamper, Files
<1>2. ASSUME NEW p \in Processes, Crash(p) PROVE IInv'
  <2>1. /\ live' \in SUBSET Files
        /\ staged' \in [Installs -> SUBSET Files]
        /\ stagingDir' \in [Installs -> BOOLEAN]
        /\ quar' \in [Ops -> SUBSET Files]
    BY <1>2, TornFilesType DEF Crash
  <2>2. /\ gate' \in [Processes -> Ops \cup {NoOp, OtherChange}]
        /\ crashes' \in Nat
    BY <1>2 DEF Crash
  <2>3. snap' \in [Ops -> States] /\ window' \in {"closed", "starting", "open"}
    BY <1>2 DEF Crash, States
  <2>4. \/ who' = NoProc /\ cur' = NoOp /\ pc' = "idle" /\ branch' = "plain"
        \/ UNCHANGED <<who, cur, pc, branch>>
    BY <1>2 DEF Crash
  <2>5. QED
    BY <1>2, <2>1, <2>2, <2>3, <2>4
    DEF Crash, Branches, Labels, SharedLabels, InstallLabels, InstallWrites, RemovalLabels,
        RemovalWrites
<1>3. QED
  BY <1>1, <1>2 DEF Environment

-----------------------------------------------------------------------------
\* An empty profile is well-typed.
LEMMA InitIInv == Init => IInv
<1> SUFFICES ASSUME Init PROVE IInv
  OBVIOUS
<1>1. steps \in [Ops -> [StepKinds -> StepStates]]
  BY DEF Init, StepStates
<1>2. opState \in [Ops -> States] /\ snap \in [Ops -> States]
  BY DEF Init, States
<1>3. pc \in Labels /\ branch \in Branches /\ CurOK
  BY DEF Init, CurOK, Fits, Branches, Labels, SharedLabels, InstallLabels, InstallWrites,
         RemovalLabels, RemovalWrites
<1>4. staged \in [Installs -> SUBSET Files] /\ quar \in [Ops -> SUBSET Files]
  BY DEF Init
<1>5. QED
  BY <1>1, <1>2, <1>3, <1>4 DEF Init, IInv, TypeOK

\* The invariant is inductive.
LEMMA NextKeepsIInv == IInv /\ [Next]_vars => IInv'
<1> SUFFICES ASSUME IInv, [Next]_vars PROVE IInv'
  OBVIOUS
<1>1. CASE Handler
  BY <1>1, HandlerKeepsIInv
<1>2. CASE Asked
  BY <1>2, AskedKeepsIInv
<1>3. CASE Environment
  BY <1>3, EnvironmentKeepsIInv
<1>4. CASE UNCHANGED vars
  BY <1>4
  DEF IInv, TypeOK, CurOK, Fits, vars, plans, journal, store, files, staging, procs, env
<1>5. QED
  BY <1>1, <1>2, <1>3, <1>4 DEF Next

\* The invariant holds throughout.
LEMMA Invariance == Spec => []IInv
BY InitIInv, NextKeepsIInv, PTL DEF Spec

\* The state is well-typed in every behaviour: whatever crashes, fails or is
\* reordered, every row, folder and control variable of ProfileChanges has a
\* legal value.
THEOREM TypeCorrect == Spec => []TypeOK
BY Invariance, PTL DEF IInv

-----------------------------------------------------------------------------
(* What a step does to the rows of the operations and of the store.   *)

\* The ways a handler's step can change a state or a deployment row.
Unmoving  == UNCHANGED <<opState, rows>>
Reopening == Transition(cur, "Committing") /\ UNCHANGED rows
Committed ==
    /\ opState[cur] = "Committing"
    /\ opState' = [opState EXCEPT ![cur] = "Succeeded"]
    /\ rows' \subseteq rows \cup {cur}

\* The install engine changes a state or a row in one of the three ways.
LEMMA InstallStates ==
    ASSUME InstallStep
    PROVE  Unmoving \/ Reopening \/ Committed
<1>1. CASE CommitInstall
  BY <1>1 DEF CommitInstall, CommitRow, MayCommit, Committed
<1>2. CASE ReopenPublish \/ ReopenCommit
  BY <1>2 DEF ReopenPublish, ReopenCommit, Reopen, Skip, store, Unmoving, Reopening
<1>3. CASE ~(CommitInstall \/ ReopenPublish \/ ReopenCommit)
  BY <1>3
  DEF InstallStep, InstallExecution, InstallRecovery, Unmoving, Skip, StepWrite, store,
      CommitRefused, CleanStaging, Unreadable,
      StartPublish, VerifyStaged, PublishRejected, PublishMoves,
      PublishOccupied, PublishFails, PublishRefused, PublishUncertain,
      ConfirmLive, CompletePublish, StartCommit, CommitInstallRefused,
      StartQuarantine, QuarantinePublished, QuarantineFails, CompleteQuarantine,
      FailCommit, QuarantineFailed, StartCleanup, Cleanup, CompleteCleanup,
      InspectAmbiguous, InspectOwned, AdoptCommitStep, InspectRolledBack,
      InspectOccupied, InspectAdoptable, InspectUnpublished, RestateCommit,
      Tidy, CommitPayloadUnavailable
<1>4. QED
  BY <1>1, <1>2, <1>3

\* So does the removal engine.
LEMMA RemovalStates ==
    ASSUME RemovalStep
    PROVE  Unmoving \/ Reopening \/ Committed
<1>1. CASE CommitRemoval
  BY <1>1 DEF CommitRemoval, CommitRow, MayCommit, Committed
<1>2. CASE ReopenRemoval
  BY <1>2 DEF ReopenRemoval, Skip, store, Unmoving, Reopening
<1>3. CASE ~(CommitRemoval \/ ReopenRemoval)
  BY <1>3
  DEF RemovalStep, RemovalExecution, RemovalRecovery, Unmoving, Skip, StepWrite, store,
      CommitRefused, Unreadable,
      StartRemoval, SetAside, SetAsideFails, AsideFailed, CheckAside,
      CompleteAside, StartRemovalCommit, CommitRemovalRefused, Undo, UndoUnread,
      StartRestore, Restore, RestoreFails, CompleteRestore, RestoreFailed,
      FailRemovalCommit, InspectUndo, InspectInconsistent, InspectRemoved,
      RemovedCommitStep, InspectMissing, InspectRetry
<1>4. QED
  BY <1>1, <1>2, <1>3

-----------------------------------------------------------------------------
(* A settled operation stays settled.                                       *)

Over == {"Succeeded", "Cancelled"}

\* The state machine accepts nothing after Succeeded and Cancelled.
LEMMA OverHasNoSuccessor ==
    \A s \in Over : Successors[s] = {}
BY DEF Over, Successors, OperationState

\* A transition, even of the operation itself, leaves what is over alone.
LEMMA TransitionLeavesOver ==
    ASSUME IInv, NEW o, NEW s, Transition(o, s), NEW q \in Ops, opState[q] \in Over
    PROVE  opState'[q] = opState[q]
BY OverHasNoSuccessor DEF IInv, TypeOK, Transition, Accepts, IsValidTransition

\* release_stale_previews leaves what is over alone.
LEMMA ReleaseLeavesOver ==
    ASSUME IInv, NEW r, ReleaseStale(r), NEW q \in Ops, opState[q] \in Over
    PROVE  opState'[q] = opState[q]
BY DEF ReleaseStale, Stale, Over, IInv, TypeOK

\* Every step leaves what is over alone.
LEMMA NextLeavesOver ==
    ASSUME IInv, [Next]_vars, NEW q \in Ops, opState[q] \in Over
    PROVE  opState'[q] = opState[q]
<1>1. CASE Committed
  BY <1>1 DEF Committed, Over, IInv, TypeOK
<1>2. CASE Reopening \/ Unmoving
  BY <1>2, TransitionLeavesOver DEF Reopening, Unmoving
<1>3. CASE InstallStep \/ RemovalStep
  BY <1>1, <1>2, <1>3, InstallStates, RemovalStates
<1>4. CASE Prepare \/ Run \/ BeginCommit
  BY <1>4, TransitionLeavesOver DEF Prepare, Run, BeginCommit, Advance
<1>5. CASE ToFailed \/ ToSucceeded \/ ToRecovery
  BY <1>5, TransitionLeavesOver DEF ToFailed, ToSucceeded, ToRecovery, EndAs
<1>6. CASE ReturnOk
  BY <1>6, ReleaseLeavesOver DEF ReturnOk
<1>7. CASE ReturnEarly \/ ReturnErr
  BY <1>7 DEF ReturnEarly, ReturnErr, IsStillMutating, Over, IInv, TypeOK
<1>8. CASE ReturnErrUnrecorded \/ StoreFails \/ NextListed \/ ReconcileFails
           \/ Unreadable("inspect") \/ Unreadable("undo")
  BY <1>8 DEF ReturnErrUnrecorded, StoreFails, NextListed, ReconcileFails, Unreadable
<1>9. CASE Reconcile
  BY <1>9, TransitionLeavesOver DEF Reconcile
<1>10. ASSUME NEW i \in Installs, PreviewInstall(i) PROVE opState'[q] = opState[q]
  BY <1>10 DEF PreviewInstall, Over, IInv, TypeOK
<1>11. ASSUME NEW r \in Removals, PreviewRemoval(r) PROVE opState'[q] = opState[q]
  BY <1>11 DEF PreviewRemoval, Over, IInv, TypeOK
<1>12. ASSUME NEW o \in Ops, CancelPreview(o) \/ PassGate(o) \/ MarkHandled(o)
       PROVE  opState'[q] = opState[q]
  BY <1>12, TransitionLeavesOver DEF CancelPreview, PassGate, MarkHandled
<1>13. ASSUME NEW p \in Processes, PassGateOther(p) \/ LockRefused(p) \/ Enter(p) \/ ApplyOther(p)
       PROVE  opState'[q] = opState[q]
  BY <1>13, ReleaseLeavesOver DEF PassGateOther, LockRefused, Enter, ApplyOther
<1>14. CASE Launch \/ RetryRecovery \/ EnterRecovery \/ RecoveryDeferred
  BY <1>14 DEF Launch, RetryRecovery, EnterRecovery, RecoveryDeferred
<1>15. CASE Environment
  BY <1>15 DEF Environment, Tamper, Crash
<1>16. CASE UNCHANGED vars
  BY <1>16 DEF vars
<1>17. CASE Handler
  BY <1>3, <1>4, <1>5, <1>6, <1>7, <1>8, <1>9, <1>17 DEF Handler
<1>18. CASE Asked
  BY <1>10, <1>11, <1>12, <1>13, <1>14, <1>18 DEF Asked
<1>19. QED
  BY <1>15, <1>16, <1>17, <1>18 DEF Next

\* Success and cancellation are final: no interleaving of processes, no crash
\* and no recovery from a stale reading of the row takes an operation out of
\* them (the state machine is consulted by every writer).
THEOREM SettledIsFinal == Spec => SettledStaysSettled
<1>1. ASSUME IInv, [Next]_vars
      PROVE  [ \A o \in Ops : opState[o] \in {"Succeeded", "Cancelled"}
                  => opState'[o] = opState[o] ]_vars
  BY <1>1, NextLeavesOver DEF Over
<1>2. QED
  BY <1>1, Invariance, PTL DEF Spec, SettledStaysSettled

-----------------------------------------------------------------------------
(* A recorded deployment belongs to a succeeded install.                    *)

\* The deployment rows change in the two atomic commits only.
LEMMA NextRows ==
    ASSUME [Next]_vars
    PROVE  UNCHANGED rows \/ Committed
<1>1. CASE InstallStep \/ RemovalStep
  BY <1>1, InstallStates, RemovalStates DEF Unmoving, Reopening
<1>2. CASE Handler /\ ~(InstallStep \/ RemovalStep)
  BY <1>2
  DEF Handler, Prepare, Run, BeginCommit, Advance, ToFailed, ToSucceeded, ToRecovery, EndAs,
      ReturnOk, ReturnEarly, ReturnErr, ReturnErrUnrecorded, StoreFails, NextListed, Reconcile,
      ReconcileFails, Unreadable, store
<1>3. CASE Asked
  BY <1>3
  DEF Asked, PreviewInstall, PreviewRemoval, CancelPreview, PassGate, MarkHandled, PassGateOther,
      LockRefused, Enter, ApplyOther, Launch, RetryRecovery, EnterRecovery, RecoveryDeferred,
      store
<1>4. CASE Environment \/ UNCHANGED vars
  BY <1>4 DEF Environment, Tamper, Crash, store, vars
<1>5. QED
  BY <1>1, <1>2, <1>3, <1>4 DEF Next

\* RecordedIsSucceeded is inductive.
LEMMA NextKeepsRecorded ==
    ASSUME IInv, RecordedIsSucceeded, [Next]_vars
    PROVE  RecordedIsSucceeded'
<1> SUFFICES ASSUME NEW d \in rows' PROVE opState'[d] = "Succeeded"
  BY DEF RecordedIsSucceeded
<1>1. CASE d \in rows
  BY <1>1, NextLeavesOver DEF RecordedIsSucceeded, Over, IInv, TypeOK, Ops
<1>2. CASE d \notin rows
  <2>1. Committed /\ d = cur
    BY <1>2, NextRows DEF Committed
  <2>2. d \in Ops
    BY <2>1, NextKeepsIInv DEF IInv, TypeOK, Ops
  <2>3. QED
    BY <2>1, <2>2 DEF Committed, IInv, TypeOK
<1>3. QED
  BY <1>1, <1>2

\* No deployment is ever recorded for an install that is unfinished, failed or
\* was never confirmed: for any operations, processes and bounds.
THEOREM RecordedInstallsSucceeded == Spec => []RecordedIsSucceeded
<1>1. Init => RecordedIsSucceeded
  BY DEF Init, RecordedIsSucceeded
<1>2. IInv /\ RecordedIsSucceeded /\ [Next]_vars => RecordedIsSucceeded'
  BY NextKeepsRecorded
<1>3. QED
  BY <1>1, <1>2, Invariance, PTL DEF Spec

-----------------------------------------------------------------------------
(***************************************************************************)
(* Proofs about the mod folders: no step of the program, no failed move    *)
(* and no kill in the middle of one loses an installed mod or a file of    *)
(* the user's, for any operations, packages, processes and bounds.         *)
(*                                                                         *)
(* InstalledModNeverLost is not inductive: an install that is refused its  *)
(* commit moves whatever is live into its own recovery folder, where a     *)
(* recorded mod would not count as kept.  FilesInv adds why it cannot be   *)
(* one: from the moment an install has put its folder in place until it    *)
(* takes it away again, every recorded mod is in a removal's recovery      *)
(* folder (AsideOK), because the place was free (KeptOK) or nothing was    *)
(* recorded; and what is in place is the package (PublishedOK, StagedOK).  *)
(***************************************************************************)
Published == {"confirm_live", "complete_publish", "reopen_commit", "start_commit", "commit"}
Guarded   == Published \cup {"start_quarantine", "quarantine"}

Whole(d) == FilesOf(PackageOf[d])
Aside(d) == \E r \in Removals : Whole(d) \subseteq quar[r]

StagedOK    == pc = "publish" => staged[cur] \in {Plan, {}}
PublishedOK == pc \in Published => Plan \subseteq live \/ (pc = "confirm_live" /\ live = {})
AsideOK     == pc \in Guarded => \A d \in rows : Aside(d)
KeptOK      == \A d \in rows : Whole(d) \subseteq live \/ Aside(d)

FilesInv == StagedOK /\ (tampers = 0 => PublishedOK /\ AsideOK /\ KeptOK)

-----------------------------------------------------------------------------
(* Which steps of the engines touch the folders at all.                     *)

Still == UNCHANGED <<live, quar>>

\* Two moves of the install engine, done or failed, touch the live and the
\* recovery folders.
LEMMA InstallFiles ==
    ASSUME InstallStep
    PROVE  Still \/ PublishMoves \/ PublishFails \/ QuarantinePublished \/ QuarantineFails
BY DEF InstallStep, InstallExecution, InstallRecovery, Still, Skip, StepWrite, files, staging,
      CommitRow, CommitRefused, CleanStaging, Unreadable, Reopen,
      StartPublish, VerifyStaged, PublishRejected, PublishOccupied, PublishRefused,
      PublishUncertain, ConfirmLive, CompletePublish, StartCommit, CommitInstall,
      CommitInstallRefused, StartQuarantine, CompleteQuarantine, FailCommit,
      QuarantineFailed, StartCleanup, Cleanup, CompleteCleanup, InspectAmbiguous,
      InspectOwned, AdoptCommitStep, InspectRolledBack, InspectOccupied,
      InspectAdoptable, InspectUnpublished, ReopenPublish, ReopenCommit,
      RestateCommit, Tidy, CommitPayloadUnavailable

\* So do two moves of the removal engine.
LEMMA RemovalFiles ==
    ASSUME RemovalStep
    PROVE  Still \/ SetAside \/ SetAsideFails \/ Restore \/ RestoreFails
BY DEF RemovalStep, RemovalExecution, RemovalRecovery, Still, Skip, StepWrite, files, staging,
      CommitRow, CommitRefused, Unreadable,
      StartRemoval, AsideFailed, CheckAside, CompleteAside, StartRemovalCommit,
      CommitRemoval, CommitRemovalRefused, Undo, UndoUnread, StartRestore, CompleteRestore,
      RestoreFailed, FailRemovalCommit, InspectUndo, InspectInconsistent,
      InspectRemoved, RemovedCommitStep, InspectMissing, InspectRetry, ReopenRemoval

\* Outside the engines only a crash and the user touch the folders.
LEMMA OtherFiles ==
    ASSUME [Next]_vars, ~InstallStep, ~RemovalStep
    PROVE  Still \/ Tamper \/ (TornFiles /\ pc' = "idle" /\ UNCHANGED <<rows, tampers>>)
<1>1. CASE Handler
  BY <1>1
  DEF Handler, Still, Prepare, Run, BeginCommit, Advance, ToFailed, ToSucceeded, ToRecovery,
      EndAs, ReturnOk, ReturnEarly, ReturnErr, ReturnErrUnrecorded, StoreFails, NextListed, Reconcile,
      ReconcileFails, Unreadable, files, staging
<1>2. CASE Asked
  BY <1>2
  DEF Asked, Still, PreviewInstall, PreviewRemoval, CancelPreview, PassGate, MarkHandled,
      PassGateOther, LockRefused, Enter, ApplyOther, Launch, RetryRecovery, EnterRecovery,
      RecoveryDeferred, files, staging
<1>3. CASE Environment
  BY <1>3 DEF Environment, Still, Crash, files, staging, store
<1>4. CASE UNCHANGED vars
  BY <1>4 DEF Still, vars, files
<1>5. QED
  BY <1>1, <1>2, <1>3, <1>4 DEF Next

-----------------------------------------------------------------------------
(* A file of the user's stays somewhere.                                    *)

\* What a move between Mods and one recovery folder must do.
LEMMA MoveKeeps ==
    ASSUME quar \in [Ops -> SUBSET Files], cur \in Ops, NEW q,
           quar' = [quar EXCEPT ![cur] = q],
           User \in live \cup quar[cur] => User \in live' \cup q,
           User \in Everywhere
    PROVE  User \in Everywhere'
<1>1. quar'[cur] = q /\ \A o \in Ops \ {cur} : quar'[o] = quar[o]
  OBVIOUS
<1>2. CASE User \in live \cup quar[cur]
  BY <1>1, <1>2 DEF Everywhere
<1>3. CASE User \notin live \cup quar[cur]
  BY <1>1, <1>3 DEF Everywhere
<1>4. QED
  BY <1>2, <1>3

\* A step of the program leaves the user's file somewhere.
LEMMA NextKeepsUser ==
    ASSUME IInv, [Next]_vars, tampers' = tampers, User \in Everywhere
    PROVE  User \in Everywhere'
<1> USE DEF IInv, TypeOK
<1>1. CASE Still
  BY <1>1 DEF Still, Everywhere
<1>2. CASE PublishMoves \/ PublishFails
  BY <1>2 DEF PublishMoves, PublishFails, Exists, Everywhere
<1>3. CASE QuarantinePublished \/ SetAside
  <2>1. cur \in Ops
    BY <1>3
    DEF QuarantinePublished, SetAside, CurOK, Fits, InstallLabels, RemovalLabels, Ops
  <2>2. CASE Still
    BY <1>1, <2>2
  <2>3. CASE ~Still
    <3>1. quar' = [quar EXCEPT ![cur] = live] /\ quar[cur] = {}
      BY <1>3, <2>3 DEF QuarantinePublished, SetAside, Still, Exists
    <3>2. QED
      BY <2>1, <3>1, MoveKeeps
  <2>4. QED
    BY <2>2, <2>3
<1>4. CASE QuarantineFails \/ SetAsideFails
  <2>1. cur \in Ops
    BY <1>4
    DEF QuarantineFails, SetAsideFails, CurOK, Fits, InstallLabels, RemovalLabels, Ops
  <2>2. PICK m \in FailedMoves(live) : live' = m.src /\ quar' = [quar EXCEPT ![cur] = m.dst]
    BY <1>4 DEF QuarantineFails, SetAsideFails
  <2>3. quar[cur] = {}
    BY <1>4 DEF QuarantineFails, SetAsideFails, Exists
  <2>4. live \subseteq m.src \cup m.dst
    BY <2>2 DEF FailedMoves
  <2>5. QED
    BY <2>1, <2>2, <2>3, <2>4, MoveKeeps
<1>5. CASE Restore \/ RestoreFails
  <2>1. cur \in Ops
    BY <1>5 DEF Restore, RestoreFails, CurOK, Fits, RemovalLabels, Ops
  <2>2. CASE Still
    BY <1>1, <2>2
  <2>3. CASE ~Still
    <3>1. PICK m \in Refilled(quar[cur], live) \cup {Moved(quar[cur], live)}
                     \cup PartlyRefilled(quar[cur], live) \cup FailedMoves(quar[cur]) :
             /\ quar' = [quar EXCEPT ![cur] = m.src]
             /\ live' = m.dst
             /\ Exists(live) => m \in Refilled(quar[cur], live) \cup PartlyRefilled(quar[cur], live)
      BY <1>5, <2>3 DEF Restore, RestoreFails, Still
    <3>2. live \cup quar[cur] \subseteq m.src \cup m.dst
      BY <3>1 DEF Refilled, PartlyRefilled, FailedMoves, Moved, Exists
    <3>3. QED
      BY <2>1, <3>1, <3>2, MoveKeeps
  <2>4. QED
    BY <2>2, <2>3
<1>6. CASE TornFiles
  <2>1. CASE pc = "publish" /\ UNCHANGED quar
             /\ \E m \in TornMoves(staged[cur], live) : live' = m.dst
    BY <2>1 DEF TornMoves, Unmoved, Exists, Everywhere
  <2>2. CASE pc \in {"quarantine", "set_aside"}
             /\ \E m \in TornMoves(live, quar[cur]) :
                   live' = m.src /\ quar' = [quar EXCEPT ![cur] = m.dst]
    <3>1. cur \in Ops
      BY <2>2 DEF CurOK, Fits, InstallLabels, RemovalLabels, Ops
    <3>2. PICK m \in TornMoves(live, quar[cur]) :
             live' = m.src /\ quar' = [quar EXCEPT ![cur] = m.dst]
      BY <2>2
    <3>3. live \cup quar[cur] \subseteq m.src \cup m.dst
      BY <3>2 DEF TornMoves, Unmoved, Exists
    <3>4. QED
      BY <3>1, <3>2, <3>3, MoveKeeps
  <2>3. CASE pc = "restore"
             /\ \E m \in IF Exists(quar[cur]) /\ Exists(live)
                         THEN Refilled(quar[cur], live) \cup PartlyRefilled(quar[cur], live)
                         ELSE TornMoves(quar[cur], live) :
                   quar' = [quar EXCEPT ![cur] = m.src] /\ live' = m.dst
    <3>1. cur \in Ops
      BY <2>3 DEF CurOK, Fits, RemovalLabels, Ops
    <3>2. PICK m \in Refilled(quar[cur], live) \cup PartlyRefilled(quar[cur], live)
                     \cup TornMoves(quar[cur], live) :
             quar' = [quar EXCEPT ![cur] = m.src] /\ live' = m.dst
      BY <2>3
    <3>3. live \cup quar[cur] \subseteq m.src \cup m.dst
      BY <3>2 DEF TornMoves, Unmoved, Refilled, PartlyRefilled, Exists
    <3>4. QED
      BY <3>1, <3>2, <3>3, MoveKeeps
  <2>4. CASE UNCHANGED files
    BY <1>1, <2>4 DEF files, Still
  <2>5. QED
    BY <1>6, <2>1, <2>2, <2>3, <2>4 DEF TornFiles
<1>7. ~Tamper
  BY DEF Tamper
<1>8. QED
  BY <1>1, <1>2, <1>3, <1>4, <1>5, <1>6, <1>7, InstallFiles, RemovalFiles, OtherFiles

\* No step of the program destroys a file the user put into the mod's folder:
\* it stays live or goes along into a recovery folder, through every failed or
\* interrupted move (deployment.rs), for any processes and bounds.
THEOREM UserFilesAreKept == Spec => UserFilesKept
<1>1. ASSUME IInv, [Next]_vars
      PROVE  [ tampers' = tampers /\ User \in Everywhere => User \in Everywhere' ]_vars
  BY <1>1, NextKeepsUser
<1>2. QED
  BY <1>1, Invariance, PTL DEF Spec, UserFilesKept

-----------------------------------------------------------------------------
(* An installed mod stays whole.                                            *)

\* A step that leaves folders and records alone, outside the guarded part.
LEMMA QuietKeeps ==
    ASSUME FilesInv, Still, UNCHANGED rows, tampers' \in {tampers}, pc' \notin Guarded \cup {"publish"}
    PROVE  FilesInv'
BY DEF FilesInv, StagedOK, PublishedOK, AsideOK, KeptOK, Still, Published, Guarded, Aside

\* With the place free, every recorded mod is in a removal's recovery folder.
LEMMA FreePlace ==
    ASSUME KeptOK, live = {}
    PROVE  \A d \in rows : Aside(d)
BY DEF KeptOK, Whole, FilesOf

\* Installs have recovery folders of their own.
LEMMA AsideElsewhere ==
    ASSUME IInv, NEW q, quar' = [quar EXCEPT ![cur] = q], cur \in Installs,
           NEW d, Aside(d)
    PROVE  Aside(d)'
BY OpsAssumption DEF Aside, Whole, IInv, TypeOK, Ops

\* A move between Mods and a removal's recovery folder that leaves, of the
\* two, one whole wherever one was whole before.
LEMMA RemovalMove ==
    ASSUME IInv, KeptOK, cur \in Removals, NEW q, quar' = [quar EXCEPT ![cur] = q],
           rows' \subseteq rows,
           \A d \in rows : Whole(d) \subseteq live \/ Whole(d) \subseteq quar[cur]
                             => Whole(d) \subseteq live' \/ Whole(d) \subseteq q
    PROVE  KeptOK'
<1> SUFFICES ASSUME NEW d \in rows' PROVE Whole(d) \subseteq live' \/ Aside(d)'
  BY DEF KeptOK, Whole
<1>1. quar'[cur] = q /\ \A r \in Removals \ {cur} : quar'[r] = quar[r]
  BY DEF IInv, TypeOK, Ops
<1>2. CASE Whole(d) \subseteq live \/ Whole(d) \subseteq quar[cur]
  BY <1>1, <1>2 DEF Aside, Whole
<1>3. CASE ~(Whole(d) \subseteq live \/ Whole(d) \subseteq quar[cur])
  BY <1>1, <1>3 DEF KeptOK, Aside, Whole
<1>4. QED
  BY <1>2, <1>3

\* Every step of the install engine keeps FilesInv.
LEMMA InstallKeepsFiles ==
    ASSUME IInv, FilesInv, InstallStep
    PROVE  FilesInv'
<1> USE DEF FilesInv
<1>1. CASE VerifyStaged
  BY <1>1
  DEF VerifyStaged, Skip, Go, files, staging, store, env, StagedOK, PublishedOK, AsideOK, KeptOK,
      Published, Guarded, Plan, Aside, Whole
<1>2. CASE PublishMoves
  <2>1. live = {}
    BY <1>2 DEF PublishMoves, Exists
  <2>2. pc' = "confirm_live" /\ live' \in {Plan, {}} /\ UNCHANGED <<cur, rows, quar, tampers>>
    BY <1>2 DEF PublishMoves, Go, StagedOK, store, env
  <2>3. QED
    BY <2>1, <2>2, FreePlace
    DEF StagedOK, PublishedOK, AsideOK, KeptOK, Published, Guarded, Plan, Aside, Whole
<1>3. CASE PublishFails
  <2>1. live = {}
    BY <1>3 DEF PublishFails, Exists
  <2>2. pc' \in {"publish_uncertain", "publish_refused", "to_recovery"}
        /\ UNCHANGED <<rows, quar, tampers>>
    BY <1>3 DEF PublishFails, Go, store, env
  <2>3. QED
    BY <2>1, <2>2, FreePlace
    DEF StagedOK, PublishedOK, AsideOK, KeptOK, Published, Guarded, Aside, Whole
<1>4. CASE ConfirmLive \/ CompletePublish \/ StartCommit
  <2>1. pc \in Published /\ Still /\ UNCHANGED <<cur, rows, tampers>>
    BY <1>4
    DEF ConfirmLive, CompletePublish, StartCommit, Skip, StepWrite, files, store, env, Still,
        Published
  <2>2. \/ pc' = "to_recovery"
        \/ pc' \in Published /\ pc' # "confirm_live" /\ ~(pc = "confirm_live" /\ live = {})
    BY <1>4
    DEF ConfirmLive, CompletePublish, StartCommit, Skip, StepWrite, Go, Published, Exists
  <2>3. QED
    BY <2>1, <2>2
    DEF StagedOK, PublishedOK, AsideOK, KeptOK, Published, Guarded, Still, Plan, Aside, Whole
<1>5. CASE CommitInstall
  <2>1. /\ pc = "commit" /\ pc' \in {"restate_commit", "start_cleanup"}
        /\ rows' = rows \cup {cur} /\ Still /\ UNCHANGED tampers
    BY <1>5 DEF CommitInstall, CommitRow, Go, files, env, Still
  <2>2. tampers = 0 => Whole(cur) \subseteq live
    BY <2>1 DEF PublishedOK, Published, Plan, Whole
  <2>3. QED
    BY <2>1, <2>2
    DEF StagedOK, PublishedOK, AsideOK, KeptOK, Published, Guarded, Still, Aside, Whole
<1>6. CASE CommitInstallRefused \/ StartQuarantine
  <2>1. /\ pc \in Guarded /\ pc' \in {"start_quarantine", "quarantine"}
        /\ Still /\ UNCHANGED <<rows, tampers>>
    BY <1>6
    DEF CommitInstallRefused, CommitRefused, StartQuarantine, StepWrite, Go, files, store, env,
        Still, Guarded, Published
  <2>2. QED
    BY <2>1
    DEF StagedOK, PublishedOK, AsideOK, KeptOK, Published, Guarded, Still, Aside, Whole
<1>7. CASE QuarantinePublished \/ QuarantineFails
  <2>1. cur \in Installs
    BY <1>7 DEF QuarantinePublished, QuarantineFails, IInv, CurOK, Fits, InstallLabels
  <2>2. PICK q : quar' = [quar EXCEPT ![cur] = q]
    <3>1. CASE UNCHANGED quar
      BY <2>1, <3>1 DEF IInv, TypeOK, Ops
    <3>2. CASE ~UNCHANGED quar
      BY <1>7, <3>2 DEF QuarantinePublished, QuarantineFails
    <3>3. QED
      BY <3>1, <3>2
  <2>3. tampers = 0 => \A d \in rows : Aside(d)'
    BY <1>7, <2>1, <2>2, AsideElsewhere
    DEF QuarantinePublished, QuarantineFails, AsideOK, Guarded
  <2>4. UNCHANGED <<rows, tampers>> /\ pc' \in {"complete_quarantine", "quarantine_failed"}
    BY <1>7 DEF QuarantinePublished, QuarantineFails, Go, store, env
  <2>5. QED
    BY <2>3, <2>4
    DEF StagedOK, PublishedOK, AsideOK, KeptOK, Published, Guarded, Aside, Whole
<1>8. CASE InspectAdoptable
  <2>1. rows = {}
    BY <1>8 DEF InspectAdoptable, OwnsDeployment, ForeignOccupies
  <2>2. live = Plan /\ Still /\ UNCHANGED <<cur, rows, tampers>>
        /\ pc' \in {"reopen_commit", "start_quarantine"}
    BY <1>8 DEF InspectAdoptable, Go, files, store, env, Still
  <2>3. QED
    BY <2>1, <2>2
    DEF StagedOK, PublishedOK, AsideOK, KeptOK, Published, Guarded, Still, Plan, Aside, Whole
<1>9. CASE ReopenCommit
  <2>1. /\ pc = "reopen_commit" /\ pc' \in {"start_commit", "next"}
        /\ Still /\ UNCHANGED <<cur, rows, tampers>>
    BY <1>9 DEF ReopenCommit, Reopen, Skip, Go, files, store, env, Still
  <2>2. QED
    BY <2>1
    DEF StagedOK, PublishedOK, AsideOK, KeptOK, Published, Guarded, Still, Plan, Aside, Whole
<1>10. CASE InstallStep /\ ~(\/ VerifyStaged \/ PublishMoves \/ PublishFails \/ ConfirmLive
                             \/ CompletePublish \/ StartCommit \/ CommitInstall
                             \/ CommitInstallRefused \/ StartQuarantine \/ QuarantinePublished
                             \/ QuarantineFails \/ InspectAdoptable \/ ReopenCommit)
  <2>1. Still
    BY <1>10, InstallFiles
  <2>2. UNCHANGED <<rows, tampers>> /\ pc' \notin Guarded \cup {"publish"}
    BY <1>10
    DEF InstallStep, InstallExecution, InstallRecovery, Skip, StepWrite, Go, store, env,
        Published, Guarded, CleanStaging, Unreadable, Reopen,
        StartPublish, PublishRejected, PublishOccupied, PublishRefused,
        PublishUncertain, CompleteQuarantine, FailCommit, QuarantineFailed,
        StartCleanup, Cleanup, CompleteCleanup, InspectAmbiguous, InspectOwned,
        AdoptCommitStep, InspectRolledBack, InspectOccupied, InspectUnpublished,
        ReopenPublish, RestateCommit, Tidy, CommitPayloadUnavailable
  <2>3. QED
    BY <2>1, <2>2, QuietKeeps
<1>11. QED
  BY <1>1, <1>2, <1>3, <1>4, <1>5, <1>6, <1>7, <1>8, <1>9, <1>10

\* Every step of the removal engine keeps FilesInv.
LEMMA RemovalKeepsFiles ==
    ASSUME IInv, FilesInv, RemovalStep
    PROVE  FilesInv'
<1>1. pc' \notin Guarded \cup {"publish"} /\ UNCHANGED tampers /\ rows' \subseteq rows
  BY DEF RemovalStep, RemovalExecution, RemovalRecovery, Skip, StepWrite, Go, store, env,
         Published, Guarded, CommitRow, CommitRefused, Unreadable,
         StartRemoval, SetAside, SetAsideFails, AsideFailed, CheckAside,
         CompleteAside, StartRemovalCommit, CommitRemoval, CommitRemovalRefused,
         Undo, UndoUnread, StartRestore, Restore, RestoreFails, CompleteRestore, RestoreFailed,
         FailRemovalCommit, InspectUndo, InspectInconsistent, InspectRemoved,
         RemovedCommitStep, InspectMissing, InspectRetry, ReopenRemoval
<1> SUFFICES ASSUME tampers = 0 PROVE KeptOK'
  BY <1>1 DEF FilesInv, StagedOK, PublishedOK, AsideOK, Published, Guarded
<1>2. KeptOK
  BY DEF FilesInv
<1>3. CASE Still
  BY <1>1, <1>2, <1>3 DEF KeptOK, Still, Aside, Whole
<1>4. CASE SetAside /\ ~Still
  <2>1. cur \in Removals
    BY <1>4 DEF SetAside, IInv, CurOK, Fits, RemovalLabels
  <2>2. quar' = [quar EXCEPT ![cur] = live] /\ quar[cur] = {}
    BY <1>4 DEF SetAside, Still, Exists
  <2>3. QED
    BY <1>1, <1>2, <2>1, <2>2, RemovalMove DEF Whole, FilesOf
<1>5. CASE SetAsideFails
  <2>1. cur \in Removals
    BY <1>5 DEF SetAsideFails, IInv, CurOK, Fits, RemovalLabels
  <2>2. PICK m \in FailedMoves(live) : live' = m.src /\ quar' = [quar EXCEPT ![cur] = m.dst]
    BY <1>5 DEF SetAsideFails
  <2>3. quar[cur] = {} /\ (m.src = live \/ m.dst = live)
    BY <1>5, <2>2 DEF SetAsideFails, FailedMoves, Exists
  <2>4. QED
    BY <1>1, <1>2, <2>1, <2>2, <2>3, RemovalMove DEF Whole, FilesOf
<1>6. CASE (Restore \/ RestoreFails) /\ ~Still
  <2>1. cur \in Removals
    BY <1>6 DEF Restore, RestoreFails, IInv, CurOK, Fits, RemovalLabels
  <2>2. PICK m \in Refilled(quar[cur], live) \cup {Moved(quar[cur], live)}
                   \cup PartlyRefilled(quar[cur], live) \cup FailedMoves(quar[cur]) :
           /\ quar' = [quar EXCEPT ![cur] = m.src]
           /\ live' = m.dst
           /\ Exists(live) => m \in Refilled(quar[cur], live) \cup PartlyRefilled(quar[cur], live)
    BY <1>6 DEF Restore, RestoreFails, Still
  <2>3. /\ live \subseteq live'
        /\ quar[cur] \subseteq live' \/ quar[cur] \subseteq m.src
    BY <2>2 DEF Refilled, PartlyRefilled, FailedMoves, Moved, Exists
  <2>4. QED
    BY <1>1, <1>2, <2>1, <2>2, <2>3, RemovalMove
<1>7. QED
  BY <1>3, <1>4, <1>5, <1>6, RemovalFiles

\* A handler killed in the middle of a move leaves one whole folder where one was.
LEMMA CrashKeepsFiles ==
    ASSUME IInv, FilesInv, TornFiles, pc' = "idle", UNCHANGED <<rows, tampers>>
    PROVE  FilesInv'
<1> SUFFICES ASSUME tampers = 0 PROVE KeptOK'
  BY DEF FilesInv, StagedOK, PublishedOK, AsideOK, Published, Guarded
<1>1. KeptOK
  BY DEF FilesInv
<1>2. CASE Still
  BY <1>1, <1>2 DEF KeptOK, Still, Aside, Whole
<1>3. CASE pc = "publish" /\ UNCHANGED quar
           /\ \E m \in TornMoves(staged[cur], live) : live' = m.dst
  <2>1. CASE live = {}
    BY <1>1, <1>3, <2>1, FreePlace DEF KeptOK, Aside, Whole
  <2>2. CASE live # {}
    BY <1>2, <1>3, <2>2 DEF TornMoves, Unmoved, Exists, Still
  <2>3. QED
    BY <2>1, <2>2
<1>4. CASE pc = "quarantine" /\ \E q : quar' = [quar EXCEPT ![cur] = q]
  <2>1. cur \in Installs
    BY <1>4 DEF IInv, CurOK, Fits, InstallLabels
  <2>2. \A d \in rows : Aside(d)
    BY <1>4 DEF FilesInv, AsideOK, Guarded
  <2>3. QED
    BY <1>4, <2>1, <2>2, AsideElsewhere DEF KeptOK, Aside, Whole
<1>5. CASE pc = "set_aside"
           /\ \E m \in TornMoves(live, quar[cur]) :
                 live' = m.src /\ quar' = [quar EXCEPT ![cur] = m.dst]
  <2>1. cur \in Removals
    BY <1>5 DEF IInv, CurOK, Fits, RemovalLabels
  <2>2. PICK m \in TornMoves(live, quar[cur]) :
           live' = m.src /\ quar' = [quar EXCEPT ![cur] = m.dst]
    BY <1>5
  <2>3. \/ m.dst = live /\ quar[cur] = {}
        \/ m.src = live /\ m.dst = quar[cur]
    BY <2>2 DEF TornMoves, Unmoved, Exists
  <2>4. QED
    BY <1>1, <2>1, <2>2, <2>3, RemovalMove DEF Whole, FilesOf
<1>6. CASE pc = "restore"
           /\ \E m \in IF Exists(quar[cur]) /\ Exists(live)
                       THEN Refilled(quar[cur], live) \cup PartlyRefilled(quar[cur], live)
                       ELSE TornMoves(quar[cur], live) :
                 quar' = [quar EXCEPT ![cur] = m.src] /\ live' = m.dst
  <2>1. cur \in Removals
    BY <1>6 DEF IInv, CurOK, Fits, RemovalLabels
  <2>2. PICK m \in Refilled(quar[cur], live) \cup PartlyRefilled(quar[cur], live)
                   \cup TornMoves(quar[cur], live) :
           quar' = [quar EXCEPT ![cur] = m.src] /\ live' = m.dst
    BY <1>6
  <2>3. /\ live \subseteq m.dst
        /\ quar[cur] \subseteq m.dst \/ quar[cur] \subseteq m.src
    BY <2>2 DEF TornMoves, Unmoved, Refilled, PartlyRefilled, Exists
  <2>4. QED
    BY <1>1, <2>1, <2>2, <2>3, RemovalMove
<1>7. QED
  BY <1>2, <1>3, <1>4, <1>5, <1>6 DEF TornFiles, Still, files

\* What the rest of the program does meanwhile.
LEMMA RestKeepsFiles ==
    ASSUME IInv, FilesInv, [Next]_vars, ~InstallStep, ~RemovalStep, Still, ~Tamper
    PROVE  FilesInv'
<1>1. UNCHANGED <<rows, tampers>>
  BY DEF Next, Handler, Asked, Environment, Prepare, Run, BeginCommit, Advance, ToFailed, ToSucceeded,
         ToRecovery, EndAs, ReturnOk, ReturnEarly, ReturnErr, ReturnErrUnrecorded, StoreFails, NextListed,
         Reconcile, ReconcileFails, Unreadable, PreviewInstall, PreviewRemoval, CancelPreview,
         PassGate, MarkHandled, PassGateOther, LockRefused, Enter, ApplyOther, Launch,
         RetryRecovery, EnterRecovery, RecoveryDeferred, Crash, store, env, vars
<1>2. CASE pc' \notin Guarded \cup {"publish"}
  BY <1>1, <1>2, QuietKeeps
<1>3. CASE pc' \in Guarded \cup {"publish"}
  <2>1. UNCHANGED <<pc, cur>>
    BY <1>3
    DEF Next, Handler, Asked, Environment, Prepare, Run, BeginCommit, Advance, ToFailed, ToSucceeded,
         ToRecovery, EndAs, ReturnOk, ReturnEarly, ReturnErr, ReturnErrUnrecorded, StoreFails, NextListed,
         Reconcile, ReconcileFails, Unreadable, PreviewInstall, PreviewRemoval, CancelPreview,
         PassGate, MarkHandled, PassGateOther, LockRefused, Enter, ApplyOther, Launch,
         RetryRecovery, EnterRecovery, RecoveryDeferred, Crash, Go, Release, Published, Guarded, vars
  <2>2. ASSUME pc' = "publish"
        PROVE  staged'[cur] \in {staged[cur], Plan, {}}
    <3>1. \/ UNCHANGED staged
          \/ \E os \in SUBSET Ops : Unstage(os)
          \/ \E i \in Installs : staged' = [staged EXCEPT ![i] = FilesOf(PackageOf[i])]
      <4>1. CASE Handler
        BY <2>1, <2>2, <4>1
        DEF Handler, Prepare, Run, BeginCommit, Advance, ToFailed, ToSucceeded,
            ToRecovery, EndAs, ReturnOk, ReturnEarly, ReturnErr, ReturnErrUnrecorded, StoreFails,
            NextListed, Reconcile, ReconcileFails, Unreadable, Go, Release, files, staging
      <4>2. CASE Asked
        BY <2>2, <4>2
        DEF Asked, PreviewInstall, PreviewRemoval, CancelPreview, PassGate, MarkHandled,
            PassGateOther, LockRefused, Enter, ApplyOther, ReleaseStale, Stale, Launch,
            RetryRecovery, EnterRecovery, RecoveryDeferred, files, staging, Ops
      <4>3. CASE Environment
        BY <2>2, <4>3 DEF Environment, Crash, files, staging
      <4>4. CASE UNCHANGED vars
        BY <4>4 DEF vars, files, staging
      <4>5. QED
        BY <4>1, <4>2, <4>3, <4>4 DEF Next
    <3>2. cur \in Installs
      BY <2>1, <2>2 DEF IInv, CurOK, Fits, InstallLabels
    <3>3. QED
      BY <3>1, <3>2 DEF Unstage, IInv, TypeOK, Plan
  <2>3. QED
    BY <1>1, <2>1, <2>2
    DEF FilesInv, StagedOK, PublishedOK, AsideOK, KeptOK, Still, Plan, Aside, Whole
<1>4. QED
  BY <1>2, <1>3

\* In an empty profile nothing can be lost.
LEMMA InitFiles ==
    ASSUME Init
    PROVE  FilesInv
BY DEF Init, FilesInv, StagedOK, PublishedOK, AsideOK, KeptOK, Published, Guarded

\* The user's own hand ends what tampers = 0 promises; the staged folder it
\* cannot reach.
LEMMA TamperKeepsFiles ==
    ASSUME IInv, FilesInv, Tamper
    PROVE  FilesInv'
<1>1. tampers' # 0
  BY DEF Tamper, IInv, TypeOK
<1>2. UNCHANGED <<pc, cur, staged>>
  BY DEF Tamper, staging
<1>3. QED
  BY <1>1, <1>2 DEF FilesInv, StagedOK, Plan

\* FilesInv is inductive.
LEMMA NextKeepsFiles ==
    ASSUME IInv, FilesInv, [Next]_vars
    PROVE  FilesInv'
<1>1. CASE InstallStep
  BY <1>1, InstallKeepsFiles
<1>2. CASE RemovalStep
  BY <1>2, RemovalKeepsFiles
<1>3. CASE ~InstallStep /\ ~RemovalStep
  <2>1. CASE Tamper
    BY <2>1, TamperKeepsFiles
  <2>2. CASE Still /\ ~Tamper
    BY <1>3, <2>2, RestKeepsFiles
  <2>3. CASE TornFiles /\ pc' = "idle" /\ UNCHANGED <<rows, tampers>>
    BY <2>3, CrashKeepsFiles
  <2>4. QED
    BY <1>3, <2>1, <2>2, <2>3, OtherFiles
<1>4. QED
  BY <1>1, <1>2, <1>3

\* As long as the user leaves the folder alone, an installed mod is whole in
\* Mods or in a removal's recovery folder: through every interleaving of the
\* engines, every failed or torn move (deployment.rs) and every recovery.
THEOREM InstalledModsAreNeverLost == Spec => []InstalledModNeverLost
<1>1. FilesInv => InstalledModNeverLost
  BY DEF FilesInv, KeptOK, Aside, Whole, InstalledModNeverLost
<1>2. QED
  BY <1>1, InitFiles, NextKeepsFiles, Invariance, PTL DEF Spec
================================================================================
