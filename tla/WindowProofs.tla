------------------------------ MODULE WindowProofs ------------------------------
(***************************************************************************)
(* Proofs about one app window, the program as most people run it: without *)
(* a second program on the data folder nothing comes between reading the   *)
(* durable gate and taking the instance lock (with one, it may: GateRace). *)
(*                                                                         *)
(* WInv is inductive: at most one change stands in the way of others, it   *)
(* is the one the handler works on, it was proposed against the present    *)
(* revision, and what recovery read of an operation is still so.           *)
(***************************************************************************)
EXTENDS ChangeProofs

OneWindow == Processes = {Window}

\* A handler that has begun its work and not committed, and one that has.
AfterCommit == {"start_cleanup", "cleanup", "complete_cleanup", "restate_commit", "tidy", "return_ok"}
Unreached == {"adopt_commit_step", "removed_commit_step", "to_succeeded"}
Engine ==
    ((InstallLabels \cup RemovalLabels) \ (AfterCommit \cup Unreached))
        \cup {"inspect", "to_failed", "to_recovery"}

\* Where only a confirmation, and where only recovery, can be.
ConfirmOnly ==
    {"prepare", "run", "begin_commit", "publish_refused", "start_cleanup", "cleanup",
     "complete_cleanup", "return_ok", "return_err", "return_early"}
RecoverOnly ==
    {"next", "reconcile", "inspect", "reopen_publish", "reopen_commit", "restate_commit",
     "tidy", "reopen_removal"}

\* The last two labels before the atomic commit.
Ready == {"start_commit", "commit", "start_removal_commit", "commit_removal"}

\* The states an operation can be in, those that stand in the way of others,
\* and those of a change that has begun.
Reachable == {"New", "Draft", "Prepared", "Running", "Committing", "RecoveryRequired",
              "Succeeded", "Failed", "Cancelled"}
Standing == {"Prepared", "Running", "Committing", "RecoveryRequired"}
Started == {"Running", "Committing", "RecoveryRequired"}

NoTwin(i) == \A d \in rows : PackageOf[d] # PackageOf[i]

\* Who holds the lock and for what.
Control ==
    /\ who \in {NoProc, Window}
    /\ pc = "idle" <=> who = NoProc
    /\ pc = "idle" => cur = NoOp
    /\ window = "closed" => who = NoProc /\ gate[Window] = NoOp
    /\ window = "starting" => gate[Window] = NoOp
    /\ window = "open" /\ who = Window => gate[Window] = cur /\ cur \in Ops
    /\ pc \in ConfirmOnly => ~Recovering
    /\ pc \in RecoverOnly => Recovering
    /\ branch = "aside_again" => Recovering
    /\ pc \notin Unreached

\* What recovery listed and has not worked on yet is as it was read.
SnapTrue ==
    \A o \in Ops : snap[o] # "New" =>
        /\ window = "starting"
        /\ o # cur \/ pc \in {"reconcile", "inspect"} =>
               opState[o] = snap[o] /\ opState[o] \in Standing \cup {"Draft"}

\* The state of the operation in work at each stage of its handler.
StageOK ==
    /\ \A o \in Ops : opState[o] \in Reachable
    /\ pc = "idle" /\ gate[Window] \in Ops => opState[gate[Window]] \in {"Draft", "Prepared"}
    /\ pc = "prepare" => opState[cur] \in {"Draft", "Prepared"}
    /\ pc = "run" => opState[cur] = "Prepared"
    /\ pc = "begin_commit" => opState[cur] = "Running"
    /\ pc \in Engine => opState[cur] \in Started
    /\ pc \in Engine /\ (~Recovering \/ snap[cur] = "Committing") => opState[cur] = "Committing"
    /\ pc \in Ready => opState[cur] = "Committing"
    /\ pc \in AfterCommit => opState[cur] = "Succeeded"
    /\ pc \in {"reconcile", "inspect"} => snap[cur] # "New"

\* A change that stands in the way does so alone, and is still possible.
Sole(o) ==
    /\ \A q \in Ops : opState[q] \in Standing => q = o
    /\ gate[Window] \in {NoOp, o}
    /\ expRev[o] = rev
    /\ o \in Installs => NoTwin(o)
    /\ o \in Removals => target[o] \in rows

SoleOK == \A o \in Ops : opState[o] \in Standing => Sole(o)

\* A preview of the present revision still tells the truth.
PreviewOK ==
    /\ \A o \in Ops : opState[o] # "New" => expRev[o] <= rev
    /\ \A o \in Ops : opState[o] = "Draft" /\ expRev[o] = rev =>
           /\ o \in Installs /\ installable[o] => NoTwin(o)
           /\ o \in Removals => target[o] \in rows
    /\ pc = "prepare" => expRev[cur] = rev /\ (cur \in Installs => installable[cur])

WInv == Control /\ SnapTrue /\ StageOK /\ SoleOK /\ PreviewOK

Inv == IInv /\ RecordedIsSucceeded

-----------------------------------------------------------------------------
(* The engines.                                                             *)

\* Neither engine touches plans, gates, locks or what recovery listed.
LEMMA EngineFrame ==
    ASSUME InstallStep \/ RemovalStep
    PROVE  UNCHANGED <<plans, procs, cur, env>>
<1>1. CASE InstallStep
  BY <1>1
  DEF InstallStep, InstallExecution, InstallRecovery, Skip, StepWrite, CommitRow,
      CommitRefused, CleanStaging, Unreadable, Reopen,
      StartPublish, VerifyStaged, PublishRejected, PublishMoves,
      PublishOccupied, PublishFails, PublishRefused, PublishUncertain,
      ConfirmLive, CompletePublish, StartCommit, CommitInstall, CommitInstallRefused,
      StartQuarantine, QuarantinePublished, QuarantineFails, CompleteQuarantine,
      FailCommit, QuarantineFailed, StartCleanup, Cleanup, CompleteCleanup,
      InspectAmbiguous, InspectOwned, AdoptCommitStep, InspectRolledBack,
      InspectOccupied, InspectAdoptable, InspectUnpublished, ReopenPublish, ReopenCommit,
      RestateCommit, Tidy, CommitPayloadUnavailable
<1>2. CASE RemovalStep
  BY <1>2
  DEF RemovalStep, RemovalExecution, RemovalRecovery, Skip, StepWrite, CommitRow,
      CommitRefused, Unreadable,
      StartRemoval, SetAside, SetAsideFails, AsideFailed, CheckAside,
      CompleteAside, StartRemovalCommit, CommitRemoval, CommitRemovalRefused, Undo, UndoUnread,
      StartRestore, Restore, RestoreFails, CompleteRestore, RestoreFailed,
      FailRemovalCommit, InspectUndo, InspectInconsistent, InspectRemoved,
      RemovedCommitStep, InspectMissing, InspectRetry, ReopenRemoval
<1>3. QED
  BY <1>1, <1>2

\* An operation that has not succeeded has no deployment row, and a standing
\* removal has its deployment still recorded: recovery finds neither already
\* committed.
LEMMA NothingCommitted ==
    ASSUME Inv, WInv, pc = "inspect"
    PROVE  /\ cur \in Installs => ~OwnsDeployment
           /\ cur \in Removals => ~RemovedInDatabase
<1>1. cur \in Ops /\ opState[cur] \in Started
  BY DEF Inv, IInv, CurOK, Fits, SharedLabels, WInv, StageOK, Engine
<1>2. Sole(cur)
  BY <1>1 DEF WInv, SoleOK, Started, Standing
<1>3. CASE cur \in Installs
  <2>1. NoTwin(cur)
    BY <1>2, <1>3 DEF Sole
  <2>2. cur \notin Removals
    BY <1>3, OpsAssumption
  <2>3. QED
    BY <2>1, <2>2 DEF NoTwin, OwnsDeployment, IsOwn, SamePackage
<1>4. CASE cur \in Removals
  <2>1. cur \notin Installs
    BY <1>4, OpsAssumption
  <2>2. QED
    BY <1>2, <1>4, <2>1 DEF Sole, RemovedInDatabase
<1>5. QED
  BY <1>1, <1>3, <1>4 DEF Ops

\* How a step of an engine moves through its handler.
Works ==
    /\ UNCHANGED <<opState, rows, rev>>
    /\ \/ pc \in Engine /\ pc' \in Engine \cup {"return_err"}
       \/ pc \in AfterCommit /\ pc' \in AfterCommit \cup {"next"}
    /\ pc' \in Ready => pc \in Ready \/ ~Recovering
    /\ pc' # "inspect" /\ pc' # "reconcile"
Reopens ==
    /\ pc \in {"reopen_publish", "reopen_commit", "reopen_removal"}
    /\ UNCHANGED <<rows, rev>>
    /\ \/ snap[cur] = "Committing" /\ UNCHANGED opState
       \/ Transition(cur, "Committing")
    /\ \/ pc' \in Engine /\ pc' # "inspect" /\ (snap[cur] = "Committing" \/ Accepts(cur, "Committing"))
       \/ pc' = "next"
Commits ==
    /\ pc \in Ready
    /\ MayCommit(cur)
    /\ opState' = [opState EXCEPT ![cur] = "Succeeded"]
    /\ rev' = rev + 1
    /\ rows' = IF cur \in Installs THEN rows \cup {cur} ELSE rows \ {target[cur]}
    /\ pc' \in AfterCommit \cup {"next"}
Apart ==
    /\ pc' \in ConfirmOnly => ~Recovering
    /\ pc' \in RecoverOnly => Recovering
    /\ branch' = "aside_again" => Recovering

\* The install engine works, reopens or commits.
LEMMA InstallFlow ==
    ASSUME Inv, WInv, InstallStep
    PROVE  (Works \/ Reopens \/ Commits) /\ Apart
<1> USE DEF Works, Reopens, Commits, Apart, Engine, AfterCommit, Unreached, ConfirmOnly,
            RecoverOnly, Ready, InstallLabels, InstallWrites, RemovalLabels, RemovalWrites
<1>0. Control
  BY DEF WInv
<1>1. CASE CommitInstall
  <2>1. cur \in Installs
    BY <1>1 DEF CommitInstall, Inv, IInv, CurOK, Fits
  <2>2. QED
    BY <1>0, <1>1, <2>1 DEF Control, CommitInstall, CommitRow, MayCommit, Go
<1>2. CASE ReopenPublish \/ ReopenCommit
  BY <1>0, <1>2 DEF Control, ReopenPublish, ReopenCommit, Reopen, Skip, store, Go
<1>3. CASE InspectOwned
  BY <1>3, NothingCommitted DEF InspectOwned, AtInstall
<1>4. CASE InstallExecution /\ ~CommitInstall
  BY <1>0, <1>4
  DEF Control, InstallExecution, Skip, StepWrite, store, Go,
      CommitRefused, CleanStaging, Unreadable,
      StartPublish, VerifyStaged, PublishRejected, PublishMoves,
      PublishOccupied, PublishFails, PublishRefused, PublishUncertain,
      ConfirmLive, CompletePublish, StartCommit, CommitInstallRefused,
      StartQuarantine, QuarantinePublished, QuarantineFails, CompleteQuarantine,
      FailCommit, QuarantineFailed, StartCleanup, Cleanup, CompleteCleanup,
      CommitPayloadUnavailable
<1>5. CASE InstallRecovery /\ ~(ReopenPublish \/ ReopenCommit \/ InspectOwned)
  BY <1>0, <1>5
  DEF Control, InstallRecovery, Skip, StepWrite, store, Go, CleanStaging, AtInstall,
      InspectAmbiguous, AdoptCommitStep, InspectRolledBack,
      InspectOccupied, InspectAdoptable, InspectUnpublished, RestateCommit, Tidy
<1>6. QED
  BY <1>1, <1>2, <1>3, <1>4, <1>5 DEF InstallStep

\* So does the removal engine.
LEMMA RemovalFlow ==
    ASSUME Inv, WInv, RemovalStep
    PROVE  (Works \/ Reopens \/ Commits) /\ Apart
<1> USE DEF Works, Reopens, Commits, Apart, Engine, AfterCommit, Unreached, ConfirmOnly,
            RecoverOnly, Ready, InstallLabels, InstallWrites, RemovalLabels, RemovalWrites
<1>0. Control
  BY DEF WInv
<1>1. CASE CommitRemoval
  <2>1. cur \notin Installs
    BY <1>1, OpsAssumption DEF CommitRemoval, Inv, IInv, CurOK, Fits
  <2>2. QED
    BY <1>0, <1>1, <2>1 DEF Control, CommitRemoval, CommitRow, MayCommit, Go
<1>2. CASE ReopenRemoval
  BY <1>0, <1>2 DEF Control, ReopenRemoval, Skip, store, Go
<1>3. CASE InspectInconsistent \/ InspectRemoved
  BY <1>3, NothingCommitted DEF InspectInconsistent, InspectRemoved, AtRemoval
<1>4. CASE RemovalExecution /\ ~CommitRemoval
  <2>1. CASE CompleteAside
    BY <1>0, <2>1 DEF Control, CompleteAside, Skip, StepWrite, store, Go
  <2>2. CASE Undo \/ UndoUnread \/ SetAside \/ SetAsideFails \/ Restore \/ RestoreFails
    BY <1>0, <2>2
    DEF Control, Undo, UndoUnread, SetAside, SetAsideFails, Restore, RestoreFails, store, Go
  <2>3. CASE RemovalExecution
             /\ ~(\/ CommitRemoval \/ CompleteAside \/ Undo \/ UndoUnread \/ SetAside
                  \/ SetAsideFails \/ Restore \/ RestoreFails)
    BY <1>0, <2>3
    DEF Control, RemovalExecution, Skip, StepWrite, store, Go, CommitRefused, Unreadable,
        StartRemoval, AsideFailed, CheckAside, StartRemovalCommit, CommitRemovalRefused,
        StartRestore, CompleteRestore, RestoreFailed, FailRemovalCommit
  <2>4. QED
    BY <1>4, <2>1, <2>2, <2>3
<1>5. CASE RemovalRecovery /\ ~(ReopenRemoval \/ InspectInconsistent \/ InspectRemoved)
  BY <1>0, <1>5
  DEF Control, RemovalRecovery, Skip, StepWrite, store, Go, AtRemoval,
      InspectUndo, RemovedCommitStep, InspectMissing, InspectRetry
<1>6. QED
  BY <1>1, <1>2, <1>3, <1>4, <1>5 DEF RemovalStep
-----------------------------------------------------------------------------
(* The invariant is inductive.                                              *)

\* A handler past "prepare" works on an operation.
LEMMA AtWork ==
    ASSUME Inv, pc \in Engine \cup AfterCommit \cup {"prepare", "run", "begin_commit", "reconcile", "return_err", "return_early"}
    PROVE  cur \in Ops
BY DEF Inv, IInv, CurOK, Fits, Engine, AfterCommit, SharedLabels, InstallLabels, InstallWrites,
       RemovalLabels, RemovalWrites, Ops

\* Every step of an engine keeps the invariant.
LEMMA EngineKeepsW ==
    ASSUME Inv, WInv, InstallStep \/ RemovalStep
    PROVE  WInv'
<1>1. UNCHANGED <<plans, procs, cur, env>>
  BY EngineFrame
<1>2. (Works \/ Reopens \/ Commits) /\ Apart
  BY InstallFlow, RemovalFlow
<1>3. cur \in Ops
  BY <1>2, AtWork
  DEF Works, Reopens, Commits, Ready, Engine, AfterCommit, Unreached, InstallLabels, InstallWrites,
      RemovalLabels, RemovalWrites
<1>4. opState \in [Ops -> States]
  BY DEF Inv, IInv, TypeOK
<1>5. Control'
  BY <1>1, <1>2
  DEF WInv, Control, Works, Reopens, Commits, Apart, Ready, procs, Recovering,
      Engine, AfterCommit, Unreached, InstallLabels, InstallWrites, RemovalLabels, RemovalWrites
<1>6. CASE Works
  <2>1. SnapTrue'
    BY <1>1, <1>6 DEF WInv, SnapTrue, Works, procs
  <2>2. StageOK'
    BY <1>1, <1>6
    DEF WInv, StageOK, Works, procs, Recovering, Engine, AfterCommit, Unreached, Ready,
        InstallLabels, InstallWrites, RemovalLabels, RemovalWrites
  <2>3. SoleOK'
    BY <1>1, <1>6 DEF WInv, SoleOK, Sole, NoTwin, Works, procs, plans
  <2>4. PreviewOK'
    BY <1>1, <1>6
    DEF WInv, PreviewOK, NoTwin, Works, procs, plans, Engine, AfterCommit, Unreached,
        InstallLabels, InstallWrites, RemovalLabels, RemovalWrites
  <2>5. QED
    BY <1>5, <2>1, <2>2, <2>3, <2>4 DEF WInv
<1>7. CASE Reopens
  <2>1. opState[cur] \in Started /\ opState'[cur] = "Committing"
    BY <1>3, <1>4, <1>7
    DEF WInv, StageOK, Reopens, Engine, AfterCommit, Unreached, InstallLabels, InstallWrites,
        RemovalLabels, RemovalWrites, Transition, Accepts, IsValidTransition, Successors,
        OperationState, Started
  <2>2. \A o \in Ops \ {cur} : opState'[o] = opState[o]
    BY <1>4, <1>7 DEF Reopens, Transition
  <2>3. SnapTrue'
    BY <1>1, <1>7, <2>2
    DEF WInv, SnapTrue, Reopens, procs, Engine, AfterCommit, InstallLabels, InstallWrites,
        RemovalLabels, RemovalWrites
  <2>4. StageOK'
    BY <1>1, <1>7, <2>1, <2>2
    DEF WInv, StageOK, Reopens, procs, Recovering, Engine, AfterCommit, Unreached, Ready,
        InstallLabels, InstallWrites, RemovalLabels, RemovalWrites, Started, Reachable
  <2>5. SoleOK'
    BY <1>1, <1>3, <1>7, <2>1, <2>2
    DEF WInv, SoleOK, Sole, NoTwin, Reopens, procs, plans, Started, Standing
  <2>6. PreviewOK'
    BY <1>1, <1>3, <1>7, <2>1, <2>2
    DEF WInv, PreviewOK, NoTwin, Reopens, procs, plans, Engine, AfterCommit, Unreached,
        InstallLabels, InstallWrites, RemovalLabels, RemovalWrites, Started
  <2>7. QED
    BY <1>5, <2>3, <2>4, <2>5, <2>6 DEF WInv
<1>8. CASE Commits
  <2>1. opState[cur] = "Committing" /\ opState'[cur] = "Succeeded"
    BY <1>3, <1>4, <1>8 DEF Commits, MayCommit
  <2>2. \A o \in Ops \ {cur} : opState'[o] = opState[o]
    BY <1>4, <1>8 DEF Commits
  <2>3. \A o \in Ops : opState'[o] \notin Standing
    BY <1>3, <2>1, <2>2 DEF WInv, SoleOK, Sole, Standing
  <2>4. SnapTrue'
    BY <1>1, <1>8, <2>2 DEF WInv, SnapTrue, Commits, procs, AfterCommit
  <2>5. StageOK'
    BY <1>1, <1>8, <2>1, <2>2
    DEF WInv, StageOK, Commits, procs, Recovering, Engine, AfterCommit, Unreached, Ready,
        InstallLabels, InstallWrites, RemovalLabels, RemovalWrites, Reachable
  <2>6. SoleOK'
    BY <2>3 DEF SoleOK
  <2>7. PreviewOK'
    <3>1. rev \in Nat /\ expRev \in [Ops -> Nat] /\ rev' = rev + 1 /\ expRev' = expRev
      BY <1>1, <1>8 DEF Commits, plans, Inv, IInv, TypeOK
    <3>2. \A o \in Ops : opState'[o] # "New" => expRev[o] <= rev
      BY <1>3, <2>1, <2>2 DEF WInv, PreviewOK
    <3>3. pc' # "prepare"
      BY <1>8 DEF Commits, AfterCommit
    <3>4. QED
      BY <3>1, <3>2, <3>3 DEF PreviewOK
  <2>8. QED
    BY <1>5, <2>4, <2>5, <2>6, <2>7 DEF WInv
<1>9. QED
  BY <1>2, <1>6, <1>7, <1>8

\* When nothing new stands in the way, and the store is as it was.
LEMMA SoleLess ==
    ASSUME SoleOK, UNCHANGED <<rev, rows, expRev, target>>, gate'[Window] \in {NoOp, gate[Window]},
           \A o \in Ops : opState'[o] \in Standing => opState[o] \in Standing
    PROVE  SoleOK'
BY DEF SoleOK, Sole, NoTwin

\* When there are no new previews, and the store is as it was.
LEMMA PreviewLess ==
    ASSUME PreviewOK, UNCHANGED <<rev, rows, plans>>, pc' # "prepare",
           \A o \in Ops : /\ opState'[o] # "New" => opState[o] # "New"
                          /\ opState'[o] = "Draft" => opState[o] = "Draft"
    PROVE  PreviewOK'
BY DEF PreviewOK, NoTwin, plans

\* While the window confirms an operation, nothing else stands in the way.
LEMMA ConfirmedAlone ==
    ASSUME Inv, WInv, pc # "idle", ~Recovering
    PROVE  /\ who = Window /\ window = "open" /\ gate[Window] = cur /\ cur \in Ops
           /\ \A o \in Ops : opState[o] \in Standing => o = cur
           /\ \A o \in Ops : snap[o] = "New"
<1>1. who = Window /\ window = "open"
  BY DEF WInv, Control, Recovering, Inv, IInv, TypeOK
<1>2. gate[Window] = cur /\ cur \in Ops
  BY <1>1 DEF WInv, Control
<1>3. \A o \in Ops : opState[o] \in Standing => o = cur
  BY <1>2, OpsAssumption DEF WInv, SoleOK, Sole
<1>4. QED
  BY <1>1, <1>2, <1>3 DEF WInv, SnapTrue

\* From the confirmation to the engine.
LEMMA AdvanceKeepsW ==
    ASSUME Inv, WInv, Prepare \/ Run \/ BeginCommit
    PROVE  WInv'
<1>1. cur \in Ops /\ ~Recovering /\ pc # "idle"
  BY AtWork DEF Prepare, Run, BeginCommit, Advance, WInv, Control, ConfirmOnly
<1>2. UNCHANGED <<plans, store, procs, cur, branch>>
  BY DEF Prepare, Run, BeginCommit, Advance
<1>3. opState \in [Ops -> States]
  BY DEF Inv, IInv, TypeOK
<1>4. \/ pc = "prepare" /\ pc' = "run" /\ opState'[cur] = "Prepared"
      \/ pc = "run" /\ pc' = "begin_commit" /\ opState'[cur] = "Running"
      \/ /\ pc = "begin_commit" /\ pc' \in {"start_publish", "start_removal"}
         /\ opState'[cur] = "Committing"
  BY <1>1, <1>3
  DEF Prepare, Run, BeginCommit, Advance, Go, Transition, Accepts, IsValidTransition, Successors,
      OperationState, WInv, StageOK
<1>5. \A o \in Ops \ {cur} : opState'[o] = opState[o]
  BY <1>3 DEF Prepare, Run, BeginCommit, Advance, Transition
<1>6. \A o \in Ops : opState[o] \in Standing => o = cur
  BY <1>1, ConfirmedAlone
<1>7. Control'
  BY <1>1, <1>2, <1>4
  DEF WInv, Control, procs, Recovering, ConfirmOnly, RecoverOnly, Unreached
<1>8. SnapTrue'
  BY <1>1, <1>2, <1>4, ConfirmedAlone DEF SnapTrue, procs
<1>9. StageOK'
  BY <1>1, <1>2, <1>4, <1>5
  DEF WInv, StageOK, procs, Recovering, Engine, AfterCommit, Unreached, Ready,
      InstallLabels, InstallWrites, RemovalLabels, RemovalWrites, Started, Reachable
<1>10. Sole(cur)
  <2>1. CASE opState[cur] \in Standing
    BY <1>1, <2>1 DEF WInv, SoleOK
  <2>2. CASE opState[cur] \notin Standing
    <3>1. pc = "prepare" /\ opState[cur] = "Draft"
      BY <1>4, <2>2 DEF WInv, StageOK, Standing
    <3>2. gate[Window] = cur
      BY <1>1, ConfirmedAlone
    <3>3. QED
      BY <1>1, <1>6, <3>1, <3>2 DEF WInv, PreviewOK, Sole
  <2>3. QED
    BY <2>1, <2>2
<1>11. SoleOK'
  <2>1. \A o \in Ops : opState'[o] \in Standing => o = cur
    BY <1>5, <1>6
  <2>2. QED
    BY <1>2, <1>10, <2>1 DEF SoleOK, Sole, NoTwin, procs, plans, store
<1>12. PreviewOK'
  <2>1. \A o \in Ops : /\ opState'[o] # "New" => opState[o] # "New"
                       /\ opState'[o] = "Draft" => opState[o] = "Draft"
    BY <1>1, <1>4, <1>5 DEF WInv, StageOK
  <2>2. QED
    BY <1>2, <1>4, <2>1, PreviewLess DEF WInv, store
<1>13. QED
  BY <1>7, <1>8, <1>9, <1>11, <1>12 DEF WInv

\* The last write of a handler, and one that cannot be made.
LEMMA EndKeepsW ==
    ASSUME Inv, WInv,
           ToFailed \/ ToSucceeded \/ ToRecovery \/ StoreFails
             \/ Unreadable("inspect") \/ Unreadable("undo")
    PROVE  WInv'
<1>1. UNCHANGED <<plans, store, procs, cur, branch>>
  BY DEF ToFailed, ToSucceeded, ToRecovery, EndAs, StoreFails, Unreadable
<1>2. opState \in [Ops -> States] /\ ~ToSucceeded
  BY DEF Inv, IInv, TypeOK, WInv, Control, Unreached, ToSucceeded
<1>3. /\ pc \in Engine \cup AfterCommit \cup {"prepare", "run", "begin_commit"}
      /\ pc # "idle" /\ cur \in Ops
  <2>1. /\ pc \in Engine \cup AfterCommit \cup {"prepare", "run", "begin_commit"}
        /\ pc # "idle"
    BY <1>2
    DEF WInv, Control, ToFailed, ToRecovery, StoreFails, Unreadable, Advances, Engine,
        AfterCommit, Unreached, InstallLabels, InstallWrites, RemovalLabels, RemovalWrites
  <2>2. QED
    BY <2>1, AtWork
<1>4. \/ pc' = "next" /\ Recovering
      \/ pc' \in {"return_early", "return_err"} /\ ~Recovering
      \/ pc' = "to_recovery" /\ pc \in {"inspect", "undo"} /\ UNCHANGED opState
  BY <1>1, <1>2, <1>3
  DEF WInv, Control, ToFailed, ToRecovery, EndAs, StoreFails, Unreadable, Go, Advances, ConfirmOnly
<1>5. \/ UNCHANGED opState
      \/ pc \in Engine /\ opState[cur] \in Started /\ opState'[cur] \in {"Failed", "RecoveryRequired"}
  BY <1>2, <1>3
  DEF WInv, StageOK, ToFailed, ToRecovery, EndAs, StoreFails, Unreadable, Transition, Engine
<1>6. \A o \in Ops \ {cur} : opState'[o] = opState[o]
  BY <1>2 DEF ToFailed, ToRecovery, EndAs, StoreFails, Unreadable, Transition
<1>7. Control'
  BY <1>1, <1>3, <1>4 DEF WInv, Control, procs, Recovering, ConfirmOnly, RecoverOnly, Unreached
<1>8. SnapTrue'
  BY <1>1, <1>4, <1>6 DEF WInv, SnapTrue, procs
<1>9. StageOK'
  BY <1>1, <1>3, <1>4, <1>5, <1>6
  DEF WInv, StageOK, procs, Recovering, Engine, AfterCommit, Unreached, Ready,
      InstallLabels, InstallWrites, RemovalLabels, RemovalWrites, Started, Reachable
<1>10. SoleOK'
  <2>1. \A o \in Ops : opState'[o] \in Standing => opState[o] \in Standing
    BY <1>3, <1>5, <1>6 DEF Standing, Started
  <2>2. QED
    BY <1>1, <2>1, SoleLess DEF WInv, store, plans, procs
<1>11. PreviewOK'
  <2>1. \A o \in Ops : /\ opState'[o] # "New" => opState[o] # "New"
                       /\ opState'[o] = "Draft" => opState[o] = "Draft"
    BY <1>3, <1>5, <1>6 DEF Started
  <2>2. QED
    BY <1>1, <1>4, <2>1, PreviewLess DEF WInv, store
<1>12. QED
  BY <1>7, <1>8, <1>9, <1>10, <1>11 DEF WInv

\* Leaving a confirmation: the lock and the gate are given up.
LEMMA ReturnKeepsW ==
    ASSUME Inv, WInv, ReturnOk \/ ReturnEarly \/ ReturnErr \/ ReturnErrUnrecorded
    PROVE  WInv'
<1>1. pc # "idle" /\ ~Recovering
  BY DEF ReturnOk, ReturnEarly, ReturnErr, ReturnErrUnrecorded, WInv, Control, ConfirmOnly
<1>2. /\ who = Window /\ window = "open" /\ cur \in Ops
      /\ \A o \in Ops : snap[o] = "New"
  BY <1>1, ConfirmedAlone
<1>3. /\ who' = NoProc /\ cur' = NoOp /\ pc' = "idle" /\ branch' = "plain"
      /\ UNCHANGED <<window, snap, plans, rev, rows>> /\ gate'[Window] = NoOp
  BY <1>2, ProcessAssumption
  DEF ReturnOk, ReturnEarly, ReturnErr, ReturnErrUnrecorded, Release, store
<1>4. ASSUME NEW o \in Ops
      PROVE  \/ opState'[o] = opState[o]
             \/ opState[o] = "Draft" /\ opState'[o] = "Cancelled"
             \/ opState[o] \in {"Running", "Committing"} /\ opState'[o] = "RecoveryRequired"
  <2>1. opState \in [Ops -> States] /\ opState[o] \in Reachable
    BY DEF Inv, IInv, TypeOK, WInv, StageOK
  <2>2. CASE ReturnOk
    BY <2>2 DEF ReturnOk, ReleaseStale, Stale
  <2>3. CASE ReturnEarly \/ ReturnErrUnrecorded
    BY <2>3 DEF ReturnEarly, ReturnErrUnrecorded
  <2>4. CASE ReturnErr
    BY <2>1, <2>4 DEF ReturnErr, IsStillMutating, Reachable
  <2>5. QED
    BY <2>2, <2>3, <2>4
<1>5. Control' /\ SnapTrue'
  BY <1>2, <1>3, ProcessAssumption
  DEF WInv, Control, SnapTrue, Recovering, ConfirmOnly, RecoverOnly, Unreached
<1>6. StageOK'
  BY <1>3, <1>4, OpsAssumption
  DEF WInv, StageOK, Engine, AfterCommit, Unreached, Ready, InstallLabels, InstallWrites,
      RemovalLabels, RemovalWrites, Reachable
<1>7. SoleOK'
  BY <1>3, <1>4, SoleLess DEF WInv, plans, Standing
<1>8. PreviewOK'
  BY <1>3, <1>4, PreviewLess DEF WInv
<1>9. QED
  BY <1>5, <1>6, <1>7, <1>8 DEF WInv

\* Recovery going through its list.
LEMMA ListKeepsW ==
    ASSUME Inv, WInv, NextListed \/ Reconcile \/ ReconcileFails
    PROVE  WInv'
<1>1. Recovering /\ who = Window /\ window = "starting" /\ UNCHANGED <<plans, rev, rows, gate>>
  BY DEF NextListed, Reconcile, ReconcileFails, WInv, Control, RecoverOnly, Recovering, store, procs
<1>2. opState \in [Ops -> States] /\ snap \in [Ops -> States] /\ cur \in Ops \cup {NoOp}
  BY DEF Inv, IInv, TypeOK
<1>3. CASE NextListed
  <2>1. UNCHANGED opState
    BY <1>3 DEF NextListed
  <2>2. \A o \in Ops : snap'[o] = IF o = cur THEN "New" ELSE snap[o]
    BY <1>3 DEF NextListed
  <2>3. branch' = "plain"
        /\ \/ /\ Listed \subseteq {cur}
              /\ cur' = NoOp /\ who' = NoProc /\ window' = "open" /\ pc' = "idle"
           \/ /\ cur' \in Listed \ {cur} /\ pc' = "reconcile"
              /\ UNCHANGED <<who, window>>
    BY <1>3 DEF NextListed
  <2>4. Control'
    BY <1>1, <2>3, ProcessAssumption
    DEF WInv, Control, Recovering, ConfirmOnly, RecoverOnly, Unreached
  <2>5. SnapTrue'
    BY <1>1, <2>1, <2>2, <2>3 DEF WInv, SnapTrue, Listed
  <2>6. StageOK'
    BY <1>1, <2>1, <2>2, <2>3, OpsAssumption
    DEF WInv, Control, StageOK, Listed, Engine, AfterCommit, Unreached, Ready, InstallLabels, InstallWrites,
        RemovalLabels, RemovalWrites
  <2>7. SoleOK' /\ PreviewOK'
    BY <1>1, <2>1, <2>3, SoleLess, PreviewLess DEF WInv, plans
  <2>8. QED
    BY <2>4, <2>5, <2>6, <2>7 DEF WInv
<1>4. CASE Reconcile \/ ReconcileFails
  <2>1. cur \in Ops /\ pc = "reconcile" /\ snap[cur] # "New" /\ opState[cur] = snap[cur]
        /\ opState[cur] \in Standing \cup {"Draft"}
    BY <1>4, AtWork DEF Reconcile, ReconcileFails, WInv, SnapTrue, StageOK
  <2>2. UNCHANGED <<procs, cur, branch>>
    BY <1>4 DEF Reconcile, ReconcileFails
  <2>3. \/ pc' = "next" /\ (UNCHANGED opState \/ opState' = [opState EXCEPT ![cur] = "Cancelled"])
        \/ pc' = "inspect" /\ UNCHANGED opState /\ opState[cur] \in Started
    BY <1>2, <1>4, <2>1
    DEF Reconcile, ReconcileFails, Go, Transition, Accepts, IsValidTransition, Successors,
        OperationState, Standing, Started
  <2>4. \A o \in Ops : opState'[o] = opState[o] \/ (o = cur /\ opState'[o] = "Cancelled" /\ pc' = "next")
    BY <1>2, <2>1, <2>3
  <2>5. Control'
    BY <1>1, <2>2, <2>3, ProcessAssumption
    DEF WInv, Control, Recovering, ConfirmOnly, RecoverOnly, Unreached, procs
  <2>6. SnapTrue'
    BY <1>1, <2>1, <2>2, <2>3, <2>4 DEF WInv, SnapTrue, procs
  <2>7. StageOK'
    BY <1>1, <2>1, <2>2, <2>3, <2>4
    DEF WInv, StageOK, Engine, AfterCommit, Unreached, Ready, InstallLabels, InstallWrites,
        RemovalLabels, RemovalWrites, Reachable, procs, Recovering
  <2>8. SoleOK' /\ PreviewOK'
    BY <1>1, <2>1, <2>3, <2>4, SoleLess, PreviewLess DEF WInv, plans, Standing
  <2>9. QED
    BY <2>5, <2>6, <2>7, <2>8 DEF WInv
<1>5. QED
  BY <1>3, <1>4

\* Every step of a handler keeps the invariant.
LEMMA HandlerKeepsW ==
    ASSUME Inv, WInv, Handler
    PROVE  WInv'
BY EngineKeepsW, AdvanceKeepsW, EndKeepsW, ReturnKeepsW, ListKeepsW DEF Handler

\* What is only asked of a window with nothing in hand.
LEMMA FreeWindow ==
    ASSUME Inv, WInv, Free(Window)
    PROVE  /\ window = "open" /\ who = NoProc /\ pc = "idle" /\ cur = NoOp /\ gate[Window] = NoOp
           /\ \A o \in Ops : snap[o] = "New"
           /\ ~Recovering
BY DEF Free, Running, WInv, Control, SnapTrue, Recovering

\* The operations in Blocking are those that stand in the way.
LEMMA BlockingStands ==
    ASSUME Inv, WInv
    PROVE  Blocking = {o \in Ops : opState[o] \in Standing}
BY DEF Inv, IInv, TypeOK, WInv, StageOK, Blocking, Unresolved, IsBlocking, IsUnresolved, IsPreview,
       Terminal, OperationState, Reachable, Standing

\* A new preview tells the truth of the present revision.
LEMMA PreviewKeepsW ==
    ASSUME OneWindow, Inv, WInv, NEW o \in Ops,
           (o \in Installs /\ PreviewInstall(o)) \/ (o \in Removals /\ PreviewRemoval(o))
    PROVE  WInv'
<1>1. OwnerOf[o] = Window
  BY OpsAssumption DEF OneWindow
<1>2. Free(Window) /\ opState[o] = "New" /\ Blocking = {}
  BY <1>1 DEF PreviewInstall, PreviewRemoval
<1>3. UNCHANGED <<rev, rows, procs, cur, pc, branch>>
  BY DEF PreviewInstall, PreviewRemoval, store
<1>4. /\ opState' = [opState EXCEPT ![o] = "Draft"] /\ expRev' = [expRev EXCEPT ![o] = rev]
      /\ opState \in [Ops -> States] /\ expRev \in [Ops -> Nat] /\ rev \in Nat
  BY DEF PreviewInstall, PreviewRemoval, Inv, IInv, TypeOK
<1>5. /\ o \in Installs /\ installable'[o] => NoTwin(o)
      /\ o \in Removals => target'[o] \in rows
      /\ \A q \in Installs \ {o} : installable'[q] = installable[q]
      /\ \A q \in Removals \ {o} : target'[q] = target[q]
  BY OpsAssumption DEF PreviewInstall, PreviewRemoval, NoTwin, Inv, IInv, TypeOK
<1>6. \A q \in Ops : opState'[q] \notin Standing
  BY <1>2, <1>4, BlockingStands DEF Standing
<1>7. Control' /\ SnapTrue'
  BY <1>2, <1>3, FreeWindow DEF WInv, Control, SnapTrue, Recovering, procs
<1>8. StageOK'
  BY <1>2, <1>3, <1>4, FreeWindow, OpsAssumption
  DEF procs, WInv, StageOK, Engine, AfterCommit, Unreached, Ready, InstallLabels, InstallWrites,
      RemovalLabels, RemovalWrites, Reachable
<1>9. SoleOK'
  BY <1>6 DEF SoleOK
<1>10. PreviewOK'
  <2>1. pc' # "prepare"
    BY <1>2, <1>3, FreeWindow
  <2>2. ASSUME NEW q \in Ops, opState'[q] # "New"
        PROVE  expRev'[q] <= rev
    BY <1>4, <2>2 DEF WInv, PreviewOK
  <2>3. ASSUME NEW q \in Ops, opState'[q] = "Draft", expRev'[q] = rev
        PROVE  /\ q \in Installs /\ installable'[q] => NoTwin(q)
               /\ q \in Removals => target'[q] \in rows
    BY <1>4, <1>5, <2>3 DEF WInv, PreviewOK
  <2>4. QED
    BY <1>3, <2>1, <2>2, <2>3 DEF PreviewOK, NoTwin
<1>11. QED
  BY <1>7, <1>8, <1>9, <1>10 DEF WInv

\* Closing an operation by hand, as a preview or as one left for recovery.
LEMMA CloseKeepsW ==
    ASSUME OneWindow, Inv, WInv, NEW o \in Ops, CancelPreview(o) \/ MarkHandled(o)
    PROVE  WInv'
<1>1. OwnerOf[o] = Window
  BY OpsAssumption DEF OneWindow
<1>2. Free(Window) /\ UNCHANGED <<rev, rows, plans, procs, cur, pc, branch>>
  BY <1>1 DEF CancelPreview, MarkHandled, store
<1>3. \A q \in Ops : \/ opState'[q] = opState[q]
                     \/ opState[q] # "New" /\ opState'[q] \in {"Cancelled", "Failed"}
  BY DEF CancelPreview, MarkHandled, Transition, Inv, IInv, TypeOK
<1>4. Control' /\ SnapTrue'
  BY <1>2, FreeWindow DEF WInv, Control, SnapTrue, Recovering, procs
<1>5. StageOK'
  BY <1>2, <1>3, FreeWindow, OpsAssumption
  DEF procs, WInv, StageOK, Engine, AfterCommit, Unreached, Ready, InstallLabels, InstallWrites,
      RemovalLabels, RemovalWrites, Reachable
<1>6. SoleOK'
  BY <1>2, <1>3, SoleLess DEF WInv, plans, procs, Standing
<1>7. PreviewOK'
  BY <1>2, <1>3, FreeWindow, PreviewLess DEF WInv
<1>8. QED
  BY <1>4, <1>5, <1>6, <1>7 DEF WInv

\* The gate lets a change through only while nothing else stands in the way.
LEMMA PassKeepsW ==
    ASSUME OneWindow, Inv, WInv,
           (\E o \in Ops : PassGate(o)) \/ PassGateOther(Window)
    PROVE  WInv'
<1>1. PICK o : /\ gate' = [gate EXCEPT ![Window] = o]
               /\ Blocking \subseteq {o}
               /\ o \in Ops => opState[o] \in {"Draft", "Prepared"}
  <2>1. CASE PassGateOther(Window)
    BY <2>1, OpsAssumption DEF PassGateOther
  <2>2. CASE \E o \in Ops : PassGate(o)
    BY <2>2, OpsAssumption DEF PassGate, OneWindow
  <2>3. QED
    BY <2>1, <2>2
<1>2. Free(Window)
  BY OpsAssumption DEF PassGate, PassGateOther, OneWindow
<1>3. UNCHANGED <<opState, rev, rows, plans, window, who, snap, cur, pc, branch>>
  BY DEF PassGate, PassGateOther, store
<1>4. Control' /\ SnapTrue'
  BY <1>1, <1>2, <1>3, FreeWindow, ProcessAssumption DEF WInv, Control, SnapTrue, Recovering
<1>5. StageOK'
  BY <1>1, <1>2, <1>3, FreeWindow, ProcessAssumption DEF WInv, StageOK, Recovering, Inv, IInv, TypeOK
<1>6. SoleOK'
  <2>1. gate'[Window] = o
    BY <1>1, ProcessAssumption DEF Inv, IInv, TypeOK
  <2>2. ASSUME NEW q \in Ops, opState[q] \in Standing PROVE q = o
    BY <1>1, <2>2, BlockingStands
  <2>3. QED
    BY <1>3, <2>1, <2>2 DEF WInv, SoleOK, Sole, NoTwin, plans
<1>7. PreviewOK'
  BY <1>2, <1>3, FreeWindow, PreviewLess DEF WInv
<1>8. QED
  BY <1>4, <1>5, <1>6, <1>7 DEF WInv

\* With the lock, the confirmed operation is entered if it is current.
LEMMA EnterKeepsW ==
    ASSUME OneWindow, Inv, WInv, Enter(Window)
    PROVE  WInv'
<1>1. /\ gate[Window] \in Ops /\ gate[Window] # NoOp /\ who = NoProc
      /\ UNCHANGED <<plans, rev, rows, window, snap>>
  BY OpsAssumption DEF Enter, LockFree, store
<1>2. window = "open" /\ pc = "idle" /\ cur = NoOp /\ \A q \in Ops : snap[q] = "New"
  BY <1>1 DEF WInv, Control, SnapTrue, Inv, IInv, TypeOK
<1>3. CASE pc' = "idle"
  <2>1. gate'[Window] = NoOp /\ UNCHANGED <<who, cur, pc, branch>>
    BY <1>2, <1>3, ProcessAssumption DEF Enter, Inv, IInv, TypeOK
  <2>2. \A q \in Ops : \/ opState'[q] = opState[q]
                       \/ opState[q] = "Draft" /\ opState'[q] = "Cancelled"
    BY <1>2, <1>3 DEF Enter, ReleaseStale, Stale
  <2>3. Control' /\ SnapTrue'
    BY <1>1, <1>2, <2>1 DEF WInv, Control, SnapTrue, Recovering
  <2>4. StageOK'
    BY <1>2, <2>1, <2>2, OpsAssumption
    DEF WInv, StageOK, Engine, AfterCommit, Unreached, Ready, InstallLabels, InstallWrites,
        RemovalLabels, RemovalWrites, Reachable
  <2>5. SoleOK' /\ PreviewOK'
    BY <1>1, <1>3, <2>1, <2>2, SoleLess, PreviewLess DEF WInv, plans, Standing
  <2>6. QED
    BY <2>3, <2>4, <2>5 DEF WInv
<1>4. CASE pc' # "idle"
  <2>1. /\ rev = expRev[gate[Window]]
        /\ gate[Window] \in Installs => installable[gate[Window]]
        /\ who' = Window /\ cur' = gate[Window] /\ pc' = "prepare" /\ branch' = "plain"
        /\ UNCHANGED <<opState, gate>>
    BY <1>2, <1>4 DEF Enter
  <2>2. opState[gate[Window]] \in {"Draft", "Prepared"}
    BY <1>1, <1>2 DEF WInv, StageOK
  <2>3. Control' /\ SnapTrue'
    BY <1>1, <1>2, <2>1, ProcessAssumption
    DEF WInv, Control, SnapTrue, Recovering, ConfirmOnly, RecoverOnly, Unreached
  <2>4. StageOK'
    BY <1>1, <2>1, <2>2
    DEF WInv, StageOK, Engine, AfterCommit, Unreached, Ready, InstallLabels, InstallWrites,
        RemovalLabels, RemovalWrites
  <2>5. SoleOK' /\ PreviewOK'
    BY <1>1, <2>1, SoleLess DEF WInv, plans, PreviewOK, NoTwin
  <2>6. QED
    BY <2>3, <2>4, <2>5 DEF WInv
<1>5. QED
  BY <1>3, <1>4

\* Some other change moves the revision on, and stale previews with it.
LEMMA ApplyKeepsW ==
    ASSUME OneWindow, Inv, WInv, ApplyOther(Window)
    PROVE  WInv'
<1>1. /\ gate[Window] = OtherChange /\ who = NoProc
      /\ gate' = [gate EXCEPT ![Window] = NoOp]
      /\ UNCHANGED <<plans, rows, window, who, snap, cur, pc, branch>>
      /\ rev' = rev + 1 /\ ReleaseStale(rev + 1)
  BY DEF ApplyOther, LockFree
<1>2. window = "open" /\ pc = "idle" /\ gate'[Window] = NoOp /\ \A o \in Ops : snap[o] = "New"
  BY <1>1, OpsAssumption, ProcessAssumption
  DEF WInv, Control, SnapTrue, Inv, IInv, TypeOK
<1>3. \A o \in Ops : opState[o] \notin Standing
  BY <1>1, OpsAssumption DEF WInv, SoleOK, Sole
<1>4. \A o \in Ops : opState'[o] = IF opState[o] = "Draft" /\ expRev[o] # rev + 1
                                   THEN "Cancelled" ELSE opState[o]
  BY <1>1 DEF ReleaseStale, Stale
<1>5. Control' /\ SnapTrue'
  BY <1>1, <1>2 DEF WInv, Control, SnapTrue, Recovering
<1>6. StageOK'
  BY <1>1, <1>2, <1>4, OpsAssumption
  DEF WInv, StageOK, Engine, AfterCommit, Unreached, Ready, InstallLabels, InstallWrites,
      RemovalLabels, RemovalWrites, Reachable
<1>7. SoleOK'
  BY <1>3, <1>4 DEF SoleOK, Standing
<1>8. PreviewOK'
  <2>1. rev \in Nat /\ expRev \in [Ops -> Nat] /\ expRev' = expRev
    BY <1>1 DEF plans, Inv, IInv, TypeOK
  <2>2. \A o \in Ops : opState'[o] # "New" => expRev[o] <= rev
    BY <1>4 DEF WInv, PreviewOK
  <2>3. QED
    BY <1>1, <1>2, <2>1, <2>2 DEF PreviewOK
<1>9. QED
  BY <1>5, <1>6, <1>7, <1>8 DEF WInv

\* The window starts, or is asked to recover again.
LEMMA RecoveryStartKeepsW ==
    ASSUME OneWindow, Inv, WInv, Launch \/ RetryRecovery \/ EnterRecovery
    PROVE  WInv'
<1>1. UNCHANGED <<opState, plans, rev, rows, gate, cur, branch>>
  BY DEF Launch, RetryRecovery, EnterRecovery, store
<1>2. /\ who = NoProc /\ pc = "idle" /\ cur = NoOp /\ gate[Window] = NoOp
      /\ ~Recovering
  BY ProcessAssumption
  DEF Launch, RetryRecovery, EnterRecovery, Free, Running, WInv, Control, Recovering
<1>3. SoleOK'
  BY <1>1, SoleLess DEF WInv, plans
<1>4. CASE Launch \/ RetryRecovery
  <2>1. UNCHANGED <<who, pc>>
    BY <1>4 DEF Launch, RetryRecovery
  <2>2. window' \in {"open", "starting"}
        /\ \A o \in Ops : snap'[o] # "New" =>
              /\ window' = "starting"
              /\ snap'[o] = opState[o] /\ o \in Unresolved
    BY <1>4 DEF Launch, RetryRecovery, Snapshot, Retryable, Blocking
  <2>3. Control'
    BY <1>1, <1>2, <2>1, <2>2, ProcessAssumption
    DEF WInv, Control, Recovering, ConfirmOnly, RecoverOnly, Unreached
  <2>4. SnapTrue'
    BY <1>1, <2>2
    DEF WInv, StageOK, SnapTrue, Unresolved, IsUnresolved, Terminal, OperationState, Reachable,
        Standing
  <2>5. StageOK'
    BY <1>1, <1>2, <2>1
    DEF WInv, StageOK, Engine, AfterCommit, Unreached, Ready, InstallLabels, InstallWrites,
        RemovalLabels, RemovalWrites
  <2>6. PreviewOK'
    BY <1>1, <1>2, <2>1, PreviewLess DEF WInv
  <2>7. QED
    BY <1>3, <2>3, <2>4, <2>5, <2>6 DEF WInv
<1>5. CASE EnterRecovery
  <2>1. window = "starting" /\ who' = Window /\ pc' = "next" /\ UNCHANGED <<window, snap>>
    BY <1>5 DEF EnterRecovery, Go
  <2>2. Control'
    BY <1>1, <1>2, <2>1, ProcessAssumption
    DEF WInv, Control, Recovering, ConfirmOnly, RecoverOnly, Unreached
  <2>3. SnapTrue'
    BY <1>1, <1>2, <2>1, OpsAssumption DEF WInv, SnapTrue
  <2>4. StageOK'
    BY <1>1, <1>2, <2>1
    DEF WInv, StageOK, Engine, AfterCommit, Unreached, Ready, InstallLabels, InstallWrites,
        RemovalLabels, RemovalWrites
  <2>5. PreviewOK'
    BY <1>1, <2>1, PreviewLess DEF WInv
  <2>6. QED
    BY <1>3, <2>2, <2>3, <2>4, <2>5 DEF WInv
<1>6. QED
  BY <1>4, <1>5

\* One window never meets a lock that somebody else holds.
LEMMA LockIsOurs ==
    ASSUME OneWindow, Inv, WInv, NEW p \in Processes
    PROVE  p = Window /\ ~LockRefused(p) /\ ~RecoveryDeferred
BY DEF OneWindow, WInv, Control, LockRefused, RecoveryDeferred

\* Everything asked for keeps the invariant.
LEMMA AskedKeepsW ==
    ASSUME OneWindow, Inv, WInv, Asked
    PROVE  WInv'
<1>1. CASE (\E i \in Installs : PreviewInstall(i)) \/ (\E r \in Removals : PreviewRemoval(r))
  BY <1>1, PreviewKeepsW DEF Ops
<1>2. CASE \E o \in Ops : CancelPreview(o) \/ PassGate(o) \/ MarkHandled(o)
  BY <1>2, CloseKeepsW, PassKeepsW
<1>3. CASE \E p \in Processes : PassGateOther(p) \/ LockRefused(p) \/ Enter(p) \/ ApplyOther(p)
  BY <1>3, LockIsOurs, PassKeepsW, EnterKeepsW, ApplyKeepsW
<1>4. CASE Launch \/ RetryRecovery \/ EnterRecovery \/ RecoveryDeferred
  BY <1>4, RecoveryStartKeepsW, LockIsOurs, ProcessAssumption
<1>5. QED
  BY <1>1, <1>2, <1>3, <1>4 DEF Asked

\* A kill leaves the rows as they are, and nothing in hand.
LEMMA EnvironmentKeepsW ==
    ASSUME OneWindow, Inv, WInv, Environment
    PROVE  WInv'
<1>1. CASE Tamper
  BY <1>1
  DEF Tamper, WInv, Control, SnapTrue, StageOK, SoleOK, Sole, PreviewOK, NoTwin, Recovering, procs,
      plans, store
<1>2. CASE Crash(Window)
  <2>1. /\ UNCHANGED <<opState, plans, rev, rows>>
        /\ window' = "closed" /\ who' = NoProc /\ gate'[Window] = NoOp
        /\ \A o \in Ops : snap'[o] = "New"
    BY <1>2, ProcessAssumption DEF Crash, store, WInv, Control, Inv, IInv, TypeOK
  <2>2. pc' = "idle" /\ cur' = NoOp
    BY <1>2 DEF Crash, WInv, Control
  <2>3. branch' = "plain" \/ (UNCHANGED branch /\ who = NoProc)
    BY <1>2 DEF Crash, WInv, Control
  <2>4. Control' /\ SnapTrue'
    BY <2>1, <2>2, <2>3, ProcessAssumption
    DEF WInv, Control, SnapTrue, Recovering, ConfirmOnly, RecoverOnly, Unreached
  <2>5. StageOK'
    BY <2>1, <2>2, OpsAssumption
    DEF WInv, StageOK, Engine, AfterCommit, Unreached, Ready, InstallLabels, InstallWrites,
        RemovalLabels, RemovalWrites
  <2>6. SoleOK' /\ PreviewOK'
    BY <2>1, <2>2, SoleLess, PreviewLess DEF WInv, plans
  <2>7. QED
    BY <2>4, <2>5, <2>6 DEF WInv
<1>3. QED
  BY <1>1, <1>2, LockIsOurs DEF Environment

\* In an empty profile no window is open and nothing was ever asked for.
LEMMA InitW ==
    ASSUME Init
    PROVE  WInv
<1>1. /\ pc = "idle" /\ who = NoProc /\ cur = NoOp /\ window = "closed" /\ branch = "plain"
      /\ gate[Window] = NoOp /\ ~Recovering
      /\ \A o \in Ops : opState[o] = "New" /\ snap[o] = "New"
  BY ProcessAssumption DEF Init, Recovering
<1>2. Control
  BY <1>1 DEF Control, ConfirmOnly, RecoverOnly, Unreached
<1>3. SnapTrue /\ SoleOK /\ PreviewOK
  BY <1>1 DEF SnapTrue, SoleOK, PreviewOK, Standing
<1>4. StageOK
  BY <1>1, OpsAssumption
  DEF StageOK, Engine, AfterCommit, Ready, InstallLabels, InstallWrites, RemovalLabels,
      RemovalWrites, Reachable
<1>5. QED
  BY <1>2, <1>3, <1>4 DEF WInv

\* WInv is inductive.
LEMMA NextKeepsW ==
    ASSUME OneWindow, Inv, WInv, [Next]_vars
    PROVE  WInv'
<1>1. CASE UNCHANGED vars
  BY <1>1
  DEF vars, WInv, Control, SnapTrue, StageOK, SoleOK, Sole, PreviewOK, NoTwin, Recovering, procs,
      plans, store
<1>2. QED
  BY <1>1, HandlerKeepsW, AskedKeepsW, EnvironmentKeepsW DEF Next

\* The invariants of the engines hold for any number of programs.
LEMMA InvInvariance == Spec => []Inv
BY Invariance, RecordedInstallsSucceeded, PTL DEF Inv

\* With one window, so does WInv.
LEMMA WindowInvariance == OneWindow => (Spec => []WInv)
<1> SUFFICES ASSUME OneWindow PROVE Spec => []WInv
  OBVIOUS
<1>1. Init => WInv
  BY InitW
<1>2. Inv /\ WInv /\ [Next]_vars => WInv'
  BY NextKeepsW
<1>3. QED
  BY <1>1, <1>2, InvInvariance, PTL DEF Spec

-----------------------------------------------------------------------------
(* Success is one commit, and the journal tells of it.                      *)

\* Every step of the program leaves who has succeeded as it was, or commits.
LEMMA OnlyCommitsSucceed ==
    ASSUME Inv, WInv, [Next]_vars
    PROVE  \/ Commits
           \/ \A o \in Ops : opState'[o] = "Succeeded" => opState[o] = "Succeeded"
<1>0. opState \in [Ops -> States] /\ pc # "to_succeeded"
  BY DEF Inv, IInv, TypeOK, WInv, Control, Unreached
<1>1. CASE InstallStep \/ RemovalStep
  BY <1>0, <1>1, InstallFlow, RemovalFlow DEF Works, Reopens, Transition
<1>2. CASE Prepare \/ Run \/ BeginCommit \/ ToFailed \/ ToRecovery
  BY <1>0, <1>2 DEF Prepare, Run, BeginCommit, Advance, ToFailed, ToRecovery, EndAs, Transition
<1>3. CASE Reconcile \/ \E o \in Ops : CancelPreview(o) \/ MarkHandled(o)
  BY <1>0, <1>3 DEF Reconcile, CancelPreview, MarkHandled, Transition
<1>4. CASE ReturnOk \/ \E p \in Processes : Enter(p) \/ ApplyOther(p)
  BY <1>0, <1>4 DEF ReturnOk, Enter, ApplyOther, ReleaseStale
<1>5. CASE ReturnErr \/ (\E i \in Installs : PreviewInstall(i)) \/ \E r \in Removals : PreviewRemoval(r)
  BY <1>0, <1>5 DEF ReturnErr, PreviewInstall, PreviewRemoval
<1>6. CASE UNCHANGED opState
  BY <1>6
<1>7. QED
  BY <1>0, <1>1, <1>2, <1>3, <1>4, <1>5, <1>6
  DEF Next, Handler, Asked, Environment, ToSucceeded, Unreadable, ReturnEarly, ReturnErrUnrecorded,
      StoreFails, NextListed, ReconcileFails, PassGate, PassGateOther, LockRefused, Launch,
      RetryRecovery, EnterRecovery, RecoveryDeferred, Tamper, Crash, vars

\* In one window an operation succeeds in the very step that commits it,
\* against the revision its preview saw, and moves the revision by one
\* (execute_install_commit, execute_removal_commit and their recovery): success
\* is never reported for what another commit did.
THEOREM SuccessIsItsOwnCommit == OneWindow => (Spec => SuccessIsOneCommit)
<1> SUFFICES ASSUME OneWindow PROVE Spec => SuccessIsOneCommit
  OBVIOUS
<1>1. ASSUME Inv, WInv, [Next]_vars
      PROVE  [ \A o \in Ops : opState[o] # "Succeeded" /\ opState'[o] = "Succeeded"
                  => rev = expRev[o] /\ rev' = rev + 1 ]_vars
  <2>1. CASE Commits
    <3>1. opState \in [Ops -> States]
      BY <1>1 DEF Inv, IInv, TypeOK
    <3>2. \A o \in Ops : opState[o] # "Succeeded" /\ opState'[o] = "Succeeded" => o = cur
      BY <2>1, <3>1 DEF Commits
    <3>3. QED
      BY <2>1, <3>2 DEF Commits, MayCommit
  <2>2. QED
    BY <1>1, <2>1, OnlyCommitsSucceed
<1>2. QED
  BY <1>1, InvInvariance, WindowInvariance, PTL DEF Spec, SuccessIsOneCommit

CommitSteps == {"CommitInstallDatabase", "CommitRemovalDatabase"}

\* What an engine writes into the journal: a commit step is completed by the
\* commit itself, or once more after it, and is never taken back after it.
Journals ==
    \/ UNCHANGED <<steps, rows>>
    \/ /\ UNCHANGED rows
       /\ \E kind \in StepKinds, s \in StepStates :
             /\ MarkStep(cur, kind, s)
             /\ kind \notin CommitSteps \/ pc \in (IF s = "completed" THEN AfterCommit ELSE Engine)
    \/ /\ pc \in Ready
       /\ opState' = [opState EXCEPT ![cur] = "Succeeded"]
       /\ \/ cur \in Installs /\ MarkStep(cur, "CommitInstallDatabase", "completed") /\ rows' = rows \cup {cur}
          \/ cur \in Removals /\ MarkStep(cur, "CommitRemovalDatabase", "completed") /\ rows' \subseteq rows

\* The install engine writes so.
LEMMA InstallJournals ==
    ASSUME Inv, WInv, InstallStep
    PROVE  Journals
<1> USE DEF Journals, Engine, AfterCommit, Unreached, Ready, InstallLabels, InstallWrites, RemovalLabels,
            RemovalWrites, CommitSteps, StepKinds, InstallSteps, RemovalSteps, StepStates
<1>0. Control
  BY DEF WInv
<1>1. CASE CommitInstall
  BY <1>1 DEF CommitInstall, CommitRow, Inv, IInv, CurOK, Fits
<1>2. CASE InspectOwned
  BY <1>2, NothingCommitted DEF InspectOwned, AtInstall
<1>3. CASE StartPublish \/ InspectAdoptable
  BY <1>3 DEF StartPublish, InspectAdoptable, store
<1>4. CASE PublishRejected \/ PublishRefused \/ PublishUncertain \/ CompletePublish \/ StartCommit
  BY <1>4 DEF PublishRejected, PublishRefused, PublishUncertain, CompletePublish, StartCommit, StepWrite, store
<1>5. CASE StartQuarantine \/ CompleteQuarantine \/ FailCommit \/ QuarantineFailed
  BY <1>5
  DEF StartQuarantine, CompleteQuarantine, FailCommit, QuarantineFailed, StepWrite, Skip, store, journal
<1>6. CASE StartCleanup \/ CompleteCleanup \/ RestateCommit
  BY <1>6 DEF StartCleanup, CompleteCleanup, RestateCommit, StepWrite, store
<1>7. CASE AdoptCommitStep
  BY <1>0, <1>7 DEF AdoptCommitStep, Control
<1>8. CASE UNCHANGED <<steps, rows>>
  BY <1>8
<1>9. QED
  BY <1>1, <1>2, <1>3, <1>4, <1>5, <1>6, <1>7, <1>8
  DEF InstallStep, InstallExecution, InstallRecovery, Skip, journal, store,
      CommitRefused, CleanStaging, Unreadable, Reopen, VerifyStaged, PublishMoves,
      PublishOccupied, PublishFails, ConfirmLive, CommitInstallRefused, QuarantinePublished,
      QuarantineFails, Cleanup, InspectAmbiguous, InspectRolledBack,
      InspectOccupied, InspectUnpublished, ReopenPublish, ReopenCommit, Tidy, CommitPayloadUnavailable

\* So does the removal engine.
LEMMA RemovalJournals ==
    ASSUME Inv, WInv, RemovalStep
    PROVE  Journals
<1> USE DEF Journals, Engine, AfterCommit, Unreached, Ready, InstallLabels, InstallWrites, RemovalLabels,
            RemovalWrites, CommitSteps, StepKinds, InstallSteps, RemovalSteps, StepStates
<1>0. Control
  BY DEF WInv
<1>1. CASE CommitRemoval
  BY <1>1 DEF CommitRemoval, CommitRow, Inv, IInv, CurOK, Fits
<1>2. CASE InspectRemoved
  BY <1>2, NothingCommitted DEF InspectRemoved, AtRemoval
<1>3. CASE StartRemoval \/ AsideFailed \/ CompleteAside \/ StartRemovalCommit
  BY <1>3 DEF StartRemoval, AsideFailed, CompleteAside, StartRemovalCommit, StepWrite, Skip, store, journal
<1>4. CASE StartRestore \/ CompleteRestore \/ RestoreFailed \/ FailRemovalCommit
  BY <1>4 DEF StartRestore, CompleteRestore, RestoreFailed, FailRemovalCommit, StepWrite, store
<1>5. CASE RemovedCommitStep
  BY <1>0, <1>5 DEF RemovedCommitStep, Control
<1>6. CASE UNCHANGED <<steps, rows>>
  BY <1>6
<1>7. QED
  BY <1>1, <1>2, <1>3, <1>4, <1>5, <1>6
  DEF RemovalStep, RemovalExecution, RemovalRecovery, Skip, journal, store, CommitRefused, Unreadable,
      SetAside, SetAsideFails, CheckAside, CommitRemovalRefused, Undo, UndoUnread, Restore,
      RestoreFails, InspectUndo, InspectInconsistent, InspectMissing, InspectRetry, ReopenRemoval

\* Nothing else writes steps or deployments.
LEMMA OtherJournals ==
    ASSUME [Next]_vars, ~InstallStep, ~RemovalStep
    PROVE  UNCHANGED <<steps, rows>>
<1>1. CASE Handler
  BY <1>1
  DEF Handler, Prepare, Run, BeginCommit, Advance, ToFailed, ToSucceeded, ToRecovery, EndAs, Unreadable,
      ReturnOk, ReturnEarly, ReturnErr, ReturnErrUnrecorded, StoreFails, NextListed, Reconcile,
      ReconcileFails, journal, store
<1>2. CASE Asked
  BY <1>2
  DEF Asked, PreviewInstall, PreviewRemoval, CancelPreview, PassGate, MarkHandled, PassGateOther,
      LockRefused, Enter, ApplyOther, Launch, RetryRecovery, EnterRecovery, RecoveryDeferred, journal, store
<1>3. CASE Environment
  BY <1>3 DEF Environment, Tamper, Crash, journal, store
<1>4. CASE UNCHANGED vars
  BY <1>4 DEF vars, journal, store
<1>5. QED
  BY <1>1, <1>2, <1>3, <1>4 DEF Next

\* With WInv, JournalMatchesStore is inductive.
LEMMA NextKeepsJournal ==
    ASSUME Inv, WInv, JournalMatchesStore, [Next]_vars
    PROVE  JournalMatchesStore'
<1>1. \A o \in Ops : opState[o] = "Succeeded" => opState'[o] = "Succeeded"
  BY NextLeavesOver DEF Over, Inv
<1>2. /\ opState \in [Ops -> States] /\ steps \in [Ops -> [StepKinds -> StepStates]]
      /\ rows \subseteq Installs /\ \A d \in rows : opState[d] = "Succeeded"
  BY DEF Inv, IInv, TypeOK, RecordedIsSucceeded
<1>3. Journals
  BY InstallJournals, RemovalJournals, OtherJournals DEF Journals
<1>4. pc \in Engine => opState[cur] \in Started /\ cur \in Ops
  BY AtWork DEF WInv, StageOK
<1>5. pc \in AfterCommit => opState[cur] = "Succeeded" /\ cur \in Ops
  BY AtWork DEF WInv, StageOK
<1>6. CASE UNCHANGED <<steps, rows>>
  BY <1>1, <1>6 DEF JournalMatchesStore, Ops
<1>7. ASSUME NEW kind \in StepKinds, NEW s \in StepStates, UNCHANGED rows, MarkStep(cur, kind, s),
             kind \notin CommitSteps \/ pc \in (IF s = "completed" THEN AfterCommit ELSE Engine)
      PROVE  JournalMatchesStore'
  <2>1. \A o \in Ops : \A k \in StepKinds :
            steps'[o][k] = IF o = cur /\ k = kind THEN s ELSE steps[o][k]
    BY <1>2, <1>7 DEF MarkStep
  <2>2. CommitSteps \subseteq StepKinds
    BY DEF CommitSteps, StepKinds, InstallSteps, RemovalSteps
  <2>3. CASE kind \notin CommitSteps
    BY <1>1, <1>2, <1>7, <2>1, <2>2, <2>3 DEF JournalMatchesStore, CommitSteps, Ops
  <2>4. CASE s = "completed" /\ pc \in AfterCommit
    BY <1>1, <1>2, <1>5, <1>7, <2>1, <2>2, <2>4 DEF JournalMatchesStore, CommitSteps, Ops
  <2>5. CASE s # "completed" /\ pc \in Engine
    <3>1. cur \notin rows
      BY <1>2, <1>4, <2>5 DEF Started
    <3>2. QED
      BY <1>1, <1>2, <1>7, <2>1, <2>2, <2>5, <3>1 DEF JournalMatchesStore, CommitSteps, Ops
  <2>6. QED
    BY <1>7, <2>3, <2>4, <2>5
<1>8. ASSUME opState' = [opState EXCEPT ![cur] = "Succeeded"],
             NEW kind \in CommitSteps, MarkStep(cur, kind, "completed"),
             \/ cur \in Installs /\ kind = "CommitInstallDatabase" /\ rows' = rows \cup {cur}
             \/ cur \in Removals /\ rows' \subseteq rows
      PROVE  JournalMatchesStore'
  <2>1. CommitSteps \subseteq StepKinds
    BY DEF CommitSteps, StepKinds, InstallSteps, RemovalSteps
  <2>2. \A o \in Ops : \A k \in StepKinds :
            steps'[o][k] = IF o = cur /\ k = kind THEN "completed" ELSE steps[o][k]
    BY <1>2, <1>8, <2>1 DEF MarkStep
  <2>3. cur \in Ops /\ opState'[cur] = "Succeeded"
    BY <1>2, <1>8 DEF Ops
  <2>4. QED
    BY <1>1, <1>2, <1>8, <2>1, <2>2, <2>3 DEF JournalMatchesStore, CommitSteps, Ops
<1>9. QED
  BY <1>3, <1>6, <1>7, <1>8 DEF Journals, CommitSteps

\* In one window the journal and the deployments are one boundary
\* (commit_install, commit_removal): a recorded deployment has its commit step
\* completed, and only a change that succeeded has one.
THEOREM JournalIsTrue == OneWindow => (Spec => []JournalMatchesStore)
<1> SUFFICES ASSUME OneWindow PROVE Spec => []JournalMatchesStore
  OBVIOUS
<1>1. Init => JournalMatchesStore
  <2> SUFFICES ASSUME Init PROVE JournalMatchesStore
    OBVIOUS
  <2>1. \A o \in Ops : \A k \in StepKinds : steps[o][k] = "none"
    BY DEF Init
  <2>2. QED
    BY <2>1 DEF Init, JournalMatchesStore, StepKinds, InstallSteps, RemovalSteps, Ops
<1>2. Inv /\ WInv /\ JournalMatchesStore /\ [Next]_vars => JournalMatchesStore'
  BY NextKeepsJournal
<1>3. QED
  BY <1>1, <1>2, InvInvariance, WindowInvariance, PTL DEF Spec

-----------------------------------------------------------------------------
(* The refinement: every step of the program in one window is a step of     *)
(* AtomicChanges or leaves its state as it is.                              *)

\* The phase of an operation by the state of its row.
LEMMA Phases ==
    /\ PhaseOf("New") = "new" /\ PhaseOf("Succeeded") = "done"
    /\ \A s \in {"Draft", "Prepared"} : PhaseOf(s) = "proposed"
    /\ \A s \in {"Failed", "Cancelled"} : PhaseOf(s) = "closed"
    /\ \A s \in Started : PhaseOf(s) = "busy"
    /\ \A s \in Reachable : /\ PhaseOf(s) = "busy" => s \in Started
                            /\ PhaseOf(s) = "proposed" => s \in {"Draft", "Prepared"}
<1>1. /\ PhaseOf("New") = "new" /\ PhaseOf("Succeeded") = "done"
      /\ PhaseOf("Draft") = "proposed" /\ PhaseOf("Prepared") = "proposed"
      /\ PhaseOf("Failed") = "closed" /\ PhaseOf("Cancelled") = "closed"
      /\ PhaseOf("Running") = "busy" /\ PhaseOf("Committing") = "busy"
      /\ PhaseOf("RecoveryRequired") = "busy"
  BY DEF PhaseOf
<1>2. QED
  BY <1>1 DEF Started, Reachable

\* What moves the phases of the operations of a set moves them abstractly.
LEMMA Moves ==
    ASSUME NEW os, NEW p,
           \A o \in Ops : PhaseOf(opState'[o]) = IF o \in os THEN p ELSE PhaseOf(opState[o])
    PROVE  Abstract!Move(os, p)
BY DEF Abstract!Move, Abstract!Changes, Ops

\* A step of the abstract changes, or none.
AStep == Abstract!Next \/ UNCHANGED Abstract!aVars

\* A step that leaves every phase, plan and row as it is.
LEMMA Stutters ==
    ASSUME UNCHANGED <<expRev, target, rows, rev>>,
           \A o \in Ops : PhaseOf(opState'[o]) = PhaseOf(opState[o])
    PROVE  AStep
BY DEF AStep, Abstract!aVars

\* Closing previews drops them, however many there are.
LEMMA Drops ==
    ASSUME UNCHANGED <<expRev, target, rows, rev>>, NEW os \in SUBSET Ops,
           \A o \in os : opState[o] \in {"Draft", "Prepared"} /\ opState'[o] = "Cancelled",
           \A o \in Ops \ os : PhaseOf(opState'[o]) = PhaseOf(opState[o])
    PROVE  AStep
<1>1. CASE os = {}
  BY <1>1, Stutters
<1>2. CASE os # {}
  <2>1. Abstract!Move(os, "closed")
    BY Moves, Phases
  <2>2. os \in SUBSET Abstract!In("proposed")
    BY Phases DEF Abstract!In, Abstract!Changes, Ops
  <2>3. Abstract!Drop
    BY <1>2, <2>1, <2>2 DEF Abstract!Drop
  <2>4. QED
    BY <2>3 DEF AStep, Abstract!Next
<1>3. QED
  BY <1>1, <1>2

\* A busy change comes to nothing.
LEMMA Abandons ==
    ASSUME UNCHANGED <<expRev, target, rows, rev>>, NEW o \in Ops,
           opState[o] \in Started, opState'[o] = "Failed",
           \A q \in Ops \ {o} : opState'[q] = opState[q]
    PROVE  AStep
<1>1. Abstract!Move({o}, "closed")
  BY Moves, Phases
<1>2. Abstract!Abandon(o)
  BY <1>1, Phases DEF Abstract!Abandon
<1>3. QED
  BY <1>2 DEF AStep, Abstract!Next, Abstract!Changes, Ops

\* The engines work in between, and commit.
LEMMA EngineRefines ==
    ASSUME Inv, WInv, InstallStep \/ RemovalStep
    PROVE  AStep
<1>1. UNCHANGED <<expRev, target>>
  BY EngineFrame DEF plans
<1>2. Works \/ Reopens \/ Commits
  BY InstallFlow, RemovalFlow
<1>3. opState \in [Ops -> States] /\ (cur \in Ops \/ Works)
  BY <1>2, AtWork
  DEF Inv, IInv, TypeOK, Reopens, Commits, Ready, Engine, AfterCommit, Unreached, InstallLabels, InstallWrites,
      RemovalLabels, RemovalWrites
<1>4. CASE Works
  BY <1>1, <1>4, Stutters DEF Works
<1>5. CASE Reopens
  <2>1. opState[cur] \in Started /\ opState'[cur] \in Started /\ cur \in Ops
    BY <1>3, <1>5, AtWork
    DEF WInv, StageOK, Reopens, Engine, AfterCommit, Unreached, InstallLabels, InstallWrites,
        RemovalLabels, RemovalWrites, Transition, Started
  <2>2. \A o \in Ops \ {cur} : opState'[o] = opState[o]
    BY <1>3, <1>5 DEF Reopens, Transition
  <2>3. QED
    BY <1>1, <1>5, <2>1, <2>2, Stutters, Phases DEF Reopens
<1>6. CASE Commits
  <2>1. cur \in Ops
    BY <1>6, AtWork
    DEF Commits, Ready, Engine, AfterCommit, Unreached, InstallLabels, InstallWrites, RemovalLabels,
        RemovalWrites
  <2>2. opState'[cur] = "Succeeded" /\ \A o \in Ops \ {cur} : opState'[o] = opState[o]
    BY <1>3, <1>6, <2>1 DEF Commits
  <2>3. Abstract!Move({cur}, "done")
    BY <2>2, Moves, Phases
  <2>4. PhaseOf(opState[cur]) = "busy"
    BY <1>6, Phases DEF Commits, MayCommit, Started
  <2>5. Abstract!Commit(cur)
    BY <1>1, <1>6, <2>1, <2>3, <2>4 DEF Abstract!Commit, Commits, MayCommit
  <2>6. QED
    BY <2>1, <2>5 DEF AStep, Abstract!Next, Abstract!Changes, Ops
<1>7. QED
  BY <1>2, <1>4, <1>5, <1>6

\* The confirmation begins the change when its row turns Running.
LEMMA AdvanceRefines ==
    ASSUME Inv, WInv, Prepare \/ Run \/ BeginCommit
    PROVE  AStep
<1>1. cur \in Ops /\ ~Recovering /\ pc # "idle"
  BY AtWork DEF Prepare, Run, BeginCommit, Advance, WInv, Control, ConfirmOnly
<1>2. UNCHANGED <<expRev, target, rows, rev>>
  BY DEF Prepare, Run, BeginCommit, Advance, plans, store
<1>3. opState \in [Ops -> States]
  BY DEF Inv, IInv, TypeOK
<1>4. \A o \in Ops \ {cur} : opState'[o] = opState[o]
  BY <1>3 DEF Prepare, Run, BeginCommit, Advance, Transition
<1>5. CASE Prepare
  <2>1. opState[cur] \in {"Draft", "Prepared"} /\ opState'[cur] = "Prepared"
    BY <1>1, <1>3, <1>5
    DEF Prepare, Advance, Transition, Accepts, IsValidTransition, Successors, OperationState, WInv, StageOK
  <2>2. QED
    BY <1>2, <1>4, <2>1, Stutters, Phases
<1>6. CASE Run
  <2>1. opState[cur] = "Prepared" /\ opState'[cur] = "Running"
    BY <1>1, <1>3, <1>6
    DEF Run, Advance, Transition, Accepts, IsValidTransition, Successors, OperationState, WInv, StageOK
  <2>2. expRev[cur] = rev /\ \A q \in Ops : opState[q] \in Standing => q = cur
    BY <1>1, <2>1 DEF WInv, SoleOK, Sole, Standing
  <2>3. Abstract!In("busy") = {}
    <3>1. \A q \in Ops : opState[q] \notin Started
      BY <2>1, <2>2 DEF Standing, Started
    <3>2. \A q \in Ops : PhaseOf(opState[q]) # "busy"
      BY <3>1, Phases DEF WInv, StageOK
    <3>3. QED
      BY <3>2 DEF Abstract!In, Abstract!Changes, Ops
  <2>4. Abstract!Move({cur}, "busy")
    BY <1>4, <2>1, Moves, Phases DEF Started
  <2>5. Abstract!Begin(cur)
    BY <1>1, <1>2, <2>1, <2>2, <2>3, <2>4, Phases DEF Abstract!Begin
  <2>6. QED
    BY <1>1, <2>5 DEF AStep, Abstract!Next, Abstract!Changes, Ops
<1>7. CASE BeginCommit
  <2>1. opState[cur] = "Running" /\ opState'[cur] = "Committing"
    BY <1>1, <1>3, <1>7
    DEF BeginCommit, Advance, Transition, Accepts, IsValidTransition, Successors, OperationState, WInv, StageOK
  <2>2. QED
    BY <1>2, <1>4, <2>1, Stutters, Phases DEF Started
<1>8. QED
  BY <1>5, <1>6, <1>7

\* How a handler ends: the change comes to nothing, or waits for recovery.
LEMMA EndRefines ==
    ASSUME Inv, WInv, ToFailed \/ ToSucceeded \/ ToRecovery
    PROVE  AStep
<1>1. UNCHANGED <<expRev, target, rows, rev>>
  BY DEF ToFailed, ToSucceeded, ToRecovery, EndAs, plans, store
<1>2. opState \in [Ops -> States] /\ ~ToSucceeded
  BY DEF Inv, IInv, TypeOK, WInv, Control, Unreached, ToSucceeded
<1>3. cur \in Ops /\ opState[cur] \in Started
  BY <1>2, AtWork DEF ToFailed, ToRecovery, Engine, WInv, StageOK
<1>4. \A o \in Ops \ {cur} : opState'[o] = opState[o]
  BY <1>2 DEF ToFailed, ToRecovery, EndAs, Transition
<1>5. CASE ToFailed
  <2>1. opState'[cur] = "Failed"
    BY <1>2, <1>3, <1>5
    DEF ToFailed, EndAs, Transition, Accepts, IsValidTransition, Successors, OperationState, Started
  <2>2. QED
    BY <1>1, <1>3, <1>4, <2>1, Abandons
<1>6. CASE ToRecovery
  <2>1. opState'[cur] \in Started
    BY <1>2, <1>3, <1>6 DEF ToRecovery, EndAs, Transition, Started
  <2>2. QED
    BY <1>1, <1>3, <1>4, <2>1, Stutters, Phases
<1>7. QED
  BY <1>2, <1>5, <1>6

\* Leaving a handler closes stale previews, or leaves the change for recovery.
LEMMA ReturnRefines ==
    ASSUME Inv, WInv, ReturnOk \/ ReturnEarly \/ ReturnErr \/ ReturnErrUnrecorded
    PROVE  AStep
<1>1. UNCHANGED <<expRev, target, rows, rev>>
  BY DEF ReturnOk, ReturnEarly, ReturnErr, ReturnErrUnrecorded, plans, store
<1>2. opState \in [Ops -> States] /\ \A o \in Ops : opState[o] \in Reachable
  BY DEF Inv, IInv, TypeOK, WInv, StageOK
<1>3. CASE ReturnOk
  <2>1. Stale(rev) \in SUBSET Ops
    BY DEF Stale
  <2>2. \A o \in Stale(rev) : opState[o] \in {"Draft", "Prepared"} /\ opState'[o] = "Cancelled"
    BY <1>3 DEF ReturnOk, ReleaseStale, Stale
  <2>3. \A o \in Ops \ Stale(rev) : opState'[o] = opState[o]
    BY <1>3 DEF ReturnOk, ReleaseStale
  <2>4. QED
    BY <1>1, <2>1, <2>2, <2>3, Drops
<1>4. CASE ReturnErr
  <2>1. ASSUME NEW o \in Ops, opState'[o] # opState[o]
        PROVE  opState[o] \in Started /\ opState'[o] = "RecoveryRequired"
    BY <1>2, <1>4, <2>1 DEF ReturnErr, IsStillMutating, Reachable, Started
  <2>2. \A o \in Ops : PhaseOf(opState'[o]) = PhaseOf(opState[o])
    BY <2>1, Phases DEF Started
  <2>3. QED
    BY <1>1, <2>2, Stutters
<1>5. CASE ReturnEarly \/ ReturnErrUnrecorded
  BY <1>1, <1>5, Stutters DEF ReturnEarly, ReturnErrUnrecorded
<1>6. QED
  BY <1>3, <1>4, <1>5

\* Recovery closes the previews of its list and inspects the rest.
LEMMA ListRefines ==
    ASSUME Inv, WInv, NextListed \/ Reconcile \/ ReconcileFails
    PROVE  AStep
<1>1. UNCHANGED <<expRev, target, rows, rev>>
  BY DEF NextListed, Reconcile, ReconcileFails, plans, store
<1>2. CASE UNCHANGED opState
  BY <1>1, <1>2, Stutters
<1>3. CASE Reconcile /\ snap[cur] \in {"Draft", "Prepared"}
  <2>1. cur \in Ops /\ opState[cur] = snap[cur] /\ opState \in [Ops -> States]
    BY <1>3, AtWork DEF Reconcile, WInv, SnapTrue, StageOK, Inv, IInv, TypeOK
  <2>2. opState'[cur] = "Cancelled" /\ \A o \in Ops \ {cur} : opState'[o] = opState[o]
    BY <1>3, <2>1 DEF Reconcile, Transition, Accepts, IsValidTransition, Successors, OperationState
  <2>3. QED
    BY <1>1, <1>3, <2>1, <2>2, Drops, {cur} \in SUBSET Ops
<1>4. QED
  BY <1>2, <1>3 DEF NextListed, Reconcile, ReconcileFails

\* Previews are proposals against the present revision.
LEMMA PreviewRefines ==
    ASSUME Inv, WInv, NEW o \in Ops,
           (o \in Installs /\ PreviewInstall(o)) \/ (o \in Removals /\ PreviewRemoval(o))
    PROVE  AStep
<1>1. opState[o] = "New" /\ opState' = [opState EXCEPT ![o] = "Draft"]
      /\ opState \in [Ops -> States]
  BY DEF PreviewInstall, PreviewRemoval, Inv, IInv, TypeOK
<1>2. Abstract!Move({o}, "proposed")
  BY <1>1, Moves, Phases
<1>3. UNCHANGED <<rows, rev>> /\ expRev' = [expRev EXCEPT ![o] = rev]
  BY DEF PreviewInstall, PreviewRemoval, store
<1>4. IF o \in Removals THEN \E i \in rows : target' = [target EXCEPT ![o] = i] ELSE UNCHANGED target
  BY OpsAssumption DEF PreviewInstall, PreviewRemoval
<1>5. Abstract!Propose(o)
  BY <1>1, <1>2, <1>3, <1>4, Phases DEF Abstract!Propose
<1>6. QED
  BY <1>5 DEF AStep, Abstract!Next, Abstract!Changes, Ops

\* Closed by hand, a preview is dropped and a change comes to nothing.
LEMMA CloseRefines ==
    ASSUME Inv, WInv, NEW o \in Ops, CancelPreview(o) \/ MarkHandled(o)
    PROVE  AStep
<1>1. UNCHANGED <<expRev, target, rows, rev>> /\ opState \in [Ops -> States]
  BY DEF CancelPreview, MarkHandled, plans, store, Inv, IInv, TypeOK
<1>2. \A q \in Ops \ {o} : opState'[q] = opState[q]
  BY <1>1 DEF CancelPreview, MarkHandled, Transition
<1>3. CASE CancelPreview(o)
  <2>1. opState[o] \in {"Draft", "Prepared"} /\ opState'[o] = "Cancelled"
    BY <1>1, <1>3
    DEF CancelPreview, Transition, Accepts, IsValidTransition, Successors, OperationState
  <2>2. QED
    BY <1>1, <1>2, <2>1, Drops, {o} \in SUBSET Ops
<1>4. CASE MarkHandled(o)
  <2>1. opState[o] \in Started /\ opState'[o] = "Failed"
    BY <1>1, <1>4
    DEF MarkHandled, Transition, Accepts, IsValidTransition, Successors, OperationState, Started
  <2>2. QED
    BY <1>1, <1>2, <2>1, Abandons
<1>5. QED
  BY <1>3, <1>4

\* A stale proposal is dropped where it would have been entered.
LEMMA EnterRefines ==
    ASSUME Inv, WInv, NEW p \in Processes, Enter(p)
    PROVE  AStep
<1>1. UNCHANGED <<expRev, target, rows, rev>>
  BY DEF Enter, plans, store
<1>2. CASE UNCHANGED opState
  BY <1>1, <1>2, Stutters
<1>3. CASE ReleaseStale(rev)
  <2>1. Stale(rev) \in SUBSET Ops
    BY DEF Stale
  <2>2. \A o \in Stale(rev) : opState[o] \in {"Draft", "Prepared"} /\ opState'[o] = "Cancelled"
    BY <1>3 DEF ReleaseStale, Stale
  <2>3. \A o \in Ops \ Stale(rev) : opState'[o] = opState[o]
    BY <1>3 DEF ReleaseStale
  <2>4. QED
    BY <1>1, <2>1, <2>2, <2>3, Drops
<1>4. QED
  BY <1>2, <1>3 DEF Enter

\* Another change of the profile waits its turn, too.
LEMMA ApplyRefines ==
    ASSUME OneWindow, Inv, WInv, NEW p \in Processes, ApplyOther(p)
    PROVE  AStep
<1>1. /\ gate[Window] = OtherChange /\ UNCHANGED <<expRev, target, rows>>
      /\ rev' = rev + 1 /\ ReleaseStale(rev + 1)
  BY LockIsOurs DEF ApplyOther, plans
<1>2. \A o \in Ops : opState[o] \notin Standing
  BY <1>1, OpsAssumption DEF WInv, SoleOK, Sole
<1>3. \A o \in Ops : PhaseOf(opState[o]) = "busy" => opState[o] \in Started
  BY Phases DEF WInv, StageOK
<1>4. \A o \in Ops : PhaseOf(opState[o]) = "proposed" <=> opState[o] = "Draft"
  BY <1>2, Phases DEF WInv, StageOK, Standing
<1>5. Abstract!In("busy") = {}
  BY <1>2, <1>3 DEF Abstract!In, Abstract!Changes, Ops, Started, Standing
<1>6. Stale(rev + 1) = {o \in Abstract!In("proposed") : expRev[o] # rev'}
  BY <1>1, <1>4 DEF Stale, Abstract!In, Abstract!Changes, Ops
<1>7. Abstract!Move(Stale(rev + 1), "closed")
  BY <1>1, Moves, Phases DEF ReleaseStale
<1>8. Abstract!Other
  BY <1>1, <1>5, <1>6, <1>7 DEF Abstract!Other
<1>9. QED
  BY <1>8 DEF AStep, Abstract!Next

\* Every step of one window is an abstract one, or none.
LEMMA NextRefines ==
    ASSUME OneWindow, Inv, WInv, [Next]_vars
    PROVE  AStep
<1>1. CASE UNCHANGED <<opState, plans, rows, rev>>
  BY <1>1, Stutters DEF plans
<1>2. CASE Handler
  <2>1. CASE Prepare \/ Run \/ BeginCommit
    BY <2>1, AdvanceRefines
  <2>2. CASE InstallStep \/ RemovalStep
    BY <2>2, EngineRefines
  <2>3. CASE ToFailed \/ ToSucceeded \/ ToRecovery
    BY <2>3, EndRefines
  <2>4. CASE ReturnOk \/ ReturnEarly \/ ReturnErr \/ ReturnErrUnrecorded
    BY <2>4, ReturnRefines
  <2>5. CASE NextListed \/ Reconcile \/ ReconcileFails
    BY <2>5, ListRefines
  <2>6. CASE StoreFails \/ Unreadable("inspect") \/ Unreadable("undo")
    BY <1>1, <2>6 DEF StoreFails, Unreadable, store
  <2>7. QED
    BY <1>2, <2>1, <2>2, <2>3, <2>4, <2>5, <2>6 DEF Handler
<1>3. CASE Asked
  <2>1. CASE (\E i \in Installs : PreviewInstall(i)) \/ (\E r \in Removals : PreviewRemoval(r))
    BY <2>1, PreviewRefines DEF Ops
  <2>2. CASE \E o \in Ops : CancelPreview(o) \/ MarkHandled(o)
    BY <2>2, CloseRefines
  <2>3. CASE \E p \in Processes : Enter(p)
    BY <2>3, EnterRefines
  <2>4. CASE \E p \in Processes : ApplyOther(p)
    BY <2>4, ApplyRefines
  <2>5. CASE \/ \E o \in Ops : PassGate(o)
             \/ \E p \in Processes : PassGateOther(p) \/ LockRefused(p)
             \/ Launch \/ RetryRecovery \/ EnterRecovery \/ RecoveryDeferred
    BY <1>1, <2>5
    DEF PassGate, PassGateOther, LockRefused, Launch, RetryRecovery, EnterRecovery, RecoveryDeferred, store
  <2>6. QED
    BY <1>3, <2>1, <2>2, <2>3, <2>4, <2>5 DEF Asked
<1>4. CASE Environment \/ UNCHANGED vars
  BY <1>1, <1>4 DEF Environment, Tamper, Crash, vars, store
<1>5. QED
  BY <1>2, <1>3, <1>4 DEF Next

\* An empty profile has no changes.
LEMMA InitRefines ==
    ASSUME Init
    PROVE  Abstract!Init
BY Phases DEF Init, Abstract!Init, Abstract!Changes, Ops

\* With one window, whatever crashes and fails, and however many writes and
\* recoveries it takes, the engine behaves as if every change took effect in
\* one indivisible step or not at all (services/operations.rs,
\* operation_recovery.rs): it implements AtomicChanges.
THEOREM ChangesAreAtomic == OneWindow => (Spec => ImplementsAtomicChanges)
<1> SUFFICES ASSUME OneWindow PROVE Spec => Abstract!Spec
  BY DEF ImplementsAtomicChanges
<1>1. Init => Abstract!Init
  BY InitRefines
<1>2. Inv /\ WInv /\ [Next]_vars => [Abstract!Next]_Abstract!aVars
  BY NextRefines DEF AStep
<1>3. QED
  BY <1>1, <1>2, InvInvariance, WindowInvariance, PTL DEF Spec, Abstract!Spec
================================================================================
