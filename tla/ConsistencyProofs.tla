---------------------------- MODULE ConsistencyProofs ----------------------------
(***************************************************************************)
(* Proofs that in one app window files and records agree: once nothing is  *)
(* unfinished, what is in Mods is what the database records.               *)
(*                                                                         *)
(* SettledConsistent says nothing of what happens before everything is     *)
(* settled.  TruthInv does: what the folders hold while a change is        *)
(* unfinished (FoldersTrue), what its handler has already seen of them     *)
(* when it is about to write something down (StagesTrue, VacatedOK), and   *)
(* that a change that has not begun has no recovery folder (FreshOK).      *)
(***************************************************************************)
EXTENDS WindowProofs

MovesIn ==
    {"begin_commit", "start_publish", "verify_staged", "publish_rejected", "publish",
     "publish_refused", "reopen_publish"}
Vacated == {"complete_aside", "reopen_removal", "start_removal_commit", "commit_removal"}
Replaced == {"complete_restore", "fail_removal_commit"}
Rejected == {"complete_quarantine", "fail_commit"}

\* Nothing is recorded and nothing is there; what is recorded is there.
EmptyAgrees == rows = {} => live = {}
RecordedAgree == \A d \in rows : rows = {d} /\ live = Whole(d)

\* Only an unfinished removal parts the recorded mod from Mods, and then it is
\* there and in the removal's recovery folder; only an unfinished install has
\* anything there that is not recorded.
FoldersTrue ==
    /\ (\A o \in Ops : opState[o] \notin Started) => EmptyAgrees
    /\ (\A r \in Removals : opState[r] \notin Started) => RecordedAgree
    /\ \A r \in Removals : opState[r] \in Started =>
           rows = {target[r]} /\ live \cup quar[r] = Whole(target[r])

StagesTrue ==
    /\ pc \in MovesIn => EmptyAgrees
    /\ pc \in Published => rows = {} /\ (live = Plan \/ (pc = "confirm_live" /\ live = {}))
    /\ pc \in {"start_quarantine", "quarantine"} => rows = {}
    /\ pc \in Rejected => rows = {} /\ live = {}
    /\ pc \in Replaced => live = Whole(target[cur])
    /\ pc = "to_failed" => EmptyAgrees /\ RecordedAgree

\* The folder is out of Mods when its removal commits.
VacatedOK == pc \in Vacated => live = {}

FreshOK == \A o \in Ops : opState[o] \in {"New", "Draft", "Prepared"} => quar[o] = {}

\* The removed mod stays in the recovery folder of a removal that is over.
Ended == {"Succeeded", "Failed", "Cancelled"}
RemovedKept ==
    \A r \in Removals : opState[r] = "Succeeded" =>
        /\ \E q \in Removals : opState[q] \in Ended /\ Whole(target[r]) \subseteq quar[q]
        /\ ~handled => Whole(target[r]) \subseteq quar[r]

TruthInv ==
    /\ FreshOK
    /\ tampers = 0 => VacatedOK /\ RemovedKept
    /\ Untouched => FoldersTrue /\ StagesTrue

-----------------------------------------------------------------------------
(* What the engines find.                                                   *)

\* A handler inside an engine works on the only change that has begun.
LEMMA AloneAtWork ==
    ASSUME Inv, WInv, pc \in Engine
    PROVE  /\ cur \in Ops /\ opState[cur] \in Started /\ Sole(cur)
           /\ \A q \in Ops \ {cur} : opState[q] \notin Started
<1>1. cur \in Ops /\ opState[cur] \in Started
  BY AtWork DEF WInv, StageOK
<1>2. QED
  BY <1>1 DEF WInv, SoleOK, Sole, Started, Standing

\* The install engine finds what is recorded in Mods, and then the place taken.
LEMMA InstallFinds ==
    ASSUME Inv, WInv, FoldersTrue, pc \in Engine, cur \in Installs
    PROVE  RecordedAgree /\ (live = {} => rows = {})
<1>1. RecordedAgree
  BY AloneAtWork, OpsAssumption DEF FoldersTrue, Ops
<1>2. QED
  BY <1>1 DEF RecordedAgree, Whole, FilesOf

\* The removal engine finds its mod between Mods and the recovery folder.
LEMMA RemovalFinds ==
    ASSUME Inv, WInv, FoldersTrue, pc \in Engine, cur \in Removals
    PROVE  /\ rows = {target[cur]} /\ live \cup quar[cur] = Whole(target[cur])
           /\ live = {} => quar[cur] # {}
<1>1. rows = {target[cur]} /\ live \cup quar[cur] = Whole(target[cur])
  BY AloneAtWork DEF FoldersTrue
<1>2. QED
  BY <1>1 DEF Whole, FilesOf

\* When no folder, record or plan of a change that has begun moves, and no
\* change begins or ends.
LEMMA QuietFolders ==
    ASSUME FoldersTrue, UNCHANGED <<live, quar, rows>>,
           \A o \in Ops : opState'[o] \in Started <=> opState[o] \in Started,
           \A r \in Removals : opState[r] \in Started => target'[r] = target[r]
    PROVE  FoldersTrue'
BY DEF FoldersTrue, EmptyAgrees, RecordedAgree, Whole, Ops

Noted == MovesIn \cup Published \cup {"start_quarantine", "quarantine", "to_failed"} \cup Rejected \cup Replaced

LEMMA QuietStages ==
    ASSUME pc' \notin Noted
    PROVE  StagesTrue'
BY DEF StagesTrue, Noted

\* Between its first step and its commit an engine leaves its change begun,
\* and the others not.
LEMMA EngineStates ==
    ASSUME Inv, WInv, Works \/ Reopens
    PROVE  \A o \in Ops : opState'[o] \in Started <=> opState[o] \in Started
<1>1. CASE Works
  BY <1>1 DEF Works
<1>2. CASE Reopens
  <2>1. pc \in Engine
    BY <1>2
    DEF Reopens, Engine, AfterCommit, Unreached, InstallLabels, InstallWrites, RemovalLabels, RemovalWrites
  <2>2. cur \in Ops /\ opState[cur] \in Started /\ opState \in [Ops -> States]
    BY <2>1, AloneAtWork DEF Inv, IInv, TypeOK
  <2>3. QED
    BY <1>2, <2>2 DEF Reopens, Transition, Started
<1>3. QED
  BY <1>1, <1>2

\* The moves of the install engine leave what is recorded as it was found.
LEMMA InstallKeepsFolders ==
    ASSUME Inv, WInv, FilesInv, FoldersTrue, StagesTrue, InstallStep
    PROVE  FoldersTrue'
<1> USE DEF Engine, AfterCommit, Unreached, InstallLabels, InstallWrites, RemovalLabels, RemovalWrites
<1>1. UNCHANGED target
  BY EngineFrame DEF plans
<1>2. CASE Commits
  <2>1. pc \in Ready /\ opState' = [opState EXCEPT ![cur] = "Succeeded"] /\ opState \in [Ops -> States]
        /\ rows' = IF cur \in Installs THEN rows \cup {cur} ELSE rows \ {target[cur]}
    BY <1>2 DEF Commits, Inv, IInv, TypeOK
  <2>2. cur \in Installs /\ pc \in Published /\ pc # "confirm_live" /\ UNCHANGED live
    <3>1. CommitInstall
      BY <2>1, AloneAtWork
      DEF Ready, Started, InstallStep, InstallExecution, InstallRecovery, Skip, StepWrite, Unreadable,
          CommitRefused, CleanStaging, Reopen,
          StartPublish, VerifyStaged, PublishRejected, PublishMoves, PublishOccupied, PublishFails,
          PublishRefused, PublishUncertain, ConfirmLive, CompletePublish, StartCommit,
          CommitInstallRefused, CommitPayloadUnavailable, StartQuarantine, QuarantinePublished,
          QuarantineFails, CompleteQuarantine, FailCommit, QuarantineFailed, StartCleanup, Cleanup,
          CompleteCleanup, InspectAmbiguous, InspectOwned, AdoptCommitStep, InspectRolledBack,
          InspectOccupied, InspectAdoptable, InspectUnpublished, ReopenPublish, ReopenCommit,
          RestateCommit, Tidy
    <3>2. QED
      BY <3>1 DEF CommitInstall, CommitRow, files, Published, Inv, IInv, CurOK, Fits
  <2>3. rows = {} /\ live = Whole(cur)
    BY <2>2 DEF StagesTrue, Plan, Whole
  <2>4. \A o \in Ops : opState'[o] \notin Started
    BY <2>1, AloneAtWork DEF Ready, Started
  <2>5. rows' = {cur} /\ live' = Whole(cur) /\ Removals \subseteq Ops
    BY <2>1, <2>2, <2>3 DEF Ops
  <2>6. QED
    BY <2>4, <2>5 DEF FoldersTrue, EmptyAgrees, RecordedAgree, Whole
<1>3. CASE (Works \/ Reopens) /\ Still
  BY <1>1, <1>3, EngineStates, QuietFolders DEF Works, Reopens, Still
<1>4. CASE (Works \/ Reopens) /\ ~Still
  <2>1. PublishMoves \/ PublishFails \/ QuarantinePublished \/ QuarantineFails
    BY <1>4, InstallFiles
  <2>2. pc \in Engine /\ cur \in Installs /\ (pc = "quarantine" \/ live = {})
    BY <2>1
    DEF PublishMoves, PublishFails, QuarantinePublished, QuarantineFails, Exists, Inv, IInv, CurOK, Fits
  <2>3. rows = {} /\ rows' = rows
    BY <1>4, <2>2, InstallFinds DEF StagesTrue, Works, Reopens
  <2>4. opState'[cur] \in Started /\ cur \in Ops /\ \A r \in Removals : opState'[r] \notin Started
    BY <1>4, <2>2, AloneAtWork, EngineStates, OpsAssumption DEF Ops
  <2>5. QED
    BY <2>3, <2>4 DEF FoldersTrue, RecordedAgree
<1>5. QED
  BY <1>2, <1>3, <1>4, InstallFlow

\* Each step of the install engine is taken on what the one before it saw.
LEMMA InstallKeepsStages ==
    ASSUME Inv, WInv, FilesInv, FoldersTrue, StagesTrue, InstallStep
    PROVE  StagesTrue'
<1> USE DEF Engine, AfterCommit, Unreached, InstallLabels, InstallWrites, RemovalLabels, RemovalWrites,
            MovesIn, Rejected, Replaced, Published
<1>0. UNCHANGED <<target, cur>>
  BY EngineFrame DEF plans
<1>1. CASE StartPublish \/ VerifyStaged \/ PublishRejected \/ PublishOccupied \/ PublishRefused \/ ReopenPublish
  <2>1. UNCHANGED <<live, rows>> /\ pc \in MovesIn
        /\ pc' \in MovesIn \cup {"to_recovery", "to_failed", "publish_uncertain", "next"}
    BY <1>1
    DEF StartPublish, VerifyStaged, PublishRejected, PublishOccupied, PublishRefused, ReopenPublish,
        Reopen, Skip, StepWrite, Go, store, files
  <2>2. RecordedAgree
    BY <1>1, InstallFinds
    DEF StartPublish, VerifyStaged, PublishRejected, PublishOccupied, PublishRefused, ReopenPublish,
        Reopen, Inv, IInv, CurOK, Fits
  <2>3. QED
    BY <2>1, <2>2 DEF StagesTrue, EmptyAgrees, RecordedAgree, Whole
<1>2. CASE PublishMoves \/ PublishFails
  <2>1. pc = "publish" /\ live = {} /\ UNCHANGED rows
    BY <1>2 DEF PublishMoves, PublishFails, Exists, store
  <2>2. rows' = {}
    BY <2>1, InstallFinds DEF Inv, IInv, CurOK, Fits
  <2>3. CASE PublishMoves
    <3>1. pc' = "confirm_live" /\ live' \in {Plan, {}}
      BY <2>1, <2>3 DEF PublishMoves, Go, FilesInv, StagedOK
    <3>2. QED
      BY <1>0, <2>2, <3>1 DEF StagesTrue, Plan
  <2>4. CASE PublishFails
    <3>1. /\ pc' \in {"publish_uncertain", "publish_refused", "to_recovery"}
          /\ pc' = "publish_refused" => live' = {}
      BY <2>4 DEF PublishFails, Go, Exists
    <3>2. QED
      BY <2>2, <3>1 DEF StagesTrue, EmptyAgrees
  <2>5. QED
    BY <1>2, <2>3, <2>4
<1>3. CASE ConfirmLive \/ CompletePublish \/ StartCommit \/ ReopenCommit
  <2>1. /\ pc \in Published /\ UNCHANGED <<live, rows>>
        /\ pc' \in Published \cup {"to_recovery", "next"}
        /\ pc' \in Published => pc' # "confirm_live" /\ ~(pc = "confirm_live" /\ live = {})
    BY <1>3
    DEF ConfirmLive, CompletePublish, StartCommit, ReopenCommit, Reopen, Skip, StepWrite, Go, store,
        files, Exists
  <2>2. QED
    BY <1>0, <2>1 DEF StagesTrue, Plan
<1>4. CASE CommitInstallRefused \/ StartQuarantine
  BY <1>4
  DEF CommitInstallRefused, CommitRefused, StartQuarantine, StepWrite, Go, store, StagesTrue
<1>5. CASE QuarantinePublished \/ QuarantineFails
  <2>1. pc = "quarantine" /\ UNCHANGED rows /\ pc' \in {"complete_quarantine", "quarantine_failed"}
        /\ (pc' = "complete_quarantine" => live' = {})
    BY <1>5 DEF QuarantinePublished, QuarantineFails, Go, store, Exists
  <2>2. QED
    BY <2>1 DEF StagesTrue
<1>6. CASE CompleteQuarantine \/ FailCommit
  <2>1. pc \in Rejected /\ pc' \in {"fail_commit", "to_failed"} /\ UNCHANGED <<live, rows>>
    BY <1>6 DEF CompleteQuarantine, FailCommit, StepWrite, Go, store, files
  <2>2. QED
    BY <2>1 DEF StagesTrue, EmptyAgrees, RecordedAgree
<1>7. CASE InspectRolledBack \/ InspectUnpublished
  <2>1. /\ pc = "inspect" /\ cur \in Installs /\ live = {} /\ UNCHANGED <<live, rows>>
        /\ pc' \in {"to_failed", "reopen_publish"}
    BY <1>7 DEF InspectRolledBack, InspectUnpublished, AtInstall, Exists, Skip, Go, store, files
  <2>2. rows = {}
    BY <2>1, InstallFinds
  <2>3. QED
    BY <2>1, <2>2 DEF StagesTrue, EmptyAgrees, RecordedAgree
<1>8. CASE InspectAdoptable
  <2>1. /\ rows = {} /\ live = Plan /\ UNCHANGED <<live, rows>>
        /\ pc' \in {"reopen_commit", "start_quarantine"}
    BY <1>8 DEF InspectAdoptable, OwnsDeployment, ForeignOccupies, Go, store, files
  <2>2. QED
    BY <1>0, <2>1 DEF StagesTrue, Plan
<1>9. CASE InstallStep /\ ~(\/ StartPublish \/ VerifyStaged \/ PublishRejected \/ PublishOccupied
                            \/ PublishRefused \/ ReopenPublish \/ PublishMoves \/ PublishFails
                            \/ ConfirmLive \/ CompletePublish \/ StartCommit \/ ReopenCommit
                            \/ CommitInstallRefused \/ StartQuarantine \/ QuarantinePublished
                            \/ QuarantineFails \/ CompleteQuarantine \/ FailCommit
                            \/ InspectRolledBack \/ InspectUnpublished \/ InspectAdoptable)
  <2>1. pc' \notin Noted
    BY <1>9
    DEF InstallStep, InstallExecution, InstallRecovery, Skip, StepWrite, Go, Noted,
        CleanStaging, Unreadable, PublishUncertain, CommitInstall, CommitRow, QuarantineFailed,
        StartCleanup, Cleanup, CompleteCleanup, InspectAmbiguous, InspectOwned,
        AdoptCommitStep, InspectOccupied, RestateCommit, Tidy, CommitPayloadUnavailable
  <2>2. QED
    BY <2>1, QuietStages
<1>10. QED
  BY <1>1, <1>2, <1>3, <1>4, <1>5, <1>6, <1>7, <1>8, <1>9

\* However a move between Mods and a recovery folder goes, the two together
\* hold what they held.
LEMMA MoveShares ==
    ASSUME NEW src, NEW dst, NEW m,
           \/ dst = {} /\ m \in FailedMoves(src) \cup {Moved(src, dst)}
           \/ m \in Refilled(src, dst) \cup PartlyRefilled(src, dst) \cup TornMoves(src, dst)
    PROVE  m.src \cup m.dst = src \cup dst
BY DEF FailedMoves, Moved, Refilled, PartlyRefilled, TornMoves, Unmoved, Remains, Exists

\* The moves of the removal engine keep the mod between the two places.
LEMMA RemovalShares ==
    ASSUME Inv, WInv, FoldersTrue, pc \in Engine, cur \in Removals,
           UNCHANGED <<rows, target, opState>>,
           NEW q, quar' = [quar EXCEPT ![cur] = q], live' \cup q = live \cup quar[cur]
    PROVE  FoldersTrue'
<1>1. /\ rows = {target[cur]} /\ live \cup quar[cur] = Whole(target[cur])
      /\ cur \in Ops /\ opState[cur] \in Started /\ quar'[cur] = q
  BY RemovalFinds, AloneAtWork DEF Inv, IInv, TypeOK
<1>2. \A r \in Removals \ {cur} : opState[r] \notin Started
  BY AloneAtWork DEF Ops
<1>3. QED
  BY <1>1, <1>2 DEF FoldersTrue, Whole

\* A step of the removal engine that moves anything moves it so.
LEMMA RemovalMoves ==
    ASSUME Inv, WInv, RemovalStep, ~Still
    PROVE  /\ pc \in Engine /\ cur \in Removals /\ pc' \notin Noted \ Replaced
           /\ UNCHANGED <<rows, rev, opState, target, env>>
           /\ \E q : quar' = [quar EXCEPT ![cur] = q] /\ live' \cup q = live \cup quar[cur]
<1> USE DEF Engine, AfterCommit, Unreached, InstallLabels, InstallWrites, RemovalLabels, RemovalWrites
<1>1. SetAside \/ SetAsideFails \/ Restore \/ RestoreFails
  BY RemovalFiles
<1>2. cur \in Removals /\ pc \in Engine
  BY <1>1 DEF SetAside, SetAsideFails, Restore, RestoreFails, Inv, IInv, CurOK, Fits
<1>3. UNCHANGED <<rows, rev, opState, target, env>>
  BY <1>1 DEF SetAside, SetAsideFails, Restore, RestoreFails, store, plans
<1>4. pc' \notin Noted \ Replaced
  BY <1>1
  DEF SetAside, SetAsideFails, Restore, RestoreFails, Go, Noted, MovesIn, Published, Rejected, Replaced
<1>5. \E q : quar' = [quar EXCEPT ![cur] = q] /\ live' \cup q = live \cup quar[cur]
  <2>1. CASE SetAside
    BY <2>1 DEF SetAside, Still, Exists
  <2>2. CASE SetAsideFails
    <3>1. PICK m \in FailedMoves(live) : live' = m.src /\ quar' = [quar EXCEPT ![cur] = m.dst]
      BY <2>2 DEF SetAsideFails
    <3>2. quar[cur] = {}
      BY <2>2 DEF SetAsideFails, Exists
    <3>3. live' \cup m.dst = live \cup quar[cur]
      <4>1. m.src \cup m.dst = live \cup {}
        BY MoveShares
      <4>2. QED
        BY <3>1, <3>2, <4>1
    <3>4. QED
      BY <3>1, <3>3
  <2>3. CASE Restore \/ RestoreFails
    <3>1. PICK m : /\ quar' = [quar EXCEPT ![cur] = m.src] /\ live' = m.dst
                   /\ \/ m \in Refilled(quar[cur], live) \cup PartlyRefilled(quar[cur], live)
                      \/ live = {} /\ m \in FailedMoves(quar[cur]) \cup {Moved(quar[cur], live)}
      BY <2>3 DEF Restore, RestoreFails, Still, Exists
    <3>2. m.src \cup m.dst = quar[cur] \cup live
      BY <3>1, MoveShares
    <3>3. QED
      BY <3>1, <3>2
  <2>4. QED
    BY <1>1, <2>1, <2>2, <2>3
<1>6. QED
  BY <1>2, <1>3, <1>4, <1>5

\* Every step of the removal engine keeps what is recorded findable.
LEMMA RemovalKeepsFolders ==
    ASSUME Inv, WInv, VacatedOK, FoldersTrue, RemovalStep
    PROVE  FoldersTrue'
<1> USE DEF Engine, AfterCommit, Unreached, InstallLabels, InstallWrites, RemovalLabels, RemovalWrites
<1>1. UNCHANGED target
  BY EngineFrame DEF plans
<1>2. CASE ~Still
  BY <1>2, RemovalMoves, RemovalShares
<1>3. CASE Commits
  <2>1. /\ pc \in Ready /\ opState' = [opState EXCEPT ![cur] = "Succeeded"]
        /\ opState \in [Ops -> States] /\ MayCommit(cur)
        /\ rows' = IF cur \in Installs THEN rows \cup {cur} ELSE rows \ {target[cur]}
    BY <1>3 DEF Commits, Inv, IInv, TypeOK
  <2>2. CommitRemoval
    BY <2>1, AloneAtWork
    DEF Ready, Started, RemovalStep, RemovalExecution, RemovalRecovery, Skip, StepWrite, CommitRefused,
        Unreadable, StartRemoval, SetAside, SetAsideFails, AsideFailed, CheckAside,
        CompleteAside, StartRemovalCommit, CommitRemovalRefused, Undo, UndoUnread,
        StartRestore, Restore, RestoreFails, CompleteRestore, RestoreFailed,
        FailRemovalCommit, InspectUndo, InspectInconsistent, InspectRemoved,
        RemovedCommitStep, InspectMissing, InspectRetry, ReopenRemoval
  <2>3. cur \in Removals /\ live = {} /\ live' = live /\ cur \notin Installs
    BY <2>2, OpsAssumption DEF CommitRemoval, CommitRow, files, VacatedOK, Vacated, Inv, IInv, CurOK, Fits
  <2>4. rows' = {}
    BY <2>1, <2>3, RemovalFinds DEF Ready
  <2>5. \A o \in Ops : opState'[o] \notin Started
    BY <2>1, AloneAtWork DEF Ready, Started
  <2>6. QED
    BY <2>3, <2>4, <2>5 DEF FoldersTrue, EmptyAgrees, RecordedAgree, Ops
<1>4. CASE (Works \/ Reopens) /\ Still
  BY <1>1, <1>4, EngineStates, QuietFolders DEF Works, Reopens, Still
<1>5. QED
  BY <1>2, <1>3, <1>4, RemovalFlow

\* A removal is given up only with the mod back in Mods.
LEMMA RemovalKeepsStages ==
    ASSUME Inv, WInv, FoldersTrue, StagesTrue, RemovalStep
    PROVE  StagesTrue'
<1> USE DEF Engine, AfterCommit, Unreached, InstallLabels, InstallWrites, RemovalLabels, RemovalWrites,
            Replaced
<1>0. UNCHANGED <<target, cur>>
  BY EngineFrame DEF plans
<1>1. CASE Undo \/ UndoUnread
  <2>1. /\ pc = "undo" /\ cur \in Removals /\ UNCHANGED <<live, rows>>
        /\ pc' \in {"start_restore", "to_failed", "to_recovery"}
        /\ pc' = "to_failed" => quar[cur] = {}
    BY <1>1 DEF Undo, UndoUnread, Go, Exists, store, files, Inv, IInv, CurOK, Fits
  <2>2. rows = {target[cur]} /\ live \cup quar[cur] = Whole(target[cur])
    BY <2>1, RemovalFinds
  <2>3. QED
    BY <2>1, <2>2
    DEF StagesTrue, MovesIn, Published, Rejected, EmptyAgrees, RecordedAgree, Whole
<1>2. CASE Restore \/ RestoreFails
  <2>1. /\ pc = "restore" /\ cur \in Removals /\ pc' \in {"complete_restore", "restore_failed"}
        /\ pc' = "complete_restore" =>
               \/ \E m \in Refilled(quar[cur], live) \cup {Moved(quar[cur], live)} :
                      live' = m.dst /\ (m \in Refilled(quar[cur], live) \/ live = {})
               \/ quar[cur] = {} /\ live' = live
    BY <1>2 DEF Restore, RestoreFails, Go, Exists, Inv, IInv, CurOK, Fits
  <2>2. pc' = "complete_restore" => live' = live \cup quar[cur]
    BY <2>1 DEF Refilled, Moved
  <2>3. live \cup quar[cur] = Whole(target[cur])
    BY <2>1, RemovalFinds
  <2>4. QED
    BY <1>0, <2>1, <2>2, <2>3 DEF StagesTrue, MovesIn, Published, Rejected, Whole
<1>3. CASE CompleteRestore \/ FailRemovalCommit
  <2>1. /\ pc \in Replaced /\ pc' \in {"to_failed", "fail_removal_commit"} /\ cur \in Removals
        /\ UNCHANGED <<live, rows>>
    BY <1>3 DEF CompleteRestore, FailRemovalCommit, StepWrite, Go, store, files, Inv, IInv, CurOK, Fits
  <2>2. rows = {target[cur]}
    BY <2>1, RemovalFinds
  <2>3. QED
    BY <1>0, <2>1, <2>2
    DEF StagesTrue, MovesIn, Published, Rejected, EmptyAgrees, RecordedAgree, Whole
<1>4. CASE RemovalStep /\ ~(Undo \/ UndoUnread \/ Restore \/ RestoreFails \/ CompleteRestore \/ FailRemovalCommit)
  <2>1. pc' \notin Noted
    BY <1>4
    DEF RemovalStep, RemovalExecution, RemovalRecovery, Skip, StepWrite, Go, Noted, MovesIn, Published,
        Rejected, CommitRow, CommitRefused, Unreadable, StartRemoval, SetAside, SetAsideFails,
        AsideFailed, CheckAside, CompleteAside, StartRemovalCommit, CommitRemoval,
        CommitRemovalRefused, StartRestore, RestoreFailed, InspectUndo, InspectInconsistent,
        InspectRemoved, RemovedCommitStep, InspectMissing, InspectRetry, ReopenRemoval
  <2>2. QED
    BY <2>1, QuietStages
<1>5. QED
  BY <1>1, <1>2, <1>3, <1>4

-----------------------------------------------------------------------------
(* The rest of the program.                                                 *)

\* In one window everything asked for is asked with nothing in hand.
LEMMA AskedAtRest ==
    ASSUME OneWindow, Inv, WInv, Asked
    PROVE  pc = "idle" /\ pc' \in {"idle", "prepare", "next"}
<1>1. CASE \/ \E i \in Installs : PreviewInstall(i)
           \/ \E r \in Removals : PreviewRemoval(r)
           \/ \E o \in Ops : CancelPreview(o) \/ PassGate(o) \/ MarkHandled(o)
           \/ \E p \in Processes : PassGateOther(p)
           \/ RetryRecovery
  <2>1. \A o \in Ops : OwnerOf[o] = Window
    BY OpsAssumption DEF OneWindow
  <2>2. Free(Window)
    BY <1>1, <2>1, LockIsOurs
    DEF PreviewInstall, PreviewRemoval, CancelPreview, PassGate, MarkHandled, PassGateOther, RetryRecovery,
        Ops
  <2>3. QED
    BY <1>1, <2>2, FreeWindow
    DEF PreviewInstall, PreviewRemoval, CancelPreview, PassGate, MarkHandled, PassGateOther, RetryRecovery
<1>2. CASE (\E p \in Processes : Enter(p) \/ ApplyOther(p)) \/ Launch \/ EnterRecovery
  <2>1. who = NoProc
    BY <1>2 DEF Enter, ApplyOther, Launch, EnterRecovery, LockFree, WInv, Control
  <2>2. pc = "idle"
    BY <2>1 DEF WInv, Control
  <2>3. QED
    BY <1>2, <2>2 DEF Enter, ApplyOther, Launch, EnterRecovery, Go
<1>3. CASE RecoveryDeferred \/ \E p \in Processes : LockRefused(p)
  BY <1>3, LockIsOurs, ProcessAssumption
<1>4. QED
  BY <1>1, <1>2, <1>3 DEF Asked

\* Outside the engines a change begins in Run, and ends in ToFailed or by hand;
\* a removal that was proposed keeps its aim.
LEMMA OtherStates ==
    ASSUME Inv, WInv, [Next]_vars, ~InstallStep, ~RemovalStep
    PROVE  /\ \A r \in Removals : opState[r] # "New" => target'[r] = target[r]
           /\ \/ Run \/ ToFailed \/ \E o \in Ops : MarkHandled(o)
              \/ \A o \in Ops : opState'[o] \in Started <=> opState[o] \in Started
<1>0. /\ opState \in [Ops -> States] /\ target \in [Removals -> Installs \cup {NoOp}]
      /\ pc # "to_succeeded"
  BY DEF Inv, IInv, TypeOK, WInv, Control, Unreached
<1>1. CASE Prepare \/ BeginCommit
  <2>1. cur \in Ops /\ pc \in {"prepare", "begin_commit"}
    BY <1>1, AtWork DEF Prepare, BeginCommit, Advance
  <2>2. /\ opState[cur] \in Started <=> opState'[cur] \in Started
        /\ \A o \in Ops \ {cur} : opState'[o] = opState[o]
    BY <1>0, <1>1, <2>1
    DEF Prepare, BeginCommit, Advance, Transition, Accepts, IsValidTransition, Successors, OperationState,
        WInv, StageOK, Started
  <2>3. QED
    BY <1>1, <2>2 DEF Prepare, BeginCommit, Advance, plans
<1>2. CASE ToRecovery
  <2>1. cur \in Ops /\ opState[cur] \in Started
    BY <1>2, AloneAtWork DEF ToRecovery, Engine
  <2>2. QED
    BY <1>0, <1>2, <2>1 DEF ToRecovery, EndAs, Transition, Started, plans
<1>3. CASE Run \/ ToFailed \/ \E o \in Ops : MarkHandled(o)
  BY <1>3 DEF Run, Advance, ToFailed, EndAs, MarkHandled, plans
<1>4. CASE ReturnErr
  <2>1. \A o \in Ops : opState'[o] = opState[o] \/ (IsStillMutating(opState[o]) /\ opState'[o] = "RecoveryRequired")
    BY <1>0, <1>4 DEF ReturnErr
  <2>2. QED
    BY <1>4, <2>1 DEF ReturnErr, plans, IsStillMutating, WInv, StageOK, Reachable, Started
<1>5. CASE ReturnOk \/ \E p \in Processes : Enter(p) \/ ApplyOther(p)
  BY <1>0, <1>5 DEF ReturnOk, Enter, ApplyOther, ReleaseStale, Stale, plans, Started
<1>6. CASE Reconcile
  <2>1. cur \in Ops /\ opState[cur] = snap[cur]
    BY <1>6, AtWork DEF Reconcile, WInv, StageOK, SnapTrue
  <2>2. \A o \in Ops : opState'[o] = opState[o] \/ (opState[o] \in {"Draft", "Prepared"} /\ opState'[o] = "Cancelled")
    BY <1>0, <1>6, <2>1
    DEF Reconcile, Transition, Accepts, IsValidTransition, Successors, OperationState
  <2>3. QED
    BY <1>6, <2>2 DEF Reconcile, plans, Started
<1>7. CASE \E o \in Ops : CancelPreview(o)
  BY <1>0, <1>7
  DEF CancelPreview, Transition, Accepts, IsValidTransition, Successors, OperationState, plans, Started
<1>8. CASE (\E i \in Installs : PreviewInstall(i)) \/ (\E r \in Removals : PreviewRemoval(r))
  BY <1>0, <1>8 DEF PreviewInstall, PreviewRemoval, Started
<1>9. CASE UNCHANGED <<opState, plans>>
  BY <1>9 DEF plans
<1>10. QED
  BY <1>0, <1>1, <1>2, <1>3, <1>4, <1>5, <1>6, <1>7, <1>8, <1>9
  DEF Next, Handler, Asked, Environment, ToSucceeded, Unreadable, ReturnEarly, ReturnErrUnrecorded,
      StoreFails, NextListed, ReconcileFails, PassGate, PassGateOther, LockRefused, Launch,
      RetryRecovery, EnterRecovery, RecoveryDeferred, Tamper, Crash, vars

\* A change begins while files and records agree, and ends as they do again.
LEMMA OtherKeepsFolders ==
    ASSUME Inv, WInv, FreshOK, FoldersTrue, StagesTrue, [Next]_vars, ~InstallStep, ~RemovalStep,
           Still, handled' = FALSE
    PROVE  FoldersTrue'
<1>0. UNCHANGED rows /\ opState \in [Ops -> States]
  BY OtherJournals DEF Inv, IInv, TypeOK
<1>1. CASE \A o \in Ops : opState'[o] \in Started <=> opState[o] \in Started
  BY <1>0, <1>1, OtherStates, QuietFolders DEF Still, Started, Ops
<1>2. CASE Run
  <2>1. cur \in Ops /\ opState[cur] = "Prepared" /\ pc = "run"
    BY <1>2, AtWork DEF Run, Advance, WInv, StageOK
  <2>2. /\ opState'[cur] = "Running" /\ \A o \in Ops \ {cur} : opState'[o] = opState[o]
        /\ UNCHANGED <<live, quar, target>>
    BY <1>0, <1>2, <2>1
    DEF Run, Advance, Transition, Accepts, IsValidTransition, Successors, OperationState, files, plans
  <2>3. Sole(cur) /\ \A o \in Ops : opState[o] \notin Started
    BY <2>1 DEF WInv, SoleOK, Sole, Standing, Started
  <2>4. RecordedAgree
    BY <2>3 DEF FoldersTrue, Ops
  <2>5. cur \in Removals => rows = {target[cur]} /\ live \cup quar[cur] = Whole(target[cur])
    BY <2>1, <2>3, <2>4 DEF Sole, RecordedAgree, FreshOK
  <2>6. QED
    BY <1>0, <2>1, <2>2, <2>3, <2>4, <2>5
    DEF FoldersTrue, EmptyAgrees, RecordedAgree, Whole, Started, Ops
<1>3. CASE ToFailed
  <2>1. EmptyAgrees /\ RecordedAgree
    BY <1>3 DEF ToFailed, StagesTrue
  <2>2. \A o \in Ops : opState'[o] \notin Started
    <3>1. cur \in Ops /\ opState[cur] \in Started /\ \A q \in Ops \ {cur} : opState[q] \notin Started
      BY <1>3, AloneAtWork DEF ToFailed, Engine
    <3>2. QED
      BY <1>0, <1>3, <3>1
      DEF ToFailed, EndAs, Transition, Accepts, IsValidTransition, Successors, OperationState, Started
  <2>3. QED
    BY <1>0, <2>1, <2>2 DEF FoldersTrue, EmptyAgrees, RecordedAgree, Still, Whole, Ops
<1>4. QED
  BY <1>1, <1>2, <1>3, OtherStates DEF MarkHandled

\* Outside the engines a handler relies on the folders only as it begins.
LEMMA OtherKeepsStages ==
    ASSUME OneWindow, Inv, WInv, FoldersTrue, StagesTrue, [Next]_vars, ~InstallStep, ~RemovalStep,
           ~Tamper
    PROVE  StagesTrue'
<1>1. CASE Run \/ BeginCommit
  <2>1. /\ UNCHANGED <<live, rows>>
        /\ \/ pc = "run" /\ pc' \in {"begin_commit", "return_early"}
           \/ pc = "begin_commit" /\ pc' \in {"start_publish", "start_removal", "return_early"}
    BY <1>1 DEF Run, BeginCommit, Advance, Go, files, store
  <2>2. pc = "run" => EmptyAgrees
    <3>1. pc = "run" => cur \in Ops /\ opState[cur] = "Prepared"
      BY AtWork DEF WInv, StageOK
    <3>2. pc = "run" => \A o \in Ops : opState[o] \notin Started
      BY <3>1 DEF WInv, SoleOK, Sole, Standing, Started
    <3>3. QED
      BY <3>2 DEF FoldersTrue
  <2>3. QED
    BY <2>1, <2>2 DEF StagesTrue, MovesIn, Published, Rejected, Replaced, EmptyAgrees
<1>2. CASE Handler /\ ~Run /\ ~BeginCommit
  <2>1. pc' \notin Noted
    BY <1>2
    DEF Handler, Prepare, Advance, Unreadable, ToFailed, ToSucceeded, ToRecovery, EndAs, ReturnOk,
        ReturnEarly, ReturnErr, ReturnErrUnrecorded, Release, StoreFails, NextListed, Reconcile,
        ReconcileFails, Go, Noted, MovesIn, Published, Rejected, Replaced
  <2>2. QED
    BY <2>1, QuietStages
<1>3. CASE Asked
  BY <1>3, AskedAtRest, QuietStages DEF Noted, MovesIn, Published, Rejected, Replaced
<1>4. CASE Environment
  <2>1. Crash(Window)
    BY <1>4, LockIsOurs DEF Environment
  <2>2. pc' = "idle"
    BY <2>1 DEF Crash, WInv, Control
  <2>3. QED
    BY <2>2, QuietStages DEF Noted, MovesIn, Published, Rejected, Replaced
<1>5. CASE UNCHANGED vars
  BY <1>5
  DEF vars, store, files, plans, StagesTrue, EmptyAgrees, RecordedAgree, Plan, Whole
<1>6. QED
  BY <1>1, <1>2, <1>3, <1>4, <1>5 DEF Next

\* A kill in the middle of a move leaves what the move would have kept.
LEMMA CrashKeepsFolders ==
    ASSUME OneWindow, Inv, WInv, FoldersTrue, StagesTrue, NEW p \in Processes, Crash(p)
    PROVE  FoldersTrue'
<1> USE DEF Engine, AfterCommit, Unreached, InstallLabels, InstallWrites, RemovalLabels, RemovalWrites
<1>1. UNCHANGED <<opState, target, rows>>
  BY DEF Crash, plans, store
<1>2. CASE UNCHANGED <<live, quar>>
  BY <1>1, <1>2, QuietFolders
<1>3. CASE ~UNCHANGED <<live, quar>>
  <2>1. TornFiles
    BY <1>3 DEF Crash, files
  <2>2. CASE pc \in {"publish", "quarantine"}
    <3>1. cur \in Installs /\ cur \in Ops /\ opState[cur] \in Started
      BY <2>2, AloneAtWork DEF Inv, IInv, CurOK, Fits
    <3>2. rows = {}
      <4>1. CASE pc = "publish"
        <5>1. PICK m \in TornMoves(staged[cur], live) : live' = m.dst /\ quar' = quar
          BY <1>3, <2>1, <4>1 DEF TornFiles, files
        <5>2. live = {}
          BY <1>3, <5>1 DEF TornMoves, Unmoved, Exists
        <5>3. QED
          BY <3>1, <4>1, <5>2, InstallFinds
      <4>2. QED
        BY <2>2, <4>1 DEF StagesTrue
    <3>3. \A r \in Removals : opState[r] \notin Started
      BY <2>2, <3>1, AloneAtWork, OpsAssumption DEF Ops
    <3>4. QED
      BY <1>1, <3>1, <3>2, <3>3 DEF FoldersTrue, RecordedAgree
  <2>3. CASE pc \in {"set_aside", "restore"}
    <3>1. cur \in Removals
      BY <2>3 DEF Inv, IInv, CurOK, Fits
    <3>2. PICK m : /\ \/ /\ m \in TornMoves(live, quar[cur])
                         /\ live' = m.src /\ quar' = [quar EXCEPT ![cur] = m.dst]
                      \/ /\ m \in Refilled(quar[cur], live) \cup PartlyRefilled(quar[cur], live)
                                   \cup TornMoves(quar[cur], live)
                         /\ quar' = [quar EXCEPT ![cur] = m.src] /\ live' = m.dst
      BY <1>3, <2>1, <2>3 DEF TornFiles, files
    <3>3. m.src \cup m.dst = live \cup quar[cur]
      BY <3>2, MoveShares
    <3>4. \E q : quar' = [quar EXCEPT ![cur] = q] /\ live' \cup q = live \cup quar[cur]
      BY <3>2, <3>3
    <3>5. QED
      BY <1>1, <2>3, <3>1, <3>4, RemovalShares
  <2>4. QED
    BY <1>3, <2>1, <2>2, <2>3 DEF TornFiles, files
<1>4. QED
  BY <1>2, <1>3

-----------------------------------------------------------------------------
(* The recovery folders.                                                    *)

Fresh == {"New", "Draft", "Prepared"}

\* No change goes back to where it had not begun, and none that ended goes on.
LEMMA Forward ==
    ASSUME Inv, WInv, [Next]_vars, NEW o \in Ops
    PROVE  /\ opState'[o] \in Fresh => opState[o] \in Fresh
           /\ opState[o] \in Ended => opState'[o] \in Ended
<1>0. opState \in [Ops -> States] /\ pc # "to_succeeded"
  BY DEF Inv, IInv, TypeOK, WInv, Control, Unreached
<1>1. CASE Works \/ Reopens
  <2>1. CASE Works
    BY <2>1 DEF Works
  <2>2. CASE Reopens
    <3>1. pc \in Engine
      BY <2>2
      DEF Reopens, Engine, AfterCommit, Unreached, InstallLabels, InstallWrites, RemovalLabels, RemovalWrites
    <3>2. opState[cur] \in Started
      BY <3>1, AloneAtWork
    <3>3. QED
      BY <1>0, <2>2, <3>2 DEF Reopens, Transition, Fresh, Ended, Started
  <2>3. QED
    BY <1>1, <2>1, <2>2
<1>2. CASE Commits
  BY <1>0, <1>2 DEF Commits, MayCommit, Fresh, Ended
<1>3. CASE Prepare \/ Run \/ BeginCommit
  <2>1. cur \in Ops /\ opState[cur] \in {"Draft", "Prepared", "Running"}
        /\ opState'[cur] \in {"Prepared", "Running", "Committing"}
        /\ (opState[cur] = "Running" => opState'[cur] = "Committing")
    <3>1. cur \in Ops
      BY <1>3, AtWork DEF Prepare, Run, BeginCommit, Advance
    <3>2. QED
      BY <1>0, <1>3, <3>1
      DEF Prepare, Run, BeginCommit, Advance, Transition, Accepts, IsValidTransition, Successors,
          OperationState, WInv, StageOK
  <2>2. \A q \in Ops \ {cur} : opState'[q] = opState[q]
    BY <1>0, <1>3 DEF Prepare, Run, BeginCommit, Advance, Transition
  <2>3. QED
    BY <2>1, <2>2 DEF Fresh, Ended
<1>4. CASE ToFailed \/ ToRecovery
  <2>1. opState[cur] \in Started
    BY <1>4, AloneAtWork DEF ToFailed, ToRecovery, Engine
  <2>2. QED
    BY <1>0, <1>4, <2>1 DEF ToFailed, ToRecovery, EndAs, Transition, Fresh, Ended, Started
<1>5. CASE ReturnErr \/ ReturnOk \/ \E p \in Processes : Enter(p) \/ ApplyOther(p)
  BY <1>0, <1>5
  DEF ReturnErr, ReturnOk, Enter, ApplyOther, ReleaseStale, Stale, IsStillMutating, Fresh, Ended
<1>6. CASE Reconcile \/ \E q \in Ops : CancelPreview(q) \/ MarkHandled(q)
  BY <1>0, <1>6 DEF Reconcile, CancelPreview, MarkHandled, Transition, Fresh, Ended
<1>7. CASE (\E i \in Installs : PreviewInstall(i)) \/ (\E r \in Removals : PreviewRemoval(r))
  BY <1>0, <1>7 DEF PreviewInstall, PreviewRemoval, Fresh, Ended
<1>8. CASE UNCHANGED opState
  BY <1>8
<1>9. QED
  BY <1>0, <1>1, <1>2, <1>3, <1>4, <1>5, <1>6, <1>7, <1>8, InstallFlow, RemovalFlow
  DEF Next, Handler, Asked, Environment, ToSucceeded, Unreadable, ReturnEarly, ReturnErrUnrecorded,
      StoreFails, NextListed, ReconcileFails, PassGate, PassGateOther, LockRefused, Launch,
      RetryRecovery, EnterRecovery, RecoveryDeferred, Tamper, Crash, vars

\* Only the change an engine works on has its recovery folder moved.
LEMMA QuarMoves ==
    ASSUME Inv, WInv, [Next]_vars
    PROVE  UNCHANGED quar \/ (pc \in Engine /\ \E q : quar' = [quar EXCEPT ![cur] = q])
<1> USE DEF Engine, AfterCommit, Unreached, InstallLabels, InstallWrites, RemovalLabels, RemovalWrites
<1>1. CASE InstallStep
  BY <1>1, InstallFiles DEF Still, PublishMoves, PublishFails, QuarantinePublished, QuarantineFails
<1>2. CASE RemovalStep
  BY <1>2, RemovalMoves DEF Still
<1>3. CASE ~InstallStep /\ ~RemovalStep
  <2>1. CASE Still \/ Tamper
    BY <2>1 DEF Still, Tamper
  <2>2. CASE TornFiles
    BY <2>2 DEF TornFiles, files
  <2>3. QED
    BY <1>3, <2>1, <2>2, OtherFiles
<1>4. QED
  BY <1>1, <1>2, <1>3

\* What has not begun, and what has ended, keeps its recovery folder.
LEMMA QuarKept ==
    ASSUME Inv, WInv, [Next]_vars, NEW o \in Ops, opState[o] \notin Started
    PROVE  quar'[o] = quar[o]
<1>1. CASE pc \in Engine /\ \E q : quar' = [quar EXCEPT ![cur] = q]
  <2>1. o # cur
    BY <1>1, AloneAtWork
  <2>2. QED
    BY <1>1, <2>1 DEF Inv, IInv, TypeOK
<1>2. QED
  BY <1>1, QuarMoves

LEMMA NextKeepsFresh ==
    ASSUME Inv, WInv, FreshOK, [Next]_vars
    PROVE  FreshOK'
<1> SUFFICES ASSUME NEW o \in Ops, opState'[o] \in Fresh PROVE quar'[o] = {}
  BY DEF FreshOK, Fresh
<1>1. opState[o] \in Fresh
  BY Forward
<1>2. QED
  BY <1>1, QuarKept DEF FreshOK, Fresh, Started

\* The commit is a step of an engine, and moves no folder.
LEMMA CommitMovesNothing ==
    ASSUME Inv, WInv, [Next]_vars, Commits
    PROVE  Still /\ (InstallStep \/ RemovalStep)
<1>1. pc \in Ready /\ cur \in Ops /\ opState'[cur] = "Succeeded" /\ opState[cur] = "Committing"
  <2>1. pc \in Ready /\ cur \in Ops
    BY AloneAtWork
    DEF Commits, Ready, Engine, AfterCommit, Unreached, InstallLabels, InstallWrites, RemovalLabels,
        RemovalWrites
  <2>2. QED
    BY <2>1 DEF Commits, MayCommit, Inv, IInv, TypeOK
<1>2. CASE InstallStep
  BY <1>1, <1>2, InstallFiles DEF PublishMoves, PublishFails, QuarantinePublished, QuarantineFails, Ready
<1>3. CASE RemovalStep
  BY <1>1, <1>3, RemovalFiles DEF SetAside, SetAsideFails, Restore, RestoreFails, Ready
<1>4. CASE ~InstallStep /\ ~RemovalStep
  <2>1. CASE \A o \in Ops : opState'[o] \in Started <=> opState[o] \in Started
    BY <1>1, <2>1 DEF Started
  <2>2. CASE Run \/ ToFailed
    BY <1>1, <2>2 DEF Run, Advance, ToFailed, Ready
  <2>3. CASE \E o \in Ops : MarkHandled(o)
    BY <1>1, <2>3 DEF MarkHandled, Transition, Inv, IInv, TypeOK
  <2>4. QED
    BY <1>4, <2>1, <2>2, <2>3, OtherStates
<1>5. QED
  BY <1>2, <1>3, <1>4

\* A removal commits with its folder seen out of Mods.
LEMMA NextKeepsVacated ==
    ASSUME OneWindow, Inv, WInv, VacatedOK, [Next]_vars, ~Tamper
    PROVE  VacatedOK'
<1> USE DEF Vacated
<1>1. CASE InstallStep
  <2>1. pc' \notin Vacated
    BY <1>1
    DEF InstallStep, InstallExecution, InstallRecovery, Skip, StepWrite, Go, CommitRow, CommitRefused,
        CleanStaging, Unreadable, Reopen, StartPublish, VerifyStaged, PublishRejected, PublishMoves,
        PublishOccupied, PublishFails, PublishRefused, PublishUncertain, ConfirmLive,
        CompletePublish, StartCommit, CommitInstall, CommitInstallRefused, CommitPayloadUnavailable,
        StartQuarantine, QuarantinePublished, QuarantineFails, CompleteQuarantine, FailCommit,
        QuarantineFailed, StartCleanup, Cleanup, CompleteCleanup, InspectAmbiguous, InspectOwned,
        AdoptCommitStep, InspectRolledBack, InspectOccupied, InspectAdoptable, InspectUnpublished,
        ReopenPublish, ReopenCommit, RestateCommit, Tidy
  <2>2. QED
    BY <2>1 DEF VacatedOK
<1>2. CASE CheckAside
  BY <1>2 DEF CheckAside, Skip, Go, files, Exists, VacatedOK
<1>3. CASE CompleteAside \/ ReopenRemoval \/ StartRemovalCommit
  BY <1>3 DEF CompleteAside, ReopenRemoval, StartRemovalCommit, Skip, StepWrite, Go, files, VacatedOK
<1>4. CASE RemovalStep /\ ~(CheckAside \/ CompleteAside \/ ReopenRemoval \/ StartRemovalCommit)
  <2>1. pc' \notin Vacated
    BY <1>4
    DEF RemovalStep, RemovalExecution, RemovalRecovery, Skip, StepWrite, Go, CommitRow, CommitRefused,
        Unreadable, StartRemoval, SetAside, SetAsideFails, AsideFailed, CommitRemoval,
        CommitRemovalRefused, Undo, UndoUnread, StartRestore, Restore, RestoreFails, CompleteRestore,
        RestoreFailed, FailRemovalCommit, InspectUndo, InspectInconsistent, InspectRemoved,
        RemovedCommitStep, InspectMissing, InspectRetry
  <2>2. QED
    BY <2>1 DEF VacatedOK
<1>5. CASE Handler /\ ~InstallStep /\ ~RemovalStep
  <2>1. pc' \notin Vacated
    BY <1>5
    DEF Handler, Prepare, Run, BeginCommit, Advance, Unreadable, ToFailed, ToSucceeded, ToRecovery, EndAs,
        ReturnOk, ReturnEarly, ReturnErr, ReturnErrUnrecorded, Release, StoreFails, NextListed,
        Reconcile, ReconcileFails, Go
  <2>2. QED
    BY <2>1 DEF VacatedOK
<1>6. CASE Asked
  BY <1>6, AskedAtRest DEF VacatedOK
<1>7. CASE Environment
  <2>1. Crash(Window)
    BY <1>7, LockIsOurs DEF Environment
  <2>2. pc' = "idle"
    BY <2>1 DEF Crash, WInv, Control
  <2>3. QED
    BY <2>2 DEF VacatedOK
<1>8. CASE UNCHANGED vars
  BY <1>8 DEF vars, files, VacatedOK
<1>9. QED
  BY <1>1, <1>2, <1>3, <1>4, <1>5, <1>6, <1>7, <1>8 DEF Next

\* A removed mod stays in the recovery folder it was seen in.
LEMMA NextKeepsRemoved ==
    ASSUME Inv, WInv, FilesInv, FreshOK, VacatedOK, RemovedKept, [Next]_vars,
           tampers = 0, Untouched => FoldersTrue, handled => handled'
    PROVE  RemovedKept'
<1> SUFFICES ASSUME NEW r \in Removals, opState'[r] = "Succeeded"
             PROVE  /\ \E q \in Removals : opState'[q] \in Ended /\ Whole(target'[r]) \subseteq quar'[q]
                    /\ ~handled' => Whole(target'[r]) \subseteq quar'[r]
  BY DEF RemovedKept, Whole
<1>0. opState[r] \in Reachable /\ target \in [Removals -> Installs \cup {NoOp}] /\ Removals \subseteq Ops
  BY DEF WInv, StageOK, Inv, IInv, TypeOK, Ops
<1>1. target'[r] = target[r]
  <2>1. CASE InstallStep \/ RemovalStep
    BY <2>1, EngineFrame DEF plans
  <2>2. CASE ~InstallStep /\ ~RemovalStep
    <3>1. opState[r] # "New"
      BY <1>0, <2>2, OnlyCommitsSucceed, CommitMovesNothing
    <3>2. QED
      BY <2>2, <3>1, OtherStates
  <2>3. QED
    BY <2>1, <2>2
<1>2. ASSUME NEW q \in Removals, opState[q] \in Ended
      PROVE  opState'[q] \in Ended /\ quar'[q] = quar[q]
  BY <1>0, <1>2, Forward, QuarKept DEF Ended, Started
<1>3. CASE opState[r] = "Succeeded"
  <2>1. PICK q \in Removals : opState[q] \in Ended /\ Whole(target[r]) \subseteq quar[q]
    BY <1>3 DEF RemovedKept
  <2>2. QED
    BY <1>1, <1>2, <1>3, <2>1 DEF RemovedKept, Ended
<1>4. CASE opState[r] # "Succeeded"
  <2>1. Commits
    BY <1>0, <1>4, OnlyCommitsSucceed
  <2>2. Still /\ r = cur /\ pc \in Ready /\ pc \in Engine
    BY <1>0, <1>4, <2>1, CommitMovesNothing
    DEF Commits, Inv, IInv, TypeOK, Ready, Engine, AfterCommit, Unreached, InstallLabels, InstallWrites,
        RemovalLabels, RemovalWrites
  <2>3. live = {}
    BY <2>2, OpsAssumption
    DEF VacatedOK, Vacated, Ready, Inv, IInv, CurOK, Fits, InstallLabels, InstallWrites
  <2>4. target[r] \in rows /\ Whole(target[r]) # {}
    BY <2>2, AloneAtWork DEF Sole, Whole, FilesOf
  <2>5. PICK q \in Removals : Whole(target[r]) \subseteq quar[q]
    BY <2>3, <2>4 DEF FilesInv, KeptOK, Aside
  <2>6. opState'[q] \in Ended
    <3>1. CASE q = r
      BY <3>1 DEF Ended
    <3>2. CASE q # r
      <4>1. opState[q] \notin Started
        BY <1>0, <2>2, <3>2, AloneAtWork
      <4>2. opState[q] \notin Fresh
        BY <1>0, <2>4, <2>5 DEF FreshOK, Fresh
      <4>3. QED
        BY <1>0, <1>2, <4>1, <4>2 DEF WInv, StageOK, Reachable, Fresh, Ended, Started
    <3>3. QED
      BY <3>1, <3>2
  <2>7. ~handled => Whole(target[r]) \subseteq quar[r]
    BY <2>2, <2>3, RemovalFinds DEF Untouched
  <2>8. QED
    BY <1>1, <2>2, <2>5, <2>6, <2>7 DEF Still
<1>5. QED
  BY <1>3, <1>4

-----------------------------------------------------------------------------
(* The invariant.                                                           *)

\* The user's hand is never taken back.
LEMMA HandsStay ==
    ASSUME Inv, [Next]_vars
    PROVE  /\ handled => handled'
           /\ tampers' = 0 => tampers = 0 /\ ~Tamper
           /\ Untouched' => Untouched
<1>0. tampers \in Nat
  BY DEF Inv, IInv, TypeOK
<1>1. CASE Tamper
  <2>1. tampers' # 0 /\ handled' = handled
    BY <1>0, <1>1 DEF Tamper
  <2>2. QED
    BY <2>1 DEF Untouched
<1>2. CASE InstallStep \/ RemovalStep
  <2>1. UNCHANGED <<tampers, handled>>
    BY <1>2, EngineFrame DEF env
  <2>2. ~Tamper
    BY <2>1, <1>0 DEF Tamper
  <2>3. QED
    BY <2>1, <2>2 DEF Untouched
<1>3. CASE ~InstallStep /\ ~RemovalStep /\ ~Tamper
  <2>1. tampers' = tampers /\ (handled' = handled \/ \E o \in Ops : MarkHandled(o))
    <3>1. CASE \E o \in Ops : MarkHandled(o)
      BY <3>1 DEF MarkHandled
    <3>2. CASE ~\E o \in Ops : MarkHandled(o)
      BY <1>3, <3>2
      DEF Next, Handler, Asked, Environment, Prepare, Run, BeginCommit, Advance, ToFailed, ToSucceeded,
          ToRecovery, EndAs, ReturnOk, ReturnEarly, ReturnErr, ReturnErrUnrecorded, StoreFails, NextListed,
          Reconcile, ReconcileFails, Unreadable, PreviewInstall, PreviewRemoval, CancelPreview,
          PassGate, PassGateOther, LockRefused, Enter, ApplyOther, Launch,
          RetryRecovery, EnterRecovery, RecoveryDeferred, Crash, env, vars
    <3>3. QED
      BY <3>1, <3>2
  <2>2. handled => handled'
    BY <2>1 DEF MarkHandled
  <2>3. QED
    BY <1>3, <2>1, <2>2 DEF Untouched
<1>4. QED
  BY <1>1, <1>2, <1>3

\* Nothing else but a kill moves a folder.
LEMMA StillUnlessCrash ==
    ASSUME [Next]_vars, ~InstallStep, ~RemovalStep, ~Tamper, ~\E p \in Processes : Crash(p)
    PROVE  Still
BY DEF Next, Handler, Asked, Environment, Still, Prepare, Run, BeginCommit, Advance, ToFailed, ToSucceeded,
       ToRecovery, EndAs, ReturnOk, ReturnEarly, ReturnErr, ReturnErrUnrecorded, StoreFails, NextListed,
       Reconcile, ReconcileFails, Unreadable, PreviewInstall, PreviewRemoval, CancelPreview,
       PassGate, MarkHandled, PassGateOther, LockRefused, Enter, ApplyOther, Launch,
       RetryRecovery, EnterRecovery, RecoveryDeferred, files, vars

\* Folders and stages together, in a run the user has not touched.
LEMMA NextKeepsAgreement ==
    ASSUME OneWindow, Inv, WInv, FilesInv, FreshOK, VacatedOK, FoldersTrue, StagesTrue, [Next]_vars,
           Untouched'
    PROVE  FoldersTrue' /\ StagesTrue'
<1>0. ~Tamper /\ handled' = FALSE
  BY HandsStay DEF Untouched
<1>1. CASE InstallStep
  BY <1>1, InstallKeepsFolders, InstallKeepsStages
<1>2. CASE RemovalStep
  BY <1>2, RemovalKeepsFolders, RemovalKeepsStages
<1>3. CASE ~InstallStep /\ ~RemovalStep
  <2>1. StagesTrue'
    BY <1>0, <1>3, OtherKeepsStages
  <2>2. CASE Still
    BY <1>0, <1>3, <2>1, <2>2, OtherKeepsFolders
  <2>3. CASE \E p \in Processes : Crash(p)
    BY <2>1, <2>3, CrashKeepsFolders
  <2>4. QED
    BY <1>0, <1>3, <2>2, <2>3, StillUnlessCrash
<1>4. QED
  BY <1>1, <1>2, <1>3

LEMMA NextKeepsTruth ==
    ASSUME OneWindow, Inv, WInv, FilesInv, TruthInv, [Next]_vars
    PROVE  TruthInv'
<1>1. FreshOK'
  BY NextKeepsFresh DEF TruthInv
<1>2. ASSUME tampers' = 0
      PROVE  VacatedOK' /\ RemovedKept'
  BY <1>2, HandsStay, NextKeepsVacated, NextKeepsRemoved DEF TruthInv
<1>3. ASSUME Untouched'
      PROVE  FoldersTrue' /\ StagesTrue'
  <2>1. Untouched
    BY <1>3, HandsStay
  <2>2. QED
    BY <1>3, <2>1, NextKeepsAgreement DEF TruthInv, Untouched
<1>4. QED
  BY <1>1, <1>2, <1>3 DEF TruthInv

LEMMA InitTruth ==
    ASSUME Init
    PROVE  TruthInv
BY OpsAssumption
DEF Init, TruthInv, FreshOK, VacatedOK, Vacated, RemovedKept, FoldersTrue, StagesTrue, EmptyAgrees,
    RecordedAgree, MovesIn, Published, Rejected, Replaced, Started, Ops

LEMMA FilesInvariance == Spec => []FilesInv
BY InitFiles, NextKeepsFiles, Invariance, PTL DEF Spec

LEMMA TruthInvariance == OneWindow => (Spec => []TruthInv)
<1> SUFFICES ASSUME OneWindow PROVE Spec => []TruthInv
  OBVIOUS
<1>1. QED
  BY InitTruth, NextKeepsTruth, InvInvariance, WindowInvariance, FilesInvariance, PTL DEF Spec

-----------------------------------------------------------------------------
(* What follows from it.                                                    *)

\* Whatever was killed, failed or was undone, once no change is unfinished what
\* is in Mods is what the database records (docs/operations-and-recovery.md,
\* State lifecycle).
THEOREM FilesMatchRecords == OneWindow => (Spec => []SettledConsistent)
<1> SUFFICES ASSUME OneWindow PROVE Spec => []SettledConsistent
  OBVIOUS
<1>1. Inv /\ TruthInv => SettledConsistent
  <2> SUFFICES ASSUME Inv, TruthInv, Settled, Untouched
               PROVE  (rows = {} => live = {}) /\ \A d \in rows : rows = {d} /\ live = Whole(d)
    BY DEF SettledConsistent, Whole
  <2>1. \A o \in Ops : opState[o] \notin Started
    BY DEF Settled, Blocking, Unresolved, IsUnresolved, IsBlocking, IsPreview, OperationState, Terminal,
           Started
  <2>2. QED
    BY <2>1 DEF TruthInv, FoldersTrue, EmptyAgrees, RecordedAgree, Ops
<1>2. QED
  BY <1>1, InvInvariance, TruthInvariance, PTL

\* A mod that was removed can be brought back: no kill and no failed move of
\* this or of a later change loses its recovery folder (quarantine_deployment,
\* recover_v2_removal).
THEOREM RemovedModsStay == OneWindow => (Spec => []RemovedModRecoverable)
<1> SUFFICES ASSUME OneWindow PROVE Spec => []RemovedModRecoverable
  OBVIOUS
<1>1. TruthInv => RemovedModRecoverable
  BY DEF TruthInv, RemovedKept, RemovedModRecoverable, Whole
<1>2. QED
  BY <1>1, TruthInvariance, PTL

\* Whoever writes Succeeded does so when the database records the change in the
\* same step and the folder is where the record says: after an install in Mods,
\* after a removal out of it (confirm_published, check of the quarantine).
THEOREM SuccessIsNeverClaimed == OneWindow => (Spec => SuccessIsProven)
<1> SUFFICES ASSUME OneWindow PROVE Spec => SuccessIsProven
  OBVIOUS
<1>1. ASSUME Inv, WInv, FilesInv, TruthInv, [Next]_vars, tampers = 0,
             NEW o \in Ops, opState[o] # "Succeeded", opState'[o] = "Succeeded"
      PROVE  IF o \in Installs
             THEN Whole(o) \subseteq live' /\ \E d \in rows' : PackageOf[d] = PackageOf[o]
             ELSE live' = {} /\ target[o] \notin rows'
  <2>1. Commits
    BY <1>1, OnlyCommitsSucceed
  <2>2. /\ o = cur /\ pc \in Ready /\ live' = live
        /\ rows' = IF cur \in Installs THEN rows \cup {cur} ELSE rows \ {target[cur]}
    BY <1>1, <2>1, CommitMovesNothing DEF Commits, Inv, IInv, TypeOK, Still
  <2>3. CASE o \in Installs
    <3>1. pc \in Published /\ pc # "confirm_live"
      BY <1>1, <2>2, <2>3, OpsAssumption
      DEF Ready, Published, Inv, IInv, CurOK, Fits, RemovalLabels, RemovalWrites
    <3>2. Plan \subseteq live
      BY <1>1, <3>1 DEF FilesInv, PublishedOK
    <3>3. QED
      BY <2>2, <2>3, <3>2 DEF Plan, Whole
  <2>4. CASE o \notin Installs
    <3>1. pc \in Vacated
      BY <1>1, <2>2, <2>4, OpsAssumption
      DEF Ready, Vacated, Inv, IInv, CurOK, Fits, InstallLabels, InstallWrites
    <3>2. QED
      BY <1>1, <2>2, <2>4, <3>1 DEF TruthInv, VacatedOK
  <2>5. QED
    BY <2>3, <2>4
<1>2. Inv /\ WInv /\ FilesInv /\ TruthInv /\ [Next]_vars =>
        (tampers = 0 =>
          \A o \in Ops : opState[o] # "Succeeded" /\ opState'[o] = "Succeeded" =>
            IF o \in Installs
            THEN FilesOf(PackageOf[o]) \subseteq live' /\ \E d \in rows' : PackageOf[d] = PackageOf[o]
            ELSE live' = {} /\ target[o] \notin rows')
  BY <1>1 DEF Whole
<1>3. QED
  BY <1>2, InvInvariance, WindowInvariance, FilesInvariance, TruthInvariance, PTL DEF Spec, SuccessIsProven

-----------------------------------------------------------------------------
(* The files of an install that is unfinished.                              *)

\* What a preview staged is whole until its change begins.
StagedWhole ==
    \A i \in Installs : opState[i] \in {"Draft", "Prepared"} /\ stagingDir[i] => staged[i] = Whole(i)

KeptInv == StagedWhole /\ InstallFilesKept

\* Outside the engines a staged folder is filled by its preview, emptied for
\* good, or torn by a kill while it is published.
LEMMA OtherStaging ==
    ASSUME Inv, WInv, [Next]_vars, ~InstallStep, ~RemovalStep, NEW i \in Installs, stagingDir'[i]
    PROVE  \/ /\ stagingDir[i] /\ staged'[i] = staged[i]
              /\ opState[i] = "New" => opState'[i] = "New"
           \/ opState'[i] = "Draft" /\ staged'[i] = Whole(i)
           \/ i = cur /\ pc = "publish" /\ stagingDir[i] /\ UNCHANGED opState /\ \E p \in Processes : Crash(p)
<1>0. /\ opState \in [Ops -> States] /\ i \in Ops
      /\ staged \in [Installs -> SUBSET Files] /\ stagingDir \in [Installs -> BOOLEAN]
  BY DEF Inv, IInv, TypeOK, Ops
<1>1. CASE Prepare \/ Run \/ BeginCommit \/ ToFailed \/ ToSucceeded \/ ToRecovery
  BY <1>0, <1>1
  DEF Prepare, Run, BeginCommit, Advance, ToFailed, ToSucceeded, ToRecovery, EndAs, Transition, Accepts,
      files, staging
<1>2. CASE ReturnErr
  BY <1>0, <1>2 DEF ReturnErr, IsStillMutating, files, staging
<1>3. CASE ReturnOk \/ \E p \in Processes : Enter(p) \/ ApplyOther(p)
  <2>1. ASSUME NEW r, ReleaseStale(r)
        PROVE  stagingDir[i] /\ staged'[i] = staged[i] /\ (opState[i] = "New" => opState'[i] = "New")
    BY <1>0, <2>1 DEF ReleaseStale, Stale, Unstage
  <2>2. CASE ReturnOk
    BY <2>1, <2>2 DEF ReturnOk
  <2>3. ASSUME NEW p \in Processes, Enter(p)
        PROVE  (\E r : ReleaseStale(r)) \/ UNCHANGED <<opState, staging>>
    BY <2>3 DEF Enter
  <2>4. ASSUME NEW p \in Processes, ApplyOther(p) PROVE \E r : ReleaseStale(r)
    BY <2>4 DEF ApplyOther
  <2>5. CASE UNCHANGED <<opState, staging>>
    BY <2>5 DEF staging
  <2>6. QED
    BY <1>3, <2>1, <2>2, <2>3, <2>4, <2>5
<1>4. CASE Reconcile \/ ReconcileFails \/ \E o \in Ops : CancelPreview(o)
  BY <1>0, <1>4 DEF Reconcile, ReconcileFails, CancelPreview, Unstage, Transition, Accepts, staging
<1>5. CASE \E o \in Ops : MarkHandled(o)
  BY <1>0, <1>5 DEF MarkHandled, Transition, Accepts, files, staging
<1>6. CASE \E j \in Installs : PreviewInstall(j)
  BY <1>0, <1>6 DEF PreviewInstall, Whole
<1>7. CASE \E r \in Removals : PreviewRemoval(r)
  <2>1. PICK r \in Removals : PreviewRemoval(r)
    BY <1>7
  <2>2. r # i
    BY OpsAssumption
  <2>3. QED
    BY <1>0, <2>1, <2>2 DEF PreviewRemoval, files, staging
<1>8. CASE \E p \in Processes : Crash(p)
  <2>1. UNCHANGED <<opState, stagingDir>>
    BY <1>8 DEF Crash, TornFiles, files, staging
  <2>2. staged'[i] = staged[i] \/ (i = cur /\ pc = "publish")
    BY <1>0, <1>8 DEF Crash, TornFiles, files, staging
  <2>3. QED
    BY <1>8, <2>1, <2>2
<1>9. CASE UNCHANGED <<opState, staging>>
  BY <1>9 DEF staging
<1>10. QED
  BY <1>1, <1>2, <1>3, <1>4, <1>5, <1>6, <1>7, <1>8, <1>9
  DEF Next, Handler, Asked, Environment, Unreadable, ReturnEarly, ReturnErrUnrecorded,
      StoreFails, NextListed, ReconcileFails, PassGate, PassGateOther, LockRefused, Launch,
      RetryRecovery, EnterRecovery, RecoveryDeferred, Tamper, vars, files

\* The engines touch the staged folder of the change they work on, which began.
LEMMA EngineStaging ==
    ASSUME Inv, WInv, InstallStep \/ RemovalStep, NEW i \in Installs, i # cur \/ cur \in Removals
    PROVE  /\ stagingDir'[i] = stagingDir[i] /\ staged'[i] = staged[i]
           /\ opState'[i] = opState[i]
<1>0. /\ staged \in [Installs -> SUBSET Files] /\ stagingDir \in [Installs -> BOOLEAN]
      /\ opState \in [Ops -> States] /\ i # cur /\ i \in Ops
  BY OpsAssumption DEF Inv, IInv, TypeOK, Ops
<1>1. opState'[i] = opState[i]
  BY <1>0, InstallFlow, RemovalFlow DEF Works, Reopens, Commits, Transition
<1>2. CASE InstallStep
  BY <1>0, <1>1, <1>2
  DEF InstallStep, InstallExecution, InstallRecovery, Skip, StepWrite, CommitRow, CommitRefused,
      CleanStaging, Unreadable, Reopen, StartPublish, VerifyStaged, PublishRejected, PublishMoves,
      PublishOccupied, PublishFails, PublishRefused, PublishUncertain, ConfirmLive,
      CompletePublish, StartCommit, CommitInstall, CommitInstallRefused, CommitPayloadUnavailable,
      StartQuarantine, QuarantinePublished, QuarantineFails, CompleteQuarantine, FailCommit,
      QuarantineFailed, StartCleanup, Cleanup, CompleteCleanup, InspectAmbiguous, InspectOwned,
      AdoptCommitStep, InspectRolledBack, InspectOccupied, InspectAdoptable, InspectUnpublished,
      ReopenPublish, ReopenCommit, RestateCommit, Tidy, files, staging
<1>3. CASE RemovalStep
  BY <1>1, <1>3
  DEF RemovalStep, RemovalExecution, RemovalRecovery, Skip, StepWrite, CommitRow, CommitRefused,
      Unreadable, StartRemoval, SetAside, SetAsideFails, AsideFailed, CheckAside, CompleteAside,
      StartRemovalCommit, CommitRemoval, CommitRemovalRefused, Undo, UndoUnread, StartRestore, Restore,
      RestoreFails, CompleteRestore, RestoreFailed, FailRemovalCommit, InspectUndo,
      InspectInconsistent, InspectRemoved, RemovedCommitStep, InspectMissing, InspectRetry,
      ReopenRemoval, files, staging
<1>4. QED
  BY <1>2, <1>3

\* The removal engine works on removals.
LEMMA RemovalOnly ==
    ASSUME Inv, RemovalStep
    PROVE  cur \in Removals
BY DEF Inv, IInv, CurOK, Fits, RemovalLabels, RemovalWrites, AtRemoval,
       RemovalStep, RemovalExecution, RemovalRecovery, Unreadable,
       StartRemoval, SetAside, SetAsideFails, AsideFailed, CheckAside, CompleteAside,
       StartRemovalCommit, CommitRemoval, CommitRemovalRefused, Undo, UndoUnread, StartRestore, Restore,
       RestoreFails, CompleteRestore, RestoreFailed, FailRemovalCommit, InspectUndo,
       InspectInconsistent, InspectRemoved, RemovedCommitStep, InspectMissing, InspectRetry,
       ReopenRemoval

LEMMA NextKeepsStaged ==
    ASSUME Inv, WInv, StagedWhole, [Next]_vars
    PROVE  StagedWhole'
<1> SUFFICES ASSUME NEW i \in Installs, opState'[i] \in {"Draft", "Prepared"}, stagingDir'[i]
             PROVE  staged'[i] = Whole(i)
  BY DEF StagedWhole, Whole
<1>1. i \in Ops /\ opState[i] \in Fresh /\ opState[i] \notin Started
  BY Forward DEF Ops, Fresh, Started
<1>2. CASE InstallStep \/ RemovalStep
  <2>1. pc \in AfterCommit \/ pc \in Engine
    BY <1>2, InstallFlow, RemovalFlow
    DEF Works, Reopens, Commits, Ready, Engine, AfterCommit, Unreached, InstallLabels, InstallWrites,
        RemovalLabels, RemovalWrites
  <2>2. i # cur
    BY <1>1, <2>1, AloneAtWork DEF WInv, StageOK, Fresh
  <2>3. QED
    BY <1>2, <2>2, EngineStaging DEF StagedWhole
<1>3. CASE ~InstallStep /\ ~RemovalStep
  <2>1. ~(i = cur /\ pc = "publish")
    BY <1>1, AloneAtWork
    DEF Engine, AfterCommit, Unreached, InstallLabels, InstallWrites, RemovalLabels, RemovalWrites
  <2>2. QED
    BY <1>1, <1>3, <2>1, OtherStaging DEF StagedWhole, Fresh
<1>4. QED
  BY <1>2, <1>3

\* The install engine moves the files of its change, whole, from one of the
\* three places to another, until they are installed.
LEMMA InstallKeepsPending ==
    ASSUME Inv, WInv, InstallFilesKept, InstallStep, tampers = 0, cur \in Installs,
           opState'[cur] \in Started, stagingDir'[cur]
    PROVE  Whole(cur) \subseteq live' \/ Whole(cur) \subseteq staged'[cur] \/ Whole(cur) \subseteq quar'[cur]
<1> USE DEF Engine, AfterCommit, Unreached, InstallLabels, InstallWrites, RemovalLabels, RemovalWrites
<1>0. /\ opState \in [Ops -> States] /\ cur \in Ops
      /\ staged \in [Installs -> SUBSET Files] /\ stagingDir \in [Installs -> BOOLEAN]
      /\ quar \in [Ops -> SUBSET Files]
  BY DEF Inv, IInv, TypeOK, Ops
<1>1. pc \in Engine
  <2>1. CASE Works
    BY <2>1 DEF Works, WInv, StageOK, Started
  <2>2. CASE Reopens \/ Commits
    BY <2>2 DEF Reopens, Commits, Ready
  <2>3. QED
    BY <2>1, <2>2, InstallFlow
<1>2. Pending(cur)
  BY <1>1, AloneAtWork DEF Pending, Started
<1>3. UNCHANGED stagingDir
  BY <1>1
  DEF InstallStep, InstallExecution, InstallRecovery, Skip, StepWrite, CommitRow, CommitRefused,
      CleanStaging, Unreadable, Reopen, StartPublish, VerifyStaged, PublishRejected, PublishMoves,
      PublishOccupied, PublishFails, PublishRefused, PublishUncertain, ConfirmLive,
      CompletePublish, StartCommit, CommitInstall, CommitInstallRefused, CommitPayloadUnavailable,
      StartQuarantine, QuarantinePublished, QuarantineFails, CompleteQuarantine, FailCommit,
      QuarantineFailed, StartCleanup, Cleanup, CompleteCleanup, InspectAmbiguous, InspectOwned,
      AdoptCommitStep, InspectRolledBack, InspectOccupied, InspectAdoptable, InspectUnpublished,
      ReopenPublish, ReopenCommit, RestateCommit, Tidy, files, staging
<1>4. Whole(cur) \subseteq live \/ Whole(cur) \subseteq staged[cur] \/ Whole(cur) \subseteq quar[cur]
  BY <1>2, <1>3 DEF InstallFilesKept, Whole
<1>5. Whole(cur) # {}
  BY DEF Whole, FilesOf
<1>6. CASE PublishMoves
  BY <1>0, <1>4, <1>5, <1>6 DEF PublishMoves, Exists
<1>7. CASE PublishFails
  BY <1>0, <1>4, <1>5, <1>7 DEF PublishFails, FailedMoves, Remains, Exists
<1>8. CASE QuarantinePublished
  BY <1>0, <1>4, <1>5, <1>8 DEF QuarantinePublished, Exists, staging
<1>9. CASE QuarantineFails
  BY <1>0, <1>4, <1>5, <1>9 DEF QuarantineFails, FailedMoves, Remains, Exists, staging
<1>10. CASE UNCHANGED <<live, staged, quar>>
  BY <1>4, <1>10
<1>11. QED
  BY <1>1, <1>6, <1>7, <1>8, <1>9, <1>10
  DEF InstallStep, InstallExecution, InstallRecovery, Skip, StepWrite, CommitRow, CommitRefused,
      CleanStaging, Unreadable, Reopen, StartPublish, VerifyStaged, PublishRejected,
      PublishOccupied, PublishRefused, PublishUncertain, ConfirmLive,
      CompletePublish, StartCommit, CommitInstall, CommitInstallRefused, CommitPayloadUnavailable,
      StartQuarantine, CompleteQuarantine, FailCommit,
      QuarantineFailed, StartCleanup, Cleanup, CompleteCleanup, InspectAmbiguous, InspectOwned,
      AdoptCommitStep, InspectRolledBack, InspectOccupied, InspectAdoptable, InspectUnpublished,
      ReopenPublish, ReopenCommit, RestateCommit, Tidy, files, staging

\* A kill leaves the files whole at one end of the move it cut short.
LEMMA CrashKeepsPending ==
    ASSUME Inv, WInv, InstallFilesKept, tampers = 0, NEW p \in Processes, Crash(p),
           NEW i \in Installs, Pending(i)', stagingDir'[i]
    PROVE  Whole(i) \subseteq live' \/ Whole(i) \subseteq staged'[i] \/ Whole(i) \subseteq quar'[i]
<1> USE DEF Engine, AfterCommit, Unreached, InstallLabels, InstallWrites, RemovalLabels, RemovalWrites
<1>0. /\ staged \in [Installs -> SUBSET Files] /\ quar \in [Ops -> SUBSET Files] /\ i \in Ops
      /\ Whole(i) # {}
  BY DEF Inv, IInv, TypeOK, Ops, Whole, FilesOf
<1>1. UNCHANGED <<opState, stagingDir>>
  BY DEF Crash, TornFiles, files, staging
<1>2. Pending(i) /\ opState[i] \in Started
  BY <1>1 DEF Pending, Started
<1>3. Whole(i) \subseteq live \/ Whole(i) \subseteq staged[i] \/ Whole(i) \subseteq quar[i]
  BY <1>1, <1>2 DEF InstallFilesKept, Whole
<1>4. CASE UNCHANGED <<live, staged, quar>>
  BY <1>3, <1>4
<1>5. CASE ~UNCHANGED <<live, staged, quar>>
  <2>1. TornFiles /\ ~UNCHANGED files
    BY <1>5 DEF Crash, files, staging
  <2>2. pc \in {"publish", "quarantine", "set_aside", "restore"}
    BY <2>1 DEF TornFiles
  <2>3. cur = i
    BY <1>0, <1>2, <2>2, AloneAtWork
  <2>4. pc \in {"publish", "quarantine"}
    BY <2>2, <2>3, OpsAssumption DEF Inv, IInv, CurOK, Fits
  <2>5. QED
    BY <1>0, <1>3, <2>1, <2>3, <2>4 DEF TornFiles, TornMoves, Remains, Unmoved, Exists, staging
<1>6. QED
  BY <1>4, <1>5

LEMMA NextKeepsPending ==
    ASSUME Inv, WInv, KeptInv, [Next]_vars, tampers' = 0
    PROVE  InstallFilesKept'
<1> SUFFICES ASSUME NEW i \in Installs, Pending(i)', stagingDir'[i]
             PROVE  Whole(i) \subseteq live' \/ Whole(i) \subseteq staged'[i] \/ Whole(i) \subseteq quar'[i]
  BY DEF InstallFilesKept, Whole
<1>0. tampers = 0 /\ ~Tamper /\ i \in Ops /\ opState'[i] \in Started
  BY HandsStay DEF Ops, Pending, Started
<1>1. CASE InstallStep \/ RemovalStep
  <2>1. RemovalStep => cur \in Removals
    BY RemovalOnly
  <2>2. CASE InstallStep /\ i = cur
    BY <1>0, <2>2, InstallKeepsPending DEF KeptInv
  <2>3. CASE ~(InstallStep /\ i = cur)
    <3>1. i # cur /\ opState[i] \in Started /\ stagingDir[i] /\ staged'[i] = staged[i]
      BY <1>0, <1>1, <2>1, <2>3, EngineStaging, OpsAssumption
    <3>2. pc \notin Engine
      BY <1>0, <3>1, AloneAtWork
    <3>3. Still
      <4>1. CASE InstallStep
        BY <3>2, <4>1, InstallFiles
        DEF PublishMoves, PublishFails, QuarantinePublished, QuarantineFails, Engine, AfterCommit,
            Unreached, InstallLabels, InstallWrites
      <4>2. CASE RemovalStep
        BY <3>2, <4>2, RemovalMoves
      <4>3. QED
        BY <1>1, <4>1, <4>2
    <3>4. QED
      BY <1>0, <3>1, <3>3 DEF Still, KeptInv, InstallFilesKept, Whole, Pending, Started
  <2>4. QED
    BY <2>2, <2>3
<1>2. CASE \E p \in Processes : Crash(p)
  BY <1>0, <1>2, CrashKeepsPending DEF KeptInv
<1>3. CASE ~InstallStep /\ ~RemovalStep /\ ~\E p \in Processes : Crash(p)
  <2>1. Still
    BY <1>0, <1>3, StillUnlessCrash
  <2>2. stagingDir[i] /\ staged'[i] = staged[i]
    BY <1>0, <1>3, OtherStaging DEF Started
  <2>3. opState[i] \in Started \cup {"Prepared"}
    <3>1. opState \in [Ops -> States]
      BY DEF Inv, IInv, TypeOK
    <3>2. CASE Run
      <4>1. cur \in Ops /\ opState[cur] = "Prepared"
        BY <3>2, AtWork DEF Run, Advance, WInv, StageOK
      <4>2. QED
        BY <1>0, <3>1, <3>2, <4>1 DEF Run, Advance, Transition
    <3>3. CASE ToFailed \/ \E o \in Ops : MarkHandled(o)
      BY <1>0, <3>1, <3>3 DEF ToFailed, EndAs, MarkHandled, Transition, Started
    <3>4. QED
      BY <1>0, <1>3, <3>2, <3>3, OtherStates
  <2>4. Whole(i) \subseteq live \/ Whole(i) \subseteq staged[i] \/ Whole(i) \subseteq quar[i]
    BY <1>0, <2>2, <2>3 DEF KeptInv, StagedWhole, InstallFilesKept, Whole, Pending, Started
  <2>5. QED
    BY <1>0, <2>1, <2>2, <2>4 DEF Still
<1>4. QED
  BY <1>1, <1>2, <1>3

\* While a confirmed install is unfinished its files exist whole in one place,
\* unless they were cleaned away before or the user's hand was in the folder
\* (atomic_move_tree, publish_deployment, quarantine_deployment).
THEOREM UnfinishedInstallsKeepFiles == OneWindow => (Spec => []InstallFilesKept)
<1> SUFFICES ASSUME OneWindow PROVE Spec => []InstallFilesKept
  OBVIOUS
<1>1. Init => KeptInv
  BY DEF Init, KeptInv, StagedWhole, InstallFilesKept, Pending, Ops
<1>2. Inv /\ WInv /\ KeptInv /\ [Next]_vars => KeptInv'
  BY NextKeepsStaged, NextKeepsPending DEF KeptInv, InstallFilesKept
<1>3. KeptInv => InstallFilesKept
  BY DEF KeptInv
<1>4. QED
  BY <1>1, <1>2, <1>3, InvInvariance, WindowInvariance, PTL DEF Spec

-----------------------------------------------------------------------------
(* Recovery on its own.                                                     *)

\* No call failed and the user's hand was in nothing.
Unaided == faults = 0 /\ Untouched

Publishing == {"begin_commit", "start_publish", "verify_staged", "publish", "reopen_publish"}
Trouble ==
    {"publish_rejected", "publish_uncertain", "start_quarantine", "quarantine", "quarantine_failed",
     "restore_failed"}

\* No install was taken back; what a preview staged is there; and what an
\* unfinished install staged is still there or is what is in Mods.
NeverTakenBack == \A i \in Installs : quar[i] = {}
PreparedOK     == \A i \in Installs : opState[i] \in {"Draft", "Prepared"} => staged[i] = Whole(i)
Findable ==
    \A i \in Installs : opState[i] \in Started =>
        /\ staged[i] = Whole(i) \/ live = Whole(i)
        /\ rows = {} => live \in {{}, Whole(i)}

\* The handlers do not get to where they would have to report trouble, but for
\* an install whose folder another mod has.
OnCourse ==
    /\ pc \in Publishing /\ cur \in Installs => staged[cur] = Plan /\ (Recovering => live = {})
    /\ pc \notin Trouble
    /\ pc = "confirm_live" => live # {}
    /\ pc = "check_aside" => live = {}
    /\ pc = "to_recovery" => cur \in Installs /\ \E d \in rows : PackageOf[d] # PackageOf[cur]
    /\ pc = "return_err" => opState[cur] \notin {"Running", "Committing"}

Healing == NeverTakenBack /\ PreparedOK /\ Findable /\ OnCourse
HealInv == Unaided => Healing

\* Failed calls are counted and never forgotten.
LEMMA FaultsStay ==
    ASSUME Inv, [Next]_vars, faults' = 0
    PROVE  faults = 0 /\ ~Fault
<1>0. faults \in Nat
  BY DEF Inv, IInv, TypeOK
<1>1. faults' = faults \/ Fault
  <2>1. CASE InstallStep
    BY <2>1
    DEF InstallStep, InstallExecution, InstallRecovery, Skip, StepWrite, CommitRow, CommitRefused,
        CleanStaging, Unreadable, Reopen, StartPublish, VerifyStaged, PublishRejected, PublishMoves,
        PublishOccupied, PublishFails, PublishRefused, PublishUncertain, ConfirmLive,
        CompletePublish, StartCommit, CommitInstall, CommitInstallRefused, CommitPayloadUnavailable,
        StartQuarantine, QuarantinePublished, QuarantineFails, CompleteQuarantine, FailCommit,
        QuarantineFailed, StartCleanup, Cleanup, CompleteCleanup, InspectAmbiguous, InspectOwned,
        AdoptCommitStep, InspectRolledBack, InspectOccupied, InspectAdoptable, InspectUnpublished,
        ReopenPublish, ReopenCommit, RestateCommit, Tidy
  <2>2. CASE RemovalStep
    BY <2>2
    DEF RemovalStep, RemovalExecution, RemovalRecovery, Skip, StepWrite, CommitRow, CommitRefused,
        Unreadable, StartRemoval, SetAside, SetAsideFails, AsideFailed, CheckAside, CompleteAside,
        StartRemovalCommit, CommitRemoval, CommitRemovalRefused, Undo, UndoUnread, StartRestore, Restore,
        RestoreFails, CompleteRestore, RestoreFailed, FailRemovalCommit, InspectUndo,
        InspectInconsistent, InspectRemoved, RemovedCommitStep, InspectMissing, InspectRetry,
        ReopenRemoval
  <2>3. CASE ~InstallStep /\ ~RemovalStep
    BY <2>3
    DEF Next, Handler, Asked, Environment, Prepare, Run, BeginCommit, Advance, ToFailed, ToSucceeded,
        ToRecovery, EndAs, ReturnOk, ReturnEarly, ReturnErr, ReturnErrUnrecorded, StoreFails, NextListed,
        Reconcile, ReconcileFails, Unreadable, PreviewInstall, PreviewRemoval, CancelPreview,
        PassGate, MarkHandled, PassGateOther, LockRefused, Enter, ApplyOther, Launch,
        RetryRecovery, EnterRecovery, RecoveryDeferred, Tamper, Crash, vars
  <2>4. QED
    BY <2>1, <2>2, <2>3
<1>2. QED
  BY <1>0, <1>1 DEF Fault

\* In one window the database refuses no commit: nothing else can have moved
\* the revision since the preview was checked under the lock.
LEMMA CommitsAreAccepted ==
    ASSUME Inv, WInv, pc \in Ready
    PROVE  MayCommit(cur)
<1>1. cur \in Ops /\ opState[cur] = "Committing" /\ Sole(cur)
  BY AloneAtWork
  DEF WInv, StageOK, Ready, Engine, AfterCommit, Unreached, InstallLabels, InstallWrites, RemovalLabels,
      RemovalWrites
<1>2. QED
  BY <1>1 DEF MayCommit, Sole

LEMMA InstallStaysOnCourse ==
    ASSUME Inv, WInv, FilesInv, FoldersTrue, StagesTrue, Healing, InstallStep, ~Fault
    PROVE  OnCourse'
<1> USE DEF Engine, AfterCommit, Unreached, InstallLabels, InstallWrites, RemovalLabels, RemovalWrites,
            Publishing, Trouble
<1>0. UNCHANGED <<target, cur, window, who, snap>> /\ Recovering' = Recovering
  BY EngineFrame DEF plans, procs, Recovering
<1>1. CASE \/ pc \in Trouble
           \/ PublishFails \/ QuarantineFails \/ CommitPayloadUnavailable \/ CommitInstallRefused
           \/ Unreadable("confirm_live")
  <2>1. pc \notin Trouble
    BY DEF Healing, OnCourse
  <2>2. ~CommitInstallRefused
    BY CommitsAreAccepted DEF CommitInstallRefused, CommitRefused, Ready
  <2>3. QED
    BY <1>1, <2>1, <2>2 DEF PublishFails, QuarantineFails, CommitPayloadUnavailable, Unreadable
<1>2. CASE StartPublish \/ VerifyStaged \/ PublishMoves \/ PublishOccupied \/ ReopenPublish
  <2>1. pc \in Publishing /\ cur \in Installs /\ staged[cur] = Plan /\ (Recovering => live = {})
    BY <1>2
    DEF StartPublish, VerifyStaged, PublishMoves, PublishOccupied, ReopenPublish, Reopen, Healing, OnCourse,
        Inv, IInv, CurOK, Fits
  <2>2. Plan # {} /\ Plan' = Plan
    BY <1>0 DEF Plan, FilesOf
  <2>3. CASE PublishMoves
    BY <2>1, <2>2, <2>3 DEF PublishMoves, Go, OnCourse
  <2>4. CASE PublishOccupied
    BY <2>1, <2>4 DEF PublishOccupied, Skip, Go, OnCourse, Exists
  <2>5. CASE StartPublish \/ VerifyStaged \/ ReopenPublish
    <3>1. UNCHANGED <<live, staged>> /\ pc' \in {"verify_staged", "publish", "start_publish", "next"}
      BY <2>1, <2>5 DEF StartPublish, VerifyStaged, ReopenPublish, Reopen, Skip, Go, files, staging
    <3>2. QED
      BY <1>0, <2>1, <2>2, <3>1 DEF OnCourse
  <2>6. QED
    BY <1>2, <2>3, <2>4, <2>5
<1>3. CASE ConfirmLive
  BY <1>3 DEF ConfirmLive, Skip, Go, Exists, Healing, OnCourse
<1>4. CASE AtInstall
  <2>1. pc = "inspect" /\ cur \in Installs /\ pc \in Engine
    BY <1>4 DEF AtInstall
  <2>2. quar[cur] = {} /\ (staged[cur] = Plan \/ live = Plan) /\ (rows = {} => live \in {{}, Plan})
    BY <2>1, AloneAtWork DEF Healing, NeverTakenBack, Findable, Plan, Whole
  <2>3. RecordedAgree /\ Sole(cur) /\ (\A d \in rows : PackageOf[d] # PackageOf[cur])
    BY <2>1, InstallFinds, AloneAtWork DEF Sole, NoTwin
  <2>4. ~InspectAmbiguous /\ ~InspectOwned
    BY <2>2, <2>3 DEF InspectAmbiguous, InspectOwned, OwnsDeployment, IsOwn, SamePackage, Exists
  <2>5. CASE InspectOccupied
    <3>1. rows # {}
      BY <2>2, <2>5 DEF InspectOccupied, ForeignOccupies, Exists
    <3>2. QED
      BY <1>0, <2>1, <2>3, <2>5, <3>1 DEF InspectOccupied, Skip, Go, store, OnCourse
  <2>6. CASE InspectAdoptable
    BY <2>3, <2>6 DEF InspectAdoptable, Go, Sole, OnCourse
  <2>7. CASE InspectUnpublished
    <3>1. live = {} /\ Plan # {} /\ Plan' = Plan
      BY <1>0, <2>7 DEF InspectUnpublished, Exists, Plan, FilesOf
    <3>2. staged[cur] = Plan
      BY <2>2, <3>1
    <3>3. pc' \in {"reopen_publish", "to_failed"} /\ UNCHANGED <<live, staged>>
      BY <2>7 DEF InspectUnpublished, Go, files, staging
    <3>4. QED
      BY <1>0, <3>1, <3>2, <3>3 DEF OnCourse
  <2>8. CASE InspectRolledBack
    BY <2>8 DEF InspectRolledBack, Skip, Go, OnCourse
  <2>9. QED
    BY <2>1, <2>4, <2>5, <2>6, <2>7, <2>8
    DEF InstallStep, InstallExecution, InstallRecovery, Unreadable, Reopen, CleanStaging, CommitRefused,
        StartPublish, VerifyStaged, PublishRejected, PublishMoves, PublishOccupied, PublishFails,
        PublishRefused, PublishUncertain, ConfirmLive, CompletePublish, StartCommit, CommitInstall,
        CommitInstallRefused, CommitPayloadUnavailable, StartQuarantine, QuarantinePublished,
        QuarantineFails, CompleteQuarantine, FailCommit, QuarantineFailed, StartCleanup, Cleanup,
        CompleteCleanup, AdoptCommitStep, ReopenPublish, ReopenCommit, RestateCommit, Tidy
<1>5. CASE /\ ~AtInstall /\ pc \notin Trouble
           /\ ~(\/ PublishFails \/ QuarantineFails \/ CommitPayloadUnavailable \/ CommitInstallRefused
                \/ Unreadable("confirm_live") \/ StartPublish \/ VerifyStaged \/ PublishMoves
                \/ PublishOccupied \/ ReopenPublish \/ ConfirmLive)
  <2>1. pc' \notin Publishing \cup Trouble \cup {"confirm_live", "check_aside", "to_recovery", "return_err"}
    BY <1>5
    DEF InstallStep, InstallExecution, InstallRecovery, Skip, StepWrite, Go, CommitRow, CleanStaging, Reopen,
        PublishRejected, PublishRefused, PublishUncertain, CompletePublish, StartCommit, CommitInstall,
        StartQuarantine, QuarantinePublished, CompleteQuarantine, FailCommit, QuarantineFailed,
        StartCleanup, Cleanup, CompleteCleanup, InspectAmbiguous, InspectOwned, AdoptCommitStep,
        InspectRolledBack, InspectOccupied, InspectAdoptable, InspectUnpublished, ReopenCommit,
        RestateCommit, Tidy
  <2>2. QED
    BY <2>1 DEF OnCourse
<1>6. QED
  BY <1>1, <1>2, <1>3, <1>4, <1>5

LEMMA RemovalStaysOnCourse ==
    ASSUME Inv, WInv, FoldersTrue, Healing, RemovalStep, ~Fault
    PROVE  OnCourse'
<1> USE DEF Engine, AfterCommit, Unreached, InstallLabels, InstallWrites, RemovalLabels, RemovalWrites,
            Publishing, Trouble
<1>0. cur \in Removals /\ pc \notin Trouble
  BY RemovalOnly DEF Healing, OnCourse
<1>1. pc \in Engine => rows = {target[cur]} /\ live \cup quar[cur] # {}
  BY <1>0, RemovalFinds DEF Whole, FilesOf
<1>2. CASE SetAside \/ CheckAside \/ InspectRetry
  <2>1. pc' \in {"check_aside", "aside_failed", "complete_aside", "start_removal"}
        /\ (pc' = "check_aside" => live' = {})
    <3>1. CASE SetAside
      BY <3>1 DEF SetAside, Go, Exists
    <3>2. CASE CheckAside
      BY <1>1, <3>2 DEF CheckAside, Skip, Go, Exists, Healing, OnCourse
    <3>3. CASE InspectRetry
      BY <3>3 DEF InspectRetry, Go, Exists, files
    <3>4. QED
      BY <1>2, <3>1, <3>2, <3>3
  <2>2. QED
    BY <2>1 DEF OnCourse
<1>3. CASE RemovalStep /\ ~(SetAside \/ CheckAside \/ InspectRetry)
  <2>1. ~InspectMissing /\ ~InspectInconsistent /\ ~InspectRemoved
    BY <1>1
    DEF InspectMissing, InspectInconsistent, InspectRemoved, AtRemoval, RemovedInDatabase, Exists
  <2>2. pc' \notin Publishing \cup Trouble \cup {"confirm_live", "check_aside", "to_recovery", "return_err"}
    <3>1. CASE Undo \/ UndoUnread
      BY <1>1, <3>1 DEF Undo, UndoUnread, Go, Exists
    <3>2. CASE Restore \/ RestoreFails
      BY <1>1, <3>2 DEF Restore, RestoreFails, Go, Exists
    <3>3. CASE RemovalStep /\ ~(Undo \/ UndoUnread \/ Restore \/ RestoreFails)
      BY <1>0, <1>3, <2>1, <3>3
      DEF RemovalStep, RemovalExecution, RemovalRecovery, Skip, StepWrite, Go, CommitRow, CommitRefused,
          Unreadable, StartRemoval, SetAsideFails, AsideFailed, CompleteAside, StartRemovalCommit,
          CommitRemoval, CommitRemovalRefused, StartRestore, CompleteRestore, RestoreFailed,
          FailRemovalCommit, InspectUndo, RemovedCommitStep, ReopenRemoval
    <3>4. QED
      BY <1>3, <3>1, <3>2, <3>3
  <2>3. QED
    BY <2>2 DEF OnCourse
<1>4. QED
  BY <1>2, <1>3

\* The engines leave the files of installs where they can be found.
LEMMA EngineStaysFindable ==
    ASSUME Inv, WInv, FilesInv, FoldersTrue, Healing, InstallStep \/ RemovalStep, ~Fault
    PROVE  (NeverTakenBack /\ PreparedOK /\ Findable)'
<1> USE DEF Engine, AfterCommit, Unreached, InstallLabels, InstallWrites, RemovalLabels, RemovalWrites
<1>0. /\ opState \in [Ops -> States] /\ quar \in [Ops -> SUBSET Files] /\ pc \notin Trouble
      /\ staged \in [Installs -> SUBSET Files] /\ \A i \in Installs : i \in Ops /\ i \notin Removals
  BY OpsAssumption DEF Inv, IInv, TypeOK, Healing, OnCourse, Ops
<1>1. \/ Still
      \/ pc = "publish" /\ PublishMoves
      \/ cur \in Removals /\ UNCHANGED rows /\ pc \in Engine /\ \E q : quar' = [quar EXCEPT ![cur] = q]
  <2>1. CASE InstallStep
    BY <1>0, <2>1, InstallFiles DEF PublishMoves, PublishFails, QuarantinePublished, QuarantineFails, Trouble
  <2>2. CASE RemovalStep
    BY <2>2, RemovalMoves
  <2>3. QED
    BY <2>1, <2>2
<1>2. NeverTakenBack'
  <2>1. UNCHANGED quar \/ (cur \in Removals /\ \E q : quar' = [quar EXCEPT ![cur] = q])
    BY <1>1 DEF Still, PublishMoves
  <2>2. QED
    BY <1>0, <2>1 DEF Healing, NeverTakenBack
<1>3. ASSUME NEW i \in Installs, opState'[i] \in {"Draft", "Prepared"}
      PROVE  staged'[i] = Whole(i)
  <2>1. opState[i] \in Fresh
    BY <1>0, <1>3, Forward DEF Next, Handler, Fresh
  <2>2. i # cur
    <3>1. pc \in AfterCommit \/ pc \in Engine
      BY InstallFlow, RemovalFlow DEF Works, Reopens, Commits, Ready
    <3>2. QED
      BY <2>1, <3>1, AloneAtWork DEF WInv, StageOK, Fresh, Started
  <2>3. QED
    BY <1>3, <2>2, EngineStaging DEF Healing, PreparedOK
<1>4. ASSUME NEW i \in Installs, opState'[i] \in Started
      PROVE  /\ staged'[i] = Whole(i) \/ live' = Whole(i)
             /\ rows' = {} => live' \in {{}, Whole(i)}
  <2>1. CASE i # cur \/ cur \in Removals
    <3>1. opState[i] \in Started /\ staged'[i] = staged[i] /\ i # cur
      BY <1>0, <1>4, <2>1, EngineStaging
    <3>2. pc \notin Engine
      BY <1>0, <3>1, AloneAtWork
    <3>3. Still /\ UNCHANGED rows
      BY <1>1, <3>2, InstallFlow, RemovalFlow DEF Works, Reopens, Commits, Ready
    <3>4. QED
      BY <3>1, <3>3 DEF Healing, Findable, Still
  <2>2. CASE i = cur /\ cur \notin Removals
    <3>1. InstallStep /\ pc \in Engine /\ opState[cur] \in Started /\ UNCHANGED rows
      <4>1. InstallStep
        BY <2>2, RemovalOnly
      <4>2. CASE Works
        BY <1>4, <2>2, <4>1, <4>2, AloneAtWork DEF Works, WInv, StageOK, Started
      <4>3. CASE Reopens
        BY <4>1, <4>3, AloneAtWork DEF Reopens
      <4>4. CASE Commits
        BY <1>0, <1>4, <2>2, <4>4 DEF Commits, Started
      <4>5. QED
        BY <4>1, <4>2, <4>3, <4>4, InstallFlow
    <3>2. CASE PublishMoves
      BY <1>0, <2>2, <3>2 DEF PublishMoves, Healing, OnCourse, Publishing, Plan, Whole
    <3>3. CASE ~PublishMoves
      <4>1. Still
        BY <1>1, <2>2, <3>3
      <4>2. UNCHANGED staged
        BY <3>1, <3>3
        DEF InstallStep, InstallExecution, InstallRecovery, Skip, StepWrite, CommitRow, CommitRefused,
            CleanStaging, Unreadable, Reopen, StartPublish, VerifyStaged, PublishRejected,
            PublishOccupied, PublishFails, PublishRefused, PublishUncertain, ConfirmLive,
            CompletePublish, StartCommit, CommitInstall, CommitInstallRefused, CommitPayloadUnavailable,
            StartQuarantine, QuarantinePublished, QuarantineFails, CompleteQuarantine, FailCommit,
            QuarantineFailed, StartCleanup, Cleanup, CompleteCleanup, InspectAmbiguous, InspectOwned,
            AdoptCommitStep, InspectRolledBack, InspectOccupied, InspectAdoptable, InspectUnpublished,
            ReopenPublish, ReopenCommit, RestateCommit, Tidy, files, staging
      <4>3. QED
        BY <2>2, <3>1, <4>1, <4>2 DEF Healing, Findable, Still
    <3>4. QED
      BY <3>2, <3>3
  <2>3. QED
    BY <2>1, <2>2
<1>5. QED
  BY <1>2, <1>3, <1>4 DEF PreparedOK, Findable, Whole

\* Outside the engines the staged folder of a change that is not over is
\* filled by its preview, or torn by a kill while it is published.
LEMMA OtherStaged ==
    ASSUME Inv, WInv, [Next]_vars, ~InstallStep, ~RemovalStep, ~Fault, NEW i \in Installs,
           opState'[i] \in {"Draft", "Prepared"} \cup Started
    PROVE  \/ opState[i] \in {"Draft", "Prepared"} \cup Started /\ staged'[i] = staged[i]
           \/ opState'[i] = "Draft" /\ staged'[i] = Whole(i)
           \/ i = cur /\ pc = "publish" /\ UNCHANGED opState /\ \E p \in Processes : Crash(p)
<1>0. /\ opState \in [Ops -> States] /\ i \in Ops /\ staged \in [Installs -> SUBSET Files]
      /\ opState[i] \in Reachable
  BY DEF Inv, IInv, TypeOK, WInv, StageOK, Ops
<1>1. CASE opState[i] \in Ended
  BY <1>0, <1>1, Forward DEF Ended, Started
<1>2. CASE opState[i] = "New"
  <2>1. PreviewInstall(i)
    <3>1. CASE \E r \in Removals : PreviewRemoval(r)
      BY <1>0, <1>2, <3>1, OpsAssumption DEF PreviewRemoval, Started
    <3>2. CASE \E j \in Installs : PreviewInstall(j)
      <4>1. PICK j \in Installs : PreviewInstall(j)
        BY <3>2
      <4>2. opState' = [opState EXCEPT ![j] = "Draft"]
        BY <4>1 DEF PreviewInstall
      <4>3. opState'[i] # "New"
        BY DEF Started
      <4>4. QED
        BY <1>0, <1>2, <4>1, <4>2, <4>3
    <3>3. CASE ReturnErr \/ ReturnOk \/ \E p \in Processes : Enter(p) \/ ApplyOther(p)
      BY <1>0, <1>2, <3>3
      DEF ReturnErr, IsStillMutating, ReturnOk, Enter, ApplyOther, ReleaseStale, Stale, Started
    <3>4. CASE Prepare \/ Run \/ BeginCommit \/ ToFailed \/ ToSucceeded \/ ToRecovery \/ Reconcile
               \/ \E o \in Ops : CancelPreview(o) \/ MarkHandled(o)
      BY <1>0, <1>2, <3>4
      DEF Prepare, Run, BeginCommit, Advance, ToFailed, ToSucceeded, ToRecovery, EndAs, Reconcile,
          CancelPreview, MarkHandled, Transition, Accepts, Started
    <3>5. CASE UNCHANGED opState
      BY <1>2, <3>5 DEF Started
    <3>6. QED
      BY <3>1, <3>2, <3>3, <3>4, <3>5
      DEF Next, Handler, Asked, Environment, Unreadable, ReturnEarly, ReturnErrUnrecorded,
          StoreFails, NextListed, ReconcileFails, PassGate, PassGateOther, LockRefused, Launch,
          RetryRecovery, EnterRecovery, RecoveryDeferred, Tamper, Crash, vars
  <2>2. QED
    BY <1>0, <2>1 DEF PreviewInstall, Whole
<1>3. CASE opState[i] \in {"Draft", "Prepared"} \cup Started
  <2>1. CASE \E p \in Processes : Crash(p)
    BY <1>0, <1>3, <2>1 DEF Crash, TornFiles, files, staging
  <2>2. CASE ReturnOk \/ \E p \in Processes : Enter(p) \/ ApplyOther(p)
    BY <1>0, <1>3, <2>2 DEF ReturnOk, Enter, ApplyOther, ReleaseStale, Stale, Unstage, staging, Started
  <2>3. CASE Reconcile
    <3>1. cur \in Ops /\ opState[cur] = snap[cur]
      BY <2>3, AtWork DEF Reconcile, WInv, StageOK, SnapTrue
    <3>2. CASE i = cur /\ snap[cur] \in {"Draft", "Prepared"}
      BY <1>0, <2>3, <3>1, <3>2
      DEF Reconcile, Transition, Accepts, IsValidTransition, Successors, OperationState, Started
    <3>3. CASE i # cur \/ snap[cur] \notin {"Draft", "Prepared"}
      BY <1>3, <2>3, <3>3 DEF Reconcile, Unstage, staging
    <3>4. QED
      BY <3>2, <3>3
  <2>4. CASE \E o \in Ops : CancelPreview(o)
    <3>1. PICK o \in Ops : CancelPreview(o)
      BY <2>4
    <3>2. o # i
      BY <1>0, <3>1
      DEF CancelPreview, Transition, Accepts, IsValidTransition, Successors, OperationState, Started
    <3>3. QED
      BY <1>3, <3>1, <3>2 DEF CancelPreview, Unstage
  <2>5. CASE \E j \in Installs : PreviewInstall(j)
    BY <1>0, <1>3, <2>5 DEF PreviewInstall, Started
  <2>6. CASE UNCHANGED staging
    BY <1>3, <2>6 DEF staging
  <2>7. QED
    BY <2>1, <2>2, <2>3, <2>4, <2>5, <2>6
    DEF Next, Handler, Asked, Environment, Prepare, Run, BeginCommit, Advance, ToFailed, ToSucceeded,
        ToRecovery, EndAs, Unreadable, ReturnEarly, ReturnErr, ReturnErrUnrecorded, StoreFails, NextListed,
        ReconcileFails, PreviewRemoval, PassGate, PassGateOther, MarkHandled, LockRefused, Launch,
        RetryRecovery, EnterRecovery, RecoveryDeferred, Tamper, files, vars
<1>4. QED
  BY <1>0, <1>1, <1>2, <1>3 DEF Reachable, Ended, Started

\* Nor does the rest of the program, a kill included.
LEMMA OtherHeals ==
    ASSUME OneWindow, Inv, WInv, FilesInv, FoldersTrue, StagesTrue, Healing, [Next]_vars,
           ~InstallStep, ~RemovalStep, ~Tamper, ~Fault
    PROVE  Healing'
<1> USE DEF Engine, AfterCommit, Unreached, InstallLabels, InstallWrites, RemovalLabels, RemovalWrites
<1>0. /\ opState \in [Ops -> States] /\ quar \in [Ops -> SUBSET Files] /\ UNCHANGED rows
      /\ staged \in [Installs -> SUBSET Files] /\ \A i \in Installs : i \in Ops /\ i \notin Removals
      /\ pc \notin Trouble /\ pc # "to_succeeded"
  BY OpsAssumption, OtherJournals DEF Inv, IInv, TypeOK, Healing, OnCourse, Ops, WInv, Control
\* What a kill tears.
<1>1. ASSUME ~Still
      PROVE  /\ \E p \in Processes : Crash(p)
             /\ \/ /\ pc = "publish" /\ cur \in Installs /\ quar' = quar
                   /\ \E m \in TornMoves(staged[cur], live) :
                         staged' = [staged EXCEPT ![cur] = m.src] /\ live' = m.dst
                \/ /\ pc \in {"set_aside", "restore"} /\ cur \in Removals
                   /\ \E q : quar' = [quar EXCEPT ![cur] = q]
  <2>1. \E p \in Processes : Crash(p)
    BY <1>1, StillUnlessCrash
  <2>2. TornFiles /\ ~UNCHANGED files
    BY <1>1, <2>1 DEF Crash, Still, files
  <2>3. pc \in {"publish", "set_aside", "restore"}
    BY <1>0, <2>2 DEF TornFiles, Trouble
  <2>4. /\ pc = "publish" => cur \in Installs
        /\ pc # "publish" => cur \in Removals
    BY <2>3 DEF Inv, IInv, CurOK, Fits
  <2>5. CASE pc = "publish"
    BY <2>1, <2>2, <2>4, <2>5 DEF TornFiles
  <2>6. CASE pc # "publish"
    BY <2>1, <2>2, <2>3, <2>4, <2>6 DEF TornFiles
  <2>7. QED
    BY <2>5, <2>6
<1>2. NeverTakenBack'
  <2>1. \A i \in Installs : quar'[i] = quar[i]
    BY <1>0, <1>1 DEF Still
  <2>2. QED
    BY <2>1 DEF Healing, NeverTakenBack
<1>3. ASSUME NEW i \in Installs, opState'[i] \in {"Draft", "Prepared"}
      PROVE  staged'[i] = Whole(i)
  <2>1. ~(i = cur /\ pc = "publish" /\ UNCHANGED opState)
    BY <1>3, AloneAtWork DEF Started
  <2>2. opState[i] \notin Started
    BY <1>0, <1>3, Forward DEF Fresh, Started
  <2>3. QED
    BY <1>3, <2>1, <2>2, OtherStaged DEF Healing, PreparedOK
<1>4. ASSUME NEW i \in Installs, opState'[i] \in Started
      PROVE  /\ staged'[i] = Whole(i) \/ live' = Whole(i)
             /\ rows = {} => live' \in {{}, Whole(i)}
  <2>1. CASE opState[i] \notin Started
    <3>1. /\ opState[i] \in {"Draft", "Prepared"} /\ staged'[i] = staged[i] /\ Run
      <4>1. Run
        <5>1. ~ToFailed /\ ~\E o \in Ops : MarkHandled(o)
          BY <1>0, <1>4, <2>1 DEF ToFailed, EndAs, MarkHandled, Transition, Started
        <5>2. QED
          BY <1>0, <1>4, <2>1, <5>1, OtherStates
      <4>2. ~UNCHANGED opState
        BY <1>4, <2>1
      <4>3. QED
        BY <1>4, <2>1, <4>1, <4>2, OtherStaged DEF Started
    <3>2. cur \in Ops /\ opState[cur] = "Prepared" /\ UNCHANGED live
      BY <3>1, AtWork DEF Run, Advance, WInv, StageOK, files
    <3>3. \A o \in Ops : opState[o] \notin Started
      BY <3>2 DEF WInv, SoleOK, Sole, Standing, Started
    <3>4. QED
      BY <3>1, <3>2, <3>3 DEF FoldersTrue, EmptyAgrees, Healing, PreparedOK
  <2>2. CASE opState[i] \in Started
    <3>1. (staged[i] = Whole(i) \/ live = Whole(i)) /\ (rows = {} => live \in {{}, Whole(i)})
      BY <2>2 DEF Healing, Findable
    <3>2. CASE Still /\ staged'[i] = staged[i]
      BY <3>1, <3>2 DEF Still
    <3>3. CASE Still /\ staged'[i] # staged[i]
      <4>1. i = cur /\ pc = "publish" /\ \E p \in Processes : Crash(p)
        BY <1>4, <3>3, OtherStaged DEF Started
      <4>2. TornFiles
        BY <3>3, <4>1 DEF Crash, files, staging
      <4>3. PICK m \in TornMoves(staged[cur], live) :
                    staged' = [staged EXCEPT ![cur] = m.src] /\ live' = m.dst
        BY <3>3, <4>1, <4>2 DEF TornFiles, files, staging
      <4>4. QED
        BY <1>0, <3>3, <4>1, <4>3 DEF TornMoves, Unmoved, Still, Exists
    <3>4. CASE ~Still
      <4>1. pc \in Engine /\ cur = i
        BY <1>1, <2>2, <3>4, <1>0, AloneAtWork
      <4>2. PICK m \in TornMoves(staged[cur], live) :
                    staged' = [staged EXCEPT ![cur] = m.src] /\ live' = m.dst
        BY <1>0, <1>1, <3>4, <4>1
      <4>3. staged[i] = Whole(i)
        BY <1>1, <1>0, <3>4, <4>1 DEF Healing, OnCourse, Publishing, Plan, Whole
      <4>4. QED
        BY <1>0, <3>1, <4>1, <4>2, <4>3 DEF TornMoves, Unmoved, Exists
    <3>5. QED
      BY <3>2, <3>3, <3>4
  <2>3. QED
    BY <2>1, <2>2
<1>5. OnCourse'
  <2>1. CASE Run \/ BeginCommit
    <3>1. /\ cur \in Ops /\ pc \in {"run", "begin_commit"} /\ UNCHANGED <<cur, staged, who, window>>
          /\ pc' \in {"begin_commit", "start_publish", "start_removal", "return_early"}
      BY <2>1, AtWork DEF Run, BeginCommit, Advance, Go, files, staging, procs
    <3>2. ~Recovering /\ ~Recovering'
      BY <3>1 DEF WInv, Control, ConfirmOnly, Recovering
    <3>3. cur \in Installs => staged[cur] = Plan
      BY <3>1 DEF WInv, StageOK, Healing, PreparedOK, OnCourse, Publishing, Plan, Whole
    <3>4. QED
      BY <3>1, <3>2, <3>3 DEF OnCourse, Publishing, Trouble, Plan
  <2>2. CASE ToFailed \/ ToRecovery
    <3>1. cur \in Ops /\ opState[cur] \in Started /\ UNCHANGED cur /\ pc' \in {"return_err", "next"}
      BY <2>2, AloneAtWork DEF ToFailed, ToRecovery, EndAs, Go
    <3>2. opState'[cur] \in {"Failed", "RecoveryRequired"}
      BY <1>0, <2>2, <3>1
      DEF ToFailed, ToRecovery, EndAs, Transition, Accepts, IsValidTransition, Successors, OperationState,
          Started
    <3>3. QED
      BY <3>1, <3>2 DEF OnCourse, Publishing, Trouble
  <2>3. CASE UNCHANGED vars
    BY <2>3
    DEF vars, store, files, staging, procs, Healing, OnCourse, Plan, Recovering
  <2>4. CASE ~(Run \/ BeginCommit \/ ToFailed \/ ToRecovery \/ UNCHANGED vars)
    <3>1. pc' \notin Publishing \cup Trouble \cup {"confirm_live", "check_aside", "to_recovery", "return_err"}
      <4>1. CASE Handler
        BY <1>0, <2>4, <4>1
        DEF Handler, Prepare, Advance, Unreadable, ToSucceeded, ReturnOk, ReturnEarly, ReturnErr,
            ReturnErrUnrecorded, Release, StoreFails, NextListed, Reconcile, ReconcileFails, Go,
            Publishing, Trouble
      <4>2. CASE Asked
        BY <4>2, AskedAtRest DEF Publishing, Trouble
      <4>3. CASE Environment
        <5>1. Crash(Window)
          BY <4>3, LockIsOurs DEF Environment
        <5>2. pc' = "idle"
          BY <5>1 DEF Crash, WInv, Control
        <5>3. QED
          BY <5>2 DEF Publishing, Trouble
      <4>4. QED
        BY <2>4, <4>1, <4>2, <4>3 DEF Next
    <3>2. QED
      BY <3>1 DEF OnCourse
  <2>5. QED
    BY <2>1, <2>2, <2>3, <2>4
<1>6. QED
  BY <1>0, <1>2, <1>3, <1>4, <1>5 DEF Healing, PreparedOK, Findable, Whole

LEMMA NextHeals ==
    ASSUME OneWindow, Inv, WInv, FilesInv, TruthInv, HealInv, [Next]_vars
    PROVE  HealInv'
<1> SUFFICES ASSUME Unaided' PROVE Healing'
  BY DEF HealInv
<1>1. faults = 0 /\ ~Fault
  BY FaultsStay DEF Unaided
<1>2. Untouched /\ ~Tamper /\ handled' = FALSE
  BY HandsStay DEF Unaided, Untouched
<1>3. FoldersTrue /\ StagesTrue /\ Healing
  BY <1>1, <1>2 DEF TruthInv, HealInv, Unaided
<1>4. CASE InstallStep \/ RemovalStep
  BY <1>1, <1>3, <1>4, InstallStaysOnCourse, RemovalStaysOnCourse, EngineStaysFindable DEF Healing
<1>5. CASE ~InstallStep /\ ~RemovalStep
  BY <1>1, <1>2, <1>3, <1>5, OtherHeals
<1>6. QED
  BY <1>4, <1>5

LEMMA InitHeals ==
    ASSUME Init
    PROVE  HealInv
BY OpsAssumption
DEF Init, HealInv, Healing, NeverTakenBack, PreparedOK, Findable, OnCourse, Publishing, Trouble, Started, Ops

\* Who reports that a change waits for recovery.
LEMMA OnlyReported ==
    ASSUME Inv, WInv, [Next]_vars, NEW o \in Ops,
           opState[o] # "RecoveryRequired", opState'[o] = "RecoveryRequired"
    PROVE  o = cur /\ (pc = "to_recovery" \/ (pc = "return_err" /\ opState[cur] \in {"Running", "Committing"}))
<1>0. opState \in [Ops -> States] /\ pc # "to_succeeded" /\ opState[o] \in Reachable
  BY DEF Inv, IInv, TypeOK, WInv, Control, StageOK, Unreached
<1>1. CASE InstallStep \/ RemovalStep
  BY <1>0, <1>1, InstallFlow, RemovalFlow DEF Works, Reopens, Commits, Transition
<1>2. CASE Prepare \/ Run \/ BeginCommit \/ ToFailed \/ ToRecovery
  BY <1>0, <1>2 DEF Prepare, Run, BeginCommit, Advance, ToFailed, ToRecovery, EndAs, Transition
<1>3. CASE Reconcile \/ \E q \in Ops : CancelPreview(q) \/ MarkHandled(q)
  BY <1>0, <1>3 DEF Reconcile, CancelPreview, MarkHandled, Transition
<1>4. CASE ReturnOk \/ \E p \in Processes : Enter(p) \/ ApplyOther(p)
  BY <1>0, <1>4 DEF ReturnOk, Enter, ApplyOther, ReleaseStale
<1>5. CASE ReturnErr
  BY <1>0, <1>5 DEF ReturnErr, IsStillMutating, Reachable
<1>6. CASE (\E i \in Installs : PreviewInstall(i)) \/ \E r \in Removals : PreviewRemoval(r)
  BY <1>0, <1>6 DEF PreviewInstall, PreviewRemoval
<1>7. CASE UNCHANGED opState
  BY <1>7
<1>8. QED
  BY <1>0, <1>1, <1>2, <1>3, <1>4, <1>5, <1>6, <1>7
  DEF Next, Handler, Asked, Environment, ToSucceeded, Unreadable, ReturnEarly, ReturnErrUnrecorded,
      StoreFails, NextListed, ReconcileFails, PassGate, PassGateOther, LockRefused, Launch,
      RetryRecovery, EnterRecovery, RecoveryDeferred, Tamper, Crash, vars

\* A killed program needs nobody's help: as long as no call failed and the user
\* did not interfere, recovery leaves nothing for manual reconciliation but an
\* install into a folder that another installed mod has (recover_v2_install,
\* recover_v2_removal).
THEOREM KilledProgramsHeal == OneWindow => (Spec => CrashAloneHeals)
<1> SUFFICES ASSUME OneWindow PROVE Spec => CrashAloneHeals
  OBVIOUS
<1>1. ASSUME Inv, WInv, HealInv, [Next]_vars, faults = 0, Untouched, NEW o \in Ops,
             opState[o] # "RecoveryRequired", opState'[o] = "RecoveryRequired"
      PROVE  o \in Installs /\ \E d \in rows : PackageOf[d] # PackageOf[o]
  BY <1>1, OnlyReported DEF HealInv, Unaided, Healing, OnCourse
<1>2. Inv /\ WInv /\ HealInv /\ [Next]_vars =>
        (faults = 0 /\ Untouched =>
          \A o \in Ops : opState[o] # "RecoveryRequired" /\ opState'[o] = "RecoveryRequired"
              => o \in Installs /\ \E d \in rows : PackageOf[d] # PackageOf[o])
  BY <1>1
<1>3. Spec => []HealInv
  BY InitHeals, NextHeals, InvInvariance, WindowInvariance, FilesInvariance, TruthInvariance, PTL DEF Spec
<1>4. QED
  BY <1>2, <1>3, InvInvariance, WindowInvariance, PTL DEF Spec, CrashAloneHeals
================================================================================
