------------------------------ MODULE ProfileStore ------------------------------
(***************************************************************************)
(* What survives a crash, for one mod folder of one profile: the rows of   *)
(* the SQLite store (operations, their journal of steps, the profile       *)
(* revision, the deployments) and the three places the folder's files can  *)
(* be in (staged for an install, live in Mods, quarantined in the recovery *)
(* tree of an operation).  The module also holds the control state of the  *)
(* processes that change them, and the adapter operations the install and  *)
(* the removal engine share.                                               *)
(*                                                                         *)
(* A folder is the set of what it contains: {} is "no such folder", and    *)
(* every folder that exists holds at least Dir, the directory itself.      *)
(***************************************************************************)
EXTENDS Naturals, FiniteSets, OperationStates

CONSTANTS
    Installs,      \* the install operations, all aimed at the one mod folder
    Removals,      \* the removal operations of that folder
    Packages,      \* the mod packages (artifact hashes)
    PackageOf,     \* the package each install was prepared from
    Processes,     \* the running programs: the window, and command lines
    Window,        \* the one that has the app window and runs recovery
    OwnerOf,       \* the process each operation is asked for in
    Dir,           \* the directory entry every existing folder has
    User,          \* a file of the user's own, in no package
    NoOp, NoProc,  \* "none"
    OtherChange,   \* some other change of the profile, such as a toggle
    MaxRevision,   \* bound: the profile revision
    MaxCrashes,    \* bound: how many times a process is killed
    MaxFaults,     \* bound: how many disk or database calls fail
    MaxTampers     \* bound: how many times the user touches the folder by hand

Ops == Installs \cup Removals

ASSUME OpsAssumption ==
    /\ Installs \cap Removals = {}
    /\ NoOp \notin Ops
    /\ OtherChange \notin Ops \cup {NoOp}
    /\ OwnerOf \in [Ops -> Processes]
    /\ PackageOf \in [Installs -> Packages]

ASSUME ProcessAssumption == Window \in Processes /\ NoProc \notin Processes

ASSUME FilesAssumption == Dir # User /\ {Dir, User} \cap Packages = {}

ASSUME BoundsAssumption ==
    /\ MaxRevision \in Nat
    /\ MaxCrashes \in Nat
    /\ MaxFaults \in Nat
    /\ MaxTampers \in Nat

-----------------------------------------------------------------------------
VARIABLES
    opState,      \* operations.state, "New" before the row exists
    expRev,       \* operations.expected_profile_revision
    target,       \* the install whose deployment a removal's plan names
    installable,  \* the install plan's dependency_report.is_installable
    steps,        \* operation_steps: the state of each step, "none" if absent
    idRecorded,   \* the publish step's payload carries a deployment id
    rev,          \* profiles.revision
    rows,         \* profile_deployments at this folder, named by their install
    live,         \* the folder in Mods
    staged,       \* the folder in each install's staging directory
    stagingDir,   \* the directory its preview filled was not removed
    quar,         \* the folder in each operation's recovery directory
    window,       \* the window process: "closed", "starting" or "open"
    gate,         \* what each process was let through to and waits to lock for
    who,          \* the process holding the instance lock
    cur,          \* the operation it is working on
    pc,           \* where in the handler it is
    branch,       \* why a shared part of a handler runs
    snap,         \* recovery's list: the state each operation was read in
    crashes, faults, tampers,   \* how much of each bound is used
    handled       \* the user closed an operation by hand, unchecked

plans   == <<expRev, target, installable>>
journal == <<steps, idRecorded>>
store   == <<rev, rows>>
staging == <<staged, stagingDir>>
files   == <<live, staging, quar>>
procs   == <<window, gate, who, snap>>
env     == <<crashes, tampers, handled>>
vars    == <<opState, plans, journal, store, files, procs, cur, pc, branch, env, faults>>

InstallSteps == {"PublishDeployment", "CommitInstallDatabase", "CleanupStaging",
                 "QuarantinePublishedDeployment"}
RemovalSteps == {"QuarantineDeployment", "CommitRemovalDatabase",
                 "RestoreQuarantinedDeployment"}
StepKinds    == InstallSteps \cup RemovalSteps
StepStates   == {"none", "running", "completed", "failed"}

States == OperationState \cup {"New"}
Files  == Packages \cup {Dir, User}

FilesOf(p) == {Dir, p}

Exists(folder) == folder # {}

-----------------------------------------------------------------------------
(* The journal (operation_lifecycle.rs).  A transition the state machine    *)
(* refuses leaves the row alone and is an error.                            *)

Accepts(o, s) == opState[o] # "New" /\ IsValidTransition(opState[o], s)

Transition(o, s) ==
    opState' = [opState EXCEPT ![o] = IF Accepts(o, s) THEN s ELSE @]

MarkStep(o, kind, state) == steps' = [steps EXCEPT ![o][kind] = state]

\* A disk or database call fails: counted against its bound.
Fault == faults < MaxFaults /\ faults' = faults + 1

Go(label) == pc' = label

\* The handler works for recovery rather than for somebody's confirmation: the
\* window confirms nothing before the recovery it started is over.
Recovering == who = Window /\ window = "starting"

\* Writing one step and moving on; every other variable keeps its value.
StepWrite(kind, state, next) ==
    /\ MarkStep(cur, kind, state)
    /\ Go(next)
    /\ UNCHANGED <<opState, plans, idRecorded, store, files, procs, cur, branch, env, faults>>

\* Only the place in the handler changes.
Skip(next) ==
    /\ Go(next)
    /\ UNCHANGED <<opState, plans, journal, store, files, procs, cur, branch, env, faults>>

-----------------------------------------------------------------------------
(* Moving a folder (deployment.rs, atomic_move_tree).  A rename is tried    *)
(* first.  The fallback copies, promotes the copy and deletes the original; *)
(* a failed delete is undone from the copy.  It can leave a duplicate at    *)
(* the destination, or, when undoing fails too, both places filled.         *)

\* What a directory tree may look like once deleting it stopped part-way.
Remains(tree) == {t \in SUBSET tree : Dir \in t}

Moved(src, dst)   == [src |-> {}, dst |-> src]
Unmoved(src, dst) == [src |-> src, dst |-> dst]

\* Mutant: the copy is dropped although part of the original is gone.
FailedMovesNotUndone(src) ==
    {[src |-> s, dst |-> {}] : s \in Remains(src)}

\* How a move into a free place fails.
FailedMoves(src) ==
    {[src |-> src, dst |-> d] : d \in Remains(src) \cup {{}}}
        \cup {[src |-> s, dst |-> src] : s \in Remains(src)}

\* Mutant: the original is deleted before the copy is promoted.
TornMovesDeletingFirst(src, dst) ==
    {[src |-> s, dst |-> dst] : s \in Remains(src)}

\* What a process killed during the move leaves behind.
TornMoves(src, dst) ==
    IF Exists(src) /\ ~Exists(dst)
    THEN {[src |-> s, dst |-> src] : s \in Remains(src)}
    ELSE {Unmoved(src, dst)}

\* Mutant: what is live is replaced by the copy.
RefilledByReplacing(src, dst) == {Moved(src, dst)}

\* Putting a quarantined folder back over one that exists
\* (restore_quarantined_deployment): fill in what is missing, then drop the
\* copy, whose deletion may fail without failing the restore.
Refilled(src, dst) == {[src |-> s, dst |-> dst \cup src] : s \in Remains(src) \cup {{}}}

PartlyRefilled(src, dst) ==
    {[src |-> src, dst |-> dst \cup d] : d \in SUBSET src}

-----------------------------------------------------------------------------
(* The store's own rules (manager-infra, db/mod.rs).                        *)

\* Both atomic commits check the state and compare the revision inside the
\* transaction, and complete the commit step and the operation in it.
MayCommit(o) == opState[o] = "Committing" /\ rev = expRev[o]

\* Mutants: the commit step, the state and the revision are not part of the
\* transaction that records the change.
CommitRowStepLater(o, kind, newRows, next) ==
    /\ MayCommit(o)
    /\ rows' = newRows /\ rev' = rev + 1
    /\ opState' = [opState EXCEPT ![o] = "Succeeded"]
    /\ Go(next)
    /\ UNCHANGED <<plans, journal, files, procs, cur, branch, env, faults>>

CommitRowStateLater(o, kind, newRows, next) ==
    /\ MayCommit(o)
    /\ rows' = newRows /\ rev' = rev + 1
    /\ MarkStep(o, kind, "completed")
    /\ Go(next)
    /\ UNCHANGED <<opState, plans, idRecorded, files, procs, cur, branch, env, faults>>

CommitRow(o, kind, newRows, next) ==
    /\ MayCommit(o)
    /\ rows' = newRows
    /\ rev' = rev + 1
    /\ MarkStep(o, kind, "completed")
    /\ opState' = [opState EXCEPT ![o] = "Succeeded"]
    /\ Go(next)
    /\ UNCHANGED <<plans, idRecorded, files, procs, cur, branch, env, faults>>

\* The transaction is refused, or fails: nothing of it happened.
CommitRefused(o, next) ==
    /\ \/ ~MayCommit(o) /\ UNCHANGED faults
       \/ MayCommit(o) /\ Fault
    /\ Go(next)
    /\ UNCHANGED <<opState, plans, journal, store, files, procs, cur, branch, env>>

-----------------------------------------------------------------------------
(* How a handler ends.                                                      *)

\* lifecycle.transition as the last thing an engine does.  Recovery then
\* turns to its next operation; a confirmation returns its error.
EndAs(state) ==
    /\ Transition(cur, state)
    /\ Go(IF Recovering THEN "next" ELSE "return_err")
    /\ UNCHANGED <<plans, journal, store, files, procs, cur, branch, env, faults>>

ToFailed    == pc = "to_failed"    /\ EndAs("Failed")
ToSucceeded == pc = "to_succeeded" /\ EndAs("Succeeded")
ToRecovery  == pc = "to_recovery"  /\ EndAs("RecoveryRequired")

\* Evidence that cannot be read is never taken for absence.
Unreadable(label) ==
    /\ pc = label
    /\ Fault
    /\ Go("to_recovery")
    /\ UNCHANGED <<opState, plans, journal, store, files, procs, cur, branch, env>>
================================================================================
