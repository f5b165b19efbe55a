------------------------------ MODULE ProfileChanges ------------------------------
(***************************************************************************)
(* Durable changes of one mod folder as the whole program makes them:      *)
(* previews, confirmation past the durable and the cross-process gates,    *)
(* the install and removal engines, crashes, startup and retried recovery, *)
(* the user closing an operation by hand or moving the folder, in one app  *)
(* window and any number of command-line processes.                        *)
(***************************************************************************)
EXTENDS InstallEngine, RemovalEngine

Init ==
    /\ opState = [o \in Ops |-> "New"]
    /\ expRev = [o \in Ops |-> 0]
    /\ target = [r \in Removals |-> NoOp]
    /\ installable = [i \in Installs |-> FALSE]
    /\ steps = [o \in Ops |-> [k \in StepKinds |-> "none"]]
    /\ idRecorded = [i \in Installs |-> FALSE]
    /\ rev = 0
    /\ rows = {}
    /\ live = {}
    /\ staged = [i \in Installs |-> {}]
    /\ stagingDir = [i \in Installs |-> FALSE]
    /\ quar = [o \in Ops |-> {}]
    /\ window = "closed"
    /\ gate = [p \in Processes |-> NoOp]
    /\ who = NoProc
    /\ cur = NoOp
    /\ pc = "idle"
    /\ branch = "plain"
    /\ snap = [o \in Ops |-> "New"]
    /\ crashes = 0 /\ faults = 0 /\ tampers = 0
    /\ handled = FALSE

-----------------------------------------------------------------------------
(* Who may act.  A window runs its changing commands one at a time.         *)

Unresolved == {o \in Ops : opState[o] # "New" /\ IsUnresolved(opState[o])}
Blocking   == {o \in Unresolved : IsBlocking(opState[o])}

Running(p) == p = Window => window = "open"

\* Neither waiting for the lock nor holding it.
Free(p) == Running(p) /\ gate[p] = NoOp /\ who # p

LockFree == who = NoProc

-----------------------------------------------------------------------------
(* Previews (mods.rs) and closing them (operations.rs, cancel_operation).   *)

PreviewInstall(i) ==
    /\ opState[i] = "New"
    /\ Free(OwnerOf[i])
    /\ Blocking = {}
    /\ opState' = [opState EXCEPT ![i] = "Draft"]
    /\ expRev' = [expRev EXCEPT ![i] = rev]
    /\ staged' = [staged EXCEPT ![i] = FilesOf(PackageOf[i])]
    /\ stagingDir' = [stagingDir EXCEPT ![i] = TRUE]
    \* an installed mod with the same UniqueID blocks the install
    /\ installable' = [installable EXCEPT ![i] = \A d \in rows : PackageOf[d] # PackageOf[i]]
    /\ UNCHANGED <<target, journal, store, live, quar, procs, cur, pc, branch, env, faults>>

\* Mutant: the plan names the artifact instead of the deployment.
PreviewRemovalOfArtifact(r) ==
    /\ opState[r] = "New" /\ Free(OwnerOf[r]) /\ Blocking = {}
    /\ \E d \in rows : target' = [target EXCEPT ![r] = PackageOf[d]]
    /\ opState' = [opState EXCEPT ![r] = "Draft"]
    /\ expRev' = [expRev EXCEPT ![r] = rev]
    /\ UNCHANGED <<installable, journal, store, files, procs, cur, pc, branch, env, faults>>

PreviewRemoval(r) ==
    /\ opState[r] = "New"
    /\ Free(OwnerOf[r])
    /\ Blocking = {}
    /\ \E d \in rows : target' = [target EXCEPT ![r] = d]
    /\ opState' = [opState EXCEPT ![r] = "Draft"]
    /\ expRev' = [expRev EXCEPT ![r] = rev]
    /\ UNCHANGED <<installable, journal, store, files, procs, cur, pc, branch, env, faults>>

Unstage(os) ==
    /\ staged' = [i \in Installs |-> IF i \in os THEN {} ELSE staged[i]]
    /\ stagingDir' = [i \in Installs |-> i \notin os /\ stagingDir[i]]

CancelPreview(o) ==
    /\ opState[o] \in {"Draft", "Prepared"}
    /\ Free(OwnerOf[o])
    /\ Transition(o, "Cancelled")
    /\ Unstage({o})
    /\ UNCHANGED <<plans, journal, store, live, quar, procs, cur, pc, branch, env, faults>>

\* cancel_stale_previews: every preview the revision r has moved past.
Stale(r) == {o \in Ops : opState[o] = "Draft" /\ expRev[o] # r}

ReleaseStale(r) ==
    /\ opState' = [o \in Ops |-> IF o \in Stale(r) THEN "Cancelled" ELSE opState[o]]
    /\ Unstage(Stale(r))

-----------------------------------------------------------------------------
(* Confirming: commit_operation up to the engine.  The durable gate is read *)
(* before the instance lock is taken, and not again after.                  *)

PassGate(o) ==
    /\ opState[o] \in {"Draft", "Prepared"}
    /\ Free(OwnerOf[o])
    /\ Blocking \subseteq {o}
    /\ gate' = [gate EXCEPT ![OwnerOf[o]] = o]
    /\ UNCHANGED <<opState, plans, journal, store, files, window, who, snap, cur, pc, branch, env, faults>>

\* Some other change of the profile, such as a toggle, passes the same gate.
PassGateOther(p) ==
    /\ Free(p)
    /\ Blocking = {}
    /\ rev < MaxRevision
    /\ gate' = [gate EXCEPT ![p] = OtherChange]
    /\ UNCHANGED <<opState, plans, journal, store, files, window, who, snap, cur, pc, branch, env, faults>>

\* Another process holds the lock beyond the grace period.
LockRefused(p) ==
    /\ gate[p] # NoOp /\ who \notin {NoProc, p}
    /\ gate' = [gate EXCEPT ![p] = NoOp]
    /\ UNCHANGED <<opState, plans, journal, store, files, window, who, snap, cur, pc, branch, env, faults>>

\* Mutant: the revision is not read again under the lock.
EnterAnyRevision(p) ==
    /\ gate[p] \in Ops
    /\ LockFree
    /\ who' = p /\ cur' = gate[p] /\ pc' = "prepare" /\ branch' = "plain"
    /\ UNCHANGED <<opState, gate, plans, journal, store, files, window, snap, env, faults>>

Enter(p) ==
    /\ gate[p] \in Ops
    /\ LockFree
    /\ LET o == gate[p] IN
       IF /\ rev = expRev[o]
          /\ o \in Installs => installable[o]
       THEN /\ who' = p /\ cur' = o /\ pc' = "prepare" /\ branch' = "plain"
            /\ UNCHANGED <<opState, staging, gate>>
       ELSE /\ IF rev = expRev[o] THEN UNCHANGED <<opState, staging>> ELSE ReleaseStale(rev)
            /\ gate' = [gate EXCEPT ![p] = NoOp]
            /\ UNCHANGED <<who, cur, pc, branch>>
    /\ UNCHANGED <<plans, journal, store, live, quar, window, snap, env, faults>>

ApplyOther(p) ==
    /\ gate[p] = OtherChange
    /\ LockFree
    /\ rev < MaxRevision
    /\ rev' = rev + 1
    /\ ReleaseStale(rev + 1)
    /\ gate' = [gate EXCEPT ![p] = NoOp]
    /\ UNCHANGED <<plans, journal, rows, live, quar, window, who, snap, cur, pc, branch, env, faults>>

\* Draft -> Prepared -> Running -> Committing, three writes.  One that is
\* refused or fails leaves the handler at once: nothing is promoted yet.
Advance(label, state, next) ==
    /\ pc = label
    /\ Transition(cur, state)
    /\ Go(IF Accepts(cur, state) THEN next ELSE "return_early")
    /\ UNCHANGED <<plans, journal, store, files, procs, cur, branch, env, faults>>

Advances == {"prepare", "run", "begin_commit"}

Prepare     == Advance("prepare", "Prepared", "run")
Run         == Advance("run", "Running", "begin_commit")
BeginCommit == Advance("begin_commit", "Committing",
                       IF cur \in Installs THEN "start_publish" ELSE "start_removal")

-----------------------------------------------------------------------------
(* Leaving the handler.                                                     *)

Release ==
    /\ who' = NoProc /\ cur' = NoOp /\ pc' = "idle" /\ branch' = "plain"
    /\ gate' = [p \in Processes |-> IF p = who THEN NoOp ELSE gate[p]]

ReturnOk ==
    /\ pc = "return_ok"
    /\ ReleaseStale(rev)
    /\ Release
    /\ UNCHANGED <<plans, journal, store, live, quar, window, snap, env, faults>>

ReturnEarly ==
    /\ pc = "return_early"
    /\ Release
    /\ UNCHANGED <<opState, plans, journal, store, files, window, snap, env, faults>>

\* Mutant: whatever was not failed on purpose is promoted.
ReturnErrPromotingAll ==
    /\ pc = "return_err"
    /\ opState' = [opState EXCEPT ![cur] = IF @ = "Failed" THEN @ ELSE "RecoveryRequired"]
    /\ Release
    /\ UNCHANGED <<plans, journal, store, files, window, snap, env, faults>>

\* An operation left in the middle is promoted to RecoveryRequired.
ReturnErr ==
    /\ pc = "return_err"
    /\ opState' = [opState EXCEPT ![cur] =
                      IF IsStillMutating(@) /\ Accepts(cur, "RecoveryRequired")
                      THEN "RecoveryRequired" ELSE @]
    /\ Release
    /\ UNCHANGED <<plans, journal, store, files, window, snap, env, faults>>

\* Not even that write goes through.
ReturnErrUnrecorded ==
    /\ pc = "return_err" /\ IsStillMutating(opState[cur])
    /\ Fault
    /\ Release
    /\ UNCHANGED <<opState, plans, journal, store, files, window, snap, env>>

\* A call to the store fails: the handler's `?` returns at once.
StoreFails ==
    /\ pc \in Advances \cup InstallWrites \cup RemovalWrites
                \cup {"inspect", "to_failed", "to_succeeded", "to_recovery", "return_ok"}
    /\ Fault
    /\ Go(CASE Recovering      -> "next"
            [] pc \in Advances -> "return_early"
            [] OTHER           -> "return_err")
    /\ UNCHANGED <<opState, plans, journal, store, files, procs, cur, branch, env>>

-----------------------------------------------------------------------------
(* Recovery (operation_recovery.rs).  The list is read before the lock is   *)
(* taken, and each operation is reconciled as it was read.                  *)

Snapshot(os) == snap' = [o \in Ops |-> IF o \in os THEN opState[o] ELSE "New"]

Listed == {o \in Ops : snap[o] # "New"}

\* Mutant: startup recovery lists what a retry would.
LaunchSkippingPreviews ==
    /\ window = "closed"
    /\ Snapshot(Blocking)
    /\ window' = IF Blocking = {} THEN "open" ELSE "starting"
    /\ UNCHANGED <<opState, plans, journal, store, files, gate, who, cur, pc, branch, env, faults>>

\* The window starts: startup recovery takes previews along.
Launch ==
    /\ window = "closed"
    /\ Snapshot(Unresolved)
    /\ window' = IF Unresolved = {} THEN "open" ELSE "starting"
    /\ UNCHANGED <<opState, plans, journal, store, files, gate, who, cur, pc, branch, env, faults>>

\* Mutant: only what is reported as RecoveryRequired can be retried.
RetryableReported == {o \in Blocking : opState[o] = "RecoveryRequired"}

\* "Retry recovery": previews, and changes whose owner lives, are left out.
\* The window itself is idle here, so a living owner is another process that
\* holds the instance lock; nobody carries out what waits for recovery.
Retryable ==
    IF LockFree THEN Blocking ELSE {o \in Blocking : opState[o] = "RecoveryRequired"}

RetryRecovery ==
    /\ Free(Window)
    /\ Retryable # {}
    /\ Snapshot(Retryable)
    /\ window' = "starting"
    /\ UNCHANGED <<opState, plans, journal, store, files, gate, who, cur, pc, branch, env, faults>>

EnterRecovery ==
    /\ window = "starting" /\ who = NoProc
    /\ who' = Window
    /\ Go("next")
    /\ UNCHANGED <<opState, plans, journal, store, files, window, gate, snap, cur, branch, env, faults>>

\* The lock is taken: startup recovery is deferred, a retry is refused.
RecoveryDeferred ==
    /\ window = "starting" /\ who \notin {NoProc, Window}
    /\ window' = "open"
    /\ Snapshot({})
    /\ UNCHANGED <<opState, plans, journal, store, files, gate, who, cur, pc, branch, env, faults>>

\* The next operation of the list, or the end of it.
NextListed ==
    /\ pc = "next"
    /\ snap' = [o \in Ops |-> IF o = cur THEN "New" ELSE snap[o]]
    /\ branch' = "plain"
    /\ IF Listed \ {cur} = {}
       THEN /\ cur' = NoOp /\ who' = NoProc /\ window' = "open" /\ pc' = "idle"
       ELSE /\ cur' \in Listed \ {cur}
            /\ pc' = "reconcile"
            /\ UNCHANGED <<who, window>>
    /\ UNCHANGED <<opState, plans, journal, store, files, gate, env, faults>>

\* reconcile_operation: a preview is cancelled, anything else is inspected.
Reconcile ==
    /\ pc = "reconcile"
    /\ IF snap[cur] \in {"Draft", "Prepared"}
       THEN /\ Unstage({cur})
            /\ Transition(cur, "Cancelled")
            /\ Go("next")
       ELSE /\ Go("inspect")
            /\ UNCHANGED <<opState, staging>>
    /\ UNCHANGED <<plans, journal, store, live, quar, procs, cur, branch, env, faults>>

\* The staged files are gone and the cancellation could not be written.
ReconcileFails ==
    /\ pc = "reconcile" /\ snap[cur] \in {"Draft", "Prepared"}
    /\ Fault
    /\ Unstage({cur})
    /\ Go("next")
    /\ UNCHANGED <<opState, plans, journal, store, live, quar, procs, cur, branch, env>>

\* "I fixed it myself": closed as failed, and nothing is checked.
MarkHandled(o) ==
    /\ Free(Window)
    /\ opState[o] = "RecoveryRequired"
    /\ Transition(o, "Failed")
    /\ handled' = TRUE
    /\ UNCHANGED <<plans, journal, store, files, procs, cur, pc, branch, crashes, tampers, faults>>

-----------------------------------------------------------------------------
(* The environment.                                                         *)

\* What the folder moves in progress leave when the process dies in them.
TornFiles ==
    \/ UNCHANGED files
    \/ /\ pc = "publish"
       /\ \E m \in TornMoves(staged[cur], live) :
             staged' = [staged EXCEPT ![cur] = m.src] /\ live' = m.dst
       /\ UNCHANGED <<stagingDir, quar>>
    \/ /\ pc \in {"quarantine", "set_aside"}
       /\ \E m \in TornMoves(live, quar[cur]) :
             live' = m.src /\ quar' = [quar EXCEPT ![cur] = m.dst]
       /\ UNCHANGED staging
    \/ /\ pc = "restore"
       /\ \E m \in IF Exists(quar[cur]) /\ Exists(live)
                   THEN Refilled(quar[cur], live) \cup PartlyRefilled(quar[cur], live)
                   ELSE TornMoves(quar[cur], live) :
             quar' = [quar EXCEPT ![cur] = m.src] /\ live' = m.dst
       /\ UNCHANGED staging

\* A process is killed; the operating system drops its locks.
Crash(p) ==
    /\ crashes < MaxCrashes
    /\ crashes' = crashes + 1
    /\ Running(p) \/ window = "starting"
    /\ gate[p] # NoOp \/ who = p \/ (p = Window /\ window # "closed")
    /\ gate' = [gate EXCEPT ![p] = NoOp]
    /\ IF p = Window
       THEN window' = "closed" /\ snap' = [o \in Ops |-> "New"]
       ELSE UNCHANGED <<window, snap>>
    /\ IF who = p
       THEN /\ who' = NoProc /\ cur' = NoOp /\ pc' = "idle" /\ branch' = "plain"
            /\ TornFiles
       ELSE UNCHANGED <<who, cur, pc, branch, files>>
    /\ UNCHANGED <<opState, plans, journal, store, tampers, handled, faults>>

\* The user unzips or copies files of their own into the folder, or deletes it.
Tamper ==
    /\ tampers < MaxTampers
    /\ tampers' = tampers + 1
    /\ live' \in {{}, live \cup {Dir, User}} \ {live}
    /\ UNCHANGED <<opState, plans, journal, store, staging, quar, procs, cur, pc, branch,
                   crashes, handled, faults>>

-----------------------------------------------------------------------------
Handler ==
    \/ Prepare \/ Run \/ BeginCommit
    \/ InstallStep \/ RemovalStep
    \/ Unreadable("inspect") \/ (pc = "undo" /\ Recovering /\ Unreadable("undo"))
    \/ ToFailed \/ ToSucceeded \/ ToRecovery
    \/ ReturnOk \/ ReturnEarly \/ ReturnErr \/ ReturnErrUnrecorded \/ StoreFails
    \/ NextListed \/ Reconcile \/ ReconcileFails

Asked ==
    \/ \E i \in Installs : PreviewInstall(i)
    \/ \E r \in Removals : PreviewRemoval(r)
    \/ \E o \in Ops : CancelPreview(o) \/ PassGate(o) \/ MarkHandled(o)
    \/ \E p \in Processes : PassGateOther(p) \/ LockRefused(p) \/ Enter(p) \/ ApplyOther(p)
    \/ Launch \/ RetryRecovery \/ EnterRecovery \/ RecoveryDeferred

Environment == Tamper \/ \E p \in Processes : Crash(p)

Next == Handler \/ Asked \/ Environment

Spec == Init /\ [][Next]_vars
================================================================================
