----------------------------- MODULE ChangeProperties -----------------------------
(***************************************************************************)
(* What the durable changes promise: the type of the state, safety over    *)
(* every interleaving, crash and failed call, what a single step may never *)
(* do, and that every confirmed change comes to an end.                    *)
(***************************************************************************)
EXTENDS ProfileChanges

SharedLabels ==
    {"idle", "prepare", "run", "begin_commit", "next", "reconcile", "inspect",
     "to_failed", "to_succeeded", "to_recovery", "return_ok", "return_err",
     "return_early"}

InstallLabels == InstallWrites \cup {"verify_staged", "publish", "confirm_live",
                                      "commit", "quarantine", "cleanup", "tidy"}
RemovalLabels == RemovalWrites \cup {"set_aside", "check_aside", "commit_removal",
                                      "undo", "restore"}

Labels == SharedLabels \cup InstallLabels \cup RemovalLabels

Branches == {"plain", "republish", "compensate", "undo", "aside_again"}

\* The type of every variable: what each row, folder and control variable of
\* the program may hold.
TypeOK ==
    /\ opState \in [Ops -> States]
    /\ expRev \in [Ops -> Nat]
    /\ target \in [Removals -> Installs \cup {NoOp}]
    /\ installable \in [Installs -> BOOLEAN]
    /\ steps \in [Ops -> [StepKinds -> StepStates]]
    /\ idRecorded \in [Installs -> BOOLEAN]
    /\ rev \in Nat
    /\ rows \in SUBSET Installs
    /\ live \in SUBSET Files
    /\ staged \in [Installs -> SUBSET Files]
    /\ stagingDir \in [Installs -> BOOLEAN]
    /\ quar \in [Ops -> SUBSET Files]
    /\ window \in {"closed", "starting", "open"}
    /\ gate \in [Processes -> Ops \cup {NoOp, OtherChange}]
    /\ who \in Processes \cup {NoProc}
    /\ cur \in Ops \cup {NoOp}
    /\ pc \in Labels
    /\ branch \in Branches
    /\ snap \in [Ops -> States]
    /\ crashes \in Nat /\ faults \in Nat /\ tampers \in Nat
    /\ handled \in BOOLEAN

-----------------------------------------------------------------------------
\* Nothing confirmed is left unfinished and no handler is running.
Settled == pc = "idle" /\ Blocking = {}

\* The user neither touched the folder nor closed an operation unchecked.
Untouched == tampers = 0 /\ ~handled

\* Succeeded is written only when files and database agree, and Failed ends
\* without a live side effect (docs/operations-and-recovery.md, State
\* lifecycle): once everything is settled, what is live in Mods is exactly the
\* package of the one recorded deployment, or nothing when none is recorded.
SettledConsistent ==
    Settled /\ Untouched =>
        /\ rows = {} => live = {}
        /\ \A d \in rows : rows = {d} /\ live = FilesOf(PackageOf[d])

\* No crash and no failed move ever loses an installed mod: while the database
\* records it, one single folder, in Mods or in a recovery tree, is complete.
InstalledModNeverLost ==
    tampers = 0 =>
        \A d \in rows : LET whole == FilesOf(PackageOf[d]) IN
            whole \subseteq live \/ \E r \in Removals : whole \subseteq quar[r]

\* A removed mod can be brought back: once its removal committed, the whole
\* package is in a removal's recovery folder, and in the removal's own unless
\* the user closed an unfinished change by hand before (the folder may then
\* have been left in pieces between Mods and that change's recovery folder).
RemovedModRecoverable ==
    tampers = 0 =>
        \A r \in Removals :
            opState[r] = "Succeeded" /\ steps[r]["CommitRemovalDatabase"] = "completed" =>
                LET whole == FilesOf(PackageOf[target[r]]) IN
                /\ \E q \in Removals : whole \subseteq quar[q]
                /\ ~handled => whole \subseteq quar[r]

\* A deployment is recorded only by the transaction that also settles its
\* install (docs/operations-and-recovery.md, State lifecycle): no row ever
\* belongs to an install that is unfinished, failed or was never confirmed.
RecordedIsSucceeded == \A d \in rows : opState[d] = "Succeeded"

\* The journal and the domain records are one persistence boundary: only a
\* committed install or removal says "completed" for its commit, and a recorded
\* deployment always has its commit step completed.
JournalMatchesStore ==
    /\ \A d \in rows : steps[d]["CommitInstallDatabase"] = "completed"
    /\ \A i \in Installs : steps[i]["CommitInstallDatabase"] = "completed"
                              => opState[i] = "Succeeded"
    /\ \A r \in Removals : steps[r]["CommitRemovalDatabase"] = "completed"
                              => opState[r] = "Succeeded"

\* An operation succeeds in the very step that commits it, against the
\* revision its preview saw, and moves the revision by one: it is never
\* reported done for a commit that was another's, or twice.
SuccessIsOneCommit ==
    [][ \A o \in Ops : opState[o] # "Succeeded" /\ opState'[o] = "Succeeded"
            => rev = expRev[o] /\ rev' = rev + 1 ]_vars

\* The manager moves and fills in, and never overwrites or deletes what the
\* user put into the folder: whatever a step of the program does, a file of
\* the user's that was somewhere still is somewhere.
Everywhere == live \cup UNION {quar[o] : o \in Ops}
UserFilesKept == [][ tampers' = tampers /\ User \in Everywhere => User \in Everywhere' ]_vars

\* What succeeded or was cancelled is over: no late step, no recovery working
\* from an older reading of the row, opens it again.
SettledStaysSettled ==
    [][ \A o \in Ops : opState[o] \in {"Succeeded", "Cancelled"} => opState'[o] = opState[o] ]_vars

\* The proof of success is conjunctive (docs/operations-and-recovery.md,
\* Restart recovery): whoever writes Succeeded, at that moment the database
\* records the change and the folder is where the record says.
SuccessIsProven ==
    [][ tampers = 0 =>
          \A o \in Ops : opState[o] # "Succeeded" /\ opState'[o] = "Succeeded" =>
            IF o \in Installs
            THEN FilesOf(PackageOf[o]) \subseteq live' /\ \E d \in rows' : PackageOf[d] = PackageOf[o]
            ELSE live' = {} /\ target[o] \notin rows' ]_vars

\* A killed program needs nobody's help: when no disk or database call failed
\* and the user did not interfere, recovery leaves nothing for manual
\* reconciliation but an install into a folder that another installed mod has.
CrashAloneHeals ==
    [][ faults = 0 /\ Untouched =>
          \A o \in Ops : opState[o] # "RecoveryRequired" /\ opState'[o] = "RecoveryRequired"
              => o \in Installs /\ \E d \in rows : PackageOf[d] # PackageOf[o] ]_vars

Pending(o) == opState[o] \in {"Running", "Committing", "RecoveryRequired"}

\* While a confirmed install is unfinished, and its staging directory was not
\* already cleaned, its files exist whole in one place: staged, live, or in its
\* recovery folder.
InstallFilesKept ==
    tampers = 0 =>
        \A i \in Installs : LET whole == FilesOf(PackageOf[i]) IN
            Pending(i) /\ stagingDir[i] =>
                whole \subseteq live \/ whole \subseteq staged[i] \/ whole \subseteq quar[i]

-----------------------------------------------------------------------------
\* Every behaviour of the engine, whatever crashes and fails, is one of
\* AtomicChanges: a proposal becomes busy when its row turns Running and stays
\* busy, through crash and recovery, until the row is settled.
PhaseOf(s) ==
    CASE s = "New"                    -> "new"
      [] s \in {"Draft", "Prepared"}  -> "proposed"
      [] s = "Succeeded"              -> "done"
      [] s \in {"Failed", "Cancelled"} -> "closed"
      [] OTHER                        -> "busy"

Abstract == INSTANCE AtomicChanges WITH
    Nothing <- NoOp, phase <- [o \in Ops |-> PhaseOf(opState[o])],
    base <- expRev, aim <- target, installed <- rows, revision <- rev

ImplementsAtomicChanges == Abstract!Spec

-----------------------------------------------------------------------------
(* Fairness: a handler that runs goes on running; recovery that was started *)
(* takes a free lock; and the user opens the app again and retries recovery *)
(* when it is offered.                                                      *)

Fairness ==
    /\ WF_vars(Handler)
    /\ WF_vars(EnterRecovery)
    /\ WF_vars(Launch)
    /\ WF_vars(RetryRecovery)

\* A change that began to touch files or rows comes to an end, or is reported
\* as waiting for recovery: none is left in progress for ever.
Mid(o) == opState[o] \in {"Running", "Committing"}

StartedChangesEnd == \A o \in Ops : Mid(o) ~> ~Mid(o)

\* A preview left by a run of the app that ended is cancelled by the next one,
\* unless a call fails in it (what counts here is that no more can).
LeftPreviewsAreClosed ==
    \A o \in Ops : window = "closed" /\ faults = MaxFaults /\ opState[o] = "Draft"
                    ~> opState[o] # "Draft"

\* Nothing stays half done: neither a change that began nor a preview whose
\* window is gone.
NothingIsLeftOpen == StartedChangesEnd /\ LeftPreviewsAreClosed
================================================================================
