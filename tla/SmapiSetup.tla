----------------------------- MODULE SmapiSetup -----------------------------
(* Installing and removing SMAPI in the game folder (services/smapi.rs), the *)
(* upstream installer as a process of its own, and the recovery of a setup   *)
(* that was interrupted (operation_recovery.rs). Only the window sets SMAPI  *)
(* up, one job at a time. The installer is a child process that is not       *)
(* stopped with the manager: after a kill it goes on by itself.              *)
EXTENDS Naturals, Sequences, FiniteSets

CONSTANTS
    Versions,     \* SMAPI releases
    None,         \* no version, no file
    NoRecord,     \* no fingerprints are kept of SMAPI's files
    MaxSetups, MaxCrashes, MaxFaults, MaxTouches   \* bounds

VARIABLES
    parts,      \* SMAPI's files in the game folder: the release each is from
    row,        \* smapi_installations: the version recorded, or None
    record,     \* the fingerprints taken after an install, by file, or NoRecord
    setup,      \* the latest setup's operation
    installer,  \* the installer's process
    at,         \* what the window is doing
    games,      \* game processes: sessions by number, 0 started outside
    touched,    \* changed by others since the manager last looked
    others,     \* anything but an install of this manager ever changed them
    setups, crashes, faults, touches

setupVars == <<parts, row, record, setup, installer, at, games, touched, others,
               setups, crashes, faults, touches>>

\* The launcher stands for smapi-internal too.
Parts == {"launcher", "dll", "deps"}
NoSetup == [state |-> "none", action |-> "none", version |-> None]
NoInstaller == [action |-> "none", version |-> None, todo |-> {}, orphan |-> FALSE]
AllFrom(v) == [p \in Parts |-> v]

\* After an update of the game SMAPI copies the game's deps.json over its own:
\* it names no version of SMAPI then, and no fingerprint is taken of it.
Unnamed == "names no SMAPI"
Fingerprinted == Parts \ {"deps"}

ASSUME SetupAssumption ==
    /\ None \notin Versions /\ Unnamed \notin Versions \union {None}
    /\ \A there \in SUBSET Fingerprinted : NoRecord \notin [there -> Versions]

Unfinished == setup.state \in {"prepared", "committing", "recovery"}
GameRuns == games # {}
LockFree == at \in {"idle", "down"}

\* observe_smapi: deps.json alone is not SMAPI, but it can name the version.
Present == parts["launcher"] # None \/ parts["dll"] # None
Complete == \A p \in Parts : parts[p] # None
Observed == IF ~Present THEN None
            ELSE IF parts["dll"] # None THEN parts["dll"]
            ELSE IF parts["deps"] \in Versions THEN parts["deps"] ELSE None

\* The fingerprints of what is there now; of nothing, no record is kept.
Fingerprint ==
    LET there == {p \in Fingerprinted : parts[p] # None} IN
    IF there = {} THEN NoRecord ELSE [p \in there |-> parts[p]]

\* What is reported as changed or missing since the record was taken.
Changed == IF record = NoRecord THEN {} ELSE {p \in DOMAIN record : parts[p] # record[p]}

SetupInit ==
    /\ \E v \in Versions \union {None} :
         /\ parts = AllFrom(v)
         /\ row \in {None, v}
         /\ record \in IF row = None THEN {NoRecord}
                      ELSE {NoRecord, [p \in Fingerprinted |-> v]}
    /\ setup = NoSetup
    /\ installer = NoInstaller
    /\ at = "idle"
    /\ games = {}
    /\ touched = FALSE /\ others = FALSE
    /\ crashes = 0
    \* what is bounded may also not happen at all
    /\ setups \in {0, MaxSetups} /\ faults \in {0, MaxFaults}
    /\ touches \in {0, MaxTouches}

-----------------------------------------------------------------------------
(* A setup, step by step. *)

\* The durable gate, the running game, the operation and its claim.
BeginSetup(action, v) ==
    /\ at = "idle" /\ setups < MaxSetups
    /\ ~Unfinished /\ ~GameRuns
    /\ action = "uninstall" => Present
    /\ setup' = [state |-> "prepared", action |-> action, version |-> v]
    /\ at' = "begin"
    /\ setups' = setups + 1
    /\ UNCHANGED <<parts, row, record, installer, games, touched, others,
                   crashes, faults, touches>>

CommitSetup ==
    /\ at = "begin"
    /\ setup' = [setup EXCEPT !.state = "committing"]
    /\ at' = "download"
    /\ UNCHANGED <<parts, row, record, installer, games, touched, others,
                   setups, crashes, faults, touches>>

\* A download that fails ends the setup before anything was changed.
Download(ok) ==
    /\ at = "download"
    /\ setup' = IF ok THEN setup ELSE [setup EXCEPT !.state = "failed"]
    /\ at' = IF ok THEN "files" ELSE "idle"
    /\ UNCHANGED <<parts, row, record, installer, games, touched, others,
                   setups, crashes, faults, touches>>

\* An install first forgets the fingerprints of what it is about to replace.
Forgotten == IF setup.action = "install" THEN NoRecord ELSE record

StartInstaller ==
    /\ at = "files" /\ installer = NoInstaller
    /\ installer' = [action |-> setup.action, version |-> setup.version,
                     todo |-> Parts, orphan |-> FALSE]
    /\ record' = Forgotten
    /\ at' = "installing"
    /\ UNCHANGED <<parts, row, setup, games, touched, others,
                   setups, crashes, faults, touches>>

InstallerWrites(p) ==
    /\ p \in installer.todo
    /\ parts' = [parts EXCEPT ![p] = IF installer.action = "install"
                                     THEN installer.version ELSE None]
    /\ installer' = [installer EXCEPT !.todo = @ \ {p}]
    /\ touched' = (touched \/ installer.orphan)
    /\ others' = (others \/ installer.orphan \/ installer.action = "uninstall")
    /\ UNCHANGED <<row, record, setup, at, games, setups, crashes, faults, touches>>

OrphanEnds ==
    /\ installer.orphan
    /\ installer' = NoInstaller
    /\ UNCHANGED <<parts, row, record, setup, at, games, touched, others,
                   setups, crashes, faults, touches>>

\* What is checked after an installer that says it worked.
SetupVerified == IF setup.action = "install" THEN Complete ELSE ~Present

\* An installer that says it worked wrote every file; an uninstaller may not
\* have, and others may have changed the folder behind its back.
InstallerReturns(says) ==
    /\ at = "installing"
    /\ says /\ setup.action = "install" => installer.todo = {}
    /\ installer' = NoInstaller
    /\ IF says /\ SetupVerified
       THEN at' = "persist" /\ touched' = FALSE /\ UNCHANGED setup
       ELSE /\ at' = "idle"
            /\ setup' = [setup EXCEPT !.state = "failed"]
            /\ UNCHANGED touched
    /\ UNCHANGED <<parts, row, record, games, others, setups, crashes, faults, touches>>

\* A game has one row: saving replaces it, and a removal deletes it.
RowAfter(action, v) == IF action = "install" THEN v ELSE None

SaveSmapiRow ==
    /\ at = "persist"
    /\ row' = RowAfter(setup.action, setup.version)
    /\ record' = IF setup.action = "install" THEN record ELSE NoRecord
    /\ at' = "succeed"
    /\ UNCHANGED <<parts, setup, installer, games, touched, others,
                   setups, crashes, faults, touches>>

\* enter_recovery, whose own write can be refused too.
SmapiRowRefused(refusedToo) ==
    /\ at = "persist" /\ faults < MaxFaults
    /\ setup' = IF refusedToo THEN setup ELSE [setup EXCEPT !.state = "recovery"]
    /\ at' = "idle"
    /\ faults' = faults + 1
    /\ UNCHANGED <<parts, row, record, installer, games, touched, others,
                   setups, crashes, touches>>

SetupSucceeds ==
    /\ at = "succeed"
    /\ setup' = [setup EXCEPT !.state = "succeeded"]
    /\ at' = IF setup.action = "install" THEN "fingerprint" ELSE "idle"
    /\ UNCHANGED <<parts, row, record, installer, games, touched, others,
                   setups, crashes, faults, touches>>

RecordFingerprint ==
    /\ at = "fingerprint"
    /\ record' = Fingerprint
    /\ at' = "idle"
    /\ UNCHANGED <<parts, row, setup, installer, games, touched, others,
                   setups, crashes, faults, touches>>

\* A step or a state that cannot be written ends the job where it is.
JournalRefused ==
    /\ at \in {"begin", "download", "files", "succeed"} /\ faults < MaxFaults
    /\ at' = "idle"
    /\ faults' = faults + 1
    /\ UNCHANGED <<parts, row, record, setup, installer, games, touched, others,
                   setups, crashes, touches>>

-----------------------------------------------------------------------------
(* The manager stops and starts; recovery settles a setup by the folder. *)

KillManager ==
    /\ at # "down" /\ crashes < MaxCrashes
    /\ at' = "down"
    /\ installer' = IF installer = NoInstaller THEN installer
                    ELSE [installer EXCEPT !.orphan = TRUE]
    /\ crashes' = crashes + 1
    /\ UNCHANGED <<parts, row, record, setup, games, touched, others,
                   setups, faults, touches>>

\* Startup recovery is put off while a game runs.
StartManager ==
    /\ at = "down"
    /\ at' = IF Unfinished /\ ~GameRuns THEN "recovering" ELSE "idle"
    /\ UNCHANGED <<parts, row, record, setup, installer, games, touched, others,
                   setups, crashes, faults, touches>>

\* Mutant: only a setup marked for recovery can be retried.
RetryableIfMarked == setup.state = "recovery" /\ ~GameRuns
Retryable == Unfinished /\ ~GameRuns

RetryRecovery ==
    /\ at = "idle" /\ Retryable
    /\ at' = "recovering"
    /\ UNCHANGED <<parts, row, record, setup, installer, games, touched, others,
                   setups, crashes, faults, touches>>

\* What recovery decides from the operation and what it sees.
Verdict ==
    IF setup.state = "prepared" THEN "cancelled"
    ELSE IF setup.action = "install"
         THEN IF Observed = None THEN "failed" ELSE "succeeded"
         ELSE IF Present THEN "failed" ELSE "succeeded"

RecoveredRowAsPlanned ==
    IF setup.state # "prepared" /\ Verdict = "succeeded"
    THEN RowAfter(setup.action, setup.version) ELSE row
RecoveredRow ==
    IF setup.state # "prepared" /\ Verdict = "succeeded" THEN Observed ELSE row

RecoverRow ==
    /\ at = "recovering"
    /\ row' = RecoveredRow
    /\ touched' = FALSE
    /\ at' = Verdict
    /\ UNCHANGED <<parts, record, setup, installer, games, others,
                   setups, crashes, faults, touches>>

RecoverState ==
    /\ at \in {"succeeded", "failed", "cancelled"}
    /\ setup' = [setup EXCEPT !.state = at]
    /\ at' = "idle"
    /\ UNCHANGED <<parts, row, record, installer, games, touched, others,
                   setups, crashes, faults, touches>>

\* A write of recovery is refused: the setup stays for the next try.
RecoveryRefused ==
    /\ at \in {"recovering", "succeeded", "failed", "cancelled"} /\ faults < MaxFaults
    /\ at' = "idle"
    /\ faults' = faults + 1
    /\ UNCHANGED <<parts, row, record, setup, installer, games, touched, others,
                   setups, crashes, touches>>

MarkHandled ==
    /\ at = "idle" /\ setup.state = "recovery"
    /\ setup' = [setup EXCEPT !.state = "failed"]
    /\ UNCHANGED <<parts, row, record, installer, at, games, touched, others,
                   setups, crashes, faults, touches>>

\* Someone else deletes a file of SMAPI's, or installs a release by hand.
Touch(folder) ==
    /\ touches < MaxTouches /\ folder # parts
    /\ parts' = folder
    /\ touched' = TRUE /\ others' = TRUE
    /\ touches' = touches + 1
    /\ UNCHANGED <<row, record, setup, installer, at, games, setups, crashes, faults>>

SetupStep ==
    \/ \E v \in Versions : BeginSetup("install", v)
    \/ BeginSetup("uninstall", None)
    \/ CommitSetup \/ StartInstaller \/ OrphanEnds
    \/ SaveSmapiRow \/ SetupSucceeds \/ RecordFingerprint
    \/ \E b \in BOOLEAN : Download(b) \/ InstallerReturns(b) \/ SmapiRowRefused(b)
    \/ \E p \in Parts : InstallerWrites(p)
    \/ JournalRefused
    \/ StartManager \/ RetryRecovery \/ RecoverRow \/ RecoverState \/ RecoveryRefused
    \/ MarkHandled
    \/ \E p \in Parts : Touch([parts EXCEPT ![p] = None])
    \/ installer = NoInstaller /\ \E v \in Versions : Touch(AllFrom(v))

\* The window works on; a started job is carried on and a setup that is still
\* open is looked at again; an installer ends.
SetupProgress ==
    \/ CommitSetup \/ StartInstaller \/ SaveSmapiRow \/ SetupSucceeds
    \/ RecordFingerprint \/ Download(TRUE) \/ Download(FALSE)
    \/ InstallerReturns(FALSE)
    \/ StartManager \/ RecoverRow \/ RecoverState \/ RetryRecovery

-----------------------------------------------------------------------------
\* Values are of their kind.
SetupTypeOK ==
    /\ parts \in [Parts -> Versions \union {None, Unnamed}]
    /\ row \in Versions \union {None}
    /\ record # NoRecord =>
         DOMAIN record \subseteq Fingerprinted /\ \A p \in DOMAIN record : record[p] \in Versions
    /\ setup.state \in {"none", "prepared", "committing", "recovery", "succeeded",
                        "failed", "cancelled"}
    /\ installer.todo \subseteq Parts

\* A setup that says it succeeded, live or by recovery, leaves in the database
\* the version the game folder shows, or nothing where nothing is left, as
\* long as nobody else changed the folder since the manager looked.
RowTellsTruth ==
    setup.state = "succeeded" /\ ~touched => row = Observed

\* The manager never reports as changed the files its own install wrote: what
\* an install or its interruption leaves is unrecorded, not recorded wrongly,
\* and what SMAPI rewrites by itself is no change.
AlarmIsReal == ~others => Changed = {}

\* Every setup, interrupted or not, is settled one way or the other.
SetupSettles == []<>~Unfinished
=============================================================================
