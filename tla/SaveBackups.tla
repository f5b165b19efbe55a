---------------------------- MODULE SaveBackups -----------------------------
(* The farm saves of the game and the manager's copies of them              *)
(* (manager-infra saves.rs, services/saves.rs).  There is one save; its      *)
(* files are written by the game one after the other, so a save being        *)
(* written is a mixture of two moments.  The manager backs it up, puts a     *)
(* backup back in its place and, in a cleanup, removes old backups.  All     *)
(* three run on the changes thread, one after the other; the game does not,  *)
(* and the manager only asks whether it runs when a job begins.                  *)
EXTENDS FiniteSets, Integers, Sequences, SequencesExt

CONSTANTS
    SaveOrder,     \* the files of the save folder, in the order of their paths
    NoFile,        \* what stands for a file, a folder or a record not there
    Damaged,       \* what a damaged file, or record, holds
    MaxMoment,     \* bound: how often the game saves
    MaxBackups,    \* bound: backup folders ever begun
    MaxDeaths,    \* bound: how often the manager dies
    KeepBackups    \* keep_save_backups of the retention policy

SaveFiles == ToSet(SaveOrder)

Contents == [SaveFiles -> (0 .. MaxMoment) \cup {NoFile, Damaged}]

ASSUME SavesAssumption ==
    /\ SaveOrder \in Seq(SaveFiles) /\ Len(SaveOrder) > 0 /\ IsInjective(SaveOrder)
    /\ NoFile # Damaged /\ {NoFile, Damaged} \cap ((0 .. MaxMoment) \cup Contents) = {}
    /\ MaxMoment \in Nat /\ MaxDeaths \in Nat
    /\ KeepBackups \in Nat \ {0}

Moment(moment) == [f \in SaveFiles |-> moment]
Nothing == Moment(NoFile)

VARIABLES
    live,      \* the files of the save, NoFile when the folder is not there
    game,      \* whether the game runs, and the files it has yet to write
    newest,    \* the last moment the game saved, or is saving
    backups,   \* the backup folders, oldest first
    incoming,  \* the folder a restore fills beside the save
    copying,   \* the job on the changes thread
    deaths,    \* how often the manager has died
    removed    \* the save a restore removed last, and whether the game ran meanwhile

saveVars == <<live, game, newest, backups, incoming, copying, deaths, removed>>

NoJob == [at |-> "idle"]
Running == copying # NoJob

(* A backup: `part` until it is renamed into place, `record` the checksums  *)
(* kept with it (NoFile for the backups of older versions), `source` what   *)
(* the save held when the backup began, `raced` whether the game ran since, *)
(* `gone` when a cleanup removed it.                                        *)
Kept(b) == ~b.part /\ ~b.gone
Backup(n) == backups[n]
Gone == [files |-> Nothing, source |-> Nothing, record |-> NoFile, part |-> TRUE, raced |-> FALSE, gone |-> TRUE]
KeptBackups == {n \in DOMAIN backups : Kept(Backup(n))}

(* The files of a save by their checksums: a checksum tells contents apart. *)
Checksums(files) == files
Mismatches(expected, found) == {f \in SaveFiles : expected[f] # found[f]}

(* What the record of a backup says of it (verify_backup).                  *)
Verified(b) ==
    /\ b.record # Damaged
    /\ b.record # NoFile => Mismatches(b.record, Checksums(b.files)) = {}

SavesInit ==
    /\ live = Moment(0) /\ newest = 0
    /\ game = [on |-> FALSE, left |-> {}]
    /\ \E record \in {NoFile, Moment(0)} :
        backups = <<[files |-> Moment(0), source |-> Moment(0), record |-> record, part |-> FALSE, raced |-> FALSE, gone |-> FALSE]>>
    /\ incoming = NoFile
    /\ copying = NoJob
    /\ deaths = 0
    /\ removed = [files |-> Nothing, raced |-> TRUE]

-----------------------------------------------------------------------------
(* The game: it starts, saves at the end of a day, file after file in any    *)
(* order, and is closed between two saves.                                   *)
raced(j) == IF Running THEN [j EXCEPT !.raced = TRUE] ELSE j

StartGame ==
    /\ ~game.on
    /\ live # NoFile
    /\ game' = [game EXCEPT !.on = TRUE]
    /\ copying' = raced(copying)
    /\ UNCHANGED <<live, newest, backups, incoming, deaths, removed>>

BeginSave ==
    /\ game.on /\ game.left = {}
    /\ newest < MaxMoment
    /\ newest' = newest + 1
    /\ game' = [game EXCEPT !.left = SaveFiles]
    /\ UNCHANGED <<live, backups, incoming, copying, deaths, removed>>

WriteFile(f) ==
    /\ f \in game.left
    /\ game' = [game EXCEPT !.left = @ \ {f}]
    /\ live' = [IF live = NoFile THEN Nothing ELSE live EXCEPT ![f] = newest]
    /\ UNCHANGED <<newest, backups, incoming, copying, deaths, removed>>

CloseGame ==
    /\ game.on /\ game.left = {}
    /\ game' = [game EXCEPT !.on = FALSE]
    /\ UNCHANGED <<live, newest, backups, incoming, copying, deaths, removed>>

Spoiled(b) == b.record = Damaged \/ \E f \in SaveFiles : b.files[f] = Damaged

(* A finished backup spoils on the disk, in a file or in its record; one    *)
(* being restored may, one just made does not.                              *)
Spoil(n) ==
    /\ live # NoFile
    /\ n \in KeptBackups /\ (Running => n = copying.of)
    /\ \A m \in KeptBackups : ~Spoiled(Backup(m))
    /\ \/ \E f \in SaveFiles : backups' = [backups EXCEPT ![n].files[f] = Damaged]
       \/ Backup(n).record # NoFile /\ backups' = [backups EXCEPT ![n].record = Damaged]
    /\ UNCHANGED <<live, game, newest, incoming, copying, deaths, removed>>

-----------------------------------------------------------------------------
(* copy_to_backup: a new folder that no other has, the checksums of the      *)
(* save, the copy, the comparison, the record and the rename.  The checksums *)
(* and the copy read one file after the other.                               *)
NewCopy(j) ==
    [j EXCEPT !.at = "sums", !.slot = Len(backups) + 1, !.sums = Nothing, !.next = 1]

CanCopy == Len(backups) < MaxBackups

EmptyBackup == [Gone EXCEPT !.source = live, !.gone = FALSE]

NewJob == [at |-> "begin", for |-> "backup", of |-> 0, slot |-> 0, sums |-> Nothing, next |-> 1, raced |-> FALSE,
           recorded |-> NoFile]

(* refuse_while_playing, then the folder of the save must be there.          *)
BeginBackup ==
    /\ ~Running /\ ~game.on
    /\ live # NoFile
    /\ CanCopy
    /\ copying' = NewCopy(NewJob)
    /\ backups' = Append(backups, EmptyBackup)
    /\ UNCHANGED <<live, game, newest, incoming, deaths, removed>>

SaveFile == SaveOrder[copying.next]
LastFile == copying.next = Len(SaveOrder)

(* The job goes on to the next file, or after the last one to `then`.       *)
Onward(j, then) == [j EXCEPT !.next = IF LastFile THEN 1 ELSE @ + 1, !.at = IF LastFile THEN then ELSE @]

LiveFile(f) == IF live = NoFile THEN NoFile ELSE live[f]

SumFile ==
    /\ copying.at = "sums"
    /\ copying' = Onward([copying EXCEPT !.sums[SaveFile] = LiveFile(SaveFile)], "copy")
    /\ UNCHANGED <<live, game, newest, backups, incoming, deaths, removed>>

CopyFile ==
    /\ copying.at = "copy"
    /\ backups' = [backups EXCEPT ![copying.slot].files[SaveFile] = LiveFile(SaveFile)]
    /\ copying' = Onward(copying, "compare")
    /\ UNCHANGED <<live, game, newest, incoming, deaths, removed>>

(* The copy differs from what was read first, or the disk is full, or it     *)
(* cannot be written: the folder is removed and the job ends with the error.     *)
GiveUpCopy ==
    /\ Running /\ copying.at \in {"sums", "copy", "compare"}
    /\ copying.at = "compare" => Mismatches(copying.sums, Checksums(Backup(copying.slot).files)) # {}
    /\ backups' = [backups EXCEPT ![copying.slot] = Gone]
    /\ copying' = NoJob
    /\ UNCHANGED <<live, game, newest, incoming, deaths, removed>>

FinishCopy ==
    /\ copying.at = "compare"
    /\ Mismatches(copying.sums, Checksums(Backup(copying.slot).files)) = {}
    /\ backups' = [backups EXCEPT ![copying.slot] =
                      [@ EXCEPT !.record = copying.sums, !.part = FALSE, !.raced = copying.raced]]
    /\ copying' = IF copying.for = "backup" THEN NoJob ELSE [copying EXCEPT !.at = "clear"]
    /\ UNCHANGED <<live, game, newest, incoming, deaths, removed>>

-----------------------------------------------------------------------------
(* Mutant: a restore does not keep the save it replaces.                     *)
RestoresAtOnce(n) ==
    /\ ~Running /\ ~game.on
    /\ n \in KeptBackups
    /\ Verified(Backup(n))
    /\ copying' = [NewJob EXCEPT !.for = "restore", !.of = n, !.at = "clear",
                             !.recorded = Backup(n).record]
    /\ UNCHANGED <<live, game, newest, backups, incoming, deaths, removed>>

(* restore: the backup is checked, the live save copied to a backup, the     *)
(* backup copied beside it and compared, the save removed and the copy       *)
(* renamed into its place.                                                   *)
BeginRestore(n) ==
    /\ ~Running /\ ~game.on
    /\ n \in KeptBackups
    /\ Verified(Backup(n))
    /\ live # NoFile => CanCopy
    /\ LET begun == [NewJob EXCEPT !.for = "restore", !.of = n, !.recorded = Backup(n).record]
       IN  /\ copying' = IF live # NoFile THEN NewCopy(begun) ELSE [begun EXCEPT !.at = "clear"]
           /\ backups' = IF live # NoFile THEN Append(backups, EmptyBackup) ELSE backups
    /\ UNCHANGED <<live, game, newest, incoming, deaths, removed>>

ClearIncoming ==
    /\ copying.at = "clear"
    /\ incoming' = Nothing
    /\ copying' = [copying EXCEPT !.at = "fill", !.next = 1]
    /\ UNCHANGED <<live, game, newest, backups, deaths, removed>>

FillIncoming ==
    /\ copying.at = "fill"
    /\ incoming' = [incoming EXCEPT ![SaveFile] = Backup(copying.of).files[SaveFile]]
    /\ copying' = Onward(copying, "remove")
    /\ UNCHANGED <<live, game, newest, backups, deaths, removed>>

(* The copy beside the save is what the backup's record said when the        *)
(* restore checked it, or else what the backup holds.                        *)
Expected == IF copying.recorded = NoFile THEN Checksums(Backup(copying.of).files) ELSE copying.recorded

GiveUpRestore ==
    /\ Running /\ copying.at \in {"fill", "remove"}
    /\ copying.at = "remove" => Mismatches(Expected, Checksums(incoming)) # {}
    /\ incoming' = NoFile
    /\ copying' = NoJob
    /\ UNCHANGED <<live, game, newest, backups, deaths, removed>>

RemoveLive ==
    /\ copying.at = "remove"
    /\ Mismatches(Expected, Checksums(incoming)) = {}
    /\ live' = NoFile
    /\ removed' = IF live = NoFile THEN removed ELSE [files |-> live, raced |-> copying.raced]
    /\ copying' = [copying EXCEPT !.at = "rename"]
    /\ UNCHANGED <<game, newest, backups, incoming, deaths>>

(* The rename fails when the game wrote the folder again in between.         *)
PutInPlace ==
    /\ copying.at = "rename"
    /\ IF live = NoFile THEN live' = incoming /\ incoming' = NoFile ELSE UNCHANGED <<live, incoming>>
    /\ copying' = NoJob
    /\ UNCHANGED <<game, newest, backups, deaths, removed>>

(* The manager dies: a folder being copied keeps its `.part` name, a copy    *)
(* beside the save stays where it is.                                        *)
ManagerDies ==
    /\ Running
    /\ deaths < MaxDeaths
    /\ deaths' = deaths + 1
    /\ copying' = NoJob
    /\ UNCHANGED <<live, game, newest, backups, incoming, removed>>

-----------------------------------------------------------------------------
(* A cleanup offers every backup beyond the newest KeepBackups of the save.  *)
Rank(n) == Cardinality({m \in KeptBackups : m > n})

Cleanup(n) ==
    /\ ~Running
    /\ n \in KeptBackups
    /\ Rank(n) >= KeepBackups
    /\ backups' = [backups EXCEPT ![n] = Gone]
    /\ UNCHANGED <<live, game, newest, incoming, copying, deaths, removed>>

SavesNext ==
    \/ StartGame \/ BeginSave \/ CloseGame
    \/ \E f \in SaveFiles : WriteFile(f)
    \/ \E n \in DOMAIN backups : Spoil(n) \/ BeginRestore(n) \/ Cleanup(n)
    \/ BeginBackup
    \/ Running /\ (SumFile \/ CopyFile \/ FillIncoming)
    \/ GiveUpCopy \/ GiveUpRestore
    \/ Running /\ (FinishCopy \/ ClearIncoming \/ RemoveLive \/ PutInPlace)
    \/ ManagerDies

SavesSpec == SavesInit /\ [][SavesNext]_saveVars

-----------------------------------------------------------------------------
(* Types.                                                                    *)
SavesTypeOK ==
    /\ live \in Contents \cup {NoFile}
    /\ incoming \in Contents \cup {NoFile}
    /\ newest \in 0 .. MaxMoment
    /\ game \in [on : BOOLEAN, left : SUBSET SaveFiles]
    /\ backups \in Seq([files : Contents, source : Contents, record : Contents \cup {NoFile, Damaged},
                        part : BOOLEAN, raced : BOOLEAN, gone : BOOLEAN])
    /\ deaths \in 0 .. MaxDeaths
    /\ removed \in [files : Contents, raced : BOOLEAN]

(* A backup is the save it was made of, whole: a kept, unspoiled backup      *)
(* during whose copy the game did not run holds every file as it was when    *)
(* the backup began (copy_to_backup: a copy cut short by an error or a crash *)
(* never counts as a backup; saves.rs:5-7 for why the game must not run).    *)
BackupIsTheSave ==
    \A n \in KeptBackups :
        LET b == Backup(n)
        IN  ~b.raced => \A f \in SaveFiles : b.files[f] \in {b.source[f], Damaged}

(* What a restore puts in place is what was backed up: when the backup has a *)
(* record, the files renamed into the save's place are the ones the record   *)
(* named when it was checked, whatever happened to the backup or to the copy *)
(* since (verify_backup and the comparison of restore).                      *)
RestoresWhatWasSaved ==
    [][copying.at = "rename" /\ live = NoFile /\ live' # NoFile /\ copying' = NoJob /\ copying.recorded # NoFile
        => live' = copying.recorded]_saveVars

(* A farm is never lost to a restore, wherever the manager dies: while the   *)
(* save's folder is not there, a finished backup that passes its own check   *)
(* holds the save the restore removed, unless the game ran during the        *)
(* restore (restore keeps the live save before it removes it, and a cleanup  *)
(* never offers the newest backup).                                          *)
FarmIsNeverLost ==
    live = NoFile /\ ~removed.raced =>
        \E n \in KeptBackups : Backup(n).files = removed.files /\ Verified(Backup(n))

(* Backups are whole, and a farm comes back from them as it went in.         *)
SavesAreSafe ==
    [](SavesTypeOK /\ BackupIsTheSave /\ FarmIsNeverLost) /\ RestoresWhatWasSaved
=============================================================================
