------------------------------ MODULE ModFiles ------------------------------
(* The files of one installed mod, after the install: whether they are still *)
(* what was installed (services/file_integrity.rs), and its settings files,  *)
(* which the manager backs up before it writes over them (config_backups.rs, *)
(* deployed_files.rs, shared_settings.rs, the settings parts of reinstall.rs *)
(* and restore_points.rs).  The manager's changes run one after the other;   *)
(* the game, which rewrites settings, and the player's editor do not wait.   *)
EXTENDS FiniteSets, Integers, Sequences

CONSTANTS
    Settings,         \* the paths of the mod's config.json files
    Assets,           \* the paths of its other files
    Texts,            \* what a file may hold
    Length(_),        \* the size of a file that holds it
    Missing,          \* what stands for a file that is not there
    Installed,        \* the inventory the install recorded
    Recipe,           \* the settings a shared recipe carries
    MaxKept,          \* bound: settings backups ever made
    MaxEdits,         \* bound: edits from outside
    KeepSettings      \* keep_settings_backups of the retention policy

Paths == Settings \cup Assets

ASSUME ModFilesAssumption ==
    /\ IsFiniteSet(Paths) /\ Settings \cap Assets = {}
    /\ Missing \notin Texts
    /\ Installed \in [Assets -> Texts]
    /\ Recipe \in UNION {[D -> Texts] : D \in SUBSET Settings}
    /\ KeepSettings \in Nat \ {0}

VARIABLES
    disk,      \* the files of the mod's folder
    accepted,  \* the changes the player accepted, and what was seen of the folder then
    copies,    \* the settings backups, oldest first
    point,     \* the settings backup a restore point names (0 for none), and what was there
    task,      \* the change that runs
    edits      \* how often a file was changed from outside

modFilesVars == <<disk, accepted, copies, point, task, edits>>

NoTask == [at |-> "none"]
NoChange == task = NoTask

(* read_configs: the settings files that are there, with what they hold.    *)
Configs == [f \in {g \in Settings : disk[g] # Missing} |-> disk[f]]

Holds(files, f) == IF f \in DOMAIN files THEN files[f] ELSE Missing

ModFilesInit ==
    /\ disk = [f \in Paths |-> IF f \in Assets THEN Installed[f] ELSE Missing]
    /\ accepted = [files |-> <<>>, seen |-> [f \in Paths |-> {}]]
    /\ copies = <<>>
    /\ point = [copy |-> 0, saved |-> <<>>]
    /\ task = NoTask
    /\ edits = 0

(* The game writes settings, the player changes or deletes any file.         *)
Edit(f, text) ==
    /\ edits < MaxEdits
    /\ text # disk[f]
    /\ edits' = edits + 1
    /\ disk' = [disk EXCEPT ![f] = text]
    /\ UNCHANGED <<accepted, copies, point, task>>

-----------------------------------------------------------------------------
(* check: the inventory against the folder, by contents or, quickly, by      *)
(* sizes; what was accepted and is still as it was then is told apart.       *)
Differs(f, quick) ==
    IF quick THEN Length(disk[f]) # Length(Installed[f]) ELSE disk[f] # Installed[f]

StillAccepted(f, quick) ==
    /\ f \in DOMAIN accepted.files
    /\ ~quick \/ disk[f] = Missing => accepted.files[f] = disk[f]

Check(quick) ==
    LET missing == {f \in Assets : disk[f] = Missing}
        modified == {f \in Assets \ missing : Differs(f, quick)}
        ok == {f \in missing \cup modified : StillAccepted(f, quick)}
    IN  [missing |-> missing \ ok, modified |-> modified \ ok, accepted |-> ok]

Status(check) ==
    IF check.missing \cup check.modified # {} THEN "changed"
    ELSE IF check.accepted # {} THEN "locally_modified" ELSE "unchanged"

(* accept_current checks the folder, then reads it again for the checksums   *)
(* it stores; what changes between the two reads is accepted unseen.         *)
BeginAccept ==
    /\ NoChange
    /\ LET check == Check(FALSE)
       IN  /\ Status(check) = "changed" \/ check.accepted # {}
           /\ task' = [at |-> "accept", check |-> check, then |-> disk]
    /\ UNCHANGED <<disk, accepted, copies, point, edits>>

Accept ==
    /\ task.at = "accept"
    /\ LET check == task.check
       IN  accepted' = [files |-> [f \in check.missing \cup check.modified \cup check.accepted |->
                                      IF f \in check.missing THEN Missing ELSE disk[f]],
                        seen |-> [f \in Paths |-> {task.then[f], disk[f]}]]
    /\ task' = NoTask
    /\ UNCHANGED <<disk, copies, point, edits>>

-----------------------------------------------------------------------------
(* A settings backup is a folder named by the time; its files are written    *)
(* and read back one by one, so a crash leaves a folder with some of them.   *)
CanKeep == Len(copies) < MaxKept

(* The change `what` writes `new` over the settings; `seen` is what it read  *)
(* and, when `keeping`, backs up first.                                      *)
Change(what, seen, new, keeping) ==
    /\ keeping => CanKeep
    /\ copies' = IF keeping THEN Append(copies, [files |-> <<>>, gone |-> FALSE]) ELSE copies
    /\ task' = [at |-> IF keeping THEN "keep" ELSE "write", what |-> what, seen |-> seen, since |-> edits,
                new |-> new, slot |-> IF keeping THEN Len(copies) + 1 ELSE 0,
                left |-> IF keeping THEN DOMAIN seen ELSE DOMAIN new]

(* apply: a recipe's settings, after a backup of what is there.              *)
ApplyShared ==
    /\ NoChange
    /\ DOMAIN Recipe # {}
    /\ Change("apply", Configs, Recipe, DOMAIN Configs # {})
    /\ UNCHANGED <<disk, accepted, point, edits>>

(* Mutant: only a file that the backup lacks counts as a difference.        *)
KeepsNewOnly(n) ==
    /\ NoChange
    /\ n \in DOMAIN copies /\ ~copies[n].gone
    /\ LET files == copies[n].files
       IN  Change("restore", Configs, files, \E f \in DOMAIN Configs : Holds(files, f) = Missing)
    /\ UNCHANGED <<disk, accepted, point, edits>>

(* restore_settings: a backup's files, after a backup of what they replace   *)
(* when any of it differs.                                                   *)
Kept1(n) == ~copies[n].gone
RestoreSettings(n) ==
    /\ NoChange
    /\ n \in DOMAIN copies /\ Kept1(n)
    /\ LET files == copies[n].files
       IN  Change("restore", Configs, files, \E f \in DOMAIN Configs : Holds(files, f) # Configs[f])
    /\ UNCHANGED <<disk, accepted, point, edits>>

(* capture_settings: a restore point keeps the settings, if there are any.   *)
SavePoint ==
    /\ NoChange
    /\ DOMAIN Configs # {}
    /\ Change("point", Configs, <<>>, TRUE)
    /\ UNCHANGED <<disk, accepted, point, edits>>

(* The settings part of a restore: the undo point keeps what is there, then, *)
(* when the point's backup is still kept and differs from what is there, its *)
(* files are written back; else it is told that they are no longer kept.     *)
RestoreToPoint ==
    /\ NoChange
    /\ point.copy # 0
    /\ Change("to_point", Configs, copies[point.copy].files, DOMAIN Configs # {})
    /\ UNCHANGED <<disk, accepted, point, edits>>

KeepFile(f) ==
    /\ task.at = "keep" /\ f \in task.left
    /\ copies' = [copies EXCEPT ![task.slot].files =
                     [g \in DOMAIN @ \cup {f} |-> IF g = f THEN task.seen[f] ELSE @[g]]]
    /\ LET left == task.left \ {f}
       IN  task' = IF left # {} THEN [task EXCEPT !.left = left]
                   ELSE [task EXCEPT !.at = "write", !.left = DOMAIN task.new]
    /\ UNCHANGED <<disk, accepted, point, edits>>

(* The point's settings as the restore finds them when it comes to them.     *)
SettingsGone == task.what = "to_point" /\ copies[point.copy].gone
SettingsDiffer ==
    task.what = "to_point" => \E f \in DOMAIN task.new : Holds(Configs, f) # task.new[f]

WriteSetting(f) ==
    /\ task.at = "write" /\ f \in task.left
    /\ ~SettingsGone /\ (task.left = DOMAIN task.new => SettingsDiffer)
    /\ disk' = [disk EXCEPT ![f] = task.new[f]]
    /\ task' = [task EXCEPT !.left = @ \ {f}]
    /\ UNCHANGED <<accepted, copies, point, edits>>

EndsWell == ~SettingsGone /\ (task.left = {} \/ (task.left = DOMAIN task.new /\ ~SettingsDiffer))

EndChange ==
    /\ task.at = "write"
    /\ EndsWell \/ SettingsGone
    /\ point' = IF task.what = "point" THEN [copy |-> task.slot, saved |-> task.seen] ELSE point
    /\ task' = NoTask
    /\ UNCHANGED <<disk, accepted, copies, edits>>

(* The manager dies, or a file cannot be written: what was done stays.       *)
ChangeStops ==
    /\ ~NoChange
    /\ task' = NoTask
    /\ UNCHANGED <<disk, accepted, copies, point, edits>>

(* A cleanup offers the backups beyond the newest KeepSettings of the mod,   *)
(* whether a restore point names them or not.                                *)
CleanSettings(n) ==
    /\ NoChange
    /\ n \in DOMAIN copies /\ Kept1(n)
    /\ Cardinality({m \in DOMAIN copies : Kept1(m) /\ m > n}) >= KeepSettings
    /\ copies' = [copies EXCEPT ![n] = [files |-> <<>>, gone |-> TRUE]]
    /\ UNCHANGED <<disk, accepted, point, task, edits>>

ModFilesNext ==
    \/ \E f \in Paths : \E text \in Texts \cup {Missing} : Edit(f, text)
    \/ BeginAccept \/ Accept
    \/ ApplyShared \/ SavePoint \/ RestoreToPoint
    \/ \E n \in DOMAIN copies : RestoreSettings(n) \/ CleanSettings(n)
    \/ \E f \in Settings : KeepFile(f) \/ WriteSetting(f)
    \/ EndChange
    \/ ChangeStops

ModFilesSpec == ModFilesInit /\ [][ModFilesNext]_modFilesVars

-----------------------------------------------------------------------------
(* Types.                                                                    *)
PartOf(S) == UNION {[D -> Texts \cup {Missing}] : D \in SUBSET S}
ModFilesTypeOK ==
    /\ disk \in [Paths -> Texts \cup {Missing}]
    /\ accepted.files \in PartOf(Assets) /\ accepted.seen \in [Paths -> SUBSET (Texts \cup {Missing})]
    /\ \A n \in DOMAIN copies : copies[n].files \in PartOf(Settings) /\ copies[n].gone \in BOOLEAN
    /\ point.copy \in 0 .. Len(copies) /\ point.saved \in PartOf(Settings)

(* What the check says of a folder is so: a folder shown as unchanged holds  *)
(* what was installed, and one shown as locally modified only differs where  *)
(* it holds what it held when the player accepted it (file_integrity.rs      *)
(* check, accept_current: an acceptance ends with the next change).          *)
CheckTellsTruth ==
    LET status == Status(Check(FALSE))
    IN  /\ status = "unchanged" => \A f \in Assets : disk[f] = Installed[f]
        /\ status = "locally_modified" =>
              \A f \in Assets : disk[f] \in {Installed[f]} \cup accepted.seen[f]

(* The quick check never calls a folder changed that the full check does     *)
(* not: what differs in size differs (quick_check_profile).                  *)
QuickIsSound == Status(Check(TRUE)) = "changed" => Status(Check(FALSE)) = "changed"

(* Accepting settles the mod: when no file changed between its two reads,    *)
(* the mod is shown as locally modified after it, all of its differences     *)
(* accepted.                                                                 *)
AcceptSettles ==
    [][task.at = "accept" /\ accepted' # accepted /\ disk = task.then
        => (Status(Check(FALSE)) = "locally_modified")']_modFilesVars

(* No settings are written over without a copy: what a settings file held    *)
(* when the change read it is in a kept settings backup when the change      *)
(* writes something else there (apply, restore_settings, restore_points      *)
(* back up first; only what changed after the read may be lost).             *)
OverwrittenIsKept ==
    [][\A f \in Settings :
        task.at = "write" /\ edits' = edits /\ disk'[f] # disk[f] /\ disk[f] = Holds(task.seen, f)
            => disk[f] = Missing \/ \E n \in DOMAIN copies : Holds(copies[n].files, f) = disk[f]]_modFilesVars

(* A restore to a point puts the settings back: when it ends without being   *)
(* told that they are no longer kept, and nothing else changed a file        *)
(* meanwhile, every settings file the point saved is there as it was saved   *)
(* (capture_settings, settings_differ, restore).                             *)
PointComesBack ==
    [][task.at = "write" /\ task.what = "to_point" /\ EndsWell /\ task' = NoTask
           /\ edits = task.since
        => \A f \in DOMAIN point.saved : disk[f] = point.saved[f]]_modFilesVars

(* The player's own files in a mod's folder: changes are seen, accepted once *)
(* and for good, and none is written over without a copy.                    *)
OwnFilesAreSafe ==
    [](ModFilesTypeOK /\ CheckTellsTruth /\ QuickIsSound)
    /\ AcceptSettles /\ OverwrittenIsKept /\ PointComesBack
=============================================================================
