------------------------------ MODULE MCFiles -------------------------------
(* Scenes of what lies around the profiles, one per behaviour: a farm the   *)
(* game saves while the manager backs it up and restores it; the folder of  *)
(* one mod, with two settings files, that is checked, accepted and restored;*)
(* two game folders, one also reached by a link, registered and forgotten.  *)
EXTENDS SaveBackups, ModFiles, GameShelf, TLC

CONSTANTS none, damaged, link, real, other
VARIABLE scene

MCVars == <<scene, saveVars, modFilesVars, shelfVars>>

Bytes(text) == IF text = none THEN 0 ELSE text \div 2
Inventory == [f \in Assets |-> 2]
Shared == [f \in {"config"} |-> 3]
Leads == [p \in {link, real, other} |-> IF p = other THEN other ELSE real]

Folder == <<"farm", "info">>

MCInit ==
    /\ SavesInit /\ ModFilesInit /\ ShelfInit
    /\ scene \in {"saves", "mod", "games"}
    /\ scene # "saves" => backups[1].record = NoFile
    /\ scene # "games" => folder = [p \in {real, other} |-> "fresh"]
MCNext ==
    /\ UNCHANGED scene
    /\ \/ scene = "saves" /\ SavesNext /\ UNCHANGED <<modFilesVars, shelfVars>>
       \/ scene = "mod" /\ ModFilesNext /\ UNCHANGED <<saveVars, shelfVars>>
       \/ scene = "games" /\ ShelfStep /\ UNCHANGED <<saveVars, modFilesVars>>
MCSpec == MCInit /\ [][MCNext]_MCVars
=============================================================================
