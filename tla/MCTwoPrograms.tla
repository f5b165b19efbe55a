---------------------------- MODULE MCTwoPrograms ----------------------------
(* An app window and a command line on one data folder, a behaviour being   *)
(* about one of two things. "change": each installs the same package into   *)
(* one folder and removes it, with a kill or a failed call, and with the    *)
(* user's hands unless both install. "mods": two packages, one with two     *)
(* mods; a mod of each has the same UniqueID. The window turns one mod on   *)
(* or off, or moves a stranger aside; command lines change several. A       *)
(* behaviour is then about two of these requests and one kind of trouble: a *)
(* killed program, a failed call, a preview left open, or a stranger's copy *)
(* (with a kill).                                                           *)
EXTENDS ChangeProperties, Toggle, TLC

CONSTANTS i1, i2, r1, r2, p1, w, cli,
          one, aside1, many, again, pack, single, a, b, c, x, y

VARIABLE scene

MCInstalls  == {i1, i2}
MCRemovals  == {r1, r2}
MCPackages  == {p1}
MCProcesses == {w, cli}
MCPackageOf == [i \in MCInstalls |-> p1]
MCOwnerOf   == i1 :> w @@ i2 :> cli @@ r1 :> w @@ r2 :> cli

MCProgramOf == [t \in Tasks |-> IF t \in {many, again} THEN cli ELSE w]
MCKindOf == [t \in Tasks |-> IF t = one THEN "one"
                             ELSE IF t = aside1 THEN "aside" ELSE "many"]
MCFolderOf == [m \in {a, b, c} |-> IF m = c THEN single ELSE pack]
MCIdOf == [m \in {a, b, c} |-> IF m = b THEN y ELSE x]

Change == [about |-> "change"]
Mods ==
    [about : {"mods"}, tasks : {{one, many}, {many, again}},
     trouble : {"kill", "fault", "preview"}]
    \union [about : {"mods"}, tasks : {{aside1, many}}, trouble : {"stranger"}]
Asks == [t \in Tasks |-> IF t = many THEN {{pack, single}}
                         ELSE IF t = one THEN {{pack}, {single}} ELSE {{pack}}]

ChangeStep ==
    /\ scene = Change
    /\ Next
    /\ crashes' + faults' <= 1
    /\ tampers' = 0 \/ opState'[i2] = "New"
    /\ UNCHANGED toggleVars

ToggleStep ==
    /\ scene # Change
    /\ ToggleNext
    /\ \A t \in Tasks : /\ at[t] = "idle" /\ at'[t] # "idle"
                        => t \in scene.tasks /\ req'[t].folders \in Asks[t]
    /\ scene.trouble \notin {"kill", "stranger"} => kills' = 0
    /\ scene.trouble # "fault" => failures' = 0
    /\ scene.trouble # "preview" => preview' = NoPreview
    /\ scene.trouble # "stranger" => strays' = 0
    /\ mods[single] # "stray" /\ disabled[single] # "stray"
    /\ UNCHANGED vars

MCInit ==
    /\ Init
    /\ ToggleInit
    /\ scene \in {Change} \union Mods
    /\ scene = Change => enabled = [m \in Components |-> m # c]
MCNext == (ChangeStep \/ ToggleStep) /\ UNCHANGED scene
MCSpec == MCInit /\ [][MCNext]_<<vars, toggleVars, scene>>
=============================================================================
