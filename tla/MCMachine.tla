----------------------------- MODULE MCMachine ------------------------------
(* Scenes of the manager and the machine it runs on, one per behaviour: an  *)
(* archive that is extracted, touched and verified; a Mods folder that is   *)
(* scanned, edited and adopted; games and other processes that come and go  *)
(* under two process numbers; and a database of an older release that two   *)
(* programs open, or one that finds a change the older release left behind. *)
EXTENDS Archives, ModsFolder, GameProcesses, Upgrade, TLC

VARIABLE scene

MCVars == <<scene, archiveVars, adoptionVars, processVars, upgradeVars>>

-----------------------------------------------------------------------------
(* Archives: up to four of the entries below. *)

MCKey == [n \in {"Mod", "mod", "Sub", "man", "MAN", "x", "dll", "new"} |->
            CASE n = "mod" -> "Mod" [] n = "MAN" -> "man" [] OTHER -> n]
File(p, s, h) == [path |-> p, dir |-> FALSE, link |-> FALSE, fits |-> TRUE,
                  says |-> s, holds |-> h, sound |-> TRUE, dll |-> NoDll]
Plain(p) == File(p, 1, 1)
Entries == {
    [Plain(<<"Mod", "man">>) EXCEPT !.dll = "dll"], Plain(<<"Mod", "dll">>), Plain(<<"Mod", "Sub", "man">>),
    Plain(<<"Sub", "man">>), File(<<"Mod", "x">>, 1, 3), Plain(<<"mod", "Sub", "x">>),
    [Plain(<<"x">>) EXCEPT !.sound = FALSE], [Plain(<<"Mod", "Sub">>) EXCEPT !.dir = TRUE, !.says = 0],
    Plain(<<"man">>), [Plain(<<"Sub", "MAN">>) EXCEPT !.dir = TRUE], [Plain(<<"Sub", "x">>) EXCEPT !.link = TRUE],
    [Plain(<<"Sub", "x">>) EXCEPT !.fits = FALSE], Plain(<<"Mod", "Sub", "x">>),
    Plain(<<"Mod", "Sub", "Sub", "x">>), Plain(<<"dll">>)}
MCChosen == {s \in SUBSET Entries : Cardinality(s) \in 1..4}

-----------------------------------------------------------------------------
(* Mods folders: A holds a mod, a pack or something odd; .B is turned off. *)

Node(p, s, b) == [path |-> p, size |-> s, body |-> b, link |-> FALSE, uid |-> NoId, text |-> "none"]
Says(p, u, t) == [Node(p, 1, u) EXCEPT !.uid = u, !.text = t]
Simple == {Says(<<"man">>, "X", "utf8"), Node(<<"x">>, 1, "one"), Node(<<"config">>, 1, "mine")}
InA == Says(<<"A", "man">>, "X", "utf8")
MCFolders == [f \in {"A", ".B"} |->
    IF f = "A"
    THEN {Simple, Simple \union {Says(<<"MAN">>, "Y", "utf8")},
          {InA, Says(<<".off", "man">>, "Y", "utf8"), Node(<<"A", "x">>, 1, "one")},
          {InA, Says(<<"B", "man">>, "Z", "latin"), Node(<<"A", "x">>, 1, "two"), Node(<<"B", "C", "x">>, 1, "deep")},
          {InA, Node(<<"A", "x">>, 1, "one"), [Node(<<"A", "y">>, 1, "far") EXCEPT !.link = TRUE]}}
    ELSE {{Says(<<"man">>, "Y", "utf8"), Node(<<"x">>, 1, "one")},
          {InA, Says(<<"B", "man">>, "Y", "utf8")}, {Node(<<"x">>, 1, "one")}, {Says(<<"man">>, "Z", "latin")}}]
MCChanges == {Node(<<"x">>, 1, "two"), Node(<<"x">>, 2, "three"), Says(<<"man">>, "Z", "utf8"),
              Says(<<".off", "man">>, "Y", "utf8")}
MCStored == [u \in {"X", "Y"} |->
    IF u = "X" THEN [same |-> TRUE, files |-> {Says(<<"P", "man">>, "X", "utf8"), Node(<<"P", "x">>, 1, "one")}]
    ELSE [same |-> FALSE, files |-> {}]]

-----------------------------------------------------------------------------
(* Other processes: one that looks like the game, and one that does not. *)

MCOthers == {[image |-> "namesake", readable |-> TRUE], [image |-> "namesake", readable |-> FALSE],
             [image |-> "other", readable |-> TRUE]}

-----------------------------------------------------------------------------
(* Components: C may be described by two rows. *)

MCOldRows == [c \in {"C", "D"} |-> IF c = "C" THEN {{1}, {1, 2}} ELSE {{3}}]
MCUsers == [u \in {"u1", "u2", "u3"} |-> IF u = "u3" THEN "D" ELSE "C"]
MCCanonical == [c \in {"C", "D"} |-> IF c = "C" THEN 11 ELSE 12]

-----------------------------------------------------------------------------

(* The state the other scenes stay in. *)
QuietArchives ==
    /\ archive = {Plain(<<"man">>)} /\ packed = 0 /\ folds = TRUE
    /\ phase = "chosen" /\ left = archive
    /\ tree = {} /\ inventory = {} /\ outside = {} /\ disturbed = 0
QuietUpgrade ==
    /\ version = 2 /\ rowIds = "old" /\ stops = 0 /\ op = NoOp
    /\ at = [p \in Programs |-> Down]
    /\ journal = [p \in Profiles |-> "none"] /\ folders = [p \in Profiles |-> {}]
    /\ table = {<<1, "C">>, <<3, "D">>} /\ uses = [u \in DOMAIN Users |-> IF Users[u] = "C" THEN 1 ELSE 3]
    /\ copies = [live |-> FALSE, old |-> FALSE, new |-> FALSE]
    /\ rows = [mod |-> FALSE, deployment |-> "none"]

MCInit ==
    /\ scene \in {"archive", "mods folder", "processes", "upgrade", "left behind"}
    /\ IF scene = "archive" THEN ArchivesInit ELSE QuietArchives
    /\ AdoptionInit
    /\ LET plain == live["A"] = Simple
           loose == live[".B"] = {Node(<<"x">>, 1, "one")}
       IN IF scene = "mods folder" THEN plain \/ loose ELSE plain /\ loose
    /\ GameProcessesInit
    /\ scene # "processes" => platform = CHOOSE p \in Platforms : TRUE
    /\ IF scene \in {"upgrade", "left behind"} THEN UpgradeInit ELSE QuietUpgrade
    /\ scene = "upgrade" => op = NoOp
    /\ scene = "left behind" => \E p \in Programs : at[p].part = "unused"
MCNext ==
    /\ UNCHANGED scene
    /\ \/ scene = "archive" /\ ArchivesNext /\ UNCHANGED <<adoptionVars, processVars, upgradeVars>>
       \/ scene = "mods folder" /\ AdoptionNext /\ UNCHANGED <<archiveVars, processVars, upgradeVars>>
       \/ /\ scene = "processes" /\ GameProcessesNext /\ UNCHANGED <<archiveVars, adoptionVars, upgradeVars>>
          /\ procs = <<>> /\ procs' # <<>> => procs'[1].pid = 1
          /\ platform \in {"unpinned", "macos"} => restarts' = 0
       \/ /\ scene \in {"upgrade", "left behind"} /\ UpgradeNext
          /\ scene = "left behind" => stops' <= 1
          /\ UNCHANGED <<archiveVars, adoptionVars, processVars>>
MCSpec == MCInit /\ [][MCNext]_MCVars
=============================================================================
