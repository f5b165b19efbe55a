----------------------------- MODULE MCLibrary -----------------------------
(* Scenes of what the manager keeps. The data folder: one profile of two    *)
(* mods, and a second id for what is made from it; one program carries out  *)
(* three commands, or two programs one each. The installers: SMAPI's list   *)
(* of three releases, whatever it says of them, and three setups.           *)
EXTENDS ProfileLibrary, Installers, TLC

CONSTANTS a, b, p, q, mx, my, none, bad, alt
VARIABLE scene

MCVars == <<scene, libraryVars, installersVars>>

Of(pre, sum, least, most) == [pre |-> pre, sum |-> sum, least |-> least, most |-> most]
SmapiSays ==
    {<<Of(FALSE, TRUE, 10, none), Of(pre, FALSE, least, 21), Of(FALSE, sum, 20, none)>> :
        pre \in BOOLEAN, sum \in BOOLEAN, least \in {none, 12}}

LibraryScene ==
    /\ LibraryInit /\ used = {p}
    /\ \/ awake = {a} /\ jobs = 0
       \/ awake = {a, b} /\ jobs = 1
    /\ rows[p].off \subseteq {my} /\ points[p] \in {{}, {mx}} /\ folders[p].undo \subseteq {my}
    /\ frozen = {p} => folders[p].undo = {} /\ awake = {a}

InstallersScene ==
    /\ InstallersInit
    /\ \/ setups = MaxSetups /\ refreshes = 0 /\ ~world[3].sum /\ smapi \in {none, 2}
       \/ setups = 0 /\ refreshes = MaxRefreshes /\ list = Releases /\ gameVersion = 22
          /\ world[2].least = 12 /\ ~world[2].pre

MCInit ==
    \/ /\ scene = "library" /\ LibraryScene
       /\ InstallersInit /\ world = CHOOSE w \in Worlds : TRUE
       /\ gameVersion = none /\ list = {} /\ ranges = {} /\ smapi = none
       /\ refreshes = MaxRefreshes /\ setups = MaxSetups
    \/ /\ scene = "installers" /\ InstallersScene
       /\ LibraryScene /\ awake = {a} /\ rows[p].off = {} /\ points[p] = {}
       /\ folders[p].undo = {} /\ frozen = {}
MCNext ==
    /\ UNCHANGED scene
    /\ \/ scene = "library" /\ LibraryNext /\ UNCHANGED installersVars
       \/ scene = "installers" /\ InstallersNext /\ UNCHANGED libraryVars
MCSpec == MCInit /\ [][MCNext]_MCVars
=============================================================================
