----------------------------- MODULE MCPrograms -----------------------------
(* Two components in one instance, a behaviour being about one of them.     *)
(* "programs": two windows on one data folder and a command line, where the *)
(* first window has two commands at once, an install on a profile and a     *)
(* SMAPI setup, which locks first and reads the profile while it writes the *)
(* game. "jobs": one window, its presses and reads. "place": its moves.     *)
EXTENDS Coordination, WindowJobs

CONSTANTS w, v, cli, install, setup, toggle, profile, game

VARIABLE focus

MCProcesses == {w, v, cli}
MCWindows == {w, v}
MCCommands == {install, setup, toggle}
MCResources == {profile, game}
MCProcessOf == [c \in MCCommands |-> IF c = toggle THEN cli ELSE w]
MCClaimOf == [c \in MCCommands |-> [r \in MCResources |->
                IF r = game THEN IF c = setup THEN "write" ELSE "none"
                ELSE IF c = setup THEN "read" ELSE "write"]]

AllVars == <<vars, jobsVars, focus>>

MCInit ==
    /\ focus \in {"programs", "jobs", "place"}
    /\ Init
    /\ JobsInit

(* The fairness of the two components, each for the behaviours about it. *)
MCNext ==
    /\ UNCHANGED focus
    /\ \/ focus = "programs" /\ Next /\ UNCHANGED jobsVars
       \/ focus = "jobs" /\ FrontNext /\ UNCHANGED vars
       \/ focus = "place" /\ PlaceNext /\ UNCHANGED vars

MCFairness ==
    \/ focus = "programs" /\ CoordinationFairness
    \/ focus # "programs" /\ JobsFairness

MCSpec == MCInit /\ [][MCNext]_AllVars /\ MCFairness

(* Nobody waits for ever: the lock comes free, and every job is answered.   *)
NothingHangs == LockComesFree /\ EveryJobAnswered
=============================================================================
