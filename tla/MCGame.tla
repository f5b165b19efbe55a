------------------------------- MODULE MCGame -------------------------------
(* One profile of two mods, two SMAPI releases, and a window that is killed  *)
(* once. Setups and sessions meet in one game folder.                       *)
EXTENDS Sessions, TLC

CONSTANTS v1, v2, m1, m2

NoTouch == touches = MaxTouches
NoFault == faults = MaxFaults
InPlace == NoTouch /\ parts = AllFrom(v1) /\ row = v1 /\ record = NoRecord
NoChange == changes = MaxChanges /\ enabled = {}
NoOutside == outside = MaxOutside

\* What meets what: a setup and a game from outside; a setup and others' hands
\* on the files; a setup, a refused write and a launch; one session and
\* all that can happen to it; two sessions.
Setting(what) ==
    CASE what = "setup" ->
           setups = 0 /\ outside = 0 /\ NoFault /\ NoTouch /\ NoChange
           /\ launches = MaxSessions
      [] what = "touched" ->
           setups = 0 /\ touches = 0 /\ NoFault /\ NoOutside /\ NoChange
           /\ launches = MaxSessions
      [] what = "launch" ->
           InPlace /\ setups = 0 /\ faults = 0 /\ NoChange /\ NoOutside
           /\ launches = MaxSessions - 1
      [] what = "session" ->
           InPlace /\ setups = MaxSetups /\ faults = 0 /\ changes = 0 /\ outside = 0
           /\ launches = MaxSessions - 1
      [] what = "sessions" ->
           InPlace /\ setups = MaxSetups /\ NoFault /\ changes = MaxChanges /\ enabled = {m1} /\ NoOutside
           /\ launches = 0

MCInit == SessionsInit /\ \E what \in {"setup", "touched", "launch", "session", "sessions"} : Setting(what)
MCSpec == MCInit /\ [][GameStep]_gameVars /\ GameFairness
=============================================================================
