------------------------------ MODULE Sessions ------------------------------
(* Starting the game and following it (services/launch.rs, launcher,        *)
(* log_reader, known_good.rs), together with SMAPI's setup, which it must   *)
(* not meet in the game folder. Only the window launches and polls, one job *)
(* at a time; another program may change the profile's mods in between.     *)
EXTENDS SmapiSetup

CONSTANTS
    Mods,        \* the profile's mods
    NoGood,      \* no working setup is recorded
    MaxSessions, MaxChanges, MaxOutside   \* bounds

VARIABLES
    enabled,     \* the profile's mods that are on
    sessions,    \* launch_sessions, in order
    seen,        \* sessions this run of the manager saw alive
    owned,       \* processes this run of the manager started
    log,         \* SMAPI-latest.txt
    good,        \* the last working setup: the mods it lists as on
    launches, changes, outside

sessionVars == <<enabled, sessions, seen, owned, log, good, launches, changes, outside>>
gameVars == <<setupVars, sessionVars>>

\* The newest row of the profile's.
Latest == Len(sessions)
Nobody == MaxSessions + 1
NoLog == [by |-> Nobody, after |-> 0, clear |-> FALSE, listed |-> FALSE,
          loaded |-> {}, skipped |-> FALSE]
States == {"starting", "running", "confirmed", "exited", "failed",
           "unavailable", "interrupted"}

\* A row of launch_sessions; one in no known state or mode is not read at all.
SessionRows ==
    [mode : {"modded", "vanilla"}, state : States, ended : BOOLEAN, known : BOOLEAN,
     mods : SUBSET Mods, baseline : BOOLEAN, matched : BOOLEAN,
     outcome : {"none", "wrong", "unavailable", "partial", "confirmed"}]

\* Saving a session again leaves what it was started as, and with, alone.
Saved(n, s) ==
    [sessions EXCEPT ![n] = [s EXCEPT !.mode = sessions[n].mode, !.mods = sessions[n].mods]]

SessionsInit ==
    /\ SetupInit
    /\ enabled \in SUBSET Mods
    /\ sessions = <<>> /\ seen = {} /\ owned = {}
    /\ log = NoLog
    /\ good = NoGood
    /\ launches \in 0..MaxSessions /\ changes \in {0, MaxChanges}
    /\ outside \in {0, MaxOutside}

\* identify_recorded by pid and creation time; a session whose process was
\* never recorded counts as gone.
AliveIfOwned(n) == sessions[n].known /\ n \in owned
Alive(n) == sessions[n].known /\ n \in games

-----------------------------------------------------------------------------
(* Launching. *)

\* get_launch_preflight, and the checks before it.
MayLaunch(mode) ==
    /\ ~Unfinished
    /\ ~GameRuns
    /\ mode = "modded" => row # None /\ parts["launcher"] # None
    /\ Latest > 0 =>
         ~(sessions[Latest].state \in {"starting", "running", "confirmed"} /\ Alive(Latest))

\* The session is saved before its process exists. The log's state may not be
\* readable, which leaves no baseline to verify against.
Launch(mode, baseline) ==
    /\ at = "idle" /\ launches < MaxSessions
    /\ MayLaunch(mode)
    /\ mode = "vanilla" => ~baseline
    /\ sessions' = Append(sessions,
         [mode |-> mode, state |-> "starting", ended |-> FALSE, known |-> FALSE,
          mods |-> IF mode = "modded" THEN enabled ELSE {},
          baseline |-> baseline, matched |-> FALSE, outcome |-> "none"])
    /\ launches' = launches + 1
    /\ at' = "spawn"
    /\ UNCHANGED <<parts, row, record, setup, installer, games, touched, others, setups,
                   crashes, faults, touches, enabled, seen, owned, log, good, changes, outside>>

Spawn ==
    /\ at = "spawn"
    /\ games' = games \union {Latest}
    /\ owned' = owned \union {Latest}
    /\ seen' = seen \union {Latest}
    /\ at' = "spawned"
    /\ UNCHANGED <<parts, row, record, setup, installer, touched, others, setups, crashes,
                   faults, touches, enabled, sessions, log, good, launches, changes, outside>>

\* A launch that cannot start ends its session; that save may be lost.
SpawnFails(saved) ==
    /\ at = "spawn"
    /\ ~saved => faults < MaxFaults
    /\ sessions' = IF saved THEN Saved(Latest, [sessions[Latest] EXCEPT
                                                  !.state = "failed", !.ended = TRUE])
                   ELSE sessions
    /\ faults' = IF saved THEN faults ELSE faults + 1
    /\ at' = "idle"
    /\ UNCHANGED <<parts, row, record, setup, installer, games, touched, others, setups,
                   crashes, touches, enabled, seen, owned, log, good, launches, changes, outside>>

SaveIdentity(saved) ==
    /\ at = "spawned"
    /\ ~saved => faults < MaxFaults
    /\ sessions' =
         IF ~saved THEN sessions
         ELSE Saved(Latest, [sessions[Latest] EXCEPT
                 !.known = TRUE,
                 !.state = IF sessions[Latest].baseline \/ sessions[Latest].mode = "vanilla"
                           THEN "running" ELSE "unavailable"])
    /\ faults' = IF saved THEN faults ELSE faults + 1
    /\ at' = "idle"
    /\ UNCHANGED <<parts, row, record, setup, installer, games, touched, others, setups,
                   crashes, touches, enabled, seen, owned, log, good, launches, changes, outside>>

-----------------------------------------------------------------------------
(* Following the session: poll_session for the latest one. *)

\* verify_session. A game started later from outside writes over the log and
\* still matches by its time; its Mods folder tells it apart when it is shown.
Matched(n) == sessions[n].baseline /\ log # NoLog /\ log.after >= n
ExpectedMods(n) == sessions[n].mods \intersect enabled
OutcomeAnyFolder(n) ==
    IF ~log.listed THEN "none"
    ELSE IF log.skipped \/ ~(ExpectedMods(n) \subseteq log.loaded) THEN "partial"
    ELSE "confirmed"

Outcome(n) ==
    IF log.clear /\ log.by # n THEN "wrong"
    ELSE IF ~log.listed THEN "none"
    ELSE IF ~log.clear THEN "unavailable"
    ELSE IF log.skipped \/ ~(ExpectedMods(n) \subseteq log.loaded) THEN "partial"
    ELSE "confirmed"

\* The session after the log was read.
Read(n) ==
    IF ~Matched(n) THEN sessions[n]
    ELSE [sessions[n] EXCEPT
            !.state = IF Outcome(n) = "confirmed" THEN "confirmed"
                      ELSE IF Outcome(n) = "unavailable" /\ @ # "confirmed"
                      THEN "unavailable" ELSE @,
            !.matched = TRUE,
            !.outcome = Outcome(n)]

\* ended_state.
EndedState(s) ==
    IF s.mode = "vanilla" \/ s.state = "confirmed" THEN "exited"
    ELSE IF s.outcome \in {"confirmed", "partial"} THEN "exited"
    ELSE IF s.outcome = "unavailable" THEN "unavailable"
    ELSE IF s.outcome = "wrong" \/ s.matched THEN "failed"
    ELSE IF s.state = "unavailable" THEN "unavailable"
    ELSE "failed"

\* Gone unseen, gone before the window's eyes, or still there (and perhaps
\* past the verification timeout).
Followed(n, s, timeout) ==
    IF ~Alive(n) /\ n \notin seen THEN [s EXCEPT !.state = "interrupted"]
    ELSE IF ~Alive(n) THEN [s EXCEPT !.ended = TRUE, !.state = EndedState(s)]
    ELSE IF s.state \notin {"confirmed", "unavailable"} /\ s.mode # "vanilla"
            /\ s.outcome = "none" /\ timeout
    THEN [s EXCEPT !.state = "unavailable"]
    ELSE s

Open(s) == s.state \notin {"exited", "failed", "interrupted"} /\ ~s.ended

\* A confirmed modded session records the profile as it is now.
Poll(timeout) ==
    /\ at = "idle" /\ Latest > 0 /\ Open(sessions[Latest])
    /\ seen' = IF Alive(Latest) THEN seen \union {Latest} ELSE seen
    /\ LET s == Read(Latest) IN
       /\ good' = IF s.state = "confirmed" /\ s.mode = "modded" THEN enabled ELSE good
       /\ sessions' = Saved(Latest, Followed(Latest, s, timeout))
    /\ UNCHANGED <<setupVars, enabled, owned, log, launches, changes, outside>>

\* Only a process this run started can be stopped. A session without a
\* recorded process stops every one of them.
Terminate ==
    /\ at = "idle" /\ Latest > 0
    /\ LET stopped == IF sessions[Latest].known THEN {Latest} \intersect owned ELSE owned IN
       /\ stopped # {}
       /\ games' = games \ stopped
       /\ owned' = owned \ stopped
    /\ UNCHANGED <<parts, row, record, setup, installer, at, touched, others, setups,
                   crashes, faults, touches, enabled, sessions, seen, log, good, launches, changes,
                   outside>>

-----------------------------------------------------------------------------
(* The game, the player and other programs. *)

Reaped(g) == owned \ {g}

GameExits(g) ==
    /\ g \in games
    /\ games' = games \ {g}
    /\ owned' = Reaped(g)
    /\ UNCHANGED <<parts, row, record, setup, installer, at, touched, others, setups,
                   crashes, faults, touches, enabled, sessions, seen, log, good, launches, changes,
                   outside>>

StartOutside ==
    /\ outside < MaxOutside /\ 0 \notin games
    /\ games' = games \union {0}
    /\ outside' = outside + 1
    /\ UNCHANGED <<parts, row, record, setup, installer, at, touched, others, setups,
                   crashes, faults, touches, enabled, sessions, seen, owned, log, good,
                   launches, changes>>

\* SMAPI starts a new log, which may hide the Mods folder's name; the first
\* time after the game was updated it rewrites its deps.json (a bound: looked
\* at while there is a record it could spoil).
SmapiStarts(g, clear, updated) ==
    /\ g \in games
    /\ g > 0 => sessions[g].mode = "modded" /\ log.by # g
    /\ log' = [NoLog EXCEPT !.by = g, !.after = Latest, !.clear = clear]
    /\ IF updated
       THEN /\ record # NoRecord /\ parts["dll"] # None
            /\ parts' = [parts EXCEPT !["deps"] = Unnamed]
       ELSE UNCHANGED parts
    /\ UNCHANGED <<row, record, setup, installer, at, games, touched, others, setups, crashes,
                   faults, touches, enabled, sessions, seen, owned, good, launches, changes, outside>>

\* It lists what it loaded, and names what it skipped, or neither.
SmapiLists(loaded, skipped) ==
    /\ log.by \in games /\ ~log.listed
    /\ loaded \subseteq IF log.by = 0 THEN {} ELSE enabled
    /\ skipped => log.by # 0 /\ loaded # enabled
    /\ log' = [log EXCEPT !.listed = TRUE, !.loaded = loaded, !.skipped = skipped]
    /\ UNCHANGED <<setupVars, enabled, sessions, seen, owned, good, launches, changes, outside>>

\* A mod is turned on or off by another program or from the window; not while
\* a game runs or the window holds the lock.
ChangeMods(m) ==
    /\ changes < MaxChanges /\ LockFree /\ ~GameRuns
    /\ enabled' = IF m \in enabled THEN enabled \ {m} ELSE enabled \union {m}
    /\ changes' = changes + 1
    /\ UNCHANGED <<setupVars, sessions, seen, owned, log, good, launches, outside>>

\* What the manager kept in memory goes with it.
Kill ==
    /\ KillManager
    /\ seen' = {} /\ owned' = {}
    /\ UNCHANGED <<enabled, sessions, log, good, launches, changes, outside>>

GameStep ==
    \/ SetupStep /\ UNCHANGED sessionVars
    \/ Kill
    \/ \E mode \in {"modded", "vanilla"}, b \in BOOLEAN : Launch(mode, b)
    \/ Spawn
    \/ \E b \in BOOLEAN : SpawnFails(b) \/ SaveIdentity(b) \/ Poll(b)
    \/ Terminate
    \/ \E g \in games : GameExits(g) \/ \E b, c \in BOOLEAN : SmapiStarts(g, b, c)
    \/ StartOutside
    \/ \E loaded \in SUBSET Mods, b \in BOOLEAN : SmapiLists(loaded, b)
    \/ \E m \in Mods : ChangeMods(m)

\* A started job is carried on, the page that shows the session polls it, and
\* the player closes the game at some time.
GameFairness ==
    /\ WF_gameVars(SetupProgress /\ UNCHANGED sessionVars)
    /\ WF_gameVars(RetryRecovery /\ UNCHANGED sessionVars)
    /\ WF_gameVars(Spawn \/ SaveIdentity(TRUE))
    /\ SF_gameVars(Poll(FALSE))
    /\ \A g \in 0..MaxSessions : WF_gameVars(GameExits(g))

GameSpec == SessionsInit /\ [][GameStep]_gameVars
FairGameSpec == GameSpec /\ GameFairness

-----------------------------------------------------------------------------
Ended(s) == s.state \in {"exited", "failed", "interrupted"} \/ s.ended

\* Values are of their kind.
GameTypeOK ==
    /\ SetupTypeOK
    /\ at \in {"idle", "down", "begin", "download", "files", "installing", "persist",
               "succeed", "fingerprint", "recovering", "succeeded", "failed", "cancelled",
               "spawn", "spawned"}
    /\ games \subseteq 0..Latest /\ owned \subseteq games /\ seen \subseteq 1..Latest
    /\ enabled \subseteq Mods /\ good \in (SUBSET Mods) \union {NoGood}
    /\ \A n \in 1..Latest : sessions[n] \in SessionRows

\* The manager never has two games of its own running, across its restarts.
OneGame == Cardinality(games \ {0}) <= 1

\* No game is started in a folder whose setup is not settled: a launch waits
\* for the recovery of a setup that was interrupted.
LaunchedOnSettled ==
    [][Latest' > Latest => ~Unfinished /\ (installer = NoInstaller \/ installer.orphan)]_gameVars

\* A session that ended keeps the verdict it ended with.
VerdictStays ==
    [][\A n \in 1..Latest : Ended(sessions[n]) => sessions'[n] = sessions[n]]_gameVars

\* A session whose process was recorded is not ended while that process runs,
\* whichever run of the manager looks.
EndedMeansGone ==
    \A n \in 1..Latest : sessions[n].known /\ Ended(sessions[n]) => n \notin games

\* Only its own log confirms a session, never that of a game started later
\* from outside, and never with an expected mod left out.
ConfirmedByItsLog ==
    [][\A n \in 1..Latest :
         sessions[n].state # "confirmed" /\ sessions'[n].state = "confirmed"
           => log.by = n /\ ExpectedMods(n) \subseteq log.loaded]_gameVars

\* Once confirmed, a session is never called unverified or failed again.
ConfirmedStays ==
    [][\A n \in 1..Latest :
         sessions[n].state = "confirmed"
           => sessions'[n].state \in {"confirmed", "exited", "interrupted"}]_gameVars

\* The latest session gets its verdict once its game is gone.
SessionsEnd ==
    \A n \in 1..MaxSessions :
       (n <= Latest) ~> (n < Latest \/ (n = Latest /\ Ended(sessions[n])))

\* What the manager believes of SMAPI is what is in the game folder, and no
\* game is started where that is not settled.
SetupTellsTruth == [](GameTypeOK /\ RowTellsTruth /\ AlarmIsReal) /\ LaunchedOnSettled

\* A game that runs is known to run, one at a time, and the verdict on its
\* session is its own and stands.
GamesAreKnown ==
    /\ [](OneGame /\ EndedMeansGone)
    /\ VerdictStays /\ ConfirmedByItsLog /\ ConfirmedStays

\* Every setup is settled, and a game that is gone is known to be gone.
GameSettles == SetupSettles /\ SessionsEnd
=============================================================================
