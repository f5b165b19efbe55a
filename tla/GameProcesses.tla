--------------------------- MODULE GameProcesses ---------------------------
(* The processes behind the launches: what the manager keeps of a game it   *)
(* started, what it can still say of it after a restart, and how it stops   *)
(* it, on systems that hand a number out again to another process           *)
(*   platform/process.rs, posix/process_backend.rs,                         *)
(*   windows/process_backend.rs, windows/win32.rs, launcher/mod.rs.         *)
(* "unpinned" is a Linux whose kernel has no pidfd. Sessions' processes are *)
(* never taken for one another; here they can be.                           *)
EXTENDS Naturals, Sequences, FiniteSets, SequencesExt

CONSTANTS
    Pids, Codes, NoCode,
    ExitCodesKept,
    Others,            \* processes that come and go besides: image, and whether it can be read
    MaxOurs, MaxOthers, MaxRestarts    \* bounds

VARIABLES
    platform,
    procs,      \* every process there was; its place in the order is its creation time
    tracked,    \* processes this run of the manager started
    exits,      \* their exit codes, by number, newest last
    reapers,    \* the thread that waits for each
    latest,     \* the latest session, as recorded
    stopping,   \* a stop at work
    strays,     \* processes a signal reached that was meant for another
    restarts

processVars == <<platform, procs, tracked, exits, reapers, latest, stopping, strays, restarts>>

Platforms == {"linux", "unpinned", "macos", "windows"}
Posix == platform # "windows"
GameImages == {"game", "smapi"}
NoSession == [inc |-> 0]
NotStopping == [at |-> "idle"]

GameProcessesInit ==
    /\ platform \in Platforms
    /\ procs = <<>> /\ tracked = <<>> /\ exits = <<>> /\ reapers = <<>>
    /\ latest = NoSession /\ stopping = NotStopping
    /\ strays = {} /\ restarts = 0

-----------------------------------------------------------------------------
\* The system's table of processes.

Incs == 1 .. Len(procs)
Ours == {n \in Incs : procs[n].image \in GameImages}
Handles == {tracked[i].inc : i \in 1 .. Len(tracked)}
             \union (IF stopping.at = "idle" THEN {} ELSE {stopping.entry.inc})

\* A number belongs to a process until it ended and its parent heard of it; on
\* Windows until nothing holds a handle to it.
Holds(n) ==
    \/ procs[n].up
    \/ Posix /\ reapers[n] = "wait"
    \/ ~Posix /\ n \in Handles

At(p) == IF \E n \in Incs : procs[n].pid = p /\ Holds(n)
         THEN CHOOSE n \in Incs : procs[n].pid = p /\ Holds(n) ELSE 0

\* A number comes round again only after the thread of its last process is done.
Free(p) == At(p) = 0 /\ \A n \in Incs : procs[n].pid = p => reapers[n] = "done"

\* macOS gives no creation time.
Created(n) == IF platform = "macos" THEN 0 ELSE n

Index(p) == SelectInSeq(tracked, LAMBDA e : e.pid = p)

Alive(e) ==
    CASE platform = "linux" -> Holds(e.inc)
      [] platform = "windows" -> procs[e.inc].up
      [] platform = "unpinned" -> At(e.pid) = e.created
      [] platform = "macos" -> At(e.pid) # 0

-----------------------------------------------------------------------------
\* What the manager says.

\* identify_recorded: of a process it started, or one an earlier run did.
IdentifyByNumber(s) ==
    IF Index(s.pid) # 0 THEN IF Alive(tracked[Index(s.pid)]) THEN "running" ELSE "exited"
    ELSE IF At(s.pid) = 0 THEN "exited" ELSE "running"

\* Whether the number is in use comes before whose it is: "unknown" is kept
\* for a process that is there and cannot be told from another.
IdentifyUntracked(s) ==
    IF At(s.pid) = 0 THEN "exited"
    ELSE IF s.created = 0 \/ ~procs[At(s.pid)].readable THEN "unknown"
    ELSE IF At(s.pid) = s.created /\ procs[s.created].up THEN "running" ELSE "exited"

Identify(s) ==
    IF Index(s.pid) # 0 THEN IF Alive(tracked[Index(s.pid)]) THEN "running" ELSE "exited"
    ELSE IdentifyUntracked(s)

\* The names are cut short by the system on Linux, and the program's own name
\* decides when it can be read. Windows goes by the name.
LooksLikeGame(n) ==
    /\ procs[n].up
    /\ \/ procs[n].image \in GameImages
       \/ procs[n].image = "namesake" /\ (~Posix \/ ~procs[n].readable)

Discovered == platform # "macos" /\ \E n \in Incs : LooksLikeGame(n)
GameRunning == (\E i \in 1 .. Len(tracked) : Alive(tracked[i])) \/ Discovered

ExitCode(p) ==
    LET mine == SelectSeq(exits, LAMBDA x : x.pid = p) IN
    IF mine = <<>> THEN NoCode ELSE Last(mine).code

-----------------------------------------------------------------------------
\* Starting a game, and what else goes on in the system.

NewProcess(p, image, readable) ==
    procs' = Append(procs, [pid |-> p, image |-> image, readable |-> readable,
                            up |-> TRUE, code |-> NoCode])

\* An answer that proves nothing keeps the launch closed (for a session whose
\* log is still to show it; one given up on is not asked about).
MayStart ==
    ~GameRunning /\ (latest.inc # 0 /\ latest.saved /\ ~latest.ended => Identify(latest) = "exited")

ForgetsCode(p) == SelectSeq(exits, LAMBDA x : x.pid # p)

\* POSIX leaves an older entry of the number to its thread.
Track(entry) ==
    Append(IF Posix THEN tracked ELSE SelectSeq(tracked, LAMBDA e : e.pid # entry.pid), entry)

\* On Windows a process that cannot be opened runs without being tracked.
Spawn(p, image, opened) ==
    LET n == Len(procs) + 1
        entry == [pid |-> p, inc |-> n, created |-> Created(n)] IN
    /\ Cardinality(Ours) < MaxOurs
    /\ Free(p) /\ MayStart /\ (Posix => opened)
    /\ NewProcess(p, image, TRUE)
    /\ IF opened
       THEN /\ tracked' = Track(entry)
            /\ exits' = ForgetsCode(p)
            /\ reapers' = Append(reapers, "wait")
            /\ latest' = [inc |-> n, pid |-> p, created |-> Created(n), saved |-> FALSE,
                          ended |-> FALSE, code |-> NoCode]
       ELSE /\ reapers' = Append(reapers, "done")
            /\ UNCHANGED <<tracked, exits, latest>>
    /\ UNCHANGED <<platform, stopping, strays, restarts>>

SaveIdentity ==
    /\ latest.inc # 0 /\ ~latest.saved
    /\ latest' = [latest EXCEPT !.saved = TRUE]
    /\ UNCHANGED <<platform, procs, tracked, exits, reapers, stopping, strays, restarts>>

StartOther(p, o) ==
    /\ Cardinality(Incs \ Ours) < MaxOthers
    /\ Free(p)
    /\ NewProcess(p, o.image, o.readable)
    /\ reapers' = Append(reapers, "done")
    /\ UNCHANGED <<platform, tracked, exits, latest, stopping, strays, restarts>>

Exit(n, code) ==
    /\ procs[n].up
    /\ procs' = [procs EXCEPT ![n].up = FALSE, ![n].code = code]
    /\ UNCHANGED <<platform, tracked, exits, reapers, latest, stopping, strays, restarts>>

\* The thread that waits for a process: its end frees the number, then its
\* code and its entry are seen to, each under a lock of its own.
Reap(n) ==
    /\ reapers[n] = "wait" /\ ~procs[n].up
    /\ reapers' = [reapers EXCEPT ![n] = IF Posix THEN "reaped" ELSE "done"]
    /\ UNCHANGED <<platform, procs, tracked, exits, latest, stopping, strays, restarts>>

\* A process a signal ended has no code, and takes the one of its number away.
Stores(p, code) ==
    LET all == IF code = NoCode THEN ForgetsCode(p) ELSE Append(ForgetsCode(p), [pid |-> p, code |-> code]) IN
    IF Len(all) > ExitCodesKept THEN Tail(all) ELSE all

StoreCode(n) ==
    /\ reapers[n] = "reaped"
    /\ exits' = Stores(procs[n].pid, procs[n].code)
    /\ reapers' = [reapers EXCEPT ![n] = "stored"]
    /\ UNCHANGED <<platform, procs, tracked, latest, stopping, strays, restarts>>

WithoutEntry(p) == IF Index(p) = 0 THEN tracked ELSE RemoveAt(tracked, Index(p))

DropEntry(n) ==
    /\ reapers[n] = "stored"
    /\ tracked' = WithoutEntry(procs[n].pid)
    /\ reapers' = [reapers EXCEPT ![n] = "done"]
    /\ UNCHANGED <<platform, procs, exits, latest, stopping, strays, restarts>>

\* Following the latest session.
Poll ==
    /\ latest.inc # 0 /\ latest.saved /\ ~latest.ended /\ Identify(latest) = "exited"
    /\ latest' = [latest EXCEPT !.ended = TRUE, !.code = ExitCode(latest.pid)]
    /\ UNCHANGED <<platform, procs, tracked, exits, reapers, stopping, strays, restarts>>

-----------------------------------------------------------------------------
\* Stopping a game. Its entry is taken out first; stopping all of them is
\* stopping one after another.

Target(e) == IF platform \in {"linux", "windows"} THEN e.inc ELSE At(e.pid)

WhoGets(e) == strays' = IF Target(e) \in {0, e.inc} THEN strays ELSE strays \union {platform}

Stop(p) ==
    /\ stopping = NotStopping /\ Index(p) # 0
    /\ stopping' = [at |-> "check", entry |-> tracked[Index(p)]]
    /\ tracked' = WithoutEntry(p)
    /\ UNCHANGED <<platform, procs, exits, reapers, latest, strays, restarts>>

\* Windows wants the identity confirmed, POSIX the process alive.
Confirmed(e) ==
    IF Posix THEN Alive(e)
    ELSE At(e.pid) = e.created /\ procs[e.created].up /\ procs[e.created].readable

StopCheck ==
    /\ stopping.at = "check"
    /\ stopping' = IF ~Confirmed(stopping.entry) THEN NotStopping
                   ELSE [stopping EXCEPT !.at = IF Posix THEN "ask" ELSE "kill"]
    /\ UNCHANGED <<platform, procs, tracked, exits, reapers, latest, strays, restarts>>

\* SIGTERM, which the game may pass over.
StopAsk ==
    /\ stopping.at = "ask"
    /\ WhoGets(stopping.entry)
    /\ stopping' = [stopping EXCEPT !.at = "wait"]
    /\ UNCHANGED <<platform, procs, tracked, exits, reapers, latest, restarts>>

AfterWait ==
    stopping' = IF Alive(stopping.entry) THEN [stopping EXCEPT !.at = "kill"] ELSE NotStopping

StopWait ==
    /\ stopping.at = "wait"
    /\ AfterWait
    /\ UNCHANGED <<platform, procs, tracked, exits, reapers, latest, strays, restarts>>

\* Windows may refuse.
StopKill(refused) ==
    /\ stopping.at = "kill" /\ (refused => ~Posix)
    /\ LET n == Target(stopping.entry) IN
       procs' = IF refused \/ n = 0 THEN procs
                ELSE IF ~procs[n].up THEN procs
                ELSE [procs EXCEPT ![n].up = FALSE,
                                   ![n].code = IF Posix THEN NoCode ELSE 1]
    /\ IF refused THEN UNCHANGED strays ELSE WhoGets(stopping.entry)
    /\ stopping' = NotStopping
    /\ UNCHANGED <<platform, tracked, exits, reapers, latest, restarts>>

\* The manager ends and starts again: the games go on, nobody's children.
Restart ==
    /\ restarts < MaxRestarts
    /\ restarts' = restarts + 1
    /\ tracked' = <<>> /\ exits' = <<>>
    /\ reapers' = [n \in Incs |-> "done"]
    /\ stopping' = NotStopping
    /\ UNCHANGED <<platform, procs, latest, strays>>

GameProcessesNext ==
    \/ \E p \in Pids :
         \/ \E b \in BOOLEAN : Spawn(p, "smapi", b)
         \/ \E o \in Others : StartOther(p, o)
         \/ Stop(p)
    \/ \E n \in Incs : \E code \in (IF n \in Ours THEN Codes ELSE {}) \union {NoCode} : Exit(n, code)
    \/ \E n \in Incs : Reap(n) \/ StoreCode(n) \/ DropEntry(n)
    \/ SaveIdentity \/ Poll \/ Restart
    \/ StopCheck \/ StopAsk \/ StopWait \/ \E b \in BOOLEAN : StopKill(b)

-----------------------------------------------------------------------------

GameProcessesTypeOK ==
    /\ platform \in Platforms /\ Len(reapers) = Len(procs)
    /\ \A n \in Incs : procs[n].pid \in Pids
    /\ \A m, n \in Incs : m # n /\ Holds(m) /\ Holds(n) => procs[m].pid # procs[n].pid
    /\ Len(exits) <= ExitCodesKept
    /\ latest.inc \in {0} \union Incs
    /\ stopping.at \in {"idle", "check", "ask", "wait", "kill"}

\* What is said of the latest session's process is true of that process,
\* whoever has its number now: it is said to run only while it does (or has
\* only just ended), and to have ended only when it has.
IdentifiedIsIt ==
    latest.inc # 0 =>
        CASE Identify(latest) = "running" -> Holds(latest.inc)
          [] Identify(latest) = "exited" -> ~procs[latest.inc].up
          [] OTHER -> TRUE

\* The checks that keep changes out of a running game see every game, whoever
\* started it, and nothing else (on macOS those of this run of the manager).
GameRunningIsTrue ==
    /\ \A n \in Ours : procs[n].up =>
         GameRunning \/ stopping.at # "idle" \/ (platform = "macos" /\ n \notin Handles)
    /\ GameRunning =>
         \E n \in Incs : /\ Holds(n)
                         /\ \/ procs[n].image \in GameImages
                            \/ procs[n].image = "namesake" /\ (~Posix \/ ~procs[n].readable)

\* The exit code told of an ended session is its own process's, not that of an
\* earlier one with the same number.
CodeIsItsOwn ==
    latest.inc # 0 /\ latest.ended => latest.code \in {NoCode, procs[latest.inc].code}

\* Where a process can be pinned, no signal of a stop reaches another one.
SignalsReachOwn == strays \intersect {"linux", "windows"} = {}

\* A game is never started while the session before it may still run.
NoSecondGame ==
    [][latest'.inc # latest.inc /\ latest.inc # 0
         => ~procs[latest.inc].up \/ ~latest.saved]_processVars

\* A stop on POSIX ends with the game ended, also one that passes over being
\* asked.
StopEnds ==
    [][Posix /\ stopping.at # "idle" /\ stopping'.at = "idle" /\ restarts' = restarts
         => ~procs'[stopping.entry.inc].up]_processVars

\* An entry does not outlive the thread that waits for its process, so a later
\* process with its number is not taken for it.
EntriesGo ==
    Posix => \A n \in Incs : reapers[n] = "done" => \A i \in 1 .. Len(tracked) : tracked[i].inc # n

\* What is said and done of game processes is of those very processes, although
\* the system gives their numbers out again.
ProcessesAreKnown ==
    [](GameProcessesTypeOK /\ IdentifiedIsIt /\ GameRunningIsTrue /\ CodeIsItsOwn
       /\ SignalsReachOwn /\ EntriesGo)
    /\ NoSecondGame /\ StopEnds
=============================================================================
