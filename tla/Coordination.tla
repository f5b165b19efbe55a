---------------------------- MODULE Coordination ----------------------------
(* How the programs of one user keep out of each other's way: the claims    *)
(* commands hold inside a process (services/resources.rs), the instance     *)
(* lock between processes and the presence lock of a window (lock.rs), the  *)
(* durable gate with its judgement whether the owner of an unfinished       *)
(* operation is still alive, and the window that recovers what was left     *)
(* when it opens (lib.rs, operation_recovery.rs).                           *)
(*                                                                          *)
(* A command runs in one process and carries out one operation. What the    *)
(* operation does to files is the business of other modules: here its row   *)
(* is only "none", "committing", "recovery" or "settled".                   *)
EXTENDS Naturals, FiniteSets

CONSTANTS
    Processes,   \* programs on one data folder
    Windows,     \* those that are the app window; the others are command lines
    Commands,    \* changes, each asked for once
    Resources,   \* profiles and game installations
    ProcessOf,   \* the process a command runs in
    ClaimOf,     \* [Commands -> [Resources -> {"none", "read", "write"}]]
    LockFirst,   \* commands that take the lock before gate and lease
    Judges,      \* commands whose gate asks whether the owner is alive
    NoProcess, NoCommand,
    MaxCrashes   \* bound on killed processes

ASSUME CoordinationAssumption ==
    /\ IsFiniteSet(Commands)
    /\ Windows \subseteq Processes
    /\ NoProcess \notin Processes
    /\ NoCommand \notin Commands
    /\ ProcessOf \in [Commands -> Processes]
    /\ ClaimOf \in [Commands -> [Resources -> {"none", "read", "write"}]]

VARIABLES
    window,    \* per process: "closed", "recovering", "open" (a CLI is "open")
    presence,  \* the process holding the presence lock, or NoProcess
    osLock,    \* the process holding the lock file exclusively, or NoProcess
    holders,   \* per process: guards of the instance lock alive in it
    readers,   \* per process and resource: read claims held
    writers,   \* per process and resource: write claims held
    row,       \* per command: its operation's row in the journal
    pc,        \* per command: where it is
    leased,    \* commands holding a ResourceLease
    guarded,   \* commands holding a guard of the instance lock
    blocker,   \* per command: the row its gate found in the way
    verdict,   \* per command: what its gate said about that row
    listed,    \* per window: rows read by its startup recovery
    crashes

claimVars == <<readers, writers, leased>>
lockVars == <<osLock, holders, guarded>>
vars == <<window, presence, osLock, holders, readers, writers, row, pc,
          leased, guarded, blocker, verdict, listed, crashes>>

Unfinished == {c \in Commands : row[c] \in {"committing", "recovery"}}
Stages == {"idle", "gate", "judge", "probe", "lease", "lock", "work",
           "ending", "ended"}

Init ==
    /\ window = [p \in Processes |-> IF p \in Windows THEN "closed" ELSE "open"]
    /\ presence = NoProcess
    /\ osLock = NoProcess
    /\ holders = [p \in Processes |-> 0]
    /\ readers = [p \in Processes |-> [r \in Resources |-> 0]]
    /\ writers = [p \in Processes |-> [r \in Resources |-> 0]]
    /\ row = [c \in Commands |-> "none"]
    /\ pc = [c \in Commands |-> "idle"]
    /\ leased = {}
    /\ guarded = {}
    /\ blocker = [c \in Commands |-> NoCommand]
    /\ verdict = [c \in Commands |-> "none"]
    /\ listed = [p \in Processes |-> {}]
    /\ crashes = 0

-----------------------------------------------------------------------------
(* claims_conflict: read beside read is allowed, a write conflicts with     *)
(* anything on the same resource.                                           *)
ClaimsConflict(a, b) ==
    \E r \in Resources :
        /\ ClaimOf[a][r] # "none" /\ ClaimOf[b][r] # "none"
        /\ "write" \in {ClaimOf[a][r], ClaimOf[b][r]}

(* conflicting_holder over what this process holds. *)
HeldAgainst(c) ==
    LET p == ProcessOf[c] IN
    \E r \in Resources :
        \/ ClaimOf[c][r] = "write" /\ readers[p][r] + writers[p][r] > 0
        \/ ClaimOf[c][r] = "read" /\ writers[p][r] > 0

(* try_acquire: the whole set under one mutex, or nothing. *)
Acquire(c) ==
    LET p == ProcessOf[c] IN
    /\ ~HeldAgainst(c)
    /\ readers' = [readers EXCEPT ![p] = [r \in Resources |->
                     @[r] + IF ClaimOf[c][r] = "read" THEN 1 ELSE 0]]
    /\ writers' = [writers EXCEPT ![p] = [r \in Resources |->
                     @[r] + IF ClaimOf[c][r] = "write" THEN 1 ELSE 0]]
    /\ leased' = leased \union {c}

SaturatingSub(n, k) == IF n >= k THEN n - k ELSE 0

(* ResourceLease::drop. *)
ReleaseClaimsOfWriters(c) ==
    LET p == ProcessOf[c] IN
    /\ writers' = [writers EXCEPT ![p] = [r \in Resources |->
                     SaturatingSub(@[r], IF ClaimOf[c][r] = "write" THEN 1 ELSE 0)]]
    /\ leased' = leased \ {c}
    /\ UNCHANGED readers

ReleaseClaims(c) ==
    LET p == ProcessOf[c] IN
    /\ readers' = [readers EXCEPT ![p] = [r \in Resources |->
                     SaturatingSub(@[r], IF ClaimOf[c][r] = "read" THEN 1 ELSE 0)]]
    /\ writers' = [writers EXCEPT ![p] = [r \in Resources |->
                     SaturatingSub(@[r], IF ClaimOf[c][r] = "write" THEN 1 ELSE 0)]]
    /\ leased' = leased \ {c}

(* acquire_guard: the first holder in a process takes the OS lock, later    *)
(* ones share it.                                                           *)
LockAlwaysAvailable(p) == TRUE
LockAvailable(p) == holders[p] > 0 \/ osLock = NoProcess
AcquireGuard(p) ==
    /\ LockAvailable(p)
    /\ osLock' = IF holders[p] > 0 THEN osLock ELSE p
    /\ holders' = [holders EXCEPT ![p] = @ + 1]

(* LockGuard::drop: the last holder unlocks the file. *)
DropGuard(p) ==
    /\ holders' = [holders EXCEPT ![p] = SaturatingSub(@, 1)]
    /\ osLock' = IF holders[p] <= 1 THEN NoProcess ELSE osLock

(* held_by_another_process *)
HeldByAnother(p) == holders[p] = 0 /\ osLock # NoProcess

(* is_carrying_out: anything at all held here on a resource it claims. *)
CarryingOut(p, c) ==
    \E r \in Resources : ClaimOf[c][r] # "none" /\ readers[p][r] + writers[p][r] > 0

-----------------------------------------------------------------------------
(* The steps of a command. *)
At(c, stage) == pc[c] = stage /\ window[ProcessOf[c]] = "open"
Goto(c, stage) == pc' = [pc EXCEPT ![c] = stage]
AfterGate(c) == "lease"
AfterLease(c) == IF c \in LockFirst THEN "work" ELSE "lock"
AfterLock(c) == IF c \in LockFirst THEN "gate" ELSE "work"

Start(c) ==
    /\ At(c, "idle")
    /\ Goto(c, IF c \in LockFirst THEN "lock" ELSE "gate")
    /\ UNCHANGED <<window, presence, lockVars, claimVars, row, blocker,
                   verdict, listed, crashes>>

(* ensure_resources_available_with: the unresolved rows are read once. *)
Gate(c) ==
    LET conflicts == {o \in Unfinished \ {c} : ClaimsConflict(c, o)} IN
    /\ At(c, "gate")
    /\ \/ conflicts = {} /\ Goto(c, AfterGate(c)) /\ UNCHANGED blocker
       \/ \E o \in conflicts : /\ Goto(c, "judge")
                               /\ blocker' = [blocker EXCEPT ![c] = o]
    /\ UNCHANGED <<window, presence, lockVars, claimVars, row, verdict,
                   listed, crashes>>

(* blocked_by reads the operation again; owner_alive calls a terminal one   *)
(* not alive, and without liveness an unfinished one is taken as running.   *)
Judge(c) ==
    LET state == row[blocker[c]] IN
    /\ At(c, "judge")
    /\ IF state = "recovery" \/ (c \in Judges /\ state = "settled")
       THEN Goto(c, "ending") /\ verdict' = [verdict EXCEPT ![c] = "interrupted"]
       ELSE IF c \in Judges
       THEN Goto(c, "probe") /\ UNCHANGED verdict
       ELSE Goto(c, "ending") /\ verdict' = [verdict EXCEPT ![c] = "in progress"]
    /\ UNCHANGED <<window, presence, lockVars, claimVars, row, blocker,
                   listed, crashes>>

(* owner_alive on a row read as being carried out. *)
OwnerAlive(p, o) == CarryingOut(p, o) \/ HeldByAnother(p)
Probe(c) ==
    /\ At(c, "probe")
    /\ verdict' = [verdict EXCEPT ![c] =
         IF OwnerAlive(ProcessOf[c], blocker[c]) THEN "in progress" ELSE "interrupted"]
    /\ Goto(c, "ending")
    /\ UNCHANGED <<window, presence, lockVars, claimVars, row, blocker,
                   listed, crashes>>

Lease(c) ==
    /\ At(c, "lease")
    /\ \/ Acquire(c) /\ Goto(c, AfterLease(c))
       \/ HeldAgainst(c) /\ Goto(c, "ending") /\ UNCHANGED claimVars
    /\ UNCHANGED <<window, presence, lockVars, row, blocker, verdict, listed,
                   crashes>>

Lock(c) ==
    LET p == ProcessOf[c] IN
    /\ At(c, "lock")
    /\ \/ AcquireGuard(p) /\ guarded' = guarded \union {c} /\ Goto(c, AfterLock(c))
       \/ ~LockAvailable(p) /\ Goto(c, "ending") /\ UNCHANGED lockVars
    /\ UNCHANGED <<window, presence, claimVars, row, blocker, verdict, listed,
                   crashes>>

(* The body: the operation is being carried out, and settles, fails into    *)
(* recovery, or is cut off by a panic that leaves its row as it is.         *)
Begin(c) ==
    /\ At(c, "work") /\ row[c] = "none"
    /\ row' = [row EXCEPT ![c] = "committing"]
    /\ UNCHANGED <<window, presence, lockVars, claimVars, pc, blocker, verdict,
                   listed, crashes>>

End(c) ==
    /\ At(c, "work") /\ row[c] # "none"
    /\ \E outcome \in {"settled", "recovery"} :
         row' = [row EXCEPT ![c] = outcome]
    /\ Goto(c, "ending")
    /\ UNCHANGED <<window, presence, lockVars, claimVars, blocker, verdict,
                   listed, crashes>>

Panic(c) ==
    /\ At(c, "work")
    /\ Goto(c, "ending")
    /\ UNCHANGED <<window, presence, lockVars, claimVars, row, blocker,
                   verdict, listed, crashes>>

(* What a command holds is dropped in the reverse order it was taken. *)
LastTaken(c) == IF c \in LockFirst
                THEN IF c \in leased THEN "lease" ELSE "guard"
                ELSE IF c \in guarded THEN "guard" ELSE "lease"
Unwind(c) ==
    /\ At(c, "ending")
    /\ \/ /\ c \in leased /\ LastTaken(c) = "lease"
          /\ ReleaseClaims(c)
          /\ UNCHANGED <<lockVars, pc>>
       \/ /\ c \in guarded /\ LastTaken(c) = "guard"
          /\ DropGuard(ProcessOf[c])
          /\ guarded' = guarded \ {c}
          /\ UNCHANGED <<claimVars, pc>>
       \/ /\ c \notin leased \union guarded
          /\ Goto(c, "ended")
          /\ UNCHANGED <<lockVars, claimVars>>
    /\ UNCHANGED <<window, presence, row, blocker, verdict, listed, crashes>>

-----------------------------------------------------------------------------
(* run: a window opens only with the presence lock, and reads what is       *)
(* unresolved before anything else.                                         *)
OpenWindow(p) ==
    /\ p \in Windows /\ window[p] = "closed" /\ presence = NoProcess
    /\ presence' = p
    /\ window' = [window EXCEPT ![p] = "recovering"]
    /\ listed' = [listed EXCEPT ![p] = Unfinished]
    /\ UNCHANGED <<lockVars, claimVars, row, pc, blocker, verdict, crashes>>

(* recover_on_startup_reporting: with the instance lock, or not at all. *)
RecoveryLock(p) ==
    /\ window[p] = "recovering" /\ holders[p] = 0
    /\ \/ listed[p] # {} /\ AcquireGuard(p) /\ UNCHANGED window
       \/ /\ listed[p] = {} \/ ~LockAvailable(p)
          /\ window' = [window EXCEPT ![p] = "open"]
          /\ UNCHANGED <<osLock, holders>>
    /\ UNCHANGED <<presence, guarded, claimVars, row, pc, blocker, verdict,
                   listed, crashes>>

RecoverOne(p, o) ==
    /\ window[p] = "recovering" /\ holders[p] > 0 /\ o \in listed[p]
    /\ listed' = [listed EXCEPT ![p] = @ \ {o}]
    /\ \E outcome \in {"settled", "recovery"} :
         row' = IF row[o] = "settled" THEN row ELSE [row EXCEPT ![o] = outcome]
    /\ UNCHANGED <<window, presence, lockVars, claimVars, pc, blocker, verdict,
                   crashes>>

RecoveryEnd(p) ==
    /\ window[p] = "recovering" /\ holders[p] > 0 /\ listed[p] = {}
    /\ DropGuard(p)
    /\ window' = [window EXCEPT ![p] = "open"]
    /\ UNCHANGED <<presence, guarded, claimVars, row, pc, blocker, verdict,
                   listed, crashes>>

(* The process is killed: the OS drops its locks, its memory is gone. *)
Kill(p) ==
    /\ crashes < MaxCrashes
    /\ window[p] # "closed"
    /\ crashes' = crashes + 1
    /\ window' = [window EXCEPT ![p] = "closed"]
    /\ presence' = IF presence = p THEN NoProcess ELSE presence
    /\ osLock' = IF osLock = p THEN NoProcess ELSE osLock
    /\ holders' = [holders EXCEPT ![p] = 0]
    /\ readers' = [readers EXCEPT ![p] = [r \in Resources |-> 0]]
    /\ writers' = [writers EXCEPT ![p] = [r \in Resources |-> 0]]
    /\ leased' = {c \in leased : ProcessOf[c] # p}
    /\ guarded' = {c \in guarded : ProcessOf[c] # p}
    /\ pc' = [c \in Commands |-> IF ProcessOf[c] = p /\ pc[c] # "idle"
                                 THEN "ended" ELSE pc[c]]
    /\ listed' = [listed EXCEPT ![p] = {}]
    /\ UNCHANGED <<row, blocker, verdict>>

CommandStep(c) ==
    \/ Start(c) \/ Gate(c) \/ Judge(c) \/ Probe(c) \/ Lease(c) \/ Lock(c)
    \/ Begin(c) \/ End(c) \/ Panic(c) \/ Unwind(c)
WindowStep(p) ==
    \/ RecoveryLock(p) \/ RecoveryEnd(p) \/ \E o \in Commands : RecoverOne(p, o)

Next ==
    \/ \E c \in Commands : CommandStep(c)
    \/ \E p \in Processes : OpenWindow(p) \/ WindowStep(p) \/ Kill(p)

Spec == Init /\ [][Next]_vars

(* A thread that is not blocked runs on: nothing here waits for a lock, all *)
(* attempts are bounded in time.                                            *)
CoordinationFairness ==
    /\ \A c \in Commands : WF_vars(CommandStep(c))
    /\ \A p \in Processes : WF_vars(WindowStep(p))

-----------------------------------------------------------------------------
TypeOK ==
    /\ window \in [Processes -> {"closed", "recovering", "open"}]
    /\ presence \in Processes \union {NoProcess}
    /\ osLock \in Processes \union {NoProcess}
    /\ holders \in [Processes -> Nat]
    /\ readers \in [Processes -> [Resources -> Nat]]
    /\ writers \in [Processes -> [Resources -> Nat]]
    /\ row \in [Commands -> {"none", "committing", "recovery", "settled"}]
    /\ pc \in [Commands -> Stages]
    /\ leased \in SUBSET Commands
    /\ guarded \in SUBSET Commands
    /\ blocker \in [Commands -> Commands \union {NoCommand}]
    /\ verdict \in [Commands -> {"none", "in progress", "interrupted"}]
    /\ listed \in [Processes -> SUBSET Commands]
    /\ crashes \in Nat

Working(c) == pc[c] = "work"

(* Two commands whose claims conflict are never at work at the same time,   *)
(* whether they run in one process (claims) or in two (the instance lock):  *)
(* "while this process holds it, no other process can" (lock.rs:116) and    *)
(* "two operations can never" hold conflicting claims (resources.rs:438).   *)
ConflictsNeverMeet ==
    \A a, b \in Commands :
        a # b /\ Working(a) /\ Working(b) /\ ClaimsConflict(a, b) => FALSE

(* The counters of the coordinator are exactly the leases that are alive,   *)
(* whatever unwound or was killed: a leaked claim would refuse every later  *)
(* change as busy, a lost one would let two in.                             *)
ClaimsAccounted ==
    \A p \in Processes, r \in Resources :
        LET holding(mode) == {c \in leased : ProcessOf[c] = p /\ ClaimOf[c][r] = mode} IN
        /\ readers[p][r] = Cardinality(holding("read"))
        /\ writers[p][r] = Cardinality(holding("write"))

(* While a process has a guard, a command's or its recovery's, it and no    *)
(* other holds the lock file; without one it does not.                      *)
LockAccounted ==
    \A p \in Processes :
        /\ (osLock = p) <=> (holders[p] > 0)
        /\ window[p] # "recovering" =>
             holders[p] = Cardinality({c \in guarded : ProcessOf[c] = p})

(* A window reconciles an operation only while nothing carries that         *)
(* operation out ("a second one would run startup recovery while the first  *)
(* may be in the middle of something", lib.rs:261).                         *)
RecoveryLeavesLiveAlone ==
    [][\A p \in Processes, o \in Commands :
        RecoverOne(p, o) => ~(Working(o) /\ window[ProcessOf[o]] = "open")]_vars

(* An operation a command is at work on is never called interrupted: the    *)
(* owner's lock or lease proves it alive (OperationLiveness).               *)
RunningNotCalledInterrupted ==
    [][\A c, o \in Commands :
        /\ Probe(c) /\ verdict'[c] = "interrupted" /\ blocker[c] = o
        => ~(Working(o) /\ row[o] = "committing")]_vars

(* A change that was refused because another is in progress needs only to   *)
(* wait: the lock always comes free again.                                  *)
LockComesFree == (osLock # NoProcess) ~> (osLock = NoProcess)

(* What the coordinator promises of every moment: nothing that conflicts is *)
(* carried out together, and its counters and the lock file stand for the   *)
(* leases and guards that are alive.                                        *)
ClaimsAreExclusive == ConflictsNeverMeet /\ ClaimsAccounted /\ LockAccounted

(* What runs is known to run, to a window that recovers and to a change     *)
(* that was refused because of it.                                          *)
LiveWorkIsKnown == RecoveryLeavesLiveAlone /\ RunningNotCalledInterrupted
=============================================================================
