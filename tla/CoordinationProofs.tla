------------------------- MODULE CoordinationProofs -------------------------
(***************************************************************************)
(* Proofs about what runs beside each other: the claims, the instance lock *)
(* and the windows that recover (Coordination.tla), for any number of      *)
(* programs, windows, commands and resources, whatever they claim and in   *)
(* whatever order they take it; then the window and the threads behind it  *)
(* (WindowJobs.tla), for any number of settings, presses, reads and moves. *)
(*                                                                         *)
(* The counters say how many hold something, never who: that two at work   *)
(* cannot conflict follows from where in its course a command has what     *)
(* (Course), from the counters standing for the leases and guards          *)
(* (ClaimsAccounted, LockAccounted), and from the leases of one process    *)
(* never having conflicted with each other (LeasesApart).                  *)
(***************************************************************************)
EXTENDS Coordination, WindowJobs, FiniteSetTheorems, SequenceTheorems, TLAPS

\* The leases of one process.
LeasesApart ==
    \A a, b \in leased : a # b /\ ProcessOf[a] = ProcessOf[b] => ~ClaimsConflict(a, b)

\* A window that recovers holds one guard, or none yet.
OneRecovery == \A p \in Processes : window[p] = "recovering" => holders[p] \in {0, 1}

\* What a command has at each stage: the lock first or the lease first, both
\* while it is at work, and nothing unless its process runs.
Course ==
    \A c \in Commands :
        /\ pc[c] \notin {"idle", "ended"} => window[ProcessOf[c]] = "open"
        /\ pc[c] = "work" => c \in leased /\ c \in guarded
        /\ c \in leased => pc[c] \in (IF c \in LockFirst THEN {} ELSE {"lock"}) \cup {"work", "ending"}
        /\ c \in guarded =>
             pc[c] \in (IF c \in LockFirst THEN {"gate", "judge", "probe", "lease"} ELSE {})
                          \cup {"work", "ending"}
        /\ pc[c] \in {"gate", "judge", "probe", "lease"} /\ c \in LockFirst => c \in guarded
        /\ pc[c] = "lock" /\ c \notin LockFirst => c \in leased

\* What a gate judges stands in its command's way.
Judged ==
    \A c \in Commands :
        pc[c] \in {"judge", "probe"} => blocker[c] \in Commands /\ ClaimsConflict(c, blocker[c])

CInv ==
    /\ TypeOK
    /\ ClaimsAccounted
    /\ LockAccounted
    /\ LeasesApart
    /\ OneRecovery
    /\ Course
    /\ Judged


-----------------------------------------------------------------------------
(* What the counters tell.                                                  *)

Holding(p, r, mode) == {c \in leased : ProcessOf[c] = p /\ ClaimOf[c][r] = mode}
GuardsOf(p) == {c \in guarded : ProcessOf[c] = p}

LEMMA Places ==
    ProcessOf \in [Commands -> Processes] /\ NoProcess \notin Processes /\ NoCommand \notin Commands
BY CoordinationAssumption

LEMMA Claims ==
    \A c \in Commands, r \in Resources : ClaimOf[c][r] \in {"none", "read", "write"}
BY CoordinationAssumption

LEMMA FiniteParts ==
    ASSUME TypeOK
    PROVE  /\ \A p, r, mode : /\ IsFiniteSet(Holding(p, r, mode))
                              /\ Cardinality(Holding(p, r, mode)) \in Nat
           /\ \A p : IsFiniteSet(GuardsOf(p)) /\ Cardinality(GuardsOf(p)) \in Nat
<1>1. \A T \in SUBSET Commands : IsFiniteSet(T) /\ Cardinality(T) \in Nat
  BY CoordinationAssumption, FS_Subset, FS_CardinalityType
<1>2. \A p, r, mode : Holding(p, r, mode) \in SUBSET Commands
  BY DEF TypeOK, Holding
<1>3. \A p : GuardsOf(p) \in SUBSET Commands
  BY DEF TypeOK, GuardsOf
<1>4. QED
  BY <1>1, <1>2, <1>3

\* A lease is counted on every resource it claims.
LEMMA LeaseIsCounted ==
    ASSUME TypeOK, ClaimsAccounted, NEW c \in leased, NEW r \in Resources
    PROVE  /\ ClaimOf[c][r] = "read" => readers[ProcessOf[c]][r] > 0
           /\ ClaimOf[c][r] = "write" => writers[ProcessOf[c]][r] > 0
           /\ ClaimOf[c][r] # "none" => readers[ProcessOf[c]][r] + writers[ProcessOf[c]][r] > 0
<1> DEFINE p == ProcessOf[c]
<1>1. c \in Commands /\ p \in Processes /\ ClaimOf[c][r] \in {"none", "read", "write"}
  BY Places, Claims DEF TypeOK
<1>2. /\ readers[p][r] = Cardinality(Holding(p, r, "read"))
      /\ writers[p][r] = Cardinality(Holding(p, r, "write"))
  BY <1>1 DEF ClaimsAccounted, Holding
<1>3. readers[p][r] \in Nat /\ writers[p][r] \in Nat
  BY <1>1 DEF TypeOK
<1>4. \A mode : ClaimOf[c][r] = mode => Cardinality(Holding(p, r, mode)) # 0
  <2>1. \A mode : ClaimOf[c][r] = mode => Holding(p, r, mode) # {}
    BY DEF Holding
  <2>2. QED
    BY <2>1, FiniteParts, FS_EmptySet
<1>5. QED
  BY <1>1, <1>2, <1>3, <1>4

\* A command with a guard runs in the process that has the lock file.
LEMMA GuardMeansLock ==
    ASSUME TypeOK, LockAccounted, Course, NEW c \in guarded
    PROVE  osLock = ProcessOf[c] /\ holders[ProcessOf[c]] > 0 /\ window[ProcessOf[c]] = "open"
<1> DEFINE p == ProcessOf[c]
<1>1. c \in Commands /\ p \in Processes /\ window[p] = "open"
  <2>1. c \in Commands
    BY DEF TypeOK
  <2>2. p \in Processes
    BY <2>1, Places
  <2>3. QED
    BY <2>1, <2>2 DEF Course
<1>2. holders[p] = Cardinality(GuardsOf(p)) /\ (osLock = p <=> holders[p] > 0) /\ holders[p] \in Nat
  BY <1>1 DEF LockAccounted, GuardsOf, TypeOK
<1>3. GuardsOf(p) # {}
  BY DEF GuardsOf
<1>4. Cardinality(GuardsOf(p)) # 0
  BY <1>3, FiniteParts, FS_EmptySet
<1>5. QED
  BY <1>1, <1>2, <1>4

\* What conflicts with a lease of the process is refused (try_acquire).
LEMMA ConflictIsRefused ==
    ASSUME TypeOK, ClaimsAccounted, NEW a \in leased, NEW c \in Commands,
           ProcessOf[a] = ProcessOf[c], ClaimsConflict(a, c)
    PROVE  HeldAgainst(c)
<1>1. PICK r \in Resources : /\ ClaimOf[a][r] # "none" /\ ClaimOf[c][r] # "none"
                             /\ "write" \in {ClaimOf[a][r], ClaimOf[c][r]}
  BY DEF ClaimsConflict
<1>2. ClaimOf[c][r] \in {"none", "read", "write"} /\ ClaimOf[a][r] \in {"none", "read", "write"}
  BY Claims DEF TypeOK
<1>3. QED
  BY <1>1, <1>2, LeaseIsCounted DEF HeldAgainst

-----------------------------------------------------------------------------
(* Types.                                                                   *)

\* The counters of a process after leases came or went (try_acquire, drop).
LEMMA CountersKeepType ==
    ASSUME TypeOK, NEW c \in Commands, Acquire(c) \/ ReleaseClaims(c)
    PROVE  readers' \in [Processes -> [Resources -> Nat]] /\ writers' \in [Processes -> [Resources -> Nat]]
<1> DEFINE p == ProcessOf[c]
           More(n, r, mode) == n + IF ClaimOf[c][r] = mode THEN 1 ELSE 0
           Fewer(n, r, mode) == SaturatingSub(n, IF ClaimOf[c][r] = mode THEN 1 ELSE 0)
<1>0. p \in Processes /\ \A r \in Resources : readers[p][r] \in Nat /\ writers[p][r] \in Nat
  <2>1. p \in Processes
    BY Places
  <2>2. readers[p] \in [Resources -> Nat] /\ writers[p] \in [Resources -> Nat]
    BY <2>1 DEF TypeOK
  <2>3. QED
    BY <2>1, <2>2
<1>1. /\ \A mode : [r \in Resources |-> More(readers[p][r], r, mode)] \in [Resources -> Nat]
      /\ \A mode : [r \in Resources |-> More(writers[p][r], r, mode)] \in [Resources -> Nat]
  BY <1>0
<1>2. /\ \A mode : [r \in Resources |-> Fewer(readers[p][r], r, mode)] \in [Resources -> Nat]
      /\ \A mode : [r \in Resources |-> Fewer(writers[p][r], r, mode)] \in [Resources -> Nat]
  BY <1>0 DEF SaturatingSub
<1>3. CASE Acquire(c)
  <2>1. /\ readers' = [readers EXCEPT ![p] = [r \in Resources |-> More(readers[p][r], r, "read")]]
        /\ writers' = [writers EXCEPT ![p] = [r \in Resources |-> More(writers[p][r], r, "write")]]
    BY <1>3 DEF Acquire, TypeOK
  <2> HIDE DEF More
  <2>2. QED
    BY <1>1, <2>1 DEF TypeOK
<1>4. CASE ReleaseClaims(c)
  <2>1. /\ readers' = [readers EXCEPT ![p] = [r \in Resources |-> Fewer(readers[p][r], r, "read")]]
        /\ writers' = [writers EXCEPT ![p] = [r \in Resources |-> Fewer(writers[p][r], r, "write")]]
    BY <1>4 DEF ReleaseClaims, TypeOK
  <2> HIDE DEF Fewer
  <2>2. QED
    BY <1>2, <2>1 DEF TypeOK
<1>5. QED
  BY <1>3, <1>4

\* Guards come and go.
LEMMA LocksKeepType ==
    ASSUME TypeOK, NEW p \in Processes, AcquireGuard(p) \/ DropGuard(p)
    PROVE  osLock' \in Processes \union {NoProcess} /\ holders' \in [Processes -> Nat]
<1>0. holders[p] \in Nat /\ SaturatingSub(holders[p], 1) \in Nat
  <2>1. holders[p] \in Nat
    BY DEF TypeOK
  <2>2. QED
    BY <2>1 DEF SaturatingSub
<1>1. CASE AcquireGuard(p)
  <2>1. osLock' \in Processes \union {NoProcess}
    BY <1>1 DEF AcquireGuard, TypeOK
  <2>2. holders' \in [Processes -> Nat]
    <3>1. holders' = [holders EXCEPT ![p] = holders[p] + 1] /\ holders[p] + 1 \in Nat
      BY <1>0, <1>1 DEF AcquireGuard
    <3>2. QED
      BY <3>1 DEF TypeOK
  <2>3. QED
    BY <2>1, <2>2
<1>2. CASE DropGuard(p)
  <2>1. osLock' \in Processes \union {NoProcess}
    BY <1>2 DEF DropGuard, TypeOK
  <2>2. holders' \in [Processes -> Nat]
    BY <1>0, <1>2 DEF DropGuard, TypeOK
  <2>3. QED
    BY <2>1, <2>2
<1>3. QED
  BY <1>1, <1>2

LEMMA CommandTypes ==
    ASSUME TypeOK, NEW c \in Commands, CommandStep(c)
    PROVE  TypeOK'
<1>1. pc' \in [Commands -> Stages]
  BY DEF TypeOK, CommandStep, Start, Gate, Judge, Probe, Lease, Lock, Begin, End, Panic, Unwind, Goto,
         Stages, AfterGate, AfterLease, AfterLock
<1>2. blocker' \in [Commands -> Commands \union {NoCommand}]
  <2>1. CASE UNCHANGED blocker
    BY <2>1 DEF TypeOK
  <2>2. CASE Gate(c)
    BY <2>2 DEF TypeOK, Gate, Unfinished
  <2>3. QED
    BY <2>1, <2>2 DEF CommandStep, Start, Judge, Probe, Lease, Lock, Begin, End, Panic, Unwind
<1>3. verdict' \in [Commands -> {"none", "in progress", "interrupted"}]
  BY DEF TypeOK, CommandStep, Start, Gate, Judge, Probe, Lease, Lock, Begin, End, Panic, Unwind
<1>4. row' \in [Commands -> {"none", "committing", "recovery", "settled"}]
  <2>1. CASE UNCHANGED row
    BY <2>1 DEF TypeOK
  <2>2. CASE Begin(c) \/ End(c)
    BY <2>2 DEF TypeOK, Begin, End
  <2>3. QED
    BY <2>1, <2>2 DEF CommandStep, Start, Gate, Judge, Probe, Lease, Lock, Panic, Unwind
<1>5. leased' \in SUBSET Commands /\ readers' \in [Processes -> [Resources -> Nat]]
      /\ writers' \in [Processes -> [Resources -> Nat]]
  <2>1. CASE UNCHANGED claimVars
    BY <2>1 DEF TypeOK, claimVars
  <2>2. CASE Acquire(c) \/ ReleaseClaims(c)
    <3>1. leased' \in SUBSET Commands
      BY <2>2 DEF TypeOK, Acquire, ReleaseClaims
    <3>2. QED
      BY <2>2, <3>1, CountersKeepType
  <2>3. QED
    BY <2>1, <2>2 DEF CommandStep, Start, Gate, Judge, Probe, Lease, Lock, Begin, End, Panic, Unwind
<1>6. guarded' \in SUBSET Commands /\ osLock' \in Processes \union {NoProcess} /\ holders' \in [Processes -> Nat]
  <2>1. CASE UNCHANGED lockVars
    BY <2>1 DEF TypeOK, lockVars
  <2>2. CASE (Lock(c) \/ Unwind(c)) /\ ~UNCHANGED lockVars
    <3>1. guarded' \in {guarded \cup {c}, guarded \ {c}} /\ (AcquireGuard(ProcessOf[c]) \/ DropGuard(ProcessOf[c]))
      BY <2>2 DEF Lock, Unwind
    <3>2. guarded' \in SUBSET Commands /\ ProcessOf[c] \in Processes
      BY <3>1, Places DEF TypeOK
    <3>3. QED
      BY <3>1, <3>2, LocksKeepType
  <2>3. QED
    BY <2>1, <2>2 DEF CommandStep, Start, Gate, Judge, Probe, Lease, Begin, End, Panic
<1>7. UNCHANGED <<window, presence, listed, crashes>>
  BY DEF CommandStep, Start, Gate, Judge, Probe, Lease, Lock, Begin, End, Panic, Unwind
<1>8. QED
  BY <1>1, <1>2, <1>3, <1>4, <1>5, <1>6, <1>7 DEF TypeOK

LEMMA WindowTypes ==
    ASSUME TypeOK, NEW p \in Processes, OpenWindow(p) \/ WindowStep(p)
    PROVE  TypeOK'
<1>1. window' \in [Processes -> {"closed", "recovering", "open"}]
  BY DEF TypeOK, OpenWindow, WindowStep, RecoveryLock, RecoveryEnd, RecoverOne
<1>2. presence' \in Processes \union {NoProcess}
  BY DEF TypeOK, OpenWindow, WindowStep, RecoveryLock, RecoveryEnd, RecoverOne
<1>3. listed' \in [Processes -> SUBSET Commands]
  <2>1. listed[p] \in SUBSET Commands /\ Unfinished \in SUBSET Commands
    BY DEF TypeOK, Unfinished
  <2>2. \/ listed' \in {listed, [listed EXCEPT ![p] = Unfinished]}
           \/ \E o \in Commands : listed' = [listed EXCEPT ![p] = listed[p] \ {o}]
    BY DEF OpenWindow, WindowStep, RecoveryLock, RecoveryEnd, RecoverOne
  <2>3. listed \in [Processes -> SUBSET Commands]
    BY DEF TypeOK
  <2>4. CASE listed' \in {listed, [listed EXCEPT ![p] = Unfinished]}
    BY <2>1, <2>3, <2>4
  <2>5. ASSUME NEW o \in Commands, listed' = [listed EXCEPT ![p] = listed[p] \ {o}]
        PROVE  listed' \in [Processes -> SUBSET Commands]
    BY <2>1, <2>3, <2>5
  <2>6. QED
    BY <2>2, <2>4, <2>5
<1>4. row' \in [Commands -> {"none", "committing", "recovery", "settled"}]
  BY DEF TypeOK, OpenWindow, WindowStep, RecoveryLock, RecoveryEnd, RecoverOne
<1>5. osLock' \in Processes \union {NoProcess} /\ holders' \in [Processes -> Nat]
  <2>1. CASE UNCHANGED <<osLock, holders>>
    BY <2>1 DEF TypeOK
  <2>2. CASE AcquireGuard(p) \/ DropGuard(p)
    BY <2>2, LocksKeepType
  <2>3. QED
    BY <2>1, <2>2 DEF OpenWindow, WindowStep, RecoveryLock, RecoveryEnd, RecoverOne, lockVars
<1>6. UNCHANGED <<guarded, claimVars, pc, blocker, verdict, crashes>>
  BY DEF OpenWindow, WindowStep, RecoveryLock, RecoveryEnd, RecoverOne, lockVars
<1>7. QED
  BY <1>1, <1>2, <1>3, <1>4, <1>5, <1>6 DEF TypeOK, claimVars

LEMMA KillTypes ==
    ASSUME TypeOK, NEW p \in Processes, Kill(p)
    PROVE  TypeOK'
<1>1. pc' \in [Commands -> Stages]
  BY DEF TypeOK, Kill, Stages
<1>2. readers' \in [Processes -> [Resources -> Nat]] /\ writers' \in [Processes -> [Resources -> Nat]]
  BY DEF TypeOK, Kill
<1>3. leased' \in SUBSET Commands
  BY DEF TypeOK, Kill
<1>4. guarded' \in SUBSET Commands
  BY DEF TypeOK, Kill
<1>5. crashes \in Nat /\ crashes' = crashes + 1
  BY DEF TypeOK, Kill
<1>6. presence' \in Processes \union {NoProcess} /\ osLock' \in Processes \union {NoProcess}
  BY DEF TypeOK, Kill
<1>7. holders' \in [Processes -> Nat] /\ listed' \in [Processes -> SUBSET Commands]
  BY DEF TypeOK, Kill
<1>8. window' \in [Processes -> {"closed", "recovering", "open"}]
  BY DEF TypeOK, Kill
<1>9. crashes' \in Nat
  BY <1>5
<1>10. QED
  BY <1>1, <1>2, <1>3, <1>4, <1>6, <1>7, <1>8, <1>9 DEF TypeOK, Kill

LEMMA TypesHold ==
    ASSUME TypeOK, [Next]_vars
    PROVE  TypeOK'
<1>1. CASE UNCHANGED vars
  BY <1>1 DEF TypeOK, vars
<1>2. QED
  BY <1>1, CommandTypes, WindowTypes, KillTypes DEF Next

-----------------------------------------------------------------------------
(* Claims: the counters stand for the leases, and leases of one process do  *)
(* not conflict.                                                            *)

\* What a command adds to a counter.
Share(c, p, r, mode) == IF ProcessOf[c] = p /\ ClaimOf[c][r] = mode THEN 1 ELSE 0

LEMMA LeaseAdded ==
    ASSUME TypeOK, NEW c \in Commands, c \notin leased, leased' = leased \cup {c}
    PROVE  \A p, r, mode : Cardinality(Holding(p, r, mode)') = Cardinality(Holding(p, r, mode)) + Share(c, p, r, mode)
<1> TAKE p, r, mode
<1> DEFINE S == Holding(p, r, mode)
<1>1. IsFiniteSet(S) /\ Cardinality(S) \in Nat
  BY FiniteParts
<1>2. c \notin S
  BY DEF Holding
<1>3. CASE Share(c, p, r, mode) = 1
  <2>1. S' = S \cup {c}
    BY <1>3 DEF Holding, Share
  <2>2. QED
    BY <1>1, <1>2, <1>3, <2>1, FS_AddElement
<1>4. CASE Share(c, p, r, mode) = 0
  <2>1. S' = S
    BY <1>4 DEF Holding, Share
  <2>2. QED
    BY <1>1, <1>4, <2>1
<1>5. QED
  BY <1>3, <1>4 DEF Share

LEMMA LeaseRemoved ==
    ASSUME TypeOK, NEW c \in leased, leased' = leased \ {c}
    PROVE  \A p, r, mode : Cardinality(Holding(p, r, mode)') = Cardinality(Holding(p, r, mode)) - Share(c, p, r, mode)
<1> TAKE p, r, mode
<1> DEFINE S == Holding(p, r, mode)
<1>1. IsFiniteSet(S) /\ Cardinality(S) \in Nat
  BY FiniteParts
<1>2. S' = S \ {c}
  BY DEF Holding
<1>3. c \in S <=> Share(c, p, r, mode) = 1
  BY DEF Holding, Share
<1>4. Cardinality(S') = IF c \in S THEN Cardinality(S) - 1 ELSE Cardinality(S)
  BY <1>1, <1>2, FS_RemoveElement
<1>5. Share(c, p, r, mode) \in {0, 1}
  BY DEF Share
<1>6. QED
  BY <1>1, <1>3, <1>4, <1>5

Counted(p, r) ==
    /\ readers[p][r] = Cardinality(Holding(p, r, "read"))
    /\ writers[p][r] = Cardinality(Holding(p, r, "write"))

LEMMA CountedAll == ClaimsAccounted <=> \A p \in Processes, r \in Resources : Counted(p, r)
BY DEF ClaimsAccounted, Counted, Holding

LEMMA AcquireCounts ==
    ASSUME TypeOK, ClaimsAccounted, NEW c \in Commands, c \notin leased, Acquire(c)
    PROVE  ClaimsAccounted'
<1> SUFFICES ASSUME NEW p \in Processes, NEW r \in Resources PROVE Counted(p, r)'
  BY DEF ClaimsAccounted, Counted, Holding
<1>1. Counted(p, r)
  BY CountedAll
<1>2. /\ readers'[p][r] = readers[p][r] + Share(c, p, r, "read")
      /\ writers'[p][r] = writers[p][r] + Share(c, p, r, "write")
  <2>1. readers[p][r] \in Nat /\ writers[p][r] \in Nat
    <3>1. readers[p] \in [Resources -> Nat] /\ writers[p] \in [Resources -> Nat]
      BY DEF TypeOK
    <3>2. QED
      BY <3>1
  <2>2. CASE ProcessOf[c] = p
    <3>1. /\ readers'[p] = [s \in Resources |-> readers[p][s] + IF ClaimOf[c][s] = "read" THEN 1 ELSE 0]
          /\ writers'[p] = [s \in Resources |-> writers[p][s] + IF ClaimOf[c][s] = "write" THEN 1 ELSE 0]
      BY <2>2 DEF Acquire, TypeOK
    <3>2. QED
      BY <2>1, <2>2, <3>1 DEF Share
  <2>3. CASE ProcessOf[c] # p
    <3>1. readers'[p] = readers[p] /\ writers'[p] = writers[p]
      BY <2>3 DEF Acquire, TypeOK
    <3>2. QED
      BY <2>1, <2>3, <3>1 DEF Share
  <2>4. QED
    BY <2>2, <2>3
<1>3. leased' = leased \cup {c}
  BY DEF Acquire
<1>4. QED
  BY <1>1, <1>2, <1>3, LeaseAdded DEF Counted

LEMMA ReleaseCounts ==
    ASSUME TypeOK, ClaimsAccounted, NEW c \in leased, ReleaseClaims(c)
    PROVE  ClaimsAccounted'
<1> SUFFICES ASSUME NEW p \in Processes, NEW r \in Resources PROVE Counted(p, r)'
  BY DEF ClaimsAccounted, Counted, Holding
<1>0. c \in Commands
  BY DEF TypeOK
<1>1. Counted(p, r)
  BY CountedAll
<1>2. /\ readers'[p][r] = readers[p][r] - Share(c, p, r, "read")
      /\ writers'[p][r] = writers[p][r] - Share(c, p, r, "write")
  <2>1. readers[p][r] \in Nat /\ writers[p][r] \in Nat
    <3>1. readers[p] \in [Resources -> Nat] /\ writers[p] \in [Resources -> Nat]
      BY DEF TypeOK
    <3>2. QED
      BY <3>1
  <2>2. CASE ProcessOf[c] = p
    <3>1. /\ readers'[p] = [s \in Resources |-> SaturatingSub(readers[p][s], IF ClaimOf[c][s] = "read" THEN 1 ELSE 0)]
          /\ writers'[p] = [s \in Resources |-> SaturatingSub(writers[p][s], IF ClaimOf[c][s] = "write" THEN 1 ELSE 0)]
      BY <2>2 DEF ReleaseClaims, TypeOK
    <3>2. /\ ClaimOf[c][r] = "read" => readers[p][r] > 0
          /\ ClaimOf[c][r] = "write" => writers[p][r] > 0
      BY <2>2, LeaseIsCounted
    <3>3. QED
      BY <2>1, <2>2, <3>1, <3>2 DEF Share, SaturatingSub
  <2>3. CASE ProcessOf[c] # p
    <3>1. readers'[p] = readers[p] /\ writers'[p] = writers[p]
      BY <2>3 DEF ReleaseClaims, TypeOK
    <3>2. QED
      BY <2>1, <2>3, <3>1 DEF Share
  <2>4. QED
    BY <2>2, <2>3
<1>3. leased' = leased \ {c}
  BY DEF ReleaseClaims
<1>4. QED
  BY <1>1, <1>2, <1>3, LeaseRemoved DEF Counted

LEMMA KillCounts ==
    ASSUME TypeOK, ClaimsAccounted, NEW q \in Processes, Kill(q)
    PROVE  ClaimsAccounted'
<1> SUFFICES ASSUME NEW p \in Processes, NEW r \in Resources PROVE Counted(p, r)'
  BY DEF ClaimsAccounted, Counted, Holding
<1>1. CASE p = q
  <2>1. readers'[p][r] = 0 /\ writers'[p][r] = 0
    BY <1>1 DEF Kill, TypeOK
  <2>2. \A mode : Holding(p, r, mode)' = {}
    BY <1>1 DEF Kill, Holding
  <2>3. QED
    BY <2>1, <2>2, FS_EmptySet DEF Counted
<1>2. CASE p # q
  <2>1. readers'[p] = readers[p] /\ writers'[p] = writers[p]
    BY <1>2 DEF Kill, TypeOK
  <2>2. \A mode : Holding(p, r, mode)' = Holding(p, r, mode)
    BY <1>2 DEF Kill, Holding
  <2>3. QED
    BY <2>1, <2>2, CountedAll DEF Counted
<1>3. QED
  BY <1>1, <1>2

\* try_acquire and the drop of a lease keep the counters true, and a lease is
\* only given when nothing held here conflicts with it.
LEMMA ClaimsHold ==
    ASSUME CInv, [Next]_vars
    PROVE  ClaimsAccounted' /\ LeasesApart'
<1> USE DEF CInv
<1>1. CASE UNCHANGED claimVars
  BY <1>1 DEF claimVars, ClaimsAccounted, LeasesApart
<1>2. ASSUME NEW c \in Commands, Lease(c), Acquire(c) PROVE ClaimsAccounted' /\ LeasesApart'
  <2>1. c \notin leased
    BY <1>2 DEF Lease, At, Course
  <2>2. leased' = leased \cup {c} /\ ~HeldAgainst(c)
    BY <1>2 DEF Acquire
  <2>3. \A a \in leased : ProcessOf[a] = ProcessOf[c] => ~ClaimsConflict(a, c) /\ ~ClaimsConflict(c, a)
    BY <2>2, ConflictIsRefused DEF ClaimsConflict
  <2>4. LeasesApart'
    BY <2>2, <2>3 DEF LeasesApart, ClaimsConflict
  <2>5. QED
    BY <1>2, <2>1, <2>4, AcquireCounts
<1>3. ASSUME NEW c \in Commands, Unwind(c), c \in leased, ReleaseClaims(c) PROVE ClaimsAccounted' /\ LeasesApart'
  <2>1. LeasesApart'
    BY <1>3 DEF ReleaseClaims, LeasesApart, ClaimsConflict
  <2>2. QED
    BY <1>3, <2>1, ReleaseCounts
<1>4. ASSUME NEW p \in Processes, Kill(p) PROVE ClaimsAccounted' /\ LeasesApart'
  <2>1. LeasesApart'
    BY <1>4 DEF Kill, LeasesApart, ClaimsConflict
  <2>2. QED
    BY <1>4, <2>1, KillCounts
<1>5. QED
  BY <1>1, <1>2, <1>3, <1>4
  DEF Next, CommandStep, WindowStep, Start, Gate, Judge, Probe, Lease, Lock, Begin, End, Panic, Unwind,
      OpenWindow, RecoveryLock, RecoveryEnd, RecoverOne, vars, claimVars

-----------------------------------------------------------------------------
(* The instance lock: a process holds the file while it has guards, its     *)
(* commands' and in a window that recovers one of its own.                  *)

\* What the lock accounts for in one process.
Locked(p) ==
    /\ osLock = p <=> holders[p] > 0
    /\ window[p] # "recovering" => holders[p] = Cardinality(GuardsOf(p))
    /\ window[p] = "recovering" => holders[p] \in {0, 1}

LEMMA LockedAll == LockAccounted /\ OneRecovery <=> \A p \in Processes : Locked(p)
BY DEF LockAccounted, OneRecovery, Locked, GuardsOf

\* A process that does not run has no guards.
LEMMA NoGuards ==
    ASSUME CInv, NEW p \in Processes, window[p] # "open"
    PROVE  GuardsOf(p) = {}
<1>1. \A c \in guarded : c \in Commands /\ pc[c] \notin {"idle", "ended"} /\ window[ProcessOf[c]] = "open"
  BY DEF CInv, TypeOK, Course
<1>2. QED
  BY <1>1 DEF GuardsOf

\* The others are not touched by what happens to one process's guards.
LEMMA OthersStayLocked ==
    ASSUME CInv, NEW q \in Processes, NEW p \in Processes, p # q,
           holders'[p] = holders[p], window'[p] = window[p], GuardsOf(p)' = GuardsOf(p),
           \/ osLock' = osLock
           \/ osLock' = q /\ osLock = NoProcess
           \/ osLock' = NoProcess /\ osLock = q
    PROVE  Locked(p)'
<1>1. Locked(p) /\ NoProcess \notin Processes
  BY LockedAll, Places DEF CInv
<1>2. osLock' = p <=> osLock = p
  BY <1>1
<1>3. QED
  BY <1>1, <1>2 DEF Locked

LEMMA LockTaken ==
    ASSUME CInv, NEW c \in Commands, Lock(c), AcquireGuard(ProcessOf[c]), guarded' = guarded \cup {c}
    PROVE  \A p \in Processes : Locked(p)'
<1> DEFINE q == ProcessOf[c]
<1>1. q \in Processes /\ window[q] = "open" /\ window' = window /\ c \notin guarded /\ Locked(q)
  BY Places, LockedAll DEF Lock, At, CInv, Course
<1>2. holders[q] \in Nat /\ holders'[q] = holders[q] + 1
  BY <1>1 DEF CInv, TypeOK, AcquireGuard
<1>3. Locked(q)'
  <2>1. GuardsOf(q)' = GuardsOf(q) \cup {c} /\ c \notin GuardsOf(q)
    BY <1>1 DEF GuardsOf
  <2>2. IsFiniteSet(GuardsOf(q)) /\ Cardinality(GuardsOf(q)) \in Nat
    BY FiniteParts DEF CInv
  <2>3. Cardinality(GuardsOf(q)') = Cardinality(GuardsOf(q)) + 1
    BY <2>1, <2>2, FS_AddElement
  <2>4. osLock' = q
    BY <1>1 DEF AcquireGuard, LockAvailable, Locked
  <2>5. QED
    BY <1>1, <1>2, <2>3, <2>4 DEF Locked
<1>4. ASSUME NEW p \in Processes, p # q PROVE Locked(p)'
  <2>1. holders'[p] = holders[p] /\ window'[p] = window[p] /\ GuardsOf(p)' = GuardsOf(p)
    <3>1. holders'[p] = holders[p] /\ window'[p] = window[p]
      <4>1. holders' = [holders EXCEPT ![q] = @ + 1] /\ window' = window
        BY <1>1 DEF AcquireGuard
      <4>2. holders \in [Processes -> Nat]
        BY DEF CInv, TypeOK
      <4>3. QED
        BY <1>4, <4>1, <4>2
    <3>2. GuardsOf(p)' = GuardsOf(p)
      BY <1>1, <1>4 DEF GuardsOf
    <3>3. QED
      BY <3>1, <3>2
  <2>2. osLock' = osLock \/ (osLock' = q /\ osLock = NoProcess)
    BY <1>1 DEF AcquireGuard, LockAvailable
  <2>3. QED
    BY <1>1, <1>4, <2>1, <2>2, OthersStayLocked
<1>5. QED
  BY <1>3, <1>4

LEMMA LockDropped ==
    ASSUME CInv, NEW c \in guarded, DropGuard(ProcessOf[c]), guarded' = guarded \ {c}, window' = window
    PROVE  \A p \in Processes : Locked(p)'
<1> DEFINE q == ProcessOf[c]
<1>1. q \in Processes /\ window[q] = "open" /\ osLock = q /\ holders[q] > 0 /\ Locked(q)
  BY Places, LockedAll, GuardMeansLock DEF CInv, TypeOK
<1>2. holders[q] \in Nat /\ holders'[q] = SaturatingSub(holders[q], 1)
  BY <1>1 DEF CInv, TypeOK, DropGuard
<1>3. holders'[q] = holders[q] - 1
  BY <1>1, <1>2 DEF SaturatingSub
<1>4. Locked(q)'
  <2>1. GuardsOf(q)' = GuardsOf(q) \ {c} /\ c \in GuardsOf(q)
    BY DEF GuardsOf
  <2>2. IsFiniteSet(GuardsOf(q)) /\ Cardinality(GuardsOf(q)) \in Nat
    BY FiniteParts DEF CInv
  <2>3. Cardinality(GuardsOf(q)') = Cardinality(GuardsOf(q)) - 1
    BY <2>1, <2>2, FS_RemoveElement
  <2>4. osLock' = IF holders[q] <= 1 THEN NoProcess ELSE q
    BY <1>1 DEF DropGuard
  <2>5. q # NoProcess
    BY <1>1, Places
  <2>6. QED
    BY <1>1, <1>2, <1>3, <2>3, <2>4, <2>5 DEF Locked
<1>5. ASSUME NEW p \in Processes, p # q PROVE Locked(p)'
  <2>1. holders'[p] = holders[p] /\ window'[p] = window[p] /\ GuardsOf(p)' = GuardsOf(p)
    <3>1. holders'[p] = holders[p] /\ window'[p] = window[p]
      BY <1>5 DEF DropGuard, CInv, TypeOK
    <3>2. GuardsOf(p)' = GuardsOf(p)
      BY <1>1, <1>5 DEF GuardsOf
    <3>3. QED
      BY <3>1, <3>2
  <2>2. osLock' = osLock \/ (osLock' = NoProcess /\ osLock = q)
    BY <1>1 DEF DropGuard
  <2>3. QED
    BY <1>1, <1>5, <2>1, <2>2, OthersStayLocked
<1>6. QED
  BY <1>4, <1>5

LEMMA RecoveryLocked ==
    ASSUME CInv, NEW q \in Processes, RecoveryLock(q) \/ RecoveryEnd(q)
    PROVE  \A p \in Processes : Locked(p)'
<1>1. window[q] = "recovering" /\ guarded' = guarded /\ q # NoProcess /\ Locked(q)
  BY Places, LockedAll DEF RecoveryLock, RecoveryEnd, CInv
<1>2. GuardsOf(q) = {} /\ GuardsOf(q)' = {} /\ Cardinality({}) = 0
  BY <1>1, NoGuards, FS_EmptySet DEF GuardsOf
<1>3. holders[q] \in Nat /\ holders[q] \in {0, 1}
  BY <1>1 DEF CInv, TypeOK, Locked
<1>4. Locked(q)'
  <2>1. CASE RecoveryLock(q) /\ AcquireGuard(q) /\ UNCHANGED window
    <3>1. holders[q] = 0 /\ holders'[q] = holders[q] + 1
      BY <2>1 DEF RecoveryLock, AcquireGuard, CInv, TypeOK
    <3>2. osLock' = q
      BY <2>1, <3>1 DEF AcquireGuard
    <3>3. QED
      BY <1>1, <2>1, <3>1, <3>2 DEF Locked
  <2>2. CASE RecoveryLock(q) /\ UNCHANGED <<osLock, holders>> /\ window' = [window EXCEPT ![q] = "open"]
    <3>1. holders[q] = 0 /\ window'[q] = "open"
      BY <2>2 DEF RecoveryLock, CInv, TypeOK
    <3>2. QED
      BY <1>1, <1>2, <2>2, <3>1 DEF Locked
  <2>3. CASE RecoveryEnd(q)
    <3>1. holders[q] > 0 /\ holders'[q] = SaturatingSub(holders[q], 1) /\ window'[q] = "open"
      BY <2>3 DEF RecoveryEnd, DropGuard, CInv, TypeOK
    <3>2. holders'[q] = 0 /\ holders[q] <= 1
      BY <1>3, <3>1 DEF SaturatingSub
    <3>3. osLock' = NoProcess
      BY <2>3, <3>2 DEF RecoveryEnd, DropGuard
    <3>4. QED
      BY <1>1, <1>2, <3>1, <3>2, <3>3 DEF Locked
  <2>4. QED
    BY <2>1, <2>2, <2>3 DEF RecoveryLock
<1>5. ASSUME NEW p \in Processes, p # q PROVE Locked(p)'
  <2>1. holders'[p] = holders[p] /\ window'[p] = window[p] /\ GuardsOf(p)' = GuardsOf(p)
    BY <1>1, <1>5 DEF RecoveryLock, RecoveryEnd, AcquireGuard, DropGuard, GuardsOf, CInv, TypeOK
  <2>2. CASE RecoveryLock(q)
    <3>1. osLock' = osLock \/ (osLock' = q /\ osLock = NoProcess)
      BY <2>2 DEF RecoveryLock, AcquireGuard, LockAvailable
    <3>2. QED
      BY <1>5, <2>1, <3>1, OthersStayLocked
  <2>3. CASE RecoveryEnd(q)
    <3>1. osLock = q
      BY <1>1, <2>3 DEF RecoveryEnd, Locked
    <3>2. osLock' = osLock \/ (osLock' = NoProcess /\ osLock = q)
      BY <2>3, <3>1 DEF RecoveryEnd, DropGuard
    <3>3. QED
      BY <1>5, <2>1, <3>2, OthersStayLocked
  <2>4. QED
    BY <2>2, <2>3
<1>6. QED
  BY <1>4, <1>5

LEMMA KilledUnlocks ==
    ASSUME CInv, NEW q \in Processes, Kill(q)
    PROVE  \A p \in Processes : Locked(p)'
<1>1. q # NoProcess /\ window'[q] = "closed" /\ holders'[q] = 0
  BY Places DEF Kill, CInv, TypeOK
<1>2. Locked(q)'
  <2>1. GuardsOf(q)' = {} /\ Cardinality({}) = 0
    BY FS_EmptySet DEF Kill, GuardsOf
  <2>2. osLock' # q
    BY <1>1 DEF Kill
  <2>3. QED
    BY <1>1, <2>1, <2>2 DEF Locked
<1>3. ASSUME NEW p \in Processes, p # q PROVE Locked(p)'
  <2>1. holders'[p] = holders[p] /\ window'[p] = window[p] /\ GuardsOf(p)' = GuardsOf(p)
    BY <1>3 DEF Kill, GuardsOf, CInv, TypeOK
  <2>2. osLock' = osLock \/ (osLock' = NoProcess /\ osLock = q)
    BY DEF Kill
  <2>3. QED
    BY <1>3, <2>1, <2>2, OthersStayLocked
<1>4. QED
  BY <1>2, <1>3

LEMMA OpenedUnlocked ==
    ASSUME CInv, NEW q \in Processes, OpenWindow(q)
    PROVE  \A p \in Processes : Locked(p)'
<1>1. window[q] = "closed" /\ window'[q] = "recovering" /\ UNCHANGED <<osLock, holders, guarded>> /\ Locked(q)
  BY LockedAll DEF OpenWindow, CInv, TypeOK, lockVars
<1>2. Locked(q)'
  <2>1. holders[q] = 0
    BY <1>1, NoGuards, FS_EmptySet DEF Locked
  <2>2. QED
    BY <1>1, <2>1 DEF Locked
<1>3. ASSUME NEW p \in Processes, p # q PROVE Locked(p)'
  <2>1. holders'[p] = holders[p] /\ window'[p] = window[p] /\ GuardsOf(p)' = GuardsOf(p)
    BY <1>1, <1>3 DEF OpenWindow, GuardsOf, CInv, TypeOK
  <2>2. QED
    BY <1>1, <1>3, <2>1, OthersStayLocked
<1>4. QED
  BY <1>2, <1>3

\* acquire_guard, the drop of a guard and a kill keep the count.
LEMMA LocksHold ==
    ASSUME CInv, [Next]_vars
    PROVE  LockAccounted' /\ OneRecovery'
<1> SUFFICES \A p \in Processes : Locked(p)'
  BY DEF LockAccounted, OneRecovery, Locked, GuardsOf
<1>1. CASE UNCHANGED <<window, lockVars>>
  BY <1>1, LockedAll DEF CInv, Locked, GuardsOf, lockVars
<1>2. ASSUME NEW c \in Commands, CommandStep(c) PROVE \A p \in Processes : Locked(p)'
  BY <1>1, <1>2, LockTaken, LockDropped
  DEF CommandStep, Start, Gate, Judge, Probe, Lease, Lock, Begin, End, Panic, Unwind
<1>3. ASSUME NEW q \in Processes, OpenWindow(q) \/ WindowStep(q) \/ Kill(q) PROVE \A p \in Processes : Locked(p)'
  BY <1>1, <1>3, OpenedUnlocked, RecoveryLocked, KilledUnlocks DEF WindowStep, RecoverOne
<1>4. QED
  BY <1>1, <1>2, <1>3 DEF Next, vars, lockVars

-----------------------------------------------------------------------------
(* The course of a command.                                                 *)

\* What Course says of one command.
OnCourse(c) ==
    /\ pc[c] \notin {"idle", "ended"} => window[ProcessOf[c]] = "open"
    /\ pc[c] = "work" => c \in leased /\ c \in guarded
    /\ c \in leased => pc[c] \in (IF c \in LockFirst THEN {} ELSE {"lock"}) \cup {"work", "ending"}
    /\ c \in guarded =>
         pc[c] \in (IF c \in LockFirst THEN {"gate", "judge", "probe", "lease"} ELSE {})
                      \cup {"work", "ending"}
    /\ pc[c] \in {"gate", "judge", "probe", "lease"} /\ c \in LockFirst => c \in guarded
    /\ pc[c] = "lock" /\ c \notin LockFirst => c \in leased

\* A step of one command leaves the others where they are.
LEMMA OthersStayOnCourse ==
    ASSUME CInv, NEW c \in Commands, CommandStep(c), NEW d \in Commands, d # c
    PROVE  OnCourse(d)'
<1>1. OnCourse(d)
  BY DEF CInv, Course, OnCourse
<1>2. window' = window /\ pc'[d] = pc[d]
  BY DEF CInv, TypeOK, CommandStep, Start, Gate, Judge, Probe, Lease, Lock, Begin, End, Panic, Unwind, Goto
<1>3. (d \in leased' <=> d \in leased) /\ (d \in guarded' <=> d \in guarded)
  BY DEF CommandStep, Start, Gate, Judge, Probe, Lease, Lock, Begin, End, Panic, Unwind, Acquire, ReleaseClaims,
         lockVars, claimVars
<1>4. QED
  BY <1>1, <1>2, <1>3 DEF OnCourse

LEMMA StaysOnCourse ==
    ASSUME CInv, NEW c \in Commands, CommandStep(c)
    PROVE  OnCourse(c)'
<1>1. OnCourse(c) /\ pc \in [Commands -> Stages]
  BY DEF CInv, Course, OnCourse, TypeOK
<1>2. CASE Start(c) \/ Gate(c)
  BY <1>1, <1>2 DEF OnCourse, Start, Gate, Goto, At, AfterGate, lockVars, claimVars
<1>8. CASE Judge(c)
  BY <1>1, <1>8 DEF OnCourse, Judge, Goto, At, lockVars, claimVars
<1>9. CASE Probe(c)
  BY <1>1, <1>9 DEF OnCourse, Probe, Goto, At, lockVars, claimVars
<1>3. CASE Lease(c)
  BY <1>1, <1>3 DEF OnCourse, Lease, Acquire, Goto, At, AfterLease, lockVars, claimVars
<1>4. CASE Lock(c)
  BY <1>1, <1>4 DEF OnCourse, Lock, Goto, At, AfterLock, lockVars, claimVars
<1>5. CASE Begin(c) \/ End(c) \/ Panic(c)
  BY <1>1, <1>5 DEF OnCourse, Begin, End, Panic, Goto, At, lockVars, claimVars
<1>6. CASE Unwind(c)
  BY <1>1, <1>6 DEF OnCourse, Unwind, ReleaseClaims, Goto, At, lockVars, claimVars
<1>7. QED
  BY <1>2, <1>3, <1>4, <1>5, <1>6, <1>8, <1>9 DEF CommandStep

LEMMA CourseHolds ==
    ASSUME CInv, [Next]_vars
    PROVE  Course'
<1> SUFFICES ASSUME NEW c \in Commands PROVE OnCourse(c)'
  BY DEF Course, OnCourse
<1>1. OnCourse(c) /\ ProcessOf[c] \in Processes
  BY Places DEF CInv, Course, OnCourse
<1>2. ASSUME NEW d \in Commands, CommandStep(d) PROVE OnCourse(c)'
  BY <1>2, StaysOnCourse, OthersStayOnCourse
<1>3. ASSUME NEW p \in Processes, OpenWindow(p) \/ WindowStep(p) PROVE OnCourse(c)'
  <2>1. UNCHANGED <<pc, leased, guarded>> /\ (window[ProcessOf[c]] = "open" => window'[ProcessOf[c]] = "open")
    BY <1>1, <1>3 DEF CInv, TypeOK, OpenWindow, WindowStep, RecoveryLock, RecoveryEnd, RecoverOne, lockVars, claimVars
  <2>2. QED
    BY <1>1, <2>1 DEF OnCourse
<1>4. ASSUME NEW p \in Processes, Kill(p) PROVE OnCourse(c)'
  <2>1. CASE ProcessOf[c] = p
    BY <1>1, <1>4, <2>1 DEF OnCourse, Kill, CInv, TypeOK
  <2>2. CASE ProcessOf[c] # p
    BY <1>1, <1>4, <2>2 DEF OnCourse, Kill, CInv, TypeOK
  <2>3. QED
    BY <2>1, <2>2
<1>5. CASE UNCHANGED vars
  BY <1>1, <1>5 DEF OnCourse, vars
<1>6. QED
  BY <1>2, <1>3, <1>4, <1>5 DEF Next

LEMMA JudgedHolds ==
    ASSUME CInv, [Next]_vars
    PROVE  Judged'
<1> SUFFICES ASSUME NEW c \in Commands, pc'[c] \in {"judge", "probe"}
             PROVE  blocker'[c] \in Commands /\ ClaimsConflict(c, blocker'[c])
  BY DEF Judged, ClaimsConflict
<1>1. CASE pc[c] \in {"judge", "probe"} /\ blocker'[c] = blocker[c]
  BY <1>1 DEF CInv, Judged
<1>2. ASSUME Gate(c) PROVE blocker'[c] \in Commands /\ ClaimsConflict(c, blocker'[c])
  BY <1>2 DEF CInv, TypeOK, Gate, Goto, AfterGate, Unfinished
<1>3. CASE Judge(c) \/ Probe(c)
  BY <1>1, <1>3 DEF CInv, TypeOK, Judge, Probe, At
<1>4. CASE Start(c) \/ Lease(c) \/ Lock(c) \/ End(c) \/ Panic(c)
  BY <1>1, <1>4 DEF CInv, TypeOK, Start, Lease, Lock, End, Panic, Goto, AfterLease, AfterLock
<1>5. CASE Begin(c) \/ Unwind(c)
  BY <1>1, <1>5 DEF CInv, TypeOK, Begin, Unwind, Goto
<1>6. ASSUME NEW d \in Commands, d # c, CommandStep(d) PROVE blocker'[c] \in Commands /\ ClaimsConflict(c, blocker'[c])
  <2>1. pc'[c] = pc[c] /\ blocker'[c] = blocker[c]
    BY <1>6 DEF CInv, TypeOK, CommandStep, Start, Gate, Judge, Probe, Lease, Lock, Begin, End, Panic, Unwind, Goto
  <2>2. QED
    BY <1>1, <2>1
<1>7. CASE UNCHANGED <<pc, blocker>>
  BY <1>1, <1>7
<1>8. ASSUME NEW p \in Processes, Kill(p) PROVE blocker'[c] \in Commands /\ ClaimsConflict(c, blocker'[c])
  BY <1>1, <1>8 DEF Kill, CInv, TypeOK
<1>9. QED
  BY <1>2, <1>3, <1>4, <1>5, <1>6, <1>7, <1>8
  DEF Next, CommandStep, WindowStep, OpenWindow, RecoveryLock, RecoveryEnd, RecoverOne, vars

-----------------------------------------------------------------------------
(* The invariant, and what it is for.                                       *)

LEMMA InitCoordinated ==
    ASSUME Init
    PROVE  CInv
<1>1. TypeOK
  BY DEF Init, TypeOK, Stages
<1>2. leased = {} /\ guarded = {} /\ \A c \in Commands : pc[c] = "idle"
  BY DEF Init
<1>3. ClaimsAccounted
  <2>1. \A p, r, mode : Holding(p, r, mode) = {}
    BY <1>2 DEF Holding
  <2>2. \A p \in Processes, r \in Resources : readers[p][r] = 0 /\ writers[p][r] = 0
    BY DEF Init
  <2>3. QED
    BY <2>1, <2>2, FS_EmptySet, CountedAll DEF Counted
<1>4. LockAccounted /\ OneRecovery
  <2>1. \A p \in Processes : holders[p] = 0 /\ osLock # p /\ GuardsOf(p) = {}
    BY <1>2, Places DEF Init, GuardsOf
  <2>2. QED
    BY <2>1, FS_EmptySet, LockedAll DEF Locked
<1>5. LeasesApart /\ Course /\ Judged
  BY <1>2 DEF LeasesApart, Course, Judged
<1>6. QED
  BY <1>1, <1>3, <1>4, <1>5 DEF CInv

LEMMA CoordinationInvariance == Spec => []CInv
<1>1. CInv /\ [Next]_vars => CInv'
  <2> SUFFICES ASSUME CInv, [Next]_vars PROVE CInv'
    OBVIOUS
  <2>1. TypeOK'
    BY TypesHold DEF CInv
  <2>2. QED
    BY <2>1, ClaimsHold, LocksHold, CourseHolds, JudgedHolds DEF CInv
<1>2. QED
  BY <1>1, InitCoordinated, PTL DEF Spec

\* Every variable keeps its type, for any number of programs and commands.
THEOREM CoordinationTyped == Spec => []TypeOK
<1>1. CInv => TypeOK
  BY DEF CInv
<1>2. QED
  BY <1>1, CoordinationInvariance, PTL

\* Two changes whose claims conflict are never carried out together, in one
\* process or in two, and the coordinator's counters and the lock file stand
\* for exactly the leases and guards that are alive, whatever was killed or
\* unwound (resources.rs, lock.rs).
THEOREM ConflictsAreKeptApart == Spec => []ClaimsAreExclusive
<1>1. ASSUME CInv, NEW a \in Commands, NEW b \in Commands, a # b, Working(a), Working(b)
      PROVE  ~ClaimsConflict(a, b)
  <2>1. a \in leased /\ b \in leased /\ a \in guarded /\ b \in guarded
    BY <1>1 DEF CInv, Course, Working
  <2>2. ProcessOf[a] = ProcessOf[b]
    BY <1>1, <2>1, GuardMeansLock DEF CInv
  <2>3. QED
    BY <1>1, <2>1, <2>2 DEF CInv, LeasesApart
<1>2. CInv => ClaimsAreExclusive
  BY <1>1 DEF ClaimsAreExclusive, ConflictsNeverMeet, CInv
<1>3. QED
  BY <1>2, CoordinationInvariance, PTL

\* A window never reconciles an operation that is being carried out, and a gate
\* never calls one interrupted: its process has the lock file, or its lease is
\* counted in the same process (lib.rs, operation_recovery.rs owner_alive).
THEOREM LiveWorkIsSeen == Spec => LiveWorkIsKnown
<1>1. ASSUME CInv, NEW p \in Processes, NEW o \in Commands, RecoverOne(p, o), Working(o)
      PROVE  FALSE
  <2>1. o \in guarded
    BY <1>1 DEF CInv, Course, Working
  <2>2. osLock = ProcessOf[o] /\ window[ProcessOf[o]] = "open"
    BY <1>1, <2>1, GuardMeansLock DEF CInv
  <2>3. osLock = p /\ window[p] = "recovering"
    BY <1>1, LockedAll DEF RecoverOne, CInv, Locked
  <2>4. QED
    BY <2>2, <2>3
<1>2. ASSUME CInv, NEW c \in Commands, Probe(c), verdict'[c] = "interrupted",
             Working(blocker[c]), blocker[c] \in Commands
      PROVE  FALSE
  <2> DEFINE p == ProcessOf[c]
             o == blocker[c]
  <2>1. ClaimsConflict(c, o) /\ o \in leased /\ o \in guarded /\ p \in Processes
    BY <1>2, Places DEF CInv, Judged, Course, Working, Probe, At
  <2>2. ~OwnerAlive(p, o)
    BY <1>2 DEF Probe, CInv, TypeOK
  <2>3. CASE ProcessOf[o] = p
    <3>1. PICK r \in Resources : ClaimOf[o][r] # "none"
      BY <2>1 DEF ClaimsConflict
    <3>2. CarryingOut(p, o)
      BY <1>2, <2>1, <2>3, <3>1, LeaseIsCounted DEF CInv, CarryingOut
    <3>3. QED
      BY <2>2, <3>2 DEF OwnerAlive
  <2>4. CASE ProcessOf[o] # p
    <3>1. osLock = ProcessOf[o] /\ ProcessOf[o] # NoProcess
      BY <1>2, <2>1, GuardMeansLock, Places DEF CInv
    <3>2. holders[p] \in Nat /\ ~(holders[p] > 0)
      BY <1>2, <2>1, <2>4, <3>1, LockedAll DEF CInv, Locked, TypeOK
    <3>3. QED
      BY <2>2, <3>1, <3>2 DEF OwnerAlive, HeldByAnother
  <2>5. QED
    BY <2>3, <2>4
<1>3. CInv /\ [Next]_vars =>
        \A p \in Processes, o \in Commands : RecoverOne(p, o) => ~(Working(o) /\ window[ProcessOf[o]] = "open")
  BY <1>1
<1>4. CInv /\ [Next]_vars =>
        \A c, o \in Commands :
            /\ Probe(c) /\ verdict'[c] = "interrupted" /\ blocker[c] = o
            => ~(Working(o) /\ row[o] = "committing")
  BY <1>2
<1>5. Spec => RecoveryLeavesLiveAlone
  BY <1>3, CoordinationInvariance, PTL DEF Spec, RecoveryLeavesLiveAlone
<1>6. Spec => RunningNotCalledInterrupted
  BY <1>4, CoordinationInvariance, PTL DEF Spec, RunningNotCalledInterrupted
<1>7. QED
  BY <1>5, <1>6 DEF LiveWorkIsKnown

-----------------------------------------------------------------------------
(***************************************************************************)
(* The window and its threads. Four arguments that share no state but the  *)
(* window being open: the count of changes is what the close looks at, and *)
(* stands for the queue and a body just finished (CountTrue); the switch   *)
(* ends where the newest job of the queue takes it, and presses that join  *)
(* change neither (NewestLast); the oldest version a caller must see was   *)
(* there before its read was numbered (ReadsFresh); and one writer at a    *)
(* time saves either the newest place or one with a newer behind it        *)
(* (NewestKept).                                                           *)
(***************************************************************************)
Job == [job : 1..MaxPresses, to : Settings]

\* What the proofs need of the types, and the numbers of jobs: changes have
\* the first MaxPresses, reads the ones behind.
JobsTyped ==
    /\ next \in Nat /\ nextRead \in Nat /\ pressed \in Nat
    /\ next <= pressed /\ pressed <= MaxPresses
    /\ queue \in Seq(Job)
    /\ stage \in {"idle", "body", "counted"}
    /\ reads \subseteq 1..(MaxPresses + nextRead)
    /\ finished \in [DOMAIN finished -> Nat]
    /\ DOMAIN finished \subseteq 1..(MaxPresses + nextRead)
    /\ switch \in [to : Settings \union {NoSetting}, version : Nat]
    /\ asked \in [since : Nat, next : Nat]
    /\ open \in BOOLEAN /\ allDone \in BOOLEAN

\* The changes waiting are those of the queue and one not subtracted yet.
CountTrue ==
    /\ changesWaiting = Len(queue) + (IF stage = "counted" THEN 1 ELSE 0)
    /\ stage = "body" => queue # <<>>
    /\ ~open => changesWaiting = 0

\* The newest job is the change asked for last, or has been carried out.
NewestLast ==
    /\ lastChange = lastPressed
    /\ queue # <<>> => queue[Len(queue)].to = lastChange
    /\ allDone /\ queue = <<>> => switch.to = lastChange

\* What a caller must see was there when the read it gets was asked for.
ReadsFresh ==
    /\ asked.since <= switch.version /\ asked.next <= switch.version
    /\ readRunning \in DOMAIN finished => finished[readRunning] >= asked.since
    /\ ~staleRead

\* A place not saved has a writer, and the writer has the newest or a newer
\* one is pending.
NewestKept ==
    /\ place \in Nat \ {0} /\ pending \in {0, place}
    /\ placeWriters \in Nat /\ inWriting \in {0, 1}
    /\ saving # {} => inWriting = 1 /\ \E g \in Nat : saving = {g} /\ (pending = 0 => g = place)
    /\ pending # 0 => placeWriters + inWriting > 0
    /\ pending = 0 /\ saving = {} => saved = place

JInv == JobsTyped /\ CountTrue /\ NewestLast /\ ReadsFresh /\ NewestKept

-----------------------------------------------------------------------------
(* Queues.                                                                  *)

\* A change sent to the thread is the newest, and what was there stays.
LEMMA Sent ==
    ASSUME NEW S, NEW q \in Seq(S), NEW e \in S
    PROVE  /\ Append(q, e) \in Seq(S)
           /\ Append(q, e) # <<>>
           /\ Len(Append(q, e)) = Len(q) + 1 /\ Len(q) \in Nat
           /\ Append(q, e)[Len(Append(q, e))] = e
BY AppendProperties, LenProperties

\* The body carried out was the oldest: the newest stays, unless it was alone.
LEMMA Carried ==
    ASSUME NEW S, NEW q \in Seq(S), q # <<>>
    PROVE  /\ Tail(q) \in Seq(S)
           /\ Len(q) \in Nat \ {0} /\ Len(Tail(q)) = Len(q) - 1
           /\ Head(q) \in S
           /\ Tail(q) # <<>> => Tail(q)[Len(Tail(q))] = q[Len(q)]
           /\ Tail(q) = <<>> => Head(q) = q[Len(q)]
<1>1. Tail(q) \in Seq(S) /\ Len(q) \in Nat /\ Len(q) # 0 /\ Len(Tail(q)) = Len(q) - 1 /\ Head(q) = q[1] /\ Head(q) \in S
  BY EmptySeq, HeadTailProperties, LenProperties, ElementOfSeq
<1>2. CASE Tail(q) = <<>>
  <2>1. Len(q) = 1
    BY <1>1, <1>2
  <2>2. QED
    BY <1>1, <1>2, <2>1
<1>3. CASE Tail(q) # <<>>
  <2>1. Len(q) - 1 \in 1..(Len(q) - 1)
    <3>1. Len(Tail(q)) # 0
      BY <1>1, <1>3, EmptySeq
    <3>2. QED
      BY <1>1, <3>1
  <2>2. Tail(q)[Len(q) - 1] = q[Len(q) - 1 + 1]
    BY <1>1, <2>1, HeadTailProperties
  <2>3. QED
    BY <1>1, <1>3, <2>2
<1>4. QED
  BY <1>2, <1>3

-----------------------------------------------------------------------------
(* Types and numbers.                                                       *)

LEMMA AnswerTyped ==
    ASSUME JobsTyped, NEW j \in 1..(MaxPresses + nextRead)
    PROVE  /\ DOMAIN Answer(j) = DOMAIN finished \union {j}
           /\ DOMAIN Answer(j) \subseteq 1..(MaxPresses + nextRead)
           /\ Answer(j) \in [DOMAIN Answer(j) -> Nat]
           /\ \A k \in DOMAIN Answer(j) : Answer(j)[k] \in {switch.version, finished[k]} /\ (k = j => Answer(j)[k] = switch.version)
BY DEF JobsTyped, Answer

LEMMA PressTyped ==
    ASSUME JobsTyped, NEW s \in Settings, Press(s)
    PROVE  JobsTyped'
<1>1. CASE Joins(s)
  <2>1. pressed' \in Nat /\ next' = next /\ next <= pressed' /\ pressed' <= MaxPresses
    BY <1>1, JobsAssumption DEF Press, JobsTyped
  <2>2. QED
    BY <1>1, <2>1 DEF Press, JobsTyped
<1>2. CASE ~Joins(s)
  <2>1. next + 1 \in 1..MaxPresses /\ pressed + 1 <= MaxPresses
    BY JobsAssumption DEF Press, JobsTyped
  <2>2. [job |-> next + 1, to |-> s] \in Job
    BY <2>1 DEF Job
  <2>3. queue' \in Seq(Job)
    <3>1. queue \in Seq(Job) /\ queue' = Append(queue, [job |-> next + 1, to |-> s])
      BY <1>2 DEF Press, SubmitChange, JobsTyped
    <3>2. QED
      BY <2>2, <3>1, Sent
  <2>4. next' = next + 1 /\ pressed' = pressed + 1 /\ next' \in Nat /\ pressed' \in Nat /\ next' <= pressed'
    BY <1>2 DEF Press, SubmitChange, JobsTyped
  <2>5. QED
    BY <1>2, <2>1, <2>3, <2>4 DEF Press, SubmitChange, JobsTyped
<1>3. QED
  BY <1>1, <1>2

LEMMA ReadTyped ==
    ASSUME JobsTyped, AskRead \/ Poll
    PROVE  JobsTyped'
<1>1. /\ nextRead' \in {nextRead, nextRead + 1}
      /\ reads' \subseteq reads \union {MaxPresses + nextRead'} /\ (nextRead' = nextRead => reads' \subseteq reads)
      /\ UNCHANGED <<next, queue, stage, switch, allDone>>
  BY DEF JobsTyped, AskRead, Poll, StartRead, ReadJob
<1>7. open' \in BOOLEAN
  BY DEF JobsTyped, AskRead, Poll, ClosesNow
<1>2. asked' \in [since : Nat, next : Nat]
  BY DEF JobsTyped, AskRead, Poll, StartRead
<1>3. finished' \in [DOMAIN finished' -> Nat] /\ DOMAIN finished' \subseteq DOMAIN finished
  BY DEF JobsTyped, AskRead, Poll
<1>4. pressed' = pressed
  BY DEF AskRead, Poll
<1>5. 1..(MaxPresses + nextRead) \subseteq 1..(MaxPresses + nextRead')
      /\ (nextRead' = nextRead + 1 => MaxPresses + nextRead' \in 1..(MaxPresses + nextRead'))
  <2>1. MaxPresses \in Nat /\ nextRead \in Nat
    BY JobsAssumption DEF JobsTyped
  <2>2. ASSUME NEW n \in Nat, NEW m \in Nat, n <= m PROVE 1..n \subseteq 1..m /\ (m # 0 => m \in 1..m)
    BY <2>2
  <2>3. /\ MaxPresses + nextRead \in Nat /\ MaxPresses + nextRead' \in Nat
        /\ MaxPresses + nextRead <= MaxPresses + nextRead'
        /\ nextRead' = nextRead + 1 => MaxPresses + nextRead' # 0
    <3>1. nextRead' = nextRead \/ nextRead' = nextRead + 1
      BY <1>1
    <3>2. ASSUME NEW k, NEW n \in Nat, NEW m \in Nat, k = n \/ k = n + 1
          PROVE  /\ m + n \in Nat /\ m + k \in Nat /\ m + n <= m + k
                 /\ k = n + 1 => m + k # 0
      BY <3>2
    <3>3. QED
      BY <2>1, <3>1, <3>2
  <2>4. QED
    BY <2>2, <2>3
<1>6. QED
  BY <1>1, <1>2, <1>3, <1>4, <1>5, <1>7 DEF JobsTyped

\* What a body that finished leaves, whatever its outcome.
LEMMA BodyFinished ==
    ASSUME JobsTyped, CountTrue, FinishBody
    PROVE  /\ queue # <<>> /\ Head(queue) \in Job /\ queue' = Tail(queue)
           /\ Head(queue).job \in 1..(MaxPresses + nextRead) /\ Head(queue).to \in Settings
           /\ finished' = Answer(Head(queue).job)
           /\ switch' \in {[to |-> Head(queue).to, version |-> switch.version + 1], switch}
           /\ allDone' \in BOOLEAN /\ (allDone' => allDone /\ switch'.to = Head(queue).to)
           /\ stage = "body" /\ stage' = "counted" /\ open' = open /\ changesWaiting' = changesWaiting
<1>1. queue # <<>>
  BY DEF FinishBody, CountTrue
<1>2. Head(queue) \in Job
  BY <1>1, Carried DEF JobsTyped
<1>3. Head(queue).job \in 1..(MaxPresses + nextRead) /\ Head(queue).to \in Settings
  BY <1>2, JobsAssumption DEF Job, JobsTyped
<1>4. PICK outcome \in Outcomes :
        /\ finished' = Answer(Head(queue).job)
        /\ switch' = IF outcome \in {"ok", "panicked late"}
                     THEN [to |-> Head(queue).to, version |-> switch.version + 1]
                     ELSE switch
        /\ allDone' = (allDone /\ outcome = "ok")
  BY DEF FinishBody
<1>5. switch' \in {[to |-> Head(queue).to, version |-> switch.version + 1], switch}
  BY <1>4
<1>6. allDone' => allDone /\ switch'.to = Head(queue).to
  BY <1>4
<1>7. queue' = Tail(queue) /\ stage = "body" /\ stage' = "counted" /\ open' = open /\ changesWaiting' = changesWaiting
  BY DEF FinishBody
<1>8. allDone' \in BOOLEAN
  BY <1>4
<1>9. QED
  BY <1>1, <1>2, <1>3, <1>4, <1>5, <1>6, <1>7, <1>8

LEMMA BackendTyped ==
    ASSUME JobsTyped, CountTrue, Backend
    PROVE  JobsTyped'
<1>1. CASE TakeBody \/ SubtractBody
  BY <1>1 DEF TakeBody, SubtractBody, JobsTyped, frontVars
<1>2. CASE FinishBody
  <2>1. queue' \in Seq(Job)
    <3>1. queue \in Seq(Job) /\ queue # <<>> /\ queue' = Tail(queue)
      BY <1>2, BodyFinished DEF JobsTyped
    <3>2. Tail(queue) \in Seq(Job)
      BY <3>1, Carried
    <3>3. QED
      BY <3>1, <3>2
  <2>2. switch' \in [to : Settings \union {NoSetting}, version : Nat]
    BY <1>2, BodyFinished DEF JobsTyped
  <2>3. DOMAIN finished' \subseteq 1..(MaxPresses + nextRead) /\ finished' \in [DOMAIN finished' -> Nat]
    BY <1>2, BodyFinished, AnswerTyped
  <2>4. UNCHANGED <<next, nextRead, pressed, reads, asked>>
    BY <1>2 DEF FinishBody
  <2>5. QED
    BY <1>2, <2>1, <2>2, <2>3, <2>4, BodyFinished DEF JobsTyped
<1>3. ASSUME NEW j \in reads, FinishRead(j) PROVE JobsTyped'
  <2>1. j \in 1..(MaxPresses + nextRead) /\ finished' = Answer(j) /\ reads' \subseteq reads
    BY <1>3 DEF FinishRead, JobsTyped
  <2>2. DOMAIN finished' \subseteq 1..(MaxPresses + nextRead) /\ finished' \in [DOMAIN finished' -> Nat]
    BY <2>1, AnswerTyped
  <2>3. QED
    BY <1>3, <2>1, <2>2 DEF FinishRead, JobsTyped, frontVars
<1>4. QED
  BY <1>1, <1>2, <1>3 DEF Backend

LEMMA JobTypesHold ==
    ASSUME JobsTyped, CountTrue, [JobsNext]_jobsVars
    PROVE  JobsTyped'
<1>1. CASE UNCHANGED <<backVars, frontVars>>
  BY <1>1 DEF JobsTyped, backVars, frontVars
<1>2. CASE Close
  BY <1>2 DEF Close, JobsTyped, frontVars
<1>3. CASE PlaceNext
  BY <1>1, <1>3 DEF PlaceNext, Writer, Move, TakeWriting, TakePending, SavePlace
<1>4. CASE UNCHANGED jobsVars
  BY <1>1, <1>4 DEF jobsVars
<1>5. QED
  BY <1>2, <1>3, <1>4, PressTyped, ReadTyped, BackendTyped DEF JobsNext, FrontNext

-----------------------------------------------------------------------------
(* The three invariants of the jobs.                                        *)

LEMMA CountHolds ==
    ASSUME JobsTyped, CountTrue, [JobsNext]_jobsVars
    PROVE  CountTrue'
<1>0. Len(queue) \in Nat /\ (queue = <<>> <=> Len(queue) = 0)
  BY EmptySeq, LenProperties DEF JobsTyped
<1>1. CASE UNCHANGED <<queue, stage, changesWaiting, open>>
  BY <1>1 DEF CountTrue
<1>2. ASSUME NEW s \in Settings, Press(s), ~Joins(s) PROVE CountTrue'
  <2>1. [job |-> next + 1, to |-> s] \in Job
    BY <1>2, JobsAssumption DEF Press, JobsTyped, Job
  <2>2. Len(queue') = Len(queue) + 1 /\ queue' # <<>>
    BY <1>2, <2>1, Sent DEF Press, SubmitChange, JobsTyped
  <2>3. QED
    BY <1>0, <1>2, <2>2 DEF Press, SubmitChange, CountTrue
<1>3. CASE TakeBody \/ SubtractBody
  BY <1>0, <1>3 DEF TakeBody, SubtractBody, CountTrue, JobsTyped
<1>4. CASE FinishBody
  <2>1. Len(queue') = Len(queue) - 1
    BY <1>4, BodyFinished, Carried DEF JobsTyped
  <2>2. changesWaiting = Len(queue) /\ changesWaiting' = Len(queue') + 1
    BY <1>0, <1>4, <2>1, BodyFinished DEF CountTrue
  <2>3. QED
    BY <1>4, <2>2, BodyFinished DEF CountTrue
<1>5. CASE Poll
  BY <1>0, <1>5 DEF Poll, ClosesNow, CountTrue
<1>6. CASE Close
  <2>1. changesWaiting \in Nat
    BY <1>0 DEF CountTrue
  <2>2. open /\ (changesWaiting > 0 => open' = open)
    BY <1>6 DEF Close
  <2>3. QED
    <3>1. UNCHANGED <<queue, stage, changesWaiting>>
      BY <1>6 DEF Close
    <3>2. CASE changesWaiting > 0
      BY <2>2, <3>1, <3>2 DEF CountTrue
    <3>3. CASE changesWaiting = 0
      BY <3>1, <3>3 DEF CountTrue
    <3>4. QED
      BY <2>1, <3>2, <3>3
<1>7. QED
  BY <1>1, <1>2, <1>3, <1>4, <1>5, <1>6
  DEF JobsNext, FrontNext, PlaceNext, Writer, Backend, Press, AskRead, FinishRead, Move, TakeWriting, TakePending,
      SavePlace, jobsVars, backVars

LEMMA NewestHolds ==
    ASSUME JobsTyped, CountTrue, NewestLast, [JobsNext]_jobsVars
    PROVE  NewestLast'
<1>1. CASE UNCHANGED <<queue, lastChange, lastPressed, allDone, switch>>
  BY <1>1 DEF NewestLast
<1>2. ASSUME NEW s \in Settings, Press(s) PROVE NewestLast'
  <2>1. CASE Joins(s)
    BY <1>2, <2>1 DEF Press, Joins, NewestLast
  <2>2. CASE ~Joins(s)
    <3>1. [job |-> next + 1, to |-> s] \in Job
      BY <1>2, JobsAssumption DEF Press, JobsTyped, Job
    <3>2. queue' # <<>> /\ queue'[Len(queue')] = [job |-> next + 1, to |-> s]
      BY <1>2, <2>2, <3>1, Sent DEF Press, SubmitChange, JobsTyped
    <3>3. QED
      BY <1>2, <2>2, <3>2 DEF Press, NewestLast
  <2>3. QED
    BY <2>1, <2>2
<1>3. CASE FinishBody
  <2>1. queue[Len(queue)].to = lastChange
    BY <1>3, BodyFinished DEF NewestLast
  <2>2. /\ queue' # <<>> => queue'[Len(queue')] = queue[Len(queue)]
        /\ queue' = <<>> => Head(queue) = queue[Len(queue)]
    BY <1>3, BodyFinished, Carried DEF JobsTyped
  <2>3. UNCHANGED <<lastChange, lastPressed>>
    BY <1>3 DEF FinishBody
  <2>4. QED
    BY <1>3, <2>1, <2>2, <2>3, BodyFinished DEF NewestLast
<1>4. QED
  BY <1>1, <1>2, <1>3
  DEF JobsNext, FrontNext, PlaceNext, Writer, Backend, TakeBody, SubtractBody, AskRead, FinishRead, Poll, Close, Move,
      TakeWriting, TakePending, SavePlace, jobsVars, backVars, frontVars

LEMMA ReadsHold ==
    ASSUME JobsTyped, CountTrue, ReadsFresh, [JobsNext]_jobsVars
    PROVE  ReadsFresh'
<1>0. /\ MaxPresses \in Nat /\ nextRead \in Nat /\ switch.version \in Nat /\ asked.since \in Nat /\ asked.next \in Nat
      /\ \A j \in DOMAIN finished : finished[j] \in Nat
      /\ NoJob \notin DOMAIN finished /\ ReadJob(nextRead + 1) \notin DOMAIN finished
  BY JobsAssumption DEF JobsTyped, NoJob, ReadJob
<1>1. CASE UNCHANGED <<finished, switch, readRunning, asked, staleRead>>
  BY <1>1 DEF ReadsFresh
<1>2. CASE AskRead
  <2>1. finished' = finished /\ switch' = switch /\ staleRead' = staleRead
    BY <1>2 DEF AskRead, placeVars
  <2>2. CASE readRunning = NoJob
    <3>1. readRunning' = ReadJob(nextRead + 1) /\ asked'.since = switch.version /\ asked'.next = 0
      BY <1>2, <2>2 DEF AskRead, StartRead
    <3>2. QED
      BY <1>0, <2>1, <3>1 DEF ReadsFresh
  <2>3. CASE readRunning # NoJob
    <3>1. readRunning' = readRunning /\ asked'.since = asked.since /\ asked'.next = switch.version
      BY <1>2, <2>3 DEF AskRead, JobsTyped
    <3>2. QED
      BY <1>0, <2>1, <3>1 DEF ReadsFresh
  <2>4. QED
    BY <2>2, <2>3
<1>3. ASSUME NEW j \in 1..(MaxPresses + nextRead), finished' = Answer(j), UNCHANGED <<readRunning, asked, staleRead>>,
             switch'.version \in {switch.version, switch.version + 1}
      PROVE  ReadsFresh'
  <2>1. asked.since <= switch'.version /\ asked.next <= switch'.version
    BY <1>0, <1>3 DEF ReadsFresh
  <2>2. ASSUME readRunning \in DOMAIN finished' PROVE finished'[readRunning] >= asked.since
    <3>1. CASE readRunning = j
      BY <1>0, <1>3, <2>2, <3>1, AnswerTyped DEF ReadsFresh
    <3>2. CASE readRunning # j
      BY <1>3, <2>2, <3>2 DEF Answer, ReadsFresh
    <3>3. QED
      BY <3>1, <3>2
  <2>3. QED
    BY <1>3, <2>1, <2>2 DEF ReadsFresh
<1>4. CASE FinishBody
  <2>1. switch'.version \in {switch.version, switch.version + 1}
    BY <1>4, BodyFinished
  <2>2. UNCHANGED <<readRunning, asked, staleRead>>
    BY <1>4 DEF FinishBody
  <2>3. QED
    BY <1>3, <1>4, <2>1, <2>2, BodyFinished
<1>5. ASSUME NEW j \in reads, FinishRead(j) PROVE ReadsFresh'
  BY <1>3, <1>5 DEF FinishRead, JobsTyped, frontVars
<1>6. CASE Poll
  <2>1. /\ finished' = [j \in DOMAIN finished \ Taken |-> finished[j]]
        /\ UNCHANGED switch
        /\ staleRead' = (staleRead \/ (readRunning \in Taken /\ finished[readRunning] < asked.since))
    BY <1>6 DEF Poll
  <2>2. ~staleRead'
    <3>1. CASE readRunning \in Taken
      <4>1. readRunning \in DOMAIN finished
        BY <3>1 DEF Taken
      <4>2. finished[readRunning] \in Nat /\ ~(finished[readRunning] < asked.since)
        BY <1>0, <4>1 DEF ReadsFresh
      <4>3. QED
        BY <2>1, <4>2 DEF ReadsFresh
    <3>2. QED
      BY <2>1, <3>1 DEF ReadsFresh
  <2>3. CASE readRunning \in Taken /\ readNext
    BY <1>0, <1>6, <2>1, <2>2, <2>3 DEF Poll, ReadsFresh
  <2>4. CASE ~(readRunning \in Taken /\ readNext)
    <3>1. asked' = asked /\ readRunning' \in {NoJob, readRunning}
      BY <1>6, <2>4 DEF Poll
    <3>2. QED
      BY <1>0, <2>1, <2>2, <3>1 DEF ReadsFresh
  <2>5. QED
    BY <2>3, <2>4
<1>7. QED
  BY <1>1, <1>2, <1>4, <1>5, <1>6
  DEF JobsNext, FrontNext, PlaceNext, Writer, Backend, TakeBody, SubtractBody, Press, Close, Move, TakeWriting,
      TakePending, SavePlace, jobsVars, backVars, frontVars

-----------------------------------------------------------------------------
(* The writer of the window's place.                                        *)

LEMMA PlaceHolds ==
    ASSUME NewestKept, [JobsNext]_jobsVars
    PROVE  NewestKept'
<1>0. Cardinality({}) = 0 /\ \A g : Cardinality({g}) = 1
  BY FS_EmptySet, FS_Singleton
<1>1. CASE UNCHANGED placeVars
  BY <1>1 DEF NewestKept, placeVars
<1>2. CASE Move
  BY <1>2 DEF Move, NewestKept
<1>3. CASE TakeWriting
  BY <1>3 DEF TakeWriting, WritingFree, NewestKept
<1>4. CASE TakePending
  <2>1. saving = {} /\ inWriting = 1
    BY <1>0, <1>4 DEF TakePending, NewestKept
  <2>2. QED
    BY <1>4, <2>1 DEF TakePending, NewestKept
<1>5. CASE SavePlace
  <2>1. PICK g \in saving : saved' = g /\ saving' = saving \ {g} /\ UNCHANGED <<place, pending, placeWriters, inWriting>>
    BY <1>5 DEF SavePlace
  <2>2. saving = {g} /\ (pending = 0 => g = place)
    BY DEF NewestKept
  <2>3. QED
    BY <2>1, <2>2 DEF NewestKept
<1>6. QED
  BY <1>1, <1>2, <1>3, <1>4, <1>5
  DEF JobsNext, FrontNext, PlaceNext, Writer, Backend, TakeBody, SubtractBody, FinishBody, FinishRead, Press, AskRead,
      Poll, Close, jobsVars

-----------------------------------------------------------------------------
(* The invariant, and what it is for.                                       *)

LEMMA InitKept ==
    ASSUME JobsInit
    PROVE  JInv
<1>1. queue \in Seq(Job) /\ Len(queue) = 0
  BY DEF JobsInit
<1>2. JobsTyped
  BY <1>1, JobsAssumption DEF JobsInit, JobsTyped
<1>3. CountTrue /\ NewestLast
  BY <1>1 DEF JobsInit, CountTrue, NewestLast
<1>4. ReadsFresh /\ NewestKept
  BY DEF JobsInit, ReadsFresh, NewestKept
<1>5. QED
  BY <1>2, <1>3, <1>4 DEF JInv

LEMMA JobsInvariance == JobsSpec => []JInv
<1>1. JInv /\ [JobsNext]_jobsVars => JInv'
  BY JobTypesHold, CountHolds, NewestHolds, ReadsHold, PlaceHolds DEF JInv
<1>2. QED
  BY <1>1, InitKept, PTL DEF JobsSpec

\* A window never closes on a change running or waiting its turn, ends on what
\* was pressed last when all of it was done, never answers a read with what was
\* before the change it was asked for after, and saves its newest place
\* (background.rs, invoke.ts, window.rs).
THEOREM WindowIsUpToDate == JobsSpec => []WindowKeepsUp
<1>1. JInv => ClosedOnlyWhenIdle
  <2>1. ASSUME JInv, ~open PROVE queue = <<>> /\ stage \in {"idle", "counted"}
    <3>1. Len(queue) \in Nat /\ Len(queue) + (IF stage = "counted" THEN 1 ELSE 0) = 0
      BY <2>1, LenProperties DEF JInv, JobsTyped, CountTrue
    <3>2. queue = <<>>
      BY <2>1, <3>1, EmptySeq DEF JInv, JobsTyped
    <3>3. QED
      BY <2>1, <3>2 DEF JInv, JobsTyped, CountTrue
  <2>2. QED
    BY <2>1 DEF ClosedOnlyWhenIdle
<1>2. JInv => LastPressWins
  BY DEF JInv, NewestLast, LastPressWins
<1>3. JInv => ReadSeesChange
  BY DEF JInv, ReadsFresh, ReadSeesChange
<1>4. JInv => NewestPlaceSaved
  BY DEF JInv, NewestKept, NewestPlaceSaved
<1>5. JInv => WindowKeepsUp
  BY <1>1, <1>2, <1>3, <1>4 DEF WindowKeepsUp
<1>6. QED
  BY <1>5, JobsInvariance, PTL
=============================================================================
