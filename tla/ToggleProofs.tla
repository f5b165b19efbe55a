---------------------------- MODULE ToggleProofs ----------------------------
(***************************************************************************)
(* Proofs about turning mods on and off (Toggle.tla), for any number of    *)
(* requests, programs, packages and mods, kills, failed calls and          *)
(* strangers.                                                              *)
(*                                                                         *)
(* Who changes a folder or a row has the profile's lock (TaskCourse,       *)
(* RecoveryCourse, Undisturbed). Every move takes a copy from one place to *)
(* a free one (CopiesMove), so the mod's own stays in one place and no     *)
(* stranger is lost (OwnOnce, StrayCount). The rest needs to know what a   *)
(* request in the middle of its work has done so far (DoneSoFar,           *)
(* WholeSoFar), what is written of it (Journalled), that until the move a  *)
(* plan names the place of the stranger (AsidePlanned) and that later, as  *)
(* long as there is one stranger, nothing else is there (OneStranger).     *)
(***************************************************************************)
EXTENDS Toggle, FiniteSetTheorems, TLAPS

TaskStages == {"idle", "asked", "gated", "held", "claim", "aside", "group", "rows", "settle"}
                 \union Finished
InHand == {"held", "claim", "aside", "group", "rows", "settle"}
WorkRecords ==
    [todo : SUBSET Folders, folder : Folders \union {NoFolder}, moved : BOOLEAN, changed : BOOLEAN,
     rows : SUBSET Components, failed : BOOLEAN, op : Tasks \union {Nobody}]
Operations ==
    [state : {"none", "committing", "recovery", "succeeded", "failed"}, claimed : BOOLEAN,
     from : {"none", "mods", "disabled"}, recovered : BOOLEAN]

TaskTypes ==
    /\ ToggleTypeOK
    /\ entry \in [Tasks -> Operations]
    /\ at \in [Tasks -> TaskStages]
    /\ seen \in [Tasks -> [Components -> BOOLEAN]]
    /\ work \in [Tasks \union {Recovery} -> WorkRecords]
    /\ kills \in Nat /\ failures \in Nat /\ strays \in Nat

-----------------------------------------------------------------------------
(* Where copies are.                                                        *)

Places == {"mods", "disabled"} \union Tasks
CopyAt(f, h) == IF h = "mods" THEN mods[f] ELSE IF h = "disabled" THEN disabled[f] ELSE aside[h][f]
Strays == {x \in Folders \X Places : CopyAt(x[1], x[2]) = "stray"}

\* The mod's own copy is in one place.
OwnOnce ==
    \A f \in Folders :
        \E h \in Places : CopyAt(f, h) = "own" /\ \A k \in Places : CopyAt(f, k) = "own" => k = h

\* No stranger is lost.
StrayCount == IsFiniteSet(Strays) /\ Cardinality(Strays) = strays

-----------------------------------------------------------------------------
(* Where a request is.                                                      *)

\* Who is at work has the lock; what its work record says at each stage.
OnCourse(t) ==
    /\ at[t] \in InHand => lock = t
    /\ at[t] \notin {"rows", "dead"} => work[t].folder = NoFolder
    /\ at[t] \in {"idle", "asked", "gated", "held", "claim", "aside"} => ~work[t].failed
    /\ at[t] \in {"claim", "aside"} => work[t].todo = req[t].folders
    /\ at[t] \in {"group", "rows"} => work[t].todo \subseteq req[t].folders
    /\ at[t] = "rows" => /\ work[t].folder \in req[t].folders \ work[t].todo
                         /\ work[t].rows \subseteq Members(work[t].folder)
    /\ at[t] = "settle" => work[t].failed
    /\ at[t] # "idle" /\ KindOf[t] # "many" => \E f \in Folders : req[t].folders = {f}
TaskCourse == \A t \in Tasks : OnCourse(t)

RecoveryCourse ==
    LET t == work[Recovery].op IN
    /\ t \in Tasks => at[t] # "idle"
    /\ lock = Recovery => t \in Tasks /\ work[Recovery].todo \subseteq req[t].folders
    /\ lock # Recovery => work[Recovery] = [Idle EXCEPT !.op = t]

\* What is written of a request: a batch under way claims the profile, and
\* only recovery changes what a dead one left.
OnRecord(t) ==
    /\ at[t] \in {"idle", "asked", "gated", "held", "refused"} => entry[t] = NoOperation
    /\ at[t] \in InHand /\ entry[t].state # "none" => entry[t].state = "committing"
    /\ at[t] = "claim" => entry[t].state = "committing"
    /\ KindOf[t] = "many" /\ at[t] \in {"group", "rows"} =>
         entry[t].state = "committing" /\ entry[t].claimed
    /\ entry[t].from # "none" => KindOf[t] = "aside"
    /\ entry[t].recovered => entry[t].state = "succeeded"
Journalled == HalfBatchIsHeld /\ \A t \in Tasks : OnRecord(t)

-----------------------------------------------------------------------------
(* Plans to move a stranger aside.                                          *)

Target(t) == CHOOSE f \in req[t].folders : TRUE

\* Until the move nothing changes in the folder; the place in the plan has
\* the stranger.
AsidePlanned ==
    \A t \in Tasks :
        /\ at[t] = "aside" => KindOf[t] = "aside"
        /\ at[t] \in {"claim", "aside"} /\ KindOf[t] = "aside" =>
             /\ entry[t].from # "none"
             /\ Collides(Target(t)) /\ CopyAt(Target(t), entry[t].from) = "stray"

\* Later the stranger is there or in some recovery folder, as long as there
\* is one stranger.
PlanOK ==
    \A t \in Tasks :
        entry[t].from # "none" =>
            \E h \in {entry[t].from} \union Tasks : CopyAt(Target(t), h) = "stray"

OneStranger == strays <= 1 => OwnStaysInProfile /\ PlanOK

-----------------------------------------------------------------------------
(* What is done so far.                                                     *)

\* A change whose revision is still to be saved.
Pending ==
    \/ \E t \in Tasks : lock = t /\ at[t] = "rows" /\ (work[t].changed \/ work[t].moved)
    \/ lock = Recovery /\ work[Recovery].changed

PreviewCurrent ==
    preview # NoPreview /\ kills = 0 /\ failures = 0 /\ strays = 0 =>
        /\ preview.revision = revision
        /\ Pending \/ (preview.enabled = enabled /\ preview.mods = OwnPlace)

DoneSoFar ==
    \A t \in Tasks :
        strays <= 1 /\ at[t] \in {"group", "rows"} /\ ~work[t].failed =>
            \A f \in req[t].folders \ work[t].todo :
                /\ (mods[f] = "own") = req[t].enable
                /\ \A c \in Members(f) :
                     seen[t][c] # req[t].enable =>
                         enabled[c] = req[t].enable \/ (at[t] = "rows" /\ c \in work[t].rows)

WholeSoFar ==
    strays <= 1 /\ lock = Recovery =>
        LET t == work[Recovery].op IN
        \A f \in req[t].folders \ work[Recovery].todo :
            /\ (mods[f] = "own") = req[t].enable
            /\ \A c \in Members(f) : enabled[c] = req[t].enable \/ c \in work[Recovery].rows

\* What the request saw when it looked for another mod of the id.
NotDoubled ==
    \A t \in Tasks : at[t] = "rows" /\ req[t].enable => ~Doubled(work[t].folder)

TInv ==
    /\ TaskTypes
    /\ OwnOnce /\ StrayCount
    /\ TaskCourse /\ RecoveryCourse
    /\ Journalled
    /\ AsidePlanned /\ OneStranger
    /\ PreviewCurrent /\ DoneSoFar /\ WholeSoFar /\ NotDoubled

-----------------------------------------------------------------------------
(* How folders change.                                                      *)

LEMMA Apart ==
    /\ Nobody \notin Tasks /\ Recovery \notin Tasks /\ Nobody # Recovery
    /\ "mods" \notin Tasks /\ "disabled" \notin Tasks
    /\ NoFolder \notin Folders
    /\ IsFiniteSet(Folders) /\ IsFiniteSet(Tasks)
    /\ FolderOf \in [Components -> Folders]
BY ToggleAssumption

\* The mod's folder goes to the other place.
Swapped(f) ==
    /\ ~MoveRefused(mods[f], disabled[f])
    /\ mods' = [mods EXCEPT ![f] = disabled[f]]
    /\ disabled' = [disabled EXCEPT ![f] = mods[f]]
    /\ UNCHANGED <<aside, strays>>

\* A copy goes to the recovery folder of a request.
TakenAside(t, f) ==
    /\ aside[t][f] = "none" /\ strays' = strays
    /\ \/ /\ entry[t].from = "mods" /\ mods[f] # "none"
          /\ aside' = [aside EXCEPT ![t][f] = mods[f]]
          /\ mods' = [mods EXCEPT ![f] = "none"] /\ UNCHANGED disabled
       \/ /\ entry[t].from # "mods" /\ disabled[f] # "none"
          /\ aside' = [aside EXCEPT ![t][f] = disabled[f]]
          /\ disabled' = [disabled EXCEPT ![f] = "none"] /\ UNCHANGED mods

\* The ways in which a step may change where copies are.
FileStep ==
    \/ UNCHANGED <<filesVars, strays>>
    \/ \E f \in Folders : Swapped(f)
    \/ \E t \in Tasks : MoveAside(t) /\ TakenAside(t, Target(t))
    \/ RecoverFolder /\ \E f \in work[Recovery].todo :
           Collides(f) /\ entry[work[Recovery].op].from # "none" /\ TakenAside(work[Recovery].op, f)
    \/ \E f \in Folders : DropStray(f)

LEMMA MovedIsSwapped ==
    ASSUME TaskTypes, NEW f \in Folders, NEW on \in BOOLEAN, MovedTo(f, on),
           ~FolderRefused(f, on) \/ ~MoveRefused(mods[f], disabled[f])
    PROVE  \/ ~MustMove(f, on) /\ UNCHANGED <<mods, disabled>>
           \/ /\ MustMove(f, on) /\ ~MoveRefused(mods[f], disabled[f])
              /\ mods' = [mods EXCEPT ![f] = disabled[f]] /\ disabled' = [disabled EXCEPT ![f] = mods[f]]
<1>1. CASE ~MustMove(f, on)
  BY <1>1 DEF MovedTo
<1>2. CASE MustMove(f, on) /\ on
  BY <1>2 DEF MovedTo, MustMove, FolderRefused, FolderMissing, Collides, MoveRefused
<1>3. CASE MustMove(f, on) /\ ~on
  BY <1>3 DEF MovedTo, MustMove, FolderRefused, FolderMissing, Collides, MoveRefused
<1>4. QED
  BY <1>1, <1>2, <1>3

LEMMA AsideIsTaken ==
    ASSUME TaskTypes, NEW t \in Tasks, NEW f \in Folders, AsideMoves(t, f), strays' = strays
    PROVE  UNCHANGED <<filesVars, strays>> \/ TakenAside(t, f)
BY DEF AsideMoves, TakenAside, MoveRefused, filesVars

LEMMA TheTarget ==
    ASSUME TInv, NEW t \in Tasks, at[t] # "idle", KindOf[t] = "aside"
    PROVE  Target(t) \in Folders /\ req[t].folders = {Target(t)}
<1>1. PICK f \in Folders : req[t].folders = {f}
  BY DEF TInv, TaskCourse, OnCourse
<1>2. Target(t) = f
  BY <1>1 DEF Target
<1>3. QED
  BY <1>1, <1>2

LEMMA PutBackIsSwap ==
    ASSUME TInv, NEW t \in Tasks, at[t] = "rows", PutBack(t), UNCHANGED <<aside, strays>>
    PROVE  FileStep
<1>1. work[t].folder \in Folders
  BY DEF TInv, TaskCourse, OnCourse, TaskTypes, ToggleTypeOK
<1>5. (~req[t].enable) \in BOOLEAN
  OBVIOUS
<1>2. CASE UNCHANGED <<mods, disabled>>
  BY <1>2 DEF FileStep, filesVars
<1>3. CASE ~UNCHANGED <<mods, disabled>>
  <2>1. ~MoveRefused(mods[work[t].folder], disabled[work[t].folder]) /\ MovedTo(work[t].folder, ~req[t].enable)
    BY <1>3 DEF PutBack
  <2>2. Swapped(work[t].folder)
    BY <1>1, <1>3, <1>5, <2>1, MovedIsSwapped DEF TInv, Swapped
  <2>3. QED
    BY <1>1, <2>2 DEF FileStep
<1>4. QED
  BY <1>2, <1>3

LEMMA FileSteps ==
    ASSUME TInv, [ToggleNext]_toggleVars
    PROVE  FileStep
<1>1. CASE UNCHANGED <<filesVars, strays>>
  BY <1>1 DEF FileStep
<1>2. ASSUME NEW t \in Tasks, MoveAside(t) PROVE FileStep
  <2>1. Target(t) \in Folders /\ strays' = strays
    BY <1>2, TheTarget DEF MoveAside, TInv, AsidePlanned, budget
  <2>2. CASE AsideMoves(t, Target(t))
    BY <1>2, <2>1, <2>2, AsideIsTaken DEF FileStep, TInv
  <2>3. QED
    BY <1>1, <1>2, <2>1, <2>2 DEF MoveAside, Target
<1>3. ASSUME NEW t \in Tasks, Group(t) PROVE FileStep
  <2>1. CASE UNCHANGED filesVars
    BY <1>1, <1>3, <2>1 DEF Group, budget
  <2>2. CASE ~UNCHANGED filesVars
    <3>1. PICK f \in work[t].todo : ~FolderRefused(f, req[t].enable) /\ MovedTo(f, req[t].enable) /\ UNCHANGED aside
      BY <1>3, <2>2 DEF Group
    <3>2. f \in Folders /\ req[t].enable \in BOOLEAN
      BY DEF TInv, TaskTypes, ToggleTypeOK
    <3>3. Swapped(f)
      BY <1>3, <2>2, <3>1, <3>2, MovedIsSwapped DEF TInv, Swapped, Group, budget, filesVars
    <3>4. QED
      BY <3>2, <3>3 DEF FileStep
  <2>3. QED
    BY <2>1, <2>2
<1>4. ASSUME NEW t \in Tasks, SaveRow(t) PROVE FileStep
  <2>1. at[t] = "rows" /\ UNCHANGED <<aside, strays>> /\ (UNCHANGED <<mods, disabled>> \/ PutBack(t))
    BY <1>4 DEF SaveRow, budget
  <2>2. QED
    BY <1>1, <2>1, PutBackIsSwap DEF filesVars
<1>5. ASSUME NEW t \in Tasks, SaveRevision(t) PROVE FileStep
  <2>1. at[t] = "rows" /\ UNCHANGED <<aside, strays>> /\ (UNCHANGED <<mods, disabled>> \/ PutBack(t))
    BY <1>5 DEF SaveRevision, budget
  <2>2. QED
    BY <1>1, <2>1, PutBackIsSwap DEF filesVars
<1>6. CASE RecoverFolder
  <2> DEFINE t == work[Recovery].op
  <2>1. t \in Tasks /\ req[t].enable \in BOOLEAN /\ strays' = strays /\ work[Recovery].todo \subseteq Folders
    BY <1>6 DEF RecoverFolder, TInv, RecoveryCourse, TaskTypes, ToggleTypeOK, budget
  <2>2. ASSUME NEW f \in work[Recovery].todo, entry[t].from # "none", Collides(f), AsideMoves(t, f) PROVE FileStep
    BY <1>1, <1>6, <2>1, <2>2, AsideIsTaken DEF FileStep, TInv
  <2>3. ASSUME NEW f \in work[Recovery].todo, ~FolderRefused(f, req[t].enable), MovedTo(f, req[t].enable), UNCHANGED aside
        PROVE  FileStep
    <3>1. CASE UNCHANGED <<mods, disabled>>
      BY <1>1, <2>1, <2>3, <3>1 DEF filesVars
    <3>2. CASE ~UNCHANGED <<mods, disabled>>
      <4>1. Swapped(f)
        BY <2>1, <2>3, <3>2, MovedIsSwapped DEF TInv, Swapped
      <4>2. QED
        BY <2>1, <4>1 DEF FileStep
    <3>3. QED
      BY <3>1, <3>2
  <2>4. QED
    BY <1>1, <1>6, <2>1, <2>2, <2>3 DEF RecoverFolder
<1>7. ASSUME NEW f \in Folders, DropStray(f) PROVE FileStep
  BY <1>7 DEF FileStep
<1>8. ASSUME NEW t \in Tasks, TaskStep(t) PROVE FileStep
  BY <1>1, <1>2, <1>3, <1>4, <1>5, <1>8
  DEF TaskStep, Ask, AskGate, TakeLock, Held, Claim, Settle, budget
<1>9. CASE RecoveryStep
  BY <1>1, <1>6, <1>9 DEF RecoveryStep, RecoveryReads, RecoveryLocks, RecoverRow, RecoverEnd, budget
<1>10. QED
  BY <1>1, <1>7, <1>8, <1>9 DEF ToggleNext, PreparePreview, KillProgram, toggleVars, filesVars, budget

\* A copy moves to a free place of its folder.
CopyMoves(f, h, k) ==
    /\ CopyAt(f, h) # "none" /\ CopyAt(f, k) = "none" /\ strays' = strays
    /\ \A g \in Folders, l \in Places :
         CopyAt(g, l)' = IF g = f /\ l = h THEN "none" ELSE IF g = f /\ l = k THEN CopyAt(f, h) ELSE CopyAt(g, l)

CopyDropped(f, h) ==
    /\ CopyAt(f, h) = "none" /\ strays' = strays + 1
    /\ \A g \in Folders, l \in Places : CopyAt(g, l)' = IF g = f /\ l = h THEN "stray" ELSE CopyAt(g, l)

LEMMA SwapMoves ==
    ASSUME TInv, NEW f \in Folders, Swapped(f)
    PROVE  CopyMoves(f, "mods", "disabled") \/ CopyMoves(f, "disabled", "mods")
<1>1. /\ mods \in [Folders -> Copies] /\ disabled \in [Folders -> Copies]
      /\ "mods" \notin Tasks /\ "disabled" \notin Tasks
  BY Apart DEF TInv, TaskTypes, ToggleTypeOK
<1>2. \A g \in Folders, l \in Places :
        CopyAt(g, l)' = IF g = f /\ l = "mods" THEN disabled[f]
                        ELSE IF g = f /\ l = "disabled" THEN mods[f] ELSE CopyAt(g, l)
  BY <1>1 DEF Swapped, CopyAt, Places
<1>3. CASE mods[f] = "none"
  BY <1>2, <1>3 DEF CopyMoves, Swapped, MoveRefused, CopyAt
<1>4. CASE disabled[f] = "none"
  BY <1>2, <1>4 DEF CopyMoves, Swapped, MoveRefused, CopyAt
<1>5. QED
  BY <1>3, <1>4 DEF Swapped, MoveRefused

LEMMA AsideCopyMoves ==
    ASSUME TInv, NEW t \in Tasks, NEW f \in Folders, TakenAside(t, f)
    PROVE  CopyMoves(f, IF entry[t].from = "mods" THEN "mods" ELSE "disabled", t)
<1>1. /\ mods \in [Folders -> Copies] /\ disabled \in [Folders -> Copies]
      /\ aside \in [Tasks -> [Folders -> Copies]]
      /\ "mods" \notin Tasks /\ "disabled" \notin Tasks
  BY Apart DEF TInv, TaskTypes, ToggleTypeOK
<1>2. CASE entry[t].from = "mods"
  <2>1. \A g \in Folders, l \in Places :
          CopyAt(g, l)' = IF g = f /\ l = "mods" THEN "none"
                          ELSE IF g = f /\ l = t THEN mods[f] ELSE CopyAt(g, l)
    BY <1>1, <1>2 DEF TakenAside, CopyAt, Places
  <2>2. QED
    BY <1>1, <1>2, <2>1 DEF TakenAside, CopyMoves, CopyAt
<1>3. CASE entry[t].from # "mods"
  <2>1. \A g \in Folders, l \in Places :
          CopyAt(g, l)' = IF g = f /\ l = "disabled" THEN "none"
                          ELSE IF g = f /\ l = t THEN disabled[f] ELSE CopyAt(g, l)
    BY <1>1, <1>3 DEF TakenAside, CopyAt, Places
  <2>2. QED
    BY <1>1, <1>3, <2>1 DEF TakenAside, CopyMoves, CopyAt
<1>4. QED
  BY <1>2, <1>3

LEMMA StrayDropped ==
    ASSUME TInv, NEW f \in Folders, DropStray(f)
    PROVE  \E h \in {"mods", "disabled"} : CopyDropped(f, h)
<1>1. /\ mods \in [Folders -> Copies] /\ disabled \in [Folders -> Copies]
      /\ "mods" \notin Tasks /\ "disabled" \notin Tasks
  BY Apart DEF TInv, TaskTypes, ToggleTypeOK
<1>2. CASE mods[f] = "none" /\ mods' = [mods EXCEPT ![f] = "stray"] /\ UNCHANGED disabled
  BY <1>1, <1>2 DEF DropStray, CopyDropped, CopyAt, Places
<1>3. CASE disabled[f] = "none" /\ disabled' = [disabled EXCEPT ![f] = "stray"] /\ UNCHANGED mods
  BY <1>1, <1>3 DEF DropStray, CopyDropped, CopyAt, Places
<1>4. QED
  BY <1>2, <1>3 DEF DropStray

\* What any step does with copies.
LEMMA CopiesMove ==
    ASSUME TInv, FileStep
    PROVE  \/ strays' = strays /\ \A g \in Folders, l \in Places : CopyAt(g, l)' = CopyAt(g, l)
           \/ \E f \in Folders, h \in Places, k \in Places : CopyMoves(f, h, k)
           \/ \E f \in Folders, h \in Places : CopyDropped(f, h)
<1>1. CASE UNCHANGED <<filesVars, strays>>
  BY <1>1 DEF filesVars, CopyAt
<1>2. ASSUME NEW f \in Folders, Swapped(f) PROVE \E h \in Places, k \in Places : CopyMoves(f, h, k)
  BY <1>2, SwapMoves DEF Places
<1>3. ASSUME NEW t \in Tasks, NEW f \in Folders, TakenAside(t, f) PROVE \E h \in Places, k \in Places : CopyMoves(f, h, k)
  <2>1. (IF entry[t].from = "mods" THEN "mods" ELSE "disabled") \in Places /\ t \in Places
    BY DEF Places
  <2>2. QED
    BY <1>3, <2>1, AsideCopyMoves
<1>4. ASSUME NEW f \in Folders, DropStray(f) PROVE \E h \in Places : CopyDropped(f, h)
  BY <1>4, StrayDropped DEF Places
<1>5. ASSUME NEW t \in Tasks, MoveAside(t) PROVE Target(t) \in Folders
  BY <1>5, TheTarget DEF MoveAside, TInv, AsidePlanned
<1>6. RecoverFolder => work[Recovery].op \in Tasks /\ work[Recovery].todo \subseteq Folders
  BY DEF RecoverFolder, TInv, RecoveryCourse, TaskTypes, ToggleTypeOK
<1>7. QED
  BY <1>1, <1>2, <1>3, <1>4, <1>5, <1>6 DEF FileStep

LEMMA OwnHolds ==
    ASSUME TInv, FileStep
    PROVE  OwnOnce'
<1> SUFFICES ASSUME NEW g \in Folders
             PROVE  \E h \in Places : CopyAt(g, h)' = "own" /\ \A k \in Places : CopyAt(g, k)' = "own" => k = h
  BY DEF OwnOnce
<1>1. PICK o \in Places : CopyAt(g, o) = "own" /\ \A k \in Places : CopyAt(g, k) = "own" => k = o
  BY DEF TInv, OwnOnce
<1>2. ASSUME NEW f \in Folders, NEW h \in Places, NEW k \in Places, CopyMoves(f, h, k)
      PROVE  \E i \in Places : CopyAt(g, i)' = "own" /\ \A l \in Places : CopyAt(g, l)' = "own" => l = i
  <2>1. CASE f = g /\ h = o
    <3>1. CopyAt(g, k)' = "own" /\ \A l \in Places : CopyAt(g, l)' = "own" => l = k
      BY <1>1, <1>2, <2>1 DEF CopyMoves
    <3>2. QED
      BY <3>1
  <2>2. CASE ~(f = g /\ h = o)
    <3>1. CopyAt(g, o)' = "own" /\ \A l \in Places : CopyAt(g, l)' = "own" => l = o
      BY <1>1, <1>2, <2>2 DEF CopyMoves
    <3>2. QED
      BY <3>1
  <2>3. QED
    BY <2>1, <2>2
<1>3. ASSUME NEW f \in Folders, NEW h \in Places, CopyDropped(f, h)
      PROVE  CopyAt(g, o)' = "own" /\ \A l \in Places : CopyAt(g, l)' = "own" => l = o
  BY <1>1, <1>3 DEF CopyDropped
<1>4. QED
  BY <1>1, <1>2, <1>3, CopiesMove

LEMMA StraysHold ==
    ASSUME TInv, FileStep
    PROVE  StrayCount'
<1>0. IsFiniteSet(Strays) /\ Cardinality(Strays) = strays /\ Cardinality(Strays) \in Nat
  BY FS_CardinalityType DEF TInv, StrayCount
<1>1. ASSUME strays' = strays, \A g \in Folders, l \in Places : CopyAt(g, l)' = CopyAt(g, l) PROVE StrayCount'
  <2>1. Strays' = Strays
    BY <1>1 DEF Strays
  <2>2. QED
    BY <1>0, <1>1, <2>1 DEF StrayCount
<1>2. ASSUME NEW f \in Folders, NEW h \in Places, NEW k \in Places, CopyMoves(f, h, k) PROVE StrayCount'
  <2>0. h # k /\ strays' = strays
    BY <1>2 DEF CopyMoves
  <2>1. CASE CopyAt(f, h) = "stray"
    <3>1. <<f, h>> \in Strays /\ <<f, k>> \notin Strays
      BY <1>2, <2>1 DEF Strays, CopyMoves
    <3>2. Strays' = (Strays \ {<<f, h>>}) \cup {<<f, k>>}
      BY <1>2, <2>0, <2>1 DEF Strays, CopyMoves
    <3>3. IsFiniteSet(Strays \ {<<f, h>>}) /\ Cardinality(Strays \ {<<f, h>>}) = Cardinality(Strays) - 1
      BY <1>0, <3>1, FS_RemoveElement
    <3>4. <<f, k>> \notin Strays \ {<<f, h>>}
      BY <3>1
    <3>5. IsFiniteSet(Strays') /\ Cardinality(Strays') = Cardinality(Strays) - 1 + 1
      BY <3>2, <3>3, <3>4, FS_AddElement
    <3>6. QED
      BY <1>0, <2>0, <3>5 DEF StrayCount
  <2>2. CASE CopyAt(f, h) # "stray"
    <3>1. Strays' = Strays
      BY <1>2, <2>2 DEF Strays, CopyMoves
    <3>2. QED
      BY <1>0, <2>0, <3>1 DEF StrayCount
  <2>3. QED
    BY <2>1, <2>2
<1>3. ASSUME NEW f \in Folders, NEW h \in Places, CopyDropped(f, h) PROVE StrayCount'
  <2>1. <<f, h>> \notin Strays /\ Strays' = Strays \cup {<<f, h>>}
    BY <1>3 DEF Strays, CopyDropped
  <2>2. IsFiniteSet(Strays') /\ Cardinality(Strays') = Cardinality(Strays) + 1
    BY <1>0, <2>1, FS_AddElement
  <2>3. QED
    BY <1>0, <1>3, <2>2 DEF StrayCount, CopyDropped
<1>4. QED
  BY <1>1, <1>2, <1>3, CopiesMove

-----------------------------------------------------------------------------
(* Types.                                                                   *)

LEMMA FilesTyped ==
    ASSUME TInv, FileStep
    PROVE  /\ mods' \in [Folders -> Copies] /\ disabled' \in [Folders -> Copies]
           /\ aside' \in [Tasks -> [Folders -> Copies]] /\ strays' \in Nat
<1>1. /\ mods \in [Folders -> Copies] /\ disabled \in [Folders -> Copies]
      /\ aside \in [Tasks -> [Folders -> Copies]] /\ strays \in Nat
      /\ "none" \in Copies /\ "stray" \in Copies
  BY DEF TInv, TaskTypes, ToggleTypeOK, Copies
<1>2. ASSUME NEW f \in Folders, Swapped(f)
      PROVE  mods' \in [Folders -> Copies] /\ disabled' \in [Folders -> Copies] /\ UNCHANGED <<aside, strays>>
  <2>1. mods[f] \in Copies /\ disabled[f] \in Copies
    BY <1>1
  <2>2. QED
    BY <1>1, <1>2, <2>1 DEF Swapped
<1>3. ASSUME NEW t \in Tasks, NEW f \in Folders, TakenAside(t, f)
      PROVE  /\ mods' \in [Folders -> Copies] /\ disabled' \in [Folders -> Copies]
             /\ aside' \in [Tasks -> [Folders -> Copies]] /\ strays' \in Nat
  <2>1. mods[f] \in Copies /\ disabled[f] \in Copies
    BY <1>1
  <2>2. PICK c \in Copies : aside' = [aside EXCEPT ![t][f] = c]
    BY <1>3, <2>1 DEF TakenAside
  <2>3. aside' \in [Tasks -> [Folders -> Copies]]
    BY <1>1, <2>2
  <2>4. QED
    BY <1>1, <1>3, <2>3 DEF TakenAside
<1>4. ASSUME NEW f \in Folders, DropStray(f)
      PROVE  mods' \in [Folders -> Copies] /\ disabled' \in [Folders -> Copies] /\ UNCHANGED aside /\ strays' \in Nat
  BY <1>1, <1>4 DEF DropStray
<1>5. ASSUME NEW t \in Tasks, MoveAside(t) PROVE Target(t) \in Folders
  BY <1>5, TheTarget DEF MoveAside, TInv, AsidePlanned
<1>6. RecoverFolder => work[Recovery].op \in Tasks /\ work[Recovery].todo \subseteq Folders
  BY DEF RecoverFolder, TInv, RecoveryCourse, TaskTypes, ToggleTypeOK
<1>7. CASE UNCHANGED <<filesVars, strays>>
  BY <1>1, <1>7 DEF filesVars
<1>8. QED
  BY <1>1, <1>2, <1>3, <1>4, <1>5, <1>6, <1>7 DEF FileStep

LEMMA IdleTyped ==
    /\ Idle \in WorkRecords
    /\ \A fs \in SUBSET Folders : [Idle EXCEPT !.todo = fs] \in WorkRecords
    /\ \A t \in Tasks : [Idle EXCEPT !.op = t] \in WorkRecords
BY DEF Idle, WorkRecords

\* What a request's step does to its own record and to no other.
LEMMA TaskWorkTyped ==
    ASSUME TInv, NEW t \in Tasks, TaskStep(t)
    PROVE  \E w \in WorkRecords : work' = [work EXCEPT ![t] = w]
<1>1. work \in [Tasks \union {Recovery} -> WorkRecords] /\ work[t] \in WorkRecords
      /\ work[t].todo \in SUBSET Folders /\ work[t].rows \in SUBSET Components
      /\ req[t].folders \in SUBSET Folders
  BY DEF TInv, TaskTypes, ToggleTypeOK, WorkRecords
<1>2. CASE UNCHANGED work
  <2>1. work' = [work EXCEPT ![t] = work[t]]
    BY <1>1, <1>2
  <2>2. QED
    BY <1>1, <2>1
<1>3. CASE Held(t) \/ Settle(t)
  BY <1>1, <1>2, <1>3, IdleTyped DEF Held, Settle, StartWork
<1>4. CASE MoveAside(t) /\ ~UNCHANGED work
  <2>1. work' = [work EXCEPT ![t].todo = {}, ![t].failed = TRUE]
    BY <1>4 DEF MoveAside
  <2>2. work' = [work EXCEPT ![t] = [work[t] EXCEPT !.todo = {}, !.failed = TRUE]]
    BY <1>1, <2>1
  <2>3. [work[t] EXCEPT !.todo = {}, !.failed = TRUE] \in WorkRecords
    BY <1>1 DEF WorkRecords
  <2>4. QED
    BY <2>2, <2>3
<1>5. CASE Group(t)
  <2>1. PICK f \in work[t].todo :
          \/ work' = [work EXCEPT ![t].todo = @ \ {f}, ![t].failed = TRUE]
          \/ work' = [work EXCEPT ![t].todo = @ \ {f}, ![t].folder = f,
                        ![t].moved = MustMove(f, req[t].enable), ![t].changed = FALSE,
                        ![t].rows = {c \in Members(f) : seen[t][c] # req[t].enable}]
    BY <1>5 DEF Group
  <2> DEFINE refused == [work[t] EXCEPT !.todo = @ \ {f}, !.failed = TRUE]
             moved == [work[t] EXCEPT !.todo = @ \ {f}, !.folder = f,
                          !.moved = MustMove(f, req[t].enable), !.changed = FALSE,
                          !.rows = {c \in Members(f) : seen[t][c] # req[t].enable}]
  <2>2. work' = [work EXCEPT ![t] = refused] \/ work' = [work EXCEPT ![t] = moved]
    BY <1>1, <2>1
  <2>3. refused \in WorkRecords
    BY <1>1 DEF WorkRecords
  <2>4. MustMove(f, req[t].enable) \in BOOLEAN /\ f \in Folders
    BY <1>1 DEF MustMove
  <2>5. moved \in WorkRecords
    BY <1>1, <2>4 DEF WorkRecords, Members
  <2>6. QED
    BY <2>2, <2>3, <2>5
<1>6. CASE SaveRow(t)
  <2>1. PICK c \in work[t].rows :
          \/ work' = [work EXCEPT ![t].rows = @ \ {c}, ![t].changed = TRUE]
          \/ work' = [work EXCEPT ![t].failed = TRUE, ![t].folder = NoFolder]
    BY <1>6 DEF SaveRow
  <2> DEFINE saved == [work[t] EXCEPT !.rows = @ \ {c}, !.changed = TRUE]
             failed == [work[t] EXCEPT !.failed = TRUE, !.folder = NoFolder]
  <2>2. work' = [work EXCEPT ![t] = saved] \/ work' = [work EXCEPT ![t] = failed]
    BY <1>1, <2>1
  <2>3. saved \in WorkRecords
    BY <1>1 DEF WorkRecords
  <2>4. failed \in WorkRecords
    BY <1>1 DEF WorkRecords
  <2>5. QED
    BY <2>2, <2>3, <2>4
<1>7. CASE SaveRevision(t)
  <2> DEFINE saved == [work[t] EXCEPT !.folder = NoFolder]
             failed == [work[t] EXCEPT !.failed = TRUE, !.folder = NoFolder]
  <2>1. work' = [work EXCEPT ![t] = saved] \/ work' = [work EXCEPT ![t] = failed]
    BY <1>1, <1>7 DEF SaveRevision
  <2>2. saved \in WorkRecords
    BY <1>1 DEF WorkRecords
  <2>3. failed \in WorkRecords
    BY <1>1 DEF WorkRecords
  <2>4. QED
    BY <2>1, <2>2, <2>3
<1>8. QED
  BY <1>2, <1>3, <1>4, <1>5, <1>6, <1>7 DEF TaskStep, Ask, AskGate, TakeLock, Claim

LEMMA RecoveryWorkTyped ==
    ASSUME TInv, RecoveryStep
    PROVE  \E w \in WorkRecords : work' = [work EXCEPT ![Recovery] = w]
<1>1. work \in [Tasks \union {Recovery} -> WorkRecords] /\ work[Recovery] \in WorkRecords
      /\ work[Recovery].rows \in SUBSET Components
  BY DEF TInv, TaskTypes, WorkRecords
<1>2. CASE UNCHANGED work
  <2>1. work' = [work EXCEPT ![Recovery] = work[Recovery]]
    BY <1>1, <1>2
  <2>2. QED
    BY <1>1, <2>1
<1>3. ASSUME NEW t \in Tasks, RecoveryReads(t) PROVE \E w \in WorkRecords : work' = [work EXCEPT ![Recovery] = w]
  BY <1>3, IdleTyped DEF RecoveryReads
<1>4. CASE work' = [work EXCEPT ![Recovery] = Idle]
  BY <1>4, IdleTyped
<1>5. CASE RecoveryLocks /\ work' # [work EXCEPT ![Recovery] = Idle]
  <2> DEFINE begun == [work[Recovery] EXCEPT !.todo = req[work[Recovery].op].folders]
  <2>1. work' = [work EXCEPT ![Recovery] = begun]
    BY <1>1, <1>5 DEF RecoveryLocks
  <2>2. work[Recovery].op \in Tasks
    BY <1>1, <1>5 DEF RecoveryLocks, WorkRecords
  <2>3. req[work[Recovery].op].folders \in SUBSET Folders
    BY <2>2 DEF TInv, TaskTypes, ToggleTypeOK
  <2>4. begun \in WorkRecords
    BY <1>1, <2>3 DEF WorkRecords
  <2>5. QED
    BY <2>1, <2>4
<1>6. CASE RecoverFolder /\ work' # [work EXCEPT ![Recovery] = Idle] /\ ~UNCHANGED work
  <2> DEFINE on == req[work[Recovery].op].enable
  <2>1. PICK f \in work[Recovery].todo :
          work' = [work EXCEPT ![Recovery].todo = @ \ {f},
                     ![Recovery].rows = StillToSave(f, on, MustMove(f, on)),
                     ![Recovery].changed = @ \/ MustMove(f, on)]
    BY <1>6 DEF RecoverFolder, RecoveryEnds
  <2> DEFINE done == [work[Recovery] EXCEPT !.todo = @ \ {f}, !.rows = StillToSave(f, on, MustMove(f, on)),
                                            !.changed = @ \/ MustMove(f, on)]
  <2>2. work' = [work EXCEPT ![Recovery] = done]
    BY <1>1, <2>1
  <2>3. StillToSave(f, on, MustMove(f, on)) \in SUBSET Components /\ (work[Recovery].changed \/ MustMove(f, on)) \in BOOLEAN
    BY DEF StillToSave, Members
  <2>4. done \in WorkRecords
    BY <1>1, <2>3 DEF WorkRecords
  <2>5. QED
    BY <2>2, <2>4
<1>7. CASE RecoverRow /\ work' # [work EXCEPT ![Recovery] = Idle]
  <2>1. PICK c \in work[Recovery].rows :
          work' = [work EXCEPT ![Recovery].rows = @ \ {c}, ![Recovery].changed = TRUE]
    BY <1>7 DEF RecoverRow, RecoveryEnds
  <2> DEFINE saved == [work[Recovery] EXCEPT !.rows = @ \ {c}, !.changed = TRUE]
  <2>2. work' = [work EXCEPT ![Recovery] = saved]
    BY <1>1, <2>1
  <2>3. saved \in WorkRecords
    BY <1>1 DEF WorkRecords
  <2>4. QED
    BY <2>2, <2>3
<1>8. QED
  BY <1>2, <1>3, <1>4, <1>5, <1>6, <1>7 DEF RecoveryStep, RecoveryLocks, RecoverEnd, RecoveryEnds

LEMMA TaskStepTypes ==
    ASSUME TInv, NEW t \in Tasks, TaskStep(t)
    PROVE  /\ entry' \in [Tasks -> Operations]
           /\ at' \in [Tasks -> TaskStages]
           /\ seen' \in [Tasks -> [Components -> BOOLEAN]]
           /\ req' \in [Tasks -> [enable : BOOLEAN, folders : SUBSET Folders]]
           /\ enabled' \in [Components -> BOOLEAN]
           /\ revision' \in Nat
           /\ lock' \in Tasks \union {Nobody, Recovery}
<1>0. /\ entry \in [Tasks -> Operations] /\ at \in [Tasks -> TaskStages]
      /\ seen \in [Tasks -> [Components -> BOOLEAN]]
      /\ req \in [Tasks -> [enable : BOOLEAN, folders : SUBSET Folders]]
      /\ enabled \in [Components -> BOOLEAN] /\ revision \in Nat
      /\ lock \in Tasks \union {Nobody, Recovery}
      /\ work[t].rows \subseteq Components
  BY DEF TInv, TaskTypes, ToggleTypeOK
<1>1. entry' \in [Tasks -> Operations]
  <2>1. CASE UNCHANGED entry
    BY <1>0, <2>1
  <2>2. CASE Held(t) /\ ~UNCHANGED entry
    <3> DEFINE from == IF KindOf[t] = "aside" THEN StrayPlace(CHOOSE g \in req[t].folders : TRUE) ELSE "none"
    <3>1. entry' = [entry EXCEPT ![t] = [NoOperation EXCEPT !.state = "committing", !.from = from]]
      BY <2>2 DEF Held
    <3>2. from \in {"none", "mods", "disabled"}
      BY DEF StrayPlace
    <3> HIDE DEF from
    <3>3. [NoOperation EXCEPT !.state = "committing", !.from = from] \in Operations
      BY <3>2 DEF NoOperation, Operations
    <3>4. QED
      BY <1>0, <3>1, <3>3
  <2>3. CASE Claim(t)
    <3>1. entry' = entry \/ entry' = [entry EXCEPT ![t] = [entry[t] EXCEPT !.claimed = TRUE]]
      BY <1>0, <2>3 DEF Claim
    <3>2. entry[t] \in Operations
      BY <1>0
    <3>3. [entry[t] EXCEPT !.claimed = TRUE] \in Operations
      BY <3>2 DEF Operations
    <3>4. QED
      BY <1>0, <3>1, <3>3
  <2>4. CASE Settle(t)
    <3>1. PICK state \in {"failed", "succeeded"} : entry' = entry \/ entry' = [entry EXCEPT ![t] = [entry[t] EXCEPT !.state = state]]
      BY <1>0, <2>4 DEF Settle
    <3>2. entry[t] \in Operations
      BY <1>0
    <3>3. [entry[t] EXCEPT !.state = state] \in Operations
      BY <3>2 DEF Operations
    <3>4. QED
      BY <1>0, <3>1, <3>3
  <2>5. QED
    BY <2>1, <2>2, <2>3, <2>4
    DEF TaskStep, Ask, AskGate, TakeLock, MoveAside, Group, SaveRow, SaveRevision
<1>2. at' \in [Tasks -> TaskStages]
  <2>1. at' = at \/ \E s \in TaskStages : at' = [at EXCEPT ![t] = s]
    BY DEF TaskStep, Ask, AskGate, TakeLock, Held, Claim, MoveAside, Group, SaveRow, SaveRevision, Settle, NowAt,
           StartWork, TaskStages, Finished
  <2>2. QED
    BY <1>0, <2>1
<1>3. seen' \in [Tasks -> [Components -> BOOLEAN]]
  BY <1>0 DEF TaskStep, Ask, AskGate, TakeLock, Held, Claim, MoveAside, Group, SaveRow, SaveRevision, Settle
<1>4. req' \in [Tasks -> [enable : BOOLEAN, folders : SUBSET Folders]]
  <2>1. req' = req \/ \E r \in [enable : BOOLEAN, folders : SUBSET Folders] : req' = [req EXCEPT ![t] = r]
    BY DEF TaskStep, Ask, AskGate, TakeLock, Held, Claim, MoveAside, Group, SaveRow, SaveRevision, Settle
  <2>2. QED
    BY <1>0, <2>1
<1>5. enabled' \in [Components -> BOOLEAN]
  BY <1>0 DEF TaskStep, Ask, AskGate, TakeLock, Held, Claim, MoveAside, Group, SaveRow, SaveRevision, Settle, rowVars
<1>6. revision' \in Nat
  <2>1. revision' \in {revision, revision + 1}
    BY DEF TaskStep, Ask, AskGate, TakeLock, Held, Claim, MoveAside, Group, SaveRow, SaveRevision, Settle, rowVars,
           BumpIf, BumpRevision
  <2>2. QED
    BY <1>0, <2>1
<1>7. lock' \in Tasks \union {Nobody, Recovery}
  BY <1>0 DEF TaskStep, Ask, AskGate, TakeLock, Held, Claim, MoveAside, Group, SaveRow, SaveRevision, Settle
<1>8. QED
  BY <1>1, <1>2, <1>3, <1>4, <1>5, <1>6, <1>7

LEMMA RecoveryStepTypes ==
    ASSUME TInv, RecoveryStep
    PROVE  /\ entry' \in [Tasks -> Operations]
           /\ enabled' \in [Components -> BOOLEAN]
           /\ revision' \in Nat
           /\ lock' \in Tasks \union {Nobody, Recovery}
           /\ UNCHANGED <<at, seen, req>>
<1>0. /\ entry \in [Tasks -> Operations]
      /\ req \in [Tasks -> [enable : BOOLEAN, folders : SUBSET Folders]]
      /\ enabled \in [Components -> BOOLEAN] /\ revision \in Nat
      /\ lock \in Tasks \union {Nobody, Recovery}
      /\ work[Recovery].rows \subseteq Components
      /\ lock = Recovery => work[Recovery].op \in Tasks
  BY DEF TInv, TaskTypes, ToggleTypeOK, RecoveryCourse
<1>1. entry' \in [Tasks -> Operations]
  <2>1. ASSUME NEW state \in {"recovery", "succeeded"}, RecoveryEnds(state), lock = Recovery PROVE entry' \in [Tasks -> Operations]
    <3> DEFINE t == work[Recovery].op
    <3>1. entry' = entry \/ entry' = [entry EXCEPT ![t] = [entry[t] EXCEPT !.state = state, !.recovered = (state = "succeeded")]]
      BY <1>0, <2>1 DEF RecoveryEnds
    <3>2. entry[t] \in Operations
      BY <1>0, <2>1
    <3>3. [entry[t] EXCEPT !.state = state, !.recovered = (state = "succeeded")] \in Operations
      BY <3>2 DEF Operations
    <3>4. QED
      BY <1>0, <3>1, <3>3
  <2>2. QED
    BY <1>0, <2>1 DEF RecoveryStep, RecoveryReads, RecoveryLocks, RecoverFolder, RecoverRow, RecoverEnd
<1>2. enabled' \in [Components -> BOOLEAN]
  BY <1>0 DEF RecoveryStep, RecoveryReads, RecoveryLocks, RecoverFolder, RecoverRow, RecoverEnd, rowVars
<1>3. revision' \in Nat
  <2>1. revision' \in {revision, revision + 1}
    BY DEF RecoveryStep, RecoveryReads, RecoveryLocks, RecoverFolder, RecoverRow, RecoverEnd, rowVars, BumpIf,
           BumpRevision
  <2>2. QED
    BY <1>0, <2>1
<1>4. lock' \in Tasks \union {Nobody, Recovery}
  BY <1>0 DEF RecoveryStep, RecoveryReads, RecoveryLocks, RecoverFolder, RecoverRow, RecoverEnd, RecoveryEnds
<1>5. QED
  BY <1>1, <1>2, <1>3, <1>4
  DEF RecoveryStep, RecoveryReads, RecoveryLocks, RecoverFolder, RecoverRow, RecoverEnd

LEMMA TypesHold ==
    ASSUME TInv, [ToggleNext]_toggleVars, FileStep
    PROVE  TaskTypes'
<1>0. TaskTypes /\ ToggleTypeOK /\ work \in [Tasks \union {Recovery} -> WorkRecords]
      /\ failures \in Nat /\ kills \in Nat
  BY DEF TInv, TaskTypes
<1>1. SUFFICES /\ entry' \in [Tasks -> Operations]
               /\ at' \in [Tasks -> TaskStages]
               /\ seen' \in [Tasks -> [Components -> BOOLEAN]]
               /\ req' \in [Tasks -> [enable : BOOLEAN, folders : SUBSET Folders]]
               /\ enabled' \in [Components -> BOOLEAN]
               /\ revision' \in Nat
               /\ lock' \in Tasks \union {Nobody, Recovery}
               /\ work' \in [Tasks \union {Recovery} -> WorkRecords]
               /\ failures' \in Nat /\ kills' \in Nat
  BY <1>1, FilesTyped DEF TaskTypes, ToggleTypeOK, Operations, WorkRecords
<1>2. ASSUME NEW t \in Tasks, TaskStep(t) PROVE work' \in [Tasks \union {Recovery} -> WorkRecords]
  BY <1>0, <1>2, TaskWorkTyped
<1>3. ASSUME RecoveryStep PROVE work' \in [Tasks \union {Recovery} -> WorkRecords]
  BY <1>0, <1>3, RecoveryWorkTyped
<1>4. failures' \in Nat
  <2>1. failures' \in {failures, failures + 1}
    <3>1. ASSUME NEW t \in Tasks, TaskStep(t) PROVE failures' \in {failures, failures + 1}
      BY <3>1 DEF TaskStep, Ask, AskGate, TakeLock, Held, Claim, MoveAside, Group, SaveRow, SaveRevision, Settle,
                  CallFails, NoFault
    <3>2. CASE RecoveryStep
      BY <3>2 DEF RecoveryStep, RecoveryReads, RecoveryLocks, RecoverFolder, RecoverRow, RecoverEnd, CallFails, NoFault
    <3>3. QED
      BY <3>1, <3>2 DEF ToggleNext, DropStray, PreparePreview, KillProgram, toggleVars
  <2>2. QED
    BY <1>0, <2>1
<1>5. kills' \in Nat
  <2>1. kills' \in {kills, kills + 1}
    BY DEF ToggleNext, TaskStep, RecoveryStep, Ask, AskGate, TakeLock, Held, Claim, MoveAside, Group, SaveRow,
           SaveRevision, Settle, RecoveryReads, RecoveryLocks, RecoverFolder, RecoverRow, RecoverEnd, DropStray,
           PreparePreview, KillProgram, budget, toggleVars
  <2>2. QED
    BY <1>0, <2>1
<1>6. ASSUME NEW p \in Programs, KillProgram(p)
      PROVE  /\ at' \in [Tasks -> TaskStages] /\ lock' \in Tasks \union {Nobody, Recovery}
             /\ work' \in [Tasks \union {Recovery} -> WorkRecords]
             /\ UNCHANGED <<entry, seen, req, enabled, revision>>
  <2>1. "dead" \in TaskStages
    BY DEF TaskStages, Finished
  <2>2. QED
    BY <1>0, <1>6, <2>1, IdleTyped DEF KillProgram, TaskTypes, ToggleTypeOK
<1>7. CASE UNCHANGED <<entry, at, seen, req, enabled, revision, lock, work>>
  BY <1>0, <1>4, <1>5, <1>7 DEF TaskTypes, ToggleTypeOK
<1>8. CASE \E f \in Folders : DropStray(f)
  BY <1>7, <1>8 DEF DropStray, rowVars
<1>9. CASE PreparePreview
  BY <1>7, <1>9 DEF PreparePreview
<1>10. CASE UNCHANGED toggleVars
  BY <1>7, <1>10 DEF toggleVars
<1>11. CASE \E p \in Programs : KillProgram(p)
  BY <1>0, <1>4, <1>5, <1>6, <1>11 DEF TaskTypes, ToggleTypeOK
<1>12. CASE RecoveryStep
  BY <1>0, <1>3, <1>4, <1>5, <1>12, RecoveryStepTypes DEF TaskTypes, ToggleTypeOK
<1>13. CASE \E t \in Tasks : TaskStep(t)
  BY <1>2, <1>4, <1>5, <1>13, TaskStepTypes
<1>14. QED
  BY <1>8, <1>9, <1>10, <1>11, <1>12, <1>13 DEF ToggleNext

-----------------------------------------------------------------------------
(* What a step leaves alone.                                                *)

LEMMA OthersKept ==
    ASSUME TInv, NEW t \in Tasks, TaskStep(t)
    PROVE  /\ \A u \in Tasks \ {t} :
                /\ at'[u] = at[u] /\ work'[u] = work[u] /\ req'[u] = req[u] /\ seen'[u] = seen[u]
                /\ entry'[u] = entry[u]
           /\ work'[Recovery] = work[Recovery]
           /\ lock' # lock => lock \in {Nobody, t} /\ lock' \in {Nobody, t}
<1>0. Recovery \notin Tasks /\ work \in [Tasks \union {Recovery} -> WorkRecords] /\ at \in [Tasks -> TaskStages]
      /\ req \in [Tasks -> [enable : BOOLEAN, folders : SUBSET Folders]] /\ seen \in [Tasks -> [Components -> BOOLEAN]]
      /\ entry \in [Tasks -> Operations]
  BY Apart DEF TInv, TaskTypes, ToggleTypeOK
<1>1. \A u \in Tasks \ {t} : at'[u] = at[u]
  BY <1>0 DEF TaskStep, Ask, AskGate, TakeLock, Held, Claim, MoveAside, Group, SaveRow, SaveRevision, Settle, NowAt,
              StartWork
<1>2. \A u \in (Tasks \union {Recovery}) \ {t} : work'[u] = work[u]
  BY <1>0, TaskWorkTyped
<1>3. \A u \in Tasks \ {t} : req'[u] = req[u] /\ seen'[u] = seen[u]
  BY <1>0 DEF TaskStep, Ask, AskGate, TakeLock, Held, Claim, MoveAside, Group, SaveRow, SaveRevision, Settle
<1>4. \A u \in Tasks \ {t} : entry'[u] = entry[u]
  BY <1>0 DEF TaskStep, Ask, AskGate, TakeLock, Held, Claim, MoveAside, Group, SaveRow, SaveRevision, Settle
<1>5. lock' # lock => lock \in {Nobody, t} /\ lock' \in {Nobody, t}
  <2>1. at[t] \in InHand => lock = t
    BY DEF TInv, TaskCourse, OnCourse
  <2>2. QED
    BY <2>1
    DEF TaskStep, Ask, AskGate, TakeLock, Held, Claim, MoveAside, Group, SaveRow, SaveRevision, Settle, InHand
<1>6. QED
  BY <1>0, <1>1, <1>2, <1>3, <1>4, <1>5

LEMMA RecoveryKeeps ==
    ASSUME TInv, RecoveryStep
    PROVE  /\ UNCHANGED <<at, seen, req, kills, strays>>
           /\ \A u \in Tasks : work'[u] = work[u]
           /\ \A u \in Tasks : entry'[u] # entry[u] =>
                lock = Recovery /\ u = work[Recovery].op /\ Outstanding(u)
           /\ lock' # lock => lock \in {Nobody, Recovery} /\ lock' \in {Nobody, Recovery}
<1>0. Recovery \notin Tasks /\ work \in [Tasks \union {Recovery} -> WorkRecords] /\ entry \in [Tasks -> Operations]
  BY Apart DEF TInv, TaskTypes, ToggleTypeOK
<1>1. \A u \in Tasks : work'[u] = work[u]
  BY <1>0, RecoveryWorkTyped
<1>2. UNCHANGED <<at, seen, req, kills, strays>>
  BY RecoveryStepTypes
  DEF RecoveryStep, RecoveryReads, RecoveryLocks, RecoverFolder, RecoverRow, RecoverEnd, budget
<1>3. ASSUME NEW state, RecoveryEnds(state), lock = Recovery
      PROVE  /\ \A u \in Tasks : entry'[u] # entry[u] => u = work[Recovery].op /\ Outstanding(u)
             /\ lock' = Nobody
  BY <1>0, <1>3 DEF RecoveryEnds
<1>4. CASE UNCHANGED entry /\ (lock' # lock => lock \in {Nobody, Recovery} /\ lock' \in {Nobody, Recovery})
  BY <1>1, <1>2, <1>4
<1>5. CASE lock = Recovery /\ (UNCHANGED <<entry, lock>> \/ \E state \in {"recovery", "succeeded"} : RecoveryEnds(state))
  BY <1>1, <1>2, <1>3, <1>5
<1>6. QED
  BY <1>4, <1>5 DEF RecoveryStep, RecoveryReads, RecoveryLocks, RecoverFolder, RecoverRow, RecoverEnd

LEMMA KillKeeps ==
    ASSUME TInv, NEW p \in Programs, KillProgram(p)
    PROVE  /\ UNCHANGED <<filesVars, enabled, revision, entry, req, seen, failures, strays>>
           /\ \A u \in Tasks : work'[u] = work[u]
           /\ \A u \in Tasks : at'[u] = at[u] \/ (at'[u] = "dead" /\ at[u] \notin Finished \union {"idle"})
           /\ \A u \in Tasks : lock = u => (lock' = u /\ at'[u] = at[u]) \/ (lock' = Nobody /\ at'[u] \notin InHand)
           /\ \A u \in Tasks : lock' = u => lock = u
           /\ lock' = Recovery => lock = Recovery /\ work'[Recovery] = work[Recovery]
           /\ work'[Recovery] = work[Recovery] \/ work'[Recovery] = Idle
           /\ kills' = kills + 1
<1>0. Recovery \notin Tasks /\ Nobody \notin Tasks /\ Nobody # Recovery
      /\ work \in [Tasks \union {Recovery} -> WorkRecords] /\ at \in [Tasks -> TaskStages]
  BY Apart DEF TInv, TaskTypes
<1>1. \A u \in Tasks : at[u] \in InHand => lock = u
  BY DEF TInv, TaskCourse, OnCourse
<1> DEFINE Dead(u) == ProgramOf[u] = p /\ at[u] \notin Finished \union {"idle"}
<1>2. \A u \in Tasks : at'[u] = IF Dead(u) THEN "dead" ELSE at[u]
  BY <1>0 DEF KillProgram
<1>3. lock' = IF (lock \in Tasks /\ Dead(lock)) \/ (lock = Recovery /\ p = App) THEN Nobody ELSE lock
  BY DEF KillProgram
<1>4. work' = IF p = App THEN [work EXCEPT ![Recovery] = Idle] ELSE work
  BY DEF KillProgram
<1>5. "dead" \notin InHand
  BY DEF InHand
<1> HIDE DEF Dead
<1>6. \A u \in Tasks : lock = u => (lock' = u /\ at'[u] = at[u]) \/ (lock' = Nobody /\ at'[u] \notin InHand)
  <2> SUFFICES ASSUME NEW u \in Tasks, lock = u
               PROVE  (lock' = u /\ at'[u] = at[u]) \/ (lock' = Nobody /\ at'[u] \notin InHand)
    OBVIOUS
  <2>1. CASE Dead(u)
    BY <1>2, <1>3, <1>5, <2>1
  <2>2. CASE ~Dead(u)
    <3>1. lock' = u
      BY <1>0, <1>3, <2>2
    <3>2. QED
      BY <1>2, <2>2, <3>1
  <2>3. QED
    BY <2>1, <2>2
<1>7. \A u \in Tasks : lock' = u => lock = u
  BY <1>0, <1>3
<1>8. lock' = Recovery => lock = Recovery /\ work'[Recovery] = work[Recovery]
  BY <1>0, <1>3, <1>4
<1>9. /\ \A u \in Tasks : work'[u] = work[u]
      /\ work'[Recovery] = work[Recovery] \/ work'[Recovery] = Idle
  BY <1>0, <1>4
<1>10. \A u \in Tasks : at'[u] = at[u] \/ (at'[u] = "dead" /\ at[u] \notin Finished \union {"idle"})
  BY <1>2 DEF Dead
<1>11. QED
  BY <1>6, <1>7, <1>8, <1>9, <1>10 DEF KillProgram

-----------------------------------------------------------------------------
(* Where a request is.                                                      *)

LEMMA StepCourse ==
    ASSUME TInv, NEW t \in Tasks, TaskStep(t)
    PROVE  OnCourse(t)'
<1>0. /\ work \in [Tasks \union {Recovery} -> WorkRecords] /\ work[t] \in WorkRecords /\ at \in [Tasks -> TaskStages]
      /\ req \in [Tasks -> [enable : BOOLEAN, folders : SUBSET Folders]] /\ entry \in [Tasks -> Operations]
      /\ NoFolder \notin Folders /\ work[t].todo \subseteq Folders
  BY Apart DEF TInv, TaskTypes, ToggleTypeOK
<1>1. OnCourse(t)
  BY DEF TInv, TaskCourse
<1> USE DEF OnCourse, InHand
<1>2. CASE Ask(t)
  <2>1. PICK on \in BOOLEAN, fs \in (SUBSET Folders) \ {{}} :
          /\ KindOf[t] # "many" => Cardinality(fs) = 1
          /\ req' = [req EXCEPT ![t] = [enable |-> on, folders |-> fs]]
    BY <1>2 DEF Ask
  <2>2. at' = [at EXCEPT ![t] = "asked"] /\ UNCHANGED work /\ at[t] = "idle"
    BY <1>2 DEF Ask, NowAt
  <2>3. KindOf[t] # "many" => \E f \in Folders : fs = {f}
    <3>1. IsFiniteSet(fs)
      BY Apart, FS_Subset
    <3>2. QED
      BY <2>1, <3>1, FS_Singleton
  <2>4. req'[t].folders = fs
    BY <1>0, <2>1
  <2>5. QED
    BY <1>0, <1>1, <2>2, <2>3, <2>4
<1>3. CASE AskGate(t) \/ TakeLock(t)
  BY <1>0, <1>1, <1>3 DEF AskGate, TakeLock, NowAt
<1>4. CASE Held(t)
  <2>1. CASE at' = [at EXCEPT ![t] = "failed"] /\ UNCHANGED work
    BY <1>0, <1>1, <1>4, <2>1 DEF Held
  <2>2. ASSUME NEW place \in {"group", "claim"}, StartWork(t, place), UNCHANGED lock PROVE OnCourse(t)'
    <3>1. work'[t].todo = req[t].folders /\ work'[t].folder = NoFolder /\ work'[t].failed = FALSE
      BY <1>0, <2>2 DEF Idle, StartWork
    <3>2. QED
      BY <1>0, <1>1, <1>4, <2>2, <3>1 DEF Held, StartWork, NowAt
  <2>3. QED
    BY <1>4, <2>1, <2>2 DEF Held, NowAt
<1>5. CASE Claim(t)
  BY <1>0, <1>1, <1>5 DEF Claim, NowAt
<1>6. CASE MoveAside(t)
  <2>1. CASE at' = [at EXCEPT ![t] = "group"] /\ UNCHANGED work
    BY <1>0, <1>1, <1>6, <2>1 DEF MoveAside
  <2>2. CASE at' = [at EXCEPT ![t] = "settle"] /\ work' = [work EXCEPT ![t].todo = {}, ![t].failed = TRUE]
    <3>1. work'[t].failed /\ work'[t].folder = work[t].folder
      BY <1>0, <2>2 DEF WorkRecords
    <3>2. QED
      BY <1>0, <1>1, <1>6, <2>2, <3>1 DEF MoveAside
  <2>3. QED
    BY <1>6, <2>1, <2>2 DEF MoveAside, NowAt
<1>7. CASE Group(t)
  <2>1. PICK f \in work[t].todo :
          \/ work' = [work EXCEPT ![t].todo = @ \ {f}, ![t].failed = TRUE] /\ UNCHANGED at
          \/ /\ work' = [work EXCEPT ![t].todo = @ \ {f}, ![t].folder = f,
                        ![t].moved = MustMove(f, req[t].enable), ![t].changed = FALSE,
                        ![t].rows = {c \in Members(f) : seen[t][c] # req[t].enable}]
             /\ at' = [at EXCEPT ![t] = "rows"]
    BY <1>7 DEF Group, NowAt
  <2>2. CASE work' = [work EXCEPT ![t].todo = @ \ {f}, ![t].failed = TRUE] /\ UNCHANGED at
    <3>1. work'[t].todo = work[t].todo \ {f} /\ work'[t].folder = work[t].folder
      BY <1>0, <2>2 DEF WorkRecords
    <3>2. QED
      BY <1>0, <1>1, <1>7, <2>2, <3>1 DEF Group
  <2>3. CASE /\ work' = [work EXCEPT ![t].todo = @ \ {f}, ![t].folder = f,
                        ![t].moved = MustMove(f, req[t].enable), ![t].changed = FALSE,
                        ![t].rows = {c \in Members(f) : seen[t][c] # req[t].enable}]
             /\ at' = [at EXCEPT ![t] = "rows"]
    <3>1. /\ work'[t].todo = work[t].todo \ {f} /\ work'[t].folder = f
          /\ work'[t].rows = {c \in Members(f) : seen[t][c] # req[t].enable}
      BY <1>0, <2>3 DEF WorkRecords
    <3>2. at' = [at EXCEPT ![t] = "rows"] /\ lock' = lock /\ req' = req /\ at[t] = "group"
      BY <1>7, <2>3 DEF Group
    <3>3. Members(work[t].folder)' = Members(f)
      BY <3>1 DEF Members
    <3>4. QED
      BY <1>0, <1>1, <3>1, <3>2, <3>3
  <2>4. QED
    BY <2>1, <2>2, <2>3
<1>8. CASE SaveRow(t)
  <2>1. PICK c \in work[t].rows :
          \/ work' = [work EXCEPT ![t].rows = @ \ {c}, ![t].changed = TRUE] /\ UNCHANGED at
          \/ work' = [work EXCEPT ![t].failed = TRUE, ![t].folder = NoFolder] /\ at' = [at EXCEPT ![t] = "group"]
    BY <1>8 DEF SaveRow, NowAt
  <2>2. CASE work' = [work EXCEPT ![t].rows = @ \ {c}, ![t].changed = TRUE] /\ UNCHANGED at
    <3>1. /\ work'[t].todo = work[t].todo /\ work'[t].folder = work[t].folder
          /\ work'[t].rows \subseteq work[t].rows
      BY <1>0, <2>2 DEF WorkRecords
    <3>2. Members(work[t].folder)' = Members(work[t].folder)
      BY <3>1 DEF Members
    <3>3. QED
      BY <1>0, <1>1, <1>8, <2>2, <3>1, <3>2 DEF SaveRow
  <2>3. CASE work' = [work EXCEPT ![t].failed = TRUE, ![t].folder = NoFolder] /\ at' = [at EXCEPT ![t] = "group"]
    <3>1. work'[t].todo = work[t].todo /\ work'[t].folder = NoFolder
      BY <1>0, <2>3 DEF WorkRecords
    <3>2. QED
      BY <1>0, <1>1, <1>8, <2>3, <3>1 DEF SaveRow
  <2>4. QED
    BY <2>1, <2>2, <2>3
<1>9. CASE SaveRevision(t)
  <2>1. work'[t].todo = work[t].todo /\ work'[t].folder = NoFolder
    <3>1. work' = [work EXCEPT ![t].folder = NoFolder] \/ work' = [work EXCEPT ![t].failed = TRUE, ![t].folder = NoFolder]
      BY <1>9 DEF SaveRevision
    <3>2. QED
      BY <1>0, <3>1 DEF WorkRecords
  <2>2. at' = [at EXCEPT ![t] = "group"] /\ lock' = lock /\ req' = req /\ at[t] = "rows"
    BY <1>9 DEF SaveRevision, NowAt
  <2>3. QED
    BY <1>0, <1>1, <2>1, <2>2
<1>10. CASE Settle(t)
  <2>1. work'[t].folder = NoFolder /\ req' = req /\ at[t] # "idle"
    BY <1>0, <1>10 DEF Settle, Idle
  <2>2. at'[t] \in {"ok", "failed"}
    BY <1>0, <1>10 DEF Settle, NowAt
  <2>3. QED
    BY <1>1, <2>1, <2>2
<1>11. QED
  BY <1>2, <1>3, <1>4, <1>5, <1>6, <1>7, <1>8, <1>9, <1>10 DEF TaskStep

LEMMA CourseHolds ==
    ASSUME TInv, [ToggleNext]_toggleVars
    PROVE  TaskCourse'
<1>0. \A u \in Tasks : OnCourse(u)
  BY DEF TInv, TaskCourse
<1>1. ASSUME NEW u \in Tasks, at'[u] = at[u], work'[u] = work[u], req'[u] = req[u], lock = u => lock' = u
      PROVE  OnCourse(u)'
  <2>1. Members(work[u].folder)' = Members(work[u].folder)
    BY <1>1 DEF Members
  <2>2. QED
    BY <1>0, <1>1, <2>1 DEF OnCourse
<1>2. ASSUME NEW t \in Tasks, TaskStep(t), NEW u \in Tasks PROVE OnCourse(u)'
  <2>1. CASE u = t
    BY <1>2, <2>1, StepCourse
  <2>2. CASE u # t
    BY <1>1, <1>2, <2>2, OthersKept, Apart
  <2>3. QED
    BY <2>1, <2>2
<1>3. ASSUME RecoveryStep, NEW u \in Tasks PROVE OnCourse(u)'
  BY <1>1, <1>3, RecoveryKeeps, Apart
<1>4. ASSUME NEW p \in Programs, KillProgram(p), NEW u \in Tasks PROVE OnCourse(u)'
  <2>1. CASE at'[u] = at[u]
    BY <1>0, <1>1, <1>4, <2>1, KillKeeps DEF OnCourse
  <2>2. CASE at'[u] = "dead" /\ at[u] # "idle"
    BY <1>0, <1>4, <2>2, KillKeeps DEF OnCourse, InHand
  <2>3. QED
    BY <1>4, <2>1, <2>2, KillKeeps
<1>5. CASE UNCHANGED <<at, work, req, lock>>
  BY <1>1, <1>5 DEF TaskCourse
<1>6. QED
  BY <1>2, <1>3, <1>4, <1>5 DEF TaskCourse, ToggleNext, DropStray, PreparePreview, toggleVars

LEMMA RecoveryCourseHolds ==
    ASSUME TInv, [ToggleNext]_toggleVars
    PROVE  RecoveryCourse'
<1> DEFINE o == work[Recovery].op
<1>0. /\ RecoveryCourse /\ work \in [Tasks \union {Recovery} -> WorkRecords] /\ work[Recovery] \in WorkRecords
      /\ Recovery \notin Tasks /\ Nobody \notin Tasks /\ Nobody # Recovery /\ o \in Tasks \union {Nobody}
      /\ at \in [Tasks -> TaskStages]
  BY Apart DEF TInv, TaskTypes, WorkRecords
<1>1. CASE UNCHANGED <<at, work, req, lock>>
  BY <1>0, <1>1 DEF RecoveryCourse
<1>2. ASSUME NEW t \in Tasks, TaskStep(t) PROVE RecoveryCourse'
  <2>1. work'[Recovery] = work[Recovery] /\ (lock' = Recovery <=> lock = Recovery)
    BY <1>0, <1>2, OthersKept
  <2>2. at'[t] # "idle"
    BY <1>0, <1>2 DEF TaskStep, Ask, AskGate, TakeLock, Held, Claim, MoveAside, Group, SaveRow, SaveRevision, Settle,
                      NowAt, StartWork
  <2>3. o \in Tasks => at'[o] # "idle" /\ req'[o] = req[o]
    <3>1. CASE o = t
      BY <1>0, <1>2, <2>2, <3>1
      DEF TaskStep, Ask, AskGate, TakeLock, Held, Claim, MoveAside, Group, SaveRow, SaveRevision, Settle, RecoveryCourse
    <3>2. CASE o # t
      BY <1>0, <1>2, <3>2, OthersKept DEF RecoveryCourse
    <3>3. QED
      BY <3>1, <3>2
  <2>4. QED
    BY <1>0, <2>1, <2>3 DEF RecoveryCourse
<1>3. CASE RecoveryStep
  <2>0. UNCHANGED <<at, req>>
    BY <1>3, RecoveryKeeps
  <2>1. CASE work' = [work EXCEPT ![Recovery] = Idle] /\ lock' # Recovery
    <3>1. work'[Recovery] = Idle /\ Idle.op = Nobody
      BY <1>0, <2>1 DEF Idle
    <3>2. [Idle EXCEPT !.op = Idle.op] = Idle
      BY DEF Idle
    <3>3. QED
      BY <1>0, <2>1, <3>1, <3>2 DEF RecoveryCourse
  <2>2. ASSUME NEW state, RecoveryEnds(state) PROVE work' = [work EXCEPT ![Recovery] = Idle] /\ lock' # Recovery
    BY <1>0, <2>2 DEF RecoveryEnds
  <2>3. ASSUME NEW t \in Tasks, RecoveryReads(t) PROVE RecoveryCourse'
    <3>1. work'[Recovery] = [Idle EXCEPT !.op = t] /\ work'[Recovery].op = t /\ o = Nobody /\ lock' = lock
      BY <1>0, <2>3 DEF RecoveryReads, Idle
    <3>2. at[t] # "idle"
      BY <2>3 DEF RecoveryReads, Outstanding, TInv, Journalled, OnRecord, NoOperation
    <3>3. QED
      BY <1>0, <2>0, <3>1, <3>2 DEF RecoveryCourse
  <2>4. CASE RecoveryLocks
    <3>1. CASE lock = Nobody
      <4>1. work'[Recovery].op = o /\ work'[Recovery].todo = req[o].folders /\ lock' = Recovery /\ o # Nobody
        BY <1>0, <2>4, <3>1 DEF RecoveryLocks, WorkRecords
      <4>2. QED
        BY <1>0, <2>0, <4>1 DEF RecoveryCourse
    <3>2. CASE lock # Nobody
      BY <1>0, <2>1, <2>4, <3>2 DEF RecoveryLocks
    <3>3. QED
      BY <3>1, <3>2
  <2>5. CASE lock' = lock /\ lock = Recovery /\ work'[Recovery].op = o /\ work'[Recovery].todo \subseteq work[Recovery].todo
    BY <1>0, <2>0, <2>5 DEF RecoveryCourse
  <2>6. CASE RecoverFolder
    <3>1. CASE UNCHANGED work /\ UNCHANGED lock
      BY <2>5, <2>6, <3>1 DEF RecoverFolder
    <3>2. ASSUME NEW f \in work[Recovery].todo, UNCHANGED lock,
                 work' = [work EXCEPT ![Recovery].todo = @ \ {f},
                  ![Recovery].rows = StillToSave(f, req[o].enable, MustMove(f, req[o].enable)),
                  ![Recovery].changed = @ \/ MustMove(f, req[o].enable)]
          PROVE  RecoveryCourse'
      <4>1. work'[Recovery].op = o /\ work'[Recovery].todo = work[Recovery].todo \ {f}
        BY <1>0, <3>2 DEF WorkRecords
      <4>2. QED
        BY <2>5, <2>6, <3>2, <4>1 DEF RecoverFolder
    <3>3. QED
      BY <2>1, <2>2, <2>6, <3>1, <3>2 DEF RecoverFolder
  <2>7. CASE RecoverRow
    <3>1. ASSUME NEW c \in work[Recovery].rows, UNCHANGED lock,
                 work' = [work EXCEPT ![Recovery].rows = @ \ {c}, ![Recovery].changed = TRUE]
          PROVE  RecoveryCourse'
      <4>1. work'[Recovery].op = o /\ work'[Recovery].todo = work[Recovery].todo
        BY <1>0, <3>1 DEF WorkRecords
      <4>2. QED
        BY <2>5, <2>7, <3>1, <4>1 DEF RecoverRow
    <3>2. QED
      BY <2>1, <2>2, <2>7, <3>1 DEF RecoverRow
  <2>8. CASE RecoverEnd
    BY <2>1, <2>2, <2>8 DEF RecoverEnd
  <2>9. QED
    BY <1>3, <2>3, <2>4, <2>6, <2>7, <2>8 DEF RecoveryStep
<1>4. ASSUME NEW p \in Programs, KillProgram(p) PROVE RecoveryCourse'
  <2>0. o \in Tasks => at'[o] # "idle"
    BY <1>0, <1>4, KillKeeps DEF RecoveryCourse
  <2>1. CASE work'[Recovery] = work[Recovery] /\ (lock = Recovery => lock' = Recovery)
    BY <1>0, <1>4, <2>0, <2>1, KillKeeps DEF RecoveryCourse
  <2>2. CASE work'[Recovery] = Idle /\ lock' # Recovery
    <3>1. [Idle EXCEPT !.op = Idle.op] = Idle /\ Idle.op \notin Tasks
      BY <1>0 DEF Idle
    <3>2. QED
      BY <2>2, <3>1 DEF RecoveryCourse
  <2>3. QED
    BY <1>0, <1>4, <2>1, <2>2 DEF KillProgram
<1>5. QED
  BY <1>1, <1>2, <1>3, <1>4 DEF ToggleNext, DropStray, PreparePreview, toggleVars

LEMMA StepRecord ==
    ASSUME TInv, NEW t \in Tasks, TaskStep(t)
    PROVE  OnRecord(t)' /\ at'[t] # "dead"
<1>0. /\ entry \in [Tasks -> Operations] /\ entry[t] \in Operations /\ at \in [Tasks -> TaskStages]
      /\ OnRecord(t) /\ OnCourse(t)
  BY DEF TInv, TaskTypes, Journalled, TaskCourse
<1> USE DEF OnRecord, InHand
<1>1. CASE Ask(t) \/ AskGate(t) \/ TakeLock(t)
  <2>1. entry'[t] = NoOperation /\ NoOperation.state = "none" /\ NoOperation.from = "none" /\ NoOperation.recovered = FALSE
    BY <1>0, <1>1 DEF Ask, AskGate, TakeLock, NoOperation
  <2>2. at'[t] \in {"asked", "gated", "held", "refused"}
    BY <1>0, <1>1 DEF Ask, AskGate, TakeLock, NowAt
  <2>3. QED
    BY <2>1, <2>2
<1>2. CASE Held(t)
  <2>0. entry[t] = NoOperation /\ NoOperation.state = "none" /\ NoOperation.from = "none" /\ NoOperation.recovered = FALSE
    BY <1>0, <1>2 DEF Held, NoOperation
  <2>1. CASE UNCHANGED entry /\ KindOf[t] # "many" /\ \E place \in {"failed", "group"} : at' = [at EXCEPT ![t] = place]
    BY <1>0, <2>0, <2>1
  <2> DEFINE from == IF KindOf[t] = "aside" THEN StrayPlace(CHOOSE g \in req[t].folders : TRUE) ELSE "none"
  <2>2. CASE /\ entry' = [entry EXCEPT ![t] = [NoOperation EXCEPT !.state = "committing", !.from = from]]
             /\ at' = [at EXCEPT ![t] = "claim"]
    <3> HIDE DEF from
    <3>1. entry'[t].state = "committing" /\ entry'[t].from = from /\ entry'[t].recovered = FALSE
      BY <1>0, <2>2 DEF NoOperation
    <3>2. from # "none" => KindOf[t] = "aside"
      BY DEF from
    <3>3. QED
      BY <1>0, <2>2, <3>1, <3>2
  <2>3. QED
    BY <1>2, <2>1, <2>2 DEF Held, NowAt, StartWork
<1>3. CASE Claim(t)
  <2>1. CASE entry' = [entry EXCEPT ![t].claimed = TRUE] /\ \E place \in {"aside", "group"} : at' = [at EXCEPT ![t] = place]
    <3>1. entry'[t].state = entry[t].state /\ entry'[t].claimed /\ entry'[t].from = entry[t].from
          /\ entry'[t].recovered = entry[t].recovered
      BY <1>0, <2>1 DEF Operations
    <3>2. QED
      BY <1>0, <1>3, <2>1, <3>1 DEF Claim
  <2>2. CASE UNCHANGED entry /\ at' = [at EXCEPT ![t] = "failed"]
    BY <1>0, <2>2
  <2>3. QED
    BY <1>3, <2>1, <2>2 DEF Claim, NowAt
<1>4. CASE MoveAside(t)
  BY <1>0, <1>4 DEF MoveAside, NowAt, TInv, AsidePlanned
<1>5. CASE Group(t) \/ SaveRow(t) \/ SaveRevision(t)
  BY <1>0, <1>5 DEF Group, SaveRow, SaveRevision, NowAt
<1>6. CASE Settle(t)
  <2>1. at'[t] \in {"ok", "failed"}
    BY <1>0, <1>6 DEF Settle, NowAt
  <2>2. entry'[t].from = entry[t].from /\ (entry'[t].recovered => entry'[t].state = "succeeded")
    BY <1>0, <1>6 DEF Settle, Operations
  <2>3. QED
    BY <1>0, <2>1, <2>2
<1>7. QED
  BY <1>1, <1>2, <1>3, <1>4, <1>5, <1>6 DEF TaskStep

LEMMA RecordHolds ==
    ASSUME TInv, [ToggleNext]_toggleVars
    PROVE  Journalled'
<1>0. /\ \A u \in Tasks : OnRecord(u) /\ OnCourse(u)
      /\ HalfBatchIsHeld /\ Recovery \notin Tasks /\ work \in [Tasks \union {Recovery} -> WorkRecords]
      /\ at \in [Tasks -> TaskStages] /\ entry \in [Tasks -> Operations]
  BY Apart DEF TInv, TaskTypes, Journalled, TaskCourse
<1> DEFINE Half(u) == KindOf[u] = "many" /\ at[u] = "dead" /\ work[u].folder # NoFolder
                      => entry[u].recovered \/ (Outstanding(u) /\ entry[u].claimed)
<1>1. SUFFICES ASSUME NEW u \in Tasks PROVE OnRecord(u)' /\ Half(u)'
  BY DEF Journalled, HalfBatchIsHeld
<1>2. Half(u)
  BY <1>0 DEF HalfBatchIsHeld
<1>3. CASE at'[u] = at[u] /\ entry'[u] = entry[u] /\ work'[u] = work[u]
  BY <1>0, <1>2, <1>3 DEF OnRecord, Outstanding
<1>4. ASSUME NEW t \in Tasks, TaskStep(t) PROVE OnRecord(u)' /\ Half(u)'
  BY <1>3, <1>4, OthersKept, StepRecord
<1>5. CASE RecoveryStep
  <2>1. CASE entry'[u] # entry[u]
    <3>1. lock = Recovery /\ u = work[Recovery].op /\ Outstanding(u) /\ at'[u] = at[u] /\ work'[u] = work[u]
      BY <1>5, <2>1, RecoveryKeeps
    <3>2. PICK state \in {"recovery", "succeeded"} : RecoveryEnds(state)
      BY <1>5, <2>1 DEF RecoveryStep, RecoveryReads, RecoveryLocks, RecoverFolder, RecoverRow, RecoverEnd
    <3>3. /\ entry'[u].state = state /\ entry'[u].recovered = (state = "succeeded")
          /\ entry'[u].from = entry[u].from /\ entry'[u].claimed = entry[u].claimed
      BY <1>0, <3>1, <3>2 DEF RecoveryEnds, Operations
    <3>4. at[u] \notin InHand \union {"idle", "asked", "gated", "held", "refused"}
      BY <1>0, <3>1 DEF OnCourse, OnRecord, Outstanding, NoOperation
    <3>5. OnRecord(u)'
      BY <1>0, <3>1, <3>3, <3>4 DEF OnRecord, InHand
    <3>6. Half(u)'
      BY <1>0, <1>2, <3>1, <3>3 DEF OnRecord, Outstanding
    <3>7. QED
      BY <3>5, <3>6
  <2>2. QED
    BY <1>3, <1>5, <2>1, RecoveryKeeps
<1>6. ASSUME NEW p \in Programs, KillProgram(p) PROVE OnRecord(u)' /\ Half(u)'
  <2>1. CASE at'[u] = "dead" /\ at[u] \notin Finished \union {"idle"}
    <3>1. entry'[u] = entry[u] /\ work'[u] = work[u]
      BY <1>6, KillKeeps
    <3>2. OnRecord(u)'
      BY <1>0, <2>1, <3>1 DEF OnRecord, InHand
    <3>3. Half(u)'
      BY <1>0, <2>1, <3>1 DEF OnRecord, OnCourse, Outstanding, Finished
    <3>4. QED
      BY <3>2, <3>3
  <2>2. QED
    BY <1>3, <1>6, <2>1, KillKeeps
<1>7. QED
  BY <1>3, <1>4, <1>5, <1>6 DEF ToggleNext, DropStray, PreparePreview, toggleVars

-----------------------------------------------------------------------------
(* Plans.                                                                   *)

\* Nothing moves in a folder a plan is about until its request moves it.
LEMMA PlannedFolderRests ==
    ASSUME TInv, FileStep, NEW t \in Tasks, at[t] \in {"claim", "aside"}, KindOf[t] = "aside",
           at'[t] \in {"claim", "aside"}
    PROVE  mods'[Target(t)] = mods[Target(t)] /\ disabled'[Target(t)] = disabled[Target(t)]
<1> DEFINE f == Target(t)
<1>0. /\ f \in Folders /\ lock = t /\ t # Recovery
      /\ mods[f] # "none" /\ disabled[f] # "none"
      /\ mods \in [Folders -> Copies] /\ disabled \in [Folders -> Copies] /\ at \in [Tasks -> TaskStages]
  BY TheTarget, Apart
  DEF TInv, TaskCourse, OnCourse, InHand, AsidePlanned, Collides, TaskTypes, ToggleTypeOK
<1> HIDE DEF f
<1>1. CASE UNCHANGED <<filesVars, strays>>
  BY <1>1 DEF filesVars, f
<1>2. ASSUME NEW g \in Folders, Swapped(g) PROVE mods'[f] = mods[f] /\ disabled'[f] = disabled[f]
  BY <1>0, <1>2 DEF Swapped, MoveRefused
<1>3. ASSUME NEW u \in Tasks, MoveAside(u) PROVE FALSE
  <2>1. at[u] = "aside" /\ at' # at
    BY <1>3, <1>0 DEF MoveAside, NowAt
  <2>2. u = t
    BY <1>0, <2>1 DEF TInv, TaskCourse, OnCourse, InHand
  <2>3. at'[t] \in {"group", "settle"}
    BY <1>0, <1>3, <2>2 DEF MoveAside, NowAt
  <2>4. QED
    BY <2>3
<1>4. ~RecoverFolder
  BY <1>0 DEF RecoverFolder
<1>5. ASSUME NEW g \in Folders, DropStray(g) PROVE mods'[f] = mods[f] /\ disabled'[f] = disabled[f]
  BY <1>0, <1>5 DEF DropStray
<1>6. QED
  BY <1>1, <1>2, <1>3, <1>4, <1>5 DEF FileStep, f

LEMMA PlannedHolds ==
    ASSUME TInv, [ToggleNext]_toggleVars, FileStep
    PROVE  AsidePlanned'
<1> SUFFICES ASSUME NEW t \in Tasks, at'[t] \in {"claim", "aside"}
             PROVE  /\ at'[t] = "aside" => KindOf[t] = "aside"
                    /\ KindOf[t] = "aside" => /\ entry'[t].from # "none"
                                              /\ Collides(Target(t))' /\ CopyAt(Target(t), entry[t].from)' = "stray"
  BY DEF AsidePlanned
<1>0. /\ at \in [Tasks -> TaskStages] /\ entry \in [Tasks -> Operations] /\ entry[t] \in Operations
      /\ \A u \in Tasks : OnCourse(u)
      /\ \A f \in Folders : mods[f] \in Copies /\ disabled[f] \in Copies
      /\ "mods" \notin Tasks /\ "disabled" \notin Tasks
  BY Apart DEF TInv, TaskTypes, ToggleTypeOK, TaskCourse
<1> DEFINE Planned == /\ entry[t].from # "none"
                      /\ Collides(Target(t)) /\ CopyAt(Target(t), entry[t].from) = "stray"
<1>1. at[t] = "aside" => KindOf[t] = "aside"
  BY DEF TInv, AsidePlanned
<1>2. at[t] \in {"claim", "aside"} /\ KindOf[t] = "aside" => Planned
  BY DEF TInv, AsidePlanned
<1>3. ASSUME at[t] \in {"claim", "aside"}, entry'[t].from = entry[t].from, req'[t] = req[t], KindOf[t] = "aside"
      PROVE  Planned'
  <2>1. Target(t)' = Target(t)
    BY <1>3 DEF Target
  <2>2. mods'[Target(t)] = mods[Target(t)] /\ disabled'[Target(t)] = disabled[Target(t)]
    BY <1>3, PlannedFolderRests
  <2>3. entry[t].from \in {"mods", "disabled"}
    BY <1>0, <1>2, <1>3 DEF Operations
  <2>4. QED
    BY <1>2, <1>3, <2>1, <2>2, <2>3 DEF Collides, CopyAt
<1>4. CASE at'[t] = at[t] /\ entry'[t].from = entry[t].from /\ req'[t] = req[t]
  BY <1>1, <1>3, <1>4
<1>5. CASE Held(t)
  <2> DEFINE f == Target(t)
             from == IF KindOf[t] = "aside" THEN StrayPlace(f) ELSE "none"
  <2>1. /\ entry' = [entry EXCEPT ![t] = [NoOperation EXCEPT !.state = "committing", !.from = from]]
        /\ at' = [at EXCEPT ![t] = "claim"] /\ UNCHANGED <<mods, disabled, aside, req>>
        /\ KindOf[t] = "aside" => Collides(f)
    BY <1>0, <1>5 DEF Held, StartWork, NowAt, Target, filesVars
  <2>2. CASE KindOf[t] = "aside"
    <3>1. f \in Folders /\ at[t] = "held"
      BY <1>5, <2>2, TheTarget DEF Held
    <3>2. CopyAt(f, StrayPlace(f)) = "stray"
      <4>1. ~(mods[f] = "own" /\ disabled[f] = "own")
        <5>1. PICK h \in Places : \A k \in Places : CopyAt(f, k) = "own" => k = h
          BY <3>1 DEF TInv, OwnOnce
        <5>2. "mods" \in Places /\ "disabled" \in Places /\ CopyAt(f, "mods") = mods[f] /\ CopyAt(f, "disabled") = disabled[f]
          BY DEF Places, CopyAt
        <5>3. QED
          BY <5>1, <5>2
      <4>2. mods[f] \in {"own", "stray"} /\ disabled[f] \in {"own", "stray"}
        BY <1>0, <2>1, <2>2, <3>1 DEF Collides, Copies
      <4>3. QED
        BY <4>1, <4>2 DEF StrayPlace, HoldsInventory, CopyAt
    <3>3. f' = f
      BY <2>1 DEF Target
    <3>4. entry'[t].from = StrayPlace(f)
      BY <1>0, <2>1, <2>2 DEF NoOperation
    <3>5. StrayPlace(f) # "none"
      BY DEF StrayPlace
    <3>6. CopyAt(f, StrayPlace(f))' = CopyAt(f', StrayPlace(f)') /\ StrayPlace(f)' = StrayPlace(f) /\ Collides(f)'
      BY <2>1, <2>2, <3>3 DEF CopyAt, StrayPlace, HoldsInventory, Collides
    <3>7. CopyAt(f, entry[t].from)' = "stray"
      BY <2>1, <3>2, <3>3, <3>4 DEF CopyAt
    <3>8. QED
      BY <1>0, <2>1, <2>2, <3>4, <3>5, <3>6, <3>7
  <2>3. QED
    BY <1>0, <2>1, <2>2
<1>6. CASE Claim(t)
  <2>1. at[t] = "claim" /\ at'[t] = (IF KindOf[t] = "aside" THEN "aside" ELSE "group") /\ req' = req
    BY <1>0, <1>6 DEF Claim, NowAt
  <2>2. entry'[t].from = entry[t].from
    BY <1>0, <1>6 DEF Claim, Operations
  <2>3. QED
    BY <1>3, <2>1, <2>2
<1>7. ASSUME TaskStep(t), ~Held(t), ~Claim(t) PROVE FALSE
  BY <1>0, <1>7 DEF TaskStep, Ask, AskGate, TakeLock, MoveAside, Group, SaveRow, SaveRevision, Settle, NowAt
<1>8. ASSUME NEW u \in Tasks, TaskStep(u) PROVE u = t \/ (at'[t] = at[t] /\ entry'[t].from = entry[t].from /\ req'[t] = req[t])
  BY <1>8, OthersKept
<1>9. CASE RecoveryStep
  <2>1. at' = at /\ req' = req /\ lock = t
    BY <1>0, <1>9, RecoveryKeeps DEF OnCourse, InHand
  <2>2. QED
    BY <1>4, <1>9, <2>1, RecoveryKeeps, Apart
<1>10. ASSUME NEW p \in Programs, KillProgram(p) PROVE at'[t] = at[t] /\ entry'[t].from = entry[t].from /\ req'[t] = req[t]
  BY <1>10, KillKeeps
<1>11. QED
  BY <1>4, <1>5, <1>6, <1>7, <1>8, <1>9, <1>10 DEF ToggleNext, DropStray, PreparePreview, toggleVars

\* Where there are two copies of a mod's folder one is a stranger, and with
\* one stranger there is no other.
LEMMA CollisionHasStray ==
    ASSUME TInv, NEW f \in Folders, Collides(f)
    PROVE  mods[f] = "stray" \/ disabled[f] = "stray"
<1>1. PICK h \in Places : \A k \in Places : CopyAt(f, k) = "own" => k = h
  BY DEF TInv, OwnOnce
<1>2. "mods" \in Places /\ "disabled" \in Places /\ CopyAt(f, "mods") = mods[f] /\ CopyAt(f, "disabled") = disabled[f]
  BY DEF Places, CopyAt
<1>3. mods[f] \in Copies /\ disabled[f] \in Copies
  BY DEF TInv, TaskTypes, ToggleTypeOK
<1>4. QED
  BY <1>1, <1>2, <1>3 DEF Collides, Copies

LEMMA OnlyStray ==
    ASSUME TInv, strays <= 1, NEW x \in Strays, NEW y \in Strays
    PROVE  x = y
<1>1. IsFiniteSet(Strays) /\ Cardinality(Strays) = strays /\ strays \in Nat
  BY DEF TInv, StrayCount, TaskTypes
<1>2. Strays # {}
  OBVIOUS
<1>3. Cardinality(Strays) = 1
  BY <1>1, <1>2, FS_EmptySet
<1>4. PICK z : Strays = {z}
  BY <1>1, <1>3, FS_Singleton
<1>5. QED
  BY <1>4

\* What recovery moves aside from the plan is the stranger.
LEMMA RecoveryTakesStray ==
    ASSUME TInv, strays <= 1, RecoverFolder, NEW f \in work[Recovery].todo,
           Collides(f), entry[work[Recovery].op].from # "none"
    PROVE  /\ work[Recovery].op \in Tasks /\ f \in Folders /\ f = Target(work[Recovery].op)
           /\ entry[work[Recovery].op].from \in {"mods", "disabled"}
           /\ CopyAt(f, entry[work[Recovery].op].from) = "stray"
<1> DEFINE o == work[Recovery].op
           from == entry[o].from
<1>1. o \in Tasks /\ at[o] # "idle" /\ f \in req[o].folders
  BY DEF RecoverFolder, TInv, RecoveryCourse
<1>2. KindOf[o] = "aside" /\ from \in {"mods", "disabled"}
  BY <1>1 DEF TInv, Journalled, OnRecord, TaskTypes, Operations
<1>3. f = Target(o) /\ f \in Folders
  BY <1>1, <1>2, TheTarget
<1>4. PICK h \in {from} \union Tasks : CopyAt(f, h) = "stray"
  BY <1>1, <1>3 DEF TInv, OneStranger, PlanOK
<1>5. CASE h \in Tasks
  <2>1. PICK k \in {"mods", "disabled"} : CopyAt(f, k) = "stray"
    BY <1>3, CollisionHasStray DEF CopyAt
  <2>2. <<f, h>> \in Strays /\ <<f, k>> \in Strays
    BY <1>3, <1>4, <1>5, <2>1 DEF Strays, Places
  <2>3. h = k
    BY <2>2, OnlyStray
  <2>4. QED
    BY <1>5, <2>3, Apart
<1>6. QED
  BY <1>1, <1>2, <1>3, <1>4, <1>5

LEMMA StraysGrow ==
    ASSUME TInv, FileStep
    PROVE  /\ strays \in Nat /\ strays' \in Nat /\ strays <= strays'
           /\ strays' = strays \/ strays' = strays + 1
<1>1. strays' = strays \/ strays' = strays + 1
  BY DEF FileStep, Swapped, TakenAside, DropStray
<1>2. strays \in Nat
  BY DEF TInv, TaskTypes
<1>3. QED
  BY <1>1, <1>2

LEMMA OwnStaysHolds ==
    ASSUME TInv, FileStep
    PROVE  OwnStaysInProfile'
<1> SUFFICES ASSUME strays' <= 1, NEW t \in Tasks, NEW f \in Folders
             PROVE  aside'[t][f] # "own"
  BY DEF OwnStaysInProfile
<1>0. /\ strays <= 1 /\ aside[t][f] # "own"
      /\ aside \in [Tasks -> [Folders -> Copies]]
  BY StraysGrow DEF TInv, OneStranger, OwnStaysInProfile, TaskTypes, ToggleTypeOK
<1>1. ASSUME NEW u \in Tasks, NEW g \in Folders, TakenAside(u, g), entry[u].from \in {"mods", "disabled"},
             CopyAt(g, entry[u].from) = "stray"
      PROVE  aside'[t][f] # "own"
  <2>1. aside' = [aside EXCEPT ![u][g] = "stray"]
    BY <1>1 DEF TakenAside, CopyAt
  <2>2. QED
    BY <1>0, <2>1
<1>2. CASE UNCHANGED aside
  BY <1>0, <1>2
<1>3. ASSUME NEW u \in Tasks, MoveAside(u), TakenAside(u, Target(u)) PROVE aside'[t][f] # "own"
  <2>1. at[u] = "aside" /\ KindOf[u] = "aside" /\ CopyAt(Target(u), entry[u].from) = "stray" /\ entry[u].from # "none"
    BY <1>3 DEF MoveAside, TInv, AsidePlanned
  <2>2. entry[u].from \in {"mods", "disabled"} /\ Target(u) \in Folders
    BY <2>1, TheTarget DEF TInv, TaskTypes, Operations
  <2>3. QED
    BY <1>1, <1>3, <2>1, <2>2
<1>4. ASSUME RecoverFolder, NEW g \in work[Recovery].todo, Collides(g), entry[work[Recovery].op].from # "none",
             TakenAside(work[Recovery].op, g)
      PROVE  aside'[t][f] # "own"
  BY <1>0, <1>1, <1>4, RecoveryTakesStray
<1>5. QED
  BY <1>2, <1>3, <1>4 DEF FileStep, filesVars, Swapped, DropStray

\* A stranger in its place or in a recovery folder stays in one of the two.
LEMMA StrangerIsFound ==
    ASSUME TInv, FileStep, strays <= 1, NEW f \in Folders, NEW from \in {"mods", "disabled"},
           NEW h \in {from} \union Tasks, CopyAt(f, h) = "stray"
    PROVE  \E k \in {from} \union Tasks : CopyAt(f, k)' = "stray"
<1>0. h \in Places /\ "mods" \notin Tasks /\ "disabled" \notin Tasks
  BY Apart DEF Places
<1>1. CASE UNCHANGED <<filesVars, strays>>
  BY <1>1 DEF filesVars, CopyAt
<1>2. ASSUME NEW g \in Folders, Swapped(g) PROVE CopyAt(f, h)' = "stray"
  <2>1. CASE g # f \/ h \in Tasks
    <3>1. CopyAt(f, h)' = CopyAt(f, h)
      BY <1>0, <1>2, <2>1 DEF Swapped, CopyAt, TInv, TaskTypes, ToggleTypeOK
    <3>2. QED
      BY <3>1
  <2>2. CASE g = f /\ h \in {"mods", "disabled"}
    <3>1. PICK k \in Places : CopyAt(f, k) = "own"
      BY DEF TInv, OwnOnce
    <3>2. CASE k \in Tasks
      BY <1>0, <3>1, <3>2 DEF TInv, OneStranger, OwnStaysInProfile, CopyAt
    <3>3. CASE k \in {"mods", "disabled"}
      BY <1>2, <2>2, <3>1, <3>3 DEF Swapped, MoveRefused, CopyAt
    <3>4. QED
      BY <3>2, <3>3 DEF Places
  <2>3. QED
    BY <2>1, <2>2
<1>3. ASSUME NEW u \in Tasks, NEW g \in Folders, TakenAside(u, g) PROVE \E k \in {from} \union Tasks : CopyAt(f, k)' = "stray"
  <2>1. PICK s \in {"mods", "disabled"} : CopyMoves(g, s, u)
    BY <1>3, AsideCopyMoves
  <2>2. s \in Places /\ u \in Places
    BY DEF Places
  <2>3. CASE g = f /\ s = h
    <3>1. CopyAt(f, u)' = "stray"
      BY <1>0, <2>1, <2>2, <2>3 DEF CopyMoves
    <3>2. QED
      BY <3>1
  <2>4. CASE ~(g = f /\ s = h)
    <3>1. ~(g = f /\ u = h)
      BY <2>1 DEF CopyMoves
    <3>2. CopyAt(f, h)' = "stray"
      BY <1>0, <2>1, <2>4, <3>1 DEF CopyMoves
    <3>3. QED
      BY <3>2
  <2>5. QED
    BY <2>3, <2>4
<1>4. ASSUME NEW g \in Folders, DropStray(g) PROVE CopyAt(f, h)' = "stray"
  <2>1. PICK d \in {"mods", "disabled"} : CopyDropped(g, d)
    BY <1>4, StrayDropped
  <2>2. CopyAt(f, h)' = IF f = g /\ h = d THEN "stray" ELSE CopyAt(f, h)
    BY <1>0, <2>1 DEF CopyDropped
  <2>3. QED
    BY <2>2
<1>5. ASSUME NEW u \in Tasks, MoveAside(u) PROVE Target(u) \in Folders
  BY <1>5, TheTarget DEF MoveAside, TInv, AsidePlanned
<1>6. RecoverFolder => work[Recovery].op \in Tasks /\ work[Recovery].todo \subseteq Folders
  BY DEF RecoverFolder, TInv, RecoveryCourse, TaskTypes, ToggleTypeOK
<1>7. QED
  BY <1>1, <1>2, <1>3, <1>4, <1>5, <1>6 DEF FileStep

LEMMA StrangerHolds ==
    ASSUME TInv, [ToggleNext]_toggleVars, FileStep, AsidePlanned', TaskTypes'
    PROVE  OneStranger'
<1> SUFFICES ASSUME strays' <= 1, NEW t \in Tasks, entry'[t].from # "none"
             PROVE  \E h \in {entry'[t].from} \union Tasks : CopyAt(Target(t), h)' = "stray"
  BY OwnStaysHolds DEF OneStranger, PlanOK
<1>0. /\ strays <= 1 /\ at \in [Tasks -> TaskStages] /\ entry \in [Tasks -> Operations] /\ OnRecord(t)
      /\ entry'[t].from \in {"mods", "disabled"} /\ KindOf \in [Tasks -> {"one", "aside", "many"}]
  BY StraysGrow, ToggleAssumption DEF TInv, TaskTypes, Journalled, Operations
<1>1. CASE Held(t)
  <2>1. at'[t] = "claim" /\ KindOf[t] = "aside"
    <3>1. entry[t] = NoOperation /\ NoOperation.from = "none"
      BY <1>0, <1>1 DEF Held, OnRecord, NoOperation
    <3>2. entry' = [entry EXCEPT ![t] =
                [NoOperation EXCEPT !.state = "committing",
                   !.from = IF KindOf[t] = "aside" THEN StrayPlace(CHOOSE g \in req[t].folders : TRUE) ELSE "none"]]
          /\ at' = [at EXCEPT ![t] = "claim"]
      BY <1>0, <1>1, <3>1 DEF Held, NowAt, StartWork
    <3>3. KindOf[t] # "aside" => entry'[t].from = "none"
      BY <1>0, <3>2 DEF NoOperation
    <3>4. QED
      BY <1>0, <3>2, <3>3
  <2>2. CopyAt(Target(t), entry[t].from)' = "stray"
    BY <2>1 DEF AsidePlanned
  <2>3. QED
    BY <2>2
<1>2. ASSUME entry'[t].from = entry[t].from, at[t] = "idle" \/ req'[t] = req[t] PROVE \E h \in {entry'[t].from} \union Tasks : CopyAt(Target(t), h)' = "stray"
  <2>1. at[t] # "idle" /\ KindOf[t] = "aside"
    BY <1>0, <1>2 DEF OnRecord, NoOperation
  <2>2. Target(t)' = Target(t) /\ Target(t) \in Folders
    BY <1>2, <2>1, TheTarget DEF Target
  <2>3. PICK h \in {entry[t].from} \union Tasks : CopyAt(Target(t), h) = "stray"
    BY <1>0, <1>2 DEF TInv, OneStranger, PlanOK
  <2>4. PICK k \in {entry[t].from} \union Tasks : CopyAt(Target(t), k)' = "stray"
    BY <1>0, <1>2, <2>2, <2>3, StrangerIsFound
  <2>5. QED
    BY <1>2, <2>4
<1>3. ASSUME TaskStep(t), ~Held(t) PROVE entry'[t].from = entry[t].from /\ (at[t] = "idle" \/ req'[t] = req[t])
  <2>1. entry[t] \in Operations
    BY <1>0
  <2>2. CASE Ask(t)
    BY <2>2 DEF Ask
  <2>3. CASE Claim(t) \/ Settle(t)
    <3>1. req' = req
      BY <2>3 DEF Claim, Settle
    <3>2. \/ entry' = entry
          \/ entry' = [entry EXCEPT ![t].claimed = TRUE]
          \/ \E state \in {"failed", "succeeded"} : entry' = [entry EXCEPT ![t].state = state]
      BY <2>3 DEF Claim, Settle
    <3>3. entry'[t].from = entry[t].from
      BY <1>0, <2>1, <3>2 DEF Operations
    <3>4. QED
      BY <3>1, <3>3
  <2>4. CASE AskGate(t) \/ TakeLock(t) \/ MoveAside(t) \/ Group(t) \/ SaveRow(t) \/ SaveRevision(t)
    BY <2>4 DEF AskGate, TakeLock, MoveAside, Group, SaveRow, SaveRevision
  <2>5. QED
    BY <1>3, <2>2, <2>3, <2>4 DEF TaskStep
<1>4. ASSUME NEW u \in Tasks, TaskStep(u), u # t PROVE entry'[t].from = entry[t].from /\ (at[t] = "idle" \/ req'[t] = req[t])
  BY <1>4, OthersKept
<1>5. ASSUME RecoveryStep PROVE entry'[t].from = entry[t].from /\ req'[t] = req[t]
  <2>1. req' = req
    BY <1>5, RecoveryKeeps
  <2>2. ASSUME NEW state, RecoveryEnds(state), lock = Recovery PROVE entry'[t].from = entry[t].from
    BY <1>0, <2>2 DEF RecoveryEnds, TInv, RecoveryCourse, Operations
  <2>3. QED
    BY <1>5, <2>1, <2>2 DEF RecoveryStep, RecoveryReads, RecoveryLocks, RecoverFolder, RecoverRow, RecoverEnd
<1>6. ASSUME NEW p \in Programs, KillProgram(p) PROVE entry'[t].from = entry[t].from /\ req'[t] = req[t]
  BY <1>6, KillKeeps
<1>7. QED
  BY <1>1, <1>2, <1>3, <1>4, <1>5, <1>6 DEF ToggleNext, DropStray, PreparePreview, toggleVars

-----------------------------------------------------------------------------
(* What is done so far.                                                     *)

\* Without the lock a request only asks.
LEMMA WithoutLock ==
    ASSUME TInv, NEW t \in Tasks, TaskStep(t), lock # t
    PROVE  /\ Ask(t) \/ AskGate(t) \/ TakeLock(t)
           /\ at[t] \in {"idle", "asked", "gated"} /\ at'[t] \in {"asked", "gated", "held", "refused"}
           /\ UNCHANGED <<filesVars, rowVars, entry, kills, strays, failures>>
           /\ at[t] # "idle" => UNCHANGED req
<1>1. at[t] \notin InHand /\ at \in [Tasks -> TaskStages]
  BY DEF TInv, TaskCourse, OnCourse, TaskTypes
<1>2. Ask(t) \/ AskGate(t) \/ TakeLock(t)
  BY <1>1 DEF TaskStep, Held, Claim, MoveAside, Group, SaveRow, SaveRevision, Settle, InHand
<1>3. QED
  BY <1>1, <1>2 DEF Ask, AskGate, TakeLock, NowAt, budget

\* Who does not have it changes nothing that others look at, save for what
\* is dropped into a folder.
LEMMA Undisturbed ==
    ASSUME TInv, [ToggleNext]_toggleVars, lock \in Tasks => ~TaskStep(lock), lock = Recovery => ~RecoveryStep
    PROVE  /\ UNCHANGED <<enabled, revision>>
           /\ UNCHANGED <<mods, disabled, aside, strays>> \/ \E f \in Folders : DropStray(f)
<1>1. ASSUME NEW t \in Tasks, TaskStep(t) PROVE UNCHANGED <<filesVars, rowVars, strays>>
  BY <1>1, WithoutLock
<1>2. CASE RecoveryStep
  <2>1. lock # Recovery
    BY <1>2
  <2>2. QED
    BY <1>2, <2>1
    DEF RecoveryStep, RecoveryReads, RecoveryLocks, RecoverFolder, RecoverRow, RecoverEnd, budget, filesVars, rowVars
<1>3. QED
  BY <1>1, <1>2
  DEF ToggleNext, DropStray, PreparePreview, KillProgram, toggleVars, filesVars, rowVars, budget

\* A folder that is not refused is where it was asked, once it is moved.
LEMMA Placed ==
    ASSUME TInv, strays <= 1, NEW f \in Folders, NEW on \in BOOLEAN, ~FolderRefused(f, on), MovedTo(f, on)
    PROVE  (mods'[f] = "own") = on /\ \A g \in Folders \ {f} : mods'[g] = mods[g]
<1>0. mods \in [Folders -> Copies] /\ disabled \in [Folders -> Copies] /\ "mods" \notin Tasks /\ "disabled" \notin Tasks
  BY Apart DEF TInv, TaskTypes, ToggleTypeOK
<1>1. mods[f] = "own" \/ disabled[f] = "own"
  <2>1. PICK h \in Places : CopyAt(f, h) = "own"
    BY DEF TInv, OwnOnce
  <2>2. h \notin Tasks
    BY <1>0, <2>1 DEF TInv, OneStranger, OwnStaysInProfile, CopyAt
  <2>3. QED
    BY <2>1, <2>2 DEF Places, CopyAt
<1>2. CASE on
  BY <1>0, <1>1, <1>2 DEF MovedTo, MustMove, FolderRefused, FolderMissing, Collides
<1>3. CASE ~on
  BY <1>0, <1>1, <1>3 DEF MovedTo, MustMove, FolderRefused, FolderMissing, Collides
<1>4. QED
  BY <1>2, <1>3

\* Dropping a stranger leaves the mod's own where it is.
LEMMA OwnStaysPut ==
    ASSUME TInv, UNCHANGED <<mods, disabled, aside, strays>> \/ \E f \in Folders : DropStray(f)
    PROVE  \A g \in Folders : (mods'[g] = "own") = (mods[g] = "own")
<1>1. mods \in [Folders -> Copies]
  BY DEF TInv, TaskTypes, ToggleTypeOK
<1>2. QED
  BY <1>1 DEF DropStray

LEMMA NotDoubledHolds ==
    ASSUME TInv, [ToggleNext]_toggleVars
    PROVE  NotDoubled'
<1> SUFFICES ASSUME NEW t \in Tasks, at'[t] = "rows", req'[t].enable
             PROVE  \A c \in Members(work'[t].folder), d \in Components \ Members(work'[t].folder) :
                        ~(enabled'[d] /\ IdOf[c] = IdOf[d])
  BY DEF NotDoubled, Doubled, Members
<1>0. /\ OnCourse(t) /\ work \in [Tasks \union {Recovery} -> WorkRecords] /\ at \in [Tasks -> TaskStages]
      /\ enabled \in [Components -> BOOLEAN] /\ work[t] \in WorkRecords /\ t # Recovery
      /\ at[t] = "rows" /\ req[t].enable => ~Doubled(work[t].folder)
  BY Apart DEF TInv, TaskTypes, ToggleTypeOK, TaskCourse, NotDoubled
<1>1. CASE at[t] = "rows" /\ req'[t] = req[t] /\ work'[t].folder = work[t].folder /\ UNCHANGED enabled
  BY <1>0, <1>1 DEF Doubled
<1>2. CASE Group(t)
  <2>1. PICK f \in work[t].todo :
          /\ ~(req[t].enable /\ Doubled(f))
          /\ work' = [work EXCEPT ![t].todo = @ \ {f}, ![t].folder = f,
                        ![t].moved = MustMove(f, req[t].enable), ![t].changed = FALSE,
                        ![t].rows = {c \in Members(f) : seen[t][c] # req[t].enable}]
    BY <1>2 DEF Group, filesVars
  <2>2. work'[t].folder = f /\ enabled' = enabled /\ req' = req
    BY <1>0, <1>2, <2>1 DEF WorkRecords, Group, rowVars
  <2>3. QED
    BY <2>1, <2>2 DEF Doubled
<1>3. CASE SaveRow(t)
  <2>1. at[t] = "rows" /\ req' = req
    BY <1>3 DEF SaveRow
  <2>2. PICK c \in work[t].rows :
          /\ enabled' = [enabled EXCEPT ![c] = req[t].enable]
          /\ work' = [work EXCEPT ![t].rows = @ \ {c}, ![t].changed = TRUE]
    BY <1>0, <1>3 DEF SaveRow, NowAt
  <2>3. work'[t].folder = work[t].folder
    BY <1>0, <2>2 DEF WorkRecords
  <2>4. c \in Members(work[t].folder)
    BY <1>0, <2>1, <2>2 DEF OnCourse
  <2>5. \A d \in Components \ Members(work[t].folder) : enabled'[d] = enabled[d]
    BY <1>0, <2>2, <2>4
  <2>6. QED
    BY <1>0, <2>1, <2>3, <2>5 DEF Doubled
<1>4. ASSUME TaskStep(t), ~Group(t), ~SaveRow(t) PROVE FALSE
  BY <1>0, <1>4
  DEF TaskStep, Ask, AskGate, TakeLock, Held, Claim, MoveAside, SaveRevision, Settle, NowAt, StartWork
<1>5. ASSUME NEW u \in Tasks, TaskStep(u), u # t PROVE at[t] = "rows" /\ req'[t] = req[t] /\ work'[t] = work[t] /\ UNCHANGED enabled
  <2>1. at[t] = "rows" /\ req'[t] = req[t] /\ work'[t] = work[t]
    BY <1>5, OthersKept
  <2>2. lock # u
    BY <1>0, <1>5, <2>1 DEF OnCourse, InHand
  <2>3. QED
    BY <1>5, <2>1, <2>2, WithoutLock DEF rowVars
<1>6. ASSUME RecoveryStep PROVE at[t] = "rows" /\ req'[t] = req[t] /\ work'[t] = work[t] /\ UNCHANGED enabled
  <2>1. at[t] = "rows" /\ req'[t] = req[t] /\ work'[t] = work[t]
    BY <1>6, RecoveryKeeps
  <2>2. lock # Recovery
    BY <1>0, <2>1 DEF OnCourse, InHand
  <2>3. QED
    BY <1>6, <2>1, <2>2 DEF RecoveryStep, RecoveryReads, RecoveryLocks, RecoverFolder, RecoverRow, RecoverEnd, rowVars
<1>7. ASSUME NEW p \in Programs, KillProgram(p) PROVE at[t] = "rows" /\ req'[t] = req[t] /\ work'[t] = work[t] /\ UNCHANGED enabled
  BY <1>7, KillKeeps
<1>8. QED
  BY <1>1, <1>2, <1>3, <1>4, <1>5, <1>6, <1>7 DEF ToggleNext, DropStray, PreparePreview, toggleVars, rowVars

LEMMA DoneHolds ==
    ASSUME TInv, [ToggleNext]_toggleVars, FileStep
    PROVE  DoneSoFar'
<1> SUFFICES ASSUME strays' <= 1, NEW t \in Tasks, at'[t] \in {"group", "rows"}, ~work'[t].failed,
                    NEW f \in req'[t].folders \ work'[t].todo
             PROVE  /\ (mods'[f] = "own") = req'[t].enable
                    /\ \A c \in Members(f) : seen'[t][c] # req'[t].enable =>
                         enabled'[c] = req'[t].enable \/ (at'[t] = "rows" /\ c \in work'[t].rows)
  BY DEF DoneSoFar, Members
<1>0. /\ OnCourse(t) /\ work \in [Tasks \union {Recovery} -> WorkRecords] /\ at \in [Tasks -> TaskStages]
      /\ enabled \in [Components -> BOOLEAN] /\ work[t] \in WorkRecords /\ t # Recovery /\ strays <= 1
      /\ req \in [Tasks -> [enable : BOOLEAN, folders : SUBSET Folders]]
  BY Apart, StraysGrow DEF TInv, TaskTypes, ToggleTypeOK, TaskCourse
<1> DEFINE Done(g) == /\ (mods[g] = "own") = req[t].enable
                      /\ \A c \in Members(g) : seen[t][c] # req[t].enable =>
                           enabled[c] = req[t].enable \/ (at[t] = "rows" /\ c \in work[t].rows)
<1>1. ASSUME at[t] \in {"group", "rows"}, ~work[t].failed, NEW g \in req[t].folders \ work[t].todo PROVE Done(g)
  BY <1>0, <1>1 DEF TInv, DoneSoFar
<1> HIDE DEF Done
<1>2. CASE Held(t) \/ Claim(t) \/ MoveAside(t)
  <2>1. req' = req
    BY <1>2 DEF Held, Claim, MoveAside
  <2>2. work'[t].todo = req[t].folders
    <3>1. CASE Held(t)
      <4>1. work' = [work EXCEPT ![t] = [Idle EXCEPT !.todo = req[t].folders]]
        BY <1>0, <3>1 DEF Held, StartWork, NowAt
      <4>2. QED
        BY <1>0, <4>1 DEF Idle
    <3>2. CASE Claim(t)
      BY <1>0, <3>2 DEF Claim, OnCourse
    <3>3. CASE MoveAside(t)
      BY <1>0, <3>3 DEF MoveAside, OnCourse, NowAt
    <3>4. QED
      BY <1>2, <3>1, <3>2, <3>3
  <2>3. QED
    BY <2>1, <2>2
<1>3. CASE Group(t)
  <2>1. PICK g \in work[t].todo :
          \/ work' = [work EXCEPT ![t].todo = @ \ {g}, ![t].failed = TRUE]
          \/ /\ ~FolderRefused(g, req[t].enable) /\ MovedTo(g, req[t].enable)
             /\ work' = [work EXCEPT ![t].todo = @ \ {g}, ![t].folder = g,
                        ![t].moved = MustMove(g, req[t].enable), ![t].changed = FALSE,
                        ![t].rows = {c \in Members(g) : seen[t][c] # req[t].enable}]
             /\ at' = [at EXCEPT ![t] = "rows"]
    BY <1>3 DEF Group, NowAt
  <2>2. work' # [work EXCEPT ![t].todo = @ \ {g}, ![t].failed = TRUE]
    BY <1>0 DEF WorkRecords
  <2>3. /\ work'[t].todo = work[t].todo \ {g} /\ work'[t].failed = work[t].failed
        /\ work'[t].rows = {c \in Members(g) : seen[t][c] # req[t].enable}
        /\ at'[t] = "rows"
    BY <1>0, <2>1, <2>2 DEF WorkRecords
  <2>4. at[t] = "group" /\ req' = req /\ seen' = seen /\ enabled' = enabled
    BY <1>3 DEF Group, rowVars
  <2>5. g \in Folders /\ req[t].enable \in BOOLEAN
    BY <1>0 DEF WorkRecords
  <2>6. (mods'[g] = "own") = req[t].enable /\ \A h \in Folders \ {g} : mods'[h] = mods[h]
    <3>1. ~FolderRefused(g, req[t].enable) /\ MovedTo(g, req[t].enable)
      BY <2>1, <2>2
    <3>2. QED
      BY <1>0, <2>5, <3>1, Placed
  <2>7. CASE f = g
    BY <2>3, <2>4, <2>6, <2>7
  <2>8. CASE f # g
    <3>1. f \in Folders /\ Done(f)
      BY <1>0, <1>1, <2>3, <2>4, <2>8
    <3>2. QED
      BY <2>4, <2>6, <2>8, <3>1 DEF Done
  <2>9. QED
    BY <2>7, <2>8
<1>4. CASE SaveRow(t)
  <2>1. at[t] = "rows" /\ req' = req /\ seen' = seen /\ ~work[t].failed
    BY <1>0, <1>4 DEF SaveRow, WorkRecords
  <2>2. PICK c \in work[t].rows :
          \/ work' = [work EXCEPT ![t].failed = TRUE, ![t].folder = NoFolder]
          \/ /\ enabled' = [enabled EXCEPT ![c] = req[t].enable]
             /\ work' = [work EXCEPT ![t].rows = @ \ {c}, ![t].changed = TRUE]
             /\ UNCHANGED <<mods, at>>
    BY <1>4 DEF SaveRow
  <2>3. work' # [work EXCEPT ![t].failed = TRUE, ![t].folder = NoFolder]
    BY <1>0 DEF WorkRecords
  <2>4. work'[t].rows = work[t].rows \ {c} /\ work'[t].todo = work[t].todo /\ work[t].failed = work'[t].failed
    BY <1>0, <2>2, <2>3 DEF WorkRecords
  <2>5. Done(f)
    BY <1>1, <2>1, <2>4
  <2>6. QED
    BY <1>0, <2>1, <2>2, <2>3, <2>4, <2>5 DEF Done, Members
<1>5. CASE SaveRevision(t)
  <2>1. at[t] = "rows" /\ work[t].rows = {} /\ req' = req /\ seen' = seen /\ enabled' = enabled
    BY <1>5 DEF SaveRevision
  <2>2. work' # [work EXCEPT ![t].failed = TRUE, ![t].folder = NoFolder]
    BY <1>0 DEF WorkRecords
  <2>3. work' = [work EXCEPT ![t].folder = NoFolder] /\ mods' = mods
    BY <1>5, <2>2 DEF SaveRevision
  <2>4. work'[t].todo = work[t].todo /\ work[t].failed = work'[t].failed
    BY <1>0, <2>3 DEF WorkRecords
  <2>5. Done(f)
    BY <1>1, <2>1, <2>4
  <2>6. QED
    BY <2>1, <2>3, <2>5 DEF Done
<1>6. ASSUME TaskStep(t), ~(Held(t) \/ Claim(t) \/ MoveAside(t) \/ Group(t) \/ SaveRow(t) \/ SaveRevision(t)) PROVE FALSE
  BY <1>0, <1>6 DEF TaskStep, Ask, AskGate, TakeLock, Settle, NowAt
<1>7. CASE ~TaskStep(t)
  <2>1. at'[t] = at[t] /\ work'[t] = work[t] /\ req'[t] = req[t] /\ seen'[t] = seen[t]
    BY <1>7, OthersKept, RecoveryKeeps, KillKeeps DEF ToggleNext, DropStray, PreparePreview, toggleVars
  <2>2. lock = t
    BY <1>0, <2>1 DEF OnCourse, InHand
  <2>3. /\ enabled' = enabled
        /\ UNCHANGED <<mods, disabled, aside, strays>> \/ \E g \in Folders : DropStray(g)
    BY <1>0, <1>7, <2>2, Undisturbed
  <2>4. \A g \in Folders : (mods'[g] = "own") = (mods[g] = "own")
    BY <2>3, OwnStaysPut
  <2>5. Done(f) /\ f \in Folders
    BY <1>0, <1>1, <2>1
  <2>6. QED
    BY <2>1, <2>3, <2>4, <2>5 DEF Done
<1>8. QED
  BY <1>2, <1>3, <1>4, <1>5, <1>6, <1>7

LEMMA WholeHolds ==
    ASSUME TInv, [ToggleNext]_toggleVars, FileStep
    PROVE  WholeSoFar'
<1> DEFINE o == work[Recovery].op
<1>0. /\ work \in [Tasks \union {Recovery} -> WorkRecords] /\ work[Recovery] \in WorkRecords
      /\ enabled \in [Components -> BOOLEAN] /\ at \in [Tasks -> TaskStages]
      /\ req \in [Tasks -> [enable : BOOLEAN, folders : SUBSET Folders]]
      /\ Recovery \notin Tasks /\ Nobody # Recovery
      /\ RecoveryCourse
  BY Apart DEF TInv, TaskTypes, ToggleTypeOK
<1> SUFFICES ASSUME strays' <= 1, lock' = Recovery,
                    NEW f \in req'[work'[Recovery].op].folders \ work'[Recovery].todo
             PROVE  /\ (mods'[f] = "own") = req'[work'[Recovery].op].enable
                    /\ \A c \in Members(f) : \/ enabled'[c] = req'[work'[Recovery].op].enable
                                             \/ c \in work'[Recovery].rows
  BY DEF WholeSoFar, Members
<1>1. strays <= 1
  BY StraysGrow
<1>2. ASSUME lock = Recovery, NEW g \in req[o].folders \ work[Recovery].todo
      PROVE  /\ (mods[g] = "own") = req[o].enable
             /\ \A c \in Members(g) : enabled[c] = req[o].enable \/ c \in work[Recovery].rows
  BY <1>1, <1>2 DEF TInv, WholeSoFar
<1>3. CASE RecoveryStep
  <2>1. UNCHANGED req
    BY <1>3, RecoveryKeeps
  <2>2. CASE lock # Recovery
    <3>1. RecoveryLocks /\ lock = Nobody
      BY <1>0, <1>3, <2>2 DEF RecoveryStep, RecoveryReads, RecoveryLocks, RecoverFolder, RecoverRow, RecoverEnd
    <3>2. work' = [work EXCEPT ![Recovery].todo = req[o].folders]
      BY <3>1 DEF RecoveryLocks
    <3>3. work'[Recovery].todo = req[o].folders /\ work'[Recovery].op = o
      BY <1>0, <3>2 DEF WorkRecords
    <3>4. QED
      BY <2>1, <3>3
  <2>3. CASE lock = Recovery
    <3>0. o \in Tasks /\ req[o].enable \in BOOLEAN /\ work[Recovery].todo \subseteq Folders /\ req[o].folders \subseteq Folders
      BY <1>0, <2>3 DEF RecoveryCourse, WorkRecords
    <3>1. ASSUME NEW state, RecoveryEnds(state) PROVE FALSE
      BY <1>0, <3>1 DEF RecoveryEnds
    <3>2. CASE RecoverFolder
      <4>0. work[Recovery].rows = {} /\ UNCHANGED enabled
        BY <3>2 DEF RecoverFolder, rowVars
      <4>1. PICK g \in work[Recovery].todo :
              \/ AsideMoves(o, g) /\ UNCHANGED work
              \/ /\ ~FolderRefused(g, req[o].enable) /\ MovedTo(g, req[o].enable)
                 /\ work' = [work EXCEPT ![Recovery].todo = @ \ {g},
                      ![Recovery].rows = StillToSave(g, req[o].enable, MustMove(g, req[o].enable)),
                      ![Recovery].changed = @ \/ MustMove(g, req[o].enable)]
        BY <3>1, <3>2 DEF RecoverFolder
      <4>2. CASE AsideMoves(o, g) /\ UNCHANGED work
        <5>1. f # g /\ f \in req[o].folders \ work[Recovery].todo /\ f \in Folders /\ g \in Folders
          BY <2>1, <3>0, <4>2
        <5>2. mods'[f] = mods[f]
          BY <3>0, <4>2, <5>1 DEF AsideMoves, filesVars, TInv, TaskTypes, ToggleTypeOK
        <5>3. QED
          BY <1>2, <2>1, <2>3, <4>0, <4>2, <5>1, <5>2
      <4>3. CASE /\ ~FolderRefused(g, req[o].enable) /\ MovedTo(g, req[o].enable)
                 /\ work' = [work EXCEPT ![Recovery].todo = @ \ {g},
                      ![Recovery].rows = StillToSave(g, req[o].enable, MustMove(g, req[o].enable)),
                      ![Recovery].changed = @ \/ MustMove(g, req[o].enable)]
        <5>1. /\ work'[Recovery].todo = work[Recovery].todo \ {g} /\ work'[Recovery].op = o
              /\ work'[Recovery].rows = {c \in Members(g) : enabled[c] # req[o].enable}
          BY <1>0, <4>3 DEF WorkRecords, StillToSave
        <5>2. (mods'[g] = "own") = req[o].enable /\ \A h \in Folders \ {g} : mods'[h] = mods[h]
          BY <1>1, <3>0, <4>3, Placed
        <5>3. CASE f = g
          BY <2>1, <4>0, <5>1, <5>2, <5>3
        <5>4. CASE f # g
          BY <1>2, <2>1, <2>3, <3>0, <4>0, <5>1, <5>2, <5>4
        <5>5. QED
          BY <5>3, <5>4
      <4>4. QED
        BY <4>1, <4>2, <4>3
    <3>3. CASE RecoverRow
      <4>1. PICK c \in work[Recovery].rows :
              /\ enabled' = [enabled EXCEPT ![c] = req[o].enable]
              /\ work' = [work EXCEPT ![Recovery].rows = @ \ {c}, ![Recovery].changed = TRUE]
        BY <3>1, <3>3 DEF RecoverRow
      <4>2. /\ work'[Recovery].rows = work[Recovery].rows \ {c} /\ work'[Recovery].op = o
            /\ work'[Recovery].todo = work[Recovery].todo
        BY <1>0, <4>1 DEF WorkRecords
      <4>3. mods' = mods
        BY <3>3 DEF RecoverRow, filesVars
      <4>4. /\ (mods[f] = "own") = req[o].enable
            /\ \A d \in Members(f) : enabled[d] = req[o].enable \/ d \in work[Recovery].rows
        BY <1>2, <2>1, <2>3, <4>2
      <4>5. \A d \in Members(f) : d \in Components
        BY DEF Members
      <4>6. QED
        BY <1>0, <2>1, <4>1, <4>2, <4>3, <4>4, <4>5
    <3>4. QED
      BY <1>3, <2>3, <3>0, <3>1, <3>2, <3>3, Apart DEF RecoveryStep, RecoveryReads, RecoveryLocks, RecoverEnd
  <2>4. QED
    BY <2>2, <2>3
<1>4. CASE ~RecoveryStep
  <2>1. lock = Recovery /\ work'[Recovery] = work[Recovery]
    BY <1>0, <1>4, OthersKept, KillKeeps DEF ToggleNext, DropStray, PreparePreview, toggleVars
  <2>2. o \in Tasks /\ at[o] # "idle" /\ req[o].folders \subseteq Folders
    BY <1>0, <2>1 DEF RecoveryCourse
  <2>3. req'[o] = req[o]
    <3>1. ASSUME NEW t \in Tasks, TaskStep(t) PROVE req'[o] = req[o]
      <4>1. CASE t = o
        BY <1>0, <2>1, <2>2, <3>1, <4>1, WithoutLock
      <4>2. CASE t # o
        BY <2>2, <3>1, <4>2, OthersKept
      <4>3. QED
        BY <4>1, <4>2
    <3>2. QED
      BY <1>4, <3>1, KillKeeps DEF ToggleNext, DropStray, PreparePreview, toggleVars
  <2>4. /\ enabled' = enabled
        /\ UNCHANGED <<mods, disabled, aside, strays>> \/ \E g \in Folders : DropStray(g)
    BY <1>0, <1>4, <2>1, Undisturbed
  <2>5. \A g \in Folders : (mods'[g] = "own") = (mods[g] = "own")
    BY <2>4, OwnStaysPut
  <2>6. QED
    BY <1>2, <2>1, <2>2, <2>3, <2>4, <2>5
<1>5. QED
  BY <1>3, <1>4

\* With no stranger nothing is planned and nothing in a folder is in the way.
LEMMA NothingInTheWay ==
    ASSUME TInv, strays = 0
    PROVE  /\ \A t \in Tasks : entry[t].from = "none" /\ at[t] # "aside"
           /\ \A f \in Folders, on \in BOOLEAN : ~FolderRefused(f, on)
<1>1. Strays = {}
  BY FS_EmptySet DEF TInv, StrayCount
<1>2. ASSUME NEW f \in Folders, NEW h \in Places PROVE CopyAt(f, h) # "stray"
  <2>1. <<f, h>> \notin Strays
    BY <1>1
  <2>2. QED
    BY <2>1 DEF Strays
<1>3. ASSUME NEW t \in Tasks PROVE entry[t].from = "none" /\ at[t] # "aside"
  <2>1. entry[t].from = "none"
    <3>1. SUFFICES ASSUME entry[t].from # "none" PROVE FALSE
      OBVIOUS
    <3>2. KindOf[t] = "aside" /\ at[t] # "idle" /\ entry[t].from \in {"mods", "disabled"}
      BY <3>1 DEF TInv, Journalled, OnRecord, NoOperation, TaskTypes, Operations
    <3>3. Target(t) \in Folders
      BY <3>2, TheTarget
    <3>4. PICK h \in {entry[t].from} \union Tasks : CopyAt(Target(t), h) = "stray"
      BY <3>1 DEF TInv, OneStranger, PlanOK
    <3>5. QED
      BY <1>2, <3>2, <3>3, <3>4 DEF Places
  <2>2. QED
    BY <2>1 DEF TInv, AsidePlanned
<1>4. ASSUME NEW f \in Folders, NEW on \in BOOLEAN PROVE ~FolderRefused(f, on)
  <2>1. "mods" \in Places /\ "disabled" \in Places /\ CopyAt(f, "mods") = mods[f] /\ CopyAt(f, "disabled") = disabled[f]
    BY DEF Places, CopyAt
  <2>2. ~Collides(f)
    BY <1>2, <2>1, CollisionHasStray
  <2>3. mods[f] # "none" \/ disabled[f] # "none"
    <3>1. PICK h \in Places : CopyAt(f, h) = "own"
      BY DEF TInv, OwnOnce
    <3>2. h \notin Tasks
      BY <3>1, Apart DEF TInv, OneStranger, OwnStaysInProfile, CopyAt
    <3>3. QED
      BY <3>1, <3>2 DEF Places, CopyAt
  <2>4. QED
    BY <2>2, <2>3 DEF FolderRefused, FolderMissing
<1>5. QED
  BY <1>3, <1>4

LEMMA PreviewHolds ==
    ASSUME TInv, [ToggleNext]_toggleVars, FileStep
    PROVE  PreviewCurrent'
<1> SUFFICES ASSUME preview' # NoPreview, kills' = 0, failures' = 0, strays' = 0
             PROVE  /\ preview'.revision = revision'
                    /\ Pending' \/ (preview'.enabled = enabled' /\ preview'.mods = OwnPlace')
  BY DEF PreviewCurrent
<1> DEFINE Current == /\ preview.revision = revision
                      /\ Pending \/ (preview.enabled = enabled /\ preview.mods = OwnPlace)
<1>0. /\ strays = 0 /\ work \in [Tasks \union {Recovery} -> WorkRecords] /\ at \in [Tasks -> TaskStages]
      /\ Recovery \notin Tasks /\ Nobody \notin Tasks /\ Nobody # Recovery
      /\ kills \in Nat /\ failures \in Nat /\ \A u \in Tasks : OnCourse(u)
      /\ req \in [Tasks -> [enable : BOOLEAN, folders : SUBSET Folders]] /\ RecoveryCourse
  BY Apart, StraysGrow DEF TInv, TaskTypes, ToggleTypeOK, TaskCourse
<1>1. ~CallFails
  BY <1>0 DEF CallFails
<1>2. ASSUME preview # NoPreview, kills = 0, failures = 0 PROVE Current
  BY <1>0, <1>2 DEF TInv, PreviewCurrent
\* A step that starts or goes on with a change only has to say so.
<1>3. ASSUME UNCHANGED <<preview, revision, kills, failures>>, Pending' PROVE Current'
  BY <1>2, <1>3
\* A step that touches nothing only has to leave what is begun.
<1>4. ASSUME UNCHANGED <<preview, revision, enabled, mods, kills, failures>>, Pending => Pending' PROVE Current'
  <2>1. OwnPlace' = OwnPlace
    BY <1>4 DEF OwnPlace
  <2>2. QED
    BY <1>2, <1>4, <2>1
<1> HIDE DEF Current
<1> SUFFICES Current'
  BY DEF Current
<1>5. ASSUME NEW t \in Tasks, TaskStep(t) PROVE Current'
  <2>1. CASE lock # t
    <3>1. UNCHANGED <<preview, revision, enabled, mods, kills, failures>>
      BY <1>5, <2>1, WithoutLock DEF rowVars, filesVars
    <3>2. Pending => Pending'
      BY <1>0, <1>5, <2>1, OthersKept DEF Pending
    <3>3. QED
      BY <1>4, <3>1, <3>2
  <2>2. CASE lock = t /\ at[t] # "rows" /\ ~Group(t)
    <3>1. ~Pending
      BY <1>0, <2>2 DEF Pending
    <3>2. at[t] # "aside"
      BY <1>0, NothingInTheWay
    <3>3. UNCHANGED <<preview, revision, enabled, mods, kills, failures>>
      BY <1>1, <1>5, <2>2, <3>2
      DEF TaskStep, Ask, AskGate, TakeLock, Held, Claim, MoveAside, SaveRow, SaveRevision, Settle, rowVars,
          filesVars, budget, NoFault
    <3>4. QED
      BY <1>4, <3>1, <3>3
  <2>3. CASE Group(t)
    <3>0. ~Pending /\ lock = t /\ lock' = lock
      BY <1>0, <2>3 DEF Pending, Group, OnCourse, InHand
    <3>1. UNCHANGED <<preview, revision, enabled, kills, failures>>
      BY <1>1, <2>3 DEF Group, rowVars, budget, NoFault
    <3>2. CASE UNCHANGED mods
      BY <1>4, <3>0, <3>1, <3>2
    <3>3. CASE ~UNCHANGED mods
      <4>1. PICK f \in work[t].todo :
              /\ MovedTo(f, req[t].enable)
              /\ work' = [work EXCEPT ![t].todo = @ \ {f}, ![t].folder = f,
                  ![t].moved = MustMove(f, req[t].enable), ![t].changed = FALSE,
                  ![t].rows = {c \in Members(f) : seen[t][c] # req[t].enable}]
              /\ at' = [at EXCEPT ![t] = "rows"]
        BY <2>3, <3>3 DEF Group, filesVars, NowAt
      <4>2. MustMove(f, req[t].enable)
        BY <3>3, <4>1 DEF MovedTo
      <4>3. work'[t].moved /\ at'[t] = "rows"
        BY <1>0, <4>1, <4>2 DEF WorkRecords
      <4>4. QED
        BY <1>3, <3>0, <3>1, <4>3 DEF Pending
    <3>4. QED
      BY <3>2, <3>3
  <2>4. CASE SaveRow(t)
    <3>1. PICK c \in work[t].rows : work' = [work EXCEPT ![t].rows = @ \ {c}, ![t].changed = TRUE]
      BY <1>1, <2>4 DEF SaveRow
    <3>2. work'[t].changed
      BY <1>0, <3>1 DEF WorkRecords
    <3>3. UNCHANGED <<preview, revision, kills, failures, lock, at>> /\ at[t] = "rows" /\ lock = t
      BY <1>0, <1>1, <2>4 DEF SaveRow, budget, NoFault, OnCourse, InHand
    <3>4. QED
      BY <1>3, <3>2, <3>3 DEF Pending
  <2>5. CASE SaveRevision(t)
    <3>1. at[t] = "rows" /\ lock = t /\ UNCHANGED <<mods, enabled, kills, failures>>
          /\ BumpIf(work[t].changed, work[t].moved)
      BY <1>0, <1>1, <2>5 DEF SaveRevision, budget, NoFault, OnCourse, InHand
    <3>2. ~(work[t].changed \/ work[t].moved) /\ UNCHANGED <<preview, revision>>
      BY <3>1 DEF BumpIf, BumpRevision
    <3>3. ~Pending
      BY <1>0, <3>1, <3>2 DEF Pending
    <3>4. QED
      BY <1>4, <3>1, <3>2, <3>3
  <2>6. QED
    BY <1>5, <2>1, <2>2, <2>3, <2>4, <2>5
    DEF TaskStep, Ask, AskGate, TakeLock, Held, Claim, MoveAside, Settle
<1>6. CASE RecoveryStep
  <2> DEFINE o == work[Recovery].op
  <2>1. CASE lock # Recovery
    <3>1. (\E t \in Tasks : RecoveryReads(t)) \/ RecoveryLocks
      BY <1>6, <2>1 DEF RecoveryStep, RecoverFolder, RecoverRow, RecoverEnd
    <3>2. UNCHANGED <<preview, revision, enabled, mods, kills, failures>>
      BY <3>1 DEF RecoveryReads, RecoveryLocks, rowVars, filesVars, budget
    <3>3. Pending => Pending'
      BY <1>0, <1>6, <2>1, RecoveryKeeps DEF Pending
    <3>4. QED
      BY <1>4, <3>2, <3>3
  <2>2. CASE RecoverFolder /\ lock = Recovery
    <3>0. o \in Tasks /\ req[o].enable \in BOOLEAN /\ work[Recovery].todo \subseteq Folders
      BY <1>0, <2>2 DEF RecoveryCourse, WorkRecords
    <3>1. entry[o].from = "none" /\ \A f \in work[Recovery].todo : ~FolderRefused(f, req[o].enable)
      BY <1>0, <3>0, NothingInTheWay
    <3>2. PICK f \in work[Recovery].todo :
            /\ MovedTo(f, req[o].enable)
            /\ work' = [work EXCEPT ![Recovery].todo = @ \ {f},
                  ![Recovery].rows = StillToSave(f, req[o].enable, MustMove(f, req[o].enable)),
                  ![Recovery].changed = @ \/ MustMove(f, req[o].enable)]
      BY <1>1, <2>2, <3>1 DEF RecoverFolder
    <3>3. work'[Recovery].changed = (work[Recovery].changed \/ MustMove(f, req[o].enable))
      BY <1>0, <3>2 DEF WorkRecords
    <3>4. UNCHANGED <<preview, revision, enabled, kills, failures>> /\ lock' = Recovery
      BY <1>1, <2>2, <3>1 DEF RecoverFolder, rowVars, budget, NoFault
    <3>5. CASE MustMove(f, req[o].enable)
      BY <1>3, <3>3, <3>4, <3>5 DEF Pending
    <3>6. CASE ~MustMove(f, req[o].enable)
      <4>1. UNCHANGED mods
        BY <3>2, <3>6 DEF MovedTo
      <4>2. Pending => Pending'
        BY <1>0, <2>2, <3>3, <3>4 DEF Pending
      <4>3. QED
        BY <1>4, <3>4, <4>1, <4>2
    <3>7. QED
      BY <3>5, <3>6
  <2>3. CASE RecoverRow
    <3>1. PICK c \in work[Recovery].rows : work' = [work EXCEPT ![Recovery].rows = @ \ {c}, ![Recovery].changed = TRUE]
      BY <1>1, <2>3 DEF RecoverRow
    <3>2. work'[Recovery].changed
      BY <1>0, <3>1 DEF WorkRecords
    <3>3. UNCHANGED <<preview, revision, kills, failures>> /\ lock' = Recovery
      BY <1>1, <2>3 DEF RecoverRow, budget, NoFault
    <3>4. QED
      BY <1>3, <3>2, <3>3 DEF Pending
  <2>4. CASE RecoverEnd
    <3>1. lock = Recovery /\ UNCHANGED <<mods, enabled, kills, failures>> /\ BumpIf(work[Recovery].changed, FALSE)
      BY <2>4 DEF RecoverEnd, filesVars, budget, NoFault
    <3>2. ~work[Recovery].changed /\ UNCHANGED <<preview, revision>>
      BY <3>1 DEF BumpIf, BumpRevision
    <3>3. ~Pending
      BY <1>0, <3>1, <3>2 DEF Pending
    <3>4. QED
      BY <1>4, <3>1, <3>2, <3>3
  <2>5. QED
    BY <1>0, <1>6, <2>1, <2>2, <2>3, <2>4 DEF RecoveryStep, RecoveryReads, RecoveryLocks, RecoveryCourse
<1>7. CASE PreparePreview
  <2>1. preview' = [revision |-> revision, enabled |-> enabled, mods |-> OwnPlace]
        /\ UNCHANGED <<revision, enabled, mods>>
    BY <1>7 DEF PreparePreview, filesVars
  <2>2. OwnPlace' = OwnPlace
    BY <2>1 DEF OwnPlace
  <2>3. QED
    BY <2>1, <2>2 DEF Current
<1>8. ASSUME NEW p \in Programs, KillProgram(p) PROVE FALSE
  BY <1>0, <1>8 DEF KillProgram
<1>9. ASSUME NEW f \in Folders, DropStray(f) PROVE FALSE
  BY <1>0, <1>9 DEF DropStray
<1>10. CASE UNCHANGED toggleVars
  BY <1>4, <1>10 DEF toggleVars, Pending
<1>11. QED
  BY <1>5, <1>6, <1>7, <1>8, <1>9, <1>10 DEF ToggleNext

-----------------------------------------------------------------------------
(* The invariant.                                                           *)

LEMMA InitHolds == ToggleInit => TInv
<1> SUFFICES ASSUME ToggleInit PROVE TInv
  OBVIOUS
<1>0. /\ Nobody \notin Tasks /\ Recovery \notin Tasks /\ Nobody # Recovery
      /\ "mods" \notin Tasks /\ "disabled" \notin Tasks
  BY Apart
<1>1. /\ mods \in [Folders -> Copies] /\ disabled \in [Folders -> Copies]
      /\ aside \in [Tasks -> [Folders -> Copies]]
      /\ \A f \in Folders : \/ mods[f] = "own" /\ disabled[f] = "none"
                            \/ mods[f] = "none" /\ disabled[f] = "own"
      /\ \A t \in Tasks, f \in Folders : aside[t][f] = "none"
  BY DEF ToggleInit, Copies
<1>2. /\ \A t \in Tasks : at[t] = "idle" /\ entry[t] = NoOperation /\ work[t] = Idle /\ entry[t].from = "none"
                          /\ entry[t].state = "none" /\ entry[t].recovered = FALSE
      /\ work[Recovery] = Idle /\ lock = Nobody /\ strays = 0 /\ preview = NoPreview
  BY DEF ToggleInit, NoOperation
<1>3. TaskTypes
  <2>1. \A t \in Tasks \union {Recovery} : work[t].todo \subseteq Folders /\ work[t].rows \subseteq Components
    BY DEF ToggleInit, Idle
  <2>2. work \in [Tasks \union {Recovery} -> WorkRecords]
    BY IdleTyped DEF ToggleInit
  <2>3. NoOperation \in Operations /\ "idle" \in TaskStages
    BY DEF NoOperation, Operations, TaskStages
  <2>4. req \in [Tasks -> [enable : BOOLEAN, folders : SUBSET Folders]]
    BY DEF ToggleInit
  <2>5. QED
    BY <1>1, <1>2, <2>1, <2>2, <2>3, <2>4 DEF TaskTypes, ToggleTypeOK, ToggleInit
<1>4. \A f \in Folders, h \in Places :
        CopyAt(f, h) = IF h = "mods" THEN mods[f] ELSE IF h = "disabled" THEN disabled[f] ELSE "none"
  BY <1>0, <1>1 DEF Places, CopyAt
<1>5. OwnOnce
  <2> SUFFICES ASSUME NEW f \in Folders
               PROVE  \E h \in Places : CopyAt(f, h) = "own" /\ \A k \in Places : CopyAt(f, k) = "own" => k = h
    BY DEF OwnOnce
  <2>1. CASE mods[f] = "own" /\ disabled[f] = "none"
    <3>1. "mods" \in Places /\ CopyAt(f, "mods") = "own" /\ \A k \in Places : CopyAt(f, k) = "own" => k = "mods"
      BY <1>4, <2>1 DEF Places, CopyAt
    <3>2. QED
      BY <3>1
  <2>2. CASE mods[f] = "none" /\ disabled[f] = "own"
    <3>1. "disabled" \in Places /\ CopyAt(f, "disabled") = "own" /\ \A k \in Places : CopyAt(f, k) = "own" => k = "disabled"
      BY <1>4, <2>2 DEF Places, CopyAt
    <3>2. QED
      BY <3>1
  <2>3. QED
    BY <1>1, <2>1, <2>2
<1>6. StrayCount
  <2>1. Strays = {}
    BY <1>1, <1>4 DEF Strays
  <2>2. QED
    BY <1>2, <2>1, FS_EmptySet DEF StrayCount
<1>7. TaskCourse
  BY <1>2 DEF TaskCourse, OnCourse, InHand, Idle
<1>8. RecoveryCourse
  <2>1. [Idle EXCEPT !.op = Idle.op] = Idle /\ Idle.op = Nobody
    BY DEF Idle
  <2>2. QED
    BY <1>0, <1>2, <2>1 DEF RecoveryCourse
<1>9. Journalled
  BY <1>2 DEF Journalled, OnRecord, HalfBatchIsHeld, InHand
<1>10. AsidePlanned /\ OneStranger
  BY <1>1, <1>2 DEF AsidePlanned, OneStranger, OwnStaysInProfile, PlanOK
<1>11. PreviewCurrent /\ DoneSoFar /\ WholeSoFar /\ NotDoubled
  BY <1>0, <1>2 DEF PreviewCurrent, DoneSoFar, WholeSoFar, NotDoubled
<1>12. QED
  BY <1>3, <1>5, <1>6, <1>7, <1>8, <1>9, <1>10, <1>11 DEF TInv

LEMMA StepHolds == TInv /\ [ToggleNext]_toggleVars => TInv'
<1> SUFFICES ASSUME TInv, [ToggleNext]_toggleVars PROVE TInv'
  OBVIOUS
<1>1. FileStep
  BY FileSteps
<1>2. TaskTypes' /\ OwnOnce' /\ StrayCount'
  BY <1>1, TypesHold, OwnHolds, StraysHold
<1>3. TaskCourse' /\ RecoveryCourse' /\ Journalled'
  BY CourseHolds, RecoveryCourseHolds, RecordHolds
<1>4. AsidePlanned'
  BY <1>1, PlannedHolds
<1>5. OneStranger'
  BY <1>1, <1>2, <1>4, StrangerHolds
<1>6. PreviewCurrent' /\ DoneSoFar' /\ WholeSoFar' /\ NotDoubled'
  BY <1>1, PreviewHolds, DoneHolds, WholeHolds, NotDoubledHolds
<1>7. QED
  BY <1>2, <1>3, <1>4, <1>5, <1>6 DEF TInv

LEMMA ToggleInvariance == ToggleSpec => []TInv
<1>1. QED
  BY InitHolds, StepHolds, PTL DEF ToggleSpec

-----------------------------------------------------------------------------
(* What follows from it.                                                    *)

LEMMA WhereHeld ==
    ASSUME TInv, NEW copy
    PROVE  Holding(copy) = {x \in Folders \X Places : CopyAt(x[1], x[2]) = copy}
<1>1. "mods" \notin Tasks /\ "disabled" \notin Tasks
  BY Apart
<1>2. ASSUME NEW f \in Folders, NEW h \in Places PROVE <<f, h>> \in Holding(copy) <=> CopyAt(f, h) = copy
  BY <1>1, <1>2 DEF Holding, CopyAt, Places
<1>3. Holding(copy) \subseteq Folders \X Places
  BY DEF Holding, Places
<1>4. QED
  BY <1>2, <1>3

LEMMA KeptNow == TInv => FoldersAreKept
<1> SUFFICES ASSUME TInv PROVE FoldersAreKept
  OBVIOUS
<1>1. ToggleTypeOK /\ OwnStaysInProfile
  BY DEF TInv, TaskTypes, OneStranger, OwnStaysInProfile
<1>2. ASSUME NEW f \in Folders PROVE Cardinality({h \in Holding("own") : h[1] = f}) = 1
  <2>1. PICK p \in Places : CopyAt(f, p) = "own" /\ \A k \in Places : CopyAt(f, k) = "own" => k = p
    BY DEF TInv, OwnOnce
  <2>2. {h \in Holding("own") : h[1] = f} = {<<f, p>>}
    BY <2>1, WhereHeld
  <2>3. QED
    BY <2>2, FS_Singleton
<1>3. Cardinality(Holding("stray")) = strays
  <2>1. Holding("stray") = Strays
    BY WhereHeld DEF Strays
  <2>2. QED
    BY <2>1 DEF TInv, StrayCount
<1>4. QED
  BY <1>1, <1>2, <1>3 DEF FoldersAreKept, CopiesKept

LEMMA GuardedNow == TInv => ProfileIsGuarded
<1> SUFFICES ASSUME TInv PROVE ProfileIsGuarded
  OBVIOUS
<1>1. lock = Nobody => ~Pending
  BY Apart DEF Pending
<1>2. QED
  BY <1>1 DEF ProfileIsGuarded, TInv, Journalled, PreviewSeesProfile, PreviewCurrent

LEMMA OkStep ==
    ASSUME TInv, [ToggleNext]_toggleVars, strays <= 1, NEW t \in Tasks, at[t] # "ok", at'[t] = "ok",
           NEW f \in req[t].folders
    PROVE  /\ (mods'[f] = "own") = req[t].enable
           /\ \A c \in Members(f) : seen[t][c] # req[t].enable => enabled'[c] = req[t].enable
<1>0. at \in [Tasks -> TaskStages] /\ OnCourse(t)
  BY DEF TInv, TaskTypes, TaskCourse
<1>1. TaskStep(t)
  BY OthersKept, RecoveryKeeps, KillKeeps DEF ToggleNext, DropStray, PreparePreview, toggleVars
<1>2. Settle(t)
  BY <1>0, <1>1
  DEF TaskStep, Ask, AskGate, TakeLock, Held, Claim, MoveAside, Group, SaveRow, SaveRevision, NowAt, StartWork
<1>3. ~work[t].failed /\ at[t] = "group" /\ work[t].todo = {} /\ UNCHANGED <<mods, enabled>>
  BY <1>0, <1>2 DEF Settle, NowAt, OnCourse, filesVars, rowVars
<1>4. QED
  BY <1>3 DEF TInv, DoneSoFar

LEMMA RecoveredStep ==
    ASSUME TInv, [ToggleNext]_toggleVars, strays <= 1, NEW t \in Tasks, entry'[t].recovered, ~entry[t].recovered,
           NEW f \in req[t].folders
    PROVE  /\ (mods'[f] = "own") = req[t].enable
           /\ \A c \in Members(f) : enabled'[c] = req[t].enable
<1>0. entry \in [Tasks -> Operations] /\ entry[t] \in Operations
  BY DEF TInv, TaskTypes
<1>1. ASSUME TaskStep(t) PROVE FALSE
  <2>1. CASE Held(t)
    <3> DEFINE from == IF KindOf[t] = "aside" THEN StrayPlace(CHOOSE g \in req[t].folders : TRUE) ELSE "none"
    <3>1. entry' = entry \/ entry' = [entry EXCEPT ![t] = [NoOperation EXCEPT !.state = "committing", !.from = from]]
      BY <2>1 DEF Held
    <3> HIDE DEF from
    <3>2. [NoOperation EXCEPT !.state = "committing", !.from = from].recovered = FALSE
      BY DEF NoOperation
    <3>3. QED
      BY <1>0, <3>1, <3>2
  <2>2. CASE Claim(t) \/ Settle(t)
    <3>1. \/ entry' = entry
          \/ entry' = [entry EXCEPT ![t].claimed = TRUE]
          \/ \E state \in {"failed", "succeeded"} : entry' = [entry EXCEPT ![t].state = state]
      BY <2>2 DEF Claim, Settle
    <3>2. entry'[t].recovered = entry[t].recovered
      BY <1>0, <3>1 DEF Operations
    <3>3. QED
      BY <3>2
  <2>3. QED
    BY <1>1, <2>1, <2>2 DEF TaskStep, Ask, AskGate, TakeLock, MoveAside, Group, SaveRow, SaveRevision
<1>2. RecoveryStep
  BY <1>1, OthersKept, KillKeeps DEF ToggleNext, DropStray, PreparePreview, toggleVars
<1>3. lock = Recovery /\ t = work[Recovery].op
  BY <1>2, RecoveryKeeps
<1>4. ASSUME RecoveryEnds("recovery") PROVE FALSE
  BY <1>0, <1>3, <1>4 DEF RecoveryEnds, Operations
<1>5. RecoverEnd
  BY <1>2, <1>3, <1>4 DEF RecoveryStep, RecoveryReads, RecoveryLocks, RecoverFolder, RecoverRow
<1>6. work[Recovery].todo = {} /\ work[Recovery].rows = {} /\ UNCHANGED <<mods, enabled>>
  BY <1>5 DEF RecoverEnd, filesVars
<1>7. QED
  BY <1>3, <1>6 DEF TInv, WholeSoFar

LEMMA DoubleStep ==
    ASSUME TInv, [ToggleNext]_toggleVars, TwoLive', ~TwoLive
    PROVE  lock = Recovery
<1>0. enabled \in [Components -> BOOLEAN]
  BY DEF TInv, TaskTypes, ToggleTypeOK
<1>1. PICK c \in Components, d \in Components : c # d /\ IdOf[c] = IdOf[d] /\ enabled'[c] /\ enabled'[d]
  BY DEF TwoLive
<1>2. ASSUME NEW t \in Tasks, SaveRow(t) PROVE FALSE
  <2>1. at[t] = "rows" /\ OnCourse(t) /\ (req[t].enable => ~Doubled(work[t].folder))
    BY <1>2 DEF SaveRow, TInv, TaskCourse, NotDoubled
  <2>2. PICK e \in work[t].rows : enabled' = [enabled EXCEPT ![e] = req[t].enable]
    BY <1>0, <1>1, <1>2 DEF SaveRow, TwoLive
  <2>3. e \in Members(work[t].folder)
    BY <2>1, <2>2 DEF OnCourse
  <2>4. ASSUME NEW other \in Components, other # e, IdOf[e] = IdOf[other], enabled[other], req[t].enable PROVE FALSE
    <3>1. other \in Members(work[t].folder)
      BY <2>1, <2>3, <2>4 DEF Doubled
    <3>2. QED
      BY <2>3, <2>4, <3>1, ToggleAssumption DEF Members
  <2>5. CASE c = e
    BY <1>0, <1>1, <2>2, <2>3, <2>4, <2>5 DEF Members
  <2>6. CASE d = e
    BY <1>0, <1>1, <2>2, <2>3, <2>4, <2>6 DEF Members
  <2>7. CASE c # e /\ d # e
    BY <1>0, <1>1, <2>2, <2>7 DEF TwoLive
  <2>8. QED
    BY <2>5, <2>6, <2>7
<1>3. enabled' # enabled
  BY DEF TwoLive
<1>4. ASSUME NEW t \in Tasks, TaskStep(t) PROVE FALSE
  <2>1. ~SaveRow(t)
    BY <1>2
  <2>2. QED
    BY <1>3, <1>4, <2>1
    DEF TaskStep, Ask, AskGate, TakeLock, Held, Claim, MoveAside, Group, SaveRevision, Settle, rowVars
<1>5. CASE RecoveryStep
  BY <1>3, <1>5 DEF RecoveryStep, RecoveryReads, RecoveryLocks, RecoverFolder, RecoverRow, RecoverEnd, rowVars
<1>6. CASE PreparePreview \/ (\E f \in Folders : DropStray(f)) \/ \E p \in Programs : KillProgram(p)
  BY <1>3, <1>6 DEF PreparePreview, DropStray, KillProgram, rowVars
<1>7. CASE UNCHANGED toggleVars
  BY <1>3, <1>7 DEF toggleVars, rowVars
<1>8. QED
  BY <1>4, <1>5, <1>6, <1>7 DEF ToggleNext

\* Toggle.FoldersAreKept: no copy of a mod's folder is lost or written over,
\* and none of the mod's own leaves the profile, wherever a move, a write, a
\* program or a recovery stops.
THEOREM CopiesAreKept == ToggleSpec => []FoldersAreKept
<1>1. QED
  BY ToggleInvariance, KeptNow, PTL

\* Toggle.ProfileIsGuarded: a batch cut short keeps everything else out of
\* the profile until it is recovered, and no open preview is out of date.
THEOREM ProfileStaysGuarded == ToggleSpec => []ProfileIsGuarded
<1>1. QED
  BY ToggleInvariance, GuardedNow, PTL

\* Toggle.RequestsComeTrue: what a request answered ok, or a recovered one,
\* says is so, and no request turns on a second mod of one id.
THEOREM RequestsAreTrue == ToggleSpec => RequestsComeTrue
<1>1. TInv /\ [ToggleNext]_toggleVars =>
        [\A t \in Tasks : strays <= 1 /\ at[t] # "ok" /\ at'[t] = "ok" =>
           \A f \in req[t].folders :
              /\ (mods'[f] = "own") = req[t].enable
              /\ \A c \in Members(f) : seen[t][c] # req[t].enable
                                       => enabled'[c] = req[t].enable]_toggleVars
  BY OkStep
<1>2. TInv /\ [ToggleNext]_toggleVars =>
        [\A t \in Tasks : strays <= 1 /\ entry'[t].recovered /\ ~entry[t].recovered =>
           \A f \in req[t].folders :
              /\ (mods'[f] = "own") = req[t].enable
              /\ \A c \in Members(f) : enabled'[c] = req[t].enable]_toggleVars
  BY RecoveredStep
<1>3. TInv /\ [ToggleNext]_toggleVars => [TwoLive' /\ ~TwoLive => lock = Recovery]_toggleVars
  BY DoubleStep
<1>4. QED
  BY <1>1, <1>2, <1>3, ToggleInvariance, PTL
  DEF ToggleSpec, RequestsComeTrue, OkMeansDone, RecoveredIsWhole, RequestsNeverDouble
================================================================================
