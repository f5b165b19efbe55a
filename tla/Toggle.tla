------------------------------- MODULE Toggle -------------------------------
(* Turning mods on and off (services/toggle.rs). A mod's folder is moved    *)
(* between Mods and the disabled directory, then the row of every component *)
(* in it is saved, then the profile's revision. One mod changes without a   *)
(* journal entry; several, or one whose folder has a stranger of the same   *)
(* name in the way, are written down first and finished by recovery         *)
(* (operation_recovery.rs).                                                 *)
(*                                                                          *)
(* A place is "none" or holds a copy: "own", the mod's, or "stray". The     *)
(* rows a request works from are those it read before it had the lock.      *)
EXTENDS Naturals, FiniteSets

CONSTANTS
    Tasks,        \* requests, each made once
    Programs,     \* where they run
    App,          \* the program that recovers
    Folders, Components, Ids,
    ProgramOf,    \* [Tasks -> Programs]
    KindOf,       \* [Tasks -> {"one", "aside", "many"}]
    FolderOf,     \* [Components -> Folders]: the package a component came in
    IdOf,         \* [Components -> Ids]: its UniqueID
    Inventoried,  \* folders whose install recorded a file inventory
    Nobody, Recovery, NoFolder, NoPreview,
    MaxKills, MaxFailures, MaxStrays   \* bounds

(* An install refuses a package that has two mods of one id (mods.rs).      *)
ASSUME ToggleAssumption ==
    /\ IsFiniteSet(Folders) /\ IsFiniteSet(Tasks)
    /\ ProgramOf \in [Tasks -> Programs]
    /\ KindOf \in [Tasks -> {"one", "aside", "many"}]
    /\ FolderOf \in [Components -> Folders]
    /\ IdOf \in [Components -> Ids]
    /\ \A c, d \in Components : c # d /\ FolderOf[c] = FolderOf[d] => IdOf[c] # IdOf[d]
    /\ {Nobody, Recovery, "mods", "disabled"} \cap Tasks = {} /\ Nobody # Recovery
    /\ NoFolder \notin Folders

VARIABLES
    mods, disabled, \* per folder: the copy in Mods, in the disabled directory
    aside,          \* per task and folder: the copy in its recovery folder
    enabled,        \* per component: its row
    revision,       \* the profile's
    preview,        \* an open preview: what it was prepared from, or NoPreview
    entry,          \* per task: its operation
    lock,           \* the task, Recovery or Nobody in charge of the profile
    req,            \* per task: what it asks
    at,             \* per task: where it is
    seen,           \* per task: the rows it read when it began
    work,           \* per task, and for Recovery: what is done and left
    kills, failures, strays

toggleVars == <<mods, disabled, aside, enabled, revision, preview, entry,
                lock, req, at, seen, work, kills, failures, strays>>

Copies == {"none", "own", "stray"}
Members(f) == {c \in Components : FolderOf[c] = f}
Idle == [todo |-> {}, folder |-> NoFolder, moved |-> FALSE, changed |-> FALSE,
         rows |-> {}, failed |-> FALSE, op |-> Nobody]
NoOperation == [state |-> "none", claimed |-> FALSE, from |-> "none",
                recovered |-> FALSE]
Finished == {"ok", "failed", "refused", "dead"}
Outstanding(t) == entry[t].state \in {"committing", "recovery"}
OwnPlace == [f \in Folders |-> mods[f] = "own"]

ToggleInit ==
    /\ enabled \in [Components -> BOOLEAN]
    /\ \A c, d \in Components :
         /\ FolderOf[c] = FolderOf[d] => enabled[c] = enabled[d]
         /\ c # d /\ IdOf[c] = IdOf[d] => ~(enabled[c] /\ enabled[d])
    /\ mods = [f \in Folders |->
                 IF \E c \in Members(f) : enabled[c] THEN "own" ELSE "none"]
    /\ disabled = [f \in Folders |-> IF mods[f] = "own" THEN "none" ELSE "own"]
    /\ aside = [t \in Tasks |-> [f \in Folders |-> "none"]]
    /\ revision = 0
    /\ preview = NoPreview
    /\ entry = [t \in Tasks |-> NoOperation]
    /\ lock = Nobody
    /\ req = [t \in Tasks |-> [enable |-> FALSE, folders |-> {}]]
    /\ at = [t \in Tasks |-> "idle"]
    /\ seen = [t \in Tasks |-> [c \in Components |-> FALSE]]
    /\ work = [t \in Tasks \union {Recovery} |-> Idle]
    /\ kills = 0 /\ failures = 0 /\ strays = 0

-----------------------------------------------------------------------------
filesVars == <<mods, disabled, aside>>
rowVars == <<enabled, revision, preview>>
budget == <<kills, strays>>

(* A file or database call that fails, within the bound. *)
CallFails == failures < MaxFailures /\ failures' = failures + 1
NoFault == UNCHANGED failures
NowAt(t, place) == at' = [at EXCEPT ![t] = place]

(* group, groups: the folders behind the request and their rows, read       *)
(* before anything is locked.                                               *)
Ask(t) ==
    /\ at[t] = "idle"
    /\ \E on \in BOOLEAN, fs \in (SUBSET Folders) \ {{}} :
         /\ KindOf[t] # "many" => Cardinality(fs) = 1
         /\ req' = [req EXCEPT ![t] = [enable |-> on, folders |-> fs]]
    /\ seen' = [seen EXCEPT ![t] = enabled]
    /\ NowAt(t, "asked")
    /\ UNCHANGED <<filesVars, rowVars, entry, lock, work, budget, failures>>

(* lock_profile: the durable gate, then lease and lock. *)
AskGate(t) ==
    /\ at[t] = "asked"
    /\ NowAt(t, IF \E u \in Tasks : Outstanding(u) /\ entry[u].claimed
               THEN "refused" ELSE "gated")
    /\ UNCHANGED <<filesVars, rowVars, entry, lock, req, seen, work, budget,
                   failures>>

TakeLock(t) ==
    /\ at[t] = "gated"
    /\ IF lock = Nobody THEN lock' = t /\ NowAt(t, "held")
                        ELSE UNCHANGED lock /\ NowAt(t, "refused")
    /\ UNCHANGED <<filesVars, rowVars, entry, req, seen, work, budget, failures>>

StartWork(t, place) ==
    /\ NowAt(t, place)
    /\ work' = [work EXCEPT ![t] = [Idle EXCEPT !.todo = req[t].folders]]

(* classify_collision: where the stranger is, decided by the inventory,     *)
(* never by the place.                                                      *)
HoldsInventory(copy) == copy = "own"  \* every recorded file, settings apart
Collides(f) == mods[f] # "none" /\ disabled[f] # "none"
StrayPlace(f) == IF HoldsInventory(mods[f]) THEN "disabled" ELSE "mods"

(* What a request does first with the lock in hand. *)
Held(t) ==
    /\ at[t] = "held"
    /\ LET f == CHOOSE g \in req[t].folders : TRUE IN
       \/ /\ \/ KindOf[t] = "one"
             \/ KindOf[t] = "aside" /\ ~Collides(f)
          /\ StartWork(t, "group")
          /\ UNCHANGED <<entry, lock>>
       \/ /\ KindOf[t] = "aside" /\ Collides(f) /\ f \notin Inventoried
          /\ NowAt(t, "failed")
          /\ lock' = Nobody
          /\ UNCHANGED <<entry, work>>
       \/ /\ \/ KindOf[t] = "many"
             \/ KindOf[t] = "aside" /\ Collides(f) /\ f \in Inventoried
          /\ entry' = [entry EXCEPT ![t] =
                [NoOperation EXCEPT !.state = "committing",
                   !.from = IF KindOf[t] = "aside" THEN StrayPlace(f) ELSE "none"]]
          /\ StartWork(t, "claim")
          /\ UNCHANGED lock
    /\ UNCHANGED <<filesVars, rowVars, req, seen, budget, failures>>

(* record_toggle, its second write: the claim on the profile. An error ends *)
(* the request with the operation left behind.                              *)
Claim(t) ==
    /\ at[t] = "claim"
    /\ \/ /\ NoFault
          /\ entry' = [entry EXCEPT ![t].claimed = TRUE]
          /\ NowAt(t, IF KindOf[t] = "aside" THEN "aside" ELSE "group")
          /\ UNCHANGED lock
       \/ CallFails /\ NowAt(t, "failed") /\ lock' = Nobody /\ UNCHANGED entry
    /\ UNCHANGED <<filesVars, rowVars, req, seen, work, budget>>

-----------------------------------------------------------------------------
(* move_deployment between two places holding s and d: done when the source *)
(* is gone and the target there, refused when both are there.               *)
MoveRefused(s, d) == (s = "none") = (d = "none")

(* quarantine_folder_copy, from the place the plan names. *)
AsideMoves(t, f) ==
    LET s == IF entry[t].from = "mods" THEN mods[f] ELSE disabled[f] IN
    /\ ~MoveRefused(s, aside[t][f])
    /\ IF s = "none"
       THEN UNCHANGED filesVars
       ELSE /\ aside' = [aside EXCEPT ![t][f] = s]
            /\ IF entry[t].from = "mods"
               THEN mods' = [mods EXCEPT ![f] = "none"] /\ UNCHANGED disabled
               ELSE disabled' = [disabled EXCEPT ![f] = "none"] /\ UNCHANGED mods
AsideRefused(t, f) ==
    MoveRefused(IF entry[t].from = "mods" THEN mods[f] ELSE disabled[f],
                aside[t][f])

MoveAside(t) ==
    /\ at[t] = "aside"
    /\ LET f == CHOOSE g \in req[t].folders : TRUE IN
       \/ NoFault /\ AsideMoves(t, f) /\ NowAt(t, "group") /\ UNCHANGED work
       \/ /\ IF AsideRefused(t, f) THEN NoFault ELSE CallFails
          /\ work' = [work EXCEPT ![t].todo = {}, ![t].failed = TRUE]
          /\ NowAt(t, "settle")
          /\ UNCHANGED filesVars
    /\ UNCHANGED <<rowVars, entry, lock, req, seen, budget>>

-----------------------------------------------------------------------------
(* reconcile_folder: refused when both places are taken; else the copy goes *)
(* where the request wants it, and MovesTo says whether it had to.          *)
FolderMissing(f, on) == on /\ mods[f] = "none" /\ disabled[f] = "none"
FolderRefused(f, on) == Collides(f) \/ FolderMissing(f, on)
MustMove(f, on) == (mods[f] # "none") # on
MovedTo(f, on) ==
    IF MustMove(f, on)
    THEN /\ mods' = [mods EXCEPT ![f] = IF on THEN disabled[f] ELSE "none"]
         /\ disabled' = [disabled EXCEPT ![f] = IF on THEN "none" ELSE mods[f]]
    ELSE UNCHANGED <<mods, disabled>>

(* refuse_live_duplicates: another enabled component has the same id. *)
Doubled(f) == \E c \in Members(f), d \in Components \ Members(f) :
                 enabled[d] /\ IdOf[c] = IdOf[d]

(* apply, up to the folder's move. *)
Group(t) ==
    /\ at[t] = "group" /\ work[t].todo # {}
    /\ \E f \in work[t].todo :
         LET on == req[t].enable
             refused == (on /\ Doubled(f)) \/ FolderRefused(f, on) IN
         \/ /\ IF refused THEN NoFault ELSE CallFails
            /\ work' = [work EXCEPT ![t].todo = @ \ {f}, ![t].failed = TRUE]
            /\ UNCHANGED <<filesVars, at>>
         \/ /\ ~refused /\ NoFault
            /\ MovedTo(f, on)
            /\ work' = [work EXCEPT ![t].todo = @ \ {f}, ![t].folder = f,
                  ![t].moved = MustMove(f, on), ![t].changed = FALSE,
                  ![t].rows = {c \in Members(f) : seen[t][c] # on}]
            /\ NowAt(t, "rows")
            /\ UNCHANGED aside
    /\ UNCHANGED <<rowVars, entry, lock, req, seen, budget>>

(* apply's failure: the folder goes back, with the result ignored; rows     *)
(* already saved stay.                                                      *)
PutBack(t) ==
    LET f == work[t].folder IN
    IF work[t].moved /\ ~MoveRefused(mods[f], disabled[f])
    THEN MovedTo(f, ~req[t].enable)
    ELSE UNCHANGED <<mods, disabled>>

SaveRow(t) ==
    /\ at[t] = "rows" /\ work[t].rows # {}
    /\ \E c \in work[t].rows :
         \/ /\ NoFault
            /\ enabled' = [enabled EXCEPT ![c] = req[t].enable]
            /\ work' = [work EXCEPT ![t].rows = @ \ {c}, ![t].changed = TRUE]
            /\ UNCHANGED <<mods, disabled, at>>
         \/ /\ CallFails
            /\ PutBack(t)
            /\ work' = [work EXCEPT ![t].failed = TRUE, ![t].folder = NoFolder]
            /\ NowAt(t, "group")
            /\ UNCHANGED enabled
    /\ UNCHANGED <<aside, revision, preview, entry, lock, req, seen, budget>>

(* bump_revision, save_profile and release_stale_previews. *)
BumpRevision ==
    /\ revision' = revision + 1
    /\ preview' = NoPreview
BumpIfChanged(changed, moved) ==
    IF changed THEN BumpRevision ELSE UNCHANGED <<revision, preview>>
BumpIf(changed, moved) ==
    IF changed \/ moved THEN BumpRevision ELSE UNCHANGED <<revision, preview>>

SaveRevision(t) ==
    /\ at[t] = "rows" /\ work[t].rows = {}
    /\ \/ /\ NoFault
          /\ BumpIf(work[t].changed, work[t].moved)
          /\ work' = [work EXCEPT ![t].folder = NoFolder]
          /\ UNCHANGED <<mods, disabled>>
       \/ /\ work[t].changed \/ work[t].moved
          /\ CallFails
          /\ PutBack(t)
          /\ work' = [work EXCEPT ![t].failed = TRUE, ![t].folder = NoFolder]
          /\ UNCHANGED <<revision, preview>>
    /\ NowAt(t, "group")
    /\ UNCHANGED <<aside, enabled, entry, lock, req, seen, budget>>

(* The request ends: its operation, if it has one, is settled. *)
Settle(t) ==
    /\ \/ at[t] = "settle"
       \/ at[t] = "group" /\ work[t].todo = {}
    /\ lock' = Nobody
    /\ work' = [work EXCEPT ![t] = Idle]
    /\ \/ /\ NoFault
          /\ entry' = IF entry[t].state = "none" THEN entry
                        ELSE [entry EXCEPT ![t].state =
                                IF work[t].failed THEN "failed" ELSE "succeeded"]
          /\ NowAt(t, IF work[t].failed THEN "failed" ELSE "ok")
       \/ /\ entry[t].state # "none"
          /\ CallFails
          /\ NowAt(t, "failed")
          /\ UNCHANGED entry
    /\ UNCHANGED <<filesVars, rowVars, req, seen, budget>>

-----------------------------------------------------------------------------
(* recover_on_startup reads what is unfinished before it has the lock;      *)
(* retry_recovery also leaves alone what its owner still carries out.       *)
RecoveryReads(t) ==
    /\ work[Recovery].op = Nobody
    /\ Outstanding(t)
    /\ work' = [work EXCEPT ![Recovery] = [Idle EXCEPT !.op = t]]
    /\ UNCHANGED <<filesVars, rowVars, entry, lock, req, at, seen, budget, failures>>

RecoveryLocks ==
    /\ work[Recovery].op # Nobody /\ lock # Recovery
    /\ IF lock = Nobody
       THEN /\ lock' = Recovery
            /\ work' = [work EXCEPT ![Recovery].todo =
                           req[work[Recovery].op].folders]
       ELSE work' = [work EXCEPT ![Recovery] = Idle] /\ UNCHANGED lock
    /\ UNCHANGED <<filesVars, rowVars, entry, req, at, seen, budget, failures>>

RecoveryEnds(state) ==
    LET t == work[Recovery].op IN
    /\ entry' = IF Outstanding(t)
                  THEN [entry EXCEPT ![t].state = state,
                          ![t].recovered = state = "succeeded"]
                  ELSE entry
    /\ lock' = Nobody
    /\ work' = [work EXCEPT ![Recovery] = Idle]

(* recover_v2_toggle, one target: the stranger the plan names goes aside    *)
(* if it is still there, the folder goes where the request wants it, and    *)
(* every component's row is read again. An error retains the operation.     *)
StillToSaveIfMoved(f, on, moved) ==
    {c \in Members(f) : moved /\ enabled[c] # on}
StillToSave(f, on, moved) == {c \in Members(f) : enabled[c] # on}

RecoverFolder ==
    LET t == work[Recovery].op
        on == req[t].enable IN
    /\ lock = Recovery /\ work[Recovery].rows = {}
    /\ \E f \in work[Recovery].todo :
         \/ /\ entry[t].from # "none" /\ Collides(f)
            /\ NoFault
            /\ AsideMoves(t, f)
            /\ UNCHANGED <<work, entry, lock>>
         \/ /\ ~FolderRefused(f, on)
            /\ NoFault
            /\ MovedTo(f, on)
            /\ work' = [work EXCEPT ![Recovery].todo = @ \ {f},
                  ![Recovery].rows = StillToSave(f, on, MustMove(f, on)),
                  ![Recovery].changed = @ \/ MustMove(f, on)]
            /\ UNCHANGED <<aside, entry, lock>>
         \/ /\ IF FolderRefused(f, on)
                  /\ (entry[t].from = "none" \/ ~Collides(f) \/ AsideRefused(t, f))
               THEN NoFault ELSE CallFails
            /\ RecoveryEnds("recovery")
            /\ UNCHANGED filesVars
    /\ UNCHANGED <<rowVars, req, at, seen, budget>>

RecoverRow ==
    /\ lock = Recovery
    /\ \E c \in work[Recovery].rows :
         \/ /\ NoFault
            /\ enabled' = [enabled EXCEPT ![c] = req[work[Recovery].op].enable]
            /\ work' = [work EXCEPT ![Recovery].rows = @ \ {c},
                                    ![Recovery].changed = TRUE]
            /\ UNCHANGED <<entry, lock>>
         \/ CallFails /\ RecoveryEnds("recovery") /\ UNCHANGED enabled
    /\ UNCHANGED <<filesVars, revision, preview, req, at, seen, budget>>

RecoverEnd ==
    /\ lock = Recovery
    /\ work[Recovery].todo = {} /\ work[Recovery].rows = {}
    /\ NoFault
    /\ BumpIf(work[Recovery].changed, FALSE)
    /\ RecoveryEnds("succeeded")
    /\ UNCHANGED <<filesVars, enabled, req, at, seen, budget>>

-----------------------------------------------------------------------------
(* The user unzips another copy by hand where the name is free.             *)
DropStray(f) ==
    /\ strays < MaxStrays
    /\ strays' = strays + 1
    /\ \/ mods[f] = "none" /\ mods' = [mods EXCEPT ![f] = "stray"]
          /\ UNCHANGED disabled
       \/ disabled[f] = "none" /\ disabled' = [disabled EXCEPT ![f] = "stray"]
          /\ UNCHANGED mods
    /\ UNCHANGED <<aside, rowVars, entry, lock, req, at, seen, work, kills,
                   failures>>

(* A preview of another change is prepared from the profile as it stands.   *)
PreparePreview ==
    /\ preview = NoPreview
    /\ preview' = [revision |-> revision, enabled |-> enabled, mods |-> OwnPlace]
    /\ UNCHANGED <<filesVars, enabled, revision, entry, lock, req, at, seen,
                   work, budget, failures>>

(* A program is killed: the system drops its lock; the window comes back    *)
(* and cancels its open preview.                                            *)
KillProgram(p) ==
    /\ kills < MaxKills
    /\ kills' = kills + 1
    /\ LET Dead(t) == ProgramOf[t] = p /\ at[t] \notin Finished \union {"idle"} IN
       /\ at' = [t \in Tasks |-> IF Dead(t) THEN "dead" ELSE at[t]]
       /\ lock' = IF (lock \in Tasks /\ Dead(lock)) \/ (lock = Recovery /\ p = App)
                  THEN Nobody ELSE lock
    /\ work' = IF p = App THEN [work EXCEPT ![Recovery] = Idle] ELSE work
    /\ preview' = IF p = App THEN NoPreview ELSE preview
    /\ UNCHANGED <<filesVars, enabled, revision, entry, req, seen, failures, strays>>

TaskStep(t) ==
    \/ Ask(t) \/ AskGate(t) \/ TakeLock(t) \/ Held(t) \/ Claim(t) \/ MoveAside(t)
    \/ Group(t) \/ SaveRow(t) \/ SaveRevision(t) \/ Settle(t)
RecoveryStep ==
    \/ \E t \in Tasks : RecoveryReads(t)
    \/ RecoveryLocks \/ RecoverFolder \/ RecoverRow \/ RecoverEnd

ToggleNext ==
    \/ \E t \in Tasks : TaskStep(t)
    \/ RecoveryStep
    \/ \E f \in Folders : DropStray(f)
    \/ PreparePreview
    \/ \E p \in Programs : KillProgram(p)

ToggleSpec == ToggleInit /\ [][ToggleNext]_toggleVars

-----------------------------------------------------------------------------
(* Types. *)
ToggleTypeOK ==
    /\ mods \in [Folders -> Copies] /\ disabled \in [Folders -> Copies]
    /\ aside \in [Tasks -> [Folders -> Copies]]
    /\ enabled \in [Components -> BOOLEAN]
    /\ revision \in Nat
    /\ lock \in Tasks \union {Nobody, Recovery}
    /\ req \in [Tasks -> [enable : BOOLEAN, folders : SUBSET Folders]]
    /\ \A t \in Tasks :
         entry[t].state \in {"none", "committing", "recovery", "succeeded", "failed"}
    /\ \A t \in Tasks \union {Recovery} :
         /\ work[t].todo \subseteq Folders /\ work[t].rows \subseteq Components

(* No copy of a folder is ever lost or written over, whatever is dropped    *)
(* beside it and wherever a move stops: the mod's own is in exactly one     *)
(* place and every stranger is still somewhere ("kept, never deleted").     *)
Holding(copy) ==
    {h \in Folders \X {"mods", "disabled"} :
        (IF h[2] = "mods" THEN mods ELSE disabled)[h[1]] = copy}
    \union {h \in Folders \X Tasks : aside[h[2]][h[1]] = copy}
CopiesKept ==
    /\ \A f \in Folders : Cardinality({h \in Holding("own") : h[1] = f}) = 1
    /\ Cardinality(Holding("stray")) = strays

(* What is moved out of the profile is the stranger, never the mod's own    *)
(* copy, also when recovery finishes the move from the plan. (A second      *)
(* stranger may come where the first was and make the plan point at the     *)
(* mod.)                                                                    *)
OwnStaysInProfile ==
    strays <= 1 => \A t \in Tasks, f \in Folders : aside[t][f] # "own"

(* A batch stopped in the middle of a folder has an operation that claims   *)
(* the profile, so that nothing else runs before recovery has finished it.  *)
HalfBatchIsHeld ==
    \A t \in Tasks :
        KindOf[t] = "many" /\ at[t] = "dead" /\ work[t].folder # NoFolder
        => entry[t].recovered \/ (Outstanding(t) /\ entry[t].claimed)

(* A preview that can still be confirmed was prepared from the folders and  *)
(* rows there are, as long as every write and move succeeds and no stranger *)
(* is in the way of one: whatever changes them moves the revision.          *)
PreviewSeesProfile ==
    lock = Nobody /\ preview # NoPreview /\ kills = 0 /\ failures = 0 /\ strays = 0
    => /\ preview.revision = revision
       /\ preview.enabled = enabled /\ preview.mods = OwnPlace

TwoLive == \E c, d \in Components :
              c # d /\ IdOf[c] = IdOf[d] /\ enabled[c] /\ enabled[d]

(* No request turns on a second copy of a mod with the same UniqueID. (Only *)
(* recovery, which does not look, may.)                                     *)
RequestsNeverDouble ==
    [][TwoLive' /\ ~TwoLive => lock = Recovery]_toggleVars

(* A request answered ok: the mod's own folder is where it was asked, and   *)
(* the rows it had read otherwise say so.                                   *)
OkMeansDone ==
    [][\A t \in Tasks : strays <= 1 /\ at[t] # "ok" /\ at'[t] = "ok" =>
         \A f \in req[t].folders :
            /\ (mods'[f] = "own") = req[t].enable
            /\ \A c \in Members(f) : seen[t][c] # req[t].enable
                                     => enabled'[c] = req[t].enable]_toggleVars

(* A recovered request is whole: every folder it names and every row agree  *)
(* with what was asked, whatever the interruption left.                     *)
RecoveredIsWhole ==
    [][\A t \in Tasks : strays <= 1 /\ entry'[t].recovered /\ ~entry[t].recovered =>
         \A f \in req[t].folders :
            /\ (mods'[f] = "own") = req[t].enable
            /\ \A c \in Members(f) : enabled'[c] = req[t].enable]_toggleVars

(* Folders are all where somebody can find them: no copy is lost and none   *)
(* of the mod's own leaves the profile, wherever a move stops.              *)
FoldersAreKept == ToggleTypeOK /\ CopiesKept /\ OwnStaysInProfile

(* What another change could start from is never half of a request: a batch *)
(* cut short keeps everything else out, and no open preview is out of date. *)
ProfileIsGuarded == HalfBatchIsHeld /\ PreviewSeesProfile

(* Requests do what they say, at once or once recovered, and never turn on  *)
(* a second mod of one id.                                                  *)
RequestsComeTrue == OkMeansDone /\ RecoveredIsWhole /\ RequestsNeverDouble
=============================================================================
