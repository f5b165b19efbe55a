--------------------------- MODULE ProfileLibrary ---------------------------
(***************************************************************************)
(* The profiles of one game as a library: made, copied, archived, deleted  *)
(* to the trash and brought back, and the storage cleanup that reclaims    *)
(* the packages nothing needs any more                                     *)
(*   services/profiles.rs, profile_deletion.rs, storage_cleanup.rs,        *)
(*   bundle.rs (bring_back, clone, finish_copy, recreate, import),         *)
(*   manager-infra profile_folders.rs, storage.rs, package_store.rs.       *)
(*                                                                         *)
(* Several programs (windows over one data folder) each run one command at *)
(* a time; a command is a job of several steps, and only the steps the     *)
(* code takes under the instance lock exclude one another.  One package    *)
(* holds one mod.  The commit of an install and the removal of a mod are   *)
(* one step each here: InstallEngine and RemovalEngine show why.           *)
(***************************************************************************)
EXTENDS Naturals, FiniteSets

CONSTANTS
    Programs,     \* processes that can change this data folder
    Ids,          \* profile ids
    Packages,     \* package archives, each holding one mod
    None,         \* no row, no folder, no record, nobody
    Home,         \* a further profile that nothing here changes
    MaxJobs,      \* commands asked for in a behaviour
    MaxTrash,     \* folders moved to the trash in a behaviour
    MaxRevision,  \* bound on profile revisions
    MaxCrashes,   \* kills of a program
    MaxFaults     \* refused writes

VARIABLES
    rows,      \* id -> its row: state, revision, deployed mods, those off
    used,      \* ids ever given out
    folders,   \* id -> its folder: mods' files, undo copies, deletion record
    trash,     \* folders moved aside
    stored,    \* packages kept in packages/
    points,    \* id -> packages its restore points and last working setup list
    pending,   \* id -> the copy it is to become, while it is unfinished
    frozen,    \* ids recorded as frozen
    ctx,       \* the active and the default profile
    lock,      \* who holds the instance lock
    ops,       \* previews in the journal
    job,       \* program -> the command it carries out
    awake,     \* the programs that are open in this behaviour
    jobs, deleted, crashes, faults

libraryVars == <<rows, used, folders, trash, stored, points, pending, frozen,
                 ctx, lock, ops, job, awake, jobs, deleted, crashes, faults>>
bounds == <<awake, deleted, crashes, faults>>

Idle == [kind |-> "idle"]
NewRow(rev) == [state |-> "active", rev |-> rev, mods |-> {}, off |-> {}]
NewFolder == [mods |-> {}, undo |-> {}, record |-> None]

\* What an upsert of the profile row alone leaves of its components: a row
\* that was deleted in between took them with it.
ModsOf(id) == IF rows[id] = None THEN {} ELSE rows[id].mods
OffOf(id) == IF rows[id] = None THEN {} ELSE rows[id].off

-----------------------------------------------------------------------------
\* Jobs.

At(g, kind, at) == job[g].kind = kind /\ job[g].at = at
MayStart(g) == g \in awake /\ job[g] = Idle /\ jobs < MaxJobs
Start(g, j) ==
    /\ MayStart(g)
    /\ jobs' = jobs + 1
    /\ job' = [job EXCEPT ![g] = j]
Goto(g, at) == job' = [job EXCEPT ![g].at = at]
End(g) == job' = [job EXCEPT ![g] = Idle]

Free(g) == IF lock = g THEN None ELSE lock

\* The instance lock: taken, or the command is refused because another
\* process holds it.
TakeLock(g, kind, next) ==
    /\ At(g, kind, "lock")
    /\ IF lock = None
       THEN lock' = g /\ Goto(g, next)
       ELSE End(g) /\ UNCHANGED lock
    /\ UNCHANGED <<rows, used, folders, trash, stored, points, pending, frozen, ctx, ops, jobs, bounds>>

-----------------------------------------------------------------------------
\* Archiving, restoring, switching, the default: the row or the context is
\* read, decided on, and saved whole.

AskState(g, id, to) ==
    /\ rows[id] # None
    /\ rows[id].state # to
    /\ to = "archived" => id \notin {ctx.active, ctx.default}
    /\ Start(g, [kind |-> "state", at |-> "save", id |-> id, to |-> to, rev |-> rows[id].rev])
    /\ UNCHANGED <<rows, used, folders, trash, stored, points, pending, frozen, ctx, lock, ops, bounds>>

SaveState(g) ==
    /\ At(g, "state", "save")
    /\ LET j == job[g] IN
       rows' = [rows EXCEPT ![j.id] =
                  [state |-> j.to, rev |-> j.rev + 1, mods |-> ModsOf(j.id), off |-> OffOf(j.id)]]
    /\ End(g)
    /\ UNCHANGED <<used, folders, trash, stored, points, pending, frozen, ctx, lock, ops, jobs, bounds>>

AskContext(g, id, which) ==
    /\ id # Home => rows[id] # None /\ rows[id].state = "active"
    /\ ctx[which] # id
    /\ Start(g, [kind |-> "context", at |-> "save", ctx |-> [ctx EXCEPT ![which] = id]])
    /\ UNCHANGED <<rows, used, folders, trash, stored, points, pending, frozen, ctx, lock, ops, bounds>>

SaveContext(g) ==
    /\ At(g, "context", "save")
    /\ ctx' = job[g].ctx
    /\ End(g)
    /\ UNCHANGED <<rows, used, folders, trash, stored, points, pending, frozen, lock, ops, jobs, bounds>>

-----------------------------------------------------------------------------
\* Deleting.  The row is read and found archived before the lock is taken;
\* a preview in the journal does not stop it, and nothing else is open here.

AskDelete(g, id) ==
    /\ rows[id] # None
    /\ rows[id].state = "archived"
    /\ Start(g, [kind |-> "delete", at |-> "lock", id |-> id, rev |-> rows[id].rev, n |-> 0])
    /\ UNCHANGED <<rows, used, folders, trash, stored, points, pending, frozen, ctx, lock, ops, bounds>>

LockDelete(g) == TakeLock(g, "delete", "record")

\* The record goes into the folder, which is made if there was none.
WriteDeletionRecord(g) ==
    /\ At(g, "delete", "record")
    /\ LET id == job[g].id
           now == IF folders[id] = None THEN NewFolder ELSE folders[id] IN
       folders' = [folders EXCEPT ![id] =
          [now EXCEPT !.record = [mods |-> ModsOf(id), off |-> OffOf(id), rev |-> job[g].rev]]]
    /\ Goto(g, "move")
    /\ UNCHANGED <<rows, used, trash, stored, points, pending, frozen, ctx, lock, ops, jobs, bounds>>

MoveToTrash(g) ==
    /\ At(g, "delete", "move")
    /\ deleted < MaxTrash
    /\ deleted' = deleted + 1
    /\ LET id == job[g].id IN
       /\ trash' = trash \union {[n |-> deleted', id |-> id, folder |-> folders[id],
                                  back |-> FALSE, old |-> FALSE]}
       /\ folders' = [folders EXCEPT ![id] = None]
    /\ job' = [job EXCEPT ![g].at = "rows", ![g].n = deleted']
    /\ UNCHANGED <<rows, used, stored, points, pending, frozen, ctx, lock, ops, jobs, awake, crashes, faults>>

\* The row and everything under it in one transaction, or an error.
DeleteRows(g) ==
    /\ At(g, "delete", "rows")
    /\ LET id == job[g].id IN
       \/ /\ rows[id] # None
          /\ rows' = [rows EXCEPT ![id] = None]
          /\ ctx' = [which \in DOMAIN ctx |-> IF ctx[which] = id THEN None ELSE ctx[which]]
          /\ lock' = Free(g) /\ End(g)
          /\ UNCHANGED <<used, folders, trash, stored, points, pending, frozen, ops, jobs, bounds>>
       \/ /\ rows[id] = None \/ faults < MaxFaults
          /\ faults' = IF rows[id] = None THEN faults ELSE faults + 1
          /\ Goto(g, "back")
          /\ UNCHANGED <<rows, used, folders, trash, stored, points, pending, frozen, ctx, lock, ops, jobs,
                         awake, deleted, crashes>>

Entries(n) == {e \in trash : e.n = n}

\* The folder goes back; what became of that is not looked at.
PutFolderBack(g) ==
    /\ At(g, "delete", "back")
    /\ LET id == job[g].id IN
       \/ \E e \in Entries(job[g].n) :
             /\ folders[id] = None
             /\ folders' = [folders EXCEPT ![id] = e.folder]
             /\ trash' = trash \ {e}
             /\ UNCHANGED faults
       \/ /\ folders[id] # None \/ Entries(job[g].n) = {} \/ faults < MaxFaults
          /\ faults' = IF faults < MaxFaults THEN faults + 1 ELSE faults
          /\ UNCHANGED <<folders, trash>>
    /\ lock' = Free(g) /\ End(g)
    /\ UNCHANGED <<rows, used, stored, points, pending, frozen, ctx, ops, jobs, awake, deleted, crashes>>

\* A trashed folder with a deletion record and no brought-back one.
Offered(e) == e.folder.record # None /\ ~e.back

-----------------------------------------------------------------------------
\* Filling a profile through the ordinary install engine: a copy, one brought
\* back, one recreated from a restore point, an imported bundle, and the
\* user's own install.  `have` is what can be installed from.

Fill(why, at, id, from, want, off, have) ==
    [kind |-> "fill", at |-> at, why |-> why, id |-> id, from |-> from, want |-> want,
     off |-> off, have |-> have, todo |-> {}, failed |-> {}, hand |-> None,
     rev |-> 0, seen |-> 0]

AskBack(g, e) ==
    /\ Offered(e)
    /\ Start(g, [Fill("back", "create", e.id, e.n, e.folder.record.mods, e.folder.record.off, {})
                 EXCEPT !.rev = e.folder.record.rev])
    /\ UNCHANGED <<rows, used, folders, trash, stored, points, pending, frozen, ctx, lock, ops, bounds>>

AskCopy(g, id) ==
    /\ rows[id] # None
    /\ Start(g, Fill("copy", "create", None, 0, ModsOf(id), OffOf(id), ModsOf(id) \intersect stored))
    /\ UNCHANGED <<rows, used, folders, trash, stored, points, pending, frozen, ctx, lock, ops, bounds>>

AskPoint(g, id) ==
    /\ rows[id] # None /\ points[id] # {}
    /\ Start(g, Fill("point", "create", None, 0, points[id], {}, points[id] \intersect stored))
    /\ UNCHANGED <<rows, used, folders, trash, stored, points, pending, frozen, ctx, lock, ops, bounds>>

\* A bundle may lack some of the packages it names.
AskImport(g, want, carried) ==
    /\ Start(g, Fill("import", "create", None, 0, want, {}, want \intersect carried))
    /\ UNCHANGED <<rows, used, folders, trash, stored, points, pending, frozen, ctx, lock, ops, bounds>>

AskFinishCopy(g, id) ==
    /\ rows[id] # None /\ pending[id] # None
    /\ Start(g, Fill("copy", "begin", id, 0, pending[id].mods, pending[id].off,
                     pending[id].mods \intersect stored))
    /\ UNCHANGED <<rows, used, folders, trash, stored, points, pending, frozen, ctx, lock, ops, bounds>>

AskInstall(g, id, x) ==
    /\ rows[id] # None /\ x \notin ModsOf(id)
    /\ Start(g, Fill("install", "begin", id, 0, {x}, {}, {x}))
    /\ UNCHANGED <<rows, used, folders, trash, stored, points, pending, frozen, ctx, lock, ops, bounds>>

\* The old id when it is free, with the revision after the old one; any other
\* new profile has a new id.
CreateProfile(g) ==
    /\ At(g, "fill", "create")
    /\ LET j == job[g]
           same == j.why = "back" /\ rows[j.id] = None IN
       \E id \in IF same THEN {j.id} ELSE Ids \ used :
          /\ rows' = [rows EXCEPT ![id] = NewRow(IF same THEN j.rev + 1 ELSE 1)]
          /\ used' = used \union {id}
          /\ job' = [job EXCEPT ![g].id = id,
                                ![g].at = CASE j.why = "back" -> "clear"
                                            [] j.why = "copy" -> "note"
                                            [] OTHER -> "begin"]
    /\ UNCHANGED <<folders, trash, stored, points, pending, frozen, ctx, lock, ops, jobs, bounds>>

\* The freeze and the unfinished copy recorded under the id are dropped; what
\* can be installed from is looked up after that.
ClearOldState(g) ==
    /\ At(g, "fill", "clear")
    /\ frozen' = frozen \ {job[g].id}
    /\ pending' = [pending EXCEPT ![job[g].id] = None]
    /\ job' = [job EXCEPT ![g].at = "begin", ![g].have = job[g].want \intersect stored]
    /\ UNCHANGED <<rows, used, folders, trash, stored, points, ctx, lock, ops, jobs, bounds>>

NotePendingCopy(g) ==
    /\ At(g, "fill", "note")
    /\ pending' = [pending EXCEPT ![job[g].id] = [mods |-> job[g].want, off |-> job[g].off]]
    /\ Goto(g, "begin")
    /\ UNCHANGED <<rows, used, folders, trash, stored, points, frozen, ctx, lock, ops, jobs, bounds>>

\* What the profile already has is not installed twice; what it lacks and is
\* not at hand is reported.
BeginFill(g) ==
    /\ At(g, "fill", "begin")
    /\ LET j == job[g]
           present == ModsOf(j.id) IN
       job' = [job EXCEPT ![g].todo = j.have \ present,
                          ![g].failed = j.want \ (j.have \union present),
                          ![g].at = "next",
                          ![g].seen = IF rows[j.id] = None THEN 0 ELSE rows[j.id].rev]
    /\ UNCHANGED <<rows, used, folders, trash, stored, points, pending, frozen, ctx, lock, ops, jobs, bounds>>

Changeable(id) == rows[id] # None /\ rows[id].state = "active"

\* A bundle and a file the user chose lie outside the store.
AtHand(j, x) == j.why \in {"import", "install"} \/ x \in stored

\* prepare_install takes no lock: the package is kept in the store and
\* staged ...
Prepare(g, x) ==
    /\ At(g, "fill", "next")
    /\ x \in job[g].todo
    /\ LET j == job[g]
           ready == Changeable(j.id) /\ j.id \notin frozen /\ AtHand(j, x) IN
       /\ stored' = IF ready THEN stored \union {x} ELSE stored
       /\ job' = [job EXCEPT ![g].todo = @ \ {x},
                             ![g].failed = IF ready THEN @ ELSE @ \union {x},
                             ![g].hand = IF ready THEN x ELSE None,
                             ![g].rev = IF ready THEN rows[j.id].rev ELSE @,
                             ![g].at = IF ready THEN "journal" ELSE "next"]
    /\ UNCHANGED <<rows, used, folders, trash, points, pending, frozen, ctx, lock, ops, jobs, bounds>>

\* ... before the preview is in the journal.
Journal(g) ==
    /\ At(g, "fill", "journal")
    /\ ops' = ops \union {[by |-> g, id |-> job[g].id, package |-> job[g].hand]}
    /\ Goto(g, "commit")
    /\ UNCHANGED <<rows, used, folders, trash, stored, points, pending, frozen, ctx, lock, jobs, bounds>>

InFolder(id, x) == IF folders[id] = None THEN [NewFolder EXCEPT !.mods = {x}]
                   ELSE [folders[id] EXCEPT !.mods = @ \union {x}]

\* Committed under the lock if the profile is still what the preview saw;
\* refused otherwise: a stale preview is put away, one the lock refused is
\* left in the journal.
Commit(g) ==
    /\ At(g, "fill", "commit")
    /\ LET j == job[g]
           x == j.hand
           op == [by |-> g, id |-> j.id, package |-> x]
           fits == Changeable(j.id) /\ rows[j.id].rev = j.rev /\ op \in ops IN
       IF lock = None /\ fits
       THEN /\ j.rev < MaxRevision
            /\ rows' = [rows EXCEPT ![j.id].mods = @ \union {x}, ![j.id].rev = @ + 1]
            /\ folders' = [folders EXCEPT ![j.id] = InFolder(j.id, x)]
            /\ ops' = ops \ {op}
            /\ job' = [job EXCEPT ![g].at = "next", ![g].hand = None, ![g].seen = @ + 1]
       ELSE /\ job' = [job EXCEPT ![g].at = "next", ![g].hand = None, ![g].failed = @ \union {x}]
            /\ ops' = IF lock = None /\ Changeable(j.id) THEN ops \ {op} ELSE ops
            /\ UNCHANGED <<rows, folders>>
    /\ UNCHANGED <<used, trash, stored, points, pending, frozen, ctx, lock, jobs, bounds>>

\* What the list says was off is turned off, one mod after the other.
ToTurnOff(j) == (j.off \intersect ModsOf(j.id)) \ (OffOf(j.id) \union j.failed)

TurnOff(g, x) ==
    /\ At(g, "fill", "next")
    /\ job[g].todo = {} /\ x \in ToTurnOff(job[g])
    /\ LET id == job[g].id IN
       IF lock = None /\ Changeable(id)
       THEN /\ rows[id].rev < MaxRevision
            /\ rows' = [rows EXCEPT ![id].off = @ \union {x}, ![id].rev = @ + 1]
            /\ job' = [job EXCEPT ![g].seen = @ + 1]
       ELSE /\ job' = [job EXCEPT ![g].failed = @ \union {x}]
            /\ UNCHANGED rows
    /\ UNCHANGED <<used, folders, trash, stored, points, pending, frozen, ctx, lock, ops, jobs, bounds>>

\* Last of all: a copy is no longer unfinished; a profile brought back under
\* its old id gets its undo copies back, and its entry is no longer offered.
Settle(g) ==
    /\ At(g, "fill", "next")
    /\ job[g].todo = {} /\ ToTurnOff(job[g]) = {}
    /\ LET j == job[g]
           mine(e) == j.why = "back" /\ e.n = j.from
           moved == UNION {e.folder.undo : e \in {t \in trash : mine(t) /\ t.id = j.id}}
           home == IF folders[j.id] = None THEN NewFolder ELSE folders[j.id] IN
       /\ folders' = IF moved = {} THEN folders
                     ELSE [folders EXCEPT ![j.id] = [home EXCEPT !.undo = @ \union moved]]
       /\ trash' = {IF mine(e)
                    THEN [e EXCEPT !.back = TRUE, !.folder.undo = @ \ moved, !.folder.record = None]
                    ELSE e : e \in trash}
    /\ pending' = IF job[g].why = "copy" THEN [pending EXCEPT ![job[g].id] = None] ELSE pending
    /\ End(g)
    /\ UNCHANGED <<rows, used, stored, points, frozen, ctx, lock, ops, jobs, bounds>>

-----------------------------------------------------------------------------
\* What changes a profile meanwhile: a mod turned on or off, a mod removed
\* (its folder becomes the removal's undo copy).

Toggle(g, id, x) ==
    /\ MayStart(g)
    /\ lock = None /\ Changeable(id) /\ x \in ModsOf(id) /\ rows[id].rev < MaxRevision
    /\ rows' = [rows EXCEPT ![id].off = IF x \in @ THEN @ \ {x} ELSE @ \union {x}, ![id].rev = @ + 1]
    /\ jobs' = jobs + 1
    /\ UNCHANGED <<used, folders, trash, stored, points, pending, frozen, ctx, lock, ops, job, bounds>>

RemoveMod(g, id, x) ==
    /\ MayStart(g)
    /\ lock = None /\ Changeable(id) /\ id \notin frozen
    /\ x \in ModsOf(id) /\ folders[id] # None /\ x \in folders[id].mods
    /\ rows[id].rev < MaxRevision
    /\ rows' = [rows EXCEPT ![id].mods = @ \ {x}, ![id].off = @ \ {x}, ![id].rev = @ + 1]
    /\ folders' = [folders EXCEPT ![id].mods = @ \ {x}, ![id].undo = @ \union {x}]
    /\ jobs' = jobs + 1
    /\ UNCHANGED <<used, trash, stored, points, pending, frozen, ctx, lock, ops, job, bounds>>

-----------------------------------------------------------------------------
\* Storage cleanup.

\* What still needs a package: profiles that deploy it, the restore points of
\* profiles that exist or can be brought back, the records of those, and the
\* undo copies in the profiles' own folders.
RecoveryUsers(id) == points[id]
UndoUsers == UNION {folders[id].undo : id \in {i \in Ids : folders[i] # None}}
ProfileUsers == UNION {ModsOf(id) \union RecoveryUsers(id) : id \in {i \in Ids : rows[i] # None}}
DeletedUsers == UNION {e.folder.record.mods \union RecoveryUsers(e.id) : e \in {t \in trash : Offered(t)}}

\* Mutant: deleted profiles are not asked.
LivingUsers == ProfileUsers \union UndoUsers

PackageUsers == ProfileUsers \union DeletedUsers \union UndoUsers

Items == {[area |-> "package", id |-> None, key |-> x] : x \in stored}
         \union {[area |-> "trash", id |-> None, key |-> e.n] : e \in trash}
         \union UNION {{[area |-> "undo", id |-> i, key |-> x] : x \in folders[i].undo}
                       : i \in {i \in Ids : folders[i] # None}}

Busy == ops # {}
Removable(item, users, busy) ==
    CASE item.area = "package" -> item.key \notin users /\ ~busy
      [] item.area = "trash" -> \E e \in Entries(item.key) : e.old
      [] item.area = "undo" -> ~busy

\* The user ticks items of a preview; the run plans again under the lock.
AskCleanup(g, ticked) ==
    /\ ticked # {}
    /\ \A item \in ticked : Removable(item, PackageUsers, Busy)
    /\ Start(g, [kind |-> "cleanup", at |-> "lock", ticked |-> ticked, users |-> {}])
    /\ UNCHANGED <<rows, used, folders, trash, stored, points, pending, frozen, ctx, lock, ops, bounds>>

LockCleanup(g) == TakeLock(g, "cleanup", "scan")

\* What is there and who needs it; then what is unfinished.
PlanUsers(g) ==
    /\ At(g, "cleanup", "scan")
    /\ job' = [job EXCEPT ![g] = [kind |-> "cleanup", at |-> "plan", users |-> PackageUsers,
                                  ticked |-> job[g].ticked \intersect Items]]
    /\ UNCHANGED <<rows, used, folders, trash, stored, points, pending, frozen, ctx, lock, ops, jobs, bounds>>

PlanItems(g) ==
    /\ At(g, "cleanup", "plan")
    /\ job' = [job EXCEPT ![g].at = "remove",
                          ![g].ticked = {item \in @ : Removable(item, job[g].users, Busy)}]
    /\ UNCHANGED <<rows, used, folders, trash, stored, points, pending, frozen, ctx, lock, ops, jobs, bounds>>

RemoveItem(g, item) ==
    /\ At(g, "cleanup", "remove")
    /\ item \in job[g].ticked
    /\ job' = [job EXCEPT ![g].ticked = @ \ {item}]
    /\ stored' = IF item.area = "package" THEN stored \ {item.key} ELSE stored
    /\ trash' = IF item.area = "trash" THEN trash \ Entries(item.key) ELSE trash
    /\ folders' = IF item.area = "undo" /\ folders[item.id] # None
                  THEN [folders EXCEPT ![item.id].undo = @ \ {item.key}] ELSE folders
    /\ UNCHANGED <<rows, used, points, pending, frozen, ctx, lock, ops, jobs, bounds>>

EndCleanup(g) ==
    /\ At(g, "cleanup", "remove")
    /\ job[g].ticked = {}
    /\ lock' = Free(g) /\ End(g)
    /\ UNCHANGED <<rows, used, folders, trash, stored, points, pending, frozen, ctx, ops, jobs, bounds>>

\* The retention period of a trashed folder runs out.
GrowOld(e) ==
    /\ ~e.old
    /\ trash' = (trash \ {e}) \union {[e EXCEPT !.old = TRUE]}
    /\ UNCHANGED <<rows, used, folders, stored, points, pending, frozen, ctx, lock, ops, job, jobs, bounds>>

-----------------------------------------------------------------------------
\* A program is killed: its command is gone, the operating system drops its
\* lock.  Its previews are put away when it starts again, or by the user.

Crash(g) ==
    /\ job[g] # Idle /\ crashes < MaxCrashes
    /\ crashes' = crashes + 1
    /\ lock' = Free(g) /\ End(g)
    /\ UNCHANGED <<rows, used, folders, trash, stored, points, pending, frozen, ctx, ops, jobs, awake, deleted, faults>>

ExpirePreviews(g) ==
    /\ job[g] = Idle
    /\ \E op \in ops : op.by = g
    /\ ops' = {op \in ops : op.by # g}
    /\ UNCHANGED <<rows, used, folders, trash, stored, points, pending, frozen, ctx, lock, job, jobs, bounds>>

-----------------------------------------------------------------------------
Ask(g) ==
    /\ MayStart(g)
    /\ \/ \E id \in Ids :
             \/ \E to \in {"active", "archived"} : AskState(g, id, to)
             \/ AskDelete(g, id)
             \/ AskCopy(g, id) \/ AskPoint(g, id) \/ AskFinishCopy(g, id)
             \/ \E x \in Packages : AskInstall(g, id, x) \/ Toggle(g, id, x) \/ RemoveMod(g, id, x)
       \/ \E id \in Ids \union {Home}, which \in {"active", "default"} : AskContext(g, id, which)
       \/ \E e \in trash : AskBack(g, e)
       \/ \E want, carried \in SUBSET Packages : carried \subseteq want /\ want # {} /\ AskImport(g, want, carried)
       \/ \E ticked \in SUBSET Items : AskCleanup(g, ticked)

Step(g) ==
    \/ SaveState(g) \/ SaveContext(g)
    \/ LockDelete(g) \/ WriteDeletionRecord(g) \/ MoveToTrash(g) \/ DeleteRows(g) \/ PutFolderBack(g)
    \/ CreateProfile(g) \/ ClearOldState(g) \/ NotePendingCopy(g) \/ BeginFill(g)
    \/ \E x \in Packages : Prepare(g, x) \/ TurnOff(g, x)
    \/ Journal(g) \/ Commit(g) \/ Settle(g)
    \/ LockCleanup(g) \/ PlanUsers(g) \/ PlanItems(g) \/ EndCleanup(g)
    \/ \E item \in Items : RemoveItem(g, item)
    \/ ExpirePreviews(g) \/ Crash(g)

LibraryNext == (\E g \in Programs : Ask(g) \/ Step(g)) \/ \E e \in trash : GrowOld(e)

\* One profile, active or archived; some of its mods were removed and can be
\* put back; its package files are kept.
LibraryInit ==
    \E id \in Ids, state \in {"active", "archived"}, gone \in SUBSET Packages, listed \in SUBSET Packages, cold \in BOOLEAN :
       \E off \in SUBSET (Packages \ gone) :
       /\ rows = [i \in Ids |-> IF i = id
                   THEN [state |-> state, rev |-> 1 + Cardinality(gone), mods |-> Packages \ gone, off |-> off]
                   ELSE None]
       /\ used = {id}
       /\ folders = [i \in Ids |-> IF i = id THEN [NewFolder EXCEPT !.mods = Packages \ gone, !.undo = gone] ELSE None]
       /\ points = [i \in Ids |-> IF i = id THEN listed ELSE {}]
       /\ frozen = IF cold THEN {id} ELSE {}
       /\ trash = {} /\ stored = Packages
       /\ pending = [i \in Ids |-> None]
       /\ ctx = [active |-> Home, default |-> Home]
       /\ lock = None /\ ops = {}
       /\ job = [g \in Programs |-> Idle]
       /\ awake \in (SUBSET Programs) \ {{}}
       /\ jobs \in 0..MaxJobs /\ deleted = 0 /\ crashes = 0 /\ faults = 0

LibrarySpec == LibraryInit /\ [][LibraryNext]_libraryVars

-----------------------------------------------------------------------------
Rows == [state : {"active", "archived"}, rev : 1..MaxRevision, mods : SUBSET Packages, off : SUBSET Packages]
DeletionRecords == [mods : SUBSET Packages, off : SUBSET Packages, rev : 1..MaxRevision]
FolderStates == [mods : SUBSET Packages, undo : SUBSET Packages, record : DeletionRecords \union {None}]
Copies == [mods : SUBSET Packages, off : SUBSET Packages]

\* Every part keeps its shape: a row turns off only mods it has, only ids
\* given out have rows, and the lock's holder is at work.
LibraryTypeOK ==
    /\ rows \in [Ids -> Rows \union {None}]
    /\ \A id \in Ids : rows[id] # None => id \in used /\ rows[id].off \subseteq rows[id].mods
    /\ folders \in [Ids -> FolderStates \union {None}]
    /\ \A e \in trash : e.id \in used /\ e.folder \in FolderStates /\ e.n \in 1..MaxTrash
    /\ stored \subseteq Packages /\ frozen \subseteq Ids
    /\ points \in [Ids -> SUBSET Packages]
    /\ pending \in [Ids -> Copies \union {None}]
    /\ ctx \in [{"active", "default"} -> Ids \union {None, Home}]
    /\ lock # None => lock \in Programs /\ job[lock] # Idle
    /\ \A op \in ops : op.by \in Programs /\ op.id \in Ids /\ op.package \in Packages

\* A package is removed only when nothing needs it at that moment: no profile
\* deploys it, no restore point of a profile that exists or can be brought
\* back lists it, no deleted profile that can be brought back was built from
\* it, no removal in a profile's folder could be undone with it. The plan is
\* made before the removals, and other programs go on meanwhile.
RemovesOnlyUnused ==
    [][\A x \in stored \ stored' :
          /\ \A id \in Ids : rows[id] # None => x \notin rows[id].mods \union points[id]
          /\ \A e \in trash : Offered(e) => x \notin e.folder.record.mods \union points[e.id]
          /\ \A id \in Ids : folders[id] # None => x \notin folders[id].undo]_libraryVars

\* A filled profile is what was asked for: each mod is there, and off when it
\* was to be off, or it is reported - unless another program changed the
\* profile in between, which its revision tells. A profile brought back under
\* its old id carries on after the old revision and is neither frozen nor
\* listed as an unfinished copy.
Finishes(g) == At(g, "fill", "next") /\ job'[g] = Idle /\ crashes' = crashes
Filled(j) ==
    rows[j.id] # None /\ rows[j.id].rev = j.seen =>
       /\ j.want \subseteq rows[j.id].mods \union j.failed
       /\ j.off \subseteq rows[j.id].off \union j.failed
CarriesOn(j) ==
    \A e \in Entries(j.from) :
       e.id = j.id /\ rows[j.id] # None =>
          /\ e.folder.record # None => rows[j.id].rev > e.folder.record.rev
          /\ j.id \notin frozen /\ pending[j.id] = None

FilledAsAsked ==
    [][\A g \in Programs : Finishes(g) => Filled(job[g]) /\ (job[g].why = "back" => CarriesOn(job[g]))]_libraryVars

\* While one program is open, whenever it is killed: a copy with some of its
\* mods is complete (the rest was reported) or listed as unfinished, so that
\* the next start can offer to finish it.
UnfinishedIsListed ==
    \A g \in Programs :
       awake = {g} /\ job[g].kind = "fill" /\ job[g].why = "copy" /\ job[g].at = "next" =>
          \/ pending[job[g].id] # None
          \/ ModsOf(job[g].id) = {}
          \/ job[g].want \subseteq ModsOf(job[g].id) \union job[g].failed

\* Without a crash, and with at most one write refused, the files follow the
\* rows: whatever a profile is said to have lies in its folder, except while
\* its deletion is at work; and what a deleted profile is said to hold lies
\* in its trashed folder.
BeingDeleted(id) == \E g \in Programs : job[g].kind = "delete" /\ job[g].id = id /\ job[g].at \in {"rows", "back"}
FilesFollowRows ==
    crashes = 0 /\ faults < 2 =>
       /\ \A id \in Ids :
             rows[id] # None /\ rows[id].mods # {} /\ ~BeingDeleted(id) =>
                folders[id] # None /\ rows[id].mods \subseteq folders[id].mods
       /\ \A e \in trash : Offered(e) => e.folder.record.mods = e.folder.mods

\* Profiles, live, copied, deleted and brought back, keep their rows, files and
\* packages together, whatever other programs and a cleanup do meanwhile.
ProfilesAreKept ==
    [](LibraryTypeOK /\ UnfinishedIsListed /\ FilesFollowRows)
    /\ RemovesOnlyUnused /\ FilledAsAsked
=============================================================================
