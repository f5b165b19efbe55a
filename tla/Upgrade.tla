------------------------------ MODULE Upgrade ------------------------------
(* Opening a database written by an older release: the numbered migrations,  *)
(* each behind the version it adds, the change of identifiers together with  *)
(* the profile folders that carry them, the merging of package components,   *)
(* and the changes an older release left unfinished, which the restart       *)
(* recovery then settles with a reconciler of their own.                     *)
(*                                                                           *)
(* Migrations run when the database is opened, before any lock: two programs *)
(* may run them at once.  Each acts on the version it read at its start.     *)
EXTENDS Naturals, FiniteSets

CONSTANTS
  Programs,        \* the programs that open the database
  Profiles,        \* the profiles written under an old identifier
  Components,      \* what a package contains, by identity
  OldRows,         \* [Components -> the sets of rows that may describe it]
  Users,           \* [mods of profiles -> the component each one uses]
  Canonical,       \* [Components -> the row identifier derived from it]
  Latest,          \* the newest version
  MaxStops         \* crashes, and moves the system refuses

Ids == 5           \* the migration that changes identifiers
Identity == 6      \* ... that merges component rows
Operations == 7    \* ... that makes old changes recoverable
Forget == 10       \* ... that forgets removed deployments
NoRow == "no row"
Deployments == {"none", "present", "quarantined"}

(* A row identifies one component; the derived identifiers are hashes of what *)
(* they identify, so that none is given twice or was an older one.            *)
ASSUME UpgradeAssumption ==
  /\ Latest \in Nat /\ Latest >= Forget /\ MaxStops \in Nat
  /\ OldRows \in [Components -> SUBSET SUBSET Nat]
  /\ \A c, d \in Components :
       c # d => Canonical[c] # Canonical[d] /\ (UNION OldRows[c]) \cap (UNION OldRows[d]) = {}
  /\ \A u \in DOMAIN Users : Users[u] \in Components
  /\ Canonical \in [Components -> Nat]
  /\ \A c, d \in Components : Canonical[c] \notin UNION OldRows[d]

Places == {"old", "new"}

VARIABLES
  version,   \* the largest row of schema_migrations
  at,        \* [Programs -> what the program runs, and what it read]
  rowIds,    \* "old" until the rows are rewritten
  journal,   \* [Profiles -> "none", "noted", "moved"]: legacy_id_migrations
  folders,   \* [Profiles -> the names its folder exists under]
  table,     \* the identifiers in package_components, with their component
  uses,      \* [users -> the row its profile component refers to]
  op,        \* the change the older release left behind
  copies,    \* where the mod's folder is: live, and kept under both names
  rows,      \* the database's side of it
  stops

schema == <<version, at, rowIds, journal, folders, table, uses>>
evidence == <<op, copies, rows>>
upgradeVars == <<version, at, rowIds, journal, folders, table, uses, op, copies, rows, stops>>

Down == [step |-> 0, part |-> "down", todo |-> {}]
Started(n) == [step |-> n, part |-> "start", todo |-> {}]
Working(p) == at[p].part \notin {"down", "failed", "up", "unused"}
Step(p, n) == at[p] = Started(n)

(* was: the state the older release left it in.                               *)
NoOp == [kind |-> "none", was |-> "none", state |-> "none", code |-> "none", plan |-> "whole", owned |-> FALSE]

(* What the older release may have left: an install that published its folder *)
(* or not, a removal that moved the folder, and perhaps saved it, or not.     *)
LeftBehind ==
  {<<NoOp, [live |-> FALSE, old |-> FALSE, new |-> FALSE], [mod |-> FALSE, deployment |-> "none"]>>}
  \union {<<[NoOp EXCEPT !.kind = "install", !.state = s, !.was = s, !.plan = pl],
            [live |-> l, old |-> FALSE, new |-> FALSE], [mod |-> FALSE, deployment |-> "none"]>> :
              s \in {"running", "failed"}, pl \in {"whole", "bare", "unknown profile"}, l \in BOOLEAN}
  \union {<<[NoOp EXCEPT !.kind = "removal", !.state = s, !.was = s, !.plan = pl],
            [live |-> l, old |-> k, new |-> FALSE], [mod |-> m, deployment |-> d]>> :
              s \in {"running", "completed"}, pl \in {"whole", "bare", "unknown profile"},
              l \in BOOLEAN, k \in BOOLEAN, m \in BOOLEAN, d \in Deployments}

(* The row of a mod has a deployment; a completed removal saved its end; only *)
(* a moved folder can have been saved as removed.                             *)
Believable(o, c, r) ==
  /\ r.mod => r.deployment = "present"
  /\ o.kind = "removal" => (~r.mod => ~c.live)
  /\ o.state = "completed" => ~r.mod /\ r.deployment # "present" /\ c.old

UpgradeInit ==
  /\ version \in {2, 4}
  /\ at \in [Programs -> {Down, [Down EXCEPT !.part = "unused"]}]
  /\ rowIds = "old"
  /\ journal = [p \in Profiles |-> "none"]
  /\ folders \in [Profiles -> {{}, {"old"}, {"old", "new"}}]
  /\ \E rs \in [Components -> UNION {OldRows[c] : c \in Components}] :
       /\ \A c \in Components : rs[c] \in OldRows[c]
       /\ table = UNION {{<<r, c>> : r \in rs[c]} : c \in Components}
       /\ uses \in [DOMAIN Users -> UNION {rs[c] : c \in Components}]
       /\ \A u \in DOMAIN Users : uses[u] \in rs[Users[u]]
  /\ \E left \in LeftBehind :
       /\ Believable(left[1], left[2], left[3])
       /\ op = left[1] /\ copies = left[2] /\ rows = left[3]
  /\ stops = 0

----------------------------------------------------------------------------
(* One migration after the other *)

Go(p, n) == at' = [at EXCEPT ![p] = IF n > Latest THEN [Down EXCEPT !.part = "up"] ELSE Started(n)]
Part(p, s, todo) == at' = [at EXCEPT ![p] = [step |-> @.step, part |-> s, todo |-> todo]]
Fails(p) == at' = [at EXCEPT ![p] = [Down EXCEPT !.part = "failed"]]

(* Opening: what is newer than the version read now is what this run does.    *)
Open(p) ==
  /\ at[p] \in {Down, [Down EXCEPT !.part = "failed"]}
  /\ Go(p, version + 1)
  /\ UNCHANGED <<version, rowIds, journal, folders, table, uses, evidence, stops>>

(* A batch is one transaction with the row of its version: a program that     *)
(* finds the row there already has lost the race and cannot start.            *)
Applied(p, n) ==
  IF n <= version THEN Fails(p) /\ UNCHANGED version
  ELSE version' = n /\ Go(p, n + 1)

Batch(p) ==
  /\ \E n \in 1..Latest \ {Ids, Identity, Operations} :
       /\ Step(p, n)
       /\ Applied(p, n)
       /\ rows' = IF n = Forget /\ version < n /\ ~rows.mod /\ rows.deployment = "quarantined"
                  THEN [rows EXCEPT !.deployment = "none"] ELSE rows
  /\ UNCHANGED <<rowIds, journal, folders, table, uses, op, copies, stops>>

----------------------------------------------------------------------------
(* 5: identifiers, and the folders named after them *)

JournalLegacyIds(p) ==
  /\ Step(p, Ids)
  /\ journal' = [r \in Profiles |-> IF journal[r] = "none" /\ rowIds = "old" THEN "noted" ELSE journal[r]]
  /\ Part(p, "folders", {r \in Profiles : journal'[r] = "noted"})
  /\ UNCHANGED <<version, rowIds, folders, table, uses, evidence, stops>>

(* A folder under both names stops the start: nothing is guessed.             *)
MoveFolder(p) ==
  /\ at[p].part = "folders"
  /\ \E r \in at[p].todo :
       /\ IF folders[r] = Places THEN Fails(p) /\ UNCHANGED folders
          ELSE /\ folders' = [folders EXCEPT ![r] = IF "old" \in @ THEN {"new"} ELSE @]
               /\ Part(p, "mark", {r})
  /\ UNCHANGED <<version, rowIds, journal, table, uses, evidence, stops>>

MarkMoved(p) ==
  /\ at[p].part = "mark"
  /\ journal' = [r \in Profiles |-> IF r \in at[p].todo THEN "moved" ELSE journal[r]]
  /\ Part(p, "folders", {r \in Profiles : journal'[r] = "noted"})
  /\ UNCHANGED <<version, rowIds, folders, table, uses, evidence, stops>>

(* Every identifier, its references and the version: one transaction.         *)
RewriteLegacyIds(p) ==
  /\ at[p].part = "folders" /\ at[p].todo = {}
  /\ Applied(p, Ids)
  /\ rowIds' = IF version < Ids THEN "new" ELSE rowIds
  /\ UNCHANGED <<journal, folders, table, uses, evidence, stops>>

----------------------------------------------------------------------------
(* 6: one row for each component *)

Described(rs, c) == {r \in rs : r[2] = c}
RowOf(id) == {r \in table : r[1] = id}

(* What is merged is what was read before the transaction.                    *)
ReadComponents(p) ==
  /\ Step(p, Identity)
  /\ Part(p, "merge", table)
  /\ UNCHANGED <<version, rowIds, journal, folders, table, uses, evidence, stops>>

Survivor(read, c) == CHOOSE r \in Described(read, c) : \A s \in Described(read, c) : r[1] <= s[1]

Moved(read) ==
  [u \in DOMAIN Users |-> IF \E r \in read : r[1] = uses[u]
                          THEN Canonical[(CHOOSE r \in read : r[1] = uses[u])[2]] ELSE uses[u]]
Renamed(read) ==
  {LET c == r[2] IN IF r \in read /\ r = Survivor(read, c) THEN <<Canonical[c], c>> ELSE r :
     r \in {r \in table : r \in read => r = Survivor(read, r[2])}}

(* A reference to a row deleted while it still stood goes with the row.       *)
Cascade(new, kept) == [u \in DOMAIN Users |-> IF \E r \in kept : r[1] = new[u] THEN new[u] ELSE NoRow]

MergeComponents(p) ==
  /\ at[p].part = "merge"
  /\ table' = Renamed(at[p].todo)
  /\ uses' = Cascade(Moved(at[p].todo), table')
  /\ Part(p, "index", {})
  /\ UNCHANGED <<version, rowIds, journal, folders, evidence, stops>>

OnePerIdentity == \A r, s \in table : r[2] = s[2] => r = s

IndexComponents(p) ==
  /\ at[p].part = "index"
  /\ IF OnePerIdentity THEN Applied(p, Identity) ELSE Fails(p) /\ UNCHANGED version
  /\ UNCHANGED <<rowIds, journal, folders, table, uses, evidence, stops>>

----------------------------------------------------------------------------
(* 7: what the older release left unfinished *)

ToReconcile == "requires reconciliation"
Old == {"running", "completed", "failed", "recovery"}

Resolved == op.plan # "unknown profile"

(* The rows are read first, then rewritten one by one; a removal's kept       *)
(* folder moves to the new name in between.                                   *)
ReadLegacyOperations(p) ==
  /\ Step(p, Operations)
  /\ Part(p, IF op.kind # "none" /\ ~op.owned /\ op.state \in Old THEN "kept" ELSE "version", {op.state})
  /\ UNCHANGED <<version, rowIds, journal, folders, table, uses, evidence, stops>>

NormalizeRemovalPlan(p) ==
  /\ at[p].part = "kept"
  /\ IF op.kind = "removal" /\ op.plan = "whole" /\ copies.old
     THEN IF copies.new THEN Fails(p) /\ UNCHANGED copies
          ELSE copies' = [copies EXCEPT !.old = FALSE, !.new = TRUE] /\ Part(p, "rewrite", at[p].todo)
     ELSE Part(p, "rewrite", at[p].todo) /\ UNCHANGED copies
  /\ UNCHANGED <<version, rowIds, journal, folders, table, uses, op, rows, stops>>

\* Mutant: a state the new release does not know is taken for its end.
TargetDecoded(s) == IF s = "completed" THEN "succeeded" ELSE IF s = "recovery" THEN s ELSE "failed"

TargetState(s) == CASE s = "completed" -> "succeeded" [] s = "failed" -> "failed" [] OTHER -> "recovery"

MigrateOperation(p) ==
  /\ at[p].part = "rewrite"
  /\ op' = [op EXCEPT !.state = TargetState(CHOOSE s \in at[p].todo : TRUE),
                      !.code = IF @ = "none" THEN ToReconcile ELSE @, !.owned = Resolved]
  /\ Part(p, "version", {})
  /\ UNCHANGED <<version, rowIds, journal, folders, table, uses, copies, rows, stops>>

OperationsDone(p) ==
  /\ at[p].part = "version"
  /\ Applied(p, Operations)
  /\ UNCHANGED <<rowIds, journal, folders, table, uses, evidence, stops>>

(* A crash, or a folder the system would not move: the next start reads the   *)
(* version again.                                                             *)
Interrupt(p) ==
  /\ Working(p) \/ at[p].part = "up"
  /\ stops < MaxStops
  /\ stops' = stops + 1
  /\ at' = [at EXCEPT ![p] = Down]
  /\ UNCHANGED <<version, rowIds, journal, folders, table, uses, evidence>>

----------------------------------------------------------------------------
(* Recovery of such a change, in a program that has started *)

Recovering == (\E p \in Programs : at[p].part = "up") /\ op.kind # "none"
Settle(s, c) == op' = [op EXCEPT !.state = s, !.code = c]
(* Kept for a person to look at: the state, and the reason over the old one.  *)
Retain(c) == Settle("recovery", c)
ByProvenance == Recovering /\ op.code = ToReconcile /\ op.state = "recovery" /\ op.owned /\ op.plan = "whole"

QuarantineInstall ==
  /\ ByProvenance /\ op.kind = "install"
  /\ copies.live
  /\ \/ copies' = [copies EXCEPT !.live = FALSE, !.new = TRUE] /\ UNCHANGED <<op, stops>>
     \/ /\ stops < MaxStops /\ stops' = stops + 1
        /\ Retain("not reconciled") /\ UNCHANGED copies
  /\ UNCHANGED <<schema, rows>>

FailInstall ==
  /\ ByProvenance /\ op.kind = "install"
  /\ ~copies.live
  /\ Settle("failed", "install reconciled")
  /\ UNCHANGED <<schema, copies, rows, stops>>

(* A removal is read off the folders first; the database decides the rest.    *)
ReconcileRemoval ==
  /\ ByProvenance /\ op.kind = "removal"
  /\ CASE copies.live /\ copies.new -> Retain("conflict")
       [] copies.live /\ ~copies.new -> Settle("failed", "not published")
       [] ~copies.live /\ ~copies.new -> Retain("evidence missing")
       [] OTHER -> IF rows.mod THEN Settle("committing", "committing")
                   ELSE IF rows.deployment = "present" THEN Retain("database unreconciled")
                   ELSE Settle("succeeded", "already committed")
  /\ UNCHANGED <<schema, copies, rows, stops>>

CommitRemoval ==
  /\ Recovering /\ op.kind = "removal"
  /\ op.state = "committing" /\ op.code = "committing"
  /\ \/ /\ rows' = [mod |-> FALSE, deployment |-> "none"]
        /\ Settle("succeeded", "removal reconciled")
        /\ UNCHANGED stops
     \/ /\ stops < MaxStops /\ stops' = stops + 1
        /\ Retain("commit refused") /\ UNCHANGED rows
  /\ UNCHANGED <<schema, copies>>

(* Every other reason, and a change met while committing, is read as a change *)
(* of plan v1.                                                                *)
AsPlanV1 == Recovering /\ op.code # ToReconcile /\ op.owned /\ op.plan = "whole"

PreserveV1 ==
  /\ AsPlanV1 /\ op.state = "committing"
  /\ Settle("recovery", "reconciliation required")
  /\ UNCHANGED <<schema, copies, rows, stops>>

ReconcileV1 ==
  /\ AsPlanV1 /\ op.state = "recovery"
  /\ IF op.kind = "install"
     THEN copies' = [copies EXCEPT !.live = FALSE, !.new = @ \/ copies.live]
     ELSE /\ copies.live \/ copies.new
          /\ copies' = [copies EXCEPT !.live = TRUE, !.new = FALSE]
  /\ Settle("failed", "recovered")
  /\ UNCHANGED <<schema, rows, stops>>

MarkHandled ==
  /\ Recovering /\ op.state = "recovery"
  /\ Settle("failed", "handled")
  /\ UNCHANGED <<schema, copies, rows, stops>>

UpgradeNext ==
  \/ \E p \in Programs :
       \/ Open(p) \/ Batch(p) \/ JournalLegacyIds(p) \/ MoveFolder(p) \/ MarkMoved(p) \/ RewriteLegacyIds(p)
       \/ ReadComponents(p) \/ MergeComponents(p) \/ IndexComponents(p)
       \/ ReadLegacyOperations(p) \/ NormalizeRemovalPlan(p) \/ MigrateOperation(p) \/ OperationsDone(p)
       \/ Interrupt(p)
  \/ QuarantineInstall \/ FailInstall \/ ReconcileRemoval \/ CommitRemoval
  \/ PreserveV1 \/ ReconcileV1 \/ MarkHandled

UpgradeSpec == UpgradeInit /\ [][UpgradeNext]_upgradeVars

----------------------------------------------------------------------------
(* The types of the variables.                                               *)
UpgradeTypeOK ==
  /\ version \in 0..Latest
  /\ \A p \in Programs : at[p].step \in 0..Latest
  /\ rowIds \in Places
  /\ journal \in [Profiles -> {"none", "noted", "moved"}]
  /\ folders \in [Profiles -> SUBSET Places]
  /\ copies \in [live : BOOLEAN, old : BOOLEAN, new : BOOLEAN]
  /\ rows \in [mod : BOOLEAN, deployment : Deployments]
  /\ stops \in 0..MaxStops

(* However often the upgrade is interrupted and whoever runs it, a profile's  *)
(* folder is never left under an identifier no row uses: rows get their new   *)
(* identifiers only after every folder has its new name, and a folder already *)
(* moved is on record (migrations.rs:585-592).                                *)
NothingStranded == rowIds = "new" => \A r \in Profiles : "old" \notin folders[r]

(* Merging the rows of a component leaves every mod of every profile with the *)
(* component it was installed from, although deleting a row deletes what      *)
(* refers to it (migrations.rs:444-446).                                      *)
UsersKeepTheirs == \A u \in DOMAIN Users : <<uses[u], Users[u]>> \in table

(* A change the older release had not finished is never taken for finished or *)
(* forgotten by the upgrade, wherever it is interrupted: it waits to be       *)
(* settled, and the folder its removal set aside is where the recovery will   *)
(* look for it (migrations.rs:150-155).                                       *)
UnfinishedIsOpen ==
  version >= Operations /\ op.was = "running" /\ op.code = ToReconcile =>
    /\ op.state = "recovery"
    /\ op.owned /\ op.plan = "whole" => ~copies.old

(* What recovery says of a change of the older release is true of both the    *)
(* folders and the rows: an install that failed is not live, a removal that   *)
(* succeeded has neither folder nor rows, one that failed has its folder back *)
(* (operation_compatibility.rs:46-48, 95).                                    *)
SettledIsTrue ==
  op.owned /\ op.plan = "whole" /\ op.code \notin {"none", ToReconcile, "handled"} =>
    /\ op.kind = "install" /\ op.state = "failed" => ~copies.live
    /\ op.kind = "removal" /\ op.state = "succeeded" => ~copies.live /\ ~rows.mod
    /\ op.kind = "removal" /\ op.state = "failed" => copies.live /\ rows.deployment = "present"

(* The upgrade of an older release's data, interrupted anywhere, leaves every *)
(* folder, row and unfinished change where the new release finds it.          *)
UpgradeIsSafe ==
    UpgradeTypeOK /\ NothingStranded /\ UsersKeepTheirs /\ UnfinishedIsOpen /\ SettledIsTrue
=============================================================================
