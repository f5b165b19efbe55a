------------------------------ MODULE UpgradeProofs ------------------------------
(***************************************************************************)
(* Proofs about the upgrade of an older release's data, for any number of  *)
(* profiles, components, users of them and interruptions.                  *)
(*                                                                         *)
(* With any number of programs running the migrations at once no folder is *)
(* left under an identifier no row uses, every mod keeps its component,    *)
(* and an unfinished change waits for the recovery.  UpgradeInv is the     *)
(* inductive invariant: what a program that has read the old rows may      *)
(* still do to the new ones (ComponentsSound), to the folders              *)
(* (FoldersSound) and to the change (ChangeSound).  That what recovery     *)
(* says of the change is true takes one program (Alone): a second one, at  *)
(* the migration still when the first has recovered, would open the change *)
(* again.  RecoveryInv adds what recovery has found out (RemovalSound).    *)
(*                                                                         *)
(* And about the adoption of a Mods folder (ModsFolder), for any folders   *)
(* and edits.  AdoptionInv says that the review and the adoption are each  *)
(* of one state of the folder, the two alike in names and sizes, and that  *)
(* what was installed is what was there as long as nothing was edited.     *)
(***************************************************************************)
EXTENDS Upgrade, ModsFolder, SequenceTheorems, WellFoundedInduction, TLAPS

States == {"none", "running", "completed", "failed", "recovery", "succeeded", "committing"}
Stages == {"start", "folders", "mark", "merge", "index", "kept", "rewrite", "version"}
Todos == (SUBSET Profiles) \cup (SUBSET (Nat \X Components)) \cup (SUBSET States)
Runs == [step : 0 .. Latest, part : Stages \cup {"down", "failed", "up", "unused"}, todo : Todos]
Codes == {"none", ToReconcile, "not reconciled", "install reconciled", "conflict", "not published",
          "evidence missing", "committing", "database unreconciled", "already committed",
          "removal reconciled", "commit refused", "reconciliation required", "recovered", "handled"}
Ops == [kind : {"none", "install", "removal"}, was : {"none", "running", "failed", "completed"},
        state : States, code : Codes, plan : {"whole", "bare", "unknown profile"}, owned : BOOLEAN]

\* What each variable may hold.
UpgradeTypes ==
    /\ UpgradeTypeOK
    /\ at \in [Programs -> Runs] /\ op \in Ops
    /\ table \in SUBSET (Nat \X Components) /\ uses \in [DOMAIN Users -> Nat \cup {NoRow}]

\* Each program is at most one migration ahead of the version, and runs only
\* when there is none left.
StepsInOrder ==
    \A p \in Programs :
        /\ at[p].part \in Stages => at[p].step \in 1 .. version + 1
        /\ at[p].part \in {"folders", "mark"} => at[p].step = Ids /\ at[p].todo \subseteq Profiles
        /\ at[p].part \in {"merge", "index"} => at[p].step = Identity
        /\ at[p].part \in {"kept", "rewrite", "version"} => at[p].step = Operations
        /\ at[p].part = "up" => version = Latest

\* A folder on record as moved has its new name only, and what a program has
\* not left to move is on record.
FoldersSound ==
    /\ NothingStranded
    /\ \A r \in Profiles : journal[r] = "moved" => "old" \notin folders[r]
    /\ \A p \in Programs :
         /\ at[p].part \in {"folders", "mark"} =>
              rowIds = "new" \/ \A r \in Profiles : journal[r] # "none"
         /\ at[p].part = "folders" =>
              rowIds = "new" \/ \A r \in Profiles \ at[p].todo : journal[r] = "moved"
         /\ at[p].part = "mark" => \A r \in Profiles \cap at[p].todo : "old" \notin folders[r]

\* The rows are all the old ones or all the merged ones, and who merges has
\* read what is there, or the old ones after another has merged them.
OldIds(c) == UNION OldRows[c]
AsOld(rs) == \A r \in rs : r[1] \in OldIds(r[2])
Merged(rs) == \A r \in rs : r[1] = Canonical[r[2]]
ComponentsSound ==
    /\ UsersKeepTheirs
    /\ AsOld(table) \/ Merged(table)
    /\ \A p \in Programs : at[p].part = "merge" =>
         \/ at[p].todo = table
         \/ Merged(table) /\ at[p].todo \in SUBSET (Nat \X Components) /\ AsOld(at[p].todo)

\* An unfinished change is rewritten as one to recover, after its folder has
\* its new name.
ChangeSound ==
    /\ op.kind = "install" => ~copies.old
    /\ op.kind = "none" <=> op.was = "none"
    /\ op.code = "none" => op.state = op.was /\ ~op.owned
    /\ op.owned /\ op.kind = "removal" /\ op.plan = "whole" => ~copies.old
    /\ version < Latest => op.code \in {"none", ToReconcile}
    /\ op.was = "running" /\ op.code = ToReconcile => op.state = "recovery"
    /\ \A p \in Programs : at[p].part \in {"kept", "rewrite"} =>
         /\ op.kind # "none"
         /\ op.was = "running" /\ op.code \in {"none", ToReconcile} =>
              at[p].todo \in {{"running"}, {"recovery"}}
         /\ at[p].part = "rewrite" /\ op.kind = "removal" /\ op.plan = "whole" => ~copies.old

UpgradeInv == UpgradeTypes /\ StepsInOrder /\ FoldersSound /\ ComponentsSound /\ ChangeSound

\* One program meets the change that was left behind, and is never behind the
\* version.
Alone ==
    op.kind = "none" \/ \A p, q \in Programs : at[p].part # "unused" /\ at[q].part # "unused" => p = q
InStep ==
    op.kind # "none" => \A p \in Programs : at[p].part \in Stages => at[p].step = version + 1

\* What recovery has found out so far.
Whole == op.owned /\ op.plan = "whole" /\ op.code \notin {"none", ToReconcile}
RemovalSound ==
    op.kind = "removal" =>
        /\ rows.mod \/ copies.live => rows.deployment = "present"
        /\ op.state = "committing" => rows.mod /\ ~copies.live /\ copies.new
        /\ Whole /\ op.state = "recovery" =>
             rows.deployment = "present" \/ (~copies.live /\ ~copies.new)

RecoveryInv == UpgradeInv /\ Alone /\ InStep /\ RemovalSound /\ SettledIsTrue

Becomes(p, r) == at' = [at EXCEPT ![p] = r]

\* How a program goes on: it stops, has no migration left, begins the next
\* one, or goes on with the one it is at.
GoesOn(p, r) ==
    /\ at[p].part # "unused" /\ r.part # "unused"
    /\ version' \in version .. Latest
    /\ \/ r.part \in {"down", "failed"} /\ version' = version
       \/ r.part = "up" /\ version' = Latest
       \/ r.part = "start" /\ r.step = version' + 1
       \/ /\ r.part \in Stages \ {"start"} /\ at[p].part \in Stages /\ version' = version
          /\ r.step = at[p].step
          /\ r.part \in {"folders", "mark"} => r.step = Ids /\ r.todo \subseteq Profiles
          /\ r.part \in {"merge", "index"} => r.step = Identity
          /\ r.part \in {"kept", "rewrite", "version"} => r.step = Operations

-----------------------------------------------------------------------------
(* Where a program goes *)

LEMMA NoTodo == {} \in Todos
BY DEF Todos

LEMMA Numbers == /\ Latest \in Nat /\ Latest >= 10 /\ MaxStops \in Nat
                 /\ Ids = 5 /\ Identity = 6 /\ Operations = 7 /\ Forget = 10
BY UpgradeAssumption DEF Ids, Identity, Operations, Forget

LEMMA RunIs ==
    ASSUME at \in [Programs -> Runs], NEW p \in Programs
    PROVE  /\ at[p].step \in 0 .. Latest /\ at[p].todo \in Todos
           /\ at[p].part \in Stages \cup {"down", "failed", "up", "unused"}
           /\ at[p] = [step |-> at[p].step, part |-> at[p].part, todo |-> at[p].todo]
BY DEF Runs

\* Failing, going on to the next migration, going on with this one.
LEMMA FailsIs ==
    ASSUME NEW p \in Programs, Fails(p)
    PROVE  \E r \in Runs : Becomes(p, r) /\ r.part = "failed"
<1> DEFINE r == [step |-> 0, part |-> "failed", todo |-> {}]
<1>0. [Down EXCEPT !.part = "failed"] = r
  BY DEF Down
<1>1. Becomes(p, r)
  BY <1>0 DEF Fails, Becomes
<1>2. r \in Runs
  BY NoTodo, Numbers DEF Runs
<1> QED
  BY <1>1, <1>2

LEMMA GoIs ==
    ASSUME NEW p \in Programs, NEW n \in Nat, n >= 1, Go(p, n)
    PROVE  \E r \in Runs : Becomes(p, r) /\ IF n > Latest THEN r.part = "up"
                                           ELSE r.part = "start" /\ r.step = n
<1>1. CASE n > Latest
  <2> DEFINE r == [step |-> 0, part |-> "up", todo |-> {}]
  <2>0. [Down EXCEPT !.part = "up"] = r
    BY DEF Down
  <2>1. Becomes(p, r)
    BY <1>1, <2>0 DEF Go, Becomes
  <2>2. r \in Runs
    BY NoTodo, Numbers DEF Runs
  <2> QED
    BY <1>1, <2>1, <2>2
<1>2. CASE ~(n > Latest)
  <2> DEFINE r == [step |-> n, part |-> "start", todo |-> {}]
  <2>1. Becomes(p, r)
    BY <1>2 DEF Go, Becomes, Started
  <2>2. r \in Runs
    BY <1>2, NoTodo, Numbers DEF Runs, Stages
  <2> QED
    BY <1>2, <2>1, <2>2
<1> QED
  BY <1>1, <1>2

LEMMA PartIs ==
    ASSUME at \in [Programs -> Runs], NEW p \in Programs, NEW s \in Stages, NEW todo \in Todos,
           Part(p, s, todo)
    PROVE  \E r \in Runs : Becomes(p, r) /\ r.part = s /\ r.todo = todo /\ r.step = at[p].step
<1> DEFINE r == [step |-> at[p].step, part |-> s, todo |-> todo]
<1>1. Becomes(p, r)
  BY DEF Part, Becomes
<1>2. r \in Runs
  BY RunIs DEF Runs
<1> QED
  BY <1>1, <1>2

\* Applying a migration: the version is raised by the first who does.
LEMMA AppliedIs ==
    ASSUME UpgradeTypes, NEW p \in Programs, NEW n \in 1 .. Latest, Applied(p, n),
           at[p].part # "unused", n <= version + 1
    PROVE  \E r \in Runs :
              /\ Becomes(p, r) /\ GoesOn(p, r) /\ r.part \in {"failed", "up", "start"}
              /\ n <= version => version' = version
              /\ n > version => version' = n
<1>v. version \in 0 .. Latest /\ n \in Nat /\ version \in Nat
  BY Numbers DEF UpgradeTypes, UpgradeTypeOK
<1>1. CASE n <= version
  <2>1. Fails(p) /\ version' = version
    BY <1>1 DEF Applied
  <2>2. PICK r \in Runs : Becomes(p, r) /\ r.part = "failed"
    BY <2>1, FailsIs
  <2> QED
    BY <1>1, <1>v, <2>1, <2>2, Numbers DEF GoesOn
<1>2. CASE ~(n <= version)
  <2>1. Go(p, n + 1) /\ version' = n
    BY <1>2 DEF Applied
  <2>2. PICK r \in Runs : Becomes(p, r) /\ IF n + 1 > Latest THEN r.part = "up"
                                           ELSE r.part = "start" /\ r.step = n + 1
    BY <1>v, <2>1, GoIs
  <2>3. GoesOn(p, r)
    BY <1>2, <1>v, <2>1, <2>2, Numbers DEF GoesOn
  <2> QED
    BY <1>2, <1>v, <2>1, <2>2, <2>3
<1> QED
  BY <1>1, <1>2

Moves(p, r) == Becomes(p, r) /\ GoesOn(p, r)

\* The program after its move; the others are where they were.
LEMMA AfterMove ==
    ASSUME at \in [Programs -> Runs], NEW p \in Programs, NEW r \in Runs, Becomes(p, r)
    PROVE  /\ at' \in [Programs -> Runs] /\ at'[p] = r
           /\ \A q \in Programs : q # p => at'[q] = at[q]
BY DEF Becomes

LEMMA OpenMoves ==
    ASSUME UpgradeTypes, NEW p \in Programs, Open(p)
    PROVE  \E r \in Runs : Moves(p, r) /\ r.part \in {"up", "start"}
<1>v. version \in 0 .. Latest /\ version \in Nat
  BY Numbers DEF UpgradeTypes, UpgradeTypeOK
<1>1. Go(p, version + 1) /\ version' = version /\ at[p].part # "unused"
  BY DEF Open, Down
<1>2. PICK r \in Runs : Becomes(p, r) /\ IF version + 1 > Latest THEN r.part = "up"
                                         ELSE r.part = "start" /\ r.step = version + 1
  BY <1>1, <1>v, GoIs
<1>3. GoesOn(p, r)
  BY <1>1, <1>2, <1>v, Numbers DEF GoesOn
<1> QED
  BY <1>2, <1>3 DEF Moves

LEMMA BatchMoves ==
    ASSUME UpgradeTypes, StepsInOrder, NEW p \in Programs, Batch(p)
    PROVE  \E r \in Runs : Moves(p, r) /\ r.part \in {"failed", "up", "start"}
<1>1. PICK n \in 1 .. Latest \ {Ids, Identity, Operations} : Step(p, n) /\ Applied(p, n)
  BY DEF Batch
<1>2. at[p].part = "start" /\ at[p].step = n
  BY <1>1 DEF Step, Started
<1>3. n <= version + 1
  BY <1>2 DEF StepsInOrder, Stages
<1>4. PICK r \in Runs : Becomes(p, r) /\ GoesOn(p, r) /\ r.part \in {"failed", "up", "start"}
  BY <1>1, <1>2, <1>3, AppliedIs
<1> QED
  BY <1>4 DEF Moves

\* One that is at the last step of a migration applies it.
LEMMA LastStepMoves ==
    ASSUME UpgradeTypes, StepsInOrder, NEW p \in Programs,
           \/ RewriteLegacyIds(p)
           \/ IndexComponents(p)
           \/ OperationsDone(p)
    PROVE  \E r \in Runs : Moves(p, r) /\ r.part \in {"failed", "up", "start"}
<1>n. Ids \in 1 .. Latest /\ Identity \in 1 .. Latest /\ Operations \in 1 .. Latest
  BY Numbers
<1>1. CASE RewriteLegacyIds(p)
  <2>1. at[p].part = "folders" /\ Applied(p, Ids)
    BY <1>1 DEF RewriteLegacyIds
  <2>2. Ids <= version + 1 /\ at[p].part # "unused"
    BY <2>1 DEF StepsInOrder, Stages
  <2> QED
    BY <1>n, <2>1, <2>2, AppliedIs DEF Moves
<1>2. CASE IndexComponents(p) /\ OnePerIdentity
  <2>1. at[p].part = "index" /\ Applied(p, Identity)
    BY <1>2 DEF IndexComponents
  <2>2. Identity <= version + 1 /\ at[p].part # "unused"
    BY <2>1 DEF StepsInOrder, Stages
  <2> QED
    BY <1>n, <2>1, <2>2, AppliedIs DEF Moves
<1>3. CASE IndexComponents(p) /\ ~OnePerIdentity
  <2>1. Fails(p) /\ version' = version /\ at[p].part # "unused"
    BY <1>3 DEF IndexComponents
  <2>2. PICK r \in Runs : Becomes(p, r) /\ r.part = "failed"
    BY <2>1, FailsIs
  <2> QED
    BY <2>1, <2>2, Numbers DEF Moves, GoesOn, UpgradeTypes, UpgradeTypeOK
<1>4. CASE OperationsDone(p)
  <2>1. at[p].part = "version" /\ Applied(p, Operations)
    BY <1>4 DEF OperationsDone
  <2>2. Operations <= version + 1 /\ at[p].part # "unused"
    BY <2>1 DEF StepsInOrder, Stages
  <2> QED
    BY <1>n, <2>1, <2>2, AppliedIs DEF Moves
<1> QED
  BY <1>1, <1>2, <1>3, <1>4

\* One that goes on with the migration it is at.
LEMMA PartMoves ==
    ASSUME UpgradeTypes, NEW p \in Programs, NEW s \in Stages \ {"start"}, NEW todo \in Todos,
           Part(p, s, todo), version' = version, at[p].part \in Stages,
           s \in {"folders", "mark"} => at[p].step = Ids /\ todo \subseteq Profiles,
           s \in {"merge", "index"} => at[p].step = Identity,
           s \in {"kept", "rewrite", "version"} => at[p].step = Operations
    PROVE  \E r \in Runs : Moves(p, r) /\ r.part = s /\ r.todo = todo
<1>1. PICK r \in Runs : Becomes(p, r) /\ r.part = s /\ r.todo = todo /\ r.step = at[p].step
  BY PartIs DEF UpgradeTypes
<1>2. GoesOn(p, r)
  BY <1>1, Numbers DEF GoesOn, Stages, UpgradeTypes, UpgradeTypeOK
<1> QED
  BY <1>1, <1>2 DEF Moves

LEMMA FailsMoves ==
    ASSUME UpgradeTypes, NEW p \in Programs, Fails(p), version' = version, at[p].part \in Stages
    PROVE  \E r \in Runs : Moves(p, r) /\ r.part = "failed"
<1>1. PICK r \in Runs : Becomes(p, r) /\ r.part = "failed"
  BY FailsIs
<1> QED
  BY <1>1, Numbers DEF Moves, GoesOn, Stages, UpgradeTypes, UpgradeTypeOK

LEMMA StartedAt ==
    ASSUME NEW p \in Programs, NEW n, Step(p, n)
    PROVE  at[p].part = "start" /\ at[p].step = n /\ at[p].part \in Stages
BY DEF Step, Started, Stages

LEMMA JournalMoves ==
    ASSUME UpgradeTypes, NEW p \in Programs, JournalLegacyIds(p)
    PROVE  \E r \in Runs : Moves(p, r) /\ r.part = "folders"
                           /\ r.todo = {f \in Profiles : journal'[f] = "noted"}
<1>1. at[p].part \in Stages /\ at[p].step = Ids /\ version' = version
      /\ Part(p, "folders", {f \in Profiles : journal'[f] = "noted"})
  BY StartedAt DEF JournalLegacyIds
<1>2. {f \in Profiles : journal'[f] = "noted"} \in Todos
  BY DEF Todos
<1> QED
  BY <1>1, <1>2, PartMoves DEF Stages

LEMMA MarkMoves ==
    ASSUME UpgradeTypes, StepsInOrder, NEW p \in Programs, MarkMoved(p)
    PROVE  \E r \in Runs : Moves(p, r) /\ r.part = "folders"
                           /\ r.todo = {f \in Profiles : journal'[f] = "noted"}
<1>1. at[p].part \in Stages /\ at[p].step = Ids /\ version' = version
      /\ Part(p, "folders", {f \in Profiles : journal'[f] = "noted"})
  BY DEF MarkMoved, StepsInOrder, Stages
<1>2. {f \in Profiles : journal'[f] = "noted"} \in Todos
  BY DEF Todos
<1> QED
  BY <1>1, <1>2, PartMoves DEF Stages

LEMMA FolderMoves ==
    ASSUME UpgradeTypes, StepsInOrder, NEW p \in Programs, NEW f \in Profiles, f \in at[p].todo,
           at[p].part = "folders", version' = version,
           IF folders[f] = Places THEN Fails(p) ELSE Part(p, "mark", {f})
    PROVE  \E r \in Runs : Moves(p, r) /\ IF folders[f] = Places THEN r.part = "failed"
                                          ELSE r.part = "mark" /\ r.todo = {f}
<1>1. at[p].part \in Stages /\ at[p].step = Ids
  BY DEF StepsInOrder, Stages
<1>2. CASE folders[f] = Places
  BY <1>1, <1>2, FailsMoves
<1>3. CASE folders[f] # Places
  <2>1. {f} \in Todos
    BY DEF Todos
  <2> QED
    BY <1>1, <1>3, <2>1, PartMoves DEF Stages
<1> QED
  BY <1>2, <1>3

LEMMA ReadMoves ==
    ASSUME UpgradeTypes, NEW p \in Programs, ReadComponents(p)
    PROVE  \E r \in Runs : Moves(p, r) /\ r.part = "merge" /\ r.todo = table
<1>1. at[p].part \in Stages /\ at[p].step = Identity /\ version' = version /\ Part(p, "merge", table)
  BY StartedAt DEF ReadComponents
<1>2. table \in Todos
  <2>1. table \in SUBSET (Nat \X Components)
    BY DEF UpgradeTypes
  <2> QED
    BY <2>1 DEF Todos
<1> QED
  BY <1>1, <1>2, PartMoves DEF Stages

LEMMA MergeMoves ==
    ASSUME UpgradeTypes, StepsInOrder, NEW p \in Programs, MergeComponents(p)
    PROVE  \E r \in Runs : Moves(p, r) /\ r.part = "index"
<1>1. at[p].part \in Stages /\ at[p].step = Identity /\ version' = version /\ Part(p, "index", {})
  BY DEF MergeComponents, StepsInOrder, Stages
<1> QED
  BY <1>1, NoTodo, PartMoves DEF Stages

LEMMA LegacyMoves ==
    ASSUME UpgradeTypes, NEW p \in Programs, ReadLegacyOperations(p)
    PROVE  \E r \in Runs : Moves(p, r)
             /\ r.part = (IF op.kind # "none" /\ ~op.owned /\ op.state \in Old THEN "kept" ELSE "version")
             /\ r.todo = {op.state}
<1>1. at[p].part \in Stages /\ at[p].step = Operations /\ version' = version
  BY StartedAt DEF ReadLegacyOperations
<1>2. {op.state} \in Todos
  <2>1. op.state \in States
    BY DEF UpgradeTypes, Ops
  <2> QED
    BY <2>1 DEF Todos
<1>3. CASE op.kind # "none" /\ ~op.owned /\ op.state \in Old
  <2>1. Part(p, "kept", {op.state})
    BY <1>3 DEF ReadLegacyOperations
  <2> QED
    BY <1>1, <1>2, <1>3, <2>1, PartMoves DEF Stages
<1>4. CASE ~(op.kind # "none" /\ ~op.owned /\ op.state \in Old)
  <2>1. Part(p, "version", {op.state})
    BY <1>4 DEF ReadLegacyOperations
  <2> QED
    BY <1>1, <1>2, <1>4, <2>1, PartMoves DEF Stages
<1> QED
  BY <1>3, <1>4

LEMMA NormalizeMoves ==
    ASSUME UpgradeTypes, StepsInOrder, NEW p \in Programs, NormalizeRemovalPlan(p)
    PROVE  \E r \in Runs : Moves(p, r)
             /\ \/ r.part = "failed" /\ copies' = copies
                \/ /\ r.part = "rewrite" /\ r.todo = at[p].todo
                   /\ IF op.kind = "removal" /\ op.plan = "whole" /\ copies.old
                      THEN copies' = [copies EXCEPT !.old = FALSE, !.new = TRUE] ELSE copies' = copies
<1>1. at[p].part \in Stages /\ at[p].step = Operations /\ version' = version
  BY DEF NormalizeRemovalPlan, StepsInOrder, Stages
<1>2. at[p].todo \in Todos
  BY RunIs DEF UpgradeTypes
<1>3. CASE op.kind = "removal" /\ op.plan = "whole" /\ copies.old /\ copies.new
  <2>1. Fails(p) /\ copies' = copies
    BY <1>3 DEF NormalizeRemovalPlan
  <2> QED
    BY <1>1, <2>1, FailsMoves
<1>4. CASE ~(op.kind = "removal" /\ op.plan = "whole" /\ copies.old /\ copies.new)
  <2>1. Part(p, "rewrite", at[p].todo)
        /\ IF op.kind = "removal" /\ op.plan = "whole" /\ copies.old
           THEN copies' = [copies EXCEPT !.old = FALSE, !.new = TRUE] ELSE copies' = copies
    BY <1>4 DEF NormalizeRemovalPlan
  <2>2. \E r \in Runs : Moves(p, r) /\ r.part = "rewrite" /\ r.todo = at[p].todo
    BY <1>1, <1>2, <2>1, PartMoves DEF Stages
  <2> QED
    BY <2>1, <2>2
<1> QED
  BY <1>3, <1>4

LEMMA MigrateMoves ==
    ASSUME UpgradeTypes, StepsInOrder, NEW p \in Programs, MigrateOperation(p)
    PROVE  \E r \in Runs : Moves(p, r) /\ r.part = "version"
<1>1. at[p].part \in Stages /\ at[p].step = Operations /\ version' = version /\ Part(p, "version", {})
  BY DEF MigrateOperation, StepsInOrder, Stages
<1> QED
  BY <1>1, NoTodo, PartMoves DEF Stages

LEMMA InterruptMoves ==
    ASSUME UpgradeTypes, NEW p \in Programs, Interrupt(p)
    PROVE  \E r \in Runs : Moves(p, r) /\ r.part = "down"
<1>1. at' = [at EXCEPT ![p] = Down] /\ version' = version /\ at[p].part # "unused"
  BY DEF Interrupt, Working
<1>2. Down \in Runs /\ Down.part = "down"
  BY NoTodo, Numbers DEF Down, Runs
<1>3. Moves(p, Down)
  BY <1>1, <1>2, Numbers DEF Moves, Becomes, GoesOn, UpgradeTypes, UpgradeTypeOK
<1> QED
  BY <1>2, <1>3

-----------------------------------------------------------------------------
(* Merging components *)

\* Each component described has a row with the smallest identifier.
LEMMA Smallest ==
    ASSUME NEW N \in SUBSET Nat, N # {}
    PROVE  \E n \in N : \A m \in N : n <= m
<1>1. IsWellFoundedOn(OpToRel(<, Nat), Nat)
  BY NatLessThanWellFounded
<1>2. PICK n \in N : \A m \in N : ~(<<m, n>> \in OpToRel(<, Nat))
  BY <1>1, WFMin
<1>3. \A m \in N : ~(m < n)
  BY <1>2 DEF OpToRel
<1> QED
  BY <1>3

LEMMA OneSurvives ==
    ASSUME NEW c \in Components, NEW rs \in SUBSET (Nat \X Components), Described(rs, c) # {}
    PROVE  Survivor(rs, c) \in Described(rs, c)
<1> DEFINE N == {r[1] : r \in Described(rs, c)}
<1>1. N \in SUBSET Nat /\ N # {}
  BY DEF Described
<1>2. PICK n \in N : \A m \in N : n <= m
  BY <1>1, Smallest
<1>3. \E r \in Described(rs, c) : \A s \in Described(rs, c) : r[1] <= s[1]
  BY <1>2
<1> QED
  BY <1>3 DEF Survivor

\* What the identifiers of two components have in common: nothing.
LEMMA Distinct ==
    ASSUME NEW c \in Components, NEW d \in Components
    PROVE  /\ Canonical[c] \in Nat
           /\ Canonical[c] = Canonical[d] => c = d
           /\ Canonical[c] \notin OldIds(d)
           /\ \A n : n \in OldIds(c) /\ n \in OldIds(d) => c = d
BY UpgradeAssumption DEF OldIds

\* A row identifies one component.
LEMMA RowIdentifies ==
    ASSUME NEW rs \in SUBSET (Nat \X Components), AsOld(rs) \/ Merged(rs),
           NEW r \in rs, NEW s \in rs, r[1] = s[1]
    PROVE  r[2] = s[2]
BY Distinct DEF AsOld, Merged

\* Merging what is there keeps one row of each component, renamed.
LEMMA MergedRows ==
    ASSUME table \in SUBSET (Nat \X Components), AsOld(table) \/ Merged(table)
    PROVE  /\ Renamed(table) \in SUBSET (Nat \X Components) /\ Merged(Renamed(table))
           /\ \A r \in table : <<Canonical[r[2]], r[2]>> \in Renamed(table)
<1>1. \A r \in Renamed(table) : \E s \in table : r = <<Canonical[s[2]], s[2]>>
  BY DEF Renamed
<1>2. Renamed(table) \in SUBSET (Nat \X Components) /\ Merged(Renamed(table))
  BY <1>1, Distinct DEF Merged
<1>3. ASSUME NEW r \in table
      PROVE  <<Canonical[r[2]], r[2]>> \in Renamed(table)
  <2> DEFINE s == Survivor(table, r[2])
  <2>1. r[2] \in Components /\ r \in Described(table, r[2])
    BY DEF Described
  <2>2. s \in Described(table, r[2])
    BY <2>1, OneSurvives
  <2>3. s \in table /\ s[2] = r[2]
    BY <2>2 DEF Described
  <2> QED
    BY <2>3 DEF Renamed
<1> QED
  BY <1>2, <1>3

\* Rows that are merged already stay as they are, whatever was read before.
LEMMA MergedStay ==
    ASSUME table \in SUBSET (Nat \X Components), Merged(table),
           NEW read \in SUBSET (Nat \X Components), read = table \/ AsOld(read)
    PROVE  Renamed(read) = table
<1>1. CASE read = table
  <2>1. \A r \in table : r = <<Canonical[r[2]], r[2]>>
    BY DEF Merged
  <2>2. \A r \in Renamed(table) : r \in table
    BY <2>1 DEF Renamed
  <2>3. \A r \in table : r \in Renamed(table)
    BY <2>1, MergedRows
  <2> QED
    BY <1>1, <2>2, <2>3
<1>2. CASE AsOld(read)
  <2>1. \A r \in table : r \notin read
    BY <1>2, Distinct DEF AsOld, Merged
  <2> QED
    BY <2>1 DEF Renamed
<1> QED
  BY <1>1, <1>2

\* ... and every user has the row of its component.
LEMMA UsersFollow ==
    ASSUME UpgradeTypes, AsOld(table) \/ Merged(table), UsersKeepTheirs,
           NEW read \in SUBSET (Nat \X Components),
           \/ read = table
           \/ Merged(table) /\ AsOld(read),
           NEW u \in DOMAIN Users
    PROVE  /\ <<Moved(read)[u], Users[u]>> \in Renamed(read)
           /\ Moved(read)[u] \in Nat
<1>t. table \in SUBSET (Nat \X Components) /\ Users[u] \in Components /\ <<uses[u], Users[u]>> \in table
  BY UpgradeAssumption DEF UpgradeTypes, UsersKeepTheirs
<1>1. CASE read = table
  <2> DEFINE r == CHOOSE r \in read : r[1] = uses[u]
  <2>1. \E s \in read : s[1] = uses[u]
    BY <1>1, <1>t
  <2>2. r \in read /\ r[1] = uses[u]
    BY <2>1
  <2>3. r[2] = Users[u]
    <3>1. <<uses[u], Users[u]>>[1] = uses[u] /\ <<uses[u], Users[u]>>[2] = Users[u]
      OBVIOUS
    <3> HIDE DEF r
    <3> QED
      BY <1>1, <1>t, <2>2, <3>1, RowIdentifies
  <2>4. Moved(read)[u] = Canonical[Users[u]]
    BY <2>1, <2>3 DEF Moved
  <2>5. <<Canonical[Users[u]], Users[u]>> \in Renamed(table)
    BY <1>t, MergedRows
  <2> QED
    BY <1>1, <1>t, <2>4, <2>5, Distinct
<1>2. CASE Merged(table) /\ AsOld(read)
  <2>1. uses[u] = Canonical[Users[u]]
    BY <1>2, <1>t DEF Merged
  <2>2. ~(\E r \in read : r[1] = uses[u])
    BY <1>2, <1>t, <2>1, Distinct DEF AsOld
  <2>3. Moved(read)[u] = uses[u]
    BY <2>2 DEF Moved
  <2>4. Renamed(read) = table
    BY <1>2, <1>t, MergedStay
  <2> QED
    BY <1>t, <2>3, <2>4
<1> QED
  BY <1>1, <1>2

-----------------------------------------------------------------------------
(* The steps of a program *)

ProgramStep(p) ==
    \/ Open(p) \/ Batch(p) \/ JournalLegacyIds(p) \/ MoveFolder(p) \/ MarkMoved(p) \/ RewriteLegacyIds(p)
    \/ ReadComponents(p) \/ MergeComponents(p) \/ IndexComponents(p)
    \/ ReadLegacyOperations(p) \/ NormalizeRemovalPlan(p) \/ MigrateOperation(p) \/ OperationsDone(p)
    \/ Interrupt(p)

RecoveryStep ==
    \/ QuarantineInstall \/ FailInstall \/ ReconcileRemoval \/ CommitRemoval
    \/ PreserveV1 \/ ReconcileV1 \/ MarkHandled

LEMMA EveryStep ==
    ASSUME UpgradeNext
    PROVE  (\E p \in Programs : ProgramStep(p)) \/ RecoveryStep
BY DEF UpgradeNext, ProgramStep, RecoveryStep

\* What each step of a program leaves alone.
LEMMA Frames ==
    ASSUME NEW p \in Programs, ProgramStep(p)
    PROVE  /\ (table' = table /\ uses' = uses) \/ MergeComponents(p)
           /\ folders' = folders \/ MoveFolder(p)
           /\ journal' = journal \/ JournalLegacyIds(p) \/ MarkMoved(p)
           /\ rowIds' = rowIds \/ RewriteLegacyIds(p)
           /\ op' = op \/ MigrateOperation(p)
           /\ copies' = copies \/ NormalizeRemovalPlan(p)
           /\ rows' = rows \/ Batch(p)
           /\ stops' = stops \/ Interrupt(p)
BY DEF ProgramStep, Open, Batch, JournalLegacyIds, MoveFolder, MarkMoved, RewriteLegacyIds, ReadComponents,
       MergeComponents, IndexComponents, ReadLegacyOperations, NormalizeRemovalPlan, MigrateOperation,
       OperationsDone, Interrupt, evidence

\* ... and where it takes the program.
LEMMA EveryMove ==
    ASSUME UpgradeTypes, StepsInOrder, NEW p \in Programs, ProgramStep(p)
    PROVE  \E r \in Runs :
             /\ Moves(p, r)
             /\ r.part = "folders" => /\ JournalLegacyIds(p) \/ MarkMoved(p)
                                      /\ r.todo = {f \in Profiles : journal'[f] = "noted"}
             /\ r.part = "mark" => \E f \in Profiles :
                  /\ at[p].part = "folders" /\ f \in at[p].todo /\ folders[f] # Places
                  /\ r.todo = {f} /\ folders' = [folders EXCEPT ![f] = IF "old" \in @ THEN {"new"} ELSE @]
             /\ r.part = "merge" => ReadComponents(p) /\ r.todo = table
             /\ r.part = "kept" => /\ ReadLegacyOperations(p) /\ r.todo = {op.state}
                                   /\ op.kind # "none" /\ ~op.owned /\ op.state \in Old
             /\ r.part = "rewrite" => NormalizeRemovalPlan(p) /\ at[p].part = "kept" /\ r.todo = at[p].todo
             /\ NormalizeRemovalPlan(p) /\ r.part # "rewrite" => copies' = copies
             /\ NormalizeRemovalPlan(p) /\ r.part = "rewrite" =>
                  IF op.kind = "removal" /\ op.plan = "whole" /\ copies.old
                  THEN copies' = [copies EXCEPT !.old = FALSE, !.new = TRUE] ELSE copies' = copies
             /\ MoveFolder(p) /\ r.part # "mark" => folders' = folders
<1>1. CASE Open(p)
  <2>1. PICK r \in Runs : Moves(p, r) /\ r.part \in {"up", "start"}
    BY <1>1, OpenMoves
  <2>2. ~NormalizeRemovalPlan(p) /\ ~MoveFolder(p)
    BY <1>1 DEF Open, NormalizeRemovalPlan, MoveFolder, Down
  <2> QED
    BY <2>1, <2>2
<1>2. CASE Batch(p)
  <2>1. PICK r \in Runs : Moves(p, r) /\ r.part \in {"failed", "up", "start"}
    BY <1>2, BatchMoves
  <2>2. ~NormalizeRemovalPlan(p) /\ ~MoveFolder(p)
    BY <1>2, StartedAt DEF Batch, NormalizeRemovalPlan, MoveFolder
  <2> QED
    BY <2>1, <2>2
<1>3. CASE JournalLegacyIds(p)
  <2>1. PICK r \in Runs : Moves(p, r) /\ r.part = "folders" /\ r.todo = {f \in Profiles : journal'[f] = "noted"}
    BY <1>3, JournalMoves
  <2>2. ~NormalizeRemovalPlan(p) /\ ~MoveFolder(p)
    BY <1>3, StartedAt DEF JournalLegacyIds, NormalizeRemovalPlan, MoveFolder
  <2> QED
    BY <1>3, <2>1, <2>2
<1>4. CASE MoveFolder(p)
  <2>1. PICK f \in Profiles :
          /\ f \in at[p].todo /\ at[p].part = "folders" /\ version' = version
          /\ IF folders[f] = Places THEN Fails(p) /\ folders' = folders
             ELSE /\ folders' = [folders EXCEPT ![f] = IF "old" \in @ THEN {"new"} ELSE @]
                  /\ Part(p, "mark", {f})
    <3>1. PICK f \in at[p].todo :
            IF folders[f] = Places THEN Fails(p) /\ UNCHANGED folders
            ELSE /\ folders' = [folders EXCEPT ![f] = IF "old" \in @ THEN {"new"} ELSE @]
                 /\ Part(p, "mark", {f})
      BY <1>4 DEF MoveFolder
    <3>2. f \in Profiles
      BY <1>4 DEF MoveFolder, StepsInOrder
    <3> QED
      BY <1>4, <3>1, <3>2 DEF MoveFolder
  <2>2. PICK r \in Runs : Moves(p, r) /\ IF folders[f] = Places THEN r.part = "failed"
                                         ELSE r.part = "mark" /\ r.todo = {f}
    BY <2>1, FolderMoves
  <2>3. ~NormalizeRemovalPlan(p)
    BY <2>1 DEF NormalizeRemovalPlan
  <2> QED
    BY <2>1, <2>2, <2>3
<1>5. CASE MarkMoved(p)
  <2>1. PICK r \in Runs : Moves(p, r) /\ r.part = "folders" /\ r.todo = {f \in Profiles : journal'[f] = "noted"}
    BY <1>5, MarkMoves
  <2>2. ~NormalizeRemovalPlan(p) /\ ~MoveFolder(p)
    BY <1>5 DEF MarkMoved, NormalizeRemovalPlan, MoveFolder
  <2> QED
    BY <1>5, <2>1, <2>2
<1>6. CASE RewriteLegacyIds(p) \/ IndexComponents(p) \/ OperationsDone(p)
  <2>1. PICK r \in Runs : Moves(p, r) /\ r.part \in {"failed", "up", "start"}
    BY <1>6, LastStepMoves
  <2>2. ~NormalizeRemovalPlan(p) /\ ~MoveFolder(p)
    BY <1>6 DEF RewriteLegacyIds, IndexComponents, OperationsDone, NormalizeRemovalPlan, MoveFolder
  <2> QED
    BY <2>1, <2>2
<1>7. CASE ReadComponents(p)
  <2>1. PICK r \in Runs : Moves(p, r) /\ r.part = "merge" /\ r.todo = table
    BY <1>7, ReadMoves
  <2>2. ~NormalizeRemovalPlan(p) /\ ~MoveFolder(p)
    BY <1>7, StartedAt DEF ReadComponents, NormalizeRemovalPlan, MoveFolder
  <2> QED
    BY <1>7, <2>1, <2>2
<1>8. CASE MergeComponents(p)
  <2>1. PICK r \in Runs : Moves(p, r) /\ r.part = "index"
    BY <1>8, MergeMoves
  <2>2. ~NormalizeRemovalPlan(p) /\ ~MoveFolder(p)
    BY <1>8 DEF MergeComponents, NormalizeRemovalPlan, MoveFolder
  <2> QED
    BY <2>1, <2>2
<1>9. CASE ReadLegacyOperations(p)
  <2>1. PICK r \in Runs : Moves(p, r)
          /\ r.part = (IF op.kind # "none" /\ ~op.owned /\ op.state \in Old THEN "kept" ELSE "version")
          /\ r.todo = {op.state}
    BY <1>9, LegacyMoves
  <2>2. ~NormalizeRemovalPlan(p) /\ ~MoveFolder(p)
    BY <1>9, StartedAt DEF ReadLegacyOperations, NormalizeRemovalPlan, MoveFolder
  <2> QED
    BY <1>9, <2>1, <2>2
<1>10. CASE NormalizeRemovalPlan(p)
  <2>1. PICK r \in Runs : Moves(p, r)
             /\ \/ r.part = "failed" /\ copies' = copies
                \/ /\ r.part = "rewrite" /\ r.todo = at[p].todo
                   /\ IF op.kind = "removal" /\ op.plan = "whole" /\ copies.old
                      THEN copies' = [copies EXCEPT !.old = FALSE, !.new = TRUE] ELSE copies' = copies
    BY <1>10, NormalizeMoves
  <2>2. at[p].part = "kept" /\ ~MoveFolder(p)
    BY <1>10 DEF NormalizeRemovalPlan, MoveFolder
  <2> QED
    BY <1>10, <2>1, <2>2
<1>11. CASE MigrateOperation(p)
  <2>1. PICK r \in Runs : Moves(p, r) /\ r.part = "version"
    BY <1>11, MigrateMoves
  <2>2. ~NormalizeRemovalPlan(p) /\ ~MoveFolder(p)
    BY <1>11 DEF MigrateOperation, NormalizeRemovalPlan, MoveFolder
  <2> QED
    BY <2>1, <2>2
<1>12. CASE Interrupt(p)
  <2>1. PICK r \in Runs : Moves(p, r) /\ r.part = "down"
    BY <1>12, InterruptMoves
  <2>2. NormalizeRemovalPlan(p) => copies' = copies
    BY <1>12 DEF Interrupt, evidence
  <2>3. MoveFolder(p) => folders' = folders
    BY <1>12 DEF Interrupt
  <2> QED
    BY <2>1, <2>2, <2>3
<1> QED
  BY <1>1, <1>2, <1>3, <1>4, <1>5, <1>6, <1>7, <1>8, <1>9, <1>10, <1>11, <1>12 DEF ProgramStep

-----------------------------------------------------------------------------
(* Each part of the invariant, over the steps of a program *)

\* No program is more than one migration ahead.
LEMMA InOrder ==
    ASSUME UpgradeTypes, StepsInOrder, NEW p \in Programs, NEW r \in Runs, Moves(p, r)
    PROVE  StepsInOrder' /\ at' \in [Programs -> Runs] /\ version' \in 0 .. Latest
<1>1. at' \in [Programs -> Runs] /\ at'[p] = r /\ \A q \in Programs : q # p => at'[q] = at[q]
  BY AfterMove DEF Moves, UpgradeTypes
<1>2. version \in 0 .. Latest /\ version' \in version .. Latest /\ version' \in 0 .. Latest
  BY Numbers DEF Moves, GoesOn, UpgradeTypes, UpgradeTypeOK
<1>3. ASSUME NEW q \in Programs
      PROVE  /\ at'[q].part \in Stages => at'[q].step \in 1 .. version' + 1
             /\ at'[q].part \in {"folders", "mark"} => at'[q].step = Ids /\ at'[q].todo \subseteq Profiles
             /\ at'[q].part \in {"merge", "index"} => at'[q].step = Identity
             /\ at'[q].part \in {"kept", "rewrite", "version"} => at'[q].step = Operations
             /\ at'[q].part = "up" => version' = Latest
  <2>1. CASE q # p
    BY <1>1, <1>2, <2>1, Numbers DEF StepsInOrder
  <2>2. CASE q = p
    <3>1. at'[q] = r
      BY <1>1, <2>2
    <3>2. /\ r.part \in {"folders", "mark"} => r.step = Ids /\ r.todo \subseteq Profiles
          /\ r.part \in {"merge", "index"} => r.step = Identity
          /\ r.part \in {"kept", "rewrite", "version"} => r.step = Operations
          /\ r.part = "up" => version' = Latest
      BY DEF Moves, GoesOn, Stages
    <3>3. r.part \in Stages => r.step \in 1 .. version' + 1
      <4>1. CASE r.part = "start"
        BY <1>2, <4>1, Numbers DEF Moves, GoesOn
      <4>2. CASE r.part \in Stages \ {"start"}
        <5>1. r.step = at[p].step /\ at[p].part \in Stages /\ version' = version
          BY <4>2 DEF Moves, GoesOn, Stages
        <5> QED
          BY <5>1 DEF StepsInOrder
      <4> QED
        BY <4>1, <4>2
    <3> QED
      BY <3>1, <3>2, <3>3
  <2> QED
    BY <2>1, <2>2
<1> QED
  BY <1>1, <1>2, <1>3 DEF StepsInOrder

\* Whoever merges, with rows read long ago or just now, leaves every user its
\* component.
LEMMA RowsKept ==
    ASSUME UpgradeTypes, StepsInOrder, ComponentsSound, NEW p \in Programs, ProgramStep(p)
    PROVE  /\ ComponentsSound' /\ table' \in SUBSET (Nat \X Components)
           /\ uses' \in [DOMAIN Users -> Nat \cup {NoRow}]
<1>1. PICK r \in Runs : Becomes(p, r) /\ (r.part = "merge" => ReadComponents(p) /\ r.todo = table)
                        /\ (MergeComponents(p) => r.part # "merge")
  <2>1. PICK r \in Runs : Moves(p, r) /\ (r.part = "merge" => ReadComponents(p) /\ r.todo = table)
    BY EveryMove
  <2>2. MergeComponents(p) => ~ReadComponents(p)
    BY StartedAt DEF MergeComponents, ReadComponents
  <2> QED
    BY <2>1, <2>2 DEF Moves
<1>2. at'[p] = r /\ \A q \in Programs : q # p => at'[q] = at[q]
  BY <1>1, AfterMove DEF UpgradeTypes
<1>t. table \in SUBSET (Nat \X Components) /\ uses \in [DOMAIN Users -> Nat \cup {NoRow}]
  BY DEF UpgradeTypes
<1>3. CASE table' = table /\ uses' = uses
  <2>1. UsersKeepTheirs' /\ (AsOld(table') \/ Merged(table'))
    BY <1>3 DEF ComponentsSound, UsersKeepTheirs
  <2>2. ASSUME NEW q \in Programs, at'[q].part = "merge"
        PROVE  \/ at'[q].todo = table'
               \/ Merged(table') /\ at'[q].todo \in SUBSET (Nat \X Components) /\ AsOld(at'[q].todo)
    BY <1>1, <1>2, <1>3, <2>2 DEF ComponentsSound
  <2> QED
    BY <1>3, <1>t, <2>1, <2>2 DEF ComponentsSound, AsOld, Merged
<1>4. CASE MergeComponents(p)
  <2> DEFINE read == at[p].todo
  <2>1. table' = Renamed(read) /\ uses' = Cascade(Moved(read), table') /\ at[p].part = "merge"
    BY <1>4 DEF MergeComponents
  <2>2. \/ read = table
        \/ Merged(table) /\ read \in SUBSET (Nat \X Components) /\ AsOld(read)
    BY <2>1 DEF ComponentsSound
  <2>3. read \in SUBSET (Nat \X Components)
    BY <1>t, <2>2
  <2>o. AsOld(table) \/ Merged(table)
    BY DEF ComponentsSound
  <2>4. table' \in SUBSET (Nat \X Components) /\ Merged(table')
    BY <1>t, <2>1, <2>2, <2>3, <2>o, MergedRows, MergedStay
  <2>5. Merged(table) => table' = table
    BY <1>t, <2>1, <2>2, <2>3, MergedStay
  <2>6. \A u \in DOMAIN Users : <<Moved(read)[u], Users[u]>> \in table' /\ Moved(read)[u] \in Nat
    <3> HIDE DEF read
    <3> QED
      BY <2>1, <2>2, <2>3, <2>o, UsersFollow DEF ComponentsSound
  <2>7. \A u \in DOMAIN Users : uses'[u] = Moved(read)[u]
    BY <2>1, <2>6 DEF Cascade
  <2>8. uses' \in [DOMAIN Users -> Nat \cup {NoRow}]
    BY <2>1, <2>6, <2>7 DEF Cascade
  <2>9. UsersKeepTheirs'
    BY <2>6, <2>7 DEF UsersKeepTheirs
  <2>10. ASSUME NEW q \in Programs, at'[q].part = "merge"
         PROVE  \/ at'[q].todo = table'
                \/ Merged(table') /\ at'[q].todo \in SUBSET (Nat \X Components) /\ AsOld(at'[q].todo)
    <3>1. q # p /\ at'[q] = at[q]
      BY <1>1, <1>2, <1>4, <2>10
    <3>2. \/ at[q].todo = table
          \/ Merged(table) /\ at[q].todo \in SUBSET (Nat \X Components) /\ AsOld(at[q].todo)
      BY <2>10, <3>1 DEF ComponentsSound
    <3> QED
      BY <1>t, <2>4, <2>5, <2>o, <3>1, <3>2
  <2> HIDE DEF read
  <2> QED
    BY <2>4, <2>8, <2>9, <2>10 DEF ComponentsSound, AsOld, Merged
<1> QED
  BY <1>3, <1>4, Frames

\* No folder is left behind: each is on record before it moves, and the rows
\* follow when all have moved.
LEMMA FoldersKept ==
    ASSUME UpgradeTypes, StepsInOrder, FoldersSound, NEW p \in Programs, ProgramStep(p)
    PROVE  /\ FoldersSound' /\ rowIds' \in Places
           /\ journal' \in [Profiles -> {"none", "noted", "moved"}] /\ folders' \in [Profiles -> SUBSET Places]
<1>t. /\ rowIds \in Places /\ journal \in [Profiles -> {"none", "noted", "moved"}]
      /\ folders \in [Profiles -> SUBSET Places]
  BY DEF UpgradeTypes, UpgradeTypeOK
<1>1. PICK r \in Runs :
        /\ Becomes(p, r)
        /\ r.part = "folders" => /\ JournalLegacyIds(p) \/ MarkMoved(p)
                                 /\ r.todo = {f \in Profiles : journal'[f] = "noted"}
        /\ r.part = "mark" => \E f \in Profiles :
             /\ at[p].part = "folders" /\ f \in at[p].todo
             /\ r.todo = {f} /\ folders' = [folders EXCEPT ![f] = IF "old" \in @ THEN {"new"} ELSE @]
        /\ MoveFolder(p) /\ r.part # "mark" => folders' = folders
  BY EveryMove DEF Moves
<1>2. at'[p] = r /\ \A q \in Programs : q # p => at'[q] = at[q]
  BY <1>1, AfterMove DEF UpgradeTypes
\* A folder loses its old name and never gets it back.
<1>3. /\ folders' \in [Profiles -> SUBSET Places]
      /\ \A f \in Profiles : "old" \notin folders[f] => "old" \notin folders'[f]
      /\ r.part = "mark" => \A f \in Profiles \cap r.todo : "old" \notin folders'[f]
  <2>1. CASE r.part = "mark"
    <3>1. PICK f \in Profiles :
            r.todo = {f} /\ folders' = [folders EXCEPT ![f] = IF "old" \in @ THEN {"new"} ELSE @]
      BY <1>1, <2>1
    <3>2. folders' \in [Profiles -> SUBSET Places]
      BY <1>t, <3>1 DEF Places
    <3>3. \A g \in Profiles : folders'[g] = IF g = f THEN (IF "old" \in folders[f] THEN {"new"} ELSE folders[f])
                                            ELSE folders[g]
      BY <1>t, <3>1
    <3> QED
      BY <3>1, <3>2, <3>3
  <2>2. CASE r.part # "mark"
    <3>1. folders' = folders
      BY <1>1, <2>2, Frames
    <3> QED
      BY <1>t, <2>2, <3>1
  <2> QED
    BY <2>1, <2>2
\* What is on record stays there.
<1>4. /\ journal' \in [Profiles -> {"none", "noted", "moved"}]
      /\ \A f \in Profiles : /\ journal[f] = "moved" => journal'[f] = "moved"
                             /\ journal[f] # "none" => journal'[f] # "none"
                             /\ journal'[f] = "moved" => "old" \notin folders'[f]
  <2>1. CASE journal' = journal
    BY <1>t, <1>3, <2>1 DEF FoldersSound
  <2>2. CASE JournalLegacyIds(p)
    BY <1>t, <1>3, <2>2 DEF JournalLegacyIds, FoldersSound
  <2>3. CASE MarkMoved(p)
    BY <1>t, <1>3, <2>3 DEF MarkMoved, FoldersSound
  <2> QED
    BY <2>1, <2>2, <2>3, Frames
<1>5. /\ rowIds' \in Places /\ (rowIds = "new" => rowIds' = "new")
      /\ rowIds' = "new" => \A f \in Profiles : "old" \notin folders'[f]
  <2>1. CASE rowIds' = rowIds
    BY <1>t, <1>3, <2>1 DEF FoldersSound, NothingStranded
  <2>2. CASE RewriteLegacyIds(p)
    <3>1. /\ at[p].part = "folders" /\ at[p].todo = {} /\ folders' = folders
          /\ rowIds' = IF version < Ids THEN "new" ELSE rowIds
      BY <2>2 DEF RewriteLegacyIds
    <3>2. rowIds = "new" \/ \A f \in Profiles : journal[f] = "moved"
      BY <3>1 DEF FoldersSound
    <3> QED
      BY <1>t, <3>1, <3>2 DEF FoldersSound, NothingStranded, Places
  <2> QED
    BY <2>1, <2>2, Frames
<1>6. r.part \in {"folders", "mark"} => rowIds' = "new" \/ \A f \in Profiles : journal'[f] # "none"
  <2>1. CASE JournalLegacyIds(p)
    BY <1>t, <2>1 DEF JournalLegacyIds, Places
  <2>2. CASE at[p].part \in {"folders", "mark"}
    BY <1>4, <1>5, <2>2 DEF FoldersSound
  <2> QED
    BY <1>1, <2>1, <2>2 DEF MarkMoved
<1>7. r.part = "folders" => rowIds' = "new" \/ \A f \in Profiles \ r.todo : journal'[f] = "moved"
  BY <1>1, <1>4, <1>6
<1>8. ASSUME NEW q \in Programs
      PROVE  /\ at'[q].part \in {"folders", "mark"} => rowIds' = "new" \/ \A f \in Profiles : journal'[f] # "none"
             /\ at'[q].part = "folders" => rowIds' = "new" \/ \A f \in Profiles \ at'[q].todo : journal'[f] = "moved"
             /\ at'[q].part = "mark" => \A f \in Profiles \cap at'[q].todo : "old" \notin folders'[f]
  <2>1. CASE q = p
    BY <1>2, <1>3, <1>6, <1>7, <2>1
  <2>2. CASE q # p
    BY <1>2, <1>3, <1>4, <1>5, <2>2 DEF FoldersSound
  <2> QED
    BY <2>1, <2>2
<1> QED
  BY <1>3, <1>4, <1>5, <1>8 DEF FoldersSound, NothingStranded

\* An unfinished change becomes one to recover, its folder under its new name.
LEMMA ChangeKept ==
    ASSUME UpgradeTypes, StepsInOrder, ChangeSound, NEW p \in Programs, ProgramStep(p)
    PROVE  /\ ChangeSound' /\ op' \in Ops /\ copies' \in [live : BOOLEAN, old : BOOLEAN, new : BOOLEAN]
           /\ rows' \in [mod : BOOLEAN, deployment : Deployments]
           /\ op'.kind = op.kind /\ op'.was = op.was /\ copies'.live = copies.live
<1>t. /\ op \in Ops /\ copies \in [live : BOOLEAN, old : BOOLEAN, new : BOOLEAN]
      /\ rows \in [mod : BOOLEAN, deployment : Deployments]
  BY DEF UpgradeTypes, UpgradeTypeOK
<1>1. PICK r \in Runs :
        /\ Moves(p, r)
        /\ r.part = "kept" => r.todo = {op.state} /\ op.kind # "none" /\ ~op.owned /\ op.state \in Old
        /\ r.part = "kept" => ReadLegacyOperations(p)
        /\ r.part = "rewrite" => NormalizeRemovalPlan(p) /\ at[p].part = "kept" /\ r.todo = at[p].todo
        /\ NormalizeRemovalPlan(p) /\ r.part # "rewrite" => copies' = copies
        /\ NormalizeRemovalPlan(p) /\ r.part = "rewrite" =>
             IF op.kind = "removal" /\ op.plan = "whole" /\ copies.old
             THEN copies' = [copies EXCEPT !.old = FALSE, !.new = TRUE] ELSE copies' = copies
  BY EveryMove
<1>2. at'[p] = r /\ \A q \in Programs : q # p => at'[q] = at[q]
  BY <1>1, AfterMove DEF Moves, UpgradeTypes
<1>v. version' \in version .. Latest /\ version \in Nat
  BY <1>1, Numbers DEF Moves, GoesOn, UpgradeTypes, UpgradeTypeOK
<1>3. rows' \in [mod : BOOLEAN, deployment : Deployments]
  <2>1. CASE Batch(p)
    BY <1>t, <2>1 DEF Batch, Deployments
  <2> QED
    BY <1>t, <2>1, Frames
\* A kept folder moves to its new name only.
<1>4. /\ copies' \in [live : BOOLEAN, old : BOOLEAN, new : BOOLEAN] /\ copies'.live = copies.live
      /\ ~copies.old => ~copies'.old
      /\ r.part = "rewrite" /\ op.kind = "removal" /\ op.plan = "whole" => ~copies'.old
  <2>1. CASE r.part = "rewrite"
    BY <1>1, <1>t, <2>1
  <2>2. CASE r.part # "rewrite"
    BY <1>1, <1>t, <2>2, Frames
  <2> QED
    BY <2>1, <2>2
<1>5. CASE op' = op
  <2>1. r.part = "kept" => (op.was = "running" /\ op.code \in {"none", ToReconcile} => r.todo \in {{"running"}, {"recovery"}})
    BY <1>1, <1>t DEF ChangeSound, Ops
  <2>2. r.part = "rewrite" => /\ op.kind # "none"
                              /\ op.was = "running" /\ op.code \in {"none", ToReconcile} =>
                                   r.todo \in {{"running"}, {"recovery"}}
    BY <1>1 DEF ChangeSound
  <2>3. ASSUME NEW q \in Programs, at'[q].part \in {"kept", "rewrite"}
        PROVE  /\ op'.kind # "none"
               /\ op'.was = "running" /\ op'.code \in {"none", ToReconcile} =>
                    at'[q].todo \in {{"running"}, {"recovery"}}
               /\ at'[q].part = "rewrite" /\ op'.kind = "removal" /\ op'.plan = "whole" => ~copies'.old
    <3>1. CASE q = p
      BY <1>1, <1>2, <1>4, <1>5, <2>1, <2>2, <2>3, <3>1
    <3>2. CASE q # p
      BY <1>2, <1>4, <1>5, <2>3, <3>2 DEF ChangeSound
    <3> QED
      BY <3>1, <3>2
  <2>4. /\ op'.kind = "install" => ~copies'.old
        /\ op'.kind = "none" <=> op'.was = "none"
        /\ op'.code = "none" => op'.state = op'.was /\ ~op'.owned
        /\ op'.owned /\ op'.kind = "removal" /\ op'.plan = "whole" => ~copies'.old
        /\ version' < Latest => op'.code \in {"none", ToReconcile}
        /\ op'.was = "running" /\ op'.code = ToReconcile => op'.state = "recovery"
    BY <1>4, <1>5, <1>v, Numbers DEF ChangeSound
  <2> QED
    BY <1>3, <1>4, <1>5, <1>t, <2>3, <2>4 DEF ChangeSound
<1>6. CASE MigrateOperation(p)
  <2>1. /\ at[p].part = "rewrite" /\ copies' = copies
        /\ op' = [op EXCEPT !.state = TargetState(CHOOSE s \in at[p].todo : TRUE),
                            !.code = IF @ = "none" THEN ToReconcile ELSE @, !.owned = Resolved]
        /\ version' = version
    <3>1. /\ at[p].part = "rewrite" /\ copies' = copies /\ Part(p, "version", {}) /\ version' = version
      BY <1>6 DEF MigrateOperation
    <3> QED
      BY <1>6, <3>1 DEF MigrateOperation
  <2>2. /\ op'.kind = op.kind /\ op'.was = op.was /\ op'.plan = op.plan
        /\ op'.code = IF op.code = "none" THEN ToReconcile ELSE op.code
        /\ op'.state = TargetState(CHOOSE s \in at[p].todo : TRUE) /\ op'.owned = Resolved
    BY <1>t, <2>1 DEF Ops
  <2>3. op'.state \in {"succeeded", "failed", "recovery"}
    BY <2>2 DEF TargetState
  <2>4. op' \in Ops
    <3>1. (IF op.code = "none" THEN ToReconcile ELSE op.code) \in Codes /\ Resolved \in BOOLEAN
          /\ TargetState(CHOOSE s \in at[p].todo : TRUE) \in States
      BY <1>t, <2>2, <2>3 DEF Ops, Codes, Resolved, States
    <3> QED
      BY <1>t, <2>1, <3>1 DEF Ops
  <2>5. op.was = "running" /\ op.code \in {"none", ToReconcile} => op'.state = "recovery"
    <3>1. op.was = "running" /\ op.code \in {"none", ToReconcile} => at[p].todo \in {{"running"}, {"recovery"}}
      BY <2>1 DEF ChangeSound
    <3>2. (CHOOSE s \in {"running"} : TRUE) = "running" /\ (CHOOSE s \in {"recovery"} : TRUE) = "recovery"
      OBVIOUS
    <3> QED
      BY <2>2, <3>1, <3>2 DEF TargetState
  <2>6. op.kind # "none" /\ (op.kind = "removal" /\ op.plan = "whole" => ~copies.old)
    BY <2>1 DEF ChangeSound
  <2>7. r.part \notin {"kept", "rewrite"}
    BY <1>1, <2>1, StartedAt DEF ReadLegacyOperations, NormalizeRemovalPlan
  <2>8. ASSUME NEW q \in Programs, at'[q].part \in {"kept", "rewrite"}
        PROVE  /\ op'.kind # "none"
               /\ op'.was = "running" /\ op'.code \in {"none", ToReconcile} =>
                    at'[q].todo \in {{"running"}, {"recovery"}}
               /\ at'[q].part = "rewrite" /\ op'.kind = "removal" /\ op'.plan = "whole" => ~copies'.old
    <3>1. q # p /\ at'[q] = at[q]
      BY <1>2, <2>7, <2>8
    <3> QED
      BY <2>1, <2>2, <2>6, <2>8, <3>1 DEF ChangeSound
  <2>9. /\ op'.kind = "install" => ~copies'.old
        /\ op'.kind = "none" <=> op'.was = "none"
        /\ op'.code # "none"
        /\ op'.owned /\ op'.kind = "removal" /\ op'.plan = "whole" => ~copies'.old
        /\ op'.was = "running" /\ op'.code = ToReconcile => op'.state = "recovery"
    <3>1. op'.code # "none" /\ (op'.code = ToReconcile => op.code \in {"none", ToReconcile})
      BY <2>2 DEF ToReconcile
    <3> QED
      BY <2>1, <2>2, <2>5, <2>6, <3>1 DEF ChangeSound
  <2>10. version' < Latest => op'.code \in {"none", ToReconcile}
    BY <2>1, <2>2 DEF ChangeSound
  <2> QED
    BY <1>3, <1>4, <2>2, <2>4, <2>8, <2>9, <2>10 DEF ChangeSound
<1> QED
  BY <1>5, <1>6, Frames

-----------------------------------------------------------------------------
(* ... and over the steps of the recovery *)

\* A verdict of the recovery.
LEMMA SettleIs ==
    ASSUME op \in Ops, NEW s \in States, NEW c \in Codes, Settle(s, c)
    PROVE  /\ op' \in Ops /\ op'.state = s /\ op'.code = c
           /\ op'.kind = op.kind /\ op'.was = op.was /\ op'.plan = op.plan /\ op'.owned = op.owned
BY DEF Settle, Ops

Reasons == Codes \ {"none", ToReconcile}

\* Recovery gives a change a state and a reason, and never touches the old name.
LEMMA RecoveryIs ==
    ASSUME UpgradeTypes, RecoveryStep
    PROVE  /\ Recovering /\ UNCHANGED schema
           /\ op' = op \/ \E s \in States, c \in Reasons : Settle(s, c)
           /\ copies' \in [live : BOOLEAN, old : BOOLEAN, new : BOOLEAN] /\ copies'.old = copies.old
           /\ rows' \in [mod : BOOLEAN, deployment : Deployments] /\ stops' \in 0 .. MaxStops
<1>t. /\ copies \in [live : BOOLEAN, old : BOOLEAN, new : BOOLEAN]
      /\ rows \in [mod : BOOLEAN, deployment : Deployments] /\ stops \in 0 .. MaxStops
  BY DEF UpgradeTypes, UpgradeTypeOK
<1>s. stops < MaxStops => stops + 1 \in 0 .. MaxStops
  BY <1>t, Numbers
<1>r. {"recovery", "failed", "committing", "succeeded"} \subseteq States
  BY DEF States
<1>c. {"not reconciled", "install reconciled", "conflict", "not published",
       "evidence missing", "committing", "database unreconciled", "already committed",
       "removal reconciled", "commit refused", "reconciliation required", "recovered", "handled"} \subseteq Reasons
  BY DEF Reasons, Codes, ToReconcile
<1>1. CASE QuarantineInstall
  <2>1. Recovering /\ UNCHANGED schema /\ rows' = rows
    BY <1>1 DEF QuarantineInstall, ByProvenance
  <2>2. \/ copies' = [copies EXCEPT !.live = FALSE, !.new = TRUE] /\ op' = op /\ stops' = stops
        \/ stops < MaxStops /\ stops' = stops + 1 /\ Settle("recovery", "not reconciled") /\ copies' = copies
    BY <1>1 DEF QuarantineInstall, Retain
  <2> QED
    BY <1>t, <1>s, <1>r, <1>c, <2>1, <2>2
<1>2. CASE FailInstall
  <2>1. /\ Recovering /\ UNCHANGED schema /\ Settle("failed", "install reconciled")
        /\ copies' = copies /\ rows' = rows /\ stops' = stops
    BY <1>2 DEF FailInstall, ByProvenance
  <2> QED
    BY <1>t, <1>r, <1>c, <2>1
<1>3. CASE ReconcileRemoval
  <2>1. /\ Recovering /\ UNCHANGED schema
        /\ copies' = copies /\ rows' = rows /\ stops' = stops
    BY <1>3 DEF ReconcileRemoval, ByProvenance
  <2>2. \/ Settle("recovery", "conflict")
        \/ Settle("failed", "not published")
        \/ Settle("recovery", "evidence missing")
        \/ Settle("committing", "committing")
        \/ Settle("recovery", "database unreconciled")
        \/ Settle("succeeded", "already committed")
    BY <1>3 DEF ReconcileRemoval, Retain
  <2> QED
    BY <1>t, <1>r, <1>c, <2>1, <2>2
<1>4. CASE CommitRemoval
  <2>1. Recovering /\ UNCHANGED schema /\ copies' = copies
    BY <1>4 DEF CommitRemoval
  <2>2. \/ rows' = [mod |-> FALSE, deployment |-> "none"] /\ Settle("succeeded", "removal reconciled") /\ stops' = stops
        \/ stops < MaxStops /\ stops' = stops + 1 /\ Settle("recovery", "commit refused") /\ rows' = rows
    BY <1>4 DEF CommitRemoval, Retain
  <2>3. [mod |-> FALSE, deployment |-> "none"] \in [mod : BOOLEAN, deployment : Deployments]
    BY DEF Deployments
  <2> QED
    BY <1>t, <1>s, <1>r, <1>c, <2>1, <2>2, <2>3
<1>5. CASE PreserveV1
  <2>1. /\ Recovering /\ UNCHANGED schema /\ Settle("recovery", "reconciliation required")
        /\ copies' = copies /\ rows' = rows /\ stops' = stops
    BY <1>5 DEF PreserveV1, AsPlanV1
  <2> QED
    BY <1>t, <1>r, <1>c, <2>1
<1>6. CASE ReconcileV1
  <2>1. /\ Recovering /\ UNCHANGED schema /\ Settle("failed", "recovered")
        /\ rows' = rows /\ stops' = stops
    BY <1>6 DEF ReconcileV1, AsPlanV1
  <2>2. \/ copies' = [copies EXCEPT !.live = FALSE, !.new = @ \/ copies.live]
        \/ copies' = [copies EXCEPT !.live = TRUE, !.new = FALSE]
    BY <1>6 DEF ReconcileV1
  <2> QED
    BY <1>t, <1>r, <1>c, <2>1, <2>2
<1>7. CASE MarkHandled
  <2>1. /\ Recovering /\ UNCHANGED schema /\ Settle("failed", "handled")
        /\ copies' = copies /\ rows' = rows /\ stops' = stops
    BY <1>7 DEF MarkHandled
  <2> QED
    BY <1>t, <1>r, <1>c, <2>1
<1> QED
  BY <1>1, <1>2, <1>3, <1>4, <1>5, <1>6, <1>7 DEF RecoveryStep

\* The recovery runs when the version is the latest, and keeps the invariant.
LEMMA RecoveryKeeps ==
    ASSUME UpgradeInv, RecoveryStep
    PROVE  UpgradeInv'
<1>1. /\ Recovering /\ UNCHANGED schema
      /\ op' = op \/ \E s \in States, c \in Reasons : Settle(s, c)
      /\ copies' \in [live : BOOLEAN, old : BOOLEAN, new : BOOLEAN] /\ copies'.old = copies.old
      /\ rows' \in [mod : BOOLEAN, deployment : Deployments] /\ stops' \in 0 .. MaxStops
  BY RecoveryIs DEF UpgradeInv
<1>2. version' = version /\ at' = at /\ rowIds' = rowIds /\ journal' = journal /\ folders' = folders
      /\ table' = table /\ uses' = uses
  BY <1>1 DEF schema
<1>3. version = Latest
  BY <1>1 DEF Recovering, UpgradeInv, StepsInOrder
<1>4. /\ op' \in Ops /\ op'.kind = op.kind /\ op'.was = op.was /\ op'.plan = op.plan /\ op'.owned = op.owned
      /\ op' = op \/ op'.code \notin {"none", ToReconcile}
  <2>1. op \in Ops
    BY DEF UpgradeInv, UpgradeTypes
  <2>2. CASE \E s \in States, c \in Reasons : Settle(s, c)
    <3>1. PICK s \in States, c \in Reasons : Settle(s, c)
      BY <2>2
    <3>2. c \in Codes /\ c \notin {"none", ToReconcile}
      BY DEF Reasons
    <3> QED
      BY <2>1, <3>1, <3>2, SettleIs
  <2> QED
    BY <1>1, <2>1, <2>2
<1>5. UpgradeTypes'
  BY <1>1, <1>2, <1>4 DEF UpgradeInv, UpgradeTypes, UpgradeTypeOK
<1>6. StepsInOrder' /\ FoldersSound' /\ ComponentsSound'
  BY <1>2 DEF UpgradeInv, StepsInOrder, FoldersSound, NothingStranded, ComponentsSound, UsersKeepTheirs, AsOld, Merged
<1>7. ChangeSound'
  <2>1. /\ op'.kind = "install" => ~copies'.old
        /\ op'.kind = "none" <=> op'.was = "none"
        /\ op'.code = "none" => op'.state = op'.was /\ ~op'.owned
        /\ op'.owned /\ op'.kind = "removal" /\ op'.plan = "whole" => ~copies'.old
        /\ op'.was = "running" /\ op'.code = ToReconcile => op'.state = "recovery"
    BY <1>1, <1>4 DEF UpgradeInv, ChangeSound
  <2>2. ~(version' < Latest)
    BY <1>2, <1>3, Numbers
  <2>3. ASSUME NEW p \in Programs, at'[p].part \in {"kept", "rewrite"}
        PROVE  /\ op'.kind # "none"
               /\ op'.was = "running" /\ op'.code \in {"none", ToReconcile} =>
                    at'[p].todo \in {{"running"}, {"recovery"}}
               /\ at'[p].part = "rewrite" /\ op'.kind = "removal" /\ op'.plan = "whole" => ~copies'.old
    BY <1>1, <1>2, <1>4, <2>3 DEF UpgradeInv, ChangeSound
  <2> QED
    BY <2>1, <2>2, <2>3 DEF ChangeSound
<1> QED
  BY <1>5, <1>6, <1>7 DEF UpgradeInv

\* ... and so does every step of the upgrade.
LEMMA ProgramKeeps ==
    ASSUME UpgradeInv, NEW p \in Programs, ProgramStep(p)
    PROVE  UpgradeInv'
<1>1. PICK r \in Runs : Moves(p, r)
  BY EveryMove DEF UpgradeInv
<1>2. StepsInOrder' /\ at' \in [Programs -> Runs] /\ version' \in 0 .. Latest
  BY <1>1, InOrder DEF UpgradeInv
<1>3. /\ ComponentsSound' /\ table' \in SUBSET (Nat \X Components)
      /\ uses' \in [DOMAIN Users -> Nat \cup {NoRow}]
  BY RowsKept DEF UpgradeInv
<1>4. /\ FoldersSound' /\ rowIds' \in Places
      /\ journal' \in [Profiles -> {"none", "noted", "moved"}] /\ folders' \in [Profiles -> SUBSET Places]
  BY FoldersKept DEF UpgradeInv
<1>5. /\ ChangeSound' /\ op' \in Ops /\ copies' \in [live : BOOLEAN, old : BOOLEAN, new : BOOLEAN]
      /\ rows' \in [mod : BOOLEAN, deployment : Deployments]
  BY ChangeKept DEF UpgradeInv
<1>6. stops' \in 0 .. MaxStops
  BY Frames, Numbers DEF UpgradeInv, UpgradeTypes, UpgradeTypeOK, Interrupt
<1>7. \A q \in Programs : at'[q].step \in 0 .. Latest
  BY <1>2 DEF Runs
<1> QED
  BY <1>2, <1>3, <1>4, <1>5, <1>6, <1>7 DEF UpgradeInv, UpgradeTypes, UpgradeTypeOK

LEMMA StutterKeeps ==
    ASSUME UpgradeInv, UNCHANGED upgradeVars
    PROVE  UpgradeInv'
BY DEF upgradeVars, UpgradeInv, UpgradeTypes, UpgradeTypeOK, StepsInOrder, FoldersSound, NothingStranded,
       ComponentsSound, UsersKeepTheirs, AsOld, Merged, ChangeSound

\* What an older release may have left.
LEMMA LeftBehindIs ==
    ASSUME NEW left \in LeftBehind
    PROVE  /\ left[1] \in Ops /\ left[2] \in [live : BOOLEAN, old : BOOLEAN, new : BOOLEAN]
           /\ left[3] \in [mod : BOOLEAN, deployment : Deployments]
           /\ left[1].kind = "install" => ~left[2].old
           /\ left[1].kind = "none" <=> left[1].was = "none"
           /\ left[1].code = "none" /\ left[1].state = left[1].was /\ left[1].owned = FALSE
<1> DEFINE Installs ==
      {<<[NoOp EXCEPT !.kind = "install", !.state = s, !.was = s, !.plan = pl],
         [live |-> l, old |-> FALSE, new |-> FALSE], [mod |-> FALSE, deployment |-> "none"]>> :
           s \in {"running", "failed"}, pl \in {"whole", "bare", "unknown profile"}, l \in BOOLEAN}
    Removals ==
      {<<[NoOp EXCEPT !.kind = "removal", !.state = s, !.was = s, !.plan = pl],
         [live |-> l, old |-> k, new |-> FALSE], [mod |-> m, deployment |-> d]>> :
           s \in {"running", "completed"}, pl \in {"whole", "bare", "unknown profile"},
           l \in BOOLEAN, k \in BOOLEAN, m \in BOOLEAN, d \in Deployments}
<1>1. CASE left = <<NoOp, [live |-> FALSE, old |-> FALSE, new |-> FALSE], [mod |-> FALSE, deployment |-> "none"]>>
  BY <1>1 DEF NoOp, Ops, States, Codes, Deployments
<1>2. CASE left \in Installs
  <2>1. PICK s \in {"running", "failed"}, pl \in {"whole", "bare", "unknown profile"}, l \in BOOLEAN :
          left = <<[NoOp EXCEPT !.kind = "install", !.state = s, !.was = s, !.plan = pl],
                   [live |-> l, old |-> FALSE, new |-> FALSE], [mod |-> FALSE, deployment |-> "none"]>>
    BY <1>2
  <2> QED
    BY <2>1 DEF NoOp, Ops, States, Codes, Deployments
<1>3. CASE left \in Removals
  <2>1. PICK s \in {"running", "completed"}, pl \in {"whole", "bare", "unknown profile"},
             l \in BOOLEAN, k \in BOOLEAN, m \in BOOLEAN, d \in Deployments :
          left = <<[NoOp EXCEPT !.kind = "removal", !.state = s, !.was = s, !.plan = pl],
                   [live |-> l, old |-> k, new |-> FALSE], [mod |-> m, deployment |-> d]>>
    BY <1>3
  <2> QED
    BY <2>1 DEF NoOp, Ops, States, Codes, Deployments
<1>4. LeftBehind = {<<NoOp, [live |-> FALSE, old |-> FALSE, new |-> FALSE], [mod |-> FALSE, deployment |-> "none"]>>}
                   \union Installs \union Removals
  BY DEF LeftBehind
<1> HIDE DEF Installs, Removals
<1> QED
  BY <1>1, <1>2, <1>3, <1>4

LEMMA UpgradeBegins == UpgradeInit => UpgradeInv
<1> SUFFICES ASSUME UpgradeInit
    PROVE  UpgradeInv
  OBVIOUS
<1>1. version \in {2, 4} /\ version \in 0 .. Latest /\ version < Latest
  BY Numbers DEF UpgradeInit
<1>2. /\ at \in [Programs -> {Down, [Down EXCEPT !.part = "unused"]}] /\ rowIds = "old"
      /\ journal = [p \in Profiles |-> "none"] /\ folders \in [Profiles -> {{}, {"old"}, {"old", "new"}}]
      /\ stops = 0
  BY DEF UpgradeInit
<1>3. Down \in Runs /\ Down.part = "down" /\ [Down EXCEPT !.part = "unused"] \in Runs
      /\ [Down EXCEPT !.part = "unused"].part = "unused"
  BY NoTodo, Numbers DEF Down, Runs
<1>4. at \in [Programs -> Runs] /\ \A p \in Programs : at[p].part \in {"down", "unused"}
  <2> DEFINE idle == [Down EXCEPT !.part = "unused"]
  <2>1. idle \in Runs /\ idle.part = "unused" /\ at \in [Programs -> {Down, idle}]
    BY <1>2, <1>3
  <2> HIDE DEF idle
  <2>2. Down \in Runs /\ Down.part = "down"
    BY <1>3
  <2>3. ASSUME NEW p \in Programs PROVE at[p] \in Runs /\ at[p].part \in {"down", "unused"}
    <3>1. at[p] = Down \/ at[p] = idle
      BY <2>1
    <3>2. QED
      BY <2>1, <2>2, <3>1
  <2>4. QED
    BY <2>1, <2>3
<1>5. StepsInOrder
  BY <1>4 DEF StepsInOrder, Stages
<1>6. folders \in [Profiles -> SUBSET Places]
  BY <1>2 DEF Places
<1>7. FoldersSound
  BY <1>2, <1>4 DEF FoldersSound, NothingStranded
<1>8. PICK rs \in [Components -> UNION {OldRows[c] : c \in Components}] :
       /\ \A c \in Components : rs[c] \in OldRows[c]
       /\ table = UNION {{<<r, c>> : r \in rs[c]} : c \in Components}
       /\ uses \in [DOMAIN Users -> UNION {rs[c] : c \in Components}]
       /\ \A u \in DOMAIN Users : uses[u] \in rs[Users[u]]
  BY DEF UpgradeInit
<1>9. \A c \in Components : rs[c] \subseteq Nat /\ rs[c] \subseteq OldIds(c)
  BY <1>8, UpgradeAssumption DEF OldIds
<1>10. table \in SUBSET (Nat \X Components) /\ AsOld(table)
  BY <1>8, <1>9 DEF AsOld
<1>11. uses \in [DOMAIN Users -> Nat \cup {NoRow}]
  BY <1>8, <1>9
<1>12. UsersKeepTheirs
  BY <1>8, UpgradeAssumption DEF UsersKeepTheirs
<1>13. ComponentsSound
  BY <1>4, <1>10, <1>12 DEF ComponentsSound
<1>14. PICK left \in LeftBehind : Believable(left[1], left[2], left[3]) /\ op = left[1] /\ copies = left[2] /\ rows = left[3]
  BY DEF UpgradeInit
<1>15. /\ op \in Ops /\ copies \in [live : BOOLEAN, old : BOOLEAN, new : BOOLEAN]
       /\ rows \in [mod : BOOLEAN, deployment : Deployments]
       /\ op.kind = "install" => ~copies.old
       /\ op.kind = "none" <=> op.was = "none"
       /\ op.code = "none" /\ op.state = op.was /\ op.owned = FALSE
  BY <1>14, LeftBehindIs
<1>16. ChangeSound
  BY <1>1, <1>4, <1>15 DEF ChangeSound, ToReconcile
<1> QED
  BY <1>1, <1>2, <1>4, <1>5, <1>6, <1>7, <1>10, <1>11, <1>13, <1>15, <1>16, Numbers
     DEF UpgradeInv, UpgradeTypes, UpgradeTypeOK, Runs, Places

\* The invariant holds throughout.
LEMMA UpgradeAlways == UpgradeSpec => []UpgradeInv
<1>1. UpgradeInv /\ [UpgradeNext]_upgradeVars => UpgradeInv'
  BY EveryStep, ProgramKeeps, RecoveryKeeps, StutterKeeps
<1> QED
  BY <1>1, UpgradeBegins, PTL DEF UpgradeSpec

\* A change that was running waits for the recovery, with its folder in reach.
LEMMA UnfinishedStaysOpen ==
    ASSUME UpgradeInv
    PROVE  UnfinishedIsOpen
BY DEF UpgradeInv, UpgradeTypes, Ops, ChangeSound, UnfinishedIsOpen

\* However many programs run the migrations (db/migrations.rs) at once and
\* wherever they are interrupted: no profile's folder is left under an old
\* identifier, every mod keeps the component it was installed from, and a change
\* the older release had not finished waits to be recovered.
THEOREM UpgradeLosesNothing ==
    UpgradeSpec => [](UpgradeTypeOK /\ NothingStranded /\ UsersKeepTheirs /\ UnfinishedIsOpen)
<1>1. UpgradeInv => UpgradeTypeOK /\ NothingStranded /\ UsersKeepTheirs /\ UnfinishedIsOpen
  BY UnfinishedStaysOpen DEF UpgradeInv, UpgradeTypes, FoldersSound, ComponentsSound
<1> QED
  BY <1>1, UpgradeAlways, PTL

-----------------------------------------------------------------------------
(* What recovery says of the change that was left behind *)

\* Nobody joins, and the only program is never behind the version.
LEMMA AloneKept ==
    ASSUME UpgradeInv, Alone, InStep, NEW p \in Programs, ProgramStep(p)
    PROVE  Alone' /\ InStep'
<1>1. PICK r \in Runs : Moves(p, r)
  BY EveryMove DEF UpgradeInv
<1>2. at'[p] = r /\ \A q \in Programs : q # p => at'[q] = at[q]
  BY <1>1, AfterMove DEF Moves, UpgradeInv, UpgradeTypes
<1>3. op'.kind = op.kind
  BY ChangeKept DEF UpgradeInv
<1>4. at[p].part # "unused" /\ r.part # "unused"
  BY <1>1 DEF Moves, GoesOn
<1>5. Alone'
  BY <1>2, <1>3, <1>4 DEF Alone
<1>6. ASSUME op'.kind # "none", NEW q \in Programs, at'[q].part \in Stages
      PROVE  at'[q].step = version' + 1
  <2>1. at'[q].part # "unused" /\ at'[p].part # "unused"
    BY <1>2, <1>4, <1>6 DEF Stages
  <2>2. q = p
    BY <1>5, <1>6, <2>1 DEF Alone
  <2>3. CASE r.part = "start"
    BY <1>1, <1>2, <2>2, <2>3 DEF Moves, GoesOn
  <2>4. CASE r.part # "start"
    <3>1. r.part \in Stages \ {"start"}
      BY <1>2, <1>6, <2>2, <2>4
    <3>2. at[p].part \in Stages /\ version' = version /\ r.step = at[p].step
      BY <1>1, <3>1 DEF Moves, GoesOn, Stages
    <3> QED
      BY <1>2, <1>3, <1>6, <2>2, <3>2 DEF InStep
  <2> QED
    BY <2>3, <2>4
<1> QED
  BY <1>5, <1>6 DEF InStep

\* While a migration is left to run, recovery has not begun.
LEMMA NotYetMet ==
    ASSUME UpgradeInv, InStep, op.kind # "none", NEW p \in Programs, at[p].part \in Stages
    PROVE  op.code \in {"none", ToReconcile}
<1>1. at[p].step = version + 1 /\ at[p].step \in 0 .. Latest /\ version \in 0 .. Latest
  BY DEF InStep, UpgradeInv, UpgradeTypes, UpgradeTypeOK
<1>2. version < Latest
  BY <1>1, Numbers
<1> QED
  BY <1>2 DEF UpgradeInv, ChangeSound

\* The upgrade changes no evidence that recovery has judged.
LEMMA EvidenceKept ==
    ASSUME UpgradeInv, InStep, RemovalSound, SettledIsTrue, NEW p \in Programs, ProgramStep(p)
    PROVE  RemovalSound' /\ SettledIsTrue'
<1>t. /\ op \in Ops /\ copies \in [live : BOOLEAN, old : BOOLEAN, new : BOOLEAN]
      /\ rows \in [mod : BOOLEAN, deployment : Deployments]
  BY DEF UpgradeInv, UpgradeTypes, UpgradeTypeOK
<1>k. op'.kind = op.kind /\ copies'.live = copies.live
  BY ChangeKept DEF UpgradeInv
<1>1. CASE op.kind = "none"
  BY <1>1, <1>k DEF RemovalSound, SettledIsTrue
<1>2. CASE op' = op /\ copies' = copies /\ rows' = rows
  BY <1>2 DEF RemovalSound, SettledIsTrue, Whole
<1>3. CASE Batch(p) /\ op.kind # "none"
  <2>1. /\ at[p].part \in Stages /\ op' = op /\ copies' = copies
        /\ rows' = rows \/ (rows.deployment = "quarantined" /\ rows' = [rows EXCEPT !.deployment = "none"])
    BY <1>3, StartedAt DEF Batch
  <2>2. op.code \in {"none", ToReconcile}
    BY <1>3, <2>1, NotYetMet
  <2>3. rows'.mod = rows.mod /\ (rows.deployment = "present" => rows'.deployment = "present")
    BY <1>t, <2>1
  <2> QED
    BY <2>1, <2>2, <2>3 DEF RemovalSound, SettledIsTrue, Whole
<1>4. CASE NormalizeRemovalPlan(p) /\ op.kind # "none"
  <2>1. /\ at[p].part \in Stages /\ op' = op /\ rows' = rows
        /\ copies' = copies \/ copies' = [copies EXCEPT !.old = FALSE, !.new = TRUE]
    BY <1>4 DEF NormalizeRemovalPlan, Stages
  <2>2. op.code \in {"none", ToReconcile}
    BY <1>4, <2>1, NotYetMet
  <2>3. copies.new => copies'.new
    BY <1>t, <2>1
  <2> QED
    BY <1>k, <2>1, <2>2, <2>3 DEF RemovalSound, SettledIsTrue, Whole
<1>5. CASE MigrateOperation(p) /\ op.kind # "none"
  <2>1. /\ at[p].part \in Stages /\ copies' = copies /\ rows' = rows
        /\ op' = [op EXCEPT !.state = TargetState(CHOOSE s \in at[p].todo : TRUE),
                            !.code = IF @ = "none" THEN ToReconcile ELSE @, !.owned = Resolved]
    BY <1>5 DEF MigrateOperation, Stages
  <2>2. op.code \in {"none", ToReconcile}
    BY <1>5, <2>1, NotYetMet
  <2>3. op'.code = ToReconcile /\ op'.state = TargetState(CHOOSE s \in at[p].todo : TRUE)
    BY <1>t, <2>1, <2>2 DEF Ops
  <2>4. op'.state # "committing"
    BY <2>3 DEF TargetState
  <2> QED
    BY <1>k, <2>1, <2>3, <2>4 DEF RemovalSound, SettledIsTrue, Whole
<1>6. (op' = op /\ copies' = copies /\ rows' = rows) \/ Batch(p) \/ NormalizeRemovalPlan(p) \/ MigrateOperation(p)
  BY Frames
<1> QED
  BY <1>1, <1>2, <1>3, <1>4, <1>5, <1>6

\* Each verdict follows from what is found in the folders and rows.
LEMMA RecoveryTells ==
    ASSUME UpgradeInv, RemovalSound, SettledIsTrue, RecoveryStep
    PROVE  RemovalSound' /\ SettledIsTrue'
<1>t. /\ op \in Ops /\ copies \in [live : BOOLEAN, old : BOOLEAN, new : BOOLEAN]
      /\ rows \in [mod : BOOLEAN, deployment : Deployments]
  BY DEF UpgradeInv, UpgradeTypes, UpgradeTypeOK
<1>s. \A s, c : Settle(s, c) => /\ op'.state = s /\ op'.code = c /\ op'.kind = op.kind
                                /\ op'.plan = op.plan /\ op'.owned = op.owned
  BY <1>t DEF Settle, Ops
<1>1. CASE QuarantineInstall
  <2>1. op.kind = "install" /\ op.code = ToReconcile
    BY <1>1 DEF QuarantineInstall, ByProvenance
  <2>2. op' = op \/ Settle("recovery", "not reconciled")
    BY <1>1 DEF QuarantineInstall, Retain
  <2> QED
    BY <1>s, <2>1, <2>2 DEF RemovalSound, SettledIsTrue
<1>2. CASE FailInstall
  <2>1. op.kind = "install" /\ ~copies.live /\ copies' = copies /\ rows' = rows /\ Settle("failed", "install reconciled")
    BY <1>2 DEF FailInstall
  <2> QED
    BY <1>s, <2>1 DEF RemovalSound, SettledIsTrue
<1>3. CASE ReconcileRemoval
  <2>1. op.kind = "removal" /\ copies' = copies /\ rows' = rows
    BY <1>3 DEF ReconcileRemoval
  <2>2. rows.mod \/ copies.live => rows.deployment = "present"
    BY <2>1 DEF RemovalSound
  <2>3. \/ copies.live /\ Settle("recovery", "conflict")
        \/ copies.live /\ Settle("failed", "not published")
        \/ ~copies.live /\ ~copies.new /\ Settle("recovery", "evidence missing")
        \/ ~copies.live /\ copies.new /\ rows.mod /\ Settle("committing", "committing")
        \/ rows.deployment = "present" /\ Settle("recovery", "database unreconciled")
        \/ ~copies.live /\ ~rows.mod /\ Settle("succeeded", "already committed")
    BY <1>3, <1>t DEF ReconcileRemoval, Retain
  <2>4. op'.kind = "removal" /\ op'.code \notin {"none", ToReconcile, "handled"}
        /\ \/ copies.live /\ op'.state \in {"recovery", "failed"}
           \/ ~copies.live /\ ~copies.new /\ op'.state = "recovery"
           \/ ~copies.live /\ copies.new /\ rows.mod /\ op'.state = "committing"
           \/ rows.deployment = "present" /\ op'.state = "recovery"
           \/ ~copies.live /\ ~rows.mod /\ op'.state = "succeeded"
    <3>1. /\ Settle("recovery", "conflict") => op'.state = "recovery" /\ op'.code = "conflict"
          /\ Settle("failed", "not published") => op'.state = "failed" /\ op'.code = "not published"
          /\ Settle("recovery", "evidence missing") => op'.state = "recovery" /\ op'.code = "evidence missing"
          /\ Settle("committing", "committing") => op'.state = "committing" /\ op'.code = "committing"
          /\ Settle("recovery", "database unreconciled") =>
               op'.state = "recovery" /\ op'.code = "database unreconciled"
          /\ Settle("succeeded", "already committed") => op'.state = "succeeded" /\ op'.code = "already committed"
      BY <1>s
    <3>2. op'.kind = op.kind
      BY <1>s, <2>3
    <3> QED
      BY <2>1, <2>3, <3>1, <3>2 DEF ToReconcile
  <2>5. RemovalSound'
    BY <2>1, <2>2, <2>4 DEF RemovalSound
  <2>6. SettledIsTrue'
    BY <2>1, <2>2, <2>4 DEF SettledIsTrue
  <2> QED
    BY <2>5, <2>6
<1>4. CASE CommitRemoval
  <2>1. op.kind = "removal" /\ op.state = "committing" /\ copies' = copies
    BY <1>4 DEF CommitRemoval
  <2>2. rows.mod /\ ~copies.live /\ rows.deployment = "present"
    BY <2>1 DEF RemovalSound
  <2>3. \/ rows' = [mod |-> FALSE, deployment |-> "none"] /\ Settle("succeeded", "removal reconciled")
        \/ rows' = rows /\ Settle("recovery", "commit refused")
    BY <1>4 DEF CommitRemoval, Retain
  <2>4. CASE rows' = [mod |-> FALSE, deployment |-> "none"] /\ Settle("succeeded", "removal reconciled")
    <3>1. op'.state = "succeeded" /\ op'.kind = "removal" /\ ~rows'.mod /\ ~copies'.live
      BY <1>s, <2>1, <2>2, <2>4
    <3> QED
      BY <3>1 DEF RemovalSound, SettledIsTrue
  <2>5. CASE rows' = rows /\ Settle("recovery", "commit refused")
    <3>1. op'.state = "recovery" /\ op'.kind = "removal"
      BY <1>s, <2>1, <2>5
    <3> QED
      BY <2>1, <2>2, <2>5, <3>1 DEF RemovalSound, SettledIsTrue
  <2> QED
    BY <2>3, <2>4, <2>5
<1>5. CASE PreserveV1
  <2>1. op.state = "committing" /\ copies' = copies /\ rows' = rows /\ Settle("recovery", "reconciliation required")
    BY <1>5 DEF PreserveV1
  <2>2. op'.state = "recovery" /\ op'.kind = op.kind
    BY <1>s, <2>1
  <2>3. op.kind = "removal" => rows.deployment = "present"
    BY <2>1 DEF RemovalSound
  <2> QED
    BY <2>1, <2>2, <2>3 DEF RemovalSound, SettledIsTrue
<1>6. CASE ReconcileV1
  <2>1. /\ op.code # ToReconcile /\ op.owned /\ op.plan = "whole" /\ op.state = "recovery"
        /\ rows' = rows /\ Settle("failed", "recovered")
    BY <1>6 DEF ReconcileV1, AsPlanV1
  <2>2. op.code # "none"
    BY <2>1 DEF UpgradeInv, ChangeSound
  <2>3. CASE op.kind = "install"
    <3>1. ~copies'.live
      BY <1>6, <1>t, <2>3 DEF ReconcileV1
    <3> QED
      BY <1>s, <2>1, <2>3, <3>1 DEF RemovalSound, SettledIsTrue
  <2>4. CASE op.kind # "install"
    <3>1. copies.live \/ copies.new
      BY <1>6, <2>4 DEF ReconcileV1
    <3>2. copies'.live
      BY <1>6, <1>t, <2>4 DEF ReconcileV1
    <3>3. op.kind = "removal" => rows.deployment = "present"
      BY <2>1, <2>2, <3>1 DEF RemovalSound, Whole
    <3>4. op'.state = "failed" /\ op'.kind = op.kind /\ rows' = rows
      BY <1>s, <2>1
    <3> QED
      BY <2>4, <3>2, <3>3, <3>4 DEF RemovalSound, SettledIsTrue
  <2> QED
    BY <2>3, <2>4
<1>7. CASE MarkHandled
  <2>1. copies' = copies /\ rows' = rows /\ Settle("failed", "handled")
    BY <1>7 DEF MarkHandled
  <2> QED
    BY <1>s, <2>1 DEF RemovalSound, SettledIsTrue
<1> QED
  BY <1>1, <1>2, <1>3, <1>4, <1>5, <1>6, <1>7 DEF RecoveryStep

LEMMA RecoveryBegins ==
    ASSUME UpgradeInit
    PROVE  InStep /\ RemovalSound /\ SettledIsTrue
<1>1. \A p \in Programs : at[p].part \notin Stages
  BY DEF UpgradeInit, Down, Stages
<1>2. PICK left \in LeftBehind : Believable(left[1], left[2], left[3]) /\ op = left[1] /\ copies = left[2] /\ rows = left[3]
  BY DEF UpgradeInit
<1>3. op.code = "none" /\ op.state = op.was
  BY <1>2, LeftBehindIs
<1>4. op.was # "committing"
  BY <1>2, LeftBehindIs DEF Ops
<1>5. op.kind = "removal" => (rows.mod \/ copies.live => rows.deployment = "present")
  BY <1>2 DEF Believable
<1> QED
  BY <1>1, <1>3, <1>4, <1>5 DEF InStep, RemovalSound, SettledIsTrue, Whole

\* A program that meets the change an older release left behind upgrades the
\* data, interrupted anywhere, so that all of the above holds and what its
\* recovery (operation_compatibility.rs) says of the change is true of folders
\* and rows.
THEOREM UpgradeStaysSafe == Alone /\ UpgradeSpec => []UpgradeIsSafe
<1>1. Alone /\ UpgradeInit => RecoveryInv
  BY UpgradeBegins, RecoveryBegins DEF RecoveryInv
<1>2. RecoveryInv /\ [UpgradeNext]_upgradeVars => RecoveryInv'
  <2>1. ASSUME RecoveryInv, NEW p \in Programs, ProgramStep(p)
        PROVE  RecoveryInv'
    BY <2>1, ProgramKeeps, AloneKept, EvidenceKept DEF RecoveryInv
  <2>2. ASSUME RecoveryInv, RecoveryStep
        PROVE  RecoveryInv'
    <3>1. UpgradeInv' /\ RemovalSound' /\ SettledIsTrue'
      BY <2>2, RecoveryKeeps, RecoveryTells DEF RecoveryInv
    <3>2. at' = at /\ version' = version /\ op'.kind = op.kind
      <4>1. UNCHANGED schema /\ (op' = op \/ \E s \in States, c \in Reasons : Settle(s, c))
        BY <2>2, RecoveryIs DEF RecoveryInv, UpgradeInv
      <4>2. op \in Ops
        BY <2>2 DEF RecoveryInv, UpgradeInv, UpgradeTypes
      <4>3. op'.kind = op.kind
        <5>1. CASE \E s \in States, c \in Reasons : Settle(s, c)
          BY <4>2, <5>1, SettleIs DEF Reasons
        <5> QED
          BY <4>1, <5>1
      <4> QED
        BY <4>1, <4>3 DEF schema
    <3> QED
      BY <2>2, <3>1, <3>2 DEF RecoveryInv, Alone, InStep
  <2>3. ASSUME RecoveryInv, UNCHANGED upgradeVars
        PROVE  RecoveryInv'
    <3>1. UpgradeInv'
      BY <2>3, StutterKeeps DEF RecoveryInv
    <3> QED
      BY <2>3, <3>1 DEF RecoveryInv, upgradeVars, Alone, InStep, RemovalSound, SettledIsTrue, Whole
  <2> QED
    BY <2>1, <2>2, <2>3, EveryStep
<1>3. RecoveryInv => UpgradeIsSafe
  BY UnfinishedStaysOpen DEF RecoveryInv, UpgradeInv, UpgradeTypes, FoldersSound, ComponentsSound, UpgradeIsSafe
<1> QED
  BY <1>1, <1>2, <1>3, PTL DEF UpgradeSpec

-----------------------------------------------------------------------------
(* Adopting a Mods folder.                                                   *)

\* The folder is made of files the constants describe.
AreTrees(t) ==
    /\ DOMAIN t = DOMAIN Folders
    /\ \A f \in DOMAIN Folders : t[f] \subseteq Nodes /\ IsTree(t[f])

\* The review is of what the folder was then.
ReviewSound ==
    shown # NotShown =>
        /\ AreTrees(shown.seen) /\ shown.mark = Mark(shown.seen)
        /\ DOMAIN shown.stored = Adoptables(shown.seen)
        /\ \A f \in DOMAIN shown.stored : shown.stored[f] \in Verdicts(shown.seen[f])
        /\ shown.problems = {f \in Adoptables(shown.seen) : HasProblem(shown.seen[f])}

\* What the adoption began with, and has to do and has done of it.
ToAdopt == job.left \union DOMAIN installed
JobSound ==
    /\ job = [at |-> job.at, left |-> job.left, ignored |-> job.ignored,
              was |-> job.was, edits |-> job.edits]
    /\ job.at = "idle" => installed = <<>>
    /\ job.at # "idle" =>
         /\ shown # NotShown /\ AreTrees(job.was) /\ Mark(job.was) = shown.mark
         /\ job.edits \in 0..edits /\ (Untouched => live = job.was)
         /\ ToAdopt \subseteq Adoptables(job.was) /\ ToAdopt \subseteq DOMAIN shown.stored
         /\ job.left \cap DOMAIN installed = {}
         /\ \A f, g \in ToAdopt : f # g => IdsIn(job.was[f]) \cap IdsIn(job.was[g]) = {}
         /\ \A f \in Adoptables(job.was) :
              job.ignored[f] = {n.uid : n \in {k \in ScanReads(job.was[f]) : Skipped(f, k)}}

\* What was installed: the files that were there, of mods that can be told
\* apart, and off what SMAPI skipped.
InstalledSound ==
    \A f \in DOMAIN installed :
        /\ installed[f].off \subseteq job.ignored[f]
        /\ installed[f].off = job.ignored[f] \/ f \in told
        /\ Untouched =>
             /\ installed[f].files = Placed(live[f])
             /\ \A m, k \in ManifestsIn(live[f]) : m.uid = k.uid => m = k

UidsApart ==
    \A f, g \in DOMAIN installed : f # g =>
        \A m \in installed[f].files, k \in installed[g].files : m.uid = k.uid => m.uid = NoId

AdoptionInv ==
    /\ AdoptionTypeOK /\ AreTrees(live)
    /\ ReviewSound /\ JobSound /\ InstalledSound /\ UidsApart

-----------------------------------------------------------------------------
\* What a set of numbers with a bound has: a greatest one.
LEMMA Greatest ==
    ASSUME NEW N \in SUBSET Nat, N # {}, NEW b \in Nat, \A n \in N : n <= b
    PROVE  \E n \in N : \A m \in N : m <= n
<1> DEFINE D == {b - n : n \in N}
<1>1. D \in SUBSET Nat /\ D # {}
  <2>1. \A n \in N : b - n \in Nat
    OBVIOUS
  <2>2. PICK n \in N : TRUE
    OBVIOUS
  <2>3. b - n \in D
    OBVIOUS
  <2> QED
    BY <2>1, <2>3
<1>2. PICK d \in D : \A e \in D : d <= e
  BY <1>1, Smallest
<1>3. PICK n \in N : d = b - n
  BY <1>2
<1>4. \A m \in N : b - n <= b - m
  BY <1>2, <1>3
<1> QED
  BY <1>4

\* Paths, name by name.
LEMMA PrefixByName ==
    ASSUME NEW s \in Seq(Names), NEW t \in Seq(Names)
    PROVE  IsPrefix(s, t) <=> Len(s) <= Len(t) /\ \A i \in 1..Len(s) : s[i] = t[i]
<1>1. Len(s) \in Nat /\ Len(t) \in Nat
  BY LenProperties
<1>2. SUFFICES ASSUME Len(s) <= Len(t)
               PROVE  SubSeq(s, 1, Len(s)) = SubSeq(t, 1, Len(s)) <=> \A i \in 1..Len(s) : s[i] = t[i]
  BY DEF IsPrefix
<1>3. \A i \in 1..Len(s) : s[i] \in Names /\ t[i] \in Names
  BY <1>1, <1>2, ElementOfSeq
<1> DEFINE u == SubSeq(s, 1, Len(s))
           v == SubSeq(t, 1, Len(s))
<1>4. u \in Seq(Names) /\ Len(u) = Len(s) /\ \A i \in 1..Len(s) : u[i] = s[i]
  BY <1>1, <1>3, SubSeqProperties
<1>5. v \in Seq(Names) /\ Len(v) = Len(s) /\ \A i \in 1..Len(s) : v[i] = t[i]
  BY <1>1, <1>3, SubSeqProperties
<1> HIDE DEF u, v
<1>6. u = v <=> \A i \in 1..Len(s) : u[i] = v[i]
  BY <1>1, <1>4, <1>5, SeqEqual
<1> QED
  BY <1>4, <1>5, <1>6 DEF u, v

LEMMA PartOfPath ==
    ASSUME NEW t \in Seq(Names), NEW n \in 0..Len(t)
    PROVE  /\ SubSeq(t, 1, n) \in Seq(Names) /\ Len(SubSeq(t, 1, n)) = n
           /\ \A i \in 1..n : SubSeq(t, 1, n)[i] = t[i]
<1>1. Len(t) \in Nat /\ n \in Nat /\ \A i \in 1..n : t[i] \in Names
  BY LenProperties, ElementOfSeq
<1> QED
  BY <1>1, SubSeqProperties

LEMMA RestOfPath ==
    ASSUME NEW t \in Seq(Names), NEW s \in Seq(Names), Len(s) < Len(t)
    PROVE  Len(Inner(s, t)) = Len(t) - Len(s) /\ Last(Inner(s, t)) = Last(t)
<1>1. Len(t) \in Nat /\ Len(s) \in Nat /\ \A i \in Len(s) + 1..Len(t) : t[i] \in Names
  BY LenProperties, ElementOfSeq
<1> DEFINE r == SubSeq(t, Len(s) + 1, Len(t))
<1>2. /\ Len(r) = Len(t) - Len(s)
      /\ \A i \in 1..Len(t) - Len(s) : r[i] = t[Len(s) + 1 + i - 1]
  <2>1. /\ Len(r) = Len(t) - (Len(s) + 1) + 1
        /\ \A i \in 1..Len(t) - (Len(s) + 1) + 1 : r[i] = t[Len(s) + 1 + i - 1]
    BY <1>1, SubSeqProperties
  <2> HIDE DEF r
  <2> QED
    BY <1>1, <2>1
<1> HIDE DEF r
<1>3. r[Len(r)] = t[Len(t)]
  BY <1>1, <1>2
<1> QED
  BY <1>2, <1>3 DEF r, Inner, Last

\* The longest common prefix of paths is a prefix of each.
LEMMA CommonPrefix ==
    ASSUME NEW S \in SUBSET Seq(Names), S # {}
    PROVE  /\ LongestCommonPrefix(S) \in Seq(Names)
           /\ \A t \in S : IsPrefix(LongestCommonPrefix(S), t)
<1> DEFINE C == CommonPrefixes(S)
<1>1. \A p \in C : p \in Seq(Names) /\ \A t \in S : IsPrefix(p, t)
  BY PartOfPath DEF CommonPrefixes, Prefixes
<1>2. PICK t \in S : TRUE
  OBVIOUS
<1>3. C # {}
  <2>1. SubSeq(t, 1, 0) \in Seq(Names) /\ Len(SubSeq(t, 1, 0)) = 0 /\ 0 \in 0..Len(t)
    BY PartOfPath, LenProperties
  <2>2. ASSUME NEW u \in S PROVE IsPrefix(SubSeq(t, 1, 0), u)
    <3> DEFINE p == SubSeq(t, 1, 0)
    <3>1. p \in Seq(Names) /\ Len(p) = 0 /\ u \in Seq(Names) /\ Len(u) \in Nat
      BY <2>1, LenProperties
    <3> HIDE DEF p
    <3>2. IsPrefix(p, u)
      <4>1. Len(p) <= Len(u) /\ \A i \in 1..Len(p) : p[i] = u[i]
        BY <3>1
      <4>2. IsPrefix(p, u) <=> Len(p) <= Len(u) /\ \A i \in 1..Len(p) : p[i] = u[i]
        BY <3>1, PrefixByName
      <4> QED
        BY <4>1, <4>2
    <3> QED
      BY <3>2 DEF p
  <2>3. SubSeq(t, 1, 0) \in Prefixes(t)
    BY <2>1 DEF Prefixes
  <2> QED
    BY <1>2, <2>2, <2>3 DEF CommonPrefixes
<1> HIDE DEF C
<1>4. \E p \in C : \A q \in C : Len(q) <= Len(p)
  <2> DEFINE N == {Len(p) : p \in C}
  <2>1. N \in SUBSET Nat /\ N # {}
    <3>1. \A p \in C : Len(p) \in Nat
      BY <1>1, LenProperties
    <3> QED
      BY <1>3, <3>1
  <2>2. Len(t) \in Nat /\ \A n \in N : n <= Len(t)
    BY <1>1, <1>2, PrefixByName, LenProperties
  <2>3. PICK n \in N : \A m \in N : m <= n
    <3> HIDE DEF N
    <3> QED
      BY <2>1, <2>2, Greatest
  <2> QED
    BY <2>3
<1>5. LongestCommonPrefix(S) \in C
  BY <1>4 DEF LongestCommonPrefix, C
<1> QED
  BY <1>1, <1>5

\* The folder of the manifests holds each of them.
LEMMA RootHolds ==
    ASSUME NEW nodes, \A n \in nodes : IsNode(n), ManifestsIn(nodes) # {}
    PROVE  /\ ManifestRoot(nodes) \in Seq(Names)
           /\ \A m \in ManifestsIn(nodes) : IsPrefix(ManifestRoot(nodes), Front(m.path))
<1> DEFINE S == {Front(n.path) : n \in ManifestsIn(nodes)}
<1>1. \A n \in ManifestsIn(nodes) : Front(n.path) \in Seq(Names)
  <2> TAKE n \in ManifestsIn(nodes)
  <2>1. n.path \in Seq(Names) /\ Len(n.path) > 0 /\ Len(n.path) \in Nat
    BY LenProperties DEF ManifestsIn, Walked, IsNode
  <2>2. Len(n.path) - 1 \in 0..Len(n.path)
    BY <2>1
  <2> QED
    BY <2>1, <2>2, PartOfPath DEF Front
<1>2. S \in SUBSET Seq(Names) /\ S # {}
  BY <1>1
<1> HIDE DEF S
<1>3. LongestCommonPrefix(S) \in Seq(Names) /\ \A t \in S : IsPrefix(LongestCommonPrefix(S), t)
  BY <1>2, CommonPrefix
<1> QED
  BY <1>3 DEF S, ManifestRoot

\* What is not a manifest is below the folder of the manifests, never that
\* folder itself.
LEMMA BelowRoot ==
    ASSUME NEW nodes, \A n \in nodes : IsNode(n), IsTree(nodes), ManifestsIn(nodes) # {},
           NEW w \in nodes, w.uid = NoId, IsPrefix(ManifestRoot(nodes), w.path)
    PROVE  Len(ManifestRoot(nodes)) < Len(w.path)
<1> DEFINE root == ManifestRoot(nodes)
<1>1. PICK m \in ManifestsIn(nodes) : TRUE
  OBVIOUS
<1>2. /\ m \in nodes /\ m.uid # NoId /\ m.path \in Seq(Names) /\ Len(m.path) > 0
      /\ w.path \in Seq(Names) /\ Len(m.path) \in Nat /\ Len(w.path) \in Nat
  BY <1>1, LenProperties DEF ManifestsIn, Walked, IsNode
<1>3. root \in Seq(Names) /\ IsPrefix(root, Front(m.path)) /\ Len(root) \in Nat
  BY <1>1, RootHolds, LenProperties
<1>4. Front(m.path) \in Seq(Names) /\ Len(Front(m.path)) = Len(m.path) - 1
      /\ \A i \in 1..Len(m.path) - 1 : Front(m.path)[i] = m.path[i]
  <2>1. Len(m.path) - 1 \in 0..Len(m.path)
    BY <1>2
  <2> QED
    BY <1>2, <2>1, PartOfPath DEF Front
<1> HIDE DEF root
<1>5. Len(root) <= Len(m.path) - 1 /\ \A i \in 1..Len(root) : root[i] = m.path[i]
  <2>1. Len(root) <= Len(Front(m.path)) /\ \A i \in 1..Len(root) : root[i] = Front(m.path)[i]
    BY <1>3, <1>4, PrefixByName
  <2> QED
    BY <1>2, <1>3, <1>4, <2>1
<1>6. Len(root) <= Len(w.path) /\ \A i \in 1..Len(root) : root[i] = w.path[i]
  BY <1>2, <1>3, PrefixByName DEF root
<1>7. ASSUME Len(root) = Len(w.path) PROVE FALSE
  <2>1. Len(w.path) <= Len(m.path) /\ \A i \in 1..Len(w.path) : w.path[i] = m.path[i]
    BY <1>2, <1>5, <1>6, <1>7
  <2>2. IsPrefix(w.path, m.path)
    BY <1>2, <2>1, PrefixByName
  <2> QED
    BY <1>2, <2>2 DEF IsTree
<1> QED
  BY <1>2, <1>3, <1>6, <1>7 DEF root

\* A folder called exactly as stored has nothing but settings that the package
\* does not have.
LEMMA ExactMeans ==
    ASSUME NEW nodes \in SUBSET Nodes, IsTree(nodes), "exact" \in Verdicts(nodes)
    PROVE  \E u \in IdsIn(nodes) \cap DOMAIN StoredAs :
              \A w \in Walked(nodes) : w.uid = NoId /\ Last(w.path) # Settings =>
                 \E p \in StoredAs[u].files : p.body = w.body /\ Last(p.path) = Last(w.path)
<1>1. PICK u \in IdsIn(nodes) : StoredOf(nodes, u) = "exact"
  BY DEF Verdicts
<1>2. u \in DOMAIN StoredAs /\ StoredAs[u].same /\ Differs(nodes, StoredAs[u].files) = {}
  BY <1>1 DEF StoredOf
<1> DEFINE package == StoredAs[u].files
           root == ManifestRoot(nodes)
           base == ManifestRoot(package)
<1>3. /\ \A n \in nodes : IsNode(n)
      /\ \A p \in package : IsNode(p)
      /\ ManifestsIn(nodes) # {} /\ ManifestsIn(package) # {}
  BY <1>1, <1>2, ModsFolderAssumption DEF IdsIn, ScanReads
<1>4. root \in Seq(Names) /\ base \in Seq(Names) /\ Len(root) \in Nat /\ Len(base) \in Nat
  BY <1>3, RootHolds, LenProperties
<1>5. ASSUME NEW w \in Walked(nodes), w.uid = NoId, Last(w.path) # Settings
      PROVE  \E p \in package : p.body = w.body /\ Last(p.path) = Last(w.path)
  <2>1. w \in nodes /\ SameAs(w, root, package)
    BY <1>2, <1>5 DEF Differs, Walked
  <2>2. IsPrefix(root, w.path) /\ Len(root) < Len(w.path)
    BY <1>3, <1>5, <2>1, BelowRoot DEF SameAs
  <2>3. PICK p \in package : IsPrefix(base, p.path) /\ Inner(base, p.path) = Inner(root, w.path) /\ p.body = w.body
    BY <2>1 DEF SameAs
  <2>4. /\ w.path \in Seq(Names) /\ p.path \in Seq(Names)
        /\ Len(w.path) \in Nat /\ Len(p.path) \in Nat
    BY <1>3, <2>1, <2>3, LenProperties DEF IsNode
  <2> HIDE DEF package, root, base
  <2>5. Len(Inner(root, w.path)) = Len(w.path) - Len(root) /\ Last(Inner(root, w.path)) = Last(w.path)
    BY <1>4, <2>2, <2>4, RestOfPath
  <2>6. Len(base) < Len(p.path)
    <3>1. Len(base) <= Len(p.path)
      BY <1>4, <2>3, <2>4, PrefixByName
    <3>2. ASSUME Len(base) = Len(p.path) PROVE FALSE
      <4>1. Inner(base, p.path) = << >>
        BY <1>4, <2>4, <3>2, SubSeqEmpty DEF Inner
      <4>2. Len(Inner(base, p.path)) = 0
        BY <4>1, EmptySeq
      <4> QED
        BY <1>4, <2>2, <2>3, <2>4, <2>5, <4>2
    <3> QED
      BY <1>4, <2>4, <3>1, <3>2
  <2>7. Last(Inner(base, p.path)) = Last(p.path)
    BY <1>4, <2>4, <2>6, RestOfPath
  <2> QED
    BY <2>3, <2>5, <2>7
<1> QED
  BY <1>1, <1>2, <1>5

-----------------------------------------------------------------------------
LEMMA NothingThere == DOMAIN << >> = {}
OBVIOUS

\* A review, and what is taken from the folder, name its folders only.
LEMMA AdoptablesAreThere ==
    ASSUME NEW t, AreTrees(t)
    PROVE  /\ Adoptables(t) \subseteq DOMAIN Folders
           /\ \A f \in DOMAIN Folders : \A n \in t[f] : IsNode(n)
BY ModsFolderAssumption DEF AreTrees, Adoptables

LEMMA AdoptionBegins == AdoptionInit => AdoptionInv
<1> SUFFICES ASSUME AdoptionInit PROVE AdoptionInv
  OBVIOUS
<1>1. /\ DOMAIN live = DOMAIN Folders /\ \A f \in DOMAIN Folders : live[f] \in Folders[f]
      /\ shown = NotShown /\ installed = << >> /\ told = {} /\ edits = 0
  BY DEF AdoptionInit
<1>2. job = [at |-> "idle", left |-> {}, ignored |-> << >>, was |-> << >>, edits |-> 0]
  BY DEF AdoptionInit
<1>3. AreTrees(live)
  <2> SUFFICES ASSUME NEW f \in DOMAIN Folders PROVE live[f] \subseteq Nodes /\ IsTree(live[f])
    BY <1>1 DEF AreTrees
  <2>1. live[f] \in Folders[f]
    BY <1>1
  <2>2. IsTree(live[f])
    BY <2>1, ModsFolderAssumption
  <2>3. live[f] \subseteq UNION Folders[f] /\ UNION Folders[f] \subseteq Nodes
    BY <2>1 DEF Nodes
  <2> QED
    BY <2>2, <2>3
<1>4. AdoptionTypeOK
  BY <1>1, <1>2, NothingThere, ModsFolderAssumption DEF AdoptionTypeOK
<1>5. ReviewSound /\ JobSound
  BY <1>1, <1>2 DEF ReviewSound, JobSound
<1>6. InstalledSound /\ UidsApart
  BY <1>1, NothingThere DEF InstalledSound, UidsApart
<1> QED
  BY <1>3, <1>4, <1>5, <1>6 DEF AdoptionInv

LEMMA ScanKeeps == ASSUME AdoptionInv, Scan PROVE AdoptionInv'
<1>1. /\ job.at = "idle" /\ UNCHANGED <<live, job, installed, told, edits>>
  BY DEF Scan
<1>2. PICK v \in [Adoptables(live) -> {"none", "other", "exact", "same_version"}] :
        /\ \A f \in DOMAIN v : v[f] \in Verdicts(live[f])
        /\ shown' = [mark |-> Mark(live), stored |-> v, seen |-> live,
                     problems |-> {f \in Adoptables(live) : HasProblem(live[f])}]
  BY DEF Scan
<1>3. ReviewSound'
  BY <1>2 DEF ReviewSound, AdoptionInv
<1>4. AdoptionTypeOK' /\ AreTrees(live)'
  BY <1>1 DEF AdoptionInv, AdoptionTypeOK, AreTrees
<1>5. JobSound'
  BY <1>1 DEF AdoptionInv, JobSound
<1>6. InstalledSound' /\ UidsApart'
  BY <1>1 DEF AdoptionInv, InstalledSound, UidsApart, Untouched
<1> QED
  BY <1>3, <1>4, <1>5, <1>6 DEF AdoptionInv

LEMMA EditKeeps == ASSUME AdoptionInv, NEW f \in DOMAIN Folders, Edit(f) PROVE AdoptionInv'
<1>1. /\ edits < MaxEdits /\ edits' = edits + 1 /\ job.at # "done"
      /\ UNCHANGED <<shown, job, installed, told>>
  BY DEF Edit
<1>2. \E nodes : /\ live' = [live EXCEPT ![f] = nodes]
                 /\ nodes \subseteq Nodes /\ IsTree(nodes)
  <2>0. live[f] \subseteq Nodes /\ IsTree(live[f])
    BY DEF AdoptionInv, AreTrees
  <2>1. CASE \E n \in live[f] : live' = [live EXCEPT ![f] = @ \ {n}]
    <3>1. PICK n \in live[f] : live' = [live EXCEPT ![f] = live[f] \ {n}]
      BY <2>1
    <3>2. live[f] \ {n} \subseteq Nodes /\ IsTree(live[f] \ {n})
      BY <2>0 DEF IsTree
    <3> QED
      BY <3>1, <3>2
  <2>2. CASE \E n \in Changes : live' = [live EXCEPT ![f] =
               {k \in @ : ~IsPrefix(k.path, n.path) /\ ~IsPrefix(n.path, k.path)} \union {n}]
    <3>1. PICK n \in Changes : live' = [live EXCEPT ![f] =
            {k \in live[f] : ~IsPrefix(k.path, n.path) /\ ~IsPrefix(n.path, k.path)} \union {n}]
      BY <2>2
    <3> DEFINE nodes == {k \in live[f] : ~IsPrefix(k.path, n.path) /\ ~IsPrefix(n.path, k.path)} \union {n}
    <3>2. nodes \subseteq Nodes
      <4>1. n \in Nodes
        BY <3>1 DEF Nodes
      <4> QED
        BY <2>0, <4>1
    <3>3. ASSUME NEW a \in nodes, NEW b \in nodes, IsPrefix(a.path, b.path) PROVE a = b
      <4>1. CASE a \in live[f] /\ b \in live[f]
        BY <2>0, <3>3, <4>1 DEF IsTree
      <4>2. CASE a = n \/ b = n
        BY <3>3, <4>2
      <4> QED
        BY <4>1, <4>2
    <3>4. IsTree(nodes)
      BY <3>3 DEF IsTree
    <3> HIDE DEF nodes
    <3>5. live' = [live EXCEPT ![f] = nodes]
      BY <3>1 DEF nodes
    <3> QED
      BY <3>2, <3>4, <3>5
  <2> QED
    BY <2>1, <2>2 DEF Edit
<1>3. AreTrees(live)'
  BY <1>2 DEF AdoptionInv, AreTrees
<1>4. AdoptionTypeOK'
  BY <1>1, <1>3, ModsFolderAssumption DEF AdoptionInv, AdoptionTypeOK, AreTrees
<1>5. edits \in Nat /\ edits' \in Nat /\ (job.at # "idle" => job.edits \in 0..edits' /\ ~Untouched')
  BY <1>1 DEF AdoptionInv, AdoptionTypeOK, JobSound, Untouched
<1>6. ReviewSound'
  BY <1>1 DEF AdoptionInv, ReviewSound
<1>7. JobSound'
  BY <1>1, <1>5 DEF AdoptionInv, JobSound, ToAdopt
<1>8. InstalledSound' /\ UidsApart'
  <2>1. CASE job.at = "idle"
    BY <1>1, <2>1, NothingThere DEF AdoptionInv, JobSound, InstalledSound, UidsApart
  <2>2. CASE job.at # "idle"
    BY <1>1, <1>5, <2>2 DEF AdoptionInv, InstalledSound, UidsApart
  <2> QED
    BY <2>1, <2>2
<1> QED
  BY <1>3, <1>4, <1>6, <1>7, <1>8 DEF AdoptionInv

LEMMA BeginKeeps ==
    ASSUME AdoptionInv, NEW chosen \in SUBSET DOMAIN Folders, BeginAdoption(chosen)
    PROVE  AdoptionInv'
<1>1. /\ job.at = "idle" /\ shown # NotShown /\ Mark(live) = shown.mark /\ ~ClashAmong(chosen)
      /\ chosen \subseteq DOMAIN shown.stored /\ chosen \subseteq Adoptables(live)
      /\ UNCHANGED <<live, shown, installed, told, edits>>
  BY DEF BeginAdoption
<1>2. job' = [at |-> "adopting", left |-> chosen, was |-> live, edits |-> edits,
              ignored |-> [f \in Adoptables(live) |-> SkippedIn(f)]]
  BY DEF BeginAdoption
<1>3. /\ job'.at = "adopting" /\ job'.left = chosen /\ job'.was = live /\ job'.edits = edits
      /\ \A f \in Adoptables(live) :
           job'.ignored[f] = {n.uid : n \in {k \in ScanReads(live[f]) : Skipped(f, k)}}
  BY <1>2 DEF SkippedIn
<1>4. installed = << >> /\ DOMAIN installed = {}
  BY <1>1, NothingThere DEF AdoptionInv, JobSound
<1>5. \A f, g \in chosen : f # g => IdsIn(live[f]) \cap IdsIn(live[g]) = {}
  BY <1>1 DEF ClashAmong, DuplicatesOf
<1>6. AdoptionTypeOK' /\ AreTrees(live)' /\ ReviewSound'
  BY <1>1, <1>3 DEF AdoptionInv, AdoptionTypeOK, AreTrees, ReviewSound
<1>7. JobSound'
  <2>1. ToAdopt' = chosen
    BY <1>1, <1>3, <1>4 DEF ToAdopt
  <2>2. job' = [at |-> job'.at, left |-> job'.left, ignored |-> job'.ignored,
                was |-> job'.was, edits |-> job'.edits]
    BY <1>2
  <2>3. edits' = edits /\ edits \in 0..edits
    BY <1>1 DEF AdoptionInv, AdoptionTypeOK
  <2>4. AreTrees(job'.was) /\ Mark(job'.was) = shown'.mark
    BY <1>1, <1>3 DEF AdoptionInv
  <2>5. live' = job'.was /\ shown' = shown
    BY <1>1, <1>3
  <2> QED
    BY <1>1, <1>3, <1>4, <1>5, <2>1, <2>2, <2>3, <2>4, <2>5 DEF JobSound
<1>8. InstalledSound' /\ UidsApart'
  BY <1>1, <1>4 DEF InstalledSound, UidsApart
<1> QED
  BY <1>6, <1>7, <1>8 DEF AdoptionInv

LEMMA AdoptKeeps == ASSUME AdoptionInv, NEW f \in DOMAIN Folders, AdoptFolder(f) PROVE AdoptionInv'
<1>0. /\ job.at = "adopting" /\ f \in job.left /\ Installable(live[f])
      /\ job' = [job EXCEPT !.left = @ \ {f}] /\ UNCHANGED <<live, shown, edits>>
  BY DEF AdoptFolder
<1>1. PICK off \in SUBSET job.ignored[f] :
        /\ installed' = [g \in DOMAIN installed \union {f} |->
                           IF g = f THEN [files |-> Placed(live[f]), off |-> off] ELSE installed[g]]
        /\ told' = told \union NoteOf(f, off)
  BY DEF AdoptFolder
<1>2. /\ job'.at = "adopting" /\ job'.left = job.left \ {f} /\ job'.was = job.was
      /\ job'.edits = job.edits /\ job'.ignored = job.ignored
      /\ job' = [at |-> job'.at, left |-> job'.left, ignored |-> job'.ignored,
                 was |-> job'.was, edits |-> job'.edits]
  BY <1>0 DEF AdoptionInv, JobSound
<1>3. /\ DOMAIN installed' = DOMAIN installed \union {f} /\ f \notin DOMAIN installed
      /\ installed'[f] = [files |-> Placed(live[f]), off |-> off]
      /\ \A g \in DOMAIN installed : installed'[g] = installed[g]
  <2>1. f \notin DOMAIN installed
    BY <1>0 DEF AdoptionInv, JobSound
  <2> QED
    BY <1>1, <2>1
<1>4. ToAdopt' = ToAdopt
  BY <1>0, <1>2, <1>3 DEF ToAdopt
<1>5. told \subseteq told' /\ told' \subseteq told \union {f} /\ (off = job.ignored[f] \/ f \in told')
  BY <1>1 DEF NoteOf
<1>6. AdoptionTypeOK' /\ AreTrees(live)' /\ ReviewSound'
  BY <1>0, <1>2, <1>3, <1>5 DEF AdoptionInv, AdoptionTypeOK, AreTrees, ReviewSound
<1>7. JobSound'
  <2>1. job'.left \cap DOMAIN installed' = {}
    BY <1>0, <1>2, <1>3 DEF AdoptionInv, JobSound
  <2>2. AreTrees(job'.was) /\ Mark(job'.was) = shown'.mark /\ shown' = shown
    BY <1>0, <1>2 DEF AdoptionInv, JobSound
  <2>3. job'.edits \in 0..edits' /\ (Untouched' => live' = job'.was)
    BY <1>0, <1>2 DEF AdoptionInv, JobSound, Untouched
  <2>4. /\ ToAdopt' \subseteq Adoptables(job'.was) /\ ToAdopt' \subseteq DOMAIN shown'.stored
        /\ \A g, h \in ToAdopt' : g # h => IdsIn(job'.was[g]) \cap IdsIn(job'.was[h]) = {}
        /\ \A g \in Adoptables(job'.was) :
             job'.ignored[g] = {n.uid : n \in {k \in ScanReads(job'.was[g]) : Skipped(g, k)}}
    BY <1>0, <1>2, <1>4 DEF AdoptionInv, JobSound
  <2>5. job'.at # "idle" /\ shown' # NotShown
    BY <1>0, <1>2 DEF AdoptionInv, JobSound
  <2> QED
    BY <1>2, <2>1, <2>2, <2>3, <2>4, <2>5 DEF JobSound
<1>8. InstalledSound'
  <2>1. \A m, k \in ManifestsIn(live[f]) : m.uid = k.uid => m = k
    BY <1>0 DEF Installable
  <2>2. Untouched' <=> Untouched
    BY <1>0, <1>2 DEF Untouched
  <2> SUFFICES ASSUME NEW g \in DOMAIN installed'
               PROVE  /\ installed'[g].off \subseteq job'.ignored[g]
                      /\ installed'[g].off = job'.ignored[g] \/ g \in told'
                      /\ Untouched' =>
                           /\ installed'[g].files = Placed(live'[g])
                           /\ \A m, k \in ManifestsIn(live'[g]) : m.uid = k.uid => m = k
    BY DEF InstalledSound
  <2>3. CASE g = f
    BY <1>0, <1>2, <1>3, <1>5, <2>1, <2>3
  <2>4. CASE g \in DOMAIN installed
    BY <1>0, <1>2, <1>3, <1>5, <2>2, <2>4 DEF AdoptionInv, InstalledSound
  <2> QED
    BY <1>3, <2>3, <2>4
<1>9. UidsApart'
  <2>1. ASSUME NEW m \in Placed(live[f]), NEW g \in DOMAIN installed, NEW k \in installed[g].files,
               m.uid = k.uid
        PROVE  m.uid = NoId
    <3>1. PICK n \in Walked(live[f]) : m = [n EXCEPT !.path = Inner(ManifestRoot(live[f]), n.path)]
      BY DEF Placed
    <3>2. IsNode(n)
      BY <3>1, AdoptablesAreThere DEF AdoptionInv, Walked
    <3>3. m.uid = n.uid
      BY <3>1, <3>2 DEF IsNode
    <3>4. n.uid # NoId => n \in ManifestsIn(live[f])
      BY DEF ManifestsIn
    <3> QED
      BY <1>0, <2>1, <3>3, <3>4 DEF Installable
  <2> SUFFICES ASSUME NEW g \in DOMAIN installed', NEW h \in DOMAIN installed', g # h,
                      NEW m \in installed'[g].files, NEW k \in installed'[h].files, m.uid = k.uid
               PROVE  m.uid = NoId
    BY DEF UidsApart
  <2>2. installed'[f].files = Placed(live[f])
    BY <1>3
  <2>3. CASE g = f
    BY <1>3, <2>1, <2>2, <2>3
  <2>4. CASE h = f
    BY <1>3, <2>1, <2>2, <2>4
  <2>5. CASE g # f /\ h # f
    BY <1>3, <2>5 DEF AdoptionInv, UidsApart
  <2> QED
    BY <2>3, <2>4, <2>5
<1> QED
  BY <1>6, <1>7, <1>8, <1>9 DEF AdoptionInv

LEMMA EndKeeps == ASSUME AdoptionInv, EndAdoption PROVE AdoptionInv'
<1>1. /\ job.at = "adopting" /\ told' = told \union job.left
      /\ job' = [job EXCEPT !.at = "done", !.left = {}]
      /\ UNCHANGED <<live, shown, installed, edits>>
  BY DEF EndAdoption
<1>2. /\ job'.at = "done" /\ job'.left = {} /\ job'.was = job.was
      /\ job'.edits = job.edits /\ job'.ignored = job.ignored
      /\ job' = [at |-> job'.at, left |-> job'.left, ignored |-> job'.ignored,
                 was |-> job'.was, edits |-> job'.edits]
  BY <1>1 DEF AdoptionInv, JobSound
<1>3. AdoptionTypeOK' /\ AreTrees(live)' /\ ReviewSound'
  BY <1>1, <1>2 DEF AdoptionInv, AdoptionTypeOK, AreTrees, ReviewSound
<1>4. JobSound'
  BY <1>1, <1>2 DEF AdoptionInv, JobSound, Untouched, AreTrees, ToAdopt
<1>5. InstalledSound' /\ UidsApart'
  BY <1>1, <1>2 DEF AdoptionInv, InstalledSound, UidsApart, Untouched
<1> QED
  BY <1>3, <1>4, <1>5 DEF AdoptionInv

LEMMA AdoptionStays == AdoptionInv /\ [AdoptionNext]_adoptionVars => AdoptionInv'
<1> SUFFICES ASSUME AdoptionInv, [AdoptionNext]_adoptionVars PROVE AdoptionInv'
  OBVIOUS
<1>1. CASE Scan
  BY <1>1, ScanKeeps
<1>2. CASE EndAdoption
  BY <1>2, EndKeeps
<1>3. CASE \E f \in DOMAIN Folders : Edit(f) \/ AdoptFolder(f)
  BY <1>3, EditKeeps, AdoptKeeps
<1>4. CASE \E chosen \in (SUBSET DOMAIN Folders) \ {{}} : BeginAdoption(chosen)
  BY <1>4, BeginKeeps
<1>5. CASE UNCHANGED adoptionVars
  <2>1. UNCHANGED <<live, shown, job, installed, told, edits>>
    BY <1>5 DEF adoptionVars
  <2>2. AdoptionTypeOK' /\ AreTrees(live)' /\ ReviewSound'
    BY <2>1 DEF AdoptionInv, AdoptionTypeOK, AreTrees, ReviewSound
  <2>3. ToAdopt' = ToAdopt /\ Untouched' = Untouched
    BY <2>1 DEF Untouched, ToAdopt
  <2>4. JobSound'
    BY <2>1, <2>3 DEF AdoptionInv, JobSound
  <2>5. InstalledSound' /\ UidsApart'
    BY <2>1, <2>3 DEF AdoptionInv, InstalledSound, UidsApart
  <2> QED
    BY <2>2, <2>4, <2>5 DEF AdoptionInv
<1> QED
  BY <1>1, <1>2, <1>3, <1>4, <1>5 DEF AdoptionNext

-----------------------------------------------------------------------------
\* What there is of a folder that was installed.
LEMMA InstalledWas ==
    ASSUME AdoptionInv, NEW f \in DOMAIN installed
    PROVE  /\ job.at # "idle" /\ shown # NotShown
           /\ f \in Adoptables(job.was) /\ f \in DOMAIN shown.stored
           /\ f \in DOMAIN Folders
           /\ job.ignored[f] = {n.uid : n \in {k \in ScanReads(job.was[f]) : Skipped(f, k)}}
<1>1. job.at # "idle"
  BY NothingThere DEF AdoptionInv, JobSound
<1> QED
  BY <1>1 DEF AdoptionInv, JobSound, ToAdopt, AdoptionTypeOK

LEMMA SkippedAndLoaded == ASSUME AdoptionInv PROVE SkippedStaysOff /\ LoadedStaysOn
<1>1. SkippedStaysOff
  <2> SUFFICES ASSUME NEW f \in DOMAIN installed, NEW n \in ScanReads(job.was[f]), Skipped(f, n)
               PROVE  n.uid \in installed[f].off \/ f \in told
    BY DEF SkippedStaysOff, Skipped
  <2>1. n.uid \in job.ignored[f]
    BY InstalledWas
  <2> QED
    BY <2>1 DEF AdoptionInv, InstalledSound
<1>2. LoadedStaysOn
  <2> SUFFICES ASSUME NEW f \in DOMAIN installed, Untouched, NEW k \in ManifestsIn(live[f]),
                      ~Skipped(f, k), k.uid \in installed[f].off
               PROVE  FALSE
    BY DEF LoadedStaysOn, Skipped
  <2>1. PICK n \in ScanReads(job.was[f]) : Skipped(f, n) /\ n.uid = k.uid
    BY InstalledWas DEF AdoptionInv, InstalledSound
  <2>2. live = job.was
    BY InstalledWas DEF AdoptionInv, JobSound
  <2>3. n \in ManifestsIn(live[f])
    BY <2>1, <2>2 DEF ScanReads
  <2>4. n = k
    BY <2>1, <2>3 DEF AdoptionInv, InstalledSound
  <2> QED
    BY <2>1, <2>4
<1> QED
  BY <1>1, <1>2

LEMMA ExactInReview == ASSUME AdoptionInv PROVE ExactIsStored
<1> SUFFICES ASSUME NEW f \in DOMAIN shown.stored, shown.stored[f] = "exact"
             PROVE  \E u \in IdsIn(shown.seen[f]) \cap DOMAIN StoredAs :
                      \A w \in Walked(shown.seen[f]) : w.uid = NoId /\ Last(w.path) # Settings =>
                        \E p \in StoredAs[u].files : p.body = w.body /\ Last(p.path) = Last(w.path)
  BY DEF ExactIsStored
<1>1. shown # NotShown
  BY NothingThere DEF NotShown
<1>2. AreTrees(shown.seen) /\ f \in Adoptables(shown.seen) /\ "exact" \in Verdicts(shown.seen[f])
  BY <1>1 DEF AdoptionInv, ReviewSound
<1>3. shown.seen[f] \in SUBSET Nodes /\ IsTree(shown.seen[f])
  BY <1>2, AdoptablesAreThere DEF AreTrees
<1> QED
  BY <1>2, <1>3, ExactMeans

LEMMA ReviewedIsAdopted == ASSUME AdoptionInv PROVE AdoptedAsReviewed
<1> SUFFICES ASSUME NEW f \in DOMAIN installed, Untouched
             PROVE  /\ {<<n.path, n.size>> : n \in installed[f].files} =
                         {<<Inner(ManifestRoot(live[f]), n.path), n.size>> :
                            n \in {k \in Walked(shown.seen[f]) : IsPrefix(ManifestRoot(live[f]), k.path)}}
                    /\ f \notin shown.problems =>
                         \A n \in shown.seen[f] : IsPrefix(ManifestRoot(live[f]), n.path) =>
                            \E k \in installed[f].files : k.path = Inner(ManifestRoot(live[f]), n.path)
  BY DEF AdoptedAsReviewed
<1> DEFINE root == ManifestRoot(live[f])
           seen == shown.seen[f]
<1>1. /\ shown # NotShown /\ f \in DOMAIN Folders /\ f \in DOMAIN shown.stored
      /\ AreTrees(live) /\ AreTrees(shown.seen) /\ Mark(live) = Mark(shown.seen)
      /\ installed[f].files = Placed(live[f])
  BY InstalledWas DEF AdoptionInv, JobSound, ReviewSound, InstalledSound
<1>2. {<<n.path, n.size>> : n \in Walked(live[f])} = {<<n.path, n.size>> : n \in Walked(seen)}
  BY <1>1 DEF Mark, AreTrees
<1>3. /\ \A n \in Walked(live[f]) : \E k \in Walked(seen) : k.path = n.path /\ k.size = n.size
      /\ \A k \in Walked(seen) : \E n \in Walked(live[f]) : k.path = n.path /\ k.size = n.size
  <2>1. \A n \in Walked(live[f]) : <<n.path, n.size>> \in {<<k.path, k.size>> : k \in Walked(seen)}
    BY <1>2
  <2>2. \A k \in Walked(seen) : <<k.path, k.size>> \in {<<n.path, n.size>> : n \in Walked(live[f])}
    BY <1>2
  <2> QED
    BY <2>1, <2>2
<1>4. \A n \in Walked(live[f]) : IsNode(n)
  BY <1>1, AdoptablesAreThere DEF Walked
<1> HIDE DEF root, seen
<1>5. /\ \A m \in Placed(live[f]) : \E n \in Walked(live[f]) :
           IsPrefix(root, n.path) /\ m.path = Inner(root, n.path) /\ m.size = n.size
      /\ \A n \in Walked(live[f]) : IsPrefix(root, n.path) =>
           \E m \in Placed(live[f]) : m.path = Inner(root, n.path) /\ m.size = n.size
  <2>1. \A n \in Walked(live[f]) :
          /\ [n EXCEPT !.path = Inner(root, n.path)].path = Inner(root, n.path)
          /\ [n EXCEPT !.path = Inner(root, n.path)].size = n.size
    BY <1>4 DEF IsNode
  <2> QED
    BY <2>1 DEF Placed, root
<1>6. {<<n.path, n.size>> : n \in Placed(live[f])} =
        {<<Inner(root, n.path), n.size>> : n \in {k \in Walked(seen) : IsPrefix(root, k.path)}}
  <2>1. ASSUME NEW m \in Placed(live[f])
        PROVE  \E n \in Walked(seen) : IsPrefix(root, n.path) /\ m.path = Inner(root, n.path) /\ m.size = n.size
    BY <1>3, <1>5
  <2>2. ASSUME NEW n \in Walked(seen), IsPrefix(root, n.path)
        PROVE  \E m \in Placed(live[f]) : m.path = Inner(root, n.path) /\ m.size = n.size
    <3>1. PICK k \in Walked(live[f]) : n.path = k.path /\ n.size = k.size
      BY <1>3
    <3> QED
      BY <1>5, <2>2, <3>1
  <2> QED
    BY <2>1, <2>2
<1>7. ASSUME f \notin shown.problems, NEW n \in seen, IsPrefix(root, n.path)
      PROVE  \E k \in Placed(live[f]) : k.path = Inner(root, n.path)
  <2>1. ~HasProblem(seen)
    BY <1>1, <1>7 DEF AdoptionInv, ReviewSound, seen
  <2>2. ~n.link /\ ~(Len(n.path) > MaxDepth + 1)
    BY <1>7, <2>1 DEF HasProblem
  <2>3. Len(n.path) \in Nat /\ MaxDepth \in Nat
    BY <1>1, <1>7, AdoptablesAreThere, LenProperties, ModsFolderAssumption DEF IsNode, seen
  <2>4. n \in Walked(seen)
    BY <1>7, <2>2, <2>3 DEF Walked
  <2>5. PICK k \in Walked(live[f]) : n.path = k.path
    BY <1>3, <2>4
  <2> QED
    BY <1>5, <1>7, <2>5
<1> QED
  BY <1>1, <1>6, <1>7 DEF root, seen

LEMMA OneIsAdopted == ASSUME AdoptionInv PROVE OneOfEach
<1>1. ASSUME NEW f \in job.left, NEW g \in DOMAIN installed, Untouched,
             NEW m \in ScanReads(live[f]), NEW k \in ScanReads(live[g])
      PROVE  m.uid # k.uid
  <2>1. job.at # "idle" /\ live = job.was
    BY <1>1, InstalledWas DEF AdoptionInv, JobSound
  <2>2. f # g /\ f \in ToAdopt /\ g \in ToAdopt
    BY <2>1 DEF AdoptionInv, JobSound, ToAdopt
  <2>3. IdsIn(live[f]) \cap IdsIn(live[g]) = {}
    BY <2>1, <2>2 DEF AdoptionInv, JobSound
  <2> QED
    BY <2>3 DEF IdsIn
<1> QED
  BY <1>1 DEF OneOfEach, AdoptionInv, UidsApart

\* ModsFolder.AdoptionIsFaithful: what is adopted is the folder that was
\* reviewed, each mod once, on or off as it was, whatever happens to the
\* folder meanwhile; and what is called exactly as stored is so.
THEOREM AdoptionStaysFaithful == AdoptionSpec => []AdoptionIsFaithful
<1>1. AdoptionInit => AdoptionInv
  BY AdoptionBegins
<1>2. AdoptionInv /\ [AdoptionNext]_adoptionVars => AdoptionInv'
  BY AdoptionStays
<1>3. AdoptionInv => AdoptionIsFaithful
  BY SkippedAndLoaded, ExactInReview, ReviewedIsAdopted, OneIsAdopted DEF AdoptionInv, AdoptionIsFaithful
<1> QED
  BY <1>1, <1>2, <1>3, PTL DEF AdoptionSpec
=============================================================================
