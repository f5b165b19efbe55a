---------------------------- MODULE ChangeChains ----------------------------
(* Changes made of several journaled operations: replacing and reinstalling *)
(* a mod (reinstall.rs), undoing a removal (removal_undo.rs), restoring a   *)
(* restore point (restore_points.rs) and adopting a Mods folder             *)
(* (adoption.rs), with the change set that journals the last two            *)
(* (change_sets.rs) and the record of the last working setup that is kept   *)
(* as a point (known_good.rs). Each install, removal and toggle inside is   *)
(* one step that happens whole or not at all, as AtomicChanges promises.    *)
(*                                                                          *)
(* A package is a deployment folder once it is deployed; it holds one or    *)
(* more mods. A window carries out one such chain at a time; a session      *)
(* check and a command line act between its steps.                          *)
EXTENDS Naturals, FiniteSets, SequencesExt

CONSTANTS
    Mods, Packages,
    ModsOf,        \* [Packages -> SUBSET Mods]
    Needs,         \* [Packages -> SUBSET Mods]: required by its mods
    Order,         \* the packages in the order of their checksums
    Ignored,       \* packages SMAPI skips in the game's own Mods folder
    Kept,          \* packages the store holds intact
    NoPackage,
    MaxAutomatic, MaxNamed,  \* limits on restore points
    MaxFaults, MaxCrashes, MaxChains, MaxOutside   \* bounds

ASSUME ChainsAssumption ==
    /\ ModsOf \in [Packages -> (SUBSET Mods) \ {{}}]
    /\ Needs \in [Packages -> SUBSET Mods]
    /\ Ignored \subseteq Packages /\ Kept \subseteq Packages
    /\ Order \in Seq(Packages) /\ ToSet(Order) = Packages
    /\ Len(Order) = Cardinality(Packages)
    /\ MaxAutomatic \in Nat \ {0} /\ MaxNamed \in Nat \ {0}

VARIABLES
    deployed, on,  \* packages in the profile, and those turned on
    settings,      \* per package: "mine" once the user has changed them
    copies,        \* folders removals kept: <<package, settings>>
    points,        \* restore points, newest first
    good,          \* <<the last working setup>>, or <<>>
    set,           \* the change set's operation
    chain,         \* what is being carried out
    recorder,      \* <<what a session check read before adding a point>>
    faults, crashes, chains, outside

profileVars == <<deployed, on, settings, copies>>
counts == <<crashes, chains, outside>>
chainVars == <<profileVars, points, good, set, chain, recorder, faults, counts>>

Mine == {p \in deployed : settings[p] = "mine"}
Setup == [deployed |-> deployed, on |-> on, mine |-> Mine]
Present == UNION {ModsOf[p] : p \in deployed}
SharingWith(p) == {q \in deployed : ModsOf[q] \cap ModsOf[p] # {}}
Parts == {"removing", "replacing", "installing", "enabling", "settings"}
NoSet == [state |-> "none", carried |-> FALSE, parts |-> <<>>, aside |-> FALSE]
NoSetup == [deployed |-> {}, on |-> {}, mine |-> {}]
NoChain == [kind |-> "none", phase |-> "idle", target |-> NoPackage, olds |-> {},
            was |-> {}, mine |-> {}, turned |-> {}, gone |-> <<>>, missing |-> {},
            failed |-> {}, todo |-> <<>>, left |-> <<>>, goal |-> NoSetup,
            draft |-> <<>>]

NewPoint(setup, automatic) == [setup |-> setup, automatic |-> automatic]
Consistent(d) == \A p, q \in d : p # q => ModsOf[p] \cap ModsOf[q] = {}
Setups == {s \in [deployed : SUBSET Packages, on : SUBSET Packages, mine : {{}}] :
             Consistent(s.deployed) /\ s.on \subseteq s.deployed}
ChainsInit ==
    /\ deployed \in {d \in SUBSET Packages : Consistent(d)}
    /\ on \in SUBSET deployed
    /\ settings = [p \in Packages |-> IF p \in deployed THEN "mine" ELSE "default"]
    /\ copies = {}
    /\ points \in {<<>>} \union {<<NewPoint(s, FALSE)>> : s \in Setups}
    /\ good \in IF points = <<>> THEN {<<>>} \union {<<s>> : s \in Setups} ELSE {<<>>}
    /\ set = NoSet /\ chain = NoChain /\ recorder = <<>>
    /\ faults = 0 /\ crashes = 0 /\ chains = 0 /\ outside = 0

-----------------------------------------------------------------------------
(* The operations inside a chain. *)
Fault == faults < MaxFaults /\ faults' = faults + 1
NoFault == UNCHANGED faults
FaultUnless(fine) == IF fine THEN Fault ELSE NoFault

(* install: refused by a mod that is there already or a missing requirement.*)
CanInstall(p) ==
    p \in Kept /\ ModsOf[p] \cap Present = {} /\ Needs[p] \subseteq Present \union ModsOf[p]
Install(p, s, enabled) ==
    /\ deployed' = deployed \union {p}
    /\ on' = IF enabled THEN on \union {p} ELSE on
    /\ settings' = [settings EXCEPT ![p] = s]
    /\ UNCHANGED copies
(* A removal works on a mod that is turned on, and keeps the folder. *)
RemovePackage(p) ==
    /\ deployed' = deployed \ {p}
    /\ on' = on \ {p}
    /\ copies' = copies \union {<<p, settings[p]>>}
    /\ settings' = [settings EXCEPT ![p] = "default"]
Turn(p, to) ==
    /\ on' = IF to THEN on \union {p} ELSE on \ {p}
    /\ UNCHANGED <<deployed, settings, copies>>
Write(p, s) ==
    /\ settings' = [settings EXCEPT ![p] = s]
    /\ UNCHANGED <<deployed, on, copies>>

Go(phase) == chain' = [chain EXCEPT !.phase = phase]
(* A chain inside a restore hands back to it; any other one answers.        *)
Done(c) ==
    IF c.kind = "restore" /\ c.todo # <<>>
    THEN [c EXCEPT !.phase = "working", !.todo = Tail(@)]
    ELSE [c EXCEPT !.phase = "answered"]
Part(c) ==
    IF c.kind = "restore" /\ c.todo # <<>> THEN Head(c.todo).part ELSE c.kind
Answer == chain' = Done(chain)
Fail == chain' = Done([chain EXCEPT !.failed = @ \union {Part(chain)}])
FailMissing(q) ==
    chain' = [chain EXCEPT !.gone = Tail(@), !.missing = @ \union {q}]

-----------------------------------------------------------------------------
(* Restore points: the newest of each kind stay, up to its own limit.       *)
Prune(ps) ==
    LET Place(i) == Cardinality({j \in 1..i : ps[j].automatic = ps[i].automatic})
        Limit(i) == IF ps[i].automatic THEN MaxAutomatic ELSE MaxNamed
        Stay == SelectSeq([i \in DOMAIN ps |-> i], LAMBDA i : Place(i) <= Limit(i))
    IN [k \in DOMAIN Stay |-> ps[Stay[k]]]
Inserted(ps, point) == Prune(<<point>> \o ps)

(* insert_point: the list is read, and written with the new point. A write  *)
(* that fails ends the chain before anything changed. A restore's undo      *)
(* point and a named one keep the settings too (create_with).               *)
ReadPoints ==
    /\ chain.phase = "point"
    /\ chain' = [chain EXCEPT !.phase = "save", !.draft = points]
    /\ UNCHANGED <<profileVars, points, good, set, recorder, faults, counts>>
PointNow ==
    NewPoint(IF chain.kind \in {"restore", "named"} THEN Setup
             ELSE [Setup EXCEPT !.mine = {}], chain.kind # "named")
AfterPoint ==
    CASE chain.kind = "restore" -> "begin"
      [] chain.kind = "named" -> "answered"
      [] OTHER -> "backup"
SavePoint ==
    /\ chain.phase = "save"
    /\ \/ /\ NoFault
          /\ points' = Inserted(chain.draft, PointNow)
          /\ chain' = [chain EXCEPT !.phase = AfterPoint, !.draft = <<>>]
       \/ /\ Fault /\ UNCHANGED points
          /\ chain' = [chain EXCEPT !.phase = "answered", !.failed = {chain.kind}]
    /\ UNCHANGED <<profileVars, good, set, recorder, counts>>

-----------------------------------------------------------------------------
(* replace: what it takes the place of, read before anything is locked. It  *)
(* is not asked whether the new package can be installed.                   *)
Idle == chain.phase = "idle" /\ chains < MaxChains
Start(c) ==
    /\ Idle
    /\ chain' = c
    /\ chains' = chains + 1
    /\ UNCHANGED <<profileVars, points, good, set, recorder, faults, crashes, outside>>
CanReplace(p) ==
    p \in Kept /\ SharingWith(p) # {} /\ SharingWith(p) \subseteq Kept
Taking(c, p, olds) ==
    [c EXCEPT !.target = p, !.olds = olds, !.was = olds \cap on,
       !.mine = olds \cap Mine, !.turned = {}, !.gone = <<>>]

StartReplace(p) ==
    /\ CanReplace(p)
    /\ Start(Taking([NoChain EXCEPT !.kind = "replace", !.phase = "point",
                       !.goal = Setup], p, SharingWith(p)))
(* reinstall_keeping: the same package removed and installed again.         *)
StartReinstall(p) ==
    /\ p \in deployed \cap Kept
    /\ Start(Taking([NoChain EXCEPT !.kind = "reinstall", !.phase = "point",
                       !.goal = Setup], p, {p}))
StartNamed == Start([NoChain EXCEPT !.kind = "named", !.phase = "point"])

(* back_up: a failed backup of the settings stops the change. *)
BackUp ==
    /\ chain.phase = "backup"
    /\ \/ NoFault /\ Go("olds")
       \/ chain.mine # {} /\ Fault /\ Fail
    /\ UNCHANGED <<profileVars, points, good, set, recorder, counts>>

(* One old version goes: turned on if it was off, then removed, which a mod *)
(* that is off by now refuses. A failure turns it off again and puts the    *)
(* others back; a reinstall just stops.                                     *)
Going == IF chain.turned \ ToSet(chain.gone) # {}
         THEN chain.turned \ ToSet(chain.gone)
         ELSE chain.olds \ ToSet(chain.gone)
FailOld(q) ==
    IF chain.kind = "reinstall"
    THEN Fail /\ UNCHANGED profileVars
    ELSE /\ Go("back")
         /\ IF q \notin chain.was THEN Turn(q, FALSE) ELSE UNCHANGED profileVars
TurnOldOn ==
    /\ chain.phase = "olds"
    /\ \E q \in Going \ (chain.was \union chain.turned) :
         \/ /\ NoFault /\ Turn(q, TRUE)
            /\ chain' = [chain EXCEPT !.turned = @ \union {q}]
         \/ Fault /\ FailOld(q)
    /\ UNCHANGED <<points, good, set, recorder, counts>>
RemoveOld ==
    /\ chain.phase = "olds"
    /\ \E q \in Going \cap (chain.was \union chain.turned) :
         \/ /\ q \in on /\ NoFault /\ RemovePackage(q)
            /\ chain' = [chain EXCEPT !.gone = Append(@, q)]
         \/ FaultUnless(q \in on) /\ FailOld(q)
    /\ UNCHANGED <<points, good, set, recorder, counts>>

InstallNew ==
    LET p == chain.target IN
    /\ chain.phase = "olds" /\ chain.olds \subseteq ToSet(chain.gone)
    /\ \/ CanInstall(p) /\ NoFault /\ Install(p, "default", TRUE) /\ Go("settle")
       \/ /\ FaultUnless(CanInstall(p))
          /\ IF chain.kind = "reinstall" THEN Fail ELSE Go("back")
          /\ UNCHANGED profileVars
    /\ UNCHANGED <<points, good, set, recorder, counts>>

(* Settings go with a single old folder; a mod that was off is off again.   *)
Settle ==
    /\ chain.phase = "settle"
    /\ \/ /\ NoFault /\ Go("off")
          /\ IF Cardinality(chain.olds) = 1 /\ chain.mine # {}
             THEN Write(chain.target, "mine") ELSE UNCHANGED profileVars
       \/ Fault /\ Fail /\ UNCHANGED profileVars
    /\ UNCHANGED <<points, good, set, recorder, counts>>
TurnOff ==
    /\ chain.phase = "off"
    /\ \/ /\ NoFault /\ Answer
          /\ IF chain.was = {} THEN Turn(chain.target, FALSE)
                               ELSE UNCHANGED profileVars
       \/ chain.was = {} /\ Fault /\ Fail /\ UNCHANGED profileVars
    /\ UNCHANGED <<points, good, set, recorder, counts>>

(* put_back: each old version again, in the order in which they went, with  *)
(* its settings and state. What fails half-way is named as missing.         *)
PutBackNone ==
    /\ chain.phase = "back" /\ Fail
    /\ UNCHANGED <<profileVars, points, good, set, recorder, counts, faults>>
PutBack ==
    /\ chain.phase = "back"
    /\ IF chain.gone = <<>>
       THEN NoFault /\ Fail /\ UNCHANGED profileVars
       ELSE LET q == Head(chain.gone)
                s == IF q \in chain.mine THEN "mine" ELSE "default" IN
            \/ /\ CanInstall(q) /\ NoFault
               /\ Install(q, s, q \in chain.was)
               /\ chain' = [chain EXCEPT !.gone = Tail(@)]
            \/ FaultUnless(CanInstall(q)) /\ FailMissing(q) /\ UNCHANGED profileVars
            \/ /\ CanInstall(q) /\ Fault /\ FailMissing(q)
               /\ Install(q, "default", TRUE) \/ Install(q, s, TRUE)
    /\ UNCHANGED <<points, good, set, recorder, counts>>

(* undo of a removal: installed again, settings from the folder it kept.    *)
StartUndo(copy) ==
    /\ copy \in copies
    /\ Start([NoChain EXCEPT !.kind = "undo", !.phase = "again", !.target = copy[1],
                !.mine = {p \in {copy[1]} : copy[2] = "mine"}])
UndoRemoval ==
    LET p == chain.target IN
    /\ chain.phase = "again"
    /\ \/ /\ CanInstall(p) /\ NoFault /\ Answer
          /\ Install(p, IF chain.mine # {} THEN "mine" ELSE "default", TRUE)
       \/ CanInstall(p) /\ Fault /\ Fail /\ Install(p, "default", TRUE)
       \/ FaultUnless(CanInstall(p)) /\ Fail /\ UNCHANGED profileVars
    /\ UNCHANGED <<points, good, set, recorder, counts>>

-----------------------------------------------------------------------------
(* The change set over a restore or an adoption. begin: the row, its parts, *)
(* and only then the note that this process carries it out.                 *)
BeginSet ==
    /\ chain.phase = "begin"
    /\ LET parts == IF chain.kind = "restore" THEN Parts ELSE ToSet(chain.todo)
           new == [NoSet EXCEPT !.state = "Committing",
                                !.parts = [p \in parts |-> "pending"]] IN
       \/ NoFault /\ Go("working") /\ set' = [new EXCEPT !.carried = TRUE]
       \/ /\ Fault
          /\ chain' = [chain EXCEPT !.phase = "answered", !.failed = {chain.kind}]
          /\ set' \in {set, new}
    /\ UNCHANGED <<profileVars, points, good, recorder, counts>>

(* part_done: an error while it is written is ignored. *)
MarkPart(part, fine) ==
    \/ /\ NoFault
       /\ set' = [set EXCEPT !.parts[part] = IF fine THEN "completed" ELSE "failed"]
    \/ Fault /\ UNCHANGED set

(* finish: no longer carried out, then Succeeded, or Failed with what did   *)
(* not work.                                                                *)
FinishSet ==
    /\ chain.phase = "finish"
    /\ \/ /\ NoFault /\ Go("answered")
          /\ set' = [set EXCEPT !.carried = FALSE,
               !.state = IF chain.failed = {} THEN "Succeeded" ELSE "Incomplete"]
       \/ /\ Fault /\ Go("answered")
          /\ set' = [set EXCEPT !.carried = FALSE]
    /\ UNCHANGED <<profileVars, points, good, recorder, counts>>

(* Recovery at a start or on request only marks it; the user puts it aside. *)
RecoverSet ==
    /\ set.state = "Committing" /\ ~set.carried
    /\ set' = [set EXCEPT !.state = "Interrupted"]
    /\ UNCHANGED <<profileVars, points, good, chain, recorder, faults, counts>>
PutAside ==
    /\ set.state = "Interrupted" /\ ~set.aside
    /\ set' = [set EXCEPT !.aside = TRUE]
    /\ UNCHANGED <<profileVars, points, good, chain, recorder, faults, counts>>

-----------------------------------------------------------------------------
(* work: what has to go, change and come, from one reading of the profile.  *)
InOrder(ps) == SelectSeq(Order, LAMBDA p : p \in ps)
Extra(goal) == {p \in deployed : \E m \in ModsOf[p] :
                    m \notin UNION {ModsOf[q] : q \in goal.deployed}}
Changing(goal) == {q \in goal.deployed \ deployed : SharingWith(q) # {}}
Absent(goal) == {q \in goal.deployed : ~(ModsOf[q] \subseteq Present)} \ Changing(goal)
Task(part, do, ps) == [part |-> part, do |-> do, packages |-> ps]
Tasks(part, do, ps) ==
    [i \in 1..Cardinality(ps) |-> Task(part, do, {InOrder(ps)[i]})]
        \o <<Task(part, "mark", {})>>
Work(goal) ==
    Tasks("removing", "remove", Extra(goal))
    \o Tasks("replacing", "replace", Changing(goal))
    \o Tasks("installing", "install", Absent(goal))
    \o <<Task("enabling", "rows", {}), Task("enabling", "mark", {})>>
    \o <<Task("settings", "write", goal.mine), Task("settings", "mark", {})>>

(* restore: refused whole when a package it needs is not kept intact. *)
StartRestore(goal) ==
    /\ set.state # "Committing"
    /\ Changing(goal) \union Absent(goal) \subseteq Kept
    /\ Start([NoChain EXCEPT !.kind = "restore", !.phase = "point",
                !.goal = goal, !.todo = Work(goal)])

Doing(do) == /\ chain.phase = "working" /\ chain.kind = "restore"
             /\ chain.todo # <<>> /\ Head(chain.todo).do = do
Those == Head(chain.todo).packages
RestoreRemoves ==
    /\ Doing("remove")
    /\ \E q \in Those :
         \/ /\ q \in deployed \ (on \union chain.turned) /\ NoFault /\ Turn(q, TRUE)
            /\ chain' = [chain EXCEPT !.turned = @ \union {q}]
         \/ q \in on /\ NoFault /\ RemovePackage(q) /\ Answer
         \/ /\ FaultUnless(q \in on \/ q \notin chain.turned) /\ Fail
            /\ UNCHANGED profileVars
    /\ UNCHANGED <<points, good, set, recorder, counts>>
RestoreReplaces ==
    /\ Doing("replace")
    /\ \E p \in Those :
         IF CanReplace(p)
         THEN \/ NoFault /\ chain' = [Taking(chain, p, SharingWith(p))
                                        EXCEPT !.phase = "backup"]
              \/ Fault /\ Fail
         ELSE NoFault /\ Fail
    /\ UNCHANGED <<profileVars, points, good, set, recorder, counts>>
RestoreInstalls ==
    /\ Doing("install")
    /\ \E p \in Those :
         \/ CanInstall(p) /\ NoFault /\ Install(p, "default", TRUE) /\ Answer
         \/ FaultUnless(CanInstall(p)) /\ Fail /\ UNCHANGED profileVars
    /\ UNCHANGED <<points, good, set, recorder, counts>>

(* The enabled state is read again, and set in two requests. *)
WantedOn(p, to) == to /\ \E q \in chain.goal.deployed :
    ModsOf[q] \cap ModsOf[p] # {} /\ q \in chain.goal.on
Wanted(p, to) == \E q \in chain.goal.deployed :
    ModsOf[q] \cap ModsOf[p] # {} /\ (q \in chain.goal.on) = to
RestoreReadsRows ==
    /\ Doing("rows") /\ NoFault
    /\ chain' = [chain EXCEPT !.todo =
         <<Task("enabling", "on", {p \in deployed \ on : Wanted(p, TRUE)}),
           Task("enabling", "off", {p \in on : Wanted(p, FALSE)})>> \o Tail(@)]
    /\ UNCHANGED <<profileVars, points, good, set, recorder, counts>>
RestoreTurns(do) ==
    /\ Doing(do)
    /\ \/ /\ NoFault /\ Answer
          /\ on' = IF do = "on" THEN on \union Those ELSE on \ Those
          /\ UNCHANGED <<deployed, settings, copies>>
       \/ Those # {} /\ Fault /\ Fail /\ UNCHANGED profileVars
    /\ UNCHANGED <<points, good, set, recorder, counts>>
RestoreWrites ==
    LET homes(q) == SharingWith(q) IN
    /\ Doing("write")
    /\ \/ /\ NoFault
          /\ settings' = [p \in Packages |->
                IF \E q \in Those : p \in homes(q) THEN "mine" ELSE settings[p]]
          /\ IF \A q \in Those : homes(q) # {} THEN Answer ELSE Fail
          /\ UNCHANGED <<deployed, on, copies>>
       \/ Those # {} /\ Fault /\ Fail /\ UNCHANGED profileVars
    /\ UNCHANGED <<points, good, set, recorder, counts>>
RestoreMarks ==
    /\ Doing("mark")
    /\ MarkPart(Head(chain.todo).part, Head(chain.todo).part \notin chain.failed)
    /\ chain' = [chain EXCEPT !.todo = Tail(@),
                   !.phase = IF Len(chain.todo) = 1 THEN "finish" ELSE "working"]
    /\ UNCHANGED <<profileVars, points, good, recorder, counts>>

-----------------------------------------------------------------------------
(* adopt: folders of the game become packages of a new profile. A mod can   *)
(* need one listed after it: what is left is tried again while each round   *)
(* adopts something.                                                        *)
StartAdoption(folders) ==
    /\ deployed = {} /\ points = <<>> /\ copies = {} /\ set.state = "none"
    /\ folders # <<>> /\ Consistent(ToSet(folders))
    /\ Start([NoChain EXCEPT !.kind = "adoption", !.phase = "begin",
                !.todo = folders, !.goal.deployed = ToSet(folders)])
Adopting == chain.phase = "working" /\ chain.kind = "adoption"
Adopt ==
    LET p == Head(chain.todo) IN
    /\ Adopting /\ chain.todo # <<>>
    /\ \/ /\ CanInstall(p) /\ NoFault /\ Install(p, "mine", TRUE)
          /\ chain' = [chain EXCEPT !.phase = IF p \in Ignored THEN "hush" ELSE "adopted"]
       \/ /\ FaultUnless(CanInstall(p)) /\ UNCHANGED profileVars
          /\ chain' = [chain EXCEPT !.todo = Tail(@), !.left = Append(@, p)]
    /\ UNCHANGED <<points, good, set, recorder, counts>>
Hush ==
    /\ chain.phase = "hush"
    /\ \/ NoFault /\ Turn(Head(chain.todo), FALSE) /\ Go("adopted")
       \/ /\ Fault /\ UNCHANGED profileVars
          /\ chain' = [chain EXCEPT !.phase = "adopted",
                         !.failed = @ \union {Head(chain.todo)}]
    /\ UNCHANGED <<points, good, set, recorder, counts>>
Adopted ==
    LET p == Head(chain.todo) IN
    /\ chain.phase = "adopted"
    /\ MarkPart(p, p \notin chain.failed)
    /\ chain' = [chain EXCEPT !.phase = "working", !.todo = Tail(@),
                   !.turned = @ \union {p}]
    /\ UNCHANGED <<profileVars, points, good, recorder, counts>>
NextRound ==
    /\ Adopting /\ chain.todo = <<>> /\ chain.left # <<>> /\ chain.turned # {}
    /\ chain' = [chain EXCEPT !.todo = chain.left, !.left = <<>>, !.turned = {}]
    /\ UNCHANGED <<profileVars, points, good, set, recorder, faults, counts>>
LastRound ==
    /\ Adopting /\ chain.todo = <<>>
    /\ chain.left = <<>> \/ chain.turned = {}
    /\ chain' = [chain EXCEPT !.phase = "finish", !.failed = @ \union ToSet(chain.left)]
    /\ set' = [set EXCEPT !.parts = [p \in DOMAIN @ |->
                  IF p \in ToSet(chain.left) THEN "failed" ELSE @[p]]]
    /\ UNCHANGED <<profileVars, points, good, recorder, faults, counts>>

-----------------------------------------------------------------------------
(* Around the chains. *)
Read == chain.phase = "answered" /\ chain' = NoChain
        /\ UNCHANGED <<profileVars, points, good, set, recorder, faults, counts>>
Crash ==
    /\ crashes < MaxCrashes /\ chain.phase \notin {"idle", "answered"}
    /\ crashes' = crashes + 1
    /\ chain' = NoChain /\ recorder' = <<>>
    /\ set' = [set EXCEPT !.carried = FALSE]
    /\ UNCHANGED <<profileVars, points, good, faults, chains, outside>>
(* Another program turns a mod on or off. *)
Outside(p) ==
    /\ outside < MaxOutside /\ p \in deployed
    /\ outside' = outside + 1
    /\ Turn(p, p \notin on)
    /\ UNCHANGED <<points, good, set, chain, recorder, faults, crashes, chains>>
(* KnownGood::record, by a session check: the setup that worked before is   *)
(* kept as a point when it was another one.                                 *)
RecordReads ==
    /\ recorder = <<>> /\ outside < MaxOutside
    /\ outside' = outside + 1
    /\ IF good = <<>> \/ good = <<[Setup EXCEPT !.mine = {}]>>
       THEN good' = <<[Setup EXCEPT !.mine = {}]>> /\ UNCHANGED recorder
       ELSE /\ recorder' = <<[read |-> points, now |-> [Setup EXCEPT !.mine = {}]]>>
            /\ UNCHANGED good
    /\ UNCHANGED <<profileVars, points, set, chain, faults, crashes, chains>>
RecordWrites ==
    /\ recorder # <<>>
    /\ points' = Inserted(Head(recorder).read, NewPoint(Head(good), TRUE))
    /\ good' = <<Head(recorder).now>>
    /\ recorder' = <<>>
    /\ UNCHANGED <<profileVars, set, chain, faults, counts>>

ChainSteps ==
    \/ ReadPoints \/ SavePoint \/ BackUp \/ TurnOldOn \/ RemoveOld \/ InstallNew
    \/ Settle \/ TurnOff \/ PutBack \/ UndoRemoval \/ BeginSet \/ FinishSet
    \/ RestoreRemoves \/ RestoreReplaces \/ RestoreInstalls \/ RestoreReadsRows
    \/ RestoreTurns("on") \/ RestoreTurns("off") \/ RestoreWrites \/ RestoreMarks
    \/ Adopt \/ Hush \/ Adopted \/ NextRound \/ LastRound \/ Read
ChainsNext ==
    \/ \E p \in Packages : StartReplace(p) \/ StartReinstall(p) \/ Outside(p)
    \/ \E copy \in copies : StartUndo(copy)
    \/ \E i \in DOMAIN points : StartRestore(points[i].setup)
    \/ \E setup \in ToSet(good) : StartRestore(setup)
    \/ deployed = {} /\ \E ps \in SUBSET Packages :
         StartAdoption(InOrder(ps)) \/ StartAdoption(Reverse(InOrder(ps)))
    \/ StartNamed \/ ChainSteps \/ Crash \/ RecoverSet \/ PutAside
    \/ RecordReads \/ RecordWrites
ChainsFairness == WF_chainVars(ChainSteps) /\ WF_chainVars(RecoverSet)
ChainsSpec == ChainsInit /\ [][ChainsNext]_chainVars /\ ChainsFairness

-----------------------------------------------------------------------------
(* What the chains promise. *)
Answered(kind) == chain.phase = "answered" /\ chain.kind = kind

(* Types: what is turned on or carried out is in the profile or the store,  *)
(* no mod is deployed twice, and a set that this process carries out is the *)
(* chain's own.                                                             *)
ChainsTypeOK ==
    /\ on \subseteq deployed /\ deployed \subseteq Packages /\ Consistent(deployed)
    /\ settings \in [Packages -> {"mine", "default"}] /\ Mine \subseteq deployed
    /\ copies \subseteq Packages \X {"mine", "default"}
    /\ set.carried => /\ set.state = "Committing"
                      /\ chain.kind \in {"restore", "adoption"}
    /\ chain.target \in Packages \union {NoPackage} /\ chain.olds \subseteq Packages

(* ReinstallService::replace: whatever fails in it, when it answers each    *)
(* old version is replaced, or there again with its settings and its state, *)
(* or named as missing.                                                     *)
ReplaceKeepsMods ==
    Answered("replace") => \A q \in chain.olds :
        \/ chain.target \in deployed
        \/ q \in chain.missing
        \/ /\ q \in deployed
           /\ q \in Mine <=> q \in chain.mine
           /\ outside = 0 => (q \in on <=> q \in chain.was)

(* ReinstallService::reinstall_keeping: a reinstall that reports no failure *)
(* leaves packages, enabled state and settings as they were, although the   *)
(* mod was turned on, removed and installed in between.                     *)
ReinstallIsNoChange ==
    Answered("reinstall") /\ chain.failed = {} /\ outside = 0 => Setup = chain.goal

(* RestorePoints::restore: when it reports no failure the profile holds the *)
(* point's packages and settings, whatever other programs turned on or off  *)
(* meanwhile, and without them the point's enabled state too.               *)
RestoreReaches ==
    Answered("restore") /\ chain.failed = {} =>
        /\ deployed = chain.goal.deployed
        /\ chain.goal.mine \subseteq Mine
        /\ outside = 0 => on = chain.goal.on

(* ChangeSets::part_done: while a restore goes on, the parts its journal    *)
(* shows as done are, so what is left after an interruption is what is left.*)
DonePartsAreDone ==
    chain.kind = "restore" /\ set.carried =>
        /\ set.parts["removing"] = "completed" => Extra(chain.goal) = {}
        /\ set.parts["replacing"] = "completed" => Changing(chain.goal) = {}
        /\ {set.parts["replacing"], set.parts["installing"]} = {"completed"} =>
             chain.goal.deployed \subseteq deployed

(* AdoptionService::adopt: whatever the order of the folders, a folder that *)
(* was not adopted is named, and without a failed call it could not be.     *)
AdoptsAllItCan ==
    Answered("adoption") /\ set.state \in {"Succeeded", "Incomplete"} =>
        \A p \in chain.goal.deployed \ deployed :
            p \in chain.failed /\ (faults = 0 => ~CanInstall(p))

(* prune: whoever adds a restore point, each kind keeps to its own limit.   *)
PointsKeepLimits ==
    /\ Len(SelectSeq(points, LAMBDA x : x.automatic)) <= MaxAutomatic
    /\ Len(SelectSeq(points, LAMBDA x : ~x.automatic)) <= MaxNamed

(* ChangeSets and its recovery: no change set stays open: it is finished,   *)
(* or, when the app stopped or its end could not be written, marked as      *)
(* interrupted.                                                             *)
SetsEnd == set.state = "Committing" ~> set.state # "Committing"

(* replace's comment: if the new package cannot be installed, the old ones  *)
(* are installed again, so the profile is never left without the mod.       *)
NeverLeftWithout ==
    Answered("replace") => chain.target \in deployed \/ chain.olds \subseteq deployed

(* Chains of a removal and an install lose no mod without saying so.        *)
ReplacementsKeepMods == ChainsTypeOK /\ ReplaceKeepsMods /\ ReinstallIsNoChange

(* Changes made of parts do what they report, and every one of them ends.   *)
ChangeSetsComeTrue ==
    /\ [](RestoreReaches /\ DonePartsAreDone /\ AdoptsAllItCan /\ PointsKeepLimits)
    /\ SetsEnd
=============================================================================
