------------------------------ MODULE GameShelf ------------------------------
(* The registered game installations (services/games.rs, db/mod.rs) and the  *)
(* setup page that registers one and goes back (OnboardingView.tsx). The     *)
(* window carries out one change at a time; its reads run beside that. None  *)
(* of these changes takes the instance lock, so an installation can come     *)
(* into use at any moment.                                                   *)
EXTENDS Naturals, FiniteSets

CONSTANTS
    FolderPaths,   \* what can be typed or found for a game folder
    Canonical,     \* path -> the path it leads to, links followed
    NoGame,
    MaxShelf,      \* bound: installations ever registered
    MaxShelfFaults, MaxShelfKills, MaxUses   \* bounds

ASSUME ShelfAssumption ==
    /\ Canonical \in [FolderPaths -> FolderPaths]
    /\ \A p \in FolderPaths : Canonical[Canonical[p]] = Canonical[p]
    /\ MaxShelf \in Nat
    /\ NoGame \notin 1..MaxShelf \cup [root : FolderPaths, external : BOOLEAN]

VARIABLES
    folder,     \* what each folder is
    shelf,      \* game_installations: id -> [root, external], or NoGame
    profiles,   \* the profiles of an installation
    used,       \* launches, mods, SMAPI, other operations or settings refer to it
    context,    \* app_context
    change,     \* the change on the window's change thread
    wish,       \* the folder chosen on the setup page, not yet registered
    wizard,     \* what the setup page registered
    shelfFaults, shelfKills, uses

shelfVars == <<folder, shelf, profiles, used, context, change, wish, wizard,
               shelfFaults, shelfKills, uses>>

Games == 1..MaxShelf
Registered == {g \in Games : shelf[g] # NoGame}
NoWork == [at |-> "idle", what |-> "none", path |-> NoGame, external |-> FALSE,
           game |-> NoGame, next |-> NoGame, wasActive |-> FALSE, seen |-> NoGame,
           back |-> NoGame, hasty |-> FALSE]
NoWish == [path |-> NoGame, external |-> FALSE, known |-> {}, before |-> NoGame,
           hasty |-> FALSE]
NothingRegistered == [game |-> NoGame, before |-> NoGame, truly |-> NoGame, hasty |-> FALSE]
Fresh == {g \in Games : profiles[g] = "never"}
NextId == CHOOSE g \in Fresh : TRUE

ShelfInit ==
    /\ folder \in [{Canonical[p] : p \in FolderPaths} -> {"fresh", "modded", "unsuitable"}]
    /\ shelf = [g \in Games |-> NoGame]
    /\ profiles = [g \in Games |-> "never"]
    /\ used = [g \in Games |-> FALSE]
    /\ context = [active |-> NoGame, done |-> FALSE]
    /\ change = NoWork /\ wish = NoWish /\ wizard = NothingRegistered
    /\ shelfFaults = 0 /\ shelfKills = 0 /\ uses = 0

-----------------------------------------------------------------------------
(* Registering a folder: accept_game, one database call after another. *)

\* list_games, compared by the folder the paths lead to.
FoundAs(path) == {g \in Registered : shelf[g].root = Canonical[path]}

\* classify_game_support, and what being registered adds to it.
Support(path) ==
    LET kind == folder[Canonical[path]] IN
    IF kind # "unsuitable" /\ \E g \in FoundAs(path) : ~shelf[g].external
    THEN "managed" ELSE kind

MayAccept(path, external) ==
    Support(path) \in IF external THEN {"modded", "managed"} ELSE {"fresh", "managed"}

\* The setup page first reads what is registered and active, on the read
\* threads, while an earlier change of this window may still be under way.
ChooseFolder(path, external) ==
    /\ wish = NoWish /\ wizard.game = NoGame
    /\ change.what # "accept"
    /\ wish' = [path |-> path, external |-> external, known |-> Registered,
                before |-> context.active, hasty |-> change # NoWork]
    /\ UNCHANGED <<folder, shelf, profiles, used, context, change, wizard,
                   shelfFaults, shelfKills, uses>>

BeginRegister ==
    /\ wish # NoWish /\ change = NoWork
    /\ IF MayAccept(wish.path, wish.external)
       THEN /\ change' =
                 [NoWork EXCEPT !.at = "save", !.what = "accept", !.path = wish.path,
                    !.external = wish.external, !.back = context.active,
                    !.hasty = wish.hasty,
                    !.game = IF FoundAs(wish.path) = {} THEN NoGame
                             ELSE CHOOSE g \in FoundAs(wish.path) : TRUE]
            /\ UNCHANGED wish
       ELSE wish' = NoWish /\ UNCHANGED change
    /\ UNCHANGED <<folder, shelf, profiles, used, context, wizard,
                   shelfFaults, shelfKills, uses>>

\* save_game, for a folder that was not found in the list.
NewRow(path, external) == [root |-> Canonical[path], external |-> external]

SaveGame ==
    /\ change.at = "save"
    /\ IF change.game # NoGame
       THEN UNCHANGED <<shelf, profiles>> /\ change' = [change EXCEPT !.at = "list"]
       ELSE /\ Fresh # {}
            /\ shelf' = [shelf EXCEPT ![NextId] = NewRow(change.path, change.external)]
            /\ profiles' = [profiles EXCEPT ![NextId] = "none"]
            /\ change' = [change EXCEPT !.at = "list", !.game = NextId]
    /\ UNCHANGED <<folder, used, context, wish, wizard, shelfFaults, shelfKills, uses>>

\* An installation without a profile gets its "Main", also one that an earlier
\* try left without.
NeedsMain == profiles[change.game] = "none"

ListProfiles ==
    /\ change.at = "list"
    /\ change' = [change EXCEPT !.at = IF NeedsMain THEN "create" ELSE "read"]
    /\ UNCHANGED <<folder, shelf, profiles, used, context, wish, wizard,
                   shelfFaults, shelfKills, uses>>

\* commit_profile_create: the profile, both contexts and the effect at once.
CreateMain ==
    /\ change.at = "create"
    /\ profiles' = [profiles EXCEPT ![change.game] = "main"]
    /\ context' = [context EXCEPT !.active = change.game]
    /\ change' = [change EXCEPT !.at = "read"]
    /\ UNCHANGED <<folder, shelf, used, wish, wizard, shelfFaults, shelfKills, uses>>

-----------------------------------------------------------------------------
(* The context is read, changed in one field and written back whole. *)

\* get_app_context.
ReadContext ==
    /\ change.at = "read"
    /\ change' = [change EXCEPT !.at = "write",
                    !.seen = IF change.what = "finish" THEN [context EXCEPT !.done = TRUE]
                             ELSE [context EXCEPT !.active = change.game]]
    /\ UNCHANGED <<folder, shelf, profiles, used, context, wish, wizard,
                   shelfFaults, shelfKills, uses>>

\* What the setup page remembers once its folder is registered.
Remembered ==
    IF change.what # "accept" THEN wizard
    ELSE IF change.game \in wish.known THEN NothingRegistered
    ELSE [game |-> change.game, before |-> wish.before, truly |-> change.back,
          hasty |-> change.hasty]

\* save_app_context, the last step of each of these changes.
WriteContext ==
    /\ change.at = "write"
    /\ context' = change.seen
    /\ wizard' = Remembered
    /\ wish' = IF change.what = "accept" THEN NoWish ELSE wish
    /\ change' = NoWork
    /\ UNCHANGED <<folder, shelf, profiles, used, shelfFaults, shelfKills, uses>>

\* set_onboarding_disposition.
BeginFinish ==
    /\ change = NoWork /\ wish = NoWish
    /\ context.active # NoGame /\ ~context.done
    /\ change' = [NoWork EXCEPT !.at = "read", !.what = "finish"]
    /\ wizard' = NothingRegistered
    /\ UNCHANGED <<folder, shelf, profiles, used, context, wish,
                   shelfFaults, shelfKills, uses>>

-----------------------------------------------------------------------------
(* Forgetting an installation: remove_unused_game. *)

BeginRemove(g, next) ==
    /\ change = NoWork /\ g \in Registered
    /\ change' = [NoWork EXCEPT !.at = "delete", !.what = "remove", !.game = g,
                    !.next = next, !.wasActive = context.active = g,
                    !.back = IF wizard.game = g THEN wizard.truly ELSE NoGame,
                    !.hasty = wizard.hasty]
    /\ UNCHANGED <<folder, shelf, profiles, used, context, wish,
                   shelfFaults, shelfKills, uses>>

\* Back on the setup page forgets what this page registered.
BackToFolders ==
    /\ wizard.game # NoGame /\ wish = NoWish
    /\ BeginRemove(wizard.game, wizard.before)
    /\ wizard' = NothingRegistered

\* Settings forgets one, and hands "active" to another, if there is one: to
\* one that is in use before one that is not.
Fallbacks(g) ==
    LET others == Registered \ {g}
        inUse == {o \in others : used[o] \/ profiles[o] = "changed"}
    IN IF context.active # g \/ others = {} THEN {NoGame}
       ELSE IF inUse # {} THEN inUse ELSE others

RemoveInSettings(g) ==
    /\ wish = NoWish /\ wizard.game = NoGame
    /\ \E next \in Fallbacks(g) : BeginRemove(g, next)
    /\ UNCHANGED wizard

\* read_game_usage.
InUse(g) == used[g] \/ profiles[g] = "changed" \/ shelf[g].external

\* delete_unused_game: the check and the deletes are one transaction.
NeverCleared(g) == context
Cleared(g) == IF context.active = g THEN [context EXCEPT !.active = NoGame] ELSE context

ProfilesDeleted(g) == [profiles EXCEPT ![g] = "gone"]

DeleteUnused ==
    LET g == change.game
        passesOn == change.wasActive /\ change.next \notin {NoGame, g}
    IN
    /\ change.at = "delete"
    /\ IF InUse(g)
       THEN UNCHANGED <<shelf, profiles, context>> /\ change' = NoWork
       ELSE /\ shelf' = [shelf EXCEPT ![g] = NoGame]
            /\ profiles' = ProfilesDeleted(g)
            /\ context' = Cleared(g)
            /\ change' = IF passesOn THEN [change EXCEPT !.at = "activate"] ELSE NoWork
    /\ UNCHANGED <<folder, used, wish, wizard, shelfFaults, shelfKills, uses>>

\* set_active_game, when the other installation is still registered.
PassOn == IF change.next \in Registered
          THEN [change EXCEPT !.at = "read", !.game = change.next] ELSE NoWork

HandActiveOver ==
    /\ change.at = "activate"
    /\ change' = PassOn
    /\ UNCHANGED <<folder, shelf, profiles, used, context, wish, wizard,
                   shelfFaults, shelfKills, uses>>

-----------------------------------------------------------------------------
(* Failures, and what else happens to the installations. *)

\* A database call fails and ends the change where it is.
ShelfRefused ==
    /\ change # NoWork /\ shelfFaults < MaxShelfFaults
    /\ change' = NoWork
    /\ wish' = IF change.what = "accept" THEN NoWish ELSE wish
    /\ shelfFaults' = shelfFaults + 1
    /\ UNCHANGED <<folder, shelf, profiles, used, context, wizard, shelfKills, uses>>

\* The manager is killed and started again; its pages forget.
KillWindow ==
    /\ shelfKills < MaxShelfKills
    /\ change' = NoWork /\ wish' = NoWish /\ wizard' = NothingRegistered
    /\ shelfKills' = shelfKills + 1
    /\ UNCHANGED <<folder, shelf, profiles, used, context, shelfFaults, uses>>

\* Mods are installed, the game is launched, or a profile is made or renamed,
\* from here or by another program.
Use(g, how) ==
    /\ uses < MaxUses /\ g \in Registered
    /\ how = "changed" => profiles[g] # "none"
    /\ used' = IF how = "used" THEN [used EXCEPT ![g] = TRUE] ELSE used
    /\ profiles' = IF how = "changed" THEN [profiles EXCEPT ![g] = "changed"] ELSE profiles
    /\ uses' = uses + 1
    /\ UNCHANGED <<folder, shelf, context, change, wish, wizard, shelfFaults, shelfKills>>

ShelfStep ==
    \/ \E p \in FolderPaths, b \in BOOLEAN : ChooseFolder(p, b)
    \/ BeginRegister \/ SaveGame \/ ListProfiles \/ CreateMain
    \/ ReadContext \/ WriteContext \/ BeginFinish
    \/ BackToFolders \/ DeleteUnused \/ HandActiveOver
    \/ \E g \in Games : RemoveInSettings(g)
    \/ ShelfRefused \/ KillWindow
    \/ \E g \in Games, how \in {"used", "changed"} : Use(g, how)

ShelfSpec == ShelfInit /\ [][ShelfStep]_shelfVars

-----------------------------------------------------------------------------
\* Values are of their kind, and profiles belong to registered installations.
ShelfTypeOK ==
    /\ \A g \in Registered : shelf[g].root \in FolderPaths
    /\ \A g \in Games : profiles[g] \in IF g \in Registered THEN {"none", "main", "changed"}
                                         ELSE {"never", "gone"}
    /\ context.active \in Games \union {NoGame}
    /\ change.at \in {"idle", "save", "list", "create", "read", "write", "delete", "activate"}

\* A folder is registered once, by whatever path it is reached and wherever
\* registering it was interrupted.
RegisteredOnce ==
    \A g, h \in Registered : Canonical[shelf[g].root] = Canonical[shelf[h].root] => g = h

\* The active installation is a registered one, whatever failed part-way.
ActiveIsRegistered == context.active \in Registered \union {NoGame}

\* A registration that says it worked leaves an active installation with a
\* profile, also when an earlier try was interrupted.
AcceptedIsReady ==
    [][change.what = "accept" /\ change.at = "write" /\ context' = change.seen
         => context'.active \in Registered
            /\ profiles[context'.active] \in {"main", "changed"}]_shelfVars

\* An installation that is in use, by then, is never forgotten.
UsedIsKept ==
    [][\A g \in Registered :
         shelf'[g] = NoGame => ~used[g] /\ profiles[g] # "changed" /\ ~shelf[g].external]_shelfVars

\* Going back on the setup page makes active again what was active before, or
\* keeps what came into use, as long as the page waited for its changes and
\* nothing failed.
Restores ==
    \/ context'.active = change.back
    \/ change.at = "delete" /\ shelf' = shelf
BackRestores ==
    [][change.what = "remove" /\ change.back \in Registered /\ ~change.hasty
       /\ change' = NoWork /\ shelfFaults' = shelfFaults /\ shelfKills' = shelfKills
         => Restores]_shelfVars

\* Registering, forgetting and going back leave installations, profiles and the
\* active one in step, wherever it is cut short.
ShelfIsSound ==
    [](ShelfTypeOK /\ RegisteredOnce /\ ActiveIsRegistered)
    /\ AcceptedIsReady /\ UsedIsKept /\ BackRestores
=============================================================================
