----------------------------- MODULE GameProofs ------------------------------
(***************************************************************************)
(* Proofs about what lies around the profiles: the game installations      *)
(* (GameShelf), the farm saves with their backups (SaveBackups), the files *)
(* of an installed mod (ModFiles), and SMAPI's setups with the sessions of *)
(* the game (SmapiSetup, Sessions), for any folders, files and bounds.     *)
(*                                                                         *)
(* ShelfInv says what a change of the installations knows at each of its   *)
(* calls: the folder it registers was not found, the installation it makes *)
(* active is registered and has a profile, the context it writes back is   *)
(* still the one it read.  BackRestores needs the page's memory as well:   *)
(* while it holds a registration nothing else has begun, so what it took   *)
(* to be active is what the registration found.                            *)
(*                                                                         *)
(* SavesInv says how far a copy is that the game did not disturb, and that *)
(* the copy of the save a restore removed is the newest one, which no      *)
(* cleanup offers.                                                         *)
(*                                                                         *)
(* ModInv says what a change of settings has copied and written so far,    *)
(* and that an acceptance keeps what the player saw in the folder.         *)
(*                                                                         *)
(* GameInv says how far a setup of SMAPI is where the window is, what its  *)
(* installer has written so far, that the row about to be saved is what    *)
(* will be in the folder, and that a launch on its way is of the latest    *)
(* session, whose process nothing has recorded yet.                        *)
(***************************************************************************)
EXTENDS Sessions, GameShelf, SaveBackups, ModFiles, FiniteSetTheorems, SequenceTheorems, TLAPS

MaybeGame == Games \cup {NoGame}
Contexts == [active : MaybeGame, done : BOOLEAN]
Steps == {"idle", "save", "list", "create", "read", "write", "delete", "activate"}
Works == [at : Steps, what : {"none", "accept", "finish", "remove"},
          path : FolderPaths \cup {NoGame}, external : BOOLEAN, game : MaybeGame,
          next : MaybeGame, wasActive : BOOLEAN, seen : Contexts \cup {NoGame},
          back : MaybeGame, hasty : BOOLEAN]
Wishes == [path : FolderPaths \cup {NoGame}, external : BOOLEAN, known : SUBSET Games,
           before : MaybeGame, hasty : BOOLEAN]
Memories == [game : MaybeGame, before : MaybeGame, truly : MaybeGame, hasty : BOOLEAN]
Rows == [root : FolderPaths, external : BOOLEAN]

\* What each variable may hold.
ShelfTypes ==
    /\ shelf \in [Games -> Rows \cup {NoGame}]
    /\ profiles \in [Games -> {"never", "none", "main", "changed", "gone"}]
    /\ used \in [Games -> BOOLEAN]
    /\ context \in Contexts
    /\ change \in Works /\ wish \in Wishes /\ wizard \in Memories
    /\ shelfFaults \in Nat /\ shelfKills \in Nat

\* The installations themselves: the claims about the state, and roots that
\* are stored with every link followed.
RowsSound ==
    /\ ShelfTypeOK /\ RegisteredOnce /\ ActiveIsRegistered
    /\ \A g \in Registered : Canonical[shelf[g].root] = shelf[g].root

\* A registration: what it knows after each of its calls.
AcceptSound ==
    change.what = "accept" =>
        /\ wish # NoWish /\ change.hasty = wish.hasty
        /\ change.path = wish.path /\ change.path \in FolderPaths
        /\ ~change.hasty => change.back = wish.before
        /\ change.at \in {"save", "list", "create", "read", "write"}
        /\ IF change.game = NoGame
           THEN change.at = "save" /\ FoundAs(change.path) = {}
           ELSE change.game \in Registered
        /\ change.at \in {"read", "write"} => profiles[change.game] # "none"

\* Forgetting an installation, and handing "active" to another.
RemoveSound ==
    change.what = "remove" =>
        /\ change.at \in {"delete", "activate", "read", "write"}
        /\ change.game \in Games
        /\ change.at = "delete" => change.game \in Registered
        /\ change.at \in {"read", "write"} => change.game \in Registered /\ change.game = change.next
        /\ change.back # NoGame =>
             /\ ~change.hasty => change.next = change.back
             /\ change.at = "delete" => change.wasActive /\ change.next # change.game

\* The context a change writes back.
WriteSound ==
    change.at = "write" =>
        /\ change.seen \in Contexts
        /\ change.seen.active =
             IF change.what = "finish" THEN context.active ELSE change.game

WorkSound ==
    /\ change.what = "none" <=> change = NoWork
    /\ change.what = "none" <=> change.at = "idle"
    /\ change.what = "finish" => change.at \in {"read", "write"}
    /\ AcceptSound /\ RemoveSound /\ WriteSound

\* The setup page: its wish stands until the registration ends, and what it
\* registered is active until it acts on it.
PageSound ==
    /\ wish # NoWish =>
         /\ wizard.game = NoGame
         /\ wish.path \in FolderPaths
         /\ wish.before \in wish.known \cup {NoGame}
         /\ ~wish.hasty /\ change.what # "accept" => change = NoWork /\ wish.before = context.active
    /\ wizard.game # NoGame =>
         /\ wish = NoWish /\ change = NoWork
         /\ context.active = wizard.game /\ wizard.game \in Registered
         /\ wizard.before # wizard.game
         /\ ~wizard.hasty => wizard.before = wizard.truly

ShelfInv == ShelfTypes /\ RowsSound /\ WorkSound /\ PageSound

-----------------------------------------------------------------------------
(* The installations.                                                       *)

LEMMA NoGameIsNone == NoGame \notin Games /\ NoGame \notin Rows
BY ShelfAssumption DEF Games, Rows

\* A folder's path leads to a folder, where it stays.
LEMMA LeadsToRoot ==
    ASSUME NEW p \in FolderPaths
    PROVE  Canonical[p] \in FolderPaths /\ Canonical[Canonical[p]] = Canonical[p]
BY ShelfAssumption

LEMMA NoWorkIsWork ==
    /\ NoWork \in Works /\ NoWish \in Wishes /\ NothingRegistered \in Memories
    /\ NoWork.at = "idle" /\ NoWork.what = "none"
BY DEF NoWork, Works, Steps, MaybeGame, NoWish, Wishes, NothingRegistered, Memories

\* What BeginRegister and BeginRemove begin with.
Accepting(path, external, id, back, hasty) ==
    [at |-> "save", what |-> "accept", path |-> path, external |-> external, game |-> id,
     next |-> NoGame, wasActive |-> FALSE, seen |-> NoGame, back |-> back, hasty |-> hasty]
Removing(id, next, wasActive, back, hasty) ==
    [at |-> "delete", what |-> "remove", path |-> NoGame, external |-> FALSE, game |-> id,
     next |-> next, wasActive |-> wasActive, seen |-> NoGame, back |-> back, hasty |-> hasty]

LEMMA RegisterAccepts ==
    ASSUME BeginRegister, MayAccept(wish.path, wish.external)
    PROVE  change' = Accepting(wish.path, wish.external,
                               IF FoundAs(wish.path) = {} THEN NoGame
                               ELSE CHOOSE g \in FoundAs(wish.path) : TRUE,
                               context.active, wish.hasty)
<1>1. ASSUME NEW p, NEW b, NEW g, NEW n, NEW h
      PROVE  [NoWork EXCEPT !.at = "save", !.what = "accept", !.path = p, !.external = b,
                            !.back = n, !.hasty = h, !.game = g] = Accepting(p, b, g, n, h)
  <2>1. ASSUME NEW x,
               x = [NoWork EXCEPT !.at = "save", !.what = "accept", !.path = p, !.external = b,
                                  !.back = n, !.hasty = h, !.game = g]
        PROVE  x = Accepting(p, b, g, n, h)
    BY <2>1 DEF NoWork, Accepting
  <2> QED
    BY <2>1
<1> QED
  BY <1>1 DEF BeginRegister

LEMMA BegunIsWork ==
    ASSUME NEW p \in FolderPaths \cup {NoGame}, NEW b \in BOOLEAN, NEW h \in BOOLEAN,
           NEW g \in MaybeGame, NEW n \in MaybeGame
    PROVE  Accepting(p, b, g, n, h) \in Works /\ \A m \in MaybeGame : Removing(g, n, b, m, h) \in Works
BY DEF Accepting, Removing, Works, Steps, MaybeGame

LEMMA ShelfStarts == ShelfInit => ShelfInv
<1> SUFFICES ASSUME ShelfInit PROVE ShelfInv
  OBVIOUS
<1> USE NoGameIsNone
<1>1. ShelfTypes
  BY DEF ShelfInit, ShelfTypes, Contexts, MaybeGame, Works, Steps, Wishes, Memories,
         NoWork, NoWish, NothingRegistered
<1>2. RowsSound
  BY DEF ShelfInit, RowsSound, ShelfTypeOK, RegisteredOnce, ActiveIsRegistered, Registered, NoWork
<1>3. WorkSound /\ PageSound
  BY DEF ShelfInit, WorkSound, AcceptSound, RemoveSound, WriteSound, PageSound, NoWork, NoWish,
         NothingRegistered
<1> QED
  BY <1>1, <1>2, <1>3 DEF ShelfInv

\* Every step but a use, a kill and a refusal keeps the values in their kinds.
LEMMA ShelfTypesKept == ShelfInv /\ ShelfStep => ShelfTypes'
<1> SUFFICES ASSUME ShelfInv, ShelfStep PROVE ShelfTypes'
  OBVIOUS
<1> USE NoGameIsNone DEF ShelfInv, ShelfTypes
<1>1. ASSUME NEW p \in FolderPaths, NEW b \in BOOLEAN, ChooseFolder(p, b) PROVE ShelfTypes'
  BY <1>1 DEF ChooseFolder, Wishes, Registered, Contexts
<1>2. CASE BeginRegister
  <2>1. wish' \in Wishes
    BY <1>2, NoWorkIsWork DEF BeginRegister
  <2>2. FoundAs(wish.path) # {} => (CHOOSE g \in FoundAs(wish.path) : TRUE) \in Games
    BY DEF FoundAs, Registered
  <2>3. change' \in Works
    <3> DEFINE g == IF FoundAs(wish.path) = {} THEN NoGame
                    ELSE CHOOSE g \in FoundAs(wish.path) : TRUE
    <3>1. g \in MaybeGame
      BY <2>2 DEF MaybeGame
    <3> HIDE DEF g
    <3>2. CASE MayAccept(wish.path, wish.external)
      <4>1. change' = Accepting(wish.path, wish.external, g, context.active, wish.hasty)
        BY <1>2, <3>2, RegisterAccepts DEF g
      <4>2. wish.path \in FolderPaths \cup {NoGame} /\ wish.external \in BOOLEAN
            /\ wish.hasty \in BOOLEAN /\ context.active \in MaybeGame
        BY DEF Wishes, Contexts
      <4> QED
        BY <3>1, <4>1, <4>2, BegunIsWork
    <3>3. CASE ~MayAccept(wish.path, wish.external)
      BY <1>2, <3>3 DEF BeginRegister
    <3> QED
      BY <3>2, <3>3
  <2> QED
    BY <1>2, <2>1, <2>3 DEF BeginRegister
<1>3. CASE SaveGame
  <2>1. Fresh # {} => NextId \in Games
    BY DEF NextId, Fresh
  <2>2. change' \in Works
    <3>1. NextId \in MaybeGame \/ Fresh = {}
      BY <2>1 DEF MaybeGame
    <3>2. CASE change.game # NoGame
      BY <1>3, <3>2 DEF SaveGame, Works, Steps
    <3>3. CASE change.game = NoGame
      <4>1. Fresh # {} /\ change' = [change EXCEPT !.at = "list", !.game = NextId]
        BY <1>3, <3>3, Zenon DEF SaveGame
      <4> QED
        BY <3>1, <4>1 DEF Works, Steps
    <3> QED
      BY <3>2, <3>3
  <2>3. change.game = NoGame => NewRow(change.path, change.external) \in Rows
    BY <1>3, LeadsToRoot DEF SaveGame, NewRow, Rows, WorkSound, AcceptSound, RemoveSound, Works
  <2>4. shelf' \in [Games -> Rows \cup {NoGame}]
    BY <1>3, <2>1, <2>3 DEF SaveGame
  <2>5. profiles' \in [Games -> {"never", "none", "main", "changed", "gone"}]
    BY <1>3, <2>1 DEF SaveGame
  <2> QED
    BY <1>3, <2>2, <2>4, <2>5 DEF SaveGame
<1>4. CASE ListProfiles
  BY <1>4 DEF ListProfiles, Works, Steps
<1>5. CASE CreateMain
  BY <1>5 DEF CreateMain, Works, Steps, Contexts, MaybeGame
<1>6. CASE ReadContext
  BY <1>6 DEF ReadContext, Works, Steps, Contexts
<1>7. CASE WriteContext
  <2>1. Remembered \in Memories
    BY DEF Remembered, Memories, NothingRegistered, MaybeGame, Works, Wishes
  <2> QED
    BY <1>7, <2>1 DEF WriteContext, WorkSound, WriteSound, NoWish, Wishes, NoWork, Works, Steps, MaybeGame
<1>8. CASE BeginFinish
  BY <1>8 DEF BeginFinish, Works, Steps, NoWork, NothingRegistered, Memories, MaybeGame
<1>9. ASSUME NEW g \in Games, NEW next \in MaybeGame, BeginRemove(g, next),
             wizard' \in Memories
      PROVE  ShelfTypes'
  <2> DEFINE truly == IF wizard.game = g THEN wizard.truly ELSE NoGame
  <2>1. truly \in MaybeGame
    BY DEF Memories, MaybeGame
  <2>2. (context.active = g) \in BOOLEAN
    OBVIOUS
  <2> HIDE DEF truly
  <2>3. change' = Removing(g, next, context.active = g, truly, wizard.hasty)
    BY <1>9 DEF BeginRemove, truly, NoWork, Removing
  <2>4. change' \in Works
    BY <2>1, <2>2, <2>3, BegunIsWork DEF Memories, MaybeGame
  <2> QED
    BY <1>9, <2>4 DEF BeginRemove
<1>10. CASE BackToFolders
  BY <1>9, <1>10 DEF BackToFolders, Memories, NothingRegistered, MaybeGame
<1>11. ASSUME NEW g \in Games, RemoveInSettings(g) PROVE ShelfTypes'
  <2>1. Fallbacks(g) \subseteq MaybeGame
    BY DEF Fallbacks, Registered, MaybeGame
  <2> QED
    BY <1>9, <1>11, <2>1 DEF RemoveInSettings
<1>12. CASE DeleteUnused
  <2>1. context' \in Contexts
    BY <1>12 DEF DeleteUnused, Cleared, Contexts, MaybeGame
  <2>2. change' \in Works
    <3>1. change' = NoWork \/ change' = [change EXCEPT !.at = "activate"]
      BY <1>12 DEF DeleteUnused
    <3> QED
      BY <3>1, NoWorkIsWork DEF Works, Steps
  <2> QED
    BY <1>12, <2>1, <2>2 DEF DeleteUnused, ProfilesDeleted
<1>13. CASE HandActiveOver
  BY <1>13 DEF HandActiveOver, PassOn, Works, Steps, NoWork, MaybeGame, Registered
<1>14. CASE ShelfRefused \/ KillWindow
  BY <1>14, NoWorkIsWork DEF ShelfRefused, KillWindow
<1>15. ASSUME NEW g \in Games, NEW how \in {"used", "changed"}, Use(g, how) PROVE ShelfTypes'
  BY <1>15 DEF Use
<1> QED
  BY <1>1, <1>2, <1>3, <1>4, <1>5, <1>6, <1>7, <1>8, <1>10, <1>11, <1>12, <1>13, <1>14, <1>15
     DEF ShelfStep

\* Registering, making the first profile, writing the context, forgetting and
\* using keep the installations, their profiles and the active one in step.
LEMMA RowsKept == ShelfInv /\ ShelfStep => RowsSound'
<1> SUFFICES ASSUME ShelfInv, ShelfStep PROVE RowsSound'
  OBVIOUS
<1> USE NoGameIsNone
<1>t. ShelfTypes /\ ShelfTypes' /\ RowsSound /\ WorkSound
  BY ShelfTypesKept DEF ShelfInv
<1>0. CASE UNCHANGED <<shelf, profiles, context>>
  <2>1. change'.at \in {"idle", "save", "list", "create", "read", "write", "delete", "activate"}
    BY <1>t DEF ShelfTypes, Works, Steps
  <2> QED
    BY <1>t, <1>0, <2>1 DEF RowsSound, ShelfTypeOK, RegisteredOnce, ActiveIsRegistered, Registered
<1>1. CASE SaveGame
  <2>1. CASE change.game # NoGame
    BY <1>0, <1>1, <2>1 DEF SaveGame
  <2>2. CASE change.game = NoGame
    <3> DEFINE n == NextId
               added == NewRow(change.path, change.external)
    <3>1. n \in Games /\ profiles[n] = "never"
      BY <1>1, <2>2 DEF SaveGame, NextId, Fresh
    <3>2. change.path \in FolderPaths /\ FoundAs(change.path) = {}
      BY <1>t, <1>1, <2>2 DEF SaveGame, ShelfTypes, WorkSound, AcceptSound, RemoveSound, Works
    <3>3. added \in Rows /\ added # NoGame /\ added.root = Canonical[change.path]
      BY <1>t, <3>2, LeadsToRoot DEF NewRow, Rows, ShelfTypes, Works
    <3>4. shelf' = [shelf EXCEPT ![n] = added] /\ profiles' = [profiles EXCEPT ![n] = "none"]
      BY <1>1, <2>2 DEF SaveGame
    <3> HIDE DEF n, added
    <3>5. n \notin Registered
      BY <1>t, <3>1 DEF RowsSound, ShelfTypeOK
    <3>6. Registered' = Registered \cup {n}
      BY <1>t, <3>1, <3>3, <3>4 DEF Registered, ShelfTypes
    <3>7. \A g \in Registered : shelf'[g] = shelf[g] /\ profiles'[g] = profiles[g] /\ g \in Games
      BY <1>t, <3>1, <3>4, <3>5 DEF Registered, ShelfTypes
    <3>8. shelf'[n] = added /\ profiles'[n] = "none"
      BY <1>t, <3>1, <3>4 DEF ShelfTypes
    <3>9. Canonical[added.root] = added.root
      BY <3>2, <3>3, LeadsToRoot
    <3>10. \A g \in Registered : shelf[g].root # added.root
      BY <3>2, <3>3 DEF FoundAs
    <3>11. RegisteredOnce'
      BY <1>t, <3>6, <3>7, <3>8, <3>9, <3>10 DEF RegisteredOnce, RowsSound
    <3>12. ActiveIsRegistered' /\ context' = context
      BY <1>t, <1>1, <3>6 DEF ActiveIsRegistered, RowsSound, SaveGame
    <3>13. \A g \in Registered' : Canonical[shelf'[g].root] = shelf'[g].root
      BY <1>t, <3>6, <3>7, <3>8, <3>9 DEF RowsSound
    <3>14. \A g \in Games : g \notin Registered' => profiles'[g] = profiles[g] /\ g \notin Registered
      BY <1>t, <3>1, <3>4, <3>6 DEF ShelfTypes
    <3>15. ShelfTypeOK'
      <4>1. \A g \in Registered' : shelf'[g].root \in FolderPaths
        BY <1>t, <3>3, <3>6, <3>7, <3>8 DEF RowsSound, ShelfTypeOK, Rows
      <4>2. change'.at \in Steps /\ context'.active \in MaybeGame
        BY <1>t DEF ShelfTypes, Works, Contexts
      <4> QED
        BY <1>t, <3>6, <3>7, <3>8, <3>14, <4>1, <4>2 DEF RowsSound, ShelfTypeOK, Steps, MaybeGame
    <3> QED
      BY <3>11, <3>12, <3>13, <3>15 DEF RowsSound
  <2> QED
    BY <2>1, <2>2
<1>2. CASE CreateMain
  <2>1. change.game \in Registered
    BY <1>t, <1>2 DEF CreateMain, WorkSound, AcceptSound, RemoveSound, ShelfTypes, Works
  <2>2. Registered' = Registered /\ shelf' = shelf
    BY <1>2 DEF CreateMain, Registered
  <2>3. context'.active = change.game /\ profiles' = [profiles EXCEPT ![change.game] = "main"]
    BY <1>t, <1>2 DEF CreateMain, ShelfTypes, Contexts
  <2>4. change'.at \in Steps /\ change.game \in Games
    BY <1>t, <2>1 DEF ShelfTypes, Works, Registered
  <2>5. ShelfTypeOK'
    BY <1>t, <2>1, <2>2, <2>3, <2>4 DEF RowsSound, ShelfTypeOK, ShelfTypes, Steps
  <2> QED
    BY <1>t, <2>1, <2>2, <2>3, <2>5 DEF RowsSound, RegisteredOnce, ActiveIsRegistered
<1>3. CASE WriteContext
  <2>1. change.seen.active \in Registered \cup {NoGame}
    BY <1>t, <1>3 DEF WriteContext, WorkSound, AcceptSound, RemoveSound, WriteSound, ShelfTypes, Works,
       RowsSound, ActiveIsRegistered
  <2>2. Registered' = Registered /\ shelf' = shelf /\ profiles' = profiles /\ context' = change.seen
    BY <1>3 DEF WriteContext, Registered
  <2>3. change'.at \in Steps
    BY <1>t DEF ShelfTypes, Works
  <2> QED
    BY <1>t, <2>1, <2>2, <2>3 DEF RowsSound, ShelfTypeOK, RegisteredOnce, ActiveIsRegistered, Steps, Registered
<1>4. CASE DeleteUnused
  <2> DEFINE g == change.game
  <2>1. CASE InUse(g)
    BY <1>0, <1>4, <2>1 DEF DeleteUnused
  <2>2. CASE ~InUse(g)
    <3>1. g \in Registered /\ g \in Games
      BY <1>t, <1>4 DEF DeleteUnused, WorkSound, AcceptSound, RemoveSound, Registered, ShelfTypes, Works
    <3>2. shelf' = [shelf EXCEPT ![g] = NoGame] /\ profiles' = [profiles EXCEPT ![g] = "gone"]
          /\ context' = Cleared(g)
      BY <1>4, <2>2 DEF DeleteUnused, ProfilesDeleted
    <3>3. Registered' = Registered \ {g}
      BY <1>t, <3>1, <3>2 DEF Registered, ShelfTypes
    <3>4. context'.active \in (Registered \ {g}) \cup {NoGame}
      BY <1>t, <3>1, <3>2 DEF Cleared, RowsSound, ActiveIsRegistered, ShelfTypes, Contexts
    <3>5. change'.at \in Steps
      BY <1>t DEF ShelfTypes, Works
    <3> HIDE DEF g
    <3>6. \A h \in Games : h # g => shelf'[h] = shelf[h] /\ profiles'[h] = profiles[h]
      BY <1>t, <3>2 DEF ShelfTypes
    <3>7. profiles'[g] = "gone"
      BY <1>t, <3>1, <3>2 DEF ShelfTypes
    <3>8. ShelfTypeOK'
      BY <1>t, <3>3, <3>4, <3>5, <3>6, <3>7 DEF RowsSound, ShelfTypeOK, Registered, Steps
    <3>9. \A h \in Registered' : h \in Registered /\ shelf'[h] = shelf[h]
      BY <3>3, <3>6 DEF Registered
    <3>10. RegisteredOnce'
      BY <1>t, <3>9 DEF RowsSound, RegisteredOnce
    <3> QED
      BY <1>t, <3>3, <3>4, <3>8, <3>9, <3>10 DEF RowsSound, ActiveIsRegistered
  <2> QED
    BY <2>1, <2>2
<1>5. ASSUME NEW g \in Games, NEW how \in {"used", "changed"}, Use(g, how) PROVE RowsSound'
  <2>1. g \in Registered /\ shelf' = shelf /\ context' = context /\ change' = change
        /\ Registered' = Registered
    BY <1>5 DEF Use, Registered
  <2>2. profiles' = profiles \/ profiles' = [profiles EXCEPT ![g] = "changed"]
    BY <1>5 DEF Use
  <2>3. ShelfTypeOK'
    BY <1>t, <2>1, <2>2 DEF RowsSound, ShelfTypeOK, ShelfTypes
  <2> QED
    BY <1>t, <2>1, <2>3 DEF RowsSound, RegisteredOnce, ActiveIsRegistered
<1> QED
  BY <1>0, <1>1, <1>2, <1>3, <1>4, <1>5
     DEF ShelfStep, ChooseFolder, BeginRegister, ListProfiles, ReadContext, BeginFinish,
         BackToFolders, RemoveInSettings, BeginRemove, HandActiveOver, ShelfRefused, KillWindow

\* What a change knows when it begins: it accepts a folder, finishes the setup
\* or forgets an installation.
LEMMA WorkBegins ==
    ASSUME ShelfInv
    PROVE  /\ BeginRegister => WorkSound'
           /\ BeginFinish => WorkSound'
           /\ \A g, next \in MaybeGame :
                BeginRemove(g, next) /\ (wizard.game = g /\ wizard.truly # NoGame => next = wizard.before)
                  => WorkSound'
<1> USE NoGameIsNone
<1>t. ShelfTypes /\ RowsSound /\ WorkSound /\ PageSound
  BY DEF ShelfInv
<1>1. ASSUME BeginRegister PROVE WorkSound'
  <2>1. CASE MayAccept(wish.path, wish.external)
    <3> DEFINE g == IF FoundAs(wish.path) = {} THEN NoGame
                    ELSE CHOOSE g \in FoundAs(wish.path) : TRUE
    <3>1. change' = Accepting(wish.path, wish.external, g, context.active, wish.hasty)
      BY <1>1, <2>1, RegisterAccepts
    <3>2. IF g = NoGame THEN FoundAs(wish.path) = {} ELSE g \in Registered
      BY DEF FoundAs, Registered
    <3> HIDE DEF g
    <3>3. wish # NoWish /\ wish' = wish /\ change = NoWork /\ shelf' = shelf /\ context' = context
      BY <1>1, <2>1 DEF BeginRegister
    <3>4. wish.path \in FolderPaths /\ (~wish.hasty => wish.before = context.active)
      BY <3>3, <1>t, NoWorkIsWork DEF PageSound
    <3>5. FoundAs(wish.path)' = FoundAs(wish.path) /\ Registered' = Registered
      BY <3>3 DEF FoundAs, Registered
    <3>6. change' # NoWork
      BY <3>1, NoWorkIsWork DEF Accepting
    <3>7. AcceptSound'
      BY <3>1, <3>2, <3>3, <3>4, <3>5 DEF AcceptSound, Accepting, FoundAs
    <3>8. RemoveSound' /\ WriteSound'
      BY <3>1 DEF RemoveSound, WriteSound, Accepting
    <3> QED
      BY <3>1, <3>6, <3>7, <3>8 DEF WorkSound, Accepting
  <2>2. CASE ~MayAccept(wish.path, wish.external)
    <3>1. change' = change /\ change = NoWork
      BY <1>1, <2>2 DEF BeginRegister
    <3> QED
      BY <3>1, NoWorkIsWork DEF WorkSound, AcceptSound, RemoveSound, WriteSound
  <2> QED
    BY <2>1, <2>2
<1>2. ASSUME BeginFinish PROVE WorkSound'
  <2>1. change'.at = "read" /\ change'.what = "finish"
    BY <1>2 DEF BeginFinish, NoWork
  <2> QED
    BY <2>1, NoWorkIsWork DEF WorkSound, AcceptSound, RemoveSound, WriteSound
<1>3. ASSUME NEW g \in MaybeGame, NEW next \in MaybeGame, BeginRemove(g, next),
             wizard.game = g /\ wizard.truly # NoGame => next = wizard.before
      PROVE  WorkSound'
  <2> DEFINE truly == IF wizard.game = g THEN wizard.truly ELSE NoGame
  <2>1. change' = Removing(g, next, context.active = g, truly, wizard.hasty)
    BY <1>3 DEF BeginRemove, NoWork, Removing
  <2>2. g \in Registered /\ g \in Games /\ Registered' = Registered
    BY <1>3 DEF BeginRemove, Registered
  <2>3. truly # NoGame =>
          /\ context.active = g /\ next # g
          /\ ~wizard.hasty => next = truly
    BY <1>t, <1>3, <2>2 DEF PageSound
  <2> HIDE DEF truly
  <2>4. change' # NoWork
    BY <2>1, NoWorkIsWork DEF Removing
  <2>5. RemoveSound'
    BY <2>1, <2>2, <2>3 DEF RemoveSound, Removing
  <2> QED
    BY <2>1, <2>4, <2>5 DEF WorkSound, AcceptSound, WriteSound, Removing
<1> QED
  BY <1>1, <1>2, <1>3

\* What a change knows after each of its calls.
LEMMA WorkKept == ShelfInv /\ ShelfStep => WorkSound'
<1> SUFFICES ASSUME ShelfInv, ShelfStep PROVE WorkSound'
  OBVIOUS
<1> USE NoGameIsNone
<1>t. ShelfTypes /\ ShelfTypes' /\ RowsSound /\ RowsSound' /\ WorkSound /\ PageSound
  BY ShelfTypesKept, RowsKept DEF ShelfInv
<1>0. ASSUME change' = NoWork PROVE WorkSound'
  BY <1>0, NoWorkIsWork DEF WorkSound, AcceptSound, RemoveSound, WriteSound
<1>1. ASSUME NEW p \in FolderPaths, NEW b \in BOOLEAN, ChooseFolder(p, b) PROVE WorkSound'
  <2>1. change' = change /\ change.what # "accept" /\ context' = context /\ Registered' = Registered
    BY <1>1 DEF ChooseFolder, Registered
  <2> QED
    BY <1>t, <2>1 DEF WorkSound, AcceptSound, RemoveSound, WriteSound
<1>2. CASE BeginRegister \/ BeginFinish
  BY <1>2, WorkBegins
<1>3. CASE SaveGame
  <2>1. change.what = "accept"
    BY <1>t, <1>3 DEF SaveGame, WorkSound, RemoveSound, ShelfTypes, Works
  <2>2. wish' = wish
    BY <1>3 DEF SaveGame
  <2>3. \E g \in Registered' :
          /\ change'.at = "list" /\ change'.what = "accept" /\ change'.game = g
          /\ change'.hasty = change.hasty /\ change'.path = change.path /\ change'.back = change.back
    <3>1. CASE change.game # NoGame
      BY <1>t, <1>3, <2>1, <3>1 DEF SaveGame, WorkSound, AcceptSound, ShelfTypes, Works, Registered
    <3>2. CASE change.game = NoGame
      <4> DEFINE n == NextId
                 added == NewRow(change.path, change.external)
      <4>1. n \in Games
        BY <1>3, <3>2 DEF SaveGame, NextId, Fresh
      <4>2. shelf' = [shelf EXCEPT ![n] = added]
        BY <1>3, <3>2 DEF SaveGame
      <4>3. change' = [change EXCEPT !.at = "list", !.game = n]
        BY <1>3, <3>2 DEF SaveGame
      <4>4. change.path \in FolderPaths
        BY <1>t, <2>1 DEF WorkSound, AcceptSound
      <4>5. added \in Rows
        BY <1>t, <4>4, LeadsToRoot DEF NewRow, Rows, ShelfTypes, Works
      <4> HIDE DEF n, added
      <4>6. n \in Registered'
        BY <1>t, <4>1, <4>2, <4>5 DEF Registered, ShelfTypes
      <4> QED
        BY <1>t, <2>1, <4>3, <4>6 DEF ShelfTypes, Works
    <3> QED
      BY <3>1, <3>2
  <2>4. AcceptSound'
    BY <1>t, <2>1, <2>2, <2>3 DEF WorkSound, AcceptSound, Registered
  <2> QED
    BY <2>3, <2>4, NoWorkIsWork DEF WorkSound, RemoveSound, WriteSound
<1>4. CASE ListProfiles
  <2>1. change.what = "accept"
    BY <1>t, <1>4 DEF ListProfiles, WorkSound, RemoveSound, ShelfTypes, Works
  <2>2. wish' = wish /\ Registered' = Registered /\ profiles' = profiles
    BY <1>4 DEF ListProfiles, Registered
  <2>3. /\ change'.at = IF profiles[change.game] = "none" THEN "create" ELSE "read"
        /\ change'.what = "accept" /\ change'.game = change.game
        /\ change'.hasty = change.hasty /\ change'.path = change.path /\ change'.back = change.back
    BY <1>t, <1>4, <2>1 DEF ListProfiles, NeedsMain, ShelfTypes, Works
  <2>4. change.game # NoGame
    BY <1>t, <1>4, <2>1 DEF ListProfiles, WorkSound, AcceptSound
  <2>5. AcceptSound'
    BY <1>t, <2>1, <2>2, <2>3, <2>4 DEF WorkSound, AcceptSound
  <2> QED
    BY <2>3, <2>5, NoWorkIsWork DEF WorkSound, RemoveSound, WriteSound
<1>5. CASE CreateMain
  <2>1. change.what = "accept"
    BY <1>t, <1>5 DEF CreateMain, WorkSound, RemoveSound, ShelfTypes, Works
  <2>2. wish' = wish /\ Registered' = Registered
    BY <1>5 DEF CreateMain, Registered
  <2>3. /\ change'.at = "read"
        /\ change'.what = "accept" /\ change'.game = change.game
        /\ change'.hasty = change.hasty /\ change'.path = change.path /\ change'.back = change.back
    BY <1>t, <1>5, <2>1 DEF CreateMain, ShelfTypes, Works
  <2>4. change.game # NoGame /\ change.game \in Registered
    BY <1>t, <1>5, <2>1 DEF CreateMain, WorkSound, AcceptSound
  <2>5. profiles'[change.game] = "main"
    BY <1>t, <1>5, <2>4 DEF CreateMain, ShelfTypes, Registered
  <2>6. AcceptSound'
    BY <1>t, <2>1, <2>2, <2>3, <2>4, <2>5 DEF WorkSound, AcceptSound
  <2> QED
    BY <2>3, <2>6, NoWorkIsWork DEF WorkSound, RemoveSound, WriteSound
<1>6. CASE ReadContext
  <2>1. change.at = "read" /\ change'.at = "write" /\ change'.what = change.what
    BY <1>t, <1>6 DEF ReadContext, ShelfTypes, Works
  <2>2. wish' = wish /\ Registered' = Registered /\ profiles' = profiles /\ context' = context
    BY <1>6 DEF ReadContext, Registered
  <2>3. /\ change'.game = change.game /\ change'.next = change.next
        /\ change'.hasty = change.hasty /\ change'.path = change.path /\ change'.back = change.back
        /\ change'.seen = IF change.what = "finish" THEN [context EXCEPT !.done = TRUE]
                          ELSE [context EXCEPT !.active = change.game]
    BY <1>t, <1>6 DEF ReadContext, ShelfTypes, Works
  <2>4. /\ change'.seen \in Contexts
        /\ change'.seen.active = IF change.what = "finish" THEN context.active ELSE change.game
    <3>1. context \in Contexts /\ change.game \in MaybeGame
      BY <1>t DEF ShelfTypes, Works
    <3>2. /\ [context EXCEPT !.done = TRUE] \in Contexts
          /\ [context EXCEPT !.done = TRUE].active = context.active
          /\ [context EXCEPT !.active = change.game] \in Contexts
          /\ [context EXCEPT !.active = change.game].active = change.game
      BY <3>1 DEF Contexts
    <3> QED
      BY <2>3, <3>2
  <2>5. change.what \in {"accept", "finish", "remove"}
    BY <1>t, <2>1 DEF WorkSound, ShelfTypes, Works
  <2>6. AcceptSound'
    BY <1>t, <2>1, <2>2, <2>3 DEF WorkSound, AcceptSound
  <2>7. RemoveSound'
    BY <1>t, <2>1, <2>2, <2>3 DEF WorkSound, RemoveSound
  <2>8. WriteSound'
    BY <2>1, <2>2, <2>3, <2>4 DEF WriteSound
  <2> QED
    BY <2>1, <2>5, <2>6, <2>7, <2>8, NoWorkIsWork DEF WorkSound
<1>7. CASE WriteContext \/ ShelfRefused \/ KillWindow
  BY <1>0, <1>7 DEF WriteContext, ShelfRefused, KillWindow
<1>8. CASE BackToFolders
  <2>1. BeginRemove(wizard.game, wizard.before) /\ wizard.game \in MaybeGame /\ wizard.before \in MaybeGame
    BY <1>t, <1>8 DEF BackToFolders, ShelfTypes, Memories
  <2> QED
    BY <2>1, WorkBegins
<1>9. ASSUME NEW g \in Games, RemoveInSettings(g) PROVE WorkSound'
  <2>1. PICK next \in Fallbacks(g) : BeginRemove(g, next)
    BY <1>9 DEF RemoveInSettings
  <2>2. next \in MaybeGame /\ g \in MaybeGame
    BY DEF Fallbacks, Registered, MaybeGame
  <2>3. wizard.game # g
    BY <1>9 DEF RemoveInSettings
  <2> QED
    BY <2>1, <2>2, <2>3, WorkBegins
<1>10. CASE DeleteUnused
  <2>1. CASE change' = NoWork
    BY <1>0, <2>1
  <2>2. CASE change' # NoWork
    <3>1. change' = [change EXCEPT !.at = "activate"]
      BY <1>10, <2>2 DEF DeleteUnused
    <3>2. change.what = "remove" /\ change.at = "delete" /\ change.game \in Games
      BY <1>t, <1>10 DEF DeleteUnused, WorkSound, AcceptSound, RemoveSound, ShelfTypes, Works
    <3>3. /\ change'.at = "activate" /\ change'.what = "remove" /\ change'.game = change.game
          /\ change'.next = change.next /\ change'.back = change.back /\ change'.hasty = change.hasty
      BY <1>t, <3>1, <3>2 DEF ShelfTypes, Works
    <3>4. RemoveSound'
      BY <1>t, <3>2, <3>3 DEF WorkSound, RemoveSound
    <3> QED
      BY <2>2, <3>3, <3>4 DEF WorkSound, AcceptSound, WriteSound
  <2> QED
    BY <2>1, <2>2
<1>11. CASE HandActiveOver
  <2>1. CASE change.next \notin Registered
    BY <1>0, <1>11, <2>1 DEF HandActiveOver, PassOn
  <2>2. CASE change.next \in Registered
    <3>1. change' = [change EXCEPT !.at = "read", !.game = change.next]
      BY <1>11, <2>2 DEF HandActiveOver, PassOn
    <3>2. change.what = "remove" /\ Registered' = Registered
      BY <1>t, <1>11 DEF HandActiveOver, WorkSound, AcceptSound, RemoveSound, ShelfTypes, Works, Registered
    <3>3. /\ change'.at = "read" /\ change'.what = "remove" /\ change'.game = change.next
          /\ change'.next = change.next /\ change'.back = change.back /\ change'.hasty = change.hasty
      BY <1>t, <3>1, <3>2 DEF ShelfTypes, Works
    <3>4. RemoveSound'
      BY <1>t, <2>2, <3>2, <3>3 DEF WorkSound, RemoveSound, Registered
    <3> QED
      BY <3>3, <3>4, NoWorkIsWork DEF WorkSound, AcceptSound, WriteSound
  <2> QED
    BY <2>1, <2>2
<1>12. ASSUME NEW g \in Games, NEW how \in {"used", "changed"}, Use(g, how) PROVE WorkSound'
  <2>1. shelf' = shelf /\ context' = context /\ change' = change /\ wish' = wish
        /\ Registered' = Registered /\ FoundAs(change.path)' = FoundAs(change.path)
    BY <1>12 DEF Use, Registered, FoundAs
  <2>2. \A h \in Games : profiles[h] # "none" => profiles'[h] # "none"
    BY <1>t, <1>12 DEF Use, ShelfTypes
  <2>3. change.game # NoGame => change.game \in Games
    BY <1>t DEF ShelfTypes, Works, MaybeGame
  <2>4. AcceptSound'
    BY <1>t, <2>1, <2>2, <2>3 DEF WorkSound, AcceptSound, FoundAs
  <2>5. RemoveSound' /\ WriteSound'
    BY <1>t, <2>1 DEF WorkSound, RemoveSound, WriteSound
  <2> QED
    BY <1>t, <2>1, <2>4, <2>5 DEF WorkSound
<1> QED
  BY <1>1, <1>2, <1>3, <1>4, <1>5, <1>6, <1>7, <1>8, <1>9, <1>10, <1>11, <1>12 DEF ShelfStep

-----------------------------------------------------------------------------
\* The setup page's wish, and what it registered.
LEMMA PageKept == ShelfInv /\ ShelfStep => PageSound'
<1> SUFFICES ASSUME ShelfInv, ShelfStep PROVE PageSound'
  OBVIOUS
<1> USE NoGameIsNone
<1>t. ShelfTypes /\ ShelfTypes' /\ RowsSound /\ RowsSound' /\ WorkSound /\ WorkSound' /\ PageSound
  BY ShelfTypesKept, RowsKept, WorkKept DEF ShelfInv
<1>0. NoWish.path = NoGame /\ NothingRegistered.game = NoGame /\ NoWork.what = "none"
  BY DEF NoWish, NothingRegistered, NoWork
<1>1. ASSUME NEW p \in FolderPaths, NEW b \in BOOLEAN, ChooseFolder(p, b) PROVE PageSound'
  <2>1. wizard' = wizard /\ wizard.game = NoGame /\ change' = change /\ context' = context
        /\ Registered' = Registered
    BY <1>1 DEF ChooseFolder, Registered
  <2>2. /\ wish'.path = p /\ wish'.known = Registered /\ wish'.before = context.active
        /\ wish'.hasty = (change # NoWork)
    BY <1>1 DEF ChooseFolder
  <2>3. wish'.before \in wish'.known \cup {NoGame}
    BY <1>t, <2>2 DEF RowsSound, ActiveIsRegistered
  <2> QED
    BY <2>1, <2>2, <2>3 DEF PageSound
<1>2. CASE UNCHANGED <<wish, wizard>> /\ wish # NoWish /\ change.what = "accept" /\ change'.what = "accept"
  BY <1>t, <1>2 DEF PageSound
<1>3. CASE BeginRegister
  <2>1. wish' = NoWish \/ (wish' = wish /\ change'.what = "accept")
    <3>1. CASE MayAccept(wish.path, wish.external)
      <4> DEFINE g == IF FoundAs(wish.path) = {} THEN NoGame
                      ELSE CHOOSE g \in FoundAs(wish.path) : TRUE
      <4>1. change' = Accepting(wish.path, wish.external, g, context.active, wish.hasty)
        BY <1>3, <3>1, RegisterAccepts
      <4> HIDE DEF g
      <4> QED
        BY <1>3, <3>1, <4>1 DEF BeginRegister, Accepting
    <3>2. CASE ~MayAccept(wish.path, wish.external)
      BY <1>3, <3>2 DEF BeginRegister
    <3> QED
      BY <3>1, <3>2
  <2>2. wizard' = wizard /\ wish # NoWish
    BY <1>3 DEF BeginRegister
  <2> QED
    BY <1>t, <2>1, <2>2 DEF PageSound
<1>4. CASE SaveGame \/ ListProfiles \/ CreateMain
  <2>1. change.what = "accept" /\ wish # NoWish
    BY <1>t, <1>4 DEF SaveGame, ListProfiles, CreateMain, WorkSound, AcceptSound, RemoveSound, ShelfTypes, Works
  <2>2. change'.what = "accept"
    BY <1>t, <1>4, <2>1 DEF SaveGame, ListProfiles, CreateMain, ShelfTypes, Works
  <2> QED
    BY <1>2, <1>4, <2>1, <2>2 DEF SaveGame, ListProfiles, CreateMain
<1>5. CASE ReadContext \/ HandActiveOver
  <2>1. change.at \in {"read", "activate"} /\ change # NoWork /\ wizard' = wizard /\ wish' = wish
    BY <1>5, NoWorkIsWork DEF ReadContext, HandActiveOver
  <2>2. change.what = "accept" => change'.what = "accept" 
    BY <1>t, <1>5 DEF ReadContext, HandActiveOver, WorkSound, AcceptSound, ShelfTypes, Works
  <2> QED
    BY <1>t, <2>1, <2>2 DEF PageSound
<1>6. CASE WriteContext
  <2>1. CASE change.what = "accept"
    <3>1. wish' = NoWish /\ change' = NoWork /\ context'.active = change.game /\ wizard' = Remembered
          /\ wish # NoWish /\ change.game \in Registered /\ Registered' = Registered /\ change.game \in Games
      BY <1>t, <1>6, <2>1 DEF WriteContext, WorkSound, AcceptSound, WriteSound, Registered
    <3>2. CASE change.game \in wish.known
      BY <1>0, <2>1, <3>1, <3>2 DEF Remembered, PageSound
    <3>3. CASE change.game \notin wish.known
      <4>1. /\ wizard'.game = change.game /\ wizard'.before = wish.before
            /\ wizard'.truly = change.back /\ wizard'.hasty = change.hasty
        BY <2>1, <3>1, <3>3 DEF Remembered
      <4>2. wish.before # change.game /\ (~change.hasty => change.back = wish.before)
        BY <1>t, <2>1, <3>1, <3>3 DEF PageSound, WorkSound, AcceptSound
      <4> QED
        BY <3>1, <4>1, <4>2 DEF PageSound
    <3> QED
      BY <3>2, <3>3
  <2>2. CASE change.what # "accept"
    <3>1. wish' = wish /\ wizard' = wizard /\ change # NoWork
      BY <1>6, <2>2, NoWorkIsWork DEF WriteContext, Remembered
    <3> QED
      BY <1>t, <2>2, <3>1 DEF PageSound
  <2> QED
    BY <2>1, <2>2
<1>7. CASE BeginFinish
  BY <1>0, <1>7 DEF BeginFinish, PageSound
<1>8. CASE BackToFolders
  BY <1>0, <1>8 DEF BackToFolders, BeginRemove, PageSound
<1>9. ASSUME NEW g \in Games, RemoveInSettings(g) PROVE PageSound'
  BY <1>9 DEF RemoveInSettings, BeginRemove, PageSound
<1>10. CASE DeleteUnused
  <2>1. wish' = wish /\ wizard' = wizard /\ change # NoWork /\ change.what # "accept"
    BY <1>t, <1>10, NoWorkIsWork DEF DeleteUnused, WorkSound, AcceptSound
  <2> QED
    BY <1>t, <2>1 DEF PageSound
<1>11. CASE ShelfRefused
  <2>1. change # NoWork /\ wizard' = wizard /\ wish' = IF change.what = "accept" THEN NoWish ELSE wish
    BY <1>11 DEF ShelfRefused
  <2> QED
    BY <1>t, <2>1 DEF PageSound
<1>12. CASE KillWindow
  BY <1>0, <1>12 DEF KillWindow, PageSound
<1>13. ASSUME NEW g \in Games, NEW how \in {"used", "changed"}, Use(g, how) PROVE PageSound'
  BY <1>t, <1>13 DEF Use, PageSound, Registered
<1> QED
  BY <1>1, <1>3, <1>4, <1>5, <1>6, <1>7, <1>8, <1>9, <1>10, <1>11, <1>12, <1>13 DEF ShelfStep

LEMMA ShelfKept == ShelfInv /\ [ShelfStep]_shelfVars => ShelfInv'
<1> SUFFICES ASSUME ShelfInv, [ShelfStep]_shelfVars PROVE ShelfInv'
  OBVIOUS
<1>1. CASE ShelfStep
  BY <1>1, ShelfTypesKept, RowsKept, WorkKept, PageKept DEF ShelfInv
<1>2. CASE UNCHANGED shelfVars
  BY <1>2
     DEF shelfVars, ShelfInv, ShelfTypes, RowsSound, ShelfTypeOK, RegisteredOnce, ActiveIsRegistered,
         Registered, WorkSound, AcceptSound, FoundAs, RemoveSound, WriteSound, PageSound
<1> QED
  BY <1>1, <1>2

\* A registration that succeeds has a profile in the installation it made active.
LEMMA AcceptIsReady ==
    ASSUME ShelfInv, change.what = "accept", change.at = "write", context' = change.seen
    PROVE  context'.active \in Registered /\ profiles[context'.active] \in {"main", "changed"}
<1>1. context'.active = change.game /\ change.game \in Registered /\ profiles[change.game] # "none"
  BY NoGameIsNone DEF ShelfInv, WorkSound, AcceptSound, WriteSound
<1> QED
  BY <1>1 DEF ShelfInv, RowsSound, ShelfTypeOK, Registered

\* Forgetting is the one step that takes an installation away, and it looks first.
LEMMA ForgetLooks ==
    ASSUME ShelfInv, ShelfStep, NEW g \in Registered, shelf'[g] = NoGame
    PROVE  ~used[g] /\ profiles[g] # "changed" /\ ~shelf[g].external
<1>0. ShelfTypes /\ RowsSound /\ shelf[g] # NoGame /\ g \in Games
  BY DEF ShelfInv, Registered
<1>1. CASE SaveGame
  <2>1. CASE change.game # NoGame
    BY <1>0, <1>1, <2>1 DEF SaveGame
  <2>2. CASE change.game = NoGame
    <3> DEFINE n == NextId
               added == NewRow(change.path, change.external)
    <3>1. n \in Games /\ profiles[n] = "never"
      BY <1>1, <2>2 DEF SaveGame, NextId, Fresh
    <3>2. shelf' = [shelf EXCEPT ![n] = added]
      BY <1>1, <2>2 DEF SaveGame
    <3> HIDE DEF n, added
    <3>3. n # g
      BY <1>0, <3>1 DEF RowsSound, ShelfTypeOK
    <3> QED
      BY <1>0, <3>2, <3>3 DEF ShelfTypes
  <2> QED
    BY <2>1, <2>2
<1>2. CASE DeleteUnused
  <2> DEFINE h == change.game
  <2>1. ~InUse(h) /\ shelf' = [shelf EXCEPT ![h] = NoGame]
    BY <1>0, <1>2 DEF DeleteUnused
  <2> HIDE DEF h
  <2>2. h = g
    BY <1>0, <2>1 DEF ShelfTypes
  <2> QED
    BY <2>1, <2>2 DEF InUse
<1> QED
  BY <1>0, <1>1, <1>2
     DEF ShelfStep, ChooseFolder, BeginRegister, ListProfiles, CreateMain, ReadContext, WriteContext,
         BeginFinish, BackToFolders, RemoveInSettings, BeginRemove, HandActiveOver, ShelfRefused,
         KillWindow, Use

\* Going back ends with a refusal to forget, or with the context handed over.
LEMMA GoingBackEnds ==
    ASSUME ShelfInv, ShelfStep, change.what = "remove", change.back \in Registered, ~change.hasty,
           change' = NoWork, shelfFaults' = shelfFaults, shelfKills' = shelfKills
    PROVE  Restores
<1>0. /\ ShelfTypes /\ RowsSound /\ change.what = "remove" /\ change # NoWork
      /\ change.next = change.back /\ change.back # NoGame /\ RemoveSound /\ WriteSound
  BY NoGameIsNone, NoWorkIsWork DEF ShelfInv, WorkSound, RemoveSound, Registered
<1>1. CASE DeleteUnused
  <2>1. CASE InUse(change.game)
    BY <1>1, <2>1 DEF DeleteUnused, Restores
  <2>2. CASE ~InUse(change.game)
    <3>1. change' = [change EXCEPT !.at = "activate"]
      BY <1>0, <1>1, <2>2 DEF DeleteUnused, RemoveSound
    <3> QED
      BY <1>0, <3>1, NoWorkIsWork DEF ShelfTypes, Works
  <2> QED
    BY <2>1, <2>2
<1>2. CASE HandActiveOver
  <2>1. change' = [change EXCEPT !.at = "read", !.game = change.next]
    BY <1>0, <1>2 DEF HandActiveOver, PassOn
  <2> QED
    BY <1>0, <2>1, NoWorkIsWork DEF ShelfTypes, Works
<1>3. CASE WriteContext
  BY <1>0, <1>3 DEF WriteContext, WriteSound, RemoveSound, Restores
<1>4. CASE ReadContext
  BY <1>0, <1>4, NoWorkIsWork DEF ReadContext, ShelfTypes, Works
<1>5. CASE ShelfRefused \/ KillWindow
  BY <1>0, <1>5 DEF ShelfRefused, KillWindow, ShelfTypes
<1>6. ~SaveGame /\ ~ListProfiles /\ ~CreateMain
  BY <1>0 DEF SaveGame, ListProfiles, CreateMain, RemoveSound
<1> QED
  BY <1>0, <1>1, <1>2, <1>3, <1>4, <1>5, <1>6
     DEF ShelfStep, ChooseFolder, BeginRegister, BeginFinish, BackToFolders, RemoveInSettings,
         BeginRemove, Use

(* Installations, profiles and the active installation stay in step,        *)
(* wherever registering, forgetting and going back are cut short: a folder   *)
(* is registered once, a success is usable, what is used is kept and going  *)
(* back restores.                                                            *)
THEOREM ShelfStaysSound == ShelfSpec => ShelfIsSound
<1>1. ShelfInit => ShelfInv
  BY ShelfStarts
<1>2. ShelfInv /\ [ShelfStep]_shelfVars => ShelfInv'
  BY ShelfKept
<1>3. ShelfInv => ShelfTypeOK /\ RegisteredOnce /\ ActiveIsRegistered
  BY DEF ShelfInv, RowsSound
<1>4. ShelfInv /\ [ShelfStep]_shelfVars =>
        [change.what = "accept" /\ change.at = "write" /\ context' = change.seen
         => context'.active \in Registered
            /\ profiles[context'.active] \in {"main", "changed"}]_shelfVars
  BY AcceptIsReady
<1>5. ShelfInv /\ [ShelfStep]_shelfVars =>
        [\A g \in Registered :
         shelf'[g] = NoGame => ~used[g] /\ profiles[g] # "changed" /\ ~shelf[g].external]_shelfVars
  BY ForgetLooks
<1>6. ShelfInv /\ [ShelfStep]_shelfVars =>
        [change.what = "remove" /\ change.back \in Registered /\ ~change.hasty
         /\ change' = NoWork /\ shelfFaults' = shelfFaults /\ shelfKills' = shelfKills
           => Restores]_shelfVars
  BY GoingBackEnds
<1> QED
  BY <1>1, <1>2, <1>3, <1>4, <1>5, <1>6, PTL
     DEF ShelfSpec, ShelfIsSound, AcceptedIsReady, UsedIsKept, BackRestores

-----------------------------------------------------------------------------
(* The farm saves and their backups.                                        *)

Copies == {"sums", "copy", "compare"}
Putting == {"clear", "fill", "remove"}
Jobs == [at : Copies \cup Putting \cup {"rename"}, for : {"backup", "restore"}, of : Nat,
         slot : Nat, sums : Contents, next : 1 .. Len(SaveOrder), raced : BOOLEAN,
         recorded : Contents \cup {NoFile}]
Folders == [files : Contents, source : Contents, record : Contents \cup {NoFile, Damaged},
            part : BOOLEAN, raced : BOOLEAN, gone : BOOLEAN]

\* What the job may hold, and the game, which owes files only while it runs.
SaveTypes ==
    /\ SavesTypeOK
    /\ copying \in Jobs \cup {NoJob}
    /\ ~game.on => game.left = {}
    /\ copying.at \in {"fill", "remove", "rename"} => incoming \in Contents

\* A copy under way is not yet a backup; undisturbed, it holds the save as far
\* as it has come.
CopySound ==
    copying.at \in Copies =>
        /\ live # NoFile
        /\ copying.slot = Len(backups) /\ Len(backups) > 0
        /\ Backup(copying.slot).part /\ ~Backup(copying.slot).gone
        /\ copying.of # copying.slot
        /\ ~copying.raced =>
             /\ Backup(copying.slot).source = live
             /\ copying.at = "copy" =>
                  \A i \in 1 .. copying.next - 1 :
                      Backup(copying.slot).files[SaveOrder[i]] = live[SaveOrder[i]]
             /\ copying.at = "compare" => Backup(copying.slot).files = live

\* An undisturbed restore has the save it will remove in the newest backup,
\* and puts in place what the record of its backup said.
RestoreSound ==
    /\ copying.at \in Putting /\ live # NoFile /\ ~copying.raced =>
         /\ copying.slot = Len(backups) /\ copying.slot \in KeptBackups
         /\ copying.of # copying.slot
         /\ Backup(copying.slot).files = live /\ Verified(Backup(copying.slot))
    /\ copying.at = "rename" /\ copying.recorded # NoFile => incoming = copying.recorded

\* A restore reads a backup folder that is there.
SourceSound ==
    /\ copying.at \in Putting \cup {"rename"} => copying.for = "restore"
    /\ copying.at # "idle" /\ copying.for = "restore" => copying.of \in 1 .. Len(backups)

\* The game does not run while nothing has disturbed a job.
JobIsAlone == Running /\ ~copying.raced => ~game.on

\* The copy of a removed save is the newest backup.
NewestIsKept ==
    live = NoFile /\ ~removed.raced =>
        \E n \in KeptBackups :
            /\ Backup(n).files = removed.files /\ Verified(Backup(n))
            /\ \A m \in KeptBackups : m <= n

SavesInv ==
    /\ SaveTypes /\ CopySound /\ RestoreSound /\ SourceSound /\ JobIsAlone
    /\ NewestIsKept /\ BackupIsTheSave

LEMMA SaveFileFacts ==
    /\ Len(SaveOrder) \in Nat \ {0} /\ SaveOrder \in Seq(SaveFiles)
    /\ \A i \in 1 .. Len(SaveOrder) : SaveOrder[i] \in SaveFiles
    /\ \A f \in SaveFiles : \E i \in 1 .. Len(SaveOrder) : SaveOrder[i] = f
    /\ NoFile # Damaged /\ NoFile \notin Contents /\ Damaged \notin Contents
    /\ NoFile \notin 0 .. MaxMoment /\ Damaged \notin 0 .. MaxMoment
    /\ Nothing \in Contents /\ \A m \in 0 .. MaxMoment : Moment(m) \in Contents
    /\ MaxMoment \in Nat /\ MaxDeaths \in Nat /\ KeepBackups \in Nat \ {0}
<1>1. Len(SaveOrder) \in Nat \ {0} /\ SaveOrder \in Seq(SaveFiles)
  BY SavesAssumption, LenProperties
<1>2. DOMAIN SaveOrder = 1 .. Len(SaveOrder)
  BY <1>1, LenProperties
<1>3. /\ \A i \in 1 .. Len(SaveOrder) : SaveOrder[i] \in SaveFiles
      /\ \A f \in SaveFiles : \E i \in 1 .. Len(SaveOrder) : SaveOrder[i] = f
  BY <1>2 DEF SaveFiles, ToSet
<1>4. /\ NoFile # Damaged /\ NoFile \notin Contents /\ Damaged \notin Contents
      /\ NoFile \notin 0 .. MaxMoment /\ Damaged \notin 0 .. MaxMoment
      /\ MaxMoment \in Nat /\ MaxDeaths \in Nat /\ KeepBackups \in Nat \ {0}
  BY SavesAssumption
<1>5. Nothing \in Contents /\ \A m \in 0 .. MaxMoment : Moment(m) \in Contents
  BY DEF Contents, Nothing, Moment
<1> QED
  BY <1>1, <1>3, <1>4, <1>5

\* One backup folder written, and one added.
LEMMA PutBackup ==
    ASSUME NEW s \in Seq(Folders), NEW n \in 1 .. Len(s), NEW b \in Folders
    PROVE  LET t == [s EXCEPT ![n] = b] IN
           /\ t \in Seq(Folders) /\ Len(t) = Len(s) /\ t[n] = b
           /\ \A m \in 1 .. Len(s) : m # n => t[m] = s[m]
BY ExceptSeq

LEMMA AddBackup ==
    ASSUME NEW s \in Seq(Folders), NEW b \in Folders
    PROVE  LET t == Append(s, b) IN
           /\ t \in Seq(Folders) /\ Len(t) = Len(s) + 1 /\ t[Len(s) + 1] = b
           /\ \A m \in 1 .. Len(s) : t[m] = s[m]
BY AppendProperties

LEMMA KeptNumbers ==
    ASSUME SavesTypeOK
    PROVE  /\ backups \in Seq(Folders) /\ Len(backups) \in Nat
           /\ \A n : n \in KeptBackups <=>
                n \in 1 .. Len(backups) /\ ~backups[n].part /\ ~backups[n].gone
BY DEF SavesTypeOK, Folders, KeptBackups, Kept, Backup

\* The next file: the job's record goes on by one, or to its next part.
LEMMA GoesOn ==
    ASSUME NEW j \in Jobs, NEW then \in {"copy", "compare", "remove"}, copying.next = j.next
    PROVE  LET k == Onward(j, then) IN
           /\ k \in Jobs
           /\ k.at = IF LastFile THEN then ELSE j.at
           /\ k.next = IF LastFile THEN 1 ELSE j.next + 1
           /\ k.for = j.for /\ k.of = j.of /\ k.slot = j.slot /\ k.sums = j.sums
           /\ k.raced = j.raced /\ k.recorded = j.recorded
<1> DEFINE next == IF LastFile THEN 1 ELSE j.next + 1
           place == IF LastFile THEN then ELSE j.at
<1>1. Onward(j, then) = [j EXCEPT !.next = next, !.at = place]
  BY DEF Onward
<1>2. next \in 1 .. Len(SaveOrder)
  <2>1. j.next \in 1 .. Len(SaveOrder)
    BY DEF Jobs
  <2>2. Len(SaveOrder) \in Nat \ {0} /\ (LastFile <=> j.next = Len(SaveOrder))
    BY SaveFileFacts DEF LastFile
  <2> QED
    BY <2>1, <2>2
<1>a. place \in Copies \cup Putting \cup {"rename"}
  BY DEF Jobs, Copies, Putting
<1> HIDE DEF next, place
<1>3. LET k == Onward(j, then) IN
      /\ k \in Jobs /\ k.next = next /\ k.at = place
      /\ k.for = j.for /\ k.of = j.of /\ k.slot = j.slot /\ k.sums = j.sums
      /\ k.raced = j.raced /\ k.recorded = j.recorded
  BY <1>1, <1>2, <1>a DEF Jobs
<1> QED
  BY <1>2, <1>3 DEF next, place

\* A job begins, with a copy or at once with the putting in place.
Begun(place, for, n, slot, saved) ==
    [at |-> place, for |-> for, of |-> n, slot |-> slot, sums |-> Nothing, next |-> 1,
     raced |-> FALSE, recorded |-> saved]

LEMMA JobBegins ==
    ASSUME SavesTypeOK, NEW n \in Nat, NEW saved \in Contents \cup {NoFile}, NEW for \in {"backup", "restore"}
    PROVE  LET j == Begun("begin", for, n, 0, saved) IN
           /\ NewCopy(j) = Begun("sums", for, n, Len(backups) + 1, saved)
           /\ [j EXCEPT !.at = "clear"] = Begun("clear", for, n, 0, saved)
           /\ NewCopy(j) \in Jobs /\ [j EXCEPT !.at = "clear"] \in Jobs
           /\ for = "restore" => [NewJob EXCEPT !.for = "restore", !.of = n, !.recorded = saved] = j
           /\ for = "backup" /\ n = 0 /\ saved = NoFile => NewJob = j
<1>1. Len(backups) + 1 \in Nat /\ Nothing \in Contents
      /\ 1 \in 1 .. Len(SaveOrder)
  BY KeptNumbers, SaveFileFacts
<1> DEFINE j == Begun("begin", for, n, 0, saved)
<1>2. NewCopy(j) = Begun("sums", for, n, Len(backups) + 1, saved)
  <2> DEFINE slot == Len(backups) + 1
  <2> HIDE DEF slot
  <2>1. ASSUME NEW x, x = [j EXCEPT !.at = "sums", !.slot = slot, !.sums = Nothing, !.next = 1]
        PROVE  x = Begun("sums", for, n, slot, saved)
    BY <2>1 DEF Begun
  <2> QED
    BY <2>1 DEF NewCopy, slot
<1>b. [j EXCEPT !.at = "clear"] = Begun("clear", for, n, 0, saved)
  <2>1. ASSUME NEW x, x = [j EXCEPT !.at = "clear"] PROVE x = Begun("clear", for, n, 0, saved)
    BY <2>1 DEF Begun
  <2> QED
    BY <2>1
<1>3. Begun("sums", for, n, Len(backups) + 1, saved) \in Jobs
      /\ Begun("clear", for, n, 0, saved) \in Jobs
  BY <1>1 DEF Begun, Jobs, Copies, Putting
<1>4. for = "restore" => [NewJob EXCEPT !.for = "restore", !.of = n, !.recorded = saved] = j
  <2>1. ASSUME for = "restore", NEW x, x = [NewJob EXCEPT !.for = "restore", !.of = n, !.recorded = saved]
        PROVE  x = j
    BY <2>1 DEF NewJob, Begun
  <2> QED
    BY <2>1
<1>5. for = "backup" /\ n = 0 /\ saved = NoFile => NewJob = j
  BY DEF NewJob, Begun
<1> QED
  BY <1>2, <1>b, <1>3, <1>4, <1>5

LEMMA EmptyIsFolder ==
    ASSUME SavesTypeOK
    PROVE  /\ Gone \in Folders /\ Gone.part
           /\ live # NoFile => /\ EmptyBackup \in Folders /\ EmptyBackup.part /\ ~EmptyBackup.gone
                             /\ EmptyBackup.source = live
BY SaveFileFacts DEF Gone, EmptyBackup, Folders, SavesTypeOK

-----------------------------------------------------------------------------
(* What a step writes: a job's record, a backup folder.                     *)

Rewrites(n, b) ==
    /\ backups' \in Seq(Folders) /\ Len(backups') = Len(backups)
    /\ backups'[n] = b /\ b \in Folders
    /\ \A m \in 1 .. Len(backups) : m # n => backups'[m] = backups[m]

Adds(b) ==
    /\ backups' \in Seq(Folders) /\ Len(backups') = Len(backups) + 1
    /\ backups'[Len(backups) + 1] = b /\ b \in Folders
    /\ \A m \in 1 .. Len(backups) : backups'[m] = backups[m]

LEMMA RunningJob ==
    ASSUME SaveTypes
    PROVE  /\ Running <=> copying \in Jobs
           /\ copying.at \in {"sums", "copy", "compare", "clear", "fill", "remove", "rename"} => Running
           /\ ~Running => copying = NoJob /\ copying.at = "idle"
           /\ copying \in Jobs => copying.at # "idle" /\ SaveFile \in SaveFiles
<1>1. NoJob.at = "idle"
  BY DEF NoJob
<1>2. \A j \in Jobs : j.at # "idle" /\ j.next \in 1 .. Len(SaveOrder)
  BY DEF Jobs, Copies, Putting
<1>3. copying \in Jobs \/ copying = NoJob
  BY DEF SaveTypes
<1>4. copying \in Jobs => SaveFile \in SaveFiles
  BY <1>2, SaveFileFacts DEF SaveFile
<1> QED
  BY <1>1, <1>2, <1>3, <1>4 DEF Running

LEMMA LiveFileTyped ==
    ASSUME SaveTypes, NEW f \in SaveFiles
    PROVE  /\ LiveFile(f) \in (0 .. MaxMoment) \cup {NoFile, Damaged}
           /\ live # NoFile => LiveFile(f) = live[f] /\ live \in Contents
BY DEF SaveTypes, SavesTypeOK, LiveFile, Contents

LEMMA CopyWrites ==
    ASSUME SaveTypes, CopySound, CopyFile, Running
    PROVE  \E b \in Folders :
             /\ Rewrites(copying.slot, b)
             /\ b.files = [Backup(copying.slot).files EXCEPT ![SaveFile] = LiveFile(SaveFile)]
             /\ b.source = Backup(copying.slot).source /\ b.part = Backup(copying.slot).part
             /\ b.gone = Backup(copying.slot).gone /\ b.record = Backup(copying.slot).record
<1> DEFINE s == copying.slot
           v == LiveFile(SaveFile)
           f == SaveFile
           old == backups[s]
           b == [old EXCEPT !.files = [old.files EXCEPT ![f] = v]]
<1>1. s \in 1 .. Len(backups) /\ backups \in Seq(Folders)
  BY KeptNumbers, RunningJob DEF CopyFile, CopySound, Copies, SaveTypes, Jobs
<1>2. old \in Folders
  BY <1>1, ElementOfSeq
<1>3. f \in SaveFiles /\ v \in (0 .. MaxMoment) \cup {NoFile, Damaged}
  BY RunningJob, LiveFileTyped
<1>4. backups' = [backups EXCEPT ![s] = b]
  BY DEF CopyFile
<1> HIDE DEF s, v, f
<1>5. b \in Folders
  BY <1>2, <1>3 DEF Folders, Contents
<1>6. b.files = [old.files EXCEPT ![f] = v] /\ b.source = old.source /\ b.part = old.part
      /\ b.gone = old.gone /\ b.record = old.record
  BY <1>2 DEF Folders
<1> HIDE DEF b
<1>7. Rewrites(s, b)
  BY <1>1, <1>4, <1>5, PutBackup DEF Rewrites
<1> QED
  BY <1>5, <1>6, <1>7 DEF s, v, f, Backup

LEMMA GiveUpWrites ==
    ASSUME SaveTypes, CopySound, GiveUpCopy
    PROVE  Rewrites(copying.slot, Gone)
<1>1. copying.slot \in 1 .. Len(backups) /\ backups \in Seq(Folders)
  BY KeptNumbers, RunningJob DEF GiveUpCopy, CopySound, Copies, SaveTypes, Jobs
<1> QED
  BY <1>1, PutBackup, EmptyIsFolder DEF Rewrites, GiveUpCopy, SaveTypes

LEMMA FinishWrites ==
    ASSUME SaveTypes, CopySound, FinishCopy
    PROVE  \E b \in Folders :
             /\ Rewrites(copying.slot, b)
             /\ b.files = Backup(copying.slot).files /\ b.source = Backup(copying.slot).source
             /\ b.record = copying.sums /\ ~b.part /\ b.raced = copying.raced
             /\ b.gone = Backup(copying.slot).gone
<1> DEFINE s == copying.slot
           old == backups[s]
           b == [old EXCEPT !.record = copying.sums, !.part = FALSE, !.raced = copying.raced]
<1>1. s \in 1 .. Len(backups) /\ backups \in Seq(Folders) /\ copying \in Jobs
  BY KeptNumbers, RunningJob DEF FinishCopy, CopySound, Copies, SaveTypes, Jobs
<1>2. old \in Folders
  BY <1>1, ElementOfSeq
<1>4. backups' = [backups EXCEPT ![s] = b]
  BY DEF FinishCopy
<1> HIDE DEF s
<1>5. b \in Folders
  BY <1>1, <1>2 DEF Folders, Jobs
<1>6. b.files = old.files /\ b.source = old.source /\ ~b.part
      /\ b.gone = old.gone /\ b.record = copying.sums /\ b.raced = copying.raced
  BY <1>2 DEF Folders
<1> HIDE DEF b
<1>7. Rewrites(s, b)
  BY <1>1, <1>4, <1>5, PutBackup DEF Rewrites
<1> QED
  BY <1>5, <1>6, <1>7 DEF s, Backup

LEMMA SpoilWrites ==
    ASSUME SaveTypes, NEW n \in DOMAIN backups, Spoil(n)
    PROVE  \E b \in Folders :
             /\ Rewrites(n, b)
             /\ b.source = Backup(n).source /\ b.part = Backup(n).part
             /\ b.raced = Backup(n).raced /\ b.gone = Backup(n).gone
             /\ \A f \in SaveFiles : b.files[f] \in {Backup(n).files[f], Damaged}
<1> DEFINE old == backups[n]
<1>1. n \in 1 .. Len(backups) /\ backups \in Seq(Folders)
  BY KeptNumbers DEF Spoil, SaveTypes
<1>2. old \in Folders
  BY <1>1, ElementOfSeq
<1>3. CASE \E f \in SaveFiles : backups' = [backups EXCEPT ![n].files[f] = Damaged]
  <2>1. PICK f \in SaveFiles : backups' = [backups EXCEPT ![n].files[f] = Damaged]
    BY <1>3
  <2> DEFINE b == [old EXCEPT !.files = [old.files EXCEPT ![f] = Damaged]]
  <2>2. backups' = [backups EXCEPT ![n] = b]
    BY <2>1
  <2>3. b \in Folders
    BY <1>2 DEF Folders, Contents
  <2>4. b.source = old.source /\ b.part = old.part /\ b.raced = old.raced /\ b.gone = old.gone
        /\ b.files = [old.files EXCEPT ![f] = Damaged]
    BY <1>2 DEF Folders
  <2> HIDE DEF b
  <2>5. Rewrites(n, b)
    BY <1>1, <2>2, <2>3, PutBackup DEF Rewrites
  <2>6. \A g \in SaveFiles : b.files[g] \in {old.files[g], Damaged}
    BY <1>2, <2>4 DEF Folders, Contents
  <2> QED
    BY <2>3, <2>4, <2>5, <2>6 DEF Backup
<1>4. CASE backups' = [backups EXCEPT ![n].record = Damaged]
  <2> DEFINE b == [old EXCEPT !.record = Damaged]
  <2>2. backups' = [backups EXCEPT ![n] = b]
    BY <1>4
  <2>3. b \in Folders
    BY <1>2 DEF Folders
  <2>4. b.source = old.source /\ b.part = old.part /\ b.raced = old.raced /\ b.gone = old.gone
        /\ b.files = old.files
    BY <1>2 DEF Folders
  <2> HIDE DEF b
  <2>5. Rewrites(n, b)
    BY <1>1, <2>2, <2>3, PutBackup DEF Rewrites
  <2> QED
    BY <2>3, <2>4, <2>5 DEF Backup
<1> QED
  BY <1>3, <1>4 DEF Spoil

LEMMA CleanupWrites ==
    ASSUME SaveTypes, NEW n \in DOMAIN backups, Cleanup(n)
    PROVE  Rewrites(n, Gone)
BY KeptNumbers, PutBackup, EmptyIsFolder DEF Rewrites, Cleanup, SaveTypes

LEMMA BeginAdds ==
    ASSUME SaveTypes, live # NoFile, backups' = Append(backups, EmptyBackup)
    PROVE  Adds(EmptyBackup)
BY KeptNumbers, AddBackup, EmptyIsFolder DEF Adds, SaveTypes

-----------------------------------------------------------------------------
LEMMA SavesStart == SavesInit => SavesInv
<1> SUFFICES ASSUME SavesInit PROVE SavesInv
  OBVIOUS
<1>1. PICK saved \in {NoFile, Moment(0)} :
        backups = <<[files |-> Moment(0), source |-> Moment(0), record |-> saved,
                     part |-> FALSE, raced |-> FALSE, gone |-> FALSE]>>
  BY DEF SavesInit
<1>2. Moment(0) \in Contents /\ Nothing \in Contents
  BY SaveFileFacts
<1>3. backups[1] \in Folders /\ backups \in Seq(Folders) /\ Len(backups) = 1
      /\ backups[1].files = Moment(0) /\ backups[1].source = Moment(0)
  BY <1>1, <1>2 DEF Folders
<1>4. SavesTypeOK
  BY <1>2, <1>3, SaveFileFacts DEF SavesInit, SavesTypeOK, Folders
<1>5. SaveTypes /\ CopySound /\ RestoreSound /\ SourceSound /\ JobIsAlone
  BY <1>4 DEF SavesInit, SaveTypes, CopySound, RestoreSound, SourceSound, JobIsAlone, Running, NoJob, Copies, Putting
<1>6. NewestIsKept /\ BackupIsTheSave
  BY <1>3 DEF SavesInit, NewestIsKept, BackupIsTheSave, KeptBackups, Backup
<1> QED
  BY <1>4, <1>5, <1>6 DEF SavesInv

\* One more file was read: the job's record but for what was read.
Moves(then) ==
    /\ copying' \in Jobs /\ copying.next \in 1 .. Len(SaveOrder)
    /\ copying'.at = IF LastFile THEN then ELSE copying.at
    /\ copying'.next = IF LastFile THEN 1 ELSE copying.next + 1
    /\ copying'.for = copying.for /\ copying'.of = copying.of /\ copying'.slot = copying.slot
    /\ copying'.raced = copying.raced /\ copying'.recorded = copying.recorded

LEMMA FileSteps ==
    ASSUME SaveTypes, Running
    PROVE  /\ SumFile => Moves("copy")
           /\ CopyFile => Moves("compare") /\ copying'.sums = copying.sums
           /\ FillIncoming => Moves("remove")
<1>1. copying \in Jobs /\ SaveFile \in SaveFiles
      /\ LiveFile(SaveFile) \in (0 .. MaxMoment) \cup {NoFile, Damaged}
  BY RunningJob, LiveFileTyped
<1>2. copying.next \in 1 .. Len(SaveOrder)
  BY <1>1 DEF Jobs
<1>3. ASSUME SumFile PROVE Moves("copy")
  <2> DEFINE j == [copying EXCEPT !.sums[SaveFile] = LiveFile(SaveFile)]
  <2>1. /\ j \in Jobs /\ j.next = copying.next /\ j.at = copying.at /\ j.for = copying.for
        /\ j.of = copying.of /\ j.slot = copying.slot /\ j.raced = copying.raced
        /\ j.recorded = copying.recorded
    BY <1>1 DEF Jobs, Contents
  <2>2. copying' = Onward(j, "copy")
    BY <1>3 DEF SumFile
  <2> HIDE DEF j
  <2> QED
    BY <1>2, <2>1, <2>2, GoesOn DEF Moves
<1>4. ASSUME CopyFile PROVE Moves("compare") /\ copying'.sums = copying.sums
  BY <1>1, <1>2, <1>4, GoesOn DEF CopyFile, Moves
<1>5. ASSUME FillIncoming PROVE Moves("remove")
  BY <1>1, <1>2, <1>5, GoesOn DEF FillIncoming, Moves
<1> QED
  BY <1>3, <1>4, <1>5

LEMMA SourceThere ==
    ASSUME SaveTypes, SourceSound, copying.at \in Putting
    PROVE  copying.of \in 1 .. Len(backups) /\ Backup(copying.of) \in Folders
<1>1. copying.of \in 1 .. Len(backups)
  BY DEF SourceSound, Putting
<1>2. backups \in Seq(Folders)
  BY KeptNumbers DEF SaveTypes
<1> QED
  BY <1>1, <1>2, ElementOfSeq DEF Backup

\* What a backup and a restore begin with.
LEMMA BackupBegins ==
    ASSUME SaveTypes, BeginBackup
    PROVE  copying' = Begun("sums", "backup", 0, Len(backups) + 1, NoFile) /\ copying' \in Jobs
<1>1. copying' = NewCopy(NewJob) /\ SavesTypeOK
  BY DEF BeginBackup, SaveTypes
<1>2. /\ NewJob = Begun("begin", "backup", 0, 0, NoFile)
      /\ NewCopy(Begun("begin", "backup", 0, 0, NoFile))
           = Begun("sums", "backup", 0, Len(backups) + 1, NoFile)
      /\ NewCopy(Begun("begin", "backup", 0, 0, NoFile)) \in Jobs
  <2>1. 0 \in Nat /\ NoFile \in Contents \cup {NoFile} /\ "backup" \in {"backup", "restore"}
    OBVIOUS
  <2> QED
    BY <1>1, <2>1, JobBegins
<1> QED
  BY <1>1, <1>2

LEMMA RestoreBegins ==
    ASSUME SaveTypes, NEW n \in DOMAIN backups, BeginRestore(n)
    PROVE  LET saved == Backup(n).record IN
           /\ copying' \in Jobs /\ n \in 1 .. Len(backups) /\ saved \in Contents \cup {NoFile}
           /\ copying' = IF live # NoFile THEN Begun("sums", "restore", n, Len(backups) + 1, saved)
                         ELSE Begun("clear", "restore", n, 0, saved)
<1> DEFINE saved == Backup(n).record
           j == [NewJob EXCEPT !.for = "restore", !.of = n, !.recorded = saved]
<1>1. SavesTypeOK /\ n \in 1 .. Len(backups) /\ n \in Nat
  BY KeptNumbers DEF SaveTypes, BeginRestore
<1>2. Backup(n) \in Folders
  BY <1>1, KeptNumbers, ElementOfSeq DEF Backup
<1>3. saved \in Contents \cup {NoFile}
  BY <1>2 DEF Folders, BeginRestore, Verified
<1>4. copying' = IF live # NoFile THEN NewCopy(j) ELSE [j EXCEPT !.at = "clear"]
  BY DEF BeginRestore
<1> HIDE DEF saved
<1>5. j = Begun("begin", "restore", n, 0, saved)
  BY <1>1, <1>3, JobBegins
<1> HIDE DEF j
<1> QED
  BY <1>1, <1>3, <1>4, <1>5, JobBegins DEF saved

\* The job's record after a step that reads or writes one file, or begins.
LEMMA JobsKept == SavesInv /\ SavesNext => copying' \in Jobs \cup {NoJob}
<1> SUFFICES ASSUME SavesInv, SavesNext PROVE copying' \in Jobs \cup {NoJob}
  OBVIOUS
<1>t. SaveTypes /\ SavesTypeOK /\ copying \in Jobs \cup {NoJob}
  BY DEF SavesInv, SaveTypes
<1>1. CASE StartGame
  BY <1>t, <1>1, RunningJob DEF StartGame, raced, Jobs
<1>2. ASSUME NEW n \in DOMAIN backups, BeginRestore(n) PROVE copying' \in Jobs \cup {NoJob}
  BY <1>t, <1>2, RestoreBegins
<1>3. CASE BeginBackup
  BY <1>t, <1>3, BackupBegins
<1>4. CASE Running /\ (SumFile \/ CopyFile \/ FillIncoming)
  BY <1>t, <1>4, FileSteps DEF Moves
<1>6. CASE FinishCopy
  BY <1>t, <1>6, RunningJob DEF FinishCopy, Jobs, Putting
<1>7. CASE Running /\ ClearIncoming
  <2>1. copying \in Jobs /\ 1 \in 1 .. Len(SaveOrder)
    BY <1>t, <1>7, RunningJob, SaveFileFacts
  <2> QED
    BY <1>7, <2>1 DEF ClearIncoming, Jobs, Putting
<1>8. CASE Running /\ RemoveLive
  BY <1>t, <1>8, RunningJob DEF RemoveLive, Jobs
<1> QED
  BY <1>t, <1>1, <1>2, <1>3, <1>4, <1>6, <1>7, <1>8
     DEF SavesNext, BeginSave, CloseGame, WriteFile, Spoil, Cleanup, GiveUpCopy, GiveUpRestore,
         PutInPlace, ManagerDies

LEMMA SaveTypesKept == SavesInv /\ SavesNext => SaveTypes'
<1> SUFFICES ASSUME SavesInv, SavesNext PROVE SaveTypes'
  OBVIOUS
<1>t. SaveTypes /\ SavesTypeOK /\ CopySound /\ copying' \in Jobs \cup {NoJob} /\ SourceSound
  BY JobsKept DEF SavesInv, SaveTypes
<1>b. ASSUME backups' = backups \/ \E n, b : Rewrites(n, b) \/ Adds(b) PROVE backups' \in Seq(Folders)
  BY <1>t, <1>b, KeptNumbers DEF Rewrites, Adds
<1>1. CASE StartGame
  <2>1. copying' = raced(copying) /\ incoming' = incoming /\ backups' = backups
        /\ newest' = newest /\ live' = live /\ deaths' = deaths /\ removed' = removed
        /\ game' \in [on : BOOLEAN, left : SUBSET SaveFiles] /\ game'.on
    BY <1>t, <1>1 DEF StartGame, SavesTypeOK
  <2>2. copying'.at = copying.at
    BY <1>t, <2>1 DEF raced, Jobs, SaveTypes
  <2> QED
    BY <1>t, <2>1, <2>2 DEF SaveTypes, SavesTypeOK
<1>2. CASE BeginSave \/ CloseGame
  <2>1. newest' \in 0 .. MaxMoment /\ game' \in [on : BOOLEAN, left : SUBSET SaveFiles]
        /\ (~game'.on => game'.left = {})
    <3>1. game \in [on : BOOLEAN, left : SUBSET SaveFiles] /\ newest \in 0 .. MaxMoment
      BY <1>t DEF SavesTypeOK
    <3>2. CASE BeginSave
      <4>1. newest' \in 0 .. MaxMoment
        BY <3>1, <3>2, SaveFileFacts DEF BeginSave
      <4> QED
        BY <3>1, <3>2, <4>1 DEF BeginSave
    <3>3. CASE CloseGame
      BY <3>1, <3>3 DEF CloseGame
    <3> QED
      BY <1>2, <3>2, <3>3
  <2> QED
    BY <1>t, <1>2, <2>1 DEF BeginSave, CloseGame, SaveTypes, SavesTypeOK
<1>3. ASSUME NEW f \in SaveFiles, WriteFile(f) PROVE SaveTypes'
  BY <1>t, <1>3, SaveFileFacts DEF WriteFile, SaveTypes, SavesTypeOK, Contents
<1>4. ASSUME NEW n \in DOMAIN backups, Spoil(n) \/ BeginRestore(n) \/ Cleanup(n) PROVE SaveTypes'
  <2>1. backups' \in Seq(Folders)
    BY <1>t, <1>b, <1>4, SpoilWrites, CleanupWrites, BeginAdds DEF BeginRestore
  <2>2. UNCHANGED <<live, game, newest, incoming, deaths, removed>>
    BY <1>4 DEF Spoil, BeginRestore, Cleanup
  <2>3. copying' = copying \/ copying'.at \in {"sums", "clear"}
    <3>1. CASE BeginRestore(n)
      BY <1>t, <3>1, RestoreBegins DEF Begun
    <3> QED
      BY <1>4, <3>1 DEF Spoil, Cleanup
  <2> QED
    BY <1>t, <2>1, <2>2, <2>3 DEF SaveTypes, SavesTypeOK, Folders
<1>5. CASE BeginBackup
  <2>1. backups' \in Seq(Folders)
    BY <1>t, <1>b, <1>5, BeginAdds DEF BeginBackup
  <2>2. copying'.at = "sums"
    BY <1>t, <1>5, BackupBegins DEF Begun
  <2> QED
    BY <1>t, <1>5, <2>1, <2>2 DEF BeginBackup, SaveTypes, SavesTypeOK, Folders
<1>6. CASE Running /\ (SumFile \/ CopyFile)
  <2>1. backups' \in Seq(Folders)
    BY <1>t, <1>b, <1>6, CopyWrites DEF SumFile
  <2>2. copying'.at \in Copies
    BY <1>t, <1>6, FileSteps DEF Moves, SumFile, CopyFile, Copies
  <2> QED
    BY <1>t, <1>6, <2>1, <2>2 DEF SumFile, CopyFile, Copies, SaveTypes, SavesTypeOK, Folders
<1>7. CASE Running /\ FillIncoming
  <2>1. copying \in Jobs /\ copying.at = "fill" /\ SaveFile \in SaveFiles /\ incoming \in Contents
    BY <1>t, <1>7, RunningJob DEF FillIncoming, SaveTypes
  <2>2. Backup(copying.of).files[SaveFile] \in (0 .. MaxMoment) \cup {NoFile, Damaged}
    BY <1>t, <1>7, <2>1, SourceThere DEF Folders, Contents, Putting
  <2>3. incoming' \in Contents
    BY <1>7, <2>1, <2>2 DEF FillIncoming, Contents
  <2> QED
    BY <1>t, <1>7, <2>3 DEF FillIncoming, SaveTypes, SavesTypeOK
<1>8. CASE GiveUpCopy \/ GiveUpRestore
  <2>1. backups' \in Seq(Folders) /\ copying' = NoJob /\ NoJob.at = "idle"
    BY <1>t, <1>b, <1>8, GiveUpWrites DEF GiveUpCopy, GiveUpRestore, NoJob
  <2> QED
    BY <1>t, <1>8, <2>1 DEF GiveUpCopy, GiveUpRestore, SaveTypes, SavesTypeOK, Folders
<1>9. CASE Running /\ FinishCopy
  <2>1. backups' \in Seq(Folders) /\ NoJob.at = "idle" /\ copying \in Jobs
    BY <1>t, <1>b, <1>9, FinishWrites, RunningJob DEF NoJob
  <2>2. copying'.at \in {"idle", "clear"}
    BY <1>9, <2>1 DEF FinishCopy, Jobs
  <2> QED
    BY <1>t, <1>9, <2>1, <2>2 DEF FinishCopy, SaveTypes, SavesTypeOK, Folders
<1>10. CASE Running /\ ClearIncoming
  BY <1>t, <1>10, SaveFileFacts DEF ClearIncoming, SaveTypes, SavesTypeOK
<1>11. CASE Running /\ RemoveLive
  <2>1. copying \in Jobs /\ copying.at = "remove" /\ copying.raced \in BOOLEAN
    BY <1>t, <1>11, RunningJob DEF RemoveLive, Jobs
  <2>2. removed' \in [files : Contents, raced : BOOLEAN]
    BY <1>t, <1>11, <2>1 DEF RemoveLive, SavesTypeOK
  <2> QED
    BY <1>t, <1>11, <2>1, <2>2 DEF RemoveLive, SaveTypes, SavesTypeOK
<1>12. CASE Running /\ PutInPlace
  <2>1. copying' = NoJob /\ NoJob.at = "idle" /\ copying.at = "rename" /\ incoming \in Contents
    BY <1>t, <1>12 DEF PutInPlace, NoJob, SaveTypes
  <2> QED
    BY <1>t, <1>12, <2>1 DEF PutInPlace, SaveTypes, SavesTypeOK
<1>13. CASE ManagerDies
  <2>1. copying' = NoJob /\ NoJob.at = "idle"
    BY <1>13 DEF ManagerDies, NoJob
  <2> QED
    BY <1>t, <1>13, <2>1, SaveFileFacts DEF ManagerDies, SaveTypes, SavesTypeOK
<1> QED
  BY <1>1, <1>2, <1>3, <1>4, <1>5, <1>6, <1>7, <1>8, <1>9, <1>10, <1>11, <1>12, <1>13 DEF SavesNext

-----------------------------------------------------------------------------
(* A copy under way.                                                        *)

\* The job stays, or is seen to be disturbed; the folder it writes stays.
LEMMA GameSteps ==
    ASSUME SavesInv, StartGame \/ BeginSave \/ CloseGame \/ \E f \in SaveFiles : WriteFile(f)
    PROVE  /\ UNCHANGED <<backups, incoming, removed>>
           /\ copying'.at = copying.at /\ copying'.slot = copying.slot /\ copying'.of = copying.of
           /\ copying'.for = copying.for /\ copying'.next = copying.next
           /\ copying'.recorded = copying.recorded
           /\ Running' = Running
           /\ Running => copying'.raced \/ (copying' = copying /\ live' = live)
           /\ Running /\ ~copying'.raced => ~game'.on /\ ~copying.raced
           /\ live # NoFile => live' # NoFile
           /\ live' = live \/ live' # NoFile
<1>t. SaveTypes /\ SaveTypes' /\ JobIsAlone /\ SavesTypeOK /\ SavesTypeOK'
  BY SaveTypesKept DEF SavesInv, SaveTypes, SavesNext
<1>1. CASE StartGame
  <2>1. CASE Running
    <3>1. copying \in Jobs /\ copying' = [copying EXCEPT !.raced = TRUE]
      BY <1>t, <1>1, <2>1, RunningJob DEF StartGame, raced
    <3>2. copying' \in Jobs /\ copying'.at = copying.at /\ copying'.raced = TRUE
          /\ copying'.slot = copying.slot /\ copying'.of = copying.of
          /\ copying'.for = copying.for /\ copying'.next = copying.next
          /\ copying'.recorded = copying.recorded
      BY <3>1 DEF Jobs
    <3>3. Running'
      BY <1>t, <3>2, RunningJob DEF Running, NoJob, Jobs, Copies, Putting
    <3> QED
      BY <1>1, <2>1, <3>2, <3>3 DEF StartGame
  <2>2. CASE ~Running
    BY <1>1, <2>2 DEF StartGame, raced, Running
  <2> QED
    BY <2>1, <2>2
<1>2. CASE BeginSave \/ CloseGame
  BY <1>t, <1>2 DEF BeginSave, CloseGame, Running, JobIsAlone, SavesTypeOK
<1>3. ASSUME NEW f \in SaveFiles, WriteFile(f)
      PROVE  /\ UNCHANGED <<backups, incoming, removed, copying>> /\ game.on /\ live' # NoFile
             /\ game'.on = game.on
  <2>1. game.on /\ game'.on = game.on
    BY <1>t, <1>3 DEF WriteFile, SaveTypes, SavesTypeOK
  <2>2. live' \in Contents
    <3>1. (IF live = NoFile THEN Nothing ELSE live) \in Contents
      BY <1>t, SaveFileFacts DEF SavesTypeOK
    <3>2. newest \in 0 .. MaxMoment
      BY <1>t DEF SavesTypeOK
    <3> QED
      BY <1>3, <3>1, <3>2 DEF WriteFile, Contents
  <2> QED
    BY <1>3, <2>1, <2>2, SaveFileFacts DEF WriteFile
<1>4. CASE \E f \in SaveFiles : WriteFile(f)
  BY <1>t, <1>3, <1>4 DEF Running, JobIsAlone
<1> QED
  BY <1>1, <1>2, <1>4

LEMMA CopyKept == SavesInv /\ SavesNext => CopySound'
<1> SUFFICES ASSUME SavesInv, SavesNext, copying'.at \in Copies PROVE CopySound'
  BY DEF CopySound
<1>t. SaveTypes /\ SaveTypes' /\ CopySound /\ SavesTypeOK /\ Len(backups) \in Nat
  BY SaveTypesKept, KeptNumbers DEF SavesInv, SaveTypes
<1>0. NoJob.at = "idle" /\ "idle" \notin Copies
  BY DEF NoJob, Copies
<1>1. CASE StartGame \/ BeginSave \/ CloseGame \/ \E f \in SaveFiles : WriteFile(f)
  <2>1. copying.at \in Copies /\ Running
    BY <1>t, <1>1, GameSteps, RunningJob DEF Copies
  <2> QED
    BY <1>t, <1>1, <2>1, GameSteps DEF CopySound, Backup
<1>2. ASSUME NEW n \in DOMAIN backups, Spoil(n) PROVE CopySound'
  <2>1. copying' = copying /\ live' = live /\ n \in KeptBackups
    BY <1>2 DEF Spoil
  <2>2. copying.slot \in 1 .. Len(backups) /\ copying.slot # n
    BY <1>t, <2>1, KeptNumbers DEF CopySound, Backup
  <2> QED
    BY <1>t, <1>2, <2>1, <2>2, SpoilWrites DEF CopySound, Rewrites, Backup
<1>3. ASSUME NEW n \in DOMAIN backups, BeginRestore(n) PROVE CopySound'
  <2>1. live # NoFile
    BY <1>t, <1>3, RestoreBegins DEF Begun, Copies
  <2>2. copying' = Begun("sums", "restore", n, Len(backups) + 1, Backup(n).record) /\ n \in 1 .. Len(backups)
    BY <1>t, <1>3, <2>1, RestoreBegins
  <2>3. Adds(EmptyBackup) /\ live' = live
    BY <1>t, <1>3, <2>1, BeginAdds DEF BeginRestore
  <2> QED
    BY <1>t, <2>1, <2>2, <2>3, EmptyIsFolder DEF CopySound, Adds, Begun, Backup
<1>4. CASE BeginBackup
  <2>1. live # NoFile /\ Adds(EmptyBackup) /\ live' = live
    BY <1>t, <1>4, BeginAdds DEF BeginBackup
  <2>2. copying' = Begun("sums", "backup", 0, Len(backups) + 1, NoFile)
    BY <1>t, <1>4, BackupBegins
  <2> QED
    BY <1>t, <2>1, <2>2, EmptyIsFolder DEF CopySound, Adds, Begun, Backup
<1>5. ASSUME NEW n \in DOMAIN backups, Cleanup(n) PROVE CopySound'
  BY <1>t, <1>0, <1>5, RunningJob DEF Cleanup
<1>6. CASE Running /\ SumFile
  <2>1. Moves("copy") /\ copying.at = "sums" /\ live' = live /\ backups' = backups
    BY <1>t, <1>6, FileSteps DEF SumFile
  <2>2. copying'.at = "sums" \/ (copying'.at = "copy" /\ copying'.next = 1)
    BY <2>1 DEF Moves
  <2> QED
    BY <1>t, <2>1, <2>2 DEF CopySound, Moves, Copies, Backup
<1>7. CASE Running /\ CopyFile
  <2>1. Moves("compare") /\ copying.at = "copy" /\ live' = live
    BY <1>t, <1>7, FileSteps DEF CopyFile
  <2> DEFINE s == copying.slot
  <2>2. s = Len(backups) /\ Len(backups) > 0 /\ live # NoFile /\ Backup(s) \in Folders
    BY <1>t, <2>1, KeptNumbers, ElementOfSeq DEF CopySound, Copies, Backup
  <2>3. PICK b \in Folders :
             /\ Rewrites(s, b)
             /\ b.files = [Backup(s).files EXCEPT ![SaveFile] = LiveFile(SaveFile)]
             /\ b.source = Backup(s).source /\ b.part = Backup(s).part
             /\ b.gone = Backup(s).gone
    BY <1>t, <1>7, CopyWrites
  <2>4. LiveFile(SaveFile) = live[SaveFile] /\ live \in Contents /\ SaveFile \in SaveFiles
    BY <1>t, <1>7, <2>2, RunningJob, LiveFileTyped
  <2>5. \A f \in SaveFiles : b.files[f] = IF f = SaveFile THEN live[f] ELSE Backup(s).files[f]
    BY <2>2, <2>3, <2>4 DEF Folders, Contents
  <2>6. ASSUME ~copying.raced, NEW i \in 1 .. copying.next
        PROVE  b.files[SaveOrder[i]] = live[SaveOrder[i]]
    <3>0. copying.next \in 1 .. Len(SaveOrder)
      BY <2>1 DEF Moves
    <3>1. SaveOrder[i] \in SaveFiles
      <4>1. i \in 1 .. Len(SaveOrder)
        BY <2>6, <3>0, SaveFileFacts
      <4> QED
        BY <4>1, SaveFileFacts
    <3>2. CASE i = copying.next
      BY <2>5, <3>1, <3>2 DEF SaveFile
    <3>3. CASE i \in 1 .. copying.next - 1
      BY <1>t, <2>1, <2>5, <2>6, <3>1, <3>3 DEF CopySound, Copies
    <3> QED
      BY <2>1, <3>2, <3>3 DEF Moves
  <2>7. ASSUME ~copying.raced, copying'.at = "compare" PROVE b.files = live
    <3>1. copying.next = Len(SaveOrder)
      BY <2>1, <2>7 DEF Moves, LastFile
    <3>2. \A f \in SaveFiles : b.files[f] = live[f]
      <4>1. ASSUME NEW f \in SaveFiles PROVE b.files[f] = live[f]
        <5>1. PICK i \in 1 .. Len(SaveOrder) : SaveOrder[i] = f
          BY SaveFileFacts
        <5> QED
          BY <2>6, <2>7, <3>1, <5>1
      <4> QED
        BY <4>1
    <3> QED
      BY <2>3, <2>4, <3>2 DEF Folders, Contents
  <2>8. copying'.at = "copy" => copying'.next - 1 = copying.next
    BY <2>1 DEF Moves
  <2>9. Backup(copying.slot)' = b
    BY <2>1, <2>3 DEF Moves, Rewrites, Backup
  <2>10. /\ copying'.slot = s /\ copying'.raced = copying.raced /\ copying'.of # s
         /\ Len(backups') = Len(backups) /\ b.part /\ ~b.gone
         /\ ~copying.raced => b.source = live
    <3>1. Backup(s).part /\ ~Backup(s).gone /\ copying.of # s
          /\ (~copying.raced => Backup(s).source = live)
      BY <1>t, <2>1 DEF CopySound, Copies
    <3> QED
      BY <2>1, <2>3, <3>1 DEF Moves, Rewrites
  <2>11. ASSUME ~copying'.raced, copying'.at = "copy"
         PROVE  \A i \in 1 .. copying'.next - 1 : b.files[SaveOrder[i]] = live[SaveOrder[i]]
    BY <2>6, <2>8, <2>10, <2>11
  <2> QED
    BY <2>1, <2>2, <2>7, <2>9, <2>10, <2>11 DEF CopySound
<1>8. CASE Running /\ FillIncoming
  BY <1>t, <1>8, FileSteps DEF FillIncoming, Moves, Copies
<1>9. CASE GiveUpCopy \/ GiveUpRestore \/ PutInPlace \/ ManagerDies
  BY <1>0, <1>9 DEF GiveUpCopy, GiveUpRestore, PutInPlace, ManagerDies
<1>10. CASE Running /\ (FinishCopy \/ ClearIncoming \/ RemoveLive)
  <2>1. copying \in Jobs
    BY <1>t, <1>10, RunningJob
  <2> QED
    BY <1>0, <1>10, <2>1 DEF FinishCopy, ClearIncoming, RemoveLive, Jobs, Copies
<1> QED
  BY <1>1, <1>2, <1>3, <1>4, <1>5, <1>6, <1>7, <1>8, <1>9, <1>10 DEF SavesNext

-----------------------------------------------------------------------------
(* A restore.                                                               *)

LEMMA SameFiles ==
    ASSUME NEW a \in Contents, NEW b \in Contents, Mismatches(a, Checksums(b)) = {}
    PROVE  a = b
BY DEF Mismatches, Checksums, Contents

LEMMA SourceKept == SavesInv /\ SavesNext => SourceSound' /\ JobIsAlone'
<1> SUFFICES ASSUME SavesInv, SavesNext PROVE SourceSound' /\ JobIsAlone'
  OBVIOUS
<1>t. SaveTypes /\ SaveTypes' /\ SourceSound /\ JobIsAlone /\ SavesTypeOK /\ Len(backups) \in Nat
  BY SaveTypesKept, KeptNumbers DEF SavesInv, SaveTypes
<1>0. ASSUME copying' = NoJob PROVE SourceSound' /\ JobIsAlone'
  BY <1>0 DEF NoJob, SourceSound, JobIsAlone, Running, Putting
<1>a. ASSUME copying \in Jobs, copying' \in Jobs, game' = game, Len(backups') = Len(backups),
             copying'.for = copying.for, copying'.of = copying.of, copying'.raced = copying.raced,
             copying'.at \in Putting \cup {"rename"} =>
               copying.at \in Putting \cup {"rename"} \/ copying.for = "restore"
      PROVE  SourceSound' /\ JobIsAlone'
  <2>1. Running /\ copying.at # "idle"
    BY <1>t, <1>a, RunningJob
  <2> QED
    BY <1>t, <1>a, <2>1 DEF SourceSound, JobIsAlone
<1>1. CASE StartGame \/ BeginSave \/ CloseGame \/ \E f \in SaveFiles : WriteFile(f)
  <2>1. backups' = backups /\ copying'.at = copying.at /\ copying'.for = copying.for
        /\ copying'.of = copying.of /\ Running' = Running
        /\ (Running /\ ~copying'.raced => ~game'.on)
    BY <1>1, GameSteps
  <2> QED
    BY <1>t, <2>1 DEF SourceSound, JobIsAlone
<1>2. ASSUME NEW n \in DOMAIN backups, Spoil(n) PROVE SourceSound' /\ JobIsAlone'
  <2>1. copying' = copying /\ game' = game /\ Len(backups') = Len(backups)
    BY <1>t, <1>2, SpoilWrites DEF Spoil, Rewrites
  <2> QED
    BY <1>t, <2>1 DEF SourceSound, JobIsAlone, Running
<1>3. ASSUME NEW n \in DOMAIN backups, BeginRestore(n) PROVE SourceSound' /\ JobIsAlone'
  <2>1. /\ n \in 1 .. Len(backups)
        /\ copying' = IF live # NoFile THEN Begun("sums", "restore", n, Len(backups) + 1, Backup(n).record)
                      ELSE Begun("clear", "restore", n, 0, Backup(n).record)
    BY <1>t, <1>3, RestoreBegins
  <2>2. copying'.for = "restore" /\ copying'.of = n
    BY <2>1 DEF Begun
  <2>3. n \in 1 .. Len(backups')
    BY <1>t, <1>3, <2>1, BeginAdds DEF BeginRestore, Adds
  <2>4. ~game'.on
    BY <1>3 DEF BeginRestore
  <2> QED
    BY <2>2, <2>3, <2>4 DEF SourceSound, JobIsAlone
<1>4. CASE BeginBackup
  <2>1. copying' = Begun("sums", "backup", 0, Len(backups) + 1, NoFile) /\ ~game'.on
    BY <1>t, <1>4, BackupBegins DEF BeginBackup
  <2> QED
    BY <2>1 DEF Begun, SourceSound, JobIsAlone, Putting
<1>5. ASSUME NEW n \in DOMAIN backups, Cleanup(n) PROVE SourceSound' /\ JobIsAlone'
  BY <1>t, <1>0, <1>5, RunningJob DEF Cleanup
<1>6. CASE Running /\ (SumFile \/ CopyFile \/ FillIncoming)
  <2>1. copying \in Jobs /\ game' = game
    BY <1>t, <1>6, RunningJob DEF SumFile, CopyFile, FillIncoming
  <2>2. Len(backups') = Len(backups)
    BY <1>t, <1>6, CopyWrites DEF SumFile, FillIncoming, Rewrites, SavesInv
  <2>3. copying'.at \in Putting \cup {"rename"} => copying.at \in Putting
    BY <1>t, <1>6, FileSteps DEF SumFile, CopyFile, FillIncoming, Moves, Putting
  <2> QED
    BY <1>a, <1>t, <1>6, <2>1, <2>2, <2>3, FileSteps DEF Moves
<1>7. CASE GiveUpCopy \/ GiveUpRestore \/ PutInPlace \/ ManagerDies
  BY <1>0, <1>7 DEF GiveUpCopy, GiveUpRestore, PutInPlace, ManagerDies
<1>8. CASE Running /\ FinishCopy
  <2>1. CASE copying.for = "backup"
    BY <1>0, <1>8, <2>1 DEF FinishCopy
  <2>2. CASE copying.for # "backup"
    <3>1. copying \in Jobs /\ game' = game /\ copying' = [copying EXCEPT !.at = "clear"]
      BY <1>t, <1>8, <2>2, RunningJob DEF FinishCopy
    <3>2. copying' \in Jobs /\ copying'.for = copying.for /\ copying'.of = copying.of
          /\ copying'.raced = copying.raced /\ copying.for = "restore"
      BY <2>2, <3>1 DEF Jobs, Putting
    <3>3. Len(backups') = Len(backups)
      BY <1>t, <1>8, FinishWrites DEF Rewrites, SavesInv
    <3> QED
      BY <1>a, <3>1, <3>2, <3>3
  <2> QED
    BY <2>1, <2>2
<1>9. CASE Running /\ (ClearIncoming \/ RemoveLive)
  <2>1. copying \in Jobs /\ game' = game /\ backups' = backups /\ copying.at \in Putting
    BY <1>t, <1>9, RunningJob DEF ClearIncoming, RemoveLive, Putting
  <2>2. copying'.for = copying.for /\ copying'.of = copying.of /\ copying'.raced = copying.raced
        /\ copying'.at # "idle"
    BY <1>9, <2>1 DEF ClearIncoming, RemoveLive, Jobs
  <2>3. copying' \in Jobs
    <3>1. NoJob.at = "idle"
      BY DEF NoJob
    <3> QED
      BY <1>t, <2>2, <3>1 DEF SaveTypes
  <2> QED
    BY <1>a, <2>1, <2>2, <2>3
<1> QED
  BY <1>1, <1>2, <1>3, <1>4, <1>5, <1>6, <1>7, <1>8, <1>9 DEF SavesNext

LEMMA RestoreKept == SavesInv /\ SavesNext => RestoreSound'
<1> SUFFICES ASSUME SavesInv, SavesNext PROVE RestoreSound'
  OBVIOUS
<1>t. SaveTypes /\ SaveTypes' /\ CopySound /\ RestoreSound /\ SourceSound /\ SavesTypeOK /\ SavesTypeOK'
      /\ Len(backups) \in Nat
  BY SaveTypesKept, KeptNumbers DEF SavesInv, SaveTypes
<1>0. ASSUME copying'.at \notin Putting \cup {"rename"} PROVE RestoreSound'
  BY <1>0 DEF RestoreSound
<1>n. NoJob.at \notin Putting \cup {"rename"}
  BY DEF NoJob, Putting
<1>1. CASE StartGame \/ BeginSave \/ CloseGame \/ \E f \in SaveFiles : WriteFile(f)
  <2>1. copying.at \in Putting \cup {"rename"} => Running
    BY <1>t, RunningJob DEF Putting
  <2>2. KeptBackups' = KeptBackups
    BY <1>1, GameSteps DEF KeptBackups, Backup
  <2>3. /\ copying'.at = copying.at /\ copying'.slot = copying.slot /\ copying'.of = copying.of
        /\ copying'.recorded = copying.recorded /\ incoming' = incoming /\ backups' = backups
        /\ Running => copying'.raced \/ (copying' = copying /\ live' = live)
    BY <1>1, GameSteps
  <2> QED
    BY <1>t, <2>1, <2>2, <2>3 DEF RestoreSound, Backup
<1>2. ASSUME NEW n \in DOMAIN backups, Spoil(n) PROVE RestoreSound'
  <2>1. copying' = copying /\ live' = live /\ incoming' = incoming /\ (Running => n = copying.of)
    BY <1>2 DEF Spoil
  <2>2. PICK b \in Folders : Rewrites(n, b)
    BY <1>t, <1>2, SpoilWrites
  <2>3. ASSUME copying.at \in Putting, live # NoFile, ~copying.raced
        PROVE  /\ copying.slot = Len(backups') /\ copying.slot \in KeptBackups'
               /\ copying.of # copying.slot
               /\ backups'[copying.slot] = Backup(copying.slot)
    <3>1. copying.slot # n /\ copying.slot \in KeptBackups /\ copying.slot = Len(backups)
          /\ copying.of # copying.slot
      BY <1>t, <2>1, <2>3, RunningJob DEF RestoreSound, Putting
    <3>2. copying.slot \in 1 .. Len(backups)
      BY <1>t, <3>1, KeptNumbers
    <3>3. backups'[copying.slot] = backups[copying.slot]
      BY <2>2, <3>1, <3>2 DEF Rewrites
    <3>4. DOMAIN backups' = 1 .. Len(backups) /\ Len(backups') = Len(backups)
      BY <1>t, <2>2, LenProperties DEF Rewrites
    <3> QED
      BY <3>1, <3>2, <3>3, <3>4 DEF KeptBackups, Backup
  <2> QED
    BY <1>t, <2>1, <2>3 DEF RestoreSound, Backup
<1>3. ASSUME NEW n \in DOMAIN backups, BeginRestore(n) PROVE RestoreSound'
  <2>1. live' = live
    BY <1>3 DEF BeginRestore
  <2>2. copying'.at = IF live # NoFile THEN "sums" ELSE "clear"
    BY <1>t, <1>3, RestoreBegins DEF Begun
  <2> QED
    BY <2>1, <2>2 DEF RestoreSound, Putting
<1>4. CASE BeginBackup
  BY <1>t, <1>0, <1>4, BackupBegins DEF Begun, Putting
<1>5. ASSUME NEW n \in DOMAIN backups, Cleanup(n) PROVE RestoreSound'
  BY <1>t, <1>0, <1>n, <1>5, RunningJob DEF Cleanup
<1>6. CASE Running /\ (SumFile \/ CopyFile)
  <2>1. copying'.at \in Copies
    BY <1>t, <1>6, FileSteps DEF Moves, SumFile, CopyFile, Copies
  <2> QED
    BY <1>0, <2>1 DEF Copies, Putting
<1>7. CASE GiveUpCopy \/ GiveUpRestore \/ PutInPlace \/ ManagerDies
  BY <1>0, <1>n, <1>7 DEF GiveUpCopy, GiveUpRestore, PutInPlace, ManagerDies
<1>8. CASE Running /\ FinishCopy
  <2>1. CASE copying.for = "backup"
    BY <1>0, <1>n, <1>8, <2>1 DEF FinishCopy
  <2>2. CASE copying.for # "backup"
    <3>1. copying \in Jobs /\ live' = live /\ copying' = [copying EXCEPT !.at = "clear"]
          /\ copying.at = "compare"
      BY <1>t, <1>8, <2>2, RunningJob DEF FinishCopy
    <3>2. copying'.at = "clear" /\ copying'.slot = copying.slot /\ copying'.of = copying.of
          /\ copying'.raced = copying.raced /\ copying.sums \in Contents
      BY <3>1 DEF Jobs
    <3>3. PICK b \in Folders :
             /\ Rewrites(copying.slot, b)
             /\ b.files = Backup(copying.slot).files /\ b.record = copying.sums /\ ~b.part
             /\ b.gone = Backup(copying.slot).gone
      BY <1>t, <1>8, FinishWrites
    <3>4. copying.slot = Len(backups) /\ Len(backups) > 0 /\ ~b.gone /\ copying.of # copying.slot
          /\ (~copying.raced => b.files = live)
      BY <1>t, <3>1, <3>3 DEF CopySound, Copies
    <3>5. Verified(b)
      <4>1. Mismatches(copying.sums, Checksums(b.files)) = {}
        BY <1>8, <3>3 DEF FinishCopy
      <4> QED
        BY <3>2, <3>3, <4>1, SaveFileFacts DEF Verified
    <3>6. Len(backups') = Len(backups) /\ DOMAIN backups' = 1 .. Len(backups) /\ backups'[copying.slot] = b
      BY <1>t, <3>3, LenProperties DEF Rewrites
    <3>7. copying.slot \in KeptBackups'
      BY <1>t, <3>3, <3>4, <3>6 DEF KeptBackups, Kept, Backup
    <3> QED
      BY <3>1, <3>2, <3>4, <3>5, <3>6, <3>7 DEF RestoreSound, Backup
  <2> QED
    BY <2>1, <2>2
<1>9. CASE Running /\ (ClearIncoming \/ FillIncoming)
  <2>1. copying \in Jobs /\ live' = live /\ backups' = backups /\ copying.at \in Putting
    BY <1>t, <1>9, RunningJob DEF ClearIncoming, FillIncoming, Putting
  <2>2. copying'.at \in Putting /\ copying'.slot = copying.slot /\ copying'.of = copying.of
        /\ copying'.raced = copying.raced
    BY <1>t, <1>9, <2>1, FileSteps DEF ClearIncoming, FillIncoming, Moves, Jobs, Putting
  <2>3. KeptBackups' = KeptBackups
    BY <2>1 DEF KeptBackups, Backup
  <2> QED
    BY <1>t, <2>1, <2>2, <2>3 DEF RestoreSound, Putting, Backup
<1>10. CASE Running /\ RemoveLive
  <2>1. copying \in Jobs /\ copying.at = "remove" /\ incoming \in Contents /\ incoming' = incoming
        /\ copying' = [copying EXCEPT !.at = "rename"]
    BY <1>t, <1>10, RunningJob DEF RemoveLive, SaveTypes
  <2>2. copying'.at = "rename" /\ copying'.recorded = copying.recorded
    BY <2>1 DEF Jobs
  <2>3. ASSUME copying.recorded # NoFile PROVE incoming = copying.recorded
    <3>1. copying.recorded \in Contents
      BY <2>1, <2>3 DEF Jobs
    <3>2. Mismatches(copying.recorded, Checksums(incoming)) = {}
      BY <1>10, <2>3 DEF RemoveLive, Expected
    <3> QED
      BY <2>1, <3>1, <3>2, SameFiles
  <2> QED
    BY <2>1, <2>2, <2>3 DEF RestoreSound, Putting
<1> QED
  BY <1>1, <1>2, <1>3, <1>4, <1>5, <1>6, <1>7, <1>8, <1>9, <1>10 DEF SavesNext

-----------------------------------------------------------------------------
(* The backups.                                                             *)

\* While the save is not there no backup is written, and the newest stays.
LEMMA NewestKept == SavesInv /\ SavesNext => NewestIsKept'
<1> SUFFICES ASSUME SavesInv, SavesNext, live' = NoFile, ~removed'.raced
             PROVE  \E n \in KeptBackups' :
                      /\ backups'[n].files = removed'.files /\ Verified(backups'[n])
                      /\ \A m \in KeptBackups' : m <= n
  BY DEF NewestIsKept, Backup
<1>t. SaveTypes /\ CopySound /\ RestoreSound /\ NewestIsKept /\ SavesTypeOK /\ Len(backups) \in Nat
  BY KeptNumbers DEF SavesInv, SaveTypes
<1>0. ASSUME live = NoFile, backups' = backups, removed' = removed
      PROVE  \E n \in KeptBackups' :
                      /\ backups'[n].files = removed'.files /\ Verified(backups'[n])
                      /\ \A m \in KeptBackups' : m <= n
  BY <1>t, <1>0 DEF NewestIsKept, KeptBackups, Backup
<1>1. CASE StartGame \/ BeginSave \/ CloseGame \/ \E f \in SaveFiles : WriteFile(f)
  BY <1>0, <1>1, GameSteps
<1>2. ASSUME NEW n \in DOMAIN backups, Cleanup(n)
      PROVE  \E k \in KeptBackups' :
                      /\ backups'[k].files = removed'.files /\ Verified(backups'[k])
                      /\ \A m \in KeptBackups' : m <= k
  <2>1. live = NoFile /\ removed' = removed /\ n \in KeptBackups /\ Rank(n) >= KeepBackups
    BY <1>2 DEF Cleanup
  <2>2. PICK k \in KeptBackups :
            /\ Backup(k).files = removed.files /\ Verified(Backup(k))
            /\ \A m \in KeptBackups : m <= k
    BY <1>t, <2>1 DEF NewestIsKept
  <2>3. n # k
    <3>1. SUFFICES ASSUME n = k PROVE FALSE
      OBVIOUS
    <3>2. \A m \in KeptBackups : ~(m > k)
      BY <1>t, <2>2, KeptNumbers
    <3>3. {m \in KeptBackups : m > n} = {}
      BY <3>1, <3>2
    <3>4. Rank(n) = 0
      BY <3>3, FS_EmptySet DEF Rank
    <3> QED
      BY <2>1, <3>4, SaveFileFacts
  <2>4. Rewrites(n, Gone)
    BY <1>t, <1>2, CleanupWrites
  <2>5. DOMAIN backups' = 1 .. Len(backups) /\ DOMAIN backups = 1 .. Len(backups)
    BY <1>t, <2>4, LenProperties, KeptNumbers DEF Rewrites
  <2>6. \A m \in 1 .. Len(backups) : m # n => backups'[m] = backups[m]
    BY <2>4 DEF Rewrites
  <2>7. Gone.part /\ backups'[n] = Gone
    BY <1>t, <2>4, EmptyIsFolder DEF Rewrites
  <2>8. k \in KeptBackups' /\ KeptBackups' \subseteq KeptBackups
    BY <2>2, <2>3, <2>5, <2>6, <2>7 DEF KeptBackups, Kept, Backup
  <2> QED
    BY <2>1, <2>2, <2>3, <2>5, <2>6, <2>8 DEF KeptBackups, Backup
<1>3. CASE Running /\ RemoveLive
  <2>1. backups' = backups /\ copying.at \in Putting /\ KeptBackups' = KeptBackups
    BY <1>3 DEF RemoveLive, Putting, KeptBackups, Backup
  <2>2. CASE live = NoFile
    BY <1>0, <1>3, <2>1, <2>2 DEF RemoveLive
  <2>3. CASE live # NoFile
    <3>1. removed' = [files |-> live, raced |-> copying.raced]
      BY <1>3, <2>3 DEF RemoveLive
    <3>2. /\ copying.slot = Len(backups) /\ copying.slot \in KeptBackups
          /\ Backup(copying.slot).files = live /\ Verified(Backup(copying.slot))
      BY <1>t, <2>1, <2>3, <3>1 DEF RestoreSound
    <3>3. \A m \in KeptBackups : m <= copying.slot
      BY <1>t, <3>2, KeptNumbers
    <3> QED
      BY <2>1, <3>1, <3>2, <3>3 DEF Backup
  <2> QED
    BY <2>2, <2>3
<1>4. CASE Running /\ PutInPlace
  <2>1. copying.at = "rename" /\ incoming # NoFile
    BY <1>t, <1>4, SaveFileFacts DEF PutInPlace, SaveTypes
  <2> QED
    BY <1>4, <2>1 DEF PutInPlace
<1>5. CASE Running /\ (CopyFile \/ FinishCopy \/ SumFile \/ ClearIncoming \/ FillIncoming)
  BY <1>t, <1>0, <1>5 DEF CopyFile, FinishCopy, SumFile, ClearIncoming, FillIncoming, CopySound, Copies
<1>6. CASE GiveUpCopy
  BY <1>t, <1>6 DEF GiveUpCopy, CopySound, Copies
<1>7. CASE BeginBackup \/ GiveUpRestore \/ ManagerDies
  BY <1>0, <1>7 DEF BeginBackup, GiveUpRestore, ManagerDies
<1>8. ASSUME NEW n \in DOMAIN backups, Spoil(n) \/ BeginRestore(n)
      PROVE  \E k \in KeptBackups' :
                      /\ backups'[k].files = removed'.files /\ Verified(backups'[k])
                      /\ \A m \in KeptBackups' : m <= k
  BY <1>0, <1>8 DEF Spoil, BeginRestore
<1> QED
  BY <1>1, <1>2, <1>3, <1>4, <1>5, <1>6, <1>7, <1>8 DEF SavesNext

LEMMA BackupsKept == SavesInv /\ SavesNext => BackupIsTheSave'
<1> SUFFICES ASSUME SavesInv, SavesNext PROVE BackupIsTheSave'
  OBVIOUS
<1>t. SaveTypes /\ SaveTypes' /\ CopySound /\ BackupIsTheSave /\ SavesTypeOK /\ SavesTypeOK'
      /\ Len(backups) \in Nat
  BY SaveTypesKept, KeptNumbers DEF SavesInv, SaveTypes
<1>0. ASSUME backups' = backups PROVE BackupIsTheSave'
  BY <1>t, <1>0 DEF BackupIsTheSave, KeptBackups, Backup
<1>a. ASSUME NEW n, NEW b, n \in 1 .. Len(backups), Rewrites(n, b),
             ~b.part /\ ~b.gone /\ ~b.raced =>
               \A f \in SaveFiles : b.files[f] \in {b.source[f], Damaged}
      PROVE  BackupIsTheSave'
  <2>1. DOMAIN backups' = 1 .. Len(backups) /\ DOMAIN backups = 1 .. Len(backups)
    BY <1>t, <1>a, LenProperties, KeptNumbers DEF Rewrites
  <2> SUFFICES ASSUME NEW m \in KeptBackups', ~backups'[m].raced, NEW f \in SaveFiles
               PROVE  backups'[m].files[f] \in {backups'[m].source[f], Damaged}
    BY DEF BackupIsTheSave, Backup
  <2>2. m \in 1 .. Len(backups) /\ ~backups'[m].part /\ ~backups'[m].gone
    BY <2>1 DEF KeptBackups, Kept, Backup
  <2>3. CASE m = n
    BY <1>a, <2>2, <2>3 DEF Rewrites
  <2>4. CASE m # n
    <3>1. backups'[m] = backups[m]
      BY <1>a, <2>2, <2>4 DEF Rewrites
    <3>2. m \in KeptBackups
      BY <2>1, <2>2, <3>1 DEF KeptBackups, Kept, Backup
    <3> QED
      BY <1>t, <3>1, <3>2 DEF BackupIsTheSave, Backup
  <2> QED
    BY <2>3, <2>4
<1>b. ASSUME live # NoFile, Adds(EmptyBackup) PROVE BackupIsTheSave'
  <2>1. DOMAIN backups' = 1 .. (Len(backups) + 1) /\ DOMAIN backups = 1 .. Len(backups)
    BY <1>t, <1>b, LenProperties, KeptNumbers DEF Adds
  <2>2. EmptyBackup.part /\ backups'[Len(backups) + 1] = EmptyBackup
    BY <1>t, <1>b, EmptyIsFolder DEF Adds
  <2>3. \A m \in KeptBackups' : m \in KeptBackups /\ backups'[m] = backups[m]
    BY <1>t, <1>b, <2>1, <2>2 DEF Adds, KeptBackups, Kept, Backup
  <2> QED
    BY <1>t, <2>3 DEF BackupIsTheSave, Backup
<1>1. CASE StartGame \/ BeginSave \/ CloseGame \/ \E f \in SaveFiles : WriteFile(f)
  BY <1>0, <1>1, GameSteps
<1>2. ASSUME NEW n \in DOMAIN backups, Spoil(n) PROVE BackupIsTheSave'
  <2>1. PICK b \in Folders :
             /\ Rewrites(n, b)
             /\ b.source = Backup(n).source /\ b.part = Backup(n).part
             /\ b.raced = Backup(n).raced /\ b.gone = Backup(n).gone
             /\ \A f \in SaveFiles : b.files[f] \in {Backup(n).files[f], Damaged}
    BY <1>t, <1>2, SpoilWrites
  <2>2. n \in KeptBackups /\ n \in 1 .. Len(backups)
    BY <1>t, <1>2, KeptNumbers DEF Spoil
  <2>3. ~b.raced => \A f \in SaveFiles : b.files[f] \in {b.source[f], Damaged}
    BY <1>t, <2>1, <2>2 DEF BackupIsTheSave
  <2> QED
    BY <1>a, <2>1, <2>2, <2>3
<1>3. ASSUME NEW n \in DOMAIN backups, BeginRestore(n) PROVE BackupIsTheSave'
  BY <1>t, <1>0, <1>b, <1>3, BeginAdds DEF BeginRestore
<1>4. CASE BeginBackup
  BY <1>t, <1>b, <1>4, BeginAdds DEF BeginBackup
<1>5. ASSUME NEW n \in DOMAIN backups, Cleanup(n) PROVE BackupIsTheSave'
  BY <1>t, <1>a, <1>5, CleanupWrites, EmptyIsFolder, KeptNumbers DEF Cleanup
<1>6. CASE Running /\ CopyFile
  <2>1. copying.slot \in 1 .. Len(backups) /\ Backup(copying.slot).part
    BY <1>t, <1>6 DEF CopyFile, CopySound, Copies
  <2> QED
    BY <1>t, <1>a, <1>6, <2>1, CopyWrites
<1>7. CASE GiveUpCopy
  <2>1. copying.slot \in 1 .. Len(backups)
    BY <1>t, <1>7 DEF GiveUpCopy, CopySound, Copies
  <2> QED
    BY <1>t, <1>a, <1>7, <2>1, GiveUpWrites, EmptyIsFolder
<1>8. CASE Running /\ FinishCopy
  <2>1. copying.slot \in 1 .. Len(backups)
        /\ (~copying.raced => Backup(copying.slot).source = live /\ Backup(copying.slot).files = live)
    BY <1>t, <1>8 DEF FinishCopy, CopySound, Copies
  <2> QED
    BY <1>t, <1>a, <1>8, <2>1, FinishWrites
<1> QED
  BY <1>0, <1>1, <1>2, <1>3, <1>4, <1>5, <1>6, <1>7, <1>8
     DEF SavesNext, SumFile, FillIncoming, GiveUpRestore, ClearIncoming, RemoveLive, PutInPlace, ManagerDies

\* What a restore puts in the save's place is what its backup's record said.
LEMMA PutsWhatWasRecorded ==
    ASSUME SavesInv, SavesNext, copying.at = "rename", live = NoFile, live' # NoFile,
           copying' = NoJob, copying.recorded # NoFile
    PROVE  live' = copying.recorded
<1>1. Running /\ incoming = copying.recorded /\ SaveTypes
  BY RunningJob DEF SavesInv, RestoreSound
<1>2. copying # NoJob
  BY <1>1 DEF Running
<1> QED
  <2>1. CASE PutInPlace
    BY <1>1, <2>1 DEF PutInPlace
  <2>2. CASE StartGame
    BY <2>2 DEF StartGame
  <2> QED
    BY <1>2, <2>1, <2>2
       DEF SavesNext, BeginSave, CloseGame, WriteFile, Spoil, BeginRestore, Cleanup, BeginBackup,
           SumFile, CopyFile, FillIncoming, GiveUpCopy, GiveUpRestore, FinishCopy, ClearIncoming,
           RemoveLive, ManagerDies

(* The backups are whole, the farm is never lost to a restore, and a restore *)
(* puts back what was backed up, wherever the manager dies and whatever the  *)
(* game does meanwhile (saves.rs: copy_to_backup, verify_backup, restore).   *)
THEOREM SavesStaySafe == SavesSpec => SavesAreSafe
<1>1. SavesInit => SavesInv
  BY SavesStart
<1>2. SavesInv /\ [SavesNext]_saveVars => SavesInv'
  <2> SUFFICES ASSUME SavesInv, [SavesNext]_saveVars PROVE SavesInv'
    OBVIOUS
  <2>1. CASE SavesNext
    BY <2>1, SaveTypesKept, CopyKept, RestoreKept, SourceKept, NewestKept, BackupsKept DEF SavesInv
  <2>2. CASE UNCHANGED saveVars
    BY <2>2 DEF saveVars, SavesInv, SaveTypes, SavesTypeOK, CopySound, RestoreSound, SourceSound,
                JobIsAlone, Running, NewestIsKept, BackupIsTheSave, KeptBackups, Backup
  <2> QED
    BY <2>1, <2>2
<1>3. SavesInv => SavesTypeOK /\ BackupIsTheSave /\ FarmIsNeverLost
  BY DEF SavesInv, SaveTypes, NewestIsKept, FarmIsNeverLost
<1>4. SavesInv /\ [SavesNext]_saveVars =>
        [copying.at = "rename" /\ live = NoFile /\ live' # NoFile /\ copying' = NoJob
          /\ copying.recorded # NoFile => live' = copying.recorded]_saveVars
  BY PutsWhatWasRecorded
<1> QED
  BY <1>1, <1>2, <1>3, <1>4, PTL DEF SavesSpec, SavesAreSafe, RestoresWhatWasSaved

-----------------------------------------------------------------------------
(* The files of one mod: the check, acceptances, settings.                 *)

\* What a file may hold, and what a task of each kind may know.
Held == Texts \cup {Missing}
Acceptings == [at : {"accept"},
               check : [missing : SUBSET Assets, modified : SUBSET Assets, accepted : SUBSET Assets],
               then : [Paths -> Held]]
Writings == [at : {"keep", "write"}, what : {"apply", "restore", "point", "to_point"},
             seen : PartOf(Settings), since : Nat, new : PartOf(Settings), slot : Nat,
             left : SUBSET Settings]
SettingsBackups == [files : PartOf(Settings), gone : BOOLEAN]

ModTypes ==
    /\ ModFilesTypeOK
    /\ copies \in Seq(SettingsBackups)
    /\ task \in {NoTask} \cup Acceptings \cup Writings
    /\ edits \in Nat

SameSettings(a, b) == DOMAIN a = DOMAIN b /\ \A f \in DOMAIN a : a[f] = b[f]

\* What an acceptance holds against the player's changes is what the folder
\* differed in when it was checked.
Differing(files) == {f \in Assets : files[f] = Missing \/ files[f] # Installed[f]}
AcceptSeen ==
    /\ \A f \in DOMAIN accepted.files : accepted.files[f] \in accepted.seen[f]
    /\ task.at = "accept" =>
         /\ task.check.missing \subseteq {f \in Assets : task.then[f] = Missing}
         /\ task.check.missing \cup task.check.modified \cup task.check.accepted = Differing(task.then)
         /\ Differing(task.then) # {}

\* A change has copied what it read, as far as it has come, or writes the same.
CopiedSoFar ==
    task.at \in {"keep", "write"} =>
        IF task.slot = 0
        THEN /\ task.at = "write" /\ task.what # "point"
             /\ \A f \in DOMAIN task.seen : Holds(task.new, f) = task.seen[f]
        ELSE /\ task.slot \in DOMAIN copies /\ task.slot # point.copy
             /\ DOMAIN copies[task.slot].files =
                  IF task.at = "keep" THEN DOMAIN task.seen \ task.left ELSE DOMAIN task.seen
             /\ \A f \in DOMAIN copies[task.slot].files :
                  copies[task.slot].files[f] = task.seen[f]

\* What it has written stands, unless somebody edited a file since it began.
WrittenSoFar ==
    task.at \in {"keep", "write"} =>
        /\ task.since <= edits
        /\ task.left \subseteq IF task.at = "keep" THEN DOMAIN task.seen ELSE DOMAIN task.new
        /\ task.at = "write" /\ task.since = edits =>
             \A f \in DOMAIN task.new \ task.left : disk[f] = task.new[f]

\* A restore point's settings are in the backup it names while that is kept.
PointIsKept ==
    /\ point.copy # 0 /\ Kept1(point.copy) => SameSettings(copies[point.copy].files, point.saved)
    /\ task.at \in {"keep", "write"} /\ task.what = "to_point" =>
         /\ point.copy # 0
         /\ Kept1(point.copy) => SameSettings(task.new, point.saved)

ModInv == ModTypes /\ AcceptSeen /\ CopiedSoFar /\ WrittenSoFar /\ PointIsKept

\* A collection of some of the files, and how one comes about.
LEMMA PartsAre ==
    ASSUME NEW S, NEW f \in PartOf(S)
    PROVE  DOMAIN f \subseteq S /\ f \in [DOMAIN f -> Held] /\ \A x \in DOMAIN f : f[x] \in Held
BY DEF PartOf, Held

LEMMA PartsMade ==
    ASSUME NEW S, NEW D \in SUBSET S, NEW f \in [D -> Held]
    PROVE  f \in PartOf(S)
BY DEF PartOf, Held

LEMMA NothingIsPart == ASSUME NEW S PROVE <<>> \in PartOf(S) /\ DOMAIN <<>> = {}
<1>1. <<>> \in [{} -> Held] /\ DOMAIN <<>> = {}
  BY EmptySeq
<1> QED
  BY <1>1, PartsMade

\* A task is what its label says.
LEMMA TaskKinds ==
    ASSUME task \in {NoTask} \cup Acceptings \cup Writings
    PROVE  /\ task.at = "none" <=> task = NoTask
           /\ task.at = "accept" <=> task \in Acceptings
           /\ task.at \in {"keep", "write"} <=> task \in Writings
           /\ task.at \in {"none", "accept", "keep", "write"}
BY DEF NoTask, Acceptings, Writings

\* What is there of the settings, and what a recipe brings.
LEMMA ConfigsArePart ==
    ASSUME disk \in [Paths -> Held]
    PROVE  /\ Configs \in PartOf(Settings)
           /\ \A f \in DOMAIN Configs : f \in Settings /\ Configs[f] = disk[f] /\ disk[f] # Missing
           /\ \A f \in Settings : Holds(Configs, f) = disk[f]
<1>1. DOMAIN Configs \in SUBSET Settings /\ Configs \in [DOMAIN Configs -> Held]
  BY DEF Configs, Paths
<1>2. Configs \in PartOf(Settings)
  BY <1>1, PartsMade
<1> QED
  BY <1>2 DEF Configs, Holds

LEMMA RecipeIsPart == Recipe \in PartOf(Settings)
BY ModFilesAssumption, PartsMade DEF Held, PartOf

LEMMA ModStarts == ModFilesInit => ModInv
<1> SUFFICES ASSUME ModFilesInit PROVE ModInv
  OBVIOUS
<1>1. disk \in [Paths -> Held]
  BY ModFilesAssumption DEF ModFilesInit, Paths, Held
<1>2. accepted.files \in PartOf(Assets) /\ accepted.seen \in [Paths -> SUBSET Held]
      /\ DOMAIN accepted.files = {}
  BY NothingIsPart DEF ModFilesInit
<1>3. copies \in Seq(SettingsBackups) /\ DOMAIN copies = {} /\ Len(copies) = 0
  BY DEF ModFilesInit
<1>4. point.copy = 0 /\ point.saved \in PartOf(Settings)
  BY NothingIsPart DEF ModFilesInit
<1>5. task = NoTask /\ edits = 0
  BY DEF ModFilesInit
<1>6. ModTypes
  BY <1>1, <1>2, <1>3, <1>4, <1>5 DEF ModTypes, ModFilesTypeOK, Held
<1> QED
  BY <1>2, <1>4, <1>5, <1>6 DEF ModInv, AcceptSeen, CopiedSoFar, WrittenSoFar, PointIsKept, NoTask

\* The four changes of settings begin alike.
BeginsWith(what, new, keeping) ==
    /\ NoChange /\ Change(what, Configs, new, keeping)
    /\ UNCHANGED <<disk, accepted, point, edits>>
    /\ ~keeping => what # "point" /\ \A f \in DOMAIN Configs : Holds(new, f) = Configs[f]
    /\ what = "to_point" => point.copy # 0 /\ new = copies[point.copy].files

LEMMA ChangesBegin ==
    ASSUME ModTypes,
           ApplyShared \/ SavePoint \/ RestoreToPoint \/ \E n \in DOMAIN copies : RestoreSettings(n)
    PROVE  \E what \in {"apply", "restore", "point", "to_point"}, new \in PartOf(Settings),
              keeping \in BOOLEAN : BeginsWith(what, new, keeping)
<1>1. CASE ApplyShared
  <2>1. BeginsWith("apply", Recipe, DOMAIN Configs # {})
    BY <1>1 DEF ApplyShared, BeginsWith
  <2> QED
    BY <2>1, RecipeIsPart
<1>2. CASE SavePoint
  <2>1. BeginsWith("point", <<>>, TRUE)
    BY <1>2 DEF SavePoint, BeginsWith
  <2> QED
    BY <2>1, NothingIsPart
<1>3. CASE RestoreToPoint
  <2>1. BeginsWith("to_point", copies[point.copy].files, DOMAIN Configs # {})
    BY <1>3 DEF RestoreToPoint, BeginsWith
  <2>2. copies[point.copy].files \in PartOf(Settings)
    BY <1>3 DEF RestoreToPoint, ModTypes, ModFilesTypeOK
  <2> QED
    BY <2>1, <2>2
<1>4. ASSUME NEW n \in DOMAIN copies, RestoreSettings(n)
      PROVE  \E what \in {"apply", "restore", "point", "to_point"}, new \in PartOf(Settings),
                keeping \in BOOLEAN : BeginsWith(what, new, keeping)
  <2> DEFINE new == copies[n].files
             keeping == \E f \in DOMAIN Configs : Holds(new, f) # Configs[f]
  <2>1. BeginsWith("restore", new, keeping)
    BY <1>4 DEF RestoreSettings, BeginsWith
  <2>2. new \in PartOf(Settings) /\ keeping \in BOOLEAN
    BY DEF ModTypes, ModFilesTypeOK
  <2> QED
    BY <2>1, <2>2
<1> QED
  BY <1>1, <1>2, <1>3, <1>4

\* A step is one of these.
LEMMA ModSteps ==
    ASSUME ModTypes, ModFilesNext
    PROVE  \/ \E f \in Paths, text \in Held : Edit(f, text)
           \/ BeginAccept \/ Accept
           \/ \E what \in {"apply", "restore", "point", "to_point"}, new \in PartOf(Settings),
                 keeping \in BOOLEAN : BeginsWith(what, new, keeping)
           \/ \E n \in DOMAIN copies : CleanSettings(n)
           \/ \E f \in Settings : KeepFile(f) \/ WriteSetting(f)
           \/ EndChange \/ ChangeStops
BY ChangesBegin, Zenon DEF ModFilesNext, Held

\* A check tells missing, modified and accepted files apart; together they are
\* what differs.
LEMMA CheckParts ==
    ASSUME NEW quick \in BOOLEAN
    PROVE  /\ Check(quick) \in [missing : SUBSET Assets, modified : SUBSET Assets, accepted : SUBSET Assets]
           /\ Check(quick).missing \subseteq {f \in Assets : disk[f] = Missing}
           /\ Check(FALSE).missing \cup Check(FALSE).modified \cup Check(FALSE).accepted = Differing(disk)
<1>1. Check(quick) \in [missing : SUBSET Assets, modified : SUBSET Assets, accepted : SUBSET Assets]
  BY DEF Check
<1>2. Check(quick).missing \subseteq {f \in Assets : disk[f] = Missing}
  BY DEF Check
<1>3. Check(FALSE).missing \cup Check(FALSE).modified \cup Check(FALSE).accepted = Differing(disk)
  BY DEF Check, Differing, Differs
<1> QED
  BY <1>1, <1>2, <1>3

\* What a change begins with, and how its task goes on.
LEMMA BegunTask ==
    ASSUME ModTypes, NEW what \in {"apply", "restore", "point", "to_point"},
           NEW new \in PartOf(Settings), NEW keeping \in BOOLEAN, BeginsWith(what, new, keeping)
    PROVE  /\ task' \in Writings
           /\ copies' \in Seq(SettingsBackups)
           /\ Len(copies') \in Nat /\ Len(copies') >= Len(copies)
           /\ \A n \in DOMAIN copies : n \in DOMAIN copies' /\ copies'[n] = copies[n]
           /\ keeping => task'.slot = Len(copies) + 1 /\ task'.slot \in DOMAIN copies'
                         /\ copies'[task'.slot].files = <<>>
           /\ ~keeping => task'.slot = 0
           /\ task'.at = IF keeping THEN "keep" ELSE "write"
           /\ task'.what = what /\ task'.seen = Configs /\ task'.new = new /\ task'.since = edits
           /\ task'.left = IF keeping THEN DOMAIN Configs ELSE DOMAIN new
<1>1. task' = [at |-> IF keeping THEN "keep" ELSE "write", what |-> what, seen |-> Configs,
               since |-> edits, new |-> new, slot |-> IF keeping THEN Len(copies) + 1 ELSE 0,
               left |-> IF keeping THEN DOMAIN Configs ELSE DOMAIN new]
  BY DEF BeginsWith, Change
<1>2. Configs \in PartOf(Settings) /\ DOMAIN Configs \subseteq Settings /\ DOMAIN new \subseteq Settings
  BY ConfigsArePart, PartsAre DEF ModTypes, ModFilesTypeOK, Held
<1>3. Len(copies) \in Nat /\ edits \in Nat
  BY DEF ModTypes
<1>4. task' \in Writings
  BY <1>1, <1>2, <1>3 DEF Writings
<1>5. copies' = IF keeping THEN Append(copies, [files |-> <<>>, gone |-> FALSE]) ELSE copies
  BY DEF BeginsWith, Change
<1>6. [files |-> <<>>, gone |-> FALSE] \in SettingsBackups
  BY NothingIsPart DEF SettingsBackups
<1>7. copies \in Seq(SettingsBackups)
  BY DEF ModTypes
<1>8. CASE keeping
  <2>1. copies' = Append(copies, [files |-> <<>>, gone |-> FALSE])
    BY <1>5, <1>8
  <2>2. /\ copies' \in Seq(SettingsBackups) /\ Len(copies') = Len(copies) + 1
        /\ \A n \in 1 .. Len(copies) : copies'[n] = copies[n]
        /\ copies'[Len(copies) + 1] = [files |-> <<>>, gone |-> FALSE]
    BY <2>1, <1>6, <1>7, AppendProperties
  <2>3. DOMAIN copies = 1 .. Len(copies) /\ DOMAIN copies' = 1 .. Len(copies) + 1
    BY <2>2, <1>7
  <2> QED
    BY <2>2, <2>3, <1>1, <1>3, <1>4, <1>8
<1>9. CASE ~keeping
  BY <1>1, <1>3, <1>4, <1>5, <1>7, <1>9
<1> QED
  BY <1>8, <1>9

\* A file more is kept: the folder of the copy under way, with it.
LEMMA KeptFile ==
    ASSUME ModInv, NEW f \in Settings, KeepFile(f)
    PROVE  /\ task \in Writings /\ task.at = "keep" /\ f \in task.left /\ task.slot \in DOMAIN copies
           /\ copies' \in Seq(SettingsBackups) /\ DOMAIN copies' = DOMAIN copies
           /\ Len(copies') = Len(copies)
           /\ \A n \in DOMAIN copies : n # task.slot => copies'[n] = copies[n]
           /\ copies'[task.slot].gone = copies[task.slot].gone
           /\ DOMAIN copies'[task.slot].files = DOMAIN copies[task.slot].files \cup {f}
           /\ \A g \in DOMAIN copies'[task.slot].files :
                copies'[task.slot].files[g] =
                  IF g = f THEN task.seen[f] ELSE copies[task.slot].files[g]
           /\ task' \in Writings
           /\ task'.what = task.what /\ task'.seen = task.seen /\ task'.new = task.new
           /\ task'.slot = task.slot /\ task'.since = task.since
           /\ task'.at = IF task.left \ {f} # {} THEN "keep" ELSE "write"
           /\ task'.left = IF task.left \ {f} # {} THEN task.left \ {f} ELSE DOMAIN task.new
           /\ UNCHANGED <<disk, accepted, point, edits>>
<1> USE DEF ModInv
<1>1. task \in Writings /\ task.at = "keep" /\ f \in task.left
  BY TaskKinds DEF KeepFile, ModTypes
<1>2. task.slot \in DOMAIN copies
  BY <1>1 DEF CopiedSoFar
<1>3. copies \in Seq(SettingsBackups) /\ copies[task.slot] \in SettingsBackups
  BY <1>2 DEF ModTypes
<1> DEFINE old == copies[task.slot]
           files == [g \in DOMAIN old.files \cup {f} |-> IF g = f THEN task.seen[f] ELSE old.files[g]]
<1>4. copies' = [copies EXCEPT ![task.slot] = [old EXCEPT !.files = files]]
  BY <1>1, <1>2, <1>3 DEF KeepFile, SettingsBackups
<1>5. task.seen[f] \in Held /\ DOMAIN task.new \subseteq Settings /\ task.left \subseteq Settings
  BY <1>1, PartsAre DEF WrittenSoFar, Writings
<1>6. files \in PartOf(Settings)
  <2>1. old.files \in PartOf(Settings)
    BY <1>3 DEF SettingsBackups
  <2>2. DOMAIN old.files \subseteq Settings /\ \A g \in DOMAIN old.files : old.files[g] \in Held
    BY <2>1, PartsAre
  <2> DEFINE D == DOMAIN old.files \cup {f}
  <2>3. D \in SUBSET Settings /\ files \in [D -> Held]
    BY <2>2, <1>5
  <2> QED
    BY <2>3, PartsMade
<1>7. [old EXCEPT !.files = files] \in SettingsBackups
  BY <1>3, <1>6 DEF SettingsBackups
<1>8. /\ copies' \in Seq(SettingsBackups) /\ DOMAIN copies' = DOMAIN copies
      /\ Len(copies') = Len(copies)
      /\ \A n \in DOMAIN copies : n # task.slot => copies'[n] = copies[n]
      /\ copies'[task.slot] = [old EXCEPT !.files = files]
  <2> HIDE DEF files
  <2> QED
    BY <1>2, <1>3, <1>4, <1>7
<1>9. /\ copies'[task.slot].gone = copies[task.slot].gone
      /\ copies'[task.slot].files = files
  <2> HIDE DEF files
  <2> QED
    BY <1>3, <1>8 DEF SettingsBackups
<1>10. /\ task' = IF task.left \ {f} # {} THEN [task EXCEPT !.left = task.left \ {f}]
                  ELSE [task EXCEPT !.at = "write", !.left = DOMAIN task.new]
       /\ UNCHANGED <<disk, accepted, point, edits>>
  BY DEF KeepFile
<1>11. /\ task' \in Writings
       /\ task'.what = task.what /\ task'.seen = task.seen /\ task'.new = task.new
       /\ task'.slot = task.slot /\ task'.since = task.since
       /\ task'.at = IF task.left \ {f} # {} THEN "keep" ELSE "write"
       /\ task'.left = IF task.left \ {f} # {} THEN task.left \ {f} ELSE DOMAIN task.new
  BY <1>1, <1>5, <1>10 DEF Writings
<1> QED
  BY <1>1, <1>2, <1>8, <1>9, <1>10, <1>11

\* A setting is written from the text the change brought.
LEMMA WrittenSetting ==
    ASSUME ModInv, NEW f \in Settings, WriteSetting(f)
    PROVE  /\ task \in Writings /\ task.at = "write" /\ f \in task.left /\ f \in DOMAIN task.new
           /\ task.new[f] \in Held
           /\ disk' = [disk EXCEPT ![f] = task.new[f]]
           /\ task' = [task EXCEPT !.left = task.left \ {f}] /\ task' \in Writings
           /\ UNCHANGED <<accepted, copies, point, edits>>
<1>1. task \in Writings /\ task.at = "write" /\ f \in task.left
  BY TaskKinds DEF WriteSetting, ModInv, ModTypes
<1>2. f \in DOMAIN task.new /\ task.new[f] \in Held
  BY <1>1, PartsAre DEF ModInv, WrittenSoFar, Writings
<1>3. disk' = [disk EXCEPT ![f] = task.new[f]] /\ task' = [task EXCEPT !.left = task.left \ {f}]
      /\ UNCHANGED <<accepted, copies, point, edits>>
  BY <1>1 DEF WriteSetting, Writings
<1>4. task' \in Writings
  BY <1>1, <1>3 DEF Writings
<1> QED
  BY <1>1, <1>2, <1>3, <1>4

\* A cleanup empties one folder between two changes.
LEMMA CleanedSettings ==
    ASSUME ModInv, NEW n \in DOMAIN copies, CleanSettings(n)
    PROVE  /\ task = NoTask
           /\ copies' \in Seq(SettingsBackups) /\ DOMAIN copies' = DOMAIN copies
           /\ Len(copies') = Len(copies)
           /\ \A m \in DOMAIN copies : m # n => copies'[m] = copies[m]
           /\ copies'[n].gone
           /\ UNCHANGED <<disk, accepted, point, task, edits>>
<1>1. [files |-> <<>>, gone |-> TRUE] \in SettingsBackups
  BY NothingIsPart DEF SettingsBackups
<1>2. copies' = [copies EXCEPT ![n] = [files |-> <<>>, gone |-> TRUE]]
      /\ UNCHANGED <<disk, accepted, point, task, edits>> /\ task = NoTask
  BY DEF CleanSettings, NoChange
<1>3. copies \in Seq(SettingsBackups)
  BY DEF ModInv, ModTypes
<1> QED
  BY <1>1, <1>2, <1>3

\* An acceptance stores what it found different, as it is by then.
LEMMA Accepted ==
    ASSUME ModInv, Accept
    PROVE  /\ task \in Acceptings
           /\ DOMAIN accepted'.files = Differing(task.then)
           /\ \A f \in DOMAIN accepted'.files :
                accepted'.files[f] = IF f \in task.check.missing THEN Missing ELSE disk[f]
           /\ accepted'.files \in PartOf(Assets)
           /\ accepted'.seen = [f \in Paths |-> {task.then[f], disk[f]}]
           /\ accepted'.seen \in [Paths -> SUBSET Held]
           /\ task' = NoTask /\ UNCHANGED <<disk, copies, point, edits>>
<1>1. task \in Acceptings /\ task.at = "accept"
  BY TaskKinds DEF ModInv, ModTypes, Accept
<1>2. disk \in [Paths -> Held] /\ task.then \in [Paths -> Held]
  BY <1>1 DEF ModInv, ModTypes, ModFilesTypeOK, Held, Acceptings
<1>3. task.check.missing \cup task.check.modified \cup task.check.accepted = Differing(task.then)
  BY <1>1 DEF ModInv, AcceptSeen
<1> DEFINE D == task.check.missing \cup task.check.modified \cup task.check.accepted
           stored == [f \in D |-> IF f \in task.check.missing THEN Missing ELSE disk[f]]
<1>4. accepted' = [files |-> stored, seen |-> [f \in Paths |-> {task.then[f], disk[f]}]]
      /\ task' = NoTask /\ UNCHANGED <<disk, copies, point, edits>>
  BY DEF Accept
<1>5. D \in SUBSET Assets
  BY <1>3 DEF Differing
<1>6. stored \in [D -> Held]
  BY <1>2, <1>5 DEF Paths, Held
<1>7. stored \in PartOf(Assets)
  BY <1>5, <1>6, PartsMade
<1>8. [f \in Paths |-> {task.then[f], disk[f]}] \in [Paths -> SUBSET Held]
  BY <1>2
<1> QED
  BY <1>1, <1>3, <1>4, <1>7, <1>8

LEMMA ModTypesKept == ModInv /\ ModFilesNext => ModTypes'
<1> SUFFICES ASSUME ModInv, ModFilesNext PROVE ModTypes'
  OBVIOUS
<1> USE DEF ModInv, ModTypes, ModFilesTypeOK
<1>h. Held = Texts \cup {Missing}
  BY DEF Held
<1>1. ASSUME NEW f \in Paths, NEW text \in Held, Edit(f, text) PROVE ModTypes'
  BY <1>1, <1>h DEF Edit
<1>2. CASE BeginAccept
  <2>1. task' \in Acceptings
    BY <1>2, <1>h, CheckParts DEF BeginAccept, Acceptings
  <2> QED
    BY <1>2, <2>1 DEF BeginAccept
<1>3. CASE Accept
  BY <1>3, <1>h, Accepted
<1>4. ASSUME NEW what \in {"apply", "restore", "point", "to_point"}, NEW new \in PartOf(Settings),
             NEW keeping \in BOOLEAN, BeginsWith(what, new, keeping)
      PROVE  ModTypes'
  <2>1. task' \in Writings /\ copies' \in Seq(SettingsBackups)
        /\ Len(copies') \in Nat /\ Len(copies') >= Len(copies)
    BY <1>4, BegunTask
  <2>2. \A n \in DOMAIN copies' : copies'[n] \in SettingsBackups
    BY <2>1
  <2>3. UNCHANGED <<disk, accepted, point, edits>>
    BY <1>4 DEF BeginsWith
  <2> QED
    BY <2>1, <2>2, <2>3 DEF SettingsBackups
<1>5. ASSUME NEW n \in DOMAIN copies, CleanSettings(n) PROVE ModTypes'
  <2>1. copies' \in Seq(SettingsBackups) /\ Len(copies') = Len(copies)
        /\ UNCHANGED <<disk, accepted, point, task, edits>>
    BY <1>5, CleanedSettings
  <2>2. \A m \in DOMAIN copies' : copies'[m] \in SettingsBackups
    BY <2>1
  <2> QED
    BY <2>1, <2>2 DEF SettingsBackups
<1>6. ASSUME NEW f \in Settings, KeepFile(f) PROVE ModTypes'
  <2>1. copies' \in Seq(SettingsBackups) /\ Len(copies') = Len(copies) /\ task' \in Writings
        /\ UNCHANGED <<disk, accepted, point, edits>>
    BY <1>6, KeptFile
  <2>2. \A m \in DOMAIN copies' : copies'[m] \in SettingsBackups
    BY <2>1
  <2> QED
    BY <2>1, <2>2 DEF SettingsBackups
<1>7. ASSUME NEW f \in Settings, WriteSetting(f) PROVE ModTypes'
  BY <1>7, <1>h, WrittenSetting DEF Paths
<1>8. CASE EndChange
  <2>1. task \in Writings \/ task.at # "write"
    BY TaskKinds
  <2>2. task \in Writings /\ task.slot \in 0 .. Len(copies) /\ task.seen \in PartOf(Settings)
    BY <1>8, <2>1 DEF EndChange, CopiedSoFar, Writings
  <2>3. point'.copy \in 0 .. Len(copies) /\ point'.saved \in PartOf(Settings)
    BY <1>8, <2>2 DEF EndChange
  <2> QED
    BY <1>8, <2>3 DEF EndChange
<1>9. CASE ChangeStops
  BY <1>9 DEF ChangeStops
<1> QED
  BY <1>1, <1>2, <1>3, <1>4, <1>5, <1>6, <1>7, <1>8, <1>9, ModSteps

\* Only an acceptance changes what is accepted, and it takes what it saw.
LEMMA AcceptSeenKept == ModInv /\ ModFilesNext => AcceptSeen'
<1> SUFFICES ASSUME ModInv, ModFilesNext PROVE AcceptSeen'
  OBVIOUS
<1> USE DEF ModInv
<1>1. ASSUME NEW f \in Paths, NEW text \in Held, Edit(f, text) PROVE AcceptSeen'
  BY <1>1 DEF Edit, AcceptSeen, Differing
<1>2. CASE BeginAccept
  <2>1. task' = [at |-> "accept", check |-> Check(FALSE), then |-> disk]
        /\ UNCHANGED <<disk, accepted, copies, point, edits>>
        /\ (Status(Check(FALSE)) = "changed" \/ Check(FALSE).accepted # {})
    BY <1>2 DEF BeginAccept
  <2>2. Check(FALSE).missing \cup Check(FALSE).modified \cup Check(FALSE).accepted # {}
    BY <2>1 DEF Status
  <2>3. Check(FALSE).missing \subseteq {f \in Assets : disk[f] = Missing}
        /\ Check(FALSE).missing \cup Check(FALSE).modified \cup Check(FALSE).accepted = Differing(disk)
    BY CheckParts
  <2> HIDE DEF ModInv
  <2>4. task'.check = Check(FALSE) /\ task'.then = disk
    BY <2>1
  <2>5. ModInv
    OBVIOUS
  <2> QED
    BY <2>1, <2>2, <2>3, <2>4, <2>5 DEF AcceptSeen, Differing, ModInv
<1>3. CASE Accept
  <2>1. task \in Acceptings /\ accepted'.seen = [f \in Paths |-> {task.then[f], disk[f]}]
        /\ DOMAIN accepted'.files = Differing(task.then) /\ task' = NoTask
        /\ \A f \in DOMAIN accepted'.files :
             accepted'.files[f] = IF f \in task.check.missing THEN Missing ELSE disk[f]
    BY <1>3, Accepted
  <2>2. \A f \in task.check.missing : task.then[f] = Missing
    BY <2>1 DEF AcceptSeen, Acceptings
  <2>3. Differing(task.then) \subseteq Paths
    BY DEF Differing, Paths
  <2> QED
    BY <2>1, <2>2, <2>3 DEF AcceptSeen, NoTask
<1>4. ASSUME NEW what \in {"apply", "restore", "point", "to_point"}, NEW new \in PartOf(Settings),
             NEW keeping \in BOOLEAN, BeginsWith(what, new, keeping)
      PROVE  AcceptSeen'
  <2>1. task'.at # "accept" /\ accepted' = accepted
    BY <1>4, BegunTask DEF BeginsWith
  <2> QED
    BY <2>1 DEF AcceptSeen
<1>5. ASSUME NEW n \in DOMAIN copies, CleanSettings(n) PROVE AcceptSeen'
  BY <1>5, CleanedSettings DEF AcceptSeen, Differing
<1>6. ASSUME NEW f \in Settings, KeepFile(f) PROVE AcceptSeen'
  <2>1. task'.at # "accept" /\ accepted' = accepted
    BY <1>6, KeptFile
  <2> QED
    BY <2>1 DEF AcceptSeen
<1>7. ASSUME NEW f \in Settings, WriteSetting(f) PROVE AcceptSeen'
  <2>1. task'.at # "accept" /\ accepted' = accepted
    BY <1>7, WrittenSetting DEF Writings
  <2> QED
    BY <2>1 DEF AcceptSeen
<1>8. CASE EndChange \/ ChangeStops
  BY <1>8 DEF EndChange, ChangeStops, AcceptSeen, NoTask
<1> QED
  BY <1>1, <1>2, <1>3, <1>4, <1>5, <1>6, <1>7, <1>8, ModSteps


\* A copy goes on as it was begun, and nothing else touches it.
LEMMA CopiedKept == ModInv /\ ModFilesNext => CopiedSoFar'
<1> SUFFICES ASSUME ModInv, ModFilesNext PROVE CopiedSoFar'
  OBVIOUS
<1>t. task \in {NoTask} \cup Acceptings \cup Writings /\ copies \in Seq(SettingsBackups)
      /\ point.copy \in 0 .. Len(copies)
  BY DEF ModInv, ModTypes, ModFilesTypeOK
<1>1. ASSUME NEW f \in Paths, NEW text \in Held, Edit(f, text) PROVE CopiedSoFar'
  BY <1>1 DEF Edit, ModInv, CopiedSoFar
<1>2. CASE BeginAccept
  <2>1. task'.at = "accept"
    BY <1>2 DEF BeginAccept
  <2> QED
    BY <2>1 DEF CopiedSoFar
<1>3. CASE Accept \/ EndChange \/ ChangeStops \/ \E n \in DOMAIN copies : CleanSettings(n)
  <2>1. task' = NoTask
    BY <1>3, CleanedSettings DEF Accept, EndChange, ChangeStops
  <2> QED
    BY <2>1 DEF CopiedSoFar, NoTask
<1>4. ASSUME NEW what \in {"apply", "restore", "point", "to_point"}, NEW new \in PartOf(Settings),
             NEW keeping \in BOOLEAN, BeginsWith(what, new, keeping)
      PROVE  CopiedSoFar'
  <2>1. /\ keeping => task'.slot = Len(copies) + 1 /\ task'.slot \in DOMAIN copies'
                      /\ copies'[task'.slot].files = <<>>
        /\ ~keeping => task'.slot = 0
        /\ task'.at = IF keeping THEN "keep" ELSE "write"
        /\ task'.what = what /\ task'.seen = Configs /\ task'.new = new
        /\ task'.left = IF keeping THEN DOMAIN Configs ELSE DOMAIN new
    BY <1>4, BegunTask DEF ModInv
  <2>2. point' = point
        /\ (~keeping => what # "point" /\ \A f \in DOMAIN Configs : Holds(new, f) = Configs[f])
    BY <1>4 DEF BeginsWith
  <2>3. DOMAIN <<>> = {}
    BY NothingIsPart
  <2>4. CASE keeping
    <3>1. task'.slot # 0 /\ task'.slot # point'.copy
      BY <1>t, <2>1, <2>2, <2>4
    <3> QED
      BY <2>1, <2>3, <2>4, <3>1 DEF CopiedSoFar
  <2>5. CASE ~keeping
    BY <2>1, <2>2, <2>5 DEF CopiedSoFar, Holds
  <2> QED
    BY <2>4, <2>5
<1>5. ASSUME NEW f \in Settings, KeepFile(f) PROVE CopiedSoFar'
  <2> DEFINE old == copies[task.slot].files
             kept == copies'[task'.slot].files
  <2>0. /\ task'.slot = task.slot
        /\ DOMAIN copies'[task.slot].files = DOMAIN copies[task.slot].files \cup {f}
        /\ \A g \in DOMAIN copies'[task.slot].files :
             copies'[task.slot].files[g] = IF g = f THEN task.seen[f] ELSE copies[task.slot].files[g]
    BY <1>5, KeptFile
  <2>1. /\ task.at = "keep" /\ f \in task.left /\ task'.slot = task.slot
        /\ task'.seen = task.seen /\ DOMAIN copies' = DOMAIN copies
        /\ DOMAIN kept = DOMAIN old \cup {f}
        /\ \A g \in DOMAIN kept : kept[g] = IF g = f THEN task.seen[f] ELSE old[g]
        /\ task'.at = IF task.left \ {f} # {} THEN "keep" ELSE "write"
        /\ task.left \ {f} # {} => task'.left = task.left \ {f}
        /\ point' = point
    <3>1. DOMAIN kept = DOMAIN old \cup {f}
          /\ \A g \in DOMAIN kept : kept[g] = IF g = f THEN task.seen[f] ELSE old[g]
      BY <2>0
    <3> HIDE DEF old, kept
    <3> QED
      BY <1>5, <3>1, KeptFile
  <2>2. /\ task.slot # 0 /\ task.slot \in DOMAIN copies /\ task.slot # point.copy
        /\ DOMAIN old = DOMAIN task.seen \ task.left
        /\ \A g \in DOMAIN old : old[g] = task.seen[g]
        /\ task.left \subseteq DOMAIN task.seen
    BY <2>1 DEF ModInv, CopiedSoFar, WrittenSoFar
  <2>3. DOMAIN kept = DOMAIN task.seen \ (task.left \ {f})
    BY <2>1, <2>2
  <2>4. \A g \in DOMAIN kept : kept[g] = task.seen[g]
    BY <2>1, <2>2
  <2>5. DOMAIN kept = IF task'.at = "keep" THEN DOMAIN task'.seen \ task'.left
                      ELSE DOMAIN task'.seen
    BY <2>1, <2>3
  <2> HIDE DEF kept, old
  <2>6. task'.slot # 0 /\ task'.slot \in DOMAIN copies' /\ task'.slot # point'.copy
    BY <2>1, <2>2
  <2> QED
    BY <2>1, <2>4, <2>5, <2>6 DEF CopiedSoFar, kept
<1>6. ASSUME NEW f \in Settings, WriteSetting(f) PROVE CopiedSoFar'
  <2>1. /\ task \in Writings /\ task.at = "write"
        /\ task' = [task EXCEPT !.left = task.left \ {f}]
        /\ UNCHANGED <<copies, point>>
    BY <1>6, WrittenSetting
  <2>2. task'.at = "write" /\ task'.slot = task.slot /\ task'.what = task.what
        /\ task'.seen = task.seen /\ task'.new = task.new
    BY <2>1 DEF Writings
  <2> QED
    BY <2>1, <2>2 DEF ModInv, CopiedSoFar
<1> QED
  BY <1>1, <1>2, <1>3, <1>4, <1>5, <1>6, ModSteps DEF ModInv

\* What was written stays, or an edit is counted.
LEMMA WrittenKept == ModInv /\ ModFilesNext => WrittenSoFar'
<1> SUFFICES ASSUME ModInv, ModFilesNext PROVE WrittenSoFar'
  OBVIOUS
<1>t. task \in {NoTask} \cup Acceptings \cup Writings /\ edits \in Nat /\ disk \in [Paths -> Held]
  BY DEF ModInv, ModTypes, ModFilesTypeOK, Held
<1>1. ASSUME NEW f \in Paths, NEW text \in Held, Edit(f, text) PROVE WrittenSoFar'
  <2>1. task' = task /\ edits' = edits + 1
    BY <1>1 DEF Edit
  <2>2. CASE task.at \in {"keep", "write"}
    <3>1. task \in Writings
      BY <1>t, <2>2, TaskKinds
    <3>2. task'.since \in Nat /\ task.since <= edits
      BY <2>1, <2>2, <3>1 DEF Writings, ModInv, WrittenSoFar
    <3>3. task'.since <= edits' /\ task'.since # edits'
      BY <1>t, <2>1, <3>2
    <3> QED
      BY <2>1, <3>3 DEF ModInv, WrittenSoFar
  <2> QED
    BY <2>1, <2>2 DEF WrittenSoFar
<1>2. CASE BeginAccept
  <2>1. task'.at = "accept"
    BY <1>2 DEF BeginAccept
  <2> QED
    BY <2>1 DEF WrittenSoFar
<1>3. CASE Accept \/ EndChange \/ ChangeStops \/ \E n \in DOMAIN copies : CleanSettings(n)
  <2>1. task' = NoTask
    BY <1>3, CleanedSettings DEF Accept, EndChange, ChangeStops
  <2> QED
    BY <2>1 DEF WrittenSoFar, NoTask
<1>4. ASSUME NEW what \in {"apply", "restore", "point", "to_point"}, NEW new \in PartOf(Settings),
             NEW keeping \in BOOLEAN, BeginsWith(what, new, keeping)
      PROVE  WrittenSoFar'
  <2>1. /\ task'.at = IF keeping THEN "keep" ELSE "write"
        /\ task'.seen = Configs /\ task'.new = new /\ task'.since = edits
        /\ task'.left = IF keeping THEN DOMAIN Configs ELSE DOMAIN new
        /\ edits' = edits
    BY <1>4, BegunTask DEF ModInv, BeginsWith
  <2> QED
    BY <1>t, <2>1 DEF WrittenSoFar
<1>5. ASSUME NEW f \in Settings, KeepFile(f) PROVE WrittenSoFar'
  <2>1. /\ task.at = "keep" /\ task'.new = task.new /\ task'.seen = task.seen
        /\ task'.since = task.since
        /\ task'.at = IF task.left \ {f} # {} THEN "keep" ELSE "write"
        /\ task'.left = IF task.left \ {f} # {} THEN task.left \ {f} ELSE DOMAIN task.new
        /\ edits' = edits
    BY <1>5, KeptFile
  <2>2. task.left \subseteq DOMAIN task.seen /\ task.since <= edits
    BY <2>1 DEF ModInv, WrittenSoFar
  <2> QED
    BY <2>1, <2>2 DEF WrittenSoFar
<1>6. ASSUME NEW f \in Settings, WriteSetting(f) PROVE WrittenSoFar'
  <2>1. /\ task \in Writings /\ task.at = "write"
        /\ task' = [task EXCEPT !.left = task.left \ {f}]
        /\ disk' = [disk EXCEPT ![f] = task.new[f]] /\ edits' = edits
    BY <1>6, WrittenSetting
  <2>2. /\ task'.at = "write" /\ task'.since = task.since /\ task'.new = task.new
        /\ task'.left = task.left \ {f}
    BY <2>1 DEF Writings
  <2>3. task.left \subseteq DOMAIN task.new /\ task.since <= edits
        /\ (task.since = edits => \A g \in DOMAIN task.new \ task.left : disk[g] = task.new[g])
    BY <2>1 DEF ModInv, WrittenSoFar
  <2>4. f \in Paths
    BY DEF Paths
  <2>5. task.since = edits => \A g \in DOMAIN task.new \ (task.left \ {f}) : disk'[g] = task.new[g]
    <3>1. DOMAIN task.new \subseteq Paths
      BY <2>1, PartsAre DEF Writings, Paths
    <3> QED
      BY <1>t, <2>1, <2>3, <2>4, <3>1
  <2> QED
    BY <2>1, <2>2, <2>3, <2>5 DEF WrittenSoFar
<1> QED
  BY <1>1, <1>2, <1>3, <1>4, <1>5, <1>6, ModSteps DEF ModInv

\* Only a cleanup touches the backup of a point, and that is seen.
LEMMA PointKept == ModInv /\ ModFilesNext => PointIsKept'
<1> SUFFICES ASSUME ModInv, ModFilesNext PROVE PointIsKept'
  OBVIOUS
<1>t. /\ task \in {NoTask} \cup Acceptings \cup Writings /\ copies \in Seq(SettingsBackups)
      /\ point.copy \in 0 .. Len(copies) /\ DOMAIN copies = 1 .. Len(copies)
  BY DEF ModInv, ModTypes, ModFilesTypeOK
<1>k. /\ point.copy # 0 => point.copy \in DOMAIN copies
      /\ point.copy # 0 /\ Kept1(point.copy) => SameSettings(copies[point.copy].files, point.saved)
  BY <1>t DEF ModInv, PointIsKept
<1>1. ASSUME NEW f \in Paths, NEW text \in Held, Edit(f, text) PROVE PointIsKept'
  BY <1>1 DEF Edit, ModInv, PointIsKept, Kept1, SameSettings
<1>2. CASE BeginAccept
  <2>1. task'.at = "accept" /\ UNCHANGED <<copies, point>>
    BY <1>2 DEF BeginAccept
  <2> QED
    BY <1>k, <2>1 DEF PointIsKept, Kept1, SameSettings
<1>3. CASE Accept \/ ChangeStops
  <2>1. task' = NoTask /\ UNCHANGED <<copies, point>>
    BY <1>3 DEF Accept, ChangeStops
  <2> QED
    BY <1>k, <2>1 DEF PointIsKept, Kept1, SameSettings, NoTask
<1>4. ASSUME NEW n \in DOMAIN copies, CleanSettings(n) PROVE PointIsKept'
  <2>1. task' = NoTask /\ point' = point /\ copies'[n].gone
        /\ \A m \in DOMAIN copies : m # n => copies'[m] = copies[m]
    BY <1>4, CleanedSettings
  <2> QED
    BY <1>k, <2>1 DEF PointIsKept, Kept1, SameSettings, NoTask
<1>5. CASE EndChange
  <2>1. task.at = "write" /\ task' = NoTask /\ copies' = copies
    BY <1>5 DEF EndChange
  <2>2. CASE task.what = "point"
    <3>1. point' = [copy |-> task.slot, saved |-> task.seen]
      BY <1>5, <2>2 DEF EndChange
    <3>2. SameSettings(copies[task.slot].files, task.seen)
      BY <2>1, <2>2 DEF ModInv, CopiedSoFar, SameSettings
    <3> QED
      BY <2>1, <3>1, <3>2 DEF PointIsKept, SameSettings, NoTask
  <2>3. CASE task.what # "point"
    <3>1. point' = point
      BY <1>5, <2>3 DEF EndChange
    <3> QED
      BY <1>k, <2>1, <3>1 DEF PointIsKept, Kept1, SameSettings, NoTask
  <2> QED
    BY <2>2, <2>3
<1>6. ASSUME NEW what \in {"apply", "restore", "point", "to_point"}, NEW new \in PartOf(Settings),
             NEW keeping \in BOOLEAN, BeginsWith(what, new, keeping)
      PROVE  PointIsKept'
  <2>1. task'.what = what /\ task'.new = new
        /\ \A n \in DOMAIN copies : copies'[n] = copies[n]
    BY <1>6, BegunTask DEF ModInv
  <2>2. point' = point /\ (what = "to_point" => point.copy # 0 /\ new = copies[point.copy].files)
    BY <1>6 DEF BeginsWith
  <2> QED
    BY <1>k, <2>1, <2>2 DEF PointIsKept, Kept1, SameSettings
<1>7. ASSUME NEW f \in Settings, KeepFile(f) PROVE PointIsKept'
  <2>1. /\ task.at = "keep" /\ task'.what = task.what /\ task'.new = task.new /\ point' = point
        /\ \A n \in DOMAIN copies : n # task.slot => copies'[n] = copies[n]
    BY <1>7, KeptFile
  <2>2. task.slot # point.copy
    BY <2>1 DEF ModInv, CopiedSoFar
  <2>3. point.copy # 0 => copies'[point.copy] = copies[point.copy]
    BY <1>k, <2>1, <2>2
  <2> QED
    BY <1>k, <2>1, <2>3 DEF ModInv, PointIsKept, Kept1, SameSettings
<1>8. ASSUME NEW f \in Settings, WriteSetting(f) PROVE PointIsKept'
  <2>1. /\ task \in Writings /\ task.at = "write"
        /\ task' = [task EXCEPT !.left = task.left \ {f}] /\ UNCHANGED <<copies, point>>
    BY <1>8, WrittenSetting
  <2>2. task'.what = task.what /\ task'.new = task.new
    BY <2>1 DEF Writings
  <2> QED
    BY <1>k, <2>1, <2>2 DEF ModInv, PointIsKept, Kept1, SameSettings
<1> QED
  BY <1>1, <1>2, <1>3, <1>4, <1>5, <1>6, <1>7, <1>8, ModSteps DEF ModInv

\* What is shown as unchanged is what was installed, and what is shown as the
\* player's own is what he saw.
LEMMA CheckIsTrue == ModInv => CheckTellsTruth /\ QuickIsSound
<1> SUFFICES ASSUME ModInv PROVE CheckTellsTruth /\ QuickIsSound
  OBVIOUS
<1>1. \A f \in DOMAIN accepted.files : accepted.files[f] \in accepted.seen[f]
  BY DEF ModInv, AcceptSeen
<1>2. \A f \in Assets : disk[f] # Installed[f] => f \in Differing(disk)
  BY DEF Differing
<1>3. Status(Check(FALSE)) = "unchanged" => \A f \in Assets : disk[f] = Installed[f]
  <2>1. Status(Check(FALSE)) = "unchanged" => Differing(disk) = {}
    BY CheckParts DEF Status
  <2> QED
    BY <1>2, <2>1
<1>4. Status(Check(FALSE)) = "locally_modified" =>
        \A f \in Assets : disk[f] \in {Installed[f]} \cup accepted.seen[f]
  <2> SUFFICES ASSUME Status(Check(FALSE)) = "locally_modified", NEW f \in Assets,
                      disk[f] # Installed[f]
               PROVE  disk[f] \in accepted.seen[f]
    OBVIOUS
  <2>1. Check(FALSE).missing \cup Check(FALSE).modified = {}
    BY DEF Status
  <2>2. f \in Check(FALSE).accepted
    BY <1>2, <2>1, CheckParts
  <2>3. StillAccepted(f, FALSE)
    BY <2>2 DEF Check
  <2> QED
    BY <1>1, <2>3 DEF StillAccepted
<1>5. QuickIsSound
  <2> SUFFICES ASSUME Status(Check(TRUE)) = "changed" PROVE Status(Check(FALSE)) = "changed"
    BY DEF QuickIsSound
  <2>1. PICK f : f \in Check(TRUE).missing \cup Check(TRUE).modified
    BY DEF Status
  <2>2. /\ f \in Assets /\ ~StillAccepted(f, TRUE)
        /\ disk[f] = Missing \/ (disk[f] # Missing /\ Length(disk[f]) # Length(Installed[f]))
    BY <2>1 DEF Check, Differs
  <2>3. ~StillAccepted(f, FALSE)
    BY <2>2 DEF StillAccepted
  <2>4. f \in Check(FALSE).missing \cup Check(FALSE).modified
    BY <2>2, <2>3 DEF Check, Differs
  <2> QED
    BY <2>4 DEF Status
<1> QED
  BY <1>3, <1>4, <1>5 DEF CheckTellsTruth

\* An undisturbed acceptance leaves nothing that is not accepted.
LEMMA AcceptEnds ==
    ASSUME ModInv, [ModFilesNext]_modFilesVars,
           task.at = "accept", accepted' # accepted, disk = task.then
    PROVE  (Status(Check(FALSE)) = "locally_modified")'
<1>1. Accept
  <2>1. ModFilesNext
    BY DEF modFilesVars
  <2>2. task \in Acceptings
    BY TaskKinds DEF ModInv, ModTypes
  <2>3. CASE \E f \in Settings : KeepFile(f) \/ WriteSetting(f)
    BY <2>3 DEF KeepFile, WriteSetting
  <2>4. CASE \E n \in DOMAIN copies : CleanSettings(n)
    BY <2>4 DEF CleanSettings
  <2> QED
    BY <2>1, <2>3, <2>4, ModSteps
       DEF ModInv, Edit, BeginAccept, BeginsWith, EndChange, ChangeStops
<1>2. /\ DOMAIN accepted'.files = Differing(disk) /\ disk' = disk /\ Differing(disk) # {}
      /\ \A f \in Differing(disk) : accepted'.files[f] = disk[f]
  <2>1. task.check.missing \subseteq {f \in Assets : disk[f] = Missing} /\ Differing(disk) # {}
    BY DEF ModInv, AcceptSeen
  <2> QED
    BY <1>1, <2>1, Accepted
<1>3. \A f \in Differing(disk) : StillAccepted(f, FALSE)'
  BY <1>2 DEF StillAccepted
<1>4. /\ Check(FALSE)'.missing = {} /\ Check(FALSE)'.modified = {}
      /\ Check(FALSE)'.accepted = Differing(disk)
  BY <1>2, <1>3 DEF Check, Differs, Differing
<1> QED
  BY <1>2, <1>4 DEF Status

\* Only an edit and a write change a file, and a write only over what is kept.
LEMMA WritesOverKept ==
    ASSUME ModInv, [ModFilesNext]_modFilesVars, NEW f \in Settings, task.at = "write",
           edits' = edits, disk'[f] # disk[f], disk[f] = Holds(task.seen, f)
    PROVE  disk[f] = Missing \/ \E n \in DOMAIN copies : Holds(copies[n].files, f) = disk[f]
<1>1. PICK g \in Settings : WriteSetting(g)
  <2>1. ModFilesNext
    BY DEF modFilesVars
  <2>2. edits \in Nat
    BY DEF ModInv, ModTypes
  <2>3. ~\E h \in Paths, text \in Held : Edit(h, text)
    BY <2>2 DEF Edit
  <2>4. CASE \E n \in DOMAIN copies : CleanSettings(n)
    BY <2>4 DEF CleanSettings
  <2>5. CASE \E h \in Settings : KeepFile(h)
    BY <2>5 DEF KeepFile
  <2> QED
    BY <2>1, <2>3, <2>4, <2>5, ModSteps
       DEF ModInv, BeginAccept, Accept, BeginsWith, EndChange, ChangeStops
<1>2. /\ task \in Writings /\ disk' = [disk EXCEPT ![g] = task.new[g]] /\ g \in DOMAIN task.new
  BY <1>1, WrittenSetting
<1>3. disk \in [Paths -> Held]
  BY DEF ModInv, ModTypes, ModFilesTypeOK, Held
<1>4. f = g /\ task.new[f] # disk[f] /\ Holds(task.new, f) # disk[f]
  BY <1>2, <1>3 DEF Paths, Holds
<1>5. CASE f \notin DOMAIN task.seen
  BY <1>5 DEF Holds
<1>6. CASE f \in DOMAIN task.seen
  <2>1. disk[f] = task.seen[f]
    BY <1>6 DEF Holds
  <2>2. task.slot # 0
    BY <1>4, <1>6, <2>1 DEF ModInv, CopiedSoFar
  <2>3. task.slot \in DOMAIN copies /\ f \in DOMAIN copies[task.slot].files
        /\ copies[task.slot].files[f] = disk[f]
    BY <1>6, <2>1, <2>2 DEF ModInv, CopiedSoFar
  <2> QED
    BY <2>3 DEF Holds
<1> QED
  BY <1>5, <1>6

\* A restore ends well when all is written or nothing differed.
LEMMA PointWasRestored ==
    ASSUME ModInv, task.at = "write", task.what = "to_point", EndsWell, edits = task.since
    PROVE  \A f \in DOMAIN point.saved : disk[f] = point.saved[f]
<1>1. task \in Writings
  BY TaskKinds DEF ModInv, ModTypes
<1>2. SameSettings(task.new, point.saved)
  BY DEF ModInv, PointIsKept, EndsWell, SettingsGone, Kept1
<1>3. DOMAIN task.new \subseteq Settings
  BY <1>1, PartsAre DEF Writings
<1>4. CASE task.left = {}
  <2>1. \A f \in DOMAIN task.new : disk[f] = task.new[f]
    BY <1>4 DEF ModInv, WrittenSoFar
  <2> QED
    BY <1>2, <2>1 DEF SameSettings
<1>5. CASE task.left # {}
  <2>1. \A f \in DOMAIN task.new : Holds(Configs, f) = task.new[f]
    BY <1>5 DEF EndsWell, SettingsDiffer
  <2>2. \A f \in Settings : Holds(Configs, f) = disk[f]
    BY ConfigsArePart DEF ModInv, ModTypes, ModFilesTypeOK, Held
  <2> QED
    BY <1>2, <1>3, <2>1, <2>2 DEF SameSettings
<1> QED
  BY <1>4, <1>5

\* For any files, edits, acceptances, backups and restores of settings: what is
\* shown of a mod is so, an undisturbed acceptance settles it, no settings are
\* written over without a copy, and a restore point brings its settings back.
THEOREM OwnFilesStaySafe == ModFilesSpec => OwnFilesAreSafe
<1>1. ModFilesInit => ModInv
  BY ModStarts
<1>2. ModInv /\ [ModFilesNext]_modFilesVars => ModInv'
  <2> SUFFICES ASSUME ModInv, [ModFilesNext]_modFilesVars PROVE ModInv'
    OBVIOUS
  <2>1. CASE ModFilesNext
    BY <2>1, ModTypesKept, AcceptSeenKept, CopiedKept, WrittenKept, PointKept DEF ModInv
  <2>2. CASE UNCHANGED modFilesVars
    BY <2>2 DEF modFilesVars, ModInv, ModTypes, ModFilesTypeOK, AcceptSeen, CopiedSoFar,
                WrittenSoFar, PointIsKept, Kept1, SameSettings
  <2> QED
    BY <2>1, <2>2
<1>3. ModInv => ModFilesTypeOK /\ CheckTellsTruth /\ QuickIsSound
  BY CheckIsTrue DEF ModInv, ModTypes
<1>4. ModInv /\ [ModFilesNext]_modFilesVars =>
        [task.at = "accept" /\ accepted' # accepted /\ disk = task.then
          => (Status(Check(FALSE)) = "locally_modified")']_modFilesVars
  BY AcceptEnds
<1>5. ModInv /\ [ModFilesNext]_modFilesVars =>
        [\A f \in Settings :
          task.at = "write" /\ edits' = edits /\ disk'[f] # disk[f] /\ disk[f] = Holds(task.seen, f)
            => disk[f] = Missing \/ \E n \in DOMAIN copies : Holds(copies[n].files, f) = disk[f]]_modFilesVars
  BY WritesOverKept
<1>6. ModInv /\ [ModFilesNext]_modFilesVars =>
        [task.at = "write" /\ task.what = "to_point" /\ EndsWell /\ task' = NoTask
           /\ edits = task.since
         => \A f \in DOMAIN point.saved : disk[f] = point.saved[f]]_modFilesVars
  BY PointWasRestored
<1> QED
  BY <1>1, <1>2, <1>3, <1>4, <1>5, <1>6, PTL
     DEF ModFilesSpec, OwnFilesAreSafe, AcceptSettles, OverwrittenIsKept, PointComesBack

-----------------------------------------------------------------------------
(* SMAPI's setups and the sessions of the game.                             *)

SetupLabels == {"begin", "download", "files", "installing", "persist", "succeed"}
RecoveryLabels == {"recovering", "succeeded", "failed", "cancelled"}
WindowLabels == {"idle", "down", "fingerprint"} \union SetupLabels \union RecoveryLabels

\* What a setup and its installer may be.
Releases == Versions \union {None}
Tasks == {"none", "install", "uninstall"}
SetupStates == {"none", "prepared", "committing", "recovery", "succeeded", "failed", "cancelled"}
Setups == [state : SetupStates, action : Tasks, version : Releases]
Installers == [action : Tasks, version : Releases, todo : SUBSET Parts, orphan : BOOLEAN]

SetupKinds ==
    /\ parts \in [Parts -> Versions \union {None, Unnamed}]
    /\ \A p \in Fingerprinted : parts[p] # Unnamed
    /\ row \in Releases
    /\ record = NoRecord \/ \E there \in SUBSET Fingerprinted : record \in [there -> Versions]
    /\ setup \in Setups /\ installer \in Installers
    /\ setup.action = "install" => setup.version \in Versions
    /\ installer.action = "install" => installer.version \in Versions
    /\ touched \in BOOLEAN /\ others \in BOOLEAN
    /\ at \in WindowLabels \union {"spawn", "spawned"}

\* How far a setup is where the window is.
SetupCourse ==
    /\ at = "begin" => setup.state = "prepared"
    /\ at \in SetupLabels \ {"begin"} => setup.state = "committing"
    /\ at \in RecoveryLabels => Unfinished
    /\ setup.state # "none" => setup.action # "none"
    /\ at = "installing" =>
         /\ installer.action = setup.action /\ installer.version = setup.version
         /\ ~installer.orphan
    /\ at # "installing" => installer = NoInstaller \/ installer.orphan

\* What the installer has written is there unless it was deleted since, and
\* there are no fingerprints that it could belie.
InstallSoFar ==
    at = "installing" /\ setup.action = "install" =>
        /\ record = NoRecord
        /\ \A p \in Parts \ installer.todo : parts[p] \in {setup.version, None, Unnamed}

\* What will be written to the row is what is there, unless others changed it.
RowWillTellTruth ==
    ~touched =>
        /\ at \in {"succeed", "succeeded"} => row = Observed
        /\ at = "persist" => RowAfter(setup.action, setup.version) = Observed

SetupInv ==
    /\ SetupKinds /\ SetupCourse /\ InstallSoFar /\ RowWillTellTruth
    /\ RowTellsTruth /\ AlarmIsReal

SessionKinds ==
    /\ sessions \in Seq(SessionRows)
    /\ games \subseteq {0, Latest} /\ owned \subseteq games /\ seen \subseteq 1..Latest
    /\ enabled \subseteq Mods /\ good \in (SUBSET Mods) \union {NoGood}

\* A launch on its way is of the latest session, whose process is not recorded.
LaunchCourse ==
    /\ at \in {"spawn", "spawned"} =>
         /\ Latest > 0
         /\ sessions[Latest].state = "starting"
         /\ ~sessions[Latest].ended /\ ~sessions[Latest].known
    /\ at = "spawn" => Latest \notin games

SessionInv == SessionKinds /\ LaunchCourse /\ EndedMeansGone

GameInv == SetupInv /\ SessionInv

-----------------------------------------------------------------------------
\* What is checked while the files and the records of SMAPI stay as they are.
FolderStays == UNCHANGED <<parts, row, record, touched, others>>

LEMMA Labels ==
    /\ "spawn" \notin WindowLabels /\ "spawned" \notin WindowLabels
    /\ NoInstaller \in Installers /\ NoInstaller.action = "none" /\ ~NoInstaller.orphan
    /\ NoInstaller.todo = {} /\ NoSetup \in Setups
BY DEF WindowLabels, SetupLabels, RecoveryLabels, NoInstaller, Installers, Releases, Tasks,
       NoSetup, Setups, SetupStates

\* What is seen of SMAPI is a release or nothing.
LEMMA ObservedTyped == ASSUME SetupKinds PROVE Observed \in Releases
<1>1. parts["dll"] \in Releases /\ "dll" \in Parts
  BY DEF SetupKinds, Releases, Fingerprinted, Parts
<1> QED
  BY <1>1 DEF Observed, Releases

LEMMA SetupBegins ==
    ASSUME SetupInv, NEW action \in {"install", "uninstall"}, NEW v \in Releases,
           action = "install" => v \in Versions, BeginSetup(action, v)
    PROVE  SetupInv'
<1>0. setup' = [state |-> "prepared", action |-> action, version |-> v] /\ at' = "begin"
      /\ FolderStays /\ installer' = installer /\ at = "idle"
  BY DEF BeginSetup, FolderStays
<1>1. SetupKinds'
  BY <1>0 DEF SetupInv, SetupKinds, FolderStays, Setups, Tasks, SetupStates, WindowLabels, SetupLabels
<1>2. SetupCourse'
  BY <1>0 DEF SetupInv, SetupCourse, SetupLabels, RecoveryLabels
<1>3. InstallSoFar' /\ RowWillTellTruth' /\ RowTellsTruth'
  BY <1>0 DEF SetupInv, InstallSoFar, RowWillTellTruth, RowTellsTruth
<1>4. AlarmIsReal'
  BY <1>0 DEF SetupInv, AlarmIsReal, FolderStays, Changed
<1> QED
  BY <1>1, <1>2, <1>3, <1>4 DEF SetupInv

\* A step of the job, or of recovery, that touches nothing of SMAPI's.
LEMMA JobStep ==
    ASSUME SetupInv,
           \/ CommitSetup \/ SetupSucceeds \/ JournalRefused \/ StartManager
           \/ RetryRecovery \/ RecoverState \/ RecoveryRefused \/ MarkHandled
           \/ \E b \in BOOLEAN : Download(b) \/ SmapiRowRefused(b)
    PROVE  SetupInv'
<1>0. FolderStays /\ installer' = installer
  BY DEF CommitSetup, SetupSucceeds, JournalRefused, StartManager, RetryRecovery, RecoverState,
         RecoveryRefused, MarkHandled, Download, SmapiRowRefused, FolderStays
<1>1. /\ at # "installing" /\ at' # "installing" /\ at' # "persist"
      /\ at' \in WindowLabels
      /\ setup' \in Setups /\ setup'.action = setup.action /\ setup'.version = setup.version
      /\ setup.state = "none" => setup'.state = "none"
  BY DEF CommitSetup, SetupSucceeds, JournalRefused, StartManager, RetryRecovery, RecoverState,
         RecoveryRefused, MarkHandled, Download, SmapiRowRefused, SetupInv, SetupKinds, SetupCourse,
         Unfinished, Setups, SetupStates, WindowLabels, SetupLabels, RecoveryLabels
<1>2. /\ at' = "begin" => setup'.state = "prepared"
      /\ at' \in SetupLabels \ {"begin"} => setup'.state = "committing"
      /\ at' \in RecoveryLabels => Unfinished'
  <2>1. \/ at = "begin" /\ at' = "download" /\ setup'.state = "committing"
        \/ at = "download" /\ at' = "files" /\ setup' = setup
        \/ at' = "recovering" /\ Unfinished /\ setup' = setup
        \/ at' \in {"idle", "fingerprint"}
    BY DEF CommitSetup, SetupSucceeds, JournalRefused, StartManager, RetryRecovery, RecoverState,
           RecoveryRefused, MarkHandled, Download, SmapiRowRefused, Retryable, SetupInv, SetupKinds,
           Setups
  <2>2. setup.state = "committing" \/ at # "download"
    BY DEF SetupInv, SetupCourse, SetupLabels
  <2> QED
    BY <2>1, <2>2 DEF Unfinished, SetupLabels, RecoveryLabels
<1>3. /\ at' \in {"succeed", "succeeded"} => at \in {"succeed", "succeeded"}
      /\ setup'.state = "succeeded" => setup.state = "succeeded" \/ at \in {"succeed", "succeeded"}
  BY DEF CommitSetup, SetupSucceeds, JournalRefused, StartManager, RetryRecovery, RecoverState,
         RecoveryRefused, MarkHandled, Download, SmapiRowRefused, SetupInv, SetupKinds, SetupCourse,
         Setups
<1>4. SetupKinds'
  BY <1>0, <1>1 DEF SetupInv, SetupKinds, FolderStays
<1>5. SetupCourse'
  BY <1>0, <1>1, <1>2 DEF SetupInv, SetupCourse
<1>6. Observed' = Observed
  BY <1>0 DEF FolderStays, Observed, Present
<1>7. InstallSoFar' /\ RowWillTellTruth' /\ RowTellsTruth'
  BY <1>0, <1>1, <1>3, <1>6
  DEF SetupInv, InstallSoFar, RowWillTellTruth, RowTellsTruth, FolderStays
<1>8. AlarmIsReal'
  BY <1>0 DEF SetupInv, AlarmIsReal, FolderStays, Changed
<1> QED
  BY <1>4, <1>5, <1>7, <1>8 DEF SetupInv

\* The installer begins: the fingerprints of what it replaces are forgotten.
LEMMA InstallerBegins == ASSUME SetupInv, StartInstaller PROVE SetupInv'
<1>0. /\ at = "files" /\ at' = "installing" /\ setup' = setup
      /\ installer' = [action |-> setup.action, version |-> setup.version,
                       todo |-> Parts, orphan |-> FALSE]
      /\ record' = Forgotten
      /\ UNCHANGED <<parts, row, touched, others>>
  BY DEF StartInstaller
<1>1. record' = IF setup.action = "install" THEN NoRecord ELSE record
  BY <1>0 DEF Forgotten
<1>2. SetupKinds'
  BY <1>0, <1>1 DEF SetupInv, SetupKinds, Setups, Installers, WindowLabels, SetupLabels
<1>3. SetupCourse'
  BY <1>0 DEF SetupInv, SetupCourse, SetupLabels, RecoveryLabels
<1>4. InstallSoFar' /\ RowWillTellTruth'
  BY <1>0, <1>1 DEF InstallSoFar, RowWillTellTruth
<1>5. RowTellsTruth'
  BY <1>0 DEF SetupInv, RowTellsTruth, Observed, Present
<1>6. AlarmIsReal'
  BY <1>0, <1>1 DEF SetupInv, AlarmIsReal, Changed
<1> QED
  BY <1>2, <1>3, <1>4, <1>5, <1>6 DEF SetupInv

\* The installer writes: what it leaves behind the window's back is others'.
LEMMA InstallerWorks == ASSUME SetupInv, NEW p \in Parts, InstallerWrites(p) PROVE SetupInv'
<1> DEFINE new == IF installer.action = "install" THEN installer.version ELSE None
<1>0. /\ p \in installer.todo /\ parts' = [parts EXCEPT ![p] = new]
      /\ installer' = [installer EXCEPT !.todo = @ \ {p}]
      /\ touched' = (touched \/ installer.orphan)
      /\ others' = (others \/ installer.orphan \/ installer.action = "uninstall")
      /\ UNCHANGED <<row, record, setup, at>>
  BY DEF InstallerWrites
<1>1. new \in Releases /\ new # Unnamed
  BY SetupAssumption DEF SetupInv, SetupKinds, Releases
<1> HIDE DEF new
<1>2. installer' \in Installers /\ installer'.action = installer.action
      /\ installer'.version = installer.version /\ installer'.orphan = installer.orphan
      /\ installer'.todo = installer.todo \ {p}
  BY <1>0 DEF SetupInv, SetupKinds, Installers
<1>3. parts \in [Parts -> Versions \union {None, Unnamed}] /\ Fingerprinted \subseteq Parts
  BY DEF SetupInv, SetupKinds, Fingerprinted
<1>4. SetupKinds'
  BY <1>0, <1>1, <1>2, <1>3 DEF SetupInv, SetupKinds, Releases
<1>5. installer.orphan \/ at = "installing"
  BY <1>0, Labels DEF SetupInv, SetupCourse
<1>6. SetupCourse'
  BY <1>0, <1>2, <1>5 DEF SetupInv, SetupCourse, Unfinished
<1>7. InstallSoFar'
  <2> SUFFICES ASSUME at = "installing", setup.action = "install"
               PROVE  /\ record' = NoRecord
                      /\ \A q \in Parts \ installer'.todo : parts'[q] \in {setup.version, None, Unnamed}
    BY <1>0 DEF InstallSoFar
  <2>1. new = setup.version
    BY DEF SetupInv, SetupCourse, new
  <2>2. record = NoRecord /\ \A q \in Parts \ installer.todo : parts[q] \in {setup.version, None, Unnamed}
    BY DEF SetupInv, InstallSoFar
  <2> QED
    BY <1>0, <1>2, <1>3, <2>1, <2>2
<1>8. RowWillTellTruth' /\ RowTellsTruth'
  <2>1. CASE installer.orphan
    BY <1>0, <2>1 DEF RowWillTellTruth, RowTellsTruth
  <2>2. CASE at = "installing"
    BY <1>0, <2>2 DEF SetupInv, SetupCourse, SetupLabels, RowWillTellTruth, RowTellsTruth
  <2> QED
    BY <1>5, <2>1, <2>2
<1>9. AlarmIsReal'
  <2> SUFFICES ASSUME ~others, ~installer.orphan, installer.action # "uninstall" PROVE record' = NoRecord
    BY <1>0 DEF AlarmIsReal, Changed
  <2>1. at = "installing" /\ setup.action = "install"
    BY <1>5, Labels DEF SetupInv, SetupKinds, SetupCourse, SetupLabels, Setups, Tasks
  <2> QED
    BY <1>0, <2>1 DEF SetupInv, InstallSoFar
<1> QED
  BY <1>4, <1>6, <1>7, <1>8, <1>9 DEF SetupInv

\* An installer left behind ends by itself.
LEMMA InstallerEnds == ASSUME SetupInv, OrphanEnds PROVE SetupInv'
<1>0. installer.orphan /\ installer' = NoInstaller /\ UNCHANGED <<parts, row, record, touched, others, setup, at>>
  BY DEF OrphanEnds
<1>1. SetupKinds' /\ SetupCourse'
  BY <1>0, Labels DEF SetupInv, SetupKinds, SetupCourse, Unfinished
<1>2. at # "installing"
  BY <1>0 DEF SetupInv, SetupCourse
<1>3. InstallSoFar' /\ RowWillTellTruth' /\ RowTellsTruth' /\ AlarmIsReal'
  BY <1>0, <1>2
  DEF SetupInv, InstallSoFar, RowWillTellTruth, RowTellsTruth, AlarmIsReal, Changed, Observed, Present
<1> QED
  BY <1>1, <1>3 DEF SetupInv

\* What is verified after an installer says what the row will say.
LEMMA InstallerAnswers == ASSUME SetupInv, NEW says \in BOOLEAN, InstallerReturns(says) PROVE SetupInv'
<1>0. /\ at = "installing" /\ installer' = NoInstaller /\ UNCHANGED <<parts, row, record, others>>
      /\ says /\ setup.action = "install" => installer.todo = {}
      /\ IF says /\ SetupVerified
         THEN at' = "persist" /\ touched' = FALSE /\ setup' = setup
         ELSE at' = "idle" /\ setup' = [setup EXCEPT !.state = "failed"] /\ touched' = touched
  BY DEF InstallerReturns
<1>1. setup.state = "committing" /\ setup.action \in {"install", "uninstall"}
  BY <1>0 DEF SetupInv, SetupKinds, SetupCourse, SetupLabels, Setups, Tasks
<1>2. /\ setup' \in Setups /\ setup'.action = setup.action /\ setup'.version = setup.version
      /\ setup'.state \in {"committing", "failed"} /\ (at' = "persist" => setup'.state = "committing")
      /\ at' \in {"idle", "persist"} /\ touched' \in BOOLEAN
  BY <1>0, <1>1 DEF SetupInv, SetupKinds, Setups, SetupStates
<1>3. SetupKinds'
  BY <1>0, <1>2, Labels DEF SetupInv, SetupKinds, WindowLabels, SetupLabels
<1>4. SetupCourse'
  BY <1>0, <1>1, <1>2 DEF SetupInv, SetupCourse, SetupLabels, RecoveryLabels
<1>5. ASSUME at' = "persist" PROVE RowAfter(setup.action, setup.version) = Observed
  <2>1. says /\ SetupVerified
    BY <1>0, <1>5
  <2>2. CASE setup.action = "install"
    <3>1. parts["dll"] \in {setup.version, None, Unnamed} /\ parts["dll"] # Unnamed
          /\ parts["dll"] # None /\ parts["launcher"] # None
      BY <1>0, <2>1, <2>2 DEF SetupVerified, Complete, SetupInv, InstallSoFar, SetupKinds,
                              Fingerprinted, Parts
    <3> QED
      BY <2>2, <3>1 DEF RowAfter, Observed, Present
  <2>3. CASE setup.action = "uninstall"
    BY <2>1, <2>3 DEF SetupVerified, RowAfter, Observed
  <2> QED
    BY <1>1, <2>2, <2>3
<1>6. Observed' = Observed
  BY <1>0 DEF Observed, Present
<1>7. InstallSoFar' /\ RowWillTellTruth' /\ RowTellsTruth'
  BY <1>2, <1>5, <1>6 DEF InstallSoFar, RowWillTellTruth, RowTellsTruth, RowAfter
<1>8. AlarmIsReal'
  BY <1>0 DEF SetupInv, AlarmIsReal, Changed
<1> QED
  BY <1>3, <1>4, <1>7, <1>8 DEF SetupInv

\* The row is written as checked, and with it what is on record.
LEMMA RowIsSaved == ASSUME SetupInv, SaveSmapiRow PROVE SetupInv'
<1>0. /\ at = "persist" /\ at' = "succeed" /\ row' = RowAfter(setup.action, setup.version)
      /\ record' = (IF setup.action = "install" THEN record ELSE NoRecord)
      /\ UNCHANGED <<parts, setup, installer, touched, others>>
  BY DEF SaveSmapiRow
<1>1. row' \in Releases /\ setup.state = "committing"
  BY <1>0 DEF SetupInv, SetupKinds, SetupCourse, SetupLabels, RowAfter, Releases
<1>2. record' \in {record, NoRecord}
  BY <1>0
<1>3. SetupKinds'
  BY <1>0, <1>1, <1>2 DEF SetupInv, SetupKinds, WindowLabels, SetupLabels
<1>4. SetupCourse'
  BY <1>0, <1>1 DEF SetupInv, SetupCourse, SetupLabels, RecoveryLabels
<1>5. Observed' = Observed
  BY <1>0 DEF Observed, Present
<1>6. InstallSoFar' /\ RowWillTellTruth' /\ RowTellsTruth'
  BY <1>0, <1>1, <1>5 DEF SetupInv, InstallSoFar, RowWillTellTruth, RowTellsTruth
<1>7. AlarmIsReal'
  BY <1>0, <1>2 DEF SetupInv, AlarmIsReal, Changed
<1> QED
  BY <1>3, <1>4, <1>6, <1>7 DEF SetupInv

\* The fingerprints are of what is there.
LEMMA FingerprintIsTaken == ASSUME SetupInv, RecordFingerprint PROVE SetupInv'
<1>0. /\ at = "fingerprint" /\ at' = "idle" /\ record' = Fingerprint
      /\ UNCHANGED <<parts, row, setup, installer, touched, others>>
  BY DEF RecordFingerprint
<1> DEFINE there == {p \in Fingerprinted : parts[p] # None}
<1>1. record' = IF there = {} THEN NoRecord ELSE [p \in there |-> parts[p]]
  BY <1>0 DEF Fingerprint
<1>2. there \in SUBSET Fingerprinted /\ \A p \in there : parts[p] \in Versions
  BY DEF SetupInv, SetupKinds, Fingerprinted
<1> HIDE DEF there
<1>3. record' = NoRecord \/ record' \in [there -> Versions]
  BY <1>1, <1>2
<1>4. SetupKinds'
  BY <1>0, <1>2, <1>3 DEF SetupInv, SetupKinds, WindowLabels
<1>5. SetupCourse'
  BY <1>0 DEF SetupInv, SetupCourse, SetupLabels, RecoveryLabels
<1>6. InstallSoFar' /\ RowWillTellTruth' /\ RowTellsTruth'
  BY <1>0 DEF SetupInv, InstallSoFar, RowWillTellTruth, RowTellsTruth, Observed, Present
<1>7. AlarmIsReal'
  BY <1>0, <1>1 DEF AlarmIsReal, Changed
<1> QED
  BY <1>4, <1>5, <1>6, <1>7 DEF SetupInv

\* Recovery writes what it sees.
LEMMA RowIsRecovered == ASSUME SetupInv, RecoverRow PROVE SetupInv'
<1>0. /\ at = "recovering" /\ at' = Verdict /\ row' = RecoveredRow /\ touched' = FALSE
      /\ UNCHANGED <<parts, record, setup, installer, others>>
  BY DEF RecoverRow
<1>1. Unfinished /\ setup.state # "succeeded"
  BY <1>0 DEF SetupInv, SetupCourse, RecoveryLabels, Unfinished
<1>2. at' \in {"cancelled", "failed", "succeeded"}
  BY <1>0 DEF Verdict
<1>3. row' \in Releases /\ (at' = "succeeded" => row' = Observed)
  BY <1>0, ObservedTyped DEF RecoveredRow, Verdict, SetupInv, SetupKinds
<1>4. SetupKinds'
  BY <1>0, <1>2, <1>3 DEF SetupInv, SetupKinds, WindowLabels, RecoveryLabels
<1>5. SetupCourse'
  BY <1>0, <1>1, <1>2 DEF SetupInv, SetupCourse, SetupLabels, RecoveryLabels, Unfinished
<1>6. Observed' = Observed
  BY <1>0 DEF Observed, Present
<1>7. InstallSoFar' /\ RowWillTellTruth' /\ RowTellsTruth'
  BY <1>0, <1>1, <1>2, <1>3, <1>6 DEF InstallSoFar, RowWillTellTruth, RowTellsTruth
<1>8. AlarmIsReal'
  BY <1>0 DEF SetupInv, AlarmIsReal, Changed
<1> QED
  BY <1>4, <1>5, <1>7, <1>8 DEF SetupInv

\* Others' hands on SMAPI's files.
LEMMA FolderIsTouched ==
    ASSUME SetupInv, NEW files \in [Parts -> Versions \union {None, Unnamed}],
           \A p \in Fingerprinted : files[p] # Unnamed,
           \A p \in Parts : files[p] = parts[p] \/ files[p] = None \/ installer = NoInstaller,
           Touch(files)
    PROVE  SetupInv'
<1>0. parts' = files /\ touched' = TRUE /\ others' = TRUE /\ UNCHANGED <<row, record, setup, installer, at>>
  BY DEF Touch
<1>1. SetupKinds'
  BY <1>0 DEF SetupInv, SetupKinds
<1>2. SetupCourse'
  BY <1>0 DEF SetupInv, SetupCourse, Unfinished
<1>3. InstallSoFar'
  <2> SUFFICES ASSUME at = "installing", setup.action = "install"
               PROVE  /\ record' = NoRecord
                      /\ \A q \in Parts \ installer.todo : parts'[q] \in {setup.version, None, Unnamed}
    BY <1>0 DEF InstallSoFar
  <2>1. installer # NoInstaller
    BY Labels DEF SetupInv, SetupCourse
  <2> QED
    BY <1>0, <2>1 DEF SetupInv, InstallSoFar
<1>4. RowWillTellTruth' /\ RowTellsTruth' /\ AlarmIsReal'
  BY <1>0 DEF RowWillTellTruth, RowTellsTruth, AlarmIsReal
<1> QED
  BY <1>1, <1>2, <1>3, <1>4 DEF SetupInv

LEMMA SetupStepKeeps == ASSUME SetupInv, SetupStep PROVE SetupInv'
<1>1. ASSUME NEW v \in Versions, BeginSetup("install", v) PROVE SetupInv'
  BY <1>1, SetupBegins DEF Releases
<1>2. CASE BeginSetup("uninstall", None)
  BY <1>2, SetupBegins DEF Releases
<1>3. ASSUME NEW p \in Parts, Touch([parts EXCEPT ![p] = None]) PROVE SetupInv'
  <2> DEFINE files == [parts EXCEPT ![p] = None]
  <2>1. /\ files \in [Parts -> Versions \union {None, Unnamed}]
        /\ \A q \in Fingerprinted : files[q] # Unnamed
        /\ \A q \in Parts : files[q] = parts[q] \/ files[q] = None
    BY SetupAssumption DEF SetupInv, SetupKinds, Fingerprinted
  <2> HIDE DEF files
  <2> QED
    BY <1>3, <2>1, FolderIsTouched DEF files
<1>4. ASSUME installer = NoInstaller, NEW v \in Versions, Touch(AllFrom(v)) PROVE SetupInv'
  <2>1. /\ AllFrom(v) \in [Parts -> Versions \union {None, Unnamed}]
        /\ \A q \in Fingerprinted : AllFrom(v)[q] # Unnamed
    BY SetupAssumption DEF AllFrom, Fingerprinted
  <2> QED
    BY <1>4, <2>1, FolderIsTouched
<1> QED
  BY <1>1, <1>2, <1>3, <1>4, JobStep, InstallerBegins, InstallerWorks, InstallerEnds, InstallerAnswers,
     RowIsSaved, FingerprintIsTaken, RowIsRecovered
  DEF SetupStep

-----------------------------------------------------------------------------
\* A row of the sessions, as it is written again.
LEMMA RowsKeepTheirPlaces ==
    ASSUME NEW s \in Seq(SessionRows), NEW n \in 1..Len(s), NEW r \in SessionRows,
           NEW t, t = [s EXCEPT ![n] = r]
    PROVE  /\ t \in Seq(SessionRows) /\ Len(t) = Len(s)
           /\ t[n] = r
           /\ \A m \in 1..Len(s) : m # n => t[m] = s[m]
<1>1. Len(s) \in Nat /\ s \in [1..Len(s) -> SessionRows]
  BY LenProperties
<1>2. t \in [1..Len(s) -> SessionRows]
  BY <1>1
<1>3. t \in Seq(SessionRows) /\ Len(t) = Len(s)
  <2>1. t \in Seq(SessionRows)
    BY <1>1, <1>2, SeqDef
  <2>2. DOMAIN t = 1..Len(t) /\ Len(t) \in Nat /\ DOMAIN t = 1..Len(s)
    BY <1>2, <2>1, LenProperties
  <2> QED
    BY <1>1, <2>1, <2>2
<1> QED
  BY <1>1, <1>3

LEMMA RowOf ==
    ASSUME SessionKinds, NEW n \in 1..Latest
    PROVE  sessions[n] \in SessionRows
BY LenProperties DEF SessionKinds, Latest

\* The latest row was written again, and nothing else of the sessions.
Rewritten(s) ==
    /\ sessions' \in Seq(SessionRows) /\ Latest' = Latest /\ sessions'[Latest] = s
    /\ \A n \in 1..Latest : n # Latest => sessions'[n] = sessions[n]

LEMMA SavedRows ==
    ASSUME SessionKinds, Latest > 0, NEW s \in SessionRows,
           sessions' = Saved(Latest, s), s.mode = sessions[Latest].mode, s.mods = sessions[Latest].mods
    PROVE  Rewritten(s)
<1>1. Latest \in 1..Len(sessions) /\ sessions \in Seq(SessionRows)
  BY LenProperties DEF SessionKinds, Latest
<1>2. s = [s EXCEPT !.mode = sessions[Latest].mode, !.mods = sessions[Latest].mods]
  BY DEF SessionRows
<1>3. sessions' = [sessions EXCEPT ![Latest] = s]
  BY <1>2 DEF Saved
<1> QED
  BY <1>1, <1>3, RowsKeepTheirPlaces DEF Rewritten, Latest

\* What was read of the log, and what follows of the process.
LEMMA ReadRow ==
    ASSUME SessionKinds, NEW n \in 1..Latest
    PROVE  /\ Read(n) \in SessionRows
           /\ Read(n).mode = sessions[n].mode /\ Read(n).mods = sessions[n].mods
           /\ Read(n).known = sessions[n].known /\ Read(n).ended = sessions[n].ended
           /\ Read(n).state \in {sessions[n].state, "confirmed", "unavailable"}
           /\ sessions[n].state = "confirmed" => Read(n).state = "confirmed"
           /\ sessions[n].state # "confirmed" /\ Read(n).state = "confirmed" =>
                log.by = n /\ ExpectedMods(n) \subseteq log.loaded
<1>1. sessions[n] \in SessionRows
  BY RowOf
<1>2. Outcome(n) \in {"none", "wrong", "unavailable", "partial", "confirmed"}
  BY DEF Outcome
<1>3. Outcome(n) = "confirmed" => log.by = n /\ ExpectedMods(n) \subseteq log.loaded
  BY DEF Outcome
<1> DEFINE state == IF Outcome(n) = "confirmed" THEN "confirmed"
                    ELSE IF Outcome(n) = "unavailable" /\ sessions[n].state # "confirmed"
                    THEN "unavailable" ELSE sessions[n].state
<1>4. state \in States /\ state \in {sessions[n].state, "confirmed", "unavailable"}
      /\ (sessions[n].state = "confirmed" => state = "confirmed")
      /\ (sessions[n].state # "confirmed" /\ state = "confirmed" => Outcome(n) = "confirmed")
  BY <1>1 DEF SessionRows, States
<1>5. Read(n) = IF ~Matched(n) THEN sessions[n]
                ELSE [sessions[n] EXCEPT !.state = state, !.matched = TRUE, !.outcome = Outcome(n)]
  BY DEF Read
<1> HIDE DEF state
<1>6. CASE ~Matched(n)
  BY <1>1, <1>5, <1>6
<1>7. CASE Matched(n)
  <2> DEFINE r == [sessions[n] EXCEPT !.state = state, !.matched = TRUE, !.outcome = Outcome(n)]
  <2>1. /\ r \in SessionRows /\ r.mode = sessions[n].mode /\ r.mods = sessions[n].mods
        /\ r.known = sessions[n].known /\ r.ended = sessions[n].ended /\ r.state = state
    BY <1>1, <1>2, <1>4 DEF SessionRows
  <2>2. Read(n) = r
    BY <1>5, <1>7
  <2> HIDE DEF r
  <2> QED
    BY <1>3, <1>4, <2>1, <2>2
<1> QED
  BY <1>6, <1>7

LEMMA FollowedRow ==
    ASSUME SessionKinds, NEW n \in 1..Latest, NEW s \in SessionRows, NEW timeout \in BOOLEAN
    PROVE  LET f == Followed(n, s, timeout) IN
           /\ f \in SessionRows
           /\ f.mode = s.mode /\ f.mods = s.mods /\ f.known = s.known
           /\ f.state = "confirmed" => s.state = "confirmed"
           /\ s.state = "confirmed" => f.state \in {"confirmed", "exited", "interrupted"}
           /\ Alive(n) => f.ended = s.ended /\ f.state \in {s.state, "unavailable"}
<1>1. EndedState(s) \in {"exited", "failed", "unavailable"}
      /\ (s.state = "confirmed" => EndedState(s) = "exited")
  BY DEF EndedState
<1> DEFINE f == Followed(n, s, timeout)
<1> DEFINE Good(g) ==
             /\ g \in SessionRows
             /\ g.mode = s.mode /\ g.mods = s.mods /\ g.known = s.known
             /\ g.state = "confirmed" => s.state = "confirmed"
             /\ s.state = "confirmed" => g.state \in {"confirmed", "exited", "interrupted"}
             /\ Alive(n) => g.ended = s.ended /\ g.state \in {s.state, "unavailable"}
<1>2. CASE ~Alive(n) /\ n \notin seen
  <2>1. f = [s EXCEPT !.state = "interrupted"]
    BY <1>2 DEF Followed
  <2> HIDE DEF f
  <2>2. Good(f)
    BY <1>2, <2>1 DEF SessionRows, States
  <2> QED
    BY <2>2 DEF f
<1>3. CASE ~Alive(n) /\ n \in seen
  <2> DEFINE e == EndedState(s)
  <2>1. f = [s EXCEPT !.ended = TRUE, !.state = e]
    BY <1>3 DEF Followed
  <2> HIDE DEF f, e
  <2>2. e \in {"exited", "failed", "unavailable"} /\ (s.state = "confirmed" => e = "exited")
    BY <1>1 DEF e
  <2>3. Good(f)
    BY <1>3, <2>1, <2>2 DEF SessionRows, States
  <2> QED
    BY <2>3 DEF f
<1>4. CASE Alive(n)
  <2>1. f = s \/ (f = [s EXCEPT !.state = "unavailable"] /\ s.state # "confirmed")
    BY <1>4 DEF Followed
  <2> HIDE DEF f
  <2>3. Good(f)
    BY <2>1 DEF SessionRows, States
  <2> QED
    BY <2>3 DEF f
<1> QED
  BY <1>2, <1>3, <1>4

\* A poll of a session that is open writes its row as read and followed.
LEMMA PollWrites ==
    ASSUME SessionInv, NEW timeout \in BOOLEAN, Poll(timeout)
    PROVE  /\ at = "idle" /\ Latest > 0 /\ Latest \in 1..Latest /\ Open(sessions[Latest])
           /\ Rewritten(Followed(Latest, Read(Latest), timeout))
           /\ Read(Latest) \in SessionRows
<1>1. at = "idle" /\ Latest > 0 /\ Latest \in 1..Latest /\ Open(sessions[Latest])
  BY LenProperties DEF Poll, SessionInv, SessionKinds, Latest
<1>2. SessionKinds
  BY DEF SessionInv
<1> DEFINE s == Read(Latest)
           f == Followed(Latest, s, timeout)
<1>3. s \in SessionRows /\ s.mode = sessions[Latest].mode /\ s.mods = sessions[Latest].mods
  BY <1>1, <1>2, ReadRow
<1>4. sessions' = Saved(Latest, f)
  BY DEF Poll
<1> HIDE DEF s
<1>5. f \in SessionRows /\ f.mode = s.mode /\ f.mods = s.mods
  BY <1>1, <1>2, <1>3, FollowedRow
<1> HIDE DEF f
<1>6. Rewritten(f)
  BY <1>1, <1>2, <1>3, <1>4, <1>5, SavedRows
<1> QED
  BY <1>1, <1>3, <1>6 DEF s, f

-----------------------------------------------------------------------------
\* A game's coming and going leaves a setup where it is.
LEMMA SetupIsLeftAlone ==
    ASSUME SetupInv, UNCHANGED <<parts, row, record, setup, installer, touched, others>>,
           at' = at \/ {at, at'} \subseteq {"idle", "spawn", "spawned"}
    PROVE  SetupInv'
<1>1. SetupKinds'
  BY DEF SetupInv, SetupKinds, WindowLabels
<1>2. SetupCourse'
  BY DEF SetupInv, SetupCourse, SetupLabels, RecoveryLabels, Unfinished
<1>3. InstallSoFar' /\ RowWillTellTruth' /\ RowTellsTruth' /\ AlarmIsReal'
  BY DEF SetupInv, InstallSoFar, RowWillTellTruth, RowTellsTruth, AlarmIsReal, Changed, Observed, Present
<1> QED
  BY <1>1, <1>2, <1>3 DEF SetupInv

\* What SMAPI rewrites by itself is neither what names it nor fingerprinted.
LEMMA DepsAreRewritten ==
    ASSUME SetupInv, parts["dll"] # None, parts' = [parts EXCEPT !["deps"] = Unnamed],
           UNCHANGED <<row, record, setup, installer, at, touched, others>>
    PROVE  SetupInv'
<1>1. /\ "deps" \in Parts /\ "deps" \notin Fingerprinted /\ Fingerprinted \subseteq Parts
      /\ parts \in [Parts -> Versions \union {None, Unnamed}] /\ "dll" \in Fingerprinted
      /\ "launcher" \in Fingerprinted
  BY DEF SetupInv, SetupKinds, Fingerprinted, Parts
<1>2. /\ parts' \in [Parts -> Versions \union {None, Unnamed}]
      /\ \A p \in Fingerprinted : parts'[p] = parts[p]
      /\ \A p \in Parts : parts'[p] \in {parts[p], Unnamed}
  BY <1>1
<1>3. SetupKinds'
  BY <1>2 DEF SetupInv, SetupKinds
<1>4. SetupCourse'
  BY DEF SetupInv, SetupCourse, Unfinished
<1>5. InstallSoFar'
  BY <1>2 DEF SetupInv, InstallSoFar
<1>6. Observed' = Observed
  BY <1>1, <1>2 DEF Observed, Present
<1>7. RowWillTellTruth' /\ RowTellsTruth'
  BY <1>6 DEF SetupInv, RowWillTellTruth, RowTellsTruth
<1>8. AlarmIsReal'
  <2>1. record = NoRecord \/ DOMAIN record \subseteq Fingerprinted
    BY DEF SetupInv, SetupKinds
  <2> QED
    BY <1>2, <2>1 DEF SetupInv, AlarmIsReal, Changed
<1> QED
  BY <1>3, <1>4, <1>5, <1>7, <1>8 DEF SetupInv

\* A kill leaves the installer at work by itself.
LEMMA KillKeepsSetup == ASSUME SetupInv, KillManager PROVE SetupInv'
<1>0. /\ at' = "down" /\ UNCHANGED <<parts, row, record, setup, touched, others>>
      /\ installer' = IF installer = NoInstaller THEN installer
                      ELSE [installer EXCEPT !.orphan = TRUE]
  BY DEF KillManager
<1>1. /\ installer' \in Installers /\ installer'.action = installer.action
      /\ installer'.version = installer.version
      /\ installer' = NoInstaller \/ installer'.orphan
  BY <1>0 DEF SetupInv, SetupKinds, Installers
<1>2. SetupKinds'
  BY <1>0, <1>1 DEF SetupInv, SetupKinds, WindowLabels
<1>3. SetupCourse'
  BY <1>0, <1>1 DEF SetupInv, SetupCourse, SetupLabels, RecoveryLabels
<1>4. InstallSoFar' /\ RowWillTellTruth' /\ RowTellsTruth' /\ AlarmIsReal'
  BY <1>0 DEF SetupInv, InstallSoFar, RowWillTellTruth, RowTellsTruth, AlarmIsReal, Changed, Observed, Present
<1> QED
  BY <1>2, <1>3, <1>4 DEF SetupInv

LEMMA SetupInvHolds == ASSUME SetupInv, [GameStep]_gameVars PROVE SetupInv'
<1>1. CASE SetupStep
  BY <1>1, SetupStepKeeps
<1>2. CASE Kill
  BY <1>2, KillKeepsSetup DEF Kill
<1>3. ASSUME NEW mode, NEW b, Launch(mode, b) PROVE SetupInv'
  BY <1>3, SetupIsLeftAlone DEF Launch
<1>4. CASE Spawn \/ Terminate \/ StartOutside \/ \E g \in games : GameExits(g)
  BY <1>4, SetupIsLeftAlone DEF Spawn, Terminate, StartOutside, GameExits
<1>5. ASSUME NEW b \in BOOLEAN, SpawnFails(b) \/ SaveIdentity(b) \/ Poll(b) PROVE SetupInv'
  BY <1>5, SetupIsLeftAlone DEF SpawnFails, SaveIdentity, Poll, setupVars
<1>6. ASSUME NEW g \in games, NEW b \in BOOLEAN, NEW c \in BOOLEAN, SmapiStarts(g, b, c) PROVE SetupInv'
  BY <1>6, SetupIsLeftAlone, DepsAreRewritten DEF SmapiStarts
<1>7. ASSUME NEW loaded \in SUBSET Mods, NEW b \in BOOLEAN, SmapiLists(loaded, b) PROVE SetupInv'
  BY <1>7, SetupIsLeftAlone DEF SmapiLists, setupVars
<1>8. ASSUME NEW m \in Mods, ChangeMods(m) PROVE SetupInv'
  BY <1>8, SetupIsLeftAlone DEF ChangeMods, setupVars
<1>9. CASE UNCHANGED gameVars
  BY <1>9, SetupIsLeftAlone DEF gameVars, setupVars
<1> QED
  BY <1>1, <1>2, <1>3, <1>4, <1>5, <1>6, <1>7, <1>8, <1>9 DEF GameStep

-----------------------------------------------------------------------------
\* A setup's step leaves the sessions and the launch of one alone.
LEMMA SessionsAreLeftAlone ==
    ASSUME SessionInv, UNCHANGED <<sessions, games, owned, seen>>,
           at' = at \/ at' \notin {"spawn", "spawned"},
           enabled' \subseteq Mods, good' \in (SUBSET Mods) \union {NoGood}
    PROVE  SessionInv'
BY DEF SessionInv, SessionKinds, LaunchCourse, EndedMeansGone, Latest, Ended

LEMMA SetupLeavesSessions ==
    ASSUME SetupInv, SessionInv, SetupStep, UNCHANGED sessionVars
    PROVE  SessionInv'
<1>1. games' = games /\ (at' = at \/ at' \notin {"spawn", "spawned"})
  <2>1. ASSUME NEW a, NEW v, BeginSetup(a, v) PROVE games' = games /\ at' \notin {"spawn", "spawned"}
    BY <2>1 DEF BeginSetup
  <2>2. CASE CommitSetup \/ StartInstaller \/ OrphanEnds \/ SaveSmapiRow \/ SetupSucceeds \/ RecordFingerprint
             \/ \E b \in BOOLEAN : Download(b) \/ InstallerReturns(b) \/ SmapiRowRefused(b)
    BY <2>2 DEF CommitSetup, StartInstaller, OrphanEnds, SaveSmapiRow, SetupSucceeds, RecordFingerprint,
                Download, InstallerReturns, SmapiRowRefused
  <2>3. CASE JournalRefused \/ StartManager \/ RetryRecovery \/ RecoverRow \/ RecoverState
             \/ RecoveryRefused \/ MarkHandled \/ (\E p \in Parts : InstallerWrites(p))
    BY <2>3 DEF JournalRefused, StartManager, RetryRecovery, RecoverRow, RecoverState, RecoveryRefused,
                MarkHandled, InstallerWrites, Verdict
  <2>4. ASSUME NEW f, Touch(f) PROVE games' = games /\ at' = at
    BY <2>4 DEF Touch
  <2> QED
    BY <2>1, <2>2, <2>3, <2>4 DEF SetupStep
<1>2. UNCHANGED <<sessions, owned, seen, enabled, good>>
  BY DEF sessionVars
<1> QED
  BY <1>1, <1>2, SessionsAreLeftAlone DEF SessionInv, SessionKinds

\* A launch: nothing runs, and the new session is behind all others.
LEMMA LaunchKeeps ==
    ASSUME SessionInv, NEW mode \in {"modded", "vanilla"}, NEW b \in BOOLEAN, Launch(mode, b)
    PROVE  /\ SessionInv'
           /\ Latest' = Latest + 1 /\ ~Unfinished /\ at = "idle"
           /\ \A n \in 1..Latest : sessions'[n] = sessions[n]
<1> DEFINE row0 == [mode |-> mode, state |-> "starting", ended |-> FALSE, known |-> FALSE,
                    mods |-> IF mode = "modded" THEN enabled ELSE {},
                    baseline |-> b, matched |-> FALSE, outcome |-> "none"]
<1>0. /\ at = "idle" /\ at' = "spawn" /\ sessions' = Append(sessions, row0)
      /\ UNCHANGED <<games, owned, seen, enabled, good>>
      /\ ~Unfinished /\ games = {}
  BY DEF Launch, MayLaunch, GameRuns
<1>1. row0 \in SessionRows
  BY DEF SessionInv, SessionKinds, SessionRows, States
<1>2. row0.state = "starting" /\ ~row0.ended /\ ~row0.known
  OBVIOUS
<1> HIDE DEF row0
<1>3. /\ sessions' \in Seq(SessionRows) /\ Latest' = Latest + 1 /\ Latest \in Nat
      /\ sessions'[Latest + 1] = row0
      /\ \A n \in 1..Latest : sessions'[n] = sessions[n]
  BY <1>0, <1>1, AppendProperties, LenProperties DEF SessionInv, SessionKinds, Latest
<1>4. SessionKinds'
  BY <1>0, <1>3 DEF SessionInv, SessionKinds
<1>5. LaunchCourse'
  BY <1>0, <1>2, <1>3 DEF LaunchCourse
<1>6. EndedMeansGone'
  BY <1>0, <1>3 DEF EndedMeansGone
<1> QED
  BY <1>0, <1>3, <1>4, <1>5, <1>6 DEF SessionInv

\* A step on the latest session, whose row is as it was but for its course.
LEMMA LatestKeeps ==
    ASSUME SessionInv, NEW s, Latest > 0, Rewritten(s), at' \notin {"spawn", "spawned"},
           UNCHANGED <<games, enabled>>, owned' = owned, seen' \subseteq seen \union {Latest},
           good' \in (SUBSET Mods) \union {NoGood},
           s.known /\ Ended(s) => Latest \notin games
    PROVE  SessionInv'
<1>0. Latest \in 1..Latest
  BY LenProperties DEF SessionInv, SessionKinds, Latest
<1>1. SessionKinds'
  BY <1>0 DEF SessionInv, SessionKinds, Rewritten
<1>2. LaunchCourse'
  BY DEF LaunchCourse
<1>3. EndedMeansGone'
  BY DEF SessionInv, EndedMeansGone, Rewritten, Ended
<1> QED
  BY <1>1, <1>2, <1>3 DEF SessionInv

\* A session on its way is neither ended nor confirmed.
LEMMA OnItsWay ==
    ASSUME SessionInv, at \in {"spawn", "spawned"}
    PROVE  /\ Latest > 0 /\ Latest \in 1..Latest /\ sessions[Latest] \in SessionRows
           /\ sessions[Latest].state = "starting"
           /\ ~Ended(sessions[Latest]) /\ ~sessions[Latest].known
<1>1. Latest > 0 /\ Latest \in 1..Latest
  BY LenProperties DEF SessionInv, SessionKinds, LaunchCourse, Latest
<1> QED
  BY <1>1, RowOf DEF SessionInv, LaunchCourse, Ended

\* The end of a launch that cannot start, or whose process is recorded.
LEMMA SpawnFailsWrites ==
    ASSUME SessionInv, NEW saved \in BOOLEAN, SpawnFails(saved)
    PROVE  \E s \in SessionRows :
             /\ Rewritten(s) /\ ~s.known
             /\ s.state \in {"starting", "failed"}
<1> DEFINE s == [sessions[Latest] EXCEPT !.state = "failed", !.ended = TRUE]
<1>1. at = "spawn"
  BY DEF SpawnFails
<1>2. /\ s \in SessionRows /\ s.mode = sessions[Latest].mode /\ s.mods = sessions[Latest].mods
      /\ s.known = sessions[Latest].known /\ s.state = "failed"
  BY <1>1, OnItsWay DEF SessionRows, States
<1>3. CASE saved
  <2>1. sessions' = Saved(Latest, s)
    BY <1>3 DEF SpawnFails
  <2> HIDE DEF s
  <2>2. Rewritten(s)
    BY <1>1, <1>2, <2>1, OnItsWay, SavedRows DEF SessionInv
  <2> QED
    BY <1>1, <1>2, <2>2, OnItsWay
<1>4. CASE ~saved
  <2>1. Rewritten(sessions[Latest])
    BY <1>4 DEF SpawnFails, Rewritten, SessionInv, SessionKinds, Latest
  <2> QED
    BY <1>1, <2>1, OnItsWay
<1> QED
  BY <1>3, <1>4

LEMMA IdentityWrites ==
    ASSUME SessionInv, NEW saved \in BOOLEAN, SaveIdentity(saved)
    PROVE  \E s \in SessionRows :
             Rewritten(s) /\ ~Ended(s) /\ s.state \in {"starting", "running", "unavailable"}
<1> DEFINE state == IF sessions[Latest].baseline \/ sessions[Latest].mode = "vanilla"
                    THEN "running" ELSE "unavailable"
           s == [sessions[Latest] EXCEPT !.known = TRUE, !.state = state]
<1>1. at = "spawned"
  BY DEF SaveIdentity
<1>2. /\ s \in SessionRows /\ s.mode = sessions[Latest].mode /\ s.mods = sessions[Latest].mods
      /\ s.ended = sessions[Latest].ended /\ s.state \in {"running", "unavailable"}
  <2>1. state \in {"running", "unavailable"}
    OBVIOUS
  <2> HIDE DEF state
  <2> QED
    BY <1>1, <2>1, OnItsWay DEF SessionRows, States
<1>3. CASE saved
  <2>1. sessions' = Saved(Latest, s)
    BY <1>3 DEF SaveIdentity
  <2> HIDE DEF s
  <2>2. Rewritten(s)
    BY <1>1, <1>2, <2>1, OnItsWay, SavedRows DEF SessionInv
  <2>3. ~Ended(s)
    BY <1>1, <1>2, OnItsWay DEF Ended
  <2> QED
    BY <1>2, <2>2, <2>3
<1>4. CASE ~saved
  <2>1. Rewritten(sessions[Latest])
    BY <1>4 DEF SaveIdentity, Rewritten, SessionInv, SessionKinds, Latest
  <2> QED
    BY <1>1, <2>1, OnItsWay
<1> QED
  BY <1>3, <1>4

\* A session whose process runs is not ended by what a poll reads.
LEMMA PollKeepsTheLiving ==
    ASSUME SessionInv, NEW timeout \in BOOLEAN, Poll(timeout), Latest \in games,
           sessions[Latest].known
    PROVE  ~Ended(Followed(Latest, Read(Latest), timeout))
<1>1. /\ SessionKinds /\ Latest \in 1..Latest /\ Open(sessions[Latest]) /\ Read(Latest) \in SessionRows
      /\ Alive(Latest)
  BY PollWrites DEF SessionInv, Alive
<1> DEFINE s == Read(Latest)
           f == Followed(Latest, s, timeout)
<1>2. s.ended = sessions[Latest].ended /\ s.state \in {sessions[Latest].state, "confirmed", "unavailable"}
  BY <1>1, ReadRow
<1>3. s \in SessionRows
  BY <1>1
<1> HIDE DEF s
<1>4. f.ended = s.ended /\ f.state \in {s.state, "unavailable"}
  BY <1>1, <1>3, FollowedRow
<1> HIDE DEF f
<1>5. ~Ended(f)
  BY <1>1, <1>2, <1>4 DEF Ended, Open
<1> QED
  BY <1>5 DEF s, f

\* A poll, step by step, keeps what is known.
LEMMA PollKeeps == ASSUME SessionInv, NEW timeout \in BOOLEAN, Poll(timeout) PROVE SessionInv'
<1> DEFINE f == Followed(Latest, Read(Latest), timeout)
<1>1. SessionKinds /\ at = "idle" /\ Latest > 0 /\ Latest \in 1..Latest /\ Rewritten(f)
      /\ Read(Latest) \in SessionRows /\ sessions[Latest] \in SessionRows
  BY PollWrites, RowOf DEF SessionInv
<1>2. f.known = sessions[Latest].known
  <2> DEFINE s == Read(Latest)
  <2>1. s \in SessionRows /\ s.known = sessions[Latest].known
    BY <1>1, ReadRow
  <2> HIDE DEF s
  <2>2. Followed(Latest, s, timeout).known = s.known
    BY <1>1, <2>1, FollowedRow
  <2> QED
    BY <2>1, <2>2 DEF s
<1>3. f.known /\ Ended(f) => Latest \notin games
  BY <1>2, PollKeepsTheLiving
<1>4. /\ UNCHANGED <<at, games, enabled, owned>> /\ seen' \subseteq seen \union {Latest}
      /\ good' \in {good, enabled}
  BY DEF Poll, setupVars
<1>5. good' \in (SUBSET Mods) \union {NoGood}
  BY <1>4 DEF SessionInv, SessionKinds
<1> HIDE DEF f
<1> QED
  BY <1>1, <1>3, <1>4, <1>5, LatestKeeps

LEMMA SessionInvHolds == ASSUME SetupInv, SessionInv, [GameStep]_gameVars PROVE SessionInv'
<1>0. SessionKinds /\ Latest \in Nat /\ good \in (SUBSET Mods) \union {NoGood} /\ enabled \subseteq Mods
  BY LenProperties DEF SessionInv, SessionKinds, Latest
<1>1. CASE SetupStep /\ UNCHANGED sessionVars
  BY <1>1, SetupLeavesSessions
<1>2. CASE Kill
  BY <1>2 DEF Kill, KillManager, SessionInv, SessionKinds, LaunchCourse, EndedMeansGone, Latest, Ended
<1>3. ASSUME NEW mode \in {"modded", "vanilla"}, NEW b \in BOOLEAN, Launch(mode, b) PROVE SessionInv'
  BY <1>3, LaunchKeeps
<1>4. CASE Spawn
  <2>1. /\ at = "spawn" /\ at' = "spawned" /\ games' = games \union {Latest}
        /\ owned' = owned \union {Latest} /\ seen' = seen \union {Latest}
        /\ UNCHANGED <<sessions, enabled, good>>
    BY <1>4 DEF Spawn
  <2>2. Latest \in 1..Latest /\ ~sessions[Latest].known
    BY <2>1, OnItsWay
  <2>3. SessionKinds'
    BY <2>1, <2>2 DEF SessionInv, SessionKinds, Latest
  <2>4. LaunchCourse'
    BY <2>1 DEF SessionInv, LaunchCourse, Latest
  <2>5. EndedMeansGone'
    BY <2>1, <2>2 DEF SessionInv, EndedMeansGone, Latest, Ended
  <2> QED
    BY <2>3, <2>4, <2>5 DEF SessionInv
<1>5. ASSUME NEW b \in BOOLEAN, SpawnFails(b) PROVE SessionInv'
  <2>1. PICK s \in SessionRows : Rewritten(s) /\ ~s.known
    BY <1>5, SpawnFailsWrites
  <2>2. at = "spawn" /\ at' = "idle" /\ UNCHANGED <<games, enabled, owned, seen, good>>
    BY <1>5 DEF SpawnFails
  <2> QED
    BY <1>0, <2>1, <2>2, OnItsWay, LatestKeeps
<1>6. ASSUME NEW b \in BOOLEAN, SaveIdentity(b) PROVE SessionInv'
  <2>1. PICK s \in SessionRows : Rewritten(s) /\ ~Ended(s)
    BY <1>6, IdentityWrites
  <2>2. at = "spawned" /\ at' = "idle" /\ UNCHANGED <<games, enabled, owned, seen, good>>
    BY <1>6 DEF SaveIdentity
  <2> QED
    BY <1>0, <2>1, <2>2, OnItsWay, LatestKeeps
<1>7. ASSUME NEW b \in BOOLEAN, Poll(b) PROVE SessionInv'
  BY <1>7, PollKeeps
<1>8. CASE Terminate \/ (\E g \in games : GameExits(g)) \/ StartOutside
  <2>1. UNCHANGED <<sessions, at, seen, enabled, good>>
    BY <1>8 DEF Terminate, GameExits, StartOutside
  <2>2. games' \subseteq games \union {0} /\ owned' \subseteq games'
    BY <1>8 DEF Terminate, GameExits, Reaped, StartOutside, SessionInv, SessionKinds
  <2>3. SessionKinds'
    BY <2>1, <2>2 DEF SessionInv, SessionKinds, Latest
  <2>4. LaunchCourse'
    BY <2>1, <2>2, <1>0 DEF SessionInv, LaunchCourse, Latest
  <2>5. EndedMeansGone'
    BY <2>1, <2>2, <1>0 DEF SessionInv, EndedMeansGone, Latest, Ended
  <2> QED
    BY <2>3, <2>4, <2>5 DEF SessionInv
<1>9. ASSUME NEW g \in games, NEW b \in BOOLEAN, NEW c \in BOOLEAN, SmapiStarts(g, b, c) PROVE SessionInv'
  BY <1>0, <1>9, SessionsAreLeftAlone DEF SmapiStarts
<1>10. ASSUME NEW loaded \in SUBSET Mods, NEW b \in BOOLEAN, SmapiLists(loaded, b) PROVE SessionInv'
  BY <1>0, <1>10, SessionsAreLeftAlone DEF SmapiLists, setupVars
<1>11. ASSUME NEW m \in Mods, ChangeMods(m) PROVE SessionInv'
  BY <1>0, <1>11, SessionsAreLeftAlone DEF ChangeMods, setupVars
<1>12. CASE UNCHANGED gameVars
  BY <1>0, <1>12, SessionsAreLeftAlone DEF gameVars, setupVars, sessionVars
<1> QED
  BY <1>1, <1>2, <1>3, <1>4, <1>5, <1>6, <1>7, <1>8, <1>9, <1>10, <1>11, <1>12 DEF GameStep

-----------------------------------------------------------------------------
LEMMA GameBegins == SessionsInit => GameInv
<1> SUFFICES ASSUME SessionsInit PROVE GameInv
  OBVIOUS
<1>1. PICK v \in Releases :
        /\ parts = AllFrom(v) /\ row \in {None, v}
        /\ record \in IF row = None THEN {NoRecord} ELSE {NoRecord, [p \in Fingerprinted |-> v]}
  BY DEF SessionsInit, SetupInit, Releases
<1>2. /\ setup = NoSetup /\ installer = NoInstaller /\ at = "idle" /\ games = {}
      /\ touched = FALSE /\ others = FALSE /\ sessions = <<>> /\ seen = {} /\ owned = {}
      /\ enabled \in SUBSET Mods /\ good = NoGood
  BY DEF SessionsInit, SetupInit
<1>3. /\ parts = [p \in Parts |-> v] /\ v # Unnamed /\ Fingerprinted \subseteq Parts
      /\ parts \in [Parts -> Versions \union {None, Unnamed}] /\ row \in Releases
  BY <1>1, SetupAssumption DEF AllFrom, Releases, Fingerprinted
<1>4. record = NoRecord \/ (v \in Versions /\ record = [p \in Fingerprinted |-> v])
  BY <1>1 DEF Releases
<1>5. SetupKinds
  <2>1. setup \in Setups /\ installer \in Installers
    BY <1>2 DEF Setups, Installers, SetupStates, Tasks, Releases, NoSetup, NoInstaller
  <2>2. setup.action # "install" /\ installer.action # "install"
    BY <1>2 DEF NoSetup, NoInstaller
  <2>3. \A p \in Fingerprinted : parts[p] # Unnamed
    BY <1>3
  <2>4. record = NoRecord \/ \E there \in SUBSET Fingerprinted : record \in [there -> Versions]
    <3>1. CASE record = NoRecord
      BY <3>1
    <3>2. CASE v \in Versions /\ record = [p \in Fingerprinted |-> v]
      <4>1. record \in [Fingerprinted -> Versions] /\ Fingerprinted \in SUBSET Fingerprinted
        BY <3>2
      <4> QED
        BY <4>1
    <3> QED
      BY <1>4, <3>1, <3>2
  <2> QED
    BY <1>2, <1>3, <2>1, <2>2, <2>3, <2>4 DEF SetupKinds, WindowLabels
<1>6. SetupCourse /\ InstallSoFar /\ RowWillTellTruth /\ RowTellsTruth
  BY <1>2 DEF SetupCourse, InstallSoFar, RowWillTellTruth, RowTellsTruth, SetupLabels, RecoveryLabels, NoSetup
<1>7. AlarmIsReal
  BY <1>3, <1>4 DEF AlarmIsReal, Changed
<1>8. SessionInv
  <2>1. sessions \in Seq(SessionRows) /\ Latest = 0
    BY <1>2, EmptySeq DEF Latest
  <2>2. SessionKinds
    <3>1. games \subseteq {0, Latest} /\ owned \subseteq games /\ seen \subseteq 1..Latest
      BY <1>2
    <3>2. enabled \subseteq Mods /\ good \in (SUBSET Mods) \union {NoGood}
      BY <1>2
    <3> QED
      BY <2>1, <3>1, <3>2 DEF SessionKinds
  <2>3. LaunchCourse /\ EndedMeansGone
    BY <1>2, <2>1 DEF LaunchCourse, EndedMeansGone
  <2> QED
    BY <2>2, <2>3 DEF SessionInv
<1> QED
  BY <1>5, <1>6, <1>7, <1>8 DEF GameInv, SetupInv

LEMMA GameInvStays == GameInv /\ [GameStep]_gameVars => GameInv'
BY SetupInvHolds, SessionInvHolds DEF GameInv

LEMMA GameInvHolds == GameSpec => []GameInv
<1>1. SessionsInit => GameInv
  BY GameBegins
<1>2. GameInv /\ [GameStep]_gameVars => GameInv'
  BY GameInvStays
<1> QED
  BY <1>1, <1>2, PTL DEF GameSpec

LEMMA GameInvMeans == GameInv => GameTypeOK /\ OneGame
<1> SUFFICES ASSUME GameInv PROVE GameTypeOK /\ OneGame
  OBVIOUS
<1>1. Latest \in Nat /\ games \subseteq {0, Latest} /\ \A n \in 1..Latest : sessions[n] \in SessionRows
  BY LenProperties, RowOf DEF GameInv, SessionInv, SessionKinds, Latest
<1>2. SetupTypeOK
  BY DEF GameInv, SetupInv, SetupKinds, SetupTypeOK, Releases, Setups, SetupStates, Installers
<1>3. GameTypeOK
  BY <1>1, <1>2
  DEF GameInv, SetupInv, SetupKinds, SessionInv, SessionKinds, GameTypeOK,
      WindowLabels, SetupLabels, RecoveryLabels
<1>4. OneGame
  <2>1. games \ {0} = {} \/ games \ {0} = {Latest}
    BY <1>1
  <2>2. Cardinality(games \ {0}) \in {0, 1}
    <3>1. Cardinality({}) = 0 /\ Cardinality({Latest}) = 1
      BY FS_EmptySet, FS_Singleton
    <3> QED
      BY <2>1, <3>1
  <2> QED
    BY <2>2 DEF OneGame
<1> QED
  BY <1>3, <1>4

\* The rows of sessions are written by a launch, what ends or follows it, and polls.
LEMMA SessionWriters ==
    ASSUME [GameStep]_gameVars
    PROVE  \/ UNCHANGED sessions
           \/ \E mode \in {"modded", "vanilla"}, b \in BOOLEAN : Launch(mode, b)
           \/ \E b \in BOOLEAN : SpawnFails(b) \/ SaveIdentity(b) \/ Poll(b)
<1>1. CASE Kill
  BY <1>1 DEF Kill
<1>2. CASE (SetupStep /\ UNCHANGED sessionVars) \/ UNCHANGED gameVars
  BY <1>2 DEF gameVars, sessionVars
<1>3. CASE Spawn \/ Terminate \/ StartOutside \/ (\E m \in Mods : ChangeMods(m))
  BY <1>3 DEF Spawn, Terminate, StartOutside, ChangeMods
<1>4. CASE \/ \E g \in games : GameExits(g) \/ \E b, c \in BOOLEAN : SmapiStarts(g, b, c)
           \/ \E loaded \in SUBSET Mods, b \in BOOLEAN : SmapiLists(loaded, b)
  BY <1>4 DEF GameExits, SmapiStarts, SmapiLists
<1> QED
  BY <1>1, <1>2, <1>3, <1>4 DEF GameStep

\* What a step may do to a session that there is.
LEMMA SessionsMove ==
    ASSUME GameInv, [GameStep]_gameVars, NEW n \in 1..Latest
    PROVE  /\ Ended(sessions[n]) => sessions'[n] = sessions[n]
           /\ sessions[n].state # "confirmed" /\ sessions'[n].state = "confirmed"
                => log.by = n /\ ExpectedMods(n) \subseteq log.loaded
           /\ sessions[n].state = "confirmed"
                => sessions'[n].state \in {"confirmed", "exited", "interrupted"}
<1> DEFINE RowMoves(s) ==
             /\ Ended(sessions[n]) => s = sessions[n]
             /\ sessions[n].state # "confirmed" /\ s.state = "confirmed"
                  => log.by = n /\ ExpectedMods(n) \subseteq log.loaded
             /\ sessions[n].state = "confirmed" => s.state \in {"confirmed", "exited", "interrupted"}
<1>0. SessionInv /\ SessionKinds
  BY DEF GameInv, SessionInv
<1>1. CASE UNCHANGED sessions
  BY <1>1
<1>2. ASSUME NEW mode \in {"modded", "vanilla"}, NEW b \in BOOLEAN, Launch(mode, b)
      PROVE  RowMoves(sessions'[n])
  BY <1>0, <1>2, LaunchKeeps
<1>3. ASSUME NEW b \in BOOLEAN, SpawnFails(b) \/ SaveIdentity(b) PROVE RowMoves(sessions'[n])
  <2>1. at \in {"spawn", "spawned"}
    BY <1>3 DEF SpawnFails, SaveIdentity
  <2>2. PICK s \in SessionRows : Rewritten(s) /\ s.state # "confirmed"
    BY <1>0, <1>3, SpawnFailsWrites, IdentityWrites
  <2>3. CASE n = Latest
    BY <1>0, <2>1, <2>2, <2>3, OnItsWay DEF Rewritten
  <2>4. CASE n # Latest
    BY <2>2, <2>4 DEF Rewritten
  <2> QED
    BY <2>3, <2>4
<1>4. ASSUME NEW b \in BOOLEAN, Poll(b) PROVE RowMoves(sessions'[n])
  <2> DEFINE r == Read(n)
             f == Followed(n, r, b)
  <2>1. Open(sessions[Latest]) /\ Rewritten(Followed(Latest, Read(Latest), b))
    BY <1>0, <1>4, PollWrites
  <2>2. CASE n # Latest
    BY <2>1, <2>2 DEF Rewritten
  <2>3. CASE n = Latest
    <3>1. sessions'[n] = f /\ ~Ended(sessions[n])
      BY <2>1, <2>3 DEF Rewritten, Open, Ended
    <3>2. /\ r \in SessionRows
          /\ sessions[n].state = "confirmed" => r.state = "confirmed"
          /\ sessions[n].state # "confirmed" /\ r.state = "confirmed"
               => log.by = n /\ ExpectedMods(n) \subseteq log.loaded
      BY <1>0, ReadRow
    <3> HIDE DEF r
    <3>3. /\ f.state = "confirmed" => r.state = "confirmed"
          /\ r.state = "confirmed" => f.state \in {"confirmed", "exited", "interrupted"}
      BY <1>0, <3>2, FollowedRow
    <3> HIDE DEF f
    <3> QED
      BY <3>1, <3>2, <3>3
  <2> QED
    BY <2>2, <2>3
<1> QED
  BY <1>1, <1>2, <1>3, <1>4, SessionWriters

\* Sessions.SetupTellsTruth: what the manager believes of SMAPI is what is in
\* the game folder, its alarms are real, and no game is started over a setup
\* that is not settled, however setups, games, kills and others' hands meet.
THEOREM SetupStaysTrue == GameSpec => SetupTellsTruth
<1>1. GameInv => GameTypeOK /\ RowTellsTruth /\ AlarmIsReal
  BY GameInvMeans DEF GameInv, SetupInv
<1>2. GameInv /\ [GameStep]_gameVars
        => [Latest' > Latest => ~Unfinished /\ (installer = NoInstaller \/ installer.orphan)]_gameVars
  <2> SUFFICES ASSUME GameInv, [GameStep]_gameVars, Latest' > Latest
               PROVE  ~Unfinished /\ (installer = NoInstaller \/ installer.orphan)
    OBVIOUS
  <2>0. SessionInv /\ SetupInv /\ Latest \in Nat
    BY LenProperties DEF GameInv, SessionInv, SessionKinds, Latest
  <2>1. ASSUME NEW b \in BOOLEAN, SpawnFails(b) \/ SaveIdentity(b) \/ Poll(b) PROVE Latest' = Latest
    BY <2>0, <2>1, SpawnFailsWrites, IdentityWrites, PollWrites DEF Rewritten
  <2>2. UNCHANGED sessions => Latest' = Latest
    BY DEF Latest
  <2>3. PICK mode \in {"modded", "vanilla"}, b \in BOOLEAN : Launch(mode, b)
    BY <2>0, <2>1, <2>2, SessionWriters
  <2>4. ~Unfinished /\ at = "idle"
    BY <2>0, <2>3, LaunchKeeps
  <2> QED
    BY <2>0, <2>4 DEF SetupInv, SetupCourse
<1> QED
  BY <1>1, <1>2, GameInvHolds, PTL DEF SetupTellsTruth, LaunchedOnSettled, GameSpec

\* Sessions.GamesAreKnown: one game of the manager's at a time, a session never
\* ended while its process is seen to run, and a verdict that is the session's
\* own, of its own log, and stands.
THEOREM GamesStayKnown == GameSpec => GamesAreKnown
<1>1. GameInv => OneGame /\ EndedMeansGone
  BY GameInvMeans DEF GameInv, SessionInv
<1>2. GameInv /\ [GameStep]_gameVars
        => [\A n \in 1..Latest : Ended(sessions[n]) => sessions'[n] = sessions[n]]_gameVars
  BY SessionsMove
<1>3. GameInv /\ [GameStep]_gameVars
        => [\A n \in 1..Latest :
              sessions[n].state # "confirmed" /\ sessions'[n].state = "confirmed"
                => log.by = n /\ ExpectedMods(n) \subseteq log.loaded]_gameVars
  BY SessionsMove
<1>4. GameInv /\ [GameStep]_gameVars
        => [\A n \in 1..Latest :
              sessions[n].state = "confirmed"
                => sessions'[n].state \in {"confirmed", "exited", "interrupted"}]_gameVars
  BY SessionsMove
<1> QED
  BY <1>1, <1>2, <1>3, <1>4, GameInvHolds, PTL
  DEF GamesAreKnown, VerdictStays, ConfirmedByItsLog, ConfirmedStays, GameSpec
=============================================================================
