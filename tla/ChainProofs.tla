---------------------------- MODULE ChainProofs ----------------------------
(***************************************************************************)
(* Proofs about the changes made of several operations (ChangeChains.tla), *)
(* for any packages, requirements and points, any number of chains,        *)
(* failures, kills and other programs.                                     *)
(*                                                                         *)
(* That no mod is lost is a fact about the end of a replacement; what      *)
(* carries it there is where each old version is on the way (ReplaceCourse,*)
(* with OldsInPlace): what has not gone is still deployed with its own     *)
(* settings, one at most is turned on only to be removed, and what has     *)
(* gone is on the list to put back. A reinstall is at each phase the setup *)
(* it began with but for its one package (ReinstallCourse). A restore is   *)
(* there for the types: it turns on what it read, so nothing may leave the *)
(* profile between the reading and the request (RestoreCourse).            *)
(***************************************************************************)
EXTENDS ChangeChains, FiniteSetTheorems, SequenceTheorems, TLAPS

\* The chain and the change set keep their fields.
Shaped ==
    /\ DOMAIN chain = DOMAIN NoChain
    /\ DOMAIN set = DOMAIN NoSet

\* The profile, whatever is being carried out.
ProfileTyped ==
    /\ on \subseteq deployed /\ deployed \subseteq Packages /\ Consistent(deployed)
    /\ settings \in [Packages -> {"mine", "default"}]
    /\ copies \subseteq Packages \X {"mine", "default"}
    /\ outside \in Nat

\* Only a restore or an adoption under way carries a set out.
SetFollows ==
    set.carried =>
        /\ set.state = "Committing" /\ chain.kind \in {"restore", "adoption"}
        /\ chain.phase \notin {"idle", "answered", "point", "save", "begin"}

\* Nothing of what is to be replaced has been touched yet, or some of it has.
Untouched ==
    \/ chain.phase = "backup"
    \/ chain.phase \in {"point", "save"} /\ chain.kind \in {"replace", "reinstall"}
Swapping == chain.phase \in {"backup", "olds", "settle", "off", "back"}
Left == chain.olds \ ToSet(chain.gone)

\* The course of a replacement, alone or in a restore: what has not gone is
\* still deployed, and one old version at most was turned on for its removal.
OldsInPlace ==
    /\ Swapping => chain.kind \in {"replace", "reinstall", "restore"}
    /\ chain.phase \in {"point", "save"} =>
         chain.kind \in {"named", "replace", "reinstall", "restore"}
    /\ chain.phase = "begin" => chain.kind \in {"restore", "adoption"}
    /\ chain.phase = "again" => chain.kind = "undo"
    /\ Untouched \/ Swapping => chain.target \in Packages /\ chain.gone \in Seq(Packages)
    /\ Untouched => chain.gone = <<>> /\ chain.turned = {}
    /\ Untouched \/ chain.phase = "olds" =>
         /\ Left \subseteq deployed
         /\ chain.turned \subseteq chain.olds \ chain.was
         /\ \A x, y \in chain.turned \ ToSet(chain.gone) : x = y
    /\ chain.phase \in {"settle", "off"} => chain.target \in deployed
    /\ chain.target \in Packages \union {NoPackage} /\ chain.olds \subseteq Packages

\* A package is deployed with the settings it had, and in the given state.
AsItWas(q, lit) ==
    /\ q \in deployed
    /\ q \in Mine <=> q \in chain.mine
    /\ outside = 0 => (q \in on <=> q \in lit)

ReplaceCourse ==
    chain.kind = "replace" =>
        /\ chain.phase \in {"point", "save", "answered"} \/ Swapping
        /\ Untouched \/ chain.phase = "olds" =>
             \A q \in Left : AsItWas(q, chain.was \union chain.turned)
        /\ chain.phase = "back" => \A q \in chain.olds :
             q \in ToSet(chain.gone) \/ q \in chain.missing \/ AsItWas(q, chain.was)
        /\ ReplaceKeepsMods

\* A reinstall is always the setup it began with, but for the one package it
\* has taken out, or put in without its settings and turned on.
SetupIs(d, o, m) ==
    deployed = d /\ Mine = m /\ (outside = 0 => on = o)
ReinstallCourse ==
    LET p == chain.target
        goal == chain.goal
        gone == ToSet(chain.gone) IN
    chain.kind = "reinstall" =>
        /\ p \in Packages /\ chain.olds = {p} /\ p \in goal.deployed
        /\ chain.was = {p} \cap goal.on /\ chain.mine = {p} \cap goal.mine
        /\ goal = [deployed |-> goal.deployed, on |-> goal.on, mine |-> goal.mine]
        /\ chain.phase \in {"point", "save", "backup", "olds", "settle", "off", "answered"}
        /\ Untouched \/ chain.phase = "olds" =>
             /\ gone \subseteq {p}
             /\ SetupIs(goal.deployed \ gone, (goal.on \union chain.turned) \ gone,
                        goal.mine \ gone)
        /\ chain.phase = "settle" =>
             SetupIs(goal.deployed, goal.on \union {p}, goal.mine \ {p})
        /\ chain.phase = "off" => SetupIs(goal.deployed, goal.on \union {p}, goal.mine)
        /\ ReinstallIsNoChange

\* What a restore has left to do: it turns on only what is deployed, and does
\* so right after it read what that is.
RestoreCourse ==
    chain.kind = "restore" =>
        /\ \/ chain.phase \in {"point", "save", "begin", "working", "finish", "answered"}
           \/ Swapping
        /\ chain.todo \in Seq(ToSet(chain.todo))
        /\ \A i \in DOMAIN chain.todo : chain.todo[i].do = "on" =>
             i = 1 /\ chain.phase = "working" /\ chain.todo[i].packages \subseteq deployed
        /\ Swapping => chain.todo # <<>> /\ chain.todo[1].do = "replace"

ChainsInv ==
    /\ Shaped /\ ProfileTyped /\ SetFollows /\ OldsInPlace
    /\ ReplaceCourse /\ ReinstallCourse /\ RestoreCourse

-----------------------------------------------------------------------------
\* What ends a chain, or a part of a restore, leaves of its fields.
LEMMA DoneFields ==
    ASSUME NEW c, DOMAIN c = DOMAIN NoChain
    PROVE  /\ DOMAIN Done(c) = DOMAIN NoChain
           /\ Done(c).kind = c.kind /\ Done(c).target = c.target
           /\ Done(c).olds = c.olds /\ Done(c).was = c.was /\ Done(c).mine = c.mine
           /\ Done(c).turned = c.turned /\ Done(c).gone = c.gone
           /\ Done(c).missing = c.missing /\ Done(c).failed = c.failed
           /\ Done(c).goal = c.goal
           /\ IF c.kind = "restore" /\ c.todo # <<>>
              THEN Done(c).phase = "working" /\ Done(c).todo = Tail(c.todo)
              ELSE Done(c).phase = "answered" /\ Done(c).todo = c.todo
  BY DEF Done, NoChain

\* The fields of a chain but for its phase, its todo and its failures.
Same(c, d) ==
    /\ DOMAIN d = DOMAIN NoChain /\ d.kind = c.kind /\ d.target = c.target
    /\ d.olds = c.olds /\ d.was = c.was /\ d.mine = c.mine
    /\ d.turned = c.turned /\ d.gone = c.gone /\ d.missing = c.missing
    /\ d.goal = c.goal

\* Going on changes the phase alone.
LEMMA GoFields ==
    ASSUME NEW ph, Shaped, Go(ph)
    PROVE  /\ Same(chain, chain') /\ chain'.phase = ph
           /\ chain'.failed = chain.failed /\ chain'.todo = chain.todo
  BY DEF Go, Shaped, NoChain, Same

\* How a part of the chain ends: the restore goes on with the next, any other
\* kind of chain answers.
Ends ==
    /\ Same(chain, chain')
    /\ IF chain.kind = "restore" /\ chain.todo # <<>>
       THEN chain'.phase = "working" /\ chain'.todo = Tail(chain.todo)
       ELSE chain'.phase = "answered" /\ chain'.todo = chain.todo

\* An answer, and a failure, end the part at hand; a failure is remembered.
LEMMA AnswerEnds ==
    ASSUME Shaped, Answer
    PROVE  Ends /\ chain'.failed = chain.failed
  <1>1. chain' = Done(chain) /\ DOMAIN chain = DOMAIN NoChain
    BY DEF Answer, Shaped
  <1> QED BY <1>1, DoneFields DEF Ends, Same

LEMMA FailEnds ==
    ASSUME Shaped, Fail
    PROVE  Ends /\ (chain.kind # "restore" => chain'.failed # {})
  <1> DEFINE c == [chain EXCEPT !.failed = @ \union {Part(chain)}]
  <1>1. /\ DOMAIN c = DOMAIN NoChain /\ c.kind = chain.kind /\ c.target = chain.target
        /\ c.olds = chain.olds /\ c.was = chain.was /\ c.mine = chain.mine
        /\ c.turned = chain.turned /\ c.gone = chain.gone /\ c.missing = chain.missing
        /\ c.goal = chain.goal /\ c.todo = chain.todo
        /\ c.failed = chain.failed \union {Part(chain)}
    BY DEF Shaped, NoChain
  <1>2. chain' = Done(c)
    BY DEF Fail
  <1> HIDE DEF c
  <1> QED BY <1>1, <1>2, DoneFields DEF Ends, Same

\* The members of a sequence that grew at its end, or lost its first.
LEMMA AppendToSet ==
    ASSUME NEW S, NEW s \in Seq(S), NEW e \in S
    PROVE  /\ Append(s, e) \in Seq(S)
           /\ ToSet(Append(s, e)) = ToSet(s) \union {e}
  <1> DEFINE t == Append(s, e)
  <1>1. /\ t \in Seq(S) /\ Len(t) = Len(s) + 1 /\ t[Len(s) + 1] = e
        /\ \A i \in 1..Len(s) : t[i] = s[i]
    BY AppendProperties
  <1>2. DOMAIN t = 1..(Len(s) + 1) /\ DOMAIN s = 1..Len(s) /\ Len(s) \in Nat
    BY <1>1, LenProperties
  <1> HIDE DEF t
  <1>3. \A i \in DOMAIN t : i \in DOMAIN s \/ i = Len(s) + 1
    BY <1>2
  <1>4. \A i \in DOMAIN s : i \in DOMAIN t
    BY <1>2
  <1>5. Len(s) + 1 \in DOMAIN t
    BY <1>2
  <1>6. ToSet(t) = ToSet(s) \union {e}
    BY <1>1, <1>2, <1>3, <1>4, <1>5 DEF ToSet
  <1> QED BY <1>1, <1>6 DEF t

LEMMA TailToSet ==
    ASSUME NEW S, NEW s \in Seq(S), s # <<>>
    PROVE  /\ Tail(s) \in Seq(S) /\ Head(s) \in S /\ Head(s) = s[1]
           /\ ToSet(s) = ToSet(Tail(s)) \union {Head(s)}
           /\ \A i \in DOMAIN Tail(s) :
                i + 1 \in DOMAIN s /\ Tail(s)[i] = s[i + 1] /\ i \in Nat \ {0}
           /\ Tail(s) \in Seq(ToSet(Tail(s)))
  <1>1. \A i \in 1..Len(s) : i = 1 \/ i - 1 \in 1..Len(Tail(s))
    BY HeadTailProperties, LenProperties
  <1>2. Tail(s) \in Seq(S) /\ Head(s) \in S /\ Head(s) = s[1] /\ Len(Tail(s)) = Len(s) - 1
    BY HeadTailProperties, LenProperties
  <1>3. DOMAIN s = 1..Len(s) /\ DOMAIN Tail(s) = 1..Len(Tail(s)) /\ Len(s) \in Nat \ {0}
    BY <1>2, LenProperties, EmptySeq
  <1>4. \A i \in DOMAIN Tail(s) : i + 1 \in DOMAIN s /\ Tail(s)[i] = s[i + 1] /\ i \in Nat \ {0}
    BY <1>2, <1>3, HeadTailProperties
  <1>5. \A i \in DOMAIN s : s[i] \in ToSet(Tail(s)) \union {Head(s)}
    <2> TAKE i \in DOMAIN s
    <2>1. CASE i = 1
      BY <2>1, <1>2
    <2>2. CASE i # 1
      <3>1. i - 1 \in DOMAIN Tail(s) /\ s[(i - 1) + 1] = s[i]
        BY <2>2, <1>1, <1>3
      <3> QED BY <3>1, <1>4 DEF ToSet
    <2> QED BY <2>1, <2>2
  <1>6. ToSet(s) = ToSet(Tail(s)) \union {Head(s)}
    BY <1>2, <1>3, <1>4, <1>5 DEF ToSet
  <1>7. Tail(s) \in Seq(ToSet(Tail(s)))
    <2>1. Tail(s) \in [1..Len(Tail(s)) -> ToSet(Tail(s))]
      BY <1>2, <1>3, LenProperties DEF ToSet
    <2>2. Len(Tail(s)) \in Nat
      BY <1>2, <1>3
    <2> QED BY <2>1, <2>2, SeqDef
  <1> QED BY <1>2, <1>4, <1>6, <1>7

\* Nothing is being carried out at first.
LEMMA InvHoldsFirst == ChainsInit => ChainsInv
  <1> SUFFICES ASSUME ChainsInit PROVE ChainsInv
    OBVIOUS
  <1>1. Shaped
    BY DEF ChainsInit, Shaped
  <1>2. ProfileTyped
    BY DEF ChainsInit, ProfileTyped
  <1>3. SetFollows
    BY DEF ChainsInit, SetFollows, NoSet
  <1>4. OldsInPlace /\ ReplaceCourse /\ ReinstallCourse /\ RestoreCourse
    BY DEF ChainsInit, OldsInPlace, ReplaceCourse, ReinstallCourse, RestoreCourse,
           Swapping, Untouched, NoChain
  <1> QED BY <1>1, <1>2, <1>3, <1>4 DEF ChainsInv

-----------------------------------------------------------------------------
\* The abbreviations the invariant is written with are visible from here on.
USE DEF Swapping, Untouched, Left, AsItWas, SetupIs, Mine, Answered, Setup, Same

\* What is left of a restore after its first task.
LEMMA RestOfTodo ==
    ASSUME RestoreCourse, chain.kind = "restore", chain.todo # <<>>
    PROVE  /\ Tail(chain.todo) \in Seq(ToSet(Tail(chain.todo)))
           /\ \A i \in DOMAIN Tail(chain.todo) : Tail(chain.todo)[i].do # "on"
           /\ Head(chain.todo) = chain.todo[1] /\ 1 \in DOMAIN chain.todo
  <1>1. chain.todo \in Seq(ToSet(chain.todo))
    BY DEF RestoreCourse
  <1>2. /\ Tail(chain.todo) \in Seq(ToSet(Tail(chain.todo))) /\ Head(chain.todo) = chain.todo[1]
        /\ \A i \in DOMAIN Tail(chain.todo) :
             /\ i + 1 \in DOMAIN chain.todo /\ Tail(chain.todo)[i] = chain.todo[i + 1]
             /\ i \in Nat \ {0}
    BY <1>1, TailToSet
  <1>3. \A i \in DOMAIN Tail(chain.todo) : Tail(chain.todo)[i].do # "on"
    <2> SUFFICES ASSUME NEW i \in DOMAIN Tail(chain.todo) PROVE Tail(chain.todo)[i].do # "on"
      OBVIOUS
    <2>1. i + 1 # 1
      BY <1>2
    <2> QED BY <2>1, <1>2 DEF RestoreCourse
  <1>4. 1 \in DOMAIN chain.todo
    BY <1>1, LenProperties, EmptySeq
  <1> QED BY <1>2, <1>3, <1>4

\* The restore goes on, or has answered, with nothing it would turn on.
LEMMA EndsRestore ==
    ASSUME ChainsInv, Ends, chain.phase = "working" \/ Swapping,
           chain.kind = "restore" => chain.todo # <<>>
    PROVE  RestoreCourse'
  <1>1. CASE chain.kind # "restore"
    BY <1>1 DEF Ends, RestoreCourse
  <1>2. CASE chain.kind = "restore"
    <2>1. chain'.phase = "working" /\ chain'.todo = Tail(chain.todo)
      BY <1>2 DEF Ends
    <2>2. /\ chain'.todo \in Seq(ToSet(chain'.todo))
          /\ \A i \in DOMAIN chain'.todo : chain'.todo[i].do # "on"
      BY <1>2, <2>1, RestOfTodo DEF ChainsInv
    <2> QED BY <2>1, <2>2 DEF RestoreCourse
  <1> QED BY <1>1, <1>2

\* A step of the chain that leaves the profile alone, and only goes on to
\* another phase or ends with a failure, keeps what holds of the profile.
LEMMA ProfileKept ==
    ASSUME ChainsInv, UNCHANGED <<deployed, on, settings, copies, outside>>
    PROVE  ProfileTyped'
  BY DEF ChainsInv, ProfileTyped, Consistent

-----------------------------------------------------------------------------
\* The steps of a replacement and a reinstall, in their order.
LEMMA ReadPointsStep == ASSUME ChainsInv, ReadPoints PROVE ChainsInv'
  <1>1. /\ Same(chain, chain') /\ chain.phase = "point" /\ chain'.phase = "save"
        /\ chain'.failed = chain.failed /\ chain'.todo = chain.todo
    BY DEF ReadPoints, ChainsInv, Shaped, NoChain
  <1>2. UNCHANGED <<deployed, on, settings, copies, set, outside>>
    BY DEF ReadPoints, profileVars, counts
  <1>3. Shaped' /\ ProfileTyped' /\ SetFollows'
    BY <1>1, <1>2, ProfileKept DEF ChainsInv, Shaped, SetFollows
  <1>4. OldsInPlace'
    BY <1>1, <1>2 DEF ChainsInv, OldsInPlace
  <1>5. ReplaceCourse' /\ ReinstallCourse' /\ RestoreCourse'
    BY <1>1, <1>2 DEF ChainsInv, OldsInPlace, ReplaceCourse, ReinstallCourse, RestoreCourse,
         ReplaceKeepsMods, ReinstallIsNoChange
  <1> QED BY <1>3, <1>4, <1>5 DEF ChainsInv

LEMMA SavePointStep == ASSUME ChainsInv, SavePoint PROVE ChainsInv'
  <1>1. /\ Same(chain, chain') /\ chain.phase = "save" /\ chain'.todo = chain.todo
        /\ \/ chain'.phase = AfterPoint /\ chain'.failed = chain.failed
           \/ chain'.phase = "answered" /\ chain'.failed # {}
    <2>1. DOMAIN chain = DOMAIN NoChain /\ chain.phase = "save"
      BY DEF SavePoint, ChainsInv, Shaped
    <2>2. CASE chain' = [chain EXCEPT !.phase = AfterPoint, !.draft = <<>>]
      <3> DEFINE after == AfterPoint
      <3>1. chain' = [chain EXCEPT !.phase = after, !.draft = <<>>]
        BY <2>2
      <3> HIDE DEF after
      <3>2. Same(chain, chain') /\ chain'.phase = after /\ chain'.todo = chain.todo
            /\ chain'.failed = chain.failed
        BY <2>1, <3>1 DEF NoChain, Same
      <3> QED BY <2>1, <3>2 DEF after
    <2>3. CASE chain' = [chain EXCEPT !.phase = "answered", !.failed = {chain.kind}]
      BY <2>1, <2>3 DEF NoChain, Same
    <2> QED BY <2>2, <2>3 DEF SavePoint
  <1>2. UNCHANGED <<deployed, on, settings, copies, set, outside>>
    BY DEF SavePoint, profileVars, counts
  <1>a. /\ chain.kind = "restore" => AfterPoint = "begin"
        /\ chain.kind = "named" => AfterPoint = "answered"
        /\ chain.kind \in {"replace", "reinstall"} => AfterPoint = "backup"
    BY DEF AfterPoint
  <1>b. chain.kind \in {"named", "replace", "reinstall", "restore"}
    BY <1>1 DEF ChainsInv, OldsInPlace
  <1>c. ~set.carried
    BY <1>1 DEF ChainsInv, SetFollows
  <1>3. Shaped' /\ ProfileTyped' /\ SetFollows'
    BY <1>1, <1>2, <1>c, ProfileKept DEF ChainsInv, Shaped, SetFollows
  <1>4. OldsInPlace'
    BY <1>1, <1>2, <1>a, <1>b DEF ChainsInv, OldsInPlace
  <1>5. ReplaceCourse'
    BY <1>1, <1>2, <1>a, <1>b DEF ChainsInv, OldsInPlace, ReplaceCourse, ReplaceKeepsMods, ToSet
  <1>6. ReinstallCourse' /\ RestoreCourse'
    BY <1>1, <1>2, <1>a, <1>b DEF ChainsInv, OldsInPlace, ReinstallCourse, RestoreCourse,
         ReinstallIsNoChange
  <1> QED BY <1>3, <1>4, <1>5, <1>6 DEF ChainsInv

LEMMA BackUpStep == ASSUME ChainsInv, BackUp PROVE ChainsInv'
  <1>1. chain.phase = "backup" /\ (Go("olds") \/ Fail)
    BY DEF BackUp
  <1>2. UNCHANGED <<deployed, on, settings, copies, set, outside>>
    BY DEF BackUp, profileVars, counts
  <1>a. chain.kind \in {"replace", "reinstall", "restore"}
    BY <1>1 DEF ChainsInv, OldsInPlace
  <1>b. chain.kind = "restore" => chain.todo # <<>>
    BY <1>1 DEF ChainsInv, RestoreCourse
  <1>3. CASE Go("olds")
    <2>1. /\ Same(chain, chain') /\ chain'.phase = "olds"
          /\ chain'.failed = chain.failed /\ chain'.todo = chain.todo
      BY <1>3, GoFields DEF ChainsInv
    <2>2. Shaped' /\ ProfileTyped' /\ SetFollows'
      BY <2>1, <1>1, <1>2, ProfileKept DEF ChainsInv, Shaped, SetFollows
    <2>3. OldsInPlace'
      BY <2>1, <1>1, <1>2, <1>a DEF ChainsInv, OldsInPlace
    <2>4. ReplaceCourse' /\ ReinstallCourse'
      BY <2>1, <1>1, <1>2 DEF ChainsInv, OldsInPlace, ReplaceCourse, ReinstallCourse,
           ReplaceKeepsMods, ReinstallIsNoChange
    <2>5. RestoreCourse'
      BY <2>1, <1>1, <1>2 DEF ChainsInv, RestoreCourse
    <2> QED BY <2>2, <2>3, <2>4, <2>5 DEF ChainsInv
  <1>4. CASE Fail
    <2>1. Ends /\ (chain.kind # "restore" => chain'.failed # {})
      BY <1>4, FailEnds DEF ChainsInv
    <2>2. Shaped' /\ ProfileTyped' /\ SetFollows'
      BY <2>1, <1>1, <1>2, <1>a, <1>b, ProfileKept DEF ChainsInv, Shaped, SetFollows, Ends
    <2>3. OldsInPlace'
      BY <2>1, <1>1, <1>2, <1>a DEF ChainsInv, OldsInPlace, Ends
    <2>4. ReplaceCourse'
      BY <2>1, <1>1, <1>2 DEF ChainsInv, OldsInPlace, ReplaceCourse, ReplaceKeepsMods, Ends, ToSet
    <2>5. ReinstallCourse'
      BY <2>1, <1>1, <1>2 DEF ChainsInv, OldsInPlace, ReinstallCourse, ReinstallIsNoChange, Ends
    <2>6. RestoreCourse'
      BY <2>1, <1>1, <1>b, EndsRestore
    <2> QED BY <2>2, <2>3, <2>4, <2>5, <2>6 DEF ChainsInv
  <1> QED BY <1>1, <1>3, <1>4

\* An install and a switch keep the profile well formed; what an install was
\* let do was not deployed.
LEMMA InstallTyped ==
    ASSUME ChainsInv, NEW p, NEW s \in {"mine", "default"}, NEW lit, CanInstall(p),
           Install(p, s, lit), UNCHANGED outside
    PROVE  ProfileTyped' /\ p \in Packages /\ p \notin deployed
  <1>1. p \in Packages /\ ModsOf[p] # {} /\ ModsOf[p] \cap Present = {}
    BY ChainsAssumption DEF CanInstall
  <1>2. p \notin deployed /\ \A q \in deployed : ModsOf[p] \cap ModsOf[q] = {}
    BY <1>1 DEF Present
  <1>3. Consistent(deployed)'
    BY <1>2 DEF ChainsInv, ProfileTyped, Install, Consistent
  <1>4. /\ settings' \in [Packages -> {"mine", "default"}] /\ on' \subseteq deployed'
        /\ deployed' \subseteq Packages
    BY <1>1 DEF ChainsInv, ProfileTyped, Install
  <1>5. copies' \subseteq Packages \X {"mine", "default"} /\ outside' \in Nat
    BY DEF ChainsInv, ProfileTyped, Install
  <1> QED BY <1>1, <1>2, <1>3, <1>4, <1>5 DEF ProfileTyped

LEMMA TurnTyped ==
    ASSUME ChainsInv, NEW p, NEW to \in BOOLEAN, Turn(p, to), to => p \in deployed,
           UNCHANGED outside
    PROVE  ProfileTyped'
  BY DEF ChainsInv, ProfileTyped, Turn, Consistent

\* The old version that goes next: the one that was turned on for it, if any.
LEMMA GoingIsLeft ==
    ASSUME ChainsInv, chain.phase = "olds", NEW q \in Going
    PROVE  q \in Left /\ chain.turned \ ToSet(chain.gone) \subseteq {q}
  BY DEF ChainsInv, OldsInPlace, Going

\* An old version that cannot be turned on or removed ends the reinstall, or
\* sends the replacement back.
LEMMA FailOldStep ==
    ASSUME ChainsInv, chain.phase = "olds", NEW q \in Going, FailOld(q), UNCHANGED <<set, outside>>
    PROVE  ChainsInv'
  <1>a. chain.kind \in {"replace", "reinstall", "restore"}
    BY DEF ChainsInv, OldsInPlace
  <1>b. chain.kind = "restore" => chain.todo # <<>>
    BY DEF ChainsInv, RestoreCourse
  <1>c. q \in Left /\ q \in deployed /\ chain.turned \ ToSet(chain.gone) \subseteq {q}
    BY GoingIsLeft DEF ChainsInv, OldsInPlace
  <1>1. CASE chain.kind = "reinstall"
    <2>0. UNCHANGED <<deployed, on, settings, copies>>
      BY <1>1 DEF FailOld, profileVars
    <2>1. Ends /\ chain'.failed # {} /\ chain'.phase = "answered"
      BY <1>1, FailEnds DEF ChainsInv, FailOld, Ends
    <2>2. Shaped' /\ ProfileTyped' /\ SetFollows'
      BY <2>0, <2>1, <1>1, ProfileKept DEF ChainsInv, Shaped, SetFollows, Ends
    <2>3. OldsInPlace'
      BY <2>0, <2>1, <1>1 DEF ChainsInv, OldsInPlace, Ends
    <2>4. ReplaceCourse' /\ ReinstallCourse' /\ RestoreCourse'
      BY <2>0, <2>1, <1>1 DEF ChainsInv, ReplaceCourse, ReinstallCourse, RestoreCourse,
           ReinstallIsNoChange, Ends
    <2> QED BY <2>2, <2>3, <2>4 DEF ChainsInv
  <1>2. CASE chain.kind # "reinstall"
    <2>0. /\ UNCHANGED <<deployed, settings, copies>>
          /\ on' = IF q \in chain.was THEN on ELSE on \ {q}
      BY <1>2 DEF FailOld, profileVars, Turn
    <2>1. /\ Same(chain, chain') /\ chain'.phase = "back" /\ chain'.failed = chain.failed
          /\ chain'.todo = chain.todo
      BY <1>2, GoFields DEF FailOld, ChainsInv
    <2>2. Shaped' /\ ProfileTyped' /\ SetFollows'
      BY <2>0, <2>1 DEF ChainsInv, Shaped, SetFollows, ProfileTyped, Consistent
    <2>3. OldsInPlace'
      BY <2>0, <2>1, <1>a, <1>2 DEF ChainsInv, OldsInPlace
    <2>4. ReplaceCourse'
      <3> SUFFICES ASSUME chain.kind = "replace"
                   PROVE  \A r \in chain.olds :
                            \/ r \in ToSet(chain.gone)
                            \/ AsItWas(r, chain.was)'
        BY <2>0, <2>1 DEF ReplaceCourse, ReplaceKeepsMods
      <3> TAKE r \in chain.olds
      <3>1. r \notin ToSet(chain.gone) => AsItWas(r, chain.was \union chain.turned)
        BY DEF ChainsInv, ReplaceCourse
      <3>2. r \notin ToSet(chain.gone) /\ r # q => r \notin chain.turned
        BY <1>c
      <3> QED BY <3>1, <3>2, <2>0, <2>1
    <2>5. ReinstallCourse' /\ RestoreCourse'
      BY <2>0, <2>1, <1>2 DEF ChainsInv, ReinstallCourse, RestoreCourse
    <2> QED BY <2>2, <2>3, <2>4, <2>5 DEF ChainsInv
  <1> QED BY <1>1, <1>2

LEMMA TurnOldOnStep == ASSUME ChainsInv, TurnOldOn PROVE ChainsInv'
  <1>1. /\ chain.phase = "olds" /\ UNCHANGED <<set, outside>>
        /\ \E q \in Going \ (chain.was \union chain.turned) :
             \/ /\ Turn(q, TRUE)
                /\ chain' = [chain EXCEPT !.turned = @ \union {q}]
             \/ FailOld(q)
    BY DEF TurnOldOn, counts
  <1>2. PICK q \in Going \ (chain.was \union chain.turned) :
             \/ /\ Turn(q, TRUE)
                /\ chain' = [chain EXCEPT !.turned = @ \union {q}]
             \/ FailOld(q)
    BY <1>1
  <1>3. CASE FailOld(q)
    BY <1>1, <1>3, FailOldStep
  <1>4. CASE Turn(q, TRUE) /\ chain' = [chain EXCEPT !.turned = @ \union {q}]
    <2>a. chain.kind \in {"replace", "reinstall", "restore"}
      BY <1>1 DEF ChainsInv, OldsInPlace
    <2>b. q \in Left /\ q \in deployed /\ chain.turned \subseteq ToSet(chain.gone)
      BY <1>1, GoingIsLeft DEF ChainsInv, OldsInPlace
    <2>0. UNCHANGED <<deployed, settings, copies>> /\ on' = on \union {q}
      BY <1>4 DEF Turn
    <2>1. /\ DOMAIN chain' = DOMAIN NoChain /\ chain'.kind = chain.kind
          /\ chain'.target = chain.target /\ chain'.olds = chain.olds /\ chain'.was = chain.was
          /\ chain'.mine = chain.mine /\ chain'.turned = chain.turned \union {q}
          /\ chain'.gone = chain.gone /\ chain'.missing = chain.missing
          /\ chain'.goal = chain.goal /\ chain'.todo = chain.todo /\ chain'.phase = "olds"
      BY <1>1, <1>4 DEF ChainsInv, Shaped, NoChain
    <2>2. Shaped' /\ ProfileTyped' /\ SetFollows'
      BY <1>1, <2>0, <2>1, <2>b DEF ChainsInv, Shaped, SetFollows, ProfileTyped, Consistent
    <2>3. OldsInPlace'
      BY <1>1, <2>0, <2>1, <2>a, <2>b, <1>2 DEF ChainsInv, OldsInPlace
    <2>4. ReplaceCourse'
      BY <1>1, <2>0, <2>1, <2>b DEF ChainsInv, ReplaceCourse, ReplaceKeepsMods
    <2>5. ReinstallCourse'
      BY <1>1, <2>0, <2>1, <2>b DEF ChainsInv, ReinstallCourse, ReinstallIsNoChange
    <2>6. RestoreCourse'
      BY <1>1, <2>0, <2>1 DEF ChainsInv, RestoreCourse
    <2> QED BY <2>2, <2>3, <2>4, <2>5, <2>6 DEF ChainsInv
  <1> QED BY <1>2, <1>3, <1>4

LEMMA RemoveOldStep == ASSUME ChainsInv, RemoveOld PROVE ChainsInv'
  <1>1. /\ chain.phase = "olds" /\ UNCHANGED <<set, outside>>
        /\ \E q \in Going :
             \/ /\ q \in on /\ RemovePackage(q)
                /\ chain' = [chain EXCEPT !.gone = Append(@, q)]
             \/ FailOld(q)
    BY DEF RemoveOld, counts
  <1>2. PICK q \in Going :
             \/ /\ q \in on /\ RemovePackage(q)
                /\ chain' = [chain EXCEPT !.gone = Append(@, q)]
             \/ FailOld(q)
    BY <1>1
  <1>3. CASE FailOld(q)
    BY <1>1, <1>3, FailOldStep
  <1>4. CASE /\ q \in on /\ RemovePackage(q)
             /\ chain' = [chain EXCEPT !.gone = Append(@, q)]
    <2>a. chain.kind \in {"replace", "reinstall", "restore"}
      BY <1>1 DEF ChainsInv, OldsInPlace
    <2>b. /\ q \in Left /\ q \in deployed /\ q \in Packages
          /\ chain.turned \ ToSet(chain.gone) \subseteq {q}
      BY <1>1, GoingIsLeft DEF ChainsInv, OldsInPlace, ProfileTyped
    <2>c. /\ chain.gone \in Seq(Packages) /\ Append(chain.gone, q) \in Seq(Packages)
          /\ ToSet(Append(chain.gone, q)) = ToSet(chain.gone) \union {q}
      BY <1>1, <2>b, AppendToSet DEF ChainsInv, OldsInPlace
    <2>0. /\ deployed' = deployed \ {q} /\ on' = on \ {q}
          /\ copies' = copies \union {<<q, settings[q]>>}
          /\ settings' = [settings EXCEPT ![q] = "default"]
          /\ settings \in [Packages -> {"mine", "default"}]
      BY <1>4 DEF RemovePackage, ChainsInv, ProfileTyped
    <2>1. /\ DOMAIN chain' = DOMAIN NoChain /\ chain'.kind = chain.kind
          /\ chain'.target = chain.target /\ chain'.olds = chain.olds /\ chain'.was = chain.was
          /\ chain'.mine = chain.mine /\ chain'.turned = chain.turned
          /\ chain'.gone = Append(chain.gone, q) /\ chain'.missing = chain.missing
          /\ chain'.goal = chain.goal /\ chain'.todo = chain.todo /\ chain'.phase = "olds"
      BY <1>1, <1>4 DEF ChainsInv, Shaped, NoChain
    <2>d. ToSet(chain'.gone) = ToSet(chain.gone) \union {q} /\ chain'.gone \in Seq(Packages)
      BY <2>1, <2>c
    <2>e. \A r \in Packages \ {q} : (r \in Mine)' <=> r \in Mine
      BY <2>0
    <2>2. Shaped' /\ ProfileTyped' /\ SetFollows'
      BY <1>1, <2>0, <2>1, <2>b DEF ChainsInv, Shaped, SetFollows, ProfileTyped, Consistent
    <2>3. OldsInPlace'
      BY <1>1, <2>0, <2>1, <2>a, <2>b, <2>d DEF ChainsInv, OldsInPlace
    <2>4. ReplaceCourse'
      BY <1>1, <2>0, <2>1, <2>b, <2>d, <2>e DEF ChainsInv, ReplaceCourse,
           ReplaceKeepsMods, OldsInPlace
    <2>5. ReinstallCourse'
      BY <1>1, <2>0, <2>1, <2>b, <2>d DEF ChainsInv, ReinstallCourse, ReinstallIsNoChange,
           ProfileTyped
    <2>6. RestoreCourse'
      BY <1>1, <2>0, <2>1 DEF ChainsInv, RestoreCourse
    <2> QED BY <2>2, <2>3, <2>4, <2>5, <2>6 DEF ChainsInv
  <1> QED BY <1>2, <1>3, <1>4

LEMMA InstallNewStep == ASSUME ChainsInv, InstallNew PROVE ChainsInv'
  <1> DEFINE p == chain.target
  <1>1. /\ chain.phase = "olds" /\ chain.olds \subseteq ToSet(chain.gone)
        /\ UNCHANGED <<set, outside>>
        /\ \/ CanInstall(p) /\ Install(p, "default", TRUE) /\ Go("settle")
           \/ /\ IF chain.kind = "reinstall" THEN Fail ELSE Go("back")
              /\ UNCHANGED <<deployed, on, settings, copies>>
    BY DEF InstallNew, counts, profileVars
  <1>a. chain.kind \in {"replace", "reinstall", "restore"} /\ p \in Packages
    BY <1>1 DEF ChainsInv, OldsInPlace
  <1>2. CASE CanInstall(p) /\ Install(p, "default", TRUE) /\ Go("settle")
    <2>1. ProfileTyped' /\ p \in Packages /\ p \notin deployed
      BY <1>1, <1>2, InstallTyped DEF ChainsInv
    <2>2. /\ deployed' = deployed \union {p} /\ on' = on \union {p}
          /\ settings' = [settings EXCEPT ![p] = "default"] /\ copies' = copies
          /\ settings \in [Packages -> {"mine", "default"}] /\ deployed \subseteq Packages
      BY <1>2 DEF Install, ChainsInv, ProfileTyped
    <2>3. /\ Same(chain, chain') /\ chain'.phase = "settle" /\ chain'.failed = chain.failed
          /\ chain'.todo = chain.todo
      BY <1>2, GoFields DEF ChainsInv
    <2>4. Mine' = Mine
      BY <2>1, <2>2
    <2>5. Shaped' /\ SetFollows'
      BY <1>1, <2>3 DEF ChainsInv, Shaped, SetFollows
    <2>6. OldsInPlace'
      BY <1>a, <2>2, <2>3, <1>1 DEF ChainsInv, OldsInPlace
    <2>7. ReplaceCourse'
      BY <2>2, <2>3 DEF ChainsInv, ReplaceCourse, ReplaceKeepsMods
    <2>8. ReinstallCourse'
      BY <1>1, <2>1, <2>2, <2>3, <2>4 DEF ChainsInv, OldsInPlace, ReinstallCourse,
           ReinstallIsNoChange
    <2>9. RestoreCourse'
      BY <1>1, <2>3 DEF ChainsInv, RestoreCourse
    <2> QED BY <2>1, <2>5, <2>6, <2>7, <2>8, <2>9 DEF ChainsInv
  <1>3. CASE chain.kind = "reinstall" /\ Fail /\ UNCHANGED <<deployed, on, settings, copies>>
    <2>1. Ends /\ chain'.failed # {} /\ chain'.phase = "answered"
      BY <1>3, FailEnds DEF ChainsInv, Ends
    <2>2. Shaped' /\ ProfileTyped' /\ SetFollows'
      BY <1>1, <1>3, <2>1, ProfileKept DEF ChainsInv, Shaped, SetFollows, Ends
    <2>3. OldsInPlace'
      BY <1>1, <1>3, <2>1 DEF ChainsInv, OldsInPlace, Ends
    <2>4. ReplaceCourse' /\ ReinstallCourse' /\ RestoreCourse'
      BY <1>1, <1>3, <2>1 DEF ChainsInv, ReplaceCourse, ReinstallCourse, RestoreCourse,
           ReinstallIsNoChange, Ends
    <2> QED BY <2>2, <2>3, <2>4 DEF ChainsInv
  <1>4. CASE /\ chain.kind # "reinstall" /\ Go("back")
             /\ UNCHANGED <<deployed, on, settings, copies>>
    <2>1. /\ Same(chain, chain') /\ chain'.phase = "back" /\ chain'.failed = chain.failed
          /\ chain'.todo = chain.todo
      BY <1>4, GoFields DEF ChainsInv
    <2>2. Shaped' /\ ProfileTyped' /\ SetFollows'
      BY <1>1, <1>4, <2>1, ProfileKept DEF ChainsInv, Shaped, SetFollows
    <2>3. OldsInPlace'
      BY <1>1, <1>a, <1>4, <2>1 DEF ChainsInv, OldsInPlace
    <2>4. ReplaceCourse' /\ ReinstallCourse' /\ RestoreCourse'
      BY <1>1, <1>4, <2>1 DEF ChainsInv, ReplaceCourse, ReinstallCourse, RestoreCourse,
           ReplaceKeepsMods
    <2> QED BY <2>2, <2>3, <2>4 DEF ChainsInv
  <1> QED BY <1>1, <1>2, <1>3, <1>4

LEMMA SettleStep == ASSUME ChainsInv, Settle PROVE ChainsInv'
  <1> DEFINE p == chain.target
  <1>1. /\ chain.phase = "settle" /\ UNCHANGED <<set, outside>>
        /\ \/ /\ Go("off")
              /\ IF Cardinality(chain.olds) = 1 /\ chain.mine # {}
                 THEN Write(p, "mine") ELSE UNCHANGED <<deployed, on, settings, copies>>
           \/ Fail /\ UNCHANGED <<deployed, on, settings, copies>>
    BY DEF Settle, counts, profileVars
  <1>a. /\ chain.kind \in {"replace", "reinstall", "restore"} /\ p \in Packages /\ p \in deployed
        /\ chain.kind = "restore" => chain.todo # <<>>
    BY <1>1 DEF ChainsInv, OldsInPlace, RestoreCourse
  <1>2. CASE /\ Go("off")
             /\ IF Cardinality(chain.olds) = 1 /\ chain.mine # {}
                THEN Write(p, "mine") ELSE UNCHANGED <<deployed, on, settings, copies>>
    <2>1. /\ Same(chain, chain') /\ chain'.phase = "off" /\ chain'.failed = chain.failed
          /\ chain'.todo = chain.todo
      BY <1>2, GoFields DEF ChainsInv
    <2>2. /\ UNCHANGED <<deployed, on, copies>> /\ settings \in [Packages -> {"mine", "default"}]
          /\ settings' = IF Cardinality(chain.olds) = 1 /\ chain.mine # {}
                         THEN [settings EXCEPT ![p] = "mine"] ELSE settings
      BY <1>2 DEF Write, ChainsInv, ProfileTyped
    <2>3. Shaped' /\ ProfileTyped' /\ SetFollows'
      BY <1>1, <1>a, <2>1, <2>2 DEF ChainsInv, Shaped, SetFollows, ProfileTyped, Consistent
    <2>4. OldsInPlace' /\ ReplaceCourse' /\ RestoreCourse'
      BY <1>1, <1>a, <2>1, <2>2 DEF ChainsInv, OldsInPlace, ReplaceCourse, RestoreCourse,
           ReplaceKeepsMods
    <2>5. ReinstallCourse'
      <3> SUFFICES ASSUME chain.kind = "reinstall"
                   PROVE  Mine' = chain.goal.mine
        BY <1>1, <2>1, <2>2 DEF ChainsInv, ReinstallCourse, ReinstallIsNoChange
      <3>1. Cardinality(chain.olds) = 1
        BY FS_Singleton DEF ChainsInv, ReinstallCourse
      <3>2. Mine = chain.goal.mine \ {p} /\ chain.mine = {p} \cap chain.goal.mine
        BY <1>1 DEF ChainsInv, ReinstallCourse
      <3>3. CASE chain.mine # {}
        <4>1. Mine' = Mine \union {p}
          BY <3>1, <3>3, <2>2, <1>a DEF ChainsInv, ProfileTyped
        <4> QED BY <4>1, <3>2, <3>3
      <3>4. CASE chain.mine = {}
        BY <3>4, <3>2, <2>2
      <3> QED BY <3>3, <3>4
    <2> QED BY <2>3, <2>4, <2>5 DEF ChainsInv
  <1>3. CASE Fail /\ UNCHANGED <<deployed, on, settings, copies>>
    <2>1. Ends /\ (chain.kind # "restore" => chain'.failed # {})
      BY <1>3, FailEnds DEF ChainsInv
    <2>2. Shaped' /\ ProfileTyped' /\ SetFollows'
      BY <2>1, <1>1, <1>3, <1>a, ProfileKept DEF ChainsInv, Shaped, SetFollows, Ends
    <2>3. OldsInPlace'
      BY <2>1, <1>1, <1>3, <1>a DEF ChainsInv, OldsInPlace, Ends
    <2>4. ReplaceCourse' /\ ReinstallCourse'
      BY <2>1, <1>1, <1>3, <1>a DEF ChainsInv, ReplaceCourse, ReplaceKeepsMods, ReinstallCourse,
           ReinstallIsNoChange, Ends
    <2>5. RestoreCourse'
      BY <2>1, <1>1, <1>a, EndsRestore
    <2> QED BY <2>2, <2>3, <2>4, <2>5 DEF ChainsInv
  <1> QED BY <1>1, <1>2, <1>3

LEMMA TurnOffStep == ASSUME ChainsInv, TurnOff PROVE ChainsInv'
  <1> DEFINE p == chain.target
  <1>1. /\ chain.phase = "off" /\ UNCHANGED <<set, outside>>
        /\ \/ /\ Answer
              /\ IF chain.was = {} THEN Turn(p, FALSE)
                 ELSE UNCHANGED <<deployed, on, settings, copies>>
           \/ Fail /\ UNCHANGED <<deployed, on, settings, copies>>
    BY DEF TurnOff, counts, profileVars
  <1>a. /\ chain.kind \in {"replace", "reinstall", "restore"} /\ p \in Packages /\ p \in deployed
        /\ chain.kind = "restore" => chain.todo # <<>>
    BY <1>1 DEF ChainsInv, OldsInPlace, RestoreCourse
  <1>2. /\ Ends
        /\ UNCHANGED <<deployed, settings, copies>>
        /\ \/ on' = IF chain.was = {} THEN on \ {p} ELSE on
           \/ chain.kind # "restore" /\ chain'.failed # {} /\ on' = on
           \/ chain.kind = "restore" /\ on' = on
    BY <1>1, FailEnds, AnswerEnds DEF ChainsInv, Turn
  <1>3. Shaped' /\ ProfileTyped' /\ SetFollows'
    BY <1>1, <1>2, <1>a DEF ChainsInv, Shaped, SetFollows, Ends, ProfileTyped, Consistent
  <1>4. OldsInPlace'
    BY <1>1, <1>2, <1>a DEF ChainsInv, OldsInPlace, Ends
  <1>5. ReplaceCourse'
    BY <1>1, <1>2, <1>a DEF ChainsInv, ReplaceCourse, ReplaceKeepsMods, Ends
  <1>6. ReinstallCourse'
    <2> SUFFICES ASSUME chain.kind = "reinstall", chain'.failed = {}, outside = 0
                 PROVE  /\ on' = chain.goal.on /\ deployed = chain.goal.deployed
                        /\ Mine = chain.goal.mine
      BY <1>1, <1>2 DEF ChainsInv, ReinstallCourse, ReinstallIsNoChange, Ends
    <2>1. /\ on = chain.goal.on \union {p} /\ deployed = chain.goal.deployed
          /\ Mine = chain.goal.mine /\ chain.was = {p} \cap chain.goal.on
      BY <1>1 DEF ChainsInv, ReinstallCourse
    <2>2. on' = IF chain.was = {} THEN on \ {p} ELSE on
      BY <1>2
    <2> QED BY <2>1, <2>2
  <1>7. RestoreCourse'
    BY <1>1, <1>2, <1>a, EndsRestore
  <1> QED BY <1>3, <1>4, <1>5, <1>6, <1>7 DEF ChainsInv

LEMMA PutBackStep == ASSUME ChainsInv, PutBack PROVE ChainsInv'
  <1>1. chain.phase = "back" /\ UNCHANGED <<set, outside>>
    BY DEF PutBack, counts
  <1>a. /\ chain.kind \in {"replace", "restore"} /\ chain.gone \in Seq(Packages)
        /\ chain.kind = "restore" => chain.todo # <<>>
    BY <1>1 DEF ChainsInv, OldsInPlace, RestoreCourse, ReinstallCourse
  <1>2. CASE chain.gone = <<>>
    <2>1. Fail /\ UNCHANGED <<deployed, on, settings, copies>>
      BY <1>2 DEF PutBack, profileVars
    <2>2. Ends
      BY <2>1, FailEnds DEF ChainsInv
    <2>3. Shaped' /\ ProfileTyped' /\ SetFollows'
      BY <1>1, <1>a, <2>1, <2>2, ProfileKept DEF ChainsInv, Shaped, SetFollows, Ends
    <2>4. OldsInPlace'
      BY <1>1, <1>a, <2>1, <2>2 DEF ChainsInv, OldsInPlace, Ends
    <2>5. ReplaceCourse'
      <3>1. ToSet(chain.gone) = {}
        BY <1>2 DEF ToSet
      <3> QED BY <3>1, <1>1, <1>a, <2>1, <2>2 DEF ChainsInv, ReplaceCourse, ReplaceKeepsMods, Ends
    <2>6. ReinstallCourse' /\ RestoreCourse'
      BY <1>1, <1>a, <2>2, EndsRestore DEF ReinstallCourse, Ends
    <2> QED BY <2>3, <2>4, <2>5, <2>6 DEF ChainsInv
  <1>3. CASE chain.gone # <<>>
    <2> DEFINE q == Head(chain.gone)
               s == IF q \in chain.mine THEN "mine" ELSE "default"
    <2>1. \/ /\ CanInstall(q) /\ Install(q, s, q \in chain.was)
             /\ chain' = [chain EXCEPT !.gone = Tail(@)]
          \/ /\ FailMissing(q)
             /\ \/ UNCHANGED <<deployed, on, settings, copies>>
                \/ CanInstall(q) /\ (Install(q, "default", TRUE) \/ Install(q, s, TRUE))
      BY <1>3 DEF PutBack, profileVars
    <2>2. /\ q \in Packages /\ Tail(chain.gone) \in Seq(Packages)
          /\ ToSet(chain.gone) = ToSet(Tail(chain.gone)) \union {q}
      BY <1>3, <1>a, TailToSet
    <2>3. s \in {"mine", "default"}
      OBVIOUS
    <2>4. /\ DOMAIN chain' = DOMAIN NoChain /\ chain'.kind = chain.kind
          /\ chain'.target = chain.target /\ chain'.olds = chain.olds /\ chain'.was = chain.was
          /\ chain'.mine = chain.mine /\ chain'.gone = Tail(chain.gone)
          /\ chain'.goal = chain.goal /\ chain'.todo = chain.todo /\ chain'.phase = "back"
          /\ chain'.missing = chain.missing \/ chain'.missing = chain.missing \union {q}
      BY <2>1, <1>1 DEF FailMissing, ChainsInv, Shaped, NoChain
    <2>5. ProfileTyped'
      <3>1. CASE UNCHANGED <<deployed, on, settings, copies>>
        BY <3>1, <1>1, ProfileKept
      <3>2. CASE CanInstall(q) /\ Install(q, s, q \in chain.was)
        BY <3>2, <1>1, <2>3, InstallTyped
      <3>3. CASE CanInstall(q) /\ Install(q, "default", TRUE)
        BY <3>3, <1>1, InstallTyped
      <3>4. CASE CanInstall(q) /\ Install(q, s, TRUE)
        BY <3>4, <1>1, <2>3, InstallTyped
      <3> QED BY <2>1, <3>1, <3>2, <3>3, <3>4
    <2>6. Shaped' /\ SetFollows'
      BY <1>1, <2>4 DEF ChainsInv, Shaped, SetFollows
    <2>7. OldsInPlace'
      BY <1>1, <1>a, <2>2, <2>4 DEF ChainsInv, OldsInPlace
    <2>8. ReinstallCourse' /\ RestoreCourse'
      BY <1>1, <1>a, <2>4 DEF ChainsInv, ReinstallCourse, RestoreCourse
    <2>9. ReplaceCourse'
      <3> SUFFICES ASSUME chain.kind = "replace", NEW r \in chain.olds
                   PROVE  \/ r \in ToSet(Tail(chain.gone))
                          \/ r \in chain'.missing
                          \/ AsItWas(r, chain.was)'
        BY <2>4 DEF ReplaceCourse, ReplaceKeepsMods
      <3>1. r \in ToSet(chain.gone) \/ r \in chain.missing \/ AsItWas(r, chain.was)
        BY <1>1 DEF ChainsInv, ReplaceCourse
      <3>a. CanInstall(q) => q \notin deployed
        BY ChainsAssumption, <2>2 DEF CanInstall, Present
      <3>2. \/ /\ q \notin deployed /\ deployed' = deployed \union {q}
               /\ on' \in {on, on \union {q}}
               /\ \E t \in {"default", s} : settings' = [settings EXCEPT ![q] = t]
            \/ UNCHANGED <<deployed, on, settings, copies>>
        <4>1. CASE CanInstall(q) /\ Install(q, s, q \in chain.was)
          BY <4>1, <3>a DEF Install
        <4>2. CASE CanInstall(q) /\ (Install(q, "default", TRUE) \/ Install(q, s, TRUE))
          BY <4>2, <3>a DEF Install
        <4> QED BY <2>1, <4>1, <4>2
      <3>3. r # q => (AsItWas(r, chain.was) => AsItWas(r, chain.was)')
        <4>1. CASE UNCHANGED <<deployed, on, settings, copies>>
          BY <4>1, <1>1, <2>4
        <4>2. CASE /\ deployed' = deployed \union {q} /\ on' \in {on, on \union {q}}
                   /\ \E t \in {"default", s} : settings' = [settings EXCEPT ![q] = t]
          BY <4>2, <1>1, <2>4 DEF ChainsInv, ProfileTyped
        <4> QED BY <3>2, <4>1, <4>2
      <3>4. CASE r # q
        BY <3>1, <3>3, <3>4, <2>2, <2>4
      <3>5. CASE r = q /\ FailMissing(q)
        BY <3>5 DEF FailMissing, ChainsInv, Shaped, NoChain
      <3>6. CASE /\ r = q /\ CanInstall(q) /\ Install(q, s, q \in chain.was)
        <4>1. q \notin deployed /\ q \notin on
          BY <3>6, <1>1, <2>3, InstallTyped DEF ChainsInv, ProfileTyped
        <4>2. q \in deployed' /\ (q \in on' <=> q \in chain.was) /\ settings'[q] = s
          BY <4>1, <3>6, <2>2 DEF Install, ChainsInv, ProfileTyped
        <4> QED BY <4>2, <3>6, <2>4
      <3> QED BY <2>1, <3>4, <3>5, <3>6
    <2> QED BY <2>5, <2>6, <2>7, <2>8, <2>9 DEF ChainsInv
  <1> QED BY <1>2, <1>3

\* The undo of a removal takes the place of nothing.
LEMMA UndoRemovalStep == ASSUME ChainsInv, UndoRemoval PROVE ChainsInv'
  <1> DEFINE p == chain.target
  <1>1. /\ chain.phase = "again" /\ UNCHANGED <<set, outside>>
        /\ Answer \/ Fail
        /\ \/ CanInstall(p) /\ \E s \in {"mine", "default"} : Install(p, s, TRUE)
           \/ UNCHANGED <<deployed, on, settings, copies>>
    BY DEF UndoRemoval, counts, profileVars
  <1>2. chain.kind = "undo" /\ Ends
    BY <1>1, AnswerEnds, FailEnds DEF ChainsInv, OldsInPlace
  <1>3. ProfileTyped'
    BY <1>1, InstallTyped, ProfileKept
  <1>4. Shaped' /\ SetFollows'
    BY <1>1, <1>2 DEF ChainsInv, Shaped, SetFollows, Ends
  <1>5. OldsInPlace' /\ ReplaceCourse' /\ ReinstallCourse' /\ RestoreCourse'
    BY <1>1, <1>2 DEF ChainsInv, OldsInPlace, ReplaceCourse, ReinstallCourse, RestoreCourse, Ends
  <1> QED BY <1>3, <1>4, <1>5 DEF ChainsInv

\* Steps that leave the profile alone, keep the fields of the chain, and are no
\* part of a replacement.
LEMMA BesidesStep ==
    ASSUME ChainsInv, Same(chain, chain'), UNCHANGED <<deployed, on, settings, copies, outside>>,
           ~Swapping, ~Swapping', chain.kind \notin {"replace", "reinstall"},
           chain'.phase \notin {"point", "save", "begin", "again"},
           DOMAIN set' = DOMAIN NoSet, SetFollows', RestoreCourse'
    PROVE  ChainsInv'
  <1>1. Shaped' /\ ProfileTyped'
    BY ProfileKept DEF ChainsInv, Shaped
  <1>2. OldsInPlace' /\ ReplaceCourse' /\ ReinstallCourse'
    BY DEF ChainsInv, OldsInPlace, ReplaceCourse, ReinstallCourse
  <1> QED BY <1>1, <1>2 DEF ChainsInv

\* The change set is begun and finished.
LEMMA SetSteps == ASSUME ChainsInv, BeginSet \/ FinishSet PROVE ChainsInv'
  <1>1. CASE BeginSet
    <2>1. /\ Same(chain, chain') /\ chain.phase = "begin" /\ chain'.todo = chain.todo
          /\ chain'.phase \in {"working", "answered"}
          /\ UNCHANGED <<deployed, on, settings, copies, outside>>
      BY <1>1, GoFields DEF BeginSet, ChainsInv, Shaped, NoChain, profileVars, counts
    <2>2. /\ DOMAIN set' = DOMAIN NoSet
          /\ set'.carried => set'.state = "Committing" /\ chain'.phase = "working"
      <3>1. ~set.carried
        BY <2>1 DEF ChainsInv, SetFollows
      <3> QED BY <3>1, <1>1, GoFields DEF BeginSet, ChainsInv, Shaped, NoSet
    <2>3. chain.kind \in {"restore", "adoption"}
      BY <2>1 DEF ChainsInv, OldsInPlace
    <2>4. SetFollows' /\ RestoreCourse'
      BY <2>1, <2>2, <2>3 DEF ChainsInv, SetFollows, RestoreCourse
    <2> QED BY <2>1, <2>2, <2>3, <2>4, BesidesStep
  <1>2. CASE FinishSet
    <2>1. /\ Same(chain, chain') /\ chain.phase = "finish" /\ chain'.todo = chain.todo
          /\ chain'.phase = "answered"
          /\ UNCHANGED <<deployed, on, settings, copies, outside>>
      BY <1>2, GoFields DEF FinishSet, ChainsInv, profileVars, counts
    <2>2. DOMAIN set' = DOMAIN NoSet /\ ~set'.carried
      BY <1>2 DEF FinishSet, ChainsInv, Shaped, NoSet
    <2>3. chain.kind \notin {"replace", "reinstall"}
      BY <2>1 DEF ChainsInv, ReplaceCourse, ReinstallCourse
    <2>4. SetFollows' /\ RestoreCourse'
      BY <2>1, <2>2 DEF ChainsInv, SetFollows, RestoreCourse
    <2> QED BY <2>1, <2>2, <2>3, <2>4, BesidesStep
  <1> QED BY <1>1, <1>2

-----------------------------------------------------------------------------
\* The tasks of a restore.
LEMMA RestoreRemovesStep == ASSUME ChainsInv, RestoreRemoves PROVE ChainsInv'
  <1>1. /\ chain.phase = "working" /\ chain.kind = "restore" /\ chain.todo # <<>>
        /\ Head(chain.todo).do = "remove" /\ UNCHANGED <<set, outside>>
    BY DEF RestoreRemoves, Doing, counts
  <1>2. PICK q \in Those :
         \/ /\ q \in deployed /\ Turn(q, TRUE)
            /\ chain' = [chain EXCEPT !.turned = @ \union {q}]
         \/ q \in on /\ RemovePackage(q) /\ Answer
         \/ Fail /\ UNCHANGED <<deployed, on, settings, copies>>
    BY DEF RestoreRemoves, profileVars
  <1>3. /\ Head(chain.todo) = chain.todo[1]
        /\ \A i \in DOMAIN chain.todo : chain.todo[i].do # "on"
    BY <1>1, RestOfTodo DEF ChainsInv, RestoreCourse
  <1>4. CASE /\ q \in deployed /\ Turn(q, TRUE)
             /\ chain' = [chain EXCEPT !.turned = @ \union {q}]
    <2>1. /\ DOMAIN chain' = DOMAIN NoChain /\ chain'.kind = chain.kind
          /\ chain'.target = chain.target /\ chain'.olds = chain.olds
          /\ chain'.todo = chain.todo /\ chain'.phase = "working"
      BY <1>1, <1>4 DEF ChainsInv, Shaped, NoChain
    <2>2. ProfileTyped'
      BY <1>1, <1>4, TurnTyped
    <2>3. Shaped' /\ SetFollows'
      BY <1>1, <2>1 DEF ChainsInv, Shaped, SetFollows
    <2>4. OldsInPlace' /\ ReplaceCourse' /\ ReinstallCourse' /\ RestoreCourse'
      BY <1>1, <1>3, <2>1 DEF ChainsInv, OldsInPlace, ReplaceCourse, ReinstallCourse, RestoreCourse
    <2> QED BY <2>2, <2>3, <2>4 DEF ChainsInv
  <1>5. CASE \/ q \in on /\ RemovePackage(q) /\ Answer
             \/ Fail /\ UNCHANGED <<deployed, on, settings, copies>>
    <2>1. Ends
      BY <1>5, AnswerEnds, FailEnds DEF ChainsInv
    <2>2. ProfileTyped'
      <3>1. CASE q \in on /\ RemovePackage(q)
        BY <3>1, <1>1 DEF ChainsInv, ProfileTyped, RemovePackage, Consistent
      <3> QED BY <3>1, <1>5, <1>1, ProfileKept
    <2>3. Shaped' /\ SetFollows'
      BY <1>1, <2>1 DEF ChainsInv, Shaped, SetFollows, Ends
    <2>4. RestoreCourse'
      BY <1>1, <2>1, EndsRestore
    <2>5. OldsInPlace' /\ ReplaceCourse' /\ ReinstallCourse'
      BY <1>1, <2>1 DEF ChainsInv, OldsInPlace, ReplaceCourse, ReinstallCourse, Ends
    <2> QED BY <2>2, <2>3, <2>4, <2>5 DEF ChainsInv
  <1> QED BY <1>2, <1>4, <1>5

\* The end of one task of a restore that is no replacement.
LEMMA TaskEnds ==
    ASSUME ChainsInv, chain.phase = "working", chain.kind = "restore", chain.todo # <<>>,
           Ends, UNCHANGED <<set, outside>>, ProfileTyped'
    PROVE  ChainsInv'
  <1>1. Shaped' /\ SetFollows'
    BY DEF ChainsInv, Shaped, SetFollows, Ends
  <1>2. RestoreCourse'
    BY EndsRestore
  <1>3. OldsInPlace' /\ ReplaceCourse' /\ ReinstallCourse'
    BY DEF ChainsInv, OldsInPlace, ReplaceCourse, ReinstallCourse, Ends
  <1> QED BY <1>1, <1>2, <1>3 DEF ChainsInv

LEMMA RestoreReplacesStep == ASSUME ChainsInv, RestoreReplaces PROVE ChainsInv'
  <1>1. /\ chain.phase = "working" /\ chain.kind = "restore" /\ chain.todo # <<>>
        /\ Head(chain.todo).do = "replace"
        /\ UNCHANGED <<deployed, on, settings, copies, set, outside>>
    BY DEF RestoreReplaces, Doing, counts, profileVars
  <1>2. PICK p \in Those :
         \/ /\ CanReplace(p)
            /\ chain' = [Taking(chain, p, SharingWith(p)) EXCEPT !.phase = "backup"]
         \/ Fail
    BY DEF RestoreReplaces
  <1>3. CASE /\ CanReplace(p)
             /\ chain' = [Taking(chain, p, SharingWith(p)) EXCEPT !.phase = "backup"]
    <2>1. p \in Packages /\ SharingWith(p) \subseteq deployed
      BY <1>3, ChainsAssumption DEF CanReplace, SharingWith
    <2>2. /\ DOMAIN chain' = DOMAIN NoChain /\ chain'.kind = chain.kind
          /\ chain'.target = p /\ chain'.olds = SharingWith(p) /\ chain'.gone = <<>>
          /\ chain'.turned = {} /\ chain'.todo = chain.todo /\ chain'.phase = "backup"
      BY <1>3 DEF ChainsInv, Shaped, NoChain, Taking
    <2>3. Shaped' /\ ProfileTyped' /\ SetFollows'
      BY <1>1, <2>2, ProfileKept DEF ChainsInv, Shaped, SetFollows
    <2>4. OldsInPlace'
      BY <1>1, <2>1, <2>2 DEF ChainsInv, ProfileTyped, OldsInPlace
    <2>5. ReplaceCourse' /\ ReinstallCourse'
      BY <1>1, <2>2 DEF ReplaceCourse, ReinstallCourse
    <2>6. RestoreCourse'
      BY <1>1, <2>2, RestOfTodo DEF ChainsInv, RestoreCourse
    <2> QED BY <2>3, <2>4, <2>5, <2>6 DEF ChainsInv
  <1>4. CASE Fail
    BY <1>1, <1>4, FailEnds, ProfileKept, TaskEnds DEF ChainsInv
  <1> QED BY <1>2, <1>3, <1>4

LEMMA RestoreInstallsStep == ASSUME ChainsInv, RestoreInstalls PROVE ChainsInv'
  <1>1. /\ chain.phase = "working" /\ chain.kind = "restore" /\ chain.todo # <<>>
        /\ UNCHANGED <<set, outside>>
    BY DEF RestoreInstalls, Doing, counts
  <1>2. PICK p \in Those :
         \/ CanInstall(p) /\ Install(p, "default", TRUE) /\ Answer
         \/ Fail /\ UNCHANGED <<deployed, on, settings, copies>>
    BY DEF RestoreInstalls, profileVars
  <1>3. Ends
    BY <1>2, AnswerEnds, FailEnds DEF ChainsInv
  <1>4. ProfileTyped'
    BY <1>1, <1>2, InstallTyped, ProfileKept
  <1> QED BY <1>1, <1>3, <1>4, TaskEnds

LEMMA RestoreReadsRowsStep == ASSUME ChainsInv, RestoreReadsRows PROVE ChainsInv'
  <1> DEFINE lit == Task("enabling", "on", {p \in deployed \ on : Wanted(p, TRUE)})
             dark == Task("enabling", "off", {p \in on : Wanted(p, FALSE)})
             todo == <<lit, dark>> \o Tail(chain.todo)
  <1>1. /\ chain.phase = "working" /\ chain.kind = "restore" /\ chain.todo # <<>>
        /\ UNCHANGED <<deployed, on, settings, copies, set, outside>>
        /\ chain' = [chain EXCEPT !.todo = todo]
    BY DEF RestoreReadsRows, Doing, counts, profileVars
  <1>2. lit.do = "on" /\ lit.packages \subseteq deployed /\ dark.do = "off"
    BY DEF Task
  <1> HIDE DEF lit, dark
  <1>3. /\ Tail(chain.todo) \in Seq(ToSet(Tail(chain.todo)))
        /\ \A i \in DOMAIN Tail(chain.todo) : Tail(chain.todo)[i].do # "on"
    BY <1>1, RestOfTodo DEF ChainsInv
  <1>4. /\ todo \in Seq(ToSet(todo))
        /\ \A i \in DOMAIN todo : todo[i].do = "on" => i = 1 /\ todo[i].packages \subseteq deployed
    <2> DEFINE T == ToSet(Tail(chain.todo)) \union {lit, dark}
               front == <<lit, dark>>
               rest == Tail(chain.todo)
    <2>1. front \in Seq(T) /\ Len(front) = 2 /\ front[1] = lit /\ front[2] = dark
      OBVIOUS
    <2>2. rest \in Seq(T)
      BY <1>3, SeqMonotonic
    <2>3. /\ todo \in Seq(T) /\ Len(todo) = 2 + Len(rest)
          /\ \A i \in 1..(2 + Len(rest)) :
               todo[i] = IF i <= 2 THEN front[i] ELSE rest[i - 2]
      <3> HIDE DEF front, rest, T
      <3>1. todo = front \o rest
        BY DEF front, rest
      <3> HIDE DEF todo
      <3>2. /\ front \o rest \in Seq(T) /\ Len(front \o rest) = Len(front) + Len(rest)
            /\ \A i \in 1..(Len(front) + Len(rest)) : (front \o rest)[i] =
                 IF i <= Len(front) THEN front[i] ELSE rest[i - Len(front)]
        BY <2>1, <2>2, ConcatProperties
      <3> QED BY <3>1, <3>2, <2>1
    <2>4. Len(rest) \in Nat /\ DOMAIN rest = 1..Len(rest) /\ DOMAIN todo = 1..(2 + Len(rest))
      BY <2>2, <2>3, LenProperties
    <2> HIDE DEF todo, front, rest, T
    <2>5. ASSUME NEW i \in DOMAIN todo, todo[i].do = "on"
          PROVE  i = 1 /\ todo[i].packages \subseteq deployed
      <3>1. CASE i = 1
        BY <3>1, <2>1, <2>3, <2>4, <1>2
      <3>2. CASE i = 2
        BY <3>2, <2>1, <2>3, <2>4, <2>5, <1>2
      <3>3. CASE i > 2
        <4>1. i - 2 \in DOMAIN rest /\ todo[i] = rest[i - 2]
          BY <3>3, <2>3, <2>4
        <4> QED BY <4>1, <2>5, <1>3 DEF rest
      <3> QED BY <3>1, <3>2, <3>3, <2>4
    <2>6. todo \in Seq(ToSet(todo))
      <3>1. todo \in [1..Len(todo) -> ToSet(todo)] /\ Len(todo) \in Nat
        BY <2>3, <2>4, LenProperties DEF ToSet
      <3> QED BY <3>1, SeqDef
    <2> QED BY <2>5, <2>6
  <1> HIDE DEF todo
  <1>5. Same(chain, chain') /\ chain'.todo = todo /\ chain'.phase = "working"
    BY <1>1 DEF ChainsInv, Shaped, NoChain
  <1>6. SetFollows' /\ RestoreCourse' /\ DOMAIN set' = DOMAIN NoSet
    BY <1>1, <1>4, <1>5 DEF ChainsInv, SetFollows, RestoreCourse, Shaped
  <1> QED BY <1>1, <1>5, <1>6, BesidesStep

LEMMA RestoreTurnsStep ==
    ASSUME ChainsInv, NEW do \in {"on", "off"}, RestoreTurns(do) PROVE ChainsInv'
  <1>1. /\ chain.phase = "working" /\ chain.kind = "restore" /\ chain.todo # <<>>
        /\ Head(chain.todo).do = do /\ UNCHANGED <<set, outside>>
    BY DEF RestoreTurns, Doing, counts
  <1>2. \/ /\ Answer /\ UNCHANGED <<deployed, settings, copies>>
           /\ on' = IF do = "on" THEN on \union Those ELSE on \ Those
        \/ Fail /\ UNCHANGED <<deployed, on, settings, copies>>
    BY DEF RestoreTurns, profileVars
  <1>3. do = "on" => Those \subseteq deployed
    BY <1>1, RestOfTodo DEF ChainsInv, RestoreCourse, Those
  <1>4. Ends
    BY <1>2, AnswerEnds, FailEnds DEF ChainsInv
  <1>5. ProfileTyped'
    BY <1>1, <1>2, <1>3 DEF ChainsInv, ProfileTyped, Consistent
  <1> QED BY <1>1, <1>4, <1>5, TaskEnds

LEMMA RestoreWritesStep == ASSUME ChainsInv, RestoreWrites PROVE ChainsInv'
  <1>1. /\ chain.phase = "working" /\ chain.kind = "restore" /\ chain.todo # <<>>
        /\ UNCHANGED <<set, outside>>
    BY DEF RestoreWrites, Doing, counts
  <1>2. /\ Answer \/ Fail
        /\ UNCHANGED <<deployed, on, copies>>
        /\ \/ settings' = settings
           \/ settings' = [p \in Packages |->
                 IF \E q \in Those : p \in SharingWith(q) THEN "mine" ELSE settings[p]]
    BY DEF RestoreWrites, profileVars
  <1>3. Ends
    BY <1>2, AnswerEnds, FailEnds DEF ChainsInv
  <1>4. settings' \in [Packages -> {"mine", "default"}]
    BY <1>2 DEF ChainsInv, ProfileTyped
  <1>5. ProfileTyped'
    BY <1>1, <1>2, <1>4 DEF ChainsInv, ProfileTyped, Consistent
  <1> QED BY <1>1, <1>3, <1>5, TaskEnds

LEMMA RestoreMarksStep == ASSUME ChainsInv, RestoreMarks PROVE ChainsInv'
  <1>1. /\ chain.phase = "working" /\ chain.kind = "restore" /\ chain.todo # <<>>
        /\ UNCHANGED <<deployed, on, settings, copies, outside>>
    BY DEF RestoreMarks, Doing, counts, profileVars
  <1>2. /\ Same(chain, chain') /\ chain'.todo = Tail(chain.todo)
        /\ chain'.phase \in {"finish", "working"}
    BY <1>1 DEF RestoreMarks, ChainsInv, Shaped, NoChain
  <1>3. /\ DOMAIN set' = DOMAIN NoSet /\ set'.carried = set.carried
        /\ set'.state = set.state
    BY DEF RestoreMarks, MarkPart, ChainsInv, Shaped, NoSet
  <1>4. SetFollows' /\ RestoreCourse'
    BY <1>1, <1>2, <1>3, RestOfTodo DEF ChainsInv, SetFollows, RestoreCourse
  <1> QED BY <1>1, <1>2, <1>3, <1>4, BesidesStep

\* An adoption.
LEMMA AdoptionSteps ==
    ASSUME ChainsInv, Adopt \/ Hush \/ Adopted \/ NextRound \/ LastRound
    PROVE  ChainsInv'
  <1>1. CASE Adopt
    <2> DEFINE p == Head(chain.todo)
    <2>1. /\ chain.phase = "working" /\ chain.kind = "adoption" /\ UNCHANGED <<set, outside>>
          /\ \/ CanInstall(p) /\ Install(p, "mine", TRUE)
             \/ UNCHANGED <<deployed, on, settings, copies>>
      BY <1>1 DEF Adopt, Adopting, counts, profileVars
    <2>2. Same(chain, chain') /\ chain'.phase \in {"hush", "adopted", "working"}
      BY <1>1, <2>1 DEF Adopt, ChainsInv, Shaped, NoChain
    <2>3. ProfileTyped'
      BY <2>1, InstallTyped, ProfileKept
    <2>4. Shaped' /\ SetFollows'
      BY <2>1, <2>2 DEF ChainsInv, Shaped, SetFollows
    <2>5. OldsInPlace' /\ ReplaceCourse' /\ ReinstallCourse' /\ RestoreCourse'
      BY <2>1, <2>2 DEF ChainsInv, OldsInPlace, ReplaceCourse, ReinstallCourse, RestoreCourse
    <2> QED BY <2>3, <2>4, <2>5 DEF ChainsInv
  <1>2. CASE Hush
    <2>1. /\ chain.phase = "hush" /\ UNCHANGED <<set, outside>>
          /\ \/ Turn(Head(chain.todo), FALSE)
             \/ UNCHANGED <<deployed, on, settings, copies>>
      BY <1>2 DEF Hush, counts, profileVars
    <2>2. Same(chain, chain') /\ chain'.phase = "adopted"
      BY <1>2, <2>1 DEF Hush, Go, ChainsInv, Shaped, NoChain
    <2>3. ProfileTyped'
      BY <2>1, TurnTyped, ProfileKept
    <2>4. Shaped' /\ SetFollows'
      BY <2>1, <2>2 DEF ChainsInv, Shaped, SetFollows
    <2>5. OldsInPlace' /\ ReplaceCourse' /\ ReinstallCourse' /\ RestoreCourse'
      BY <2>1, <2>2 DEF ChainsInv, OldsInPlace, ReplaceCourse, ReinstallCourse, RestoreCourse
    <2> QED BY <2>3, <2>4, <2>5 DEF ChainsInv
  <1>3. CASE Adopted \/ NextRound \/ LastRound
    <2>1. /\ chain.phase = "adopted" \/ (chain.phase = "working" /\ chain.kind = "adoption")
          /\ UNCHANGED <<deployed, on, settings, copies, outside>>
      BY <1>3 DEF Adopted, NextRound, LastRound, Adopting, counts, profileVars
    <2>2. /\ DOMAIN chain' = DOMAIN NoChain /\ chain'.kind = chain.kind
          /\ chain'.target = chain.target /\ chain'.olds = chain.olds
          /\ chain'.phase \in {"working", "finish"}
      BY <1>3, <2>1 DEF Adopted, NextRound, LastRound, Adopting, ChainsInv, Shaped, NoChain
    <2>3. /\ DOMAIN set' = DOMAIN NoSet /\ set'.carried = set.carried /\ set'.state = set.state
      BY <1>3 DEF Adopted, NextRound, LastRound, MarkPart, ChainsInv, Shaped, NoSet
    <2>4. chain.kind \notin {"replace", "reinstall", "restore"}
      BY <2>1 DEF ChainsInv, ReplaceCourse, ReinstallCourse, RestoreCourse
    <2>5. Shaped' /\ ProfileTyped' /\ SetFollows'
      BY <2>1, <2>2, <2>3, ProfileKept DEF ChainsInv, Shaped, SetFollows
    <2>6. OldsInPlace' /\ ReplaceCourse' /\ ReinstallCourse' /\ RestoreCourse'
      BY <2>1, <2>2, <2>4 DEF ChainsInv, OldsInPlace, ReplaceCourse, ReinstallCourse, RestoreCourse
    <2> QED BY <2>5, <2>6 DEF ChainsInv
  <1> QED BY <1>1, <1>2, <1>3

\* Tasks of a kind that turns nothing on.
LEMMA TasksTurnNothingOn ==
    ASSUME NEW part, NEW do \in {"remove", "replace", "install"}, NEW ps \in SUBSET Packages
    PROVE  LET s == Tasks(part, do, ps) IN
             s \in Seq(ToSet(s)) /\ \A t \in ToSet(s) : t.do # "on"
  <1> DEFINE one == [i \in 1..Cardinality(ps) |-> Task(part, do, {InOrder(ps)[i]})]
             end == Task(part, "mark", {})
             T == {one[i] : i \in 1..Cardinality(ps)} \union {end}
             s == one \o <<end>>
  <1>1. Cardinality(ps) \in Nat
    <2>1. Order \in Seq(Packages) /\ ToSet(Order) = Packages
      BY ChainsAssumption
    <2>2. IsFiniteSet(DOMAIN Order) /\ Order \in Surjection(DOMAIN Order, Packages)
      BY <2>1, LenProperties, FS_Interval DEF Surjection, ToSet
    <2>3. IsFiniteSet(Packages)
      BY <2>2, FS_Surjection
    <2> QED BY <2>3, FS_Subset, FS_CardinalityType
  <1>2. \A t \in T : t.do # "on"
    BY DEF Task
  <1>3. one \in [1..Cardinality(ps) -> T]
    OBVIOUS
  <1>4. one \in Seq(T)
    <2> HIDE DEF one, T
    <2> QED BY <1>1, <1>3, SeqDef
  <1>5. <<end>> \in Seq(T)
    <2>1. end \in T
      OBVIOUS
    <2> HIDE DEF end, T
    <2> QED BY <2>1
  <1>6. s \in Seq(T)
    <2> HIDE DEF one, end, T
    <2> QED BY <1>4, <1>5, ConcatProperties
  <1> HIDE DEF one, end, T, s
  <1>7. Len(s) \in Nat /\ s \in [1..Len(s) -> T] /\ DOMAIN s = 1..Len(s)
    BY <1>6, LenProperties
  <1>8. s \in [1..Len(s) -> ToSet(s)] /\ ToSet(s) \subseteq T
    BY <1>7 DEF ToSet
  <1>9. s \in Seq(ToSet(s))
    BY <1>7, <1>8, SeqDef
  <1>10. s = Tasks(part, do, ps)
    BY DEF s, one, end, Tasks
  <1> QED BY <1>2, <1>8, <1>9, <1>10

\* Lists of tasks that turn nothing on, one behind the other.
LEMMA SeqOfNothingOn ==
    ASSUME NEW s, NEW t, s \in Seq(ToSet(s)), t \in Seq(ToSet(t)),
           \A x \in ToSet(s) \union ToSet(t) : x.do # "on"
    PROVE  /\ s \o t \in Seq(ToSet(s \o t))
           /\ \A x \in ToSet(s \o t) : x.do # "on"
  <1> DEFINE T == ToSet(s) \union ToSet(t)
             both == s \o t
  <1>1. s \in Seq(T) /\ t \in Seq(T)
    BY SeqMonotonic
  <1>2. both \in Seq(T)
    <2> HIDE DEF T
    <2> QED BY <1>1, ConcatProperties
  <1>3. Len(both) \in Nat /\ both \in [1..Len(both) -> T] /\ DOMAIN both = 1..Len(both)
    BY <1>2, LenProperties
  <1> HIDE DEF both
  <1>4. both \in [1..Len(both) -> ToSet(both)] /\ ToSet(both) \subseteq T
    BY <1>3 DEF ToSet
  <1>5. both \in Seq(ToSet(both))
    BY <1>3, <1>4, SeqDef
  <1> QED BY <1>4, <1>5 DEF both

\* What a restore plans turns nothing on: what to turn on is read later.
LEMMA WorkTurnsNothingOn ==
    ASSUME NEW goal, deployed \subseteq Packages,
           Changing(goal) \union Absent(goal) \subseteq Packages
    PROVE  /\ Work(goal) \in Seq(ToSet(Work(goal)))
           /\ \A i \in DOMAIN Work(goal) : Work(goal)[i].do # "on"
  <1> DEFINE a == Tasks("removing", "remove", Extra(goal))
             b == Tasks("replacing", "replace", Changing(goal))
             c == Tasks("installing", "install", Absent(goal))
             d == <<Task("enabling", "rows", {}), Task("enabling", "mark", {})>>
             e == <<Task("settings", "write", goal.mine), Task("settings", "mark", {})>>
  <1>1. /\ Extra(goal) \subseteq Packages /\ Changing(goal) \subseteq Packages
        /\ Absent(goal) \subseteq Packages
    BY DEF Extra
  <1>2. /\ a \in Seq(ToSet(a)) /\ \A x \in ToSet(a) : x.do # "on"
        /\ b \in Seq(ToSet(b)) /\ \A x \in ToSet(b) : x.do # "on"
        /\ c \in Seq(ToSet(c)) /\ \A x \in ToSet(c) : x.do # "on"
    BY <1>1, TasksTurnNothingOn
  <1>3. ToSet(d) = {d[1], d[2]} /\ ToSet(e) = {e[1], e[2]}
    <2>1. DOMAIN d = 1..2 /\ DOMAIN e = 1..2
      OBVIOUS
    <2> HIDE DEF d, e
    <2> QED BY <2>1 DEF ToSet
  <1>4. /\ d \in Seq(ToSet(d)) /\ \A x \in ToSet(d) : x.do # "on"
        /\ e \in Seq(ToSet(e)) /\ \A x \in ToSet(e) : x.do # "on"
    <2>1. d[1].do = "rows" /\ d[2].do = "mark" /\ e[1].do = "write" /\ e[2].do = "mark"
      BY DEF Task
    <2>2. d \in Seq({d[1], d[2]})
      OBVIOUS
    <2>3. e \in Seq({e[1], e[2]})
      OBVIOUS
    <2> HIDE DEF d, e
    <2> QED BY <2>1, <2>2, <2>3, <1>3
  <1>5. Work(goal) = a \o b \o c \o d \o e
    BY DEF Work
  <1> HIDE DEF a, b, c, d, e
  <1>6. a \o b \in Seq(ToSet(a \o b)) /\ \A x \in ToSet(a \o b) : x.do # "on"
    BY <1>2, SeqOfNothingOn
  <1>7. a \o b \o c \in Seq(ToSet(a \o b \o c)) /\ \A x \in ToSet(a \o b \o c) : x.do # "on"
    BY <1>2, <1>6, SeqOfNothingOn
  <1>8. /\ a \o b \o c \o d \in Seq(ToSet(a \o b \o c \o d))
        /\ \A x \in ToSet(a \o b \o c \o d) : x.do # "on"
    BY <1>4, <1>7, SeqOfNothingOn
  <1>9. /\ Work(goal) \in Seq(ToSet(Work(goal)))
        /\ \A x \in ToSet(Work(goal)) : x.do # "on"
    BY <1>4, <1>5, <1>8, SeqOfNothingOn
  <1> QED BY <1>9 DEF ToSet

-----------------------------------------------------------------------------
\* The beginnings of the chains.
LEMMA StartReplaceStep == ASSUME ChainsInv, NEW p, StartReplace(p) PROVE ChainsInv'
  <1> DEFINE c == [NoChain EXCEPT !.kind = "replace", !.phase = "point", !.goal = Setup]
  <1>1. /\ chain.phase = "idle" /\ UNCHANGED <<deployed, on, settings, copies, set, outside>>
        /\ p \in Packages /\ SharingWith(p) \subseteq deployed
        /\ chain' = Taking(c, p, SharingWith(p))
    BY ChainsAssumption DEF StartReplace, Start, Idle, CanReplace, SharingWith, profileVars
  <1>2. /\ DOMAIN chain' = DOMAIN NoChain /\ chain'.kind = "replace" /\ chain'.phase = "point"
        /\ chain'.target = p /\ chain'.olds = SharingWith(p) /\ chain'.gone = <<>>
        /\ chain'.was = SharingWith(p) \cap on /\ chain'.mine = SharingWith(p) \cap Mine
        /\ chain'.turned = {}
    BY <1>1 DEF Taking, NoChain
  <1>3. Shaped' /\ ProfileTyped' /\ SetFollows'
    BY <1>1, <1>2, ProfileKept DEF ChainsInv, Shaped, SetFollows
  <1>a. p \in Packages /\ deployed \subseteq Packages /\ chain'.olds \subseteq deployed
    BY <1>1, <1>2 DEF ChainsInv, ProfileTyped
  <1> HIDE DEF c
  <1>4. OldsInPlace'
    BY <1>1, <1>2, <1>a DEF OldsInPlace
  <1>5. ReplaceCourse' /\ ReinstallCourse' /\ RestoreCourse'
    BY <1>1, <1>2 DEF ReplaceCourse, ReinstallCourse, RestoreCourse, ReplaceKeepsMods
  <1> QED BY <1>3, <1>4, <1>5 DEF ChainsInv

LEMMA StartReinstallStep == ASSUME ChainsInv, NEW p, StartReinstall(p) PROVE ChainsInv'
  <1> DEFINE c == [NoChain EXCEPT !.kind = "reinstall", !.phase = "point", !.goal = Setup]
  <1>1. /\ chain.phase = "idle" /\ UNCHANGED <<deployed, on, settings, copies, set, outside>>
        /\ p \in deployed /\ chain' = Taking(c, p, {p})
    BY DEF StartReinstall, Start, Idle, profileVars
  <1>2. /\ DOMAIN chain' = DOMAIN NoChain /\ chain'.kind = "reinstall" /\ chain'.phase = "point"
        /\ chain'.target = p /\ chain'.olds = {p} /\ chain'.gone = <<>>
        /\ chain'.turned = {}
    BY <1>1 DEF Taking, NoChain
  <1>b. /\ chain'.was = {p} \cap on /\ chain'.mine = {p} \cap Mine
        /\ chain'.goal = [deployed |-> deployed, on |-> on, mine |-> Mine]
    BY <1>1 DEF Taking, NoChain
  <1>3. Shaped' /\ ProfileTyped' /\ SetFollows'
    BY <1>1, <1>2, ProfileKept DEF ChainsInv, Shaped, SetFollows
  <1>a. p \in Packages /\ deployed \subseteq Packages /\ chain'.olds \subseteq deployed
    BY <1>1, <1>2 DEF ChainsInv, ProfileTyped
  <1> HIDE DEF c
  <1>4. OldsInPlace'
    <2>1. ToSet(chain'.gone) = {} /\ chain'.gone \in Seq(Packages)
      BY <1>2 DEF ToSet
    <2> QED BY <2>1, <1>1, <1>2, <1>a DEF OldsInPlace
  <1>5. ReplaceCourse' /\ RestoreCourse'
    BY <1>1, <1>2 DEF ReplaceCourse, RestoreCourse
  <1>6. ReinstallCourse'
    <2>1. ToSet(chain'.gone) = {}
      BY <1>2 DEF ToSet
    <2>2. on \subseteq deployed
      BY DEF ChainsInv, ProfileTyped
    <2>3. Mine' = Mine /\ Mine \subseteq deployed
      BY <1>1
    <2>4. /\ chain'.goal.deployed = deployed /\ chain'.goal.on = on /\ chain'.goal.mine = Mine
          /\ chain'.goal = [deployed |-> chain'.goal.deployed, on |-> chain'.goal.on,
                            mine |-> chain'.goal.mine]
      BY <1>b
    <2>5. chain'.was = {p} \cap chain'.goal.on /\ chain'.mine = {p} \cap chain'.goal.mine
      BY <1>b, <2>4
    <2>6. /\ deployed' = chain'.goal.deployed \ ToSet(chain'.gone)
          /\ on' = (chain'.goal.on \union chain'.turned) \ ToSet(chain'.gone)
          /\ Mine' = chain'.goal.mine \ ToSet(chain'.gone)
      BY <2>1, <2>3, <2>4, <1>1, <1>2
    <2> HIDE DEF Mine, Setup
    <2>7. ReinstallIsNoChange'
      BY <1>2 DEF ReinstallIsNoChange
    <2>8. /\ chain'.target \in Packages /\ chain'.olds = {chain'.target}
          /\ chain'.target \in chain'.goal.deployed
      BY <1>1, <1>2, <1>a, <2>4
    <2>9. /\ chain'.was = {chain'.target} \cap chain'.goal.on
          /\ chain'.mine = {chain'.target} \cap chain'.goal.mine
      BY <1>2, <2>5
    <2>10. ToSet(chain'.gone) \subseteq {chain'.target}
      BY <2>1
    <2> QED BY <2>4, <2>6, <2>7, <2>8, <2>9, <2>10, <1>2 DEF ReinstallCourse
  <1> QED BY <1>3, <1>4, <1>5, <1>6 DEF ChainsInv

\* The other kinds of chain begin with nothing taken.
LEMMA OtherStartStep ==
    ASSUME ChainsInv, chain.phase = "idle",
           UNCHANGED <<deployed, on, settings, copies, set, outside>>,
           DOMAIN chain' = DOMAIN NoChain, chain'.olds = {},
           chain'.target \in Packages \union {NoPackage},
           \/ chain'.kind = "named" /\ chain'.phase = "point"
           \/ chain'.kind = "undo" /\ chain'.phase = "again"
           \/ chain'.kind = "restore" /\ chain'.phase = "point"
           \/ chain'.kind = "adoption" /\ chain'.phase = "begin",
           RestoreCourse'
    PROVE  ChainsInv'
  <1>1. Shaped' /\ ProfileTyped' /\ SetFollows'
    BY ProfileKept DEF ChainsInv, Shaped, SetFollows
  <1>2. OldsInPlace' /\ ReplaceCourse' /\ ReinstallCourse'
    BY DEF OldsInPlace, ReplaceCourse, ReinstallCourse
  <1> QED BY <1>1, <1>2 DEF ChainsInv

LEMMA OtherStarts ==
    ASSUME ChainsInv,
           \/ StartNamed
           \/ \E copy \in copies : StartUndo(copy)
           \/ \E folders : StartAdoption(folders)
    PROVE  ChainsInv'
  <1>1. CASE StartNamed
    <2>1. /\ chain.phase = "idle" /\ UNCHANGED <<deployed, on, settings, copies, set, outside>>
          /\ DOMAIN chain' = DOMAIN NoChain /\ chain'.kind = "named" /\ chain'.phase = "point"
          /\ chain'.target = NoPackage /\ chain'.olds = {}
      BY <1>1 DEF StartNamed, Start, Idle, profileVars, NoChain
    <2>2. RestoreCourse'
      BY <2>1 DEF RestoreCourse
    <2> QED BY <2>1, <2>2, OtherStartStep
  <1>2. ASSUME NEW copy \in copies, StartUndo(copy) PROVE ChainsInv'
    <2>1. /\ chain.phase = "idle" /\ UNCHANGED <<deployed, on, settings, copies, set, outside>>
          /\ DOMAIN chain' = DOMAIN NoChain /\ chain'.kind = "undo" /\ chain'.phase = "again"
          /\ chain'.target = copy[1] /\ chain'.olds = {}
      BY <1>2 DEF StartUndo, Start, Idle, profileVars, NoChain
    <2>2. copy[1] \in Packages
      BY DEF ChainsInv, ProfileTyped
    <2>3. RestoreCourse'
      BY <2>1 DEF RestoreCourse
    <2> QED BY <2>1, <2>2, <2>3, OtherStartStep
  <1>3. ASSUME NEW folders, StartAdoption(folders) PROVE ChainsInv'
    <2>1. /\ chain.phase = "idle" /\ UNCHANGED <<deployed, on, settings, copies, set, outside>>
          /\ DOMAIN chain' = DOMAIN NoChain /\ chain'.kind = "adoption" /\ chain'.phase = "begin"
          /\ chain'.target = NoPackage /\ chain'.olds = {}
      BY <1>3 DEF StartAdoption, Start, Idle, profileVars, NoChain
    <2>2. RestoreCourse'
      BY <2>1 DEF RestoreCourse
    <2> QED BY <2>1, <2>2, OtherStartStep
  <1> QED BY <1>1, <1>2, <1>3

LEMMA StartRestoreStep == ASSUME ChainsInv, NEW goal, StartRestore(goal) PROVE ChainsInv'
  <1>1. /\ chain.phase = "idle" /\ UNCHANGED <<deployed, on, settings, copies, set, outside>>
        /\ DOMAIN chain' = DOMAIN NoChain /\ chain'.kind = "restore" /\ chain'.phase = "point"
        /\ chain'.target = NoPackage /\ chain'.olds = {} /\ chain'.todo = Work(goal)
    BY DEF StartRestore, Start, Idle, profileVars, NoChain
  <1>2. /\ Work(goal) \in Seq(ToSet(Work(goal)))
        /\ \A i \in DOMAIN Work(goal) : Work(goal)[i].do # "on"
    BY WorkTurnsNothingOn, ChainsAssumption DEF StartRestore, ChainsInv, ProfileTyped
  <1>3. RestoreCourse'
    BY <1>1, <1>2 DEF RestoreCourse
  <1> QED BY <1>1, <1>3, OtherStartStep

-----------------------------------------------------------------------------
\* An answer is read, or the program killed: nothing is carried out.
LEMMA EndOfChainStep == ASSUME ChainsInv, Read \/ Crash PROVE ChainsInv'
  <1>1. /\ chain' = NoChain /\ UNCHANGED <<deployed, on, settings, copies, outside>>
        /\ \/ UNCHANGED set /\ chain.phase = "answered"
           \/ set' = [set EXCEPT !.carried = FALSE]
    BY DEF Read, Crash, profileVars, counts
  <1>2. DOMAIN set' = DOMAIN NoSet /\ ~set'.carried
    BY <1>1 DEF ChainsInv, Shaped, SetFollows, NoSet
  <1>3. Shaped' /\ ProfileTyped' /\ SetFollows'
    BY <1>1, <1>2, ProfileKept DEF Shaped, SetFollows
  <1>4. OldsInPlace' /\ ReplaceCourse' /\ ReinstallCourse' /\ RestoreCourse'
    BY <1>1 DEF NoChain, OldsInPlace, ReplaceCourse, ReinstallCourse, RestoreCourse
  <1> QED BY <1>3, <1>4 DEF ChainsInv

\* Another program changes what is turned on, and is counted.
LEMMA OutsideStep == ASSUME ChainsInv, NEW p, Outside(p) PROVE ChainsInv'
  <1>1. /\ UNCHANGED <<chain, set>> /\ p \in deployed /\ outside' = outside + 1
        /\ UNCHANGED <<deployed, settings, copies>>
        /\ on' \in {on \union {p}, on \ {p}}
    BY DEF Outside, Turn
  <1>2. outside \in Nat /\ outside' \in Nat /\ outside' # 0
    BY <1>1 DEF ChainsInv, ProfileTyped
  <1>3. Shaped' /\ ProfileTyped' /\ SetFollows'
    BY <1>1, <1>2 DEF ChainsInv, Shaped, ProfileTyped, SetFollows, Consistent
  <1>4. OldsInPlace'
    BY <1>1 DEF ChainsInv, OldsInPlace
  <1>5. ReplaceCourse' /\ ReinstallCourse' /\ RestoreCourse'
    BY <1>1, <1>2 DEF ChainsInv, ReplaceCourse, ReinstallCourse, RestoreCourse, ReplaceKeepsMods,
         ReinstallIsNoChange
  <1> QED BY <1>3, <1>4, <1>5 DEF ChainsInv

\* The steps beside a chain change neither the profile nor the chain.
LEMMA BesideChainStep ==
    ASSUME ChainsInv, RecoverSet \/ PutAside \/ RecordReads \/ RecordWrites
    PROVE  ChainsInv'
  <1>1. /\ UNCHANGED <<deployed, on, settings, copies, chain>>
        /\ outside' \in {outside, outside + 1}
    BY DEF RecoverSet, PutAside, RecordReads, RecordWrites, profileVars, counts
  <1>2. outside \in Nat /\ outside' \in Nat /\ (outside' = 0 => outside = 0)
    BY <1>1 DEF ChainsInv, ProfileTyped
  <1>3. /\ DOMAIN set' = DOMAIN NoSet
        /\ set'.carried => set'.carried = set.carried /\ set'.state = set.state
    BY DEF RecoverSet, PutAside, RecordReads, RecordWrites, ChainsInv, Shaped, NoSet
  <1>4. Shaped' /\ ProfileTyped' /\ SetFollows'
    BY <1>1, <1>2, <1>3 DEF ChainsInv, Shaped, ProfileTyped, SetFollows, Consistent
  <1>5. OldsInPlace' /\ RestoreCourse'
    BY <1>1 DEF ChainsInv, OldsInPlace, RestoreCourse
  <1>6. ReplaceCourse' /\ ReinstallCourse'
    BY <1>1, <1>2 DEF ChainsInv, ReplaceCourse, ReinstallCourse, ReplaceKeepsMods,
         ReinstallIsNoChange
  <1> QED BY <1>4, <1>5, <1>6 DEF ChainsInv

\* Every step keeps the invariant.
LEMMA InvHolds == ChainsInv /\ [ChainsNext]_chainVars => ChainsInv'
  <1> SUFFICES ASSUME ChainsInv, [ChainsNext]_chainVars PROVE ChainsInv'
    OBVIOUS
  <1>1. CASE UNCHANGED chainVars
    <2>1. UNCHANGED <<deployed, on, settings, copies, set, chain, outside>>
      BY <1>1 DEF chainVars, profileVars, counts
    <2>2. Shaped' /\ ProfileTyped' /\ SetFollows'
      BY <2>1, ProfileKept DEF ChainsInv, Shaped, SetFollows
    <2>3. OldsInPlace' /\ RestoreCourse'
      BY <2>1 DEF ChainsInv, OldsInPlace, RestoreCourse
    <2>4. ReplaceCourse' /\ ReinstallCourse'
      BY <2>1 DEF ChainsInv, ReplaceCourse, ReinstallCourse, ReplaceKeepsMods, ReinstallIsNoChange
    <2> QED BY <2>2, <2>3, <2>4 DEF ChainsInv
  <1>2. CASE ChainSteps
    <2>1. CASE ReadPoints \/ SavePoint \/ BackUp
      BY <2>1, ReadPointsStep, SavePointStep, BackUpStep
    <2>2. CASE TurnOldOn \/ RemoveOld \/ InstallNew \/ Settle \/ TurnOff \/ PutBack
      BY <2>2, TurnOldOnStep, RemoveOldStep, InstallNewStep, SettleStep, TurnOffStep, PutBackStep
    <2>3. CASE UndoRemoval \/ BeginSet \/ FinishSet
      BY <2>3, UndoRemovalStep, SetSteps
    <2>4. CASE RestoreRemoves \/ RestoreReplaces \/ RestoreInstalls \/ RestoreReadsRows
      BY <2>4, RestoreRemovesStep, RestoreReplacesStep, RestoreInstallsStep, RestoreReadsRowsStep
    <2>5. CASE RestoreTurns("on") \/ RestoreTurns("off")
      BY <2>5, RestoreTurnsStep
    <2>6. CASE RestoreWrites \/ RestoreMarks
      BY <2>6, RestoreWritesStep, RestoreMarksStep
    <2>7. CASE Adopt \/ Hush \/ Adopted \/ NextRound \/ LastRound
      BY <2>7, AdoptionSteps
    <2>8. CASE Read
      BY <2>8, EndOfChainStep
    <2> QED BY <1>2, <2>1, <2>2, <2>3, <2>4, <2>5, <2>6, <2>7, <2>8 DEF ChainSteps
  <1>3. ASSUME NEW p \in Packages, StartReplace(p) \/ StartReinstall(p) \/ Outside(p)
        PROVE  ChainsInv'
    BY <1>3, StartReplaceStep, StartReinstallStep, OutsideStep
  <1>4. ASSUME NEW goal, StartRestore(goal) PROVE ChainsInv'
    BY <1>4, StartRestoreStep
  <1>5. CASE \/ StartNamed
             \/ \E copy \in copies : StartUndo(copy)
             \/ \E folders : StartAdoption(folders)
    BY <1>5, OtherStarts
  <1>6. CASE Crash
    BY <1>6, EndOfChainStep
  <1>7. CASE RecoverSet \/ PutAside \/ RecordReads \/ RecordWrites
    BY <1>7, BesideChainStep
  <1> QED BY <1>1, <1>2, <1>3, <1>4, <1>5, <1>6, <1>7 DEF ChainsNext

\* ReinstallService: whatever fails or is switched meanwhile, a replacement
\* that answers has replaced each old version, or put it back with its settings
\* and its state, or names it as missing; a reinstall that reports no failure
\* leaves the setup as it was; and no mod is ever deployed twice.
THEOREM ReplacementsLoseNothing == ChainsSpec => []ReplacementsKeepMods
  <1>1. ChainsInv => ReplacementsKeepMods
    BY DEF ChainsInv, ReplacementsKeepMods, ChainsTypeOK, ProfileTyped, SetFollows, OldsInPlace,
           ReplaceCourse, ReinstallCourse, ReplaceKeepsMods, ReinstallIsNoChange
  <1> QED BY <1>1, InvHoldsFirst, InvHolds, PTL DEF ChainsSpec

=============================================================================
