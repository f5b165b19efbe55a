---------------------------- MODULE Requirements ----------------------------
(***************************************************************************)
(* What mods need of each other and of SMAPI, and every place that judges  *)
(* it: the review of an install, of a replacement and of a removal, the    *)
(* check before a launch, the health report, the chains shown for a mod,   *)
(* and the order in which a bundle's packages are installed                *)
(*   manager-core dependency/evaluation.rs, dependency/relations.rs,       *)
(*   version.rs, health/live.rs; services/mods.rs (the reviews),           *)
(*   services/launch.rs (preflight), services/bundle.rs (materialise).     *)
(*                                                                         *)
(* The profile is the set of packages installed in it; a package is turned *)
(* on and off as a whole.  How a package gets there is the subject of the  *)
(* other modules: here an install or a removal is one step.                *)
(***************************************************************************)
EXTENDS Naturals, FiniteSets, Sequences, SequencesExt

CONSTANTS
    Contents,     \* package -> the set of mods in it
    SmapiSeen,    \* versions of SMAPI the game may have (Absent: not installed)
    Pinned,       \* the version of SMAPI the manager installs
    Absent,       \* no minimum, no SMAPI
    MaxImported   \* packages in one bundle

VARIABLES
    shelf,        \* packages installed in the profile
    off,          \* those of them that are turned off
    smapi,        \* the version of SMAPI in the game
    told,         \* what the last review named as affected
    bundle        \* the import at work

requirementsVars == <<shelf, off, smapi, told, bundle>>
Shelved == DOMAIN Contents
NoBundle == [at |-> "idle"]
NothingTold == [kind |-> "none", names |-> {}]

-----------------------------------------------------------------------------
\* Versions: up to four numbers and a prerelease tag (0: a release); a text
\* with more numbers, or none, is not a version.  Missing numbers are zeros.

Readable(v) == v # Absent /\ Len(v.nums) \in 1 .. 4
Number(v, i) == IF i <= Len(v.nums) THEN v.nums[i] ELSE 0
Older(v, w) ==
    \/ \E i \in 1 .. 4 : /\ Number(v, i) < Number(w, i)
                         /\ \A j \in 1 .. i - 1 : Number(v, j) = Number(w, j)
    \/ /\ \A i \in 1 .. 4 : Number(v, i) = Number(w, i)
       /\ v.pre # 0 /\ (w.pre = 0 \/ v.pre < w.pre)

\* A minimum or a version nobody can read refuses nothing.
TooOld(have, least) == Readable(have) /\ Readable(least) /\ Older(have, least)

-----------------------------------------------------------------------------
\* The mods of the profile.

ModsOfAll(packages) == UNION {Contents[p] : p \in packages}
Live == ModsOfAll(shelf \ off)
IdsOf(mods) == {m.id : m \in mods}
With(mods, id) == {m \in mods : m.id = id}
IsRequired(need) == need.kind # "optional"

\* What a mod under review would load with: the package's own mods before
\* those of the profile, and never another mod of its own UniqueID.
Available(m, own, others, id) ==
    LET mine == With(own, id)
    IN IF id # m.id /\ mine # {} THEN mine ELSE With(others, id)

Met(need, providers) == \E m \in providers : ~TooOld(m.version, need.least)

Unmet(m, own, others) ==
    {n \in m.needs : IsRequired(n) /\ ~Met(n, Available(m, own, others, n.on))}

Twins(mods) == {m \in mods : \E o \in mods \ {m} : o.id = m.id}
NeedsNewer(mods, api) == {m \in mods : api # Absent /\ TooOld(api, m.api)}

\* The verdict on a set of mods that is to load beside others, and the part
\* of it that no other package could change.
NeverFits(own, others, api) ==
    Twins(own) # {} \/ IdsOf(own) \cap IdsOf(others) # {} \/ NeedsNewer(own, api) # {}

Fits(own, others, api) ==
    ~NeverFits(own, others, api) /\ \A m \in own : Unmet(m, own, others) = {}

-----------------------------------------------------------------------------
\* The reviews.  An archive is judged against every mod in the profile, those
\* turned off included, and the SMAPI found or the one the manager installs.

ReviewedApi == IF smapi = Absent THEN Pinned ELSE smapi
Installable(p, packages) == Fits(Contents[p], ModsOfAll(packages), ReviewedApi)

\* Requirements of the package that only mods turned off would meet.
MetByOff(p, packages) ==
    {n \in UNION {m.needs : m \in Contents[p]} :
        /\ IsRequired(n) /\ With(Contents[p], n.on) = {}
        /\ With(ModsOfAll(packages \ off), n.on) = {} /\ With(ModsOfAll(packages \cap off), n.on) # {}}

\* Mods that need a newer version than the one a replacement brings in.
StopsLoading(p) ==
    {m \in Live : /\ m.id \notin IdsOf(Contents[p])
                  /\ \E n \in m.needs : /\ IsRequired(n)
                                        /\ \E new \in With(Contents[p], n.on) : TooOld(new.version, n.least)}

\* Mods that are on and need one of these.
Dependents(ids) ==
    {m.id : m \in {o \in Live : \E n \in o.needs : IsRequired(n) /\ n.on \in ids}} \ ids

\* Mutant: only what needs the removed mods itself.
StopAtOnce(ids) == Dependents(ids)

\* Mods that stop with the removed ones, and those that stop with them, until
\* nothing else changes.
StopWith(ids) ==
    LET gone[n \in Nat] == IF n = 0 THEN ids ELSE LET before == gone[n - 1] IN before \cup Dependents(before)
    IN gone[Cardinality(Live)] \ ids

-----------------------------------------------------------------------------
\* The same questions asked of the profile as it is.

\* Before a launch: the mods that are on, as one package.
LaunchRefused == ~Fits(Live, {}, smapi)

\* The health report on one requirement.
Problem(need) ==
    LET copies == With(ModsOfAll(shelf), need.on)
        live == With(Live, need.on)
    IN CASE copies = {} -> "missing"
         [] live = {} -> "disabled"
         [] \A m \in live : TooOld(m.version, need.least) -> "too_old"
         [] need.least # Absent /\ \E m \in live : ~Readable(need.least) \/ ~Readable(m.version) -> "unassessed"
         [] OTHER -> "none"

\* Mods that, directly or through others, require themselves.
NeedsLive(m) == {o \in Live : \E n \in m.needs : IsRequired(n) /\ n.on = o.id}
Reached(m) ==
    LET seen[n \in Nat] ==
            IF n = 0 THEN NeedsLive(m)
            ELSE LET before == seen[n - 1] IN before \cup UNION {NeedsLive(o) : o \in before}
    IN seen[Cardinality(Live)]
InLoops == {m \in Live : m \in Reached(m)}

\* Chains of required mods behind a mod, each satisfied by the next, that end
\* at a requirement which is not: depth first, never a mod twice on one path.
Satisfied(need) == Problem(need) \in {"none", "unassessed"}
Broken(m) == {n \in m.needs : IsRequired(n) /\ ~Satisfied(n)}
Longer(path) ==
    {Append(path, o) : o \in {x \in Live : x \notin Range(path)
                                           /\ \E n \in Last(path).needs : IsRequired(n) /\ Satisfied(n) /\ n.on = x.id}}
Paths(m) ==
    LET longer[n \in Nat] ==
            IF n = 0 THEN {<<m>>}
            ELSE LET before == longer[n - 1] IN before \cup UNION {Longer(path) : path \in before}
    IN longer[Cardinality(Live)]
Chains(m) == UNION {{<<path, n.on>> : n \in Broken(Last(path))} : path \in Paths(m)}

\* What SMAPI loads: a mod that is on, that it is new enough for and whose
\* requirements were all loaded before it.
Loads(packages) ==
    LET live == ModsOfAll(packages)
        loaded[n \in Nat] ==
            IF n = 0 THEN {}
            ELSE LET before == loaded[n - 1]
                 IN {m \in live : /\ NeedsNewer({m}, smapi) = {}
                                  /\ \A need \in m.needs : 
                                        IsRequired(need) => \E o \in With(before, need.on) : ~TooOld(o.version, need.least)}
    IN loaded[Cardinality(live)]

-----------------------------------------------------------------------------
\* Importing a bundle: packages ordered so that what a mod requires comes
\* first, then tried until a pass over those left installs nothing.

RequiredBy(p) == {n.on : n \in {x \in UNION {m.needs : m \in Contents[p]} : IsRequired(x)}}
Place(wanted, listed, pass, p) ==
    IF listed => RequiredBy(p) \cap wanted \subseteq pass.placed
    THEN [pass EXCEPT !.ordered = Append(@, p), !.placed = @ \cup IdsOf(Contents[p])]
    ELSE [pass EXCEPT !.rest = Append(@, p)]

RequirementsFirst(packages, listed) ==
    LET wanted == IdsOf(ModsOfAll(Range(packages)))
        pass[n \in Nat] ==
            IF n = 0 THEN [ordered |-> <<>>, placed |-> {}, rest |-> packages]
            ELSE LET before == pass[n - 1]
                     after == FoldLeft(LAMBDA acc, p : Place(wanted, listed, acc, p),
                                       [before EXCEPT !.rest = <<>>], before.rest)
                 IN IF Len(after.rest) < Len(before.rest) THEN after
                    ELSE [before EXCEPT !.ordered = @ \o before.rest, !.rest = <<>>]
    IN pass[Len(packages)].ordered

BeginBundle(packages, listed) ==
    /\ bundle' = [at |-> "pass", todo |-> RequirementsFirst(packages, listed), again |-> <<>>,
                  moved |-> FALSE, tries |-> 0, listed |-> listed, asked |-> Range(packages)]
    /\ UNCHANGED <<shelf, off, smapi, told>>

TryPackage ==
    /\ bundle.at = "pass" /\ bundle.todo # <<>>
    /\ LET p == Head(bundle.todo)
           tried == [bundle EXCEPT !.todo = Tail(@), !.tries = @ + 1]
       IN IF NeverFits(Contents[p], ModsOfAll(shelf), ReviewedApi) THEN bundle' = tried /\ UNCHANGED shelf
          ELSE IF Installable(p, shelf)
          THEN bundle' = [tried EXCEPT !.moved = TRUE] /\ shelf' = shelf \cup {p}
          ELSE bundle' = [tried EXCEPT !.again = Append(@, p)] /\ UNCHANGED shelf
    /\ UNCHANGED <<off, smapi, told>>

EndPass ==
    /\ bundle.at = "pass" /\ bundle.todo = <<>>
    /\ bundle' = IF bundle.again = <<>> \/ ~bundle.moved
                 THEN [bundle EXCEPT !.at = "end"]
                 ELSE [bundle EXCEPT !.todo = bundle.again, !.again = <<>>, !.moved = FALSE]
    /\ UNCHANGED <<shelf, off, smapi, told>>

EndImport(disabled) ==
    /\ bundle.at = "end" /\ disabled \subseteq shelf
    /\ off' = disabled /\ bundle' = NoBundle
    /\ UNCHANGED <<shelf, smapi, told>>

-----------------------------------------------------------------------------
\* Changes to the profile.

Install(p) ==
    /\ bundle = NoBundle /\ p \notin shelf /\ Installable(p, shelf)
    /\ shelf' = shelf \cup {p}
    /\ told' = [kind |-> "install", names |-> MetByOff(p, shelf)]
    /\ UNCHANGED <<off, smapi, bundle>>

\* The packages whose mods the incoming one has too are removed and it is
\* installed; a package that would not go in is refused and nothing changes.
Replace(p) ==
    LET old == {o \in shelf : IdsOf(Contents[o]) \cap IdsOf(Contents[p]) # {}}
    IN /\ bundle = NoBundle /\ p \notin shelf /\ old # {} /\ old \cap off = {}
       /\ Installable(p, shelf \ old)
       /\ shelf' = (shelf \ old) \cup {p}
       /\ told' = [kind |-> "replace", names |-> StopsLoading(p) \cup MetByOff(p, shelf)]
       /\ UNCHANGED <<off, smapi, bundle>>

TakeOut(p) ==
    /\ bundle = NoBundle /\ p \in shelf \ off
    /\ shelf' = shelf \ {p}
    /\ told' = [kind |-> "removal", names |-> StopWith(IdsOf(Contents[p]))]
    /\ UNCHANGED <<off, smapi, bundle>>

\* What is said before a package is turned on or off: what it needs and is not
\* on, and the mods that need it themselves.  Versions are not looked at.
Affected(p) ==
    LET ids == IdsOf(Contents[p])
    IN  IF p \in off
          THEN {n.on : n \in {k \in UNION {m.needs : m \in Contents[p]} : IsRequired(k)}} \ (ids \cup IdsOf(Live))
          ELSE {m.id : m \in {o \in Live \ Contents[p] : \E n \in o.needs : IsRequired(n) /\ n.on \in ids}}

Turn(p) ==
    /\ bundle = NoBundle /\ p \in shelf
    /\ p \in off => IdsOf(Contents[p]) \cap IdsOf(Live) = {}
    /\ off' = IF p \in off THEN off \ {p} ELSE off \cup {p}
    /\ told' = [kind |-> IF p \in off THEN "on" ELSE "off", names |-> Affected(p)]
    /\ UNCHANGED <<shelf, smapi, bundle>>

RequirementsInit ==
    shelf = {} /\ off = {} /\ smapi \in SmapiSeen /\ told = NothingTold /\ bundle = NoBundle

Orders == {s \in UNION {[1 .. n -> Shelved] : n \in 1 .. MaxImported} : IsInjective(s)}

ImportStep == TryPackage \/ EndPass \/ \E d \in SUBSET shelf : EndImport(d)

RequirementsNext ==
    \/ \E p \in Shelved : Install(p) \/ Replace(p) \/ TakeOut(p) \/ Turn(p)
    \/ shelf = {} /\ bundle = NoBundle /\ \E s \in Orders, listed \in BOOLEAN : BeginBundle(s, listed)
    \/ ImportStep

-----------------------------------------------------------------------------
(* Only packages of the profile are off, and what a review names is a mod's *)
(* name or a requirement.                                                   *)
RequirementsTypeOK ==
    /\ shelf \subseteq Shelved /\ off \subseteq shelf /\ smapi \in SmapiSeen
    /\ told.kind \in {"none", "install", "replace", "removal", "on", "off"}
    /\ bundle.at \in {"idle", "pass", "end"}
    /\ bundle.at # "idle" => Range(bundle.todo) \cup Range(bundle.again) \subseteq bundle.asked

(* The check before a launch and the health report together decide whether  *)
(* every mod that is on loads: when neither has anything to say they all    *)
(* load, and when they all load neither stands in the way (launch.rs:246,   *)
(* health/live.rs:67 and :201, evaluation.rs:204 judge with code of their   *)
(* own).                                                                    *)
ClearMeansLoads ==
    smapi # Absent => (Loads(shelf \ off) = Live <=> ~LaunchRefused /\ InLoops = {})

(* A mod that is on and does not load has its reason shown: a chain to the  *)
(* requirement that is not met, or a loop or a mod SMAPI is too old for     *)
(* among what it needs; and a mod that loads is shown no broken chain       *)
(* (relations.rs:178).                                                      *)
ReasonIsShown ==
    LET loaded == Loads(shelf \ off)
        loops == InLoops
    IN \A m \in Live :
          LET behind == {m} \cup Reached(m)
          IN m \notin loaded <=>
               Chains(m) # {} \/ behind \cap loops # {} \/ NeedsNewer(behind, smapi) # {}

(* The review of a removal names every mod that loads now and will not any  *)
(* more, however long the chain to the removed one (mods.rs:498).           *)
RemovalNamesAll ==
    [][told'.kind = "removal" /\ shelf' # shelf =>
         IdsOf(Loads(shelf \ off) \ ModsOfAll(shelf \ shelf')) \ IdsOf(Loads(shelf' \ off')) \subseteq told'.names]_requirementsVars

(* The review before a package is turned off leads to every mod that stops  *)
(* loading: it is named, or it needs a named one, step by step; and when    *)
(* one is turned on that asks for nothing, what does not load afterwards    *)
(* waits on a version, a loop or a newer SMAPI, never on a mod that is not  *)
(* there (toggle.rs:162).                                                   *)
TurnIsForeseen ==
    [][/\ told'.kind = "off" /\ off' # off =>
            \A m \in (Loads(shelf \ off) \cap Live') \ Loads(shelf' \ off') :
                m.id \in told'.names \/ IdsOf(Reached(m)) \cap told'.names # {}
       /\ told'.kind = "on" /\ off' # off /\ told'.names = {} /\ Loads(shelf \ off) = Live =>
            \A m \in Live' : \A n \in m.needs : IsRequired(n) => n.on \in IdsOf(Live')]_requirementsVars

(* A profile that can be launched still can be after an install or a        *)
(* replacement whose review had nothing to say, unless the replacement      *)
(* leaves out a mod that the old package had (mods.rs:665, :846,            *)
(* operations.rs:546).                                                      *)
QuietReviewKeepsLaunch ==
    [][/\ told'.kind \in {"install", "replace"} /\ told'.names = {} /\ shelf' # shelf
       /\ smapi # Absent /\ ~LaunchRefused
       /\ IdsOf(ModsOfAll(shelf \ shelf')) \subseteq IdsOf(ModsOfAll(shelf' \ shelf))
       => ~LaunchRefused']_requirementsVars

(* An import leaves out no package that would have gone in, in whatever     *)
(* order the recipe lists them and whether or not it says what they require *)
(* (bundle.rs:993).                                                         *)
ImportTakesAllItCan ==
    bundle.at = "end" => \A p \in bundle.asked \ shelf : ~Installable(p, shelf)

(* Packages whose recipe says what they require are each prepared once when *)
(* they can all go in and none is in a loop (bundle.rs:1130-1132 "so each   *)
(* is prepared once rather than tried, put back and tried again").          *)
PreparedOnce ==
    /\ bundle.at = "end" /\ bundle.listed /\ shelf = bundle.asked
    /\ InLoops = {} /\ \A p \in shelf : RequiredBy(p) \cap IdsOf(Contents[p]) = {}
    => bundle.tries = Cardinality(bundle.asked)

(* An import comes to an end.                                               *)
ImportEnds == bundle.at = "pass" ~> bundle.at = "end"

(* Reviews, reports and the check before a launch agree with what SMAPI     *)
(* will load, and an import takes what can go in and ends.                  *)
ReviewsAreTrue ==
    [](RequirementsTypeOK /\ ClearMeansLoads /\ ReasonIsShown /\ ImportTakesAllItCan
       /\ PreparedOnce)
    /\ RemovalNamesAll /\ TurnIsForeseen /\ QuietReviewKeepsLaunch /\ ImportEnds
=============================================================================
