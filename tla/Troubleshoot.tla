---------------------------- MODULE Troubleshoot ----------------------------
(***************************************************************************)
(* "Find the mod causing a problem": the search by halving                 *)
(* (manager-core troubleshoot.rs) and the service that applies it to the   *)
(* profile and keeps it between runs (services/troubleshoot.rs).           *)
(*                                                                         *)
(* A mod is a deployment folder; mods are numbered in the order of their   *)
(* keys. What the search handles is a unit, the set of mods of one         *)
(* requirement loop. The problem shows when every mod of `cause` is on,    *)
(* and the user's answers are true of what they played with.               *)
(***************************************************************************)
EXTENDS Naturals, FiniteSets, FiniteSetsExt

CONSTANTS
    Folders,         \* mods of the profile, numbered
    None,
    MaxCuts,      \* changes cut short by a kill or a refused write
    MaxOwn,       \* mods the user turns on or off by hand meanwhile
    MaxSteps      \* answers after which the other mod is not looked for again

ASSUME TroubleshootAssumption == Folders \subseteq Nat /\ IsFiniteSet(Folders)

VARIABLES
    installed,    \* the mods of this profile
    requires,     \* mod -> the mods it needs
    cause,        \* the mods that together cause the problem
    live,           \* the mods that are on
    search,       \* the stored session, or None
    job,          \* what the service is applying, or None
    played,       \* what the user saw when they last played, or None
    chosen,        \* the mods the user had chosen to have on
    mixed,        \* the user played with other mods on than the test's
    cuts, own

troubleshootVars == <<installed, requires, cause, live, search, job, played, chosen, mixed, cuts, own>>
world == <<installed, requires, cause>>

-----------------------------------------------------------------------------
\* Requirements among the mods a session works on: those on before it.

Closure(pool, ms) ==
    LET grown[n \in 0..Cardinality(pool)] ==
          IF n = 0 THEN ms
          ELSE grown[n - 1] \union (pool \intersect UNION {requires[m] : m \in grown[n - 1]})
    IN  grown[Cardinality(pool)]

\* collapse_cycles: mods that need each other are one unit.
Units(pool) ==
    {{n \in pool : n \in Closure(pool, {m}) /\ m \in Closure(pool, {n})} : m \in pool}

\* unit -> the units needed to run it; the same for a whole session, whose
\* record keeps it here.
NeedsOf(pool) ==
    [u \in Units(pool) |-> {v \in Units(pool) : v \subseteq Closure(pool, u)}]

Needed(s, us) == UNION {s.needs[u] : u \in us}

Before(s, u, v) ==
    \/ Cardinality(s.needs[u]) < Cardinality(s.needs[v])
    \/ Cardinality(s.needs[u]) = Cardinality(s.needs[v]) /\ Min(u) < Min(v)

\* The first half, rounded up, of some units: those needing least come first.
FirstHalf(s, us) ==
    {u \in us : 2 * Cardinality({v \in us : Before(s, v, u)}) < Cardinality(us)}

Without(s, u) == {v \in DOMAIN s.needs : u \notin s.needs[v]}

-----------------------------------------------------------------------------
\* The session.

NewSearch(original) ==
    [phase |-> "all_off", suspects |-> {}, good |-> {}, enabled |-> {}, steps |-> 0,
     present |-> None, culprit |-> None, involved |-> None, partners |-> {},
     candidates |-> {}, partner |-> None, original |-> original,
     needs |-> NeedsOf(original)]

Over == {"found", "inconclusive", "found_pair"}

Inconclusive(s) ==
    [s EXCEPT !.phase = "inconclusive", !.enabled = Needed(s, s.good)]

\* The suspect is to blame; everything that can run without it is on again.
Conclude(s) ==
    LET u == CHOOSE v \in s.suspects : TRUE IN
    [s EXCEPT !.phase = "found", !.culprit = u, !.enabled = Without(s, u)]

SeenWith(s, us) == s.present # None /\ s.present \subseteq us

\* Mutant: the last suspect is named without being tested on its own.
ConfirmUnseen(s) == Conclude(s)

\* The last suspect is named if it was seen alone, else it is tested alone.
Confirm(s) ==
    LET alone == Needed(s, s.suspects) IN
    IF SeenWith(s, alone) THEN Conclude(s)
    ELSE [s EXCEPT !.phase = "confirming", !.enabled = alone]

\* Not alone: the suspect is involved, with one of those last seen with it.
Combination(s) ==
    [Inconclusive(s) EXCEPT !.involved = CHOOSE u \in s.suspects : TRUE,
                            !.partners = s.present \ Needed(s, s.suspects)]

NextTest(s) ==
    LET test == Needed(s, FirstHalf(s, s.suspects) \union s.good) IN
    IF s.suspects \subseteq test THEN Inconclusive(s)
    ELSE [s EXCEPT !.phase = "testing", !.enabled = test]

NeedsMoreThanTwo(s) ==
    [Inconclusive(s) EXCEPT !.partners = s.candidates, !.candidates = {}]

FoundPair(s) ==
    [s EXCEPT !.phase = "found_pair", !.partner = CHOOSE u \in s.candidates : TRUE,
              !.enabled = Without(s, s.involved)]

\* The search for the other mod of a pair.
NextPartnerStep(s) ==
    LET pair == Needed(s, s.candidates \union {s.involved})
        test == Needed(s, FirstHalf(s, s.candidates) \union {s.involved}) IN
    CASE s.candidates = {} -> NeedsMoreThanTwo(s)
      [] Cardinality(s.candidates) = 1 ->
            IF SeenWith(s, pair) THEN FoundPair(s)
            ELSE [s EXCEPT !.phase = "partner_confirm", !.enabled = pair]
      [] OTHER ->
            IF s.candidates \subseteq test THEN NeedsMoreThanTwo(s)
            ELSE [s EXCEPT !.phase = "partner_search", !.enabled = test]

CanNarrow(s) == s.phase = "inconclusive" /\ s.involved # None /\ s.partners # {}

\* What was on and not cleared, or what was off, remains under suspicion.
Narrowed(s, present) ==
    IF present
    THEN [s EXCEPT !.suspects = s.enabled \ s.good]
    ELSE [s EXCEPT !.good = @ \union s.enabled, !.suspects = @ \ s.enabled]

\* The answer to the test in progress, and the next test.
AnswerAllOff(s, present) ==
    LET all == DOMAIN s.needs
        begun == [s EXCEPT !.suspects = all, !.present = all] IN
    IF present THEN [s EXCEPT !.phase = "inconclusive", !.enabled = {}]
    ELSE IF Cardinality(all) <= 1 THEN Conclude(begun) ELSE NextTest(begun)

AnswerTest(s, present) ==
    LET t == Narrowed(s, present) IN
    CASE t.suspects = {} -> Inconclusive(t)
      [] Cardinality(t.suspects) = 1 -> Confirm(t)
      [] OTHER -> NextTest(t)

AnswerPartner(s, present) ==
    NextPartnerStep([s EXCEPT !.candidates = IF present THEN @ \intersect s.enabled ELSE @ \ s.enabled])

AfterAnswer(s, present) ==
    LET told == [s EXCEPT !.steps = @ + 1,
                          !.present = IF present /\ s.phase # "all_off" THEN s.enabled ELSE @] IN
    CASE s.phase = "all_off" -> AnswerAllOff(told, present)
      [] s.phase = "testing" -> AnswerTest(told, present)
      [] s.phase = "confirming" -> IF present THEN Conclude(told) ELSE Combination(told)
      [] s.phase = "partner_search" -> AnswerPartner(told, present)
      [] s.phase = "partner_confirm" -> IF present THEN FoundPair(told) ELSE NeedsMoreThanTwo(told)

-----------------------------------------------------------------------------
\* The service. A change is applied mod by mod and only then is the session
\* stored; the first time it is stored before anything is turned off.

Expand(s) == UNION s.enabled

Apply(to, then) == job' = [todo |-> installed, to |-> to, then |-> then]

\* The user starts it because the problem happens with these mods on.
StartSearch ==
    /\ job = None /\ search = None /\ installed # {} /\ cause \subseteq live
    /\ search' = NewSearch(live)
    /\ Apply({}, NewSearch(live))
    /\ mixed' = FALSE
    /\ UNCHANGED <<world, live, played, chosen, cuts, own>>

GiveAnswer ==
    /\ job = None /\ search # None /\ search.phase \notin Over
    /\ played # None
    /\ LET next == AfterAnswer(search, played) IN Apply(Expand(next), next)
    /\ UNCHANGED <<world, live, search, played, chosen, mixed, cuts, own>>

Narrow ==
    /\ job = None /\ search # None /\ CanNarrow(search) /\ search.steps < MaxSteps
    /\ LET next == NextPartnerStep([search EXCEPT !.candidates = search.partners]) IN
       Apply(Expand(next), next)
    /\ UNCHANGED <<world, live, search, played, chosen, mixed, cuts, own>>

Restore ==
    /\ job = None /\ search # None
    /\ Apply(search.original, None)
    /\ UNCHANGED <<world, live, search, played, chosen, mixed, cuts, own>>

\* One mod after the other, in the order of the keys (ToggleService).
SetEnabled ==
    /\ job # None /\ job.todo # {}
    /\ LET m == Min(job.todo) IN
       /\ live' = IF m \in job.to THEN live \union {m} ELSE live \ {m}
       /\ job' = [job EXCEPT !.todo = @ \ {m}]
    /\ UNCHANGED <<world, search, played, chosen, mixed, cuts, own>>

StoreSearch ==
    /\ job # None /\ job.todo = {}
    /\ search' = job.then
    /\ job' = None /\ played' = None
    /\ UNCHANGED <<world, live, chosen, mixed, cuts, own>>

\* The program is killed, or a mod or the session cannot be written: the
\* session stays as it was stored.
CutShort ==
    /\ job # None /\ cuts < MaxCuts
    /\ cuts' = cuts + 1
    /\ job' = None
    /\ UNCHANGED <<world, live, search, played, chosen, mixed, own>>

-----------------------------------------------------------------------------
\* The user plays, and changes a mod by hand.

Play ==
    /\ job = None /\ search # None /\ search.phase \notin Over
    /\ played' = (cause \subseteq live)
    /\ mixed' = (mixed \/ live # Expand(search))
    /\ UNCHANGED <<world, live, search, job, chosen, cuts, own>>

SwitchByHand(m) ==
    /\ job = None /\ own < MaxOwn /\ own' = own + 1
    /\ live' = IF m \in live THEN live \ {m} ELSE live \union {m}
    /\ chosen' = IF search = None THEN live' ELSE chosen
    /\ UNCHANGED <<world, search, job, played, mixed, cuts>>

\* A profile of some mods with some of them on, all that cause the problem
\* among these.
Profile(all, needs, lit, guilty) ==
    /\ installed = all /\ requires = needs
    /\ live = lit /\ chosen = lit /\ cause = guilty
    /\ search = None /\ job = None /\ played = None /\ mixed = FALSE

TroubleshootInit ==
    /\ \E all \in SUBSET Folders : \E needs \in [Folders -> SUBSET all], lit \in SUBSET all :
          \E guilty \in SUBSET lit : Profile(all, needs, lit, guilty)
    /\ cuts = 0 /\ own = 0

TroubleshootNext ==
    \/ StartSearch \/ GiveAnswer \/ Narrow \/ Restore
    \/ SetEnabled \/ StoreSearch \/ CutShort
    \/ Play \/ \E m \in installed : SwitchByHand(m)

TroubleshootSpec == TroubleshootInit /\ [][TroubleshootNext]_troubleshootVars

\* A job runs to its end; the user plays and answers.
TroubleshootFairness ==
    /\ WF_troubleshootVars(SetEnabled)
    /\ WF_troubleshootVars(StoreSearch)
    /\ WF_troubleshootVars(Play)
    /\ WF_troubleshootVars(GiveAnswer)

-----------------------------------------------------------------------------
Phases == Over \union {"all_off", "testing", "confirming", "partner_search", "partner_confirm"}

\* The session's parts fit together: a suspect is never cleared, and both are
\* mods that were on before the session.
TroubleshootTypeOK ==
    /\ live \subseteq installed /\ chosen \subseteq installed
    /\ played \in BOOLEAN \union {None}
    /\ search # None =>
          /\ search.phase \in Phases
          /\ search.original \subseteq installed
          /\ search.suspects \union search.good \union search.candidates \subseteq DOMAIN search.needs
          /\ search.suspects \intersect search.good = {}

\* Some units explain the problem: it shows with only them and what they need
\* on, and each of them is one of its causes.
Explain(us) ==
    /\ cause \subseteq Closure(search.original, UNION us)
    /\ \A u \in us : u \intersect cause # {}

\* A verdict is right when the user always played with the test's mods on,
\* however often a change was cut short: the named mod shows the problem on
\* its own; of a named pair both are needed; no single mod explains a problem
\* called inconclusive, an involved mod is one of its causes, and no pair
\* with the involved mod explains it once the other was looked for in vain.
Verdict ==
    CASE search.phase = "found" -> Explain({search.culprit})
      [] search.phase = "found_pair" ->
            /\ Explain({search.involved, search.partner})
            /\ ~Explain({search.involved}) /\ ~Explain({search.partner})
      [] search.phase = "inconclusive" ->
            /\ \A u \in DOMAIN search.needs : ~Explain({u})
            /\ search.involved # None => search.involved \intersect cause # {}
      [] OTHER -> TRUE

VerdictIsRight == search # None /\ job = None /\ ~mixed => Verdict

\* A test never has a mod on without what it needs of the mods that were on,
\* nor one the user had turned off.
TestsAreFair ==
    search # None /\ job = None =>
        /\ Expand(search) \subseteq search.original
        /\ Closure(search.original, Expand(search)) = Expand(search)

\* The user's own setup is never lost: without a session the mods are as the
\* user chose, and a session knows that choice, wherever a change is cut short.
SetupNeverLost ==
    IF search = None THEN job = None => live = chosen ELSE search.original = chosen

\* The search is short: one answer with everything off, one for each halving
\* and one alone; as many again for the other mod of a pair (more than two
\* can be looked for again and again).
LogTwo(n) == CHOOSE k \in 0..n : 2 ^ k >= n /\ (k = 0 \/ 2 ^ (k - 1) < n)
SearchIsShort ==
    search # None /\ job = None /\ ~mixed /\ search.original # {} /\ Cardinality(cause) <= 2 =>
        LET k == LogTwo(Cardinality(search.original)) IN
        search.steps <= (IF search.involved = None THEN k + 2 ELSE 2 * k + 3)

\* A session that the user keeps answering comes to a verdict, or is ended.
SearchEnds == search # None ~> (search = None \/ search.phase \in Over)

\* The search for the mod that causes a problem tests fairly, keeps the user's
\* setup, names what is to blame, and gets there soon.
SearchIsSound ==
    [](TroubleshootTypeOK /\ VerdictIsRight /\ TestsAreFair /\ SetupNeverLost /\ SearchIsShort)
    /\ SearchEnds
=============================================================================
