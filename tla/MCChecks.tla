------------------------------- MODULE MCChecks -----------------------------
(* Scenes of what the manager reads, judges and shares: a settings file made *)
(* fit for sharing; a bundle written, replaced on its way, read and         *)
(* imported; the log of a session, read while SMAPI writes it; and the      *)
(* reviews of a framework in three versions, content packs for it, mods     *)
(* that need each other in a chain and, in some versions, in a loop, a      *)
(* package of twins and a mod that may be too new for the SMAPI there, with *)
(* at most two packages turned off.                                         *)
EXTENDS SettingsPrivacy, Bundles, LogReader, Requirements, TLC

CONSTANTS a, b, c, pack, other, none
VARIABLE scene

MCVars == <<scene, text, bundleVars, logVars, requirementsVars>>

Chain == [m \in {a, b, c} |-> IF m = b THEN {a} ELSE IF m = c THEN {b} ELSE {}]

V(nums, tag) == [nums |-> nums, pre |-> tag]
Need(id, kind, least) == [on |-> id, kind |-> kind, least |-> least]
Mod(id, version, api, needs) == [id |-> id, version |-> version, api |-> api, needs |-> needs]

Packs ==
    [f1 |-> {Mod("f", V(<<1, 0>>, 0), none, {})},
     f2 |-> {Mod("f", V(<<2>>, 1), none, {Need("s", "optional", none)})},
     f3 |-> {Mod("f", V(<<2, 0, 0>>, 0), V(<<4, 1>>, 0), {})},
     c |-> {Mod("c", V(<<1>>, 0), none, {Need("f", "host", V(<<2, 0, 0, 0>>, 0))})},
     d1 |-> {Mod("d", V(<<1>>, 0), none, {Need("f", "required", none), Need("c", "required", V(<<1>>, 0))})},
     d2 |-> {Mod("d", V(<<1, 0, 0, 0, 1>>, 0), none, {Need("c", "required", none), Need("x", "required", none)})},
     x |-> {Mod("x", V(<<3>>, 2), none, {Need("d", "required", V(<<1>>, 0)), Need("z", "optional", none)})},
     b |-> {Mod("g", V(<<1>>, 0), none, {}),
            Mod("h", V(<<1>>, 0), none, {Need("g", "host", V(<<1>>, 1)), Need("f", "required", V(<<1, 0, 1>>, 0))})},
     t |-> {Mod("g", V(<<1>>, 0), none, {}), Mod("g", V(<<2>>, 0), none, {})}]

Newest == V(<<4, 1, 10>>, 0)
Smapis == {none, V(<<4, 0, 9>>, 0), Newest}

\* Two mods of one name and version, and one mod in two versions.
InLog(id, name, version) == [id |-> id, name |-> name, version |-> version]
lm1 == InLog(1, "trees", 1)
lm2 == InLog(2, "trees", 1)
lm3 == InLog(3, "fish", 1)
lm4 == InLog(3, "fish", 2)
InTheLog == {lm1, lm2, lm3, lm4}
Expected == {{}, {lm1}, {lm1, lm2}, {lm1, lm3}}

\* One start at a time may be out of the ordinary, in one respect.
Odd(s) ==
    {k \in {"used", "traced", "talk", "shown", "left"} :
        \/ k = "used" /\ s.used = "other"
        \/ k = "traced" /\ ~s.traced
        \/ k = "talk" /\ s.talk
        \/ k = "shown" /\ s.shown # "plain" /\ s.used = "asked"
        \/ k = "left" /\ s.left # "none"}
Settled(s) ==
    /\ s.fate[lm3] = "absent" \/ s.fate[lm4] = "absent"
    /\ Cardinality(Odd(s)) <= 1
    /\ Odd(s) # {} => s.expected = {lm1, lm3}
Plain == [used |-> "asked", shown |-> "plain", fate |-> [m \in LogMods |-> "absent"],
          traced |-> TRUE, talk |-> FALSE, expected |-> {}, left |-> "none"]
TheStarts == {s \in Starts : Settled(s)}
QuietLog ==
    /\ start = Plain
    /\ printed = 0
    /\ verdict = NoVerdict("not read yet")
QuietRules ==
    /\ shelf = {} /\ off = {} /\ smapi = none
    /\ told = NothingTold /\ bundle = NoBundle

\* At most one mod is missing here, and one is optional.
Recipes ==
    {r \in [Mods -> [package : Packages \union {NoPackage}, here : BOOLEAN, optional : BOOLEAN]] :
        /\ r[c].package # NoPackage /\ r[a].package = pack
        /\ Cardinality({m \in Mods : ~r[m].here}) <= 1
        /\ Cardinality({m \in Mods : r[m].optional}) <= 1}
Together == [m \in {a, b, c} |-> [package |-> pack, here |-> TRUE, optional |-> FALSE]]

MCInit ==
    /\ scene \in {"text", "export", "import", "log", "rules"}
    /\ IF scene = "import"
         THEN recipe \in Recipes /\ carried \in SUBSET Packages /\ settings \in {{}, {a, b}}
              /\ spoilt \in {{}, settings \cap {a}} /\ altered \in {{}, {other}}
         ELSE recipe = Together /\ carried = {} /\ settings = {} /\ spoilt = {} /\ altered = {}
    /\ IF scene = "export" THEN ExportInit
       ELSE dest = [n \in Names |-> Nothing] /\ links = TRUE /\ ExportInit
    /\ TextInit /\ ImportInit
    /\ IF scene = "log" THEN start \in TheStarts /\ LogInit ELSE QuietLog
    /\ IF scene = "rules" THEN RequirementsInit ELSE QuietRules

MCNext ==
    /\ UNCHANGED scene
    /\ \/ scene = "text" /\ TextNext /\ UNCHANGED <<bundleVars, logVars, requirementsVars>>
       \/ scene = "export" /\ ExportStep /\ UNCHANGED <<text, importVars, logVars, requirementsVars>>
       \/ scene = "import" /\ BundleStep /\ UNCHANGED <<text, exportVars, logVars, requirementsVars>>
       \/ scene = "log" /\ LogNext /\ UNCHANGED <<text, bundleVars, requirementsVars>>
       \/ scene = "rules" /\ RequirementsNext /\ Cardinality(off') <= 2
             /\ UNCHANGED <<text, bundleVars, logVars>>

MCSpec == MCInit /\ [][MCNext]_MCVars /\ WF_requirementsVars(ImportStep)
=============================================================================
