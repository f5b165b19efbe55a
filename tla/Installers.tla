----------------------------- MODULE Installers -----------------------------
(***************************************************************************)
(* Which SMAPI releases there are, which of them fits the game, and which  *)
(* file is run to put one into the game folder: the list read from SMAPI   *)
(* and kept, the downloads in the cache, their checksums, the installers   *)
(* kept for going back, and the window's automatic update                  *)
(*   services/smapi_catalog.rs, smapi_releases.rs, http/downloader.rs,     *)
(*   smapi_adapter/mod.rs, services/smapi.rs, core smapi/catalog.rs.       *)
(* What a setup does to the game folder and its journal is SmapiSetup's.   *)
(***************************************************************************)
EXTENDS Naturals, Sequences, FiniteSets, FiniteSetsExt

CONSTANTS
    Releases,          \* SMAPI's releases; a later one is a greater number
    Tested,            \* the one this manager ships with
    Worlds,            \* what SMAPI may say of its releases
    Games,             \* versions of the game: ten times the version, and the build
    KeptInstallers, RangesPerRefresh,
    Altered, Junk,     \* another installer under a release's address; no installer at all
    Nothing,
    MaxSetups, MaxRefreshes, MaxMishaps   \* bounds

ASSUME InstallersAssumption ==
    /\ Tested \in Releases /\ KeptInstallers > 0
    /\ \A w \in Worlds : w[Tested].sum /\ w[Tested].least # Nothing

VARIABLES
    world,        \* release -> is it a prerelease, has it a checksum, which games it supports
    gameVersion,  \* the version in use, or Nothing when it cannot be read
    list,         \* the releases last read online
    ranges,       \* the releases whose game range has been read
    refreshing,   \* reads of the list under way, on the threads for reads
    archives,     \* the download cache: release -> the file under its name
    installers,   \* kept installers, newest first: release and checksum
    smapi,        \* the SMAPI in the game folder
    setup,        \* the setup at work
    lastRun,      \* the last installer that ran
    mishaps, refreshes, setups

installersVars == <<world, gameVersion, list, ranges, refreshing, archives, installers, smapi,
                    setup, lastRun, mishaps, refreshes, setups>>

AtRest == [at |-> "idle"]

-----------------------------------------------------------------------------
\* What is known of the releases without going online.

\* The release this manager ships with is always in the list.
Listed == list \union {Tested}

\* Its range is known too, until the one read online takes its place.
KnownRanges == ranges \union {Tested}

\* SMAPI's source may name no minimum.
NamesRange(v) == world[v].least # Nothing

Compatibility(v) ==
    IF gameVersion = Nothing \/ v \notin KnownRanges \/ ~NamesRange(v) THEN "unknown"
    ELSE IF gameVersion < world[v].least THEN "game_too_old"
    ELSE IF world[v].most # Nothing /\ gameVersion \div 10 > world[v].most \div 10
    THEN "game_too_new" ELSE "compatible"

Stable == {v \in Listed : ~world[v].pre}
NewestOf(vs) == IF vs = {} THEN Nothing ELSE Max(vs)
Recommended ==
    IF gameVersion = Nothing THEN NewestOf(Stable \cap {Tested})
    ELSE NewestOf({v \in Stable : Compatibility(v) = "compatible"})

\* What the window shows of the SMAPI in the game folder.
Shown ==
    LET tested == IF Recommended # Nothing THEN Recommended ELSE Tested
        fit == IF smapi \in Listed THEN Compatibility(smapi) ELSE "unknown"
    IN [compatible |-> smapi # Nothing
                         /\ (fit = "compatible" \/ (fit = "unknown" /\ smapi = tested)),
        update |-> smapi # Nothing /\ smapi < tested /\ Recommended # Nothing]

KeptVersions == {installers[i].version : i \in 1 .. Len(installers)}
KeptSum(v) ==
    IF v \in KeptVersions
    THEN installers[CHOOSE i \in 1 .. Len(installers) : installers[i].version = v].sum
    ELSE Nothing

\* The checksum of the genuine file is named after its release.
ListedSum(v) == IF world[v].sum THEN v ELSE Nothing
Found(v) == IF v \in Listed /\ ListedSum(v) # Nothing THEN ListedSum(v) ELSE KeptSum(v)

\* A release by number, or the suggested one as the list has it.
Resolved(v) ==
    IF v # Nothing THEN [version |-> v, sum |-> Found(v)]
    ELSE IF Recommended # Nothing
    THEN [version |-> Recommended, sum |-> ListedSum(Recommended)]
    ELSE [version |-> Tested, sum |-> Tested]
CanResolve(v) == v = Nothing \/ v \in Listed \union KeptVersions

\* What the page of releases says of one of them.
Offer(v) ==
    [checksum |-> IF ListedSum(v) # Nothing THEN "published"
                  ELSE IF v \in KeptVersions THEN "recorded" ELSE "none",
     fit |-> Compatibility(v)]

\* What is shown before a setup: the release it would take, whether its
\* download is checked, and whether it fits. A release that is only kept has
\* no range.
PreviewSetup(asked) ==
    LET release == Resolved(asked) IN
    [version |-> release.version, checked |-> release.sum # Nothing,
     fit |-> IF release.version \in Listed THEN Compatibility(release.version) ELSE "unknown"]

InstallersInit ==
    /\ world \in Worlds /\ gameVersion \in Games \union {Nothing}
    /\ \E n \in {0} \union Releases : list = 1 .. n
    /\ ranges \in {{}, list}
    /\ refreshing = [r \in {1, 2} |-> AtRest]
    /\ archives = [v \in Releases |-> Nothing]
    /\ installers = <<>>
    /\ smapi \in Releases \union {Nothing}
    /\ setup = AtRest /\ lastRun = Nothing
    /\ mishaps = 0 /\ refreshes \in {0, MaxRefreshes} /\ setups \in {0, MaxSetups}

Mishap == mishaps < MaxMishaps /\ mishaps' = mishaps + 1

-----------------------------------------------------------------------------
(* Reading the list. Two reads can be under way at once, and none of them   *)
(* waits for its turn with the setups.                                      *)

catalogVars == <<list, ranges, refreshing, refreshes>>
setupSide == <<world, gameVersion, archives, installers, smapi, setup, lastRun, mishaps, setups>>

\* The list online, and the ranges as they are before any is read; those of
\* the newest releases are asked for one by one.
NewestWithout(vs, known) ==
    {v \in vs : Cardinality({w \in vs : w > v}) < RangesPerRefresh} \ known

ReadList(r, vs) ==
    /\ refreshes < MaxRefreshes /\ refreshing[r] = AtRest
    /\ vs # {}
    /\ refreshing' = [refreshing EXCEPT ![r] =
         [at |-> "ranges", list |-> vs, known |-> ranges, ask |-> NewestWithout(vs, ranges)]]
    /\ refreshes' = refreshes + 1
    /\ UNCHANGED <<list, ranges, setupSide>>

ReadRange(r, answered) ==
    /\ refreshing[r].at = "ranges" /\ refreshing[r].ask # {}
    /\ LET v == Max(refreshing[r].ask) IN
       refreshing' = [refreshing EXCEPT
         ![r].ask = @ \ {v}, ![r].known = IF answered THEN @ \union {v} ELSE @]
    /\ UNCHANGED <<list, ranges, refreshes, setupSide>>

SaveRanges(r) ==
    /\ refreshing[r].at = "ranges" /\ refreshing[r].ask = {}
    /\ ranges' = refreshing[r].known
    /\ refreshing' = [refreshing EXCEPT ![r].at = "list"]
    /\ UNCHANGED <<list, refreshes, setupSide>>

SaveList(r) ==
    /\ refreshing[r].at = "list"
    /\ list' = refreshing[r].list
    /\ refreshing' = [refreshing EXCEPT ![r] = AtRest]
    /\ UNCHANGED <<ranges, refreshes, setupSide>>

-----------------------------------------------------------------------------
(* A setup. *)

workVars == <<world, gameVersion, catalogVars, setups>>

\* The uninstaller is the installed release's own when its checksum is known.
Uninstaller ==
    IF smapi # Nothing /\ CanResolve(smapi) /\ Found(smapi) # Nothing
    THEN Resolved(smapi) ELSE Resolved(Nothing)

MayRun(action, asked, allowed) ==
    IF action = "uninstall" THEN smapi # Nothing
    ELSE CanResolve(asked) /\ (Resolved(asked).sum = Nothing => allowed)

BeginSetup(action, asked, allowed) ==
    /\ setup = AtRest /\ setups < MaxSetups
    /\ MayRun(action, asked, allowed)
    /\ LET release == IF action = "install" THEN Resolved(asked) ELSE Uninstaller IN
       setup' = [at |-> "download", action |-> action, allowed |-> allowed,
                 version |-> release.version, sum |-> release.sum]
    /\ setups' = setups + 1
    /\ UNCHANGED <<world, gameVersion, catalogVars, archives, installers, smapi, lastRun, mishaps>>

\* A file that is there is not fetched again, nor looked at.
AlreadyThere ==
    /\ setup.at = "download" /\ archives[setup.version] # Nothing
    /\ setup' = [setup EXCEPT !.at = "run"]
    /\ UNCHANGED <<workVars, archives, installers, smapi, lastRun, mishaps>>

\* It is written under a name of its own, checked, and moved into place.
Download(content) ==
    /\ setup.at = "download" /\ archives[setup.version] = Nothing
    /\ IF content = setup.version THEN UNCHANGED mishaps ELSE Mishap
    /\ IF setup.sum \in {Nothing, content}
       THEN /\ archives' = [archives EXCEPT ![setup.version] = content]
            /\ setup' = [setup EXCEPT !.at = "run"]
       ELSE setup' = AtRest /\ UNCHANGED archives
    /\ UNCHANGED <<workVars, installers, smapi, lastRun>>

DownloadFails ==
    /\ setup.at = "download" /\ archives[setup.version] = Nothing
    /\ setup' = AtRest
    /\ UNCHANGED <<workVars, archives, installers, smapi, lastRun, mishaps>>

\* The archive is checked again before it is unpacked.
PreparesUnchecked == archives[setup.version] \notin {Nothing, Junk}
Prepares ==
    /\ archives[setup.version] \notin {Nothing, Junk}
    /\ setup.sum \in {Nothing, archives[setup.version]}

RunInstaller(worked) ==
    /\ setup.at = "run" /\ Prepares
    /\ lastRun' = [setup EXCEPT !.at = archives[setup.version]]
    /\ smapi' = IF ~worked THEN smapi
                ELSE IF setup.action = "install" THEN setup.version ELSE Nothing
    /\ setup' = IF worked /\ setup.action = "install" THEN [setup EXCEPT !.at = "keep"] ELSE AtRest
    /\ UNCHANGED <<workVars, archives, installers, mishaps>>

CannotPrepare ==
    /\ setup.at = "run" /\ ~Prepares
    /\ setup' = AtRest
    /\ UNCHANGED <<workVars, archives, installers, smapi, lastRun, mishaps>>

\* Without a published checksum, that of the file that ran is recorded.
SumToKeep == IF setup.sum # Nothing THEN setup.sum ELSE archives[setup.version]
WithThis ==
    <<[version |-> setup.version, sum |-> SumToKeep]>>
      \o SelectSeq(installers, LAMBDA k : k.version # setup.version)
Dropped == {WithThis[i].version : i \in KeptInstallers + 1 .. Len(WithThis)}

\* The list of kept installers may not be written; what it no longer names
\* goes from the cache all the same.
RememberInstaller(written) ==
    /\ setup.at = "keep"
    /\ IF written THEN UNCHANGED mishaps ELSE Mishap
    /\ IF SumToKeep = Nothing THEN UNCHANGED <<installers, archives>>
       ELSE /\ installers' = IF written THEN SubSeq(WithThis, 1, Min({KeptInstallers, Len(WithThis)}))
                             ELSE installers
            /\ archives' = [v \in Releases |-> IF v \in Dropped THEN Nothing ELSE archives[v]]
    /\ setup' = AtRest
    /\ UNCHANGED <<workVars, smapi, lastRun>>

\* A file in the cache is removed, or another one takes its place.
Spoil(v, content) ==
    /\ Mishap
    /\ archives[v] \notin {Nothing, content}
    /\ archives' = [archives EXCEPT ![v] = content]
    /\ UNCHANGED <<workVars, installers, smapi, setup, lastRun>>

InstallersNext ==
    \/ \E r \in {1, 2} :
         \/ \E n \in Releases : ReadList(r, {v \in Releases : v <= n})
         \/ \E b \in BOOLEAN : ReadRange(r, b)
         \/ SaveRanges(r) \/ SaveList(r)
    \/ BeginSetup("uninstall", Nothing, FALSE) \/ BeginSetup("install", Nothing, FALSE)
    \/ \E v \in Releases, b \in BOOLEAN : BeginSetup("install", v, b)
    \/ AlreadyThere \/ DownloadFails \/ CannotPrepare
    \/ \E content \in Releases \union {Altered, Junk} : Download(content)
    \/ \E b \in BOOLEAN : RunInstaller(b) \/ RememberInstaller(b)
    \/ \E v \in Releases, content \in {Nothing, Altered} : Spoil(v, content)

-----------------------------------------------------------------------------
\* SMAPI's own word, whatever part of it was read.
Supports(v, game) ==
    /\ world[v].least # Nothing /\ game >= world[v].least
    /\ world[v].most # Nothing => game \div 10 <= world[v].most \div 10

\* A release is suggested, offered as an update or called compatible only
\* when SMAPI says it supports the game, however much of the list and of its
\* ranges could be read, and in whatever order.
ShownIsTrue ==
    gameVersion # Nothing =>
      /\ Recommended # Nothing => Supports(Recommended, gameVersion)
      /\ \A v \in Listed : Offer(v).fit = "compatible" => Supports(v, gameVersion)
      /\ \A v \in Listed \union KeptVersions \union {Nothing} :
           PreviewSetup(v).fit = "compatible" => Supports(PreviewSetup(v).version, gameVersion)
      /\ Shown.compatible => Supports(smapi, gameVersion)
      /\ Shown.update => Supports(Recommended, gameVersion) /\ Recommended > smapi

\* The page, the preview and the setup judge a release alike: the user has to
\* allow exactly the setups that were shown without a checksum.
JudgedAlike ==
    /\ \A v \in Listed \union KeptVersions : MayRun("install", v, FALSE) <=> PreviewSetup(v).checked
    /\ \A v \in Listed : MayRun("install", v, FALSE) <=> Offer(v).checksum # "none"

\* Going online never makes the suggestion older than the release the
\* manager ships with, when that one supports the game.
NeverOlderThanShipped ==
    gameVersion # Nothing /\ Supports(Tested, gameVersion) /\ ~world[Tested].pre
      => Recommended # Nothing /\ Recommended >= Tested

\* An installer that runs is the file its checksum names, if any is known,
\* also when it was in the cache; one without is run for the user who allowed it.
RunsOnlyTrusted ==
    lastRun # Nothing /\ lastRun.action = "install" =>
      IF lastRun.sum = Nothing THEN lastRun.allowed ELSE lastRun.at = lastRun.sum

\* While a release is kept, installing it again runs the very file that was
\* recorded for it, even when the file has to be fetched again.
SameFileAgain ==
    [][setup.at = "run" /\ setup.action = "install" /\ lastRun' # lastRun
         /\ setup.version \in KeptVersions
       => archives[setup.version] = KeptSum(setup.version)]_installersVars

\* Every kept installer can be run again without the network, unless the
\* cache was spoilt or the list of them could not be written.
KeptCanRun ==
    mishaps = 0 => \A v \in KeptVersions : setup.at # "keep" => archives[v] = KeptSum(v)

\* The release that is suggested fits, and the installer that runs is the one
\* that was meant, from the list on the network down to the file in the cache.
InstallersAreTrusted ==
    /\ [](ShownIsTrue /\ JudgedAlike /\ NeverOlderThanShipped /\ RunsOnlyTrusted /\ KeptCanRun)
    /\ SameFileAgain
=============================================================================
