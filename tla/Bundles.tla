------------------------------- MODULE Bundles -------------------------------
(* A profile sent as one file: the manager writes it beside a partial copy   *)
(* (manager-infra bundle.rs), somebody reads what it holds, and it is        *)
(* imported (services/bundle.rs). The file may be cut short, replaced or     *)
(* altered on its way. How the packages of an import go in one by one is in  *)
(* Requirements; here they go in when everything they need does.             *)
EXTENDS Naturals, FiniteSets

CONSTANTS
    Mods, Packages, NoPackage,
    Needs,        \* mod -> the mods its manifest requires
    Writers,      \* the programs that export into one folder
    MaxNames,     \* names the export tries
    MaxFiles,     \* bound: partial files ever made
    MaxReplaced,  \* bound: times the sent file is replaced
    MaxExportFaults, MaxInstallFaults   \* bounds

ASSUME BundlesAssumption ==
    /\ Needs \in [Mods -> SUBSET Mods] /\ NoPackage \notin Packages
    /\ {MaxNames, MaxFiles, MaxReplaced, MaxExportFaults, MaxInstallFaults} \subseteq Nat

VARIABLES
    dest,       \* the folder exported to: name -> a file
    part,       \* name -> the file under that name's partial name
    whole,      \* the files that are written to their end
    made,       \* how many partial files were made
    writer,     \* the export each program has at work
    links,      \* whether the folder's file system has hard links
    exportFaults,
    recipe,     \* mod -> [package, here, optional]: the recipe that is sent
    carried,    \* the packages really in the bundle
    settings,   \* the mods it carries settings for
    spoilt,     \* those of them whose file is too large or not JSON
    altered,    \* packages that do not hold what the recipe says
    sent,       \* how often the file was replaced since, and what is wrong with it
    preview,    \* what inspect_bundle answered
    import,     \* the import at work and what it did
    installFaults

exportVars == <<dest, part, whole, made, writer, links, exportFaults>>
contentVars == <<recipe, carried, settings, spoilt, altered>>
importVars == <<contentVars, sent, preview, import, installFaults>>
bundleVars == <<exportVars, importVars>>

-----------------------------------------------------------------------------
(* Writing: a partial file that gets its name once it is whole. *)

Names == 1..MaxNames
Files == 1..MaxFiles
Nothing == 0
Theirs == MaxFiles + 1        \* a file that no export made
Resting == [at |-> "idle", target |-> 0, file |-> Nothing]

ExportInit ==
    /\ dest \in [Names -> {Nothing, Theirs}] /\ part = [n \in Names |-> Nothing]
    /\ whole = {} /\ made = 0 /\ links \in BOOLEAN /\ exportFaults = 0
    /\ writer = [w \in Writers |-> Resting]

\* The first name that is free.
FreeName == {n \in Names : dest[n] = Nothing /\ \A k \in Names : k < n => dest[k] # Nothing}

ChooseName(w) ==
    /\ writer[w].at = "idle"
    /\ \E n \in FreeName : writer' = [writer EXCEPT ![w] = [Resting EXCEPT !.at = "create", !.target = n]]
    /\ UNCHANGED <<dest, part, whole, made, links, exportFaults>>

\* create_fresh: a leftover partial file is removed first.
CreatePart(w) ==
    /\ writer[w].at = "create" /\ made < MaxFiles
    /\ made' = made + 1
    /\ part' = [part EXCEPT ![writer[w].target] = made + 1]
    /\ writer' = [writer EXCEPT ![w].at = "write", ![w].file = made + 1]
    /\ UNCHANGED <<dest, whole, links, exportFaults>>

\* The entries, then the end that makes it a readable archive, flushed.
FinishWriting(w) ==
    /\ writer[w].at = "write"
    /\ whole' = whole \union {writer[w].file}
    /\ writer' = [writer EXCEPT ![w].at = "publish"]
    /\ UNCHANGED <<dest, part, made, links, exportFaults>>

\* A package cannot be read, or the disk is full: what is under the partial
\* name goes. Killed, the manager leaves it there.
StopWriting(w) ==
    /\ writer[w].at \in {"write", "publish"} /\ exportFaults < MaxExportFaults
    /\ part' \in {part, [part EXCEPT ![writer[w].target] = Nothing]}
    /\ writer' = [writer EXCEPT ![w] = Resting]
    /\ exportFaults' = exportFaults + 1
    /\ UNCHANGED <<dest, whole, made, links>>

\* publish_no_clobber: linked under its name, or, without links, renamed
\* after a look at the name. Either takes what is under the partial name now.
Publishes(w) == dest[writer[w].target] = Nothing /\ part[writer[w].target] # Nothing

Publish(w) ==
    LET n == writer[w].target IN
    /\ writer[w].at = "publish"
    /\ part' = [part EXCEPT ![n] = Nothing]
    /\ writer' = [writer EXCEPT ![w] = Resting]
    /\ dest' = IF Publishes(w) THEN [dest EXCEPT ![n] = part[n]] ELSE dest
    /\ UNCHANGED <<whole, made, links, exportFaults>>

\* The user, or what keeps the folder in step elsewhere, puts a file there.
\* Where there are no links one may slip in between the look and the rename:
\* it is then replaced, so it is left out.
FileAppears(n) ==
    /\ dest[n] = Nothing /\ links
    /\ dest' = [dest EXCEPT ![n] = Theirs]
    /\ UNCHANGED <<part, whole, made, writer, links, exportFaults>>

ExportStep ==
    \/ \E w \in Writers : \/ ChooseName(w) \/ CreatePart(w) \/ FinishWriting(w)
                          \/ StopWriting(w) \/ Publish(w)
    \/ \E n \in Names : FileAppears(n)

-----------------------------------------------------------------------------
(* What a bundle holds, and what its reader says it would install. *)

NotForHere == {m \in Mods : ~recipe[m].here}
ModsOf(package) == {m \in Mods : recipe[m].package = package}

\* Any package that holds a mod for other systems is never installed here.
ExcludedPackages == {recipe[m].package : m \in NotForHere} \ {NoPackage}

LeftOut(m) == recipe[m].here /\ recipe[m].package \in ExcludedPackages
MissingPackages == {m \in Mods \ NotForHere : recipe[m].package \notin carried \/ LeftOut(m)}
Carried == {m \in Mods : recipe[m].package \in carried \ ExcludedPackages}
UnresolvedRequirements ==
    {<<m, r>> \in Mods \X Mods : m \notin NotForHere /\ r \in Needs[m] /\ r \notin Carried}

\* A file is cut short, or still being copied; its recipe is not one; or a
\* package in it is not the one its name stands for.
Conditions == {"whole", "cut", "garbled", "damaged"}

\* The entries are looked through, and the recipe is read, before anything
\* else; the packages are checked only when they are taken out.
Opens == sent.is # "cut"
ReadsRecipe == sent.is # "garbled"
Unpacks == Opens /\ ReadsRecipe /\ sent.is # "damaged"

NoPreview == [read |-> FALSE]

\* inspect_bundle: the digest is of the file that was read.
Inspect ==
    /\ preview = NoPreview /\ import.at = "idle" /\ Opens /\ ReadsRecipe
    /\ preview' = [read |-> TRUE, digest |-> sent.replaced, missing |-> MissingPackages,
                   elsewhere |-> NotForHere, unresolved |-> UnresolvedRequirements]
    /\ UNCHANGED <<contentVars, sent, import, installFaults>>

\* The file is replaced by another, or arrives cut short or damaged, while it
\* is read through or afterwards.
ReplaceFile(is) ==
    /\ sent.replaced < MaxReplaced /\ import.at = "idle"
    /\ sent' = [replaced |-> sent.replaced + 1, is |-> is]
    /\ carried' \in IF is = "whole" THEN (SUBSET Packages) \ {carried} ELSE {carried}
    /\ UNCHANGED <<recipe, settings, spoilt, altered, preview, import, installFaults>>

-----------------------------------------------------------------------------
(* Importing, into a new profile. *)

NoImport == [at |-> "idle", chosen |-> {}, useSettings |-> {}, digest |-> 0,
             installed |-> {}, failed |-> {}, declined |-> {}, brought |-> {},
             applied |-> {}, accepted |-> {}]

\* The preview's digest and what is in the file, copied and hashed at once.
IsAsRead == sent.replaced = preview.digest

\* check_identities, over the packages that are in the file.
Belongs == \A p \in altered \cap carried : ModsOf(p) = {}

\* Optional mods that were not chosen, unless they come in a package with one
\* that is installed.
Wanted(chosen) == {m \in Mods \ NotForHere : ~LeftOut(m) /\ (~recipe[m].optional \/ m \in chosen)}
KeptPackages(chosen) == {recipe[m].package : m \in Wanted(chosen)} \ {NoPackage}
Unticked(chosen) == {m \in Mods \ NotForHere : ~LeftOut(m)} \ Wanted(chosen)

\* Mutant: a package is left out because one of its mods is not chosen.
DeclinedAlone(chosen) == Unticked(chosen)

Declined(chosen) == {m \in Unticked(chosen) : recipe[m].package \notin KeptPackages(chosen)}

BeginImport(chosen, useSettings) ==
    /\ preview.read /\ import.at = "idle"
    /\ chosen \subseteq {m \in Mods : recipe[m].optional} /\ useSettings \subseteq settings
    /\ import' = IF Unpacks /\ IsAsRead /\ Belongs
                 THEN [NoImport EXCEPT !.at = "fill", !.chosen = chosen, !.useSettings = useSettings,
                         !.digest = sent.replaced, !.declined = Declined(chosen)]
                 ELSE [NoImport EXCEPT !.at = "refused"]
    /\ UNCHANGED <<contentVars, sent, preview, installFaults>>

\* The packages that go in: those asked for that are there, once what their
\* mods need is in, and not refused for another reason.
Offered == {p \in carried \ ExcludedPackages :
              \E m \in ModsOf(p) : m \notin NotForHere \union import.declined}
ModsIn(packages) == UNION {ModsOf(p) : p \in packages}

RECURSIVE GoIn(_, _)
GoIn(inside, waiting) ==
    LET ready == {p \in waiting : \A m \in ModsOf(p) : Needs[m] \subseteq ModsIn(inside \union {p})}
    IN IF ready = {} THEN inside ELSE GoIn(inside \union ready, waiting \ ready)

Fill(refused) ==
    LET installed == ModsIn(GoIn({}, Offered \ refused)) IN
    /\ import.at = "fill" /\ refused \subseteq Offered
    /\ installFaults + Cardinality(refused) <= MaxInstallFaults
    /\ installFaults' = installFaults + Cardinality(refused)
    /\ import' = [import EXCEPT !.at = "reference", !.installed = installed,
                    !.failed = ((Mods \ NotForHere) \ import.declined) \ installed,
                    !.brought = Unticked(import.chosen) \cap installed]
    /\ UNCHANGED <<contentVars, sent, preview>>

\* The whole recipe stays as the profile's reference; what was left out by
\* choice is accepted as different.
AttachReference ==
    /\ import.at = "reference"
    /\ import' = [import EXCEPT !.at = "settings", !.accepted = import.declined]
    /\ UNCHANGED <<contentVars, sent, preview, installFaults>>

\* Settings go into mods that were installed, where they were wanted.
ForWhat(m) == m \notin import.declined \union NotForHere
Applicable == {m \in settings \ spoilt : ForWhat(m) /\ m \in import.useSettings}

ApplySettings ==
    /\ import.at = "settings"
    /\ import' = [import EXCEPT !.at = "done",
                    !.applied = Applicable \cap import.installed,
                    !.failed = @ \union (Applicable \ import.installed)
                                 \union {m \in spoilt : ForWhat(m)}]
    /\ UNCHANGED <<contentVars, sent, preview, installFaults>>

ImportInit ==
    /\ recipe \in [Mods -> [package : Packages \union {NoPackage}, here : BOOLEAN, optional : BOOLEAN]]
    /\ carried \in SUBSET Packages
    /\ settings \in SUBSET Mods /\ spoilt \in SUBSET settings /\ altered \in SUBSET Packages
    /\ sent \in [replaced : {0}, is : IF carried = {} THEN {"whole"} ELSE {"whole", "damaged"}]
    /\ preview = NoPreview /\ import = NoImport /\ installFaults = 0

BundleStep ==
    \/ Inspect \/ AttachReference \/ ApplySettings
    \/ \E is \in Conditions : ReplaceFile(is)
    \/ \E chosen, use \in SUBSET Mods : BeginImport(chosen, use)
    \/ \E refused \in SUBSET Packages : Fill(refused)

-----------------------------------------------------------------------------
\* A file that has a bundle's name is a whole one: an interrupted write never
\* leaves a file that looks complete (ports/bundle.rs).
LooksWholeIsWhole == \A n \in Names : dest[n] \in Files => dest[n] \in whole

\* An export never takes the place of a file that has the name already.
NothingReplaced == [][\A n \in Names : dest[n] # Nothing => dest'[n] = dest[n]]_bundleVars

\* What a mod needs, step by step, with what comes in one package with it.
RECURSIVE NeedsOf(_, _)
NeedsOf(ms, n) ==
    IF n = 0 THEN ms
    ELSE NeedsOf(ms \union UNION {Needs[m] : m \in ms}
                    \union UNION {IF recipe[m].package = NoPackage THEN {} ELSE ModsOf(recipe[m].package)
                                  : m \in ms}, n - 1)
Behind(m) == NeedsOf({m}, Cardinality(Mods))

\* Packages that need each other: none of them can be the first to go in.
Knotted(m) == \E o \in Behind(m) : recipe[o].package # recipe[m].package /\ m \in Behind(o)

NamedFor(m) ==
    LET behind == Behind(m)
    IN \/ behind \cap (preview.missing \union import.declined) # {}
       \/ \E b \in behind, r \in Mods : <<b, r>> \in preview.unresolved

\* What is imported is what the user was shown and agreed to: every mod that
\* the preview did not call missing and the user wanted goes in, unless it
\* was refused, is in a knot of packages, or needs, step by step, something
\* the preview named or the user left out; and nothing else goes in.
InstallsAsShown ==
    import.at = "done" =>
      /\ import.digest = preview.digest
      /\ import.installed \cap (preview.elsewhere \union preview.missing) = {}
      /\ \A m \in Wanted(import.chosen) \ import.installed :
           NamedFor(m) \/ (\E o \in Behind(m) : Knotted(o)) \/ installFaults > 0

\* An unticked mod is in the new profile only when it came in the package of
\* one that was wanted, and the import says so.
OnlyWantedOrBrought ==
    import.at = "done" =>
      /\ import.installed \subseteq Wanted(import.chosen) \union import.brought
      /\ \A m \in import.brought : \E o \in Wanted(import.chosen) : recipe[o].package = recipe[m].package

\* Nothing the recipe lists for this computer is lost without a word: it is
\* installed, reported, or left out by choice; and only what was left out by
\* choice counts as an accepted difference from the recipe.
NothingSilent ==
    import.at = "done" =>
      /\ Mods \ NotForHere \subseteq import.installed \union import.failed \union import.declined
      /\ import.accepted \cap (import.installed \union import.failed) = {}
      /\ settings \cap import.useSettings \subseteq
           import.applied \union import.failed \union import.declined \union NotForHere

\* A package that is not what the recipe says it is brings nothing in, and
\* neither does a file that was cut short or damaged on its way, not even the
\* packages of it that are sound.
AlteredBringsNothing ==
    (\E p \in altered \cap carried : ModsOf(p) # {}) \/ sent.is # "whole" => import.installed = {}

\* A bundle is written whole or not at all, and what comes out of one is what
\* was shown, reported, or left out by choice.
BundlesAreTrue ==
    [](LooksWholeIsWhole /\ InstallsAsShown /\ OnlyWantedOrBrought /\ NothingSilent
       /\ AlteredBringsNothing)
    /\ NothingReplaced
=============================================================================
