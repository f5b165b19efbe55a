------------------------------ MODULE ModsFolder ------------------------------
(* A Mods folder the manager does not own: scanned for a review, and chosen   *)
(* folders of it packaged and installed into a new profile (manager-infra     *)
(* mods_folder.rs, services/adoption.rs), while the user goes on changing it. *)
(* The order folders go in is in ChangeChains; here any order may happen.     *)
EXTENDS Naturals, FiniteSets, SequencesExt

CONSTANTS
    Names,         \* the names of files and folders
    Folders,       \* folder -> what it may hold: sets of nodes
    Changes,       \* nodes an edit may bring
    Dotted,        \* the names that start with a dot
    NoId,          \* the uid of what is no manifest
    Settings,      \* the name of a settings file
    StoredAs,      \* uid -> the package kept of it: [same, files]
    MaxDepth,      \* how deep walk goes
    MaxEdits       \* bound: edits while the review is open

VARIABLES
    live,       \* folder -> its nodes [path, size, body, link, uid, text]
    shown,      \* the scan the user looks at
    job,        \* the adoption: [at, left, ignored, was, edits]
    installed,  \* folder -> [files, off]
    told,       \* the folders whose part has a note
    edits

adoptionVars == <<live, shown, job, installed, told, edits>>

-----------------------------------------------------------------------------
(* Reading: links are not followed, and nothing below MaxDepth folders. *)

Walked(nodes) == {n \in nodes : ~n.link /\ Len(n.path) <= MaxDepth + 1}
ManifestsIn(nodes) == {n \in Walked(nodes) : n.uid # NoId}
\* The scan reads UTF-8 only; an install reads as SMAPI does.
ScanReads(nodes) == {n \in ManifestsIn(nodes) : n.text = "utf8"}
ReadsAsSmapi(n) == n.text \in {"utf8", "latin"}
IdsIn(nodes) == {n.uid : n \in ScanReads(nodes)}

\* Mutant: the fingerprint holds the names and not the sizes.
MarkOfNames(tree) == [f \in DOMAIN tree |-> {n.path : n \in Walked(tree[f])}]

\* The fingerprint: names and sizes, not what is in the files.
Mark(tree) == [f \in DOMAIN tree |-> {<<n.path, n.size>> : n \in Walked(tree[f])}]

Adoptables(tree) == {f \in DOMAIN tree : ScanReads(tree[f]) # {}}

\* What the review says is wrong with a folder.
HasProblem(nodes) ==
    \/ \E n \in nodes : n.link \/ Len(n.path) > MaxDepth + 1
    \/ ScanReads(nodes) # ManifestsIn(nodes)

DuplicatesOf(tree, f) == {g \in Adoptables(tree) \ {f} : IdsIn(tree[f]) \cap IdsIn(tree[g]) # {}}

\* Files below a folder: none of them is a folder of another.
Nodes == (UNION {UNION Folders[f] : f \in DOMAIN Folders}) \union Changes
IsNode(n) ==
    /\ n = [path |-> n.path, size |-> n.size, body |-> n.body,
            link |-> n.link, uid |-> n.uid, text |-> n.text]
    /\ n.path \in Seq(Names) /\ Len(n.path) > 0
IsTree(nodes) == \A n, k \in nodes : IsPrefix(n.path, k.path) => n = k

\* A package is kept of what an install took from an archive: it has manifests.
ASSUME ModsFolderAssumption ==
    /\ {MaxDepth, MaxEdits} \subseteq Nat
    /\ \A n \in Nodes : IsNode(n)
    /\ \A f \in DOMAIN Folders : \A nodes \in Folders[f] : IsTree(nodes)
    /\ \A u \in DOMAIN StoredAs : StoredAs[u].same =>
         ManifestsIn(StoredAs[u].files) # {} /\ \A p \in StoredAs[u].files : IsNode(p)

\* manifest_root: names line up from the folder that holds the manifests.
ManifestRoot(nodes) == LongestCommonPrefix({Front(n.path) : n \in ManifestsIn(nodes)})
Inner(root, path) == SubSeq(path, Len(root) + 1, Len(path))

SameAs(w, root, package) ==
    /\ IsPrefix(root, w.path)
    /\ \E p \in package :
          /\ IsPrefix(ManifestRoot(package), p.path)
          /\ Inner(ManifestRoot(package), p.path) = Inner(root, w.path) /\ p.body = w.body

\* differences_from_archive: the local files that are not as they are stored.
Differs(nodes, package) ==
    {w \in Walked(nodes) : Last(w.path) # Settings /\ ~SameAs(w, ManifestRoot(nodes), package)}

\* The verdict on one mod of the folder.
StoredOf(nodes, uid) ==
    IF uid \notin DOMAIN StoredAs THEN "none"
    ELSE IF ~StoredAs[uid].same THEN "other"
    ELSE IF Differs(nodes, StoredAs[uid].files) = {} THEN "exact" ELSE "same_version"

\* The last mod of the version stored decides for the folder.
Verdicts(nodes) ==
    LET each == {StoredOf(nodes, u) : u \in IdsIn(nodes)} IN
    IF each \cap {"exact", "same_version"} # {} THEN each \cap {"exact", "same_version"}
    ELSE IF "other" \in each THEN {"other"} ELSE {"none"}

NotShown == [mark |-> <<>>, stored |-> <<>>, problems |-> {}, seen |-> <<>>]

Scan ==
    /\ job.at = "idle"
    /\ \E v \in [Adoptables(live) -> {"none", "other", "exact", "same_version"}] :
          /\ \A f \in DOMAIN v : v[f] \in Verdicts(live[f])
          /\ shown' = [mark |-> Mark(live), stored |-> v, seen |-> live,
                       problems |-> {f \in Adoptables(live) : HasProblem(live[f])}]
    /\ UNCHANGED <<live, job, installed, told, edits>>

\* The user, a sync tool or another manager changes the folder.
Edit(f) ==
    /\ edits < MaxEdits /\ edits' = edits + 1 /\ job.at # "done"
    /\ \/ \E n \in live[f] : live' = [live EXCEPT ![f] = @ \ {n}]
       \/ \E n \in Changes : live' = [live EXCEPT ![f] =
              {k \in @ : ~IsPrefix(k.path, n.path) /\ ~IsPrefix(n.path, k.path)} \union {n}]
    /\ UNCHANGED <<shown, job, installed, told>>

-----------------------------------------------------------------------------
(* Adopting what was chosen. *)

\* ignored_by_smapi: the folder, or one above the manifest, starts with a dot.
Skipped(f, n) == f \in Dotted \/ \E i \in 1..Len(n.path) - 1 : n.path[i] \in Dotted

SkippedIn(f) == {n.uid : n \in {k \in ScanReads(live[f]) : Skipped(f, k)}}

ClashAmong(chosen) == \E f \in chosen : DuplicatesOf(live, f) \cap chosen # {}

\* adopt: scanned again, and refused when it is not as reviewed. The page
\* offers the mods of its review.
BeginAdoption(chosen) ==
    /\ job.at = "idle" /\ shown # NotShown
    /\ Mark(live) = shown.mark /\ ~ClashAmong(chosen)
    /\ chosen \subseteq DOMAIN shown.stored /\ chosen \subseteq Adoptables(live)
    /\ job' = [at |-> "adopting", left |-> chosen, was |-> live, edits |-> edits,
               ignored |-> [f \in Adoptables(live) |-> SkippedIn(f)]]
    /\ UNCHANGED <<live, shown, installed, told, edits>>

\* The files that go in: package writes what walk finds, and the install
\* takes what is under the folder that holds the manifests. The profile's own
\* folder has a name of its own, without the dot.
Placed(nodes) ==
    {[n EXCEPT !.path = Inner(ManifestRoot(nodes), n.path)] :
        n \in {k \in Walked(nodes) : IsPrefix(ManifestRoot(nodes), k.path)}}
\* What an install refuses (Archives), and a mod the profile has already.
Installable(nodes) ==
    LET ms == ManifestsIn(nodes) IN
    /\ ms # {} /\ \A m \in ms : ReadsAsSmapi(m)
    /\ \A m, k \in ms : m # k => m.uid # k.uid /\ ~IsPrefix(Front(m.path), Front(k.path))
    /\ \A g \in DOMAIN installed : \A m \in ms, k \in installed[g].files : m.uid # k.uid

\* Mutant: what could not be turned off is not said.
NoteNever(f, off) == {}

\* The note of a part that stayed on.
NoteOf(f, off) == IF off = job.ignored[f] THEN {} ELSE {f}

\* package, install, and turn_off of what SMAPI skips, as far as it goes.
AdoptFolder(f) ==
    /\ job.at = "adopting" /\ f \in job.left /\ Installable(live[f])
    /\ \E failed \in BOOLEAN, off \in SUBSET job.ignored[f] :
          /\ failed \/ off = job.ignored[f]
          /\ installed' = [g \in DOMAIN installed \union {f} |->
                              IF g = f THEN [files |-> Placed(live[f]), off |-> off] ELSE installed[g]]
          /\ told' = told \union NoteOf(f, off)
    /\ job' = [job EXCEPT !.left = @ \ {f}]
    /\ UNCHANGED <<live, shown, edits>>

\* What is left cannot be installed, or a call failed: each is told, and the
\* set ends.
EndAdoption ==
    /\ job.at = "adopting"
    /\ told' = told \union job.left
    /\ job' = [job EXCEPT !.at = "done", !.left = {}]
    /\ UNCHANGED <<live, shown, installed, edits>>

AdoptionInit ==
    /\ live \in {t \in [DOMAIN Folders -> UNION {Folders[f] : f \in DOMAIN Folders}] :
                    \A f \in DOMAIN t : t[f] \in Folders[f]}
    /\ shown = NotShown /\ installed = <<>> /\ told = {} /\ edits = 0
    /\ job = [at |-> "idle", left |-> {}, ignored |-> <<>>, was |-> <<>>, edits |-> 0]
AdoptionNext ==
    \/ Scan \/ EndAdoption
    \/ \E f \in DOMAIN Folders : Edit(f) \/ AdoptFolder(f)
    \/ \E chosen \in (SUBSET DOMAIN Folders) \ {{}} : BeginAdoption(chosen)
AdoptionSpec == AdoptionInit /\ [][AdoptionNext]_adoptionVars

-----------------------------------------------------------------------------
\* Nobody has edited the folder since the adoption began.
Untouched == edits = job.edits

\* The values the variables take.
AdoptionTypeOK ==
    /\ DOMAIN live = DOMAIN Folders /\ edits \in 0..MaxEdits
    /\ job.at \in {"idle", "adopting", "done"} /\ job.left \subseteq DOMAIN Folders
    /\ DOMAIN installed \subseteq DOMAIN Folders /\ told \subseteq DOMAIN Folders

\* A mod SMAPI skips in the folder, and the scan could read, is off in the new
\* profile, or its part says that it is on, or it keeps a dot above it there.
SkippedStaysOff ==
    \A f \in DOMAIN installed : \A n \in ScanReads(job.was[f]) :
        f \in Dotted \/ (\E i \in 1..Len(n.path) - 1 : n.path[i] \in Dotted) =>
            \/ n.uid \in installed[f].off \/ f \in told
            \/ \A k \in installed[f].files : k.uid = n.uid => \E i \in 1..Len(k.path) - 1 : k.path[i] \in Dotted

\* A mod SMAPI loads in the folder is not turned off.
LoadedStaysOn ==
    \A f \in DOMAIN installed : Untouched =>
      \A k \in ManifestsIn(live[f]) :
        f \notin Dotted /\ (\A i \in 1..Len(k.path) - 1 : k.path[i] \notin Dotted) => k.uid \notin installed[f].off

\* Files called exactly as stored are: each of them is in the package, and
\* nothing but settings is passed over.
ExactIsStored ==
    \A f \in DOMAIN shown.stored :
      shown.stored[f] = "exact" =>
        \E u \in IdsIn(shown.seen[f]) \cap DOMAIN StoredAs :
           \A w \in Walked(shown.seen[f]) : w.uid = NoId /\ Last(w.path) # Settings =>
              \E p \in StoredAs[u].files : p.body = w.body /\ Last(p.path) = Last(w.path)

\* What is adopted has the names and sizes that were reviewed and, unless the
\* review says something is wrong, all of the folder's mod.
AdoptedAsReviewed ==
    \A f \in DOMAIN installed :
      Untouched =>
        /\ {<<n.path, n.size>> : n \in installed[f].files} =
             {<<Inner(ManifestRoot(live[f]), n.path), n.size>> :
                n \in {k \in Walked(shown.seen[f]) : IsPrefix(ManifestRoot(live[f]), k.path)}}
        /\ f \notin shown.problems =>
             \A n \in shown.seen[f] : IsPrefix(ManifestRoot(live[f]), n.path) =>
                \E k \in installed[f].files : k.path = Inner(ManifestRoot(live[f]), n.path)

\* No mod is adopted twice, and no folder that was left alone fails for
\* holding what another chosen one holds.
OneOfEach ==
    /\ \A f, g \in DOMAIN installed : f # g =>
         \A m \in installed[f].files, k \in installed[g].files : m.uid = k.uid => m.uid = NoId
    /\ \A f \in job.left, g \in DOMAIN installed :
         Untouched =>
           \A m \in ScanReads(live[f]), k \in ScanReads(live[g]) : m.uid # k.uid

\* What is adopted is the folder that was reviewed, each mod once, on or off as
\* it was.
AdoptionIsFaithful ==
    /\ AdoptionTypeOK /\ SkippedStaysOff /\ LoadedStaysOn /\ ExactIsStored
    /\ AdoptedAsReviewed /\ OneOfEach
=============================================================================
