------------------------------- MODULE Archives -------------------------------
(* A chosen archive on its way into a staging folder (manager-infra           *)
(* archive/mod.rs) and the check that the folder still holds what was written *)
(* (archive/staged_verifier.rs), on a host that keeps two spellings of a name *)
(* apart or not. Paths are sequences of names; ManifestNames are the          *)
(* spellings of manifest.json, Key the name as Windows compares it.           *)
EXTENDS Naturals, Sequences, FiniteSets

LOCAL INSTANCE SequencesExt
LOCAL INSTANCE FiniteSetsExt

CONSTANTS
    Chosen,          \* the archives a user may choose: sets of entries
    Key,             \* name -> the name Windows takes it for
    ManifestNames, NoDll,
    MaxEntries, MaxEntryDepth, MaxUncompressed,   \* the limits of install/mod.rs
    RatioFloor, MaxRatio,
    MaxDisturbed     \* bound: changes made to the staged files

ASSUME ArchivesAssumption ==
    /\ {MaxEntries, MaxEntryDepth, MaxUncompressed, RatioFloor, MaxRatio, MaxDisturbed} \subseteq Nat
    /\ NoDll \notin DOMAIN Key

VARIABLES
    archive,      \* the entries: [path, dir, link, fits, says, holds, sound, dll]
    packed,       \* the size of the archive itself
    folds,        \* whether the host takes two spellings for one name
    phase,
    left,         \* the entries not looked at yet
    tree,         \* the staged folder: nodes [at, kind, body, size]
    inventory,    \* trusted_inventory: [at, kind, body, size]
    outside,      \* not_installed
    disturbed

archiveVars == <<archive, packed, folds, phase, left, tree, inventory, outside, disturbed>>

Folded(p) == [i \in DOMAIN p |-> Key[p[i]]]
SameOnDisk(p, q) == IF folds THEN Folded(p) = Folded(q) ELSE p = q
Parent(p) == Front(p)
Above(p) == {SubSeq(p, 1, i) : i \in 1..Len(p) - 1}
FilesOf(arc) == {e \in arc : ~e.dir}
ManifestsOf(arc) == {e \in arc : Last(e.path) \in ManifestNames}

-----------------------------------------------------------------------------
(* The first pass: the whole archive is judged before anything is written. *)

\* An archive that opens far beyond its own size.
Expands(total) ==
    /\ total > RatioFloor
    /\ packed = 0 \/ total \div packed > MaxRatio

\* Two files with one name for Windows; two entries of one name are one for
\* the zip library.
Collides(arc) == \E e, f \in FilesOf(arc) : e # f /\ Folded(e.path) = Folded(f.path)

\* A manifest inside the folder of another one.
Nests(arc) ==
    \E e, f \in ManifestsOf(arc) : IsStrictPrefix(Parent(e.path), Parent(f.path))

Refused(arc) ==
    LET total == MapThenSumSet(LAMBDA e : e.says, arc) IN
    \/ Cardinality(arc) > MaxEntries
    \/ \E e \in arc : Len(e.path) > MaxEntryDepth \/ ~e.fits \/ e.link
    \/ Collides(arc)
    \/ total > MaxUncompressed \/ Expands(total)
    \/ ManifestsOf(arc) = {}
    \/ \E e \in ManifestsOf(arc) : e.dir \/ ~e.sound
    \/ Nests(arc)

\* Refused at once, for what it is or for want of space on the drive.
Judge ==
    /\ phase = "chosen"
    /\ phase' \in IF Refused(archive) THEN {"refused"} ELSE {"writing", "refused"}
    /\ UNCHANGED <<archive, packed, folds, left, tree, inventory, outside, disturbed>>

-----------------------------------------------------------------------------
(* The second pass: entry by entry, in the archive's order, whichever it is. *)

\* What is staged: the mod's own folder, or the deepest folder that holds
\* every one of several mods.
Root(arc) == LongestCommonPrefix({Parent(e.path) : e \in ManifestsOf(arc)})
Within(e) == IsPrefix(Root(archive), e.path)
Rel(e) == SubSeq(e.path, Len(Root(archive)) + 1, Len(e.path))

LeftOut(e) == IF e.dir THEN {} ELSE {e.path}

\* The path as it is on the disk, where a folder may be spelled otherwise.
OnDisk(p) ==
    LET There(i) == {n \in tree : Len(n.at) = i /\ SameOnDisk(n.at, SubSeq(p, 1, i))} IN
    [i \in DOMAIN p |-> IF There(i) = {} THEN p[i] ELSE (CHOOSE n \in There(i) : TRUE).at[i]]
NodeAt(p) == {n \in tree : SameOnDisk(n.at, p)}
Folder(p) == [at |-> p, kind |-> "dir", body |-> <<>>, size |-> 0]
NewFolders(ps) == {Folder(OnDisk(p)) : p \in {q \in ps : NodeAt(q) = {}}}
Blocked(ps) == \E p \in ps : \E n \in NodeAt(p) : n.kind # "dir"
Entry(e) == [at |-> Rel(e), kind |-> IF e.dir THEN "dir" ELSE "file",
             body |-> IF e.dir THEN <<>> ELSE e.path, size |-> IF e.dir THEN 0 ELSE e.holds]
Written == MapThenSumSet(LAMBDA n : n.size, tree)

\* The headers may lie: what is really written is counted too.
TooMuch(e) == Written + e.holds > MaxUncompressed

\* StagingCleanup: the staging folder goes, unless something in it is held.
Refuse ==
    /\ phase' = "refused" /\ tree' \in {{}, tree}
    /\ UNCHANGED <<left, inventory, outside>>

WriteFile(e) ==
    IF ~e.sound \/ Blocked(Above(Rel(e))) \/ (\E n \in NodeAt(Rel(e)) : n.kind = "dir") \/ TooMuch(e)
    THEN Refuse
    ELSE /\ tree' = {n \in tree : ~SameOnDisk(n.at, Rel(e))} \union NewFolders(Above(Rel(e)))
                       \union {[Entry(e) EXCEPT !.at = OnDisk(Rel(e))]}
         /\ inventory' = inventory \union {Entry(e)}
         /\ UNCHANGED <<phase, outside>>

MakeFolder(e) ==
    IF Blocked(Above(Rel(e)) \union {Rel(e)}) THEN Refuse
    ELSE /\ tree' = tree \union NewFolders(Above(Rel(e)) \union {Rel(e)})
         /\ inventory' = inventory \union {Entry(e)}
         /\ UNCHANGED <<phase, outside>>

Extract(e) ==
    /\ phase = "writing" /\ e \in left /\ left' = left \ {e}
    /\ IF ~Within(e)
       THEN outside' = outside \union LeftOut(e) /\ UNCHANGED <<phase, tree, inventory>>
       ELSE IF Rel(e) = <<>> THEN UNCHANGED <<phase, tree, inventory, outside>>
       ELSE IF e.dir THEN MakeFolder(e) ELSE WriteFile(e)
    /\ UNCHANGED <<archive, packed, folds, disturbed>>

\* The disk refuses a write.
WriteFails ==
    /\ phase = "writing" /\ Refuse
    /\ UNCHANGED <<archive, packed, folds, disturbed>>

\* The manifest names a file that is not beside it.
LacksDll(e) == e.dll # NoDll /\ NodeAt(Parent(Rel(e)) \o <<e.dll>>) = {}

Finish ==
    /\ phase = "writing" /\ left = {}
    /\ IF \E e \in ManifestsOf(archive) : LacksDll(e) THEN Refuse
       ELSE phase' = "staged" /\ UNCHANGED <<left, tree, inventory, outside>>
    /\ UNCHANGED <<archive, packed, folds, disturbed>>

-----------------------------------------------------------------------------
(* The staged folder waits for a commit, or for a recovery, and is verified. *)

\* A scanner, a sync tool or the user gets at the staged files.
Disturb ==
    /\ phase = "staged" /\ disturbed < MaxDisturbed /\ disturbed' = disturbed + 1
    /\ \/ \E n \in tree : tree' = {k \in tree : ~IsPrefix(n.at, k.at)}
       \/ \E n \in tree : n.kind = "file" /\ \E s \in {n.size, n.size + 1} :
             tree' = (tree \ {n}) \union {[n EXCEPT !.body = <<"other">>, !.size = s]}
       \/ \E n \in tree :
             tree' = {k \in tree : ~IsPrefix(n.at, k.at)} \union {[n EXCEPT !.kind = "link"]}
       \/ \E p \in {<<>>} \union {n.at : n \in {k \in tree : k.kind = "dir"}} :
            \E new \in {[at |-> Append(p, "new"), kind |-> "file", body |-> <<"other">>, size |-> 0],
                        Folder(Append(p, "new"))} :
               tree' = tree \union {new}
    /\ UNCHANGED <<archive, packed, folds, phase, left, inventory, outside>>

\* Mutant: the staged files are compared by size alone.
MatchesBySize(n, e) == n.kind = e.kind /\ n.size = e.size

Matches(n, e) == n.kind = e.kind /\ n.size = e.size /\ n.body = e.body

ExpectedFolders(paths) == UNION {Above(p) : p \in paths}

Verified ==
    LET paths == {e.at : e \in inventory} IN
    /\ inventory # {}
    /\ \A e \in inventory : \E n \in NodeAt(e.at) : Matches(n, e)
    /\ \A n \in tree :
          /\ n.kind # "link"
          /\ n.at \in IF n.kind = "file" THEN paths ELSE paths \union ExpectedFolders(paths)

Verify ==
    /\ phase = "staged"
    /\ phase' = IF Verified THEN "verified" ELSE "rejected"
    /\ UNCHANGED <<archive, packed, folds, left, tree, inventory, outside, disturbed>>

ArchivesInit ==
    /\ archive \in Chosen /\ packed \in 0..1 /\ folds \in BOOLEAN
    /\ phase = "chosen" /\ left = archive
    /\ tree = {} /\ inventory = {} /\ outside = {} /\ disturbed = 0
ArchivesNext ==
    \/ Judge \/ WriteFails \/ Finish \/ Disturb \/ Verify
    \/ \E e \in left : Extract(e)
ArchivesSpec == ArchivesInit /\ [][ArchivesNext]_archiveVars

-----------------------------------------------------------------------------
Reached == phase \in {"staged", "verified", "rejected"}
\* No folder of the archive is spelled in two ways.
OneSpelling ==
    \A p, q \in UNION {Above(e.path) \union {e.path} : e \in archive} : Folded(p) = Folded(q) => p = q

\* The values the variables take.
ArchivesTypeOK ==
    /\ left \subseteq archive /\ packed \in 0..1 /\ disturbed \in 0..MaxDisturbed
    /\ phase \in {"chosen", "refused", "writing", "staged", "verified", "rejected"}
    /\ \A n \in tree : n.kind \in {"dir", "file", "link"} /\ n.size \in Nat
    /\ outside \subseteq {e.path : e \in archive}

\* Every file of a staged archive is either in the inventory or named as not
\* installed, never both, and no two share a place.
EveryFileAccounted ==
    Reached =>
      /\ \A e \in FilesOf(archive) :
            (e.path \in outside) # (\E i \in inventory : i.kind = "file" /\ i.body = e.path)
      /\ \A i, j \in inventory : i.kind = "file" /\ j.kind = "file" /\ SameOnDisk(i.at, j.at) => i = j

\* What passes the verification is the archive, file for file, and nothing
\* else: a file changed, added, taken or made a link since is never installed.
VerifiedIsTheArchive ==
    phase = "verified" =>
      /\ {n \in tree : n.kind # "dir"} =
            {[Entry(e) EXCEPT !.at = OnDisk(@)] : e \in {f \in FilesOf(archive) : Within(f)}}
      /\ \A n \in tree : n.kind = "dir" =>
            \E e \in archive : Within(e) /\ \E p \in Above(Rel(e)) \union {Rel(e)} : SameOnDisk(n.at, p)

\* Nothing that was left alone is refused by the verification, on a host that
\* keeps spellings apart or when the archive uses one.
UntouchedPasses == phase = "staged" /\ disturbed = 0 /\ (~folds \/ OneSpelling) => Verified

\* Each mod of a staged archive has its manifest and the file that manifest
\* names, in one folder, and none lies inside another's.
ModsAreWhole ==
    phase = "staged" /\ disturbed = 0 =>
      \A e \in ManifestsOf(archive) :
        /\ \E n \in NodeAt(Rel(e)) : n.kind = "file" /\ n.body = e.path
        /\ e.dll # NoDll => NodeAt(Parent(Rel(e)) \o <<e.dll>>) # {}
ModsAreApart ==
    Reached /\ OneSpelling =>
      \A e, f \in ManifestsOf(archive) : ~IsStrictPrefix(Folded(Parent(e.path)), Folded(Parent(f.path)))

\* Whatever the headers say, no more is ever written than the limit.
NeverTooMuch == disturbed = 0 => Written <= MaxUncompressed

\* From the archive to what is installed nothing is lost, added or mixed up.
ArchivesAreFaithful ==
    /\ ArchivesTypeOK /\ EveryFileAccounted /\ VerifiedIsTheArchive /\ UntouchedPasses
    /\ ModsAreWhole /\ ModsAreApart /\ NeverTooMuch
=============================================================================
