------------------------------ MODULE LogReader ------------------------------
(***************************************************************************)
(* What the manager reads out of SMAPI's log while a session runs.          *)
(*                                                                          *)
(* SMAPI writes its log a line at a time and the manager reads the whole    *)
(* file at moments of its own choosing, so every prefix of a log is read    *)
(* sooner or later (manager-infra log_reader/mod.rs).  Two readers go over  *)
(* the lines: one for the session's evidence, one, shared with the report   *)
(* on any log (manager-core smapi/log_summary.rs), for the mods SMAPI       *)
(* skipped, the updates it offers and the errors it and the mods printed.   *)
(*                                                                          *)
(* A line is what the readers tell lines apart by: who wrote it, at which   *)
(* level, whether it is indented, what it says and which mod it names.      *)
(* Session keeps, in Sessions, what the verdict does to a session.          *)
(***************************************************************************)
EXTENDS Naturals, FiniteSets, Sequences
LOCAL INSTANCE SequencesExt

CONSTANTS
    LogMods,      \* mods: records of a UniqueID, a name and a version
    Expectations, \* the sets of mods a session may expect to see
    NoMod         \* the mod of a line that names none

VARIABLES
    start,   \* the start of the game: what SMAPI will do and print
    printed, \* how many of its lines are in the file
    verdict     \* what the last reading said

logVars == <<start, printed, verdict>>

-----------------------------------------------------------------------------
(* The log of one start.  `used` is the Mods folder SMAPI really used,      *)
(* `shown` how its path is written, `fate` what became of each mod, `traced`*)
(* whether the loading trace is in the log, `talk` whether a mod writes     *)
(* between SMAPI's update notices, which another thread prints.             *)

LaunchedAt == 3                     \* in half seconds
Second(t) == t \div 2
Before == [none |-> 4, earlier |-> 0, justBefore |-> 2]

Starts ==
    [used : {"asked", "other"}, shown : {"plain", "home", "linked", "anonymised", "absent"},
     fate : [LogMods -> {"absent", "loaded", "skipped"}], traced : BOOLEAN,
     talk : BOOLEAN, expected : Expectations, left : DOMAIN Before]

SmapiLine(level, indented, says, mod) ==
    [from |-> "SMAPI", level |-> level, indented |-> indented, says |-> says, mod |-> mod]
Talk(mod) == [from |-> mod.name, level |-> "ERROR", indented |-> FALSE,
              says |-> "its own words", mod |-> mod]

InOrder(s, fate) == SetToSeq({m \in LogMods : s.fate[m] = fate})
Each(mods, Line(_)) == [i \in DOMAIN mods |-> Line(mods[i])]

\* SMAPI tries every mod, lists those it loaded, then those it skipped, then
\* warns about mods that change the game's code, then offers updates.
Printed(s) ==
    LET loaded == InOrder(s, "loaded")
        skipped == InOrder(s, "skipped")
        Trace(m) == SmapiLine("TRACE", TRUE, "identity", m)
        Entry(m) == SmapiLine("INFO", TRUE, "entry", m)
        Skip(m) == SmapiLine("ERROR", TRUE, "entry", m)
        Detail(m) == SmapiLine("TRACE", TRUE, "detail", m)
        Patch(m) == SmapiLine("WARN", TRUE, "entry", m)
        Offer(m) == SmapiLine("ALERT", TRUE, "offer", m)
    IN  (IF s.shown = "absent" THEN <<>> ELSE <<SmapiLine("INFO", FALSE, "mods folder", NoMod)>>)
        \o <<SmapiLine("TRACE", FALSE, "started", NoMod)>>
        \o (IF s.traced THEN Each(loaded \o skipped, Trace) ELSE <<>>)
        \o <<SmapiLine("INFO", FALSE, "loaded", NoMod)>> \o Each(loaded, Entry)
        \o <<SmapiLine("INFO", FALSE, "loaded nothing", NoMod)>>
        \o (IF skipped = <<>> THEN <<>>
            ELSE <<SmapiLine("ERROR", TRUE, "skipped", NoMod),
                   SmapiLine("ERROR", TRUE, "sentence", NoMod)>>
                 \o FlattenSeq([i \in DOMAIN skipped |-> <<Skip(skipped[i]), Detail(skipped[i])>>])
                 \o <<SmapiLine("ERROR", FALSE, "blank", NoMod)>>)
        \o (IF loaded = <<>> THEN <<>>
            ELSE <<SmapiLine("WARN", TRUE, "patched", NoMod)>> \o Each(loaded, Patch)
                 \o <<SmapiLine("ALERT", FALSE, "updates", NoMod)>>
                 \o (IF s.talk THEN <<Offer(loaded[1]), Talk(loaded[1])>> \o Each(Tail(loaded), Offer)
                     ELSE Each(loaded, Offer) \o <<Talk(loaded[1])>>))

\* What is left of an earlier session: a log in which all went well.
OldLog(s) ==
    IF s.left = "none" THEN <<>>
    ELSE Printed([s EXCEPT !.used = "asked", !.shown = "plain", !.traced = TRUE, !.talk = FALSE,
                           !.fate = [m \in LogMods |-> IF m \in s.expected THEN "loaded" ELSE "absent"]])

\* SMAPI starts its file anew, so an earlier log is there only until then.
Anew(s) == printed > 0
LogFile(s) == IF Anew(s) THEN SubSeq(Printed(s), 1, printed) ELSE OldLog(s)
StartTime(s) == IF Anew(s) THEN LaunchedAt + 1 ELSE Before[s.left]

-----------------------------------------------------------------------------
(* The evidence of the session.                                             *)

\* SMAPI writes the home folder as ~, which is put back; a path without its
\* user, or none, says nothing; a link and its target are one folder.
FolderEvidence(s, line) ==
    IF line = NoMod \/ s.shown = "anonymised" THEN "unreadable"
    ELSE IF s.used = "asked" THEN "matched" ELSE "different"

NothingRead == [matched |-> FALSE, seesFolder |-> FALSE, finished |-> FALSE, inList |-> FALSE,
                entries |-> {}, ids |-> {}, from |-> 0, at |-> 0]

OfThisLaunch(at) == Second(at) >= Second(LaunchedAt)

\* The loading trace ties a name to a UniqueID.
IsIdentity(line) == line.level = "TRACE" /\ line.says = "identity"

\* One line of the file, for the reader of the session.
ReadForSession(s, acc, line) ==
    LET here == [acc EXCEPT !.at = @ + 1]
        shut == [here EXCEPT !.inList = @ /\ (line.indented \/ line.says = "blank")]
    IN  IF line.from # "SMAPI" THEN here
        ELSE IF line.says = "mods folder" THEN [here EXCEPT !.seesFolder = TRUE]
        ELSE IF line.says = "started" THEN
            IF OfThisLaunch(StartTime(s))
              THEN [NothingRead EXCEPT !.matched = TRUE, !.seesFolder = here.seesFolder,
                                       !.from = here.at, !.at = here.at]
              ELSE here
        ELSE IF ~acc.matched THEN here
        ELSE IF line.says \in {"loaded", "loaded nothing"}
            THEN [here EXCEPT !.finished = TRUE, !.inList = line.says = "loaded"]
        ELSE IF shut.inList /\ line.indented /\ line.level = "INFO"
            THEN [shut EXCEPT !.entries = @ \union {[name |-> line.mod.name, version |-> line.mod.version]}]
        ELSE IF IsIdentity(line)
            THEN [shut EXCEPT !.ids = @ \union {[name |-> line.mod.name, id |-> line.mod.id]}]
        ELSE shut

ReadSession(s, file) ==
    LET Step(acc, line) == ReadForSession(s, acc, line)
    IN  FoldLeft(Step, NothingRead, file)

-----------------------------------------------------------------------------
(* The summary of a log.                                                    *)

NoSummary == [section |-> "none", skipped |-> {}, offers |-> {}, counted |-> <<>>]

\* A line that opens or belongs to no block: an error is counted for who
\* wrote it.
Counted(acc, line) ==
    IF line.says = "blank" \/ line.level # "ERROR" THEN acc
    ELSE [acc EXCEPT !.counted = Append(@, line.from)]

\* A line of the skipped block: the ruler and its sentence, an entry, the
\* detail of one; anything else ends the block.
InSkipped(acc, line) ==
    IF line.says = "sentence" \/ (line.level = "TRACE" /\ line.says = "detail") THEN acc
    ELSE IF line.level = "ERROR" /\ line.says = "entry"
        THEN [acc EXCEPT !.skipped = @ \union {[name |-> line.mod.name, version |-> line.mod.version]}]
    ELSE Counted([acc EXCEPT !.section = "none"], line)

InUpdates(acc, line) ==
    IF line.says = "offer" THEN [acc EXCEPT !.offers = @ \union {line.mod}] ELSE acc

Summarized(acc, line) ==
    LET open == IF line.indented \/ line.says = "blank" THEN acc
                ELSE [acc EXCEPT !.section = "none"]
    IN  IF line.from = "SMAPI" /\ line.says \in {"skipped", "updates"}
            THEN [open EXCEPT !.section = line.says]
        ELSE IF line.indented /\ open.section = "skipped" THEN InSkipped(open, line)
        ELSE IF line.indented /\ open.section = "updates" THEN InUpdates(open, line)
        ELSE Counted(open, line)

Summary(file) == FoldLeft(Summarized, NoSummary, file)

-----------------------------------------------------------------------------
(* The verdict on one session.                                              *)

SameNameAndVersion(a, b) == a.name = b.name /\ a.version = b.version

\* Mutant: two expected mods that look the same in the list are not told apart.
EvidenceByName(s, read, skipped, folder, m) ==
    LET Identified == [name |-> m.name, id |-> m.id] \in read.ids
        Listed == \E e \in read.entries : SameNameAndVersion(e, m)
    IN  IF \E k \in skipped : SameNameAndVersion(k, m) THEN "skipped"
        ELSE IF Listed /\ Identified /\ folder = "matched" THEN "confirmed"
        ELSE IF Listed THEN "unconfirmable"
        ELSE "not seen"

\* What happened to one expected mod, according to the log.
ModEvidence(s, read, skipped, folder, m) ==
    LET Unambiguous == \A o \in s.expected : SameNameAndVersion(o, m) => o = m
        Identified == [name |-> m.name, id |-> m.id] \in read.ids
        Listed == \E e \in read.entries : SameNameAndVersion(e, m)
    IN  IF \E k \in skipped : SameNameAndVersion(k, m) THEN "skipped"
        ELSE IF Listed /\ Unambiguous /\ Identified /\ folder = "matched" THEN "confirmed"
        ELSE IF Listed THEN "unconfirmable"
        ELSE "not seen"

NoVerdict(why) == [matched |-> FALSE, outcome |-> "none", counted |-> {}, skipped |-> {},
                 unconfirmed |-> {}, why |-> why]

Evaluate(s, file) ==
    LET read == ReadSession(s, file)
        folder == FolderEvidence(s, IF read.seesFolder THEN "line" ELSE NoMod)
        skipped == Summary(SubSeq(file, read.from, Len(file))).skipped
        Found(what) == {m \in s.expected : ModEvidence(s, read, skipped, folder, m) = what}
    IN  IF ~read.matched THEN NoVerdict("not this session")
        ELSE [matched |-> TRUE, counted |-> Found("confirmed"), skipped |-> skipped, why |-> "",
              unconfirmed |-> Found("not seen") \union Found("unconfirmable"),
              outcome |->
                CASE folder = "different" -> "wrong folder"
                  [] folder # "different" /\ ~read.finished -> "none"
                  [] folder = "unreadable" /\ read.finished -> "unavailable"
                  [] folder = "matched" /\ read.finished ->
                       IF skipped # {} \/ Found("not seen") # {} THEN "partial"
                       ELSE IF Found("unconfirmable") # {} THEN "unavailable" ELSE "confirmed"]

-----------------------------------------------------------------------------
LogInit ==
    /\ start \in Starts
    /\ printed = 0
    /\ verdict = NoVerdict("not read yet")

\* SMAPI writes one more line.
WriteLine ==
    /\ printed < Len(Printed(start))
    /\ printed' = printed + 1
    /\ UNCHANGED <<start, verdict>>

\* The file as it was at the launch says nothing about the session, whatever
\* is in it (the size and the time of the last change were kept).
SameAsBefore == ~Anew(start) /\ start.left # "none"

VerifySession ==
    /\ verdict' = IF LogFile(start) = <<>> THEN NoVerdict("no log yet")
               ELSE IF SameAsBefore THEN NoVerdict("log has not changed")
               ELSE Evaluate(start, LogFile(start))
    /\ UNCHANGED <<start, printed>>

LogNext == WriteLine \/ VerifySession

LogSpec == LogInit /\ [][LogNext]_logVars

-----------------------------------------------------------------------------
Whole == verdict.matched /\ printed = Len(Printed(start))
\* The whole log was read: the verdict on it, whenever it was read.
OnWhole == Evaluate(start, Printed(start))
FolderShown == start.shown \in {"plain", "home", "linked"}
Fated(fate) == {m \in LogMods : start.fate[m] = fate}
Twin(m) ==
    \E o \in LogMods \ start.expected : SameNameAndVersion(o, m) /\ start.fate[o] = "loaded"
Labels(mods) == {[name |-> m.name, version |-> m.version] : m \in mods}

LogReaderTypeOK ==
    /\ DOMAIN start.fate = LogMods /\ start.expected \in Expectations
    /\ printed \in Nat /\ (printed > 0 => printed <= Len(Printed(start)))
    /\ verdict.outcome \in {"none", "confirmed", "partial", "wrong folder", "unavailable"}
    /\ verdict.counted \subseteq start.expected
    /\ verdict.skipped \subseteq Labels(LogMods)

\* A mod is counted as loaded, at any moment of the log, only when SMAPI loaded
\* that very mod from the session's own folder.  Only two mods of one name and
\* version can deceive a reading of half a log: the other one is in the list and
\* the failure of this one is not printed yet.
CountedIsLoaded ==
    \A m \in verdict.counted :
        /\ start.used = "asked" /\ FolderShown
        /\ start.fate[m] = "loaded" \/ (Twin(m) /\ start.fate[m] = "skipped" /\ m \notin OnWhole.counted)

\* What the log of an earlier session says is never taken for this one's, not
\* even when that session began within the second of this launch.
OldLogSaysNothing == printed = 0 => ~verdict.matched

\* On the whole log the verdict is what happened: all is confirmed only when
\* every expected mod was loaded from the session's folder and SMAPI skipped
\* none; less is said only when a mod was skipped or is missing; the wrong folder
\* is named exactly when SMAPI used another; and nothing is held back when the
\* log can show it.
VerdictIsTrue ==
    (verdict.matched /\ printed = Len(Printed(start)) /\ verdict = OnWhole) =>
        /\ verdict.outcome = "wrong folder" <=> (start.used = "other" /\ FolderShown)
        /\ verdict.outcome = "confirmed" =>
             start.expected \subseteq Fated("loaded") /\ Fated("skipped") = {}
        /\ verdict.outcome = "partial" =>
             Fated("skipped") # {} \/ ~(start.expected \subseteq Fated("loaded"))
        /\ (/\ start.used = "asked" /\ FolderShown /\ start.traced /\ Fated("skipped") = {}
            /\ start.expected \subseteq Fated("loaded")
            /\ \A a, b \in start.expected : SameNameAndVersion(a, b) => a = b)
           => verdict.outcome = "confirmed"

\* A log that does not say which folder was used never counts for or against
\* the mods.
DoubtIsNoVerdict ==
    (verdict.matched /\ start.shown \in {"anonymised", "absent"}) =>
        verdict.outcome \in {"none", "unavailable"} /\ verdict.counted = {}

\* The mods reported as skipped are those SMAPI skipped, all of them once their
\* block is printed, whatever else it prints with the same indentation.
SkippedAreNamed ==
    verdict.matched =>
        /\ verdict.skipped \subseteq Labels(Fated("skipped"))
        /\ (printed = Len(Printed(start)) /\ verdict = OnWhole) => verdict.skipped = Labels(Fated("skipped"))

\* The summary of a whole log counts the mods' own errors and no line of
\* SMAPI's blocks, keeps the first ones, and names every update offered
\* unless a mod wrote in between.
SummaryIsTrue ==
    LET sum == Summary(LogFile(start))
    IN  (printed > 0 /\ printed = Len(Printed(start))) =>
            /\ \A i \in DOMAIN sum.counted : sum.counted[i] # "SMAPI"
            /\ Len(sum.counted) = IF Fated("loaded") = {} THEN 0 ELSE 1
            /\ sum.offers \subseteq Fated("loaded")
            /\ ~start.talk => sum.offers = Fated("loaded")

\* What is said of a session from its log is so.
LogIsReadRight ==
    /\ LogReaderTypeOK /\ CountedIsLoaded /\ OldLogSaysNothing /\ VerdictIsTrue
    /\ DoubtIsNoVerdict /\ SkippedAreNamed /\ SummaryIsTrue
=============================================================================
