----------------------------- MODULE WindowJobs -----------------------------
(* The window and the threads behind it: presses in the front end           *)
(* (shared/api/invoke.ts), the jobs that carry them out one after the other *)
(* and the answers the window asks for (background.rs), closing while       *)
(* changes are waiting, and saving where the window is (window.rs).         *)
(*                                                                          *)
(* A change presses one switch to one of Settings; what its body does       *)
(* beyond that is left to the services. Jobs are numbered by one counter in *)
(* the code and by one for changes and one for reads here.                  *)
EXTENDS Naturals, FiniteSets, Sequences

CONSTANTS
    Settings,    \* what a press may set the switch to
    NoSetting,
    Refused,     \* whether bodies may be refused or panic
    MaxPresses,  \* bound on changes pressed
    MaxReads,    \* bound on reads asked for
    MaxMoves     \* bound on moves of the window

ASSUME JobsAssumption ==
    /\ NoSetting \notin Settings /\ Refused \in BOOLEAN
    /\ MaxPresses \in Nat /\ MaxReads \in Nat /\ MaxMoves \in Nat

VARIABLES
    \* the backend: Jobs / Inner
    next,           \* change jobs started
    nextRead,       \* read jobs started
    queue,          \* bodies sent to the changes thread: [job, to]
    stage,          \* "idle", "body", "counted": finished, not yet subtracted
    reads,          \* read jobs whose body has not finished
    finished,       \* outcomes not taken yet: job -> the version its body saw
    changesWaiting, \* asked for and not finished
    closing, open,
    switch,         \* [to, version]: what the bodies change
    \* the front end: invoke.ts
    waiting,        \* jobs whose outcome it polls for
    inFlight,       \* setting -> job of the call running for it, or NoJob
    lastChange,     \* the change asked for last
    readRunning,    \* the read job running, or NoJob
    readNext,       \* whether a read behind it is asked for
    asked,          \* [since, next]: oldest version a caller must see
    pressed, lastPressed, allDone,
    readsAsked, staleRead,
    \* window.rs: persist_window_geometry
    place,          \* where the window is: moves so far
    pending,        \* PENDING, or 0
    placeWriters,   \* spawned writers that have not taken WRITING
    inWriting,      \* writers that hold WRITING
    saving,         \* the places they are saving
    saved

backVars == <<next, nextRead, queue, stage, reads, finished, changesWaiting,
              closing, open, switch>>
frontVars == <<waiting, inFlight, lastChange, readRunning, readNext, asked,
               pressed, lastPressed, allDone, readsAsked, staleRead>>
placeVars == <<place, pending, placeWriters, inWriting, saving, saved>>
jobsVars == <<backVars, frontVars, placeVars>>

NoJob == 0
ReadJob(k) == MaxPresses + k
AllReadJobs == {ReadJob(k) : k \in 1..MaxReads}

JobsInit ==
    /\ next = 0 /\ nextRead = 0 /\ queue = <<>> /\ stage = "idle"
    /\ reads = {} /\ finished = [j \in {} |-> 0] /\ changesWaiting = 0
    /\ closing = FALSE /\ open = TRUE
    /\ switch = [to |-> NoSetting, version |-> 0]
    /\ waiting = {} /\ inFlight = [s \in Settings |-> NoJob]
    /\ lastChange = NoSetting /\ readRunning = NoJob /\ readNext = FALSE
    /\ asked = [since |-> 0, next |-> 0]
    /\ pressed = 0 /\ lastPressed = NoSetting /\ allDone = TRUE
    /\ readsAsked = 0 /\ staleRead = FALSE
    /\ place = 1 /\ pending = 0 /\ placeWriters = 0
    /\ inWriting = 0 /\ saving = {} /\ saved = 1

-----------------------------------------------------------------------------
(* change: numbered, counted and sent in one call on the main thread. *)
SubmitChange(s) ==
    /\ next' = next + 1
    /\ changesWaiting' = changesWaiting + 1
    /\ queue' = Append(queue, [job |-> next + 1, to |-> s])
    /\ waiting' = waiting \union {next + 1}

(* invokeApi: a press joins the same change still running, but only when no *)
(* other change was asked for in between.                                   *)
JoinsAnyRunning(s) == inFlight[s] # NoJob
Joins(s) == inFlight[s] # NoJob /\ lastChange = s
Press(s) ==
    /\ open /\ pressed < MaxPresses
    /\ pressed' = pressed + 1
    /\ lastPressed' = s
    /\ IF Joins(s)
       THEN UNCHANGED <<next, changesWaiting, queue, waiting, lastChange, inFlight>>
       ELSE /\ SubmitChange(s)
            /\ lastChange' = s
            /\ inFlight' = [inFlight EXCEPT ![s] = next + 1]
    /\ UNCHANGED <<nextRead, stage, reads, finished, closing, open, switch,
                   readRunning, readNext, asked, allDone, readsAsked, staleRead,
                   placeVars>>

(* run: a read takes no turn. *)
StartRead(fromVersion) ==
    /\ nextRead' = nextRead + 1
    /\ reads' = reads \union {ReadJob(nextRead + 1)}
    /\ waiting' = waiting \union {ReadJob(nextRead + 1)}
    /\ readRunning' = ReadJob(nextRead + 1)
    /\ asked' = [since |-> fromVersion, next |-> 0]

(* read: asked for while one runs, it waits behind that one, and all asked  *)
(* for meanwhile share the next run.                                        *)
AskRead ==
    /\ open /\ readsAsked < MaxReads
    /\ readsAsked' = readsAsked + 1
    /\ IF readRunning = NoJob
       THEN StartRead(switch.version) /\ UNCHANGED readNext
       ELSE /\ readNext' = TRUE
            /\ asked' = [asked EXCEPT !.next = switch.version]
            /\ UNCHANGED <<nextRead, reads, waiting, readRunning>>
    /\ UNCHANGED <<next, queue, stage, finished, changesWaiting, closing, open,
                   switch, inFlight, lastChange, pressed, lastPressed, allDone,
                   staleRead, placeVars>>

(* The changes thread takes the oldest body. *)
TakeBody ==
    /\ open /\ stage = "idle" /\ queue # <<>>
    /\ stage' = "body"
    /\ UNCHANGED <<next, nextRead, queue, reads, finished, changesWaiting, closing, open,
                   switch, frontVars, placeVars>>

(* The outcome of a job is put up with what the switch was when its body    *)
(* answered.                                                                *)
Answer(job) ==
    [j \in DOMAIN finished \union {job} |->
        IF j = job THEN switch.version ELSE finished[j]]

(* contained: a body succeeds, is refused, or panics before or after it     *)
(* changed something; the outcome is put up either way.                     *)
Outcomes == {"ok"} \union (IF Refused THEN {"refused", "panicked", "panicked late"} ELSE {})

FinishBodyUncontained ==
    /\ open /\ stage = "body"
    /\ \E outcome \in Outcomes :
         /\ finished' = IF outcome \in {"ok", "refused"}
                        THEN Answer(Head(queue).job)
                        ELSE finished
         /\ switch' = IF outcome \in {"ok", "panicked late"}
                      THEN [to |-> Head(queue).to, version |-> switch.version + 1]
                      ELSE switch
         /\ allDone' = (allDone /\ outcome = "ok")
    /\ queue' = Tail(queue)
    /\ stage' = "counted"
    /\ UNCHANGED <<next, nextRead, reads, changesWaiting, closing, open, waiting,
                   inFlight, lastChange, readRunning, readNext, asked, pressed,
                   lastPressed, readsAsked, staleRead, placeVars>>

FinishBody ==
    /\ open /\ stage = "body"
    /\ \E outcome \in Outcomes :
         /\ finished' = Answer(Head(queue).job)
         /\ switch' = IF outcome \in {"ok", "panicked late"}
                      THEN [to |-> Head(queue).to, version |-> switch.version + 1]
                      ELSE switch
         /\ allDone' = (allDone /\ outcome = "ok")
    /\ queue' = Tail(queue)
    /\ stage' = "counted"
    /\ UNCHANGED <<next, nextRead, reads, changesWaiting, closing, open, waiting,
                   inFlight, lastChange, readRunning, readNext, asked, pressed,
                   lastPressed, readsAsked, staleRead, placeVars>>

SubtractBody ==
    /\ open /\ stage = "counted"
    /\ changesWaiting' = changesWaiting - 1
    /\ stage' = "idle"
    /\ UNCHANGED <<next, nextRead, queue, reads, finished, closing, open, switch, frontVars,
                   placeVars>>

FinishRead(j) ==
    /\ open /\ j \in reads
    /\ reads' = reads \ {j}
    /\ finished' = Answer(j)
    /\ UNCHANGED <<next, nextRead, queue, stage, changesWaiting, closing, open,
                   switch, frontVars, placeVars>>

(* poll and take_results: every outcome asked for that is there is taken,   *)
(* and this is where a close that waited goes ahead. The promises settle:   *)
(* a read that was asked for behind the one answered starts.                *)
Taken == waiting \intersect DOMAIN finished
ClosesNow == closing /\ changesWaiting = 0
Poll ==
    /\ open /\ waiting # {}
    /\ Taken # {} \/ ClosesNow
    /\ finished' = [j \in DOMAIN finished \ Taken |-> finished[j]]
    /\ open' = ~ClosesNow
    /\ inFlight' = [s \in Settings |->
                      IF inFlight[s] \in Taken THEN NoJob ELSE inFlight[s]]
    /\ LET answered == readRunning \in Taken IN
       /\ staleRead' = (staleRead \/ (answered /\ finished[readRunning] < asked.since))
       /\ IF answered /\ readNext
          THEN /\ nextRead' = nextRead + 1
               /\ reads' = reads \union {ReadJob(nextRead + 1)}
               /\ waiting' = (waiting \ Taken) \union {ReadJob(nextRead + 1)}
               /\ readRunning' = ReadJob(nextRead + 1)
               /\ asked' = [since |-> asked.next, next |-> 0]
               /\ readNext' = FALSE
          ELSE /\ waiting' = waiting \ Taken
               /\ readRunning' = IF answered THEN NoJob ELSE readRunning
               /\ UNCHANGED <<nextRead, reads, asked, readNext>>
    /\ UNCHANGED <<next, queue, stage, changesWaiting, closing, switch,
                   lastChange, pressed, lastPressed, allDone, readsAsked, placeVars>>

(* close_after_changes on a close request. *)
Close ==
    /\ open
    /\ IF changesWaiting > 0
       THEN closing' = TRUE /\ UNCHANGED open
       ELSE open' = FALSE /\ UNCHANGED closing
    /\ UNCHANGED <<next, nextRead, queue, stage, reads, finished, changesWaiting,
                   switch, frontVars, placeVars>>

-----------------------------------------------------------------------------
(* persist_window_geometry: the newest place is left in PENDING, and a      *)
(* writer is asked for unless one already is.                               *)
Move ==
    /\ open /\ place < MaxMoves + 1
    /\ place' = place + 1
    /\ pending' = place + 1
    /\ placeWriters' = IF pending = 0 THEN placeWriters + 1 ELSE placeWriters
    /\ UNCHANGED <<inWriting, saving, saved, backVars, frontVars>>

(* One writer at a time, under WRITING, until PENDING is empty. *)
WritingFree == inWriting = 0
TakeWriting ==
    /\ open /\ WritingFree /\ placeWriters > 0
    /\ placeWriters' = placeWriters - 1
    /\ inWriting' = inWriting + 1
    /\ UNCHANGED <<place, pending, saving, saved, backVars, frontVars>>
TakePending ==
    /\ open /\ inWriting > Cardinality(saving)
    /\ IF pending = 0
       THEN inWriting' = inWriting - 1 /\ UNCHANGED saving
       ELSE saving' = saving \union {pending} /\ UNCHANGED inWriting
    /\ pending' = 0
    /\ UNCHANGED <<place, placeWriters, saved, backVars, frontVars>>
SavePlace ==
    /\ open
    /\ \E g \in saving : saved' = g /\ saving' = saving \ {g}
    /\ UNCHANGED <<place, pending, placeWriters, inWriting, backVars, frontVars>>

Backend == TakeBody \/ FinishBody \/ SubtractBody \/ \E j \in reads : FinishRead(j)
Writer == TakeWriting \/ TakePending \/ SavePlace
FrontNext == (\E s \in Settings : Press(s)) \/ AskRead \/ Backend \/ Poll \/ Close
PlaceNext == Move \/ Writer
JobsNext == FrontNext \/ PlaceNext

(* The threads run on, and the window polls while it waits for anything. *)
JobsFairness ==
    /\ WF_jobsVars(TakeBody \/ FinishBody \/ SubtractBody)
    /\ \A j \in AllReadJobs : WF_jobsVars(FinishRead(j))
    /\ WF_jobsVars(Poll) /\ WF_jobsVars(Writer)

JobsSpec == JobsInit /\ [][JobsNext]_jobsVars
FairJobsSpec == JobsSpec /\ JobsFairness

-----------------------------------------------------------------------------
(* A window closes only with no change running or waiting its turn: closing *)
(* never cuts an install or a toggle off halfway (background.rs:421).       *)
ClosedOnlyWhenIdle == ~open => queue = <<>> /\ stage \in {"idle", "counted"}

(* Double presses join and different presses do not: when everything asked  *)
(* for was done, the switch stands where it was pressed last ("on, off, on  *)
(* must end on", invoke.ts:113).                                            *)
LastPressWins ==
    open /\ allDone /\ queue = <<>> /\ stage # "body" /\ pressed > 0
        => switch.to = lastPressed

(* A read asked for again after a change sees that change, though reads are *)
(* held back and shared (invoke.ts:136).                                    *)
ReadSeesChange == ~staleRead

(* Every job asked for is answered while the window is open, also one whose *)
(* body panics: no promise of the front end hangs, and its polling stops.   *)
EveryJobAnswered ==
    (waiting # {}) ~> (waiting = {} \/ ~open)

(* The place saved is the newest once the writers are done, and is never    *)
(* replaced by an older one (window.rs:165).                                *)
NewestPlaceSaved == open /\ placeWriters = 0 /\ inWriting = 0 => saved = place

(* What a window shows and does is the newest that was asked of it, up to   *)
(* its close (invoke.ts, background.rs, window.rs).                         *)
WindowKeepsUp ==
    ClosedOnlyWhenIdle /\ LastPressWins /\ ReadSeesChange /\ NewestPlaceSaved
=============================================================================
