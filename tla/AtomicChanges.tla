------------------------------ MODULE AtomicChanges ------------------------------
(***************************************************************************)
(* What the durable engine promises its user about one mod folder: changes *)
(* are proposed against a revision, one at a time is carried out, and the  *)
(* installed mods and the revision move in one indivisible step, or not at *)
(* all.  How many writes, crashes and recoveries that takes is not visible *)
(* here.                                                                   *)
(***************************************************************************)
EXTENDS Naturals

CONSTANTS
    Installs,   \* changes that install a mod
    Removals,   \* changes that take one away
    Nothing     \* no aim yet

Changes == Installs \cup Removals

VARIABLES
    phase,      \* how far each change is
    base,       \* the revision it was proposed against
    aim,        \* the install a removal takes away
    installed,  \* the installs in effect
    revision

aVars == <<phase, base, aim, installed, revision>>

Init ==
    /\ phase = [o \in Changes |-> "new"]
    /\ base = [o \in Changes |-> 0]
    /\ aim = [r \in Removals |-> Nothing]
    /\ installed = {}
    /\ revision = 0

In(p) == {o \in Changes : phase[o] = p}

Move(os, p) == phase' = [o \in Changes |-> IF o \in os THEN p ELSE phase[o]]

Propose(o) ==
    /\ phase[o] = "new"
    /\ Move({o}, "proposed")
    /\ base' = [base EXCEPT ![o] = revision]
    /\ IF o \in Removals
       THEN \E i \in installed : aim' = [aim EXCEPT ![o] = i]
       ELSE UNCHANGED aim
    /\ UNCHANGED <<installed, revision>>

\* Proposals are dropped: closed by hand, gone stale, or left by a crash.
Drop ==
    /\ \E os \in SUBSET In("proposed") : os # {} /\ Move(os, "closed")
    /\ UNCHANGED <<base, aim, installed, revision>>

\* Only a current proposal begins, and only when nothing else is unfinished.
Begin(o) ==
    /\ phase[o] = "proposed" /\ base[o] = revision
    /\ In("busy") = {}
    /\ Move({o}, "busy")
    /\ UNCHANGED <<base, aim, installed, revision>>

\* The one step that takes effect.
Commit(o) ==
    /\ phase[o] = "busy" /\ base[o] = revision
    /\ Move({o}, "done")
    /\ installed' = IF o \in Installs THEN installed \cup {o} ELSE installed \ {aim[o]}
    /\ revision' = revision + 1
    /\ UNCHANGED <<base, aim>>

\* A change that does not take effect leaves no trace.
Abandon(o) ==
    /\ phase[o] = "busy"
    /\ Move({o}, "closed")
    /\ UNCHANGED <<base, aim, installed, revision>>

\* Another change of the profile: it waits its turn, too.
Other ==
    /\ In("busy") = {}
    /\ revision' = revision + 1
    /\ Move({o \in In("proposed") : base[o] # revision'}, "closed")
    /\ UNCHANGED <<base, aim, installed>>

Next ==
    \/ \E o \in Changes : Propose(o) \/ Begin(o) \/ Commit(o) \/ Abandon(o)
    \/ Drop \/ Other

Spec == Init /\ [][Next]_aVars
================================================================================
