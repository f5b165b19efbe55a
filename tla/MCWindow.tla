------------------------------- MODULE MCWindow --------------------------------
(* One app window: two installs of different packages into one folder, and *)
(* one removal, with up to two kills or failed calls. The user interferes   *)
(* only in behaviours with at most one of them.                             *)
EXTENDS ChangeProperties, TLC

CONSTANTS i1, i2, r1, p1, p2, w

MCInstalls  == {i1, i2}
MCRemovals  == {r1}
MCPackages  == {p1, p2}
MCProcesses == {w}
MCPackageOf == i1 :> p1 @@ i2 :> p2
MCOwnerOf   == [o \in MCInstalls \cup MCRemovals |-> w]

MCNext ==
    /\ Next
    /\ crashes' + faults' <= 2
    /\ tampers' = 0 \/ crashes' + faults' <= 1
MCSpec == Init /\ [][MCNext]_vars
MCFairSpec == MCSpec /\ Fairness
================================================================================
