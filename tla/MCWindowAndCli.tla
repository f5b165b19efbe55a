---------------------------- MODULE MCWindowAndCli -----------------------------
(***************************************************************************)
(* An app window and a command line that share the data folder: the window *)
(* asks for one install, the command line for another package in the same  *)
(* folder and for a removal.                                               *)
(***************************************************************************)
EXTENDS ChangeProperties, TLC

CONSTANTS i1, i2, r1, p1, p2, w, c

MCInstalls  == {i1, i2}
MCRemovals  == {r1}
MCPackages  == {p1, p2}
MCProcesses == {w, c}
MCPackageOf == i1 :> p1 @@ i2 :> p2
MCOwnerOf   == i1 :> w @@ i2 :> c @@ r1 :> c
================================================================================
