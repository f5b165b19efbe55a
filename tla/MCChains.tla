------------------------------ MODULE MCChains ------------------------------
(* Two things the manager does in several changes, a behaviour being about  *)
(* one of them. "chains": one mod in two versions (a1, and a2, which needs  *)
(* b), a second mod (b1), and a package that holds both and needs a third   *)
(* (ab). Every setup and every point to go back to is a start; a behaviour  *)
(* is about one kind of chain and one kind of trouble; a removal to undo    *)
(* comes from the chain before. "search": troubleshooting of four mods with *)
(* up to two requirements among them, and of five mods with none, with up  *)
(* to three causes; changes are cut short where a requirement is the first  *)
(* mod's, and the user switches a mod by hand where there are three.        *)
EXTENDS ChangeChains, Troubleshoot

CONSTANTS a, b, c, a1, a2, b1, ab, c1

VARIABLE scene

MCModsOf == [p \in Packages |->
    CASE p = b1 -> {b} [] p = ab -> {a, b} [] p = c1 -> {c} [] OTHER -> {a}]
MCNeeds == [p \in Packages |->
    CASE p = a2 -> {b} [] p = ab -> {c} [] OTHER -> {}]
MCOrder == SelectSeq(<<a2, a1, ab, b1, c1>>, LAMBDA p : p \in Packages)

Search == [kind |-> "search", trouble |-> "own"]
Scenes == [kind : {"replace", "reinstall", "restore", "adoption", "named"},
           trouble : {"kill", "fault", "others"}]

MCChainsInit ==
    /\ ChainsInit /\ scene \in Scenes
    /\ points # <<>> => scene.kind \in {"restore", "named"}
    /\ good # <<>> => scene.kind \in {"restore", "replace"} /\ scene.trouble = "others"
                      /\ on = deployed
    /\ Profile({}, [m \in Folders |-> {}], {}, {}) /\ cuts = 0 /\ own = 0

MCChainsNext ==
    /\ ChainsNext
    /\ chain.phase = "idle" /\ chain'.phase # "idle" =>
         chain'.kind = IF chains = 0 THEN scene.kind
                       ELSE IF scene.kind = "named" THEN "replace" ELSE "undo"
    /\ scene.trouble # "kill" => crashes' = 0
    /\ scene.trouble # "fault" => faults' = 0
    /\ scene.trouble # "others" => outside' = 0

Requirements == UNION {kSubset(k, {e \in (1..4) \X (1..4) : e[1] # e[2]}) : k \in 0..2}
MCSearchInit ==
    /\ scene = Search
    /\ ChainsInit /\ deployed = {} /\ points = <<>> /\ good = <<>>
    /\ \E edges \in Requirements, all \in {1..3, 1..4, Folders} :
         \E lit \in {all, all \ {2}} :
            \E guilty \in SUBSET lit :
               /\ edges # {} => all = 1..4
               /\ Cardinality(guilty) + Cardinality(edges) <= 3
               /\ lit # all => all = 1..3
               /\ Profile(all, [m \in Folders |-> {n \in 1..4 : <<m, n>> \in edges}], lit, guilty)
    /\ cuts = IF \A m \in Folders \ {1} : requires[m] = {} THEN 0 ELSE MaxCuts
    /\ own = IF installed = 1..3 THEN 0 ELSE MaxOwn

MCInit == MCChainsInit \/ MCSearchInit
MCNext ==
    /\ UNCHANGED scene
    /\ \/ scene # Search /\ MCChainsNext /\ UNCHANGED troubleshootVars
       \/ scene = Search /\ TroubleshootNext /\ UNCHANGED chainVars

(* What has not begun has nothing to be fair to. *)
MCFairness == ChainsFairness /\ TroubleshootFairness

MCSpec == MCInit /\ [][MCNext]_<<chainVars, troubleshootVars, scene>> /\ MCFairness
=============================================================================
