---------------------------- MODULE MCDataViewer ----------------------------
(* Instances of DataViewer for TLC: two groups a process may add, update,  *)
(* remove or clear.                                                        *)
EXTENDS DataViewer

CONSTANTS p1, p2, p3

G1 == [name |-> 1, home |-> 1, inst |-> [id \in {1} |-> "STOPPED"]]
G2 == [name |-> NoName, home |-> 2, inst |-> [id \in {2} |-> "STOPPED"]]

MCOps ==
    {[kind |-> "add", group |-> G1],
     [kind |-> "add", group |-> G2],
     [kind |-> "update", group |-> SetAllStates(G1, "RUNNING")],
     [kind |-> "remove", name |-> 1],
     [kind |-> "clear"],
     [kind |-> "find"]}
=============================================================================
