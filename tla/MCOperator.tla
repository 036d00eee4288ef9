----------------------------- MODULE MCOperator -----------------------------
(* Controllers and devices, or devices and their clients.                  *)
EXTENDS Operator

CONSTANTS c1, c2, k1, k2, p1, p2, w1

MCControllers == {c1, c2}
MCConns == {k1, k2}
MCPolled == {p1, p2}
MCSockets == {w1}

(* Two controllers that compete for an id; one that announces two ids, or  *)
(* one that two devices have in turn; clients of a device, and of two that *)
(* have the id one after the other.                                        *)
MCCasts == {{"d1", c1, c2, k1}, {"d1", "d2", c1, k1}, {"d1", c1, k1, k2},
            {"d1", k1, p1, p2, w1}, {"d1", k1, k2, p1}, {"d1", k1, k2, w1}}
=============================================================================
