------------------------- MODULE MCInstanceManager -------------------------
(* Instances of InstanceManager for TLC.                                   *)
EXTENDS InstanceManager

CONSTANTS p1, p2, p3

(* Explicit ids asked for in either order, and ids left to cvd.            *)
EitherOrder == {<<AutoId>>, <<AutoId, AutoId>>, <<1, 2>>, <<2, 1>>, <<2, 2>>}
Mixed == {<<AutoId>>, <<2, AutoId>>, <<1, 1>>}
One == {<<AutoId>>}
=============================================================================
