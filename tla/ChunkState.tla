----------------------------- MODULE ChunkState -----------------------------
(***************************************************************************)
(* chunkState of the host orchestrator (orchestrator/userartifacts.go):    *)
(* which bytes of a file were uploaded, as the borders between the ranges  *)
(* that were and the ranges that were not.  The B-tree of items is kept as *)
(* two sets: the offsets of the items with isUpdated and of those without. *)
(***************************************************************************)
EXTENDS Integers

NewChunkState(size) == [fileSize |-> size, ups |-> {}, downs |-> {}]

(* getItemOrPrev(start) finds an item, and it has isUpdated.               *)
PrevIsUpdated(ups, downs, start) ==
    \E u \in ups : u <= start /\ \A d \in downs : d <= start => d < u

(* getItemOrNext(end) finds an item, and it does not have isUpdated.       *)
NextIsNotUpdated(ups, downs, end) ==
    \E d \in downs : d >= end /\ \A u \in ups : u >= end => d < u

InRange(cs, start, end) == 0 <= start /\ start < end /\ end <= cs.fileSize

UpdateKeepsEnd(cs, start, end) ==
    LET ups == {u \in cs.ups : u < start \/ u >= end}
        downs == {d \in cs.downs : d < start \/ d >= end}
    IN [cs EXCEPT
          !.ups = IF PrevIsUpdated(ups, downs, start) THEN ups ELSE ups \cup {start},
          !.downs = IF NextIsNotUpdated(ups, downs, end) THEN downs ELSE downs \cup {end}]

(* Items from start to end go, borders at start and end come if the range  *)
(* before or after is of the other kind.                                   *)
Update(cs, start, end) ==
    LET ups == {u \in cs.ups : u < start \/ u > end}
        downs == {d \in cs.downs : d < start \/ d > end}
    IN [cs EXCEPT
          !.ups = IF PrevIsUpdated(ups, downs, start) THEN ups ELSE ups \cup {start},
          !.downs = IF NextIsNotUpdated(ups, downs, end) THEN downs ELSE downs \cup {end}]

IsCompleted(cs) == cs.ups = {0} /\ cs.downs = {cs.fileSize}
=============================================================================
