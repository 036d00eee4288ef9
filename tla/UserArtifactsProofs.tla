------------------------ MODULE UserArtifactsProofs ------------------------
(***************************************************************************)
(* Uploads for every number of orchestrators, requests and names and every *)
(* file size.                                                              *)
(*                                                                         *)
(* First the chunk state: it is exact for every sequence of updates.  The  *)
(* items are the borders of the set C of bytes reported so far.  Whether   *)
(* byte x is in C can be read off the nearest item at or below x, and as   *)
(* well off the nearest one above x; this is what getItemOrPrev and        *)
(* getItemOrNext do, and to keep both readings in the invariant is what    *)
(* makes it inductive over updates.                                        *)
(*                                                                         *)
(* Then the uploads: what is published has its checksum and never changes, *)
(* and the chunk state knows exactly which bytes were reported.  The       *)
(* argument rests on the read-write lock: whoever writes to a file holds   *)
(* it for reading, whoever moves the directory holds it alone, from the    *)
(* check of the checksum to the rename, and once the directory is          *)
(* published nobody of its orchestrator holds it.                          *)
(***************************************************************************)
EXTENDS UserArtifacts, TLAPS

(* The nearest item above x is one without isUpdated.                      *)
NextEnds(ups, downs, x) ==
    \E d \in downs : d > x /\ \A u \in ups : u > x => d < u

ReadFromBelow(U, D, C) == \A x \in Nat : x \in C <=> PrevIsUpdated(U, D, x)

ReadFromAbove(U, D, C) == \A x \in Nat : x \in C <=> NextEnds(U, D, x)

(* The items are borders of C.                                             *)
Borders(U, D, C) ==
    /\ \A u \in U : u \in C /\ (u = 0 \/ u - 1 \notin C)
    /\ \A d \in D : d > 0 /\ d - 1 \in C /\ d \notin C

(* The state st describes the bytes C.                                     *)
Tracks(st, C) ==
    /\ st.fileSize \in Nat
    /\ st.ups \subseteq Nat /\ st.downs \subseteq 0 .. st.fileSize
    /\ C \subseteq 0 .. (st.fileSize - 1)
    /\ ReadFromBelow(st.ups, st.downs, C)
    /\ ReadFromAbove(st.ups, st.downs, C)
    /\ Borders(st.ups, st.downs, C)

(* NewChunkState describes a file of which nothing was reported.           *)
LEMMA NewTracks ==
  ASSUME NEW size \in Nat
  PROVE  Tracks(NewChunkState(size), {})
<1> QED
  BY DEF Tracks, NewChunkState, ReadFromBelow, ReadFromAbove, Borders, PrevIsUpdated, NextEnds

Outside(S, s, e) == {x \in S : x < s \/ x > e}

(* The two questions Update asks, once the items of the range are gone,    *)
(* are whether the byte before the range and the one after it were         *)
(* reported.                                                               *)
LEMMA UpdateShape ==
  ASSUME NEW U \in SUBSET Nat, NEW D \in SUBSET Nat, NEW C \in SUBSET Nat,
         NEW s \in Nat, NEW e \in Nat, s < e,
         ReadFromBelow(U, D, C), ReadFromAbove(U, D, C)
  PROVE  /\ PrevIsUpdated(Outside(U, s, e), Outside(D, s, e), s) <=> s > 0 /\ s - 1 \in C
         /\ NextIsNotUpdated(Outside(U, s, e), Outside(D, s, e), e) <=> e \in C
<1> DEFINE U1 == Outside(U, s, e)
           D1 == Outside(D, s, e)
<1> USE DEF Outside
<1>1. ASSUME PrevIsUpdated(U1, D1, s) PROVE s > 0 /\ s - 1 \in C
  <2>1. PICK u \in U1 : u <= s /\ \A d \in D1 : d <= s => d < u
    BY <1>1 DEF PrevIsUpdated
  <2>2. u \in U /\ u < s /\ s - 1 \in Nat
    BY <2>1
  <2>3. \A d \in D : d <= s - 1 => d < u
    BY <2>1
  <2>4. PrevIsUpdated(U, D, s - 1)
    BY <2>2, <2>3 DEF PrevIsUpdated
  <2> QED
    BY <2>2, <2>4 DEF ReadFromBelow
<1>2. ASSUME s > 0, s - 1 \in C PROVE PrevIsUpdated(U1, D1, s)
  <2>1. PICK u \in U : u <= s - 1 /\ \A d \in D : d <= s - 1 => d < u
    BY <1>2 DEF ReadFromBelow, PrevIsUpdated
  <2>2. u \in U1 /\ u <= s
    BY <2>1
  <2>3. \A d \in D1 : d <= s => d < u
    BY <2>1
  <2> QED
    BY <2>2, <2>3 DEF PrevIsUpdated
<1>3. ASSUME NextIsNotUpdated(U1, D1, e) PROVE e \in C
  <2>1. PICK d \in D1 : d >= e /\ \A u \in U1 : u >= e => d < u
    BY <1>3 DEF NextIsNotUpdated
  <2>2. d \in D /\ d > e
    BY <2>1
  <2>3. \A u \in U : u > e => d < u
    BY <2>1
  <2> QED
    BY <2>2, <2>3 DEF ReadFromAbove, NextEnds
<1>4. ASSUME e \in C PROVE NextIsNotUpdated(U1, D1, e)
  <2>1. PICK d \in D : d > e /\ \A u \in U : u > e => d < u
    BY <1>4 DEF ReadFromAbove, NextEnds
  <2>2. d \in D1 /\ d >= e
    BY <2>1
  <2>3. \A u \in U1 : u >= e => d < u
    BY <2>1
  <2> QED
    BY <2>2, <2>3 DEF NextIsNotUpdated
<1> QED
  BY <1>1, <1>2, <1>3, <1>4

(* The items of the updated state, with what is known of them.             *)
Reported(U, D, C, s, e, U2, D2, C2) ==
    /\ C2 = C \cup s .. (e - 1)
    /\ \A u \in Nat : u \in U2 <=>
          (u \in U /\ (u < s \/ u > e)) \/ (u = s /\ (s = 0 \/ s - 1 \notin C))
    /\ \A d \in Nat : d \in D2 <=>
          (d \in D /\ (d < s \/ d > e)) \/ (d = e /\ e \notin C)

(* After an update the nearest item at or below a byte still tells whether *)
(* the byte was reported.                                                  *)
LEMMA UpdateFromBelow ==
  ASSUME NEW U \in SUBSET Nat, NEW D \in SUBSET Nat, NEW C \in SUBSET Nat,
         NEW U2 \in SUBSET Nat, NEW D2 \in SUBSET Nat, NEW C2 \in SUBSET Nat,
         NEW s \in Nat, NEW e \in Nat, s < e,
         ReadFromBelow(U, D, C), Reported(U, D, C, s, e, U2, D2, C2)
  PROVE  ReadFromBelow(U2, D2, C2)
<1> SUFFICES ASSUME NEW x \in Nat PROVE x \in C2 <=> PrevIsUpdated(U2, D2, x)
  BY DEF ReadFromBelow
<1> USE DEF Reported
<1>1. CASE x < s
  <2>1. x \in C2 <=> x \in C
    BY <1>1
  <2>2. \A y \in Nat : y <= x => (y \in U2 <=> y \in U) /\ (y \in D2 <=> y \in D)
    BY <1>1
  <2>3. PrevIsUpdated(U2, D2, x) <=> PrevIsUpdated(U, D, x)
    BY <2>2 DEF PrevIsUpdated
  <2> QED
    BY <2>1, <2>3 DEF ReadFromBelow
<1>2. ASSUME \A d \in D2 : d <= x => d < s, s <= x PROVE PrevIsUpdated(U2, D2, x)
  <2>1. CASE s \in U2
    BY <1>2, <2>1 DEF PrevIsUpdated
  <2>2. CASE s \notin U2
    <3>1. s > 0 /\ s - 1 \in C
      BY <2>2
    <3>2. PICK u \in U : u <= s - 1 /\ \A d \in D : d <= s - 1 => d < u
      BY <3>1 DEF ReadFromBelow, PrevIsUpdated
    <3>3. u \in U2 /\ u <= x
      BY <1>2, <3>2
    <3>4. \A d \in D2 : d <= x => d < u
      BY <1>2, <3>2
    <3> QED
      BY <3>3, <3>4 DEF PrevIsUpdated
  <2> QED
    BY <2>1, <2>2
<1>3. CASE s <= x /\ x < e
  <2>1. \A d \in D2 : d <= x => d < s
    BY <1>3
  <2>2. x \in C2
    BY <1>3
  <2> QED
    BY <1>2, <1>3, <2>1, <2>2
<1>4. CASE e <= x
  <2>1. x \in C2 <=> PrevIsUpdated(U, D, x)
    BY <1>4 DEF ReadFromBelow
  <2>2. ASSUME PrevIsUpdated(U, D, x) PROVE PrevIsUpdated(U2, D2, x)
    <3>1. PICK u \in U : u <= x /\ \A d \in D : d <= x => d < u
      BY <2>2 DEF PrevIsUpdated
    <3>2. CASE u > e
      <4>1. u \in U2 /\ \A d \in D2 : d <= x => d < u
        BY <3>1, <3>2
      <4> QED
        BY <3>1, <4>1 DEF PrevIsUpdated
    <3>3. CASE u <= e
      <4>1. PrevIsUpdated(U, D, e)
        BY <1>4, <3>1, <3>3 DEF PrevIsUpdated
      <4>2. e \in C
        BY <4>1 DEF ReadFromBelow
      <4>3. \A d \in D2 : d <= x => d < s
        BY <3>1, <3>3, <4>2
      <4> QED
        BY <1>2, <1>4, <4>3
    <3> QED
      BY <3>1, <3>2, <3>3
  <2>3. ASSUME PrevIsUpdated(U2, D2, x) PROVE PrevIsUpdated(U, D, x)
    <3>1. PICK u \in U2 : u <= x /\ \A d \in D2 : d <= x => d < u
      BY <2>3 DEF PrevIsUpdated
    <3>2. CASE u > e
      <4>1. u \in U /\ \A d \in D : d <= x => d < u
        BY <3>1, <3>2
      <4> QED
        BY <3>1, <4>1 DEF PrevIsUpdated
    <3>3. CASE u <= e
      <4>1. u <= s
        BY <3>1, <3>3
      <4>2. e \in C
        BY <1>4, <3>1, <3>3
      <4>3. \A d \in D : d <= x => d <= e
        BY <3>1, <4>1
      <4>4. PICK v \in U : v <= e /\ \A d \in D : d <= e => d < v
        BY <4>2 DEF ReadFromBelow, PrevIsUpdated
      <4>5. v <= x /\ \A d \in D : d <= x => d < v
        BY <1>4, <4>3, <4>4
      <4> QED
        BY <4>5 DEF PrevIsUpdated
    <3> QED
      BY <3>1, <3>2, <3>3
  <2> QED
    BY <2>1, <2>2, <2>3
<1> QED
  BY <1>1, <1>3, <1>4

(* And so does the nearest item above it.                                  *)
LEMMA UpdateFromAbove ==
  ASSUME NEW U \in SUBSET Nat, NEW D \in SUBSET Nat, NEW C \in SUBSET Nat,
         NEW U2 \in SUBSET Nat, NEW D2 \in SUBSET Nat, NEW C2 \in SUBSET Nat,
         NEW s \in Nat, NEW e \in Nat, s < e,
         ReadFromAbove(U, D, C), Reported(U, D, C, s, e, U2, D2, C2)
  PROVE  ReadFromAbove(U2, D2, C2)
<1> SUFFICES ASSUME NEW x \in Nat PROVE x \in C2 <=> NextEnds(U2, D2, x)
  BY DEF ReadFromAbove
<1> USE DEF Reported
<1>1. CASE e <= x
  <2>1. x \in C2 <=> x \in C
    BY <1>1
  <2>2. \A y \in Nat : y > x => (y \in U2 <=> y \in U) /\ (y \in D2 <=> y \in D)
    BY <1>1
  <2>3. NextEnds(U2, D2, x) <=> NextEnds(U, D, x)
    BY <2>2 DEF NextEnds
  <2> QED
    BY <2>1, <2>3 DEF ReadFromAbove
<1>2. ASSUME \A u \in U2 : u > x => u > e, x < e PROVE NextEnds(U2, D2, x)
  <2>1. CASE e \in D2
    BY <1>2, <2>1 DEF NextEnds
  <2>2. CASE e \notin D2
    <3>1. e \in C
      BY <2>2
    <3>2. PICK d \in D : d > e /\ \A u \in U : u > e => d < u
      BY <3>1 DEF ReadFromAbove, NextEnds
    <3>3. d \in D2 /\ d > x
      BY <1>2, <3>2
    <3>4. \A u \in U2 : u > x => d < u
      BY <1>2, <3>2
    <3> QED
      BY <3>3, <3>4 DEF NextEnds
  <2> QED
    BY <2>1, <2>2
<1>3. CASE s <= x /\ x < e
  <2>1. \A u \in U2 : u > x => u > e
    BY <1>3
  <2>2. x \in C2
    BY <1>3
  <2> QED
    BY <1>2, <1>3, <2>1, <2>2
<1>4. CASE x < s
  <2>1. x \in C2 <=> NextEnds(U, D, x)
    BY <1>4 DEF ReadFromAbove
  <2>2. ASSUME NextEnds(U, D, x) PROVE NextEnds(U2, D2, x)
    <3>1. PICK d \in D : d > x /\ \A u \in U : u > x => d < u
      BY <2>2 DEF NextEnds
    <3>2. CASE d < s
      <4>1. d \in D2 /\ \A u \in U2 : u > x => d < u
        BY <3>1, <3>2
      <4> QED
        BY <3>1, <4>1 DEF NextEnds
    <3>3. CASE d >= s
      <4>1. NextEnds(U, D, s - 1)
        BY <1>4, <3>1, <3>3 DEF NextEnds
      <4>2. s - 1 \in C
        BY <1>4, <4>1 DEF ReadFromAbove
      <4>3. \A u \in U2 : u > x => u > e
        BY <1>4, <3>1, <3>3, <4>2
      <4> QED
        BY <1>2, <1>4, <4>3
    <3> QED
      BY <3>1, <3>2, <3>3
  <2>3. ASSUME NextEnds(U2, D2, x) PROVE NextEnds(U, D, x)
    <3>1. PICK d \in D2 : d > x /\ \A u \in U2 : u > x => d < u
      BY <2>3 DEF NextEnds
    <3>2. CASE d < s
      <4>1. d \in D /\ \A u \in U : u > x => d < u
        BY <3>1, <3>2
      <4> QED
        BY <3>1, <4>1 DEF NextEnds
    <3>3. CASE d >= s
      <4>1. s - 1 \in C
        BY <1>4, <3>1, <3>3
      <4>2. \A u \in U : u > x => u >= s
        BY <3>1, <3>3
      <4>3. PICK f \in D : f > s - 1 /\ \A u \in U : u > s - 1 => f < u
        BY <1>4, <4>1 DEF ReadFromAbove, NextEnds
      <4>4. f > x /\ \A u \in U : u > x => f < u
        BY <1>4, <4>2, <4>3
      <4> QED
        BY <4>4 DEF NextEnds
    <3> QED
      BY <3>1, <3>2, <3>3
  <2> QED
    BY <2>1, <2>2, <2>3
<1> QED
  BY <1>1, <1>3, <1>4

(* Update keeps the state exact: it adds the bytes of the range to what    *)
(* the state describes and changes nothing else, whether the range         *)
(* overlaps, touches, contains or repeats earlier ones.                    *)
THEOREM UpdateIsExact ==
  ASSUME NEW F \in Nat, NEW U, NEW D, NEW C,
         Tracks([fileSize |-> F, ups |-> U, downs |-> D], C),
         NEW s \in Int, NEW e \in Int,
         InRange([fileSize |-> F, ups |-> U, downs |-> D], s, e)
  PROVE  Tracks(Update([fileSize |-> F, ups |-> U, downs |-> D], s, e), C \cup s .. (e - 1))
<1> DEFINE st == [fileSize |-> F, ups |-> U, downs |-> D]
           st2 == Update(st, s, e)
           C2 == C \cup s .. (e - 1)
<1>1. /\ U \in SUBSET Nat /\ D \in SUBSET Nat /\ C \in SUBSET Nat
      /\ s \in Nat /\ e \in Nat /\ s < e /\ e <= F
      /\ D \subseteq 0 .. F /\ C \subseteq 0 .. (F - 1)
      /\ ReadFromBelow(U, D, C) /\ ReadFromAbove(U, D, C) /\ Borders(U, D, C)
  BY DEF Tracks, InRange
<1>2. /\ PrevIsUpdated(Outside(U, s, e), Outside(D, s, e), s) <=> s > 0 /\ s - 1 \in C
      /\ NextIsNotUpdated(Outside(U, s, e), Outside(D, s, e), e) <=> e \in C
  BY <1>1, UpdateShape
<1>u. /\ st2.fileSize = F
      /\ st2.ups = IF s > 0 /\ s - 1 \in C THEN Outside(U, s, e) ELSE Outside(U, s, e) \cup {s}
      /\ st2.downs = IF e \in C THEN Outside(D, s, e) ELSE Outside(D, s, e) \cup {e}
  BY <1>2 DEF Update, Outside
<1>3. /\ st2.fileSize = F
      /\ st2.ups \in SUBSET Nat /\ st2.downs \in SUBSET Nat
      /\ C2 \in SUBSET Nat /\ C2 \subseteq 0 .. (F - 1)
      /\ Reported(U, D, C, s, e, st2.ups, st2.downs, C2)
  <2> HIDE DEF st2
  <2>1. st2.ups \in SUBSET Nat /\ st2.downs \in SUBSET Nat
    BY <1>1, <1>u DEF Outside
  <2>2. C2 \in SUBSET Nat /\ C2 \subseteq 0 .. (F - 1)
    BY <1>1
  <2>3. \A u \in Nat : u \in st2.ups <=>
           (u \in U /\ (u < s \/ u > e)) \/ (u = s /\ (s = 0 \/ s - 1 \notin C))
    BY <1>1, <1>u DEF Outside
  <2>4. \A d \in Nat : d \in st2.downs <=>
           (d \in D /\ (d < s \/ d > e)) \/ (d = e /\ e \notin C)
    BY <1>1, <1>u DEF Outside
  <2> QED
    BY <1>u, <2>1, <2>2, <2>3, <2>4 DEF Reported
<1>4. ReadFromBelow(st2.ups, st2.downs, C2) /\ ReadFromAbove(st2.ups, st2.downs, C2)
  BY <1>1, <1>3, UpdateFromBelow, UpdateFromAbove
<1>5. Borders(st2.ups, st2.downs, C2)
  BY <1>1, <1>3 DEF Borders, Reported
<1>6. st2.downs \subseteq 0 .. F
  BY <1>1, <1>3 DEF Reported
<1> QED
  BY <1>1, <1>3, <1>4, <1>5, <1>6 DEF Tracks

(* IsCompleted is right about a state that is exact: it says yes if and    *)
(* only if the file is not empty and each of its bytes was reported.       *)
THEOREM IsCompletedIsExact ==
  ASSUME NEW F \in Nat, NEW U, NEW D, NEW C,
         Tracks([fileSize |-> F, ups |-> U, downs |-> D], C)
  PROVE  IsCompleted([fileSize |-> F, ups |-> U, downs |-> D])
            <=> F > 0 /\ C = 0 .. (F - 1)
<1>1. /\ U \in SUBSET Nat /\ D \in SUBSET Nat /\ C \in SUBSET Nat
      /\ C \subseteq 0 .. (F - 1)
      /\ ReadFromBelow(U, D, C) /\ ReadFromAbove(U, D, C) /\ Borders(U, D, C)
  BY DEF Tracks
<1>2. ASSUME U = {0}, D = {F} PROVE F > 0 /\ C = 0 .. (F - 1)
  <2>1. F > 0
    BY <1>1, <1>2 DEF Borders
  <2>2. \A x \in Nat : PrevIsUpdated(U, D, x) <=> x < F
    BY <1>2, <2>1 DEF PrevIsUpdated
  <2> QED
    <3>1. ASSUME NEW x \in 0 .. (F - 1) PROVE x \in C
      <4>1. x \in Nat /\ x < F
        OBVIOUS
      <4> QED
        BY <1>1, <2>2, <4>1 DEF ReadFromBelow
    <3> QED
      BY <1>1, <2>1, <3>1
<1>3. ASSUME F > 0, C = 0 .. (F - 1) PROVE U = {0} /\ D = {F}
  <2>1. U \subseteq {0} /\ D \subseteq {F}
    BY <1>1, <1>3 DEF Borders
  <2>2. 0 \in C
    BY <1>3
  <2>3. 0 \in U
    BY <1>1, <2>1, <2>2 DEF ReadFromBelow, PrevIsUpdated
  <2>4. F \in D
    BY <1>1, <2>1, <2>2 DEF ReadFromAbove, NextEnds
  <2> QED
    BY <2>1, <2>3, <2>4
<1> QED
  BY <1>2, <1>3 DEF IsCompleted

-----------------------------------------------------------------------------
(* Who holds the lock is where the lock is held.                           *)
Locks ==
    /\ \A u \in Uploads : at[u] # "idle" => job[u] \in [o : Orchestrators, c : Chunk]
    /\ \A o \in Orchestrators, u \in Uploads :
          /\ at[u] \in {"write", "ask"} /\ job[u].o = o => u \in readers[o]
          /\ at[u] = "move" /\ job[u].o = o => writer[o] = u
    /\ \A o \in Orchestrators : writer[o] # None => readers[o] = {}

(* A file that is written to is there, one that is moved is genuine, one   *)
(* that is published is nobody's any more.                                 *)
OnDisk ==
    /\ \A u \in Uploads :
          /\ at[u] = "write" => dir[job[u].o][job[u].c.name] # None
          /\ at[u] = "move" => Genuine(dir[job[u].o][job[u].c.name])
    /\ root # None => readers[root] = {} /\ writer[root] = None

(* The chunk state describes the bytes that were reported.                 *)
Tracking ==
    \A o \in Orchestrators :
        IF cs[o] = None THEN covered[o] = {} ELSE Tracks(cs[o], covered[o])

IInv == TypeOK /\ Locks /\ OnDisk /\ PublishedIsGenuine /\ Tracking

(* A write keeps a file a sequence of bytes.                               *)
LEMMA PutType ==
  ASSUME NEW file \in Seq(Byte), NEW i \in Nat \ {0}, NEW b \in Byte
  PROVE  Put(file, i, b) \in Seq(Byte)
<1> DEFINE n == IF Len(file) > i THEN Len(file) ELSE i
<1>1. n \in Nat
  OBVIOUS
<1>2. \A j \in 1 .. n :
         (IF j = i THEN b ELSE IF j <= Len(file) THEN file[j] ELSE "hole") \in Byte
  BY DEF Byte
<1>3. Put(file, i, b) \in [1 .. n -> Byte]
  BY <1>2 DEF Put
<1> QED
  BY <1>1, <1>3

(* Update returns a chunk state.                                           *)
LEMMA UpdateType ==
  ASSUME NEW st \in ChunkStates, NEW s \in Nat, NEW e \in Nat
  PROVE  Update(st, s, e) \in ChunkStates
<1> DEFINE U1 == {u \in st.ups : u < s \/ u > e}
           D1 == {d \in st.downs : d < s \/ d > e}
           U2 == IF PrevIsUpdated(U1, D1, s) THEN U1 ELSE U1 \cup {s}
           D2 == IF NextIsNotUpdated(U1, D1, e) THEN D1 ELSE D1 \cup {e}
<1>1. st.ups \in SUBSET Nat /\ st.downs \in SUBSET Nat
  BY DEF ChunkStates
<1>2. U1 \in SUBSET Nat /\ D1 \in SUBSET Nat
  BY <1>1
<1> HIDE DEF U1, D1
<1>3. U2 \in SUBSET Nat /\ D2 \in SUBSET Nat
  BY <1>2
<1>4. Update(st, s, e) = [[st EXCEPT !.ups = U2] EXCEPT !.downs = D2]
  BY DEF Update, U1, D1, ChunkStates
<1> HIDE DEF U2, D2
<1> QED
  BY <1>3, <1>4 DEF ChunkStates

(* Before the first request the invariant holds.                           *)
LEMMA InitIInv == Init => IInv
<1> SUFFICES ASSUME Init PROVE IInv
  OBVIOUS
<1> USE ArtifactsAssumption DEF Init
<1>1. TypeOK
  <2>1. extracted \in BOOLEAN
    BY Zenon
  <2>2. dir \in [Orchestrators -> [Names -> File]]
    BY DEF File
  <2>3. cs \in [Orchestrators -> ChunkStates \cup {None}]
    OBVIOUS
  <2> QED
    BY <2>1, <2>2, <2>3 DEF TypeOK
<1>2. Locks /\ OnDisk /\ PublishedIsGenuine /\ Tracking
  BY DEF Locks, OnDisk, PublishedIsGenuine, Tracking
<1> QED
  BY <1>1, <1>2 DEF IInv

(* A request that stops writing gives the read lock back.                  *)
LEMMA ReleaseIInv ==
  ASSUME IInv, NEW u \in Uploads, at[u] \in {"write", "ask"},
         NEW next \in {"ok", "lock", "error"}, at' = [at EXCEPT ![u] = next],
         readers' = [readers EXCEPT ![job[u].o] = @ \ {u}],
         broken' \in {broken, broken \cup {job[u].o}},
         UNCHANGED <<root, dir, cs, covered, writer, job, pos, extracted, ex, restarts>>
  PROVE  IInv'
<1> DEFINE o == job[u].o
<1>1. o \in Orchestrators
  BY DEF IInv, Locks
<1>2. \A v \in Uploads : at'[v] = IF v = u THEN next ELSE at[v]
  BY DEF IInv, TypeOK
<1>3. \A q \in Orchestrators : readers'[q] = IF q = o THEN readers[q] \ {u} ELSE readers[q]
  BY <1>1 DEF IInv, TypeOK
<1>4. TypeOK'
  <2>1. at' \in [Uploads -> {"idle", "rlock", "write", "ask", "lock", "move",
                             "ok", "conflict", "error", "lost"}]
    BY DEF IInv, TypeOK
  <2>2. readers' \in [Orchestrators -> SUBSET Uploads] /\ broken' \subseteq Orchestrators
    BY <1>1 DEF IInv, TypeOK
  <2> QED
    BY <2>1, <2>2 DEF IInv, TypeOK
<1> HIDE DEF o
<1>5. \A v \in Uploads, q \in Orchestrators :
         /\ at'[v] \in {"write", "ask"} /\ job[v].o = q => v \in readers'[q]
         /\ at'[v] = "move" /\ job[v].o = q => writer[q] = v
  BY <1>2, <1>3 DEF IInv, Locks
<1>6. \A v \in Uploads : at'[v] # "idle" => at[v] # "idle"
  BY <1>2
<1>7. \A q \in Orchestrators : writer[q] # None => readers'[q] = {}
  BY <1>3 DEF IInv, Locks
<1>8. Locks'
  BY <1>5, <1>6, <1>7 DEF IInv, Locks
<1>9. root # None => readers'[root] = {}
  BY <1>3 DEF IInv, OnDisk, TypeOK
<1>10. \A v \in Uploads : at'[v] \in {"write", "move"} => at'[v] = at[v]
  BY <1>2
<1>11. OnDisk'
  <2>1. \A v \in Uploads :
           /\ at[v] = "write" => dir[job[v].o][job[v].c.name] # None
           /\ at[v] = "move" => Genuine(dir[job[v].o][job[v].c.name])
    BY DEF IInv, OnDisk
  <2>2. \A v \in Uploads :
           /\ at'[v] = "write" => dir[job[v].o][job[v].c.name] # None
           /\ at'[v] = "move" => Genuine(dir[job[v].o][job[v].c.name])
    BY <1>10, <2>1
  <2>3. root # None => writer[root] = None
    BY DEF IInv, OnDisk
  <2> QED
    BY <1>9, <2>2, <2>3 DEF OnDisk
<1>12. PublishedIsGenuine' /\ Tracking'
  BY DEF IInv, PublishedIsGenuine, Genuine, Tracking
<1> QED
  BY <1>4, <1>8, <1>11, <1>12 DEF IInv

(* Every step of an upload, of an extraction and of a restart keeps it.    *)
LEMMA StepIInv == IInv /\ [Next]_vars => IInv'
<1> SUFFICES ASSUME IInv, [Next]_vars PROVE IInv'
  OBVIOUS
<1>a. /\ None \notin Orchestrators /\ None \notin Uploads
      /\ None \notin Seq(Byte) /\ None \notin ChunkStates
      /\ \A u \in Uploads : \A j \in Jobs[u] : j \in [o : Orchestrators, c : Chunk]
  BY ArtifactsAssumption
<1>t. TypeOK /\ Locks /\ OnDisk /\ PublishedIsGenuine /\ Tracking
  BY DEF IInv
<1>1. ASSUME NEW u \in Uploads, UpdateArtifact(u) PROVE IInv'
  <2> USE <1>a, <1>t, <1>1 DEF UpdateArtifact, Goto
  <2>0. PICK j \in Jobs[u] : job' = [job EXCEPT ![u] = j]
    OBVIOUS
  <2>1. TypeOK'
    BY <2>0 DEF TypeOK
  <2>2. Locks'
    BY <2>0 DEF Locks, TypeOK
  <2>3. OnDisk' /\ PublishedIsGenuine'
    BY <2>0 DEF OnDisk, PublishedIsGenuine, TypeOK
  <2>4. Tracking'
    BY DEF Tracking
  <2> QED
    BY <2>1, <2>2, <2>3, <2>4 DEF IInv
<1>2. ASSUME NEW u \in Uploads, WriteChunkStarts(u) PROVE IInv'
  <2> DEFINE o == job[u].o  n == job[u].c.name
  <2>0. /\ at[u] = "rlock" /\ writer[o] = None
        /\ UNCHANGED <<root, cs, covered, writer, job, pos, extracted, ex, broken, restarts>>
    BY <1>2 DEF WriteChunkStarts
  <2>1. o \in Orchestrators /\ n \in Names
    BY <1>t, <2>0 DEF Locks, Chunk
  <2>2. Tracking'
    BY <1>t, <2>0 DEF Tracking
  <2>3. CASE root # None
    <3>0. at' = [at EXCEPT ![u] = "conflict"] /\ UNCHANGED <<dir, readers>>
      BY <1>2, <2>3 DEF WriteChunkStarts, Goto
    <3>1. TypeOK'
      BY <1>t, <2>0, <3>0 DEF TypeOK
    <3>2. Locks'
      BY <1>t, <2>0, <3>0 DEF Locks, TypeOK
    <3>3. OnDisk' /\ PublishedIsGenuine'
      BY <1>t, <2>0, <3>0 DEF OnDisk, PublishedIsGenuine, TypeOK
    <3> QED
      BY <2>2, <3>1, <3>2, <3>3 DEF IInv
  <2>4. CASE root = None
    <3>0. /\ at' = [at EXCEPT ![u] = "write"]
          /\ readers' = [readers EXCEPT ![o] = @ \cup {u}]
          /\ dir' = IF dir[o][n] = None THEN [dir EXCEPT ![o][n] = <<>>] ELSE dir
      BY <1>2, <2>4 DEF WriteChunkStarts, Goto
    <3>1. dir' \in [Orchestrators -> [Names -> File]]
      <4>1. <<>> \in File
        BY DEF File
      <4> QED
        BY <1>t, <2>1, <3>0, <4>1 DEF TypeOK
    <3>2. TypeOK'
      BY <1>t, <2>0, <2>1, <3>0, <3>1 DEF TypeOK
    <3>3. Locks'
      <4>1. \A v \in Uploads : at'[v] # "idle" => job'[v] \in [o : Orchestrators, c : Chunk]
        BY <1>t, <2>0, <3>0 DEF Locks, TypeOK
      <4>2. ASSUME NEW q \in Orchestrators, NEW v \in Uploads
            PROVE  /\ at'[v] \in {"write", "ask"} /\ job'[v].o = q => v \in readers'[q]
                   /\ at'[v] = "move" /\ job'[v].o = q => writer'[q] = v
        BY <1>t, <2>0, <3>0 DEF Locks, TypeOK
      <4>3. \A q \in Orchestrators : writer'[q] # None => readers'[q] = {}
        BY <1>t, <2>0, <2>1, <3>0 DEF Locks, TypeOK
      <4> QED
        BY <4>1, <4>2, <4>3 DEF Locks
    <3>4. \A q \in Orchestrators, m \in Names : dir[q][m] # None => dir'[q][m] = dir[q][m]
      BY <1>t, <2>1, <3>0 DEF TypeOK
    <3>5. dir'[o][n] # None
      <4>1. <<>> # None
        <5>1. <<>> \in Seq(Byte)
          OBVIOUS
        <5> QED
          BY <1>a, <5>1
      <4> QED
        BY <1>t, <2>1, <3>0, <4>1 DEF TypeOK
    <3>6. OnDisk'
      <4>1. ASSUME NEW v \in Uploads, at'[v] = "write"
            PROVE  dir'[job'[v].o][job'[v].c.name] # None
        <5>1. CASE v = u
          BY <2>0, <3>5, <5>1
        <5>2. CASE v # u
          <6>1. at[v] = "write" /\ job'[v] = job[v]
            BY <1>t, <2>0, <3>0, <4>1, <5>2 DEF TypeOK
          <6>2. job[v].o \in Orchestrators /\ job[v].c.name \in Names
            BY <1>t, <6>1 DEF Locks, Chunk
          <6> QED
            BY <1>t, <3>4, <6>1, <6>2 DEF OnDisk
        <5> QED
          BY <5>1, <5>2
      <4>2. ASSUME NEW v \in Uploads, at'[v] = "move"
            PROVE  Genuine(dir'[job'[v].o][job'[v].c.name])
        <5>1. v # u /\ at[v] = "move"
          BY <1>t, <2>0, <3>0, <4>2 DEF TypeOK
        <5>2. Genuine(dir[job[v].o][job[v].c.name])
          BY <1>t, <5>1 DEF OnDisk
        <5>3. job[v].o \in Orchestrators /\ job[v].c.name \in Names
          BY <1>t, <5>1 DEF Locks, Chunk
        <5>4. dir[job[v].o][job[v].c.name] # None
          BY <5>2 DEF Genuine
        <5> QED
          BY <2>0, <3>4, <5>2, <5>3, <5>4
      <4> QED
        BY <2>0, <2>4, <4>1, <4>2 DEF OnDisk
    <3>7. PublishedIsGenuine'
      BY <2>0, <2>4 DEF PublishedIsGenuine
    <3> QED
      BY <2>2, <3>2, <3>3, <3>6, <3>7 DEF IInv
  <2> QED
    BY <2>3, <2>4
<1>3. ASSUME NEW u \in Uploads, WriteChunk(u) PROVE IInv'
  <2> DEFINE o == job[u].o  n == job[u].c.name
             file == Put(dir[o][n], job[u].c.offset + pos[u] + 1, job[u].c.byte)
  <2>0. /\ at[u] = "write" /\ dir' = [dir EXCEPT ![o][n] = file] /\ pos' = [pos EXCEPT ![u] = @ + 1]
        /\ UNCHANGED <<root, cs, covered, readers, writer, at, job, extracted, ex, broken, restarts>>
    BY <1>3 DEF WriteChunk
  <2>1. o \in Orchestrators /\ n \in Names /\ job[u].c \in Chunk /\ u \in readers[o]
    BY <1>t, <2>0 DEF Locks, Chunk
  <2>2. dir[o][n] \in Seq(Byte) /\ pos[u] \in Nat
    <3>1. dir \in [Orchestrators -> [Names -> File]] /\ pos \in [Uploads -> Nat]
      BY <1>t DEF TypeOK
    <3>2. dir[o][n] # None
      BY <1>t, <2>0 DEF OnDisk
    <3> QED
      BY <2>1, <3>1, <3>2 DEF File
  <2>3. file \in Seq(Byte)
    <3>1. job[u].c.offset \in Nat /\ job[u].c.byte \in Byte
      BY <2>1 DEF Chunk, Byte
    <3>2. \A a, b \in Nat : a + b + 1 \in Nat \ {0}
      OBVIOUS
    <3> QED
      BY <2>2, <3>1, <3>2, PutType
  <2>4. root # o /\ \A v \in Uploads : at[v] = "move" => job[v].o # o
    BY <1>a, <1>t, <2>1 DEF Locks, OnDisk
  <2>5. \A v \in Uploads : at[v] \in {"write", "move"} =>
           job[v].o \in Orchestrators /\ job[v].c.name \in Names
    BY <1>t DEF Locks, Chunk
  <2> HIDE DEF o, n, file
  <2>6. dir' \in [Orchestrators -> [Names -> File]]
    BY <1>t, <2>0, <2>1, <2>3 DEF TypeOK, File
  <2>7. \A q \in Orchestrators, m \in Names : dir'[q][m] = IF q = o /\ m = n THEN file ELSE dir[q][m]
    BY <1>t, <2>0, <2>1 DEF TypeOK
  <2>8. pos' \in [Uploads -> Nat]
    BY <1>t, <2>0, <2>2 DEF TypeOK
  <2>9. TypeOK'
    BY <1>t, <2>0, <2>6, <2>8 DEF TypeOK
  <2>10. Locks' /\ Tracking'
    BY <1>t, <2>0 DEF Locks, Tracking
  <2>11. \A v \in Uploads : at[v] = "write" => dir'[job[v].o][job[v].c.name] # None
    BY <1>a, <1>t, <2>3, <2>5, <2>7 DEF OnDisk
  <2>12. \A v \in Uploads : at[v] = "move" => Genuine(dir'[job[v].o][job[v].c.name])
    BY <1>t, <2>4, <2>5, <2>7 DEF OnDisk
  <2>13. OnDisk'
    BY <1>t, <2>0, <2>11, <2>12 DEF OnDisk
  <2>14. root # None => \A m \in Names : dir'[root][m] = dir[root][m]
    BY <1>t, <2>4, <2>7 DEF TypeOK
  <2>15. PublishedIsGenuine'
    BY <1>t, <2>0, <2>14 DEF PublishedIsGenuine, Genuine
  <2> QED
    BY <2>9, <2>10, <2>13, <2>15 DEF IInv
<1>4. ASSUME NEW u \in Uploads, WriteChunkFails(u) PROVE IInv'
  <2>1. /\ at[u] = "write" /\ at' = [at EXCEPT ![u] = "error"]
        /\ readers' = [readers EXCEPT ![job[u].o] = @ \ {u}] /\ broken' = broken \cup {job[u].o}
        /\ UNCHANGED <<root, dir, cs, covered, writer, job, pos, extracted, ex, restarts>>
    BY <1>4 DEF WriteChunkFails, Goto, RUnlock
  <2> QED
    BY <1>t, <2>1, ReleaseIInv DEF IInv
<1>5. ASSUME NEW u \in Uploads, UpdateState(u) PROVE IInv'
  <2> USE <1>a, <1>t, <1>5
  <2> DEFINE o == job[u].o  c == job[u].c
             state == IF cs[o] = None THEN NewChunkState(c.fileSize) ELSE cs[o]
             end == c.offset + c.size
             next == IF InRange(state, c.offset, end) THEN Update(state, c.offset, end) ELSE state
             bytes == IF InRange(state, c.offset, end)
                      THEN covered[o] \cup c.offset .. (end - 1) ELSE covered[o]
  <2>0. /\ at[u] = "write" /\ Goto(u, "ask")
        /\ cs' = [cs EXCEPT ![o] = next]
        /\ covered' = [covered EXCEPT ![o] = bytes]
        /\ UNCHANGED <<root, dir, readers, writer, job, pos, extracted, ex, broken, restarts>>
    BY DEF UpdateState, TypeOK
  <2>1. job[u] \in [o : Orchestrators, c : Chunk] /\ o \in Orchestrators /\ c \in Chunk
    BY <2>0 DEF Locks
  <2>2. c.offset \in Nat /\ end \in Nat /\ c.fileSize \in Nat
    BY <2>1 DEF Chunk
  <2>3. state \in ChunkStates /\ Tracks(state, covered[o]) /\ covered[o] \in SUBSET Nat
    <3>1. CASE cs[o] = None
      <4>1. NewChunkState(c.fileSize) \in ChunkStates
        BY <2>2 DEF NewChunkState, ChunkStates
      <4>2. Tracks(NewChunkState(c.fileSize), {})
        BY <2>2, NewTracks
      <4> QED
        BY <2>1, <3>1, <4>1, <4>2 DEF Tracking, TypeOK
    <3>2. CASE cs[o] # None
      BY <2>1, <3>2 DEF Tracking, TypeOK
    <3> QED
      BY <3>1, <3>2
  <2> HIDE DEF state, end
  <2>4. next \in ChunkStates /\ Tracks(next, bytes) /\ bytes \in SUBSET Nat
    <3>1. CASE InRange(state, c.offset, end)
      <4> DEFINE F == state.fileSize  U == state.ups  D == state.downs
      <4>1. state = [fileSize |-> F, ups |-> U, downs |-> D] /\ F \in Nat
            /\ U \in SUBSET Nat /\ D \in SUBSET Nat
        BY <2>3 DEF ChunkStates
      <4> HIDE DEF F, U, D
      <4>2. Tracks(Update(state, c.offset, end), covered[o] \cup c.offset .. (end - 1))
        <5>1. c.offset \in Int /\ end \in Int
          BY <2>2
        <5> QED
          BY <2>3, <3>1, <4>1, <5>1, UpdateIsExact
      <4>3. Update(state, c.offset, end) \in ChunkStates
        BY <2>2, <2>3, UpdateType
      <4>4. covered[o] \cup c.offset .. (end - 1) \in SUBSET Nat
        BY <2>2, <2>3
      <4> QED
        BY <3>1, <4>2, <4>3, <4>4
    <3>2. CASE ~InRange(state, c.offset, end)
      BY <2>3, <3>2
    <3> QED
      BY <3>1, <3>2
  <2> HIDE DEF next, bytes
  <2>5. TypeOK'
    BY <2>0, <2>1, <2>4 DEF TypeOK, Goto
  <2>6. Locks'
    BY <2>0, <2>1 DEF Locks, TypeOK, Goto
  <2>7. OnDisk' /\ PublishedIsGenuine'
    BY <2>0, <2>1 DEF OnDisk, PublishedIsGenuine, TypeOK, Goto
  <2>8. Tracking'
    <3> SUFFICES ASSUME NEW q \in Orchestrators
                 PROVE  IF cs'[q] = None THEN covered'[q] = {} ELSE Tracks(cs'[q], covered'[q])
      BY DEF Tracking
    <3>1. CASE q = o
      BY <2>0, <2>1, <2>4, <3>1 DEF TypeOK
    <3>2. CASE q # o
      BY <2>0, <2>1, <3>2 DEF TypeOK, Tracking
    <3> QED
      BY <3>1, <3>2
  <2> QED
    BY <2>5, <2>6, <2>7, <2>8 DEF IInv
<1>6. ASSUME NEW u \in Uploads, AskCompleted(u) PROVE IInv'
  <2>1. PICK next \in {"ok", "lock"} :
           /\ at[u] = "ask" /\ at' = [at EXCEPT ![u] = next]
           /\ readers' = [readers EXCEPT ![job[u].o] = @ \ {u}]
           /\ UNCHANGED <<root, dir, cs, covered, writer, job, pos, extracted, ex, broken, restarts>>
    BY <1>6 DEF AskCompleted, Goto, RUnlock
  <2> QED
    BY <1>t, <2>1, ReleaseIInv DEF IInv
<1>7. ASSUME NEW u \in Uploads, MoveArtifactStarts(u) PROVE IInv'
  <2> DEFINE o == job[u].o
  <2>0. /\ at[u] = "lock" /\ writer[o] = None /\ readers[o] = {}
        /\ UNCHANGED <<root, dir, cs, covered, readers, job, pos, extracted, ex, broken, restarts>>
    BY <1>7 DEF MoveArtifactStarts
  <2>1. o \in Orchestrators
    BY <1>t, <2>0 DEF Locks
  <2>2. Tracking' /\ PublishedIsGenuine'
    BY <1>t, <2>0 DEF Tracking, PublishedIsGenuine
  <2>3. CASE root = None /\ Matches(u)
    <3>0. at' = [at EXCEPT ![u] = "move"] /\ writer' = [writer EXCEPT ![o] = u]
      BY <1>7, <2>3 DEF MoveArtifactStarts, Goto
    <3>1. writer' \in [Orchestrators -> Uploads \cup {None}]
      BY <1>t, <2>1, <3>0 DEF TypeOK
    <3>2. TypeOK'
      BY <1>t, <2>0, <3>0, <3>1 DEF TypeOK
    <3>3. \A v \in Uploads : ~(at[v] \in {"write", "ask", "move"} /\ job[v].o = o)
      BY <1>a, <1>t, <2>0, <2>1 DEF Locks
    <3>4. Locks'
      BY <1>a, <1>t, <2>0, <2>1, <3>0, <3>3 DEF Locks, TypeOK
    <3>5. Genuine(dir[o][job[u].c.name])
      BY <2>3 DEF Matches
    <3>6. OnDisk'
      BY <1>t, <2>0, <2>3, <3>0, <3>5 DEF OnDisk, TypeOK
    <3> QED
      BY <2>2, <3>2, <3>4, <3>6 DEF IInv
  <2>4. CASE ~(root = None /\ Matches(u))
    <3>0. at' = [at EXCEPT ![u] = "ok"] /\ UNCHANGED writer
      BY <1>7, <2>4 DEF MoveArtifactStarts, Goto
    <3>1. TypeOK'
      BY <1>t, <2>0, <3>0 DEF TypeOK
    <3>2. \A v \in Uploads : at'[v] = IF v = u THEN "ok" ELSE at[v]
      BY <1>t, <3>0 DEF TypeOK
    <3>3. Locks'
      BY <1>t, <2>0, <3>0, <3>2 DEF Locks
    <3>4. OnDisk'
      <4>1. UNCHANGED <<root, dir, readers, writer, job>>
        BY <2>0, <3>0
      <4>2. \A v \in Uploads : at'[v] \in {"write", "move"} => at'[v] = at[v]
        BY <3>2
      <4> QED
        BY <1>t, <4>1, <4>2 DEF OnDisk, Genuine
    <3> QED
      BY <2>2, <3>1, <3>3, <3>4 DEF IInv
  <2> QED
    BY <2>3, <2>4
<1>8. ASSUME NEW u \in Uploads, MoveArtifact(u) PROVE IInv'
  <2> DEFINE o == job[u].o
  <2>0. /\ at[u] = "move" /\ writer' = [writer EXCEPT ![o] = None]
        /\ UNCHANGED <<dir, readers, job, pos, extracted, ex, broken, restarts>>
    BY <1>8 DEF MoveArtifact, Unlock
  <2>1. /\ o \in Orchestrators /\ job[u].c.name \in Names
        /\ writer[o] = u /\ readers[o] = {}
        /\ Genuine(dir[o][job[u].c.name])
    BY <1>a, <1>t, <2>0 DEF Locks, OnDisk, Chunk
  <2>2. \A v \in Uploads : v # u => ~(at[v] \in {"write", "ask", "move"} /\ job[v].o = o)
    BY <1>t, <2>1 DEF Locks
  <2>3. ASSUME NEW next \in {"ok", "error"}, at' = [at EXCEPT ![u] = next] PROVE Locks'
    <3>1. \A v \in Uploads : at'[v] = IF v = u THEN next ELSE at[v]
      BY <1>t, <2>3 DEF TypeOK
    <3>2. \A q \in Orchestrators : writer'[q] = IF q = o THEN None ELSE writer[q]
      BY <1>t, <2>0 DEF TypeOK
    <3>3. \A q \in Orchestrators, v \in Uploads :
             /\ at'[v] \in {"write", "ask"} /\ job[v].o = q => v \in readers[q]
             /\ at'[v] = "move" /\ job[v].o = q => writer'[q] = v
      BY <1>t, <2>2, <3>1, <3>2 DEF Locks
    <3>4. \A v \in Uploads : at'[v] # "idle" => at[v] # "idle"
      BY <2>0, <3>1
    <3>5. \A q \in Orchestrators : writer'[q] # None => readers[q] = {}
      BY <1>t, <3>2 DEF Locks
    <3> QED
      BY <1>t, <2>0, <3>3, <3>4, <3>5 DEF Locks
  <2>4. CASE root = None
    <3>0. /\ root' = o /\ at' = [at EXCEPT ![u] = "ok"]
          /\ cs' = [cs EXCEPT ![o] = None] /\ covered' = [covered EXCEPT ![o] = {}]
      BY <1>8, <2>4 DEF MoveArtifact, Goto
    <3>1. cs' \in [Orchestrators -> ChunkStates \cup {None}]
      BY <1>t, <3>0 DEF TypeOK
    <3>2. TypeOK'
      BY <1>t, <2>0, <2>1, <3>0, <3>1 DEF TypeOK
    <3>3. Locks'
      BY <2>3, <3>0
    <3>4. OnDisk'
      BY <1>t, <2>0, <2>1, <3>0 DEF OnDisk, TypeOK
    <3>5. PublishedIsGenuine'
      BY <2>0, <2>1, <3>0 DEF PublishedIsGenuine
    <3>6. Tracking'
      BY <1>t, <3>0 DEF Tracking, TypeOK
    <3> QED
      BY <3>2, <3>3, <3>4, <3>5, <3>6 DEF IInv
  <2>5. CASE root # None
    <3>0. at' = [at EXCEPT ![u] = "error"] /\ UNCHANGED <<root, cs, covered>>
      BY <1>8, <2>5 DEF MoveArtifact, Goto
    <3>1. TypeOK'
      BY <1>t, <2>0, <3>0 DEF TypeOK
    <3>2. Locks'
      BY <2>3, <3>0
    <3>3. OnDisk' /\ PublishedIsGenuine'
      BY <1>t, <2>0, <2>1, <3>0 DEF OnDisk, PublishedIsGenuine, TypeOK
    <3>4. Tracking'
      BY <1>t, <3>0 DEF Tracking
    <3> QED
      BY <3>1, <3>2, <3>3, <3>4 DEF IInv
  <2> QED
    BY <2>4, <2>5
<1>12. ASSUME NEW u \in Uploads, MoveArtifactFails(u) PROVE IInv'
  <2> DEFINE o == job[u].o
  <2>0. /\ at[u] = "move" \/ (at[u] = "lock" /\ writer[o] = None)
        /\ at' = [at EXCEPT ![u] = "error"] /\ writer' = [writer EXCEPT ![o] = None]
        /\ broken' = broken \cup {o}
        /\ UNCHANGED <<root, dir, cs, covered, readers, job, pos, extracted, ex, restarts>>
    BY <1>12 DEF MoveArtifactFails, Goto, Unlock
  <2>1. o \in Orchestrators /\ (at[u] = "move" => writer[o] = u)
    BY <1>t, <2>0 DEF Locks
  <2>2. \A v \in Uploads : at'[v] = IF v = u THEN "error" ELSE at[v]
    BY <1>t, <2>0 DEF TypeOK
  <2>3. \A q \in Orchestrators : writer'[q] = IF q = o THEN None ELSE writer[q]
    BY <1>t, <2>0 DEF TypeOK
  <2>4. \A v \in Uploads : v # u => ~(at[v] = "move" /\ job[v].o = o)
    BY <1>a, <1>t, <2>0, <2>1 DEF Locks
  <2>5. TypeOK'
    BY <1>t, <2>0, <2>1 DEF TypeOK
  <2> HIDE DEF o
  <2>6. Locks'
    <3>1. \A q \in Orchestrators, v \in Uploads :
             /\ at'[v] \in {"write", "ask"} /\ job[v].o = q => v \in readers[q]
             /\ at'[v] = "move" /\ job[v].o = q => writer'[q] = v
      BY <1>t, <2>2, <2>3, <2>4 DEF Locks
    <3>2. \A v \in Uploads : at'[v] # "idle" => at[v] # "idle"
      BY <2>0, <2>2
    <3>3. \A q \in Orchestrators : writer'[q] # None => readers[q] = {}
      BY <1>t, <2>3 DEF Locks
    <3> QED
      BY <1>t, <2>0, <3>1, <3>2, <3>3 DEF Locks
  <2>7. OnDisk'
    <3>1. root # None => root \in Orchestrators
      BY <1>t DEF TypeOK
    <3> QED
      BY <1>t, <2>0, <2>2, <2>3, <3>1 DEF OnDisk
  <2>8. PublishedIsGenuine' /\ Tracking'
    BY <1>t, <2>0 DEF PublishedIsGenuine, Tracking
  <2> QED
    BY <2>5, <2>6, <2>7, <2>8 DEF IInv
<1>9. ASSUME NEW e \in Extractions, ExtractStarts(e) \/ ExtractEnds(e) PROVE IInv'
  <2>0. UNCHANGED <<root, dir, cs, covered, readers, writer, at, job, pos, broken, restarts>>
    BY <1>9 DEF ExtractStarts, ExtractEnds
  <2>1. extracted' \in BOOLEAN
    BY <1>t, <1>9, Zenon DEF ExtractStarts, ExtractEnds, TypeOK
  <2>2. ex' \in [Extractions -> {"idle", "extract", "ok", "conflict", "error"}]
    BY <1>t, <1>9 DEF ExtractStarts, ExtractEnds, TypeOK
  <2>3. TypeOK'
    BY <1>t, <2>0, <2>1, <2>2 DEF TypeOK
  <2>4. Locks' /\ OnDisk' /\ PublishedIsGenuine' /\ Tracking'
    BY <1>t, <2>0 DEF Locks, OnDisk, PublishedIsGenuine, Tracking
  <2> QED
    BY <2>3, <2>4 DEF IInv
<1>10. ASSUME NEW o \in Orchestrators, Restart(o) PROVE IInv'
  <2>0. /\ restarts' \in 0 .. MaxRestarts
        /\ UNCHANGED <<root, job, pos, extracted, ex, broken>>
    BY <1>t, <1>10, ArtifactsAssumption DEF Restart, TypeOK
  <2>1. dir' \in [Orchestrators -> [Names -> File]]
    BY <1>t, <1>10 DEF Restart, TypeOK, File
  <2>2. TypeOK'
    BY <1>t, <1>10, <2>0, <2>1 DEF Restart, TypeOK
  <2>3. \A v \in Uploads :
           /\ at'[v] \in Active => at[v] = at'[v] /\ job[v].o # o
           /\ at'[v] = "idle" <=> at[v] = "idle"
    BY <1>t, <1>10 DEF Restart, Active, TypeOK
  <2>4. \A q \in Orchestrators :
           /\ readers'[q] = IF q = o THEN {} ELSE readers[q]
           /\ writer'[q] = IF q = o THEN None ELSE writer[q]
           /\ cs'[q] = IF q = o THEN None ELSE cs[q]
           /\ covered'[q] = IF q = o THEN {} ELSE covered[q]
    BY <1>t, <1>10 DEF Restart, TypeOK
  <2>5. \A q \in Orchestrators : q # o \/ q = root => dir'[q] = dir[q]
    BY <1>t, <1>10 DEF Restart, TypeOK
  <2>6. Locks'
    BY <1>t, <2>0, <2>3, <2>4 DEF Locks, Active
  <2>7. \A v \in Uploads : at'[v] \in {"write", "move"} =>
           at[v] = at'[v] /\ dir'[job[v].o] = dir[job[v].o]
    BY <1>t, <2>3, <2>5 DEF Locks, Active
  <2>8. root # None => root \in Orchestrators /\ readers'[root] = {} /\ writer'[root] = None
    BY <1>t, <2>4 DEF OnDisk, TypeOK
  <2>9. OnDisk'
    BY <1>t, <2>0, <2>7, <2>8 DEF OnDisk
  <2>10. PublishedIsGenuine'
    BY <1>t, <2>0, <2>5, <2>8 DEF PublishedIsGenuine
  <2>11. Tracking'
    BY <1>t, <2>4 DEF Tracking
  <2> QED
    BY <2>2, <2>6, <2>9, <2>10, <2>11 DEF IInv
<1>11. CASE UNCHANGED vars
  <2>1. TypeOK'
    BY <1>t, <1>11 DEF TypeOK, vars
  <2>2. Locks' /\ OnDisk' /\ PublishedIsGenuine' /\ Tracking'
    BY <1>t, <1>11 DEF Locks, OnDisk, PublishedIsGenuine, Tracking, vars
  <2> QED
    BY <2>1, <2>2 DEF IInv
<1> QED
  BY <1>1, <1>2, <1>3, <1>4, <1>5, <1>6, <1>7, <1>8, <1>9, <1>10, <1>11, <1>12
     DEF Next, UploadStep

(* It holds throughout.                                                    *)
LEMMA IInvHolds == Spec => []IInv
<1> QED
  BY InitIInv, StepIInv, PTL DEF Spec

(* The variables keep their types.                                         *)
THEOREM TypesHold == Spec => []TypeOK
<1>1. IInv => TypeOK
  BY DEF IInv
<1> QED
  BY <1>1, IInvHolds, PTL

(* What is published under a checksum has it, however many requests and    *)
(* orchestrators upload at once, fail and are restarted.                   *)
THEOREM PublishedIsGenuineHolds == Spec => []PublishedIsGenuine
<1>1. IInv => PublishedIsGenuine
  BY DEF IInv
<1> QED
  BY <1>1, IInvHolds, PTL

LEMMA CompletedNow == IInv => CompletedIsExact
<1> SUFFICES ASSUME IInv, NEW o \in Orchestrators, cs[o] # None
             PROVE  IsCompleted(cs[o])
                       <=> cs[o].fileSize > 0 /\ covered[o] = 0 .. (cs[o].fileSize - 1)
  BY DEF CompletedIsExact
<1> DEFINE F == cs[o].fileSize  U == cs[o].ups  D == cs[o].downs
<1>1. cs[o] = [fileSize |-> F, ups |-> U, downs |-> D] /\ F \in Nat
  BY DEF IInv, TypeOK, ChunkStates
<1>2. Tracks(cs[o], covered[o])
  BY DEF IInv, Tracking
<1> HIDE DEF F, U, D
<1>3. IsCompleted([fileSize |-> F, ups |-> U, downs |-> D])
         <=> F > 0 /\ covered[o] = 0 .. (F - 1)
  BY <1>1, <1>2, IsCompletedIsExact
<1> QED
  BY <1>1, <1>3 DEF F

(* IsCompleted says that an upload is complete if and only if every byte   *)
(* was reported.                                                           *)
THEOREM CompletedIsExactHolds == Spec => []CompletedIsExact
<1> QED
  BY CompletedNow, IInvHolds, PTL

(* Once published, the artifact stays as it is: no request writes to it,   *)
(* replaces it or takes it away.                                           *)
THEOREM PublishedIsImmutableHolds == Spec => PublishedIsImmutable
<1>1. IInv /\ [Next]_vars => (root # None => root' = root /\ dir'[root] = dir[root])
  <2> SUFFICES ASSUME IInv, [Next]_vars, root # None
               PROVE  root' = root /\ dir'[root] = dir[root]
    OBVIOUS
  <2>a. TypeOK /\ Locks /\ OnDisk
    BY DEF IInv
  <2>1. ASSUME NEW u \in Uploads, WriteChunk(u)
        PROVE  root' = root /\ dir'[root] = dir[root]
    <3>1. job[u].o \in Orchestrators /\ u \in readers[job[u].o]
      BY <2>1, <2>a DEF WriteChunk, Locks
    <3>2. root # job[u].o
      BY <2>a, <3>1 DEF OnDisk
    <3> QED
      BY <2>1, <2>a, <3>2 DEF WriteChunk, TypeOK
  <2>2. ASSUME NEW u \in Uploads, UpdateArtifact(u) \/ WriteChunkStarts(u)
               \/ WriteChunkFails(u) \/ UpdateState(u) \/ AskCompleted(u)
               \/ MoveArtifactStarts(u) \/ MoveArtifact(u) \/ MoveArtifactFails(u)
        PROVE  root' = root /\ dir' = dir
    BY <2>2 DEF UpdateArtifact, WriteChunkStarts, WriteChunkFails, UpdateState, AskCompleted,
                MoveArtifactStarts, MoveArtifact, MoveArtifactFails
  <2>3. ASSUME NEW e \in Extractions, ExtractStarts(e) \/ ExtractEnds(e)
        PROVE  root' = root /\ dir' = dir
    BY <2>3 DEF ExtractStarts, ExtractEnds
  <2>4. ASSUME NEW o \in Orchestrators, Restart(o)
        PROVE  root' = root /\ dir'[root] = dir[root]
    BY <2>4, <2>a DEF Restart, TypeOK
  <2>5. CASE UNCHANGED vars
    BY <2>5 DEF vars
  <2> QED
    BY <2>1, <2>2, <2>3, <2>4, <2>5 DEF Next, UploadStep
<1>2. Spec => [][Next]_vars
  BY DEF Spec
<1> QED
  BY <1>1, <1>2, IInvHolds, PTL DEF PublishedIsImmutable
-----------------------------------------------------------------------------
(* A file that is all there is published, when its uploads agree on its    *)
(* size.  (The file of a chunk whose request gives another size does not   *)
(* match, and is not looked at again.)                                     *)
AgreedSize == Size > 0 /\ \A u \in Uploads : \A j \in Jobs[u] : j.c.fileSize = Size

Sized ==
    /\ \A u \in Uploads : at[u] # "idle" =>
          job[u].c.fileSize = Size /\ job[u].c.offset + job[u].c.size <= Size
    /\ \A o \in Orchestrators : cs[o] # None => cs[o].fileSize = Size
    /\ \A u \in Uploads : at[u] = "ask" => cs[job[u].o] # None

On(u, o, n) == job[u].o = o /\ job[u].c.name = n

(* Every byte of a file was reported, or will be by who has just written   *)
(* it.                                                                     *)
Accounted(o, n) ==
    \A i \in 1..Len(dir[o][n]) : dir[o][n][i] # "hole" =>
        \/ i - 1 \in covered[o]
        \/ \E u \in Uploads : /\ at[u] = "write" /\ On(u, o, n)
                              /\ job[u].c.offset < i /\ i <= job[u].c.offset + pos[u]

(* A genuine file is going to be looked at.                                *)
Attended(o, n) ==
    Genuine(dir[o][n]) =>
        \E u \in Uploads : at[u] \in {"write", "ask", "lock", "move"} /\ On(u, o, n)

Watched ==
    root = None => \A o \in Orchestrators \ broken, n \in Names :
        (dir[o][n] # None => Accounted(o, n)) /\ Attended(o, n)


LEMMA UpdateKeepsSize ==
  ASSUME NEW st \in ChunkStates, NEW s \in Nat, NEW e \in Nat
  PROVE  Update(st, s, e).fileSize = st.fileSize
  BY DEF Update, ChunkStates

LEMMA StepSized ==
  ASSUME AgreedSize, IInv, Sized, [Next]_vars
  PROVE  Sized'
<1>a. /\ \A u \in Uploads : \A j \in Jobs[u] :
            j.c.fileSize = Size /\ j.c.offset + j.c.size <= Size
      /\ None \notin ChunkStates
  BY ArtifactsAssumption DEF AgreedSize
<1>1. ASSUME NEW u \in Uploads, UpdateArtifact(u) PROVE Sized'
  BY <1>1, <1>a DEF UpdateArtifact, Goto, Sized, IInv, TypeOK
<1>2. ASSUME NEW u \in Uploads, UpdateState(u) PROVE Sized'
  <2> DEFINE o == job[u].o  c == job[u].c
             state == IF cs[o] = None THEN NewChunkState(c.fileSize) ELSE cs[o]
             end == c.offset + c.size
             next == IF InRange(state, c.offset, end) THEN Update(state, c.offset, end) ELSE state
  <2>1. at[u] = "write" /\ Goto(u, "ask") /\ cs' = [cs EXCEPT ![o] = next] /\ UNCHANGED job
    BY <1>2 DEF UpdateState
  <2>2. /\ o \in Orchestrators /\ c \in Chunk /\ c.offset \in Nat /\ end \in Nat
        /\ c.fileSize = Size /\ Size \in Nat
    BY <2>1, ArtifactsAssumption DEF IInv, Locks, Chunk, Sized
  <2>3. state \in ChunkStates /\ state.fileSize = Size
    BY <2>2 DEF NewChunkState, ChunkStates, IInv, TypeOK, Sized
  <2> HIDE DEF state
  <2>4. next.fileSize = Size
    BY <2>2, <2>3, UpdateKeepsSize
  <2> HIDE DEF next, o, c
  <2>5. \A q \in Orchestrators : cs'[q] # None => cs'[q].fileSize = Size
    BY <2>1, <2>2, <2>4 DEF IInv, TypeOK, Sized
  <2>6. \A v \in Uploads : at'[v] # "idle" => at[v] # "idle"
    BY <2>1 DEF Goto, IInv, TypeOK
  <2>7. ASSUME NEW v \in Uploads, at'[v] = "ask" PROVE cs'[job[v].o] # None
    <3>1. v = u \/ at[v] = "ask"
      BY <2>1, <2>7 DEF Goto, IInv, TypeOK
    <3>2. next # None
      BY <1>a, <2>2, <2>3, UpdateType DEF next
    <3>3. at[v] = "ask" => job[v].o \in Orchestrators /\ cs[job[v].o] # None
      BY DEF IInv, Locks, Sized
    <3> QED
      BY <2>1, <2>2, <3>1, <3>2, <3>3 DEF IInv, TypeOK, o
  <2> QED
    BY <2>1, <2>5, <2>6, <2>7 DEF Sized
<1>3. ASSUME UNCHANGED job, \A v \in Uploads : at'[v] # "idle" => at[v] # "idle",
             \A q \in Orchestrators : cs'[q] \in {cs[q], None},
             \A v \in Uploads : at'[v] = "ask" => at[v] = "ask" /\ cs'[job[v].o] = cs[job[v].o]
      PROVE  Sized'
  BY <1>3 DEF Sized
<1>4. ASSUME NEW u \in Uploads,
             WriteChunkStarts(u) \/ WriteChunk(u) \/ WriteChunkFails(u) \/ AskCompleted(u)
             \/ MoveArtifactStarts(u) \/ MoveArtifact(u) \/ MoveArtifactFails(u)
      PROVE  Sized'
  <2>1. at[u] # "idle" /\ UNCHANGED job /\ \A v \in Uploads \ {u} : at'[v] = at[v]
    BY <1>4 DEF WriteChunkStarts, WriteChunk, WriteChunkFails, AskCompleted, MoveArtifactStarts,
       MoveArtifact, MoveArtifactFails, Goto, IInv, TypeOK
  <2>2. \A q \in Orchestrators : cs'[q] \in {cs[q], None}
    BY <1>4 DEF WriteChunkStarts, WriteChunk, WriteChunkFails, AskCompleted, MoveArtifactStarts,
       MoveArtifact, MoveArtifactFails, IInv, TypeOK
  <2>3. ASSUME NEW v \in Uploads, at'[v] = "ask" PROVE at[v] = "ask" /\ cs'[job[v].o] = cs[job[v].o]
    <3>1. at[v] = "ask"
      BY <1>4, <2>1, <2>3 DEF WriteChunkStarts, WriteChunk, WriteChunkFails, AskCompleted,
         MoveArtifactStarts, MoveArtifact, MoveArtifactFails, Goto, IInv, TypeOK
    <3>2. job[v].o \in Orchestrators /\ v \in readers[job[v].o]
      BY <3>1 DEF IInv, Locks
    <3>3. CASE UNCHANGED cs
      BY <3>1, <3>3
    <3>4. CASE MoveArtifact(u)
      <4>1. job[u].o \in Orchestrators /\ at[u] = "move" /\ writer[job[u].o] = u /\ u # None
        BY <3>4, ArtifactsAssumption DEF MoveArtifact, IInv, Locks
      <4>2. job[v].o # job[u].o
        BY <3>2, <4>1 DEF IInv, Locks
      <4> QED
        BY <3>1, <3>2, <3>4, <4>1, <4>2 DEF MoveArtifact, IInv, TypeOK
    <3> QED
      BY <1>4, <3>3, <3>4 DEF WriteChunkStarts, WriteChunk, WriteChunkFails, AskCompleted,
         MoveArtifactStarts, MoveArtifactFails
  <2> QED
    BY <1>3, <2>1, <2>2, <2>3
<1>5. ASSUME NEW o \in Orchestrators, Restart(o) PROVE Sized'
  <2>1. UNCHANGED job /\ \A v \in Uploads : at'[v] # "idle" => at[v] # "idle"
    BY <1>5 DEF Restart, Active
  <2>2. \A q \in Orchestrators : cs'[q] \in {cs[q], None}
    BY <1>5 DEF Restart, IInv, TypeOK
  <2>3. ASSUME NEW v \in Uploads, at'[v] = "ask" PROVE at[v] = "ask" /\ cs'[job[v].o] = cs[job[v].o]
    <3>1. at[v] = "ask" /\ job[v].o # o
      BY <1>5, <2>3 DEF Restart, Active
    <3>2. job[v].o \in Orchestrators
      BY <3>1 DEF IInv, Locks
    <3> QED
      BY <1>5, <3>1, <3>2 DEF Restart, IInv, TypeOK
  <2> QED
    BY <1>3, <2>1, <2>2, <2>3
<1>6. ASSUME UNCHANGED <<job, at, cs>> PROVE Sized'
  BY <1>6 DEF Sized
<1> QED
  BY <1>1, <1>2, <1>4, <1>5, <1>6 DEF Next, UploadStep, ExtractStarts, ExtractEnds, vars

(* Steps that change no file: what was written stays accounted for.        *)
LEMMA SameFiles ==
  ASSUME Watched, IInv, UNCHANGED <<root, dir, covered, broken, pos>>, NEW u \in Uploads,
         at[u] # "write", at'[u] # "write",
         \A v \in Uploads \ {u} : at'[v] = at[v] /\ job'[v] = job[v],
         \A o \in Orchestrators \ broken, n \in Names : root = None => Attended(o, n)'
  PROVE  Watched'
<1> SUFFICES ASSUME root = None, NEW o \in Orchestrators \ broken, NEW n \in Names, dir[o][n] # None
             PROVE  Accounted(o, n)'
  BY DEF Watched
<1>1. Accounted(o, n)
  BY DEF Watched
<1>2. ASSUME NEW v \in Uploads, at[v] = "write" PROVE v # u /\ at'[v] = "write" /\ job'[v] = job[v]
  BY <1>2
<1> QED
  BY <1>1, <1>2 DEF Accounted, On

(* The last upload that asks finds a genuine file complete: a byte that is *)
(* not reported yet has a writer that asks later.                          *)
LEMMA AskWatched ==
  ASSUME AgreedSize, IInv, Sized, Watched, NEW u \in Uploads, AskCompleted(u)
  PROVE  Watched'
<1>1. /\ at[u] = "ask" /\ UNCHANGED <<root, dir, cs, covered, job, pos, broken>>
      /\ at' = [at EXCEPT ![u] = IF IsCompleted(cs[job[u].o]) THEN "lock" ELSE "ok"]
  BY DEF AskCompleted, Goto
<1>2. at'[u] \in {"lock", "ok"} /\ \A v \in Uploads \ {u} : at'[v] = at[v]
  BY <1>1 DEF IInv, TypeOK
<1>3. ASSUME NEW o \in Orchestrators \ broken, NEW n \in Names, root = None, Genuine(dir[o][n])
      PROVE  \E v \in Uploads : at'[v] \in {"write", "ask", "lock", "move"} /\ On(v, o, n)
  <2>1. PICK v \in Uploads : at[v] \in {"write", "ask", "lock", "move"} /\ On(v, o, n)
    BY <1>3 DEF Watched, Attended
  <2>2. CASE v # u
    BY <1>2, <2>1, <2>2
  <2>3. CASE v = u /\ at'[u] = "lock"
    BY <2>1, <2>3
  <2>4. CASE v = u /\ at'[u] # "lock"
    <3>1. ~IsCompleted(cs[o]) /\ cs[o] # None
      <4>1. ~IsCompleted(cs[job[u].o]) /\ cs[job[u].o] # None
        BY <1>1, <2>4 DEF IInv, TypeOK, Sized
      <4> QED
        BY <2>1, <2>4, <4>1 DEF On
    <3>2. covered[o] # 0 .. (Size - 1) /\ covered[o] \subseteq 0 .. (Size - 1)
      <4>1. cs[o].fileSize = Size
        BY <3>1 DEF Sized
      <4>2. IsCompleted(cs[o]) <=> Size > 0 /\ covered[o] = 0 .. (Size - 1)
        BY <3>1, <4>1, CompletedNow DEF CompletedIsExact
      <4>3. covered[o] \subseteq 0 .. (Size - 1)
        BY <3>1, <4>1 DEF IInv, Tracking, Tracks
      <4> QED
        BY <3>1, <4>2, <4>3 DEF AgreedSize
    <3>3. PICK x \in 0 .. (Size - 1) : x \notin covered[o]
      BY <3>2
    <3>4. Accounted(o, n) /\ Len(dir[o][n]) = Size /\ Size \in Nat /\ \A i \in 1..Size : dir[o][n][i] = "good"
      BY <1>3, ArtifactsAssumption DEF Genuine, Watched
    <3>5. x + 1 \in 1..Size /\ (x + 1) - 1 = x
      BY <3>4
    <3>6. dir[o][n][x + 1] # "hole"
      BY <3>4, <3>5
    <3>7. PICK w \in Uploads : at[w] = "write" /\ On(w, o, n)
      BY <3>3, <3>4, <3>5, <3>6 DEF Accounted
    <3> QED
      BY <1>1, <1>2, <3>7
  <2> QED
    BY <1>2, <2>2, <2>3, <2>4
<1>4. ASSUME NEW o \in Orchestrators \ broken, NEW n \in Names, root = None PROVE Attended(o, n)'
  BY <1>1, <1>3, <1>4 DEF Attended, On, Genuine
<1> QED
  BY <1>1, <1>2, <1>4, SameFiles

(* moveArtifactIfNeeded looks at the file when nobody writes to it.        *)
LEMMA MoveWatched ==
  ASSUME AgreedSize, IInv, Sized, Watched, NEW u \in Uploads, MoveArtifactStarts(u)
  PROVE  Watched'
<1>1. /\ at[u] = "lock" /\ UNCHANGED <<root, dir, covered, job, pos, broken>>
      /\ at'[u] \in {"move", "ok"} /\ (root = None /\ Matches(u) => at'[u] = "move")
      /\ \A v \in Uploads \ {u} : at'[v] = at[v]
  BY DEF MoveArtifactStarts, Goto, IInv, TypeOK
<1>2. ASSUME NEW o \in Orchestrators \ broken, NEW n \in Names, root = None, Genuine(dir[o][n])
      PROVE  \E v \in Uploads : at'[v] \in {"write", "ask", "lock", "move"} /\ On(v, o, n)
  <2>1. PICK v \in Uploads : at[v] \in {"write", "ask", "lock", "move"} /\ On(v, o, n)
    BY <1>2 DEF Watched, Attended
  <2>2. CASE v # u
    BY <1>1, <2>1, <2>2
  <2>3. CASE v = u
    <3>1. Matches(u)
      BY <1>1, <1>2, <2>1, <2>3 DEF Matches, On, Genuine, Sized
    <3> QED
      BY <1>1, <1>2, <2>1, <2>3, <3>1
  <2> QED
    BY <2>2, <2>3
<1>3. ASSUME NEW o \in Orchestrators \ broken, NEW n \in Names, root = None PROVE Attended(o, n)'
  BY <1>1, <1>2, <1>3 DEF Attended, On, Genuine
<1> QED
  BY <1>1, <1>3, SameFiles

(* A request that begins, and one that finds the artifact published.       *)
LEMMA BeginWatched ==
  ASSUME AgreedSize, IInv, Watched, NEW u \in Uploads, UpdateArtifact(u) \/ WriteChunkStarts(u)
  PROVE  Watched'
<1>1. CASE UpdateArtifact(u)
  <2>1. /\ at[u] = "idle" /\ at'[u] = "rlock" /\ UNCHANGED <<root, dir, covered, broken, pos>>
        /\ \A v \in Uploads \ {u} : at'[v] = at[v] /\ job'[v] = job[v]
    BY <1>1 DEF UpdateArtifact, Goto, IInv, TypeOK
  <2>2. ASSUME NEW o \in Orchestrators \ broken, NEW n \in Names, root = None PROVE Attended(o, n)'
    BY <2>1, <2>2 DEF Watched, Attended, On, Genuine
  <2> QED
    BY <2>1, <2>2, SameFiles
<1>2. CASE WriteChunkStarts(u) /\ root # None
  BY <1>2 DEF WriteChunkStarts, Watched
<1>3. CASE WriteChunkStarts(u) /\ root = None
  <2>1. /\ at[u] = "rlock" /\ UNCHANGED <<root, covered, broken, pos, job>> /\ at'[u] = "write"
        /\ \A v \in Uploads \ {u} : at'[v] = at[v]
        /\ job[u].o \in Orchestrators /\ job[u].c.name \in Names
    <3>1. /\ at[u] = "rlock" /\ UNCHANGED <<root, covered, broken, pos, job>>
          /\ at' = [at EXCEPT ![u] = "write"]
      BY <1>3 DEF WriteChunkStarts, Goto
    <3>2. at'[u] = "write" /\ \A v \in Uploads \ {u} : at'[v] = at[v]
      BY <3>1 DEF IInv, TypeOK
    <3>3. job[u].o \in Orchestrators /\ job[u].c.name \in Names
      BY <3>1 DEF IInv, Locks, Chunk
    <3> QED
      BY <3>1, <3>2, <3>3
  <2>2. ASSUME NEW o \in Orchestrators, NEW n \in Names
        PROVE  dir'[o][n] = dir[o][n] \/ (dir[o][n] = None /\ dir'[o][n] = <<>>)
    <3> DEFINE a == job[u].o  b == job[u].c.name
    <3>1. dir' = dir \/ (dir[a][b] = None /\ dir' = [dir EXCEPT ![a][b] = <<>>])
      BY <1>3 DEF WriteChunkStarts
    <3>2. a \in Orchestrators /\ b \in Names /\ dir \in [Orchestrators -> [Names -> File]]
      BY <2>1 DEF IInv, TypeOK
    <3> HIDE DEF a, b
    <3>3. CASE o = a /\ n = b
      BY <3>1, <3>2, <3>3
    <3>4. CASE ~(o = a /\ n = b)
      BY <3>1, <3>2, <3>4
    <3> QED
      BY <3>3, <3>4
  <2>3. ASSUME NEW o \in Orchestrators \ broken, NEW n \in Names
        PROVE  (dir'[o][n] # None => Accounted(o, n)') /\ Attended(o, n)'
    <3>1. CASE dir'[o][n] = dir[o][n]
      <4>1. \A v \in Uploads : at[v] = "write" => at'[v] = "write"
        BY <2>1
      <4>2. \A v \in Uploads : at[v] \in {"write", "ask", "lock", "move"} =>
                                  at'[v] \in {"write", "ask", "lock", "move"}
        BY <2>1
      <4>3. (dir[o][n] # None => Accounted(o, n)) /\ Attended(o, n)
        BY <1>3 DEF Watched
      <4> QED
        BY <2>1, <3>1, <4>1, <4>2, <4>3 DEF Accounted, Attended, On, Genuine
    <3>2. CASE dir'[o][n] = <<>>
      BY <3>2 DEF Accounted, Attended, Genuine, AgreedSize
    <3> QED
      BY <2>2, <3>1, <3>2
  <2> QED
    BY <2>1, <2>3 DEF Watched
<1> QED
  BY <1>1, <1>2, <1>3

(* A byte is written by an upload that is going to report it.              *)
LEMMA WriteWatched ==
  ASSUME AgreedSize, IInv, Watched, NEW u \in Uploads, WriteChunk(u)
  PROVE  Watched'
<1> DEFINE o == job[u].o  n == job[u].c.name  k == job[u].c.offset + pos[u] + 1
           file == Put(dir[o][n], k, job[u].c.byte)
<1>1. /\ at[u] = "write" /\ UNCHANGED <<root, covered, broken, job, at>>
      /\ o \in Orchestrators /\ n \in Names /\ job[u].c.offset \in Nat /\ job[u].c.byte \in Byte
      /\ dir[o][n] \in Seq(Byte) /\ dir[o][n] # None /\ pos[u] \in Nat /\ pos'[u] = pos[u] + 1
      /\ \A v \in Uploads \ {u} : pos'[v] = pos[v]
  <2>1. /\ at[u] = "write" /\ UNCHANGED <<root, covered, broken, job, at>>
        /\ pos' = [pos EXCEPT ![u] = @ + 1] /\ pos \in [Uploads -> Nat]
    BY DEF WriteChunk, IInv, TypeOK
  <2>2. o \in Orchestrators /\ n \in Names /\ job[u].c.offset \in Nat /\ job[u].c.byte \in Byte
    BY <2>1 DEF IInv, Locks, Chunk, Byte
  <2>3. dir[o][n] # None /\ dir[o][n] \in Seq(Byte)
    <3>1. dir[o][n] \in File
      BY <2>2 DEF IInv, TypeOK
    <3>2. dir[o][n] # None
      BY <2>1 DEF IInv, OnDisk
    <3> QED
      BY <3>1, <3>2 DEF File
  <2>4. pos[u] \in Nat /\ pos'[u] = pos[u] + 1 /\ \A v \in Uploads \ {u} : pos'[v] = pos[v]
    BY <2>1
  <2> QED
    BY <2>1, <2>2, <2>3, <2>4
<1>2. /\ dir'[o][n] = file
      /\ \A q \in Orchestrators, m \in Names : <<q, m>> # <<o, n>> => dir'[q][m] = dir[q][m]
  BY <1>1 DEF WriteChunk, IInv, TypeOK
<1>3. k \in Nat \ {0} /\ Len(dir[o][n]) \in Nat
      /\ job[u].c.offset < k /\ k <= job[u].c.offset + pos'[u]
  <2>1. \A a, b \in Nat : a + b + 1 \in Nat \ {0} /\ a < a + b + 1 /\ a + b + 1 <= a + (b + 1)
    OBVIOUS
  <2>2. \A f \in Seq(Byte) : Len(f) \in Nat
    OBVIOUS
  <2> QED
    BY <1>1, <2>1, <2>2
<1>4. \A i \in 1..Len(file) :
         file[i] = IF i = k THEN job[u].c.byte ELSE IF i <= Len(dir[o][n]) THEN dir[o][n][i] ELSE "hole"
  <2> DEFINE l == IF Len(dir[o][n]) > k THEN Len(dir[o][n]) ELSE k
  <2>1. l \in Nat /\ file \in [1..l -> Byte] /\ Len(file) = l
    <3>1. l \in Nat
      BY <1>3
    <3>2. file \in Seq(Byte)
      BY <1>1, <1>3, PutType
    <3>3. DOMAIN file = 1..l
      BY DEF Put
    <3> HIDE DEF l, file
    <3> QED
      BY <3>1, <3>2, <3>3
  <2> QED
    BY <2>1 DEF Put
<1> HIDE DEF file
<1>5. ASSUME root = None, o \notin broken PROVE Accounted(o, n)'
  <2>1. ASSUME NEW i \in 1..Len(file), file[i] # "hole"
        PROVE  \/ i - 1 \in covered[o]
               \/ \E v \in Uploads : /\ at[v] = "write" /\ On(v, o, n)
                                     /\ job[v].c.offset < i /\ i <= job[v].c.offset + pos'[v]
    <3>1. CASE i = k
      BY <1>1, <1>3, <3>1 DEF On
    <3>2. CASE i # k
      <4>1. i \in 1..Len(dir[o][n]) /\ dir[o][n][i] # "hole"
        <5>1. file[i] = IF i <= Len(dir[o][n]) THEN dir[o][n][i] ELSE "hole"
          BY <1>4, <2>1, <3>2
        <5>2. i \in Nat /\ 1 <= i
          BY <2>1
        <5>3. i <= Len(dir[o][n]) /\ dir[o][n][i] # "hole"
          BY <2>1, <5>1
        <5>4. \A m \in Nat : i <= m => i \in 1..m
          BY <5>2
        <5> QED
          BY <1>3, <5>3, <5>4
      <4>2. CASE i - 1 \in covered[o]
        BY <4>2
      <4>3. CASE i - 1 \notin covered[o]
        <5>1. PICK v \in Uploads : /\ at[v] = "write" /\ On(v, o, n)
                                   /\ job[v].c.offset < i /\ i <= job[v].c.offset + pos[v]
          BY <1>1, <1>5, <4>1, <4>3 DEF Watched, Accounted
        <5>2. job[v].c.offset \in Nat /\ pos[v] \in Nat /\ pos'[v] \in {pos[v], pos[v] + 1}
          BY <1>1, <5>1 DEF IInv, Locks, TypeOK, Chunk
        <5>3. i <= job[v].c.offset + pos'[v]
          BY <5>1, <5>2
        <5> QED
          BY <5>1, <5>3
      <4> QED
        BY <4>2, <4>3
    <3> QED
      BY <3>1, <3>2
  <2> QED
    BY <1>1, <1>2, <2>1 DEF Accounted, On
<1>6. Attended(o, n)'
  BY <1>1 DEF Attended, On
<1>7. ASSUME root = None, NEW q \in Orchestrators \ broken, NEW m \in Names, <<q, m>> # <<o, n>>
      PROVE  (dir'[q][m] # None => Accounted(q, m)') /\ Attended(q, m)'
  <2>1. dir'[q][m] = dir[q][m] /\ (dir[q][m] # None => Accounted(q, m)) /\ Attended(q, m)
    BY <1>2, <1>7 DEF Watched
  <2>2. ASSUME dir[q][m] # None PROVE Accounted(q, m)'
    <3>1. \A v \in Uploads : On(v, q, m) => pos'[v] = pos[v]
      BY <1>1, <1>7 DEF On
    <3> QED
      BY <1>1, <2>1, <2>2, <3>1 DEF Accounted, On
  <2> QED
    BY <1>1, <2>1, <2>2 DEF Attended, On, Genuine
<1> QED
  BY <1>1, <1>5, <1>6, <1>7 DEF Watched

(* What an upload wrote is reported before it stops counting as written.   *)
LEMMA ReportWatched ==
  ASSUME AgreedSize, IInv, Sized, Watched, NEW u \in Uploads, UpdateState(u)
  PROVE  Watched'
<1> DEFINE o == job[u].o  c == job[u].c
           state == IF cs[o] = None THEN NewChunkState(c.fileSize) ELSE cs[o]
           end == c.offset + c.size
<1>1. /\ at[u] = "write" /\ pos[u] = c.size /\ UNCHANGED <<root, dir, broken, job, pos>>
      /\ at'[u] = "ask" /\ \A v \in Uploads \ {u} : at'[v] = at[v]
      /\ o \in Orchestrators /\ c.offset \in Nat /\ c.size \in Nat /\ end <= Size
      /\ Size \in Nat
  BY ArtifactsAssumption DEF UpdateState, Goto, IInv, TypeOK, Locks, Chunk, Sized
<1>2. state.fileSize = Size
  BY <1>1 DEF NewChunkState, Sized
<1>3. covered' = IF InRange(state, c.offset, end)
                 THEN [covered EXCEPT ![o] = @ \cup c.offset .. (end - 1)] ELSE covered
  BY DEF UpdateState
<1>4. \A q \in Orchestrators : covered[q] \subseteq covered'[q]
  BY <1>1, <1>3 DEF IInv, TypeOK
<1>5. \A i \in Nat : c.offset < i /\ i <= c.offset + pos[u] => i - 1 \in covered'[o]
  <2> SUFFICES ASSUME NEW i \in Nat, c.offset < i, i <= c.offset + pos[u] PROVE i - 1 \in covered'[o]
    OBVIOUS
  <2>1. i - 1 \in c.offset .. (end - 1) /\ c.offset < end
    BY <1>1
  <2>2. InRange(state, c.offset, end)
    BY <1>1, <1>2, <2>1 DEF InRange
  <2> QED
    BY <1>1, <1>3, <2>1, <2>2 DEF IInv, TypeOK
<1> HIDE DEF state, end
<1>6. ASSUME root = None, NEW q \in Orchestrators \ broken, NEW n \in Names
      PROVE  (dir[q][n] # None => Accounted(q, n)') /\ Attended(q, n)'
  <2>1. (dir[q][n] # None => Accounted(q, n)) /\ Attended(q, n)
    BY <1>6 DEF Watched
  <2>2. ASSUME dir[q][n] # None, NEW i \in 1..Len(dir[q][n]), dir[q][n][i] # "hole"
        PROVE  \/ i - 1 \in covered'[q]
               \/ \E v \in Uploads : /\ at'[v] = "write" /\ On(v, q, n)
                                     /\ job[v].c.offset < i /\ i <= job[v].c.offset + pos[v]
    <3>1. CASE i - 1 \in covered[q]
      BY <1>4, <3>1
    <3>2. CASE i - 1 \notin covered[q]
      <4>1. PICK v \in Uploads : /\ at[v] = "write" /\ On(v, q, n)
                                 /\ job[v].c.offset < i /\ i <= job[v].c.offset + pos[v]
        BY <2>1, <2>2, <3>2 DEF Accounted
      <4>2. CASE v # u
        BY <1>1, <4>1, <4>2
      <4>3. CASE v = u
        <5>1. q = o
          BY <4>1, <4>3 DEF On
        <5>2. i \in Nat
          OBVIOUS
        <5> QED
          BY <1>5, <4>1, <4>3, <5>1, <5>2
      <4> QED
        BY <4>2, <4>3
    <3> QED
      BY <3>1, <3>2
  <2>3. Attended(q, n)'
    BY <1>1, <2>1 DEF Attended, On, Genuine
  <2> QED
    BY <1>1, <2>2, <2>3 DEF Accounted, On
<1> QED
  BY <1>1, <1>6 DEF Watched

LEMMA FailWatched ==
  ASSUME IInv, Watched, NEW u \in Uploads, WriteChunkFails(u) \/ MoveArtifactFails(u)
  PROVE  Watched'
<1>1. /\ UNCHANGED <<root, dir, covered, job, pos>> /\ broken' = broken \cup {job[u].o}
      /\ \A v \in Uploads \ {u} : at'[v] = at[v]
  BY DEF WriteChunkFails, MoveArtifactFails, Goto, IInv, TypeOK
<1>2. ASSUME root = None, NEW o \in Orchestrators \ broken', NEW n \in Names
      PROVE  (dir[o][n] # None => Accounted(o, n)') /\ Attended(o, n)'
  <2>1. (dir[o][n] # None => Accounted(o, n)) /\ Attended(o, n)
    BY <1>1, <1>2 DEF Watched
  <2>2. \A v \in Uploads : On(v, o, n) => v # u /\ at'[v] = at[v]
    BY <1>1 DEF On
  <2> QED
    BY <1>1, <2>1, <2>2 DEF Accounted, Attended, On, Genuine
<1> QED
  BY <1>1, <1>2 DEF Watched

(* A new process starts with an empty directory.                           *)
LEMMA RestartWatched ==
  ASSUME IInv, Watched, NEW o \in Orchestrators, Restart(o)
  PROVE  Watched'
<1>1. UNCHANGED <<root, job, pos, broken>>
      /\ at' = [v \in Uploads |-> IF at[v] \in Active /\ job[v].o = o THEN "lost" ELSE at[v]]
  BY DEF Restart
<1>2. ASSUME root = None
      PROVE  /\ \A n \in Names : dir'[o][n] = None
             /\ \A q \in Orchestrators \ {o} : dir'[q] = dir[q] /\ covered'[q] = covered[q]
  <2>1. root # o
    BY <1>2, ArtifactsAssumption
  <2> QED
    BY <2>1 DEF Restart, IInv, TypeOK
<1>3. ASSUME root = None, NEW q \in Orchestrators \ broken, NEW n \in Names
      PROVE  (dir'[q][n] # None => Accounted(q, n)') /\ Attended(q, n)'
  <2>1. CASE q = o
    BY <1>2, <1>3, <2>1 DEF Attended, Genuine
  <2>2. CASE q # o
    <3>1. dir'[q] = dir[q] /\ covered'[q] = covered[q]
      BY <1>2, <1>3, <2>2
    <3>2. (dir[q][n] # None => Accounted(q, n)) /\ Attended(q, n)
      BY <1>3 DEF Watched
    <3>3. \A v \in Uploads : On(v, q, n) => at'[v] = at[v]
      BY <1>1, <2>2 DEF On
    <3> QED
      BY <1>1, <3>1, <3>2, <3>3 DEF Accounted, Attended, On, Genuine
  <2> QED
    BY <2>1, <2>2
<1> QED
  BY <1>1, <1>3 DEF Watched

LEMMA StepWatched ==
  ASSUME AgreedSize, IInv, Sized, Watched, [Next]_vars
  PROVE  Watched'
<1>1. ASSUME NEW u \in Uploads, MoveArtifact(u) PROVE Watched'
  <2>1. root' # None
    BY <1>1, ArtifactsAssumption DEF MoveArtifact, IInv, Locks
  <2> QED
    BY <2>1 DEF Watched
<1>2. ASSUME UNCHANGED <<root, dir, covered, at, job, pos, broken>> PROVE Watched'
  BY <1>2 DEF Watched, Accounted, Attended, On, Genuine
<1> QED
  BY <1>1, <1>2, BeginWatched, WriteWatched, FailWatched, ReportWatched, AskWatched, MoveWatched,
     RestartWatched DEF Next, UploadStep, ExtractStarts, ExtractEnds, vars

(* When all requests are over, a file that is all there is published, for  *)
(* uploads that agree on its size, in whatever order they write, report    *)
(* and ask: every byte that is not reported yet has a writer, so that the  *)
(* last one to ask finds the file complete, and it looks at the file when  *)
(* nobody writes.                                                          *)
THEOREM WholeIsPublishedHolds == ASSUME AgreedSize PROVE Spec => []WholeIsPublished
<1>1. Init => Sized /\ Watched
  BY DEF Init, Sized, Watched, Attended, Genuine
<1>2. IInv /\ Sized /\ Watched /\ [Next]_vars => Sized' /\ Watched'
  BY StepSized, StepWatched
<1>3. Watched => WholeIsPublished
  <2> SUFFICES ASSUME Watched, \A u \in Uploads : at[u] \notin Active,
                      NEW o \in Orchestrators \ broken, NEW n \in Names, Genuine(dir[o][n])
               PROVE  root # None
    BY DEF WholeIsPublished, WholeAt
  <2>1. root = None => Attended(o, n)
    BY DEF Watched
  <2> QED
    BY <2>1 DEF Attended, Active
<1> QED
  BY <1>1, <1>2, <1>3, IInvHolds, PTL DEF Spec

-----------------------------------------------------------------------------
(* Who waits for whom *)

(* The lock of an orchestrator is held only by its requests that are at    *)
(* work: a request that waits for it holds neither side of it, one that is *)
(* over or was lost in a restart has given it back, and nobody holds the   *)
(* lock of another orchestrator.  So whoever is waited for does not wait.  *)
HoldersWork ==
    \A o \in Orchestrators :
        /\ \A u \in readers[o] : at[u] \in {"write", "ask"} /\ job[u].o = o
        /\ writer[o] # None => at[writer[o]] = "move" /\ job[writer[o]].o = o

LEMMA InitHoldersWork == Init => HoldersWork
  BY DEF Init, HoldersWork

(* A request takes the lock when it starts to work and gives it back in    *)
(* the step in which it stops.                                             *)
LEMMA UploadHoldersWork ==
  ASSUME IInv, HoldersWork, NEW u \in Uploads, UpdateArtifact(u) \/ UploadStep(u)
  PROVE  HoldersWork'
<1>t. /\ readers \in [Orchestrators -> SUBSET Uploads]
      /\ writer \in [Orchestrators -> Uploads \cup {None}]
      /\ at \in [Uploads -> {"idle", "rlock", "write", "ask", "lock", "move",
                             "ok", "conflict", "error", "lost"}]
      /\ job \in [Uploads -> [o : Orchestrators, c : Chunk] \cup {None}]
      /\ None \notin Uploads
  BY ArtifactsAssumption DEF IInv, TypeOK
<1>j. at[u] # "idle" => job[u].o \in Orchestrators
  BY DEF IInv, Locks
<1> DEFINE p == job[u].o
<1>1. CASE UpdateArtifact(u)
  <2>1. /\ at[u] = "idle" /\ UNCHANGED <<readers, writer>>
        /\ \A v \in Uploads \ {u} : at'[v] = at[v] /\ job'[v] = job[v]
    BY <1>1, <1>t DEF UpdateArtifact, Goto
  <2>2. \A o \in Orchestrators : u \notin readers[o] /\ writer[o] # u
    BY <1>t, <2>1 DEF HoldersWork
  <2> QED
    BY <1>t, <2>1, <2>2 DEF HoldersWork
<1>2. CASE WriteChunkStarts(u)
  <2>1. /\ at[u] = "rlock" /\ UNCHANGED <<writer, job>>
        /\ \/ at' = [at EXCEPT ![u] = "conflict"] /\ readers' = readers
           \/ at' = [at EXCEPT ![u] = "write"] /\ readers' = [readers EXCEPT ![p] = @ \cup {u}]
    BY <1>2 DEF WriteChunkStarts, Goto
  <2>2. \A o \in Orchestrators : u \notin readers[o] /\ writer[o] # u
    BY <1>t, <2>1 DEF HoldersWork
  <2>3. \A v \in Uploads \ {u} : at'[v] = at[v]
    BY <1>t, <2>1
  <2>4. CASE readers' = readers
    BY <1>t, <2>1, <2>2, <2>3, <2>4 DEF HoldersWork
  <2>5. CASE at' = [at EXCEPT ![u] = "write"] /\ readers' = [readers EXCEPT ![p] = @ \cup {u}]
    <3>1. at'[u] = "write" /\ p \in Orchestrators
      BY <1>t, <1>j, <2>1, <2>5
    <3>2. \A o \in Orchestrators : readers'[o] = IF o = p THEN readers[o] \cup {u} ELSE readers[o]
      BY <1>t, <2>5, <3>1
    <3> HIDE DEF p
    <3>3. job[u].o = p
      BY DEF p
    <3>4. ASSUME NEW o \in Orchestrators, NEW v \in readers'[o]
          PROVE  at'[v] \in {"write", "ask"} /\ job[v].o = o
      <4>1. CASE v \in readers[o]
        BY <1>t, <2>2, <2>3, <4>1 DEF HoldersWork
      <4>2. CASE v \notin readers[o]
        BY <3>1, <3>2, <3>3, <4>2
      <4> QED
        BY <4>1, <4>2
    <3>5. ASSUME NEW o \in Orchestrators, writer[o] # None
          PROVE  at'[writer[o]] = "move" /\ job[writer[o]].o = o
      BY <1>t, <2>2, <2>3, <3>5 DEF HoldersWork
    <3> QED
      BY <2>1, <3>4, <3>5 DEF HoldersWork
  <2> QED
    BY <2>1, <2>4, <2>5
<1>3. CASE WriteChunk(u)
  BY <1>3 DEF WriteChunk, HoldersWork
<1>4. CASE WriteChunkFails(u) \/ AskCompleted(u)
  <2>1. /\ at[u] \in {"write", "ask"} /\ UNCHANGED <<writer, job>>
        /\ readers' = [readers EXCEPT ![p] = @ \ {u}]
        /\ \E l \in {"error", "lock", "ok"} : at' = [at EXCEPT ![u] = l]
    BY <1>4 DEF WriteChunkFails, AskCompleted, Goto, RUnlock
  <2>2. p \in Orchestrators /\ \A v \in Uploads \ {u} : at'[v] = at[v]
    BY <1>t, <1>j, <2>1
  <2>3. \A o \in Orchestrators : readers'[o] = IF o = p THEN readers[o] \ {u} ELSE readers[o]
    BY <1>t, <2>1, <2>2
  <2>4. \A o \in Orchestrators : writer[o] # u
    BY <1>t, <2>1 DEF HoldersWork
  <2>5. \A o \in Orchestrators : u \in readers[o] => o = p
    BY DEF HoldersWork
  <2> HIDE DEF p
  <2>6. ASSUME NEW o \in Orchestrators, NEW v \in readers'[o]
        PROVE  at'[v] \in {"write", "ask"} /\ job[v].o = o
    <3>1. v \in readers[o] /\ v # u
      BY <2>3, <2>5
    <3> QED
      BY <1>t, <2>2, <3>1 DEF HoldersWork
  <2>7. ASSUME NEW o \in Orchestrators, writer[o] # None
        PROVE  at'[writer[o]] = "move" /\ job[writer[o]].o = o
    BY <1>t, <2>2, <2>4, <2>7 DEF HoldersWork
  <2> QED
    BY <2>1, <2>6, <2>7 DEF HoldersWork
<1>5. CASE UpdateState(u)
  <2>1. /\ at[u] = "write" /\ at' = [at EXCEPT ![u] = "ask"] /\ UNCHANGED <<readers, writer, job>>
    BY <1>5 DEF UpdateState, Goto
  <2>2. /\ at'[u] = "ask" /\ \A v \in Uploads \ {u} : at'[v] = at[v]
        /\ \A o \in Orchestrators : writer[o] # u
    BY <1>t, <2>1 DEF HoldersWork
  <2> QED
    BY <1>t, <2>1, <2>2 DEF HoldersWork
<1>6. CASE MoveArtifactStarts(u)
  <2>1. /\ at[u] = "lock" /\ UNCHANGED <<readers, job>>
        /\ \/ at' = [at EXCEPT ![u] = "move"] /\ writer' = [writer EXCEPT ![p] = u]
           \/ at' = [at EXCEPT ![u] = "ok"] /\ writer' = writer
    BY <1>6 DEF MoveArtifactStarts, Goto
  <2>2. /\ p \in Orchestrators /\ \A v \in Uploads \ {u} : at'[v] = at[v]
        /\ \A o \in Orchestrators : u \notin readers[o] /\ writer[o] # u
    BY <1>t, <1>j, <2>1 DEF HoldersWork
  <2>3. ASSUME NEW o \in Orchestrators, NEW v \in readers[o]
        PROVE  at'[v] \in {"write", "ask"} /\ job[v].o = o
    BY <1>t, <2>2 DEF HoldersWork
  <2>4. ASSUME NEW o \in Orchestrators, writer'[o] # None
        PROVE  at'[writer'[o]] = "move" /\ job[writer'[o]].o = o
    <3>1. CASE writer'[o] = writer[o]
      BY <1>t, <2>2, <2>4, <3>1 DEF HoldersWork
    <3>2. CASE writer'[o] # writer[o]
      <4>1. o = p /\ writer'[o] = u /\ at'[u] = "move"
        BY <1>t, <2>1, <2>2, <3>2
      <4> QED
        BY <4>1
    <3> QED
      BY <3>1, <3>2
  <2> QED
    BY <2>1, <2>3, <2>4 DEF HoldersWork
<1>7. CASE MoveArtifact(u) \/ MoveArtifactFails(u)
  <2>1. /\ at[u] \in {"lock", "move"} /\ UNCHANGED <<readers, job>>
        /\ writer' = [writer EXCEPT ![p] = None]
        /\ \E l \in {"ok", "error"} : at' = [at EXCEPT ![u] = l]
    BY <1>7 DEF MoveArtifact, MoveArtifactFails, Goto, Unlock
  <2>2. /\ p \in Orchestrators /\ \A v \in Uploads \ {u} : at'[v] = at[v]
        /\ \A o \in Orchestrators : u \notin readers[o] /\ (writer[o] = u => o = p)
    BY <1>t, <1>j, <2>1 DEF HoldersWork
  <2>3. \A o \in Orchestrators : writer'[o] = IF o = p THEN None ELSE writer[o]
    BY <1>t, <2>1
  <2> HIDE DEF p
  <2> QED
    BY <1>t, <2>1, <2>2, <2>3 DEF HoldersWork
<1> QED
  BY <1>1, <1>2, <1>3, <1>4, <1>5, <1>6, <1>7 DEF UploadStep

(* In particular no request waits for ever because of one that waits for   *)
(* it, and none that failed, was refused or was lost leaves a lock behind. *)
THEOREM HoldersWorkHolds == Spec => []HoldersWork
<1>1. IInv /\ HoldersWork /\ [Next]_vars => HoldersWork'
  <2> SUFFICES ASSUME IInv, HoldersWork, [Next]_vars PROVE HoldersWork'
    OBVIOUS
  <2>1. ASSUME NEW u \in Uploads, UpdateArtifact(u) \/ UploadStep(u) PROVE HoldersWork'
    BY <2>1, UploadHoldersWork
  <2>2. ASSUME NEW e \in Extractions, ExtractStarts(e) \/ ExtractEnds(e) PROVE HoldersWork'
    BY <2>2 DEF ExtractStarts, ExtractEnds, HoldersWork
  <2>3. ASSUME NEW p \in Orchestrators, Restart(p) PROVE HoldersWork'
    <3>1. /\ at' = [u \in Uploads |-> IF at[u] \in Active /\ job[u].o = p THEN "lost" ELSE at[u]]
          /\ readers' = [readers EXCEPT ![p] = {}] /\ writer' = [writer EXCEPT ![p] = None]
          /\ job' = job
      BY <2>3 DEF Restart
    <3>2. /\ readers \in [Orchestrators -> SUBSET Uploads]
          /\ writer \in [Orchestrators -> Uploads \cup {None}]
      BY DEF IInv, TypeOK
    <3>3. \A v \in Uploads : job[v].o # p => at'[v] = at[v]
      BY <3>1
    <3>4. \A o \in Orchestrators : /\ readers'[o] = IF o = p THEN {} ELSE readers[o]
                                   /\ writer'[o] = IF o = p THEN None ELSE writer[o]
      BY <3>1, <3>2
    <3> QED
      BY <3>1, <3>2, <3>3, <3>4 DEF HoldersWork
  <2>4. CASE UNCHANGED vars
    BY <2>4 DEF vars, HoldersWork
  <2> QED
    BY <2>1, <2>2, <2>3, <2>4 DEF Next
<1> QED
  BY <1>1, InitHoldersWork, IInvHolds, PTL DEF Spec
=============================================================================
