-------------------------- MODULE DataViewerProofs --------------------------
(***************************************************************************)
(* The instance database file under one writer and any number of readers,  *)
(* for every set of operations: the protocol of data_viewer.cpp implements *)
(* AtomicDatabase.  The argument: nobody but the writer changes the file,  *)
(* so what it read is what the file held when it truncates it, and the     *)
(* file holds whole groups only.                                           *)
(***************************************************************************)
EXTENDS DataViewer, FiniteSetTheorems, SequenceTheorems, TLAPS

OneWriter == \A p, q \in Writer : p = q

-----------------------------------------------------------------------------
(* The tasks as functions on sequences of groups *)

IsSeq(d) == d \in Seq(GroupsOf(d)) /\ Junk \notin GroupsOf(d)

(* A sequence of groups is a database.                                     *)
LEMMA SeqOfItsGroups == ASSUME NEW S, NEW d \in Seq(S), Junk \notin S PROVE IsSeq(d)
  BY DEF IsSeq, GroupsOf

LEMMA EmptyIsSeq == IsSeq(<<>>)
<1>1. <<>> \in Seq({})
  BY EmptySeq
<1> QED
  BY <1>1, SeqOfItsGroups

(* The task that edits the first group of a name edits a group.            *)
LEMMA FirstOfPositions ==
    ASSUME NEW S \in SUBSET Nat, S # {} PROVE First(S) \in S
<1> DEFINE R == OpToRel(<, Nat)
<1>1. IsWellFoundedOn(R, Nat)
  BY NatLessThanWellFounded
<1>2. \A a, b \in Nat : a < b => <<a, b>> \in R
  BY DEF OpToRel
<1> HIDE DEF R
<1>3. PICK k \in S : \A j \in S : ~(<<j, k>> \in R)
  BY <1>1, WFMin
<1>4. ASSUME NEW j \in S PROVE k <= j
  <2>1. k \in Nat /\ j \in Nat
    OBVIOUS
  <2>2. ~(j < k)
    BY <1>2, <1>3, <2>1
  <2> QED
    BY <2>1, <2>2
<1> QED
  BY <1>4 DEF First

(* A group an operation names is a group, named or not.                    *)
LEMMA GroupIsNotJunk ==
    ASSUME NEW o \in Ops, o.kind \in {"add", "update"}, NEW d
    PROVE  o.group # Junk /\ Named(d, o.group) # Junk
<1>1. DOMAIN o.group = {"name", "home", "inst"}
  BY OpsAssumption
<1>2. DOMAIN Junk = {"junk"}
  BY DEF Junk
<1>3. DOMAIN Named(d, o.group) = DOMAIN o.group
  BY DEF Named
<1> QED
  BY <1>1, <1>2, <1>3

(* Every task leaves a sequence of groups.                                 *)
LEMMA TaskEffect ==
    ASSUME NEW o \in Ops, NEW d, IsSeq(d)
    PROVE  IsSeq(Task(o, d).data)
<1>0. d \in Seq(GroupsOf(d)) /\ Len(d) \in Nat /\ DOMAIN d = 1..Len(d)
  BY DEF IsSeq
<1>1. IsSeq(d)
  OBVIOUS
<1>2. IsSeq(<<>>)
  BY EmptyIsSeq
<1>3. ASSUME NEW g, g # Junk PROVE IsSeq(Append(d, g))
  <2> DEFINE S == GroupsOf(d) \cup {g}
  <2>1. d \in Seq(S) /\ g \in S /\ Junk \notin S
    BY <1>0, <1>3 DEF IsSeq
  <2> HIDE DEF S
  <2>2. Append(d, g) \in Seq(S)
    BY <2>1
  <2> QED
    BY <2>1, <2>2, SeqOfItsGroups
<1>4. ASSUME NEW k \in 1..Len(d), NEW g, g # Junk PROVE IsSeq([d EXCEPT ![k] = g])
  <2> DEFINE S == GroupsOf(d) \cup {g}
  <2>1. d \in Seq(S) /\ g \in S /\ Junk \notin S
    BY <1>0, <1>4 DEF IsSeq
  <2> HIDE DEF S
  <2>2. [d EXCEPT ![k] = g] \in Seq(S) /\ Len([d EXCEPT ![k] = g]) = Len(d)
    BY <1>0, <2>1, ExceptSeq
  <2> QED
    BY <2>1, <2>2, SeqOfItsGroups
<1>5. ASSUME NEW k \in 1..Len(d)
      PROVE  IsSeq(SubSeq(d, 1, k - 1) \o SubSeq(d, k + 1, Len(d)))
  <2> DEFINE S == GroupsOf(d)
             a == SubSeq(d, 1, k - 1)
             b == SubSeq(d, k + 1, Len(d))
  <2>1. k \in Nat /\ Len(d) \in Nat /\ k - 1 \in 0..Len(d) /\ k + 1 \in 1..(Len(d) + 1) /\ k >= 1 /\ k <= Len(d)
    BY <1>0
  <2>e. \A i \in 1..Len(d) : d[i] \in S
    BY <1>0 DEF GroupsOf
  <2>2. a \in Seq(S) /\ Len(a) = k - 1
    <3>1. \A i \in 1..(k - 1) : d[i] \in S
      BY <1>0, <2>1, <2>e
    <3>2. a \in Seq(S) /\ Len(a) = IF 1 <= k - 1 THEN k - 1 - 1 + 1 ELSE 0
      BY <2>1, <3>1, SubSeqProperties
    <3> QED
      BY <2>1, <3>2
  <2>3. b \in Seq(S) /\ Len(b) = Len(d) - k
    <3>1. \A i \in (k + 1)..Len(d) : d[i] \in S
      BY <1>0, <2>1, <2>e
    <3>2. b \in Seq(S) /\ Len(b) = IF k + 1 <= Len(d) THEN Len(d) - (k + 1) + 1 ELSE 0
      BY <1>0, <2>1, <3>1, SubSeqProperties
    <3> HIDE DEF b, S
    <3>3. CASE k = Len(d)
      BY <1>0, <2>1, <3>2, <3>3
    <3>4. CASE k + 1 <= Len(d)
      BY <1>0, <2>1, <3>2, <3>4
    <3>5. k = Len(d) \/ k + 1 <= Len(d)
      BY <2>1
    <3> QED
      BY <3>3, <3>4, <3>5
  <2>0. Junk \notin S
    BY DEF IsSeq
  <2> HIDE DEF a, b, S
  <2>4. a \o b \in Seq(S) /\ Len(a \o b) = Len(a) + Len(b)
    BY <2>2, <2>3, ConcatProperties
  <2>5. IsSeq(a \o b)
    BY <2>0, <2>4, SeqOfItsGroups
  <2> QED
    BY <2>5 DEF a, b
<1>6. ASSUME NEW n, At(d, n) # {} PROVE First(At(d, n)) \in 1..Len(d)
  <2>1. At(d, n) \in SUBSET (1..Len(d))
    BY <1>0 DEF At
  <2>2. At(d, n) \in SUBSET Nat
    BY <1>0, <2>1
  <2> QED
    BY <1>6, <2>1, <2>2, FirstOfPositions
<1>7. CASE o.kind = "add"
  <2>1. Task(o, d) = AddInstanceGroup(d, o.group)
    BY <1>7 DEF Task
  <2> QED
    BY <1>1, <1>3, <1>7, <2>1, GroupIsNotJunk DEF AddInstanceGroup, Done, Failed
<1>8. CASE o.kind = "update"
  <2>1. Task(o, d) = UpdateInstanceGroup(d, o.group)
    BY <1>8 DEF Task
  <2> QED
    <3>1. CASE At(d, o.group.name) = {}
      BY <1>1, <2>1, <3>1 DEF UpdateInstanceGroup, Failed
    <3>2. CASE At(d, o.group.name) # {}
      <4> DEFINE k == First(At(d, o.group.name))
      <4>1. k \in 1..Len(d)
        BY <1>6, <3>2
      <4>2. Task(o, d).data = [d EXCEPT ![k] = o.group]
        BY <2>1, <3>2 DEF UpdateInstanceGroup, Done
      <4>3. o.group # Junk
        BY <1>8, GroupIsNotJunk
      <4> HIDE DEF k
      <4> QED
        BY <1>4, <4>1, <4>2, <4>3
    <3> QED
      BY <3>1, <3>2
<1>9. CASE o.kind = "remove"
  <2>1. Task(o, d) = RemoveInstanceGroup(d, o.name)
    BY <1>9 DEF Task
  <2>2. CASE At(d, o.name) = {}
    BY <1>1, <2>1, <2>2 DEF RemoveInstanceGroup, Done
  <2>3. CASE At(d, o.name) # {}
    <3> DEFINE k == First(At(d, o.name))
    <3>1. k \in 1..Len(d)
      BY <1>6, <2>3
    <3>2. Task(o, d).data = SubSeq(d, 1, k - 1) \o SubSeq(d, k + 1, Len(d))
      <4>1. Task(o, d) = Done(SubSeq(d, 1, k - 1) \o SubSeq(d, k + 1, Len(d)))
        BY <2>1, <2>3 DEF RemoveInstanceGroup
      <4>2. \A x : Done(x).data = x
        BY DEF Done
      <4> QED
        BY <4>1, <4>2
    <3> HIDE DEF k
    <3> QED
      BY <1>5, <3>1, <3>2
  <2> QED
    BY <2>2, <2>3
<1>10. CASE o.kind = "clear"
  <2>1. Task(o, d) = Clear(d)
    BY <1>10 DEF Task
  <2> QED
    BY <1>1, <1>2, <2>1 DEF Clear, Done, Failed
<1>11. CASE o.kind = "find"
  <2>1. Task(o, d) = Done(d)
    BY <1>11 DEF Task
  <2> QED
    BY <1>1, <2>1 DEF Done
<1> QED
  BY <1>7, <1>8, <1>9, <1>10, <1>11, OpsAssumption


(* A database has a size, and all of it parses.                            *)
LEMMA SizeType == ASSUME NEW d, IsSeq(d) PROVE Size(d) \in Nat
<1>1. Len(d) \in Nat /\ DOMAIN d = 1..Len(d)
  BY DEF IsSeq
<1>2. IsFiniteSet(1..Len(d))
  BY <1>1, FS_Interval
<1>3. IsFiniteSet(Whole(d))
  BY <1>1, <1>2, FS_Subset DEF Whole
<1>4. IsFiniteSet({k \in Whole(d) : HasStartTime(d[k])})
  BY <1>3, FS_Subset
<1>5. Cardinality(Whole(d)) \in Nat /\ Cardinality({k \in Whole(d) : HasStartTime(d[k])}) \in Nat
  BY <1>3, <1>4, FS_CardinalityType
<1> QED
  BY <1>1, <1>5 DEF Size

LEMMA AllParses == ASSUME NEW d, IsSeq(d) PROVE Parsed(d) = d
<1>1. Whole(d) = DOMAIN d
  BY DEF IsSeq, GroupsOf, Whole
<1> QED
  BY <1>1 DEF Parsed

(* Writing at the start of an empty file leaves what was written.          *)
LEMMA OverwriteEmpty == ASSUME NEW s, IsSeq(s) PROVE Overwrite(<<>>, s) = s
<1> DEFINE n == Size(s)
           upTo(k) == Size(SubSeq(<<>>, 1, k))
           K == {k \in 0..Len(<<>>) : upTo(k) >= n}
<1>1. s \in Seq(GroupsOf(s)) /\ Len(s) \in Nat /\ Len(<<>>) = 0
  BY EmptySeq DEF IsSeq
<1>2. Size(<<>>) = 0
  <2>1. Whole(<<>>) = {} /\ {k \in Whole(<<>>) : HasStartTime(<<>>[k])} = {}
    BY DEF Whole
  <2>2. Cardinality({}) = 0
    BY FS_EmptySet
  <2>3. Size(<<>>) = 0 + 0 + 0
    BY <1>1, <2>1, <2>2 DEF Size
  <2> QED
    BY <2>3
<1>3. n \in Nat
  BY SizeType
<1>4. TailFrom(<<>>, n) = <<>>
  <2>1. CASE K = {}
    BY <2>1 DEF TailFrom
  <2>2. CASE K # {}
    <3>1. K \subseteq {0}
      BY <1>1
    <3>2. K = {0}
      BY <2>2, <3>1
    <3>3. First(K) = 0
      BY <3>2 DEF First
    <3>4. upTo(0) = 0
      <4>1. SubSeq(<<>>, 1, 0) = <<>>
        BY SubSeqEmpty
      <4> QED
        BY <1>2, <4>1
    <3>5. n = 0
      <4>1. 0 \in K
        BY <3>2
      <4>2. upTo(0) >= n
        BY <4>1
      <4> QED
        BY <1>3, <3>4, <4>2
    <3>6. SubSeq(<<>>, 0 + 1, Len(<<>>)) = <<>>
      BY <1>1, SubSeqEmpty
    <3>7. [i \in 1..(0 - 0) |-> Junk] = <<>>
      <4>1. 1..(0 - 0) = {}
        OBVIOUS
      <4> QED
        BY <4>1
    <3>8. <<>> \o <<>> = <<>>
      BY ConcatEmptySeq, EmptySeq
    <3>9. TailFrom(<<>>, n) = [i \in 1..(upTo(First(K)) - n) |-> Junk] \o SubSeq(<<>>, First(K) + 1, Len(<<>>))
      BY <2>2 DEF TailFrom
    <3> HIDE DEF K, n, upTo
    <3> QED
      BY <3>3, <3>4, <3>5, <3>6, <3>7, <3>8, <3>9
  <2> QED
    BY <2>1, <2>2
<1>5. s \o <<>> = s
  BY <1>1, ConcatEmptySeq
<1> QED
  BY <1>4, <1>5 DEF Overwrite

-----------------------------------------------------------------------------
(* The inductive invariant.  A process that is not a reader is the one     *)
(* writer.                                                                 *)

Shapes ==
    /\ pc \in [Proc -> {"idle", "called", "locked", "reading", "loaded", "truncated"}]
    /\ DOMAIN op = Proc /\ DOMAIN seen = Proc /\ DOMAIN off = Proc

OpsKnown ==
    \A p \in Proc : pc[p] # "idle" => op[p] \in Ops /\ (Reads(op[p]) \/ p \in Writer)

Contents == IsSeq(file)

(* What a writer at a point of its call knows of the file: it read all of  *)
(* it and nobody changed it since; it may be truncated only then.          *)
Writes(at, o, s, n, f) ==
    /\ ~Reads(o) /\ at \in {"reading", "loaded"} => s = f /\ n = Size(f)
    /\ at = "truncated" => ~Reads(o) /\ IsSeq(s) /\ Task(o, s).ok /\ f = <<>>

WriterSeesFile == \A p \in Proc : Writes(pc[p], op[p], seen[p], off[p], file)

FileInv == Shapes /\ OpsKnown /\ Contents /\ WriterSeesFile

-----------------------------------------------------------------------------
(* The invariant is inductive, and every step is one of AtomicDatabase *)

(* At most one process is writing, and the database is what it read.       *)
LEMMA SoleWriter ==
    ASSUME OneWriter, FileInv
    PROVE  /\ \A p, q \in Proc : pc[p] # "idle" /\ ~Reads(op[p]) /\ pc[q] # "idle" /\ ~Reads(op[q]) => p = q
           /\ \A p, q \in Proc : pc[p] = "truncated" /\ pc[q] = "truncated" => p = q
           /\ \A p \in Proc : pc[p] = "truncated" => Committed = seen[p] /\ file = <<>>
           /\ (\A p \in Proc : pc[p] # "truncated") => Committed = file
<1>1. \A p, q \in Proc : pc[p] # "idle" /\ ~Reads(op[p]) /\ pc[q] # "idle" /\ ~Reads(op[q]) => p = q
  BY DEF OneWriter, FileInv, OpsKnown
<1>2. \A p \in Proc : pc[p] = "truncated" => ~Reads(op[p]) /\ file = <<>>
  BY DEF FileInv, WriterSeesFile, Writes
<1>3. \A p, q \in Proc : pc[p] = "truncated" /\ pc[q] = "truncated" => p = q
  BY <1>1, <1>2
<1>4. ASSUME NEW p \in Proc, pc[p] = "truncated" PROVE Committed = seen[p]
  <2>1. (CHOOSE q \in Proc : pc[q] = "truncated") = p
    BY <1>3, <1>4
  <2> QED
    BY <1>4, <2>1 DEF Committed
<1>5. (\A p \in Proc : pc[p] # "truncated") => Committed = file
  BY DEF Committed
<1> QED
  BY <1>1, <1>2, <1>3, <1>4, <1>5

(* A step that leaves the file and who is writing it alone leaves the      *)
(* database alone.                                                         *)
LEMMA SameDatabase ==
    ASSUME OneWriter, FileInv, file' = file,
           \A p \in Proc : pc'[p] = "truncated" <=> pc[p] = "truncated",
           \A p \in Proc : pc[p] = "truncated" => seen'[p] = seen[p]
    PROVE  Committed' = Committed
<1>1. CASE \A p \in Proc : pc[p] # "truncated"
  BY <1>1 DEF Committed
<1>2. ASSUME NEW p \in Proc, pc[p] = "truncated" PROVE Committed' = Committed
  <2>1. (CHOOSE q \in Proc : pc'[q] = "truncated") = p
    BY <1>2, SoleWriter
  <2>2. Committed' = seen'[p]
    BY <1>2, <2>1 DEF Committed
  <2> QED
    BY <1>2, <2>2, SoleWriter
<1> QED
  BY <1>1, <1>2

(* The parts of a call that touch nothing but the caller's own variables.  *)
LEMMA OwnStep ==
    ASSUME OneWriter, FileInv, NEW p \in Proc,
           file' = file,
           pc[p] # "truncated", pc'[p] # "truncated",
           pc' \in [Proc -> {"idle", "called", "locked", "reading", "loaded", "truncated"}],
           DOMAIN op' = Proc, DOMAIN seen' = Proc, DOMAIN off' = Proc,
           \A q \in Proc \ {p} : /\ pc'[q] = pc[q] /\ op'[q] = op[q]
                                 /\ seen'[q] = seen[q] /\ off'[q] = off[q],
           pc'[p] # "idle" => op'[p] \in Ops /\ (Reads(op'[p]) \/ p \in Writer),
           Writes(pc'[p], op'[p], seen'[p], off'[p], file)
    PROVE  FileInv' /\ Committed' = Committed
<1>1. Committed' = Committed
  BY SameDatabase
<1>2. Shapes'
  BY DEF Shapes
<1>3. OpsKnown'
  BY DEF OpsKnown, FileInv
<1>4. Contents'
  BY DEF Contents, FileInv
<1>5. WriterSeesFile'
  BY DEF WriterSeesFile, FileInv
<1> QED
  BY <1>1, <1>2, <1>3, <1>4, <1>5 DEF FileInv

LEMMA InitFileInv == Init => FileInv /\ Committed = <<>>
<1> SUFFICES ASSUME Init PROVE FileInv /\ Committed = <<>>
  OBVIOUS
<1> USE DEF Init
<1>1. Committed = <<>>
  BY DEF Committed
<1>2. IsSeq(<<>>)
  BY EmptyIsSeq
<1>3. Shapes /\ OpsKnown
  BY DEF Shapes, OpsKnown
<1>4. Contents
  BY <1>2 DEF Contents
<1>5. WriterSeesFile
  BY DEF WriterSeesFile, Writes
<1> QED
  BY <1>1, <1>3, <1>4, <1>5 DEF FileInv

(* Calling, locking and reading leave the database alone.                  *)
LEMMA EnterStep ==
    ASSUME OneWriter, FileInv, NEW p \in Proc,
           (\E o \in Ops : Call(p, o)) \/ LockBackingFile(p)
    PROVE  FileInv' /\ Committed' = Committed
<1>1. /\ pc[p] \in {"idle", "called"} /\ pc'[p] \in {"called", "locked"}
      /\ pc' \in [Proc -> {"idle", "called", "locked", "reading", "loaded", "truncated"}]
      /\ file' = file /\ seen' = seen /\ off' = off
      /\ \A q \in Proc \ {p} : pc'[q] = pc[q] /\ op'[q] = op[q]
      /\ DOMAIN op' = Proc
  BY DEF Call, LockBackingFile, FileInv, Shapes
<1>2. op'[p] \in Ops /\ (Reads(op'[p]) \/ p \in Writer)
  BY DEF Call, LockBackingFile, FileInv, Shapes, OpsKnown
<1>3. DOMAIN seen = Proc /\ DOMAIN off = Proc
  BY DEF FileInv, Shapes
<1>4. Writes(pc'[p], op'[p], seen'[p], off'[p], file)
  BY <1>1 DEF Writes
<1> QED
  BY <1>1, <1>2, <1>3, <1>4, OwnStep

LEMMA LoadStep ==
    ASSUME OneWriter, FileInv, NEW p \in Proc, LoadData(p)
    PROVE  FileInv' /\ Committed' = Committed
<1>1. /\ pc[p] = "locked" /\ pc'[p] \in {"reading", "loaded"}
      /\ pc' \in [Proc -> {"idle", "called", "locked", "reading", "loaded", "truncated"}]
      /\ file' = file /\ op' = op
      /\ DOMAIN op' = Proc /\ DOMAIN seen' = Proc /\ DOMAIN off' = Proc
      /\ \A q \in Proc \ {p} : pc'[q] = pc[q] /\ seen'[q] = seen[q] /\ off'[q] = off[q]
      /\ seen'[p] = file /\ off'[p] = Size(file)
  BY DEF LoadData, FileInv, Shapes
<1>2. op[p] \in Ops /\ (Reads(op[p]) \/ p \in Writer)
  BY <1>1 DEF FileInv, OpsKnown
<1>3. Writes(pc'[p], op'[p], seen'[p], off'[p], file)
  BY <1>1 DEF Writes
<1> QED
  BY <1>1, <1>2, <1>3, OwnStep

(* A writer reads no more after it read the file, for nobody changes it.   *)
LEMMA ReadOnStep ==
    ASSUME OneWriter, FileInv, NEW p \in Proc, ReadOn(p)
    PROVE  FileInv' /\ Committed' = Committed
<1>1. /\ pc[p] = "reading" /\ pc'[p] \in {"reading", "loaded"}
      /\ pc' \in [Proc -> {"idle", "called", "locked", "reading", "loaded", "truncated"}]
      /\ file' = file /\ op' = op
      /\ DOMAIN op' = Proc /\ DOMAIN seen' = Proc /\ DOMAIN off' = Proc
      /\ \A q \in Proc \ {p} : pc'[q] = pc[q] /\ seen'[q] = seen[q] /\ off'[q] = off[q]
  BY DEF ReadOn, FileInv, Shapes
<1>2. op[p] \in Ops /\ (Reads(op[p]) \/ p \in Writer) /\ IsSeq(file)
  BY <1>1 DEF FileInv, OpsKnown, Contents
<1>3. Writes(pc'[p], op'[p], seen'[p], off'[p], file)
  <2>1. CASE Reads(op[p])
    BY <1>1, <2>1 DEF Writes
  <2>2. CASE ~Reads(op[p])
    <3>1. seen[p] = file /\ off[p] = Size(file)
      BY <1>1, <2>2 DEF FileInv, WriterSeesFile, Writes
    <3>2. Size(file) <= off[p]
      BY <1>2, <3>1, SizeType
    <3>3. seen' = [seen EXCEPT ![p] = Parsed(seen[p])] /\ off' = off
      BY <3>2 DEF ReadOn
    <3>4. seen'[p] = Parsed(file) /\ off'[p] = Size(file)
      BY <3>1, <3>3 DEF FileInv, Shapes
    <3>5. seen'[p] = file
      BY <1>2, <3>4, AllParses
    <3> QED
      BY <1>1, <3>4, <3>5 DEF Writes
  <2> QED
    BY <2>1, <2>2
<1> QED
  BY <1>1, <1>2, <1>3, OwnStep

(* A call that ends without writing leaves the database alone.             *)
LEMMA LeaveStep ==
    ASSUME OneWriter, FileInv, NEW p \in Proc, pc[p] # "truncated",
           ReturnUnchanged(p) \/ Killed(p)
    PROVE  FileInv' /\ Committed' = Committed
<1>1. /\ pc'[p] = "idle"
      /\ pc' \in [Proc -> {"idle", "called", "locked", "reading", "loaded", "truncated"}]
      /\ file' = file
      /\ DOMAIN op' = Proc /\ DOMAIN seen' = Proc /\ DOMAIN off' = Proc
      /\ \A q \in Proc \ {p} : /\ pc'[q] = pc[q] /\ op'[q] = op[q]
                               /\ seen'[q] = seen[q] /\ off'[q] = off[q]
  BY DEF ReturnUnchanged, Killed, Return, FileInv, Shapes
<1>2. Writes(pc'[p], op'[p], seen'[p], off'[p], file)
  BY <1>1 DEF Writes
<1> QED
  BY <1>1, <1>2, OwnStep

(* Nothing is lost yet when the writer truncates the file: the database is *)
(* what it read.                                                           *)
LEMMA TruncateStep ==
    ASSUME OneWriter, FileInv, NEW p \in Proc, Truncate(p)
    PROVE  FileInv' /\ Committed' = Committed
<1>1. /\ pc[p] = "loaded" /\ ~Reads(op[p]) /\ Task(op[p], seen[p]).ok
      /\ file' = <<>> /\ op' = op /\ seen' = seen /\ off' = off
      /\ pc' = [pc EXCEPT ![p] = "truncated"]
  BY DEF Truncate
<1>2. seen[p] = file
  BY <1>1 DEF FileInv, WriterSeesFile, Writes
<1>3. /\ pc' \in [Proc -> {"idle", "called", "locked", "reading", "loaded", "truncated"}]
      /\ pc'[p] = "truncated" /\ \A q \in Proc \ {p} : pc'[q] = pc[q]
  BY <1>1 DEF FileInv, Shapes
<1>4. \A q \in Proc \ {p} : pc[q] = "idle" \/ Reads(op[q])
  BY <1>1, SoleWriter
<1>5. \A q \in Proc : pc[q] = "truncated" => ~Reads(op[q])
  BY DEF FileInv, WriterSeesFile, Writes
<1>6. \A q \in Proc : pc[q] # "truncated"
  BY <1>1, <1>4, <1>5
<1>7. Committed = file
  BY <1>6, SoleWriter
<1>8. Committed' = Committed
  <2>1. (CHOOSE q \in Proc : pc'[q] = "truncated") = p
    BY <1>3, <1>6
  <2> QED
    BY <1>1, <1>2, <1>3, <1>7, <2>1 DEF Committed
<1>9. Shapes' /\ OpsKnown'
  BY <1>1, <1>3 DEF FileInv, Shapes, OpsKnown
<1>10. Contents'
  BY <1>1, EmptyIsSeq DEF Contents
<1>11. WriterSeesFile'
  <2> SUFFICES ASSUME NEW q \in Proc PROVE Writes(pc'[q], op'[q], seen'[q], off'[q], file')
    BY DEF WriterSeesFile
  <2>1. CASE q = p
    <3>1. IsSeq(seen[p])
      BY <1>2 DEF FileInv, Contents
    <3> QED
      BY <1>1, <1>3, <2>1, <3>1 DEF Writes
  <2>2. CASE q # p
    BY <1>1, <1>3, <1>4, <1>6, <2>2 DEF Writes
  <2> QED
    BY <2>1, <2>2
<1> QED
  BY <1>8, <1>9, <1>10, <1>11 DEF FileInv

(* The writer ends: it stored the result of its task on the database, or   *)
(* it was killed and left an empty file.                                   *)
LEMMA WriterEnds ==
    ASSUME OneWriter, FileInv, NEW p \in Proc, pc[p] = "truncated",
           NEW t, file' = t, IsSeq(t), Return(p)
    PROVE  FileInv' /\ Committed' = t
<1>1. /\ pc'[p] = "idle"
      /\ pc' \in [Proc -> {"idle", "called", "locked", "reading", "loaded", "truncated"}]
      /\ \A q \in Proc \ {p} : /\ pc'[q] = pc[q] /\ op'[q] = op[q]
                               /\ seen'[q] = seen[q] /\ off'[q] = off[q]
      /\ DOMAIN op' = Proc /\ DOMAIN seen' = Proc /\ DOMAIN off' = Proc
  BY DEF Return, FileInv, Shapes
<1>2. \A q \in Proc \ {p} : pc[q] # "truncated" /\ (pc[q] = "idle" \/ Reads(op[q]))
  <2>1. ~Reads(op[p])
    BY DEF FileInv, WriterSeesFile, Writes
  <2> QED
    BY <2>1, SoleWriter
<1>3. Committed' = t
  BY <1>1, <1>2 DEF Committed
<1>4. Shapes' /\ OpsKnown' /\ Contents'
  BY <1>1 DEF FileInv, Shapes, OpsKnown, Contents
<1>5. WriterSeesFile'
  <2> SUFFICES ASSUME NEW q \in Proc PROVE Writes(pc'[q], op'[q], seen'[q], off'[q], file')
    BY DEF WriterSeesFile
  <2>1. CASE q = p
    BY <1>1, <2>1 DEF Writes
  <2>2. CASE q # p
    BY <1>1, <1>2, <2>2 DEF Writes
  <2> QED
    BY <2>1, <2>2
<1> QED
  BY <1>3, <1>4, <1>5 DEF FileInv

(* Every step keeps the invariant and is a step of AtomicDatabase or       *)
(* leaves the database alone.                                              *)
LEMMA StepFileInv ==
    ASSUME OneWriter, FileInv, [Next]_vars
    PROVE  FileInv' /\ [Atomic!Next]_Committed
<1>1. CASE UNCHANGED vars
  <2>1. Committed' = Committed
    BY <1>1 DEF vars, Committed
  <2> QED
    BY <1>1, <2>1 DEF vars, FileInv, Shapes, OpsKnown, Contents, WriterSeesFile
<1>2. ASSUME NEW p \in Proc, (\E o \in Ops : Call(p, o)) \/ Step(p) \/ Killed(p)
      PROVE  FileInv' /\ [Atomic!Next]_Committed
  <2>1. CASE (\E o \in Ops : Call(p, o)) \/ LockBackingFile(p)
    BY <2>1, EnterStep
  <2>2. CASE LoadData(p)
    BY <2>2, LoadStep
  <2>3. CASE ReadOn(p)
    BY <2>3, ReadOnStep
  <2>4. CASE ReturnUnchanged(p) \/ (Killed(p) /\ pc[p] # "truncated")
    <3>1. pc[p] # "truncated"
      BY <2>4 DEF ReturnUnchanged
    <3> QED
      BY <2>4, <3>1, LeaveStep
  <2>5. CASE Truncate(p)
    BY <2>5, TruncateStep
  <2>6. CASE StoreData(p)
    <3> DEFINE t == Task(op[p], seen[p]).data
    <3>1. /\ pc[p] = "truncated" /\ file' = Overwrite(file, t)
          /\ Return(p)
      BY <2>6 DEF StoreData
    <3>2. /\ op[p] \in Ops /\ Task(op[p], seen[p]).ok /\ file = <<>>
          /\ IsSeq(seen[p]) /\ Committed = seen[p]
      BY <3>1, SoleWriter DEF FileInv, WriterSeesFile, Writes, OpsKnown, Contents
    <3>3. IsSeq(t)
      BY <3>2, TaskEffect
    <3>4. file' = t
      BY <3>1, <3>2, <3>3, OverwriteEmpty
    <3>5. FileInv' /\ Committed' = t
      BY <3>1, <3>3, <3>4, WriterEnds
    <3>6. Atomic!Operate
      BY <3>2, <3>5 DEF Atomic!Operate
    <3> QED
      BY <3>5, <3>6 DEF Atomic!Next
  <2>7. CASE Killed(p) /\ pc[p] = "truncated"
    <3>1. file' = file /\ Return(p)
      BY <2>7 DEF Killed
    <3>2. file = <<>> /\ IsSeq(<<>>)
      BY <2>7, SoleWriter, EmptyIsSeq
    <3>3. FileInv' /\ Committed' = <<>>
      BY <2>7, <3>1, <3>2, WriterEnds
    <3> QED
      BY <3>3 DEF Atomic!Next, Atomic!KilledWhileWriting
  <2> QED
    BY <1>2, <2>1, <2>2, <2>3, <2>4, <2>5, <2>6, <2>7 DEF Step
<1> QED
  BY <1>1, <1>2 DEF Next

-----------------------------------------------------------------------------
(* With one writer, for every set of readers, operations and any number of *)
(* calls, the lock-read-truncate-write protocol of DataViewer implements   *)
(* one-step operations on the database: a kill while it rewrites the file  *)
(* empties it, and nothing else is ever lost or mixed.                     *)
THEOREM OneWriterIsAtomic == ASSUME OneWriter PROVE Spec => RefinesAtomicDatabase
<1>1. Init => FileInv /\ Atomic!Init
  BY InitFileInv DEF Atomic!Init
<1>2. FileInv /\ [Next]_vars => FileInv' /\ [Atomic!Next]_Committed
  BY StepFileInv
<1> QED
  BY <1>1, <1>2, PTL DEF Spec, RefinesAtomicDatabase, Atomic!Spec
=============================================================================
