----------------------------- MODULE DataViewer -----------------------------
(***************************************************************************)
(* The protocol by which cvd processes share the instance database file    *)
(* (instances/data_viewer.{h,cpp}): open and flock the file, read it all,  *)
(* run the task, and for a write truncate the file and write it again from *)
(* offset 0.  The lock goes when the file descriptor closes, which is when *)
(* the call returns or the process dies.                                   *)
(*                                                                         *)
(* The file is the sequence of the groups serialised in it, with the bytes *)
(* that are no group where a write or a read began inside one.  A write at *)
(* offset 0 over a longer file leaves the tail of the old content, as      *)
(* write(2) does; and what a reader gets from an offset on begins inside a *)
(* group when the file was rewritten with groups of other sizes in between.*)
(* ParseFromString stops there and keeps the groups it parsed before:      *)
(* LoadData drops its result.                                              *)
(***************************************************************************)
EXTENDS InstanceDatabase

CONSTANTS Proc,      \* the cvd processes
          Writer,    \* those that call operations that edit the database
          Ops,       \* the operations and their arguments
          MaxCalls   \* bound: calls made by all processes together

ASSUME ProcAssumption == Writer \subseteq Proc /\ MaxCalls \in Nat

ASSUME OpsAssumption ==
    \A o \in Ops :
        /\ o.kind \in {"add", "update", "remove", "clear", "find"}
        /\ o.kind \in {"add", "update"} => DOMAIN o.group = {"name", "home", "inst"}

VARIABLES file,      \* content of the backing file
          flock,     \* the lock each process holds on it
          pc,        \* where each process is in its call
          op,        \* the operation it called
          seen,      \* what LoadData has read for it
          off,       \* the bytes it has read so far
          calls,     \* calls made so far
          done,      \* history: the updates that completed
          lost       \* history: a process was killed while it rewrote the file

vars == <<file, flock, pc, op, seen, off, calls, done, lost>>

Reads(o) == o.kind = "find"

NoOp == [kind |-> "find"]

-----------------------------------------------------------------------------
(* The bytes of the file: a group takes two, and one more for the start    *)
(* time that SetStartTime adds to a group that is started.  A byte of a    *)
(* part of a group is Junk.                                                *)
Junk == [junk |-> TRUE]

HasStartTime(g) ==
    \E id \in GroupIds(g) : g.inst[id] \in {"STARTING", "RUNNING", "STOPPING", "BOOT_FAILED"}

Whole(d) == {k \in DOMAIN d : d[k] # Junk}

Size(d) == Len(d) + Cardinality(Whole(d)) + Cardinality({k \in Whole(d) : HasStartTime(d[k])})

(* The content from byte n on.                                             *)
TailFrom(d, n) ==
    LET upTo(k) == Size(SubSeq(d, 1, k))
        K == {k \in 0..Len(d) : upTo(k) >= n}
    IN  IF K = {} THEN <<>>
        ELSE [i \in 1..(upTo(First(K)) - n) |-> Junk] \o SubSeq(d, First(K) + 1, Len(d))

(* What a file holds after s is written at its start.                      *)
Overwrite(old, s) == s \o TailFrom(old, Size(s))

(* The groups before the first byte that does not parse.                   *)
Parsed(d) ==
    IF Whole(d) = DOMAIN d THEN d ELSE SubSeq(d, 1, First(DOMAIN d \ Whole(d)) - 1)

-----------------------------------------------------------------------------
TypeOK ==
    /\ flock \in [Proc -> {"none", "LOCK_SH", "LOCK_EX"}]
    /\ pc \in [Proc -> {"idle", "called", "locked", "reading", "loaded", "truncated"}]
    /\ op \in [Proc -> Ops \cup {NoOp}]
    /\ off \in [Proc -> Nat]
    /\ calls \in 0..MaxCalls
    /\ \A p \in Proc : (flock[p] = "none") <=> (pc[p] \in {"idle", "called"})

Init ==
    /\ file = <<>>
    /\ flock = [p \in Proc |-> "none"]
    /\ pc = [p \in Proc |-> "idle"]
    /\ op = [p \in Proc |-> NoOp]
    /\ seen = [p \in Proc |-> <<>>]
    /\ off = [p \in Proc |-> 0]
    /\ calls = 0
    /\ done = <<>>
    /\ lost = FALSE

(* flock(2): shared locks coexist, an exclusive one is alone.              *)
Flock(p, mode) ==
    /\ \A q \in Proc \ {p} :
           flock[q] = "none" \/ (flock[q] = "LOCK_SH" /\ mode = "LOCK_SH")
    /\ flock' = [flock EXCEPT ![p] = mode]

Call(p, o) ==
    /\ pc[p] = "idle"
    /\ calls < MaxCalls
    /\ Reads(o) \/ p \in Writer
    /\ pc' = [pc EXCEPT ![p] = "called"]
    /\ op' = [op EXCEPT ![p] = o]
    /\ calls' = calls + 1
    /\ UNCHANGED <<file, flock, seen, off, done, lost>>

(* The lock mode of WithSharedLock, and the one WithExclusiveLock asks for.*)
SharedLockMode == "LOCK_SH"
ExclusiveLockMode == "LOCK_SH"

LockBackingFile(p) ==
    /\ pc[p] = "called"
    /\ Flock(p, IF Reads(op[p]) THEN SharedLockMode ELSE ExclusiveLockMode)
    /\ pc' = [pc EXCEPT ![p] = "locked"]
    /\ UNCHANGED <<file, op, seen, off, calls, done, lost>>

(* The call returns: its file descriptor closes, which drops the lock.     *)
Return(p) ==
    /\ flock' = [flock EXCEPT ![p] = "none"]
    /\ pc' = [pc EXCEPT ![p] = "idle"]
    /\ seen' = [seen EXCEPT ![p] = <<>>]
    /\ off' = [off EXCEPT ![p] = 0]
    /\ op' = [op EXCEPT ![p] = NoOp]

(* LoadData reads until a read returns nothing.  The buffer of ReadToString*)
(* is large: a read gets all there is from the offset on, and the file may *)
(* change between two of them.                                             *)
LoadData(p) ==
    /\ pc[p] = "locked"
    /\ seen' = [seen EXCEPT ![p] = file]
    /\ off' = [off EXCEPT ![p] = Size(file)]
    /\ pc' = [pc EXCEPT ![p] = IF file = <<>> THEN "loaded" ELSE "reading"]
    /\ UNCHANGED <<file, flock, op, calls, done, lost>>

ReadOn(p) ==
    /\ pc[p] = "reading"
    /\ IF Size(file) <= off[p]
       THEN /\ seen' = [seen EXCEPT ![p] = Parsed(@)]
            /\ pc' = [pc EXCEPT ![p] = "loaded"]
            /\ UNCHANGED off
       ELSE /\ seen' = [seen EXCEPT ![p] = @ \o TailFrom(file, off[p])]
            /\ off' = [off EXCEPT ![p] = Size(file)]
            /\ UNCHANGED pc
    /\ UNCHANGED <<file, flock, op, calls, done, lost>>

(* A reader, and a writer whose task failed, return without writing.       *)
ReturnUnchanged(p) ==
    /\ pc[p] = "loaded"
    /\ Reads(op[p]) \/ ~Task(op[p], seen[p]).ok
    /\ Return(p)
    /\ UNCHANGED <<file, calls, done, lost>>

TruncateForgotten(p) ==
    /\ pc[p] = "loaded"
    /\ ~Reads(op[p])
    /\ Task(op[p], seen[p]).ok
    /\ pc' = [pc EXCEPT ![p] = "truncated"]
    /\ UNCHANGED <<file, flock, op, seen, off, calls, done, lost>>

Truncate(p) ==
    /\ pc[p] = "loaded"
    /\ ~Reads(op[p])
    /\ Task(op[p], seen[p]).ok
    /\ file' = <<>>
    /\ pc' = [pc EXCEPT ![p] = "truncated"]
    /\ UNCHANGED <<flock, op, seen, off, calls, done, lost>>

StoreData(p) ==
    /\ pc[p] = "truncated"
    /\ file' = Overwrite(file, Task(op[p], seen[p]).data)
    /\ done' = Append(done, op[p])
    /\ Return(p)
    /\ UNCHANGED <<calls, lost>>

(* SIGKILL cannot be masked: the process may die anywhere in its call.     *)
Killed(p) ==
    /\ pc[p] # "idle"
    /\ lost' = (lost \/ pc[p] = "truncated")
    /\ Return(p)
    /\ UNCHANGED <<file, calls, done>>

Step(p) ==
    \/ LockBackingFile(p)
    \/ LoadData(p) \/ ReadOn(p)
    \/ ReturnUnchanged(p)
    \/ Truncate(p)
    \/ StoreData(p)

Next == \E p \in Proc : (\E o \in Ops : Call(p, o)) \/ Step(p) \/ Killed(p)

Spec == Init /\ [][Next]_vars

-----------------------------------------------------------------------------
Quiescent == \A p \in Proc : pc[p] = "idle"

(* What the updates of s give when they are applied one after another to   *)
(* an empty database, and whether each of them succeeds.                   *)
InTurn(s) ==
    LET after[k \in 0..Len(s)] ==
            IF k = 0 THEN Done(<<>>)
            ELSE LET t == Task(s[k], after[k - 1].data)
                 IN  [ok |-> after[k - 1].ok /\ t.ok, data |-> t.data]
    IN  after[Len(s)]

Orders(s) ==
    {[k \in DOMAIN s |-> s[f[k]]] :
        f \in {h \in [DOMAIN s -> DOMAIN s] : \A j, k \in DOMAIN s : h[j] = h[k] => j = k}}

(* DataViewer "Guarantees atomic access": whenever no call is under way,   *)
(* the file holds what the updates that completed give in some order, in   *)
(* which each of them succeeds as it did; no completed update is lost and  *)
(* no two are mixed.  (A kill while the file is rewritten may lose it all.)*)
SerialOutcome ==
    Quiescent /\ ~lost => \E s \in Orders(done) : InTurn(s) = Done(file)

(* The file read as the database, with the content a writer is replacing   *)
(* standing for the empty file of its write window.                        *)
Committed ==
    IF \E p \in Proc : pc[p] = "truncated"
    THEN seen[CHOOSE p \in Proc : pc[p] = "truncated"]
    ELSE file

Atomic == INSTANCE AtomicDatabase WITH db <- Committed

(* The read-modify-write protocol implements one-step database operations. *)
RefinesAtomicDatabase == Atomic!Spec
=============================================================================
