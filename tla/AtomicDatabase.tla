--------------------------- MODULE AtomicDatabase ---------------------------
(***************************************************************************)
(* What DataViewer promises its callers: every task is applied to the      *)
(* database in one step, and a task that fails leaves it alone.  The only  *)
(* other thing that may happen is the one the comment in                   *)
(* WithExclusiveLock concedes: a process killed while it rewrites the file *)
(* leaves no data behind.                                                  *)
(***************************************************************************)
CONSTANTS Ops,         \* the operations clients may call
          Task(_, _)   \* the task of an operation, applied to the data

VARIABLE db

Init == db = <<>>

Operate == \E op \in Ops : Task(op, db).ok /\ db' = Task(op, db).data

KilledWhileWriting == db' = <<>>

Next == Operate \/ KilledWhileWriting

Spec == Init /\ [][Next]_db
=============================================================================
