--------------------------- MODULE InstanceManager ---------------------------
(***************************************************************************)
(* cvd processes that create, start, stop, remove and clear instance       *)
(* groups (instances/instance_manager.cpp and the cvd command handlers     *)
(* that call it), over the two things they share:                          *)
(*  - the instance database, each operation of which is one step (what     *)
(*    DataViewer promises; module DataViewer is about that promise);       *)
(*  - one lock file per instance id: a directory entry (path), the inode   *)
(*    it leads to, the flock on the inode and the in-use byte in it.  An   *)
(*    entry can be unlinked while processes hold its inode open.           *)
(* A process runs one command at a time, keeps its own copy of the group   *)
(* it works on, and may be killed anywhere.                                *)
(***************************************************************************)
EXTENDS InstanceDatabase

CONSTANTS Proc,        \* cvd processes
          Id,          \* instance ids
          Inode,       \* inodes of lock files
          None,        \* no inode, no process
          Requests,    \* what may be created: sequences of ids or AutoId
          GivenNames,  \* group names users give; NoName asks for a generated one
          Commands,    \* the commands in use
          MaxCalls,    \* bound: commands run altogether
          MaxKills     \* bound: processes killed

AutoId == 0

ASSUME ConstAssumption ==
    /\ Id \subseteq Nat \ {AutoId}
    /\ None \notin Proc \cup Inode
    /\ \A r \in Requests :
           r \in Seq(Id \cup {AutoId}) /\ r # <<>>
    /\ GivenNames \subseteq Nat
    /\ MaxCalls \in Nat /\ MaxKills \in Nat

VARIABLES path,      \* the inode at each id's lock file path
          byte,      \* the status byte of each inode: "N" or "I"
          holder,    \* the process that holds the flock of each inode
          db,        \* the instance database
          running,   \* <<home, id>> of the devices that run
          launched,  \* homes where a launch left its configuration
          cmd,       \* the command each process runs
          pc,        \* where it is in it
          req,       \* create: the ids requested
          cand,      \* create: the id whose lock file it opened or opens next
          fd,        \* create: the inode it opened
          held,      \* create: the inode locked for each id
          group,     \* its copy of the group it works on
          todo,      \* ids left to mark, to unlink or to stop
          victims,   \* clear: the groups taken out of the database
          calls, kills

lockVars == <<path, byte, holder>>
procVars == <<cmd, pc, req, cand, fd, held, group, todo, victims>>
vars == <<lockVars, db, running, launched, procVars, calls, kills>>

NoInst == [id \in {} |-> "UNSPECIFIED"]
NoGroup == [name |-> NoName, home |-> 0, inst |-> NoInst]
NoLocks == [id \in Id |-> None]

HeldIds(p) == {id \in Id : held[p][id] # None}

Pc == {"idle", "alloc", "flock", "try", "add", "mark", "created", "stop",
       "stopped", "unlink", "remove_db", "starting", "launch", "failed",
       "launched", "next_victim", "kill_all"}

TypeOK ==
    /\ path \in [Id -> Inode \cup {None}]
    /\ byte \in [Inode -> {"N", "I"}]
    /\ holder \in [Inode -> Proc \cup {None}]
    /\ pc \in [Proc -> Pc]
    /\ cmd \in [Proc -> Commands \cup {"none"}]
    /\ held \in [Proc -> [Id -> Inode \cup {None}]]
    /\ fd \in [Proc -> Inode \cup {None}]
    /\ \A p \in Proc : todo[p] \subseteq Id /\ cand[p] \in Nat
    /\ calls \in 0..MaxCalls /\ kills \in 0..MaxKills

Init ==
    /\ path = [id \in Id |-> None]
    /\ byte = [i \in Inode |-> "N"]
    /\ holder = [i \in Inode |-> None]
    /\ db = <<>>
    /\ running = {} /\ launched = {}
    /\ cmd = [p \in Proc |-> "none"] /\ pc = [p \in Proc |-> "idle"]
    /\ req = [p \in Proc |-> <<>>]
    /\ cand = [p \in Proc |-> 1]
    /\ fd = [p \in Proc |-> None]
    /\ held = [p \in Proc |-> NoLocks]
    /\ group = [p \in Proc |-> NoGroup]
    /\ todo = [p \in Proc |-> {}]
    /\ victims = [p \in Proc |-> <<>>]
    /\ calls = 0 /\ kills = 0

Goto(p, l) == pc' = [pc EXCEPT ![p] = l]

(* A command begins: the bound on calls, and the locals it starts with.    *)
Begin(p, c, l, g) ==
    /\ pc[p] = "idle" /\ c \in Commands /\ calls < MaxCalls
    /\ calls' = calls + 1
    /\ cmd' = [cmd EXCEPT ![p] = c]
    /\ Goto(p, l)
    /\ group' = [group EXCEPT ![p] = g]

(* A command ends, or its process dies: its locals are gone and the locks  *)
(* it holds are released.                                                  *)
End(p) ==
    /\ holder' = [i \in Inode |-> IF holder[i] = p THEN None ELSE holder[i]]
    /\ Goto(p, "idle")
    /\ cmd' = [cmd EXCEPT ![p] = "none"]
    /\ req' = [req EXCEPT ![p] = <<>>]
    /\ cand' = [cand EXCEPT ![p] = 1]
    /\ fd' = [fd EXCEPT ![p] = None]
    /\ held' = [held EXCEPT ![p] = NoLocks]
    /\ group' = [group EXCEPT ![p] = NoGroup]
    /\ todo' = [todo EXCEPT ![p] = {}]
    /\ victims' = [victims EXCEPT ![p] = <<>>]

-----------------------------------------------------------------------------
(* CreateInstanceGroup *)

CreateLocals == <<req, cand, fd, held>>

(* cvd create and cvd load.  The home directory is named after the clock.  *)
(* (cvd create first looks for a group of the given name; cvd load leaves  *)
(* that to AddInstanceGroup.)                                              *)
CallCreate(p, r, n) ==
    /\ Begin(p, "create", "alloc", BuildGroup(n, calls + 1, {}))
    /\ req' = [req EXCEPT ![p] = r]
    /\ UNCHANGED <<lockVars, db, running, launched, cand, fd, held, todo, victims, kills>>

(* OpenLockFile: open(O_CREAT | O_RDWR).  A file that is not there is made *)
(* with an inode that no path leads to and no process has open.            *)
Unused(i) ==
    /\ \A id \in Id : path[id] # i
    /\ \A q \in Proc : fd[q] # i /\ \A id \in Id : held[q][id] # i

OpenLockFile(p, id) ==
    \/ /\ path[id] # None
       /\ fd' = [fd EXCEPT ![p] = path[id]]
       /\ UNCHANGED <<path, byte>>
    \/ /\ path[id] = None
       /\ \E i \in Inode : Unused(i)
       /\ LET new == CHOOSE i \in Inode : Unused(i)
          IN  /\ fd' = [fd EXCEPT ![p] = new]
              /\ path' = [path EXCEPT ![id] = new]
              /\ byte' = [byte EXCEPT ![new] = "N"]

Lock(p, id, i) ==
    /\ holder' = [holder EXCEPT ![i] = p]
    /\ held' = [held EXCEPT ![p] = [@ EXCEPT ![id] = i]]
    /\ cand' = [cand EXCEPT ![p] = 1]

(* The requested ids are locked first, in the order of the request: the    *)
(* one at k is next when as many are locked as are requested before it.    *)
IsNextFromTheEnd(p, k) ==
    /\ req[p][k] # AutoId
    /\ Cardinality({j \in (k + 1)..Len(req[p]) : req[p][j] # AutoId}) = Cardinality(HeldIds(p))

IsNextRequest(p, k) ==
    /\ req[p][k] # AutoId
    /\ Cardinality({j \in 1..(k - 1) : req[p][j] # AutoId}) = Cardinality(HeldIds(p))

LeftToRequest(p) == \E k \in DOMAIN req[p] : IsNextRequest(p, k)
NextRequested(p) == req[p][CHOOSE k \in DOMAIN req[p] : IsNextRequest(p, k)]

OpenRequestedAgain(p) ==
    /\ pc[p] = "alloc" /\ LeftToRequest(p)
    /\ OpenLockFile(p, NextRequested(p))
    /\ cand' = [cand EXCEPT ![p] = NextRequested(p)]
    /\ Goto(p, "flock")
    /\ UNCHANGED <<holder, db, running, launched, cmd, req, held, group, todo, victims, calls, kills>>

OpenRequested(p) ==
    /\ pc[p] = "alloc" /\ LeftToRequest(p)
    /\ NextRequested(p) \notin HeldIds(p)
    /\ OpenLockFile(p, NextRequested(p))
    /\ cand' = [cand EXCEPT ![p] = NextRequested(p)]
    /\ Goto(p, "flock")
    /\ UNCHANGED <<holder, db, running, launched, cmd, req, held, group, todo, victims, calls, kills>>

RepeatedId(p) ==
    /\ pc[p] = "alloc" /\ LeftToRequest(p)
    /\ NextRequested(p) \in HeldIds(p)
    /\ End(p)
    /\ UNCHANGED <<path, byte, db, running, launched, calls, kills>>

AcquireLock(p) ==
    /\ pc[p] = "flock"
    /\ holder[fd[p]] = None
    /\ Lock(p, cand[p], fd[p])
    /\ fd' = [fd EXCEPT ![p] = None]
    /\ Goto(p, "alloc")
    /\ UNCHANGED <<path, byte, db, running, launched, cmd, req, group, todo, victims, calls, kills>>

(* AcquireUnusedLock tries 1, 2, 3, ... until it gets the lock of an id    *)
(* that is not in use.                                                     *)
OpenCandidate(p) ==
    /\ pc[p] = "alloc" /\ ~LeftToRequest(p)
    /\ Cardinality(HeldIds(p)) < Len(req[p])
    /\ cand[p] \in Id
    /\ OpenLockFile(p, cand[p])
    /\ Goto(p, "try")
    /\ UNCHANGED <<holder, db, running, launched, cmd, req, cand, held, group, todo, victims, calls, kills>>

TryAcquireLockUnchecked(p) ==
    /\ pc[p] = "try"
    /\ IF holder[fd[p]] = None
       THEN Lock(p, cand[p], fd[p])
       ELSE cand' = [cand EXCEPT ![p] = @ + 1] /\ UNCHANGED <<holder, held>>
    /\ fd' = [fd EXCEPT ![p] = None]
    /\ Goto(p, "alloc")
    /\ UNCHANGED <<path, byte, db, running, launched, cmd, req, group, todo, victims, calls, kills>>

TryAcquireLock(p) ==
    /\ pc[p] = "try"
    /\ IF holder[fd[p]] = None /\ byte[fd[p]] = "N"
       THEN Lock(p, cand[p], fd[p])
       ELSE cand' = [cand EXCEPT ![p] = @ + 1] /\ UNCHANGED <<holder, held>>
    /\ fd' = [fd EXCEPT ![p] = None]
    /\ Goto(p, "alloc")
    /\ UNCHANGED <<path, byte, db, running, launched, cmd, req, group, todo, victims, calls, kills>>

(* All ids are locked: the group is built and its directories are made,    *)
(* which may fail.                                                         *)
Build(p) ==
    /\ pc[p] = "alloc" /\ Cardinality(HeldIds(p)) = Len(req[p])
    /\ group' = [group EXCEPT ![p] = BuildGroup(@.name, @.home, HeldIds(p))]
    /\ Goto(p, "add")
    /\ UNCHANGED <<lockVars, db, running, launched, cmd, req, cand, fd, held, todo, victims, calls, kills>>

DirectoriesFail(p) ==
    /\ pc[p] = "add"
    /\ End(p)
    /\ UNCHANGED <<path, byte, db, running, launched, calls, kills>>

AddGroup(p) ==
    /\ pc[p] = "add"
    /\ LET res == AddInstanceGroup(db, group[p])
       IN  \/ /\ ~res.ok
              /\ End(p)
              /\ UNCHANGED <<path, byte, db>>
           \/ /\ res.ok
              /\ db' = res.data
              /\ group' = [group EXCEPT ![p] = Named(db, @)]
              /\ todo' = [todo EXCEPT ![p] = HeldIds(p)]
              /\ Goto(p, "mark")
              /\ UNCHANGED <<lockVars, cmd, req, cand, fd, held, victims>>
    /\ UNCHANGED <<running, launched, calls, kills>>

MarkInUse(p, id) ==
    /\ pc[p] = "mark" /\ id \in todo[p]
    /\ byte' = [byte EXCEPT ![held[p][id]] = "I"]
    /\ todo' = [todo EXCEPT ![p] = @ \ {id}]
    /\ UNCHANGED <<path, holder, db, running, launched, cmd, pc, req, cand, fd, held, group, victims, calls, kills>>

(* CreateInstanceGroup returns, which destroys the lock files it holds.    *)
ReturnGroup(p) ==
    /\ pc[p] = "mark" /\ todo[p] = {}
    /\ holder' = [i \in Inode |-> IF holder[i] = p THEN None ELSE holder[i]]
    /\ held' = [held EXCEPT ![p] = NoLocks]
    /\ Goto(p, "created")
    /\ UNCHANGED <<path, byte, db, running, launched, cmd, req, cand, fd, group, todo, victims, calls, kills>>

(* The handler's last step with the group: the database entry of that name *)
(* is replaced by the process's copy in state s, if there is one.          *)
Record(p, s) == db' = UpdateInstanceGroup(db, SetAllStates(group[p], s)).data

RecordCreated(p) ==
    /\ pc[p] = "created"
    /\ \E s \in {"STOPPED", "PREPARE_FAILED"} : Record(p, s)
    /\ End(p)
    /\ UNCHANGED <<path, byte, running, launched, calls, kills>>
-----------------------------------------------------------------------------
(* StopInstanceGroup, called by cvd stop, cvd remove and Clear *)

Instances(g, ids) == {<<g.home, id>> : id \in ids}

CallStop(p, k, ids) ==
    /\ HasActiveInstances(db[k])
    /\ Begin(p, "stop", "stop", db[k])
    /\ todo' = [todo EXCEPT ![p] = ids]
    /\ UNCHANGED <<lockVars, db, running, launched, CreateLocals, victims, kills>>

(* RunStopCvd.  When stop_cvd rejects its flags it is run again without    *)
(* them, unless only the choice of instances was asked for.                *)
StopCvd(p, clear) ==
    /\ pc[p] = "stop"
    /\ group[p].home \in launched
    /\ clear \in (IF cmd[p] = "stop" THEN BOOLEAN ELSE {TRUE})
    /\ \/ running' = running \ Instances(group[p], todo[p])
       \/ /\ clear \/ todo[p] = GroupIds(group[p])
          /\ running' = running \ Instances(group[p], GroupIds(group[p]))
    /\ group' = [group EXCEPT ![p] = SetStates(@, todo[p], "STOPPED")]
    /\ Goto(p, "stopped")
    /\ UNCHANGED <<lockVars, db, launched, cmd, CreateLocals, todo, victims, calls, kills>>

(* The database update; its result is not looked at.                       *)
UpdateStopped(p) ==
    /\ pc[p] = "stopped"
    /\ db' = UpdateInstanceGroup(db, group[p]).data
    /\ \/ cmd[p] = "stop" /\ End(p) /\ UNCHANGED <<path, byte>>
       \/ /\ cmd[p] # "stop"
          /\ todo' = [todo EXCEPT ![p] = GroupIds(group[p])]
          /\ Goto(p, "unlink")
          /\ UNCHANGED <<lockVars, cmd, CreateLocals, group, victims>>
    /\ UNCHANGED <<running, launched, calls, kills>>

(* A group that cannot be stopped: cvd stop and cvd remove fail, Clear     *)
(* goes on.                                                                *)
StopFailureIgnored(p) ==
    /\ pc[p] = "stop"
    /\ group' = [group EXCEPT ![p] = SetStates(@, todo[p], "STOPPED")]
    /\ Goto(p, "stopped")
    /\ UNCHANGED <<lockVars, db, running, launched, cmd, CreateLocals, todo, victims, calls, kills>>

StopFails(p) ==
    /\ pc[p] = "stop"
    /\ \/ cmd[p] \in {"stop", "remove"} /\ End(p) /\ UNCHANGED <<path, byte>>
       \/ /\ cmd[p] \in {"clear", "reset"}
          /\ Goto(p, "unlink")
          /\ UNCHANGED <<lockVars, cmd, CreateLocals, group, todo, victims>>
    /\ UNCHANGED <<db, running, launched, calls, kills>>
-----------------------------------------------------------------------------
(* RemoveInstanceGroup, called by cvd remove *)

StopOrUnlink(g) == IF HasActiveInstances(g) THEN "stop" ELSE "unlink"

CallRemove(p, k) ==
    /\ Begin(p, "remove", StopOrUnlink(db[k]), db[k])
    /\ todo' = [todo EXCEPT ![p] = GroupIds(db[k])]
    /\ UNCHANGED <<lockVars, db, running, launched, CreateLocals, victims, kills>>

(* RemoveLockFile: unlink by path; a path that is not there is not an      *)
(* error the caller looks at.                                              *)
LeaveLockFile(p, id) ==
    /\ pc[p] = "unlink" /\ id \in todo[p]
    /\ todo' = [todo EXCEPT ![p] = @ \ {id}]
    /\ UNCHANGED <<lockVars, db, running, launched, cmd, pc, CreateLocals, group, victims, calls, kills>>

RemoveLockFile(p, id) ==
    /\ pc[p] = "unlink" /\ id \in todo[p]
    /\ path' = [path EXCEPT ![id] = None]
    /\ todo' = [todo EXCEPT ![p] = @ \ {id}]
    /\ UNCHANGED <<byte, holder, db, running, launched, cmd, pc, CreateLocals, group, victims, calls, kills>>

(* The lock files are gone; next is the directory, which may fail.         *)
RemoveDirectory(p) ==
    /\ pc[p] = "unlink" /\ todo[p] = {} /\ cmd[p] = "remove"
    /\ \/ Goto(p, "remove_db") /\ UNCHANGED <<lockVars, cmd, CreateLocals, group, todo, victims>>
       \/ End(p) /\ UNCHANGED <<path, byte>>
    /\ UNCHANGED <<db, running, launched, calls, kills>>

RemoveFromDb(p) ==
    /\ pc[p] = "remove_db"
    /\ db' = RemoveInstanceGroup(db, group[p].name).data
    /\ End(p)
    /\ UNCHANGED <<path, byte, running, launched, calls, kills>>
-----------------------------------------------------------------------------
(* cvd start of a whole group *)

CallStart(p, k) ==
    /\ ~HasActiveInstances(db[k])
    /\ Begin(p, "start", "starting", db[k])
    /\ UNCHANGED <<lockVars, db, running, launched, CreateLocals, todo, victims, kills>>

RecordStarting(p) ==
    /\ pc[p] = "starting"
    /\ \/ /\ At(db, group[p].name) = {}
          /\ End(p)
          /\ UNCHANGED <<path, byte, db>>
       \/ /\ At(db, group[p].name) # {}
          /\ Record(p, "STARTING")
          /\ Goto(p, "launch")
          /\ UNCHANGED <<lockVars, cmd, CreateLocals, group, todo, victims>>
    /\ UNCHANGED <<running, launched, calls, kills>>

Launch(p) ==
    /\ pc[p] = "launch"
    /\ running' = running \cup Instances(group[p], GroupIds(group[p]))
    /\ launched' = launched \cup {group[p].home}
    /\ Goto(p, "launched")
    /\ UNCHANGED <<lockVars, db, cmd, CreateLocals, group, todo, victims, calls, kills>>

(* The launcher fails.  If it left run_cvd processes behind, CvdResetGroup *)
(* kills them and deletes the lock files of their instances.               *)
LaunchFails(p) ==
    /\ pc[p] = "launch"
    /\ launched' = launched \cup {group[p].home}
    /\ \/ Goto(p, "failed") /\ UNCHANGED todo
       \/ Goto(p, "unlink") /\ todo' = [todo EXCEPT ![p] = GroupIds(group[p])]
    /\ UNCHANGED <<lockVars, db, running, cmd, CreateLocals, group, victims, calls, kills>>

DeletedLockFiles(p) ==
    /\ pc[p] = "unlink" /\ todo[p] = {} /\ cmd[p] = "start"
    /\ Goto(p, "failed")
    /\ UNCHANGED <<lockVars, db, running, launched, cmd, CreateLocals, group, todo, victims, calls, kills>>

RecordStarted(p) ==
    /\ pc[p] \in {"launched", "failed"}
    /\ Record(p, IF pc[p] = "launched" THEN "RUNNING" ELSE "BOOT_FAILED")
    /\ End(p)
    /\ UNCHANGED <<path, byte, running, launched, calls, kills>>
-----------------------------------------------------------------------------
(* Clear and Reset: the database first, then each group's devices and lock *)
(* files.                                                                  *)

CallClear(p, c) ==
    /\ c \in {"clear", "reset"}
    /\ Begin(p, c, "next_victim", NoGroup)
    /\ victims' = [victims EXCEPT ![p] = db]
    /\ db' = Clear(db).data
    /\ UNCHANGED <<lockVars, running, launched, CreateLocals, todo, kills>>

NextVictim(p) ==
    /\ \/ pc[p] = "next_victim"
       \/ pc[p] = "unlink" /\ todo[p] = {} /\ cmd[p] \in {"clear", "reset"}
    /\ victims[p] # <<>>
    /\ LET g == Head(victims[p])
       IN  /\ group' = [group EXCEPT ![p] = g]
           /\ todo' = [todo EXCEPT ![p] = GroupIds(g)]
           /\ Goto(p, StopOrUnlink(g))
    /\ victims' = [victims EXCEPT ![p] = Tail(@)]
    /\ UNCHANGED <<lockVars, db, running, launched, cmd, CreateLocals, calls, kills>>

ClearDone(p) ==
    /\ \/ pc[p] = "next_victim"
       \/ pc[p] = "unlink" /\ todo[p] = {} /\ cmd[p] \in {"clear", "reset"}
    /\ victims[p] = <<>>
    /\ \/ cmd[p] = "clear" /\ End(p) /\ UNCHANGED <<path, byte>>
       \/ /\ cmd[p] = "reset"
          /\ Goto(p, "kill_all")
          /\ UNCHANGED <<lockVars, cmd, CreateLocals, group, todo, victims>>
    /\ UNCHANGED <<db, running, launched, calls, kills>>

(* KillAllCuttlefishInstances: every run_cvd of the user, then every lock  *)
(* file of the user.                                                       *)
KillAll(p) ==
    /\ pc[p] = "kill_all"
    /\ running' = {}
    /\ path' = [id \in Id |-> None]
    /\ End(p)
    /\ UNCHANGED <<byte, db, launched, calls, kills>>
-----------------------------------------------------------------------------
Killed(p) ==
    /\ pc[p] # "idle" /\ kills < MaxKills
    /\ kills' = kills + 1
    /\ End(p)
    /\ UNCHANGED <<path, byte, db, running, launched, calls>>

Call(p) ==
    \/ \E r \in Requests, n \in GivenNames : CallCreate(p, r, n)
    \/ \E k \in DOMAIN db : \/ CallRemove(p, k)
                            \/ CallStart(p, k)
                            \/ \E ids \in SUBSET GroupIds(db[k]) \ {{}} : CallStop(p, k, ids)
    \/ \E c \in {"clear", "reset"} : CallClear(p, c)

CreateStep(p) ==
    \/ OpenRequested(p) \/ RepeatedId(p) \/ AcquireLock(p)
    \/ OpenCandidate(p) \/ TryAcquireLock(p)
    \/ Build(p) \/ DirectoriesFail(p) \/ AddGroup(p)
    \/ \E id \in Id : MarkInUse(p, id)
    \/ ReturnGroup(p) \/ RecordCreated(p)

OtherStep(p) ==
    \/ \E clear \in BOOLEAN : StopCvd(p, clear)
    \/ UpdateStopped(p) \/ StopFails(p)
    \/ \E id \in Id : RemoveLockFile(p, id)
    \/ RemoveDirectory(p) \/ RemoveFromDb(p)
    \/ RecordStarting(p) \/ Launch(p) \/ LaunchFails(p)
    \/ DeletedLockFiles(p) \/ RecordStarted(p)
    \/ NextVictim(p) \/ ClearDone(p) \/ KillAll(p)

Next == \E p \in Proc : Call(p) \/ CreateStep(p) \/ OtherStep(p) \/ Killed(p)

(* A process that can go on does: the kernel schedules it, and grants a    *)
(* free flock.                                                             *)
Fairness == \A p \in Proc : WF_vars(CreateStep(p) \/ OtherStep(p))

Spec == Init /\ [][Next]_vars /\ Fairness

-----------------------------------------------------------------------------
(* Properties *)

(* An id belongs to one group, and a name or a home directory to one, as   *)
(* AddInstanceGroup requires of a new group: "New instance conflicts with  *)
(* existing instance".                                                     *)
GroupsDisjoint ==
    \A j, k \in DOMAIN db :
        j # k => /\ db[j].name # db[k].name
                 /\ db[j].home # db[k].home
                 /\ GroupIds(db[j]) \cap GroupIds(db[k]) = {}

(* An id that AcquireUnusedLock chose is free in the database when the     *)
(* group is added: cvd create without explicit ids does not fail because   *)
(* other commands run at the same time.                                    *)
AutoIdsAreFree ==
    \A p \in Proc :
        pc[p] = "add" /\ (\A k \in DOMAIN req[p] : req[p][k] = AutoId)
            => \A g \in GroupsOf(db) : GroupIds(g) \cap HeldIds(p) = {}

(* p waits for the flock of an instance lock that q holds.                 *)
WaitsFor(p, q) == pc[p] = "flock" /\ holder[fd[p]] = q

AsksBefore(p, a, b) == \E j, k \in DOMAIN req[p] : j < k /\ req[p][j] = a /\ req[p][k] = b

(* AllocateAndLockInstanceIds locks the ids in the order of the request: a *)
(* creation waits for another one, which waits for nobody or waits for an  *)
(* id that its request names after the one it holds.  Creations whose      *)
(* requests agree on an order of the ids never wait in a circle, and none  *)
(* waits for itself.                                                       *)
WaitsInRequestOrder ==
    \A p, q \in Proc : WaitsFor(p, q) =>
        /\ p # q
        /\ \/ pc[q] \in {"alloc", "try", "add", "mark"}
           \/ pc[q] = "flock" /\ AsksBefore(q, cand[p], cand[q])

(* Two creations wait for each other, and ask for the two ids in opposite  *)
(* orders, which no check of the code rejects.                             *)
OppositeOrders(p, q) ==
    /\ p # q
    /\ WaitsFor(p, q) /\ AsksBefore(p, cand[q], cand[p])
    /\ WaitsFor(q, p) /\ AsksBefore(q, cand[p], cand[q])

(* Every command ends, unless two creations that name the same two ids in  *)
(* opposite orders (--instance_nums=1,2 and 2,1) block each other: nothing *)
(* sorts the ids before AcquireLock waits for them one by one.             *)
CommandsEnd ==
    \A p \in Proc :
        (pc[p] # "idle") ~> (pc[p] = "idle" \/ \E q, r \in Proc : OppositeOrders(q, r))

(* cvd remove: "If the instances cannot be stopped, the removal will fail":*)
(* no device of a group runs when the group leaves the database that way.  *)
RemovalNeedsStopped ==
    [][\A p \in Proc : RemoveFromDb(p) =>
           \A g \in GroupsOf(db) \ GroupsOf(db') :
               Instances(g, GroupIds(g)) \cap running = {}]_vars

Idle == \A p \in Proc : pc[p] = "idle"

(* No id is lost: when no command runs and none was killed, an id marked   *)
(* in use belongs to a group, so removing or clearing that group frees it. *)
(* (A cvd clear that is killed leaves lock files without a group.)         *)
NoLeakedIds ==
    Idle /\ kills = 0 => \A id \in Id :
        path[id] # None /\ byte[path[id]] = "I"
            => \E g \in GroupsOf(db) : id \in GroupIds(g)

(* cvd stop and cvd remove look at the recorded states only: when no       *)
(* command runs, a device of a group in the database that runs is recorded *)
(* as active, whatever failed or was killed before.                        *)
RunningIsRecorded ==
    Idle => \A g \in GroupsOf(db), id \in Id :
        id \in GroupIds(g) /\ <<g.home, id>> \in running => g.inst[id] \in ActiveState
=============================================================================
