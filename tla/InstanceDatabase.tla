-------------------------- MODULE InstanceDatabase --------------------------
(***************************************************************************)
(* The data of the cvd instance database and the tasks that read and edit  *)
(* it (instances/instance_database.cpp).  The database is the sequence of  *)
(* instance groups of the PersistentData message.  A group is              *)
(*    name  a number: n stands for the generated name "cvd_n"; NoName is   *)
(*          the empty name a group has before AddInstanceGroup names it    *)
(*    home  its home directory, made from the clock when the group is      *)
(*          built: it also tells apart two groups that had the same name   *)
(*    inst  its instances: a function from instance ids to their states    *)
(* Instance names are left out: they play the part the ids play.           *)
(***************************************************************************)
EXTENDS Integers, Sequences, FiniteSets

NoName == 0
UnsetId == 0

(* cvd::InstanceState, and the states LocalInstance::IsActive counts.      *)
ActiveState == {"RUNNING", "STARTING", "STOPPING", "PREPARING", "UNREACHABLE"}
InactiveState == {"UNSPECIFIED", "STOPPED", "PREPARE_FAILED", "BOOT_FAILED", "CANCELLED"}
InstanceState == ActiveState \cup InactiveState

Group(Names, Homes, Ids) ==
    [name : Names, home : Homes,
     inst : UNION {[I -> InstanceState] : I \in SUBSET Ids}]

GroupIds(g) == DOMAIN g.inst

GroupsOf(data) == {data[k] : k \in DOMAIN data}

NamesOf(data) == {g.name : g \in GroupsOf(data)}

(* LocalInstanceGroup::Create: the validation every group passes when it   *)
(* is built and when it is read back.  (That ids are distinct is in the    *)
(* shape of inst.)                                                         *)
ValidGroup(g) == GroupIds(g) # {} /\ \A id \in GroupIds(g) : id >= 1

HasActiveInstances(g) == \E id \in GroupIds(g) : g.inst[id] \in ActiveState

SetAllStates(g, s) == [g EXCEPT !.inst = [id \in GroupIds(g) |-> s]]

SetStates(g, ids, s) ==
    [g EXCEPT !.inst = [id \in GroupIds(g) |-> IF id \in ids THEN s ELSE g.inst[id]]]

(* LocalInstanceGroup::Builder: every instance of a new group is being     *)
(* prepared.                                                               *)
BuildGroup(name, home, ids) ==
    [name |-> name, home |-> home, inst |-> [id \in ids |-> "PREPARING"]]

(* The first free name among as many candidates as there are groups plus   *)
(* one.                                                                    *)
GenUniqueGroupName(data) ==
    CHOOSE i \in 1..(Cardinality(NamesOf(data)) + 1) :
        /\ i \notin NamesOf(data)
        /\ \A j \in 1..(i - 1) : j \in NamesOf(data)

-----------------------------------------------------------------------------
(* A filter has an optional group name and an optional instance id.        *)
AnyName == -1
AnyId == -1

GroupMatches(g, filter) ==
    /\ filter.name = AnyName \/ filter.name = g.name
    /\ filter.id = AnyId \/ filter.id \in GroupIds(g)

FindGroups(data, filter) == SelectSeq(data, LAMBDA g : GroupMatches(g, filter))

-----------------------------------------------------------------------------
(* The tasks run inside DataViewer.  Each yields whether it succeeded and  *)
(* the data it leaves; a task that fails stores nothing.                   *)
Done(data) == [ok |-> TRUE, data |-> data]
Failed(data) == [ok |-> FALSE, data |-> data]

ConflictsButIds(data, g) ==
    \E h \in GroupsOf(data) : h.name = g.name \/ h.home = g.home

Conflicts(data, g) ==
    \E h \in GroupsOf(data) :
        \/ h.name = g.name
        \/ h.home = g.home
        \/ (GroupIds(h) \cap GroupIds(g)) \ {UnsetId} # {}

Named(data, g) ==
    IF g.name = NoName THEN [g EXCEPT !.name = GenUniqueGroupName(data)] ELSE g

AddInstanceGroup(data, g) ==
    LET new == Named(data, g)
    IN  IF Conflicts(data, new) THEN Failed(data) ELSE Done(Append(data, new))

(* The positions of the groups of that name; a task edits the first.       *)
At(data, name) == {k \in DOMAIN data : data[k].name = name}

First(S) == CHOOSE k \in S : \A j \in S : k <= j

UpdateInstanceGroup(data, g) ==
    IF At(data, g.name) = {} THEN Failed(data)
    ELSE Done([data EXCEPT ![First(At(data, g.name))] = g])

RemoveInstanceGroup(data, name) ==
    IF At(data, name) = {} THEN Done(data)
    ELSE LET k == First(At(data, name))
         IN  Done(SubSeq(data, 1, k - 1) \o SubSeq(data, k + 1, Len(data)))

Clear(data) ==
    IF \A g \in GroupsOf(data) : ValidGroup(g) THEN Done(<<>>) ELSE Failed(data)

(* The task an operation passes to DataViewer, applied to the data.        *)
Task(o, data) ==
    CASE o.kind = "add"    -> AddInstanceGroup(data, o.group)
      [] o.kind = "update" -> UpdateInstanceGroup(data, o.group)
      [] o.kind = "remove" -> RemoveInstanceGroup(data, o.name)
      [] o.kind = "clear"  -> Clear(data)
      [] o.kind = "find"   -> Done(data)
=============================================================================
