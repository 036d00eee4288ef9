------------------------ MODULE InstanceManagerProofs ------------------------
(***************************************************************************)
(* cvd commands over the instance database and the lock files, for any     *)
(* ids, inodes, requests and names and any number of commands and kills.   *)
(*                                                                         *)
(* Every process works on a copy of a group and writes it back by name.    *)
(* While no group leaves the database, or only one process runs, the copy  *)
(* and the entry of that name are the same group (Copied): this keeps the  *)
(* ids of groups apart.  For one process it also gives that running        *)
(* devices are recorded and no id stays marked in use for nobody, and for  *)
(* any number of processes that create and stop groups that an automatic   *)
(* id is free.  The last part is about waiting: explicit ids asked for in  *)
(* ascending order are locked without circular waits.                      *)
(***************************************************************************)
EXTENDS InstanceManager, FiniteSetTheorems, SequenceTheorems, WellFoundedInduction, TLAPS

(* Two situations in which copies of groups do not get stale: commands run *)
(* one after another, or none of them takes a group out of the database.   *)
OneProcess == \A p, q \in Proc : p = q

NoRemovals == Commands \cap {"remove", "clear", "reset"} = {}

Groups == Group(Nat, Nat, Id)

(* The types, of the lock files and what is held of them, of where the     *)
(* commands are, and of the groups.                                        *)
LockTypes ==
    /\ path \in [Id -> Inode \cup {None}]
    /\ byte \in [Inode -> {"N", "I"}]
    /\ holder \in [Inode -> Proc \cup {None}]
    /\ cand \in [Proc -> Nat]
    /\ fd \in [Proc -> Inode \cup {None}]
    /\ held \in [Proc -> [Id -> Inode \cup {None}]]

FlowTypes ==
    /\ cmd \in [Proc -> Commands \cup {"none"}]
    /\ pc \in [Proc -> Pc]
    /\ req \in [Proc -> Requests \cup {<<>>}]
    /\ todo \in [Proc -> SUBSET Id]
    /\ calls \in Nat /\ kills \in Nat

DataTypes ==
    /\ db \in Seq(Groups)
    /\ group \in [Proc -> Groups]
    /\ victims \in [Proc -> Seq(Groups)]

(* Where the commands are.                                                 *)
Creating == {"alloc", "flock", "try", "add", "mark", "created"}

InPhase(p) ==
    /\ pc[p] = "idle" => cmd[p] = "none"
    /\ pc[p] \in Creating => cmd[p] = "create"
    /\ pc[p] \in {"stop", "stopped"} => cmd[p] \in {"stop", "remove", "clear", "reset"}
    /\ pc[p] = "unlink" => cmd[p] \in {"remove", "start", "clear", "reset"}
    /\ pc[p] = "remove_db" => cmd[p] = "remove"
    /\ pc[p] \in {"starting", "launch", "failed", "launched"} => cmd[p] = "start"
    /\ pc[p] \in {"next_victim", "kill_all"} => cmd[p] \in {"clear", "reset"}

(* A lock file is opened and locked as that of one id, which is the only   *)
(* one that its path can belong to, if there still is a path to it.        *)
OpenedFor(p) ==
    /\ pc[p] \in {"flock", "try"} => fd[p] \in Inode /\ cand[p] \in Id
    /\ \A a \in Id : fd[p] # None /\ path[a] = fd[p] => a = cand[p]
    /\ \A a, b \in Id : held[p][b] # None /\ path[a] = held[p][b] => a = b

OnePath == \A a, b \in Id : path[a] # None /\ path[a] = path[b] => a = b

(* The group that is added has the ids that are locked.                    *)
Built(p) ==
    /\ pc[p] \in Creating => req[p] \in Requests
    /\ pc[p] \in {"add", "mark"} => GroupIds(group[p]) = HeldIds(p) /\ HeldIds(p) # {}
    /\ pc[p] = "mark" => todo[p] \subseteq HeldIds(p)

(* A copy is one of the group that the database has under its name.        *)
Same(g, h) == g.name = h.name /\ g.home = h.home /\ GroupIds(g) = GroupIds(h)

WithCopy == {"mark", "created", "stop", "stopped", "unlink", "remove_db", "starting",
             "launch", "failed", "launched"}

Copied(p) ==
    /\ pc[p] \in WithCopy /\ cmd[p] \notin {"clear", "reset"} =>
          \E g \in GroupsOf(db) : Same(g, group[p])
    /\ cmd[p] \in {"clear", "reset"} => db = <<>>

Valid == \A g \in GroupsOf(db) : ValidGroup(g)

(* A command that creates a group knows the ids it is asked for.           *)
ReqInv ==
    /\ pc \in [Proc -> Pc] /\ req \in [Proc -> Requests \cup {<<>>}]
    /\ \A p \in Proc : pc[p] \in Creating => req[p] \in Requests

LockInv == LockTypes /\ OnePath /\ \A p \in Proc : OpenedFor(p)

FlowInv == FlowTypes /\ \A p \in Proc : InPhase(p) /\ Built(p)

DataInv == DataTypes /\ GroupsDisjoint /\ Valid /\ \A p \in Proc : Copied(p)

CopyInv == LockInv /\ FlowInv /\ DataInv

-----------------------------------------------------------------------------
(* For one process.                                                        *)

(* The devices of a group that run are recorded as active in g; none runs. *)
Recorded(g) == \A id \in GroupIds(g) : <<g.home, id>> \in running => g.inst[id] \in ActiveState

NoneRuns(g) == \A id \in GroupIds(g) : <<g.home, id>> \notin running

(* Home directories are named after the clock, which here counts commands: *)
(* the one of a group that is being created is new.                        *)
Homes ==
    /\ running \subseteq Nat \X Id
    /\ \A h \in Nat, id \in Id : <<h, id>> \in running => h <= calls
    /\ \A g \in GroupsOf(db) : g.home <= calls

NewHome(p) ==
    pc[p] \in Creating => group[p].home = calls /\ \A id \in Id : <<calls, id>> \notin running

Records == \A g \in GroupsOf(db) : Recorded(g)

(* What a command that stops, removes or starts a group knows of what runs.*)
Stopping(p) ==
    /\ pc[p] \in {"stop", "stopped"} /\ cmd[p] \in {"stop", "remove"} => Recorded(group[p])
    /\ pc[p] \in {"stop", "stopped"} /\ cmd[p] # "stop" => todo[p] = GroupIds(group[p])
    /\ pc[p] \in {"stopped", "unlink", "remove_db"} /\ cmd[p] = "remove" => NoneRuns(group[p])

Starting(p) ==
    /\ cmd[p] = "start" /\ pc[p] # "launched" => NoneRuns(group[p])
    /\ pc[p] = "launch" => \A g \in GroupsOf(db) :
          Same(g, group[p]) => \A id \in GroupIds(g) : g.inst[id] \in ActiveState

InUse(id) == path[id] # None /\ byte[path[id]] = "I"

IdsOf(data) == UNION {GroupIds(g) : g \in GroupsOf(data)}

(* The ids that a command still has to free, and the ones it has freed.    *)
ToFree(p) ==
    IF cmd[p] \in {"clear", "reset"} THEN IdsOf(victims[p]) \cup todo[p] ELSE {}

Unlinking(p) ==
    /\ pc[p] \in {"idle", "next_victim", "remove_db", "kill_all"} => todo[p] = {}
    /\ pc[p] = "kill_all" => victims[p] = <<>>
    /\ pc[p] \in {"unlink", "remove_db"} /\ cmd[p] = "remove" =>
          \A id \in GroupIds(group[p]) \ todo[p] : path[id] = None

Freed ==
    kills = 0 => \A id \in Id : InUse(id) => id \in IdsOf(db) \/ \E p \in Proc : id \in ToFree(p)

AloneInv ==
    /\ Homes /\ Records /\ Freed
    /\ \A p \in Proc : NewHome(p) /\ Stopping(p) /\ Starting(p) /\ Unlinking(p)

-----------------------------------------------------------------------------
(* For processes whose commands unlink no lock file and are not killed.    *)
NoUnlinking == Commands \cap {"remove", "start", "clear", "reset"} = {} /\ MaxKills = 0

AllAuto(p) == \A k \in DOMAIN req[p] : req[p][k] = AutoId

(* A lock that is held is that of the file at the path.                    *)
Locked(p) ==
    /\ \A id \in Id : held[p][id] # None => held[p][id] = path[id] /\ holder[held[p][id]] = p
    /\ pc[p] \notin {"alloc", "flock", "try", "add", "mark"} => HeldIds(p) = {}
    /\ pc[p] \in {"flock", "try"} => fd[p] = path[cand[p]]

(* An id that AcquireUnusedLock chose is not in use until it is marked.    *)
Unmarked(p) ==
    AllAuto(p) => /\ pc[p] # "flock"
                  /\ pc[p] \in {"alloc", "try", "add"} =>
                        \A id \in Id : held[p][id] # None => byte[held[p][id]] = "N"

(* An id in the database is in use, or the process that added it is about  *)
(* to mark it.                                                             *)
Marked ==
    \A id \in IdsOf(db) :
        /\ path[id] # None
        /\ byte[path[id]] = "N" =>
              \E q \in Proc : pc[q] = "mark" /\ id \in todo[q] /\ held[q][id] = path[id]

MarkInv == Marked /\ \A p \in Proc : Locked(p) /\ Unmarked(p)

-----------------------------------------------------------------------------
(* The tasks of the database, as operations on a set of groups *)

Apart(d) ==
    \A j, k \in DOMAIN d :
        j # k => /\ d[j].name # d[k].name
                 /\ d[j].home # d[k].home
                 /\ GroupIds(d[j]) \cap GroupIds(d[k]) = {}

LEMMA IdsArePositive == Id \subseteq Nat /\ 0 \notin Id /\ \A id \in Id : id >= 1
<1>1. Id \subseteq Nat \ {AutoId}
  BY ConstAssumption
<1>2. Id \subseteq Nat /\ 0 \notin Id
  BY <1>1 DEF AutoId
<1> QED
  BY <1>2

(* What a group of the right type is made of, and where the edits of a     *)
(* group lead.                                                             *)
LEMMA GroupFields ==
    ASSUME NEW g \in Groups
    PROVE  /\ g.name \in Nat /\ g.home \in Nat
           /\ GroupIds(g) \in SUBSET Id
           /\ \A id \in GroupIds(g) : g.inst[id] \in InstanceState
<1>1. g \in [name : Nat, home : Nat, inst : UNION {[I -> InstanceState] : I \in SUBSET Id}]
  BY DEF Groups, Group
<1>2. PICK I \in SUBSET Id : g.inst \in [I -> InstanceState]
  BY <1>1
<1> QED
  BY <1>1, <1>2 DEF GroupIds

LEMMA MakeGroup ==
    ASSUME NEW n \in Nat, NEW h \in Nat, NEW I \in SUBSET Id, NEW f \in [I -> InstanceState]
    PROVE  /\ [name |-> n, home |-> h, inst |-> f] \in Groups
           /\ GroupIds([name |-> n, home |-> h, inst |-> f]) = I
  BY DEF Groups, Group, GroupIds

LEMMA SetStatesGroup ==
    ASSUME NEW g \in Groups, NEW ids, NEW s \in InstanceState
    PROVE  /\ SetStates(g, ids, s) \in Groups
           /\ Same(SetStates(g, ids, s), g)
           /\ \A id \in GroupIds(g) :
                 SetStates(g, ids, s).inst[id] = IF id \in ids THEN s ELSE g.inst[id]
<1> DEFINE f == [id \in GroupIds(g) |-> IF id \in ids THEN s ELSE g.inst[id]]
<1>1. /\ g.name \in Nat /\ g.home \in Nat /\ GroupIds(g) \in SUBSET Id
      /\ \A id \in GroupIds(g) : g.inst[id] \in InstanceState
  BY GroupFields
<1>2. f \in [GroupIds(g) -> InstanceState]
  BY <1>1
<1>3. SetStates(g, ids, s) = [name |-> g.name, home |-> g.home, inst |-> f]
  BY DEF SetStates, Groups, Group
<1> HIDE DEF f
<1>4. /\ SetStates(g, ids, s) \in Groups /\ GroupIds(SetStates(g, ids, s)) = GroupIds(g)
  BY <1>1, <1>2, <1>3, MakeGroup
<1>5. \A id \in GroupIds(g) : f[id] = IF id \in ids THEN s ELSE g.inst[id]
  BY DEF f
<1> QED
  BY <1>3, <1>4, <1>5 DEF Same

LEMMA SetAllStatesGroup ==
    ASSUME NEW g \in Groups, NEW s \in InstanceState
    PROVE  /\ SetAllStates(g, s) \in Groups
           /\ Same(SetAllStates(g, s), g)
           /\ \A id \in GroupIds(g) : SetAllStates(g, s).inst[id] = s
<1>1. SetAllStates(g, s) = SetStates(g, GroupIds(g), s)
  BY DEF SetAllStates, SetStates
<1> QED
  BY <1>1, SetStatesGroup

(* GenUniqueGroupName finds a free name among as many candidates as there  *)
(* are groups plus one.                                                    *)
LEMMA UniqueName ==
    ASSUME NEW d \in Seq(Groups)
    PROVE  GenUniqueGroupName(d) \in Nat /\ GenUniqueGroupName(d) \notin NamesOf(d)
<1> DEFINE N == NamesOf(d)
           n == Cardinality(N)
           T == {i \in 1..(n + 1) : i \notin N}
           R == OpToRel(<, Nat)
<1>1. Len(d) \in Nat /\ DOMAIN d = 1..Len(d)
  OBVIOUS
<1>2. IsFiniteSet(N) /\ n \in Nat
  <2>1. IsFiniteSet(1..Len(d))
    BY <1>1, FS_Interval
  <2> DEFINE f == [k \in 1..Len(d) |-> d[k].name]
  <2>2. f \in Surjection(1..Len(d), N)
    BY <1>1 DEF Surjection, NamesOf, GroupsOf
  <2> HIDE DEF f, N
  <2>3. IsFiniteSet(N)
    BY <2>1, <2>2, FS_Surjection
  <2> QED
    BY <2>3, FS_CardinalityType
<1> HIDE DEF N, n
<1>3. T # {}
  <2>1. SUFFICES ASSUME T = {} PROVE FALSE
    OBVIOUS
  <2>2. 1..(n + 1) \subseteq N
    BY <2>1
  <2>3. Cardinality(1..(n + 1)) = n + 1
    BY <1>2, FS_Interval
  <2>4. Cardinality(1..(n + 1)) <= Cardinality(N)
    BY <1>2, <2>2, FS_Subset
  <2> QED
    BY <1>2, <2>3, <2>4 DEF n
<1>4. IsWellFoundedOn(R, Nat)
  BY NatLessThanWellFounded
<1>5. \A a, b \in Nat : a < b => <<a, b>> \in R
  BY DEF OpToRel
<1>6. T \subseteq Nat
  OBVIOUS
<1> HIDE DEF R, T
<1>7. PICK k \in T : \A j \in T : ~(<<j, k>> \in R)
  BY <1>3, <1>4, <1>6, WFMin
<1> USE DEF T
<1>8. ASSUME NEW j \in 1..(k - 1) PROVE j \in N
  <2>1. k \in 1..(n + 1) /\ k \in Nat
    BY <1>2, <1>7
  <2>2. j \in 1..(n + 1) /\ j \in Nat /\ j < k
    BY <1>2, <2>1
  <2>3. <<j, k>> \in R
    BY <1>5, <2>1, <2>2
  <2> QED
    BY <1>7, <2>2, <2>3
<1>9. \E i \in 1..(n + 1) : i \notin N /\ \A j \in 1..(i - 1) : j \in N
  BY <1>7, <1>8
<1> QED
  BY <1>9 DEF GenUniqueGroupName, N, n

(* AddInstanceGroup adds a group that differs from all others.             *)
LEMMA AddEffect ==
    ASSUME NEW d \in Seq(Groups), Apart(d), NEW g \in Groups
    PROVE  /\ AddInstanceGroup(d, g).ok \in BOOLEAN
           /\ Named(d, g) \in Groups /\ Named(d, g).home = g.home
           /\ GroupIds(Named(d, g)) = GroupIds(g)
           /\ AddInstanceGroup(d, g).ok =>
                /\ AddInstanceGroup(d, g).data \in Seq(Groups)
                /\ Apart(AddInstanceGroup(d, g).data)
                /\ GroupsOf(AddInstanceGroup(d, g).data) = GroupsOf(d) \cup {Named(d, g)}
                /\ \A h \in GroupsOf(d) : h.name # Named(d, g).name
<1> DEFINE new == Named(d, g)
           r == AddInstanceGroup(d, g)
           e == Append(d, new)
<1>1. new \in Groups /\ new.home = g.home /\ GroupIds(new) = GroupIds(g)
  <2>1. GenUniqueGroupName(d) \in Nat
    BY UniqueName
  <2> QED
    BY <2>1 DEF Named, Groups, Group, GroupIds
<1>2. r = IF Conflicts(d, new) THEN [ok |-> FALSE, data |-> d] ELSE [ok |-> TRUE, data |-> e]
  BY DEF AddInstanceGroup, Done, Failed
<1> HIDE DEF new, r
<1>3. ASSUME ~Conflicts(d, new)
      PROVE  /\ e \in Seq(Groups) /\ Apart(e) /\ GroupsOf(e) = GroupsOf(d) \cup {new}
             /\ \A h \in GroupsOf(d) : h.name # new.name
  <2>1. /\ e \in Seq(Groups) /\ Len(e) = Len(d) + 1 /\ DOMAIN e = 1..(Len(d) + 1)
        /\ \A i \in 1..Len(d) : e[i] = d[i]
        /\ e[Len(d) + 1] = new
    BY <1>1, AppendProperties
  <2>2. Len(d) \in Nat /\ DOMAIN d = 1..Len(d)
    OBVIOUS
  <2>3. \A h \in GroupsOf(d) : /\ h.name # new.name /\ h.home # new.home
                               /\ (GroupIds(h) \cap GroupIds(new)) \ {UnsetId} = {}
    BY <1>3 DEF Conflicts
  <2>4. UnsetId \notin GroupIds(new)
    <3>1. GroupIds(new) \subseteq Id
      BY <1>1, GroupFields
    <3> QED
      BY <3>1, IdsArePositive DEF UnsetId
  <2>5. \A i \in 1..Len(d) : d[i] \in GroupsOf(d)
    BY <2>2 DEF GroupsOf
  <2>6. GroupsOf(e) = GroupsOf(d) \cup {new}
    <3> HIDE DEF e
    <3> QED
      BY <2>1, <2>2 DEF GroupsOf
  <2>7. Apart(e)
    <3> HIDE DEF e
    <3>1. SUFFICES ASSUME NEW j \in 1..(Len(d) + 1), NEW k \in 1..(Len(d) + 1), j # k
                   PROVE  /\ e[j].name # e[k].name /\ e[j].home # e[k].home
                          /\ GroupIds(e[j]) \cap GroupIds(e[k]) = {}
      BY <2>1 DEF Apart
    <3>2. CASE j \in 1..Len(d) /\ k \in 1..Len(d)
      BY <2>1, <2>2, <3>1, <3>2 DEF Apart
    <3>3. CASE j \in 1..Len(d) /\ k = Len(d) + 1
      BY <2>1, <2>3, <2>4, <2>5, <3>3
    <3>4. CASE j = Len(d) + 1 /\ k \in 1..Len(d)
      BY <2>1, <2>3, <2>4, <2>5, <3>4
    <3> QED
      BY <2>2, <3>1, <3>2, <3>3, <3>4
  <2> QED
    BY <2>1, <2>3, <2>6, <2>7
<1> QED
  BY <1>1, <1>2, <1>3 DEF new, r

(* A group of that name is the first and only one.                         *)
LEMMA FirstIsIt ==
    ASSUME NEW d \in Seq(Groups), Apart(d), NEW h \in GroupsOf(d)
    PROVE  /\ At(d, h.name) # {} /\ First(At(d, h.name)) \in DOMAIN d
           /\ d[First(At(d, h.name))] = h
           /\ \A j \in DOMAIN d : d[j] = h => j = First(At(d, h.name))
<1>1. PICK k \in DOMAIN d : d[k] = h
  BY DEF GroupsOf
<1>2. k \in Nat
  BY <1>1
<1>3. At(d, h.name) = {k}
  BY <1>1 DEF At, Apart
<1>4. First({k}) = k
  BY <1>2 DEF First
<1> QED
  BY <1>1, <1>3, <1>4 DEF Apart

(* UpdateInstanceGroup replaces a group by a copy of it.                   *)
LEMMA UpdateEffect ==
    ASSUME NEW d \in Seq(Groups), Apart(d), NEW g \in Groups,
           NEW h \in GroupsOf(d), Same(h, g)
    PROVE  /\ UpdateInstanceGroup(d, g).data \in Seq(Groups)
           /\ Apart(UpdateInstanceGroup(d, g).data)
           /\ GroupsOf(UpdateInstanceGroup(d, g).data) = (GroupsOf(d) \ {h}) \cup {g}
<1> DEFINE k == First(At(d, h.name))
           e == [d EXCEPT ![k] = g]
<1>1. /\ At(d, h.name) # {} /\ k \in DOMAIN d /\ d[k] = h
      /\ \A j \in DOMAIN d : d[j] = h => j = k
  BY FirstIsIt
<1>2. UpdateInstanceGroup(d, g).data = e
  BY <1>1 DEF UpdateInstanceGroup, Done, Same
<1> HIDE DEF k
<1>3. e \in Seq(Groups) /\ DOMAIN e = DOMAIN d /\ e[k] = g /\ \A j \in DOMAIN d : j # k => e[j] = d[j]
  BY <1>1, ExceptSeq
<1> HIDE DEF e
<1>4. Apart(e)
  <2>1. \A j \in DOMAIN d : /\ e[j].name = d[j].name /\ e[j].home = d[j].home
                            /\ GroupIds(e[j]) = GroupIds(d[j])
    BY <1>1, <1>3 DEF Same
  <2> QED
    BY <1>3, <2>1 DEF Apart
<1>5. GroupsOf(e) = (GroupsOf(d) \ {h}) \cup {g}
  BY <1>1, <1>3 DEF GroupsOf
<1> QED
  BY <1>2, <1>3, <1>4, <1>5

(* RemoveInstanceGroup takes one group out.                                *)
LEMMA RemoveEffect ==
    ASSUME NEW d \in Seq(Groups), Apart(d), NEW h \in GroupsOf(d)
    PROVE  /\ RemoveInstanceGroup(d, h.name).data \in Seq(Groups)
           /\ Apart(RemoveInstanceGroup(d, h.name).data)
           /\ GroupsOf(RemoveInstanceGroup(d, h.name).data) = GroupsOf(d) \ {h}
<1> DEFINE k == First(At(d, h.name))
           a == SubSeq(d, 1, k - 1)
           b == SubSeq(d, k + 1, Len(d))
           e == a \o b
<1>1. /\ At(d, h.name) # {} /\ k \in DOMAIN d /\ d[k] = h
      /\ \A j \in DOMAIN d : d[j] = h => j = k
  BY FirstIsIt
<1>2. RemoveInstanceGroup(d, h.name).data = e
  BY <1>1 DEF RemoveInstanceGroup, Done
<1>3. Len(d) \in Nat /\ DOMAIN d = 1..Len(d) /\ k \in 1..Len(d) /\ k \in Nat
  BY <1>1
<1> HIDE DEF k
<1>4. a \in Seq(Groups) /\ Len(a) = k - 1 /\ \A i \in 1..(k - 1) : a[i] = d[i]
  BY <1>3, SubSeqProperties
<1>5. b \in Seq(Groups) /\ Len(b) = Len(d) - k /\ \A i \in 1..(Len(d) - k) : b[i] = d[k + i]
  <2>1. k + 1 \in Int /\ Len(d) \in Int /\ \A i \in (k + 1)..Len(d) : d[i] \in Groups
    BY <1>3
  <2>2. /\ b \in Seq(Groups) /\ Len(b) = IF k + 1 <= Len(d) THEN Len(d) - (k + 1) + 1 ELSE 0
        /\ \A i \in 1..(Len(d) - (k + 1) + 1) : b[i] = d[(k + 1) + i - 1]
    BY <2>1, SubSeqProperties
  <2> HIDE DEF b
  <2>3. Len(b) = Len(d) - k /\ Len(d) - (k + 1) + 1 = Len(d) - k
    <3>1. \A n \in Nat : \A i \in 1..n : /\ n - (i + 1) + 1 = n - i
                                           /\ (IF i + 1 <= n THEN n - (i + 1) + 1 ELSE 0) = n - i
      OBVIOUS
    <3> QED
      BY <1>3, <2>2, <3>1
  <2>4. ASSUME NEW i \in 1..(Len(d) - k) PROVE b[i] = d[k + i]
    <3>1. (k + 1) + i - 1 = k + i
      BY <1>3
    <3> QED
      BY <2>2, <2>3, <3>1
  <2> QED
    BY <2>2, <2>3, <2>4
<1> HIDE DEF a, b
<1>6. /\ e \in Seq(Groups) /\ Len(e) = Len(d) - 1
      /\ \A i \in 1..(k - 1) : e[i] = d[i]
      /\ \A i \in k..(Len(d) - 1) : e[i] = d[i + 1]
  <2>0. /\ e \in Seq(Groups) /\ Len(e) = Len(a) + Len(b)
        /\ \A i \in 1..(Len(a) + Len(b)) : e[i] = IF i <= Len(a) THEN a[i] ELSE b[i - Len(a)]
    BY <1>4, <1>5, ConcatProperties
  <2> HIDE DEF e
  <2>1. /\ e \in Seq(Groups) /\ Len(e) = Len(a) + Len(b)
        /\ \A i \in 1..Len(a) : e[i] = a[i]
        /\ \A i \in 1..Len(b) : e[Len(a) + i] = b[i]
    <3>1. Len(a) \in Nat /\ Len(b) \in Nat
      BY <1>4, <1>5
    <3>2. ASSUME NEW i \in 1..Len(a) PROVE e[i] = a[i]
      BY <2>0, <3>1
    <3>3. ASSUME NEW i \in 1..Len(b) PROVE e[Len(a) + i] = b[i]
      <4>1. /\ Len(a) + i \in 1..(Len(a) + Len(b)) /\ ~(Len(a) + i <= Len(a))
            /\ (Len(a) + i) - Len(a) = i
        BY <3>1
      <4> QED
        BY <2>0, <4>1
    <3> QED
      BY <2>0, <3>2, <3>3
  <2>2. ASSUME NEW i \in k..(Len(d) - 1) PROVE e[i] = d[i + 1]
    <3>1. i - (k - 1) \in 1..(Len(d) - k) /\ Len(a) + (i - (k - 1)) = i
          /\ k + (i - (k - 1)) = i + 1
      BY <1>3, <1>4
    <3>2. e[Len(a) + (i - (k - 1))] = b[i - (k - 1)]
      BY <1>5, <2>1, <3>1
    <3>3. b[i - (k - 1)] = d[k + (i - (k - 1))]
      BY <1>5, <3>1
    <3> QED
      BY <3>1, <3>2, <3>3
  <2> QED
    BY <1>3, <1>4, <1>5, <2>1, <2>2
<1> HIDE DEF e
<1> DEFINE m(i) == IF i < k THEN i ELSE i + 1
<1>7. DOMAIN e = 1..(Len(d) - 1) /\ \A i \in DOMAIN e : m(i) \in DOMAIN d /\ m(i) # k /\ e[i] = d[m(i)]
  BY <1>3, <1>6
<1>8. Apart(e)
  <2>1. \A i, j \in DOMAIN e : i # j => m(i) # m(j)
    BY <1>3, <1>7
  <2> HIDE DEF m
  <2> QED
    BY <1>7, <2>1 DEF Apart
<1>9. GroupsOf(e) = GroupsOf(d) \ {h}
  <2>1. ASSUME NEW j \in DOMAIN d, j # k PROVE \E i \in DOMAIN e : m(i) = j
    <3>1. CASE j < k
      BY <1>3, <1>7, <3>1
    <3>2. CASE j > k
      <4>1. j - 1 \in DOMAIN e /\ m(j - 1) = j
        BY <1>3, <1>7, <3>2
      <4> QED
        BY <4>1
    <3> QED
      BY <1>3, <2>1, <3>1, <3>2
  <2> HIDE DEF m
  <2> QED
    BY <1>1, <1>7, <2>1 DEF GroupsOf
<1> QED
  BY <1>2, <1>6, <1>8, <1>9

-----------------------------------------------------------------------------
(* The steps, sorted by what they do to the lock files *)

(* A command ends; a step that is not about lock files.                    *)
Ends(p) == End(p) /\ UNCHANGED <<path, byte>>

LeavesLocks(p) ==
    /\ UNCHANGED <<path, byte, holder, cand, fd, held>>
    /\ \E l \in Pc \ {"flock", "try"} : pc' = [pc EXCEPT ![p] = l]

(* What such a step does to a creation: it begins, is done with the locks, *)
(* or the command is another one.                                          *)
Proceeds(p) ==
    \/ pc[p] = "idle" /\ pc' = [pc EXCEPT ![p] = "alloc"]
       /\ \E r \in Requests : req' = [req EXCEPT ![p] = r]
    \/ /\ \/ pc[p] = "alloc" /\ pc' = [pc EXCEPT ![p] = "add"]
          \/ pc[p] = "add" /\ pc' = [pc EXCEPT ![p] = "mark"]
       /\ UNCHANGED req
    \/ /\ pc[p] \notin Creating /\ \E l \in Pc \ Creating : pc' = [pc EXCEPT ![p] = l]
       /\ UNCHANGED req

OnLocks(p) ==
    \/ OpenRequested(p) \/ AcquireLock(p) \/ OpenCandidate(p) \/ TryAcquireLock(p)
    \/ \E id \in Id : MarkInUse(p, id) \/ RemoveLockFile(p, id)
    \/ ReturnGroup(p) \/ KillAll(p)

Step(p) == Call(p) \/ CreateStep(p) \/ OtherStep(p) \/ Killed(p)

LEMMA StepKinds ==
    ASSUME NEW p \in Proc, Step(p)
    PROVE  (LeavesLocks(p) /\ Proceeds(p)) \/ Ends(p) \/ OnLocks(p)
<1>0. \A g : StopOrUnlink(g) \in Pc \ Creating /\ StopOrUnlink(g) \in Pc \ {"flock", "try"}
  BY DEF StopOrUnlink, Pc, Creating
<1>1. CASE Call(p)
  <2>1. ASSUME NEW r \in Requests, NEW n \in GivenNames, CallCreate(p, r, n)
        PROVE  LeavesLocks(p) /\ Proceeds(p)
    BY <2>1 DEF CallCreate, Begin, Goto, lockVars, LeavesLocks, Proceeds, Pc
  <2>2. ASSUME NEW l \in Pc \ Creating, pc[p] = "idle", pc' = [pc EXCEPT ![p] = l],
               UNCHANGED <<path, byte, holder, CreateLocals>>
        PROVE  LeavesLocks(p) /\ Proceeds(p)
    BY <2>2 DEF CreateLocals, LeavesLocks, Proceeds, Creating
  <2>3. {"stop", "starting", "next_victim"} \subseteq Pc \ Creating
    BY DEF Pc, Creating
  <2>4. ASSUME NEW k \in DOMAIN db, CallRemove(p, k) PROVE LeavesLocks(p) /\ Proceeds(p)
    BY <1>0, <2>2, <2>4 DEF CallRemove, Begin, Goto, lockVars
  <2>5. ASSUME NEW k \in DOMAIN db, CallStart(p, k) PROVE LeavesLocks(p) /\ Proceeds(p)
    BY <2>2, <2>3, <2>5 DEF CallStart, Begin, Goto, lockVars
  <2>6. ASSUME NEW k \in DOMAIN db, NEW ids, CallStop(p, k, ids) PROVE LeavesLocks(p) /\ Proceeds(p)
    BY <2>2, <2>3, <2>6 DEF CallStop, Begin, Goto, lockVars
  <2>7. ASSUME NEW c, CallClear(p, c) PROVE LeavesLocks(p) /\ Proceeds(p)
    BY <2>2, <2>3, <2>7 DEF CallClear, Begin, Goto, lockVars
  <2> QED
    BY <1>1, <2>1, <2>4, <2>5, <2>6, <2>7 DEF Call
<1>2. CASE OpenRequested(p) \/ AcquireLock(p) \/ OpenCandidate(p) \/ TryAcquireLock(p)
           \/ ReturnGroup(p) \/ KillAll(p)
           \/ \E id \in Id : MarkInUse(p, id) \/ RemoveLockFile(p, id)
  BY <1>2 DEF OnLocks
<1>3. CASE RepeatedId(p) \/ DirectoriesFail(p) \/ RecordCreated(p) \/ RemoveFromDb(p)
           \/ RecordStarted(p) \/ Killed(p)
  BY <1>3 DEF RepeatedId, DirectoriesFail, RecordCreated, RemoveFromDb, RecordStarted, Killed, Ends
<1>4. CASE Build(p)
  BY <1>4 DEF Build, Goto, lockVars, LeavesLocks, Proceeds, Pc
<1>5. CASE AddGroup(p)
  <2>1. ASSUME pc[p] = "add", Goto(p, "mark"), UNCHANGED <<path, byte, holder, req, cand, fd, held>>
        PROVE  LeavesLocks(p) /\ Proceeds(p)
    BY <2>1 DEF Goto, LeavesLocks, Proceeds, Pc
  <2> QED
    BY <1>5, <2>1 DEF AddGroup, lockVars, Ends
<1>6. ASSUME NEW l \in Pc \ Creating, pc[p] \notin Creating, Goto(p, l),
             UNCHANGED <<path, byte, holder, req, cand, fd, held>>
      PROVE  LeavesLocks(p) /\ Proceeds(p)
  BY <1>6 DEF Goto, LeavesLocks, Proceeds, Creating
<1>7. /\ {"stop", "stopped", "unlink", "remove_db", "starting", "launch", "launched", "failed",
           "next_victim", "kill_all"} \cap Creating = {}
      /\ {"stopped", "unlink", "remove_db", "launch", "launched", "failed", "kill_all"}
           \subseteq Pc \ Creating
  BY DEF Pc, Creating
<1>8. CASE (\E clear \in BOOLEAN : StopCvd(p, clear)) \/ Launch(p) \/ LaunchFails(p)
           \/ DeletedLockFiles(p)
  BY <1>6, <1>7, <1>8 DEF StopCvd, Launch, LaunchFails, DeletedLockFiles, CreateLocals, lockVars
<1>9. CASE NextVictim(p)
  BY <1>0, <1>6, <1>7, <1>9 DEF NextVictim, CreateLocals, lockVars
<1>10. CASE UpdateStopped(p) \/ StopFails(p) \/ RemoveDirectory(p)
  BY <1>6, <1>7, <1>10 DEF UpdateStopped, StopFails, RemoveDirectory, CreateLocals, lockVars, Ends
<1>11. CASE RecordStarting(p) \/ ClearDone(p)
  BY <1>6, <1>7, <1>11 DEF RecordStarting, ClearDone, CreateLocals, lockVars, Ends
<1> QED
  BY <1>1, <1>2, <1>3, <1>4, <1>5, <1>8, <1>9, <1>10, <1>11 DEF Step, CreateStep, OtherStep

(* OpenLockFile yields the inode at the path, which may be a new one.      *)
LEMMA OpenEffect ==
    ASSUME NEW p \in Proc, NEW id \in Id, LockTypes, OpenLockFile(p, id)
    PROVE  \E i \in Inode :
              /\ fd' = [fd EXCEPT ![p] = i] /\ path'[id] = i
              /\ \/ path[id] = i /\ path' = path /\ byte' = byte
                 \/ /\ path[id] = None /\ Unused(i)
                    /\ path' = [path EXCEPT ![id] = i] /\ byte' = [byte EXCEPT ![i] = "N"]
<1>1. CASE path[id] # None
  <2>1. path[id] \in Inode
    BY <1>1 DEF LockTypes
  <2> QED
    BY <1>1, <2>1 DEF OpenLockFile
<1>2. CASE path[id] = None
  <2> DEFINE new == CHOOSE i \in Inode : Unused(i)
  <2>1. new \in Inode /\ Unused(new)
    BY <1>2 DEF OpenLockFile
  <2>2. /\ fd' = [fd EXCEPT ![p] = new] /\ path' = [path EXCEPT ![id] = new]
        /\ byte' = [byte EXCEPT ![new] = "N"]
    BY <1>2 DEF OpenLockFile
  <2> HIDE DEF new
  <2>3. path'[id] = new
    BY <2>2 DEF LockTypes
  <2> QED
    BY <1>2, <2>1, <2>2, <2>3
<1> QED
  BY <1>1, <1>2

LEMMA FlowKnowsRequests == ASSUME FlowInv PROVE ReqInv
  BY DEF FlowInv, FlowTypes, Built, ReqInv

LEMMA NextIsId ==
    ASSUME ReqInv, NEW p \in Proc, pc[p] = "alloc", LeftToRequest(p)
    PROVE  NextRequested(p) \in Id
<1>1. req[p] \in Requests
  BY DEF ReqInv, Creating
<1>2. req[p] \in Seq(Id \cup {AutoId})
  BY <1>1, ConstAssumption
<1> DEFINE k == CHOOSE k \in DOMAIN req[p] : IsNextRequest(p, k)
<1>3. k \in DOMAIN req[p] /\ IsNextRequest(p, k)
  BY DEF LeftToRequest
<1> HIDE DEF k
<1>4. req[p][k] \in Id
  BY <1>2, <1>3 DEF IsNextRequest
<1> QED
  BY <1>4 DEF NextRequested, k

(* A lock file that is opened leads back to its id.                        *)
LEMMA OpenStep ==
    ASSUME LockInv, ReqInv, NEW p \in Proc, NEW id \in Id, OpenLockFile(p, id),
           NEW l \in Pc, pc' = [pc EXCEPT ![p] = l],
           cand' = [cand EXCEPT ![p] = id], UNCHANGED <<holder, held>>
    PROVE  LockInv'
<1>1. PICK i \in Inode :
         /\ fd' = [fd EXCEPT ![p] = i] /\ path'[id] = i
         /\ \/ path[id] = i /\ path' = path /\ byte' = byte
            \/ /\ path[id] = None /\ Unused(i)
               /\ path' = [path EXCEPT ![id] = i] /\ byte' = [byte EXCEPT ![i] = "N"]
  BY OpenEffect DEF LockInv
<1>2. i # None
  BY ConstAssumption
<1>3. LockTypes'
  BY <1>1, IdsArePositive DEF LockInv, LockTypes
<1>4. OnePath'
  BY <1>1, <1>2 DEF LockInv, LockTypes, OnePath, Unused
<1>5. ASSUME NEW q \in Proc PROVE OpenedFor(q)'
  <2>1. /\ fd'[p] = i /\ cand'[p] = id /\ (q # p => fd'[q] = fd[q] /\ cand'[q] = cand[q] /\ pc'[q] = pc[q])
    BY <1>1 DEF LockInv, LockTypes, ReqInv
  <2>2. \A a \in Id : path'[a] = i => a = id
    BY <1>1, <1>2 DEF LockInv, LockTypes, OnePath, Unused
  <2>3. \A a \in Id : a # id => path'[a] = path[a]
    BY <1>1 DEF LockInv, LockTypes
  <2>4. CASE path' = path
    BY <1>1, <1>2, <2>1, <2>2, <2>4 DEF LockInv, LockTypes, OpenedFor
  <2>5. CASE path[id] = None /\ Unused(i)
    <3>1. \A b \in Id : held[q][b] # i /\ fd[q] # i
      BY <2>5 DEF Unused
    <3>2. \A a, b \in Id : held[q][b] # None /\ path'[a] = held[q][b] => a = b
      BY <1>1, <2>3, <3>1 DEF LockInv, OpenedFor
    <3>3. \A a \in Id : fd'[q] # None /\ path'[a] = fd'[q] => a = cand'[q]
      BY <1>1, <2>1, <2>2, <2>3, <3>1 DEF LockInv, OpenedFor
    <3> QED
      BY <2>1, <3>2, <3>3 DEF LockInv, OpenedFor
  <2> QED
    BY <1>1, <2>4, <2>5
<1> QED
  BY <1>3, <1>4, <1>5 DEF LockInv

(* A lock that is taken is that of the id it was opened for.               *)
LEMMA LockStep ==
    ASSUME LockInv, ReqInv, NEW p \in Proc, pc[p] \in {"flock", "try"},
           Lock(p, cand[p], fd[p]),
           fd' = [fd EXCEPT ![p] = None], Goto(p, "alloc"), UNCHANGED <<path, byte>>
    PROVE  LockInv'
<1>1. fd[p] \in Inode /\ cand[p] \in Id /\ fd[p] # None
  BY ConstAssumption DEF LockInv, OpenedFor
<1>2. /\ holder' = [holder EXCEPT ![fd[p]] = p]
      /\ held' = [held EXCEPT ![p] = [held[p] EXCEPT ![cand[p]] = fd[p]]]
      /\ cand' = [cand EXCEPT ![p] = 1]
  BY DEF Lock
<1>3. LockTypes'
  BY <1>1, <1>2 DEF LockInv, LockTypes
<1>4. ASSUME NEW q \in Proc PROVE OpenedFor(q)'
  <2>1. CASE q = p
    <3>1. /\ fd'[p] = None /\ pc'[p] = "alloc"
          /\ \A b \in Id : held'[p][b] = IF b = cand[p] THEN fd[p] ELSE held[p][b]
      BY <1>1, <1>2 DEF LockInv, LockTypes, ReqInv, Goto
    <3> QED
      BY <1>1, <2>1, <3>1 DEF LockInv, OpenedFor
  <2>2. CASE q # p
    <3>1. fd'[q] = fd[q] /\ pc'[q] = pc[q] /\ held'[q] = held[q] /\ cand'[q] = cand[q]
      BY <1>2, <2>2 DEF LockInv, LockTypes, ReqInv, Goto
    <3> QED
      BY <3>1 DEF LockInv, OpenedFor
  <2> QED
    BY <2>1, <2>2
<1> QED
  BY <1>3, <1>4 DEF LockInv, OnePath

LEMMA StepLockInv ==
    ASSUME LockInv, ReqInv, NEW p \in Proc, Step(p)
    PROVE  LockInv'
<1>1. CASE LeavesLocks(p)
  BY <1>1 DEF LeavesLocks, LockInv, LockTypes, OnePath, OpenedFor, ReqInv
<1>2. CASE Ends(p)
  BY <1>2 DEF Ends, End, Goto, NoLocks, LockInv, LockTypes, OnePath, OpenedFor, ReqInv
<1>3. CASE OpenRequested(p)
  <2>1. NextRequested(p) \in Id
    BY <1>3, NextIsId DEF OpenRequested
  <2>2. "flock" \in Pc
    BY DEF Pc
  <2> QED
    BY <1>3, <2>1, <2>2, OpenStep DEF OpenRequested, Goto
<1>4. CASE OpenCandidate(p)
  <2>1. cand' = [cand EXCEPT ![p] = cand[p]]
    BY <1>4 DEF OpenCandidate, LockInv, LockTypes
  <2>2. "try" \in Pc
    BY DEF Pc
  <2> QED
    BY <1>4, <2>1, <2>2, OpenStep DEF OpenCandidate, Goto
<1>5. CASE AcquireLock(p)
  BY <1>5, LockStep DEF AcquireLock
<1>6. CASE TryAcquireLock(p)
  <2>1. CASE holder[fd[p]] = None /\ byte[fd[p]] = "N"
    BY <1>6, <2>1, LockStep DEF TryAcquireLock
  <2>2. CASE ~(holder[fd[p]] = None /\ byte[fd[p]] = "N")
    BY <1>6, <2>2 DEF TryAcquireLock, Goto, LockInv, LockTypes, OnePath, OpenedFor, ReqInv
  <2> QED
    BY <2>1, <2>2
<1>7. ASSUME NEW id \in Id, MarkInUse(p, id) PROVE LockInv'
  <2>1. byte' = [byte EXCEPT ![held[p][id]] = "I"]
        /\ UNCHANGED <<path, holder, cand, fd, held, pc>>
    BY <1>7 DEF MarkInUse
  <2>2. byte' \in [Inode -> {"N", "I"}]
    BY <2>1 DEF LockInv, LockTypes
  <2> QED
    BY <2>1, <2>2 DEF LockInv, LockTypes, OnePath, OpenedFor
<1>8. ASSUME NEW id \in Id, RemoveLockFile(p, id) PROVE LockInv'
  BY <1>8 DEF RemoveLockFile, CreateLocals, LockInv, LockTypes, OnePath, OpenedFor
<1>9. CASE ReturnGroup(p)
  BY <1>9 DEF ReturnGroup, Goto, NoLocks, LockInv, LockTypes, OnePath, OpenedFor, ReqInv
<1>10. CASE KillAll(p)
  BY <1>10 DEF KillAll, End, Goto, NoLocks, LockInv, LockTypes, OnePath, OpenedFor, ReqInv
<1> QED
  BY <1>1, <1>2, <1>3, <1>4, <1>5, <1>6, <1>7, <1>8, <1>9, <1>10, StepKinds DEF OnLocks

-----------------------------------------------------------------------------
(* Where the commands are *)

LEMMA EndFlow ==
    ASSUME FlowInv, NEW p \in Proc, End(p), calls' \in Nat, kills' \in Nat
    PROVE  FlowInv'
<1>1. FlowTypes'
  BY DEF FlowInv, FlowTypes, End, Goto, Pc
<1>2. ASSUME NEW q \in Proc PROVE InPhase(q)' /\ Built(q)'
  <2>1. CASE q = p
    BY <2>1 DEF FlowInv, FlowTypes, End, Goto, InPhase, Built, Creating
  <2>2. CASE q # p
    BY <2>2 DEF FlowInv, FlowTypes, End, Goto, InPhase, Built, HeldIds
  <2> QED
    BY <2>1, <2>2
<1> QED
  BY <1>1, <1>2 DEF FlowInv

(* What one process does to its own locals leaves the others where they    *)
(* are.                                                                    *)
OwnFlow(p) ==
    \A q \in Proc \ {p} : /\ pc'[q] = pc[q] /\ cmd'[q] = cmd[q] /\ req'[q] = req[q]
                          /\ todo'[q] = todo[q] /\ group'[q] = group[q] /\ held'[q] = held[q]

LEMMA OthersFlow ==
    ASSUME FlowInv, NEW p \in Proc, OwnFlow(p), FlowTypes', InPhase(p)', Built(p)'
    PROVE  FlowInv'
<1>1. ASSUME NEW q \in Proc \ {p} PROVE InPhase(q)' /\ Built(q)'
  BY DEF FlowInv, OwnFlow, InPhase, Built, HeldIds
<1> QED
  BY <1>1 DEF FlowInv

LEMMA CallFlow ==
    ASSUME CopyInv, NEW p \in Proc, Call(p)
    PROVE  FlowInv'
<1> USE DEF CopyInv, FlowInv, FlowTypes, DataInv, DataTypes, LockInv, LockTypes
<1>1. \A g : StopOrUnlink(g) \in {"stop", "unlink"}
  BY DEF StopOrUnlink
<1>2. ASSUME NEW k \in DOMAIN db PROVE GroupIds(db[k]) \in SUBSET Id
  BY GroupFields
<1>3. ASSUME NEW r \in Requests, NEW n \in GivenNames, CallCreate(p, r, n) PROVE FlowInv'
  BY <1>3 DEF CallCreate, Begin, Goto, InPhase, Built, HeldIds, Creating, Pc
<1>4. ASSUME NEW k \in DOMAIN db, CallRemove(p, k) PROVE FlowInv'
  BY <1>1, <1>2, <1>4 DEF CallRemove, Begin, Goto, CreateLocals, InPhase, Built, HeldIds, Creating, Pc
<1>5. ASSUME NEW k \in DOMAIN db, CallStart(p, k) PROVE FlowInv'
  BY <1>5 DEF CallStart, Begin, Goto, CreateLocals, InPhase, Built, HeldIds, Creating, Pc
<1>6. ASSUME NEW k \in DOMAIN db, NEW ids \in SUBSET GroupIds(db[k]), CallStop(p, k, ids)
      PROVE  FlowInv'
  BY <1>2, <1>6 DEF CallStop, Begin, Goto, CreateLocals, InPhase, Built, HeldIds, Creating, Pc
<1>7. ASSUME NEW c \in {"clear", "reset"}, CallClear(p, c) PROVE FlowInv'
  BY <1>7 DEF CallClear, Begin, Goto, CreateLocals, InPhase, Built, HeldIds, Creating, Pc
<1> QED
  BY <1>3, <1>4, <1>5, <1>6, <1>7 DEF Call

(* Build makes a group of the ids that are locked, of which there are as   *)
(* many as were asked for.                                                 *)
LEMMA BuildFlow ==
    ASSUME CopyInv, NEW p \in Proc, Build(p)
    PROVE  FlowInv' /\ group'[p] = BuildGroup(group[p].name, group[p].home, HeldIds(p))
           /\ HeldIds(p) # {}
<1> USE DEF CopyInv, FlowInv, FlowTypes, DataInv, DataTypes
<1>1. req[p] \in Requests
  BY DEF Build, Built, Creating
<1>2. Len(req[p]) # 0
  BY <1>1, ConstAssumption
<1>3. HeldIds(p) # {}
  BY <1>2, FS_EmptySet DEF Build
<1>4. group'[p] = BuildGroup(group[p].name, group[p].home, HeldIds(p))
  BY DEF Build
<1>5. GroupIds(BuildGroup(group[p].name, group[p].home, HeldIds(p))) = HeldIds(p)
  BY DEF GroupIds, BuildGroup
<1>6. FlowTypes'
  BY DEF Build, Goto, Pc
<1>7. InPhase(p)' /\ Built(p)'
  BY <1>1, <1>3, <1>4, <1>5 DEF Build, Goto, InPhase, Built, HeldIds, Creating
<1>8. OwnFlow(p)
  BY DEF Build, Goto, OwnFlow
<1> QED
  BY <1>3, <1>4, <1>6, <1>7, <1>8, OthersFlow

LEMMA AddFlow ==
    ASSUME CopyInv, NEW p \in Proc, AddGroup(p)
    PROVE  FlowInv'
<1> USE DEF CopyInv, FlowInv, FlowTypes, DataInv, DataTypes, LockInv, LockTypes
<1> DEFINE res == AddInstanceGroup(db, group[p])
<1>1. CASE End(p)
  BY <1>1, EndFlow DEF AddGroup
<1>2. CASE /\ group' = [group EXCEPT ![p] = Named(db, group[p])]
           /\ todo' = [todo EXCEPT ![p] = HeldIds(p)]
           /\ Goto(p, "mark")
           /\ UNCHANGED <<path, byte, holder, cmd, req, cand, fd, held, victims, calls, kills>>
  <2>1. GroupIds(Named(db, group[p])) = GroupIds(group[p])
    BY DEF Named, GroupIds, Groups, Group
  <2>2. HeldIds(p) \in SUBSET Id /\ HeldIds(p)' = HeldIds(p)
    BY <1>2 DEF HeldIds
  <2>3. FlowTypes'
    BY <1>2, <2>2 DEF Goto, Pc
  <2>4. InPhase(p)' /\ Built(p)'
    BY <1>2, <2>1, <2>2 DEF AddGroup, Goto, InPhase, Built, Creating
  <2>5. OwnFlow(p)
    BY <1>2 DEF Goto, OwnFlow
  <2> QED
    BY <2>3, <2>4, <2>5, OthersFlow
<1> QED
  BY <1>1, <1>2 DEF AddGroup, lockVars

LEMMA CreateFlow ==
    ASSUME CopyInv, NEW p \in Proc, CreateStep(p)
    PROVE  FlowInv'
<1> USE DEF CopyInv, FlowInv, FlowTypes
<1>1. CASE RepeatedId(p) \/ DirectoriesFail(p) \/ RecordCreated(p)
  BY <1>1, EndFlow DEF RepeatedId, DirectoriesFail, RecordCreated
<1>2. CASE OpenRequested(p) \/ OpenCandidate(p)
  BY <1>2 DEF OpenRequested, OpenCandidate, Goto, InPhase, Built, HeldIds, Creating, Pc
<1>3. CASE AcquireLock(p) \/ TryAcquireLock(p)
  <2>1. FlowTypes' /\ InPhase(p)' /\ Built(p)'
    BY <1>3 DEF AcquireLock, TryAcquireLock, Goto, InPhase, Built, Creating, Pc
  <2>2. OwnFlow(p)
    BY <1>3 DEF AcquireLock, TryAcquireLock, Lock, Goto, OwnFlow, LockInv, LockTypes
  <2> QED
    BY <2>1, <2>2, OthersFlow
<1>4. CASE Build(p)
  BY <1>4, BuildFlow
<1>5. CASE AddGroup(p)
  BY <1>5, AddFlow
<1>6. ASSUME NEW id \in Id, MarkInUse(p, id) PROVE FlowInv'
  BY <1>6 DEF MarkInUse, InPhase, Built, HeldIds, Creating
<1>7. CASE ReturnGroup(p)
  <2>1. FlowTypes' /\ InPhase(p)' /\ Built(p)'
    BY <1>7 DEF ReturnGroup, Goto, InPhase, Built, Creating, Pc
  <2>2. OwnFlow(p)
    BY <1>7 DEF ReturnGroup, Goto, OwnFlow, LockInv, LockTypes
  <2> QED
    BY <2>1, <2>2, OthersFlow
<1> QED
  BY <1>1, <1>2, <1>3, <1>4, <1>5, <1>6, <1>7 DEF CreateStep

LEMMA OtherFlow ==
    ASSUME CopyInv, NEW p \in Proc, OtherStep(p) \/ Killed(p)
    PROVE  FlowInv'
<1> USE DEF CopyInv, FlowInv, FlowTypes, DataInv, DataTypes
<1>1. ASSUME NEW g \in Groups PROVE GroupIds(g) \in SUBSET Id
  BY GroupFields
<1>2. GroupIds(group[p]) \in SUBSET Id
  BY <1>1
<1>3. CASE RemoveFromDb(p) \/ RecordStarted(p) \/ KillAll(p) \/ Killed(p)
  BY <1>3, EndFlow DEF RemoveFromDb, RecordStarted, KillAll, Killed
<1>4. ASSUME NEW clear \in BOOLEAN, StopCvd(p, clear) PROVE FlowInv'
  BY <1>4 DEF StopCvd, Goto, CreateLocals, InPhase, Built, HeldIds, Creating, Pc
<1>5. CASE UpdateStopped(p) \/ StopFails(p) \/ RemoveDirectory(p) \/ RecordStarting(p) \/ ClearDone(p)
  <2>1. CASE End(p)
    BY <1>5, <2>1, EndFlow DEF UpdateStopped, StopFails, RemoveDirectory, RecordStarting, ClearDone
  <2>2. CASE ~End(p) /\ UpdateStopped(p)
    <3>0. /\ pc[p] = "stopped" /\ cmd[p] # "stop"
          /\ pc' = [pc EXCEPT ![p] = "unlink"]
          /\ todo' = [todo EXCEPT ![p] = GroupIds(group[p])]
          /\ UNCHANGED <<cmd, req, calls, kills>>
      BY <2>2 DEF UpdateStopped, Goto, CreateLocals
    <3>a. pc' \in [Proc -> Pc] /\ pc'[p] = "unlink"
      BY <3>0 DEF Pc
    <3>b. todo' \in [Proc -> SUBSET Id]
      BY <1>2, <3>0
    <3>c. FlowTypes'
      BY <3>0, <3>a, <3>b
    <3>d. cmd[p] \in {"remove", "clear", "reset"}
      BY <3>0 DEF InPhase
    <3>1. FlowTypes' /\ InPhase(p)' /\ Built(p)'
      BY <3>0, <3>a, <3>c, <3>d DEF InPhase, Built, Creating
    <3>2. OwnFlow(p)
      BY <2>2 DEF UpdateStopped, Goto, CreateLocals, OwnFlow
    <3> QED
      BY <3>1, <3>2, OthersFlow
  <2>3. CASE ~End(p) /\ StopFails(p)
    <3>1. FlowTypes' /\ InPhase(p)' /\ Built(p)'
      BY <2>3 DEF StopFails, Goto, CreateLocals, InPhase, Built, HeldIds, Creating, Pc
    <3>2. OwnFlow(p)
      BY <2>3 DEF StopFails, Goto, CreateLocals, OwnFlow
    <3> QED
      BY <3>1, <3>2, OthersFlow
  <2>4. CASE ~End(p) /\ RemoveDirectory(p)
    <3>1. FlowTypes' /\ InPhase(p)' /\ Built(p)'
      BY <2>4 DEF RemoveDirectory, Goto, CreateLocals, InPhase, Built, HeldIds, Creating, Pc
    <3>2. OwnFlow(p)
      BY <2>4 DEF RemoveDirectory, Goto, CreateLocals, OwnFlow
    <3> QED
      BY <3>1, <3>2, OthersFlow
  <2>5. CASE ~End(p) /\ RecordStarting(p)
    <3>1. FlowTypes' /\ InPhase(p)' /\ Built(p)'
      BY <2>5 DEF RecordStarting, Goto, CreateLocals, InPhase, Built, HeldIds, Creating, Pc
    <3>2. OwnFlow(p)
      BY <2>5 DEF RecordStarting, Goto, CreateLocals, OwnFlow
    <3> QED
      BY <3>1, <3>2, OthersFlow
  <2>6. CASE ~End(p) /\ ClearDone(p)
    <3>1. FlowTypes' /\ InPhase(p)' /\ Built(p)'
      BY <2>6 DEF ClearDone, Goto, CreateLocals, InPhase, Built, HeldIds, Creating, Pc
    <3>2. OwnFlow(p)
      BY <2>6 DEF ClearDone, Goto, CreateLocals, OwnFlow
    <3> QED
      BY <3>1, <3>2, OthersFlow
  <2> QED
    BY <1>5, <2>1, <2>2, <2>3, <2>4, <2>5, <2>6
<1>6. ASSUME NEW id \in Id, RemoveLockFile(p, id) PROVE FlowInv'
  BY <1>6 DEF RemoveLockFile, CreateLocals, InPhase, Built, HeldIds, Creating
<1>7. CASE Launch(p)
  <2>1. FlowTypes' /\ InPhase(p)' /\ Built(p)'
    BY <1>7 DEF Launch, Goto, CreateLocals, InPhase, Built, HeldIds, Creating, Pc
  <2>2. OwnFlow(p)
    BY <1>7 DEF Launch, Goto, CreateLocals, OwnFlow
  <2> QED
    BY <2>1, <2>2, OthersFlow
<1>8. CASE LaunchFails(p)
  <2>0. /\ pc[p] = "launch"
        /\ pc' = [pc EXCEPT ![p] = "failed"] \/ pc' = [pc EXCEPT ![p] = "unlink"]
        /\ todo' = todo \/ todo' = [todo EXCEPT ![p] = GroupIds(group[p])]
        /\ UNCHANGED <<cmd, req, calls, kills>>
    BY <1>8 DEF LaunchFails, Goto, CreateLocals
  <2>a. pc' \in [Proc -> Pc] /\ pc'[p] \in {"failed", "unlink"}
    BY <2>0 DEF Pc
  <2>b. todo' \in [Proc -> SUBSET Id]
    BY <1>2, <2>0
  <2>c. FlowTypes'
    BY <2>0, <2>a, <2>b
  <2>d. cmd[p] = "start"
    BY <2>0 DEF InPhase
  <2>1. FlowTypes' /\ InPhase(p)' /\ Built(p)'
    BY <2>0, <2>a, <2>c, <2>d DEF InPhase, Built, Creating
  <2>2. OwnFlow(p)
    BY <1>8 DEF LaunchFails, Goto, CreateLocals, OwnFlow
  <2> QED
    BY <2>1, <2>2, OthersFlow
<1>9. CASE DeletedLockFiles(p)
  <2>1. FlowTypes' /\ InPhase(p)' /\ Built(p)'
    BY <1>9 DEF DeletedLockFiles, Goto, CreateLocals, InPhase, Built, HeldIds, Creating, Pc
  <2>2. OwnFlow(p)
    BY <1>9 DEF DeletedLockFiles, Goto, CreateLocals, OwnFlow
  <2> QED
    BY <2>1, <2>2, OthersFlow
<1>10. CASE NextVictim(p)
  <2>1. GroupIds(Head(victims[p])) \in SUBSET Id
    BY <1>1, <1>10, HeadTailProperties DEF NextVictim
  <2>2. StopOrUnlink(Head(victims[p])) \in {"stop", "unlink"}
    BY DEF StopOrUnlink
  <2> QED
    BY <1>10, <2>1, <2>2 DEF NextVictim, Goto, CreateLocals, InPhase, Built, HeldIds, Creating, Pc
<1> QED
  BY <1>3, <1>4, <1>5, <1>6, <1>7, <1>8, <1>9, <1>10 DEF OtherStep

LEMMA StepFlowInv ==
    ASSUME CopyInv, NEW p \in Proc, Step(p)
    PROVE  FlowInv'
  BY CallFlow, CreateFlow, OtherFlow DEF Step

-----------------------------------------------------------------------------
(* The database and the copies of groups *)

Orderly == OneProcess \/ NoRemovals

(* No group leaves the database, whatever becomes of its states.           *)
Keeps == \A g \in GroupsOf(db) : \E h \in GroupsOf(db)' : Same(h, g)

OwnData(p) ==
    \A q \in Proc \ {p} : /\ pc'[q] = pc[q] /\ cmd'[q] = cmd[q] /\ group'[q] = group[q]

(* The copies of other processes: there are none, or no group leaves.      *)
LEMMA OthersData ==
    ASSUME FlowTypes, DataInv, NEW p \in Proc, OwnData(p),
           OneProcess \/ (NoRemovals /\ Keeps),
           DataTypes', GroupsDisjoint', Valid', Copied(p)'
    PROVE  DataInv'
<1>1. ASSUME NEW q \in Proc \ {p}, NoRemovals, Keeps PROVE Copied(q)'
  <2>1. cmd[q] \notin {"clear", "reset"}
    BY <1>1 DEF NoRemovals, FlowTypes
  <2>2. ASSUME NEW g \in GroupsOf(db), Same(g, group[q])
        PROVE  \E h \in GroupsOf(db)' : Same(h, group[q])
    <3>1. PICK h \in GroupsOf(db)' : Same(h, g)
      BY <1>1 DEF Keeps
    <3> QED
      BY <2>2, <3>1 DEF Same
  <2> QED
    BY <2>1, <2>2 DEF DataInv, Copied, OwnData
<1>2. ASSUME NEW q \in Proc \ {p} PROVE ~OneProcess
  BY DEF OneProcess
<1> QED
  BY <1>1, <1>2 DEF DataInv

LEMMA NoGroupType == NoGroup \in Groups
  BY DEF NoGroup, NoInst, NoName, Groups, Group

LEMMA EndData ==
    ASSUME FlowTypes, DataInv, NEW p \in Proc, End(p),
           OneProcess \/ (NoRemovals /\ Keeps),
           db' \in Seq(Groups), GroupsDisjoint', Valid'
    PROVE  DataInv'
<1>1. DataTypes'
  <2>1. <<>> \in Seq(Groups)
    BY EmptySeq
  <2> QED
    BY <2>1, NoGroupType DEF DataInv, DataTypes, End
<1>2. Copied(p)'
  BY DEF End, Goto, FlowTypes, Copied, WithCopy
<1>3. OwnData(p)
  BY DEF End, Goto, FlowTypes, DataInv, DataTypes, OwnData
<1> QED
  BY <1>1, <1>2, <1>3, OthersData

LEMMA SameDb == ASSUME UNCHANGED db, DataInv
                PROVE  Keeps /\ GroupsDisjoint' /\ Valid' /\ db' \in Seq(Groups)
  BY DEF DataInv, DataTypes, GroupsDisjoint, Valid, Keeps, Same, GroupsOf

(* A copy that is written back replaces the group it is a copy of.         *)
LEMMA WriteCopy ==
    ASSUME DataInv, NEW p \in Proc, NEW g \in Groups, Same(g, group[p]),
           pc[p] \in WithCopy, cmd[p] \notin {"clear", "reset"},
           db' = UpdateInstanceGroup(db, g).data
    PROVE  /\ Keeps /\ GroupsDisjoint' /\ Valid' /\ db' \in Seq(Groups)
           /\ \E h \in GroupsOf(db) :
                 /\ Same(h, group[p])
                 /\ GroupsOf(db)' = (GroupsOf(db) \ {h}) \cup {g}
<1>1. PICK h \in GroupsOf(db) : Same(h, group[p])
  BY DEF DataInv, Copied
<1>2. db \in Seq(Groups) /\ Apart(db) /\ Same(h, g)
  BY <1>1 DEF DataInv, DataTypes, GroupsDisjoint, Apart, Same
<1>3. db' \in Seq(Groups) /\ Apart(db') /\ GroupsOf(db') = (GroupsOf(db) \ {h}) \cup {g}
  BY <1>2, UpdateEffect
<1>4. GroupsOf(db)' = GroupsOf(db')
  BY DEF GroupsOf
<1>5. GroupsDisjoint'
  BY <1>3 DEF Apart, GroupsDisjoint
<1>6. Valid'
  <2>1. ValidGroup(h) => ValidGroup(g)
    BY <1>2 DEF ValidGroup, Same
  <2> QED
    BY <1>3, <1>4, <2>1 DEF DataInv, Valid
<1>7. Keeps
  <2>1. ASSUME NEW x \in GroupsOf(db) PROVE \E y \in GroupsOf(db)' : Same(y, x)
    <3>1. CASE x = h
      BY <1>2, <1>3, <1>4, <3>1 DEF Same
    <3>2. CASE x # h
      BY <1>3, <1>4, <3>2 DEF Same
    <3> QED
      BY <3>1, <3>2
  <2> QED
    BY <2>1 DEF Keeps
<1> QED
  BY <1>1, <1>3, <1>4, <1>5, <1>6, <1>7

LEMMA WriteEmpty ==
    ASSUME NEW g, db = <<>>, db' = UpdateInstanceGroup(db, g).data
    PROVE  db' = db
  BY DEF UpdateInstanceGroup, At, Failed

(* The states that are recorded.                                           *)
LEMMA RecordCopy ==
    ASSUME CopyInv, NEW p \in Proc, NEW s \in InstanceState, Record(p, s),
           pc[p] \in WithCopy, cmd[p] \notin {"clear", "reset"}
    PROVE  /\ Keeps /\ GroupsDisjoint' /\ Valid' /\ db' \in Seq(Groups)
           /\ \E h \in GroupsOf(db) :
                 /\ Same(h, group[p])
                 /\ GroupsOf(db)' = (GroupsOf(db) \ {h}) \cup {SetAllStates(group[p], s)}
<1>1. group[p] \in Groups
  BY DEF CopyInv, DataInv, DataTypes
<1>2. SetAllStates(group[p], s) \in Groups /\ Same(SetAllStates(group[p], s), group[p])
  BY <1>1, SetAllStatesGroup
<1> QED
  BY <1>2, WriteCopy DEF CopyInv, Record

LEMMA CallData ==
    ASSUME CopyInv, Orderly, NEW p \in Proc, Call(p)
    PROVE  DataInv'
<1> USE DEF CopyInv
<1>1. ASSUME NEW r \in Requests, NEW n \in GivenNames, CallCreate(p, r, n) PROVE DataInv'
  <2>1. BuildGroup(n, calls + 1, {}) \in Groups
    <3>1. n \in Nat /\ calls + 1 \in Nat
      BY ConstAssumption DEF FlowInv, FlowTypes
    <3>2. [id \in {} |-> "PREPARING"] \in [{} -> InstanceState] /\ {} \in SUBSET Id
      OBVIOUS
    <3> QED
      BY <3>1, <3>2, MakeGroup DEF BuildGroup
  <2>2. DataTypes' /\ OwnData(p) /\ Copied(p)'
    BY <1>1, <2>1 DEF CallCreate, Begin, Goto, DataInv, DataTypes, OwnData, Copied, WithCopy,
       FlowInv, FlowTypes
  <2> QED
    BY <1>1, <2>2, SameDb, OthersData DEF CallCreate, Orderly, FlowInv
<1>2. ASSUME NEW k \in DOMAIN db,
             CallRemove(p, k) \/ CallStart(p, k) \/ \E ids \in SUBSET GroupIds(db[k]) : CallStop(p, k, ids)
      PROVE  DataInv'
  <2>1. db[k] \in Groups /\ db[k] \in GroupsOf(db) /\ db' = db /\ group' = [group EXCEPT ![p] = db[k]]
        /\ UNCHANGED victims
    BY <1>2 DEF CallRemove, CallStart, CallStop, Begin, DataInv, DataTypes, GroupsOf
  <2>2. \E c \in {"remove", "start", "stop"} : \E l :
          cmd' = [cmd EXCEPT ![p] = c] /\ pc' = [pc EXCEPT ![p] = l]
    BY <1>2 DEF CallRemove, CallStart, CallStop, Begin, Goto
  <2>3. DataTypes' /\ OwnData(p)
    BY <2>1, <2>2 DEF DataInv, DataTypes, OwnData, FlowInv, FlowTypes
  <2>4. Copied(p)'
    <3>1. group'[p] = db[k] /\ cmd'[p] \in {"remove", "start", "stop"} /\ GroupsOf(db)' = GroupsOf(db)
      BY <2>1, <2>2 DEF DataInv, DataTypes, FlowInv, FlowTypes, GroupsOf
    <3> QED
      BY <2>1, <3>1 DEF Copied, Same
  <2> QED
    BY <2>1, <2>3, <2>4, SameDb, OthersData DEF Orderly, FlowInv
<1>3. ASSUME NEW c \in {"clear", "reset"}, CallClear(p, c) PROVE DataInv'
  <2>1. OneProcess
    BY <1>3 DEF CallClear, Begin, Orderly, NoRemovals
  <2>2. db' = <<>>
    BY <1>3 DEF CallClear, Clear, Done, DataInv, Valid
  <2>3. GroupsDisjoint' /\ Valid'
    BY <2>2 DEF GroupsDisjoint, Valid, GroupsOf
  <2>4. DataTypes' /\ OwnData(p)
    <3>1. <<>> \in Seq(Groups)
      BY EmptySeq
    <3> QED
      BY <1>3, <2>2, <3>1, NoGroupType DEF CallClear, Begin, Goto, DataInv, DataTypes, OwnData,
         FlowInv, FlowTypes
  <2>5. Copied(p)'
    BY <1>3, <2>2 DEF CallClear, Begin, FlowInv, FlowTypes, Copied
  <2> QED
    BY <2>1, <2>3, <2>4, <2>5, OthersData DEF FlowInv
<1> QED
  BY <1>1, <1>2, <1>3 DEF Call

LEMMA BuildData ==
    ASSUME CopyInv, Orderly, NEW p \in Proc, Build(p)
    PROVE  DataInv'
<1> USE DEF CopyInv
<1>1. group[p] \in Groups /\ HeldIds(p) \in SUBSET Id
  BY DEF DataInv, DataTypes, HeldIds
<1>2. group[p].name \in Nat /\ group[p].home \in Nat
  BY <1>1, GroupFields
<1>3. [id \in HeldIds(p) |-> "PREPARING"] \in [HeldIds(p) -> InstanceState]
  BY DEF InstanceState, ActiveState
<1>4. BuildGroup(group[p].name, group[p].home, HeldIds(p)) \in Groups
  BY <1>1, <1>2, <1>3, MakeGroup DEF BuildGroup
<1>5. DataTypes'
  BY <1>4 DEF Build, DataInv, DataTypes
<1>6. OwnData(p) /\ Copied(p)'
  BY DEF Build, Goto, DataInv, DataTypes, OwnData, Copied, WithCopy, FlowInv, FlowTypes, InPhase, Creating
<1> QED
  BY <1>5, <1>6, SameDb, OthersData DEF Build, Orderly, FlowInv

LEMMA AddData ==
    ASSUME CopyInv, Orderly, NEW p \in Proc, AddGroup(p)
    PROVE  DataInv'
<1> USE DEF CopyInv
<1> DEFINE res == AddInstanceGroup(db, group[p])
           new == Named(db, group[p])
<1>1. /\ new \in Groups /\ GroupIds(new) = GroupIds(group[p])
      /\ res.ok => /\ res.data \in Seq(Groups) /\ Apart(res.data)
                   /\ GroupsOf(res.data) = GroupsOf(db) \cup {new}
  <2>1. db \in Seq(Groups) /\ group[p] \in Groups /\ Apart(db)
    BY DEF DataInv, DataTypes, GroupsDisjoint, Apart
  <2> QED
    BY <2>1, AddEffect
<1>2. CASE End(p) /\ UNCHANGED db
  BY <1>2, SameDb, EndData DEF Orderly, FlowInv
<1>3. CASE /\ res.ok /\ db' = res.data
           /\ group' = [group EXCEPT ![p] = new]
           /\ Goto(p, "mark")
           /\ UNCHANGED <<cmd, victims>>
  <2> HIDE DEF res, new
  <2>1. db' \in Seq(Groups) /\ Apart(db') /\ GroupsOf(db') = GroupsOf(db) \cup {new}
    BY <1>1, <1>3
  <2>2. GroupsOf(db)' = GroupsOf(db')
    BY DEF GroupsOf
  <2>3. GroupsDisjoint' /\ Keeps
    BY <2>1, <2>2 DEF Apart, GroupsDisjoint, Keeps, Same
  <2>4. Valid'
    <3>1. pc[p] = "add"
      BY DEF AddGroup
    <3>2. GroupIds(group[p]) # {}
      BY <3>1 DEF FlowInv, Built
    <3>3. GroupIds(new) \subseteq Id
      BY <1>1, GroupFields
    <3>4. ValidGroup(new)
      <4>1. \A id \in GroupIds(new) : id >= 1
        BY <3>3, IdsArePositive
      <4> QED
        BY <1>1, <3>2, <4>1 DEF ValidGroup
    <3> QED
      BY <2>1, <2>2, <3>4 DEF DataInv, Valid
  <2>5. DataTypes'
    BY <1>1, <1>3, <2>1 DEF DataInv, DataTypes
  <2>6. OwnData(p)
    BY <1>3 DEF Goto, DataInv, DataTypes, OwnData, FlowInv, FlowTypes
  <2>7. Copied(p)'
    <3>1. cmd'[p] = "create" /\ group'[p] = new
      BY <1>3 DEF AddGroup, FlowInv, InPhase, Creating, DataInv, DataTypes
    <3> QED
      BY <2>1, <2>2, <3>1 DEF Copied, Same
  <2> QED
    BY <2>3, <2>4, <2>5, <2>6, <2>7, OthersData DEF Orderly, FlowInv
<1> QED
  BY <1>2, <1>3 DEF AddGroup

LEMMA CreateData ==
    ASSUME CopyInv, Orderly, NEW p \in Proc, CreateStep(p)
    PROVE  DataInv'
<1> USE DEF CopyInv
<1>1. CASE RepeatedId(p) \/ DirectoriesFail(p)
  BY <1>1, SameDb, EndData DEF RepeatedId, DirectoriesFail, Orderly, FlowInv
<1>2. CASE OpenRequested(p) \/ OpenCandidate(p) \/ AcquireLock(p) \/ TryAcquireLock(p)
  <2>1. /\ UNCHANGED <<db, group, victims, cmd>> /\ cmd[p] = "create"
        /\ \E l \in {"flock", "try", "alloc"} : pc' = [pc EXCEPT ![p] = l]
    BY <1>2 DEF OpenRequested, OpenCandidate, AcquireLock, TryAcquireLock, Goto, FlowInv, InPhase, Creating
  <2>2. DataTypes' /\ OwnData(p) /\ Copied(p)'
    BY <2>1 DEF DataInv, DataTypes, OwnData, Copied, WithCopy, FlowInv, FlowTypes
  <2> QED
    BY <2>1, <2>2, SameDb, OthersData DEF Orderly, FlowInv
<1>3. CASE Build(p)
  BY <1>3, BuildData
<1>4. CASE AddGroup(p)
  BY <1>4, AddData
<1>5. CASE ReturnGroup(p) \/ \E id \in Id : MarkInUse(p, id)
  <2>1. /\ UNCHANGED <<db, group, victims, cmd>> /\ pc[p] = "mark"
        /\ \A q \in Proc \ {p} : pc'[q] = pc[q]
    BY <1>5 DEF ReturnGroup, MarkInUse, Goto, FlowInv, FlowTypes
  <2>2. DataTypes' /\ OwnData(p)
    BY <2>1 DEF DataInv, DataTypes, OwnData
  <2>3. Copied(p)'
    BY <2>1 DEF DataInv, Copied, WithCopy, GroupsOf
  <2> QED
    BY <2>1, <2>2, <2>3, SameDb, OthersData DEF Orderly, FlowInv
<1>6. CASE RecordCreated(p)
  <2>1. PICK s \in {"STOPPED", "PREPARE_FAILED"} : Record(p, s)
    BY <1>6 DEF RecordCreated
  <2>2. s \in InstanceState
    BY DEF InstanceState, InactiveState
  <2>3. pc[p] \in WithCopy /\ cmd[p] \notin {"clear", "reset"}
    BY <1>6 DEF RecordCreated, FlowInv, InPhase, Creating, WithCopy
  <2>4. Keeps /\ GroupsDisjoint' /\ Valid' /\ db' \in Seq(Groups)
    BY <2>1, <2>2, <2>3, RecordCopy
  <2> QED
    BY <1>6, <2>4, EndData DEF RecordCreated, Orderly, FlowInv
<1> QED
  BY <1>1, <1>2, <1>3, <1>4, <1>5, <1>6 DEF CreateStep

LEMMA StopData ==
    ASSUME CopyInv, Orderly, NEW p \in Proc,
           (\E clear \in BOOLEAN : StopCvd(p, clear)) \/ UpdateStopped(p) \/ StopFails(p)
    PROVE  DataInv'
<1> USE DEF CopyInv
<1>1. ASSUME NEW clear \in BOOLEAN, StopCvd(p, clear) PROVE DataInv'
  <2> DEFINE g == SetStates(group[p], todo[p], "STOPPED")
  <2>1. /\ UNCHANGED <<db, victims, cmd>> /\ group' = [group EXCEPT ![p] = g]
        /\ pc[p] = "stop" /\ pc' = [pc EXCEPT ![p] = "stopped"]
    BY <1>1 DEF StopCvd, Goto
  <2>2. g \in Groups /\ Same(g, group[p])
    BY SetStatesGroup DEF DataInv, DataTypes, InstanceState, InactiveState
  <2> HIDE DEF g
  <2>3. DataTypes' /\ OwnData(p)
    BY <2>1, <2>2 DEF DataInv, DataTypes, OwnData, FlowInv, FlowTypes
  <2>4. Copied(p)'
    <3>1. group'[p] = g /\ GroupsOf(db)' = GroupsOf(db)
      BY <2>1 DEF DataInv, DataTypes, GroupsOf
    <3>2. \A h : Same(h, group[p]) => Same(h, g)
      BY <2>2 DEF Same
    <3> QED
      BY <2>1, <3>1, <3>2 DEF DataInv, Copied, WithCopy
  <2> QED
    BY <2>1, <2>3, <2>4, SameDb, OthersData DEF Orderly, FlowInv
<1>2. CASE UpdateStopped(p)
  <2>1. db' = UpdateInstanceGroup(db, group[p]).data /\ pc[p] \in WithCopy
    BY <1>2 DEF UpdateStopped, WithCopy
  <2>2. group[p] \in Groups /\ Same(group[p], group[p])
    BY DEF DataInv, DataTypes, Same
  <2>3. /\ Keeps /\ GroupsDisjoint' /\ Valid' /\ db' \in Seq(Groups)
        /\ cmd[p] \in {"clear", "reset"} => db' = db
    <3>1. CASE cmd[p] \in {"clear", "reset"}
      <4>1. db = <<>>
        BY <3>1 DEF DataInv, Copied
      <4>2. db' = db
        BY <2>1, <4>1, WriteEmpty
      <4> QED
        BY <4>2, SameDb
    <3>2. CASE cmd[p] \notin {"clear", "reset"}
      BY <2>1, <2>2, <3>2, WriteCopy
    <3> QED
      BY <3>1, <3>2
  <2>4. CASE End(p)
    BY <2>3, <2>4, EndData DEF Orderly, FlowInv
  <2>5. CASE UNCHANGED <<cmd, group, victims>> /\ Goto(p, "unlink")
    <3>1. DataTypes' /\ OwnData(p)
      BY <2>3, <2>5 DEF Goto, DataInv, DataTypes, OwnData, FlowInv, FlowTypes
    <3>2. Copied(p)'
      <4>1. CASE cmd[p] \in {"clear", "reset"}
        BY <2>3, <2>5, <4>1 DEF DataInv, Copied
      <4>2. CASE cmd[p] \notin {"clear", "reset"}
        <5>1. PICK h \in GroupsOf(db) : Same(h, group[p])
          BY <2>1, <4>2 DEF DataInv, Copied
        <5>2. PICK y \in GroupsOf(db)' : Same(y, h)
          BY <2>3 DEF Keeps
        <5> QED
          BY <2>5, <4>2, <5>1, <5>2 DEF Copied, Same
      <4> QED
        BY <4>1, <4>2
    <3> QED
      BY <2>3, <3>1, <3>2, OthersData DEF Orderly, FlowInv
  <2> QED
    BY <1>2, <2>4, <2>5 DEF UpdateStopped
<1>3. CASE StopFails(p)
  <2>1. CASE End(p) /\ UNCHANGED db
    BY <2>1, SameDb, EndData DEF Orderly, FlowInv
  <2>2. CASE cmd[p] \in {"clear", "reset"} /\ Goto(p, "unlink") /\ UNCHANGED <<db, cmd, group, victims>>
    <3>1. DataTypes' /\ OwnData(p) /\ Copied(p)'
      BY <2>2 DEF Goto, DataInv, DataTypes, OwnData, Copied, FlowInv, FlowTypes
    <3> QED
      BY <2>2, <3>1, SameDb, OthersData DEF Orderly, FlowInv
  <2> QED
    BY <1>3, <2>1, <2>2 DEF StopFails
<1> QED
  BY <1>1, <1>2, <1>3

(* Steps that change neither the database nor the copy, and stay where     *)
(* there is one or none.                                                   *)
LEMMA MoveData ==
    ASSUME CopyInv, Orderly, NEW p \in Proc, UNCHANGED <<db, cmd, group, victims>>,
           NEW l, pc' = [pc EXCEPT ![p] = l], pc[p] \in WithCopy \/ l \notin WithCopy
    PROVE  DataInv'
<1>1. DataTypes' /\ OwnData(p)
  BY DEF CopyInv, DataInv, DataTypes, OwnData, FlowInv, FlowTypes
<1>2. Copied(p)'
  BY DEF CopyInv, DataInv, Copied, FlowInv, FlowTypes, GroupsOf
<1> QED
  BY <1>1, <1>2, SameDb, OthersData DEF CopyInv, Orderly, FlowInv

LEMMA RemoveData ==
    ASSUME CopyInv, Orderly, NEW p \in Proc,
           (\E id \in Id : RemoveLockFile(p, id)) \/ RemoveDirectory(p) \/ RemoveFromDb(p)
    PROVE  DataInv'
<1> USE DEF CopyInv
<1>1. ASSUME NEW id \in Id, RemoveLockFile(p, id) PROVE DataInv'
  <2>1. pc' = [pc EXCEPT ![p] = pc[p]] /\ pc[p] \in WithCopy
    BY <1>1 DEF RemoveLockFile, FlowInv, FlowTypes, WithCopy
  <2> QED
    BY <1>1, <2>1, MoveData DEF RemoveLockFile
<1>2. CASE RemoveDirectory(p)
  <2>1. CASE End(p) /\ UNCHANGED db
    BY <2>1, SameDb, EndData DEF Orderly, FlowInv
  <2>2. CASE Goto(p, "remove_db") /\ UNCHANGED <<db, cmd, group, victims>>
    BY <1>2, <2>2, MoveData DEF RemoveDirectory, Goto, WithCopy
  <2> QED
    BY <1>2, <2>1, <2>2 DEF RemoveDirectory
<1>3. CASE RemoveFromDb(p)
  <2>1. pc[p] = "remove_db" /\ cmd[p] = "remove"
    BY <1>3 DEF RemoveFromDb, FlowInv, InPhase
  <2>2. OneProcess
    BY <2>1 DEF Orderly, NoRemovals, FlowInv, FlowTypes
  <2>3. PICK h \in GroupsOf(db) : Same(h, group[p])
    BY <2>1 DEF DataInv, Copied, WithCopy
  <2>4. db \in Seq(Groups) /\ Apart(db) /\ h.name = group[p].name
    BY <2>3 DEF DataInv, DataTypes, GroupsDisjoint, Apart, Same
  <2>5. db' \in Seq(Groups) /\ Apart(db') /\ GroupsOf(db') = GroupsOf(db) \ {h}
    BY <1>3, <2>4, RemoveEffect DEF RemoveFromDb
  <2>6. GroupsDisjoint' /\ Valid'
    BY <2>5 DEF Apart, GroupsDisjoint, DataInv, Valid, GroupsOf
  <2> QED
    BY <1>3, <2>2, <2>5, <2>6, EndData DEF RemoveFromDb, FlowInv
<1> QED
  BY <1>1, <1>2, <1>3

LEMMA StartData ==
    ASSUME CopyInv, Orderly, NEW p \in Proc,
           RecordStarting(p) \/ Launch(p) \/ LaunchFails(p) \/ DeletedLockFiles(p) \/ RecordStarted(p)
    PROVE  DataInv'
<1> USE DEF CopyInv
<1>1. CASE RecordStarting(p)
  <2>1. CASE End(p) /\ UNCHANGED db
    BY <2>1, SameDb, EndData DEF Orderly, FlowInv
  <2>2. CASE Record(p, "STARTING") /\ Goto(p, "launch") /\ UNCHANGED <<cmd, group, victims>>
    <3>1. pc[p] \in WithCopy /\ cmd[p] = "start"
      BY <1>1 DEF RecordStarting, FlowInv, InPhase, WithCopy
    <3>2. "STARTING" \in InstanceState
      BY DEF InstanceState, ActiveState
    <3>3. PICK h \in GroupsOf(db) : Same(h, group[p])
      BY <3>1 DEF DataInv, Copied
    <3>4. Keeps /\ GroupsDisjoint' /\ Valid' /\ db' \in Seq(Groups)
      BY <2>2, <3>1, <3>2, RecordCopy
    <3>5. PICK y \in GroupsOf(db)' : Same(y, h)
      BY <3>4 DEF Keeps
    <3>6. DataTypes' /\ OwnData(p)
      BY <2>2, <3>4 DEF Goto, DataInv, DataTypes, OwnData, FlowInv, FlowTypes
    <3>7. Copied(p)'
      BY <2>2, <3>1, <3>3, <3>5 DEF Copied, Same
    <3> QED
      BY <3>4, <3>6, <3>7, OthersData DEF Orderly, FlowInv
  <2> QED
    BY <1>1, <2>1, <2>2 DEF RecordStarting
<1>2. CASE Launch(p)
  BY <1>2, MoveData DEF Launch, Goto, WithCopy
<1>3. CASE LaunchFails(p)
  <2>1. \E l : pc' = [pc EXCEPT ![p] = l]
    BY <1>3 DEF LaunchFails, Goto
  <2> QED
    BY <1>3, <2>1, MoveData DEF LaunchFails, WithCopy
<1>4. CASE DeletedLockFiles(p)
  BY <1>4, MoveData DEF DeletedLockFiles, Goto, WithCopy
<1>5. CASE RecordStarted(p)
  <2>1. PICK s \in {"RUNNING", "BOOT_FAILED"} : Record(p, s)
    BY <1>5 DEF RecordStarted
  <2>2. s \in InstanceState
    BY DEF InstanceState, ActiveState, InactiveState
  <2>3. pc[p] \in WithCopy /\ cmd[p] \notin {"clear", "reset"}
    BY <1>5 DEF RecordStarted, FlowInv, InPhase, WithCopy
  <2>4. Keeps /\ GroupsDisjoint' /\ Valid' /\ db' \in Seq(Groups)
    BY <2>1, <2>2, <2>3, RecordCopy
  <2> QED
    BY <1>5, <2>4, EndData DEF RecordStarted, Orderly, FlowInv
<1> QED
  BY <1>1, <1>2, <1>3, <1>4, <1>5

LEMMA ClearData ==
    ASSUME CopyInv, Orderly, NEW p \in Proc,
           NextVictim(p) \/ ClearDone(p) \/ KillAll(p) \/ Killed(p)
    PROVE  DataInv'
<1> USE DEF CopyInv
<1>1. CASE NextVictim(p)
  <2>1. Head(victims[p]) \in Groups /\ Tail(victims[p]) \in Seq(Groups)
    BY <1>1, HeadTailProperties DEF NextVictim, DataInv, DataTypes
  <2>2. cmd[p] \in {"clear", "reset"}
    BY <1>1 DEF NextVictim, FlowInv, InPhase
  <2>3. DataTypes' /\ OwnData(p) /\ Copied(p)'
    BY <1>1, <2>1, <2>2 DEF NextVictim, Goto, DataInv, DataTypes, OwnData, Copied, FlowInv, FlowTypes
  <2> QED
    BY <1>1, <2>3, SameDb, OthersData DEF NextVictim, Orderly, FlowInv
<1>2. CASE ClearDone(p)
  <2>1. CASE End(p) /\ UNCHANGED db
    BY <2>1, SameDb, EndData DEF Orderly, FlowInv
  <2>2. CASE Goto(p, "kill_all") /\ UNCHANGED <<db, cmd, group, victims>>
    BY <2>2, MoveData DEF Goto, WithCopy
  <2> QED
    BY <1>2, <2>1, <2>2 DEF ClearDone
<1>3. CASE KillAll(p) \/ Killed(p)
  BY <1>3, SameDb, EndData DEF KillAll, Killed, Orderly, FlowInv
<1> QED
  BY <1>1, <1>2, <1>3

LEMMA StepDataInv ==
    ASSUME CopyInv, Orderly, NEW p \in Proc, Step(p)
    PROVE  DataInv'
  BY CallData, CreateData, StopData, RemoveData, StartData, ClearData DEF Step, OtherStep

LEMMA InitCopyInv == Init => CopyInv
<1> SUFFICES ASSUME Init PROVE CopyInv
  OBVIOUS
<1>1. LockInv
  BY DEF Init, LockInv, LockTypes, OnePath, OpenedFor, NoLocks
<1>2. FlowInv
  BY DEF Init, FlowInv, FlowTypes, InPhase, Built, Creating, Pc
<1>3. DataInv
  <2>1. <<>> \in Seq(Groups) /\ GroupsOf(db) = {}
    BY EmptySeq DEF Init, GroupsOf
  <2> QED
    BY <2>1, NoGroupType DEF Init, DataInv, DataTypes, GroupsDisjoint, Valid, Copied, WithCopy
<1> QED
  BY <1>1, <1>2, <1>3 DEF CopyInv

LEMMA StutterCopyInv == CopyInv /\ UNCHANGED vars => CopyInv'
<1> SUFFICES ASSUME CopyInv, UNCHANGED vars PROVE CopyInv'
  OBVIOUS
<1>1. LockInv'
  BY DEF vars, lockVars, procVars, CopyInv, LockInv, LockTypes, OnePath, OpenedFor
<1>2. FlowInv'
  BY DEF vars, lockVars, procVars, CopyInv, FlowInv, FlowTypes, InPhase, Built, HeldIds
<1>3. DataInv'
  BY DEF vars, lockVars, procVars, CopyInv, DataInv, DataTypes, GroupsDisjoint, Valid, Copied, GroupsOf
<1> QED
  BY <1>1, <1>2, <1>3 DEF CopyInv

LEMMA CopyInvHolds == ASSUME Orderly PROVE Spec => []CopyInv
<1>1. ASSUME CopyInv, [Next]_vars PROVE CopyInv'
  <2>1. CASE Next
    <3>1. PICK p \in Proc : Step(p)
      BY <2>1 DEF Next, Step
    <3> QED
      BY <1>1, <3>1, FlowKnowsRequests, StepLockInv, StepFlowInv, StepDataInv DEF CopyInv
  <2>2. CASE UNCHANGED vars
    BY <1>1, <2>2, StutterCopyInv
  <2> QED
    BY <1>1, <2>1, <2>2
<1> QED
  BY <1>1, InitCopyInv, PTL DEF Spec

(* An id, a name and a home directory belong to one group in the database, *)
(* for any number of processes as long as no command takes groups out, and *)
(* for any commands, failing or killed anywhere, that one process runs.    *)
THEOREM IdsBelongToOneGroup == ASSUME Orderly PROVE Spec => []GroupsDisjoint
<1>1. CopyInv => GroupsDisjoint
  BY DEF CopyInv, DataInv
<1> QED
  BY <1>1, CopyInvHolds, PTL

-----------------------------------------------------------------------------
(* Automatic ids *)

LEMMA StepCopyInv == ASSUME CopyInv, Orderly, NEW p \in Proc, Step(p) PROVE CopyInv'
  BY FlowKnowsRequests, StepLockInv, StepFlowInv, StepDataInv DEF CopyInv

(* Writing a copy back changes no ids.                                     *)
LEMMA WrittenIds ==
    ASSUME NEW g, NEW h \in GroupsOf(db), Same(h, g),
           GroupsOf(db)' = (GroupsOf(db) \ {h}) \cup {g}
    PROVE  IdsOf(db)' = IdsOf(db)
<1>1. IdsOf(db) = UNION {GroupIds(x) : x \in GroupsOf(db)}
  BY DEF IdsOf
<1>2. IdsOf(db)' = UNION {GroupIds(x) : x \in GroupsOf(db)'}
  BY DEF IdsOf
<1>3. GroupIds(h) = GroupIds(g)
  BY DEF Same
<1> QED
  BY <1>1, <1>2, <1>3

OwnLocks(p) ==
    \A q \in Proc \ {p} :
        /\ pc'[q] = pc[q] /\ req'[q] = req[q] /\ todo'[q] = todo[q]
        /\ cand'[q] = cand[q] /\ fd'[q] = fd[q] /\ held'[q] = held[q]

(* A step that keeps the lock files and what is held of them, by a process *)
(* that is not about to mark ids.                                          *)
LEMMA QuietMark ==
    ASSUME CopyInv, MarkInv, NEW p \in Proc, OwnLocks(p),
           UNCHANGED <<path, byte, holder, cand, fd, held>>, IdsOf(db)' = IdsOf(db),
           pc[p] # "mark", Locked(p)', Unmarked(p)'
    PROVE  MarkInv'
<1>1. ASSUME NEW q \in Proc \ {p} PROVE Locked(q)' /\ Unmarked(q)'
  BY DEF OwnLocks, MarkInv, Locked, Unmarked, AllAuto, HeldIds
<1>2. Marked'
  BY DEF OwnLocks, MarkInv, Marked
<1> QED
  BY <1>1, <1>2 DEF MarkInv

LEMMA EndMark ==
    ASSUME CopyInv, MarkInv, NEW p \in Proc, Ends(p), IdsOf(db)' = IdsOf(db), pc[p] # "mark"
    PROVE  MarkInv'
<1>1. OwnLocks(p)
  BY DEF CopyInv, LockInv, LockTypes, FlowInv, FlowTypes, Ends, End, Goto, OwnLocks
<1>2. p # None /\ \A q \in Proc : q # None
  BY ConstAssumption
<1>3. ASSUME NEW q \in Proc \ {p} PROVE Locked(q)' /\ Unmarked(q)'
  <2>1. ASSUME NEW id \in Id, held[q][id] # None
        PROVE  held[q][id] = path[id] /\ holder'[held[q][id]] = q
    <3>1. held[q][id] = path[id] /\ holder[held[q][id]] = q /\ held[q][id] \in Inode
      BY <2>1 DEF MarkInv, Locked, CopyInv, LockInv, LockTypes
    <3> QED
      BY <3>1 DEF Ends, End
  <2> QED
    BY <1>1, <2>1 DEF OwnLocks, MarkInv, Locked, Unmarked, AllAuto, HeldIds, Ends
<1>4. Locked(p)' /\ Unmarked(p)'
  BY DEF CopyInv, LockInv, LockTypes, FlowInv, FlowTypes, Ends, End, Goto, NoLocks, Locked,
     Unmarked, HeldIds
<1>5. Marked'
  BY <1>1 DEF OwnLocks, MarkInv, Marked, Ends
<1> QED
  BY <1>3, <1>4, <1>5 DEF MarkInv

(* A new lock file has an inode that nobody holds, and says "not in use".  *)
LEMMA OpenMark ==
    ASSUME CopyInv, MarkInv, NEW p \in Proc, NEW id \in Id, OpenLockFile(p, id),
           NEW l \in {"flock", "try"}, pc[p] = "alloc", pc' = [pc EXCEPT ![p] = l],
           AllAuto(p) => l = "try",
           cand' = [cand EXCEPT ![p] = id], UNCHANGED <<holder, held, req, todo, db>>
    PROVE  MarkInv'
<1>1. PICK i \in Inode :
         /\ fd' = [fd EXCEPT ![p] = i] /\ path'[id] = i
         /\ \/ path[id] = i /\ path' = path /\ byte' = byte
            \/ /\ path[id] = None /\ Unused(i)
               /\ path' = [path EXCEPT ![id] = i] /\ byte' = [byte EXCEPT ![i] = "N"]
  BY OpenEffect DEF CopyInv, LockInv
<1>2. OwnLocks(p) /\ pc'[p] = l /\ fd'[p] = i /\ cand'[p] = id
  BY <1>1 DEF CopyInv, LockInv, LockTypes, FlowInv, FlowTypes, OwnLocks
<1>3. /\ \A a \in Id : path[a] # None => path'[a] = path[a]
      /\ \A j \in Inode : byte[j] = "N" => byte'[j] = "N"
      /\ \A j \in Inode : (\E a \in Id : path[a] = j) => byte'[j] = byte[j]
  BY <1>1 DEF CopyInv, LockInv, LockTypes, Unused
<1>4. \A q \in Proc : q # None
  BY ConstAssumption
<1>5. ASSUME NEW q \in Proc PROVE Locked(q)' /\ Unmarked(q)'
  <2>1. ASSUME NEW a \in Id, held[q][a] # None
        PROVE  held[q][a] = path'[a] /\ holder[held[q][a]] = q /\ held[q][a] \in Inode
    <3>1. held[q][a] = path[a] /\ holder[held[q][a]] = q /\ held[q][a] \in Inode
      BY <2>1 DEF MarkInv, Locked, CopyInv, LockInv, LockTypes
    <3> QED
      BY <1>3, <2>1, <3>1
  <2>2. HeldIds(q)' = HeldIds(q) /\ (AllAuto(q)' <=> AllAuto(q))
    BY DEF HeldIds, AllAuto
  <2>3. pc'[q] \in {"flock", "try"} => fd'[q] = path'[cand'[q]]
    <3>1. CASE q = p
      BY <1>1, <1>2, <3>1
    <3>2. CASE q # p
      <4>1. ASSUME pc[q] \in {"flock", "try"} PROVE fd[q] = path[cand[q]] /\ cand[q] \in Id /\ fd[q] # None
        BY <4>1, ConstAssumption DEF MarkInv, Locked, CopyInv, LockInv, OpenedFor
      <4> QED
        BY <1>2, <1>3, <3>2, <4>1 DEF OwnLocks
    <3> QED
      BY <3>1, <3>2
  <2>4. Locked(q)'
    <3>1. CASE q = p
      BY <1>2, <2>1, <2>3, <3>1 DEF Locked
    <3>2. CASE q # p
      BY <1>2, <2>1, <2>2, <2>3, <3>2 DEF Locked, MarkInv, OwnLocks
    <3> QED
      BY <3>1, <3>2
  <2>5. Unmarked(q)'
    <3>1. CASE q = p
      BY <1>2, <1>3, <2>1, <2>2, <3>1 DEF Unmarked, MarkInv
    <3>2. CASE q # p
      BY <1>2, <1>3, <2>1, <2>2, <3>2 DEF Unmarked, MarkInv, OwnLocks
    <3> QED
      BY <3>1, <3>2
  <2> QED
    BY <2>4, <2>5
<1>6. Marked'
  <2>1. IdsOf(db)' = IdsOf(db)
    BY DEF IdsOf, GroupsOf
  <2>2. ASSUME NEW a \in IdsOf(db) PROVE a \in Id
    BY <2>2, GroupFields DEF IdsOf, GroupsOf, CopyInv, DataInv, DataTypes
  <2>3. ASSUME NEW a \in IdsOf(db)
        PROVE  path'[a] = path[a] /\ path[a] # None /\ byte'[path[a]] = byte[path[a]]
    BY <1>3, <2>2 DEF MarkInv, Marked, CopyInv, LockInv, LockTypes
  <2>4. ASSUME NEW a \in IdsOf(db), byte[path[a]] = "N"
        PROVE  \E q \in Proc : pc'[q] = "mark" /\ a \in todo'[q] /\ held'[q][a] = path[a]
    <3>1. PICK q \in Proc : pc[q] = "mark" /\ a \in todo[q] /\ held[q][a] = path[a]
      BY <2>4 DEF MarkInv, Marked
    <3> QED
      BY <1>2, <3>1 DEF OwnLocks
  <2> QED
    BY <2>1, <2>3, <2>4 DEF Marked
<1> QED
  BY <1>5, <1>6 DEF MarkInv

(* A lock is taken of a file that nobody holds.                            *)
LEMMA TakeMark ==
    ASSUME CopyInv, MarkInv, NEW p \in Proc, pc[p] \in {"flock", "try"},
           holder[fd[p]] = None, AllAuto(p) => byte[fd[p]] = "N",
           Lock(p, cand[p], fd[p]), fd' = [fd EXCEPT ![p] = None], Goto(p, "alloc"),
           UNCHANGED <<path, byte, req, todo, db>>
    PROVE  MarkInv'
<1>1. /\ fd[p] \in Inode /\ cand[p] \in Id /\ fd[p] # None /\ fd[p] = path[cand[p]]
      /\ \A q \in Proc : q # None
  BY ConstAssumption DEF CopyInv, LockInv, OpenedFor, MarkInv, Locked
<1>2. /\ holder' = [holder EXCEPT ![fd[p]] = p]
      /\ held' = [held EXCEPT ![p] = [held[p] EXCEPT ![cand[p]] = fd[p]]]
      /\ cand' = [cand EXCEPT ![p] = 1]
  BY DEF Lock
<1>3. OwnLocks(p) /\ pc'[p] = "alloc"
      /\ \A b \in Id : held'[p][b] = IF b = cand[p] THEN fd[p] ELSE held[p][b]
  BY <1>1, <1>2 DEF CopyInv, LockInv, LockTypes, FlowInv, FlowTypes, Goto, OwnLocks
<1>4. ASSUME NEW q \in Proc, NEW a \in Id, held[q][a] # None
      PROVE  held[q][a] = path[a] /\ holder'[held[q][a]] = q /\ held[q][a] \in Inode
  <2>1. held[q][a] = path[a] /\ holder[held[q][a]] = q /\ held[q][a] \in Inode
    BY <1>4 DEF MarkInv, Locked, CopyInv, LockInv, LockTypes
  <2> QED
    BY <1>1, <1>2, <2>1 DEF CopyInv, LockInv, LockTypes
<1>5. Locked(p)' /\ Unmarked(p)'
  <2>1. holder'[fd[p]] = p
    BY <1>1, <1>2 DEF CopyInv, LockInv, LockTypes
  <2>2. Locked(p)'
    BY <1>1, <1>3, <1>4, <2>1 DEF Locked
  <2>3. Unmarked(p)'
    <3>1. AllAuto(p)' <=> AllAuto(p)
      BY DEF AllAuto
    <3> QED
      BY <1>3, <3>1 DEF Unmarked, MarkInv
  <2> QED
    BY <2>2, <2>3
<1>6. ASSUME NEW q \in Proc \ {p} PROVE Locked(q)' /\ Unmarked(q)'
  BY <1>3, <1>4 DEF Locked, Unmarked, MarkInv, OwnLocks, HeldIds, AllAuto
<1>7. Marked'
  BY <1>3 DEF OwnLocks, MarkInv, Marked, IdsOf, GroupsOf
<1> QED
  BY <1>5, <1>6, <1>7 DEF MarkInv

LEMMA TryMark ==
    ASSUME CopyInv, MarkInv, NEW p \in Proc, TryAcquireLock(p)
    PROVE  MarkInv'
<1>1. CASE holder[fd[p]] = None /\ byte[fd[p]] = "N"
  BY <1>1, TakeMark DEF TryAcquireLock
<1>2. CASE ~(holder[fd[p]] = None /\ byte[fd[p]] = "N")
  <2>1. /\ UNCHANGED <<path, byte, holder, held, req, todo, db>>
        /\ cand' = [cand EXCEPT ![p] = @ + 1] /\ fd' = [fd EXCEPT ![p] = None]
        /\ pc[p] = "try" /\ pc' = [pc EXCEPT ![p] = "alloc"]
    BY <1>2 DEF TryAcquireLock, Goto
  <2>2. OwnLocks(p) /\ pc'[p] = "alloc"
    BY <2>1 DEF CopyInv, LockInv, LockTypes, FlowInv, FlowTypes, OwnLocks
  <2>3. ASSUME NEW q \in Proc \ {p} PROVE Locked(q)' /\ Unmarked(q)'
    BY <2>1, <2>2 DEF OwnLocks, MarkInv, Locked, Unmarked, AllAuto, HeldIds
  <2>4. Locked(p)' /\ Unmarked(p)'
    BY <2>1, <2>2 DEF MarkInv, Locked, Unmarked, AllAuto
  <2>5. Marked'
    BY <2>1, <2>2 DEF OwnLocks, MarkInv, Marked, IdsOf, GroupsOf
  <2> QED
    BY <2>3, <2>4, <2>5 DEF MarkInv
<1> QED
  BY <1>1, <1>2

(* A group is added by a process that holds the locks of its ids and goes  *)
(* on to mark them.                                                        *)
LEMMA AddMark ==
    ASSUME CopyInv, MarkInv, NEW p \in Proc, AddGroup(p)
    PROVE  MarkInv'
<1> DEFINE res == AddInstanceGroup(db, group[p])
           new == Named(db, group[p])
<1>1. /\ new \in Groups /\ GroupIds(new) = GroupIds(group[p])
      /\ res.ok => GroupsOf(res.data) = GroupsOf(db) \cup {new}
  <2>1. db \in Seq(Groups) /\ group[p] \in Groups /\ Apart(db)
    BY DEF CopyInv, DataInv, DataTypes, GroupsDisjoint, Apart
  <2> QED
    BY <2>1, AddEffect
<1>2. pc[p] = "add"
  BY DEF AddGroup
<1>3. CASE End(p) /\ UNCHANGED <<path, byte, db>>
  BY <1>2, <1>3, EndMark DEF Ends, IdsOf, GroupsOf
<1>4. CASE /\ res.ok /\ db' = res.data /\ todo' = [todo EXCEPT ![p] = HeldIds(p)]
           /\ Goto(p, "mark") /\ UNCHANGED <<path, byte, holder, req, cand, fd, held>>
  <2> HIDE DEF res, new
  <2>1. GroupsOf(db)' = GroupsOf(db) \cup {new}
    <3>1. GroupsOf(db)' = GroupsOf(db')
      BY DEF GroupsOf
    <3> QED
      BY <1>1, <1>4, <3>1
  <2>2. IdsOf(db)' = IdsOf(db) \cup HeldIds(p)
    <3>1. GroupIds(new) = HeldIds(p)
      BY <1>1, <1>2 DEF CopyInv, FlowInv, Built
    <3>2. /\ IdsOf(db) = UNION {GroupIds(x) : x \in GroupsOf(db)}
          /\ IdsOf(db)' = UNION {GroupIds(x) : x \in GroupsOf(db)'}
      BY DEF IdsOf
    <3> QED
      BY <2>1, <3>1, <3>2
  <2>3. OwnLocks(p) /\ pc'[p] = "mark" /\ todo'[p] = HeldIds(p)
    BY <1>4 DEF CopyInv, FlowInv, FlowTypes, Goto, OwnLocks
  <2>4. ASSUME NEW q \in Proc \ {p} PROVE Locked(q)' /\ Unmarked(q)'
    BY <1>4, <2>3 DEF OwnLocks, MarkInv, Locked, Unmarked, AllAuto, HeldIds
  <2>5. Locked(p)' /\ Unmarked(p)'
    BY <1>2, <1>4, <2>3 DEF MarkInv, Locked, Unmarked, AllAuto, HeldIds
  <2>6. Marked'
    <3>1. ASSUME NEW id \in HeldIds(p) PROVE path[id] # None /\ held[p][id] = path[id]
      BY <3>1 DEF HeldIds, MarkInv, Locked
    <3>2. ASSUME NEW id \in IdsOf(db)
          PROVE  /\ path[id] # None
                 /\ byte[path[id]] = "N" =>
                       \E q \in Proc : pc'[q] = "mark" /\ id \in todo'[q] /\ held'[q][id] = path[id]
      BY <1>2, <1>4, <2>3 DEF MarkInv, Marked, OwnLocks
    <3> QED
      BY <1>4, <2>2, <2>3, <3>1, <3>2 DEF Marked
  <2> QED
    BY <2>4, <2>5, <2>6 DEF MarkInv
<1> QED
  BY <1>3, <1>4 DEF AddGroup, lockVars

(* Only the process that holds its lock marks an id.                       *)
LEMMA MarkMark ==
    ASSUME CopyInv, MarkInv, NEW p \in Proc, NEW id \in Id, MarkInUse(p, id)
    PROVE  MarkInv'
<1>1. /\ pc[p] = "mark" /\ id \in todo[p] /\ byte' = [byte EXCEPT ![held[p][id]] = "I"]
      /\ todo' = [todo EXCEPT ![p] = @ \ {id}]
      /\ UNCHANGED <<path, holder, pc, req, cand, fd, held, db>>
  BY DEF MarkInUse
<1>2. held[p][id] = path[id] /\ holder[held[p][id]] = p /\ held[p][id] \in Inode
  BY <1>1 DEF CopyInv, FlowInv, Built, HeldIds, MarkInv, Locked, LockInv, LockTypes
<1>3. ASSUME NEW q \in Proc PROVE Locked(q)'
  BY <1>1 DEF MarkInv, Locked, HeldIds
<1>4. ASSUME NEW q \in Proc PROVE Unmarked(q)'
  <2>1. CASE q = p
    BY <1>1, <2>1 DEF Unmarked
  <2>2. CASE q # p
    <3>1. ASSUME NEW a \in Id, held[q][a] # None PROVE byte'[held[q][a]] = byte[held[q][a]]
      <4>1. holder[held[q][a]] = q /\ held[q][a] \in Inode
        BY <3>1 DEF MarkInv, Locked, CopyInv, LockInv, LockTypes
      <4> QED
        BY <1>1, <1>2, <2>2, <4>1 DEF CopyInv, LockInv, LockTypes
    <3> QED
      BY <1>1, <3>1 DEF MarkInv, Unmarked, AllAuto
  <2> QED
    BY <2>1, <2>2
<1>5. Marked'
  <2>1. IdsOf(db)' = IdsOf(db)
    BY <1>1 DEF IdsOf, GroupsOf
  <2>2. ASSUME NEW a \in IdsOf(db), byte'[path[a]] = "N"
        PROVE  \E q \in Proc : pc[q] = "mark" /\ a \in todo'[q] /\ held[q][a] = path[a]
    <3>1. path[a] # held[p][id] /\ byte[path[a]] = "N"
      BY <1>1, <1>2, <2>2 DEF CopyInv, LockInv, LockTypes
    <3>2. PICK q \in Proc : pc[q] = "mark" /\ a \in todo[q] /\ held[q][a] = path[a]
      BY <3>1 DEF MarkInv, Marked
    <3>3. a \in todo'[q]
      BY <1>1, <1>2, <3>1, <3>2 DEF CopyInv, FlowInv, FlowTypes
    <3> QED
      BY <3>2, <3>3
  <2> QED
    BY <1>1, <2>1, <2>2 DEF MarkInv, Marked
<1> QED
  BY <1>3, <1>4, <1>5 DEF MarkInv

LEMMA ReturnMark ==
    ASSUME CopyInv, MarkInv, NEW p \in Proc, ReturnGroup(p)
    PROVE  MarkInv'
<1>1. /\ pc[p] = "mark" /\ todo[p] = {}
      /\ holder' = [i \in Inode |-> IF holder[i] = p THEN None ELSE holder[i]]
      /\ held' = [held EXCEPT ![p] = NoLocks] /\ pc' = [pc EXCEPT ![p] = "created"]
      /\ UNCHANGED <<path, byte, req, cand, fd, todo, db>>
  BY DEF ReturnGroup, Goto
<1>2. OwnLocks(p) /\ pc'[p] = "created" /\ held'[p] = NoLocks
  BY <1>1 DEF CopyInv, LockInv, LockTypes, FlowInv, FlowTypes, OwnLocks
<1>3. ASSUME NEW q \in Proc \ {p} PROVE Locked(q)' /\ Unmarked(q)'
  <2>1. ASSUME NEW id \in Id, held[q][id] # None
        PROVE  held[q][id] = path[id] /\ holder'[held[q][id]] = q
    <3>1. held[q][id] = path[id] /\ holder[held[q][id]] = q /\ held[q][id] \in Inode
      BY <2>1 DEF MarkInv, Locked, CopyInv, LockInv, LockTypes
    <3> QED
      BY <1>1, <3>1
  <2> QED
    BY <1>1, <1>2, <2>1 DEF OwnLocks, MarkInv, Locked, Unmarked, AllAuto, HeldIds
<1>4. Locked(p)' /\ Unmarked(p)'
  BY <1>2 DEF Locked, Unmarked, HeldIds, NoLocks
<1>5. Marked'
  BY <1>1, <1>2 DEF OwnLocks, MarkInv, Marked, IdsOf, GroupsOf
<1> QED
  BY <1>3, <1>4, <1>5 DEF MarkInv

LEMMA CallMark ==
    ASSUME CopyInv, MarkInv, NoUnlinking, NEW p \in Proc, Call(p)
    PROVE  MarkInv'
<1>1. ASSUME NEW l \in {"alloc", "stop"}, pc[p] = "idle", pc' = [pc EXCEPT ![p] = l], OwnLocks(p),
             UNCHANGED <<path, byte, holder, cand, fd, held, db>>
      PROVE  MarkInv'
  <2>1. pc'[p] = l /\ HeldIds(p) = {} /\ HeldIds(p)' = HeldIds(p)
    BY <1>1 DEF CopyInv, FlowInv, FlowTypes, MarkInv, Locked, HeldIds
  <2>2. \A id \in Id : held[p][id] = None
    BY <2>1 DEF HeldIds
  <2>3. Locked(p)' /\ Unmarked(p)'
    BY <1>1, <2>1, <2>2 DEF Locked, Unmarked
  <2>4. IdsOf(db)' = IdsOf(db)
    BY <1>1 DEF IdsOf, GroupsOf
  <2> QED
    BY <1>1, <2>3, <2>4, QuietMark
<1>2. ASSUME NEW r \in Requests, NEW n \in GivenNames, CallCreate(p, r, n) PROVE MarkInv'
  BY <1>1, <1>2 DEF CallCreate, Begin, Goto, lockVars, CopyInv, LockInv, LockTypes, FlowInv,
     FlowTypes, OwnLocks
<1>3. ASSUME NEW k \in DOMAIN db, NEW ids, CallStop(p, k, ids) PROVE MarkInv'
  BY <1>1, <1>3 DEF CallStop, Begin, Goto, lockVars, CreateLocals, CopyInv, LockInv, LockTypes,
     FlowInv, FlowTypes, OwnLocks
<1>4. ~(\E k \in DOMAIN db : CallRemove(p, k) \/ CallStart(p, k))
      /\ ~(\E c \in {"clear", "reset"} : CallClear(p, c))
  BY DEF CallRemove, CallStart, CallClear, Begin, NoUnlinking
<1> QED
  BY <1>2, <1>3, <1>4 DEF Call

LEMMA StepMarkInv ==
    ASSUME CopyInv, MarkInv, NoUnlinking, NEW p \in Proc, Step(p)
    PROVE  MarkInv'
<1>1. CASE Call(p)
  BY <1>1, CallMark
<1>2. CASE OpenRequested(p)
  <2>1. NextRequested(p) \in Id
    BY <1>2, NextIsId, FlowKnowsRequests DEF OpenRequested, CopyInv
  <2>2. ~AllAuto(p)
    BY <1>2 DEF OpenRequested, LeftToRequest, IsNextRequest, AllAuto
  <2> QED
    BY <1>2, <2>1, <2>2, OpenMark DEF OpenRequested, Goto
<1>3. CASE OpenCandidate(p)
  <2>1. cand' = [cand EXCEPT ![p] = cand[p]]
    BY <1>3 DEF OpenCandidate, CopyInv, LockInv, LockTypes
  <2> QED
    BY <1>3, <2>1, OpenMark DEF OpenCandidate, Goto
<1>4. CASE AcquireLock(p)
  <2>1. ~AllAuto(p)
    BY <1>4 DEF AcquireLock, MarkInv, Unmarked
  <2> QED
    BY <1>4, <2>1, TakeMark DEF AcquireLock
<1>5. CASE TryAcquireLock(p)
  BY <1>5, TryMark
<1>6. CASE RepeatedId(p) \/ DirectoriesFail(p) \/ StopFails(p)
  <2>1. cmd[p] \notin {"clear", "reset"}
    BY DEF NoUnlinking, CopyInv, FlowInv, FlowTypes
  <2>2. Ends(p) /\ UNCHANGED db /\ pc[p] # "mark"
    BY <1>6, <2>1 DEF RepeatedId, DirectoriesFail, StopFails, Ends
  <2> QED
    BY <2>2, EndMark DEF IdsOf, GroupsOf
<1>7. ASSUME Build(p) \/ \E clear \in BOOLEAN : StopCvd(p, clear) PROVE MarkInv'
  <2>1. /\ UNCHANGED <<path, byte, holder, cand, fd, held, req, todo, db>>
        /\ \/ pc[p] = "alloc" /\ pc' = [pc EXCEPT ![p] = "add"]
           \/ pc[p] = "stop" /\ pc' = [pc EXCEPT ![p] = "stopped"]
    BY <1>7 DEF Build, StopCvd, Goto, lockVars, CreateLocals
  <2>2. OwnLocks(p) /\ Locked(p)' /\ Unmarked(p)'
    BY <2>1 DEF CopyInv, FlowInv, FlowTypes, OwnLocks, MarkInv, Locked, Unmarked, AllAuto, HeldIds
  <2>3. IdsOf(db)' = IdsOf(db)
    BY <2>1 DEF IdsOf, GroupsOf
  <2> QED
    BY <2>1, <2>2, <2>3, QuietMark
<1>8. CASE AddGroup(p)
  BY <1>8, AddMark
<1>9. ASSUME NEW id \in Id, MarkInUse(p, id) PROVE MarkInv'
  BY <1>9, MarkMark
<1>10. CASE ReturnGroup(p)
  BY <1>10, ReturnMark
<1>11. CASE RecordCreated(p)
  <2>1. PICK s \in {"STOPPED", "PREPARE_FAILED"} : Record(p, s)
    BY <1>11 DEF RecordCreated
  <2>2. s \in InstanceState /\ pc[p] \in WithCopy /\ cmd[p] \notin {"clear", "reset"}
    BY <1>11 DEF RecordCreated, InstanceState, InactiveState, WithCopy, CopyInv, FlowInv, InPhase,
       Creating
  <2>3. PICK h \in GroupsOf(db) :
           /\ Same(h, group[p])
           /\ GroupsOf(db)' = (GroupsOf(db) \ {h}) \cup {SetAllStates(group[p], s)}
    BY <2>1, <2>2, RecordCopy
  <2>4. Same(h, SetAllStates(group[p], s))
    BY <2>2, <2>3, SetAllStatesGroup DEF Same, CopyInv, DataInv, DataTypes
  <2>5. IdsOf(db)' = IdsOf(db)
    BY <2>3, <2>4, WrittenIds
  <2> QED
    BY <1>11, <2>5, EndMark DEF RecordCreated, Ends
<1>12. CASE UpdateStopped(p)
  <2>1. cmd[p] = "stop" /\ pc[p] = "stopped"
    BY <1>12 DEF UpdateStopped, NoUnlinking, CopyInv, FlowInv, FlowTypes, InPhase
  <2>2. PICK h \in GroupsOf(db) :
           Same(h, group[p]) /\ GroupsOf(db)' = (GroupsOf(db) \ {h}) \cup {group[p]}
    <3>1. group[p] \in Groups /\ Same(group[p], group[p]) /\ pc[p] \in WithCopy
      BY <2>1 DEF CopyInv, DataInv, DataTypes, Same, WithCopy
    <3> QED
      BY <1>12, <2>1, <3>1, WriteCopy DEF UpdateStopped, CopyInv
  <2>3. IdsOf(db)' = IdsOf(db)
    BY <2>2, WrittenIds
  <2> QED
    BY <1>12, <2>1, <2>3, EndMark DEF UpdateStopped, Ends
<1>13. cmd[p] \notin {"remove", "start", "clear", "reset"} /\ ~Killed(p)
  BY DEF NoUnlinking, Killed, CopyInv, FlowInv, FlowTypes
<1>14. ~(\/ \E id \in Id : RemoveLockFile(p, id)
         \/ RemoveDirectory(p) \/ RemoveFromDb(p) \/ RecordStarting(p) \/ Launch(p)
         \/ LaunchFails(p) \/ DeletedLockFiles(p) \/ RecordStarted(p) \/ NextVictim(p)
         \/ ClearDone(p) \/ KillAll(p))
  BY <1>13 DEF CopyInv, FlowInv, InPhase, RemoveLockFile, RemoveDirectory, RemoveFromDb,
     RecordStarting, Launch, LaunchFails, DeletedLockFiles, RecordStarted, NextVictim, ClearDone,
     KillAll
<1> QED
  BY <1>1, <1>2, <1>3, <1>4, <1>5, <1>6, <1>7, <1>8, <1>9, <1>10, <1>11, <1>12, <1>13, <1>14
     DEF Step, CreateStep, OtherStep

(* An id that AcquireUnusedLock chose is free in the database when the     *)
(* group is added, for any number of processes that create and stop groups *)
(* at the same time: the lock of an id is held from before it is known to  *)
(* be unused until after it is marked in use.                              *)
THEOREM AutoIdsFree == ASSUME NoUnlinking PROVE Spec => []AutoIdsAreFree
<1>1. Orderly
  BY DEF NoUnlinking, Orderly, NoRemovals
<1>2. Init => MarkInv
  <2> SUFFICES ASSUME Init PROVE MarkInv
    OBVIOUS
  <2>1. IdsOf(db) = {}
    BY DEF Init, IdsOf, GroupsOf
  <2> QED
    BY <2>1 DEF Init, MarkInv, Marked, Locked, Unmarked, HeldIds, NoLocks
<1>3. ASSUME CopyInv, MarkInv, [Next]_vars PROVE MarkInv'
  <2>1. CASE Next
    <3>1. PICK p \in Proc : Step(p)
      BY <2>1 DEF Next, Step
    <3> QED
      BY <1>3, <3>1, StepMarkInv
  <2>2. CASE UNCHANGED vars
    BY <1>3, <2>2 DEF vars, lockVars, procVars, MarkInv, Marked, Locked, Unmarked, AllAuto, HeldIds,
       IdsOf, GroupsOf
  <2> QED
    BY <1>3, <2>1, <2>2
<1>4. CopyInv /\ MarkInv => AutoIdsAreFree
  <2> SUFFICES ASSUME CopyInv, MarkInv, NEW p \in Proc, pc[p] = "add", AllAuto(p),
                      NEW g \in GroupsOf(db), NEW id \in GroupIds(g), id \in HeldIds(p)
               PROVE  FALSE
    BY DEF AutoIdsAreFree, AllAuto
  <2>1. /\ id \in Id /\ held[p][id] = path[id] /\ holder[path[id]] = p
        /\ byte[path[id]] = "N" /\ path[id] # None
    BY DEF MarkInv, Locked, Unmarked, HeldIds
  <2>2. id \in IdsOf(db)
    BY DEF IdsOf
  <2>3. PICK q \in Proc : pc[q] = "mark" /\ held[q][id] = path[id]
    BY <2>1, <2>2 DEF MarkInv, Marked
  <2>4. holder[path[id]] = q
    BY <2>1, <2>3 DEF MarkInv, Locked
  <2> QED
    BY <2>1, <2>3, <2>4
<1> QED
  BY <1>1, <1>2, <1>3, <1>4, CopyInvHolds, PTL DEF Spec

-----------------------------------------------------------------------------
(* One process *)

Own(p) == NewHome(p) /\ Stopping(p) /\ Starting(p) /\ Unlinking(p)

LEMMA OnlyOwn ==
    ASSUME OneProcess, NEW p \in Proc, Homes', Records', Freed', Own(p)'
    PROVE  AloneInv'
<1>1. \A q \in Proc : q = p
  BY DEF OneProcess
<1>2. \A q \in Proc : Own(q)'
  BY <1>1
<1> QED
  BY <1>2 DEF AloneInv, Own

(* The ids in use stay accounted for.                                      *)
LEMMA FreedStep ==
    ASSUME OneProcess, NEW p \in Proc, Freed, kills' = kills,
           \A id \in Id : InUse(id)' =>
              /\ InUse(id)
              /\ id \in IdsOf(db) \cup ToFree(p) => id \in IdsOf(db)' \cup ToFree(p)'
    PROVE  Freed'
<1>1. \A q \in Proc : q = p
  BY DEF OneProcess
<1>2. ASSUME NEW id \in Id, InUse(id)', kills' = 0
      PROVE  id \in IdsOf(db)' \/ \E q \in Proc : id \in ToFree(q)'
  <2>1. id \in IdsOf(db) \/ \E q \in Proc : id \in ToFree(q)
    BY <1>2 DEF Freed
  <2>2. id \in IdsOf(db) \cup ToFree(p)
    BY <1>1, <2>1
  <2> QED
    BY <1>2, <2>2
<1> QED
  BY <1>2 DEF Freed

LEMMA SameUse == ASSUME UNCHANGED <<path, byte>> PROVE \A id \in Id : InUse(id)' <=> InUse(id)
  BY DEF InUse

(* Nothing new runs, and the groups are the same.                          *)
LEMMA SameRecords ==
    ASSUME CopyInv, AloneInv, running' \subseteq running, UNCHANGED db,
           calls' \in {calls, calls + 1}
    PROVE  Homes' /\ Records' /\ IdsOf(db)' = IdsOf(db)
<1>1. GroupsOf(db)' = GroupsOf(db) /\ IdsOf(db)' = IdsOf(db)
  BY DEF GroupsOf, IdsOf
<1>2. ASSUME NEW g, Recorded(g) PROVE Recorded(g)'
  BY <1>2 DEF Recorded
<1>3. Records'
  BY <1>1, <1>2 DEF AloneInv, Records
<1>4. \A g \in GroupsOf(db) : g.home \in Nat
  BY GroupFields DEF CopyInv, DataInv, DataTypes, GroupsOf
<1>5. calls \in Nat
  BY DEF CopyInv, FlowInv, FlowTypes
<1>6. Homes'
  BY <1>1, <1>4, <1>5 DEF AloneInv, Homes
<1> QED
  BY <1>1, <1>3, <1>6

(* A copy that is written back has right records.                          *)
LEMMA WrittenRecords ==
    ASSUME CopyInv, AloneInv, UNCHANGED <<running, calls>>,
           NEW g, NEW h \in GroupsOf(db), Same(h, g), Recorded(g),
           GroupsOf(db)' = (GroupsOf(db) \ {h}) \cup {g}
    PROVE  Homes' /\ Records' /\ IdsOf(db)' = IdsOf(db)
<1>1. \A x : Recorded(x) => Recorded(x)'
  BY DEF Recorded
<1>2. Records'
  BY <1>1 DEF AloneInv, Records
<1>3. Homes'
  BY DEF AloneInv, Homes, Same
<1> QED
  BY <1>2, <1>3, WrittenIds

LEMMA EndAlone ==
    ASSUME CopyInv, AloneInv, OneProcess, NEW p \in Proc, End(p), UNCHANGED <<path, byte>>,
           Homes', Records', kills' = 0 => kills' = kills /\ IdsOf(db)' = IdsOf(db) /\ ToFree(p) = {}
    PROVE  AloneInv'
<1>1. pc'[p] = "idle" /\ cmd'[p] = "none" /\ todo'[p] = {}
  BY DEF CopyInv, FlowInv, FlowTypes, End, Goto
<1>2. Own(p)'
  BY <1>1 DEF Own, NewHome, Stopping, Starting, Unlinking, Creating
<1>3. Freed'
  <2>1. CASE kills' = 0
    BY <2>1, SameUse, FreedStep DEF AloneInv
  <2>2. CASE kills' # 0
    BY <2>2 DEF Freed
  <2> QED
    BY <2>1, <2>2
<1> QED
  BY <1>2, <1>3, OnlyOwn

LEMMA CallAlone ==
    ASSUME CopyInv, AloneInv, OneProcess, NEW p \in Proc, Call(p)
    PROVE  AloneInv'
<1>0. /\ UNCHANGED <<path, byte, running, kills>> /\ calls' = calls + 1 /\ pc[p] = "idle"
      /\ cmd[p] = "none" /\ todo[p] = {} /\ ToFree(p) = {} /\ calls \in Nat
  <2>1. UNCHANGED <<path, byte, running, kills>> /\ calls' = calls + 1 /\ pc[p] = "idle"
    BY DEF Call, CallCreate, CallRemove, CallStart, CallStop, CallClear, Begin, lockVars
  <2>2. cmd[p] = "none" /\ todo[p] = {} /\ calls \in Nat
    BY <2>1 DEF CopyInv, FlowInv, FlowTypes, InPhase, AloneInv, Unlinking
  <2> QED
    BY <2>1, <2>2 DEF ToFree
<1>1. ASSUME UNCHANGED db PROVE Homes' /\ Records' /\ Freed'
  <2>1. Homes' /\ Records' /\ IdsOf(db)' = IdsOf(db)
    BY <1>0, <1>1, SameRecords
  <2> QED
    BY <1>0, <2>1, SameUse, FreedStep DEF AloneInv
<1>2. ASSUME NEW r \in Requests, NEW n \in GivenNames, CallCreate(p, r, n) PROVE AloneInv'
  <2>1. /\ group'[p] = BuildGroup(n, calls + 1, {}) /\ pc'[p] = "alloc" /\ cmd'[p] = "create"
        /\ UNCHANGED db
    BY <1>2 DEF CallCreate, Begin, Goto, CopyInv, FlowInv, FlowTypes, DataInv, DataTypes
  <2>2. \A id \in Id : <<calls + 1, id>> \notin running
    BY <1>0 DEF AloneInv, Homes
  <2>3. NewHome(p)'
    BY <1>0, <2>1, <2>2 DEF NewHome, BuildGroup
  <2>4. Own(p)'
    BY <2>1, <2>3 DEF Own, Stopping, Starting, Unlinking
  <2> QED
    BY <1>1, <2>1, <2>4, OnlyOwn
<1>3. ASSUME NEW k \in DOMAIN db,
             CallRemove(p, k) \/ CallStart(p, k) \/ \E ids \in SUBSET GroupIds(db[k]) : CallStop(p, k, ids)
      PROVE  AloneInv'
  <2>1. /\ group'[p] = db[k] /\ UNCHANGED db
        /\ \/ /\ cmd'[p] = "remove" /\ pc'[p] = StopOrUnlink(db[k]) /\ todo'[p] = GroupIds(db[k])
           \/ ~HasActiveInstances(db[k]) /\ cmd'[p] = "start" /\ pc'[p] = "starting"
           \/ cmd'[p] = "stop" /\ pc'[p] = "stop"
    BY <1>3 DEF CallRemove, CallStart, CallStop, Begin, Goto, CopyInv, FlowInv, FlowTypes, DataInv,
       DataTypes
  <2>2. Recorded(db[k]) /\ Recorded(db[k])'
    <3>1. db[k] \in GroupsOf(db)
      BY DEF GroupsOf
    <3>2. Recorded(db[k])
      BY <3>1 DEF AloneInv, Records
    <3> QED
      BY <1>0, <2>1, <3>2 DEF Recorded
  <2>3. ~HasActiveInstances(db[k]) => NoneRuns(db[k]) /\ NoneRuns(db[k])'
    BY <1>0, <2>1, <2>2 DEF HasActiveInstances, Recorded, NoneRuns
  <2>4. pc'[p] \in {"stop", "unlink"} \/ (cmd'[p] = "start" /\ pc'[p] = "starting")
    BY <2>1 DEF StopOrUnlink
  <2>5. NewHome(p)'
    BY <2>4 DEF NewHome, Creating
  <2>6. Recorded(group[p])' /\ (~HasActiveInstances(db[k]) => NoneRuns(group[p])')
    BY <2>1, <2>2, <2>3 DEF Recorded, NoneRuns
  <2>7. GroupIds(group[p])' = GroupIds(db[k])
    BY <2>1 DEF GroupIds
  <2>8. Stopping(p)'
    BY <2>1, <2>4, <2>6, <2>7 DEF Stopping, StopOrUnlink
  <2>9. Starting(p)'
    BY <2>1, <2>4, <2>6 DEF Starting
  <2>10. Unlinking(p)'
    BY <2>1, <2>4, <2>7 DEF Unlinking
  <2> QED
    BY <1>1, <2>1, <2>5, <2>8, <2>9, <2>10, OnlyOwn DEF Own
<1>4. ASSUME NEW c \in {"clear", "reset"}, CallClear(p, c) PROVE AloneInv'
  <2>1. /\ db' = <<>> /\ victims'[p] = db /\ todo'[p] = {} /\ cmd'[p] \in {"clear", "reset"}
        /\ pc'[p] = "next_victim"
    BY <1>0, <1>4 DEF CallClear, Begin, Goto, Clear, Done, CopyInv, FlowInv, FlowTypes, DataInv,
       DataTypes, Valid
  <2>2. GroupsOf(db)' = {} /\ IdsOf(victims[p])' = IdsOf(db)
    BY <2>1 DEF GroupsOf, IdsOf
  <2>3. Homes' /\ Records'
    BY <1>0, <2>2 DEF AloneInv, Homes, Records
  <2>4. Freed'
    <3>1. ToFree(p)' = IdsOf(db)
      BY <2>1, <2>2 DEF ToFree
    <3> QED
      BY <1>0, <3>1, SameUse, FreedStep DEF AloneInv
  <2>5. Own(p)'
    BY <2>1 DEF Own, NewHome, Creating, Stopping, Starting, Unlinking
  <2> QED
    BY <2>3, <2>4, <2>5, OnlyOwn
<1> QED
  BY <1>2, <1>3, <1>4 DEF Call

(* A step within a command: what is particular to it is what its process   *)
(* knows, and what becomes of the ids in use.                              *)
LEMMA MoveAlone ==
    ASSUME CopyInv, AloneInv, OneProcess, NEW p \in Proc,
           UNCHANGED <<db, calls, kills>>, running' \subseteq running,
           \A id \in Id : InUse(id)' => InUse(id) /\ (id \in ToFree(p) => id \in ToFree(p)'),
           Own(p)'
    PROVE  AloneInv'
<1>1. Homes' /\ Records' /\ IdsOf(db)' = IdsOf(db)
  BY SameRecords
<1>2. Freed'
  BY <1>1, FreedStep DEF AloneInv
<1> QED
  BY <1>1, <1>2, OnlyOwn

(* While a group is created nothing runs in its home directory.            *)
LEMMA CreatingOwn ==
    ASSUME CopyInv, AloneInv, NEW p \in Proc, pc[p] \in Creating, pc'[p] \in Creating,
           group'[p].home = group[p].home, UNCHANGED <<calls, running, cmd>>
    PROVE  Own(p)'
<1>1. cmd'[p] = "create"
  BY DEF CopyInv, FlowInv, InPhase
<1>2. NewHome(p)'
  BY DEF AloneInv, NewHome
<1>3. Stopping(p)' /\ Starting(p)' /\ Unlinking(p)'
  BY <1>1 DEF Stopping, Starting, Unlinking, Creating
<1> QED
  BY <1>2, <1>3 DEF Own

LEMMA LockFilesAlone ==
    ASSUME CopyInv, AloneInv, OneProcess, NEW p \in Proc,
           OpenRequested(p) \/ OpenCandidate(p) \/ AcquireLock(p) \/ TryAcquireLock(p) \/ Build(p)
           \/ ReturnGroup(p)
    PROVE  AloneInv'
<1>1. /\ pc[p] \in Creating /\ pc'[p] \in Creating /\ group'[p].home = group[p].home
      /\ UNCHANGED <<db, calls, kills, running, cmd>>
  BY DEF OpenRequested, OpenCandidate, AcquireLock, TryAcquireLock, Build, ReturnGroup, Goto,
     Creating, BuildGroup, CopyInv, FlowInv, FlowTypes, DataInv, DataTypes
<1>2. Own(p)'
  BY <1>1, CreatingOwn
<1>3. ToFree(p) = {}
  BY <1>1 DEF ToFree, CopyInv, FlowInv, InPhase
<1>4. ASSUME NEW id \in Id, InUse(id)' PROVE InUse(id)
  <2>1. CASE UNCHANGED <<path, byte>>
    BY <1>4, <2>1 DEF InUse
  <2>2. ASSUME NEW a \in Id, OpenLockFile(p, a) PROVE InUse(id)
    <3>1. PICK i \in Inode :
             /\ path'[a] = i
             /\ \/ path[a] = i /\ path' = path /\ byte' = byte
                \/ /\ path[a] = None /\ Unused(i)
                   /\ path' = [path EXCEPT ![a] = i] /\ byte' = [byte EXCEPT ![i] = "N"]
      BY <2>2, OpenEffect DEF CopyInv, LockInv
    <3> QED
      BY <1>4, <3>1 DEF InUse, CopyInv, LockInv, LockTypes, Unused
  <2>3. CASE OpenRequested(p)
    BY <2>2, <2>3, NextIsId, FlowKnowsRequests DEF OpenRequested, CopyInv
  <2>4. CASE OpenCandidate(p)
    BY <2>2, <2>4 DEF OpenCandidate
  <2> QED
    BY <2>1, <2>3, <2>4 DEF AcquireLock, TryAcquireLock, Build, ReturnGroup, lockVars
<1> QED
  BY <1>1, <1>2, <1>3, <1>4, MoveAlone

(* What is marked in use is in the database.                               *)
LEMMA MarkAlone ==
    ASSUME CopyInv, AloneInv, OneProcess, NEW p \in Proc, NEW id \in Id, MarkInUse(p, id)
    PROVE  AloneInv'
<1>1. /\ pc[p] = "mark" /\ id \in todo[p] /\ byte' = [byte EXCEPT ![held[p][id]] = "I"]
      /\ UNCHANGED <<path, db, calls, kills, running, cmd, pc, group, victims>>
  BY DEF MarkInUse
<1>2. Own(p)'
  BY <1>1, CreatingOwn DEF Creating
<1>3. Homes' /\ Records' /\ IdsOf(db)' = IdsOf(db)
  BY <1>1, SameRecords
<1>4. id \in IdsOf(db)
  <2>1. id \in GroupIds(group[p])
    BY <1>1 DEF CopyInv, FlowInv, Built
  <2>2. cmd[p] = "create"
    BY <1>1 DEF CopyInv, FlowInv, InPhase, Creating
  <2>3. PICK g \in GroupsOf(db) : Same(g, group[p])
    BY <1>1, <2>2 DEF CopyInv, DataInv, Copied, WithCopy
  <2> QED
    BY <2>1, <2>3 DEF IdsOf, Same
<1>5. ASSUME NEW a \in Id, InUse(a)', a # id PROVE InUse(a)
  <2>1. held[p][id] # None /\ held[p][id] \in Inode
    BY <1>1 DEF CopyInv, FlowInv, Built, HeldIds, LockInv, LockTypes
  <2>2. path[a] # held[p][id]
    BY <1>5, <2>1 DEF CopyInv, LockInv, OpenedFor
  <2> QED
    BY <1>1, <1>5, <2>1, <2>2 DEF InUse, CopyInv, LockInv, LockTypes
<1>6. Freed'
  <2>1. ToFree(p) = {} /\ \A q \in Proc : q = p
    BY <1>1 DEF ToFree, CopyInv, FlowInv, InPhase, Creating, OneProcess
  <2> QED
    BY <1>1, <1>3, <1>4, <1>5, <2>1 DEF AloneInv, Freed
<1> QED
  BY <1>2, <1>3, <1>6, OnlyOwn

LEMMA AddAlone ==
    ASSUME CopyInv, AloneInv, OneProcess, NEW p \in Proc, AddGroup(p)
    PROVE  AloneInv'
<1> DEFINE res == AddInstanceGroup(db, group[p])
           new == Named(db, group[p])
<1>1. /\ new \in Groups /\ new.home = group[p].home
      /\ res.ok => GroupsOf(res.data) = GroupsOf(db) \cup {new}
  <2>1. db \in Seq(Groups) /\ group[p] \in Groups /\ Apart(db)
    BY DEF CopyInv, DataInv, DataTypes, GroupsDisjoint, Apart
  <2> QED
    BY <2>1, AddEffect
<1>2. pc[p] = "add" /\ cmd[p] = "create" /\ ToFree(p) = {} /\ UNCHANGED <<running, calls, kills>>
  BY DEF AddGroup, CopyInv, FlowInv, InPhase, Creating, ToFree
<1>3. CASE End(p) /\ UNCHANGED <<path, byte, db>>
  <2>1. Homes' /\ Records' /\ IdsOf(db)' = IdsOf(db)
    BY <1>2, <1>3, SameRecords
  <2> QED
    BY <1>2, <1>3, <2>1, EndAlone
<1>4. CASE /\ res.ok /\ db' = res.data /\ group' = [group EXCEPT ![p] = new]
           /\ Goto(p, "mark") /\ UNCHANGED <<path, byte, cmd>>
  <2> HIDE DEF res, new
  <2>1. GroupsOf(db)' = GroupsOf(db) \cup {new}
    <3>1. GroupsOf(db)' = GroupsOf(db')
      BY DEF GroupsOf
    <3> QED
      BY <1>1, <1>4, <3>1
  <2>2. pc'[p] = "mark" /\ group'[p] = new
    BY <1>4 DEF CopyInv, FlowInv, FlowTypes, DataInv, DataTypes, Goto
  <2>3. Own(p)'
    BY <1>1, <1>2, <1>4, <2>2, CreatingOwn DEF Creating
  <2>4. new.home = calls /\ calls \in Nat /\ \A id \in Id : <<new.home, id>> \notin running
    BY <1>1, <1>2 DEF AloneInv, NewHome, Creating, CopyInv, FlowInv, FlowTypes
  <2>5. ASSUME NEW x \in GroupsOf(db)' PROVE Recorded(x)'
    <3>1. CASE x \in GroupsOf(db)
      BY <1>2, <3>1 DEF AloneInv, Records, Recorded
    <3>2. CASE x = new
      BY <1>1, <1>2, <2>4, <3>2, GroupFields DEF Recorded
    <3> QED
      BY <2>1, <3>1, <3>2
  <2>6. Records'
    BY <2>5 DEF Records
  <2>7. Homes'
    BY <1>2, <2>1, <2>4 DEF AloneInv, Homes
  <2>8. IdsOf(db) \subseteq IdsOf(db)'
    <3>1. /\ IdsOf(db) = UNION {GroupIds(x) : x \in GroupsOf(db)}
          /\ IdsOf(db)' = UNION {GroupIds(x) : x \in GroupsOf(db)'}
      BY DEF IdsOf
    <3> QED
      BY <2>1, <3>1
  <2>9. Freed'
    BY <1>2, <1>4, <2>8, SameUse, FreedStep DEF AloneInv
  <2> QED
    BY <2>3, <2>6, <2>7, <2>9, OnlyOwn
<1> QED
  BY <1>3, <1>4 DEF AddGroup, lockVars

(* The states a command records for all instances of its group.            *)
LEMMA RecordAlone ==
    ASSUME CopyInv, AloneInv, NEW p \in Proc, NEW s \in InstanceState, Record(p, s),
           pc[p] \in WithCopy, cmd[p] \notin {"clear", "reset"},
           s \in ActiveState \/ NoneRuns(group[p]), UNCHANGED <<running, calls>>
    PROVE  Homes' /\ Records' /\ IdsOf(db)' = IdsOf(db)
<1> DEFINE g == SetAllStates(group[p], s)
<1>1. g \in Groups /\ Same(g, group[p]) /\ \A id \in GroupIds(group[p]) : g.inst[id] = s
  BY SetAllStatesGroup DEF CopyInv, DataInv, DataTypes
<1>2. PICK h \in GroupsOf(db) :
         Same(h, group[p]) /\ GroupsOf(db)' = (GroupsOf(db) \ {h}) \cup {g}
  BY RecordCopy
<1> HIDE DEF g
<1>3. Recorded(g)
  BY <1>1 DEF Recorded, NoneRuns, Same
<1>4. Same(h, g)
  BY <1>1, <1>2 DEF Same
<1> QED
  BY <1>2, <1>3, <1>4, WrittenRecords

LEMMA CreateAlone ==
    ASSUME CopyInv, AloneInv, OneProcess, NEW p \in Proc, CreateStep(p)
    PROVE  AloneInv'
<1>1. CASE RepeatedId(p) \/ DirectoriesFail(p)
  <2>1. /\ End(p) /\ UNCHANGED <<path, byte, db, running, calls, kills>>
        /\ pc[p] \in Creating
    BY <1>1 DEF RepeatedId, DirectoriesFail, Creating
  <2>2. Homes' /\ Records' /\ IdsOf(db)' = IdsOf(db) /\ ToFree(p) = {}
    BY <2>1, SameRecords DEF ToFree, CopyInv, FlowInv, InPhase
  <2> QED
    BY <2>1, <2>2, EndAlone
<1>2. CASE OpenRequested(p) \/ OpenCandidate(p) \/ AcquireLock(p) \/ TryAcquireLock(p) \/ Build(p)
           \/ ReturnGroup(p)
  BY <1>2, LockFilesAlone
<1>3. CASE AddGroup(p)
  BY <1>3, AddAlone
<1>4. ASSUME NEW id \in Id, MarkInUse(p, id) PROVE AloneInv'
  BY <1>4, MarkAlone
<1>5. CASE RecordCreated(p)
  <2>1. PICK s \in {"STOPPED", "PREPARE_FAILED"} : Record(p, s)
    BY <1>5 DEF RecordCreated
  <2>2. /\ s \in InstanceState /\ pc[p] \in WithCopy /\ cmd[p] = "create"
        /\ End(p) /\ UNCHANGED <<path, byte, running, calls, kills>>
    BY <1>5 DEF RecordCreated, InstanceState, InactiveState, WithCopy, CopyInv, FlowInv, InPhase,
       Creating
  <2>3. NoneRuns(group[p])
    <3>1. GroupIds(group[p]) \subseteq Id
      BY GroupFields DEF CopyInv, DataInv, DataTypes
    <3> QED
      BY <1>5, <3>1 DEF RecordCreated, AloneInv, NewHome, Creating, NoneRuns
  <2>4. Homes' /\ Records' /\ IdsOf(db)' = IdsOf(db)
    BY <2>1, <2>2, <2>3, RecordAlone
  <2> QED
    BY <2>2, <2>4, EndAlone DEF ToFree
<1> QED
  BY <1>1, <1>2, <1>3, <1>4, <1>5 DEF CreateStep

(* A device that stop_cvd stopped does not run, and its state says so.     *)
LEMMA StopAlone ==
    ASSUME CopyInv, AloneInv, OneProcess, NEW p \in Proc, NEW clear \in BOOLEAN, StopCvd(p, clear)
    PROVE  AloneInv'
<1> DEFINE g == SetStates(group[p], todo[p], "STOPPED")
<1>1. /\ pc[p] = "stop" /\ pc'[p] = "stopped" /\ group'[p] = g
      /\ UNCHANGED <<path, byte, db, cmd, todo, victims, calls, kills>>
      /\ \/ running' = running \ Instances(group[p], todo[p])
         \/ running' = running \ Instances(group[p], GroupIds(group[p]))
      /\ todo[p] \subseteq Id
  BY DEF StopCvd, Goto, lockVars, CopyInv, FlowInv, FlowTypes, DataInv, DataTypes
<1>2. /\ Same(g, group[p])
      /\ \A id \in GroupIds(group[p]) : g.inst[id] = IF id \in todo[p] THEN "STOPPED" ELSE group[p].inst[id]
  <2>1. group[p] \in Groups /\ "STOPPED" \in InstanceState
    BY DEF CopyInv, DataInv, DataTypes, InstanceState, InactiveState
  <2> QED
    BY <2>1, SetStatesGroup
<1> HIDE DEF g
<1>3. \A id \in GroupIds(group[p]) \cap todo[p] : <<group[p].home, id>> \notin running'
  BY <1>1 DEF Instances
<1>4. running' \subseteq running
  BY <1>1
<1>5. Recorded(group[p]) => Recorded(group[p])'
  <2>1. ASSUME Recorded(group[p]), NEW id \in GroupIds(g), <<g.home, id>> \in running'
        PROVE  g.inst[id] \in ActiveState
    BY <1>2, <1>3, <1>4, <2>1 DEF Recorded, Same
  <2> QED
    BY <1>1, <2>1 DEF Recorded, GroupIds
<1>6. GroupIds(group[p])' = GroupIds(group[p])
  BY <1>1, <1>2 DEF Same, GroupIds
<1>7. todo[p] = GroupIds(group[p]) => NoneRuns(group[p])'
  BY <1>1, <1>2, <1>3, <1>6 DEF NoneRuns, Same
<1>8. Own(p)'
  <2>1. Stopping(p)'
    BY <1>1, <1>5, <1>6, <1>7 DEF AloneInv, Stopping
  <2> QED
    BY <1>1, <2>1 DEF Own, NewHome, Creating, Starting, Unlinking, CopyInv, FlowInv, InPhase
<1>9. \A id \in Id : InUse(id)' => InUse(id) /\ (id \in ToFree(p) => id \in ToFree(p)')
  BY <1>1 DEF InUse, ToFree, IdsOf, GroupsOf
<1> QED
  BY <1>1, <1>4, <1>8, <1>9, MoveAlone

LEMMA UpdateAlone ==
    ASSUME CopyInv, AloneInv, OneProcess, NEW p \in Proc, UpdateStopped(p)
    PROVE  AloneInv'
<1>1. /\ pc[p] = "stopped" /\ db' = UpdateInstanceGroup(db, group[p]).data
      /\ UNCHANGED <<path, byte, running, calls, kills>>
      /\ cmd[p] \in {"stop", "remove", "clear", "reset"}
  BY DEF UpdateStopped, lockVars, CopyInv, FlowInv, InPhase
<1>2. Homes' /\ Records' /\ IdsOf(db)' = IdsOf(db)
  <2>1. CASE cmd[p] \in {"clear", "reset"}
    <3>1. db' = db
      BY <1>1, <2>1, WriteEmpty DEF CopyInv, DataInv, Copied
    <3> QED
      BY <1>1, <3>1, SameRecords
  <2>2. CASE cmd[p] \in {"stop", "remove"}
    <3>1. group[p] \in Groups /\ Same(group[p], group[p]) /\ pc[p] \in WithCopy
      BY <1>1 DEF CopyInv, DataInv, DataTypes, Same, WithCopy
    <3>2. PICK h \in GroupsOf(db) :
             Same(h, group[p]) /\ GroupsOf(db)' = (GroupsOf(db) \ {h}) \cup {group[p]}
      BY <1>1, <2>2, <3>1, WriteCopy DEF CopyInv
    <3>3. Recorded(group[p])
      BY <1>1, <2>2 DEF AloneInv, Stopping
    <3> QED
      BY <1>1, <3>2, <3>3, WrittenRecords
  <2> QED
    BY <1>1, <2>1, <2>2
<1>3. CASE cmd[p] = "stop" /\ End(p)
  BY <1>1, <1>2, <1>3, EndAlone DEF ToFree
<1>4. CASE /\ cmd[p] # "stop" /\ Goto(p, "unlink") /\ UNCHANGED <<cmd, group, victims>>
           /\ todo' = [todo EXCEPT ![p] = GroupIds(group[p])]
  <2>1. pc'[p] = "unlink" /\ todo'[p] = GroupIds(group[p]) /\ todo[p] = GroupIds(group[p])
    BY <1>1, <1>4 DEF CopyInv, FlowInv, FlowTypes, Goto, AloneInv, Stopping
  <2>2. Freed'
    <3>1. ToFree(p)' = ToFree(p)
      BY <1>4, <2>1 DEF ToFree, IdsOf, GroupsOf
    <3> QED
      BY <1>1, <1>2, <3>1, SameUse, FreedStep DEF AloneInv
  <2>3. Own(p)'
    BY <1>1, <1>4, <2>1 DEF Own, NewHome, Creating, AloneInv, Stopping, Starting, Unlinking, NoneRuns,
       GroupIds
  <2> QED
    BY <1>2, <2>2, <2>3, OnlyOwn
<1> QED
  BY <1>3, <1>4 DEF UpdateStopped

LEMMA FailAlone ==
    ASSUME CopyInv, AloneInv, OneProcess, NEW p \in Proc, StopFails(p)
    PROVE  AloneInv'
<1>1. /\ pc[p] = "stop" /\ UNCHANGED <<path, byte, db, running, calls, kills>>
      /\ Homes' /\ Records' /\ IdsOf(db)' = IdsOf(db)
  <2>1. pc[p] = "stop" /\ UNCHANGED <<path, byte, db, running, calls, kills>>
    BY DEF StopFails, lockVars
  <2> QED
    BY <2>1, SameRecords
<1>2. CASE cmd[p] \in {"stop", "remove"} /\ End(p)
  BY <1>1, <1>2, EndAlone DEF ToFree
<1>3. CASE cmd[p] \in {"clear", "reset"} /\ Goto(p, "unlink") /\ UNCHANGED <<cmd, group, todo, victims>>
  <2>1. pc'[p] = "unlink"
    BY <1>3 DEF CopyInv, FlowInv, FlowTypes, Goto
  <2>2. Own(p)'
    BY <1>3, <2>1 DEF Own, NewHome, Creating, Stopping, Starting, Unlinking
  <2>3. \A id \in Id : InUse(id)' => InUse(id) /\ (id \in ToFree(p) => id \in ToFree(p)')
    BY <1>1, <1>3 DEF InUse, ToFree, IdsOf, GroupsOf
  <2> QED
    BY <1>1, <2>2, <2>3, MoveAlone
<1> QED
  BY <1>2, <1>3 DEF StopFails

(* The lock files of a group are gone before the group is.                 *)
LEMMA RemoveAlone ==
    ASSUME CopyInv, AloneInv, OneProcess, NEW p \in Proc,
           (\E id \in Id : RemoveLockFile(p, id)) \/ RemoveDirectory(p) \/ RemoveFromDb(p)
    PROVE  AloneInv'
<1>1. ASSUME NEW id \in Id, RemoveLockFile(p, id) PROVE AloneInv'
  <2>1. /\ pc[p] = "unlink" /\ id \in todo[p] /\ path' = [path EXCEPT ![id] = None]
        /\ todo'[p] = todo[p] \ {id}
        /\ UNCHANGED <<byte, db, running, cmd, pc, group, victims, calls, kills>>
    BY <1>1 DEF RemoveLockFile, CopyInv, FlowInv, FlowTypes
  <2>2. \A a \in Id : path'[a] = IF a = id THEN None ELSE path[a]
    BY <2>1 DEF CopyInv, LockInv, LockTypes
  <2>3. ASSUME NEW a \in Id, InUse(a)'
        PROVE  InUse(a) /\ (a \in ToFree(p) => a \in ToFree(p)')
    BY <2>1, <2>2, <2>3 DEF InUse, ToFree, IdsOf, GroupsOf
  <2>4. Unlinking(p)'
    <3>1. ASSUME cmd[p] = "remove", NEW a \in GroupIds(group[p]), a \notin todo'[p] PROVE path'[a] = None
      <4>1. a \in Id
        BY GroupFields DEF CopyInv, DataInv, DataTypes
      <4> QED
        BY <2>1, <2>2, <3>1, <4>1 DEF AloneInv, Unlinking
    <3> QED
      BY <2>1, <3>1 DEF Unlinking, GroupIds
  <2>5. Own(p)'
    BY <2>1, <2>4 DEF Own, NewHome, Creating, AloneInv, Stopping, Starting, NoneRuns, GroupIds
  <2> QED
    BY <2>1, <2>3, <2>5, MoveAlone
<1>2. CASE RemoveDirectory(p)
  <2>1. /\ pc[p] = "unlink" /\ todo[p] = {} /\ cmd[p] = "remove"
        /\ UNCHANGED <<path, byte, db, running, calls, kills>>
        /\ Homes' /\ Records' /\ IdsOf(db)' = IdsOf(db) /\ ToFree(p) = {}
    <3>1. /\ pc[p] = "unlink" /\ todo[p] = {} /\ cmd[p] = "remove"
          /\ UNCHANGED <<path, byte, db, running, calls, kills>>
      BY <1>2 DEF RemoveDirectory, lockVars
    <3> QED
      BY <3>1, SameRecords DEF ToFree
  <2>2. CASE End(p)
    BY <2>1, <2>2, EndAlone
  <2>3. CASE Goto(p, "remove_db") /\ UNCHANGED <<cmd, group, todo, victims>>
    <3>1. pc'[p] = "remove_db"
      BY <2>3 DEF CopyInv, FlowInv, FlowTypes, Goto
    <3>2. Own(p)'
      BY <2>1, <2>3, <3>1 DEF Own, NewHome, Creating, AloneInv, Stopping, Starting, Unlinking, NoneRuns,
         GroupIds
    <3> QED
      BY <2>1, <3>2, SameUse, MoveAlone
  <2> QED
    BY <1>2, <2>2, <2>3 DEF RemoveDirectory
<1>3. CASE RemoveFromDb(p)
  <2>1. /\ pc[p] = "remove_db" /\ cmd[p] = "remove" /\ todo[p] = {} /\ ToFree(p) = {}
        /\ End(p) /\ UNCHANGED <<path, byte, running, calls, kills>>
    BY <1>3 DEF RemoveFromDb, CopyInv, FlowInv, InPhase, AloneInv, Unlinking, ToFree
  <2>2. PICK h \in GroupsOf(db) : Same(h, group[p])
    BY <2>1 DEF CopyInv, DataInv, Copied, WithCopy
  <2>3. GroupsOf(db)' = GroupsOf(db) \ {h}
    <3>1. db \in Seq(Groups) /\ Apart(db) /\ h.name = group[p].name
      BY <2>2 DEF CopyInv, DataInv, DataTypes, GroupsDisjoint, Apart, Same
    <3>2. GroupsOf(db') = GroupsOf(db) \ {h}
      BY <1>3, <3>1, RemoveEffect DEF RemoveFromDb
    <3> QED
      BY <3>2 DEF GroupsOf
  <2>4. Homes' /\ Records'
    BY <2>1, <2>3 DEF AloneInv, Homes, Records, Recorded
  <2>5. Freed'
    <3>1. \A id \in GroupIds(h) : path[id] = None
      BY <2>1, <2>2 DEF AloneInv, Unlinking, Same
    <3>2. \A id \in IdsOf(db) : id \in IdsOf(db)' \/ path[id] = None
      <4>1. /\ IdsOf(db) = UNION {GroupIds(x) : x \in GroupsOf(db)}
            /\ IdsOf(db)' = UNION {GroupIds(x) : x \in GroupsOf(db)'}
        BY DEF IdsOf
      <4> QED
        BY <2>3, <3>1, <4>1
    <3>3. \A id \in Id : InUse(id)' => InUse(id) /\ path[id] # None
      BY <2>1 DEF InUse
    <3> QED
      BY <2>1, <3>2, <3>3, FreedStep DEF AloneInv
  <2>6. pc'[p] = "idle" /\ cmd'[p] = "none" /\ todo'[p] = {}
    BY <2>1 DEF CopyInv, FlowInv, FlowTypes, End, Goto
  <2>7. Own(p)'
    BY <2>6 DEF Own, NewHome, Stopping, Starting, Unlinking, Creating
  <2> QED
    BY <2>4, <2>5, <2>7, OnlyOwn
<1> QED
  BY <1>1, <1>2, <1>3

(* A group is recorded as starting before a device of it runs.             *)
LEMMA StartAlone ==
    ASSUME CopyInv, AloneInv, OneProcess, NEW p \in Proc,
           RecordStarting(p) \/ Launch(p) \/ LaunchFails(p) \/ DeletedLockFiles(p) \/ RecordStarted(p)
    PROVE  AloneInv'
<1>1. cmd[p] = "start" /\ ToFree(p) = {}
  BY DEF RecordStarting, Launch, LaunchFails, DeletedLockFiles, RecordStarted, CopyInv, FlowInv,
     InPhase, ToFree
<1>2. CASE RecordStarting(p)
  <2>1. pc[p] = "starting" /\ UNCHANGED <<path, byte, running, calls, kills>>
    BY <1>2 DEF RecordStarting, lockVars
  <2>2. CASE End(p) /\ UNCHANGED db
    <3>1. Homes' /\ Records' /\ IdsOf(db)' = IdsOf(db)
      BY <2>1, <2>2, SameRecords
    <3> QED
      BY <1>1, <2>1, <2>2, <3>1, EndAlone
  <2>3. CASE Record(p, "STARTING") /\ Goto(p, "launch") /\ UNCHANGED <<cmd, group, todo, victims>>
    <3>1. "STARTING" \in InstanceState /\ "STARTING" \in ActiveState /\ pc[p] \in WithCopy
      BY <2>1 DEF InstanceState, ActiveState, WithCopy
    <3>2. Homes' /\ Records' /\ IdsOf(db)' = IdsOf(db)
      BY <1>1, <2>1, <2>3, <3>1, RecordAlone
    <3>3. Freed'
      BY <1>1, <2>1, <3>2, SameUse, FreedStep DEF AloneInv
    <3>4. pc'[p] = "launch"
      BY <2>3 DEF CopyInv, FlowInv, FlowTypes, Goto
    <3> DEFINE g == SetAllStates(group[p], "STARTING")
    <3>5. g \in Groups /\ Same(g, group[p]) /\ \A id \in GroupIds(group[p]) : g.inst[id] = "STARTING"
      BY <3>1, SetAllStatesGroup DEF CopyInv, DataInv, DataTypes
    <3>6. PICK h \in GroupsOf(db) :
             Same(h, group[p]) /\ GroupsOf(db)' = (GroupsOf(db) \ {h}) \cup {g}
      BY <1>1, <2>3, <3>1, RecordCopy
    <3>7. ASSUME NEW x \in GroupsOf(db), Same(x, group[p]) PROVE x = h
      BY <3>6, <3>7 DEF Same, CopyInv, DataInv, GroupsDisjoint, GroupsOf
    <3> HIDE DEF g
    <3>8. ASSUME NEW x \in GroupsOf(db)', Same(x, group[p])
          PROVE  \A id \in GroupIds(x) : x.inst[id] \in ActiveState
      <4>1. x = g
        BY <3>6, <3>7, <3>8
      <4> QED
        BY <3>1, <3>5, <4>1 DEF Same
    <3>9. Own(p)'
      <4>1. Starting(p)'
        <5>1. NoneRuns(group[p])'
          BY <1>1, <2>1, <2>3 DEF AloneInv, Starting, NoneRuns, GroupIds
        <5>2. \A x : Same(x, group[p])' <=> Same(x, group[p])
          BY <2>3 DEF Same, GroupIds
        <5> QED
          BY <3>8, <5>1, <5>2 DEF Starting
      <4> QED
        BY <1>1, <2>3, <3>4, <4>1 DEF Own, NewHome, Creating, Stopping, Unlinking
    <3> QED
      BY <3>2, <3>3, <3>9, OnlyOwn
  <2> QED
    BY <1>2, <2>2, <2>3 DEF RecordStarting
<1>3. CASE Launch(p)
  <2>1. /\ pc[p] = "launch" /\ pc'[p] = "launched"
        /\ running' = running \cup Instances(group[p], GroupIds(group[p]))
        /\ UNCHANGED <<path, byte, db, cmd, group, todo, victims, calls, kills>>
    BY <1>3 DEF Launch, Goto, lockVars, CopyInv, FlowInv, FlowTypes
  <2>2. PICK h \in GroupsOf(db) : Same(h, group[p])
    BY <1>1, <2>1 DEF CopyInv, DataInv, Copied, WithCopy
  <2>3. /\ group[p].home \in Nat /\ group[p].home <= calls /\ GroupIds(group[p]) \subseteq Id
        /\ \A id : <<group[p].home, id>> \in running' => id \in GroupIds(group[p]) \/ <<group[p].home, id>> \in running
    <3>1. group[p].home \in Nat /\ GroupIds(group[p]) \subseteq Id
      BY GroupFields DEF CopyInv, DataInv, DataTypes
    <3>2. group[p].home <= calls
      BY <2>2 DEF AloneInv, Homes, Same
    <3> QED
      BY <2>1, <3>1, <3>2 DEF Instances
  <2>4. GroupsOf(db)' = GroupsOf(db) /\ IdsOf(db)' = IdsOf(db)
    BY <2>1 DEF GroupsOf, IdsOf
  <2>5. Homes'
    <3>1. running' \subseteq Nat \X Id
      BY <2>1, <2>3 DEF AloneInv, Homes, Instances
    <3>2. \A k \in Nat, id \in Id : <<k, id>> \in running' => k <= calls
      BY <2>1, <2>3 DEF AloneInv, Homes, Instances
    <3> QED
      BY <2>1, <2>4, <3>1, <3>2 DEF AloneInv, Homes
  <2>6. ASSUME NEW g \in GroupsOf(db) PROVE Recorded(g)'
    <3>1. CASE g.home = group[p].home
      <4>1. g = h
        BY <2>2, <3>1 DEF Same, CopyInv, DataInv, GroupsDisjoint, GroupsOf
      <4>2. \A id \in GroupIds(g) : g.inst[id] \in ActiveState
        BY <2>1, <2>2, <4>1 DEF AloneInv, Starting
      <4> QED
        BY <4>2 DEF Recorded
    <3>2. CASE g.home # group[p].home
      <4>1. \A id : <<g.home, id>> \in running' => <<g.home, id>> \in running
        BY <2>1, <3>2 DEF Instances
      <4> QED
        BY <4>1 DEF AloneInv, Records, Recorded
    <3> QED
      BY <3>1, <3>2
  <2>7. Records'
    BY <2>4, <2>6 DEF Records
  <2>8. Freed'
    BY <1>1, <2>1, <2>4, SameUse, FreedStep DEF AloneInv
  <2>9. Own(p)'
    BY <1>1, <2>1 DEF Own, NewHome, Creating, Stopping, Starting, Unlinking
  <2> QED
    BY <2>5, <2>7, <2>8, <2>9, OnlyOwn
<1>4. CASE LaunchFails(p) \/ DeletedLockFiles(p)
  <2>1. /\ pc[p] \in {"launch", "unlink"} /\ pc'[p] \in {"failed", "unlink"}
        /\ UNCHANGED <<path, byte, db, running, cmd, group, victims, calls, kills>>
    BY <1>4 DEF LaunchFails, DeletedLockFiles, Goto, lockVars, CopyInv, FlowInv, FlowTypes
  <2>2. Own(p)'
    <3>1. NoneRuns(group[p])'
      BY <1>1, <2>1 DEF AloneInv, Starting, NoneRuns, GroupIds
    <3> QED
      BY <1>1, <2>1, <3>1 DEF Own, NewHome, Creating, Stopping, Starting, Unlinking
  <2> QED
    BY <1>1, <2>1, <2>2, SameUse, MoveAlone
<1>5. CASE RecordStarted(p)
  <2>1. PICK s \in {"RUNNING", "BOOT_FAILED"} :
           Record(p, s) /\ (s = "RUNNING" \/ pc[p] = "failed")
    BY <1>5 DEF RecordStarted
  <2>2. /\ s \in InstanceState /\ pc[p] \in WithCopy /\ End(p)
        /\ UNCHANGED <<path, byte, running, calls, kills>>
    BY <1>5 DEF RecordStarted, InstanceState, ActiveState, InactiveState, WithCopy
  <2>3. s \in ActiveState \/ NoneRuns(group[p])
    BY <1>1, <2>1 DEF ActiveState, AloneInv, Starting
  <2>4. Homes' /\ Records' /\ IdsOf(db)' = IdsOf(db)
    BY <1>1, <2>1, <2>2, <2>3, RecordAlone
  <2> QED
    BY <1>1, <2>2, <2>4, EndAlone
<1> QED
  BY <1>2, <1>3, <1>4, <1>5

(* Every group that was taken out of the database has its turn.            *)
LEMMA ClearAlone ==
    ASSUME CopyInv, AloneInv, OneProcess, NEW p \in Proc,
           NextVictim(p) \/ ClearDone(p) \/ KillAll(p) \/ Killed(p)
    PROVE  AloneInv'
<1>1. CASE NextVictim(p)
  <2>1. /\ cmd[p] \in {"clear", "reset"} /\ todo[p] = {}
        /\ UNCHANGED <<path, byte, db, running, cmd, calls, kills>>
    BY <1>1 DEF NextVictim, lockVars, CopyInv, FlowInv, InPhase, AloneInv, Unlinking
  <2> DEFINE g == Head(victims[p])
  <2>2. /\ victims[p] \in Seq(Groups) /\ victims[p] # <<>> /\ g \in Groups
        /\ group'[p] = g /\ todo'[p] = GroupIds(g) /\ pc'[p] = StopOrUnlink(g)
        /\ victims'[p] = Tail(victims[p])
    BY <1>1 DEF NextVictim, Goto, CopyInv, FlowInv, FlowTypes, DataInv, DataTypes
  <2>3. GroupsOf(victims[p]) \subseteq {g} \cup GroupsOf(victims[p])'
    <3>1. ASSUME NEW k \in DOMAIN victims[p]
          PROVE  victims[p][k] = g \/ \E j \in DOMAIN victims'[p] : victims'[p][j] = victims[p][k]
      <4>1. /\ Tail(victims[p]) \in Seq(Groups) /\ Len(Tail(victims[p])) = Len(victims[p]) - 1
            /\ \A i \in 1..Len(Tail(victims[p])) : Tail(victims[p])[i] = victims[p][i + 1]
        BY <2>2, HeadTailProperties
      <4>2. k \in 1..Len(victims[p]) /\ Len(victims[p]) \in Nat
        BY <2>2, LenProperties
      <4>3. CASE k = 1
        BY <2>2, <4>3 DEF g
      <4>4. CASE k # 1
        <5>1. k - 1 \in 1..Len(Tail(victims[p])) /\ (k - 1) + 1 = k
          BY <4>1, <4>2, <4>4
        <5> QED
          BY <2>2, <4>1, <5>1
      <4> QED
        BY <4>3, <4>4
    <3> QED
      BY <3>1 DEF GroupsOf
  <2> HIDE DEF g
  <2>4. ASSUME NEW id \in ToFree(p) PROVE id \in ToFree(p)'
    <3>1. /\ ToFree(p) = UNION {GroupIds(x) : x \in GroupsOf(victims[p])}
          /\ ToFree(p)' = (UNION {GroupIds(x) : x \in GroupsOf(victims[p])'}) \cup GroupIds(g)
      BY <2>1, <2>2 DEF ToFree, IdsOf
    <3> QED
      BY <2>3, <2>4, <3>1
  <2>5. Own(p)'
    <3>1. pc'[p] \in {"stop", "unlink"} /\ GroupIds(group[p])' = GroupIds(g)
      BY <2>2 DEF StopOrUnlink, GroupIds
    <3> QED
      BY <2>1, <2>2, <3>1 DEF Own, NewHome, Creating, Stopping, Starting, Unlinking
  <2> QED
    BY <2>1, <2>4, <2>5, SameUse, MoveAlone
<1>2. CASE ClearDone(p)
  <2>1. /\ cmd[p] \in {"clear", "reset"} /\ todo[p] = {} /\ victims[p] = <<>>
        /\ UNCHANGED <<path, byte, db, running, calls, kills>>
    BY <1>2 DEF ClearDone, lockVars, CopyInv, FlowInv, InPhase, AloneInv, Unlinking
  <2>2. Homes' /\ Records' /\ IdsOf(db)' = IdsOf(db) /\ ToFree(p) = {}
    BY <2>1, SameRecords DEF ToFree, IdsOf, GroupsOf
  <2>3. CASE End(p)
    BY <2>1, <2>2, <2>3, EndAlone
  <2>4. CASE Goto(p, "kill_all") /\ UNCHANGED <<cmd, group, todo, victims>>
    <3>1. pc'[p] = "kill_all"
      BY <2>4 DEF CopyInv, FlowInv, FlowTypes, Goto
    <3>2. Own(p)'
      BY <2>1, <2>4, <3>1 DEF Own, NewHome, Creating, Stopping, Starting, Unlinking
    <3> QED
      BY <2>1, <2>2, <3>2, SameUse, MoveAlone
  <2> QED
    BY <1>2, <2>3, <2>4 DEF ClearDone
<1>3. CASE KillAll(p)
  <2>1. running' = {} /\ (\A id \in Id : path'[id] = None) /\ UNCHANGED <<db, calls, kills>> /\ End(p)
    BY <1>3 DEF KillAll
  <2>2. Homes' /\ Records' /\ Freed'
    BY <2>1, SameRecords DEF Freed, InUse
  <2>3. pc'[p] = "idle" /\ cmd'[p] = "none" /\ todo'[p] = {}
    BY <2>1 DEF CopyInv, FlowInv, FlowTypes, End, Goto
  <2>4. Own(p)'
    BY <2>3 DEF Own, NewHome, Stopping, Starting, Unlinking, Creating
  <2> QED
    BY <2>2, <2>4, OnlyOwn
<1>4. CASE Killed(p)
  <2>1. /\ UNCHANGED <<path, byte, db, running, calls>> /\ End(p) /\ kills' = kills + 1
        /\ kills \in Nat
    BY <1>4 DEF Killed, CopyInv, FlowInv, FlowTypes
  <2>2. Homes' /\ Records' /\ kills' # 0
    BY <2>1, SameRecords
  <2> QED
    BY <2>1, <2>2, EndAlone
<1> QED
  BY <1>1, <1>2, <1>3, <1>4

LEMMA AloneInvHolds == ASSUME OneProcess PROVE Spec => [](CopyInv /\ AloneInv)
<1>1. Orderly
  BY DEF Orderly
<1>2. Init => AloneInv
  <2> SUFFICES ASSUME Init PROVE AloneInv
    OBVIOUS
  <2>1. GroupsOf(db) = {}
    BY DEF Init, GroupsOf
  <2>2. Homes /\ Records /\ Freed
    BY <2>1 DEF Init, Homes, Records, Freed, InUse
  <2>3. \A p \in Proc : NewHome(p) /\ Stopping(p) /\ Starting(p) /\ Unlinking(p)
    BY DEF Init, NewHome, Creating, Stopping, Starting, Unlinking
  <2> QED
    BY <2>2, <2>3 DEF AloneInv
<1>3. ASSUME CopyInv, AloneInv, [Next]_vars PROVE AloneInv'
  <2>1. CASE Next
    <3>1. PICK p \in Proc : Call(p) \/ CreateStep(p) \/ OtherStep(p) \/ Killed(p)
      BY <2>1 DEF Next
    <3> QED
      BY <1>3, <3>1, CallAlone, CreateAlone, StopAlone, UpdateAlone, FailAlone, RemoveAlone,
         StartAlone, ClearAlone DEF OtherStep
  <2>2. CASE UNCHANGED vars
    <3>1. \A id \in Id : InUse(id)' <=> InUse(id)
      BY <2>2, SameUse DEF vars, lockVars
    <3>2. \A g : (Recorded(g) => Recorded(g)') /\ (NoneRuns(g) => NoneRuns(g)')
      BY <2>2 DEF vars, Recorded, NoneRuns
    <3>3. Homes' /\ Records' /\ IdsOf(db)' = IdsOf(db)
      BY <1>3, <2>2, SameRecords DEF vars
    <3>4. \A p \in Proc : ToFree(p)' = ToFree(p)
      BY <2>2 DEF vars, procVars, ToFree, IdsOf, GroupsOf
    <3>5. Freed'
      BY <1>3, <2>2, <3>1, <3>3, <3>4 DEF vars, AloneInv, Freed
    <3>6. ASSUME NEW p \in Proc PROVE NewHome(p)' /\ Stopping(p)' /\ Starting(p)' /\ Unlinking(p)'
      BY <1>3, <2>2 DEF vars, lockVars, procVars, AloneInv, NewHome, Stopping, Starting, Unlinking,
         Recorded, NoneRuns, Same, GroupIds, GroupsOf
    <3> QED
      BY <3>3, <3>5, <3>6 DEF AloneInv
  <2> QED
    BY <1>3, <2>1, <2>2
<1> QED
  BY <1>1, <1>2, <1>3, CopyInvHolds, PTL DEF Spec

(* When no command runs, a device that runs is recorded as active in its   *)
(* group, whatever failed or was killed before, as long as one process at  *)
(* a time works on the database.                                           *)
THEOREM RunningRecorded == ASSUME OneProcess PROVE Spec => []RunningIsRecorded
<1>1. AloneInv => RunningIsRecorded
  BY DEF AloneInv, Records, Recorded, RunningIsRecorded
<1> QED
  BY <1>1, AloneInvHolds, PTL

(* When no command runs and none was killed, an id that is marked in use   *)
(* belongs to a group in the database.                                     *)
THEOREM IdsNotLeaked == ASSUME OneProcess PROVE Spec => []NoLeakedIds
<1>1. CopyInv /\ AloneInv => NoLeakedIds
  <2> SUFFICES ASSUME CopyInv, AloneInv, Idle, kills = 0, NEW id \in Id, InUse(id)
               PROVE  \E g \in GroupsOf(db) : id \in GroupIds(g)
    BY DEF NoLeakedIds, InUse
  <2>1. \A p \in Proc : ToFree(p) = {}
    BY DEF Idle, ToFree, CopyInv, FlowInv, InPhase
  <2>2. id \in IdsOf(db)
    BY <2>1 DEF AloneInv, Freed
  <2> QED
    BY <2>2 DEF IdsOf
<1> QED
  BY <1>1, AloneInvHolds, PTL

(* cvd remove takes a group out of the database only when no device of it  *)
(* runs.                                                                   *)
THEOREM RemovalOfStopped == ASSUME OneProcess PROVE Spec => RemovalNeedsStopped
<1> DEFINE Act == \A p \in Proc : RemoveFromDb(p) =>
                     \A g \in GroupsOf(db) \ GroupsOf(db') : Instances(g, GroupIds(g)) \cap running = {}
<1>1. ASSUME CopyInv, AloneInv PROVE Act
  <2> SUFFICES ASSUME NEW p \in Proc, RemoveFromDb(p), NEW g \in GroupsOf(db), g \notin GroupsOf(db')
               PROVE  Instances(g, GroupIds(g)) \cap running = {}
    OBVIOUS
  <2>1. pc[p] = "remove_db" /\ cmd[p] = "remove"
    BY <1>1 DEF RemoveFromDb, CopyInv, FlowInv, InPhase
  <2>2. PICK h \in GroupsOf(db) : Same(h, group[p])
    BY <1>1, <2>1 DEF CopyInv, DataInv, Copied, WithCopy
  <2>3. GroupsOf(db') = GroupsOf(db) \ {h}
    <3>1. db \in Seq(Groups) /\ Apart(db) /\ h.name = group[p].name
      BY <1>1, <2>2 DEF CopyInv, DataInv, DataTypes, GroupsDisjoint, Apart, Same
    <3> QED
      BY <3>1, RemoveEffect DEF RemoveFromDb
  <2>4. NoneRuns(group[p])
    BY <1>1, <2>1 DEF AloneInv, Stopping
  <2> QED
    BY <2>2, <2>3, <2>4 DEF NoneRuns, Same, Instances
<1>2. CopyInv /\ AloneInv /\ [Next]_vars => [Act]_vars
  BY <1>1
<1> HIDE DEF Act
<1>3. Spec => [][Act]_vars
  BY <1>2, AloneInvHolds, PTL DEF Spec
<1> QED
  BY <1>3 DEF RemovalNeedsStopped, Act

-----------------------------------------------------------------------------
(* Waiting for instance locks *)

Holding == {"alloc", "flock", "try", "add", "mark"}

(* Explicit ids are still being locked.                                    *)
Requesting(p) == pc[p] = "flock" \/ (pc[p] = "alloc" /\ LeftToRequest(p))

(* Whoever opened or locked an inode did so for the same id.               *)
OneId ==
    \A p, q \in Proc : fd[p] # None =>
        /\ pc[p] \in {"flock", "try"}
        /\ fd[q] = fd[p] => cand[q] = cand[p]
        /\ \A b \in Id : held[q][b] = fd[p] => b = cand[p]

(* Locks are held by processes that create a group, and while these lock   *)
(* explicit ids they know of every lock they hold.  (Afterwards the lock   *)
(* file of an id they hold may have been unlinked and made anew, and they  *)
(* may lock that one too.)                                                 *)
Holds(p) ==
    /\ IsFiniteSet(HeldIds(p))
    /\ pc[p] \notin Holding => HeldIds(p) = {}
    /\ \A i \in Inode : holder[i] = p =>
          pc[p] \in Holding /\ (Requesting(p) => \E b \in Id : held[p][b] = i)

(* The ids in S are asked for before the place k.                          *)
Earlier(r, S, k) == \A b \in S : \E j \in 1..(k - 1) : r[j] = b

(* The ids held are asked for before the one that is next, and ids that    *)
(* cvd chooses come last.                                                  *)
InOrder(p) ==
    /\ pc[p] = "flock" => /\ cand[p] \notin HeldIds(p)
                          /\ \E k \in DOMAIN req[p] : /\ IsNextRequest(p, k) /\ cand[p] = req[p][k]
                                                     /\ Earlier(req[p], HeldIds(p), k)
    /\ pc[p] = "try" => ~LeftToRequest(p)
    /\ pc[p] = "alloc" => \A k \in DOMAIN req[p] :
                             IsNextRequest(p, k) => Earlier(req[p], HeldIds(p), k)

OrderInv == OneId /\ \A p \in Proc : Holds(p) /\ InOrder(p)

(* The places before k where an explicit id is asked for.                  *)
Asked(r, k) == {j \in 1..(k - 1) : r[j] # AutoId}

LEMMA AskedBefore ==
    ASSUME NEW r, NEW j \in Nat, NEW k \in Nat, j <= k
    PROVE  /\ IsFiniteSet(Asked(r, k)) /\ Cardinality(Asked(r, k)) \in Nat
           /\ Cardinality(Asked(r, j)) <= Cardinality(Asked(r, k))
<1>1. IsFiniteSet(1..(k - 1))
  BY FS_Interval
<1>2. Asked(r, k) \subseteq 1..(k - 1) /\ Asked(r, j) \subseteq Asked(r, k)
  BY DEF Asked
<1>3. IsFiniteSet(Asked(r, k))
  BY <1>1, <1>2, FS_Subset
<1> QED
  BY <1>2, <1>3, FS_Subset, FS_CardinalityType

LEMMA GreatestBelow ==
    ASSUME NEW n \in Nat, NEW S, S \subseteq 1..n, S # {}
    PROVE  \E m \in S : \A j \in S : j <= m
<1> DEFINE R == OpToRel(<, Nat)
           T == {n - j : j \in S}
<1>1. IsWellFoundedOn(R, Nat)
  BY NatLessThanWellFounded
<1>2. \A a, b \in Nat : a < b => <<a, b>> \in R
  BY DEF OpToRel
<1>3. T \subseteq Nat /\ T # {}
  OBVIOUS
<1> HIDE DEF R
<1>4. PICK d \in T : \A e \in T : ~(<<e, d>> \in R)
  <2> HIDE DEF T
  <2> QED
    BY <1>1, <1>3, WFMin
<1>5. PICK m \in S : d = n - m
  OBVIOUS
<1>6. ASSUME NEW j \in S PROVE j <= m
  <2>1. n - j \in T /\ n - j \in Nat /\ d \in Nat /\ j \in Nat /\ m \in Nat
    BY <1>3
  <2>2. ~(n - j < d)
    BY <1>2, <1>4, <2>1
  <2> QED
    BY <1>5, <2>1, <2>2
<1> QED
  BY <1>6

(* One place fewer is asked for before the last of them.                   *)
LEMMA LastAsked ==
    ASSUME NEW r, NEW k \in Nat, Asked(r, k) # {}
    PROVE  \E m \in Asked(r, k) : Cardinality(Asked(r, m)) = Cardinality(Asked(r, k)) - 1
<1>1. Asked(r, k) \subseteq 1..(k - 1)
  BY DEF Asked
<1>2. k - 1 \in Nat
  BY <1>1
<1>3. PICK m \in Asked(r, k) : \A j \in Asked(r, k) : j <= m
  BY <1>1, <1>2, GreatestBelow
<1>4. Asked(r, m) = Asked(r, k) \ {m}
  BY <1>1, <1>3 DEF Asked
<1> QED
  BY <1>3, <1>4, AskedBefore, FS_RemoveElement

(* What is true of the locks of the others stays so when they are left     *)
(* alone.                                                                  *)
OthersWait(p) ==
    \A q \in Proc \ {p} :
        /\ pc'[q] = pc[q] /\ req'[q] = req[q] /\ cand'[q] = cand[q] /\ fd'[q] = fd[q]
        /\ held'[q] = held[q]
        /\ \A i \in Inode : holder'[i] = q <=> holder[i] = q

LEMMA OthersOrder ==
    ASSUME OrderInv, NEW p \in Proc, OthersWait(p), NEW q \in Proc \ {p}
    PROVE  Holds(q)' /\ InOrder(q)'
<1>1. /\ pc'[q] = pc[q] /\ req'[q] = req[q] /\ cand'[q] = cand[q] /\ held'[q] = held[q]
      /\ \A i \in Inode : holder'[i] = q <=> holder[i] = q
  BY DEF OthersWait
<1>2. HeldIds(q)' = HeldIds(q)
  BY <1>1 DEF HeldIds
<1>3. \A k : IsNextRequest(q, k)' <=> IsNextRequest(q, k)
  BY <1>1, <1>2 DEF IsNextRequest
<1>4. LeftToRequest(q)' <=> LeftToRequest(q)
  BY <1>1, <1>3 DEF LeftToRequest
<1>5. Holds(q) /\ InOrder(q)
  BY DEF OrderInv
<1>6. Holds(q)'
  BY <1>1, <1>2, <1>4, <1>5 DEF Holds, Requesting
<1>7. InOrder(q)'
  BY <1>1, <1>2, <1>3, <1>4, <1>5 DEF InOrder
<1> QED
  BY <1>6, <1>7

(* Steps that leave the lock files alone.                                  *)
LEMMA LeaveOrder ==
    ASSUME OrderInv, LockInv, ReqInv, NEW p \in Proc, LeavesLocks(p), Proceeds(p)
    PROVE  OrderInv' /\ ReqInv'
<1>1. UNCHANGED <<holder, cand, fd, held>> /\ HeldIds(p)' = HeldIds(p)
  BY DEF LeavesLocks, HeldIds
<1>2. OthersWait(p)
  BY <1>1 DEF Proceeds, OthersWait, ReqInv
<1>3. ReqInv'
  BY DEF Proceeds, ReqInv, Creating, Pc
<1>4. pc[p] \notin {"flock", "try"} /\ pc'[p] \notin {"flock", "try"} /\ fd[p] = None
  BY DEF Proceeds, ReqInv, Creating, OrderInv, OneId
<1>5. OneId'
  BY <1>1, <1>2, <1>4 DEF OrderInv, OneId, OthersWait
<1>6. /\ IsFiniteSet(HeldIds(p)) /\ (pc[p] \notin Holding => HeldIds(p) = {})
      /\ \A i \in Inode : holder[i] = p => pc[p] \in Holding
  BY DEF OrderInv, Holds
<1>7. Holds(p)' /\ InOrder(p)'
  <2>1. CASE pc[p] = "idle" /\ pc'[p] = "alloc"
    <3>1. HeldIds(p)' = {} /\ \A i \in Inode : holder'[i] # p
      BY <1>1, <1>6, <2>1 DEF Holding
    <3> QED
      BY <1>1, <1>6, <2>1, <3>1 DEF Holds, InOrder, Earlier
  <2>2. CASE pc[p] \in {"alloc", "add"} /\ pc'[p] \in {"add", "mark"}
    BY <1>1, <1>6, <2>2 DEF Holds, InOrder, Requesting, Holding
  <2>3. CASE pc[p] \notin Creating /\ pc'[p] \notin Creating
    BY <1>1, <1>6, <2>3 DEF Holds, InOrder, Requesting, Holding, Creating
  <2>4. \/ pc[p] = "idle" /\ pc'[p] = "alloc"
        \/ pc[p] \in {"alloc", "add"} /\ pc'[p] \in {"add", "mark"}
        \/ pc[p] \notin Creating /\ pc'[p] \notin Creating
    BY DEF Proceeds, ReqInv
  <2> QED
    BY <2>1, <2>2, <2>3, <2>4
<1> QED
  BY <1>2, <1>3, <1>5, <1>7, OthersOrder DEF OrderInv

(* The end of a command, and the return of CreateInstanceGroup, give all   *)
(* its locks back.                                                         *)
LEMMA GiveBackOrder ==
    ASSUME OrderInv, LockInv, ReqInv, NEW p \in Proc,
           holder' = [i \in Inode |-> IF holder[i] = p THEN None ELSE holder[i]],
           held' = [held EXCEPT ![p] = NoLocks],
           NEW l \in Pc \ Holding, pc' = [pc EXCEPT ![p] = l],
           \A q \in Proc \ {p} : req'[q] = req[q] /\ cand'[q] = cand[q] /\ fd'[q] = fd[q],
           fd'[p] = None
    PROVE  OrderInv'
<1>1. pc'[p] = l /\ held'[p] = NoLocks
  BY DEF ReqInv, LockInv, LockTypes
<1>2. OthersWait(p)
  BY ConstAssumption DEF OthersWait, ReqInv, LockInv, LockTypes
<1>3. HeldIds(p)' = {}
  BY <1>1 DEF HeldIds, NoLocks
<1>4. \A i \in Inode : holder'[i] # p
  BY ConstAssumption
<1>5. Holds(p)' /\ InOrder(p)'
  BY <1>1, <1>3, <1>4, FS_EmptySet DEF Holds, InOrder, Holding
<1>6. OneId'
  <2>1. \A b \in Id : held'[p][b] = None
    BY <1>1 DEF NoLocks
  <2> QED
    BY <1>2, <2>1 DEF OrderInv, OneId, OthersWait
<1> QED
  BY <1>2, <1>5, <1>6, OthersOrder DEF OrderInv

(* A lock file is opened.                                                  *)
LEMMA OpenOrder ==
    ASSUME OrderInv, LockInv, ReqInv, NEW p \in Proc, NEW id \in Id, OpenLockFile(p, id),
           pc[p] = "alloc", NEW l \in {"flock", "try"}, pc' = [pc EXCEPT ![p] = l],
           cand' = [cand EXCEPT ![p] = id], UNCHANGED <<holder, held, req>>,
           l = "flock" => /\ \E k \in DOMAIN req[p] : IsNextRequest(p, k) /\ id = req[p][k]
                          /\ id \notin HeldIds(p),
           l = "try" => ~LeftToRequest(p)
    PROVE  OrderInv'
<1>1. PICK i \in Inode :
         /\ fd' = [fd EXCEPT ![p] = i] /\ path'[id] = i
         /\ \/ path[id] = i /\ path' = path /\ byte' = byte
            \/ /\ path[id] = None /\ Unused(i)
               /\ path' = [path EXCEPT ![id] = i] /\ byte' = [byte EXCEPT ![i] = "N"]
  BY OpenEffect DEF LockInv
<1>2. OthersWait(p) /\ pc'[p] = l /\ fd'[p] = i /\ cand'[p] = id
  BY <1>1 DEF OthersWait, ReqInv, LockInv, LockTypes
<1>3. i # None
  BY ConstAssumption
<1>4. ASSUME NEW q \in Proc
      PROVE  (q # p /\ fd[q] = i => cand[q] = id) /\ \A b \in Id : held[q][b] = i => b = id
  <2>1. CASE path[id] = i
    BY <1>3, <2>1 DEF LockInv, OpenedFor
  <2>2. CASE Unused(i)
    BY <2>2 DEF Unused
  <2> QED
    BY <1>1, <2>1, <2>2
<1>5. OneId'
  <2> SUFFICES ASSUME NEW q \in Proc, NEW s \in Proc, fd'[q] # None
               PROVE  /\ pc'[q] \in {"flock", "try"}
                      /\ fd'[s] = fd'[q] => cand'[s] = cand'[q]
                      /\ \A b \in Id : held'[s][b] = fd'[q] => b = cand'[q]
    BY DEF OneId
  <2>1. CASE q = p
    BY <1>2, <1>4, <2>1 DEF OthersWait
  <2>2. CASE q # p
    <3>1. /\ pc'[q] = pc[q] /\ fd'[q] = fd[q] /\ cand'[q] = cand[q]
      BY <1>2, <2>2 DEF OthersWait
    <3>2. fd'[s] = fd[q] => cand'[s] = cand[q]
      <4>1. CASE s = p
        BY <1>2, <1>4, <2>2, <4>1
      <4>2. CASE s # p
        BY <1>2, <3>1, <4>2 DEF OthersWait, OrderInv, OneId
      <4> QED
        BY <4>1, <4>2
    <3> QED
      BY <3>1, <3>2 DEF OrderInv, OneId
  <2> QED
    BY <2>1, <2>2
<1>6. HeldIds(p)' = HeldIds(p) /\ \A k : IsNextRequest(p, k)' <=> IsNextRequest(p, k)
  BY DEF HeldIds, IsNextRequest
<1>7. LeftToRequest(p)' <=> LeftToRequest(p)
  BY <1>6 DEF LeftToRequest
<1>8. Holds(p)'
  <2>1. Requesting(p)' => Requesting(p)
    BY <1>2, <1>7 DEF Requesting, LeftToRequest
  <2> QED
    BY <1>2, <1>6, <2>1 DEF OrderInv, Holds, Holding
<1>9. InOrder(p)'
  <2>1. CASE l = "flock"
    <3>1. PICK k \in DOMAIN req[p] : IsNextRequest(p, k) /\ id = req[p][k]
      BY <2>1
    <3>2. Earlier(req[p], HeldIds(p), k) /\ id \notin HeldIds(p)
      BY <2>1, <3>1 DEF OrderInv, InOrder
    <3> QED
      BY <1>2, <1>6, <2>1, <3>1, <3>2 DEF InOrder
  <2>2. CASE l = "try"
    BY <1>2, <1>7, <2>2 DEF InOrder
  <2> QED
    BY <2>1, <2>2
<1> QED
  BY <1>2, <1>5, <1>8, <1>9, OthersOrder DEF OrderInv

(* A lock is taken.                                                        *)
LEMMA LockOrder ==
    ASSUME OrderInv, LockInv, ReqInv, NEW p \in Proc,
           pc[p] \in {"flock", "try"}, holder[fd[p]] = None, Lock(p, cand[p], fd[p]),
           fd' = [fd EXCEPT ![p] = None], Goto(p, "alloc"), UNCHANGED req
    PROVE  OrderInv'
<1>1. /\ fd[p] \in Inode /\ fd[p] # None /\ cand[p] \in Id
      /\ \A q \in Proc : q # None
  BY ConstAssumption DEF LockInv, OpenedFor
<1>2. /\ holder' = [holder EXCEPT ![fd[p]] = p]
      /\ held' = [held EXCEPT ![p] = [held[p] EXCEPT ![cand[p]] = fd[p]]]
      /\ cand' = [cand EXCEPT ![p] = 1]
  BY DEF Lock
<1>3. /\ pc'[p] = "alloc" /\ fd'[p] = None
      /\ \A b \in Id : held'[p][b] = IF b = cand[p] THEN fd[p] ELSE held[p][b]
  BY <1>1, <1>2 DEF LockInv, LockTypes, ReqInv, Goto
<1>4. \A i \in Inode : holder'[i] = IF i = fd[p] THEN p ELSE holder[i]
  BY <1>1, <1>2 DEF LockInv, LockTypes
<1>5. OthersWait(p)
  BY <1>1, <1>2, <1>4 DEF OthersWait, LockInv, LockTypes, ReqInv, Goto
<1>6. OneId'
  <2> SUFFICES ASSUME NEW q \in Proc, NEW s \in Proc, fd'[q] # None
               PROVE  /\ pc'[q] \in {"flock", "try"}
                      /\ fd'[s] = fd'[q] => cand'[s] = cand'[q]
                      /\ \A b \in Id : held'[s][b] = fd'[q] => b = cand'[q]
    BY DEF OneId
  <2>1. q # p
    BY <1>3
  <2>2. pc'[q] = pc[q] /\ fd'[q] = fd[q] /\ cand'[q] = cand[q]
    BY <1>5, <2>1 DEF OthersWait
  <2>3. CASE s = p
    BY <1>3, <2>2, <2>3 DEF OrderInv, OneId
  <2>4. CASE s # p
    <3>1. fd'[s] = fd[s] /\ cand'[s] = cand[s] /\ held'[s] = held[s]
      BY <1>5, <2>4 DEF OthersWait
    <3> QED
      BY <2>2, <3>1 DEF OrderInv, OneId
  <2> QED
    BY <2>3, <2>4
<1>7. HeldIds(p)' = HeldIds(p) \cup {cand[p]} /\ IsFiniteSet(HeldIds(p))
  BY <1>1, <1>3 DEF HeldIds, OrderInv, Holds
<1>8. /\ IsFiniteSet(HeldIds(p)') /\ Cardinality(HeldIds(p)) \in Nat
      /\ Cardinality(HeldIds(p)') = IF cand[p] \in HeldIds(p) THEN Cardinality(HeldIds(p))
                                    ELSE Cardinality(HeldIds(p)) + 1
  BY <1>7, FS_AddElement, FS_CardinalityType
<1>9. /\ \A k : IsNextRequest(p, k) <=>
            req[p][k] # AutoId /\ Cardinality(Asked(req[p], k)) = Cardinality(HeldIds(p))
      /\ \A k : IsNextRequest(p, k)' <=>
            req[p][k] # AutoId /\ Cardinality(Asked(req[p], k)) = Cardinality(HeldIds(p)')
  BY DEF IsNextRequest, Asked
<1>10. /\ req[p] \in Requests /\ req[p] \in Seq(Id \cup {AutoId})
       /\ \A k \in DOMAIN req[p] : k \in Nat \ {0} /\ \A j \in 1..(k - 1) : j \in DOMAIN req[p]
  <2>1. req[p] \in Requests
    BY DEF ReqInv, Creating
  <2>2. req[p] \in Seq(Id \cup {AutoId})
    BY <2>1, ConstAssumption
  <2>3. DOMAIN req[p] = 1..Len(req[p]) /\ Len(req[p]) \in Nat
    BY <2>2
  <2> QED
    BY <2>1, <2>2, <2>3
<1>11. CASE pc[p] = "flock"
  <2>1. PICK k \in DOMAIN req[p] : /\ IsNextRequest(p, k) /\ cand[p] = req[p][k]
                                   /\ Earlier(req[p], HeldIds(p), k)
    BY <1>11 DEF OrderInv, InOrder
  <2>4. cand[p] \notin HeldIds(p)
    BY <1>11 DEF OrderInv, InOrder
  <2>5. ASSUME NEW n \in DOMAIN req[p], IsNextRequest(p, n)'
        PROVE  Earlier(req[p], HeldIds(p)', n)
    <3>1. /\ Cardinality(Asked(req[p], n)) = Cardinality(Asked(req[p], k)) + 1
          /\ Cardinality(Asked(req[p], k)) \in Nat
      <4>1. Cardinality(Asked(req[p], n)) = Cardinality(HeldIds(p)')
            /\ Cardinality(Asked(req[p], k)) = Cardinality(HeldIds(p))
        BY <1>9, <2>1, <2>5
      <4>2. Cardinality(HeldIds(p)') = Cardinality(HeldIds(p)) + 1
        BY <1>8, <2>4
      <4> QED
        BY <1>8, <4>1, <4>2
    <3>2. k < n
      <4>1. k \in Nat /\ n \in Nat
        BY <1>10
      <4>2. n <= k => Cardinality(Asked(req[p], n)) <= Cardinality(Asked(req[p], k))
        BY <4>1, AskedBefore
      <4> QED
        BY <3>1, <4>1, <4>2
    <3>3. k \in 1..(n - 1) /\ \A j \in 1..(k - 1) : j \in 1..(n - 1)
      BY <1>10, <3>2
    <3> QED
      BY <1>7, <2>1, <3>3 DEF Earlier
  <2>6. InOrder(p)'
    BY <1>3, <2>5 DEF InOrder
  <2>7. ASSUME NEW i \in Inode, holder'[i] = p PROVE \E b \in Id : held'[p][b] = i
    <3>1. CASE i = fd[p]
      BY <1>1, <1>3, <3>1
    <3>2. CASE i # fd[p]
      <4>1. holder[i] = p
        BY <1>4, <2>7, <3>2
      <4>2. PICK b \in Id : held[p][b] = i
        BY <1>11, <4>1 DEF OrderInv, Holds, Requesting
      <4>3. b \in HeldIds(p)
        BY <4>2, ConstAssumption DEF HeldIds
      <4> QED
        BY <1>3, <2>4, <4>2, <4>3
    <3> QED
      BY <3>1, <3>2
  <2>8. Holds(p)'
    BY <1>3, <1>8, <2>7 DEF Holds, Holding
  <2> QED
    BY <1>5, <1>6, <2>6, <2>8, OthersOrder DEF OrderInv
<1>12. CASE pc[p] = "try"
  <2>1. ASSUME NEW n \in DOMAIN req[p], IsNextRequest(p, n)' PROVE FALSE
    <3>1. \A k \in DOMAIN req[p] : ~IsNextRequest(p, k)
      BY <1>12 DEF OrderInv, InOrder, LeftToRequest
    <3>2. /\ cand[p] \notin HeldIds(p)
          /\ Cardinality(Asked(req[p], n)) = Cardinality(HeldIds(p)) + 1
      BY <1>8, <1>9, <2>1, <3>1
    <3>3. n \in Nat /\ Asked(req[p], n) # {}
      <4>1. Cardinality(Asked(req[p], n)) # 0
        BY <1>8, <3>2
      <4> QED
        BY <1>10, <4>1, FS_EmptySet
    <3>4. PICK m \in Asked(req[p], n) :
             Cardinality(Asked(req[p], m)) = Cardinality(Asked(req[p], n)) - 1
      BY <3>3, LastAsked
    <3>5. m \in DOMAIN req[p] /\ req[p][m] # AutoId
      BY <1>10, <3>4 DEF Asked
    <3>6. Cardinality(Asked(req[p], m)) = Cardinality(HeldIds(p))
      BY <1>8, <3>2, <3>4
    <3> QED
      BY <1>9, <3>1, <3>5, <3>6
  <2>2. ~LeftToRequest(p)'
    BY <2>1 DEF LeftToRequest
  <2>3. InOrder(p)'
    BY <1>3, <2>1 DEF InOrder
  <2>4. Holds(p)'
    BY <1>3, <1>8, <2>2 DEF Holds, Holding, Requesting
  <2> QED
    BY <1>5, <1>6, <2>3, <2>4, OthersOrder DEF OrderInv
<1> QED
  BY <1>11, <1>12

(* A lock that is not free, or of an id in use, is passed over.            *)
LEMMA PassOverOrder ==
    ASSUME OrderInv, LockInv, ReqInv, NEW p \in Proc, pc[p] = "try",
           cand' = [cand EXCEPT ![p] = cand[p] + 1], fd' = [fd EXCEPT ![p] = None],
           Goto(p, "alloc"), UNCHANGED <<holder, held, req>>
    PROVE  OrderInv'
<1>1. OthersWait(p) /\ pc'[p] = "alloc" /\ fd'[p] = None
  BY DEF OthersWait, LockInv, LockTypes, ReqInv, Goto
<1>2. OneId'
  BY <1>1 DEF OrderInv, OneId, OthersWait
<1>3. HeldIds(p)' = HeldIds(p) /\ \A k : IsNextRequest(p, k)' <=> IsNextRequest(p, k)
  BY DEF HeldIds, IsNextRequest
<1>4. ~LeftToRequest(p) /\ ~LeftToRequest(p)'
  BY <1>3 DEF LeftToRequest, OrderInv, InOrder
<1>5. InOrder(p)'
  BY <1>1, <1>4 DEF InOrder, LeftToRequest
<1>6. Holds(p)'
  BY <1>1, <1>3, <1>4 DEF OrderInv, Holds, Holding, Requesting
<1> QED
  BY <1>1, <1>2, <1>5, <1>6, OthersOrder DEF OrderInv

LEMMA SameOrder ==
    ASSUME OrderInv, UNCHANGED <<pc, req, cand, fd, held, holder>> PROVE OrderInv'
<1>1. \A p : HeldIds(p)' = HeldIds(p) /\ \A k : IsNextRequest(p, k)' <=> IsNextRequest(p, k)
  BY DEF HeldIds, IsNextRequest
<1>2. \A p : LeftToRequest(p)' <=> LeftToRequest(p)
  BY <1>1 DEF LeftToRequest
<1>3. OneId'
  BY DEF OrderInv, OneId
<1>4. ASSUME NEW p \in Proc PROVE Holds(p)'
  BY <1>1, <1>2 DEF OrderInv, Holds, Requesting
<1>5. ASSUME NEW p \in Proc PROVE InOrder(p)'
  BY <1>1, <1>2 DEF OrderInv, InOrder
<1> QED
  BY <1>3, <1>4, <1>5 DEF OrderInv

LEMMA StepReqInv ==
    ASSUME ReqInv, NEW p \in Proc, Ends(p) \/ OnLocks(p)
    PROVE  ReqInv'
<1>1. CASE Ends(p) \/ KillAll(p)
  BY <1>1 DEF Ends, KillAll, End, Goto, ReqInv, Creating, Pc
<1>2. CASE OpenRequested(p) \/ OpenCandidate(p)
  BY <1>2 DEF OpenRequested, OpenCandidate, Goto, ReqInv, Creating, Pc
<1>3. CASE AcquireLock(p) \/ TryAcquireLock(p)
  BY <1>3 DEF AcquireLock, TryAcquireLock, Goto, ReqInv, Creating, Pc
<1>4. CASE ReturnGroup(p)
  BY <1>4 DEF ReturnGroup, Goto, ReqInv, Creating, Pc
<1>5. CASE \E id \in Id : MarkInUse(p, id) \/ RemoveLockFile(p, id)
  BY <1>5 DEF MarkInUse, RemoveLockFile, CreateLocals, ReqInv
<1> QED
  BY <1>1, <1>2, <1>3, <1>4, <1>5 DEF OnLocks

LEMMA StepOrderInv ==
    ASSUME OrderInv, LockInv, ReqInv, NEW p \in Proc, Step(p)
    PROVE  OrderInv'
<1>1. CASE LeavesLocks(p) /\ Proceeds(p)
  BY <1>1, LeaveOrder
<1>2. CASE Ends(p) \/ KillAll(p)
  <2>1. /\ holder' = [i \in Inode |-> IF holder[i] = p THEN None ELSE holder[i]]
        /\ held' = [held EXCEPT ![p] = NoLocks] /\ pc' = [pc EXCEPT ![p] = "idle"]
        /\ req' = [req EXCEPT ![p] = <<>>] /\ cand' = [cand EXCEPT ![p] = 1]
        /\ fd' = [fd EXCEPT ![p] = None]
    BY <1>2 DEF Ends, KillAll, End, Goto
  <2>2. /\ \A q \in Proc \ {p} : req'[q] = req[q] /\ cand'[q] = cand[q] /\ fd'[q] = fd[q]
        /\ fd'[p] = None /\ "idle" \in Pc \ Holding
    BY <2>1 DEF LockInv, LockTypes, ReqInv, Pc, Holding
  <2> QED
    BY <2>1, <2>2, GiveBackOrder
<1>3. CASE ReturnGroup(p)
  <2>1. fd[p] = None
    BY <1>3 DEF ReturnGroup, OrderInv, OneId
  <2>2. "created" \in Pc \ Holding
    BY DEF Pc, Holding
  <2> QED
    BY <1>3, <2>1, <2>2, GiveBackOrder DEF ReturnGroup, Goto
<1>4. CASE OpenRequested(p)
  <2> DEFINE k == CHOOSE k \in DOMAIN req[p] : IsNextRequest(p, k)
  <2>1. k \in DOMAIN req[p] /\ IsNextRequest(p, k) /\ NextRequested(p) = req[p][k]
    BY <1>4 DEF OpenRequested, LeftToRequest, NextRequested
  <2> HIDE DEF k
  <2>2. NextRequested(p) \in Id
    BY <1>4, NextIsId DEF OpenRequested
  <2> QED
    BY <1>4, <2>1, <2>2, OpenOrder DEF OpenRequested, Goto
<1>5. CASE OpenCandidate(p)
  <2>1. cand' = [cand EXCEPT ![p] = cand[p]]
    BY <1>5 DEF OpenCandidate, LockInv, LockTypes
  <2> QED
    BY <1>5, <2>1, OpenOrder DEF OpenCandidate, Goto
<1>6. CASE AcquireLock(p)
  BY <1>6, LockOrder DEF AcquireLock
<1>7. CASE TryAcquireLock(p)
  <2>1. CASE holder[fd[p]] = None /\ byte[fd[p]] = "N"
    BY <1>7, <2>1, LockOrder DEF TryAcquireLock
  <2>2. CASE ~(holder[fd[p]] = None /\ byte[fd[p]] = "N")
    BY <1>7, <2>2, PassOverOrder DEF TryAcquireLock
  <2> QED
    BY <2>1, <2>2
<1>8. CASE \E id \in Id : MarkInUse(p, id) \/ RemoveLockFile(p, id)
  BY <1>8, SameOrder DEF MarkInUse, RemoveLockFile, CreateLocals
<1> QED
  BY <1>1, <1>2, <1>3, <1>4, <1>5, <1>6, <1>7, <1>8, StepKinds DEF OnLocks

(* Who waits for instance locks, for any requests, in any order of ids:    *)
(* a creation waits for another one, which waits for nobody or for an id   *)
(* its request names after the one it holds.  Hence a circle of waits      *)
(* needs requests that no order of the ids agrees with; for any number of  *)
(* processes, commands and kills, with lock files unlinked at any moment.  *)
THEOREM LocksWaitInRequestOrder == Spec => []WaitsInRequestOrder
<1>1. Init => LockInv /\ ReqInv /\ OrderInv
  <2> SUFFICES ASSUME Init PROVE LockInv /\ ReqInv /\ OrderInv
    OBVIOUS
  <2>1. LockInv /\ ReqInv
    BY InitCopyInv, FlowKnowsRequests DEF CopyInv
  <2>2. \A p \in Proc : HeldIds(p) = {}
    BY DEF Init, HeldIds, NoLocks
  <2>3. \A i \in Inode, p \in Proc : holder[i] # p
    BY ConstAssumption DEF Init
  <2>4. \A p \in Proc : Holds(p) /\ InOrder(p)
    BY <2>2, <2>3, FS_EmptySet DEF Init, Holds, InOrder
  <2>5. OneId
    BY DEF Init, OneId
  <2> QED
    BY <2>1, <2>4, <2>5 DEF OrderInv
<1>2. ASSUME LockInv, ReqInv, OrderInv, [Next]_vars PROVE LockInv' /\ ReqInv' /\ OrderInv'
  <2>1. CASE Next
    <3>1. PICK p \in Proc : Step(p)
      BY <2>1 DEF Next, Step
    <3>2. ReqInv'
      BY <1>2, <3>1, StepKinds, StepReqInv, LeaveOrder
    <3> QED
      BY <1>2, <3>1, <3>2, StepLockInv, StepOrderInv
  <2>2. CASE UNCHANGED vars
    <3>1. LockInv' /\ ReqInv'
      BY <1>2, <2>2 DEF vars, lockVars, procVars, LockInv, LockTypes, OnePath, OpenedFor, ReqInv
    <3> QED
      BY <1>2, <2>2, <3>1, SameOrder DEF vars, lockVars, procVars
  <2> QED
    BY <1>2, <2>1, <2>2
<1>3. LockInv /\ ReqInv /\ OrderInv => WaitsInRequestOrder
  <2> SUFFICES ASSUME LockInv, ReqInv, OrderInv, NEW p \in Proc, NEW q \in Proc, WaitsFor(p, q)
               PROVE  /\ p # q
                      /\ \/ pc[q] \in {"alloc", "try", "add", "mark"}
                         \/ pc[q] = "flock" /\ AsksBefore(q, cand[p], cand[q])
    BY DEF WaitsInRequestOrder
  <2>0. pc[p] = "flock" /\ holder[fd[p]] = q
    BY DEF WaitsFor
  <2>1. fd[p] \in Inode /\ fd[p] # None
    BY <2>0, ConstAssumption DEF LockInv, OpenedFor
  <2>2. pc[q] \in Holding /\ (Requesting(q) => \E b \in Id : held[q][b] = fd[p])
    BY <2>0, <2>1 DEF OrderInv, Holds
  <2>3. pc[q] = "flock" => cand[p] \in HeldIds(q)
    <3> SUFFICES ASSUME pc[q] = "flock" PROVE cand[p] \in HeldIds(q)
      OBVIOUS
    <3>1. PICK b \in Id : held[q][b] = fd[p]
      BY <2>2 DEF Requesting
    <3> QED
      BY <2>1, <3>1 DEF OrderInv, OneId, HeldIds
  <2>4. p # q
    BY <2>0, <2>3 DEF OrderInv, InOrder
  <2>5. ASSUME pc[q] = "flock" PROVE AsksBefore(q, cand[p], cand[q])
    <3>1. PICK k \in DOMAIN req[q] : cand[q] = req[q][k] /\ Earlier(req[q], HeldIds(q), k)
      BY <2>5 DEF OrderInv, InOrder
    <3>2. PICK j \in 1..(k - 1) : req[q][j] = cand[p]
      BY <2>3, <2>5, <3>1 DEF Earlier
    <3>3. DOMAIN req[q] = 1..Len(req[q]) /\ Len(req[q]) \in Nat
      <4>1. req[q] \in Seq(Id \cup {AutoId})
        BY <2>5, ConstAssumption DEF ReqInv, Creating
      <4> QED
        BY <4>1
    <3>4. j \in DOMAIN req[q] /\ j < k
      BY <3>1, <3>2, <3>3
    <3> QED
      BY <3>1, <3>2, <3>4 DEF AsksBefore
  <2> QED
    BY <2>2, <2>4, <2>5 DEF Holding
<1> QED
  BY <1>1, <1>2, <1>3, PTL DEF Spec
=============================================================================
