--------------------------- MODULE OperatorProofs ---------------------------
(***************************************************************************)
(* The pool of devices for every number of ids, controllers, devices and   *)
(* clients: the pool by itself keeps its invariants, and the operator with *)
(* its signalling clients implements the pool, so it keeps them too.  Then *)
(* the clients themselves: whom a device still knows, whom its end reaches. *)
(***************************************************************************)
EXTENDS Operator, TLAPS

(* A channel is made once: before that, it is not there.                   *)
ChannelsAreNew ==
    \A c \in Controllers, i \in Ids :
        /\ ctl[c] = "idle" \/ i \in asked[c] => regCh[c][i] = "none"
        /\ i \in devCh[c] => regCh[c][i] = "read"

(* Who announced an id will cancel it, or hears of its registration; only  *)
(* a controller that could not be answered leaves without doing so.        *)
AnnouncedIsInIdSet ==
    \A i \in Ids : pre[i] # None =>
        /\ i \in idSet[pre[i]]
        /\ ctl[pre[i]] # "idle"
        /\ ctl[pre[i]] = "gone" => pre[i] \in mute

(* Connections and registrations correspond in both directions.            *)
OneConnectionPerDevice ==
    /\ \A i \in Ids : devices[i] # None => name[devices[i]] = i /\ conn[devices[i]] \in Served
    /\ \A k \in Conns : conn[k] \in Served => name[k] \in Ids /\ devices[name[k]] = k

PoolInv ==
    /\ PoolTypeOK /\ AnnouncedOrTaken /\ ChannelsAreNew
    /\ AnnouncedIsInIdSet /\ OneConnectionPerDevice

(* The empty pool has the invariant.                                       *)
LEMMA InitPoolInv == PoolInit => PoolInv
<1> SUFFICES ASSUME PoolInit PROVE PoolInv
  OBVIOUS
<1> USE PoolAssumption DEF PoolInit
<1>1. PoolTypeOK
  BY DEF PoolTypeOK
<1>2. AnnouncedOrTaken /\ ChannelsAreNew /\ AnnouncedIsInIdSet /\ OneConnectionPerDevice
  BY DEF AnnouncedOrTaken, ChannelsAreNew, AnnouncedIsInIdSet, OneConnectionPerDevice, Served
<1> QED
  BY <1>1, <1>2 DEF PoolInv

(* Every step of a controller, of a device and of the operator's own       *)
(* goroutines keeps it.                                                    *)
LEMMA StepPoolInv == PoolInv /\ [PoolNext]_poolVars => PoolInv'
<1> SUFFICES ASSUME PoolInv, [PoolNext]_poolVars PROVE PoolInv'
  OBVIOUS
<1> USE PoolAssumption
    DEF PoolInv, PoolTypeOK, AnnouncedOrTaken, ChannelsAreNew, AnnouncedIsInIdSet,
        OneConnectionPerDevice, Served, connVars
<1>1. ASSUME NEW c \in Controllers,
             ControllerAsks(c) \/ HangUp(c) \/ SpeakAgain(c) \/ Respond(c) \/ CloseSeen(c)
             \/ ControllerGone(c)
      PROVE  PoolInv'
  <2>1. CASE ControllerAsks(c)
    BY <2>1 DEF ControllerAsks
  <2>2. CASE HangUp(c)
    BY <2>2 DEF HangUp
  <2>6. CASE SpeakAgain(c)
    BY <2>6 DEF SpeakAgain
  <2>3. CASE Respond(c)
    <3>1. CASE c \notin hungUp /\ ctl' = [ctl EXCEPT ![c] = "loop"] /\ UNCHANGED mute
      BY <2>3, <3>1 DEF Respond
    <3>2. CASE c \in hungUp /\ ctl' = [ctl EXCEPT ![c] = "gone"] /\ mute' = mute \cup {c}
      BY <2>3, <3>2 DEF Respond
    <3> QED
      BY <2>3, <3>1, <3>2 DEF Respond
  <2>4. CASE CloseSeen(c)
    BY <2>4 DEF CloseSeen
  <2>5. CASE ControllerGone(c)
    BY <2>5 DEF ControllerGone
  <2> QED
    BY <1>1, <2>1, <2>2, <2>3, <2>4, <2>5, <2>6
<1>2. ASSUME NEW c \in Controllers, NEW i \in Ids, PreRegister(c, i) PROVE PoolInv'
  <2>1. CASE pre[i] # None \/ devices[i] # None
    BY <1>2, <2>1 DEF PreRegister
  <2>2. CASE pre[i] = None /\ devices[i] = None
    <3>0. /\ pre' = [pre EXCEPT ![i] = c] /\ regCh' = [regCh EXCEPT ![c][i] = "open"]
          /\ idSet' = [idSet EXCEPT ![c] = @ \cup {i}]
          /\ asked' = [asked EXCEPT ![c] = @ \ {i}]
          /\ UNCHANGED <<devices, devMtx, ctl, devCh, hungUp, spoke, told, mute, conn, name, left>>
      BY <1>2, <2>2 DEF PreRegister
    <3>a. regCh' \in [Controllers -> [Ids -> {"none", "open", "true", "closed", "read"}]]
      BY <3>0
    <3>b. /\ pre' \in [Ids -> Controllers \cup {None}]
          /\ idSet' \in [Controllers -> SUBSET Ids]
          /\ asked' \in [Controllers -> SUBSET Ids]
      BY <3>0
    <3>1. PoolTypeOK'
      BY <3>0, <3>a, <3>b
    <3>2. AnnouncedOrTaken'
      BY <2>2, <3>0
    <3>4. AnnouncedIsInIdSet'
      BY <1>2, <2>2, <3>0 DEF PreRegister
    <3>5. OneConnectionPerDevice'
      BY <3>0
    <3>3. ChannelsAreNew'
      BY <1>2, <2>2 DEF PreRegister
    <3> QED
      BY <3>1, <3>2, <3>3, <3>4, <3>5
  <2> QED
    BY <2>1, <2>2
<1>3. ASSUME NEW c \in Controllers, NEW i \in Ids, PassOn(c, i) PROVE PoolInv'
  BY <1>3 DEF PassOn
<1>4. ASSUME NEW c \in Controllers, NEW i \in Ids, ReportRegistered(c, i) PROVE PoolInv'
  BY <1>4 DEF ReportRegistered
<1>5. ASSUME NEW c \in Controllers, NEW i \in Ids, CancelPreRegistration(c, i) PROVE PoolInv'
  BY <1>5 DEF CancelPreRegistration
<1>6. ASSUME NEW k \in Conns, NEW i \in Ids, Register(k, i) PROVE PoolInv'
  <2>1. CASE devices[i] # None
    <3>0. /\ conn' = [conn EXCEPT ![k] = "gone"] /\ conn[k] = "idle"
          /\ UNCHANGED <<pre, devices, regCh, name>>
          /\ UNCHANGED <<devMtx, ctl, asked, idSet, devCh, hungUp, spoke, told, mute, left>>
      BY <1>6, <2>1 DEF Register
    <3>1. PoolTypeOK'
      BY <3>0
    <3>2. AnnouncedOrTaken' /\ ChannelsAreNew' /\ AnnouncedIsInIdSet'
      BY <3>0
    <3>3. OneConnectionPerDevice'
      BY <3>0
    <3> QED
      BY <3>1, <3>2, <3>3
  <2>2. CASE devices[i] = None
    <3>0. /\ devices' = [devices EXCEPT ![i] = k] /\ pre' = [pre EXCEPT ![i] = None]
          /\ name' = [name EXCEPT ![k] = i] /\ conn' = [conn EXCEPT ![k] = "serving"]
          /\ UNCHANGED <<devMtx, ctl, asked, idSet, devCh, hungUp, spoke, told, mute, left>>
      BY <1>6, <2>2 DEF Register
    <3>1. ASSUME pre[i] = None PROVE PoolTypeOK' /\ AnnouncedOrTaken' /\ ChannelsAreNew'
      <4>1. regCh' = regCh
        BY <1>6, <2>2, <3>1 DEF Register
      <4>2. PoolTypeOK'
        BY <3>0, <4>1
      <4>3. AnnouncedOrTaken' /\ ChannelsAreNew'
        BY <3>0, <4>1
      <4> QED
        BY <4>2, <4>3
    <3>2. ASSUME pre[i] \in Controllers
          PROVE  PoolTypeOK' /\ AnnouncedOrTaken' /\ ChannelsAreNew'
      <4>1. regCh' = [regCh EXCEPT ![pre[i]][i] = "true"]
        BY <1>6, <2>2, <3>2 DEF Register
      <4>2. regCh' \in [Controllers -> [Ids -> {"none", "open", "true", "closed", "read"}]]
        BY <3>2, <4>1
      <4>3. PoolTypeOK'
        BY <3>0, <4>2
      <4>4. AnnouncedOrTaken'
        BY <3>0, <3>2, <4>1
      <4>5. ChannelsAreNew'
        BY <3>0, <3>2, <4>1
      <4> QED
        BY <4>3, <4>4, <4>5
    <3>3. AnnouncedIsInIdSet'
      BY <3>0
    <3>4. OneConnectionPerDevice'
      <4>1. conn[k] = "idle"
        BY <1>6 DEF Register
      <4>2. \A j \in Ids : devices'[j] = IF j = i THEN k ELSE devices[j]
        BY <3>0
      <4>3. \A l \in Conns : /\ name'[l] = IF l = k THEN i ELSE name[l]
                             /\ conn'[l] = IF l = k THEN "serving" ELSE conn[l]
        BY <3>0
      <4>4. ASSUME NEW j \in Ids, devices'[j] # None
            PROVE  name'[devices'[j]] = j /\ conn'[devices'[j]] \in Served
        <5>1. CASE j = i
          BY <4>2, <4>3, <5>1
        <5>2. CASE j # i
          BY <4>1, <4>2, <4>3, <4>4, <5>2
        <5> QED
          BY <5>1, <5>2
      <4>5. ASSUME NEW l \in Conns, conn'[l] \in Served
            PROVE  name'[l] \in Ids /\ devices'[name'[l]] = l
        <5>1. CASE l = k
          BY <4>2, <4>3, <5>1
        <5>2. CASE l # k
          BY <2>2, <4>2, <4>3, <4>5, <5>2
        <5> QED
          BY <5>1, <5>2
      <4> QED
        BY <4>4, <4>5
    <3> QED
      BY <3>1, <3>2, <3>3, <3>4
  <2> QED
    BY <2>1, <2>2
<1>7. ASSUME NEW k \in Conns, \/ DeviceHangsUp(k) \/ DeviceFails(k) \/ DeviceErrs(k) \/ ReplyError(k)
                              \/ UnregisterStarts(k) \/ ForwardStarts(k)
                              \/ \E to \in {"serving", "replying"} : ForwardEnds(k, to)
      PROVE  PoolInv'
  <2>1. ASSUME NEW to \in Served, conn[k] \in Served, ConnGoes(k, to) PROVE PoolInv'
    <3>1. \A l \in Conns : conn'[l] = IF l = k THEN to ELSE conn[l]
      BY <2>1 DEF ConnGoes
    <3>2. PoolTypeOK'
      BY <2>1 DEF ConnGoes
    <3>3. AnnouncedOrTaken' /\ ChannelsAreNew' /\ AnnouncedIsInIdSet'
      BY <2>1 DEF ConnGoes
    <3>4. OneConnectionPerDevice'
      BY <2>1, <3>1 DEF ConnGoes
    <3> QED
      BY <3>2, <3>3, <3>4
  <2>2. CASE UnregisterStarts(k)
    BY <2>2 DEF UnregisterStarts
  <2>3. CASE DeviceHangsUp(k)
    BY <2>3 DEF DeviceHangsUp
  <2>4. CASE \/ DeviceFails(k) \/ DeviceErrs(k) \/ ReplyError(k) \/ ForwardStarts(k)
            \/ \E to \in {"serving", "replying"} : ForwardEnds(k, to)
    <3>1. conn[k] \in Served /\ \E to \in Served : ConnGoes(k, to)
      BY <2>4 DEF DeviceFails, DeviceErrs, ReplyError, ForwardStarts, ForwardEnds
    <3> HIDE DEF PoolInv, Served
    <3> QED
      BY <2>1, <3>1
  <2> QED
    BY <1>7, <2>2, <2>3, <2>4
<1>8. ASSUME NEW k \in Conns, UnregisterEnds(k) PROVE PoolInv'
  BY <1>8 DEF UnregisterEnds
<1>9. CASE UNCHANGED poolVars
  BY <1>9 DEF poolVars
<1> HIDE DEF PoolInv, Served, connVars
<1> QED
  BY <1>1, <1>2, <1>3, <1>4, <1>5, <1>6, <1>7, <1>8, <1>9 DEF PoolNext, Controller, Peers

(* The pool keeps the invariant, whatever its users do.                    *)
LEMMA PoolInvHolds == PoolSpec => []PoolInv
<1> QED
  BY InitPoolInv, StepPoolInv, PTL DEF PoolSpec

(* Every step of the operator with its clients is one of the pool or       *)
(* leaves the pool alone: the handlers, the pumps and the notification of  *)
(* the clients change the pool only through its operations.                *)
THEOREM OperatorImplementsPool == Spec => PoolSpec
<1>1. Init => PoolInit
  BY DEF Init
<1>2. [Next]_vars => [PoolNext]_poolVars
  <2> SUFFICES ASSUME [Next]_vars PROVE [PoolNext]_poolVars
    OBVIOUS
  <2>1. CASE PeerStep
    BY <2>1 DEF PeerStep, PoolNext, Peers
  <2>2. ASSUME NEW c \in Controllers, ControlGoroutine(c) PROVE PoolNext
    BY <2>2 DEF ControlGoroutine, PoolNext
  <2>3. ASSUME NEW k \in Conns, DeviceGoroutine(k) PROVE [PoolNext]_poolVars
    <3>1. CASE DisconnectClients(k)
      BY <3>1 DEF DisconnectClients, PoolNext
    <3>2. CASE Unregister(k)
      BY <3>2 DEF Unregister, PoolNext
    <3>3. ASSUME NEW x, TellPolled(k, x) \/ TellSocket(k, x) PROVE UNCHANGED poolVars
      BY <3>3 DEF TellPolled, TellSocket
    <3>4. ASSUME NEW w, ToClientSends(k, w) PROVE PoolNext
      BY <3>4 DEF ToClientSends, PoolNext
    <3> QED
      BY <2>3, <3>1, <3>2, <3>3, <3>4 DEF DeviceGoroutine
  <2>4. ASSUME NEW x, GetDevice(x) \/ Handler(x) PROVE UNCHANGED poolVars
    BY <2>4 DEF GetDevice, Handler, NewConnection, NewConnectionRegisters, NewWsClient,
                ConnectRegisters, ConnectAssignsId, ConnectSendsInfo
  <2>5. ASSUME NEW w, \/ Forward(w) \/ ForwardRead(w) \/ ReadPump(w) \/ ReadPumpCloses(w)
                      \/ WriteMessage(w) \/ WritePumpEnds(w)
        PROVE  UNCHANGED poolVars
    BY <2>5 DEF Forward, ForwardRead, ReadPump, ReadPumpCloses, WriteMessage, WritePumpEnds
  <2>6. ASSUME NEW k \in Conns, NEW w, ToClient(k, w) PROVE PoolNext
    BY <2>6 DEF ToClient, PoolNext
  <2>7. CASE UNCHANGED vars
    BY <2>7 DEF vars
  <2> QED
    BY <2>1, <2>2, <2>3, <2>4, <2>5, <2>6, <2>7 DEF Next
<1> QED
  BY <1>1, <1>2, PTL DEF Spec, PoolSpec

(* An announced id is not taken and its channel is open, in every          *)
(* execution of the operator: neither Register nor CancelPreRegistration   *)
(* meets a closed channel.                                                 *)
THEOREM AnnouncedOrTakenHolds == Spec => []AnnouncedOrTaken
<1>1. PoolInv => AnnouncedOrTaken
  BY DEF PoolInv
<1> QED
  BY <1>1, OperatorImplementsPool, PoolInvHolds, PTL

(* No announcement outlives the controller that made it, if the controller *)
(* could be answered.                                                      *)
THEOREM AnnouncementsHaveOwnersHolds == Spec => []AnnouncementsHaveOwners
<1>1. PoolInv => AnnouncementsHaveOwners
  BY DEF PoolInv, AnnouncedIsInIdSet, AnnouncementsHaveOwners
<1> QED
  BY <1>1, OperatorImplementsPool, PoolInvHolds, PTL

(* A connection serves a device exactly while it is the one registered     *)
(* with the id: the unregistration of a device that left late never takes  *)
(* its successor away.                                                     *)
THEOREM RegisteredIsServedHolds == Spec => []RegisteredIsServed
<1>1. PoolInv => RegisteredIsServed
  BY PoolAssumption DEF PoolInv, PoolTypeOK, OneConnectionPerDevice, Served, RegisteredIsServed
<1> QED
  BY <1>1, OperatorImplementsPool, PoolInvHolds, PTL

-----------------------------------------------------------------------------
(* The clients *)

Registered == {"registered", "named", "answered"}

Connected == Served \ {"disconnecting"}

(* A handler that left its first line has a device, which was registered.  *)
KnownDevice ==
    \A x \in Client : handler[x] # "idle" => dev[x] \in Conns /\ conn[dev[x]] # "idle"

(* The pumps start before the registration, the id comes after it; a pump  *)
(* that ended in between knew no id.                                       *)
SocketLife ==
    \A w \in Sockets :
        /\ w \in hasId <=> handler[w] \in {"named", "answered"}
        /\ reader[w] # "none" => handler[w] \notin {"idle", "found"}
        /\ reader[w] = "ended" => w \in done
        /\ reader[w] \in {"closing", "ended"} /\ w \notin early =>
              w \in hasId /\ w \notin clients[dev[w]]

(* A web socket that is closed, or is about to be by its own readPump.     *)
Closed(x) == x \in Sockets /\ (x \in done \/ reader[x] = "closing")

(* Where a client that registered in time is, while its device comes to an *)
(* end: in the device's list, then in the copy that is worked off, and     *)
(* then told.                                                              *)
InListOrTold ==
    \A x \in Client : handler[x] \in Registered /\ x \notin late =>
        /\ conn[dev[x]] \in Connected => x \in clients[dev[x]] \/ Closed(x)
        /\ conn[dev[x]] = "disconnecting" =>
              x \in notify[dev[x]] \/ Closed(x) \/ x \notin polledSet \cup Sockets
        /\ conn[dev[x]] = "gone" => Closed(x) \/ x \notin polledSet \cup Sockets

ClientInv == TypeOK /\ KnownDevice /\ SocketLife /\ InListOrTold

(* With no client there is nothing to keep.                                *)
LEMMA InitClientInv == Init => ClientInv
<1> SUFFICES ASSUME Init PROVE ClientInv
  OBVIOUS
<1>1. PoolTypeOK
  BY InitPoolInv DEF Init, PoolInv
<1>2. TypeOK
  BY <1>1, OperatorAssumption DEF Init, TypeOK
<1>3. KnownDevice /\ SocketLife /\ InListOrTold
  BY DEF Init, KnownDevice, SocketLife, InListOrTold, Closed, Registered, Client
<1> QED
  BY <1>2, <1>3 DEF ClientInv

(* Connections to the device endpoint come and go, but are not             *)
(* unregistered by steps of the pool that leave the clients alone.         *)
ConnGoesOn ==
    \A k \in Conns : \/ conn'[k] = conn[k]
                     \/ conn[k] = "idle" /\ conn'[k] \in {"serving", "gone"}
                     \/ conn[k] \in Connected /\ conn'[k] \in Connected

(* What a step of the pool alone leaves of the clients' invariant: it      *)
(* turns no connection back, and the clients do not move.                  *)
LEMMA PoolStepClientInv ==
    ASSUME ClientInv, PoolTypeOK', UNCHANGED clientVars, ConnGoesOn
    PROVE  ClientInv'
<1> USE DEF ConnGoesOn, Connected, Served
<1>1. TypeOK'
  BY DEF ClientInv, TypeOK, clientVars, Client
<1>2. KnownDevice'
  BY DEF ClientInv, KnownDevice, clientVars, Client
<1>3. SocketLife'
  BY DEF ClientInv, SocketLife, clientVars
<1>4. InListOrTold'
  BY DEF ClientInv, KnownDevice, InListOrTold, Closed, clientVars, Client, Registered
<1> QED
  BY <1>1, <1>2, <1>3, <1>4 DEF ClientInv

(* A handler's registration with its device: in time, or noted as late.    *)
LEMMA RegisterStepClientInv ==
    ASSUME PoolInv, ClientInv, NEW x \in Client,
           \/ x \in Polled /\ NewConnectionRegisters(x)
           \/ x \in Sockets /\ ConnectRegisters(x)
    PROVE  ClientInv'
<1> USE OperatorAssumption DEF ClientInv, Client
<1> DEFINE k == dev[x]
<1>1. /\ handler[x] \in {"map", "pumping"} /\ clientsMtx[k] = None
      /\ clients' = [clients EXCEPT ![k] = @ \cup {x}]
      /\ late' = IF conn[k] \in {"disconnecting", "gone"} THEN late \cup {x} ELSE late
      /\ \/ handler' = [handler EXCEPT ![x] = "answered"] /\ mapMtx' = None /\ x \in Polled
         \/ handler' = [handler EXCEPT ![x] = "registered"] /\ mapMtx' = mapMtx /\ x \in Sockets
      /\ UNCHANGED <<poolVars, cast, clientsMtx, notify, polledSet, dev, reader, writer, wire,
                     queue, done, hasId, early>>
  BY DEF NewConnectionRegisters, ConnectRegisters, RegisterClient
<1>2. k \in Conns /\ conn[k] \in Served \cup {"gone"}
  BY <1>1 DEF KnownDevice, PoolInv, PoolTypeOK
<1>3. TypeOK'
  <2>1. PoolTypeOK'
    BY <1>1 DEF TypeOK, PoolTypeOK, poolVars, connVars
  <2>2. clients' \in [Conns -> SUBSET Client] /\ late' \subseteq Client
    BY <1>1, <1>2 DEF TypeOK
  <2>3. handler' \in [Client -> {"idle", "found", "map", "pumping", "registered", "named", "answered"}]
    BY <1>1 DEF TypeOK
  <2>4. mapMtx' \in Polled \cup {None}
    BY <1>1 DEF TypeOK
  <2> QED
    BY <1>1, <2>1, <2>2, <2>3, <2>4 DEF TypeOK
<1>4. KnownDevice'
  BY <1>1 DEF KnownDevice, TypeOK, poolVars, connVars
<1>5. SocketLife'
  BY <1>1, <1>2 DEF SocketLife, TypeOK, KnownDevice
<1>6. InListOrTold'
  BY <1>1, <1>2 DEF InListOrTold, Closed, Connected, TypeOK, KnownDevice, Registered, poolVars, connVars
<1> QED
  BY <1>3, <1>4, <1>5, <1>6

(* Every step of the handlers, the pumps and the device's goroutine.       *)
LEMMA StepClientInv == PoolInv /\ PoolInv' /\ ClientInv /\ [Next]_vars => ClientInv'
<1> SUFFICES ASSUME PoolInv, PoolInv', ClientInv, [Next]_vars PROVE ClientInv'
  OBVIOUS
<1> USE OperatorAssumption DEF ClientInv, Client
<1>0. PoolTypeOK'
  BY DEF PoolInv
<1>1. CASE PeerStep
  <2>1. ConnGoesOn
    <3>1. ASSUME NEW c, ControllerAsks(c) \/ HangUp(c) \/ SpeakAgain(c) PROVE conn' = conn
      BY <3>1 DEF ControllerAsks, HangUp, SpeakAgain, connVars
    <3>2. ASSUME NEW j \in Conns, DeviceFails(j) \/ DeviceErrs(j) \/ ReplyError(j) PROVE ConnGoesOn
      BY <3>2 DEF ConnGoesOn, Connected, Served, DeviceFails, DeviceErrs, ReplyError, ConnGoes,
                  PoolInv, PoolTypeOK
    <3>4. ASSUME NEW j \in Conns, DeviceHangsUp(j) PROVE conn' = conn
      BY <3>4 DEF DeviceHangsUp
    <3>3. ASSUME NEW j \in Conns, NEW i \in Ids, Register(j, i) PROVE ConnGoesOn
      BY <3>3 DEF ConnGoesOn, Register, PoolInv, PoolTypeOK
    <3> QED
      BY <1>1, <3>1, <3>2, <3>3, <3>4 DEF ConnGoesOn, PeerStep
  <2>2. UNCHANGED clientVars
    BY <1>1 DEF PeerStep
  <2> QED
    BY <1>0, <2>1, <2>2, PoolStepClientInv
<1>2. ASSUME NEW c \in Controllers, ControlGoroutine(c) PROVE ClientInv'
  <2>1. conn' = conn
    <3>1. UNCHANGED clientVars /\ Controller(c)
      BY <1>2 DEF ControlGoroutine
    <3>2. CASE Respond(c) \/ CloseSeen(c) \/ ControllerGone(c)
      BY <3>2 DEF Respond, CloseSeen, ControllerGone, connVars
    <3>3. ASSUME NEW i \in Ids, PreRegister(c, i) \/ PassOn(c, i) PROVE conn' = conn
      BY <3>3 DEF PreRegister, PassOn, connVars
    <3>4. ASSUME NEW i \in Ids, ReportRegistered(c, i) \/ CancelPreRegistration(c, i)
          PROVE  conn' = conn
      BY <3>4 DEF ReportRegistered, CancelPreRegistration, connVars
    <3> QED
      BY <3>1, <3>2, <3>3, <3>4 DEF Controller
  <2>2. UNCHANGED clientVars
    BY <1>2 DEF ControlGoroutine
  <2> QED
    BY <1>0, <2>1, <2>2, PoolStepClientInv DEF ConnGoesOn
<1>3. ASSUME NEW k \in Conns, DisconnectClients(k) PROVE ClientInv'
  <2> USE <1>3 DEF DisconnectClients, UnregisterStarts
  <2>1. TypeOK'
    BY <1>0 DEF TypeOK
  <2>2. KnownDevice'
    BY DEF KnownDevice, TypeOK, PoolTypeOK
  <2>3. SocketLife'
    BY DEF SocketLife
  <2>4. InListOrTold'
    BY DEF InListOrTold, Closed, Connected, Served, KnownDevice, TypeOK, PoolTypeOK, Registered
  <2> QED
    BY <2>1, <2>2, <2>3, <2>4
<1>4. ASSUME NEW k \in Conns, Unregister(k) PROVE ClientInv'
  <2> USE <1>4 DEF Unregister, UnregisterEnds
  <2>1. TypeOK'
    BY <1>0 DEF TypeOK
  <2>2. KnownDevice'
    BY DEF KnownDevice, TypeOK, PoolTypeOK
  <2>3. SocketLife'
    BY DEF SocketLife
  <2>4. InListOrTold'
    BY DEF InListOrTold, Closed, Connected, Served, KnownDevice, TypeOK, PoolTypeOK, Registered
  <2> QED
    BY <2>1, <2>2, <2>3, <2>4
<1>5. ASSUME NEW k \in Conns, NEW p \in Polled, TellPolled(k, p) PROVE ClientInv'
  <2> USE <1>5 DEF TellPolled
  <2>1. TypeOK'
    BY <1>0 DEF TypeOK
  <2>2. KnownDevice' /\ SocketLife'
    BY DEF KnownDevice, SocketLife, poolVars, connVars
  <2>3. InListOrTold'
    BY DEF InListOrTold, Closed, KnownDevice, TypeOK, Registered, poolVars, connVars
  <2> QED
    BY <2>1, <2>2, <2>3
<1>6. ASSUME NEW k \in Conns, NEW w \in Sockets, TellSocket(k, w) PROVE ClientInv'
  <2> USE <1>6 DEF TellSocket
  <2>1. queue' \in [Sockets -> 0..QueueSize]
    BY DEF Send, TypeOK
  <2>2. TypeOK'
    BY <1>0, <2>1 DEF TypeOK
  <2>3. KnownDevice' /\ SocketLife'
    BY DEF KnownDevice, SocketLife, poolVars, connVars
  <2>4. InListOrTold'
    BY DEF InListOrTold, Closed, KnownDevice, TypeOK, Registered, poolVars, connVars
  <2> QED
    BY <2>2, <2>3, <2>4
<1>7. ASSUME NEW x \in Client, GetDevice(x) PROVE ClientInv'
  <2> USE <1>7 DEF GetDevice
  <2>1. PICK i \in Ids : devices[i] # None /\ dev' = [dev EXCEPT ![x] = devices[i]]
    OBVIOUS
  <2>2. devices[i] \in Conns /\ conn[devices[i]] # "idle"
    <3>1. devices[i] \in Conns
      BY <2>1 DEF PoolInv, PoolTypeOK
    <3>2. conn[devices[i]] \in Served
      BY <2>1 DEF PoolInv, OneConnectionPerDevice
    <3> QED
      BY <3>1, <3>2 DEF Served
  <2>3. TypeOK'
    BY <1>0, <2>1, <2>2 DEF TypeOK
  <2>4. KnownDevice'
    BY <2>1, <2>2 DEF KnownDevice, TypeOK, poolVars, connVars
  <2>5. SocketLife'
    BY <2>1 DEF SocketLife, TypeOK
  <2>6. InListOrTold'
    BY <2>1 DEF InListOrTold, Closed, TypeOK, Registered, poolVars, connVars
  <2> QED
    BY <2>3, <2>4, <2>5, <2>6
<1>8. ASSUME NEW x \in Client, Handler(x) PROVE ClientInv'
  <2>1. CASE x \in Polled /\ NewConnection(x)
    BY <1>0, <2>1 DEF NewConnection, TypeOK, KnownDevice, SocketLife, InListOrTold, Closed,
                     Registered, poolVars, connVars
  <2>2. CASE x \in Polled /\ NewConnectionRegisters(x)
    BY <2>2, RegisterStepClientInv
  <2>3. CASE x \in Sockets /\ NewWsClient(x)
    <3> USE <2>3 DEF NewWsClient
    <3>1. TypeOK'
      BY <1>0 DEF TypeOK
    <3>2. KnownDevice' /\ InListOrTold'
      BY DEF KnownDevice, InListOrTold, Closed, TypeOK, Registered, poolVars, connVars
    <3>3. SocketLife'
      BY DEF SocketLife, TypeOK
    <3> QED
      BY <3>1, <3>2, <3>3
  <2>4. CASE x \in Sockets /\ ConnectRegisters(x)
    BY <2>4, RegisterStepClientInv
  <2>5. CASE x \in Sockets /\ ConnectAssignsId(x)
    <3> USE <2>5 DEF ConnectAssignsId
    <3>1. TypeOK'
      BY <1>0 DEF TypeOK
    <3>2. KnownDevice' /\ InListOrTold'
      BY DEF KnownDevice, InListOrTold, Closed, TypeOK, Registered, poolVars, connVars
    <3>3. SocketLife'
      BY DEF SocketLife, TypeOK
    <3> QED
      BY <3>1, <3>2, <3>3
  <2>6. CASE x \in Sockets /\ ConnectSendsInfo(x)
    <3> USE <2>6 DEF ConnectSendsInfo
    <3>0. queue' \in [Sockets -> 0..QueueSize]
      BY DEF Send, TypeOK
    <3>1. TypeOK'
      BY <1>0, <3>0 DEF TypeOK
    <3>2. KnownDevice' /\ InListOrTold'
      BY DEF KnownDevice, InListOrTold, Closed, TypeOK, Registered, poolVars, connVars
    <3>3. SocketLife'
      BY DEF SocketLife, TypeOK
    <3> QED
      BY <3>1, <3>2, <3>3
  <2> QED
    BY <1>8, <2>1, <2>2, <2>3, <2>4, <2>5, <2>6 DEF Handler
<1>9. ASSUME NEW w \in Sockets, ReadPump(w) PROVE ClientInv'
  <2> USE <1>9 DEF ReadPump, SendFails
  <2>1. dev[w] \in Conns
    BY DEF SocketLife, KnownDevice
  <2>2. TypeOK'
    BY <1>0, <2>1 DEF TypeOK
  <2>3. KnownDevice'
    BY DEF KnownDevice, poolVars, connVars
  <2>4. SocketLife'
    BY <2>1 DEF SocketLife, TypeOK
  <2>5. InListOrTold'
    <3>1. Closed(w)' /\ \A x \in Client : x # w /\ Closed(x) => Closed(x)'
      BY DEF Closed, TypeOK
    <3>2. \A x \in Client : x # w => \A k \in Conns : x \in clients[k] => x \in clients'[k]
      BY <2>1 DEF TypeOK
    <3> QED
      BY <2>1, <3>1, <3>2 DEF InListOrTold, KnownDevice, Registered, poolVars, connVars
  <2> QED
    BY <2>2, <2>3, <2>4, <2>5
<1>12. ASSUME NEW w \in Sockets, Forward(w) \/ ForwardRead(w) \/ ReadPumpCloses(w) PROVE ClientInv'
  <2>1. \/ /\ reader[w] \in {"running", "sending"} /\ done' = done
           /\ \E l \in {"running", "sending"} : reader' = [reader EXCEPT ![w] = l]
        \/ /\ reader[w] = "closing" /\ done' = done \cup {w}
           /\ reader' = [reader EXCEPT ![w] = "ended"]
    BY <1>12 DEF Forward, ForwardRead, ReadPumpCloses
  <2>2. UNCHANGED <<poolVars, cast, clients, clientsMtx, notify, mapMtx, polledSet, dev, handler,
                    writer, wire, queue, hasId, late, early>>
    BY <1>12 DEF Forward, ForwardRead, ReadPumpCloses
  <2>3. TypeOK'
    BY <1>0, <2>1, <2>2 DEF TypeOK
  <2>4. KnownDevice'
    BY <2>2 DEF KnownDevice, poolVars, connVars
  <2>5. SocketLife'
    BY <2>1, <2>2 DEF SocketLife, TypeOK
  <2>6. \A x \in Client : Closed(x) => Closed(x)'
    BY <2>1 DEF Closed, TypeOK
  <2>7. InListOrTold'
    BY <2>2, <2>6 DEF InListOrTold, poolVars, connVars
  <2> QED
    BY <2>3, <2>4, <2>5, <2>7
<1>10. ASSUME NEW w \in Sockets, WriteMessage(w) \/ WritePumpEnds(w) PROVE ClientInv'
  <2>1. /\ queue' \in [Sockets -> 0..QueueSize]
        /\ writer' \in [Sockets -> {"none", "running", "ended"}] /\ wire' \subseteq Sockets
        /\ UNCHANGED <<poolVars, cast, clients, clientsMtx, notify, mapMtx, polledSet, dev,
                       handler, reader, done, hasId, late, early>>
    BY <1>10 DEF WriteMessage, WritePumpEnds, TypeOK
  <2>2. TypeOK'
    BY <1>0, <2>1 DEF TypeOK
  <2>3. KnownDevice' /\ SocketLife' /\ InListOrTold'
    BY <2>1 DEF KnownDevice, SocketLife, InListOrTold, Closed, poolVars, connVars
  <2> QED
    BY <2>2, <2>3
<1>13. ASSUME NEW k \in Conns, NEW w \in Sockets, ToClient(k, w) \/ ToClientSends(k, w)
       PROVE  ClientInv'
  <2>1. /\ conn[k] \in Connected /\ \E to \in Connected : conn' = [conn EXCEPT ![k] = to]
        /\ \E S \in SUBSET Client : notify' = [notify EXCEPT ![k] = S]
        /\ queue' \in [Sockets -> 0..QueueSize]
    BY <1>13 DEF ToClient, ToClientSends, ForwardStarts, ForwardEnds, ConnGoes, Send, TypeOK,
                 Connected, Served
  <2>2. UNCHANGED <<cast, clients, clientsMtx, mapMtx, polledSet, dev, handler, reader, writer,
                    wire, done, hasId, late, early>>
    BY <1>13 DEF ToClient, ToClientSends
  <2>3. \A l \in Conns : IF l = k THEN conn'[l] \in Connected
                         ELSE conn'[l] = conn[l] /\ notify'[l] = notify[l]
    BY <2>1 DEF TypeOK, PoolTypeOK
  <2>4. TypeOK'
    BY <1>0, <2>1, <2>2 DEF TypeOK
  <2>5. KnownDevice'
    BY <2>2, <2>3 DEF KnownDevice, Connected, Served
  <2>6. SocketLife'
    BY <2>2 DEF SocketLife
  <2>7. InListOrTold'
    BY <2>1, <2>2, <2>3 DEF InListOrTold, Closed, KnownDevice, Registered, Connected, Served
  <2> QED
    BY <2>4, <2>5, <2>6, <2>7
<1>11. CASE UNCHANGED vars
  BY <1>0, <1>11, PoolStepClientInv DEF ConnGoesOn, vars, poolVars, connVars, clientVars
<1> QED
  BY <1>1, <1>2, <1>3, <1>4, <1>5, <1>6, <1>7, <1>8, <1>9, <1>10, <1>11, <1>12, <1>13
     DEF Next, DeviceGoroutine

(* The operator keeps the invariant of its clients.                        *)
LEMMA ClientInvHolds == Spec => []ClientInv
<1> QED
  BY InitClientInv, StepClientInv, OperatorImplementsPool, PoolInvHolds, PTL DEF Spec

(* The operator's state has its type in every execution.                   *)
THEOREM OperatorTypeOK == Spec => []TypeOK
<1>1. ClientInv => TypeOK
  BY DEF ClientInv
<1> QED
  BY <1>1, ClientInvHolds, PTL

(* The end of a device reaches every client that registered with it before *)
(* DisconnectClients copied the list, however many clients there are: it   *)
(* is told, or its own readPump has unregistered it and goes on to close   *)
(* it.                                                                     *)
THEOREM LeftBehindWereLateHolds == Spec => []LeftBehindWereLate
<1>1. ASSUME ClientInv PROVE LeftBehindWereLate
  <2>1. \A x \in Sockets : x \notin polledSet
    BY <1>1, OperatorAssumption DEF ClientInv, TypeOK
  <2>2. ASSUME NEW x \in Client, dev[x] # None, conn[dev[x]] = "gone",
               handler[x] \in Registered, x \notin late
        PROVE  Closed(x) \/ x \notin polledSet \cup Sockets
    BY <1>1, <2>2 DEF ClientInv, InListOrTold
  <2> QED
    BY <2>1, <2>2 DEF Closed, Registered, LeftBehindWereLate
<1> QED
  BY <1>1, ClientInvHolds, PTL

(* A device forgets a web socket when its readPump ends, unless the pump   *)
(* ended before the id was assigned.                                       *)
THEOREM ClosedMeansForgottenHolds == Spec => []ClosedMeansForgotten
<1>1. ClientInv => ClosedMeansForgotten
  BY DEF ClientInv, SocketLife, ClosedMeansForgotten
<1> QED
  BY <1>1, ClientInvHolds, PTL

-----------------------------------------------------------------------------
(* Who waits for whom *)

(* Unregister keeps devicesMtx exactly while it tells the clients.         *)
PoolLock == \A k \in Conns : conn[k] = "disconnecting" <=> devMtx = k

(* Nobody keeps clientsMtx while it waits, and mapMtx is kept only to      *)
(* register the client that was just made.                                 *)
ClientLocks ==
    /\ \A k \in Conns : clientsMtx[k] = None
    /\ mapMtx # None => handler[mapMtx] = "map"

(* The pumps of a web socket run from before its registration; when        *)
(* writePump ends it closes the connection, which readPump notices.        *)
PumpsRun ==
    \A w \in Sockets : handler[w] \in Registered \cup {"pumping"} =>
        reader[w] # "none" /\ (writer[w] = "running" \/ w \notin wire)

OnlyRegistered ==
    \A k \in Conns : \A x \in clients[k] \cup notify[k] : handler[x] \in Registered /\ dev[x] = k

WaitInv == PoolLock /\ ClientLocks /\ PumpsRun /\ OnlyRegistered

(* Every other user of the pool waits while a device is unregistered.  The *)
(* goroutine that unregisters it waits in turn for mapMtx and for room in  *)
(* the channels of its web sockets, but never for somebody who waits for   *)
(* the pool: who keeps mapMtx has only clientsMtx to get, which is free,   *)
(* and a full channel is emptied by its writePump or, when that has ended, *)
(* given up by its readPump, which needs no more than clientsMtx either.   *)
(* The exception is a readPump that is in Device.Send: it waits for the    *)
(* very device that is being unregistered, if that is still connected and  *)
(* does not read.  Nothing but the device ends that wait.                  *)
PoolIsGivenBack ==
    devMtx # None =>
        /\ conn[devMtx] = "disconnecting"
        /\ mapMtx # None => handler[mapMtx] = "map" /\ clientsMtx[dev[mapMtx]] = None
        /\ \A w \in notify[devMtx] \cap Sockets :
              \/ w \in done \/ queue[w] < QueueSize \/ writer[w] = "running"
              \/ w \notin wire /\ \/ reader[w] = "closing"
                                  \/ reader[w] = "running" /\ clientsMtx[dev[w]] = None
                                  \/ SendFails(w) /\ clientsMtx[dev[w]] = None
              \/ reader[w] = "sending" /\ dev[w] = devMtx /\ devMtx \notin left

(* At the start nobody holds a lock and nobody is registered.              *)
LEMMA InitWaitInv == Init => WaitInv
<1> SUFFICES ASSUME Init PROVE WaitInv
  OBVIOUS
<1>1. PoolLock
  BY PoolAssumption DEF Init, PoolInit, PoolLock
<1>2. ClientLocks /\ OnlyRegistered
  BY DEF Init, ClientLocks, OnlyRegistered
<1>3. PumpsRun
  BY DEF Init, PumpsRun, Registered, Client
<1> QED
  BY <1>1, <1>2, <1>3 DEF WaitInv

(* A step of a handler takes its client one state on.                      *)
LEMMA HandlerStepWaitInv ==
  ASSUME ClientInv, WaitInv, NEW x \in Client, GetDevice(x) \/ Handler(x)
  PROVE  WaitInv'
<1> USE DEF ClientInv, TypeOK, WaitInv
<1>t. /\ handler \in [Client -> {"idle", "found", "map", "pumping", "registered", "named", "answered"}]
      /\ Polled \subseteq Client /\ Sockets \subseteq Client /\ Polled \cap Sockets = {}
      /\ None \notin Polled
  BY OperatorAssumption DEF Client
<1>1. PoolLock'
  <2>1. UNCHANGED poolVars
    BY DEF GetDevice, Handler, NewConnection, NewConnectionRegisters, NewWsClient,
           ConnectRegisters, ConnectAssignsId, ConnectSendsInfo
  <2> QED
    BY <2>1 DEF PoolLock, poolVars, connVars
<1>2. CASE GetDevice(x)
  <2>1. /\ handler[x] = "idle" /\ handler' = [handler EXCEPT ![x] = "found"]
        /\ \E k \in Conns \cup {None} : dev' = [dev EXCEPT ![x] = k]
        /\ UNCHANGED <<clients, clientsMtx, notify, mapMtx, reader, writer, wire>>
    BY <1>2 DEF GetDevice, PoolTypeOK
  <2>2. /\ handler'[x] = "found"
        /\ \A y \in Client : y # x => handler'[y] = handler[y] /\ dev'[y] = dev[y]
    BY <1>t, <2>1
  <2>3. ClientLocks'
    BY <1>t, <2>1, <2>2 DEF ClientLocks
  <2>4. PumpsRun'
    BY <1>t, <2>1, <2>2 DEF PumpsRun, Registered
  <2>5. OnlyRegistered'
    BY <1>t, <2>1, <2>2 DEF OnlyRegistered, Registered
  <2> QED
    BY <1>1, <2>3, <2>4, <2>5
<1>3. CASE x \in Polled /\ NewConnection(x)
  <2>1. /\ handler[x] = "found" /\ handler' = [handler EXCEPT ![x] = "map"] /\ mapMtx' = x
        /\ UNCHANGED <<clients, clientsMtx, notify, dev, reader, writer, wire>>
    BY <1>3 DEF NewConnection
  <2>2. handler'[x] = "map" /\ \A y \in Client : y # x => handler'[y] = handler[y]
    BY <1>t, <2>1
  <2>3. ClientLocks'
    BY <2>1, <2>2 DEF ClientLocks
  <2>4. PumpsRun'
    BY <1>t, <2>1, <2>2 DEF PumpsRun, Registered
  <2>5. OnlyRegistered'
    BY <1>t, <2>1, <2>2 DEF OnlyRegistered, Registered
  <2> QED
    BY <1>1, <2>3, <2>4, <2>5
<1>4. CASE (x \in Polled /\ NewConnectionRegisters(x)) \/ (x \in Sockets /\ ConnectRegisters(x))
  <2>1. /\ clients' = [clients EXCEPT ![dev[x]] = @ \cup {x}]
        /\ \E l \in Registered : handler' = [handler EXCEPT ![x] = l]
        /\ UNCHANGED <<clientsMtx, notify, dev, reader, writer, wire>>
    BY <1>4 DEF NewConnectionRegisters, ConnectRegisters, RegisterClient, Registered
  <2>2. handler'[x] \in Registered /\ \A y \in Client : y # x => handler'[y] = handler[y]
    BY <1>t, <2>1
  <2>3. ClientLocks'
    <3>1. CASE x \in Polled /\ NewConnectionRegisters(x)
      BY <2>1, <3>1 DEF NewConnectionRegisters, ClientLocks
    <3>2. CASE x \in Sockets /\ ConnectRegisters(x)
      BY <1>t, <2>1, <2>2, <3>2 DEF ConnectRegisters, ClientLocks
    <3> QED
      BY <1>4, <3>1, <3>2
  <2>4. PumpsRun'
    BY <1>4, <1>t, <2>1, <2>2 DEF ConnectRegisters, PumpsRun
  <2>5. \A k \in Conns : clients'[k] \subseteq clients[k] \cup (IF k = dev[x] THEN {x} ELSE {})
    BY <2>1
  <2>6. OnlyRegistered'
    BY <1>t, <2>1, <2>2, <2>5 DEF OnlyRegistered
  <2> QED
    BY <1>1, <2>3, <2>4, <2>6
<1>5. CASE x \in Sockets /\ NewWsClient(x)
  <2>1. /\ handler[x] = "found" /\ handler' = [handler EXCEPT ![x] = "pumping"]
        /\ reader' = [reader EXCEPT ![x] = "running"] /\ writer' = [writer EXCEPT ![x] = "running"]
        /\ wire' = wire \cup {x} /\ UNCHANGED <<clients, clientsMtx, notify, mapMtx, dev>>
    BY <1>5 DEF NewWsClient
  <2>2. handler'[x] = "pumping" /\ \A y \in Client : y # x => handler'[y] = handler[y]
    BY <1>t, <2>1
  <2>3. ClientLocks'
    BY <1>t, <1>5, <2>1, <2>2 DEF ClientLocks
  <2>4. /\ reader'[x] = "running" /\ writer'[x] = "running"
        /\ \A w \in Sockets : w # x => reader'[w] = reader[w] /\ writer'[w] = writer[w]
    BY <1>5, <2>1
  <2>5. PumpsRun'
    BY <1>t, <2>1, <2>2, <2>4 DEF PumpsRun
  <2>6. OnlyRegistered'
    BY <1>t, <2>1, <2>2 DEF OnlyRegistered, Registered
  <2> QED
    BY <1>1, <2>3, <2>5, <2>6
<1>6. CASE x \in Sockets /\ (ConnectAssignsId(x) \/ ConnectSendsInfo(x))
  <2>1. /\ handler[x] \in Registered /\ \E l \in Registered : handler' = [handler EXCEPT ![x] = l]
        /\ UNCHANGED <<clients, clientsMtx, notify, mapMtx, dev, reader, writer, wire>>
    BY <1>6 DEF ConnectAssignsId, ConnectSendsInfo, Registered
  <2>2. handler'[x] \in Registered /\ \A y \in Client : y # x => handler'[y] = handler[y]
    BY <1>t, <2>1
  <2>3. ClientLocks'
    BY <1>t, <1>6, <2>1, <2>2 DEF ClientLocks
  <2>4. PumpsRun'
    BY <1>t, <2>1, <2>2 DEF PumpsRun
  <2>5. OnlyRegistered'
    BY <1>t, <2>1, <2>2 DEF OnlyRegistered
  <2> QED
    BY <1>1, <2>3, <2>4, <2>5
<1> QED
  BY <1>2, <1>3, <1>4, <1>5, <1>6 DEF Handler

(* The steps of the pool, of a device's goroutine and of the pumps.        *)
LEMMA OtherStepWaitInv ==
  ASSUME PoolInv, ClientInv, WaitInv,
         \/ PeerStep \/ (\E c \in Controllers : ControlGoroutine(c))
         \/ (\E k \in Conns : DeviceGoroutine(k))
         \/ (\E w \in Sockets : \/ Forward(w) \/ ForwardRead(w) \/ ReadPump(w) \/ ReadPumpCloses(w)
                               \/ WriteMessage(w) \/ WritePumpEnds(w))
         \/ (\E k \in Conns, w \in Sockets : ToClient(k, w))
  PROVE  WaitInv'
<1> USE DEF ClientInv, TypeOK, WaitInv
<1>p. PoolTypeOK /\ None \notin Conns
  BY PoolAssumption DEF PoolInv
<1>1. ASSUME UNCHANGED clientVars, PoolLock' PROVE WaitInv'
  BY <1>1 DEF clientVars, ClientLocks, PumpsRun, OnlyRegistered
<1>2. CASE \E c \in Controllers : ControlGoroutine(c)
  <2>1. UNCHANGED clientVars /\ UNCHANGED <<conn, devMtx>>
    <3>1. UNCHANGED clientVars /\ \E c \in Controllers : Controller(c)
      BY <1>2 DEF ControlGoroutine
    <3>2. ASSUME NEW c \in Controllers, Respond(c) \/ CloseSeen(c) \/ ControllerGone(c)
          PROVE  UNCHANGED <<conn, devMtx>>
      BY <3>2 DEF Respond, CloseSeen, ControllerGone, connVars
    <3>3. ASSUME NEW c \in Controllers, NEW i \in Ids, PreRegister(c, i) \/ PassOn(c, i)
          PROVE  UNCHANGED <<conn, devMtx>>
      BY <3>3 DEF PreRegister, PassOn, connVars
    <3>4. ASSUME NEW c \in Controllers, NEW i \in Ids,
                 ReportRegistered(c, i) \/ CancelPreRegistration(c, i)
          PROVE  UNCHANGED <<conn, devMtx>>
      BY <3>4 DEF ReportRegistered, CancelPreRegistration, connVars
    <3> QED
      BY <3>1, <3>2, <3>3, <3>4 DEF Controller
  <2> QED
    BY <1>1, <2>1 DEF PoolLock
<1>3. CASE PeerStep
  <2>1. UNCHANGED clientVars /\ devMtx' = devMtx
    BY <1>3 DEF PeerStep, ControllerAsks, HangUp, SpeakAgain, DeviceHangsUp, DeviceFails, DeviceErrs,
                ReplyError, ConnGoes, Register
  <2>2. ASSUME NEW k \in Conns PROVE conn'[k] = "disconnecting" <=> conn[k] = "disconnecting"
    <3>1. \/ conn' = conn
          \/ \E l \in Conns : /\ conn[l] \in Connected \cup {"idle"}
                              /\ \E r \in Connected \cup {"gone"} : conn' = [conn EXCEPT ![l] = r]
      <4>1. ASSUME NEW c, ControllerAsks(c) \/ HangUp(c) \/ SpeakAgain(c) PROVE conn' = conn
        BY <4>1 DEF ControllerAsks, HangUp, SpeakAgain, connVars
      <4>2. ASSUME NEW l \in Conns, DeviceFails(l) \/ DeviceErrs(l) \/ ReplyError(l)
            PROVE  /\ conn[l] \in Connected
                   /\ \E r \in Connected : conn' = [conn EXCEPT ![l] = r]
        BY <4>2 DEF DeviceFails, DeviceErrs, ReplyError, ConnGoes, Connected, Served
      <4>3. ASSUME NEW l \in Conns, NEW i \in Ids, Register(l, i)
            PROVE  conn[l] = "idle" /\ \E r \in {"serving", "gone"} : conn' = [conn EXCEPT ![l] = r]
        BY <4>3 DEF Register
      <4>4. ASSUME NEW l \in Conns, DeviceHangsUp(l) PROVE conn' = conn
        BY <4>4 DEF DeviceHangsUp
      <4>5. "serving" \in Connected
        BY DEF Connected, Served
      <4>6. \/ \E c \in Controllers : ControllerAsks(c) \/ HangUp(c) \/ SpeakAgain(c)
            \/ \E l \in Conns : DeviceHangsUp(l)
            \/ \E l \in Conns : DeviceFails(l) \/ DeviceErrs(l) \/ ReplyError(l)
            \/ \E l \in Conns, i \in Ids : Register(l, i)
        BY <1>3 DEF PeerStep
      <4>7. CASE \E l \in Conns : DeviceFails(l) \/ DeviceErrs(l) \/ ReplyError(l)
        BY <4>2, <4>7
      <4>8. CASE \E l \in Conns, i \in Ids : Register(l, i)
        BY <4>3, <4>5, <4>8
      <4> QED
        BY <4>1, <4>4, <4>6, <4>7, <4>8
    <3> QED
      BY <1>p, <3>1 DEF PoolTypeOK, Connected
  <2> QED
    BY <1>1, <2>1, <2>2 DEF PoolLock
<1>4. ASSUME NEW k \in Conns, DisconnectClients(k) PROVE WaitInv'
  <2>1. /\ devMtx = None /\ devMtx' = k /\ conn' = [conn EXCEPT ![k] = "disconnecting"]
        /\ notify' = [notify EXCEPT ![k] = clients[k]]
        /\ UNCHANGED <<clients, clientsMtx, mapMtx, dev, handler, reader, writer, wire>>
    BY <1>4 DEF DisconnectClients, UnregisterStarts
  <2>2. PoolLock'
    <3>1. \A l \in Conns : conn'[l] = IF l = k THEN "disconnecting" ELSE conn[l]
      BY <1>p, <2>1 DEF PoolTypeOK
    <3>2. \A l \in Conns : conn[l] # "disconnecting"
      BY <1>p, <2>1 DEF PoolLock
    <3> QED
      BY <2>1, <3>1, <3>2 DEF PoolLock
  <2>3. ClientLocks' /\ PumpsRun'
    BY <2>1 DEF ClientLocks, PumpsRun
  <2>4. \A l \in Conns : notify'[l] \subseteq clients[l] \cup notify[l]
    BY <2>1
  <2>5. OnlyRegistered'
    BY <2>1, <2>4 DEF OnlyRegistered
  <2> QED
    BY <2>2, <2>3, <2>5
<1>5. ASSUME NEW k \in Conns, Unregister(k) PROVE WaitInv'
  <2>1. /\ conn[k] = "disconnecting" /\ devMtx' = None /\ conn' = [conn EXCEPT ![k] = "gone"]
        /\ clientsMtx' = [clientsMtx EXCEPT ![k] = None]
        /\ UNCHANGED <<clients, notify, mapMtx, dev, handler, reader, writer, wire>>
    BY <1>5 DEF Unregister, UnregisterEnds
  <2>2. PoolLock'
    <3>1. \A l \in Conns : conn'[l] = IF l = k THEN "gone" ELSE conn[l]
      BY <1>p, <2>1 DEF PoolTypeOK
    <3>2. \A l \in Conns : l # k => conn[l] # "disconnecting"
      BY <2>1 DEF PoolLock
    <3> QED
      BY <1>p, <2>1, <3>1, <3>2 DEF PoolLock
  <2>3. ClientLocks' /\ PumpsRun' /\ OnlyRegistered'
    BY <2>1 DEF ClientLocks, PumpsRun, OnlyRegistered
  <2> QED
    BY <2>2, <2>3
<1>6. ASSUME NEW k \in Conns, NEW x \in Client, TellPolled(k, x) \/ TellSocket(k, x) PROVE WaitInv'
  <2>1. /\ notify' = [notify EXCEPT ![k] = @ \ {x}]
        /\ UNCHANGED <<conn, devMtx, clients, clientsMtx, mapMtx, dev, handler, reader, writer, wire>>
    BY <1>6 DEF TellPolled, TellSocket, poolVars, connVars
  <2>2. PoolLock' /\ ClientLocks' /\ PumpsRun'
    BY <2>1 DEF PoolLock, ClientLocks, PumpsRun
  <2>3. \A l \in Conns : notify'[l] \subseteq notify[l]
    BY <2>1
  <2>4. OnlyRegistered'
    BY <2>1, <2>3 DEF OnlyRegistered
  <2> QED
    BY <2>2, <2>4
<1>7. ASSUME NEW w \in Sockets, Forward(w) \/ ForwardRead(w) \/ ReadPump(w) \/ ReadPumpCloses(w)
      PROVE  WaitInv'
  <2>1. /\ \E l \in {"running", "sending", "closing", "ended"} : reader' = [reader EXCEPT ![w] = l]
        /\ clients' = clients \/ clients' = [clients EXCEPT ![dev[w]] = @ \ {w}]
        /\ UNCHANGED <<conn, devMtx, clientsMtx, notify, mapMtx, dev, handler, writer, wire>>
    BY <1>7 DEF Forward, ForwardRead, ReadPump, ReadPumpCloses, poolVars, connVars
  <2>2. PoolLock' /\ ClientLocks'
    BY <2>1 DEF PoolLock, ClientLocks
  <2>3. \A v \in Sockets : reader[v] # "none" => reader'[v] # "none"
    BY <2>1
  <2>4. PumpsRun'
    BY <2>1, <2>3 DEF PumpsRun
  <2>5. \A l \in Conns : clients'[l] \subseteq clients[l]
    <3>1. CASE clients' = [clients EXCEPT ![dev[w]] = @ \ {w}]
      BY <3>1
    <3> QED
      BY <2>1, <3>1
  <2>6. OnlyRegistered'
    BY <2>1, <2>5 DEF OnlyRegistered
  <2> QED
    BY <2>2, <2>4, <2>6
<1>8. ASSUME NEW w \in Sockets, WritePumpEnds(w) PROVE WaitInv'
  <2>1. /\ writer' = [writer EXCEPT ![w] = "ended"] /\ wire' = wire \ {w}
        /\ UNCHANGED <<conn, devMtx, clients, clientsMtx, notify, mapMtx, dev, handler, reader>>
    BY <1>8 DEF WritePumpEnds, poolVars, connVars
  <2>2. PoolLock' /\ ClientLocks' /\ OnlyRegistered'
    BY <2>1 DEF PoolLock, ClientLocks, OnlyRegistered
  <2>3. \A v \in Sockets : writer[v] = "running" \/ v \notin wire =>
                             writer'[v] = "running" \/ v \notin wire'
    BY <2>1
  <2>4. PumpsRun'
    BY <2>1, <2>3 DEF PumpsRun
  <2> QED
    BY <2>2, <2>4
<1>9. ASSUME NEW w \in Sockets, WriteMessage(w) PROVE WaitInv'
  <2>1. UNCHANGED <<conn, devMtx, clients, clientsMtx, notify, mapMtx, dev, handler, reader, writer, wire>>
    BY <1>9 DEF WriteMessage, poolVars, connVars
  <2> QED
    BY <2>1 DEF PoolLock, ClientLocks, PumpsRun, OnlyRegistered
<1>11. ASSUME NEW k \in Conns, NEW w \in Sockets, ToClient(k, w) \/ ToClientSends(k, w) PROVE WaitInv'
  <2>1. /\ conn[k] \in Connected /\ \E to \in Connected : conn' = [conn EXCEPT ![k] = to]
        /\ \/ notify' = [notify EXCEPT ![k] = {w}] /\ w \in clients[k]
           \/ notify' = [notify EXCEPT ![k] = {}]
    BY <1>11 DEF ToClient, ToClientSends, ForwardStarts, ForwardEnds, ConnGoes, Connected, Served
  <2>2. UNCHANGED <<devMtx, clients, clientsMtx, mapMtx, dev, handler, reader, writer, wire>>
    BY <1>11 DEF ToClient, ToClientSends, ForwardStarts, ForwardEnds, ConnGoes
  <2>3. \A l \in Conns : conn'[l] = "disconnecting" <=> conn[l] = "disconnecting"
    BY <1>p, <2>1 DEF PoolTypeOK, Connected
  <2>4. PoolLock' /\ ClientLocks' /\ PumpsRun'
    BY <2>2, <2>3 DEF PoolLock, ClientLocks, PumpsRun
  <2>5. \A l \in Conns : notify'[l] \subseteq clients[l] \cup notify[l]
    BY <2>1
  <2>6. OnlyRegistered'
    BY <2>2, <2>5 DEF OnlyRegistered
  <2> QED
    BY <2>4, <2>6
<1>10. CASE \E k \in Conns : DeviceGoroutine(k)
  BY <1>4, <1>5, <1>6, <1>10, <1>11 DEF DeviceGoroutine, Client
<1> QED
  BY <1>2, <1>3, <1>7, <1>8, <1>9, <1>10, <1>11

(* While a device is unregistered, with the pool locked, there is only one *)
(* thing its goroutine can be waiting for that is not sure to come, for    *)
(* any number of devices and clients: that the same device, still          *)
(* connected, reads what a readPump is sending it.  Without such a device  *)
(* no cycle of waits goes through the pool, however full the channels are  *)
(* and whoever is registering a client.                                    *)
THEOREM PoolIsGivenBackHolds == Spec => []PoolIsGivenBack
<1>1. PoolInv /\ ClientInv /\ WaitInv /\ [Next]_vars => WaitInv'
  <2>1. ASSUME PoolInv, ClientInv, WaitInv, Next PROVE WaitInv'
    BY <2>1, HandlerStepWaitInv, OtherStepWaitInv DEF Next
  <2>2. ASSUME WaitInv, UNCHANGED vars PROVE WaitInv'
    BY <2>2 DEF vars, poolVars, connVars, clientVars, WaitInv, PoolLock, ClientLocks, PumpsRun, OnlyRegistered
  <2> QED
    BY <2>1, <2>2
<1>2. PoolInv /\ ClientInv /\ WaitInv => PoolIsGivenBack
  <2> SUFFICES ASSUME PoolInv, ClientInv, WaitInv, devMtx # None PROVE PoolIsGivenBack
    BY DEF PoolIsGivenBack
  <2>1. devMtx \in Conns /\ conn[devMtx] = "disconnecting"
    BY DEF PoolInv, PoolTypeOK, WaitInv, PoolLock
  <2>2. ASSUME mapMtx # None PROVE handler[mapMtx] = "map" /\ clientsMtx[dev[mapMtx]] = None
    <3>1. mapMtx \in Client /\ handler[mapMtx] = "map"
      BY <2>2 DEF ClientInv, TypeOK, Client, WaitInv, ClientLocks
    <3>2. dev[mapMtx] \in Conns
      BY <3>1 DEF ClientInv, KnownDevice
    <3> QED
      BY <3>1, <3>2 DEF WaitInv, ClientLocks
  <2>3. ASSUME NEW w \in notify[devMtx] \cap Sockets
        PROVE  \/ w \in done \/ writer[w] = "running"
               \/ w \notin wire /\ \/ reader[w] = "closing"
                                   \/ reader[w] = "running" /\ clientsMtx[dev[w]] = None
                                   \/ SendFails(w) /\ clientsMtx[dev[w]] = None
               \/ reader[w] = "sending" /\ dev[w] = devMtx /\ devMtx \notin left
    <3>1. w \in Sockets /\ w \in Client /\ handler[w] \in Registered /\ dev[w] = devMtx
      BY <2>1 DEF WaitInv, OnlyRegistered, Client
    <3>2. reader[w] # "none" /\ (writer[w] = "running" \/ w \notin wire)
      BY <3>1 DEF WaitInv, PumpsRun
    <3>3. /\ reader[w] \in {"none", "running", "sending", "closing", "ended"}
          /\ reader[w] = "ended" => w \in done
      BY <3>1 DEF ClientInv, TypeOK, SocketLife
    <3>4. clientsMtx[dev[w]] = None
      BY <2>1, <3>1 DEF WaitInv, ClientLocks
    <3> QED
      BY <3>1, <3>2, <3>3, <3>4 DEF SendFails
  <2> QED
    BY <2>1, <2>2, <2>3 DEF PoolIsGivenBack
<1> QED
  BY <1>1, <1>2, InitWaitInv, ClientInvHolds, OperatorImplementsPool, PoolInvHolds, PTL DEF Spec
=============================================================================
