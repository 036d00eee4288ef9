----------------------------- MODULE DevicePool -----------------------------
(***************************************************************************)
(* The operator's pool of devices (liboperator/operator/devices.go) with   *)
(* the two kinds of unix socket connections that use it (operator.go):     *)
(* controllers, which announce devices and hear of their registration, and *)
(* devices, which register and stay registered as long as they are         *)
(* connected.  Every connection is served by a goroutine of its own.       *)
(***************************************************************************)
EXTENDS FiniteSets, Naturals

CONSTANTS Ids,          \* device ids
          Controllers,  \* connections to the control endpoint
          Conns,        \* connections to the device endpoint
          None

ASSUME PoolAssumption == None \notin Controllers \cup Conns

VARIABLES
    pre,      \* preDevices: the controller whose descriptor and RegCh are kept
    devices,  \* devices: the connection of the device registered with an id
    devMtx,   \* the holder of devicesMtx, if it keeps it for several steps
    regCh,    \* the channel made for a controller and an id
    ctl,      \* where the goroutine of a controller is
    asked,    \* ids of its message it did not pre-register yet
    idSet,    \* idSet of PreRegister
    devCh,    \* devCh of PreRegister
    hungUp,   \* controllers whose peer closed the connection
    spoke,    \* controllers that sent one more message
    told,     \* ids a controller was told are registered (history)
    mute,     \* controllers that could not be sent the response (history)
    conn,     \* where the goroutine of a device connection is
    name,     \* the id it registered
    left      \* device connections whose peer closed them

connVars == <<conn, name, left>>
poolVars == <<pre, devices, devMtx, regCh, ctl, asked, idSet, devCh, hungUp,
              spoke, told, mute, connVars>>

(* From the registration of its device to the end of its unregistration.   *)
Served == {"serving", "forwarding", "replying", "refusing", "closing", "disconnecting"}

PoolTypeOK ==
    /\ pre \in [Ids -> Controllers \cup {None}]
    /\ devices \in [Ids -> Conns \cup {None}]
    /\ devMtx \in Conns \cup {None}
    /\ regCh \in [Controllers -> [Ids -> {"none", "open", "true", "closed", "read"}]]
    /\ ctl \in [Controllers -> {"idle", "adding", "loop", "cancel", "gone"}]
    /\ asked \in [Controllers -> SUBSET Ids]
    /\ idSet \in [Controllers -> SUBSET Ids]
    /\ devCh \in [Controllers -> SUBSET Ids]
    /\ hungUp \subseteq Controllers /\ spoke \subseteq Controllers /\ mute \subseteq Controllers
    /\ told \in [Controllers -> SUBSET Ids]
    /\ conn \in [Conns -> Served \cup {"idle", "gone"}]
    /\ name \in [Conns -> Ids \cup {None}]
    /\ left \subseteq Conns

PoolInit ==
    /\ pre = [i \in Ids |-> None] /\ devices = [i \in Ids |-> None]
    /\ devMtx = None
    /\ regCh = [c \in Controllers |-> [i \in Ids |-> "none"]]
    /\ ctl = [c \in Controllers |-> "idle"]
    /\ asked = [c \in Controllers |-> {}] /\ idSet = [c \in Controllers |-> {}]
    /\ devCh = [c \in Controllers |-> {}] /\ told = [c \in Controllers |-> {}]
    /\ hungUp = {} /\ spoke = {} /\ mute = {}
    /\ conn = [k \in Conns |-> "idle"] /\ name = [k \in Conns |-> None] /\ left = {}

-----------------------------------------------------------------------------
(* The control endpoint *)

ControllerAsks(c) ==
    /\ ctl[c] = "idle"
    /\ \E ids \in SUBSET Ids \ {{}} : asked' = [asked EXCEPT ![c] = ids]
    /\ ctl' = [ctl EXCEPT ![c] = "adding"]
    /\ UNCHANGED <<pre, devices, devMtx, regCh, idSet, devCh, hungUp, spoke, told, mute, connVars>>

HangUp(c) ==
    /\ ctl[c] \in {"adding", "loop"} /\ c \notin hungUp
    /\ hungUp' = hungUp \cup {c}
    /\ UNCHANGED <<pre, devices, devMtx, regCh, ctl, asked, idSet, devCh, spoke, told, mute, connVars>>

SpeakAgain(c) ==
    /\ ctl[c] \in {"adding", "loop"} /\ c \notin hungUp \cup spoke
    /\ spoke' = spoke \cup {c}
    /\ UNCHANGED <<pre, devices, devMtx, regCh, ctl, asked, idSet, devCh, hungUp, told, mute, connVars>>

(* DevicePool.PreRegister, for one device of the message: it is refused if *)
(* the id is known already, and a goroutine waits on its channel if not.   *)
PreRegister(c, i) ==
    /\ ctl[c] = "adding" /\ i \in asked[c] /\ devMtx = None
    /\ asked' = [asked EXCEPT ![c] = @ \ {i}]
    /\ \/ /\ pre[i] # None \/ devices[i] # None
          /\ UNCHANGED <<pre, regCh, idSet>>
       \/ /\ pre[i] = None /\ devices[i] = None
          /\ pre' = [pre EXCEPT ![i] = c]
          /\ regCh' = [regCh EXCEPT ![c][i] = "open"]
          /\ idSet' = [idSet EXCEPT ![c] = @ \cup {i}]
    /\ UNCHANGED <<devices, devMtx, ctl, devCh, hungUp, spoke, told, mute, connVars>>

(* The function returns, without more ado, if the response cannot be sent. *)
Respond(c) ==
    /\ ctl[c] = "adding" /\ asked[c] = {}
    /\ \/ c \notin hungUp /\ ctl' = [ctl EXCEPT ![c] = "loop"] /\ UNCHANGED mute
       \/ c \in hungUp /\ ctl' = [ctl EXCEPT ![c] = "gone"] /\ mute' = mute \cup {c}
    /\ UNCHANGED <<pre, devices, devMtx, regCh, asked, idSet, devCh, hungUp, spoke, told, connVars>>

PassOnLost(c, i) ==
    /\ regCh[c][i] = "true"
    /\ regCh' = [regCh EXCEPT ![c][i] = "read"]
    /\ UNCHANGED <<pre, devices, devMtx, ctl, asked, idSet, devCh, hungUp, spoke, told, mute, connVars>>

(* The goroutine of one pre-registered id passes the registration on.      *)
PassOn(c, i) ==
    /\ regCh[c][i] = "true"
    /\ regCh' = [regCh EXCEPT ![c][i] = "read"]
    /\ devCh' = [devCh EXCEPT ![c] = @ \cup {i}]
    /\ UNCHANGED <<pre, devices, devMtx, ctl, asked, idSet, hungUp, spoke, told, mute, connVars>>

ReportRegistered(c, i) ==
    /\ ctl[c] = "loop" /\ i \in devCh[c]
    /\ devCh' = [devCh EXCEPT ![c] = @ \ {i}]
    /\ told' = IF c \in hungUp THEN told ELSE [told EXCEPT ![c] = @ \cup {i}]
    /\ idSet' = [idSet EXCEPT ![c] = @ \ {i}]
    /\ UNCHANGED <<pre, devices, devMtx, regCh, ctl, asked, hungUp, spoke, mute, connVars>>

(* Recv fails when the peer has closed the connection, and also when it    *)
(* sent anything more, which cannot be parsed into ignored.  select takes  *)
(* any case that is ready: registrations that wait in devCh may stay       *)
(* there.                                                                  *)
CloseSeen(c) ==
    /\ ctl[c] = "loop" /\ c \in hungUp \cup spoke
    /\ ctl' = [ctl EXCEPT ![c] = "cancel"]
    /\ UNCHANGED <<pre, devices, devMtx, regCh, asked, idSet, devCh, hungUp, spoke, told, mute, connVars>>

CancelNothing(c, i) ==
    /\ ctl[c] = "cancel" /\ i \in idSet[c]
    /\ idSet' = [idSet EXCEPT ![c] = @ \ {i}]
    /\ UNCHANGED <<pre, devices, devMtx, regCh, ctl, asked, devCh, hungUp, spoke, told, mute, connVars>>

CancelKeepsEntry(c, i) ==
    /\ ctl[c] = "cancel" /\ i \in idSet[c]
    /\ idSet' = [idSet EXCEPT ![c] = @ \ {i}]
    /\ regCh' = IF pre[i] = None THEN regCh ELSE [regCh EXCEPT ![pre[i]][i] = "closed"]
    /\ UNCHANGED <<pre, devices, devMtx, ctl, asked, devCh, hungUp, spoke, told, mute, connVars>>

(* The entry with that id goes, whoever made it.                           *)
CancelPreRegistration(c, i) ==
    /\ ctl[c] = "cancel" /\ i \in idSet[c]
    /\ idSet' = [idSet EXCEPT ![c] = @ \ {i}]
    /\ regCh' = IF pre[i] = None THEN regCh ELSE [regCh EXCEPT ![pre[i]][i] = "closed"]
    /\ pre' = [pre EXCEPT ![i] = None]
    /\ UNCHANGED <<devices, devMtx, ctl, asked, devCh, hungUp, spoke, told, mute, connVars>>

ControllerGone(c) ==
    /\ ctl[c] = "cancel" /\ idSet[c] = {}
    /\ ctl' = [ctl EXCEPT ![c] = "gone"]
    /\ UNCHANGED <<pre, devices, devMtx, regCh, asked, idSet, devCh, hungUp, spoke, told, mute, connVars>>

-----------------------------------------------------------------------------
(* The device endpoint *)

RegisterTakesOver(k, i) ==
    /\ conn[k] = "idle" /\ devMtx = None
    /\ devices' = [devices EXCEPT ![i] = k]
    /\ name' = [name EXCEPT ![k] = i]
    /\ pre' = [pre EXCEPT ![i] = None]
    /\ regCh' = IF pre[i] = None THEN regCh ELSE [regCh EXCEPT ![pre[i]][i] = "true"]
    /\ conn' = [conn EXCEPT ![k] = "serving"]
    /\ UNCHANGED <<devMtx, ctl, asked, idSet, devCh, hungUp, spoke, told, mute, left>>

(* DevicePool.Register: refused if the id is taken; the descriptor of a    *)
(* pre-registration is used up and its controller hears of it.             *)
Register(k, i) ==
    /\ conn[k] = "idle" /\ devMtx = None
    /\ \/ devices[i] # None /\ conn' = [conn EXCEPT ![k] = "gone"]
          /\ UNCHANGED <<pre, devices, regCh, name>>
       \/ /\ devices[i] = None
          /\ devices' = [devices EXCEPT ![i] = k]
          /\ name' = [name EXCEPT ![k] = i]
          /\ pre' = [pre EXCEPT ![i] = None]
          /\ regCh' = IF pre[i] = None THEN regCh ELSE [regCh EXCEPT ![pre[i]][i] = "true"]
          /\ conn' = [conn EXCEPT ![k] = "serving"]
    /\ UNCHANGED <<devMtx, ctl, asked, idSet, devCh, hungUp, spoke, told, mute, left>>

DeviceHangsUp(k) ==
    /\ conn[k] \in Served /\ k \notin left
    /\ left' = left \cup {k}
    /\ UNCHANGED <<pre, devices, devMtx, regCh, ctl, asked, idSet, devCh, hungUp, spoke, told, mute,
                   conn, name>>

ConnGoes(k, to) ==
    /\ conn' = [conn EXCEPT ![k] = to]
    /\ UNCHANGED <<pre, devices, devMtx, regCh, ctl, asked, idSet, devCh, hungUp, spoke, told, mute,
                   name, left>>

(* Recv fails: the device has closed the connection or sent what cannot be *)
(* parsed, in which case it may stay connected.                            *)
DeviceFails(k) ==
    /\ conn[k] = "serving"
    /\ ConnGoes(k, "closing")

(* A message without a client or a payload is refused, and ends the        *)
(* connection; one for a client that is not known is only replied to.      *)
DeviceErrs(k) ==
    /\ conn[k] = "serving"
    /\ \E to \in {"refusing", "replying"} : ConnGoes(k, to)

(* A message for one of its clients; one that has closed is replied to.    *)
ForwardStarts(k) ==
    /\ conn[k] = "serving"
    /\ ConnGoes(k, "forwarding")

ForwardEnds(k, to) ==
    /\ conn[k] = "forwarding"
    /\ ConnGoes(k, to)

(* ReplyError is over when the device reads, or has closed the connection. *)
ReplyError(k) ==
    \/ conn[k] = "replying" /\ ConnGoes(k, "serving")
    \/ conn[k] = "refusing" /\ ConnGoes(k, "closing")

(* DevicePool.Unregister keeps devicesMtx while the clients of the device  *)
(* are told.                                                               *)
UnregisterStarts(k) ==
    /\ conn[k] = "closing" /\ devMtx = None
    /\ devMtx' = k
    /\ conn' = [conn EXCEPT ![k] = "disconnecting"]
    /\ UNCHANGED <<pre, devices, regCh, ctl, asked, idSet, devCh, hungUp, spoke, told, mute, name, left>>

UnregisterEnds(k) ==
    /\ conn[k] = "disconnecting"
    /\ devices' = [devices EXCEPT ![name[k]] = None]
    /\ devMtx' = None
    /\ conn' = [conn EXCEPT ![k] = "gone"]
    /\ UNCHANGED <<pre, regCh, ctl, asked, idSet, devCh, hungUp, spoke, told, mute, name, left>>

-----------------------------------------------------------------------------
Controller(c) ==
    \/ Respond(c) \/ CloseSeen(c) \/ ControllerGone(c)
    \/ \E i \in Ids : PreRegister(c, i) \/ PassOn(c, i) \/ ReportRegistered(c, i)
                      \/ CancelPreRegistration(c, i)

Peers ==
    \/ \E c \in Controllers : ControllerAsks(c) \/ HangUp(c) \/ SpeakAgain(c)
    \/ \E k \in Conns : \/ DeviceHangsUp(k) \/ DeviceFails(k) \/ DeviceErrs(k) \/ ReplyError(k)
                       \/ \E i \in Ids : Register(k, i)

PoolNext ==
    \/ \E c \in Controllers : Controller(c)
    \/ Peers
    \/ \E k \in Conns : \/ UnregisterStarts(k) \/ UnregisterEnds(k)
                       \/ ForwardStarts(k) \/ \E to \in {"serving", "replying"} : ForwardEnds(k, to)

PoolSpec == PoolInit /\ [][PoolNext]_poolVars

-----------------------------------------------------------------------------
(* Properties *)

(* An id is never both announced and taken, and the channel kept with an   *)
(* announced id is open: Register does not send on a closed channel and    *)
(* CancelPreRegistration does not close one twice, which would panic and   *)
(* take the operator down.                                                 *)
AnnouncedOrTaken ==
    \A i \in Ids : pre[i] # None =>
        /\ devices[i] = None
        /\ regCh[pre[i]][i] = "open"

(* No id stays announced for a controller that is gone, if the response to *)
(* its message could be sent.                                              *)
AnnouncementsHaveOwners ==
    \A i \in Ids : pre[i] # None => ctl[pre[i]] # "gone" \/ pre[i] \in mute

(* The connection that serves a device is the one registered with its id:  *)
(* a late unregistration never removes the successor of a device.          *)
RegisteredIsServed ==
    \A k \in Conns :
        conn[k] \in Served <=> \E i \in Ids : devices[i] = k /\ name[k] = i
=============================================================================
