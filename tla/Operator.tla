------------------------------ MODULE Operator ------------------------------
(***************************************************************************)
(* The operator's signalling clients (liboperator/operator/clients.go and  *)
(* the HTTP handlers of operator.go) on top of its pool of devices: polled *)
(* connections and web sockets, which a device's end must reach while new  *)
(* ones come in.  A handler looks the device up, lets go of the pool, and  *)
(* registers its client with the device later.                             *)
(***************************************************************************)
EXTENDS DevicePool

CONSTANTS Polled,     \* polled connections that may be made
          Sockets,    \* web sockets that may be opened
          QueueSize,  \* capacity of the channel send of a WsClient
          Casts       \* who takes part: sets of ids, controllers, devices, clients

ASSUME OperatorAssumption ==
    /\ QueueSize \in Nat \ {0}
    /\ None \notin Polled \cup Sockets /\ Polled \cap Sockets = {}
    /\ Casts \subseteq SUBSET (Ids \cup Controllers \cup Conns \cup Polled \cup Sockets)

VARIABLES
    cast,        \* who takes part
    clients,     \* the clients registered with a Device
    clientsMtx,  \* the holder of its clientsMtx, if kept for several steps
    notify,      \* the clients that its goroutine is still to send to
    mapMtx,      \* the holder of the PolledSet's mapMtx
    polledSet,   \* connections of the PolledSet
    dev,         \* the Device that a client's handler looked up
    handler,     \* where that handler is
    reader,      \* readPump of a web socket
    writer,      \* writePump
    wire,        \* web sockets whose connection is open
    queue,       \* how many messages the channel send holds
    done,        \* web sockets whose channel done is closed
    hasId,       \* web sockets whose clientId was assigned
    late,        \* clients registered after the others were copied (history)
    early        \* web sockets whose readPump ended without an id (history)

clientVars == <<cast, clients, clientsMtx, notify, mapMtx, polledSet, dev, handler,
                reader, writer, wire, queue, done, hasId, late, early>>
vars == <<poolVars, clientVars>>

Client == Polled \cup Sockets

TypeOK ==
    /\ PoolTypeOK
    /\ cast \in Casts
    /\ clients \in [Conns -> SUBSET Client]
    /\ clientsMtx \in [Conns -> Client \cup Conns \cup {None}]
    /\ notify \in [Conns -> SUBSET Client]
    /\ mapMtx \in Polled \cup {None}
    /\ polledSet \subseteq Polled
    /\ dev \in [Client -> Conns \cup {None}]
    /\ handler \in [Client -> {"idle", "found", "map", "pumping", "registered", "named", "answered"}]
    /\ reader \in [Sockets -> {"none", "running", "sending", "closing", "ended"}]
    /\ writer \in [Sockets -> {"none", "running", "ended"}]
    /\ wire \subseteq Sockets /\ done \subseteq Sockets /\ hasId \subseteq Sockets
    /\ queue \in [Sockets -> 0..QueueSize]
    /\ late \subseteq Client /\ early \subseteq Sockets

Init ==
    /\ PoolInit
    /\ cast \in Casts
    /\ clients = [k \in Conns |-> {}]
    /\ clientsMtx = [k \in Conns |-> None]
    /\ notify = [k \in Conns |-> {}]
    /\ mapMtx = None /\ polledSet = {}
    /\ dev = [x \in Client |-> None] /\ handler = [x \in Client |-> "idle"]
    /\ reader = [w \in Sockets |-> "none"] /\ writer = [w \in Sockets |-> "none"]
    /\ wire = {} /\ done = {} /\ hasId = {}
    /\ queue = [w \in Sockets |-> 0]
    /\ late = {} /\ early = {}

-----------------------------------------------------------------------------
(* Handlers *)

(* GetDevice; the rest of the handler uses what it found.                  *)
GetDevice(x) ==
    /\ handler[x] = "idle" /\ devMtx = None
    /\ \E i \in Ids : devices[i] # None /\ dev' = [dev EXCEPT ![x] = devices[i]]
    /\ handler' = [handler EXCEPT ![x] = "found"]
    /\ UNCHANGED <<poolVars, cast, clients, clientsMtx, notify, mapMtx, polledSet, reader,
                   writer, wire, queue, done, hasId, late, early>>

(* Device.Register *)
RegisterClient(x) ==
    LET k == dev[x] IN
    /\ clientsMtx[k] = None
    /\ clients' = [clients EXCEPT ![k] = @ \cup {x}]
    /\ late' = IF conn[k] \in {"disconnecting", "gone"} THEN late \cup {x} ELSE late

(* PolledSet.NewConnection: mapMtx is kept while the client is registered. *)
NewConnection(p) ==
    /\ handler[p] = "found" /\ mapMtx = None
    /\ mapMtx' = p
    /\ polledSet' = polledSet \cup {p}
    /\ handler' = [handler EXCEPT ![p] = "map"]
    /\ UNCHANGED <<poolVars, cast, clients, clientsMtx, notify, dev, reader, writer, wire,
                   queue, done, hasId, late, early>>

NewConnectionRegisters(p) ==
    /\ handler[p] = "map"
    /\ RegisterClient(p)
    /\ mapMtx' = None
    /\ handler' = [handler EXCEPT ![p] = "answered"]
    /\ UNCHANGED <<poolVars, cast, clientsMtx, notify, polledSet, dev, reader, writer, wire,
                   queue, done, hasId, early>>

(* NewWsClient starts both pumps before the client is registered.          *)
NewWsClient(w) ==
    /\ handler[w] = "found"
    /\ reader' = [reader EXCEPT ![w] = "running"]
    /\ writer' = [writer EXCEPT ![w] = "running"]
    /\ wire' = wire \cup {w}
    /\ handler' = [handler EXCEPT ![w] = "pumping"]
    /\ UNCHANGED <<poolVars, cast, clients, clientsMtx, notify, mapMtx, polledSet, dev,
                   queue, done, hasId, late, early>>

ConnectRegisters(w) ==
    /\ handler[w] = "pumping"
    /\ RegisterClient(w)
    /\ handler' = [handler EXCEPT ![w] = "registered"]
    /\ UNCHANGED <<poolVars, cast, clientsMtx, notify, mapMtx, polledSet, dev, reader, writer,
                   wire, queue, done, hasId, early>>

ConnectAssignsId(w) ==
    /\ handler[w] = "registered"
    /\ hasId' = hasId \cup {w}
    /\ handler' = [handler EXCEPT ![w] = "named"]
    /\ UNCHANGED <<poolVars, cast, clients, clientsMtx, notify, mapMtx, polledSet, dev, reader,
                   writer, wire, queue, done, late, early>>

(* WsClient.Send: an error once the client is done, else wait for room.    *)
Send(w) ==
    \/ w \in done /\ UNCHANGED queue
    \/ w \notin done /\ queue[w] < QueueSize /\ queue' = [queue EXCEPT ![w] = @ + 1]

ConnectSendsInfo(w) ==
    /\ handler[w] = "named"
    /\ Send(w)
    /\ handler' = [handler EXCEPT ![w] = "answered"]
    /\ UNCHANGED <<poolVars, cast, clients, clientsMtx, notify, mapMtx, polledSet, dev, reader,
                   writer, wire, done, hasId, late, early>>

-----------------------------------------------------------------------------
(* The pumps of a web socket *)

(* A message of the client is sent on to its device.  Device.Send has no   *)
(* deadline: it is over when the device reads it, and fails once the       *)
(* device has closed the connection, or when it only begins after the      *)
(* operator has closed it, which happens after the unregistration.         *)
Forward(w) ==
    /\ reader[w] = "running" /\ w \in wire
    /\ reader' = [reader EXCEPT ![w] = "sending"]
    /\ UNCHANGED <<poolVars, cast, clients, clientsMtx, notify, mapMtx, polledSet, dev, handler,
                   writer, wire, queue, done, hasId, late, early>>

ForwardRead(w) ==
    /\ reader[w] = "sending" /\ dev[w] \notin left
    /\ reader' = [reader EXCEPT ![w] = "running"]
    /\ UNCHANGED <<poolVars, cast, clients, clientsMtx, notify, mapMtx, polledSet, dev, handler,
                   writer, wire, queue, done, hasId, late, early>>

SendFails(w) == reader[w] = "sending" /\ (dev[w] \in left \/ conn[dev[w]] = "gone")

ReadPumpForgetful(w) ==
    /\ reader[w] = "running" \/ SendFails(w)
    /\ reader' = [reader EXCEPT ![w] = "closing"]
    /\ early' = IF w \in hasId THEN early ELSE early \cup {w}
    /\ UNCHANGED <<poolVars, cast, clients, clientsMtx, notify, mapMtx, polledSet, dev, handler,
                   writer, wire, queue, done, hasId, late>>

(* The peer leaves or sends nonsense, the device or the connection is gone: *)
(* readPump unregisters the client, by the id it has by then, ...          *)
ReadPump(w) ==
    /\ reader[w] = "running" \/ SendFails(w)
    /\ clientsMtx[dev[w]] = None
    /\ reader' = [reader EXCEPT ![w] = "closing"]
    /\ clients' = IF w \in hasId THEN [clients EXCEPT ![dev[w]] = @ \ {w}] ELSE clients
    /\ early' = IF w \in hasId THEN early ELSE early \cup {w}
    /\ UNCHANGED <<poolVars, cast, clientsMtx, notify, mapMtx, polledSet, dev, handler,
                   writer, wire, queue, done, hasId, late>>

(* ... and closes it.                                                      *)
ReadPumpCloses(w) ==
    /\ reader[w] = "closing"
    /\ reader' = [reader EXCEPT ![w] = "ended"]
    /\ done' = done \cup {w}
    /\ UNCHANGED <<poolVars, cast, clients, clientsMtx, notify, mapMtx, polledSet, dev, handler,
                   writer, wire, queue, hasId, late, early>>

WriteMessage(w) ==
    /\ writer[w] = "running" /\ queue[w] > 0
    /\ queue' = [queue EXCEPT ![w] = @ - 1]
    /\ UNCHANGED <<poolVars, cast, clients, clientsMtx, notify, mapMtx, polledSet, dev, handler,
                   reader, writer, wire, done, hasId, late, early>>

(* A write or a ping fails, or done is closed: the connection is closed,   *)
(* what is left in the channel is dropped, done stays as it is.            *)
WritePumpEnds(w) ==
    /\ writer[w] = "running"
    /\ writer' = [writer EXCEPT ![w] = "ended"]
    /\ wire' = wire \ {w}
    /\ UNCHANGED <<poolVars, cast, clients, clientsMtx, notify, mapMtx, polledSet, dev, handler,
                   reader, queue, done, hasId, late, early>>

-----------------------------------------------------------------------------
(* The device's side *)

(* ToClient: the client is looked up, if the device still knows it, and    *)
(* sent the message without the lock.  (A polled client just keeps it.)    *)
ToClient(k, w) ==
    /\ ForwardStarts(k) /\ w \in clients[k] /\ clientsMtx[k] = None
    /\ notify' = [notify EXCEPT ![k] = {w}]
    /\ UNCHANGED <<cast, clients, clientsMtx, mapMtx, polledSet, dev, handler, reader, writer,
                   wire, queue, done, hasId, late, early>>

ToClientSends(k, w) ==
    /\ w \in notify[k]
    /\ ForwardEnds(k, IF w \in done THEN "replying" ELSE "serving")
    /\ Send(w)
    /\ notify' = [notify EXCEPT ![k] = {}]
    /\ UNCHANGED <<cast, clients, clientsMtx, mapMtx, polledSet, dev, handler, reader, writer,
                   wire, done, hasId, late, early>>

DisconnectClientsHoldsLock(k) ==
    /\ UnregisterStarts(k) /\ clientsMtx[k] = None
    /\ notify' = [notify EXCEPT ![k] = clients[k]]
    /\ clientsMtx' = [clientsMtx EXCEPT ![k] = k]
    /\ UNCHANGED <<cast, clients, mapMtx, polledSet, dev, handler, reader, writer, wire,
                   queue, done, hasId, late, early>>

DisconnectClientsOfSockets(k) ==
    /\ UnregisterStarts(k) /\ clientsMtx[k] = None
    /\ notify' = [notify EXCEPT ![k] = clients[k] \cap Sockets]
    /\ UNCHANGED <<cast, clients, clientsMtx, mapMtx, polledSet, dev, handler, reader, writer,
                   wire, queue, done, hasId, late, early>>

(* Unregister locks the pool; the clients are copied under clientsMtx and  *)
(* told without it.                                                        *)
DisconnectClients(k) ==
    /\ UnregisterStarts(k) /\ clientsMtx[k] = None
    /\ notify' = [notify EXCEPT ![k] = clients[k]]
    /\ UNCHANGED <<cast, clients, clientsMtx, mapMtx, polledSet, dev, handler, reader, writer,
                   wire, queue, done, hasId, late, early>>

(* OnDeviceDisconnected: a polled client is destroyed, a web socket is     *)
(* sent an error and closed.                                               *)
TellPolled(k, p) ==
    /\ conn[k] = "disconnecting" /\ p \in notify[k] /\ mapMtx = None
    /\ polledSet' = polledSet \ {p}
    /\ notify' = [notify EXCEPT ![k] = @ \ {p}]
    /\ UNCHANGED <<poolVars, cast, clients, clientsMtx, mapMtx, dev, handler, reader, writer,
                   wire, queue, done, hasId, late, early>>

TellSocket(k, w) ==
    /\ conn[k] = "disconnecting" /\ w \in notify[k]
    /\ Send(w)
    /\ done' = done \cup {w}
    /\ notify' = [notify EXCEPT ![k] = @ \ {w}]
    /\ UNCHANGED <<poolVars, cast, clients, clientsMtx, mapMtx, polledSet, dev, handler, reader,
                   writer, wire, hasId, late, early>>

Unregister(k) ==
    /\ notify[k] = {}
    /\ UnregisterEnds(k)
    /\ clientsMtx' = [clientsMtx EXCEPT ![k] = None]
    /\ UNCHANGED <<cast, clients, notify, mapMtx, polledSet, dev, handler, reader, writer,
                   wire, queue, done, hasId, late, early>>

-----------------------------------------------------------------------------
ControlGoroutine(c) == c \in cast /\ Controller(c) /\ UNCHANGED clientVars

PeerStep ==
    /\ \/ \E c \in Controllers \cap cast : ControllerAsks(c) \/ HangUp(c) \/ SpeakAgain(c)
       \/ \E k \in Conns \cap cast : \/ DeviceHangsUp(k) \/ DeviceFails(k) \/ DeviceErrs(k)
                                   \/ ReplyError(k) \/ \E i \in Ids \cap cast : Register(k, i)
    /\ \A c \in Controllers : asked'[c] \subseteq cast
    /\ UNCHANGED clientVars

DeviceGoroutine(k) ==
    \/ DisconnectClients(k) \/ Unregister(k)
    \/ \E p \in Polled : TellPolled(k, p)
    \/ \E w \in Sockets : TellSocket(k, w) \/ ToClientSends(k, w)

(* A device that has closed its connection keeps nobody waiting.           *)
EndSeen(k) == k \in left /\ DeviceFails(k) /\ UNCHANGED clientVars

ReplyFails(k) == k \in left /\ ReplyError(k) /\ UNCHANGED clientVars

Handler(x) ==
    \/ x \in Polled /\ (NewConnection(x) \/ NewConnectionRegisters(x))
    \/ x \in Sockets /\ (NewWsClient(x) \/ ConnectRegisters(x) \/ ConnectAssignsId(x)
                         \/ ConnectSendsInfo(x))

ReadPumpMust(w) ==
    \/ ReadPump(w) /\ IF reader[w] = "sending" THEN dev[w] \in left ELSE w \notin wire
    \/ ReadPumpCloses(w)

WritePumpMust(w) == (w \in done \/ queue[w] > 0) /\ (WriteMessage(w) \/ WritePumpEnds(w))

Next ==
    \/ PeerStep
    \/ \E c \in Controllers : ControlGoroutine(c)
    \/ \E k \in Conns : DeviceGoroutine(k)
    \/ \E x \in Client \cap cast : GetDevice(x) \/ Handler(x)
    \/ \E w \in Sockets : \/ Forward(w) \/ ForwardRead(w) \/ ReadPump(w) \/ ReadPumpCloses(w)
                         \/ WriteMessage(w) \/ WritePumpEnds(w)
    \/ \E k \in Conns, w \in Sockets : ToClient(k, w)

(* Goroutines run on; a write to a web socket is over, one way or another, *)
(* when its deadline is.  Peers owe nothing: a device need not read what   *)
(* it is sent.  One that has closed its connection has sent only so many   *)
(* messages before, so the operator notices in the end.                    *)
Fairness ==
    /\ \A c \in Controllers : WF_vars(ControlGoroutine(c))
    /\ \A k \in Conns :
           WF_vars(DeviceGoroutine(k)) /\ SF_vars(EndSeen(k)) /\ WF_vars(ReplyFails(k))
    /\ \A x \in Client : WF_vars(Handler(x))
    /\ \A w \in Sockets : WF_vars(ReadPumpMust(w)) /\ WF_vars(WritePumpMust(w))

Spec == Init /\ [][Next]_vars /\ Fairness

-----------------------------------------------------------------------------
(* Properties *)

(* When a device is gone, no client of it is left that was not told: the   *)
(* polled ones are destroyed and the web sockets closed, or about to be by *)
(* their readPump, which has unregistered them.  The exceptions are        *)
(* clients whose handler found the device in time and registered with it   *)
(* after DisconnectClients had copied the list.                            *)
LeftBehindWereLate ==
    \A x \in Client :
        dev[x] # None /\ conn[dev[x]] = "gone" /\ handler[x] \in {"registered", "named", "answered"}
            => \/ x \in late \/ x \notin polledSet \cup (Sockets \ done)
               \/ x \in Sockets /\ reader[x] = "closing"

(* A device does not keep a web socket whose readPump is over, unless the  *)
(* pump, which starts before the registration, was over before it had the  *)
(* id to unregister.                                                       *)
ClosedMeansForgotten ==
    \A w \in Sockets : reader[w] \in {"closing", "ended"} /\ w \in clients[dev[w]] => w \in early

(* A registration that a controller announced is reported to it, unless    *)
(* the controller hangs up or sends anything more after its announcement.  *)
RegistrationReported ==
    \A c \in Controllers, i \in Ids :
        regCh[c][i] = "true" ~> i \in told[c] \/ c \in hungUp \cup spoke

(* A device that hangs up or sends nonsense gets unregistered, and the     *)
(* pool unlocked again, however full the channels of its clients are and   *)
(* whoever connects meanwhile.  The exception: a readPump waits forever    *)
(* for a device that stays connected and does not read.  If its writePump  *)
(* has ended and its channel is full, OnDeviceDisconnected then waits for  *)
(* room in the channel with the pool locked, and the operator closes the   *)
(* device's connection only after that.                                    *)
UnregistrationEnds ==
    \/ \E w \in Sockets : <>[](reader[w] = "sending" /\ dev[w] \notin left)
    \/ \A k \in Conns : k \in left \/ conn[k] = "closing" ~> conn[k] = "gone"
=============================================================================
