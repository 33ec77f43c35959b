------------------------------- MODULE Hub -------------------------------
(***************************************************************************)
(* The WebSocket hub of internal/core/realtime/hub.go.                     *)
(*                                                                         *)
(* Every client connection is served by three goroutines: the one that     *)
(* runs ServeHTTP (`serve'), the one that runs readPump (`reader') and the *)
(* one that runs writePump (`pump').  They share the client's buffered     *)
(* channel `send' and its connection with the request goroutines that      *)
(* broadcast domain events (the emitters).  The hub's map of clients is    *)
(* guarded by a sync.RWMutex: broadcasts hold the read lock while they     *)
(* visit the clients, register and unregister take the write lock.         *)
(*                                                                         *)
(* One client stands for one connection: a browser that reconnects is      *)
(* another client.                                                         *)
(***************************************************************************)
EXTENDS Integers, Sequences, FiniteSets

CONSTANTS
  Client,    \* the connections that are opened, one *client each
  Emitter,   \* request goroutines that register a user and emit its events
  SendCap,   \* capacity of a client's send channel (256 in the code)
  Rounds,    \* bound: how many of its two events an emitter gets to broadcast
  None       \* no goroutine waits for or holds the write lock

ASSUME SendCapAssumption == SendCap \in Nat \ {0}
ASSUME RoundsAssumption == Rounds \in 1..2
ASSUME NoneAssumption == None \notin Client

VARIABLES
  clients,    \* h.clients, the registered clients
  writer,     \* the client whose goroutine has called h.mu.Lock(), or None
  serve,      \* where ServeHTTP of a client is
  reader,     \* where readPump of a client is
  pump,       \* where writePump of a client is
  send,       \* the content of c.send
  closed,     \* whether c.send has been closed
  inhand,     \* the frame writePump has received and is writing
  conn,       \* the server's end of the connection: none, open or closed
  peer,       \* the browser's end: up or gone
  delivered,  \* what the browser has received, in order
  log,        \* history: the frames c.send has accepted, in order
  dropped,    \* history: the frames dropped because c.send was full
  bcast,      \* where an emitter is: idle, sending (read lock held), stopped
  round,      \* how many events an emitter has broadcast
  visit,      \* the clients the running broadcast has yet to visit
  panicked    \* a send on, or the close of, a closed channel has happened

clientVars  == <<serve, reader, pump>>
channelVars == <<send, closed, log, dropped>>
socketVars  == <<conn, peer, inhand, delivered>>
emitterVars == <<bcast, round, visit>>

vars == <<clients, writer, clientVars, channelVars, socketVars, emitterVars,
          panicked>>

-----------------------------------------------------------------------------
(* The frames.  An emitter's first event is the new user, its second the   *)
(* job that was enqueued for it.                                           *)

Kind == <<"auth:user-registered", "queue:job-enqueued">>

Hello == [event |-> "system:hello", from |-> None]
FrameOf(e, k) == [event |-> Kind[k], from |-> e]

Frame == {Hello} \cup {FrameOf(e, k) : e \in Emitter, k \in 1..Rounds}

(* The emitters that hold the read lock. *)
Broadcasting == {e \in Emitter : bcast[e] = "sending"}

Init ==
  /\ clients = {}
  /\ writer = None
  /\ serve = [c \in Client |-> "new"]
  /\ reader = [c \in Client |-> "off"]
  /\ pump = [c \in Client |-> "off"]
  /\ send = [c \in Client |-> <<>>]
  /\ closed = [c \in Client |-> FALSE]
  /\ inhand = [c \in Client |-> Hello]
  /\ conn = [c \in Client |-> "none"]
  /\ peer = [c \in Client |-> "up"]
  /\ delivered = [c \in Client |-> <<>>]
  /\ log = [c \in Client |-> <<>>]
  /\ dropped = [c \in Client |-> {}]
  /\ bcast = [e \in Emitter |-> "idle"]
  /\ round = [e \in Emitter |-> 0]
  /\ visit = [e \in Emitter |-> {}]
  /\ panicked = FALSE

(* Mutant: the oldest frame makes room for the new one. *)
OfferDropOldest(c, f) ==
  /\ send' = [send EXCEPT ![c] = IF Len(@) < SendCap THEN Append(@, f)
                                                     ELSE Append(Tail(@), f)]
  /\ log' = [log EXCEPT ![c] = Append(@, f)]
  /\ UNCHANGED <<dropped, panicked>>

(* Mutant: c.send <- f, without a default. *)
OfferBlocking(c, f) ==
  /\ Len(send[c]) < SendCap
  /\ send' = [send EXCEPT ![c] = Append(@, f)]
  /\ log' = [log EXCEPT ![c] = Append(@, f)]
  /\ UNCHANGED <<dropped, panicked>>

(* select { case c.send <- f: default: }.  The send panics when the channel *)
(* is closed, whether or not it has room.                                   *)
Offer(c, f) ==
  \/ /\ closed[c]
     /\ panicked' = TRUE
     /\ UNCHANGED <<send, log, dropped>>
  \/ /\ ~closed[c]
     /\ Len(send[c]) < SendCap
     /\ send' = [send EXCEPT ![c] = Append(@, f)]
     /\ log' = [log EXCEPT ![c] = Append(@, f)]
     /\ UNCHANGED <<dropped, panicked>>
  \/ /\ ~closed[c]
     /\ Len(send[c]) >= SendCap
     /\ dropped' = [dropped EXCEPT ![c] = @ \cup {f}]
     /\ UNCHANGED <<send, log, panicked>>

-----------------------------------------------------------------------------
(* ServeHTTP.                                                               *)

(* The origin check passes and the connection is hijacked. *)
Upgrade(c) ==
  /\ serve[c] = "new"
  /\ serve' = [serve EXCEPT ![c] = "upgraded"]
  /\ conn' = [conn EXCEPT ![c] = "open"]
  /\ UNCHANGED <<clients, writer, reader, pump, channelVars, peer, inhand,
                 delivered, emitterVars, panicked>>

(* A foreign origin, a bad handshake or a writer that cannot be hijacked. *)
UpgradeFails(c) ==
  /\ serve[c] = "new"
  /\ serve' = [serve EXCEPT ![c] = "refused"]
  /\ UNCHANGED <<clients, writer, reader, pump, channelVars, socketVars,
                 emitterVars, panicked>>

(* h.mu.Lock() in register: from here on no new reader enters. *)
LockToRegister(c) ==
  /\ serve[c] = "upgraded"
  /\ writer = None
  /\ writer' = c
  /\ serve' = [serve EXCEPT ![c] = "registering"]
  /\ UNCHANGED <<clients, reader, pump, channelVars, socketVars, emitterVars,
                 panicked>>

(* Mutant: the map is written without waiting for its readers. *)
RegisterUnlocked(c) ==
  /\ serve[c] = "registering"
  /\ clients' = clients \cup {c}
  /\ writer' = None
  /\ serve' = [serve EXCEPT ![c] = "registered"]
  /\ UNCHANGED <<reader, pump, channelVars, socketVars, emitterVars, panicked>>

(* The lock is acquired once the broadcasts that hold it have ended. *)
Register(c) ==
  /\ serve[c] = "registering"
  /\ Broadcasting = {}
  /\ clients' = clients \cup {c}
  /\ writer' = None
  /\ serve' = [serve EXCEPT ![c] = "registered"]
  /\ UNCHANGED <<reader, pump, channelVars, socketVars, emitterVars, panicked>>

(* Mutant: go c.writePump() is forgotten. *)
GreetWithoutPump(c) ==
  /\ serve[c] = "registered"
  /\ Offer(c, Hello)
  /\ serve' = [serve EXCEPT ![c] = "done"]
  /\ reader' = [reader EXCEPT ![c] = "reading"]
  /\ UNCHANGED <<clients, writer, pump, closed, socketVars, emitterVars>>

(* writeJSON("system:hello", ...), then go writePump and go readPump. *)
Greet(c) ==
  /\ serve[c] = "registered"
  /\ Offer(c, Hello)
  /\ serve' = [serve EXCEPT ![c] = "done"]
  /\ reader' = [reader EXCEPT ![c] = "reading"]
  /\ pump' = [pump EXCEPT ![c] = "waiting"]
  /\ UNCHANGED <<clients, writer, closed, socketVars, emitterVars>>

-----------------------------------------------------------------------------
(* readPump.  Messages it reads are discarded, so only its end is a step.   *)

ReadError(c) ==
  /\ reader[c] = "reading"
  /\ peer[c] = "gone" \/ conn[c] = "closed"
  /\ reader' = [reader EXCEPT ![c] = "leaving"]
  /\ UNCHANGED <<clients, writer, serve, pump, channelVars, socketVars,
                 emitterVars, panicked>>

(* h.mu.Lock() in unregister. *)
LockToUnregister(c) ==
  /\ reader[c] = "leaving"
  /\ writer = None
  /\ writer' = c
  /\ reader' = [reader EXCEPT ![c] = "removing"]
  /\ UNCHANGED <<clients, serve, pump, channelVars, socketVars, emitterVars,
                 panicked>>

(* Mutant: the client is deleted without waiting for the broadcasts. *)
UnregisterUnlocked(c) ==
  /\ reader[c] = "removing"
  /\ clients' = clients \ {c}
  /\ writer' = None
  /\ reader' = [reader EXCEPT ![c] = "closing"]
  /\ UNCHANGED <<serve, pump, channelVars, socketVars, emitterVars, panicked>>

(* Once the broadcasts that hold the read lock have ended: delete, Unlock. *)
Unregister(c) ==
  /\ reader[c] = "removing"
  /\ Broadcasting = {}
  /\ clients' = clients \ {c}
  /\ writer' = None
  /\ reader' = [reader EXCEPT ![c] = "closing"]
  /\ UNCHANGED <<serve, pump, channelVars, socketVars, emitterVars, panicked>>

(* Mutant: the channel is never closed. *)
CloseSendForgotten(c) ==
  /\ reader[c] = "closing"
  /\ reader' = [reader EXCEPT ![c] = "hangup"]
  /\ UNCHANGED <<clients, writer, serve, pump, channelVars, socketVars,
                 emitterVars, panicked>>

(* close(c.send), after the lock has been released. *)
CloseSend(c) ==
  /\ reader[c] = "closing"
  /\ closed' = [closed EXCEPT ![c] = TRUE]
  /\ panicked' = (panicked \/ closed[c])
  /\ reader' = [reader EXCEPT ![c] = "hangup"]
  /\ UNCHANGED <<clients, writer, serve, pump, send, log, dropped, socketVars,
                 emitterVars>>

(* c.conn.Close() at the end of readPump. *)
ReaderHangsUp(c) ==
  /\ reader[c] = "hangup"
  /\ conn' = [conn EXCEPT ![c] = "closed"]
  /\ reader' = [reader EXCEPT ![c] = "done"]
  /\ UNCHANGED <<clients, writer, serve, pump, channelVars, peer, inhand,
                 delivered, emitterVars, panicked>>

-----------------------------------------------------------------------------
(* writePump.                                                               *)

(* The range over c.send yields a frame; what is buffered is received even *)
(* after the channel has been closed.                                      *)
TakeFrame(c) ==
  /\ pump[c] = "waiting"
  /\ send[c] # <<>>
  /\ inhand' = [inhand EXCEPT ![c] = Head(send[c])]
  /\ send' = [send EXCEPT ![c] = Tail(@)]
  /\ pump' = [pump EXCEPT ![c] = "writing"]
  /\ UNCHANGED <<clients, writer, serve, reader, closed, log, dropped, conn,
                 peer, delivered, emitterVars, panicked>>

(* The range ends: the channel is closed and empty. *)
SendDrained(c) ==
  /\ pump[c] = "waiting"
  /\ send[c] = <<>>
  /\ closed[c]
  /\ pump' = [pump EXCEPT ![c] = "hangup"]
  /\ UNCHANGED <<clients, writer, serve, reader, channelVars, socketVars,
                 emitterVars, panicked>>

(* WriteMessage returns nil.  To a browser that has gone the bytes still   *)
(* leave for a while, and reach nobody.                                    *)
WriteOk(c) ==
  /\ pump[c] = "writing"
  /\ conn[c] = "open"
  /\ delivered' = IF peer[c] = "up"
                    THEN [delivered EXCEPT ![c] = Append(@, inhand[c])]
                    ELSE delivered
  /\ pump' = [pump EXCEPT ![c] = "waiting"]
  /\ UNCHANGED <<clients, writer, serve, reader, channelVars, conn, peer,
                 inhand, emitterVars, panicked>>

(* WriteMessage returns an error: surely once the connection is closed, and *)
(* at any time when the network fails.                                      *)
WriteFails(c) ==
  /\ pump[c] = "writing"
  /\ pump' = [pump EXCEPT ![c] = "hangup"]
  /\ UNCHANGED <<clients, writer, serve, reader, channelVars, socketVars,
                 emitterVars, panicked>>

(* The deferred c.conn.Close() of writePump. *)
PumpHangsUp(c) ==
  /\ pump[c] = "hangup"
  /\ conn' = [conn EXCEPT ![c] = "closed"]
  /\ pump' = [pump EXCEPT ![c] = "done"]
  /\ UNCHANGED <<clients, writer, serve, reader, channelVars, peer, inhand,
                 delivered, emitterVars, panicked>>

(* The browser closes its end, or the network loses it. *)
PeerLeaves(c) ==
  /\ conn[c] = "open"
  /\ peer[c] = "up"
  /\ peer' = [peer EXCEPT ![c] = "gone"]
  /\ UNCHANGED <<clients, writer, clientVars, channelVars, conn, inhand,
                 delivered, emitterVars, panicked>>

-----------------------------------------------------------------------------
(* Broadcast, called by the bus in the goroutine of the request.            *)

(* Mutant: an emitter repeats its last event. *)
BeginBroadcastAgain(e) ==
  /\ bcast[e] = "idle"
  /\ writer = None
  /\ bcast' = [bcast EXCEPT ![e] = "sending"]
  /\ round' = [round EXCEPT ![e] = @ + 1]
  /\ visit' = [visit EXCEPT ![e] = clients]
  /\ UNCHANGED <<clients, writer, clientVars, channelVars, socketVars, panicked>>

(* h.mu.RLock(): it waits while a writer holds the lock or waits for it.    *)
BeginBroadcast(e) ==
  /\ bcast[e] = "idle"
  /\ round[e] < Rounds
  /\ writer = None
  /\ bcast' = [bcast EXCEPT ![e] = "sending"]
  /\ round' = [round EXCEPT ![e] = @ + 1]
  /\ visit' = [visit EXCEPT ![e] = clients]
  /\ UNCHANGED <<clients, writer, clientVars, channelVars, socketVars, panicked>>

(* One turn of the loop over the map, whose order is arbitrary. *)
SendTo(e, c) ==
  /\ bcast[e] = "sending"
  /\ c \in visit[e]
  /\ Offer(c, FrameOf(e, round[e]))
  /\ visit' = [visit EXCEPT ![e] = @ \ {c}]
  /\ UNCHANGED <<clients, writer, clientVars, closed, socketVars, bcast, round>>

(* Mutant: the loop returns at a client whose channel is full. *)
EndBroadcastAtSlow(e) ==
  /\ bcast[e] = "sending"
  /\ \A c \in visit[e] : Len(send[c]) >= SendCap
  /\ bcast' = [bcast EXCEPT ![e] = "idle"]
  /\ UNCHANGED <<clients, writer, clientVars, channelVars, socketVars, round,
                 visit, panicked>>

(* h.mu.RUnlock(). *)
EndBroadcast(e) ==
  /\ bcast[e] = "sending"
  /\ visit[e] = {}
  /\ bcast' = [bcast EXCEPT ![e] = "idle"]
  /\ UNCHANGED <<clients, writer, clientVars, channelVars, socketVars, round,
                 visit, panicked>>

(* The request is answered: both events are out, or the job could not be    *)
(* published and its event is never emitted.                                *)
EmitterStops(e) ==
  /\ bcast[e] = "idle"
  /\ round[e] > 0
  /\ bcast' = [bcast EXCEPT ![e] = "stopped"]
  /\ UNCHANGED <<clients, writer, clientVars, channelVars, socketVars, round,
                 visit, panicked>>

(* Nothing is left to do once every connection and every request has ended. *)
Finished ==
  /\ \A c \in Client : serve[c] = "refused"
                         \/ (reader[c] = "done" /\ pump[c] = "done")
  /\ \A e \in Emitter : bcast[e] = "stopped"
  /\ UNCHANGED vars

-----------------------------------------------------------------------------
ServeStep(c) ==
  \/ Upgrade(c) \/ UpgradeFails(c)
  \/ LockToRegister(c) \/ Register(c) \/ Greet(c)

ReaderStep(c) ==
  \/ ReadError(c)
  \/ LockToUnregister(c) \/ Unregister(c) \/ CloseSend(c)
  \/ ReaderHangsUp(c)

PumpStep(c) ==
  \/ TakeFrame(c) \/ SendDrained(c)
  \/ WriteOk(c) \/ WriteFails(c)
  \/ PumpHangsUp(c)

EmitterStep(e) ==
  \/ BeginBroadcast(e)
  \/ \E c \in Client : SendTo(e, c)
  \/ EndBroadcast(e)
  \/ EmitterStops(e)

Next ==
  \/ \E c \in Client : ServeStep(c) \/ ReaderStep(c) \/ PumpStep(c) \/ PeerLeaves(c)
  \/ \E e \in Emitter : EmitterStep(e)
  \/ Finished

Spec == Init /\ [][Next]_vars

(* What the Go scheduler justifies: a goroutine that can step eventually   *)
(* does, and a write on a closed connection fails.  Nothing makes a        *)
(* browser read or leave, so WriteOk and PeerLeaves are not fair, and no   *)
(* request has to come, so BeginBroadcast is not fair either.              *)
Fairness ==
  /\ \A c \in Client :
       /\ WF_vars(Upgrade(c) \/ UpgradeFails(c))
       /\ WF_vars(LockToRegister(c))
       /\ WF_vars(Register(c) \/ Greet(c))
       /\ WF_vars(ReadError(c))
       /\ WF_vars(LockToUnregister(c))
       /\ WF_vars(Unregister(c) \/ CloseSend(c) \/ ReaderHangsUp(c))
       /\ WF_vars(TakeFrame(c) \/ SendDrained(c))
       /\ WF_vars(conn[c] = "closed" /\ WriteFails(c))
       /\ WF_vars(PumpHangsUp(c))
  /\ \A e \in Emitter :
       WF_vars((\E c \in Client : SendTo(e, c)) \/ EndBroadcast(e))

FairSpec == Spec /\ Fairness

-----------------------------------------------------------------------------
(* Properties.                                                             *)

(* Every variable has the type its declaration promises. *)
TypeOK ==
  /\ clients \subseteq Client
  /\ writer \in Client \cup {None}
  /\ serve \in [Client -> {"new", "refused", "upgraded", "registering",
                           "registered", "done"}]
  /\ reader \in [Client -> {"off", "reading", "leaving", "removing", "closing",
                            "hangup", "done"}]
  /\ pump \in [Client -> {"off", "waiting", "writing", "hangup", "done"}]
  /\ send \in [Client -> Seq(Frame)]
  /\ closed \in [Client -> BOOLEAN]
  /\ inhand \in [Client -> Frame]
  /\ conn \in [Client -> {"none", "open", "closed"}]
  /\ peer \in [Client -> {"up", "gone"}]
  /\ delivered \in [Client -> Seq(Frame)]
  /\ log \in [Client -> Seq(Frame)]
  /\ dropped \in [Client -> SUBSET Frame]
  /\ bcast \in [Emitter -> {"idle", "sending", "stopped"}]
  /\ round \in [Emitter -> 0..Rounds]
  /\ visit \in [Emitter -> SUBSET Client]
  /\ panicked \in BOOLEAN

(* No goroutine ever sends on a closed send channel or closes one twice,   *)
(* although unregister closes it outside the lock that Broadcast holds.    *)
NoPanic == ~panicked

(* The frame was accepted by the client's channel, or dropped for want of   *)
(* room.                                                                    *)
Reached(c, f) ==
  \/ \E i \in DOMAIN log[c] : log[c][i] = f
  \/ f \in dropped[c]

(* A broadcast that has passed a registered client has put its frame in    *)
(* the client's channel or dropped it because the channel was full: a      *)
(* client that registers while a broadcast runs is not silently skipped.   *)
BroadcastReaches ==
  \A e \in Emitter : bcast[e] = "sending" =>
    \A c \in clients \ visit[e] : Reached(c, FrameOf(e, round[e]))

(* A browser receives what its channel accepted, in that order and with no *)
(* gap, each frame at most once and the job of a user after the user.      *)
DeliveredInOrder ==
  \A c \in Client :
    /\ Len(delivered[c]) <= Len(log[c])
    /\ \A i \in DOMAIN delivered[c] : delivered[c][i] = log[c][i]
    /\ \A i, j \in DOMAIN log[c] : i < j =>
         /\ log[c][i] # log[c][j]
         /\ ~ \E e \in Emitter : log[c][i] = FrameOf(e, 2) /\ log[c][j] = FrameOf(e, 1)

(* A broadcast ends whatever the browsers do: a client whose channel is    *)
(* full and whose pump hangs in a write never blocks the request that      *)
(* registered a user, nor the lock that request holds.                     *)
BroadcastCompletes ==
  \A e \in Emitter : bcast[e] = "sending" ~> bcast[e] # "sending"

(* The client of a connection that has ended on either side is always      *)
(* cleaned up: it leaves the map, both pumps return and the socket is      *)
(* closed, so that dead clients do not pile up in the hub.                 *)
DeadClientsLeave ==
  \A c \in Client :
    (conn[c] = "closed" \/ (conn[c] = "open" /\ peer[c] = "gone"))
      ~> (c \notin clients /\ reader[c] = "done" /\ pump[c] = "done"
            /\ conn[c] = "closed")

(* A browser that keeps reading: the writes to it end. *)
KeepsReading(c) == WF_vars(WriteOk(c))

(* To a browser that keeps reading, every frame its channel accepted is    *)
(* delivered unless the connection ends first.                             *)
AcceptedDelivered ==
  \A c \in Client : KeepsReading(c) =>
    \A f \in Frame :
      (\E i \in DOMAIN log[c] : log[c][i] = f)
        ~> ((\E i \in DOMAIN delivered[c] : delivered[c][i] = f)
              \/ peer[c] = "gone" \/ conn[c] = "closed")
=============================================================================
