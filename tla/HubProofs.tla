---------------------------- MODULE HubProofs ----------------------------
(***************************************************************************)
(* Theorems about Hub, for every set of clients and emitters and every     *)
(* capacity of the send channels.                                          *)
(***************************************************************************)
EXTENDS Hub, Descent, SequenceTheorems, FiniteSetTheorems, TLAPS

(* The goroutines of a client that is in the map: ServeHTTP has registered *)
(* it and readPump has not unregistered it.                                *)
RegisteredClients ==
  \A c \in clients : /\ serve[c] \in {"registered", "done"}
                     /\ reader[c] \in {"off", "reading", "leaving", "removing"}

(* readPump is started by the last step of ServeHTTP. *)
ReaderStartsLast ==
  \A c \in Client : serve[c] # "done" => reader[c] = "off"

(* Only the tail of readPump runs with a closed channel. *)
ClosedByReader ==
  \A c \in Client : closed[c] => reader[c] \in {"hangup", "done"}

(* What a broadcast has yet to visit is still registered: unregister waits *)
(* for the read lock.                                                      *)
VisitsRegistered ==
  \A e \in Emitter : /\ visit[e] \subseteq clients
                     /\ visit[e] # {} => bcast[e] = "sending"

(* A running broadcast has counted its event. *)
RoundStarted ==
  \A e \in Emitter : bcast[e] = "sending" => round[e] > 0

(* The inductive strengthening of the type invariant. *)
TypeInv == TypeOK /\ RoundStarted

-----------------------------------------------------------------------------
(* Type correctness.                                                       *)

(* What a running broadcast sends is a frame. *)
LEMMA FrameTyped ==
  ASSUME TypeInv, NEW e \in Emitter, bcast[e] = "sending"
  PROVE  FrameOf(e, round[e]) \in Frame
  BY RoundsAssumption DEF TypeInv, TypeOK, RoundStarted, Frame

(* Offering a frame to a client's channel keeps the types of what it       *)
(* changes.                                                                *)
LEMMA OfferTyped ==
  ASSUME TypeOK, NEW c \in Client, NEW f \in Frame, Offer(c, f)
  PROVE  /\ send' \in [Client -> Seq(Frame)]
         /\ log' \in [Client -> Seq(Frame)]
         /\ dropped' \in [Client -> SUBSET Frame]
         /\ panicked' \in BOOLEAN
  <1>1. CASE closed[c] /\ panicked' = TRUE /\ UNCHANGED <<send, log, dropped>>
    BY <1>1 DEF TypeOK
  <1>2. CASE /\ send' = [send EXCEPT ![c] = Append(@, f)]
             /\ log' = [log EXCEPT ![c] = Append(@, f)]
             /\ UNCHANGED <<dropped, panicked>>
    <2>1. Append(send[c], f) \in Seq(Frame) /\ Append(log[c], f) \in Seq(Frame)
      <3>1. send[c] \in Seq(Frame) /\ log[c] \in Seq(Frame)
        BY DEF TypeOK
      <3> QED
        BY <3>1, AppendProperties
    <2>2. /\ send \in [Client -> Seq(Frame)] /\ log \in [Client -> Seq(Frame)]
          /\ dropped \in [Client -> SUBSET Frame] /\ panicked \in BOOLEAN
      BY DEF TypeOK
    <2> QED
      BY <1>2, <2>1, <2>2
  <1>3. CASE /\ dropped' = [dropped EXCEPT ![c] = @ \cup {f}]
             /\ UNCHANGED <<send, log, panicked>>
    <2>1. /\ send \in [Client -> Seq(Frame)] /\ log \in [Client -> Seq(Frame)]
          /\ dropped \in [Client -> SUBSET Frame] /\ panicked \in BOOLEAN
      BY DEF TypeOK
    <2> QED
      BY <1>3, <2>1
  <1> QED
    BY <1>1, <1>2, <1>3 DEF Offer

(* Every step of the hub keeps the types. *)
LEMMA TypeStep ==
  ASSUME TypeInv, [Next]_vars
  PROVE  TypeInv'
  <1> USE DEF TypeInv
  <1>1. Hello \in Frame
    BY DEF Frame
  <1>2. ASSUME NEW c \in Client, ServeStep(c)
        PROVE  TypeInv'
    <2>1. CASE Upgrade(c)
      BY <2>1 DEF Upgrade, TypeOK, RoundStarted,
        clientVars, channelVars, socketVars, emitterVars
    <2>2. CASE UpgradeFails(c)
      BY <2>2 DEF UpgradeFails, TypeOK, RoundStarted,
        clientVars, channelVars, socketVars, emitterVars
    <2>3. CASE LockToRegister(c)
      BY <2>3 DEF LockToRegister, TypeOK, RoundStarted,
        clientVars, channelVars, socketVars, emitterVars
    <2>4. CASE Register(c)
      BY <2>4 DEF Register, TypeOK, RoundStarted,
        clientVars, channelVars, socketVars, emitterVars
    <2>5. CASE Greet(c)
      BY <2>5, <1>1, OfferTyped DEF Greet, TypeOK, RoundStarted,
        clientVars, channelVars, socketVars, emitterVars
    <2> QED
      BY <1>2, <2>1, <2>2, <2>3, <2>4, <2>5 DEF ServeStep
  <1>3. ASSUME NEW c \in Client, ReaderStep(c)
        PROVE  TypeInv'
    <2>1. CASE ReadError(c)
      BY <2>1 DEF ReadError, TypeOK, RoundStarted,
        clientVars, channelVars, socketVars, emitterVars
    <2>2. CASE LockToUnregister(c)
      BY <2>2 DEF LockToUnregister, TypeOK, RoundStarted,
        clientVars, channelVars, socketVars, emitterVars
    <2>3. CASE Unregister(c)
      BY <2>3 DEF Unregister, TypeOK, RoundStarted,
        clientVars, channelVars, socketVars, emitterVars
    <2>4. CASE CloseSend(c)
      BY <2>4 DEF CloseSend, TypeOK, RoundStarted,
        clientVars, channelVars, socketVars, emitterVars
    <2>5. CASE ReaderHangsUp(c)
      BY <2>5 DEF ReaderHangsUp, TypeOK, RoundStarted,
        clientVars, channelVars, socketVars, emitterVars
    <2> QED
      BY <1>3, <2>1, <2>2, <2>3, <2>4, <2>5 DEF ReaderStep
  <1>4. ASSUME NEW c \in Client, PumpStep(c)
        PROVE  TypeInv'
    <2>1. CASE TakeFrame(c)
      BY <2>1 DEF TakeFrame, TypeOK, RoundStarted,
        clientVars, channelVars, socketVars, emitterVars
    <2>2. CASE SendDrained(c)
      BY <2>2 DEF SendDrained, TypeOK, RoundStarted,
        clientVars, channelVars, socketVars, emitterVars
    <2>3. CASE WriteOk(c)
      BY <2>3 DEF WriteOk, TypeOK, RoundStarted,
        clientVars, channelVars, socketVars, emitterVars
    <2>4. CASE WriteFails(c)
      BY <2>4 DEF WriteFails, TypeOK, RoundStarted,
        clientVars, channelVars, socketVars, emitterVars
    <2>5. CASE PumpHangsUp(c)
      BY <2>5 DEF PumpHangsUp, TypeOK, RoundStarted,
        clientVars, channelVars, socketVars, emitterVars
    <2> QED
      BY <1>4, <2>1, <2>2, <2>3, <2>4, <2>5 DEF PumpStep
  <1>5. ASSUME NEW c \in Client, PeerLeaves(c)
        PROVE  TypeInv'
    BY <1>5 DEF PeerLeaves, TypeOK, RoundStarted, clientVars, channelVars, emitterVars
  <1>6. ASSUME NEW e \in Emitter, EmitterStep(e)
        PROVE  TypeInv'
    <2>1. CASE BeginBroadcast(e)
      BY <2>1, RoundsAssumption DEF BeginBroadcast, TypeOK, RoundStarted, clientVars,
        channelVars, socketVars
    <2>2. ASSUME NEW c \in Client, SendTo(e, c)
          PROVE  TypeInv'
      <3>1. Offer(c, FrameOf(e, round[e])) /\ FrameOf(e, round[e]) \in Frame
        BY <2>2, FrameTyped DEF SendTo
      <3> QED
        BY <2>2, <3>1, OfferTyped DEF SendTo, TypeOK, RoundStarted, clientVars, socketVars
    <2>3. CASE EndBroadcast(e)
      BY <2>3 DEF EndBroadcast, TypeOK, RoundStarted,
        clientVars, channelVars, socketVars, emitterVars
    <2>4. CASE EmitterStops(e)
      BY <2>4 DEF EmitterStops, TypeOK, RoundStarted,
        clientVars, channelVars, socketVars, emitterVars
    <2> QED
      BY <1>6, <2>1, <2>2, <2>3, <2>4 DEF EmitterStep
  <1>7. CASE UNCHANGED vars
    BY <1>7 DEF vars, TypeOK, RoundStarted, clientVars, channelVars, socketVars, emitterVars
  <1> QED
    BY <1>2, <1>3, <1>4, <1>5, <1>6, <1>7 DEF Next, Finished

LEMMA Typing == Spec => []TypeInv
  <1>1. Init => TypeInv
    <2> SUFFICES ASSUME Init PROVE TypeInv
      OBVIOUS
    <2>1. Hello \in Frame /\ <<>> \in Seq(Frame)
      BY DEF Frame
    <2>2. 0 \in 0..Rounds
      BY RoundsAssumption
    <2>3. /\ send \in [Client -> Seq(Frame)]
          /\ delivered \in [Client -> Seq(Frame)]
          /\ log \in [Client -> Seq(Frame)]
          /\ inhand \in [Client -> Frame]
          /\ dropped \in [Client -> SUBSET Frame]
      BY <2>1 DEF Init
    <2>4. TypeOK
      BY <2>2, <2>3 DEF Init, TypeOK
    <2>5. RoundStarted
      BY DEF Init, RoundStarted
    <2> QED
      BY <2>4, <2>5 DEF TypeInv
  <1> QED
    BY <1>1, TypeStep, PTL DEF Spec

(* Every variable of the hub keeps its type, whatever the number of        *)
(* clients and emitters and the capacity of the channels.                  *)
THEOREM TypeCorrect == Spec => []TypeOK
  BY Typing, PTL DEF TypeInv
-----------------------------------------------------------------------------
(* No panic, and no registered client skipped.                             *)

(* The inductive strengthening of NoPanic. *)
LockInv ==
  /\ RegisteredClients
  /\ ReaderStartsLast
  /\ ClosedByReader
  /\ VisitsRegistered
  /\ NoPanic

(* An open channel accepts or drops what it is offered, and panics not. *)
LEMMA OfferSafe ==
  ASSUME NEW c \in Client, NEW f, Offer(c, f), ~closed[c], NoPanic
  PROVE  NoPanic'
  BY DEF Offer, NoPanic

LEMMA LockStep ==
  ASSUME TypeInv, LockInv, [Next]_vars
  PROVE  LockInv'
  <1> USE DEF LockInv, TypeInv
  <1>1. ASSUME NEW c \in Client, ServeStep(c)
        PROVE  LockInv'
    <2>1. CASE Upgrade(c)
      BY <2>1 DEF Upgrade, TypeOK, Broadcasting, RegisteredClients, ReaderStartsLast,
        ClosedByReader, VisitsRegistered, NoPanic,
        clientVars, channelVars, socketVars, emitterVars
    <2>2. CASE UpgradeFails(c)
      BY <2>2 DEF UpgradeFails, TypeOK, Broadcasting, RegisteredClients, ReaderStartsLast,
        ClosedByReader, VisitsRegistered, NoPanic,
        clientVars, channelVars, socketVars, emitterVars
    <2>3. CASE LockToRegister(c)
      BY <2>3 DEF LockToRegister, TypeOK, Broadcasting, RegisteredClients, ReaderStartsLast,
        ClosedByReader, VisitsRegistered, NoPanic,
        clientVars, channelVars, socketVars, emitterVars
    <2>4. CASE Register(c)
      BY <2>4 DEF Register, TypeOK, Broadcasting, RegisteredClients, ReaderStartsLast,
        ClosedByReader, VisitsRegistered, NoPanic,
        clientVars, channelVars, socketVars, emitterVars
    <2>5. CASE Greet(c)
      <3>1. ~closed[c] /\ Offer(c, Hello)
        BY <2>5 DEF Greet, ReaderStartsLast, ClosedByReader
      <3>2. NoPanic'
        BY <3>1, OfferSafe
      <3> QED
        <4>1. RegisteredClients'
          BY <2>5 DEF Greet, TypeOK, RegisteredClients
        <4>2. ReaderStartsLast'
          BY <2>5 DEF Greet, TypeOK, ReaderStartsLast
        <4>3. ClosedByReader'
          BY <2>5, <3>1 DEF Greet, TypeOK, ClosedByReader
        <4>4. VisitsRegistered'
          BY <2>5 DEF Greet, VisitsRegistered, emitterVars
        <4> QED
          BY <3>2, <4>1, <4>2, <4>3, <4>4
    <2> QED
      BY <1>1, <2>1, <2>2, <2>3, <2>4, <2>5 DEF ServeStep
  <1>2. ASSUME NEW c \in Client, ReaderStep(c)
        PROVE  LockInv'
    <2>1. CASE ReadError(c)
      BY <2>1 DEF ReadError, TypeOK, Broadcasting, RegisteredClients, ReaderStartsLast,
        ClosedByReader, VisitsRegistered, NoPanic,
        clientVars, channelVars, socketVars, emitterVars
    <2>2. CASE LockToUnregister(c)
      BY <2>2 DEF LockToUnregister, TypeOK, Broadcasting, RegisteredClients, ReaderStartsLast,
        ClosedByReader, VisitsRegistered, NoPanic,
        clientVars, channelVars, socketVars, emitterVars
    <2>3. CASE Unregister(c)
      BY <2>3 DEF Unregister, TypeOK, Broadcasting, RegisteredClients, ReaderStartsLast,
        ClosedByReader, VisitsRegistered, NoPanic,
        clientVars, channelVars, socketVars, emitterVars
    <2>4. CASE CloseSend(c)
      <3>1. ~closed[c]
        BY <2>4 DEF CloseSend, ClosedByReader
      <3>2. NoPanic'
        BY <2>4, <3>1 DEF CloseSend, NoPanic
      <3>3. RegisteredClients' /\ ReaderStartsLast'
        BY <2>4 DEF CloseSend, TypeOK, RegisteredClients, ReaderStartsLast
      <3>4. ClosedByReader'
        BY <2>4 DEF CloseSend, TypeOK, ClosedByReader
      <3>5. VisitsRegistered'
        BY <2>4 DEF CloseSend, VisitsRegistered, emitterVars
      <3> QED
        BY <3>2, <3>3, <3>4, <3>5
    <2>5. CASE ReaderHangsUp(c)
      BY <2>5 DEF ReaderHangsUp, TypeOK, Broadcasting, RegisteredClients, ReaderStartsLast,
        ClosedByReader, VisitsRegistered, NoPanic,
        clientVars, channelVars, socketVars, emitterVars
    <2> QED
      BY <1>2, <2>1, <2>2, <2>3, <2>4, <2>5 DEF ReaderStep
  <1>3. ASSUME NEW c \in Client, PumpStep(c)
        PROVE  LockInv'
    <2>1. CASE TakeFrame(c)
      BY <2>1 DEF TakeFrame, TypeOK, Broadcasting, RegisteredClients, ReaderStartsLast,
        ClosedByReader, VisitsRegistered, NoPanic,
        clientVars, channelVars, socketVars, emitterVars
    <2>2. CASE SendDrained(c)
      BY <2>2 DEF SendDrained, TypeOK, Broadcasting, RegisteredClients, ReaderStartsLast,
        ClosedByReader, VisitsRegistered, NoPanic,
        clientVars, channelVars, socketVars, emitterVars
    <2>3. CASE WriteOk(c)
      BY <2>3 DEF WriteOk, TypeOK, Broadcasting, RegisteredClients, ReaderStartsLast,
        ClosedByReader, VisitsRegistered, NoPanic,
        clientVars, channelVars, socketVars, emitterVars
    <2>4. CASE WriteFails(c)
      BY <2>4 DEF WriteFails, TypeOK, Broadcasting, RegisteredClients, ReaderStartsLast,
        ClosedByReader, VisitsRegistered, NoPanic,
        clientVars, channelVars, socketVars, emitterVars
    <2>5. CASE PumpHangsUp(c)
      BY <2>5 DEF PumpHangsUp, TypeOK, Broadcasting, RegisteredClients, ReaderStartsLast,
        ClosedByReader, VisitsRegistered, NoPanic,
        clientVars, channelVars, socketVars, emitterVars
    <2> QED
      BY <1>3, <2>1, <2>2, <2>3, <2>4, <2>5 DEF PumpStep
  <1>4. ASSUME NEW c \in Client, PeerLeaves(c)
        PROVE  LockInv'
    BY <1>4 DEF PeerLeaves, TypeOK, Broadcasting, RegisteredClients, ReaderStartsLast,
        ClosedByReader, VisitsRegistered, NoPanic,
        clientVars, channelVars, socketVars, emitterVars
  <1>5. ASSUME NEW e \in Emitter, EmitterStep(e)
        PROVE  LockInv'
    <2>1. CASE BeginBroadcast(e)
      BY <2>1 DEF BeginBroadcast, TypeOK, Broadcasting, RegisteredClients, ReaderStartsLast,
        ClosedByReader, VisitsRegistered, NoPanic,
        clientVars, channelVars, socketVars, emitterVars
    <2>2. ASSUME NEW c \in Client, SendTo(e, c)
          PROVE  LockInv'
      <3>1. ~closed[c]
        BY <2>2 DEF SendTo, VisitsRegistered, RegisteredClients, ClosedByReader
      <3>2. NoPanic'
        BY <2>2, <3>1, OfferSafe DEF SendTo
      <3> QED
        BY <2>2, <3>2 DEF SendTo, TypeOK, Broadcasting, RegisteredClients, ReaderStartsLast,
        ClosedByReader, VisitsRegistered, NoPanic,
        clientVars, channelVars, socketVars, emitterVars
    <2>3. CASE EndBroadcast(e)
      BY <2>3 DEF EndBroadcast, TypeOK, Broadcasting, RegisteredClients, ReaderStartsLast,
        ClosedByReader, VisitsRegistered, NoPanic,
        clientVars, channelVars, socketVars, emitterVars
    <2>4. CASE EmitterStops(e)
      BY <2>4 DEF EmitterStops, TypeOK, Broadcasting, RegisteredClients, ReaderStartsLast,
        ClosedByReader, VisitsRegistered, NoPanic,
        clientVars, channelVars, socketVars, emitterVars
    <2> QED
      BY <1>5, <2>1, <2>2, <2>3, <2>4 DEF EmitterStep
  <1>6. CASE UNCHANGED vars
    BY <1>6 DEF vars, TypeOK, Broadcasting, RegisteredClients, ReaderStartsLast,
        ClosedByReader, VisitsRegistered, NoPanic,
        clientVars, channelVars, socketVars, emitterVars
  <1> QED
    BY <1>1, <1>2, <1>3, <1>4, <1>5, <1>6 DEF Next, Finished

LEMMA Locking == Spec => []LockInv
  <1>1. Init => LockInv
    BY DEF Init, LockInv, RegisteredClients, ReaderStartsLast, ClosedByReader,
      VisitsRegistered, NoPanic
  <1> QED
    BY <1>1, LockStep, Typing, PTL DEF Spec

(* No goroutine ever sends on a closed channel or closes one twice.        *)
THEOREM NeverPanics == Spec => []NoPanic
  BY Locking, PTL DEF LockInv
(* What a channel has accepted or dropped stays so. *)
LEMMA ReachedKept ==
  ASSUME TypeInv, NEW c \in Client, NEW f \in Frame, Offer(c, f),
         NEW d \in Client, NEW g, Reached(d, g)
  PROVE  Reached(d, g)'
  <1>1. CASE UNCHANGED <<log, dropped>>
    BY <1>1 DEF Reached
  <1>2. CASE log' = [log EXCEPT ![c] = Append(@, f)] /\ dropped' = dropped
    <2>1. log \in [Client -> Seq(Frame)] /\ log[d] \in Seq(Frame)
      BY DEF TypeInv, TypeOK
    <2>2. CASE \E i \in DOMAIN log[d] : log[d][i] = g
      <3>1. PICK i \in DOMAIN log[d] : log[d][i] = g
        BY <2>2
      <3>2. i \in DOMAIN log'[d] /\ log'[d][i] = g
        <4>1. CASE d = c
          <5>1. log'[d] = Append(log[d], f)
            BY <1>2, <2>1, <4>1
          <5>2. DOMAIN log[d] = 1..Len(log[d]) /\ Len(log[d]) \in Nat
            BY <2>1, LenProperties
          <5>3. DOMAIN log'[d] = 1..(Len(log[d]) + 1)
            BY <2>1, <5>1, AppendProperties, LenProperties
          <5> QED
            BY <2>1, <3>1, <5>1, <5>2, <5>3, AppendProperties
        <4>2. CASE d # c
          BY <1>2, <2>1, <3>1, <4>2
        <4> QED
          BY <4>1, <4>2
      <3> QED
        BY <3>2 DEF Reached
    <2> QED
      BY <1>2, <2>2 DEF Reached
  <1>3. CASE log' = log /\ dropped' = [dropped EXCEPT ![c] = @ \cup {f}]
    BY <1>3 DEF Reached, TypeInv, TypeOK
  <1> QED
    BY <1>1, <1>2, <1>3 DEF Offer

(* A frame offered to an open channel reaches it. *)
LEMMA OfferReaches ==
  ASSUME TypeInv, NEW c \in Client, NEW f \in Frame, Offer(c, f), ~closed[c]
  PROVE  Reached(c, f)'
  <1>1. CASE log' = [log EXCEPT ![c] = Append(@, f)]
    <2>1. log \in [Client -> Seq(Frame)] /\ log[c] \in Seq(Frame)
      BY DEF TypeInv, TypeOK
    <2>2. log'[c] = Append(log[c], f)
      BY <1>1, <2>1
    <2>3. Len(log[c]) \in Nat /\ Append(log[c], f) \in Seq(Frame)
      BY <2>1, LenProperties, AppendProperties
    <2>4. Len(log[c]) + 1 \in DOMAIN log'[c] /\ log'[c][Len(log[c]) + 1] = f
      BY <2>1, <2>2, <2>3, AppendProperties, LenProperties
    <2> QED
      BY <2>4 DEF Reached
  <1>2. CASE dropped' = [dropped EXCEPT ![c] = @ \cup {f}]
    BY <1>2 DEF Reached, TypeInv, TypeOK
  <1> QED
    BY <1>1, <1>2 DEF Offer

(* Steps that touch neither the map, nor the channels' history, nor a      *)
(* broadcast.                                                              *)
LEMMA ReachUntouched ==
  ASSUME BroadcastReaches, UNCHANGED <<clients, log, dropped, bcast, round, visit>>
  PROVE  BroadcastReaches'
  BY DEF BroadcastReaches, Reached

LEMMA ReachStep ==
  ASSUME TypeInv, LockInv, BroadcastReaches, [Next]_vars
  PROVE  BroadcastReaches'
  <1>1. ASSUME NEW c \in Client, ServeStep(c)
        PROVE  BroadcastReaches'
    <2>1. CASE Upgrade(c) \/ UpgradeFails(c) \/ LockToRegister(c)
      BY <2>1, ReachUntouched DEF Upgrade, UpgradeFails, LockToRegister, channelVars,
        emitterVars
    <2>2. CASE Register(c)
      BY <2>2 DEF Register, Broadcasting, BroadcastReaches, emitterVars
    <2>3. CASE Greet(c)
      <3>1. Offer(c, Hello) /\ Hello \in Frame /\ UNCHANGED <<clients, bcast, round, visit>>
        BY <2>3 DEF Greet, Frame, emitterVars
      <3> QED
        BY <3>1, ReachedKept DEF BroadcastReaches, TypeInv, TypeOK
    <2> QED
      BY <1>1, <2>1, <2>2, <2>3 DEF ServeStep
  <1>2. ASSUME NEW c \in Client, ReaderStep(c)
        PROVE  BroadcastReaches'
    <2>1. CASE ReadError(c) \/ LockToUnregister(c) \/ CloseSend(c) \/ ReaderHangsUp(c)
      BY <2>1, ReachUntouched DEF ReadError, LockToUnregister, CloseSend, ReaderHangsUp,
        channelVars, emitterVars
    <2>2. CASE Unregister(c)
      BY <2>2 DEF Unregister, Broadcasting, BroadcastReaches, emitterVars
    <2> QED
      BY <1>2, <2>1, <2>2 DEF ReaderStep
  <1>3. ASSUME NEW c \in Client, PumpStep(c) \/ PeerLeaves(c)
        PROVE  BroadcastReaches'
    BY <1>3, ReachUntouched DEF PumpStep, TakeFrame, SendDrained, WriteOk, WriteFails,
      PumpHangsUp, PeerLeaves, channelVars, emitterVars
  <1>4. ASSUME NEW e \in Emitter, EmitterStep(e)
        PROVE  BroadcastReaches'
    <2>1. CASE BeginBroadcast(e)
      BY <2>1 DEF BeginBroadcast, BroadcastReaches, Reached, TypeInv, TypeOK, channelVars
    <2>2. ASSUME NEW c \in Client, SendTo(e, c)
          PROVE  BroadcastReaches'
      <3> DEFINE f == FrameOf(e, round[e])
      <3>1. /\ c \in visit[e] /\ bcast[e] = "sending" /\ Offer(c, f)
            /\ visit' = [visit EXCEPT ![e] = @ \ {c}]
            /\ UNCHANGED <<clients, bcast, round>>
        BY <2>2 DEF SendTo
      <3>2. f \in Frame
        BY <3>1, FrameTyped
      <3>3. ~closed[c]
        BY <3>1 DEF LockInv, VisitsRegistered, RegisteredClients, ClosedByReader
      <3>4. Reached(c, f)'
        BY <3>1, <3>2, <3>3, OfferReaches
      <3> SUFFICES ASSUME NEW x \in Emitter, bcast[x] = "sending",
                          NEW d \in clients \ visit'[x]
                   PROVE  Reached(d, FrameOf(x, round[x]))'
        BY <3>1 DEF BroadcastReaches
      <3>5. d \in Client /\ visit \in [Emitter -> SUBSET Client]
        BY DEF TypeInv, TypeOK
      <3>6. CASE d \in visit[x]
        <4>1. x = e /\ d = c
          BY <3>1, <3>5, <3>6
        <4> QED
          BY <3>1, <3>4, <4>1
      <3>7. CASE d \notin visit[x]
        <4>1. Reached(d, FrameOf(x, round[x]))
          BY <3>7 DEF BroadcastReaches
        <4>2. Reached(d, FrameOf(x, round[x])) => Reached(d, FrameOf(x, round[x]))'
          BY <3>1, <3>2, <3>5, ReachedKept
        <4> QED
          BY <4>1, <4>2
      <3> QED
        BY <3>6, <3>7
    <2>3. CASE EndBroadcast(e)
      BY <2>3 DEF EndBroadcast, BroadcastReaches, Reached, TypeInv, TypeOK, channelVars
    <2>4. CASE EmitterStops(e)
      BY <2>4 DEF EmitterStops, BroadcastReaches, Reached, TypeInv, TypeOK, channelVars
    <2> QED
      BY <1>4, <2>1, <2>2, <2>3, <2>4 DEF EmitterStep
  <1>5. CASE UNCHANGED vars
    BY <1>5, ReachUntouched DEF vars, channelVars, emitterVars
  <1> QED
    BY <1>1, <1>2, <1>3, <1>4, <1>5 DEF Next, Finished

(* A broadcast never passes a registered client without queueing its frame *)
(* or dropping it for want of room.                                        *)
THEOREM NoClientSkipped == Spec => []BroadcastReaches
  <1>1. Init => BroadcastReaches
    BY DEF Init, BroadcastReaches
  <1> QED
    BY <1>1, ReachStep, Typing, Locking, PTL DEF Spec

-----------------------------------------------------------------------------
(* What a step adds to the frames that have reached a client.              *)

(* Offering a frame makes no other frame reach anybody. *)
LEMMA OfferOnly ==
  ASSUME TypeInv, NEW c \in Client, NEW f \in Frame, Offer(c, f),
         NEW d \in Client, NEW g, Reached(d, g)', ~(d = c /\ g = f)
  PROVE  Reached(d, g)
  <1>1. CASE UNCHANGED <<log, dropped>>
    BY <1>1 DEF Reached
  <1>2. CASE log' = [log EXCEPT ![c] = Append(@, f)] /\ dropped' = dropped
    <2>1. log \in [Client -> Seq(Frame)] /\ log[d] \in Seq(Frame)
      BY DEF TypeInv, TypeOK
    <2>2. CASE d # c
      BY <1>2, <2>1, <2>2 DEF Reached
    <2>3. CASE d = c /\ g # f
      <3>1. log'[d] = Append(log[d], f)
        BY <1>2, <2>1, <2>3
      <3>2. \A i \in DOMAIN log'[d] : log'[d][i] = g => i \in DOMAIN log[d] /\ log[d][i] = g
        BY <2>1, <2>3, <3>1, AppendProperties, LenProperties
      <3> QED
        BY <1>2, <3>2 DEF Reached
    <2> QED
      BY <2>2, <2>3
  <1>3. CASE log' = log /\ dropped' = [dropped EXCEPT ![c] = @ \cup {f}]
    BY <1>3 DEF Reached, TypeInv, TypeOK
  <1> QED
    BY <1>1, <1>2, <1>3 DEF Offer

(* What has reached a client is not forgotten, and what is new is the      *)
(* greeting or what a broadcast is sending.                                *)
LEMMA HistoryStep ==
  ASSUME TypeInv, [Next]_vars, NEW d \in Client, NEW g
  PROVE  /\ Reached(d, g) => Reached(d, g)'
         /\ Reached(d, g)' =>
              \/ Reached(d, g)
              \/ g = Hello
              \/ \E e \in Emitter : bcast[e] = "sending" /\ g = FrameOf(e, round[e])
  <1>1. CASE UNCHANGED <<log, dropped>>
    BY <1>1 DEF Reached
  <1>2. ASSUME NEW c \in Client, Greet(c)
        PROVE  /\ Reached(d, g) => Reached(d, g)'
               /\ Reached(d, g)' => Reached(d, g) \/ g = Hello
    <2>1. Offer(c, Hello) /\ Hello \in Frame
      BY <1>2 DEF Greet, Frame
    <2> QED
      BY <2>1, ReachedKept, OfferOnly
  <1>3. ASSUME NEW e \in Emitter, NEW c \in Client, SendTo(e, c)
        PROVE  /\ Reached(d, g) => Reached(d, g)'
               /\ Reached(d, g)' =>
                    Reached(d, g) \/ (bcast[e] = "sending" /\ g = FrameOf(e, round[e]))
    <2>1. bcast[e] = "sending" /\ Offer(c, FrameOf(e, round[e]))
      BY <1>3 DEF SendTo
    <2>2. FrameOf(e, round[e]) \in Frame
      BY <2>1, FrameTyped
    <2> QED
      BY <2>1, <2>2, ReachedKept, OfferOnly
  <1>4. \/ UNCHANGED <<log, dropped>>
        \/ \E c \in Client : Greet(c)
        \/ \E e \in Emitter, c \in Client : SendTo(e, c)
    <2>1. ASSUME NEW c \in Client, ServeStep(c) \/ ReaderStep(c), ~Greet(c)
          PROVE  UNCHANGED <<log, dropped>>
      BY <2>1 DEF ServeStep, Upgrade, UpgradeFails, LockToRegister, Register, ReaderStep,
        ReadError, LockToUnregister, Unregister, CloseSend, ReaderHangsUp, channelVars
    <2>2. ASSUME NEW c \in Client, PumpStep(c) \/ PeerLeaves(c)
          PROVE  UNCHANGED <<log, dropped>>
      BY <2>2 DEF PumpStep, TakeFrame, SendDrained, WriteOk, WriteFails, PumpHangsUp,
        PeerLeaves, channelVars
    <2>3. ASSUME NEW e \in Emitter, BeginBroadcast(e) \/ EndBroadcast(e) \/ EmitterStops(e)
          PROVE  UNCHANGED <<log, dropped>>
      BY <2>3 DEF BeginBroadcast, EndBroadcast, EmitterStops, channelVars
    <2>4. CASE UNCHANGED vars
      BY <2>4 DEF vars, channelVars
    <2> QED
      BY <2>1, <2>2, <2>3, <2>4 DEF Next, EmitterStep, Finished
  <1> QED
    BY <1>1, <1>2, <1>3, <1>4

-----------------------------------------------------------------------------
(* The order of delivery.                                                  *)

(* The frames that have left c.send: its content is the rest of its        *)
(* history.                                                                *)
Taken(c) == Len(log[c]) - Len(send[c])

SendIsTail(c) ==
  /\ Len(send[c]) <= Len(log[c])
  /\ \A i \in 1..Len(send[c]) : send[c][i] = log[c][Taken(c) + i]

(* A browser has what was taken, but for the frame being written; one that *)
(* has gone, or whose writes have failed, has a part of it.                *)
ReceivesTaken(c) ==
  /\ Len(delivered[c]) <= Taken(c)
  /\ \A i \in 1..Len(delivered[c]) : delivered[c][i] = log[c][i]
  /\ peer[c] = "up" /\ pump[c] \in {"off", "waiting"} => Len(delivered[c]) = Taken(c)
  /\ peer[c] = "up" /\ pump[c] = "writing" =>
       Len(delivered[c]) + 1 = Taken(c) /\ inhand[c] = log[c][Taken(c)]

InOrder(c) ==
  \A i, j \in 1..Len(log[c]) : i < j =>
    /\ log[c][i] # log[c][j]
    /\ \A e \in Emitter : ~(log[c][i] = FrameOf(e, 2) /\ log[c][j] = FrameOf(e, 1))

(* What a channel has accepted is the greeting, or comes from a broadcast  *)
(* that has visited the client.                                            *)
Visited(c) ==
  \A i \in 1..Len(log[c]) :
    /\ log[c][i] = Hello => serve[c] = "done"
    /\ \A e \in Emitter, k \in 1..2 : log[c][i] = FrameOf(e, k) =>
         k <= round[e] /\ (k = round[e] /\ bcast[e] = "sending" => c \notin visit[e])

PumpStartsLast(c) == serve[c] # "done" => pump[c] = "off"

Ordered(c) == SendIsTail(c) /\ ReceivesTaken(c) /\ InOrder(c)

OrderInv == \A c \in Client : Ordered(c) /\ Visited(c) /\ PumpStartsLast(c)

LEMMA SequencesTyped ==
  ASSUME TypeInv, NEW c \in Client
  PROVE  /\ send[c] \in Seq(Frame) /\ log[c] \in Seq(Frame) /\ delivered[c] \in Seq(Frame)
         /\ Len(send[c]) \in Nat /\ Len(log[c]) \in Nat /\ Len(delivered[c]) \in Nat
         /\ DOMAIN log[c] = 1..Len(log[c]) /\ DOMAIN delivered[c] = 1..Len(delivered[c])
  BY LenProperties DEF TypeInv, TypeOK

(* A frame that is new to a client's channel keeps its order. *)
LEMMA OfferOrdered ==
  ASSUME TypeInv, NEW c \in Client, NEW f \in Frame, Offer(c, f),
         Ordered(c),
         UNCHANGED <<delivered, inhand, peer>>,
         pump'[c] = pump[c] \/ (pump[c] = "off" /\ pump'[c] = "waiting"),
         \A i \in 1..Len(log[c]) :
           /\ log[c][i] # f
           /\ \A e \in Emitter : f = FrameOf(e, 1) => log[c][i] # FrameOf(e, 2)
  PROVE  Ordered(c)'
  <1> USE DEF Ordered
  <1>0. /\ pump'[c] \in {"off", "waiting"} <=> pump[c] \in {"off", "waiting"}
        /\ pump'[c] = "writing" <=> pump[c] = "writing"
    OBVIOUS
  <1>1. CASE UNCHANGED <<log, send>>
    <2>1. InOrder(c)'
      BY <1>1 DEF InOrder, FrameOf
    <2>2. Taken(c)' = Taken(c)
      BY <1>1 DEF Taken
    <2>3. ReceivesTaken(c)'
      BY <1>0, <1>1, <2>2 DEF ReceivesTaken
    <2>4. SendIsTail(c)'
      BY <1>1, <2>2 DEF SendIsTail
    <2> QED
      BY <2>1, <2>3, <2>4
  <1>2. CASE log' = [log EXCEPT ![c] = Append(@, f)] /\ send' = [send EXCEPT ![c] = Append(@, f)]
    <2> DEFINE n == Len(log[c])
               m == Len(send[c])
    <2>1. log'[c] = Append(log[c], f) /\ send'[c] = Append(send[c], f)
      BY <1>2 DEF TypeInv, TypeOK
    <2>2. /\ n \in Nat /\ m \in Nat /\ m <= n /\ Len(delivered[c]) \in Nat
          /\ Len(log'[c]) = n + 1 /\ Len(send'[c]) = m + 1
      BY <2>1, SequencesTyped, AppendProperties, LenProperties DEF SendIsTail
    <2>3. /\ \A i \in 1..n : log'[c][i] = log[c][i]
          /\ \A i \in 1..m : send'[c][i] = send[c][i]
          /\ log'[c][n + 1] = f /\ send'[c][m + 1] = f
      BY <2>1, SequencesTyped, AppendProperties, LenProperties
    <2>4. Taken(c) = n - m /\ Taken(c)' = n - m
      BY <2>2 DEF Taken
    <2> HIDE DEF n, m
    <2>5. \A i \in 1..m : send[c][i] = log[c][n - m + i]
      BY <2>4 DEF SendIsTail, m
    <2>6. SendIsTail(c)'
      <3>1. ASSUME NEW i \in 1..(m + 1)
            PROVE  send'[c][i] = log'[c][n - m + i]
        <4>1. CASE i = m + 1
          <5>1. n - m + i = n + 1
            BY <2>2, <4>1
          <5> QED
            BY <2>3, <4>1, <5>1
        <4>2. CASE i \in 1..m
          <5>1. n - m + i \in 1..n
            BY <2>2, <4>2
          <5> QED
            BY <2>3, <2>5, <4>2, <5>1
        <4> QED
          BY <2>2, <4>1, <4>2
      <3> QED
        BY <2>2, <2>4, <3>1 DEF SendIsTail
    <2>7. ReceivesTaken(c)'
      <3>1. Len(delivered[c]) <= n - m /\ n - m \in 0..n
        BY <2>2, <2>4 DEF ReceivesTaken
      <3>2. \A i \in 1..Len(delivered[c]) : i \in 1..n /\ delivered'[c][i] = log'[c][i]
        <4>1. \A i \in 1..Len(delivered[c]) : i \in 1..n
          BY <2>2, <3>1
        <4>2. \A i \in 1..Len(delivered[c]) : delivered'[c][i] = log[c][i]
          BY DEF ReceivesTaken
        <4> QED
          BY <2>3, <4>1, <4>2
      <3>3. n - m >= 1 => log'[c][n - m] = log[c][n - m]
        BY <2>2, <2>3, <3>1
      <3>4. peer'[c] = "up" /\ pump'[c] = "writing" =>
              Len(delivered'[c]) + 1 = n - m /\ inhand'[c] = log'[c][n - m]
        BY <1>0, <2>2, <2>4, <3>3 DEF ReceivesTaken
      <3>5. peer'[c] = "up" /\ pump'[c] \in {"off", "waiting"} => Len(delivered'[c]) = n - m
        BY <1>0, <2>4 DEF ReceivesTaken
      <3> QED
        BY <2>4, <3>1, <3>2, <3>4, <3>5 DEF ReceivesTaken
    <2>8. InOrder(c)'
      <3>1. ASSUME NEW i \in 1..(n + 1), NEW j \in 1..(n + 1), i < j
            PROVE  /\ log'[c][i] # log'[c][j]
                   /\ \A e \in Emitter :
                        ~(log'[c][i] = FrameOf(e, 2) /\ log'[c][j] = FrameOf(e, 1))
        <4>1. i \in 1..n
          BY <2>2, <3>1
        <4>2. CASE j = n + 1
          BY <2>3, <4>1, <4>2 DEF n
        <4>3. CASE j \in 1..n
          BY <2>3, <3>1, <4>1, <4>3 DEF InOrder, n
        <4> QED
          BY <2>2, <4>2, <4>3
      <3> QED
        BY <2>2, <3>1 DEF InOrder, FrameOf
    <2> QED
      BY <2>6, <2>7, <2>8
  <1> QED
    BY <1>1, <1>2 DEF Offer

(* Nothing is disturbed by a pump that gives up or a browser that goes. *)
LEMMA OrderKept ==
  ASSUME NEW c \in Client, Ordered(c),
         log'[c] = log[c], send'[c] = send[c], delivered'[c] = delivered[c],
         inhand'[c] = inhand[c],
         pump'[c] \in {pump[c], "hangup", "done"}, peer'[c] \in {peer[c], "gone"}
  PROVE  Ordered(c)'
  <1>1. Taken(c)' = Taken(c)
    BY DEF Taken
  <1>2. SendIsTail(c)'
    BY <1>1 DEF Ordered, SendIsTail
  <1>3. InOrder(c)'
    BY DEF Ordered, InOrder, FrameOf
  <1>4. peer'[c] = "up" => peer[c] = "up"
    OBVIOUS
  <1>5. ReceivesTaken(c)'
    BY <1>1, <1>4 DEF Ordered, ReceivesTaken
  <1> QED
    BY <1>2, <1>3, <1>5 DEF Ordered

(* writePump takes the oldest frame from the channel. *)
LEMMA TakeOrdered ==
  ASSUME TypeInv, NEW c \in Client, Ordered(c), TakeFrame(c)
  PROVE  Ordered(c)'
  <1> DEFINE n == Len(log[c])
             m == Len(send[c])
  <1>1. /\ pump[c] = "waiting" /\ send[c] # <<>> /\ inhand'[c] = Head(send[c])
        /\ send'[c] = Tail(send[c]) /\ pump'[c] = "writing"
        /\ UNCHANGED <<log, peer, delivered>>
    BY DEF TakeFrame, TypeInv, TypeOK
  <1>2. /\ n \in Nat /\ m \in Nat /\ m <= n /\ m >= 1 /\ Len(delivered[c]) \in Nat
    BY <1>1, SequencesTyped, EmptySeq DEF Ordered, SendIsTail
  <1>3. /\ Len(send'[c]) = m - 1
        /\ \A i \in 1..(m - 1) : send'[c][i] = send[c][i + 1]
        /\ Head(send[c]) = send[c][1]
    BY <1>1, SequencesTyped, HeadTailProperties
  <1>4. Taken(c) = n - m /\ Taken(c)' = n - (m - 1)
    BY <1>1, <1>3 DEF Taken
  <1>5. \A i \in 1..m : send[c][i] = log[c][n - m + i]
    BY <1>4 DEF Ordered, SendIsTail
  <1> HIDE DEF n, m
  <1>6. SendIsTail(c)'
    <2>1. ASSUME NEW i \in 1..(m - 1)
          PROVE  send'[c][i] = log'[c][n - (m - 1) + i]
      <3>1. i + 1 \in 1..m /\ n - m + (i + 1) = n - (m - 1) + i
        BY <1>2
      <3> QED
        BY <1>1, <1>3, <1>5, <3>1
    <2>2. Len(send'[c]) <= Len(log'[c])
      BY <1>1, <1>2, <1>3 DEF n
    <2> QED
      BY <1>3, <1>4, <2>1, <2>2 DEF SendIsTail
  <1>7. ReceivesTaken(c)'
    <2>1. inhand'[c] = log[c][n - (m - 1)]
      <3>1. 1 \in 1..m /\ n - m + 1 = n - (m - 1)
        BY <1>2
      <3> QED
        BY <1>1, <1>3, <1>5, <3>1
    <2>2. /\ Len(delivered[c]) <= n - (m - 1)
          /\ peer[c] = "up" => Len(delivered[c]) + 1 = n - (m - 1)
      BY <1>1, <1>2, <1>4 DEF Ordered, ReceivesTaken
    <2>3. \A i \in 1..Len(delivered'[c]) : delivered'[c][i] = log'[c][i]
      BY <1>1 DEF Ordered, ReceivesTaken
    <2> QED
      BY <1>1, <1>4, <2>1, <2>2, <2>3 DEF ReceivesTaken
  <1>8. InOrder(c)'
    BY <1>1 DEF Ordered, InOrder, FrameOf
  <1> QED
    BY <1>6, <1>7, <1>8 DEF Ordered

(* and writes it before it takes another. *)
LEMMA WriteOrdered ==
  ASSUME TypeInv, NEW c \in Client, Ordered(c), WriteOk(c)
  PROVE  Ordered(c)'
  <1>1. /\ pump[c] = "writing" /\ pump'[c] = "waiting"
        /\ UNCHANGED <<log, send, peer, inhand>>
    BY DEF WriteOk, TypeInv, TypeOK, channelVars
  <1>2. Taken(c)' = Taken(c)
    BY <1>1 DEF Taken
  <1>3. SendIsTail(c)' /\ InOrder(c)'
    <2>1. SendIsTail(c)'
      BY <1>1, <1>2 DEF Ordered, SendIsTail
    <2>2. InOrder(c)'
      BY <1>1 DEF Ordered, InOrder, FrameOf
    <2> QED
      BY <2>1, <2>2
  <1>4. CASE peer[c] = "up"
    <2> DEFINE k == Len(delivered[c])
    <2>1. delivered'[c] = Append(delivered[c], inhand[c])
      BY <1>4 DEF WriteOk, TypeInv, TypeOK
    <2>2. /\ k \in Nat /\ Len(delivered'[c]) = k + 1
          /\ \A i \in 1..k : delivered'[c][i] = delivered[c][i]
          /\ delivered'[c][k + 1] = inhand[c]
      <3>1. inhand[c] \in Frame
        BY DEF TypeInv, TypeOK
      <3> QED
        BY <2>1, <3>1, SequencesTyped, AppendProperties, LenProperties
    <2>3. k + 1 = Taken(c) /\ inhand[c] = log[c][Taken(c)]
      BY <1>1, <1>4 DEF Ordered, ReceivesTaken
    <2>4. \A i \in 1..k : delivered[c][i] = log[c][i]
      BY DEF Ordered, ReceivesTaken
    <2> HIDE DEF k
    <2>5. ASSUME NEW i \in 1..(k + 1)
          PROVE  delivered'[c][i] = log'[c][i]
      <3>1. CASE i = k + 1
        BY <1>1, <2>2, <2>3, <3>1
      <3>2. CASE i \in 1..k
        BY <1>1, <2>2, <2>4, <3>2
      <3> QED
        BY <2>2, <3>1, <3>2
    <2>6. ReceivesTaken(c)'
      BY <1>1, <1>2, <2>2, <2>3, <2>5 DEF ReceivesTaken
    <2> QED
      BY <1>3, <2>6 DEF Ordered
  <1>5. CASE peer[c] # "up"
    <2>1. delivered' = delivered
      BY <1>5 DEF WriteOk
    <2>2. ReceivesTaken(c)'
      BY <1>1, <1>2, <1>5, <2>1 DEF Ordered, ReceivesTaken
    <2> QED
      BY <1>3, <2>2 DEF Ordered
  <1> QED
    BY <1>4, <1>5

(* A step that offers nothing. *)
LEMMA OrderStepQuiet ==
  ASSUME TypeInv, OrderInv, [Next]_vars,
         ~ \E c \in Client : Greet(c),
         ~ \E e \in Emitter, c \in Client : SendTo(e, c)
  PROVE  \A d \in Client : Ordered(d)'
  <1> SUFFICES ASSUME NEW d \in Client PROVE Ordered(d)'
    OBVIOUS
  <1>0. Ordered(d)
    BY DEF OrderInv
  <1>1. ASSUME NEW c \in Client, ServeStep(c) \/ ReaderStep(c)
        PROVE  Ordered(d)'
    <2>1. UNCHANGED <<log, send, delivered, inhand, pump, peer>>
      BY <1>1 DEF ServeStep, Upgrade, UpgradeFails, LockToRegister, Register, ReaderStep,
        ReadError, LockToUnregister, Unregister, CloseSend, ReaderHangsUp, channelVars,
        socketVars
    <2> QED
      BY <1>0, <2>1, OrderKept
  <1>2. ASSUME NEW c \in Client, PumpStep(c)
        PROVE  Ordered(d)'
    <2>1. CASE SendDrained(c) \/ WriteFails(c) \/ PumpHangsUp(c)
      <3>1. /\ UNCHANGED <<log, send, delivered, inhand, peer>>
            /\ pump'[d] \in {pump[d], "hangup", "done"}
        BY <2>1 DEF SendDrained, WriteFails, PumpHangsUp, channelVars, socketVars, TypeInv,
          TypeOK
      <3> QED
        BY <1>0, <3>1, OrderKept
    <2>2. CASE TakeFrame(c) \/ WriteOk(c)
      <3>1. CASE d = c
        BY <1>0, <2>2, <3>1, TakeOrdered, WriteOrdered
      <3>2. CASE d # c
        <4>1. /\ log'[d] = log[d] /\ send'[d] = send[d] /\ delivered'[d] = delivered[d]
              /\ inhand'[d] = inhand[d] /\ pump'[d] = pump[d] /\ peer'[d] = peer[d]
          BY <2>2, <3>2 DEF TakeFrame, WriteOk, TypeInv, TypeOK, channelVars
        <4> QED
          BY <1>0, <4>1, OrderKept
      <3> QED
        BY <3>1, <3>2
    <2> QED
      BY <1>2, <2>1, <2>2 DEF PumpStep
  <1>3. ASSUME NEW c \in Client, PeerLeaves(c)
        PROVE  Ordered(d)'
    <2>1. /\ UNCHANGED <<log, send, delivered, inhand, pump>>
          /\ peer'[d] \in {peer[d], "gone"}
      BY <1>3 DEF PeerLeaves, channelVars, clientVars, TypeInv, TypeOK
    <2> QED
      BY <1>0, <2>1, OrderKept
  <1>4. ASSUME NEW e \in Emitter, BeginBroadcast(e) \/ EndBroadcast(e) \/ EmitterStops(e)
        PROVE  Ordered(d)'
    <2>1. UNCHANGED <<log, send, delivered, inhand, pump, peer>>
      BY <1>4 DEF BeginBroadcast, EndBroadcast, EmitterStops, channelVars, socketVars,
        clientVars
    <2> QED
      BY <1>0, <2>1, OrderKept
  <1>5. CASE UNCHANGED vars
    BY <1>0, <1>5, OrderKept DEF vars, channelVars, socketVars, clientVars
  <1> QED
    BY <1>1, <1>2, <1>3, <1>4, <1>5 DEF Next, EmitterStep, Finished

(* A step that offers a client something offers it something new. *)
LEMMA OrderStepOffer ==
  ASSUME TypeInv, OrderInv, NEW c \in Client, NEW f \in Frame, Offer(c, f),
         UNCHANGED <<delivered, inhand, peer>>,
         pump' = pump \/ (pump[c] = "off" /\ pump' = [pump EXCEPT ![c] = "waiting"]),
         \A i \in 1..Len(log[c]) :
           /\ log[c][i] # f
           /\ \A e \in Emitter : f = FrameOf(e, 1) => log[c][i] # FrameOf(e, 2)
  PROVE  \A d \in Client : Ordered(d)'
  <1> SUFFICES ASSUME NEW d \in Client PROVE Ordered(d)'
    OBVIOUS
  <1>1. CASE d = c
    BY <1>1, OfferOrdered DEF OrderInv, TypeInv, TypeOK
  <1>2. CASE d # c
    <2>1. log'[d] = log[d] /\ send'[d] = send[d] /\ pump'[d] = pump[d]
      BY <1>2 DEF Offer, TypeInv, TypeOK
    <2> QED
      BY <2>1, OrderKept DEF OrderInv
  <1> QED
    BY <1>1, <1>2

(* Two broadcasts' frames differ, and so does the greeting from both. *)
LEMMA FramesDiffer ==
  ASSUME NEW e \in Emitter, NEW x \in Emitter, NEW k \in 1..2, NEW l \in 1..2
  PROVE  /\ FrameOf(e, k) # Hello
         /\ FrameOf(e, k) = FrameOf(x, l) => e = x /\ k = l
  BY DEF FrameOf, Hello, Kind

(* Whatever grows a channel's history: what is in it stays, and at most    *)
(* one frame is new.                                                       *)
LEMMA LogGrows ==
  ASSUME TypeInv, NEW c \in Client, NEW f \in Frame, Offer(c, f), NEW d \in Client,
         NEW i \in 1..Len(log'[d])
  PROVE  \/ i \in 1..Len(log[d]) /\ log'[d][i] = log[d][i]
         \/ d = c /\ log'[d][i] = f
  <1>1. CASE log' = log
    BY <1>1
  <1>2. CASE log' = [log EXCEPT ![c] = Append(@, f)]
    <2>1. CASE d = c
      <3>1. log'[d] = Append(log[d], f)
        BY <1>2, <2>1 DEF TypeInv, TypeOK
      <3> QED
        BY <2>1, <3>1, SequencesTyped, AppendProperties, LenProperties
    <2>2. CASE d # c
      BY <1>2, <2>2 DEF TypeInv, TypeOK
    <2> QED
      BY <2>1, <2>2
  <1> QED
    BY <1>1, <1>2 DEF Offer

(* An emitter goes on with its broadcast, ends it or begins the next. *)
GoesOn(e) ==
  \/ /\ round'[e] = round[e]
     /\ visit'[e] = visit[e]
     /\ bcast'[e] = "sending" => bcast[e] = "sending"
  \/ round'[e] = round[e] + 1

LEMMA VisitedQuiet ==
  ASSUME TypeInv, OrderInv, UNCHANGED log,
         \A c \in Client : serve[c] = "done" => serve'[c] = "done",
         \A e \in Emitter : GoesOn(e)
  PROVE  \A d \in Client : Visited(d)'
  <1> SUFFICES ASSUME NEW d \in Client, NEW i \in 1..Len(log[d])
               PROVE  /\ log[d][i] = Hello => serve'[d] = "done"
                      /\ \A e \in Emitter, k \in 1..2 : log[d][i] = FrameOf(e, k) =>
                           /\ k <= round'[e]
                           /\ k = round'[e] /\ bcast'[e] = "sending" => d \notin visit'[e]
    BY DEF Visited, FrameOf, Hello
  <1>1. log[d][i] = Hello => serve'[d] = "done"
    BY DEF OrderInv, Visited
  <1>2. ASSUME NEW e \in Emitter, NEW k \in 1..2, log[d][i] = FrameOf(e, k)
        PROVE  /\ k <= round'[e]
               /\ k = round'[e] /\ bcast'[e] = "sending" => d \notin visit'[e]
    <2>1. k <= round[e] /\ (k = round[e] /\ bcast[e] = "sending" => d \notin visit[e])
      BY <1>2 DEF OrderInv, Visited
    <2>2. CASE /\ round'[e] = round[e] /\ visit'[e] = visit[e]
               /\ bcast'[e] = "sending" => bcast[e] = "sending"
      BY <2>1, <2>2
    <2>3. CASE round'[e] = round[e] + 1
      <3>1. round[e] \in Nat
        BY RoundsAssumption DEF TypeInv, TypeOK
      <3>2. k <= round'[e] /\ k # round'[e]
        BY <2>1, <2>3, <3>1
      <3> QED
        BY <3>2
    <2>4. \/ /\ round'[e] = round[e] /\ visit'[e] = visit[e]
             /\ bcast'[e] = "sending" => bcast[e] = "sending"
          \/ round'[e] = round[e] + 1
      BY DEF GoesOn
    <2> QED
      BY <2>2, <2>3, <2>4
  <1> QED
    BY <1>1, <1>2

LEMMA PumpsStartLast ==
  ASSUME TypeInv, OrderInv, [Next]_vars
  PROVE  \A d \in Client : PumpStartsLast(d)'
  <1> USE DEF OrderInv, PumpStartsLast, TypeInv, TypeOK
  <1>1. ASSUME NEW c \in Client, ServeStep(c)
        PROVE  \A d \in Client : PumpStartsLast(d)'
    BY <1>1 DEF ServeStep, Upgrade, UpgradeFails, LockToRegister, Register, Greet
  <1>2. ASSUME NEW c \in Client, ReaderStep(c) \/ PeerLeaves(c)
        PROVE  \A d \in Client : PumpStartsLast(d)'
    BY <1>2 DEF ReaderStep, ReadError, LockToUnregister, Unregister, CloseSend,
      ReaderHangsUp, PeerLeaves, clientVars
  <1>3. ASSUME NEW c \in Client, PumpStep(c)
        PROVE  \A d \in Client : PumpStartsLast(d)'
    BY <1>3 DEF PumpStep, TakeFrame, SendDrained, WriteOk, WriteFails, PumpHangsUp
  <1>4. ASSUME NEW e \in Emitter, EmitterStep(e)
        PROVE  \A d \in Client : PumpStartsLast(d)'
    BY <1>4 DEF EmitterStep, BeginBroadcast, SendTo, EndBroadcast, EmitterStops, clientVars
  <1>5. CASE UNCHANGED vars
    BY <1>5 DEF vars, clientVars
  <1> QED
    BY <1>1, <1>2, <1>3, <1>4, <1>5 DEF Next, Finished

LEMMA OrderStep ==
  ASSUME TypeInv, OrderInv, [Next]_vars
  PROVE  OrderInv'
  <1>1. \A d \in Client : PumpStartsLast(d)'
    BY PumpsStartLast
  <1>2. ASSUME NEW c \in Client, Greet(c)
        PROVE  \A d \in Client : (Ordered(d) /\ Visited(d))'
    <2>1. /\ Offer(c, Hello) /\ Hello \in Frame
          /\ serve[c] = "registered" /\ serve' = [serve EXCEPT ![c] = "done"]
          /\ pump' = [pump EXCEPT ![c] = "waiting"]
          /\ UNCHANGED <<delivered, inhand, peer, bcast, round, visit>>
      BY <1>2 DEF Greet, Frame, socketVars, emitterVars
    <2>2. pump[c] = "off"
      BY <2>1 DEF OrderInv, PumpStartsLast
    <2>3. \A i \in 1..Len(log[c]) : log[c][i] # Hello
      BY <2>1 DEF OrderInv, Visited
    <2>4. \A e \in Emitter : Hello # FrameOf(e, 1)
      BY FramesDiffer
    <2>5. \A d \in Client : Ordered(d)'
      BY <2>1, <2>2, <2>3, <2>4, OrderStepOffer
    <2>6. ASSUME NEW d \in Client
          PROVE  Visited(d)'
      <3> SUFFICES ASSUME NEW i \in 1..Len(log'[d])
                   PROVE  /\ log'[d][i] = Hello => serve'[d] = "done"
                          /\ \A e \in Emitter, k \in 1..2 : log'[d][i] = FrameOf(e, k) =>
                               k <= round[e] /\
                                 (k = round[e] /\ bcast[e] = "sending" => d \notin visit[e])
        BY <2>1 DEF Visited, FrameOf, Hello
      <3>1. CASE i \in 1..Len(log[d]) /\ log'[d][i] = log[d][i]
        <4>1. serve[d] = "done" => serve'[d] = "done"
          BY <2>1 DEF TypeInv, TypeOK
        <4> QED
          BY <3>1, <4>1 DEF OrderInv, Visited
      <3>2. CASE d = c /\ log'[d][i] = Hello
        <4>1. serve'[d] = "done"
          BY <2>1, <3>2 DEF TypeInv, TypeOK
        <4> QED
          BY <3>2, <4>1, FramesDiffer
      <3> QED
        BY <2>1, <3>1, <3>2, LogGrows
    <2> QED
      BY <2>5, <2>6
  <1>3. ASSUME NEW e \in Emitter, NEW c \in Client, SendTo(e, c)
        PROVE  \A d \in Client : (Ordered(d) /\ Visited(d))'
    <2> DEFINE f == FrameOf(e, round[e])
    <2>1. /\ bcast[e] = "sending" /\ c \in visit[e] /\ Offer(c, f)
          /\ visit' = [visit EXCEPT ![e] = @ \ {c}]
          /\ UNCHANGED <<serve, pump, delivered, inhand, peer, bcast, round>>
      BY <1>3 DEF SendTo, clientVars, socketVars
    <2>2. f \in Frame /\ round[e] \in 1..2
      BY <2>1, FrameTyped, RoundsAssumption DEF TypeInv, TypeOK, RoundStarted
    <2>3. \A i \in 1..Len(log[c]) : log[c][i] # f
      BY <2>1, <2>2 DEF OrderInv, Visited
    <2>4. ASSUME NEW x \in Emitter, f = FrameOf(x, 1), NEW i \in 1..Len(log[c])
          PROVE  log[c][i] # FrameOf(x, 2)
      <3>1. x = e /\ round[e] = 1
        BY <2>2, <2>4, FramesDiffer
      <3> QED
        BY <3>1 DEF OrderInv, Visited
    <2>5. \A d \in Client : Ordered(d)'
      <3> HIDE DEF f
      <3> QED
        BY <2>1, <2>2, <2>3, <2>4, OrderStepOffer
    <2>6. ASSUME NEW d \in Client
          PROVE  Visited(d)'
      <3> SUFFICES ASSUME NEW i \in 1..Len(log'[d])
                   PROVE  /\ log'[d][i] = Hello => serve[d] = "done"
                          /\ \A x \in Emitter, k \in 1..2 : log'[d][i] = FrameOf(x, k) =>
                               k <= round[x] /\
                                 (k = round[x] /\ bcast[x] = "sending" => d \notin visit'[x])
        BY <2>1 DEF Visited, FrameOf, Hello
      <3>0. \A x \in Emitter : visit'[x] \subseteq visit[x]
        BY <2>1 DEF TypeInv, TypeOK
      <3>1. CASE i \in 1..Len(log[d]) /\ log'[d][i] = log[d][i]
        BY <3>0, <3>1 DEF OrderInv, Visited
      <3>2. CASE d = c /\ log'[d][i] = f
        <4>1. c \notin visit'[e]
          BY <2>1 DEF TypeInv, TypeOK
        <4>2. f # Hello
          BY <2>2, FramesDiffer
        <4>3. \A x \in Emitter, k \in 1..2 : f = FrameOf(x, k) => x = e /\ k = round[e]
          BY <2>2, FramesDiffer
        <4> QED
          BY <2>2, <3>2, <4>1, <4>2, <4>3
      <3> QED
        <4> HIDE DEF f
        <4> QED
          BY <2>1, <2>2, <3>1, <3>2, LogGrows
    <2> QED
      BY <2>5, <2>6
  <1>4. CASE /\ ~ \E c \in Client : Greet(c)
             /\ ~ \E e \in Emitter, c \in Client : SendTo(e, c)
    <2>1. \A d \in Client : Ordered(d)'
      BY <1>4, OrderStepQuiet
    <2>2. /\ UNCHANGED log
          /\ \A c \in Client : serve[c] = "done" => serve'[c] = "done"
          /\ \A e \in Emitter : GoesOn(e)
      <3>0. (UNCHANGED <<bcast, round, visit>>) => \A e \in Emitter : GoesOn(e)
        BY DEF GoesOn
      <3>1. ASSUME NEW c \in Client, ServeStep(c) \/ ReaderStep(c)
            PROVE  /\ UNCHANGED <<log, bcast, round, visit>>
                   /\ \A d \in Client : serve[d] = "done" => serve'[d] = "done"
        BY <1>4, <3>1 DEF ServeStep, Upgrade, UpgradeFails, LockToRegister, Register,
          ReaderStep, ReadError, LockToUnregister, Unregister, CloseSend, ReaderHangsUp,
          channelVars, emitterVars, TypeInv, TypeOK
      <3>2. ASSUME NEW c \in Client, PumpStep(c) \/ PeerLeaves(c)
            PROVE  UNCHANGED <<log, bcast, round, visit, serve>>
        BY <3>2 DEF PumpStep, TakeFrame, SendDrained, WriteOk, WriteFails, PumpHangsUp,
          PeerLeaves, channelVars, emitterVars, clientVars
      <3>3. ASSUME NEW e \in Emitter, BeginBroadcast(e) \/ EndBroadcast(e) \/ EmitterStops(e)
            PROVE  /\ UNCHANGED <<log, serve>>
                   /\ \A x \in Emitter : GoesOn(x)
        <4>1. UNCHANGED <<log, serve>>
          BY <3>3 DEF BeginBroadcast, EndBroadcast, EmitterStops, channelVars, clientVars
        <4>2. ASSUME NEW x \in Emitter
              PROVE  GoesOn(x)
          <5>1. CASE BeginBroadcast(e)
            BY <5>1 DEF BeginBroadcast, GoesOn, TypeInv, TypeOK
          <5>2. CASE EndBroadcast(e) \/ EmitterStops(e)
            BY <5>2 DEF EndBroadcast, EmitterStops, GoesOn, TypeInv, TypeOK
          <5> QED
            BY <3>3, <5>1, <5>2
        <4> QED
          BY <4>1, <4>2
      <3>4. CASE UNCHANGED vars
        BY <3>0, <3>4 DEF vars, channelVars, emitterVars, clientVars
      <3> QED
        BY <1>4, <3>0, <3>1, <3>2, <3>3, <3>4 DEF Next, EmitterStep, Finished
    <2>3. \A d \in Client : Visited(d)'
      BY <2>2, VisitedQuiet
    <2> QED
      BY <2>1, <2>3, <1>1 DEF OrderInv
  <1> QED
    BY <1>1, <1>2, <1>3, <1>4 DEF OrderInv

LEMMA Ordering == Spec => []OrderInv
  <1>1. Init => OrderInv
    <2> SUFFICES ASSUME Init, NEW c \in Client
                 PROVE  Ordered(c) /\ Visited(c) /\ PumpStartsLast(c)
      BY DEF OrderInv
    <2>1. /\ log[c] = <<>> /\ send[c] = <<>> /\ delivered[c] = <<>>
          /\ Len(<<>>) = 0 /\ pump[c] = "off" /\ serve[c] = "new"
      BY EmptySeq DEF Init
    <2> QED
      BY <2>1 DEF Ordered, SendIsTail, ReceivesTaken, Taken, InOrder, Visited, PumpStartsLast
  <1> QED
    BY <1>1, OrderStep, Typing, PTL DEF Spec

(* A browser gets what its channel accepted, in order, without gap and     *)
(* repetition, the user before its job.                                    *)
THEOREM InOrderDelivery == Spec => []DeliveredInOrder
  <1>1. TypeInv /\ OrderInv => DeliveredInOrder
    <2> SUFFICES ASSUME TypeInv, OrderInv, NEW c \in Client
                 PROVE  /\ Len(delivered[c]) <= Len(log[c])
                        /\ \A i \in DOMAIN delivered[c] : delivered[c][i] = log[c][i]
                        /\ \A i, j \in DOMAIN log[c] : i < j =>
                             /\ log[c][i] # log[c][j]
                             /\ ~ \E e \in Emitter : /\ log[c][i] = FrameOf(e, 2)
                                                     /\ log[c][j] = FrameOf(e, 1)
      BY DEF DeliveredInOrder
    <2>1. /\ Len(send[c]) \in Nat /\ Len(log[c]) \in Nat /\ Len(delivered[c]) \in Nat
          /\ DOMAIN log[c] = 1..Len(log[c]) /\ DOMAIN delivered[c] = 1..Len(delivered[c])
      BY SequencesTyped
    <2>2. Ordered(c)
      BY DEF OrderInv
    <2>3. Len(delivered[c]) <= Len(log[c])
      <3>1. Len(delivered[c]) <= Len(log[c]) - Len(send[c])
        BY <2>2 DEF Ordered, ReceivesTaken, Taken
      <3>2. \A d, n, m \in Nat : d <= n - m => d <= n
        OBVIOUS
      <3> QED
        BY <2>1, <3>1, <3>2
    <2>4. \A i \in DOMAIN delivered[c] : delivered[c][i] = log[c][i]
      BY <2>1, <2>2 DEF Ordered, ReceivesTaken
    <2>5. \A i, j \in DOMAIN log[c] : i < j =>
            /\ log[c][i] # log[c][j]
            /\ ~ \E e \in Emitter : log[c][i] = FrameOf(e, 2) /\ log[c][j] = FrameOf(e, 1)
      BY <2>1, <2>2 DEF Ordered, InOrder
    <2> QED
      BY <2>3, <2>4, <2>5
  <1> QED
    BY <1>1, Ordering, Typing, PTL

(* What its channel accepted and a browser has not yet received is queued  *)
(* or being written, as long as the browser is there and its pump runs: no *)
(* frame is swallowed between broadcast and socket.                        *)
NothingSwallowed ==
  \A c \in Client : peer[c] = "up" /\ pump[c] \in {"off", "waiting", "writing"} =>
    log[c] = delivered[c] \o (IF pump[c] = "writing" THEN <<inhand[c]>> ELSE <<>>)
                          \o send[c]

(* Three sequences that are, one after the other, what a fourth is.        *)
ThreeParts(s, a, b, d) ==
  /\ Len(s) = Len(a) + Len(b) + Len(d)
  /\ \A i \in 1..Len(a) : a[i] = s[i]
  /\ \A i \in 1..Len(b) : b[i] = s[Len(a) + i]
  /\ \A i \in 1..Len(d) : d[i] = s[Len(a) + Len(b) + i]

LEMMA InThreeParts ==
  ASSUME NEW S, NEW a \in Seq(S), NEW b \in Seq(S), NEW d \in Seq(S), NEW s \in Seq(S),
         ThreeParts(s, a, b, d)
  PROVE  s = a \o b \o d
  <1> USE DEF ThreeParts
  <1> DEFINE m == Len(a)
             n == Len(b)
             k == Len(d)
             ab == a \o b
             abd == ab \o d
  <1>0. abd = a \o b \o d
    OBVIOUS
  <1>1. m \in Nat /\ n \in Nat /\ k \in Nat
    BY LenProperties
  <1>2. /\ ab \in Seq(S) /\ Len(ab) = m + n
        /\ \A i \in 1..(m + n) : ab[i] = IF i <= m THEN a[i] ELSE b[i - m]
    BY ConcatProperties
  <1>3. \A i \in 1..(m + n) : ab[i] = s[i]
    <2> SUFFICES ASSUME NEW i \in 1..(m + n)
                 PROVE  ab[i] = s[i]
      OBVIOUS
    <2>1. CASE i <= m
      BY <1>1, <1>2, <2>1
    <2>2. CASE ~(i <= m)
      <3>1. i - m \in 1..n /\ m + (i - m) = i
        BY <1>1, <2>2
      <3> QED
        BY <1>2, <2>2, <3>1
    <2> QED
      BY <2>1, <2>2
  <1> HIDE DEF ab
  <1>4. /\ abd \in Seq(S) /\ Len(abd) = m + n + k
        /\ \A i \in 1..(m + n + k) : abd[i] = IF i <= m + n THEN ab[i] ELSE d[i - (m + n)]
    <2>1. /\ ab \o d \in Seq(S) /\ Len(ab \o d) = Len(ab) + k
          /\ \A i \in 1..(Len(ab) + k) :
               (ab \o d)[i] = IF i <= Len(ab) THEN ab[i] ELSE d[i - Len(ab)]
      BY <1>2, ConcatProperties
    <2> QED
      BY <1>2, <2>1
  <1>5. \A i \in 1..(m + n + k) : abd[i] = s[i]
    <2> SUFFICES ASSUME NEW i \in 1..(m + n + k)
                 PROVE  abd[i] = s[i]
      OBVIOUS
    <2>1. CASE i <= m + n
      BY <1>1, <1>3, <1>4, <2>1
    <2>2. CASE ~(i <= m + n)
      <3>1. i - (m + n) \in 1..k /\ m + n + (i - (m + n)) = i
        BY <1>1, <2>2
      <3> QED
        BY <1>4, <2>2, <3>1
    <2> QED
      BY <2>1, <2>2
  <1> HIDE DEF abd
  <1>6. s = abd
    BY <1>4, <1>5, SeqEqual
  <1> QED
    BY <1>0, <1>6

(* A frame leaves the channel of a browser that is there only to be        *)
(* delivered: what was accepted is what was delivered, then what is in     *)
(* hand, then what is queued.                                              *)
THEOREM NoFrameSwallowed == Spec => []NothingSwallowed
  <1>1. TypeInv /\ OrderInv => NothingSwallowed
    <2> SUFFICES ASSUME TypeInv, OrderInv, NEW c \in Client, peer[c] = "up",
                        pump[c] \in {"off", "waiting", "writing"}
                 PROVE  log[c] = delivered[c]
                          \o (IF pump[c] = "writing" THEN <<inhand[c]>> ELSE <<>>)
                          \o send[c]
      BY DEF NothingSwallowed
    <2> DEFINE n == Len(log[c])
               m == Len(send[c])
               k == Len(delivered[c])
               held == IF pump[c] = "writing" THEN <<inhand[c]>> ELSE <<>>
    <2>1. /\ send[c] \in Seq(Frame) /\ log[c] \in Seq(Frame) /\ delivered[c] \in Seq(Frame)
          /\ n \in Nat /\ m \in Nat /\ k \in Nat /\ inhand[c] \in Frame
      BY SequencesTyped DEF TypeInv, TypeOK
    <2>2. /\ m <= n /\ \A i \in 1..m : send[c][i] = log[c][n - m + i]
          /\ \A i \in 1..k : delivered[c][i] = log[c][i]
          /\ pump[c] # "writing" => k = n - m
          /\ pump[c] = "writing" => k + 1 = n - m /\ inhand[c] = log[c][n - m]
      BY DEF OrderInv, Ordered, SendIsTail, ReceivesTaken, Taken
    <2>3. log[c] = delivered[c] \o held \o send[c]
            => log[c] = delivered[c]
                 \o (IF pump[c] = "writing" THEN <<inhand[c]>> ELSE <<>>)
                 \o send[c]
      OBVIOUS
    <2> HIDE DEF n, m, k
    <2>4. /\ held \in Seq(Frame) /\ k + Len(held) = n - m
          /\ \A i \in 1..Len(held) : held[i] = log[c][k + i]
      <3>1. CASE pump[c] = "writing"
        <4>1. held = <<inhand[c]>>
          BY <3>1
        <4>2. /\ <<inhand[c]>> \in Seq(Frame) /\ Len(<<inhand[c]>>) = 1
              /\ <<inhand[c]>>[1] = inhand[c]
          BY <2>1
        <4> HIDE DEF held
        <4>3. k + 1 = n - m /\ inhand[c] = log[c][k + 1]
          BY <2>2, <3>1
        <4>4. held \in Seq(Frame) /\ Len(held) = 1 /\ held[1] = inhand[c]
          BY <4>1, <4>2
        <4>5. \A i \in 1..Len(held) : i = 1
          BY <4>4
        <4> QED
          BY <4>3, <4>4, <4>5
      <3>2. CASE pump[c] # "writing"
        <4>1. held = <<>>
          BY <3>2
        <4>2. <<>> \in Seq(Frame) /\ Len(<<>>) = 0
          OBVIOUS
        <4> HIDE DEF held
        <4>3. k + 0 = n - m
          BY <2>1, <2>2, <3>2
        <4>4. held \in Seq(Frame) /\ Len(held) = 0
          BY <4>1, <4>2
        <4>5. \A i \in 1..Len(held) : FALSE
          BY <4>4
        <4> QED
          BY <4>3, <4>4, <4>5
      <3> QED
        BY <3>1, <3>2
    <2> HIDE DEF held
    <2>5. Len(held) \in Nat /\ n = k + Len(held) + m /\ n - m = k + Len(held)
      <3>1. Len(held) \in Nat
        BY <2>4, LenProperties
      <3> QED
        BY <2>1, <2>2, <2>4, <3>1
    <2> QED
      <3>1. \A i \in 1..m : send[c][i] = log[c][k + Len(held) + i]
        BY <2>2, <2>5
      <3>2. ThreeParts(log[c], delivered[c], held, send[c])
        BY <2>2, <2>4, <2>5, <3>1 DEF ThreeParts, n, m, k
      <3>3. /\ log[c] \in Seq(Frame) /\ delivered[c] \in Seq(Frame)
            /\ held \in Seq(Frame) /\ send[c] \in Seq(Frame)
        BY <2>1, <2>4
      <3>4. log[c] = delivered[c] \o held \o send[c]
        BY <3>2, <3>3, InThreeParts
      <3> QED
        BY <2>3, <3>4
  <1> QED
    BY <1>1, Ordering, Typing, PTL

-----------------------------------------------------------------------------
(* Liveness.  The prover has no rule for ENABLED, so what Fairness says is  *)
(* stated with its guards written out; the box of GuardedFairness adds      *)
(* nothing, as each condition is about the far future.                      *)

MayServe(c) == (serve[c] = "registering" /\ Broadcasting = {}) \/ serve[c] = "registered"
MayFail(c) == reader[c] = "reading" /\ (peer[c] = "gone" \/ conn[c] = "closed")
MayLeave(c) ==
  (reader[c] = "removing" /\ Broadcasting = {}) \/ reader[c] \in {"closing", "hangup"}
MayPump(c) == pump[c] = "waiting" /\ (send[c] # <<>> \/ closed[c])
MustFail(c) == conn[c] = "closed" /\ pump[c] = "writing"

Serve(c) == Register(c) \/ Greet(c)
Leave(c) == Unregister(c) \/ CloseSend(c) \/ ReaderHangsUp(c)
Pump(c) == TakeFrame(c) \/ SendDrained(c)
Fail(c) == conn[c] = "closed" /\ WriteFails(c)
Emit(e) == (\E c \in Client : SendTo(e, c)) \/ EndBroadcast(e)

GoroutinesGoOn(c) ==
  /\ []<>~(serve[c] = "upgraded" /\ writer = None) \/ []<><<LockToRegister(c)>>_vars
  /\ []<>~MayServe(c) \/ []<><<Serve(c)>>_vars
  /\ []<>~MayFail(c) \/ []<><<ReadError(c)>>_vars
  /\ []<>~(reader[c] = "leaving" /\ writer = None) \/ []<><<LockToUnregister(c)>>_vars
  /\ []<>~MayLeave(c) \/ []<><<Leave(c)>>_vars
  /\ []<>~MayPump(c) \/ []<><<Pump(c)>>_vars
  /\ []<>~MustFail(c) \/ []<><<Fail(c)>>_vars
  /\ []<>~(pump[c] = "hangup") \/ []<><<PumpHangsUp(c)>>_vars

EmitterGoesOn(e) == []<>~(bcast[e] = "sending") \/ []<><<Emit(e)>>_vars

AllGoOn ==
  /\ \A c \in Client : GoroutinesGoOn(c)
  /\ \A e \in Emitter : EmitterGoesOn(e)

GuardedFairness == []AllGoOn

-----------------------------------------------------------------------------
(* Broadcasts end.                                                         *)

(* The sets a broadcast goes through, and that of the broadcasts, are      *)
(* finite: they grow by one element at a time.                             *)
FiniteInv ==
  /\ IsFiniteSet(clients)
  /\ IsFiniteSet(Broadcasting)
  /\ \A e \in Emitter : IsFiniteSet(visit[e])

LEMMA FiniteStep ==
  ASSUME TypeInv, FiniteInv, [Next]_vars
  PROVE  FiniteInv'
  <1> USE DEF TypeInv, TypeOK, FiniteInv
  <1>1. ASSUME NEW c \in Client, ServeStep(c) \/ ReaderStep(c)
        PROVE  FiniteInv'
    <2>1. clients' \in {clients, clients \cup {c}, clients \ {c}} /\ UNCHANGED <<bcast, visit>>
      BY <1>1 DEF ServeStep, ReaderStep, Upgrade, UpgradeFails, LockToRegister, Register,
        Greet, ReadError, LockToUnregister, Unregister, CloseSend, ReaderHangsUp, emitterVars
    <2>2. IsFiniteSet(clients \cup {c}) /\ IsFiniteSet(clients \ {c})
      BY FS_AddElement, FS_RemoveElement
    <2> QED
      BY <2>1, <2>2 DEF Broadcasting
  <1>2. ASSUME UNCHANGED <<clients, bcast, visit>>
        PROVE  FiniteInv'
    <2>1. Broadcasting' = Broadcasting
      BY <1>2 DEF Broadcasting
    <2> QED
      BY <1>2, <2>1
  <1>3. ASSUME NEW c \in Client, PumpStep(c) \/ PeerLeaves(c)
        PROVE  UNCHANGED <<clients, bcast, visit>>
    BY <1>3 DEF PumpStep, PeerLeaves, TakeFrame, SendDrained, WriteOk, WriteFails,
      PumpHangsUp, emitterVars
  <1>4. ASSUME NEW e \in Emitter, EmitterStep(e)
        PROVE  FiniteInv'
    <2>1. CASE BeginBroadcast(e)
      <3>1. Broadcasting' = Broadcasting \cup {e}
        BY <2>1 DEF BeginBroadcast, Broadcasting
      <3>2. IsFiniteSet(Broadcasting')
        BY <3>1, FS_AddElement
      <3> QED
        BY <2>1, <3>2 DEF BeginBroadcast
    <2>2. ASSUME NEW c \in Client, SendTo(e, c)
          PROVE  FiniteInv'
      <3>1. IsFiniteSet(visit[e] \ {c})
        BY FS_RemoveElement
      <3> QED
        BY <2>2, <3>1 DEF SendTo, Broadcasting
    <2>3. CASE EndBroadcast(e) \/ EmitterStops(e)
      <3>1. Broadcasting' \subseteq Broadcasting
        BY <2>3 DEF EndBroadcast, EmitterStops, Broadcasting
      <3>2. IsFiniteSet(Broadcasting')
        BY <3>1, FS_Subset
      <3> QED
        BY <2>3, <3>2 DEF EndBroadcast, EmitterStops
    <2> QED
      BY <1>4, <2>1, <2>2, <2>3 DEF EmitterStep
  <1>5. UNCHANGED vars => UNCHANGED <<clients, bcast, visit>>
    BY DEF vars, emitterVars
  <1> QED
    BY <1>1, <1>2, <1>3, <1>4, <1>5 DEF Next, Finished

LEMMA Finiteness == Spec => []FiniteInv
  <1>1. Init => FiniteInv
    <2> SUFFICES ASSUME Init PROVE FiniteInv
      OBVIOUS
    <2>1. Broadcasting = {}
      BY DEF Init, Broadcasting
    <2> QED
      BY <2>1, FS_EmptySet DEF Init, FiniteInv
  <1> QED
    BY <1>1, FiniteStep, Typing, PTL DEF Spec

(* A running broadcast with n clients yet to visit. *)
ToVisit(e, n) == bcast[e] = "sending" /\ Cardinality(visit[e]) = n
FewerToVisit(e, n) == \E m \in Nat : m < n /\ ToVisit(e, m)
SomeToVisit(e) == \E n \in Nat : ToVisit(e, n)

(* The loop over the clients ends if every turn of it does. *)
VisitsRunOut(e) == Descends(LAMBDA n : ToVisit(e, n), ~(bcast[e] = "sending"))

VisitsGoOn(e, n) == ToVisit(e, n) ~> (~(bcast[e] = "sending") \/ FewerToVisit(e, n))
LoopEnds(e) ==
  (\A n \in Nat : VisitsGoOn(e, n)) => (SomeToVisit(e) ~> ~(bcast[e] = "sending"))

LEMMA VisitsStep ==
  ASSUME TypeInv, LockInv, FiniteInv, [Next]_vars, NEW e \in Emitter, NEW n \in Nat,
         ToVisit(e, n)
  PROVE  /\ ToVisit(e, n)' \/ ~(bcast'[e] = "sending") \/ FewerToVisit(e, n)'
         /\ Emit(e) => ~(bcast'[e] = "sending") \/ FewerToVisit(e, n)'
  <1> USE DEF TypeInv, TypeOK
  <1>1. ASSUME NEW c \in Client, SendTo(e, c)
        PROVE  FewerToVisit(e, n)'
    <2>1. c \in visit[e] /\ visit'[e] = visit[e] \ {c} /\ bcast' = bcast
      BY <1>1 DEF SendTo
    <2>2. IsFiniteSet(visit[e])
      BY DEF FiniteInv
    <2>3. /\ IsFiniteSet(visit[e] \ {c})
          /\ Cardinality(visit[e] \ {c}) = Cardinality(visit[e]) - 1
      BY <2>1, <2>2, FS_RemoveElement
    <2>4. Cardinality(visit[e] \ {c}) \in Nat
      BY <2>3, FS_CardinalityType
    <2>5. Cardinality(visit'[e]) = n - 1 /\ n - 1 \in Nat /\ n - 1 < n
      BY <2>1, <2>3, <2>4 DEF ToVisit
    <2> QED
      BY <2>1, <2>5 DEF ToVisit, FewerToVisit
  <1>2. EndBroadcast(e) => ~(bcast'[e] = "sending")
    BY DEF EndBroadcast
  <1>3. Emit(e) => ~(bcast'[e] = "sending") \/ FewerToVisit(e, n)'
    BY <1>1, <1>2 DEF Emit
  <1>4. ASSUME NEW d \in Emitter, EmitterStep(d), ~Emit(e)
        PROVE  ToVisit(e, n)'
    <2>1. d # e
      BY <1>4 DEF EmitterStep, Emit, BeginBroadcast, EmitterStops, ToVisit
    <2>2. bcast'[e] = bcast[e] /\ visit'[e] = visit[e]
      BY <1>4, <2>1 DEF EmitterStep, BeginBroadcast, SendTo, EndBroadcast, EmitterStops
    <2> QED
      BY <2>2 DEF ToVisit
  <1>5. ASSUME NEW c \in Client, ServeStep(c) \/ ReaderStep(c) \/ PumpStep(c) \/ PeerLeaves(c)
        PROVE  UNCHANGED emitterVars
    BY <1>5 DEF ServeStep, ReaderStep, PumpStep, PeerLeaves, Upgrade, UpgradeFails,
      LockToRegister, Register, Greet, ReadError, LockToUnregister, Unregister, CloseSend,
      ReaderHangsUp, TakeFrame, SendDrained, WriteOk, WriteFails, PumpHangsUp
  <1>6. UNCHANGED emitterVars => ToVisit(e, n)' /\ ~(bcast'[e] # "sending")
    BY DEF emitterVars, ToVisit
  <1>7. UNCHANGED vars => UNCHANGED emitterVars
    BY DEF vars
  <1> HIDE DEF TypeInv, TypeOK
  <1> QED
    BY <1>3, <1>4, <1>5, <1>6, <1>7 DEF Next, Finished

HoldInv == TypeInv /\ LockInv /\ FiniteInv

(* A broadcast ends. *)
BroadcastEnds(e) == bcast[e] = "sending" ~> ~(bcast[e] = "sending")

LEMMA EmitterEnds ==
  ASSUME NEW e \in Emitter
  PROVE  []HoldInv /\ [][Next]_vars /\ []EmitterGoesOn(e) /\ VisitsRunOut(e)
           => BroadcastEnds(e)
  <1>1. ASSUME NEW n \in Nat
        PROVE  []HoldInv /\ [][Next]_vars /\ []EmitterGoesOn(e) => VisitsGoOn(e, n)
    <2>1. HoldInv /\ [Next]_vars /\ ToVisit(e, n)
            => ToVisit(e, n)' \/ ~(bcast[e] = "sending")' \/ FewerToVisit(e, n)'
      BY VisitsStep DEF HoldInv
    <2>2. HoldInv /\ [Next]_vars /\ ToVisit(e, n) /\ Emit(e)
            => ~(bcast[e] = "sending")' \/ FewerToVisit(e, n)'
      BY VisitsStep DEF HoldInv
    <2>3. ToVisit(e, n) => bcast[e] = "sending"
      BY DEF ToVisit
    <2> QED
      BY <2>1, <2>2, <2>3, PTL DEF EmitterGoesOn, VisitsGoOn
  <1>2. []HoldInv /\ [][Next]_vars /\ []EmitterGoesOn(e) => \A n \in Nat : VisitsGoOn(e, n)
    BY <1>1
  <1>3. VisitsRunOut(e) => LoopEnds(e)
    BY DEF VisitsRunOut, Descends, LoopEnds, VisitsGoOn, FewerToVisit, SomeToVisit
  <1>4. LoopEnds(e) /\ (\A n \in Nat : VisitsGoOn(e, n))
          => (SomeToVisit(e) ~> ~(bcast[e] = "sending"))
    BY DEF LoopEnds
  <1>5. HoldInv /\ bcast[e] = "sending" => SomeToVisit(e)
    BY FS_CardinalityType DEF HoldInv, FiniteInv, SomeToVisit, ToVisit
  <1> QED
    BY <1>2, <1>3, <1>4, <1>5, PTL DEF BroadcastEnds

AllEmit == \A e \in Emitter : EmitterGoesOn(e)

(* The loops of all broadcasts. *)
LoopsRunOut == \A e \in Emitter : VisitsRunOut(e)

(* The same as the property says it. *)
Completes(e) == bcast[e] = "sending" ~> bcast[e] # "sending"

(* A broadcast ends whatever the browsers do: none of them has to read for *)
(* the loop over the clients to go on, and the loop is a finite one.       *)
THEOREM BroadcastsEnd == Spec /\ GuardedFairness /\ LoopsRunOut => BroadcastCompletes
  <1>1. Spec => []HoldInv
    BY Typing, Locking, Finiteness, PTL DEF HoldInv
  <1>2. ASSUME NEW e \in Emitter
        PROVE  []HoldInv /\ [][Next]_vars /\ GuardedFairness /\ LoopsRunOut => Completes(e)
    <2>1. AllGoOn => EmitterGoesOn(e)
      BY DEF AllGoOn
    <2>2. LoopsRunOut => VisitsRunOut(e)
      BY DEF LoopsRunOut
    <2>3. bcast[e] # "sending" <=> ~(bcast[e] = "sending")
      OBVIOUS
    <2> QED
      BY <2>1, <2>2, <2>3, EmitterEnds, PTL DEF GuardedFairness, BroadcastEnds, Completes
  <1>3. []HoldInv /\ [][Next]_vars /\ GuardedFairness /\ LoopsRunOut
          => \A e \in Emitter : Completes(e)
    BY <1>2
  <1>4. (\A e \in Emitter : Completes(e)) => BroadcastCompletes
    BY DEF Completes, BroadcastCompletes
  <1> QED
    BY <1>1, <1>3, <1>4, PTL DEF Spec

-----------------------------------------------------------------------------
(* The hub's lock is freed.                                                *)

(* The lock has the writer that is about to register or to unregister. *)
WriterInv ==
  \A c \in Client : writer = c <=> serve[c] = "registering" \/ reader[c] = "removing"

LEMMA WriterStep ==
  ASSUME TypeInv, LockInv, WriterInv, [Next]_vars
  PROVE  WriterInv'
  <1> SUFFICES ASSUME NEW d \in Client
               PROVE  (writer = d <=> serve[d] = "registering" \/ reader[d] = "removing")'
    BY DEF WriterInv
  <1>0. writer = d <=> serve[d] = "registering" \/ reader[d] = "removing"
    BY DEF WriterInv
  <1> USE <1>0, NoneAssumption DEF TypeInv, TypeOK, LockInv, ReaderStartsLast
  <1>1. ASSUME NEW c \in Client, ServeStep(c)
        PROVE  (writer = d <=> serve[d] = "registering" \/ reader[d] = "removing")'
    <2>1. CASE Upgrade(c) \/ UpgradeFails(c)
      BY <2>1 DEF Upgrade, UpgradeFails
    <2>2. CASE LockToRegister(c)
      BY <2>2 DEF LockToRegister
    <2>3. CASE Register(c)
      <3>1. writer = c
        BY <2>3 DEF Register, WriterInv
      <3> QED
        BY <2>3, <3>1 DEF Register
    <2>4. CASE Greet(c)
      BY <2>4 DEF Greet
    <2> QED
      BY <1>1, <2>1, <2>2, <2>3, <2>4 DEF ServeStep
  <1>2. ASSUME NEW c \in Client, ReaderStep(c)
        PROVE  (writer = d <=> serve[d] = "registering" \/ reader[d] = "removing")'
    <2>1. CASE ReadError(c) \/ CloseSend(c) \/ ReaderHangsUp(c)
      BY <2>1 DEF ReadError, CloseSend, ReaderHangsUp
    <2>2. CASE LockToUnregister(c)
      BY <2>2 DEF LockToUnregister
    <2>3. CASE Unregister(c)
      <3>1. writer = c
        BY <2>3 DEF Unregister, WriterInv
      <3> QED
        BY <2>3, <3>1 DEF Unregister
    <2> QED
      BY <1>2, <2>1, <2>2, <2>3 DEF ReaderStep
  <1>3. ASSUME NEW c \in Client, PumpStep(c) \/ PeerLeaves(c)
        PROVE  UNCHANGED <<writer, serve, reader>>
    BY <1>3 DEF PumpStep, PeerLeaves, TakeFrame, SendDrained, WriteOk, WriteFails,
      PumpHangsUp, clientVars
  <1>4. ASSUME NEW e \in Emitter, EmitterStep(e)
        PROVE  UNCHANGED <<writer, serve, reader>>
    BY <1>4 DEF EmitterStep, BeginBroadcast, SendTo, EndBroadcast, EmitterStops, clientVars
  <1>5. UNCHANGED vars => UNCHANGED <<writer, serve, reader>>
    BY DEF vars, clientVars
  <1> HIDE DEF TypeInv, TypeOK, LockInv, ReaderStartsLast
  <1> QED
    BY <1>1, <1>2, <1>3, <1>4, <1>5 DEF Next, Finished

LEMMA Writing == Spec => []WriterInv
  <1>1. Init => WriterInv
    BY NoneAssumption DEF Init, WriterInv
  <1> QED
    BY <1>1, WriterStep, Typing, Locking, PTL DEF Spec

FreeInv == HoldInv /\ WriterInv

(* Who writes keeps the lock or frees it, and no broadcast begins          *)
(* meanwhile.                                                              *)
LEMMA WriterHolds ==
  ASSUME FreeInv, [Next]_vars, writer # None
  PROVE  /\ writer' \in {writer, None}
         /\ Broadcasting' \subseteq Broadcasting
  <1> USE DEF FreeInv, HoldInv, TypeInv, TypeOK
  <1>1. ASSUME NEW c \in Client,
               ServeStep(c) \/ ReaderStep(c) \/ PumpStep(c) \/ PeerLeaves(c)
        PROVE  writer' \in {writer, None} /\ UNCHANGED bcast
    BY <1>1 DEF ServeStep, ReaderStep, PumpStep, PeerLeaves, Upgrade, UpgradeFails,
      LockToRegister, Register, Greet, ReadError, LockToUnregister, Unregister, CloseSend,
      ReaderHangsUp, TakeFrame, SendDrained, WriteOk, WriteFails, PumpHangsUp, emitterVars
  <1>2. ASSUME NEW e \in Emitter, EmitterStep(e)
        PROVE  /\ writer' = writer
               /\ \A d \in Emitter : bcast'[d] = "sending" => bcast[d] = "sending"
    BY <1>2 DEF EmitterStep, BeginBroadcast, SendTo, EndBroadcast, EmitterStops
  <1>3. UNCHANGED vars => UNCHANGED <<writer, bcast>>
    BY DEF vars, emitterVars
  <1> QED
    BY <1>1, <1>2, <1>3 DEF Next, Finished, Broadcasting

(* A writer waits for n broadcasts. *)
Awaited(n) == ~(writer = None) /\ Cardinality(Broadcasting) = n
FewerAwaited(n) == \E m \in Nat : m < n /\ Awaited(m)
SomeAwaited == \E n \in Nat : Awaited(n)
Unheld == writer = None \/ Broadcasting = {}

(* The writer waits for ever if for ever for one of these. *)
AwaitedRunOut == Descends(LAMBDA n : Awaited(n), Unheld)

AwaitedGoOn(n) == Awaited(n) ~> (Unheld \/ FewerAwaited(n))
ReadersLeave == (\A n \in Nat : AwaitedGoOn(n)) => (SomeAwaited ~> Unheld)

LEMMA AwaitedStep ==
  ASSUME FreeInv, [Next]_vars, NEW n \in Nat, Awaited(n)
  PROVE  \/ Awaited(n)' /\ Broadcasting' = Broadcasting
         \/ Unheld' \/ FewerAwaited(n)'
  <1>1. Broadcasting' \subseteq Broadcasting /\ IsFiniteSet(Broadcasting)
    BY WriterHolds DEF Awaited, FreeInv, HoldInv, FiniteInv
  <1>2. /\ IsFiniteSet(Broadcasting')
        /\ Cardinality(Broadcasting') <= Cardinality(Broadcasting)
        /\ Cardinality(Broadcasting) = Cardinality(Broadcasting')
             => Broadcasting = Broadcasting'
    BY <1>1, FS_Subset
  <1>3. Cardinality(Broadcasting') \in Nat
    BY <1>2, FS_CardinalityType
  <1>4. CASE Cardinality(Broadcasting') = n
    BY <1>2, <1>4 DEF Awaited, Unheld
  <1>5. CASE ~(Cardinality(Broadcasting') = n)
    <2>1. Cardinality(Broadcasting') < n
      BY <1>2, <1>3, <1>5 DEF Awaited
    <2> QED
      BY <1>3, <2>1 DEF FewerAwaited, Awaited, Unheld
  <1> QED
    BY <1>4, <1>5

AllEnd == \A e \in Emitter : BroadcastEnds(e)

AwaitedOf(e, n) == Awaited(n) /\ bcast[e] = "sending"

LEMMA AwaitedEnds ==
  ASSUME NEW n \in Nat
  PROVE  []FreeInv /\ [][Next]_vars /\ []AllEnd => AwaitedGoOn(n)
  <1> SUFFICES ASSUME []FreeInv, [][Next]_vars, []AllEnd
               PROVE  [](Awaited(n) => <>(Unheld \/ FewerAwaited(n)))
    BY PTL DEF AwaitedGoOn
  <1>1. ASSUME NEW e \in Emitter
        PROVE  AwaitedOf(e, n) => <>(Unheld \/ FewerAwaited(n))
    <2>1. AllEnd => BroadcastEnds(e)
      BY DEF AllEnd
    <2>2. FreeInv /\ [Next]_vars /\ AwaitedOf(e, n)
            => AwaitedOf(e, n)' \/ Unheld' \/ FewerAwaited(n)'
      BY AwaitedStep DEF AwaitedOf, Broadcasting
    <2>3. AwaitedOf(e, n) => bcast[e] = "sending"
      BY DEF AwaitedOf
    <2> QED
      BY <2>1, <2>2, <2>3, PTL DEF BroadcastEnds
  <1>2. Awaited(n) => Unheld \/ \E e \in Emitter : AwaitedOf(e, n)
    BY DEF Unheld, AwaitedOf, Broadcasting
  <1>3. Awaited(n) => Unheld \/ <>(Unheld \/ FewerAwaited(n))
    BY <1>1, <1>2
  <1> QED
    BY <1>3, PTL

(* All broadcasts end. *)
LEMMA BroadcastsAllEnd ==
  []FreeInv /\ [][Next]_vars /\ []AllEmit /\ []LoopsRunOut => AllEnd
  <1>1. ASSUME NEW e \in Emitter
        PROVE  []FreeInv /\ [][Next]_vars /\ []AllEmit /\ []LoopsRunOut => BroadcastEnds(e)
    <2>1. AllEmit => EmitterGoesOn(e)
      BY DEF AllEmit
    <2>2. LoopsRunOut => VisitsRunOut(e)
      BY DEF LoopsRunOut
    <2>3. FreeInv => HoldInv
      BY DEF FreeInv
    <2> QED
      BY <2>1, <2>2, <2>3, EmitterEnds, PTL
  <1> QED
    BY <1>1 DEF AllEnd

(* The writer goes on once the broadcasts it waits for have ended. *)
WriterGoesOn(c) ==
  []<>~(writer = c /\ Broadcasting = {}) \/ []<><<Register(c) \/ Unregister(c)>>_vars

AllWrite == \A c \in Client : WriterGoesOn(c)

LockFreed == ~(writer = None) ~> writer = None

LEMMA LockIsFreed ==
  []FreeInv /\ [][Next]_vars /\ []AllEmit /\ []AllWrite /\ []LoopsRunOut /\ AwaitedRunOut
    => LockFreed
  <1>1. []FreeInv /\ [][Next]_vars /\ []AllEmit /\ []LoopsRunOut => []AllEnd
    BY BroadcastsAllEnd, PTL
  <1>2. []FreeInv /\ [][Next]_vars /\ []AllEnd => \A n \in Nat : AwaitedGoOn(n)
    BY AwaitedEnds
  <1>3. AwaitedRunOut => ReadersLeave
    BY DEF AwaitedRunOut, ReadersLeave, Descends, AwaitedGoOn, SomeAwaited, FewerAwaited
  <1>4. ReadersLeave /\ (\A n \in Nat : AwaitedGoOn(n)) => (SomeAwaited ~> Unheld)
    BY DEF ReadersLeave
  <1>5. FreeInv /\ ~(writer = None) => SomeAwaited
    BY FS_CardinalityType DEF FreeInv, HoldInv, FiniteInv, SomeAwaited, Awaited
  <1>6. ASSUME NEW c \in Client
        PROVE  []FreeInv /\ [][Next]_vars /\ []AllWrite
                 => (writer = c /\ Broadcasting = {} ~> writer = None)
    <2>1. AllWrite => WriterGoesOn(c)
      BY DEF AllWrite
    <2>2. FreeInv /\ [Next]_vars /\ (writer = c /\ Broadcasting = {})
            => (writer = c /\ Broadcasting = {})' \/ (writer = None)'
      BY WriterHolds, NoneAssumption
    <2>3. Register(c) \/ Unregister(c) => (writer = None)'
      BY DEF Register, Unregister
    <2> QED
      BY <2>1, <2>2, <2>3, PTL DEF WriterGoesOn
  <1>7. []FreeInv /\ [][Next]_vars /\ []AllWrite => (Unheld ~> writer = None)
    <2> SUFFICES ASSUME []FreeInv, [][Next]_vars, []AllWrite
                 PROVE  [](Unheld => <>(writer = None))
      BY PTL
    <2>1. ASSUME NEW c \in Client
          PROVE  writer = c /\ Broadcasting = {} => <>(writer = None)
      BY <1>6, PTL
    <2>2. FreeInv
      BY PTL
    <2>3. Unheld => writer = None \/ \E c \in Client : writer = c /\ Broadcasting = {}
      BY <2>2 DEF Unheld, FreeInv, HoldInv, TypeInv, TypeOK
    <2>4. Unheld => writer = None \/ <>(writer = None)
      BY <2>1, <2>3
    <2> QED
      BY <2>4, PTL
  <1> QED
    BY <1>1, <1>2, <1>3, <1>4, <1>5, <1>7, PTL DEF LockFreed

-----------------------------------------------------------------------------
(* Who waits for the hub's lock gets it: every client takes the lock twice *)
(* at most, once to register and once to unregister.                       *)

MayTake(c, p) ==
  IF p = "serve" THEN serve[c] \in {"new", "upgraded"}
                 ELSE reader[c] \in {"off", "reading", "leaving"}

Takers == {t \in Client \X {"serve", "reader"} : MayTake(t[1], t[2])}

LEMMA TakersStep ==
  ASSUME FreeInv, [Next]_vars
  PROVE  /\ Takers' \subseteq Takers
         /\ writer = None /\ ~(writer' = None) => Takers' # Takers
  <1> USE NoneAssumption DEF FreeInv, HoldInv, TypeInv, TypeOK
  <1>1. ASSUME NEW c \in Client, NEW d \in Client, ServeStep(c) \/ ReaderStep(c)
        PROVE  /\ serve'[d] \in {"new", "upgraded"} => serve[d] \in {"new", "upgraded"}
               /\ reader'[d] \in {"off", "reading", "leaving"}
                    => reader[d] \in {"off", "reading", "leaving"}
    <2>1. CASE Upgrade(c) \/ UpgradeFails(c) \/ LockToRegister(c) \/ Register(c)
      BY <2>1 DEF Upgrade, UpgradeFails, LockToRegister, Register
    <2>2. CASE Greet(c)
      <3>1. reader[c] = "off"
        BY <2>2 DEF Greet, LockInv, ReaderStartsLast
      <3> QED
        BY <2>2, <3>1 DEF Greet
    <2>3. CASE ReaderStep(c)
      BY <2>3 DEF ReaderStep, ReadError, LockToUnregister, Unregister, CloseSend,
        ReaderHangsUp
    <2> QED
      BY <1>1, <2>1, <2>2, <2>3 DEF ServeStep
  <1>2. ASSUME NEW c \in Client, PumpStep(c) \/ PeerLeaves(c)
        PROVE  UNCHANGED <<serve, reader, writer>>
    BY <1>2 DEF PumpStep, PeerLeaves, TakeFrame, SendDrained, WriteOk, WriteFails,
      PumpHangsUp, clientVars
  <1>3. ASSUME NEW e \in Emitter, EmitterStep(e)
        PROVE  UNCHANGED <<serve, reader, writer>>
    BY <1>3 DEF EmitterStep, BeginBroadcast, SendTo, EndBroadcast, EmitterStops, clientVars
  <1>4. UNCHANGED vars => UNCHANGED <<serve, reader, writer>>
    BY DEF vars, clientVars
  <1>5. ASSUME NEW c \in Client, ServeStep(c) \/ ReaderStep(c), writer = None,
               ~(writer' = None)
        PROVE  \E p \in {"serve", "reader"} : MayTake(c, p) /\ ~MayTake(c, p)'
    <2>1. LockToRegister(c) \/ LockToUnregister(c)
      BY <1>5 DEF ServeStep, ReaderStep, Upgrade, UpgradeFails, Register, Greet, ReadError,
        Unregister, CloseSend, ReaderHangsUp
    <2>2. CASE LockToRegister(c)
      <3>1. MayTake(c, "serve") /\ ~MayTake(c, "serve")'
        BY <2>2 DEF LockToRegister, MayTake
      <3> QED
        BY <3>1
    <2>3. CASE LockToUnregister(c)
      <3>1. MayTake(c, "reader") /\ ~MayTake(c, "reader")'
        BY <2>3 DEF LockToUnregister, MayTake
      <3> QED
        BY <3>1
    <2> QED
      BY <2>1, <2>2, <2>3
  <1>6. ASSUME NEW d \in Client
        PROVE  /\ serve'[d] \in {"new", "upgraded"} => serve[d] \in {"new", "upgraded"}
               /\ reader'[d] \in {"off", "reading", "leaving"}
                    => reader[d] \in {"off", "reading", "leaving"}
    BY <1>1, <1>2, <1>3, <1>4 DEF Next, Finished
  <1>7. Takers' \subseteq Takers
    BY <1>6 DEF Takers, MayTake
  <1>8. ASSUME writer = None, ~(writer' = None)
        PROVE  Takers' # Takers
    <2>1. PICK c \in Client : ServeStep(c) \/ ReaderStep(c)
      BY <1>2, <1>3, <1>4, <1>8 DEF Next, Finished
    <2>2. PICK p \in {"serve", "reader"} : MayTake(c, p) /\ ~MayTake(c, p)'
      BY <1>5, <1>8, <2>1
    <2>3. <<c, p>> \in Takers /\ <<c, p>> \notin Takers'
      BY <2>2 DEF Takers
    <2> QED
      BY <2>3
  <1> QED
    BY <1>7, <1>8

(* A step takes the lock, or leaves it free if it was, and the number of   *)
(* those who may yet take it shows which.                                  *)
LEMMA FewerTake ==
  ASSUME IsFiniteSet(Client), FreeInv, [Next]_vars
  PROVE  /\ Cardinality(Takers) \in Nat /\ Cardinality(Takers') \in Nat
         /\ \/ Cardinality(Takers') < Cardinality(Takers)
            \/ /\ Cardinality(Takers') = Cardinality(Takers)
               /\ writer = None => writer' = None
  <1>1. IsFiniteSet({"serve", "reader"})
    <2>1. {"serve", "reader"} = ({} \cup {"serve"}) \cup {"reader"}
      OBVIOUS
    <2>2. IsFiniteSet({} \cup {"serve"})
      BY FS_EmptySet, FS_AddElement
    <2>3. IsFiniteSet(({} \cup {"serve"}) \cup {"reader"})
      BY <2>2, FS_AddElement
    <2> QED
      BY <2>1, <2>3
  <1>2. IsFiniteSet(Client \X {"serve", "reader"})
    BY <1>1, FS_Product
  <1>3. Takers \subseteq Client \X {"serve", "reader"}
    BY DEF Takers
  <1>4. IsFiniteSet(Takers)
    BY <1>2, <1>3, FS_Subset
  <1>5. Takers' \subseteq Takers
    BY TakersStep
  <1>6. /\ IsFiniteSet(Takers') /\ Cardinality(Takers') <= Cardinality(Takers)
        /\ Cardinality(Takers) = Cardinality(Takers') => Takers = Takers'
    BY <1>4, <1>5, FS_Subset
  <1>7. Cardinality(Takers) \in Nat /\ Cardinality(Takers') \in Nat
    BY <1>4, <1>6, FS_CardinalityType
  <1> QED
    BY <1>6, <1>7, TakersStep

(* A client at the door, or on its way out, and n may yet take the lock.   *)
AtDoor(c, n) == serve[c] = "upgraded" /\ Cardinality(Takers) = n
FewerAtDoor(c, n) == \E m \in Nat : m < n /\ AtDoor(c, m)
SomeAtDoor(c) == \E n \in Nat : AtDoor(c, n)

AtExit(c, n) == reader[c] = "leaving" /\ Cardinality(Takers) = n
FewerAtExit(c, n) == \E m \in Nat : m < n /\ AtExit(c, m)
SomeAtExit(c) == \E n \in Nat : AtExit(c, n)

(* Nobody is passed by for ever by those who take the lock twice at most.  *)
DoorsRunOut(c) == Descends(LAMBDA n : AtDoor(c, n), serve[c] = "registering")
ExitsRunOut(c) == Descends(LAMBDA n : AtExit(c, n), reader[c] = "removing")

DoorGoesOn(c, n) == AtDoor(c, n) ~> (serve[c] = "registering" \/ FewerAtDoor(c, n))
ExitGoesOn(c, n) == AtExit(c, n) ~> (reader[c] = "removing" \/ FewerAtExit(c, n))
DoorOpens(c) == (\A n \in Nat : DoorGoesOn(c, n)) => (SomeAtDoor(c) ~> serve[c] = "registering")
ExitOpens(c) == (\A n \in Nat : ExitGoesOn(c, n)) => (SomeAtExit(c) ~> reader[c] = "removing")

(* What is not taken by others is taken by who waits. *)
LEMMA DoorStep ==
  ASSUME IsFiniteSet(Client), FreeInv, [Next]_vars, NEW c \in Client, NEW n \in Nat,
         AtDoor(c, n)
  PROVE  \/ AtDoor(c, n)' /\ (writer = None => writer' = None)
         \/ serve'[c] = "registering" \/ FewerAtDoor(c, n)'
  <1>1. serve'[c] \in {"upgraded", "registering"}
    <2> USE DEF FreeInv, HoldInv, TypeInv, TypeOK, AtDoor
    <2>1. ASSUME NEW d \in Client, ServeStep(d)
          PROVE  serve'[c] \in {"upgraded", "registering"}
      BY <2>1 DEF ServeStep, Upgrade, UpgradeFails, LockToRegister, Register, Greet
    <2>2. ASSUME NEW d \in Client, ReaderStep(d) \/ PumpStep(d) \/ PeerLeaves(d)
          PROVE  serve' = serve
      BY <2>2 DEF ReaderStep, PumpStep, PeerLeaves, ReadError, LockToUnregister, Unregister,
        CloseSend, ReaderHangsUp, TakeFrame, SendDrained, WriteOk, WriteFails, PumpHangsUp,
        clientVars
    <2>3. ASSUME NEW e \in Emitter, EmitterStep(e)
          PROVE  serve' = serve
      BY <2>3 DEF EmitterStep, BeginBroadcast, SendTo, EndBroadcast, EmitterStops, clientVars
    <2>4. UNCHANGED vars => serve' = serve
      BY DEF vars, clientVars
    <2> QED
      BY <2>1, <2>2, <2>3, <2>4 DEF Next, Finished
  <1> QED
    BY <1>1, FewerTake DEF AtDoor, FewerAtDoor

LEMMA ExitStep ==
  ASSUME IsFiniteSet(Client), FreeInv, [Next]_vars, NEW c \in Client, NEW n \in Nat,
         AtExit(c, n)
  PROVE  \/ AtExit(c, n)' /\ (writer = None => writer' = None)
         \/ reader'[c] = "removing" \/ FewerAtExit(c, n)'
  <1>1. reader'[c] \in {"leaving", "removing"}
    <2> USE DEF FreeInv, HoldInv, TypeInv, TypeOK, LockInv, ReaderStartsLast, AtExit
    <2>1. ASSUME NEW d \in Client, ServeStep(d)
          PROVE  reader'[c] = reader[c]
      BY <2>1 DEF ServeStep, Upgrade, UpgradeFails, LockToRegister, Register, Greet
    <2>2. ASSUME NEW d \in Client, ReaderStep(d)
          PROVE  reader'[c] \in {"leaving", "removing"}
      BY <2>2 DEF ReaderStep, ReadError, LockToUnregister, Unregister, CloseSend,
        ReaderHangsUp
    <2>3. ASSUME NEW d \in Client, PumpStep(d) \/ PeerLeaves(d)
          PROVE  reader' = reader
      BY <2>3 DEF PumpStep, PeerLeaves, TakeFrame, SendDrained, WriteOk, WriteFails,
        PumpHangsUp, clientVars
    <2>4. ASSUME NEW e \in Emitter, EmitterStep(e)
          PROVE  reader' = reader
      BY <2>4 DEF EmitterStep, BeginBroadcast, SendTo, EndBroadcast, EmitterStops, clientVars
    <2>5. UNCHANGED vars => reader' = reader
      BY DEF vars, clientVars
    <2> QED
      BY <2>1, <2>2, <2>3, <2>4, <2>5 DEF Next, Finished
  <1> QED
    BY <1>1, FewerTake DEF AtExit, FewerAtExit

LEMMA DoorAnswered ==
  ASSUME IsFiniteSet(Client), NEW c \in Client
  PROVE  []FreeInv /\ [][Next]_vars /\ GuardedFairness /\ LockFreed /\ DoorsRunOut(c)
           => (serve[c] = "upgraded" ~> serve[c] = "registering")
  <1>1. AllGoOn => \/ []<>~(serve[c] = "upgraded" /\ writer = None)
                   \/ []<><<LockToRegister(c)>>_vars
    BY DEF AllGoOn, GoroutinesGoOn
  <1>2. ASSUME NEW n \in Nat
        PROVE  []FreeInv /\ [][Next]_vars /\ GuardedFairness /\ LockFreed => DoorGoesOn(c, n)
    <2>1. FreeInv /\ [Next]_vars /\ AtDoor(c, n)
            => \/ AtDoor(c, n)' /\ (writer = None => (writer = None)')
               \/ (serve[c] = "registering")' \/ FewerAtDoor(c, n)'
      BY DoorStep
    <2>2. FreeInv /\ LockToRegister(c) => (serve[c] = "registering")'
      BY DEF LockToRegister, FreeInv, HoldInv, TypeInv, TypeOK
    <2>3. AtDoor(c, n) => serve[c] = "upgraded"
      BY DEF AtDoor
    <2> QED
      BY <1>1, <2>1, <2>2, <2>3, PTL DEF GuardedFairness, LockFreed, DoorGoesOn
  <1>3. []FreeInv /\ [][Next]_vars /\ GuardedFairness /\ LockFreed
          => \A n \in Nat : DoorGoesOn(c, n)
    BY <1>2
  <1>4. DoorsRunOut(c) => DoorOpens(c)
    BY DEF DoorsRunOut, DoorOpens, Descends, DoorGoesOn, SomeAtDoor, FewerAtDoor
  <1>5. DoorOpens(c) /\ (\A n \in Nat : DoorGoesOn(c, n))
          => (SomeAtDoor(c) ~> serve[c] = "registering")
    BY DEF DoorOpens
  <1>6. FreeInv /\ [Next]_vars /\ serve[c] = "upgraded" => SomeAtDoor(c)
    BY FewerTake DEF SomeAtDoor, AtDoor
  <1> QED
    BY <1>3, <1>4, <1>5, <1>6, PTL

LEMMA ExitAnswered ==
  ASSUME IsFiniteSet(Client), NEW c \in Client
  PROVE  []FreeInv /\ [][Next]_vars /\ GuardedFairness /\ LockFreed /\ ExitsRunOut(c)
           => (reader[c] = "leaving" ~> reader[c] = "removing")
  <1>1. AllGoOn => \/ []<>~(reader[c] = "leaving" /\ writer = None)
                   \/ []<><<LockToUnregister(c)>>_vars
    BY DEF AllGoOn, GoroutinesGoOn
  <1>2. ASSUME NEW n \in Nat
        PROVE  []FreeInv /\ [][Next]_vars /\ GuardedFairness /\ LockFreed => ExitGoesOn(c, n)
    <2>1. FreeInv /\ [Next]_vars /\ AtExit(c, n)
            => \/ AtExit(c, n)' /\ (writer = None => (writer = None)')
               \/ (reader[c] = "removing")' \/ FewerAtExit(c, n)'
      BY ExitStep
    <2>2. FreeInv /\ LockToUnregister(c) => (reader[c] = "removing")'
      BY DEF LockToUnregister, FreeInv, HoldInv, TypeInv, TypeOK
    <2>3. AtExit(c, n) => reader[c] = "leaving"
      BY DEF AtExit
    <2> QED
      BY <1>1, <2>1, <2>2, <2>3, PTL DEF GuardedFairness, LockFreed, ExitGoesOn
  <1>3. []FreeInv /\ [][Next]_vars /\ GuardedFairness /\ LockFreed
          => \A n \in Nat : ExitGoesOn(c, n)
    BY <1>2
  <1>4. ExitsRunOut(c) => ExitOpens(c)
    BY DEF ExitsRunOut, ExitOpens, Descends, ExitGoesOn, SomeAtExit, FewerAtExit
  <1>5. ExitOpens(c) /\ (\A n \in Nat : ExitGoesOn(c, n))
          => (SomeAtExit(c) ~> reader[c] = "removing")
    BY DEF ExitOpens
  <1>6. FreeInv /\ [Next]_vars /\ reader[c] = "leaving" => SomeAtExit(c)
    BY FewerTake DEF SomeAtExit, AtExit
  <1> QED
    BY <1>3, <1>4, <1>5, <1>6, PTL

(* Who has taken the lock frees it as the next thing. *)
LEMMA HolderStep ==
  ASSUME FreeInv, [Next]_vars, NEW c \in Client
  PROVE  /\ serve[c] = "registering"
              => /\ ~(writer = None)
                 /\ serve'[c] = "registering" \/ serve'[c] = "registered"
         /\ reader[c] = "removing"
              => /\ ~(writer = None)
                 /\ reader'[c] = "removing" \/ reader'[c] = "closing"
  <1> USE NoneAssumption DEF FreeInv, HoldInv, TypeInv, TypeOK, LockInv, ReaderStartsLast
  <1>1. serve[c] = "registering" \/ reader[c] = "removing" => ~(writer = None)
    BY DEF WriterInv
  <1>2. ASSUME NEW d \in Client, ServeStep(d)
        PROVE  /\ serve[c] = "registering" => serve'[c] \in {"registering", "registered"}
               /\ reader[c] = "removing" => reader'[c] = "removing"
    <2>1. CASE Upgrade(d) \/ UpgradeFails(d) \/ LockToRegister(d) \/ Register(d)
      BY <2>1 DEF Upgrade, UpgradeFails, LockToRegister, Register
    <2>2. CASE Greet(d)
      <3>1. reader[d] = "off" /\ serve[d] = "registered"
        BY <2>2 DEF Greet
      <3> QED
        BY <2>2, <3>1 DEF Greet
    <2> QED
      BY <1>2, <2>1, <2>2 DEF ServeStep
  <1>3. ASSUME NEW d \in Client, ReaderStep(d)
        PROVE  /\ serve' = serve
               /\ reader[c] = "removing" => reader'[c] \in {"removing", "closing"}
    BY <1>3 DEF ReaderStep, ReadError, LockToUnregister, Unregister, CloseSend, ReaderHangsUp
  <1>4. ASSUME NEW d \in Client, PumpStep(d) \/ PeerLeaves(d)
        PROVE  UNCHANGED <<serve, reader>>
    BY <1>4 DEF PumpStep, PeerLeaves, TakeFrame, SendDrained, WriteOk, WriteFails,
      PumpHangsUp, clientVars
  <1>5. ASSUME NEW e \in Emitter, EmitterStep(e)
        PROVE  UNCHANGED <<serve, reader>>
    BY <1>5 DEF EmitterStep, BeginBroadcast, SendTo, EndBroadcast, EmitterStops, clientVars
  <1>6. UNCHANGED vars => UNCHANGED <<serve, reader>>
    BY DEF vars, clientVars
  <1> HIDE DEF FreeInv
  <1> QED
    BY <1>1, <1>2, <1>3, <1>4, <1>5, <1>6 DEF Next, Finished

(* What is fair of the goroutines makes the writer go on. *)
LEMMA WritersGoOn ==
  ASSUME NEW c \in Client
  PROVE  []FreeInv /\ [][Next]_vars /\ GuardedFairness => []WriterGoesOn(c)
  <1>1. AllGoOn => /\ []<>~MayServe(c) \/ []<><<Serve(c)>>_vars
                   /\ []<>~MayLeave(c) \/ []<><<Leave(c)>>_vars
    BY DEF AllGoOn, GoroutinesGoOn
  <1>2. FreeInv /\ (writer = c /\ Broadcasting = {})
          => /\ serve[c] = "registering" \/ reader[c] = "removing"
             /\ serve[c] = "registering" => MayServe(c)
             /\ reader[c] = "removing" => MayLeave(c)
    BY DEF FreeInv, WriterInv, MayServe, MayLeave
  <1>3. FreeInv /\ [Next]_vars
          => /\ serve[c] = "registering"
                  => (serve[c] = "registering")' \/ (serve[c] = "registered")'
             /\ reader[c] = "removing"
                  => (reader[c] = "removing")' \/ (reader[c] = "closing")'
    BY HolderStep
  <1>4. FreeInv /\ serve[c] = "registered" => ~(reader[c] = "removing")
    BY DEF FreeInv, HoldInv, LockInv, ReaderStartsLast
  <1>5. FreeInv /\ reader[c] = "closing" => ~(serve[c] = "registering")
    BY DEF FreeInv, HoldInv, LockInv, ReaderStartsLast
  <1>6. /\ serve[c] = "registered" => ~(serve[c] = "registering")
        /\ reader[c] = "closing" => ~(reader[c] = "removing")
    OBVIOUS
  <1>7. /\ serve[c] = "registering" /\ Serve(c) => Register(c) \/ Unregister(c)
        /\ reader[c] = "removing" /\ Leave(c) => Register(c) \/ Unregister(c)
    BY DEF Serve, Greet, Leave, CloseSend, ReaderHangsUp
  <1> QED
    BY <1>1, <1>2, <1>3, <1>4, <1>5, <1>6, <1>7, PTL DEF GuardedFairness, WriterGoesOn

(* A goroutine that waits for the hub's lock gets it, and uses it.         *)
GetsLock(c) ==
  /\ serve[c] \in {"upgraded", "registering"} ~> serve[c] = "registered"
  /\ reader[c] \in {"leaving", "removing"} ~> reader[c] = "closing"

LockServes == \A c \in Client : GetsLock(c)

LEMMA LockIsGot ==
  ASSUME IsFiniteSet(Client), NEW c \in Client
  PROVE  []FreeInv /\ [][Next]_vars /\ GuardedFairness /\ LockFreed
           /\ DoorsRunOut(c) /\ ExitsRunOut(c) => GetsLock(c)
  <1>1. FreeInv /\ [Next]_vars
          => /\ serve[c] = "registering"
                  => /\ ~(writer = None)
                     /\ (serve[c] = "registering")' \/ (serve[c] = "registered")'
             /\ reader[c] = "removing"
                  => /\ ~(writer = None)
                     /\ (reader[c] = "removing")' \/ (reader[c] = "closing")'
    BY HolderStep
  <1>2. /\ serve[c] \in {"upgraded", "registering"}
             => serve[c] = "upgraded" \/ serve[c] = "registering"
        /\ reader[c] \in {"leaving", "removing"}
             => reader[c] = "leaving" \/ reader[c] = "removing"
    OBVIOUS
  <1> QED
    BY <1>1, <1>2, DoorAnswered, ExitAnswered, PTL DEF LockFreed, GetsLock

(* The loops whose end the theorems about the lock name. *)
WaitsRunOut == \A c \in Client : DoorsRunOut(c) /\ ExitsRunOut(c)
Descents == []LoopsRunOut /\ AwaitedRunOut /\ WaitsRunOut

(* A client's goroutine that wants the hub's lock gets it: the broadcasts  *)
(* that hold it end, the writer that has it frees it, and every other      *)
(* client passes at most twice.                                            *)
THEOREM LockIsServed ==
  ASSUME IsFiniteSet(Client)
  PROVE  Spec /\ GuardedFairness /\ Descents => LockServes
  <1>1. Spec => []FreeInv
    BY Typing, Locking, Finiteness, Writing, PTL DEF HoldInv, FreeInv
  <1>2. GuardedFairness => []AllEmit
    <2>1. AllGoOn => AllEmit
      BY DEF AllGoOn, AllEmit
    <2> QED
      BY <2>1, PTL DEF GuardedFairness
  <1>3. []FreeInv /\ [][Next]_vars /\ GuardedFairness => []AllWrite
    <2> SUFFICES ASSUME []FreeInv, [][Next]_vars, []AllGoOn
                 PROVE  AllWrite
      BY PTL DEF GuardedFairness
    <2>1. ASSUME NEW c \in Client
          PROVE  WriterGoesOn(c)
      BY WritersGoOn, PTL DEF GuardedFairness
    <2> QED
      BY <2>1 DEF AllWrite
  <1>4. Spec /\ GuardedFairness /\ Descents => LockFreed
    BY <1>1, <1>2, <1>3, LockIsFreed, PTL DEF Spec, Descents
  <1>5. ASSUME NEW c \in Client
        PROVE  []FreeInv /\ [][Next]_vars /\ GuardedFairness /\ LockFreed /\ WaitsRunOut
                 => GetsLock(c)
    <2>1. WaitsRunOut => DoorsRunOut(c) /\ ExitsRunOut(c)
      BY DEF WaitsRunOut
    <2> QED
      BY <2>1, LockIsGot, PTL
  <1>6. []FreeInv /\ [][Next]_vars /\ GuardedFairness /\ LockFreed /\ WaitsRunOut
          => LockServes
    BY <1>5 DEF LockServes
  <1> QED
    BY <1>1, <1>4, <1>6, PTL DEF Spec, Descents

-----------------------------------------------------------------------------
(* Dead clients leave.                                                     *)

Dead(c) == conn[c] = "closed" \/ (conn[c] = "open" /\ peer[c] = "gone")

(* How far the three goroutines of a client are, related. *)
Paired(c) ==
  /\ serve[c] \in {"new", "refused"} <=> conn[c] = "none"
  /\ serve[c] = "done" <=> reader[c] # "off"
  /\ serve[c] = "done" <=> pump[c] # "off"
  /\ reader[c] \in {"hangup", "done"} => closed[c]
  /\ reader[c] = "done" => conn[c] = "closed"

PairInv == \A c \in Client : Paired(c)

LEMMA PairStep ==
  ASSUME TypeInv, PairInv, [Next]_vars
  PROVE  PairInv'
  <1> SUFFICES ASSUME NEW d \in Client PROVE Paired(d)'
    BY DEF PairInv
  <1>0. Paired(d)
    BY DEF PairInv
  <1> USE <1>0 DEF Paired, TypeInv, TypeOK
  <1>1. ASSUME NEW c \in Client, ServeStep(c)
        PROVE  Paired(d)'
    BY <1>1 DEF ServeStep, Upgrade, UpgradeFails, LockToRegister, Register, Greet,
      channelVars, socketVars
  <1>2. ASSUME NEW c \in Client, ReaderStep(c) \/ PeerLeaves(c)
        PROVE  Paired(d)'
    BY <1>2 DEF ReaderStep, ReadError, LockToUnregister, Unregister, CloseSend,
      ReaderHangsUp, PeerLeaves, clientVars, channelVars, socketVars
  <1>3. ASSUME NEW c \in Client, PumpStep(c)
        PROVE  Paired(d)'
    BY <1>3 DEF PumpStep, TakeFrame, SendDrained, WriteOk, WriteFails, PumpHangsUp,
      channelVars, socketVars
  <1>4. ASSUME NEW e \in Emitter, EmitterStep(e)
        PROVE  Paired(d)'
    BY <1>4 DEF EmitterStep, BeginBroadcast, SendTo, EndBroadcast, EmitterStops, clientVars,
      channelVars, socketVars
  <1>5. CASE UNCHANGED vars
    BY <1>5 DEF vars, clientVars, channelVars, socketVars
  <1> QED
    BY <1>1, <1>2, <1>3, <1>4, <1>5 DEF Next, Finished

LEMMA Pairing == Spec => []PairInv
  <1>1. Init => PairInv
    BY DEF Init, PairInv, Paired
  <1> QED
    BY <1>1, PairStep, Typing, PTL DEF Spec

(* What holds throughout. *)
LeaveInv == TypeInv /\ LockInv /\ PairInv

(* The order of a client's goroutines. *)
ServeOrder ==
  {<<"upgraded", "registering">>, <<"registering", "registered">>, <<"registered", "done">>}
ReaderOrder ==
  {<<"off", "reading">>, <<"reading", "leaving">>, <<"leaving", "removing">>,
   <<"removing", "closing">>, <<"closing", "hangup">>, <<"hangup", "done">>}
PumpOrder ==
  {<<"off", "waiting">>, <<"waiting", "writing">>, <<"waiting", "hangup">>,
   <<"writing", "waiting">>, <<"writing", "hangup">>, <<"hangup", "done">>}

(* What a step may do to a client whose connection has been accepted. *)
LEMMA ClientStep ==
  ASSUME LeaveInv, [Next]_vars, NEW d \in Client, conn[d] # "none"
  PROVE  /\ serve'[d] = serve[d] \/ <<serve[d], serve'[d]>> \in ServeOrder
         /\ reader'[d] = reader[d] \/ <<reader[d], reader'[d]>> \in ReaderOrder
         /\ pump'[d] = pump[d] \/ <<pump[d], pump'[d]>> \in PumpOrder
         /\ pump[d] = "writing" /\ pump'[d] = "waiting" => conn[d] = "open"
         /\ conn'[d] \in {conn[d], "closed"}
         /\ peer[d] = "gone" => peer'[d] = "gone"
  <1> USE DEF LeaveInv, TypeInv, TypeOK, ServeOrder, ReaderOrder, PumpOrder
  <1>0. Paired(d)
    BY DEF PairInv
  <1>1. ASSUME NEW c \in Client, ServeStep(c)
        PROVE  /\ serve'[d] = serve[d] \/ <<serve[d], serve'[d]>> \in ServeOrder
               /\ reader'[d] = reader[d] \/ <<reader[d], reader'[d]>> \in ReaderOrder
               /\ pump'[d] = pump[d] \/ <<pump[d], pump'[d]>> \in PumpOrder
               /\ pump'[d] = "waiting" => pump[d] # "writing"
               /\ conn'[d] = conn[d] /\ peer'[d] = peer[d]
    <2>1. CASE Upgrade(c) \/ UpgradeFails(c)
      <3>1. c # d
        BY <1>0, <2>1 DEF Paired, Upgrade, UpgradeFails
      <3> QED
        BY <2>1, <3>1 DEF Upgrade, UpgradeFails, socketVars
    <2>2. CASE LockToRegister(c) \/ Register(c)
      BY <2>2 DEF LockToRegister, Register, socketVars
    <2>3. CASE Greet(c)
      <3>1. c = d => reader[d] = "off" /\ pump[d] = "off"
        BY <1>0, <2>3 DEF Paired, Greet
      <3> QED
        BY <2>3, <3>1 DEF Greet, socketVars
    <2> QED
      BY <1>1, <2>1, <2>2, <2>3 DEF ServeStep
  <1>2. ASSUME NEW c \in Client, ReaderStep(c)
        PROVE  /\ UNCHANGED <<serve, pump, peer>>
               /\ reader'[d] = reader[d] \/ <<reader[d], reader'[d]>> \in ReaderOrder
               /\ conn'[d] \in {conn[d], "closed"}
    BY <1>2 DEF ReaderStep, ReadError, LockToUnregister, Unregister, CloseSend, ReaderHangsUp,
      socketVars
  <1>3. ASSUME NEW c \in Client, PumpStep(c)
        PROVE  /\ UNCHANGED <<serve, reader, peer>>
               /\ pump'[d] = pump[d] \/ <<pump[d], pump'[d]>> \in PumpOrder
               /\ pump[d] = "writing" /\ pump'[d] = "waiting" => conn[d] = "open"
               /\ conn'[d] \in {conn[d], "closed"}
    BY <1>3 DEF PumpStep, TakeFrame, SendDrained, WriteOk, WriteFails, PumpHangsUp,
      socketVars
  <1>4. ASSUME NEW c \in Client, PeerLeaves(c)
        PROVE  UNCHANGED <<serve, reader, pump, conn>> /\ peer'[d] \in {peer[d], "gone"}
    BY <1>4 DEF PeerLeaves, clientVars
  <1>5. ASSUME NEW e \in Emitter, EmitterStep(e)
        PROVE  UNCHANGED <<serve, reader, pump, conn, peer>>
    BY <1>5 DEF EmitterStep, BeginBroadcast, SendTo, EndBroadcast, EmitterStops, clientVars,
      socketVars
  <1>6. UNCHANGED vars => UNCHANGED <<serve, reader, pump, conn, peer>>
    BY DEF vars, clientVars, socketVars
  <1> QED
    BY <1>1, <1>2, <1>3, <1>4, <1>5, <1>6 DEF Next, Finished

LEMMA DeadStays ==
  ASSUME LeaveInv, [Next]_vars, NEW c \in Client, Dead(c)
  PROVE  Dead(c)'
  BY ClientStep DEF Dead

(* A dead client whose ServeHTTP waits for the lock is greeted all the     *)
(* same, which starts its pumps.                                           *)
IsGreeted(c) ==
  Dead(c) /\ serve[c] \in {"upgraded", "registering", "registered"}
    ~> Dead(c) /\ serve[c] = "done"

LEMMA DeadAreGreeted ==
  ASSUME NEW c \in Client
  PROVE  []LeaveInv /\ [][Next]_vars /\ GuardedFairness /\ LockServes => IsGreeted(c)
  <1>1. AllGoOn => []<>~MayServe(c) \/ []<><<Serve(c)>>_vars
    BY DEF AllGoOn, GoroutinesGoOn
  <1>2. LockServes => (serve[c] \in {"upgraded", "registering"} ~> serve[c] = "registered")
    BY DEF LockServes, GetsLock
  <1>3. LeaveInv /\ [Next]_vars /\ Dead(c) => Dead(c)'
    BY DeadStays
  <1>4. LeaveInv /\ [Next]_vars /\ Dead(c) /\ serve[c] = "registered"
          => (serve[c] = "registered")' \/ (serve[c] = "done")'
    BY ClientStep DEF Dead, ServeOrder
  <1>5. LeaveInv /\ serve[c] = "registered" /\ Serve(c) => ~(serve[c] = "registered")'
    BY DEF Serve, Register, Greet, LeaveInv, TypeInv, TypeOK
  <1>6. serve[c] = "registered" => MayServe(c)
    BY DEF MayServe
  <1>7. serve[c] \in {"upgraded", "registering", "registered"}
          <=> serve[c] \in {"upgraded", "registering"} \/ serve[c] = "registered"
    OBVIOUS
  <1> QED
    BY <1>1, <1>2, <1>3, <1>4, <1>5, <1>6, <1>7, PTL DEF GuardedFairness, IsGreeted

(* The reader of a dead client fails, leaves the map and hangs up. *)
ReaderEnds(c) == Dead(c) /\ serve[c] = "done" ~> reader[c] = "done"

LEMMA DeadReadersEnd ==
  ASSUME NEW c \in Client
  PROVE  []LeaveInv /\ [][Next]_vars /\ GuardedFairness /\ LockServes => ReaderEnds(c)
  <1>1. AllGoOn => /\ []<>~MayFail(c) \/ []<><<ReadError(c)>>_vars
                   /\ []<>~MayLeave(c) \/ []<><<Leave(c)>>_vars
    BY DEF AllGoOn, GoroutinesGoOn
  <1>2. LockServes => (reader[c] \in {"leaving", "removing"} ~> reader[c] = "closing")
    BY DEF LockServes, GetsLock
  <1>3. LeaveInv /\ [Next]_vars /\ Dead(c) => Dead(c)'
    BY DeadStays
  <1>4. LeaveInv /\ Dead(c) /\ serve[c] = "done" =>
          \/ reader[c] = "reading" \/ reader[c] \in {"leaving", "removing"}
          \/ reader[c] = "closing" \/ reader[c] = "hangup" \/ reader[c] = "done"
    BY DEF LeaveInv, TypeInv, TypeOK, PairInv, Paired
  <1>5. LeaveInv /\ [Next]_vars /\ Dead(c) /\ reader[c] = "reading"
          => (reader[c] = "reading")' \/ (reader[c] \in {"leaving", "removing"})'
    BY ClientStep DEF Dead, ReaderOrder
  <1>6. LeaveInv /\ ReadError(c) => ~(reader[c] = "reading")'
    BY DEF ReadError, LeaveInv, TypeInv, TypeOK
  <1>7. Dead(c) /\ reader[c] = "reading" => MayFail(c)
    BY DEF Dead, MayFail
  <1>8. LeaveInv /\ [Next]_vars /\ Dead(c) /\ reader[c] = "closing"
          => (reader[c] = "closing")' \/ (reader[c] = "hangup")'
    BY ClientStep DEF Dead, ReaderOrder
  <1>9. LeaveInv /\ [Next]_vars /\ Dead(c) /\ reader[c] = "hangup"
          => (reader[c] = "hangup")' \/ (reader[c] = "done")'
    BY ClientStep DEF Dead, ReaderOrder
  <1>10. LeaveInv /\ Leave(c) /\ (reader[c] = "closing" \/ reader[c] = "hangup")
           => /\ reader[c] = "closing" => ~(reader[c] = "closing")'
              /\ reader[c] = "hangup" => ~(reader[c] = "hangup")'
    BY DEF Leave, Unregister, CloseSend, ReaderHangsUp, LeaveInv, TypeInv, TypeOK
  <1>11. reader[c] = "closing" \/ reader[c] = "hangup" => MayLeave(c)
    BY DEF MayLeave
  <1> QED
    BY <1>1, <1>2, <1>3, <1>4, <1>5, <1>6, <1>7, <1>8, <1>9, <1>10, <1>11, PTL
       DEF GuardedFairness, ReaderEnds

(* and its pump, which finds the channel and the connection closed, ends. *)
PumpEnds(c) == reader[c] = "done" ~> (reader[c] = "done" /\ pump[c] = "done")

LEMMA DeadPumpsEnd ==
  ASSUME NEW c \in Client
  PROVE  []LeaveInv /\ [][Next]_vars /\ GuardedFairness => PumpEnds(c)
  <1>1. AllGoOn => /\ []<>~MayPump(c) \/ []<><<Pump(c)>>_vars
                   /\ []<>~MustFail(c) \/ []<><<Fail(c)>>_vars
                   /\ []<>~(pump[c] = "hangup") \/ []<><<PumpHangsUp(c)>>_vars
    BY DEF AllGoOn, GoroutinesGoOn
  <1>2. LeaveInv /\ reader[c] = "done" =>
          /\ conn[c] = "closed" /\ closed[c]
          /\ pump[c] = "waiting" \/ pump[c] = "writing" \/ pump[c] = "hangup"
               \/ pump[c] = "done"
    BY DEF LeaveInv, TypeInv, TypeOK, PairInv, Paired
  <1>3. LeaveInv /\ [Next]_vars /\ reader[c] = "done" => (reader[c] = "done")'
    BY <1>2, ClientStep DEF ReaderOrder
  <1>4. LeaveInv /\ [Next]_vars /\ reader[c] = "done" =>
          /\ pump[c] = "waiting" => \/ (pump[c] = "waiting")' \/ (pump[c] = "writing")'
                                    \/ (pump[c] = "hangup")'
          /\ pump[c] = "writing" => (pump[c] = "writing")' \/ (pump[c] = "hangup")'
          /\ pump[c] = "hangup" => (pump[c] = "hangup")' \/ (pump[c] = "done")'
          /\ pump[c] = "done" => (pump[c] = "done")'
    BY <1>2, ClientStep DEF PumpOrder
  <1>5. LeaveInv /\ Pump(c) => ~(pump[c] = "waiting")'
    BY DEF Pump, TakeFrame, SendDrained, LeaveInv, TypeInv, TypeOK
  <1>6. LeaveInv /\ Fail(c) => ~(pump[c] = "writing")'
    BY DEF Fail, WriteFails, LeaveInv, TypeInv, TypeOK
  <1>7. LeaveInv /\ PumpHangsUp(c) => ~(pump[c] = "hangup")'
    BY DEF PumpHangsUp, LeaveInv, TypeInv, TypeOK
  <1>8. LeaveInv /\ reader[c] = "done" => /\ pump[c] = "waiting" => MayPump(c)
                                          /\ pump[c] = "writing" => MustFail(c)
    BY <1>2 DEF MayPump, MustFail
  <1> QED
    BY <1>1, <1>2, <1>3, <1>4, <1>5, <1>6, <1>7, <1>8, PTL DEF GuardedFairness, PumpEnds

CleanedUp(c) ==
  Dead(c) ~> (c \notin clients /\ reader[c] = "done" /\ pump[c] = "done"
                /\ conn[c] = "closed")

LEMMA DeadAreCleanedUp ==
  ASSUME NEW c \in Client
  PROVE  []LeaveInv /\ [][Next]_vars /\ GuardedFairness /\ LockServes => CleanedUp(c)
  <1>1. LeaveInv /\ Dead(c)
          => serve[c] \in {"upgraded", "registering", "registered"} \/ serve[c] = "done"
    BY DEF Dead, LeaveInv, TypeInv, TypeOK, PairInv, Paired
  <1>2. LeaveInv /\ reader[c] = "done" /\ pump[c] = "done" =>
          c \notin clients /\ reader[c] = "done" /\ pump[c] = "done" /\ conn[c] = "closed"
    BY DEF LeaveInv, LockInv, RegisteredClients, PairInv, Paired
  <1> QED
    BY DeadAreGreeted, DeadReadersEnd, DeadPumpsEnd, <1>1, <1>2, PTL
       DEF IsGreeted, ReaderEnds, PumpEnds, CleanedUp

(* A client whose connection has ended leaves the map, its goroutines end  *)
(* and its socket is closed, however many broadcasts and other clients are *)
(* at the hub's lock.                                                      *)
THEOREM DeadClientsGo ==
  ASSUME IsFiniteSet(Client)
  PROVE  Spec /\ GuardedFairness /\ Descents => DeadClientsLeave
  <1>1. Spec => []LeaveInv
    BY Typing, Locking, Pairing, PTL DEF LeaveInv
  <1>2. []LeaveInv /\ [][Next]_vars /\ GuardedFairness /\ LockServes
          => \A c \in Client : CleanedUp(c)
    BY DeadAreCleanedUp
  <1>3. (\A c \in Client : CleanedUp(c)) => DeadClientsLeave
    BY DEF CleanedUp, Dead, DeadClientsLeave
  <1> QED
    BY <1>1, <1>2, <1>3, LockIsServed, PTL DEF Spec

-----------------------------------------------------------------------------
(* What a channel has accepted is delivered.                               *)

(* The browser has gone or the connection has ended. *)
Cut(c) == peer[c] = "gone" \/ conn[c] = "closed"

(* Only a registered client is offered frames, and a pump that has ended   *)
(* has hung up.                                                            *)
Heard(c) ==
  /\ log[c] # <<>> => serve[c] \in {"registered", "done"}
  /\ pump[c] = "done" => conn[c] = "closed"

HeardInv == \A c \in Client : Heard(c)

LEMMA HeardStep ==
  ASSUME LeaveInv, HeardInv, [Next]_vars
  PROVE  HeardInv'
  <1> SUFFICES ASSUME NEW d \in Client PROVE Heard(d)'
    BY DEF HeardInv
  <1>0. Heard(d)
    BY DEF HeardInv
  <1> USE <1>0 DEF Heard, LeaveInv, TypeInv, TypeOK
  <1>1. ASSUME NEW c \in Client, ServeStep(c)
        PROVE  Heard(d)'
    <2>1. CASE Upgrade(c) \/ UpgradeFails(c)
      <3>1. d = c => log[d] = <<>> /\ pump[d] # "done"
        <4>1. serve[c] = "new" /\ conn[c] = "none"
          BY <2>1 DEF Upgrade, UpgradeFails, PairInv, Paired
        <4> QED
          BY <4>1
      <3>2. UNCHANGED <<log, pump>> /\ (d # c => serve'[d] = serve[d] /\ conn'[d] = conn[d])
        BY <2>1 DEF Upgrade, UpgradeFails, channelVars, socketVars
      <3> QED
        BY <3>1, <3>2
    <2>3. CASE LockToRegister(c) \/ Register(c)
      BY <2>3 DEF LockToRegister, Register, channelVars, socketVars
    <2>2. CASE Greet(c)
      <3>1. /\ conn' = conn
            /\ serve'[d] = IF d = c THEN "done" ELSE serve[d]
            /\ pump'[d] = IF d = c THEN "waiting" ELSE pump[d]
        BY <2>2 DEF Greet, socketVars
      <3>2. d # c => log'[d] = log[d]
        BY <2>2 DEF Greet, Offer
      <3> QED
        BY <3>1, <3>2
    <2> QED
      BY <1>1, <2>1, <2>2, <2>3 DEF ServeStep
  <1>2. ASSUME NEW c \in Client, ReaderStep(c) \/ PeerLeaves(c)
        PROVE  Heard(d)'
    BY <1>2 DEF ReaderStep, ReadError, LockToUnregister, Unregister, CloseSend,
      ReaderHangsUp, PeerLeaves, clientVars, channelVars, socketVars
  <1>3. ASSUME NEW c \in Client, PumpStep(c)
        PROVE  Heard(d)'
    BY <1>3 DEF PumpStep, TakeFrame, SendDrained, WriteOk, WriteFails, PumpHangsUp,
      channelVars, socketVars
  <1>4. ASSUME NEW e \in Emitter, EmitterStep(e)
        PROVE  Heard(d)'
    <2>1. UNCHANGED <<serve, pump, conn>>
      BY <1>4 DEF EmitterStep, BeginBroadcast, SendTo, EndBroadcast, EmitterStops,
        clientVars, socketVars
    <2>2. log'[d] = log[d] \/ d \in visit[e]
      BY <1>4 DEF EmitterStep, BeginBroadcast, SendTo, EndBroadcast, EmitterStops, Offer,
        channelVars
    <2>3. d \in visit[e] => serve[d] \in {"registered", "done"}
      BY DEF LockInv, VisitsRegistered, RegisteredClients
    <2> QED
      BY <2>1, <2>2, <2>3
  <1>5. UNCHANGED vars => UNCHANGED <<serve, pump, conn, log>>
    BY DEF vars, clientVars, channelVars, socketVars
  <1> QED
    BY <1>1, <1>2, <1>3, <1>4, <1>5 DEF Next, Finished

(* What holds throughout. *)
CarryInv == LeaveInv /\ OrderInv /\ HeardInv

LEMMA Carrying == Spec => []CarryInv
  <1>1. Init => HeardInv
    BY DEF Init, HeardInv, Heard
  <1>2. Spec => []LeaveInv
    BY Typing, Locking, Pairing, PTL DEF LeaveInv
  <1> QED
    BY <1>1, <1>2, HeardStep, Ordering, PTL DEF Spec, CarryInv

(* The frame at a place of a client's history, and how many writes are     *)
(* still to end before that place is delivered.                            *)
Holds(c, i, f) == i \in 1..Len(log[c]) /\ log[c][i] = f
Due(c, i, n) == i \in 1..Len(log[c]) /\ ~Cut(c) /\ i = Len(delivered[c]) + n
Come(c, i) == i <= Len(delivered[c]) \/ Cut(c)
FewerDue(c, i, n) == \E m \in Nat : m < n /\ Due(c, i, m)
SomeDue(c, i) == \E n \in Nat : Due(c, i, n)

(* A history only grows at its end. *)
LEMMA HistoryKept ==
  ASSUME TypeInv, [Next]_vars, NEW d \in Client
  PROVE  /\ Len(log[d]) <= Len(log'[d])
         /\ \A i \in 1..Len(log[d]) : log'[d][i] = log[d][i]
  <1>1. \/ log'[d] = log[d]
        \/ \E f \in Frame : log'[d] = Append(log[d], f)
    <2>1. ASSUME NEW c \in Client, Greet(c)
          PROVE  log'[d] = log[d] \/ log'[d] = Append(log[d], Hello)
      BY <2>1 DEF Greet, Offer, TypeInv, TypeOK
    <2>2. Hello \in Frame
      BY DEF Frame
    <2>3. ASSUME NEW e \in Emitter, NEW c \in Client, SendTo(e, c)
          PROVE  /\ log'[d] = log[d] \/ log'[d] = Append(log[d], FrameOf(e, round[e]))
                 /\ FrameOf(e, round[e]) \in Frame
      <3>1. bcast[e] = "sending" /\ Offer(c, FrameOf(e, round[e]))
        BY <2>3 DEF SendTo
      <3>2. FrameOf(e, round[e]) \in Frame
        BY <3>1, FrameTyped
      <3>3. log' = log \/ log' = [log EXCEPT ![c] = Append(@, FrameOf(e, round[e]))]
        BY <3>1 DEF Offer
      <3>4. log \in [Client -> Seq(Frame)]
        BY DEF TypeInv, TypeOK
      <3> QED
        BY <3>2, <3>3, <3>4
    <2>4. ASSUME NEW c \in Client, ServeStep(c) \/ ReaderStep(c), ~Greet(c)
          PROVE  log' = log
      BY <2>4 DEF ServeStep, Upgrade, UpgradeFails, LockToRegister, Register, ReaderStep,
        ReadError, LockToUnregister, Unregister, CloseSend, ReaderHangsUp, channelVars
    <2>5. ASSUME NEW c \in Client, PumpStep(c) \/ PeerLeaves(c)
          PROVE  log' = log
      BY <2>5 DEF PumpStep, TakeFrame, SendDrained, WriteOk, WriteFails, PumpHangsUp,
        PeerLeaves, channelVars
    <2>6. ASSUME NEW e \in Emitter, BeginBroadcast(e) \/ EndBroadcast(e) \/ EmitterStops(e)
          PROVE  log' = log
      BY <2>6 DEF BeginBroadcast, EndBroadcast, EmitterStops, channelVars
    <2>7. UNCHANGED vars => log' = log
      BY DEF vars, channelVars
    <2> QED
      BY <2>1, <2>2, <2>3, <2>4, <2>5, <2>6, <2>7 DEF Next, EmitterStep, Finished
  <1>2. log[d] \in Seq(Frame) /\ Len(log[d]) \in Nat
    BY SequencesTyped
  <1>3. ASSUME NEW f \in Frame, log'[d] = Append(log[d], f)
        PROVE  /\ Len(log[d]) <= Len(log'[d])
               /\ \A i \in 1..Len(log[d]) : log'[d][i] = log[d][i]
    BY <1>2, <1>3, AppendProperties, LenProperties
  <1> QED
    BY <1>1, <1>2, <1>3

(* A browser that is there receives a frame when a write ends, and at no   *)
(* other time.                                                             *)
LEMMA DeliveredStep ==
  ASSUME TypeInv, [Next]_vars, NEW d \in Client, ~Cut(d)
  PROVE  /\ Len(delivered'[d]) \in {Len(delivered[d]), Len(delivered[d]) + 1}
         /\ WriteOk(d) => Len(delivered'[d]) = Len(delivered[d]) + 1
         /\ ~WriteOk(d) => delivered'[d] = delivered[d]
  <1> USE DEF TypeInv, TypeOK
  <1>1. CASE WriteOk(d)
    <2>1. delivered'[d] = Append(delivered[d], inhand[d])
      BY <1>1 DEF WriteOk, Cut
    <2>2. delivered[d] \in Seq(Frame) /\ inhand[d] \in Frame
      OBVIOUS
    <2> QED
      BY <1>1, <2>1, <2>2, AppendProperties
  <1>2. CASE ~WriteOk(d)
    <2>1. ASSUME NEW c \in Client, ServeStep(c) \/ ReaderStep(c) \/ PeerLeaves(c)
          PROVE  delivered'[d] = delivered[d]
      BY <2>1 DEF ServeStep, Upgrade, UpgradeFails, LockToRegister, Register, Greet,
        ReaderStep, ReadError, LockToUnregister, Unregister, CloseSend, ReaderHangsUp,
        PeerLeaves, socketVars
    <2>2. ASSUME NEW c \in Client, PumpStep(c)
          PROVE  delivered'[d] = delivered[d]
      BY <1>2, <2>2 DEF PumpStep, TakeFrame, SendDrained, WriteOk, WriteFails, PumpHangsUp,
        socketVars
    <2>3. ASSUME NEW e \in Emitter, EmitterStep(e)
          PROVE  delivered'[d] = delivered[d]
      BY <2>3 DEF EmitterStep, BeginBroadcast, SendTo, EndBroadcast, EmitterStops, socketVars
    <2>4. UNCHANGED vars => delivered' = delivered
      BY DEF vars, socketVars
    <2> QED
      BY <1>2, <2>1, <2>2, <2>3, <2>4 DEF Next, Finished
  <1> QED
    BY <1>1, <1>2

(* What is due stays so, at the same distance or, after a write, nearer.   *)
LEMMA DueStep ==
  ASSUME TypeInv, TypeInv', [Next]_vars, NEW c \in Client, NEW i \in Nat, NEW n \in Nat,
         Due(c, i, n)
  PROVE  /\ Due(c, i, n)' \/ Come(c, i)' \/ FewerDue(c, i, n)'
         /\ WriteOk(c) => Come(c, i)' \/ FewerDue(c, i, n)'
  <1>1. /\ Len(log[c]) \in Nat /\ Len(delivered[c]) \in Nat
        /\ Len(log'[c]) \in Nat /\ Len(delivered'[c]) \in Nat
    BY SequencesTyped DEF TypeInv, TypeOK
  <1>2. i \in 1..Len(log'[c])
    BY <1>1, HistoryKept DEF Due
  <1>3. /\ Len(delivered'[c]) = Len(delivered[c]) \/ Len(delivered'[c]) = Len(delivered[c]) + 1
        /\ WriteOk(c) => Len(delivered'[c]) = Len(delivered[c]) + 1
    BY DeliveredStep DEF Due
  <1>4. i = Len(delivered[c]) + n
    BY DEF Due
  <1> SUFFICES ASSUME ~Cut(c)', ~(i <= Len(delivered'[c]))
               PROVE  /\ Due(c, i, n)' \/ FewerDue(c, i, n)'
                      /\ WriteOk(c) => FewerDue(c, i, n)'
    BY DEF Come
  <1>5. CASE Len(delivered'[c]) = Len(delivered[c])
    <2>1. i = Len(delivered'[c]) + n /\ ~WriteOk(c)
      BY <1>1, <1>3, <1>4, <1>5
    <2> QED
      BY <1>2, <2>1 DEF Due
  <1>6. CASE Len(delivered'[c]) = Len(delivered[c]) + 1
    <2>1. n - 1 \in Nat /\ n - 1 < n /\ i = Len(delivered'[c]) + (n - 1)
      BY <1>1, <1>4, <1>6
    <2>2. Due(c, i, n - 1)'
      BY <1>2, <2>1 DEF Due
    <2> QED
      BY <2>1, <2>2 DEF FewerDue
  <1> QED
    BY <1>3, <1>5, <1>6

(* While a frame is due, the pump starts, takes what is queued, writes it, *)
(* or has ended and hangs up.                                              *)
LEMMA DueStages ==
  ASSUME CarryInv, NEW c \in Client, NEW i \in Nat, NEW n \in Nat, Due(c, i, n)
  PROVE  /\ \/ pump[c] = "off" \/ pump[c] = "waiting" \/ pump[c] = "writing"
            \/ pump[c] = "hangup" \/ Come(c, i)
         /\ conn[c] = "open"
         /\ pump[c] = "off" => serve[c] = "registered"
         /\ pump[c] = "waiting" => Come(c, i) \/ send[c] # <<>>
  <1> USE DEF CarryInv, LeaveInv, TypeInv, TypeOK
  <1>1. Len(log[c]) \in Nat /\ Len(delivered[c]) \in Nat /\ Len(send[c]) \in Nat
    BY SequencesTyped
  <1>2. i \in 1..Len(log[c]) /\ ~Cut(c)
    BY DEF Due
  <1>3. log[c] # <<>>
    <2> SUFFICES ASSUME log[c] = <<>> PROVE FALSE
      OBVIOUS
    <2>1. Len(log[c]) = 0
      BY EmptySeq
    <2> QED
      BY <1>2, <2>1
  <1>4. Paired(c) /\ Heard(c) /\ Ordered(c)
    BY DEF PairInv, HeardInv, OrderInv
  <1>5. serve[c] \in {"registered", "done"} /\ conn[c] = "open" /\ peer[c] = "up"
    BY <1>2, <1>3, <1>4 DEF Paired, Heard, Cut
  <1>6. pump[c] # "done"
    BY <1>4, <1>5 DEF Heard
  <1>7. pump[c] = "off" => serve[c] = "registered"
    BY <1>4, <1>5 DEF Paired
  <1>8. ASSUME pump[c] = "waiting", send[c] = <<>>
        PROVE  Come(c, i)
    <2>1. Len(send[c]) = 0
      BY <1>8, EmptySeq
    <2>2. Len(delivered[c]) = Len(log[c]) - Len(send[c])
      BY <1>4, <1>5, <1>8 DEF Ordered, ReceivesTaken, Taken
    <2>3. i <= Len(delivered[c])
      BY <1>1, <1>2, <2>1, <2>2
    <2> QED
      BY <2>3 DEF Come
  <1> QED
    BY <1>5, <1>6, <1>7, <1>8

(* A pump goes from writing back to waiting only by a write that ends.     *)
LEMMA PumpWrites ==
  ASSUME LeaveInv, [Next]_vars, NEW d \in Client, pump[d] = "writing", pump'[d] = "waiting"
  PROVE  WriteOk(d)
  <1>0. pump \in [Client -> {"off", "waiting", "writing", "hangup", "done"}]
    BY DEF LeaveInv, TypeInv, TypeOK
  <1>1. ASSUME NEW c \in Client, PumpStep(c)
        PROVE  WriteOk(d)
    BY <1>0, <1>1 DEF PumpStep, TakeFrame, SendDrained, WriteOk, WriteFails, PumpHangsUp
  <1>2. ASSUME NEW c \in Client, ServeStep(c) \/ ReaderStep(c) \/ PeerLeaves(c)
        PROVE  FALSE
    <2>1. ~Greet(c)
      <3>1. Greet(c) => c # d
        BY DEF Greet, LeaveInv, PairInv, Paired
      <3> QED
        BY <1>0, <3>1 DEF Greet
    <2>2. pump' = pump
      BY <1>2, <2>1 DEF ServeStep, Upgrade, UpgradeFails, LockToRegister, Register,
        ReaderStep, ReadError, LockToUnregister, Unregister, CloseSend, ReaderHangsUp,
        PeerLeaves, clientVars
    <2> QED
      BY <2>2
  <1>3. ASSUME NEW e \in Emitter, EmitterStep(e)
        PROVE  pump' = pump
    BY <1>3 DEF EmitterStep, BeginBroadcast, SendTo, EndBroadcast, EmitterStops, clientVars
  <1>4. UNCHANGED vars => pump' = pump
    BY DEF vars, clientVars
  <1> QED
    BY <1>1, <1>2, <1>3, <1>4 DEF Next, Finished

(* The pump of a frame that is due goes on. *)
CanWrite(c) == pump[c] = "writing" /\ conn[c] = "open"
WritesGoOn(c) == []<>~CanWrite(c) \/ []<><<WriteOk(c)>>_vars

DueGoesOn(c, i, n) == Due(c, i, n) ~> (Come(c, i) \/ FewerDue(c, i, n))
DueComes(c, i) == (\A n \in Nat : DueGoesOn(c, i, n)) => (SomeDue(c, i) ~> Come(c, i))

LEMMA DueNears ==
  ASSUME NEW c \in Client, NEW i \in Nat, NEW n \in Nat
  PROVE  []CarryInv /\ [][Next]_vars /\ []AllGoOn /\ WritesGoOn(c) => DueGoesOn(c, i, n)
  <1> DEFINE D == Due(c, i, n)
             Nearer == Come(c, i) \/ FewerDue(c, i, n)
  <1>0. CarryInv => TypeInv /\ LeaveInv
    BY DEF CarryInv, LeaveInv
  <1>1. AllGoOn => /\ []<>~MayServe(c) \/ []<><<Serve(c)>>_vars
                   /\ []<>~MayPump(c) \/ []<><<Pump(c)>>_vars
                   /\ []<>~(pump[c] = "hangup") \/ []<><<PumpHangsUp(c)>>_vars
    BY DEF AllGoOn, GoroutinesGoOn
  <1>2. CarryInv /\ CarryInv' /\ [Next]_vars /\ D =>
          /\ D' \/ Nearer'
          /\ WriteOk(c) => Nearer'
    <2> SUFFICES ASSUME CarryInv, CarryInv', [Next]_vars, D
                 PROVE  /\ D' \/ Nearer'
                        /\ WriteOk(c) => Nearer'
      OBVIOUS
    <2>1. TypeInv /\ TypeInv'
      BY DEF CarryInv, LeaveInv
    <2>2. /\ Due(c, i, n)' \/ Come(c, i)' \/ FewerDue(c, i, n)'
          /\ WriteOk(c) => Come(c, i)' \/ FewerDue(c, i, n)'
      BY <2>1, DueStep
    <2> QED
      BY <2>2
  <1>3. CarryInv /\ D =>
          /\ \/ pump[c] = "off" \/ pump[c] = "waiting" \/ pump[c] = "writing"
             \/ pump[c] = "hangup" \/ Nearer
          /\ pump[c] = "off" => MayServe(c)
          /\ pump[c] = "waiting" => Nearer \/ MayPump(c)
          /\ pump[c] = "writing" => CanWrite(c)
    BY DueStages DEF MayServe, MayPump, CanWrite
  <1>4. CarryInv /\ D /\ [Next]_vars =>
          /\ pump[c] = "off" => (pump[c] = "off")' \/ (pump[c] = "waiting")'
          /\ pump[c] = "waiting" => \/ (pump[c] = "waiting")' \/ (pump[c] = "writing")'
                                    \/ (pump[c] = "hangup")'
          /\ pump[c] = "writing" => \/ (pump[c] = "writing")' \/ (pump[c] = "hangup")'
                                    \/ WriteOk(c)
          /\ pump[c] = "hangup" => (pump[c] = "hangup")' \/ (pump[c] = "done")'
    <2> SUFFICES ASSUME CarryInv, D, [Next]_vars
                 PROVE  /\ pump'[c] = pump[c] \/ <<pump[c], pump'[c]>> \in PumpOrder
                        /\ pump[c] = "writing" /\ pump'[c] = "waiting" => WriteOk(c)
      BY DEF PumpOrder
    <2>1. conn[c] # "none"
      BY DueStages
    <2>2. pump'[c] = pump[c] \/ <<pump[c], pump'[c]>> \in PumpOrder
      BY <1>0, <2>1, ClientStep
    <2>3. pump[c] = "writing" /\ pump'[c] = "waiting" => WriteOk(c)
      BY <1>0, PumpWrites
    <2> QED
      BY <2>2, <2>3
  <1>5. CarryInv /\ pump[c] = "done" => Nearer
    BY DEF CarryInv, HeardInv, Heard, Come, Cut
  <1>6. CarryInv /\ D /\ pump[c] = "off" /\ Serve(c) => ~(pump[c] = "off")'
    <2> SUFFICES ASSUME CarryInv, D, pump[c] = "off", Serve(c) PROVE pump'[c] # "off"
      OBVIOUS
    <2>1. serve[c] = "registered"
      BY DueStages
    <2>2. Greet(c)
      BY <2>1 DEF Serve, Register
    <2> QED
      BY <1>0, <2>2 DEF Greet, TypeInv, TypeOK
  <1>7. CarryInv /\ Pump(c) => ~(pump[c] = "waiting")'
    BY <1>0 DEF Pump, TakeFrame, SendDrained, TypeInv, TypeOK
  <1>8. CarryInv /\ PumpHangsUp(c) => ~(pump[c] = "hangup")'
    BY <1>0 DEF PumpHangsUp, TypeInv, TypeOK
  <1> HIDE DEF D, Nearer
  <1>9. []CarryInv /\ [][Next]_vars /\ []AllGoOn /\ WritesGoOn(c) => (D ~> Nearer)
    BY <1>1, <1>2, <1>3, <1>4, <1>5, <1>6, <1>7, <1>8, PTL DEF WritesGoOn
  <1> QED
    BY <1>9 DEF D, Nearer, DueGoesOn

(* To measure how far a place of a history is from being delivered is to   *)
(* descend: the writes before it are finitely many.                        *)
FramesRunOut(c, i) == Descends(LAMBDA n : Due(c, i, n), Come(c, i))
DeliveriesRunOut == \A c \in Client : \A i \in Nat : FramesRunOut(c, i)

Got(c, f) ==
  (\E i \in DOMAIN delivered[c] : delivered[c][i] = f) \/ peer[c] = "gone" \/ conn[c] = "closed"
HasFrame(c, f) == \E i \in DOMAIN log[c] : log[c][i] = f
Arrives(c, f) == HasFrame(c, f) ~> Got(c, f)

(* A frame is kept at its place in the history until it is delivered.      *)
LEMMA PlaceArrives ==
  ASSUME NEW c \in Client, NEW i \in Nat, NEW f \in Frame
  PROVE  []CarryInv /\ [][Next]_vars /\ []AllGoOn /\ WritesGoOn(c) /\ FramesRunOut(c, i)
           => (Holds(c, i, f) ~> Got(c, f))
  <1>1. []CarryInv /\ [][Next]_vars /\ []AllGoOn /\ WritesGoOn(c)
          => \A n \in Nat : DueGoesOn(c, i, n)
    BY DueNears
  <1>2. FramesRunOut(c, i) => DueComes(c, i)
    BY DEF FramesRunOut, DueComes, Descends, DueGoesOn, SomeDue, FewerDue
  <1>3. DueComes(c, i) /\ (\A n \in Nat : DueGoesOn(c, i, n)) => (SomeDue(c, i) ~> Come(c, i))
    BY DEF DueComes
  <1>4. CarryInv /\ [Next]_vars /\ Holds(c, i, f) => Holds(c, i, f)'
    <2> SUFFICES ASSUME CarryInv, CarryInv => TypeInv, [Next]_vars, Holds(c, i, f)
                 PROVE  Holds(c, i, f)'
      BY DEF CarryInv, LeaveInv
    <2>1. Len(log[c]) <= Len(log'[c]) /\ log'[c][i] = log[c][i]
      BY HistoryKept DEF Holds
    <2>2. Len(log[c]) \in Nat /\ Len(log'[c]) \in Nat
      <3>1. log[c] \in Seq(Frame) /\ TypeOK'
        BY TypeStep, SequencesTyped DEF TypeInv
      <3> QED
        BY <3>1, LenProperties DEF TypeOK
    <2> QED
      BY <2>1, <2>2 DEF Holds
  <1>5. CarryInv /\ Holds(c, i, f) => SomeDue(c, i) \/ Come(c, i)
    <2> SUFFICES ASSUME CarryInv, Holds(c, i, f), ~Come(c, i)
                 PROVE  SomeDue(c, i)
      OBVIOUS
    <2>1. Len(delivered[c]) \in Nat
      BY SequencesTyped DEF CarryInv, LeaveInv
    <2>2. i - Len(delivered[c]) \in Nat /\ i = Len(delivered[c]) + (i - Len(delivered[c]))
      BY <2>1 DEF Come
    <2>3. Due(c, i, i - Len(delivered[c]))
      BY <2>2 DEF Due, Holds, Come
    <2> QED
      BY <2>2, <2>3 DEF SomeDue
  <1>6. CarryInv /\ Holds(c, i, f) /\ Come(c, i) => Got(c, f)
    <2> SUFFICES ASSUME CarryInv, Holds(c, i, f), i <= Len(delivered[c])
                 PROVE  \E j \in DOMAIN delivered[c] : delivered[c][j] = f
      BY DEF Come, Cut, Got
    <2>1. DOMAIN delivered[c] = 1..Len(delivered[c]) /\ Len(delivered[c]) \in Nat
            /\ Len(log[c]) \in Nat
      BY SequencesTyped DEF CarryInv, LeaveInv
    <2>2. i \in 1..Len(delivered[c])
      BY <2>1 DEF Holds
    <2>3. delivered[c][i] = log[c][i]
      BY <2>2 DEF CarryInv, OrderInv, Ordered, ReceivesTaken
    <2> QED
      BY <2>1, <2>2, <2>3 DEF Holds
  <1> QED
    BY <1>1, <1>2, <1>3, <1>4, <1>5, <1>6, PTL

(* A browser that keeps reading ends the writes to it: KeepsReading, with  *)
(* the guard of WriteOk for what it says of ENABLED.                       *)
GuardedReading == \A c \in Client : KeepsReading(c) => WritesGoOn(c)

DeliveredTo(c) == KeepsReading(c) => \A f \in Frame : Arrives(c, f)

(* To a browser that keeps reading, every frame its channel accepted is    *)
(* delivered unless the connection ends first: the pump takes what is      *)
(* queued before it, and each write that ends brings it nearer.            *)
THEOREM AcceptedArrives ==
  Spec /\ GuardedFairness /\ GuardedReading /\ []DeliveriesRunOut => AcceptedDelivered
  <1>1. ASSUME NEW c \in Client, NEW f \in Frame
        PROVE  []CarryInv /\ [][Next]_vars /\ []AllGoOn /\ WritesGoOn(c) /\ []DeliveriesRunOut
                 => Arrives(c, f)
    <2> SUFFICES ASSUME []CarryInv, [][Next]_vars, []AllGoOn, []WritesGoOn(c),
                        []DeliveriesRunOut
                 PROVE  [](HasFrame(c, f) => <>Got(c, f))
      BY PTL DEF WritesGoOn, Arrives
    <2>1. ASSUME NEW i \in Nat
          PROVE  Holds(c, i, f) => <>Got(c, f)
      <3>1. DeliveriesRunOut => FramesRunOut(c, i)
        BY DEF DeliveriesRunOut
      <3> QED
        BY <3>1, PlaceArrives, PTL
    <2>2. CarryInv
      BY PTL
    <2>3. HasFrame(c, f) => \E i \in Nat : Holds(c, i, f)
      <3>1. DOMAIN log[c] = 1..Len(log[c])
        BY <2>2, SequencesTyped DEF CarryInv, LeaveInv
      <3>2. \A i \in 1..Len(log[c]) : i \in Nat
        OBVIOUS
      <3> QED
        BY <3>1, <3>2 DEF HasFrame, Holds
    <2>4. HasFrame(c, f) => <>Got(c, f)
      BY <2>1, <2>3
    <2> QED
      BY <2>4, PTL
  <1>2. ASSUME NEW c \in Client
        PROVE  []CarryInv /\ [][Next]_vars /\ []AllGoOn /\ GuardedReading
                 /\ []DeliveriesRunOut => DeliveredTo(c)
    <2>1. []CarryInv /\ [][Next]_vars /\ []AllGoOn /\ WritesGoOn(c) /\ []DeliveriesRunOut
            => \A f \in Frame : Arrives(c, f)
      BY <1>1
    <2>2. GuardedReading /\ KeepsReading(c) => WritesGoOn(c)
      BY DEF GuardedReading
    <2> QED
      BY <2>1, <2>2 DEF DeliveredTo
  <1>3. []CarryInv /\ [][Next]_vars /\ []AllGoOn /\ GuardedReading /\ []DeliveriesRunOut
          => \A c \in Client : DeliveredTo(c)
    BY <1>2
  <1>4. (\A c \in Client : DeliveredTo(c)) => AcceptedDelivered
    BY DEF DeliveredTo, Arrives, HasFrame, Got, AcceptedDelivered
  <1> QED
    BY <1>3, <1>4, Carrying, PTL DEF Spec, GuardedFairness
=============================================================================
