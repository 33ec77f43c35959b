--------------------------- MODULE ServiceProofs ---------------------------
(***************************************************************************)
(* Theorems about Service, for any requests, browsers, workers and lost    *)
(* connections.  What Registration, Hub and Queue guarantee on their own   *)
(* is taken from their proofs: a step of Service is a step or a stutter of *)
(* each of them.                                                           *)
(***************************************************************************)
EXTENDS Service, SequenceTheorems, TLAPS

RP == INSTANCE RegistrationProofs WITH Faults <- TRUE, MaxCrashes <- 0
HP == INSTANCE HubProofs WITH Emitter <- Request, Rounds <- 2
QP == INSTANCE QueueProofs WITH Job <- Request, Bad <- {}, Poison <- {},
                                Instance <- {Home}, conn <- link

-----------------------------------------------------------------------------
(* Each component runs by its own rules.                                   *)

LEMMA SameUse == R!InUse = RP!InUse
  BY DEF R!InUse, RP!InUse, R!Cardinality, RP!Cardinality

LEMMA RegistrationStep == [Next]_vars => [RP!Next]_(RP!vars)
  <1> SUFFICES ASSUME [Next]_vars PROVE [RP!Next]_(RP!vars)
    OBVIOUS
  <1>1. CASE \E r \in Request : RequestStep(r)
    <2>1. PICK r \in Request : RequestStep(r)
      BY <1>1
    <2>2. CASE R!CheckStep(r)
      <3>1. RP!CheckStep(r)
        BY <2>2, SameUse DEF R!CheckStep, R!Submit, R!Invalid, R!AcquireForCheck,
          R!CheckFinds,
          R!CheckMisses, R!CheckWaitFails, R!Go, R!Answer, R!Taken, R!eventVars,
          RP!CheckStep, RP!Submit, RP!Invalid, RP!AcquireForCheck, RP!CheckFinds,
          RP!CheckMisses, RP!CheckWaitFails, RP!Go, RP!Answer, RP!Taken, RP!eventVars
      <3> QED
        BY <3>1 DEF RP!Next
    <2>3. CASE R!InsertStep(r)
      <3>1. RP!InsertStep(r)
        BY <2>3, SameUse DEF R!InsertStep, R!Hash, R!HashFails, R!AcquireForInsert,
          R!InsertCommits,
          R!InsertRefused, R!InsertFails, R!InsertReturns, R!Go, R!Answer, R!Taken,
          R!eventVars, RP!InsertStep, RP!Hash, RP!HashFails, RP!AcquireForInsert,
          RP!InsertCommits, RP!InsertRefused, RP!InsertFails, RP!InsertReturns, RP!Go,
          RP!Answer, RP!Taken, RP!eventVars
      <3> QED
        BY <3>1 DEF RP!Next
    <2>4. CASE R!EmitAuditLog(r) \/ R!Reply(r)
      <3>1. RP!EventStep(r)
        BY <2>4 DEF R!EmitAuditLog, R!Reply, R!Go, R!Answer, R!eventVars, RP!EventStep,
          RP!EmitAuditLog, RP!Reply, RP!Go, RP!Answer, RP!eventVars
      <3> QED
        BY <3>1 DEF RP!Next
    <2>5. CASE R!AuditStep(r)
      <3>1. RP!AuditStep(r)
        BY <2>5, SameUse DEF R!AuditStep, R!AuditAcquires, R!AuditWritten, R!AuditFails,
          R!eventVars, RP!AuditStep, RP!AuditAcquires, RP!AuditWritten, RP!AuditFails,
          RP!eventVars
      <3> QED
        BY <3>1 DEF RP!Next
    <2> QED
      BY <2>1, <2>2, <2>3, <2>4, <2>5 DEF RequestStep
  <1>2. CASE \E r \in Request : EventStep(r)
    <2>1. PICK r \in Request : EventStep(r)
      BY <1>2
    <2>2. CASE UserAnnounced(r)
      <3>1. RP!EventStep(r)
        BY <2>2 DEF UserAnnounced, R!AnnounceUser, R!Go, RP!EventStep, RP!AnnounceUser,
          RP!Go
      <3> QED
        BY <3>1 DEF RP!Next
    <2>3. CASE PublishFailed(r) \/ JobAnnounced(r)
      <3>1. RP!EventStep(r)
        BY <2>3 DEF PublishFailed, JobAnnounced, R!Enqueue, R!Go, RP!EventStep, RP!Enqueue,
          RP!Go
      <3> QED
        BY <3>1 DEF RP!Next
    <2>4. CASE BroadcastUser(r) \/ PublishJob(r) \/ BroadcastJob(r)
      BY <2>4 DEF BroadcastUser, PublishJob, BroadcastJob, accountVars, RP!vars,
        RP!eventVars
    <2> QED
      BY <2>1, <2>2, <2>3, <2>4 DEF EventStep
  <1>3. CASE HubStep \/ QueueStep \/ UNCHANGED vars
    BY <1>3 DEF HubStep, QueueStep, vars, accountVars, RP!vars, RP!eventVars
  <1> QED
    BY <1>1, <1>2, <1>3 DEF Next

(* What Registration guarantees. *)
LEMMA Registered == Spec => []RP!IInv
  <1>1. Init => RP!Init
    BY DEF Init, R!Init, RP!Init
  <1>2. RP!Spec => []RP!IInv
    BY RP!Inductive, PoolSizeAssumption, NoneAssumption
  <1> QED
    BY <1>1, <1>2, RegistrationStep, PTL DEF Spec, RP!Spec

LEMMA HubRuns == [Next]_vars => [HP!Next]_(HP!vars)
  <1> SUFFICES ASSUME [Next]_vars PROVE [HP!Next]_(HP!vars)
    OBVIOUS
  <1> USE DEF HP!clientVars, HP!channelVars, HP!socketVars, HP!emitterVars,
    H!clientVars, H!channelVars, H!socketVars, H!emitterVars
  <1>1. CASE HubStep
    <2>1. PICK c \in Client :
            \/ H!ServeStep(c) \/ H!ReaderStep(c) \/ H!PumpStep(c) \/ H!PeerLeaves(c)
            \/ \E r \in Request : H!SendTo(r, c)
      BY <1>1 DEF HubStep
    <2>2. CASE H!ServeStep(c)
      <3>1. HP!ServeStep(c)
        BY <2>2 DEF H!ServeStep, H!Upgrade, H!UpgradeFails, H!LockToRegister, H!Register,
          H!Greet, H!Offer, H!Hello, H!Broadcasting, HP!ServeStep, HP!Upgrade,
          HP!UpgradeFails, HP!LockToRegister, HP!Register, HP!Greet, HP!Offer, HP!Hello,
          HP!Broadcasting
      <3> QED
        BY <3>1 DEF HP!Next
    <2>3. CASE H!ReaderStep(c)
      <3>1. HP!ReaderStep(c)
        BY <2>3 DEF H!ReaderStep, H!ReadError, H!LockToUnregister, H!Unregister,
          H!CloseSend,
          H!ReaderHangsUp, H!Broadcasting, HP!ReaderStep, HP!ReadError, HP!LockToUnregister,
          HP!Unregister, HP!CloseSend, HP!ReaderHangsUp, HP!Broadcasting
      <3> QED
        BY <3>1 DEF HP!Next
    <2>4. CASE H!PumpStep(c)
      <3>1. HP!PumpStep(c)
        BY <2>4 DEF H!PumpStep, H!TakeFrame, H!SendDrained, H!WriteOk, H!WriteFails,
          H!PumpHangsUp, HP!PumpStep, HP!TakeFrame, HP!SendDrained, HP!WriteOk,
          HP!WriteFails, HP!PumpHangsUp
      <3> QED
        BY <3>1 DEF HP!Next
    <2>5. CASE H!PeerLeaves(c)
      <3>1. HP!PeerLeaves(c)
        BY <2>5 DEF H!PeerLeaves, HP!PeerLeaves
      <3> QED
        BY <3>1 DEF HP!Next
    <2>6. ASSUME NEW r \in Request, H!SendTo(r, c)
          PROVE  HP!Next
      <3>1. HP!SendTo(r, c)
        BY <2>6 DEF H!SendTo, H!Offer, H!FrameOf, H!Kind, HP!SendTo, HP!Offer, HP!FrameOf,
          HP!Kind
      <3> QED
        BY <3>1 DEF HP!Next, HP!EmitterStep
    <2> QED
      BY <2>1, <2>2, <2>3, <2>4, <2>5, <2>6
  <1>2. CASE \E r \in Request : EventStep(r)
    <2>1. PICK r \in Request : EventStep(r)
      BY <1>2
    <2>2. CASE BroadcastUser(r) \/ BroadcastJob(r)
      <3>1. HP!BeginBroadcast(r)
        BY <2>2 DEF BroadcastUser, BroadcastJob, H!BeginBroadcast, HP!BeginBroadcast
      <3> QED
        BY <3>1 DEF HP!Next, HP!EmitterStep
    <2>3. CASE UserAnnounced(r) \/ JobAnnounced(r)
      <3>1. HP!EndBroadcast(r)
        BY <2>3 DEF UserAnnounced, JobAnnounced, H!EndBroadcast, HP!EndBroadcast
      <3> QED
        BY <3>1 DEF HP!Next, HP!EmitterStep
    <2>4. CASE PublishFailed(r)
      <3>1. HP!EmitterStops(r)
        BY <2>4 DEF PublishFailed, H!EmitterStops, HP!EmitterStops
      <3> QED
        BY <3>1 DEF HP!Next, HP!EmitterStep
    <2>5. CASE PublishJob(r)
      BY <2>5 DEF PublishJob, hubVars, HP!vars
    <2> QED
      BY <2>1, <2>2, <2>3, <2>4, <2>5 DEF EventStep
  <1>3. CASE (\E r \in Request : RequestStep(r)) \/ QueueStep \/ UNCHANGED vars
    BY <1>3 DEF RequestStep, QueueStep, vars, hubVars, HP!vars
  <1> QED
    BY <1>1, <1>2, <1>3 DEF Next

(* What Hub guarantees. *)
LEMMA HubSafe == Spec => [](HP!TypeInv /\ HP!LockInv)
  <1>1. Init => HP!Init
    BY DEF Init, H!Init, HP!Init, H!Hello, HP!Hello
  <1>2. HP!Spec => []HP!TypeInv
    BY HP!Typing, SendCapAssumption, NoneAssumption
  <1>3. HP!Spec => []HP!LockInv
    BY HP!Locking, SendCapAssumption, NoneAssumption
  <1> QED
    BY <1>1, <1>2, <1>3, HubRuns, PTL DEF Spec, HP!Spec

LEMMA QueueRuns == [Next]_vars => [QP!Next]_(QP!vars)
  <1> SUFFICES ASSUME [Next]_vars PROVE [QP!Next]_(QP!vars)
    OBVIOUS
  <1> USE DEF QP!brokerVars, QP!clientVars, QP!workerVars, Q!brokerVars, Q!clientVars,
    Q!workerVars, Q!InstanceOf, QP!InstanceOf, Q!Connected, QP!Connected
  <1>1. CASE QueueStep
    <2>1. ASSUME NEW w \in Q!Worker, Q!WorkerStep(w)
          PROVE  QP!Next
      <3>1. w \in QP!Worker
        BY <2>1 DEF Q!Worker, QP!Worker
      <3>2. QP!WorkerStep(w)
        BY <2>1 DEF Q!WorkerStep, Q!Take, Q!Malformed, Q!HandlerOk, Q!HandlerFails, Q!Ack,
          Q!Nack, Q!Reject, Q!WorkerExits, Q!Move, Q!Tell, QP!WorkerStep, QP!Take,
          QP!Malformed, QP!HandlerOk, QP!HandlerFails, QP!Ack, QP!Nack, QP!Reject,
          QP!WorkerExits, QP!Move, QP!Tell
      <3> QED
        BY <3>1, <3>2 DEF QP!Next
    <2>2. ASSUME NEW j \in Request, Q!Store(j)
          PROVE  QP!Next
      <3>1. QP!Store(j)
        BY <2>2 DEF Q!Store, QP!Store
      <3> QED
        BY <3>1 DEF QP!Next
    <2>3. ASSUME NEW j \in Request, Q!Deliver(Home, j)
          PROVE  QP!Next
      <3>1. QP!Deliver(Home, j)
        BY <2>3 DEF Q!Deliver, QP!Deliver
      <3> QED
        BY <3>1 DEF QP!Next, QP!ConnectionStep
    <2>4. CASE Q!LoseConnection(Home)
      <3>1. QP!LoseConnection(Home)
        BY <2>4 DEF Q!LoseConnection, Q!Requeue, QP!LoseConnection, QP!Requeue
      <3> QED
        BY <3>1 DEF QP!Next, QP!ConnectionStep
    <2> QED
      BY <1>1, <2>1, <2>2, <2>3, <2>4 DEF QueueStep
  <1>2. CASE \E r \in Request : EventStep(r)
    <2>1. PICK r \in Request : EventStep(r)
      BY <1>2
    <2>2. CASE PublishJob(r)
      <3>1. QP!Publish(Home, r)
        BY <2>2 DEF PublishJob, Q!Publish, QP!Publish
      <3> QED
        BY <3>1 DEF QP!Next, QP!ConnectionStep
    <2>3. CASE PublishFailed(r)
      <3>1. QP!PublishFails(Home, r)
        BY <2>3 DEF PublishFailed, Q!PublishFails, QP!PublishFails
      <3> QED
        BY <3>1 DEF QP!Next, QP!ConnectionStep
    <2>4. CASE BroadcastUser(r) \/ UserAnnounced(r) \/ BroadcastJob(r) \/ JobAnnounced(r)
      BY <2>4 DEF BroadcastUser, UserAnnounced, BroadcastJob, JobAnnounced, queueVars,
        QP!vars
    <2> QED
      BY <2>1, <2>2, <2>3, <2>4 DEF EventStep
  <1>3. CASE (\E r \in Request : RequestStep(r)) \/ HubStep \/ UNCHANGED vars
    BY <1>3 DEF RequestStep, HubStep, vars, queueVars, QP!vars
  <1> QED
    BY <1>1, <1>2, <1>3 DEF Next

(* What Queue guarantees. *)
LEMMA QueueSafe == Spec => [](QP!TypeInv /\ QP!IInv)
  <1>1. Init => QP!Init
    BY DEF Init, Q!Init, QP!Init, Q!Worker, QP!Worker
  <1>2. QP!Spec => []QP!TypeInv
    BY QP!Typing, ConcurrencyAssumption, BoundAssumption, NoneAssumption
  <1>3. QP!Spec => []QP!IInv
    BY QP!Safety, ConcurrencyAssumption, BoundAssumption, NoneAssumption
  <1> QED
    BY <1>1, <1>2, <1>3, QueueRuns, PTL DEF Spec, QP!Spec

(* Together they implement the abstract specifications of the components,  *)
(* and the hub panics in none of the requests it is called from.           *)
THEOREM ComponentsCorrect ==
  Spec => RP!ImplementsRegistry /\ QP!ImplementsJobStore /\ []HP!NoPanic
  <1>1. Init => RP!Init /\ HP!Init /\ QP!Init
    BY DEF Init, R!Init, RP!Init, H!Init, HP!Init, H!Hello, HP!Hello, Q!Init, QP!Init,
      Q!Worker, QP!Worker
  <1>2. RP!Spec => RP!ImplementsRegistry
    BY RP!Refinement, PoolSizeAssumption, NoneAssumption
  <1>3. HP!Spec => []HP!NoPanic
    BY HP!NeverPanics, SendCapAssumption, NoneAssumption
  <1>4. QP!Spec => QP!ImplementsJobStore
    BY QP!Refinement, ConcurrencyAssumption, BoundAssumption, NoneAssumption
  <1> QED
    BY <1>1, <1>2, <1>3, <1>4, RegistrationStep, HubRuns, QueueRuns, PTL
    DEF Spec, RP!Spec, HP!Spec, QP!Spec

(* What the components promise on their own. *)
ComponentPromises ==
  /\ RP!PoolRespected /\ RP!CreatedIsAnnounced
  /\ HP!BroadcastReaches /\ HP!DeliveredInOrder /\ HP!NothingSwallowed
  /\ QP!HandledBeforeGone /\ QP!OneHolder /\ QP!NoJobForgotten

(* What holds of a component alone holds of it here: the pool is not       *)
(* overdrawn, who is told 201 had its events sent, a broadcast passes no   *)
(* client over, frames arrive in order and none is swallowed, and a job is *)
(* neither forgotten, nor in two hands, nor gone before it was handled.    *)
THEOREM ComponentsSafe == Spec => []ComponentPromises
  <1>1. Init => RP!Init /\ HP!Init /\ QP!Init
    BY DEF Init, R!Init, RP!Init, H!Init, HP!Init, H!Hello, HP!Hello, Q!Init, QP!Init,
      Q!Worker, QP!Worker
  <1>2. /\ RP!Spec => []RP!PoolRespected
        /\ RP!Spec => []RP!CreatedIsAnnounced
    BY RP!PoolNeverOverdrawn, RP!CreatedAccountsAnnounced, PoolSizeAssumption,
      NoneAssumption
  <1>3. /\ HP!Spec => []HP!BroadcastReaches
        /\ HP!Spec => []HP!DeliveredInOrder
        /\ HP!Spec => []HP!NothingSwallowed
    BY HP!NoClientSkipped, HP!InOrderDelivery, HP!NoFrameSwallowed, SendCapAssumption,
      NoneAssumption
  <1>4. /\ QP!Spec => []QP!HandledBeforeGone
        /\ QP!Spec => []QP!OneHolder
        /\ QP!Spec => []QP!NoJobForgotten
    BY QP!NothingLost, QP!HeldOnce, QP!DeliveriesKept, ConcurrencyAssumption,
      BoundAssumption, NoneAssumption
  <1> QED
    BY <1>1, <1>2, <1>3, <1>4, RegistrationStep, HubRuns, QueueRuns, PTL
    DEF Spec, RP!Spec, HP!Spec, QP!Spec, ComponentPromises

-----------------------------------------------------------------------------
(* The invariant: what relates the state of one component to another's.    *)

ComponentInv ==
  /\ RP!IInv
  /\ HP!TypeInv /\ HP!LockInv
  /\ QP!TypeInv /\ QP!IInv

(* The listeners have run in their order. *)
WelcomeAnnounced == \A r \in Request : broker[r] # "new" => r \in announced

FailureEnds ==
  \A r \in Request :
    broker[r] = "failed" => at[r] \in {"auditing", "replying", "done", "dead"}

SecondIsJob == \A r \in Request : round[r] = 2 => broker[r] \notin {"new", "failed"}

JobFrames ==
  \A r \in Request : \A c \in Client :
    HP!Reached(c, HP!FrameOf(r, 2)) => broker[r] \notin {"new", "failed"}

EventInv == WelcomeAnnounced /\ FailureEnds /\ SecondIsJob

(* Of a job the queue's own steps leave only what was published. *)
LEMMA QueueStepPublished ==
  ASSUME ComponentInv, QueueStep, NEW r \in Request
  PROVE  /\ broker'[r] = "new" <=> broker[r] = "new"
         /\ broker'[r] = "failed" <=> broker[r] = "failed"
  <1> USE DEF ComponentInv, QP!TypeInv, QP!TypeOK
  <1>1. ASSUME NEW w \in Q!Worker, Q!WorkerStep(w), broker' # broker
        PROVE  /\ broker' = [broker EXCEPT ![job[w]] = "ready"]
                  \/ broker' = [broker EXCEPT ![job[w]] = "gone"]
               /\ broker[job[w]] \in {"ready", "unacked", "gone"}
    <2>1. w \in QP!Worker /\ worker[w] \in {"acking", "nacking", "rejecting"}
      BY <1>1 DEF Q!Worker, QP!Worker, Q!WorkerStep, Q!Take, Q!Malformed, Q!HandlerOk,
        Q!HandlerFails, Q!Ack, Q!Nack, Q!Reject, Q!WorkerExits, Q!Move, Q!brokerVars,
        Q!clientVars
    <2>2. broker[job[w]] \in {"ready", "unacked", "gone"}
      BY <2>1 DEF QP!IInv, QP!HeldStored, QP!Busy
    <2> QED
      BY <1>1, <2>2 DEF Q!WorkerStep, Q!Take, Q!Malformed, Q!HandlerOk, Q!HandlerFails,
        Q!Ack, Q!Nack, Q!Reject, Q!WorkerExits, Q!Tell, Q!brokerVars, Q!clientVars
  <1>2. ASSUME NEW j \in Request, Q!Store(j) \/ Q!Deliver(Home, j)
        PROVE  /\ broker' = [broker EXCEPT ![j] = "ready"]
                  \/ broker' = [broker EXCEPT ![j] = "unacked"]
               /\ broker[j] \in {"wire", "ready"}
    BY <1>2 DEF Q!Store, Q!Deliver
  <1>3. CASE Q!LoseConnection(Home)
    <2>1. via[r] = Home => broker[r] \in {"wire", "unacked"}
      BY NoneAssumption DEF QP!IInv, QP!OnConnection
    <2> QED
      BY <1>3, <2>1 DEF Q!LoseConnection, Q!Requeue
  <1>4. broker \in [Request -> {"new", "failed", "wire", "lost", "ready", "unacked", "gone"}]
    OBVIOUS
  <1> QED
    BY <1>1, <1>2, <1>3, <1>4 DEF QueueStep

(* An event goes to the hub before the job goes to the broker, and the     *)
(* second event comes after that.                                          *)
LEMMA EventsStep ==
  ASSUME ComponentInv, EventInv, [Next]_vars
  PROVE  EventInv'
  <1> USE DEF EventInv
  <1>1. /\ at \in [Request -> {"new", "checkWait", "checking", "hashing", "insertWait",
                           "inserting", "committed", "created", "announcing", "auditing",
                           "replying", "done", "dead"}]
        /\ broker \in [Request -> {"new", "failed", "wire", "lost", "ready", "unacked",
                                   "gone"}]
        /\ round \in [Request -> 0..2]
        /\ announced \subseteq Request
    BY DEF ComponentInv, RP!IInv, RP!TypeOK, QP!TypeInv, QP!TypeOK, HP!TypeInv, HP!TypeOK
  <1>2. \A r \in Request : at[r] = "announcing" => r \in announced
    BY DEF ComponentInv, RP!IInv, RP!EventsInOrder
  <1>3. CASE \E r \in Request : RequestStep(r)
    <2>1. PICK r \in Request : RequestStep(r)
      BY <1>3
    <2>2. UNCHANGED <<announced, broker, round>>
      BY <2>1 DEF RequestStep, hubVars, queueVars, R!CheckStep, R!Submit, R!Invalid,
        R!AcquireForCheck, R!CheckFinds, R!CheckMisses, R!CheckWaitFails, R!InsertStep,
        R!Hash, R!HashFails, R!AcquireForInsert, R!InsertCommits, R!InsertRefused,
        R!InsertFails, R!InsertReturns, R!EmitAuditLog, R!Reply, R!AuditStep,
        R!AuditAcquires, R!AuditWritten, R!AuditFails, R!eventVars
    <2>3. FailureEnds'
      <3>1. \A x \in Request : at[x] \in {"auditing", "replying", "done", "dead"} =>
              at'[x] \in {"auditing", "replying", "done", "dead"}
        BY <1>1, <2>1 DEF RequestStep, R!CheckStep, R!Submit, R!Invalid,
          R!AcquireForCheck, R!CheckFinds, R!CheckMisses, R!CheckWaitFails, R!InsertStep,
          R!Hash, R!HashFails, R!AcquireForInsert, R!InsertCommits, R!InsertRefused,
          R!InsertFails, R!InsertReturns, R!EmitAuditLog, R!Reply, R!AuditStep,
          R!AuditAcquires, R!AuditWritten, R!AuditFails, R!Go, R!Answer
      <3> QED
        BY <2>2, <3>1 DEF FailureEnds
    <2> QED
      BY <2>2, <2>3 DEF WelcomeAnnounced, SecondIsJob
  <1>4. CASE HubStep
    <2>1. UNCHANGED <<at, announced, broker, round>>
      BY <1>4 DEF HubStep, accountVars, queueVars, H!ServeStep, H!Upgrade, H!UpgradeFails,
        H!LockToRegister, H!Register, H!Greet, H!ReaderStep, H!ReadError,
        H!LockToUnregister, H!Unregister, H!CloseSend, H!ReaderHangsUp, H!PumpStep,
        H!TakeFrame, H!SendDrained, H!WriteOk, H!WriteFails, H!PumpHangsUp, H!PeerLeaves,
        H!SendTo, H!emitterVars
    <2> QED
      BY <2>1 DEF WelcomeAnnounced, FailureEnds, SecondIsJob
  <1>5. CASE QueueStep
    <2>1. UNCHANGED <<at, announced, round>>
      BY <1>5 DEF QueueStep, accountVars, hubVars
    <2> QED
      BY <1>5, <2>1, QueueStepPublished DEF WelcomeAnnounced, FailureEnds, SecondIsJob
  <1>6. CASE \E r \in Request : EventStep(r)
    <2>1. PICK r \in Request : EventStep(r)
      BY <1>6
    <2>2. CASE BroadcastUser(r)
      BY <1>1, <2>2 DEF BroadcastUser, Broadcasted, H!BeginBroadcast, accountVars,
        queueVars,
        WelcomeAnnounced, FailureEnds, SecondIsJob
    <2>3. CASE UserAnnounced(r)
      BY <1>1, <2>3 DEF UserAnnounced, R!AnnounceUser, R!Go, H!EndBroadcast, queueVars,
        WelcomeAnnounced, FailureEnds, SecondIsJob
    <2>4. CASE PublishJob(r)
      BY <1>1, <1>2, <2>4 DEF PublishJob, Q!Publish, accountVars, hubVars, WelcomeAnnounced,
        FailureEnds, SecondIsJob
    <2>5. CASE PublishFailed(r)
      BY <1>1, <1>2, <2>5 DEF PublishFailed, Q!PublishFails, R!Enqueue, R!Go,
        H!EmitterStops, WelcomeAnnounced, FailureEnds, SecondIsJob
    <2>6. CASE BroadcastJob(r)
      BY <1>1, <2>6 DEF BroadcastJob, H!BeginBroadcast, accountVars, queueVars,
        WelcomeAnnounced, FailureEnds, SecondIsJob
    <2>7. CASE JobAnnounced(r)
      BY <1>1, <2>7 DEF JobAnnounced, R!Enqueue, R!Go, H!EndBroadcast, queueVars,
        WelcomeAnnounced, FailureEnds, SecondIsJob
    <2> QED
      BY <2>1, <2>2, <2>3, <2>4, <2>5, <2>6, <2>7 DEF EventStep
  <1>7. CASE UNCHANGED vars
    BY <1>7 DEF vars, accountVars, hubVars, queueVars, WelcomeAnnounced, FailureEnds,
      SecondIsJob
  <1> QED
    BY <1>3, <1>4, <1>5, <1>6, <1>7 DEF Next

(* A job that was handed to the broker stays so. *)
LEMMA HandedStays ==
  ASSUME ComponentInv, [Next]_vars, NEW r \in Request, broker[r] \notin {"new", "failed"}
  PROVE  broker'[r] \notin {"new", "failed"}
  <1>1. CASE QueueStep
    BY <1>1, QueueStepPublished
  <1>2. ASSUME NEW x \in Request, EventStep(x)
        PROVE  broker'[r] \notin {"new", "failed"}
    BY <1>2 DEF EventStep, BroadcastUser, UserAnnounced, PublishJob, PublishFailed,
      BroadcastJob, JobAnnounced, Q!Publish, Q!PublishFails, queueVars, ComponentInv,
      QP!TypeInv, QP!TypeOK
  <1>3. CASE (\E x \in Request : RequestStep(x)) \/ HubStep \/ UNCHANGED vars
    BY <1>3 DEF RequestStep, HubStep, queueVars, vars
  <1> QED
    BY <1>1, <1>2, <1>3 DEF Next

(* Frames tell each other apart. *)
LEMMA FramesDiffer ==
  ASSUME NEW r \in Request, NEW x \in Request, NEW k \in 1..2, NEW l \in 1..2
  PROVE  /\ HP!FrameOf(r, k) # HP!Hello
         /\ HP!FrameOf(r, k) = HP!FrameOf(x, l) => r = x /\ k = l
  BY DEF HP!FrameOf, HP!Hello, HP!Kind

(* What a step makes reach a browser, it is the event being broadcast. *)
LEMMA NewFrames ==
  ASSUME ComponentInv, [Next]_vars, NEW r \in Request, NEW c \in Client, NEW k \in 1..2
  PROVE  /\ HP!Reached(c, HP!FrameOf(r, k)) => HP!Reached(c, HP!FrameOf(r, k))'
         /\ HP!Reached(c, HP!FrameOf(r, k))' =>
              HP!Reached(c, HP!FrameOf(r, k)) \/ round[r] = k
  <1> DEFINE g == HP!FrameOf(r, k)
  <1>1. /\ HP!Reached(c, g) => HP!Reached(c, g)'
        /\ HP!Reached(c, g)' =>
             \/ HP!Reached(c, g)
             \/ g = HP!Hello
             \/ \E e \in Request : bcast[e] = "sending" /\ g = HP!FrameOf(e, round[e])
    <2> HIDE DEF g
    <2> QED
      BY HubRuns, HP!HistoryStep, SendCapAssumption, NoneAssumption DEF ComponentInv
  <1>2. g # HP!Hello
    BY FramesDiffer
  <1>3. ASSUME NEW e \in Request, bcast[e] = "sending", g = HP!FrameOf(e, round[e])
        PROVE  round[r] = k
    <2>1. round[e] \in 1..2
      BY <1>3 DEF ComponentInv, HP!TypeInv, HP!TypeOK, HP!RoundStarted
    <2> QED
      BY <1>3, <2>1, FramesDiffer
  <1> QED
    BY <1>1, <1>2, <1>3

LEMMA JobFramesStep ==
  ASSUME ComponentInv, EventInv, JobFrames, [Next]_vars
  PROVE  JobFrames'
  <1> SUFFICES ASSUME NEW r \in Request, NEW c \in Client, HP!Reached(c, HP!FrameOf(r, 2))'
               PROVE  broker'[r] \notin {"new", "failed"}
    BY DEF JobFrames, HP!FrameOf
  <1>1. HP!Reached(c, HP!FrameOf(r, 2)) \/ round[r] = 2
    BY NewFrames
  <1>2. broker[r] \notin {"new", "failed"}
    BY <1>1 DEF JobFrames, EventInv, SecondIsJob
  <1> QED
    BY <1>2, HandedStays

-----------------------------------------------------------------------------
(* The audience of an event.                                               *)

AudienceTyped == audience \in [Request -> SUBSET Client]

(* The hub's first broadcast of a request leaves nobody of its audience    *)
(* behind,                                                                 *)
BroadcastCovers ==
  \A r \in Request : bcast[r] = "sending" /\ round[r] = 1 =>
    \A c \in audience[r] \ visit[r] : HP!Reached(c, HP!FrameOf(r, 1))

(* and the request waits for it. *)
AudienceReached ==
  \A r \in Request :
    at[r] \in {"announcing", "auditing", "replying"} \/ answer[r] = "201" =>
      \A c \in audience[r] : HP!Reached(c, HP!FrameOf(r, 1))

AudienceInv == AudienceTyped /\ BroadcastCovers /\ AudienceReached

(* A step of the hub passes a client of the map by giving it the frame. *)
LEMMA HubStepCovers ==
  ASSUME ComponentInv, AudienceInv, HubStep
  PROVE  BroadcastCovers'
  <1> SUFFICES ASSUME NEW r \in Request, bcast'[r] = "sending", round'[r] = 1,
                      NEW c \in audience'[r], c \notin visit'[r]
               PROVE  HP!Reached(c, HP!FrameOf(r, 1))'
    BY DEF BroadcastCovers, HP!FrameOf
  <1> USE DEF ComponentInv
  <1>1. audience' = audience /\ c \in Client /\ [Next]_vars
    BY DEF HubStep, AudienceInv, AudienceTyped, Next
  <1>2. CASE c \notin visit[r] /\ bcast[r] = "sending" /\ round[r] = 1
    <2>1. HP!Reached(c, HP!FrameOf(r, 1))
      BY <1>1, <1>2 DEF AudienceInv, BroadcastCovers
    <2> QED
      BY <1>1, <2>1, NewFrames
  <1>3. ASSUME NEW e \in Request, NEW d \in Client, H!SendTo(e, d),
               ~(c \notin visit[r] /\ bcast[r] = "sending" /\ round[r] = 1)
        PROVE  HP!Reached(c, HP!FrameOf(r, 1))'
    <2>1. /\ d \in visit[e] /\ bcast[e] = "sending"
          /\ HP!Offer(d, HP!FrameOf(e, round[e]))
          /\ visit' = [visit EXCEPT ![e] = @ \ {d}]
          /\ UNCHANGED <<bcast, round>>
      BY <1>3 DEF H!SendTo, H!Offer, H!FrameOf, H!Kind, HP!Offer, HP!FrameOf, HP!Kind
    <2>2. r = e /\ c = d /\ round[e] = 1
      BY <1>1, <1>3, <2>1 DEF HP!TypeInv, HP!TypeOK
    <2>3. HP!FrameOf(e, round[e]) \in HP!Frame
      BY <2>2 DEF HP!Frame
    <2>4. ~closed[d]
      BY <2>1 DEF HP!LockInv, HP!VisitsRegistered, HP!RegisteredClients, HP!ClosedByReader
    <2>5. HP!Reached(d, HP!FrameOf(e, round[e]))'
      <3> DEFINE f == HP!FrameOf(e, 1)
      <3>1. HP!Offer(d, f) /\ f \in HP!Frame
        BY <2>1, <2>2, <2>3
      <3>2. HP!Reached(d, f)'
        <4> HIDE DEF f
        <4> QED
          BY <2>4, <3>1, HP!OfferReaches, SendCapAssumption, NoneAssumption
      <3> QED
        BY <2>1, <2>2, <3>2 DEF HP!FrameOf
    <2> QED
      BY <2>1, <2>2, <2>5 DEF HP!FrameOf
  <1>4. (UNCHANGED <<bcast, round, visit>>)
          \/ \E e \in Request, d \in Client : H!SendTo(e, d)
    BY DEF HubStep, H!ServeStep, H!Upgrade, H!UpgradeFails, H!LockToRegister, H!Register,
      H!Greet, H!ReaderStep, H!ReadError, H!LockToUnregister, H!Unregister, H!CloseSend,
      H!ReaderHangsUp, H!PumpStep, H!TakeFrame, H!SendDrained, H!WriteOk, H!WriteFails,
      H!PumpHangsUp, H!PeerLeaves, H!emitterVars
  <1> QED
    BY <1>2, <1>3, <1>4

LEMMA AudienceStep ==
  ASSUME ComponentInv, AudienceInv, [Next]_vars
  PROVE  AudienceInv'
  <1> USE DEF AudienceInv
  <1>1. /\ at \in [Request -> {"new", "checkWait", "checking", "hashing", "insertWait",
                           "inserting", "committed", "created", "announcing", "auditing",
                           "replying", "done", "dead"}]
        /\ answer \in [Request -> {"none", "201", "400", "409", "422", "500"}]
        /\ bcast \in [Request -> {"idle", "sending", "stopped"}]
        /\ round \in [Request -> 0..2]
        /\ visit \in [Request -> SUBSET Client]
        /\ clients \subseteq Client
        /\ \A r \in Request : answer[r] = "201" => at[r] = "done"
    BY DEF ComponentInv, RP!IInv, RP!TypeOK, RP!AnsweredLast, HP!TypeInv, HP!TypeOK
  <1>2. \A r \in Request : \A c \in Client :
          HP!Reached(c, HP!FrameOf(r, 1)) => HP!Reached(c, HP!FrameOf(r, 1))'
    BY NewFrames
  <1>3. ASSUME UNCHANGED <<audience, bcast, round, visit>>,
               \A r \in Request :
                 at'[r] \in {"announcing", "auditing", "replying"} \/ answer'[r] = "201" =>
                   at[r] \in {"announcing", "auditing", "replying"} \/ answer[r] = "201"
        PROVE  AudienceInv'
    <2>1. AudienceTyped' /\ BroadcastCovers'
      BY <1>2, <1>3 DEF AudienceTyped, BroadcastCovers, HP!FrameOf
    <2>2. AudienceReached'
      BY <1>2, <1>3 DEF AudienceTyped, AudienceReached, HP!FrameOf
    <2> QED
      BY <2>1, <2>2
  <1>4. CASE \E r \in Request : RequestStep(r)
    <2>1. PICK r \in Request : RequestStep(r)
      BY <1>4
    <2>2. UNCHANGED <<audience, bcast, round, visit>>
      BY <2>1 DEF RequestStep, hubVars
    <2>3. \A x \in Request :
            at'[x] \in {"announcing", "auditing", "replying"} \/ answer'[x] = "201" =>
              at[x] \in {"announcing", "auditing", "replying"} \/ answer[x] = "201"
      BY <1>1, <2>1 DEF RequestStep, R!CheckStep, R!Submit, R!Invalid, R!AcquireForCheck,
        R!CheckFinds, R!CheckMisses, R!CheckWaitFails, R!InsertStep, R!Hash, R!HashFails,
        R!AcquireForInsert, R!InsertCommits, R!InsertRefused, R!InsertFails,
        R!InsertReturns, R!EmitAuditLog, R!Reply, R!AuditStep, R!AuditAcquires,
        R!AuditWritten, R!AuditFails, R!Go, R!Answer
    <2> QED
      BY <1>3, <2>2, <2>3
  <1>5. CASE HubStep
    <2>1. UNCHANGED <<audience, at, answer>>
      BY <1>5 DEF HubStep, accountVars
    <2>2. AudienceTyped' /\ AudienceReached'
      BY <1>2, <2>1 DEF AudienceTyped, AudienceReached, HP!FrameOf
    <2> QED
      BY <1>5, <2>2, HubStepCovers
  <1>6. CASE \E r \in Request : EventStep(r)
    <2>1. PICK r \in Request : EventStep(r)
      BY <1>6
    <2>2. CASE BroadcastUser(r)
      <3>1. /\ audience' = [audience EXCEPT ![r] = clients]
            /\ visit' = [visit EXCEPT ![r] = clients]
            /\ bcast' = [bcast EXCEPT ![r] = "sending"]
            /\ round' = [round EXCEPT ![r] = @ + 1]
            /\ at[r] = "created" /\ UNCHANGED <<at, answer>>
        BY <2>2 DEF BroadcastUser, H!BeginBroadcast, accountVars
      <3>2. AudienceTyped'
        BY <1>1, <3>1 DEF AudienceTyped
      <3>3. ASSUME NEW x \in Request, x # r
            PROVE  /\ audience'[x] = audience[x] /\ visit'[x] = visit[x]
                   /\ bcast'[x] = bcast[x] /\ round'[x] = round[x]
        BY <1>1, <3>1, <3>3 DEF AudienceTyped
      <3>4. audience'[r] = visit'[r]
        BY <1>1, <3>1 DEF AudienceTyped
      <3>5. BroadcastCovers'
        BY <1>2, <3>3, <3>4 DEF AudienceTyped, BroadcastCovers, HP!FrameOf
      <3>6. AudienceReached'
        BY <1>1, <1>2, <3>1, <3>3 DEF AudienceTyped, AudienceReached, HP!FrameOf
      <3> QED
        BY <3>2, <3>5, <3>6
    <2>3. CASE UserAnnounced(r)
      <3>1. /\ bcast[r] = "sending" /\ round[r] = 1 /\ visit[r] = {}
            /\ bcast' = [bcast EXCEPT ![r] = "idle"]
            /\ at' = [at EXCEPT ![r] = "announcing"]
            /\ UNCHANGED <<audience, round, visit, answer>>
        BY <2>3 DEF UserAnnounced, Broadcasting, R!AnnounceUser, R!Go, H!EndBroadcast
      <3>2. \A c \in audience[r] : HP!Reached(c, HP!FrameOf(r, 1))
        BY <3>1 DEF BroadcastCovers
      <3>3. AudienceTyped' /\ BroadcastCovers'
        BY <1>1, <1>2, <3>1 DEF AudienceTyped, BroadcastCovers, HP!FrameOf
      <3>4. AudienceReached'
        BY <1>1, <1>2, <3>1, <3>2 DEF AudienceTyped, AudienceReached, HP!FrameOf
      <3> QED
        BY <3>3, <3>4
    <2>4. CASE PublishJob(r)
      BY <1>3, <2>4 DEF PublishJob, accountVars, hubVars
    <2>5. CASE BroadcastJob(r)
      <3>1. /\ round[r] = 1
            /\ visit' = [visit EXCEPT ![r] = clients]
            /\ bcast' = [bcast EXCEPT ![r] = "sending"]
            /\ round' = [round EXCEPT ![r] = @ + 1]
            /\ UNCHANGED <<at, answer, audience>>
        BY <2>5 DEF BroadcastJob, Broadcasted, H!BeginBroadcast, accountVars
      <3>2. AudienceTyped' /\ AudienceReached'
        BY <1>2, <3>1 DEF AudienceTyped, AudienceReached, HP!FrameOf
      <3>3. round'[r] = 2 /\ \A x \in Request \ {r} :
              visit'[x] = visit[x] /\ bcast'[x] = bcast[x] /\ round'[x] = round[x]
        BY <1>1, <3>1
      <3>4. BroadcastCovers'
        BY <1>2, <3>1, <3>3 DEF AudienceTyped, BroadcastCovers, HP!FrameOf
      <3> QED
        BY <3>2, <3>4
    <2>6. CASE PublishFailed(r) \/ JobAnnounced(r)
      <3>1. /\ bcast' = [bcast EXCEPT ![r] = "stopped"]
               \/ bcast' = [bcast EXCEPT ![r] = "idle"]
            /\ at[r] = "announcing" /\ at' = [at EXCEPT ![r] = "auditing"]
            /\ UNCHANGED <<audience, round, visit, answer>>
        BY <2>6 DEF PublishFailed, JobAnnounced, R!Enqueue, R!Go, H!EmitterStops,
          H!EndBroadcast
      <3>2. AudienceTyped' /\ BroadcastCovers'
        BY <1>1, <1>2, <3>1 DEF AudienceTyped, BroadcastCovers, HP!FrameOf
      <3>3. AudienceReached'
        BY <1>1, <1>2, <3>1 DEF AudienceTyped, AudienceReached, HP!FrameOf
      <3> QED
        BY <3>2, <3>3
    <2> QED
      BY <2>1, <2>2, <2>3, <2>4, <2>5, <2>6 DEF EventStep
  <1>7. CASE QueueStep \/ UNCHANGED vars
    BY <1>3, <1>7 DEF QueueStep, vars, accountVars, hubVars
  <1> QED
    BY <1>4, <1>5, <1>6, <1>7 DEF Next

-----------------------------------------------------------------------------
(* The theorems.                                                           *)

IInv == ComponentInv /\ EventInv /\ JobFrames /\ AudienceInv

LEMMA Inductive == Spec => []IInv
  <1>1. Init => EventInv /\ AudienceInv
    <2> SUFFICES ASSUME Init PROVE EventInv /\ AudienceInv
      OBVIOUS
    <2>1. EventInv
      BY DEF Init, Q!Init, H!Init, EventInv, WelcomeAnnounced, FailureEnds, SecondIsJob
    <2>2. AudienceInv
      BY DEF Init, H!Init, R!Init, AudienceInv, AudienceTyped, BroadcastCovers,
        AudienceReached
    <2> QED
      BY <2>1, <2>2
  <1>2. Init => JobFrames
    BY DEF Init, H!Init, JobFrames, HP!Reached
  <1>3. Spec => []ComponentInv
    BY Registered, HubSafe, QueueSafe, PTL DEF ComponentInv
  <1>4. ComponentInv /\ (EventInv /\ JobFrames /\ AudienceInv) /\ [Next]_vars
          => (EventInv /\ JobFrames /\ AudienceInv)'
    BY EventsStep, JobFramesStep, AudienceStep
  <1> QED
    BY <1>1, <1>2, <1>3, <1>4, PTL DEF Spec, IInv

(* Properties are stated with the names of Service. *)
LEMMA SameFrames ==
  ASSUME NEW r \in Request, NEW c \in Client, NEW k \in 1..2
  PROVE  H!Reached(c, H!FrameOf(r, k)) <=> HP!Reached(c, HP!FrameOf(r, k))
  BY DEF H!Reached, H!FrameOf, H!Kind, HP!Reached, HP!FrameOf, HP!Kind

(* Every variable keeps its type. *)
THEOREM TypeCorrect == Spec => []TypeOK
  <1>1. RP!TypeOK => R!TypeOK
    BY DEF RP!TypeOK, R!TypeOK
  <1>2. HP!TypeOK => H!TypeOK
    BY DEF HP!TypeOK, H!TypeOK, HP!Frame, H!Frame, HP!FrameOf, H!FrameOf, HP!Kind, H!Kind,
      HP!Hello, H!Hello
  <1>3. QP!TypeOK => Q!TypeOK
    BY DEF QP!TypeOK, Q!TypeOK, QP!Worker, Q!Worker
  <1>4. IInv => RP!TypeOK /\ HP!TypeOK /\ QP!TypeOK /\ AudienceTyped
    BY DEF IInv, ComponentInv, RP!IInv, HP!TypeInv, QP!TypeInv, AudienceInv
  <1>5. IInv => TypeOK
    BY <1>1, <1>2, <1>3, <1>4 DEF AudienceTyped, TypeOK
  <1> QED
    BY <1>5, Inductive, PTL

(* A welcome email is for an account that exists and was announced. *)
THEOREM WelcomesHaveAccounts == Spec => []WelcomeHasAccount
  <1>1. IInv => WelcomeHasAccount
    BY DEF IInv, ComponentInv, EventInv, WelcomeAnnounced, WelcomeHasAccount, RP!IInv,
      RP!EffectsCommitted
  <1> QED
    BY <1>1, Inductive, PTL

(* A browser hears of a job only after it was handed to the broker. *)
THEOREM JobFramesTrue == Spec => []JobFrameIsTrue
  <1>1. IInv => JobFrameIsTrue
    BY SameFrames DEF IInv, JobFrames, JobFrameIsTrue
  <1> QED
    BY <1>1, Inductive, PTL

(* Who is told 201 may rely on every browser that was connected having     *)
(* been sent the news, or having had no room for it.                       *)
THEOREM CreatedAccountsKnown == Spec => []CreatedIsKnown
  <1>1. IInv => CreatedIsKnown
    BY SameFrames DEF IInv, AudienceInv, AudienceTyped, AudienceReached, CreatedIsKnown
  <1> QED
    BY <1>1, Inductive, PTL

-----------------------------------------------------------------------------
(* Liveness.  The prover has no rule for ENABLED, so each condition of     *)
(* Fairness is stated with its guard written out; the box of               *)
(* GuardedFairness adds nothing, as each condition is about the far future. *)

(* What the goroutine of a request does once its account is created. *)
Goroutine(r) ==
  \/ EventStep(r)
  \/ (\E c \in Client : H!SendTo(r, c)) /\ HubStep
  \/ (R!EmitAuditLog(r) \/ R!Reply(r)) /\ RequestStep(r)

Arrive(r) == (Q!Store(r) \/ Q!Deliver(Home, r)) /\ QueueStep
Taking(r) == (\E w \in Q!Worker : Q!Take(w, r)) /\ QueueStep
Success(r) == (\E w \in Q!Worker : job[w] = r /\ Q!HandlerOk(w)) /\ QueueStep
GoOn(w) == (Q!HandlerFails(w) \/ Q!Ack(w) \/ Q!Nack(w)) /\ QueueStep

CanGo(r) ==
  \/ at[r] = "created" /\ bcast[r] = "idle" /\ writer = None
  \/ at[r] = "announcing" /\ bcast[r] = "idle" /\ (broker[r] = "new" \/ writer = None)
  \/ bcast[r] = "sending"
  \/ at[r] \in {"auditing", "replying"}
CanArrive(r) == broker[r] = "wire" \/ (broker[r] = "ready" /\ Q!Connected(Home))
CanTake(r) == \E w \in Q!Worker : worker[w] = "idle" /\ r \in buffer[Home]
CanHandle(r) == \E w \in Q!Worker : job[w] = r /\ worker[w] = "handling"
AtWork(w) == worker[w] \in {"handling", "acking", "nacking"}

RequestServed(r) == <>[]~CanGo(r) \/ []<><<Goroutine(r)>>_vars

JobServed(r) ==
  /\ <>[]~CanArrive(r) \/ []<><<Arrive(r)>>_vars
  /\ <>[]~CanTake(r) \/ []<><<Taking(r)>>_vars
  /\ <>[]~CanHandle(r) \/ []<><<Success(r)>>_vars

WorkerGoesOn(w) == []<>~AtWork(w) \/ []<><<GoOn(w)>>_vars

Writes(c) == (H!Register(c) \/ H!Unregister(c)) /\ HubStep
CanWrite(c) == writer = c /\ H!Broadcasting = {}
WriterGoesOn(c) == []<>~CanWrite(c) \/ []<><<Writes(c)>>_vars

AllServed ==
  /\ \A r \in Request : RequestServed(r) /\ JobServed(r)
  /\ \A w \in Q!Worker : WorkerGoesOn(w)
  /\ \A c \in Client : WriterGoesOn(c)

GuardedFairness == []AllServed

(* The hub's lock moves on: a broadcast ends, and who holds or waits for   *)
(* the write lock gives it back.                                           *)
LockMoves == HP!LockFreed /\ HP!AllEnd

(* Where a request's broadcasts are while it goes on. *)
Placed(r) ==
  /\ at[r] \in {"new", "checkWait", "checking", "hashing", "insertWait", "inserting",
                "committed"} => bcast[r] = "idle" /\ round[r] = 0
  /\ at[r] = "created" => \/ bcast[r] = "idle" /\ round[r] = 0
                          \/ bcast[r] = "sending" /\ round[r] = 1
  /\ at[r] = "announcing" => \/ bcast[r] = "idle" /\ round[r] = 1
                             \/ bcast[r] = "sending" /\ round[r] = 2
  /\ bcast[r] = "sending" => at[r] \in {"created", "announcing"}
  /\ at[r] = "announcing" /\ bcast[r] = "sending" => broker[r] # "new"

PlaceInv == \A r \in Request : Placed(r)

(* The types that the steps of a request need. *)
LEMMA StagesTyped ==
  ASSUME IInv
  PROVE  /\ at \in [Request -> {"new", "checkWait", "checking", "hashing", "insertWait",
                            "inserting", "committed", "created", "announcing", "auditing",
                            "replying", "done", "dead"}]
         /\ answer \in [Request -> {"none", "201", "400", "409", "422", "500"}]
         /\ bcast \in [Request -> {"idle", "sending", "stopped"}]
         /\ round \in [Request -> 0..2]
         /\ broker \in [Request -> {"new", "failed", "wire", "lost", "ready", "unacked",
                                    "gone"}]
         /\ link \in [{Home} -> {"open", "closed", "down"}]
  BY DEF IInv, ComponentInv, RP!IInv, RP!TypeOK, HP!TypeInv, HP!TypeOK, QP!TypeInv,
    QP!TypeOK

(* What RequestStep does to the stage of a request. *)
LEMMA RequestStage ==
  ASSUME IInv, NEW x \in Request, RequestStep(x), NEW r \in Request
  PROVE  /\ UNCHANGED <<bcast, round, visit, writer, broker, link>>
         /\ \/ at'[r] = at[r]
            \/ /\ at[r] \in {"new", "checkWait", "checking", "hashing", "insertWait",
                             "inserting", "committed"}
               /\ at'[r] \in {"checkWait", "checking", "hashing", "insertWait", "inserting",
                              "committed", "created", "done"}
            \/ at[r] = "auditing" /\ at'[r] = "replying"
            \/ at[r] = "replying" /\ at'[r] = "done" /\ answer'[r] = "201"
  BY StagesTyped DEF RequestStep, hubVars, queueVars, R!CheckStep, R!Submit, R!Invalid,
    R!AcquireForCheck, R!CheckFinds, R!CheckMisses, R!CheckWaitFails, R!InsertStep, R!Hash,
    R!HashFails, R!AcquireForInsert, R!InsertCommits, R!InsertRefused, R!InsertFails,
    R!InsertReturns, R!EmitAuditLog, R!Reply, R!AuditStep, R!AuditAcquires, R!AuditWritten,
    R!AuditFails, R!Go, R!Answer

(* HubStep and QueueStep leave it where it is. *)
LEMMA OthersStage ==
  /\ HubStep => UNCHANGED <<at, bcast, round, broker, answer>>
  /\ QueueStep => UNCHANGED <<at, bcast, round, answer>>
  /\ UNCHANGED vars => UNCHANGED <<at, bcast, round, broker, answer>>
  BY DEF HubStep, QueueStep, vars, accountVars, hubVars, queueVars, H!ServeStep, H!Upgrade,
    H!UpgradeFails, H!LockToRegister, H!Register, H!Greet, H!ReaderStep, H!ReadError,
    H!LockToUnregister, H!Unregister, H!CloseSend, H!ReaderHangsUp, H!PumpStep,
    H!TakeFrame, H!SendDrained, H!WriteOk, H!WriteFails, H!PumpHangsUp, H!PeerLeaves,
    H!SendTo, H!emitterVars

LEMMA PlaceStep ==
  ASSUME IInv, PlaceInv, [Next]_vars
  PROVE  PlaceInv'
  <1> SUFFICES ASSUME NEW r \in Request PROVE Placed(r)'
    BY DEF PlaceInv
  <1>0. Placed(r)
    BY DEF PlaceInv
  <1>1. CASE \E x \in Request : RequestStep(x)
    BY <1>0, <1>1, RequestStage DEF Placed
  <1>2. CASE HubStep \/ QueueStep \/ UNCHANGED vars
    <2>1. QueueStep => (broker'[r] = "new" <=> broker[r] = "new")
      BY QueueStepPublished DEF IInv
    <2> QED
      BY <1>0, <1>2, <2>1, OthersStage DEF Placed
  <1>3. ASSUME NEW x \in Request, EventStep(x)
        PROVE  Placed(r)'
    <2>1. CASE BroadcastUser(x)
      BY <1>0, <2>1, StagesTyped DEF BroadcastUser, Broadcasted, H!BeginBroadcast,
        accountVars, queueVars, Placed
    <2>2. CASE UserAnnounced(x)
      BY <1>0, <2>2, StagesTyped DEF UserAnnounced, Broadcasting, H!EndBroadcast,
        R!AnnounceUser, R!Go, queueVars, Placed
    <2>3. CASE PublishJob(x)
      BY <1>0, <2>3, StagesTyped DEF PublishJob, Q!Publish, accountVars, hubVars, Placed
    <2>4. CASE PublishFailed(x)
      BY <1>0, <2>4, StagesTyped DEF PublishFailed, Q!PublishFails,
        H!EmitterStops, R!Enqueue, R!Go, Placed
    <2>5. CASE BroadcastJob(x)
      BY <1>0, <2>5, StagesTyped DEF BroadcastJob, Broadcasted, H!BeginBroadcast,
        accountVars, queueVars, Placed
    <2>6. CASE JobAnnounced(x)
      BY <1>0, <2>6, StagesTyped DEF JobAnnounced, Broadcasting, H!EndBroadcast, R!Enqueue,
        R!Go, queueVars, Placed
    <2> QED
      BY <1>3, <2>1, <2>2, <2>3, <2>4, <2>5, <2>6 DEF EventStep
  <1> QED
    BY <1>1, <1>2, <1>3 DEF Next

LiveInv == IInv /\ PlaceInv

LEMMA Living == Spec => []LiveInv
  <1>1. Init => PlaceInv
    BY DEF Init, R!Init, H!Init, PlaceInv, Placed
  <1> QED
    BY <1>1, PlaceStep, Inductive, PTL DEF Spec, LiveInv

(* The stages of a request after its account is created. *)
Untold(r) == at[r] = "created" /\ bcast[r] = "idle"
Telling(r) == at[r] = "created" /\ bcast[r] = "sending"
Told(r) == at[r] = "announcing" /\ bcast[r] = "idle" /\ broker[r] = "new"
Handed(r) == at[r] = "announcing" /\ bcast[r] = "idle" /\ broker[r] # "new"
TellingJob(r) == at[r] = "announcing" /\ bcast[r] = "sending"

(* A request goes through them in this order. *)
LEMMA StagesInOrder ==
  ASSUME LiveInv, [Next]_vars, NEW r \in Request
  PROVE  /\ Untold(r) => Untold(r)' \/ Telling(r)'
         /\ Telling(r) => Telling(r)' \/ Told(r)' \/ Handed(r)'
         /\ Told(r) => Told(r)' \/ Handed(r)' \/ (at[r] = "auditing")'
         /\ Handed(r) => Handed(r)' \/ TellingJob(r)'
         /\ TellingJob(r) => TellingJob(r)' \/ (at[r] = "auditing")'
         /\ at[r] = "auditing" => (at[r] = "auditing")' \/ (at[r] = "replying")'
         /\ at[r] = "replying" => (at[r] = "replying")' \/ (answer[r] = "201")'
  <1> USE DEF Untold, Telling, Told, Handed, TellingJob
  <1>0. IInv /\ Placed(r)
    BY DEF LiveInv, PlaceInv
  <1>1. CASE \E x \in Request : RequestStep(x)
    <2>1. PICK x \in Request : RequestStep(x)
      BY <1>1
    <2> QED
      BY <1>0, <2>1, RequestStage DEF Placed
  <1>2. CASE HubStep \/ UNCHANGED vars
    BY <1>2, OthersStage
  <1>3. CASE QueueStep
    <2>1. broker'[r] = "new" <=> broker[r] = "new"
      BY <1>0, <1>3, QueueStepPublished DEF IInv
    <2> QED
      BY <1>3, <2>1, OthersStage
  <1>4. ASSUME NEW x \in Request, EventStep(x)
        PROVE  /\ Untold(r) => Untold(r)' \/ Telling(r)'
               /\ Telling(r) => Telling(r)' \/ Told(r)' \/ Handed(r)'
               /\ Told(r) => Told(r)' \/ Handed(r)' \/ at'[r] = "auditing"
               /\ Handed(r) => Handed(r)' \/ TellingJob(r)'
               /\ TellingJob(r) => TellingJob(r)' \/ at'[r] = "auditing"
               /\ at[r] \in {"auditing", "replying"} => at'[r] = at[r]
    <2>1. CASE BroadcastUser(x)
      BY <1>0, <2>1, StagesTyped DEF BroadcastUser, Broadcasted, H!BeginBroadcast,
        accountVars, queueVars
    <2>2. CASE UserAnnounced(x)
      BY <1>0, <2>2, StagesTyped DEF UserAnnounced, Broadcasting, H!EndBroadcast,
        R!AnnounceUser, R!Go, queueVars, Placed
    <2>3. CASE PublishJob(x)
      BY <1>0, <2>3, StagesTyped DEF PublishJob, Q!Publish, accountVars, hubVars
    <2>4. CASE PublishFailed(x)
      BY <1>0, <2>4, StagesTyped DEF PublishFailed, Q!PublishFails, H!EmitterStops,
        R!Enqueue, R!Go
    <2>5. CASE BroadcastJob(x)
      BY <1>0, <2>5, StagesTyped DEF BroadcastJob, Broadcasted, H!BeginBroadcast,
        accountVars, queueVars
    <2>6. CASE JobAnnounced(x)
      BY <1>0, <2>6, StagesTyped DEF JobAnnounced, Broadcasting, H!EndBroadcast, R!Enqueue,
        R!Go, queueVars, Placed
    <2> QED
      BY <1>4, <2>1, <2>2, <2>3, <2>4, <2>5, <2>6 DEF EventStep
  <1> QED
    BY <1>1, <1>2, <1>3, <1>4 DEF Next

(* The goroutine of the request takes it out of a stage where it does not  *)
(* broadcast.                                                              *)
LEMMA GoroutineMoves ==
  ASSUME LiveInv, NEW r \in Request, Goroutine(r)
  PROVE  /\ Untold(r) => ~Untold(r)'
         /\ Told(r) => ~Told(r)'
         /\ Handed(r) => ~Handed(r)'
         /\ at[r] = "auditing" => ~(at[r] = "auditing")'
         /\ at[r] = "replying" => ~(at[r] = "replying")'
  <1> USE DEF Untold, Told, Handed
  <1>0. IInv /\ Placed(r)
    BY DEF LiveInv, PlaceInv
  <1>1. CASE EventStep(r)
    BY <1>0, <1>1, StagesTyped DEF EventStep, BroadcastUser, UserAnnounced, PublishJob,
      PublishFailed, BroadcastJob, JobAnnounced, Broadcasting, Broadcasted,
      H!BeginBroadcast, H!EndBroadcast, H!EmitterStops, R!AnnounceUser, R!Enqueue, R!Go,
      Q!Publish, Q!PublishFails, Placed
  <1>2. CASE \E c \in Client : H!SendTo(r, c)
    BY <1>0, <1>2 DEF H!SendTo, Placed
  <1>3. CASE R!EmitAuditLog(r) \/ R!Reply(r)
    BY <1>0, <1>3, StagesTyped DEF R!EmitAuditLog, R!Reply, R!Go, R!Answer
  <1> QED
    BY <1>1, <1>2, <1>3 DEF Goroutine

(* A request that is where it needs the hub's lock goes on when there is   *)
(* no writer, and elsewhere at once.                                       *)
LEMMA WhenItGoes ==
  ASSUME NEW r \in Request
  PROVE  /\ Untold(r) /\ writer = None => CanGo(r)
         /\ Told(r) => CanGo(r)
         /\ Handed(r) /\ writer = None => CanGo(r)
         /\ at[r] = "auditing" \/ at[r] = "replying" => CanGo(r)
  BY DEF Untold, Told, Handed, CanGo

(* An account that is created is announced, *)
IsTold(r) == at[r] = "created" ~> (Told(r) \/ Handed(r))

LEMMA CreatedTold ==
  ASSUME NEW r \in Request
  PROVE  []LiveInv /\ [][Next]_vars /\ GuardedFairness /\ LockMoves => IsTold(r)
  <1>1. AllServed => RequestServed(r)
    BY DEF AllServed
  <1>2. LockMoves => HP!LockFreed /\ HP!BroadcastEnds(r)
    BY DEF LockMoves, HP!AllEnd
  <1>3. LiveInv /\ at[r] = "created" => Untold(r) \/ Telling(r)
    BY DEF LiveInv, PlaceInv, Placed, Untold, Telling
  <1>4. LiveInv /\ [Next]_vars => /\ Untold(r) => Untold(r)' \/ Telling(r)'
                                  /\ Telling(r) => Telling(r)' \/ Told(r)' \/ Handed(r)'
    BY StagesInOrder
  <1>5. LiveInv /\ Untold(r) /\ Goroutine(r) => ~Untold(r)'
    BY GoroutineMoves
  <1>6. Untold(r) /\ writer = None => CanGo(r)
    BY WhenItGoes
  <1>7. Telling(r) => bcast[r] = "sending"
    BY DEF Telling
  <1> QED
    BY <1>1, <1>2, <1>3, <1>4, <1>5, <1>6, <1>7, PTL
       DEF GuardedFairness, RequestServed, HP!LockFreed, HP!BroadcastEnds, IsTold

(* and then its client is answered, whatever becomes of the email. *)
IsAnswered(r) == (Told(r) \/ Handed(r)) ~> answer[r] = "201"

LEMMA ToldAnswered ==
  ASSUME NEW r \in Request
  PROVE  []LiveInv /\ [][Next]_vars /\ GuardedFairness /\ LockMoves => IsAnswered(r)
  <1>1. AllServed => RequestServed(r)
    BY DEF AllServed
  <1>2. LockMoves => HP!LockFreed /\ HP!BroadcastEnds(r)
    BY DEF LockMoves, HP!AllEnd
  <1>3. LiveInv /\ [Next]_vars =>
          /\ Told(r) => Told(r)' \/ Handed(r)' \/ (at[r] = "auditing")'
          /\ Handed(r) => Handed(r)' \/ TellingJob(r)'
          /\ TellingJob(r) => TellingJob(r)' \/ (at[r] = "auditing")'
          /\ at[r] = "auditing" => (at[r] = "auditing")' \/ (at[r] = "replying")'
          /\ at[r] = "replying" => (at[r] = "replying")' \/ (answer[r] = "201")'
    BY StagesInOrder
  <1>4. LiveInv /\ Goroutine(r) => /\ Told(r) => ~Told(r)'
                                   /\ Handed(r) => ~Handed(r)'
                                   /\ at[r] = "auditing" => ~(at[r] = "auditing")'
                                   /\ at[r] = "replying" => ~(at[r] = "replying")'
    BY GoroutineMoves
  <1>5. /\ Told(r) => CanGo(r)
        /\ Handed(r) /\ writer = None => CanGo(r)
        /\ at[r] = "auditing" => CanGo(r)
        /\ at[r] = "replying" => CanGo(r)
    BY WhenItGoes
  <1>6. TellingJob(r) => bcast[r] = "sending"
    BY DEF TellingJob
  <1> QED
    BY <1>1, <1>2, <1>3, <1>4, <1>5, <1>6, PTL
       DEF GuardedFairness, RequestServed, HP!LockFreed, HP!BroadcastEnds, IsAnswered

AnswerComes(r) == at[r] = "created" ~> answer[r] = "201"

-----------------------------------------------------------------------------
(* The hub's lock moves on in Service because the request of a broadcast   *)
(* does and because writers do: the proof is that of the hub.              *)

LEMMA EmittersGoOn ==
  ASSUME NEW r \in Request
  PROVE  []LiveInv /\ GuardedFairness => HP!EmitterGoesOn(r)
  <1>1. AllServed => RequestServed(r)
    BY DEF AllServed
  <1>2. bcast[r] = "sending" => CanGo(r)
    BY DEF CanGo
  <1>3. LiveInv /\ bcast[r] = "sending" /\ <<Goroutine(r)>>_vars => <<HP!Emit(r)>>_(HP!vars)
    <2> SUFFICES ASSUME LiveInv, bcast[r] = "sending", Goroutine(r)
                 PROVE  <<HP!Emit(r)>>_(HP!vars)
      OBVIOUS
    <2>0. /\ at[r] \in {"created", "announcing"}
          /\ bcast \in [Request -> {"idle", "sending", "stopped"}]
          /\ visit \in [Request -> SUBSET Client]
      BY StagesTyped DEF LiveInv, PlaceInv, Placed, IInv, ComponentInv, HP!TypeInv,
        HP!TypeOK
    <2>1. CASE EventStep(r)
      <3>1. H!EndBroadcast(r)
        BY <2>0, <2>1 DEF EventStep, BroadcastUser, UserAnnounced, PublishJob,
          PublishFailed, BroadcastJob, JobAnnounced, H!BeginBroadcast, H!EmitterStops,
          Q!Publish, LiveInv, PlaceInv, Placed
      <3>2. HP!EndBroadcast(r) /\ bcast'[r] = "idle"
        BY <2>0, <3>1 DEF H!EndBroadcast, HP!EndBroadcast, H!clientVars, HP!clientVars,
          H!channelVars, HP!channelVars, H!socketVars, HP!socketVars
      <3> QED
        BY <3>2 DEF HP!Emit, HP!vars, HP!emitterVars
    <2>2. ASSUME NEW c \in Client, H!SendTo(r, c)
          PROVE  <<HP!Emit(r)>>_(HP!vars)
      <3>1. HP!SendTo(r, c)
        BY <2>2 DEF H!SendTo, HP!SendTo, H!Offer, HP!Offer, H!FrameOf, HP!FrameOf, H!Kind,
          HP!Kind, H!clientVars, HP!clientVars, H!socketVars, HP!socketVars
      <3>2. visit'[r] # visit[r]
        BY <2>0, <2>2 DEF H!SendTo
      <3> QED
        BY <3>1, <3>2 DEF HP!Emit, HP!vars, HP!emitterVars
    <2>3. ~(R!EmitAuditLog(r) \/ R!Reply(r))
      BY <2>0 DEF R!EmitAuditLog, R!Reply, R!Go
    <2> QED
      BY <2>1, <2>2, <2>3 DEF Goroutine
  <1> QED
    BY <1>1, <1>2, <1>3, PTL DEF GuardedFairness, RequestServed, HP!EmitterGoesOn

LEMMA WritersGoOn ==
  ASSUME NEW c \in Client
  PROVE  []LiveInv /\ GuardedFairness => HP!WriterGoesOn(c)
  <1>1. AllServed => WriterGoesOn(c)
    BY DEF AllServed
  <1>2. writer = c /\ HP!Broadcasting = {} => CanWrite(c)
    BY DEF CanWrite, H!Broadcasting, HP!Broadcasting
  <1>3. LiveInv /\ <<Writes(c)>>_vars => <<HP!Register(c) \/ HP!Unregister(c)>>_(HP!vars)
    <2> SUFFICES ASSUME LiveInv, Writes(c)
                 PROVE  <<HP!Register(c) \/ HP!Unregister(c)>>_(HP!vars)
      OBVIOUS
    <2>0. /\ serve \in [Client -> {"new", "refused", "upgraded", "registering",
                                   "registered", "done"}]
          /\ reader \in [Client -> {"off", "reading", "leaving", "removing", "closing",
                                    "hangup", "done"}]
      BY DEF LiveInv, IInv, ComponentInv, HP!TypeInv, HP!TypeOK
    <2>1. HP!Register(c) \/ HP!Unregister(c)
      BY DEF Writes, H!Register, HP!Register, H!Unregister, HP!Unregister, H!Broadcasting,
        HP!Broadcasting, H!channelVars, HP!channelVars, H!socketVars, HP!socketVars,
        H!emitterVars, HP!emitterVars
    <2>2. serve'[c] # serve[c] \/ reader'[c] # reader[c]
      BY <2>0, <2>1 DEF HP!Register, HP!Unregister
    <2> QED
      BY <2>1, <2>2 DEF HP!vars, HP!clientVars
  <1> QED
    BY <1>1, <1>2, <1>3, PTL DEF GuardedFairness, WriterGoesOn, HP!WriterGoesOn

(* The loops whose end the theorems below name. *)
LoopsEnd == []HP!LoopsRunOut /\ HP!AwaitedRunOut

LEMMA LockMovesOn == Spec /\ GuardedFairness /\ LoopsEnd => LockMoves
  <1>1. Spec => HP!Spec
    <2>1. Init => HP!Init
      BY DEF Init, H!Init, HP!Init, H!Hello, HP!Hello
    <2> QED
      BY <2>1, HubRuns, PTL DEF Spec, HP!Spec
  <1>2. HP!Spec => []HP!FreeInv /\ [][HP!Next]_(HP!vars)
    <2>1. HP!Spec => []HP!TypeInv
      BY HP!Typing, SendCapAssumption, NoneAssumption
    <2>2. HP!Spec => []HP!LockInv
      BY HP!Locking, SendCapAssumption, NoneAssumption
    <2>3. HP!Spec => []HP!FiniteInv
      BY HP!Finiteness, SendCapAssumption, NoneAssumption
    <2>4. HP!Spec => []HP!WriterInv
      BY HP!Writing, SendCapAssumption, NoneAssumption
    <2> QED
      BY <2>1, <2>2, <2>3, <2>4, PTL DEF HP!Spec, HP!FreeInv, HP!HoldInv
  <1>3. []LiveInv /\ GuardedFairness => []HP!AllEmit
    <2> SUFFICES ASSUME []LiveInv, []AllServed
                 PROVE  HP!AllEmit
      BY PTL DEF GuardedFairness
    <2>1. ASSUME NEW r \in Request
          PROVE  HP!EmitterGoesOn(r)
      BY EmittersGoOn, PTL DEF GuardedFairness
    <2> QED
      BY <2>1 DEF HP!AllEmit
  <1>4. []LiveInv /\ GuardedFairness => []HP!AllWrite
    <2> SUFFICES ASSUME []LiveInv, []AllServed
                 PROVE  HP!AllWrite
      BY PTL DEF GuardedFairness
    <2>1. ASSUME NEW c \in Client
          PROVE  HP!WriterGoesOn(c)
      BY WritersGoOn, PTL DEF GuardedFairness
    <2> QED
      BY <2>1 DEF HP!AllWrite
  <1>5. []HP!FreeInv /\ [][HP!Next]_(HP!vars) /\ []HP!AllEmit /\ []HP!AllWrite
          /\ []HP!LoopsRunOut /\ HP!AwaitedRunOut => HP!LockFreed
    BY HP!LockIsFreed, SendCapAssumption, NoneAssumption
  <1>6. []HP!FreeInv /\ [][HP!Next]_(HP!vars) /\ []HP!AllEmit /\ []HP!LoopsRunOut
          => HP!AllEnd
    BY HP!BroadcastsAllEnd, SendCapAssumption, NoneAssumption
  <1> QED
    BY <1>1, <1>2, <1>3, <1>4, <1>5, <1>6, Living, PTL DEF LoopsEnd, LockMoves

(* A client whose account is created is told so: although publishing fails *)
(* or the connection to the broker is lost, whatever browsers do and       *)
(* however many of them are at the hub's lock.                             *)
THEOREM CreatedAnswered ==
  Spec /\ GuardedFairness /\ LoopsEnd => CreatedIsAnswered
  <1>1. ASSUME NEW r \in Request
        PROVE  []LiveInv /\ [][Next]_vars /\ GuardedFairness /\ LockMoves => AnswerComes(r)
    BY CreatedTold, ToldAnswered, PTL DEF IsTold, IsAnswered, AnswerComes
  <1>2. []LiveInv /\ [][Next]_vars /\ GuardedFairness /\ LockMoves
          => \A r \in Request : AnswerComes(r)
    BY <1>1
  <1>3. (\A r \in Request : AnswerComes(r)) => CreatedIsAnswered
    BY DEF AnswerComes, CreatedIsAnswered
  <1> QED
    BY <1>2, <1>3, Living, LockMovesOn, PTL DEF Spec

-----------------------------------------------------------------------------
(* The queue of Service is as fair as the queue on its own has to be.      *)

(* A job that came to the store is in it or was in it, *)
PastWire(r) == broker[r] \in {"ready", "unacked", "gone"}

(* and does not go back to the wire. *)
LEMMA PastWireStays ==
  ASSUME LiveInv, [Next]_vars, NEW r \in Request, PastWire(r)
  PROVE  PastWire(r)'
  <1>0. ComponentInv /\ broker \in [Request -> {"new", "failed", "wire", "lost", "ready",
                                               "unacked", "gone"}]
    BY StagesTyped DEF LiveInv, IInv
  <1>1. ASSUME NEW w \in Q!Worker, Q!WorkerStep(w)
        PROVE  PastWire(r)'
    BY <1>0, <1>1 DEF Q!WorkerStep, Q!Take, Q!Malformed, Q!HandlerOk, Q!HandlerFails, Q!Ack,
      Q!Nack, Q!Reject, Q!WorkerExits, Q!Tell, Q!brokerVars, Q!clientVars, PastWire
  <1>2. ASSUME NEW j \in Request, Q!Store(j) \/ Q!Deliver(Home, j)
        PROVE  PastWire(r)'
    BY <1>0, <1>2 DEF Q!Store, Q!Deliver, PastWire
  <1>3. CASE Q!LoseConnection(Home)
    BY <1>0, <1>3 DEF Q!LoseConnection, Q!Requeue, PastWire
  <1>4. CASE QueueStep
    BY <1>1, <1>2, <1>3, <1>4 DEF QueueStep
  <1>5. ASSUME NEW x \in Request, EventStep(x)
        PROVE  PastWire(r)'
    BY <1>0, <1>5 DEF EventStep, BroadcastUser, UserAnnounced, PublishJob, PublishFailed,
      BroadcastJob, JobAnnounced, Q!Publish, Q!PublishFails, queueVars, PastWire
  <1>6. CASE (\E x \in Request : RequestStep(x)) \/ HubStep \/ UNCHANGED vars
    BY <1>6 DEF RequestStep, HubStep, queueVars, vars, PastWire
  <1> QED
    BY <1>4, <1>5, <1>6 DEF Next

(* A step that the broker or a worker owes here is one that it owes there. *)
LEMMA QueueActions ==
  ASSUME LiveInv, NEW r \in Request
  PROVE  /\ PastWire(r) /\ <<Arrive(r)>>_vars => <<QP!Delivery(r)>>_(QP!vars)
         /\ <<Taking(r)>>_vars => <<QP!Taking(r)>>_(QP!vars)
         /\ <<Success(r)>>_vars => <<QP!Success(r)>>_(QP!vars)
  <1> USE StagesTyped DEF LiveInv, Q!InstanceOf, QP!InstanceOf, Q!brokerVars, Q!clientVars,
        Q!workerVars, QP!brokerVars, QP!clientVars, QP!workerVars
  <1>1. ASSUME PastWire(r), Arrive(r)
        PROVE  <<QP!Delivery(r)>>_(QP!vars)
    <2>1. Q!Deliver(Home, r)
      BY <1>1 DEF PastWire, Arrive, Q!Store
    <2>2. QP!Deliver(Home, r)
      BY <2>1 DEF Q!Deliver, QP!Deliver, Q!Connected, QP!Connected
    <2>3. broker' # broker
      BY <2>1 DEF Q!Deliver
    <2> QED
      BY <2>2, <2>3 DEF QP!Delivery, QP!vars
  <1>2. ASSUME Taking(r)
        PROVE  <<QP!Taking(r)>>_(QP!vars)
    <2>1. PICK w \in Q!Worker : Q!Take(w, r)
      BY <1>2 DEF Taking
    <2>2. w \in QP!Worker /\ QP!Take(w, r)
      BY <2>1 DEF Q!Worker, QP!Worker, Q!Take, QP!Take, Q!Move, QP!Move
    <2>3. worker' # worker
      BY <2>1, <2>2 DEF ComponentInv, IInv, QP!TypeInv, QP!TypeOK, Q!Take, Q!Move
    <2> QED
      BY <2>2, <2>3 DEF QP!Taking, QP!vars
  <1>3. ASSUME Success(r)
        PROVE  <<QP!Success(r)>>_(QP!vars)
    <2>1. PICK w \in Q!Worker : job[w] = r /\ Q!HandlerOk(w)
      BY <1>3 DEF Success
    <2>2. w \in QP!Worker /\ job[w] = r /\ QP!HandlerOk(w)
      BY <2>1 DEF Q!Worker, QP!Worker, Q!HandlerOk, QP!HandlerOk, Q!Move, QP!Move
    <2>3. worker' # worker
      BY <2>1, <2>2 DEF ComponentInv, IInv, QP!TypeInv, QP!TypeOK, Q!HandlerOk, Q!Move
    <2> QED
      BY <2>2, <2>3 DEF QP!Success, QP!vars
  <1> QED
    BY <1>1, <1>2, <1>3

(* So every job is served there, *)
LEMMA JobsServed ==
  ASSUME NEW r \in Request
  PROVE  []LiveInv /\ [][Next]_vars /\ GuardedFairness => QP!JobServed(r)
  <1>1. AllServed => JobServed(r)
    BY DEF AllServed
  <1>2. LiveInv /\ [Next]_vars /\ PastWire(r) => PastWire(r)'
    BY PastWireStays
  <1>3. LiveInv => /\ PastWire(r) /\ <<Arrive(r)>>_vars => <<QP!Delivery(r)>>_(QP!vars)
                   /\ <<Taking(r)>>_vars => <<QP!Taking(r)>>_(QP!vars)
                   /\ <<Success(r)>>_vars => <<QP!Success(r)>>_(QP!vars)
    BY QueueActions
  <1>4. QP!CanDeliver(r) => CanArrive(r) /\ PastWire(r)
    BY DEF QP!CanDeliver, CanArrive, PastWire, QP!Connected, Q!Connected
  <1>5. QP!CanTake(r) => CanTake(r)
    BY DEF QP!CanTake, CanTake, QP!Worker, Q!Worker, QP!InstanceOf
  <1>6. QP!CanHandle(r) => CanHandle(r)
    BY DEF QP!CanHandle, CanHandle, QP!Worker, Q!Worker
  <1> QED
    BY <1>1, <1>2, <1>3, <1>4, <1>5, <1>6, PTL
       DEF GuardedFairness, JobServed, QP!JobServed

(* every worker goes on there, *)
LEMMA WorkersGoOn ==
  ASSUME NEW w \in QP!Worker
  PROVE  []LiveInv /\ GuardedFairness => QP!WorkerGoesOn(w)
  <1>1. w \in Q!Worker
    BY DEF Q!Worker, QP!Worker
  <1>2. AllServed => WorkerGoesOn(w)
    BY <1>1 DEF AllServed
  <1>3. LiveInv /\ QP!Busy(w) => AtWork(w)
    BY DEF LiveInv, IInv, ComponentInv, QP!TypeInv, QP!TypeOK, QP!IInv, QP!HeldStored,
      QP!Busy, AtWork
  <1>4. LiveInv /\ <<GoOn(w)>>_vars => <<QP!GoOn(w)>>_(QP!vars)
    <2> SUFFICES ASSUME LiveInv, GoOn(w) PROVE <<QP!GoOn(w)>>_(QP!vars)
      OBVIOUS
    <2> USE DEF Q!InstanceOf, QP!InstanceOf, Q!brokerVars, Q!clientVars, Q!workerVars,
          QP!brokerVars, QP!clientVars, QP!workerVars, Q!Connected, QP!Connected
    <2>1. QP!HandlerFails(w) \/ QP!Ack(w) \/ QP!Nack(w)
      BY DEF GoOn, Q!HandlerFails, QP!HandlerFails, Q!Ack, QP!Ack, Q!Nack, QP!Nack, Q!Move,
        QP!Move, Q!Tell, QP!Tell
    <2>2. worker' # worker
      BY <2>1 DEF LiveInv, IInv, ComponentInv, QP!TypeInv, QP!TypeOK, QP!HandlerFails,
        QP!Ack, QP!Nack, QP!Move
    <2> QED
      BY <2>1, <2>2 DEF QP!GoOn, QP!vars
  <1> QED
    BY <1>2, <1>3, <1>4, PTL DEF GuardedFairness, WorkerGoesOn, QP!WorkerGoesOn

(* and with both the fairness of the queue is had. *)
LEMMA QueueFair ==
  []LiveInv /\ [][Next]_vars /\ GuardedFairness => QP!GuardedFairness
  <1>1. []LiveInv /\ [][Next]_vars /\ GuardedFairness
          => \A r \in QP!Good : QP!JobServed(r)
    BY JobsServed DEF QP!Good
  <1>2. []LiveInv /\ [][Next]_vars /\ GuardedFairness
          => \A w \in QP!Worker : QP!WorkerGoesOn(w)
    BY WorkersGoOn
  <1>3. []LiveInv /\ [][Next]_vars /\ GuardedFairness => QP!AllServed
    BY <1>1, <1>2 DEF QP!AllServed
  <1> QED
    BY <1>3, PTL DEF QP!GuardedFairness, GuardedFairness


-----------------------------------------------------------------------------
(* What the connection of the process, as long as it lasts, saves.         *)

NoneLost == \A r \in Request : broker[r] # "lost"
OnWire(r) == broker[r] = "wire"

(* Nothing is lost, a job is published at once, and stored. *)
LEMMA ConnectedStep ==
  ASSUME NEW r \in Request
  PROVE  LiveInv /\ NoneLost /\ Q!Connected(Home) /\ [Next]_vars /\ Q!Connected(Home)' =>
           /\ NoneLost'
           /\ [QP!NoLoss]_(QP!vars)
           /\ Told(r) => Told(r)' \/ Handed(r)'
           /\ OnWire(r) => OnWire(r)' \/ QP!InStore(r)'
  <1> SUFFICES ASSUME LiveInv, NoneLost, Q!Connected(Home), [Next]_vars, Q!Connected(Home)'
               PROVE  /\ NoneLost'
                      /\ [QP!NoLoss]_(QP!vars)
                      /\ Told(r) => Told(r)' \/ Handed(r)'
                      /\ OnWire(r) => OnWire(r)' \/ QP!InStore(r)'
    OBVIOUS
  <1> USE StagesTyped DEF LiveInv
  <1>1. CASE QueueStep
    <2>1. ~Q!LoseConnection(Home)
      BY DEF Q!LoseConnection, Q!Connected
    <2>2. ASSUME NEW w \in Q!Worker, Q!WorkerStep(w)
          PROVE  /\ losses' = losses
                 /\ \/ broker' = broker
                    \/ /\ broker' = [broker EXCEPT ![job[w]] = "ready"]
                          \/ broker' = [broker EXCEPT ![job[w]] = "gone"]
                       /\ broker[job[w]] \in {"ready", "unacked", "gone"}
      <3>1. /\ losses' = losses
            /\ worker[w] \notin {"acking", "nacking", "rejecting"} => broker' = broker
            /\ \/ broker' = broker
               \/ broker' = [broker EXCEPT ![job[w]] = "ready"]
               \/ broker' = [broker EXCEPT ![job[w]] = "gone"]
        BY <2>2 DEF Q!WorkerStep, Q!Take, Q!Malformed, Q!HandlerOk, Q!HandlerFails, Q!Ack,
          Q!Nack, Q!Reject, Q!WorkerExits, Q!Tell, Q!Move, Q!brokerVars, Q!clientVars
      <3>2. worker[w] \in {"acking", "nacking", "rejecting"}
              => broker[job[w]] \in {"ready", "unacked", "gone"}
        BY DEF IInv, ComponentInv, QP!IInv, QP!HeldStored, QP!Busy, Q!Worker, QP!Worker
      <3> QED
        BY <3>1, <3>2
    <2>3. ASSUME NEW j \in Request, Q!Store(j) \/ Q!Deliver(Home, j)
          PROVE  /\ losses' = losses
                 /\ broker' = [broker EXCEPT ![j] = "ready"]
                    \/ broker' = [broker EXCEPT ![j] = "unacked"]
                 /\ broker[j] \in {"wire", "ready"}
      BY <2>3 DEF Q!Store, Q!Deliver
    <2>4. losses' = losses
      BY <1>1, <2>1, <2>2, <2>3 DEF QueueStep
    <2>5. NoneLost' /\ (OnWire(r) => OnWire(r)' \/ QP!InStore(r)')
      BY <1>1, <2>1, <2>2, <2>3 DEF QueueStep, NoneLost, OnWire, QP!InStore
    <2>6. Told(r) => Told(r)'
      BY <1>1, OthersStage, QueueStepPublished DEF Told, IInv
    <2> QED
      BY <2>4, <2>5, <2>6 DEF QP!NoLoss
  <1>2. ASSUME NEW x \in Request, EventStep(x)
        PROVE  /\ NoneLost' /\ losses' = losses
               /\ Told(r) => Told(r)' \/ Handed(r)'
               /\ OnWire(r) => OnWire(r)'
    <2>1. ~PublishFailed(x)
      BY DEF PublishFailed, Q!PublishFails, Q!Connected
    <2>2. CASE PublishJob(x)
      BY <2>2 DEF PublishJob, Q!Publish, accountVars, hubVars, Told, Handed, OnWire,
        NoneLost
    <2>3. CASE BroadcastUser(x) \/ BroadcastJob(x)
      BY <2>3 DEF BroadcastUser, BroadcastJob, Broadcasted, H!BeginBroadcast, accountVars,
        queueVars, Told, Handed, OnWire, NoneLost
    <2>4. CASE UserAnnounced(x) \/ JobAnnounced(x)
      BY <2>4 DEF UserAnnounced, JobAnnounced, Broadcasting, H!EndBroadcast, R!AnnounceUser,
        R!Enqueue, R!Go, queueVars, Told, Handed, OnWire, NoneLost, PlaceInv, Placed
    <2> QED
      BY <1>2, <2>1, <2>2, <2>3, <2>4 DEF EventStep
  <1>3. ASSUME NEW x \in Request, RequestStep(x)
        PROVE  /\ UNCHANGED queueVars
               /\ Told(r) => Told(r)'
    BY <1>3, RequestStage DEF RequestStep, Told
  <1>4. CASE HubStep \/ UNCHANGED vars
    BY <1>4, OthersStage DEF HubStep, vars, queueVars, Told, OnWire, NoneLost, QP!NoLoss
  <1> QED
    BY <1>1, <1>2, <1>3, <1>4 DEF Next, queueVars, OnWire, NoneLost, QP!NoLoss

(* So a job that was handed over is in the store, on its way there, or     *)
(* done.                                                                   *)
LEMMA HandedPlaces ==
  ASSUME LiveInv, NoneLost, NEW r \in Request, Handed(r)
  PROVE  OnWire(r) \/ QP!InStore(r) \/ QP!Done(r)
  <1>1. broker[r] # "failed" /\ broker[r] # "new"
    BY DEF LiveInv, IInv, EventInv, FailureEnds, Handed
  <1>2. broker[r] = "gone" => r \in handled
    BY DEF LiveInv, IInv, ComponentInv, QP!IInv, QP!HandledBeforeGone
  <1> QED
    BY <1>1, <1>2, StagesTyped DEF LiveInv, NoneLost, OnWire, QP!InStore, QP!Done

(* What the broker owes takes a job off the wire. *)
LEMMA Arrives ==
  ASSUME LiveInv, NEW r \in Request, Arrive(r), OnWire(r)
  PROVE  ~OnWire(r)'
  BY StagesTyped DEF LiveInv, Arrive, Q!Store, Q!Deliver, OnWire

IsWelcomed(r) == at[r] = "created" ~> r \in handled

(* With its connection, the process hands the job of a created account to  *)
(* the broker, which stores it, and the theorem about Queue does the rest. *)
LEMMA ConnectedWelcomed ==
  ASSUME Concurrency > 0, NEW r \in Request
  PROVE  Spec /\ GuardedFairness /\ LockMoves /\ []Q!Connected(Home) => IsWelcomed(r)
  <1> DEFINE Home0 == Q!Connected(Home)
  <1>1. Init => QP!Init /\ NoneLost
    BY DEF Init, Q!Init, QP!Init, Q!Worker, QP!Worker, NoneLost
  <1>2. QP!Spec /\ QP!GuardedFairness /\ QP!LossesEnd => QP!HandledIfStable(Home, r)
    BY QP!StableHandled, ConcurrencyAssumption, BoundAssumption, NoneAssumption DEF QP!Good
  <1>3. LiveInv /\ NoneLost /\ Home0 /\ [Next]_vars /\ Home0' =>
          /\ NoneLost'
          /\ [QP!NoLoss]_(QP!vars)
          /\ Told(r) => Told(r)' \/ Handed(r)'
          /\ OnWire(r) => OnWire(r)' \/ QP!InStore(r)'
    BY ConnectedStep
  <1>4. AllServed => RequestServed(r) /\ JobServed(r)
    BY DEF AllServed
  <1>5. /\ Told(r) => CanGo(r)
        /\ OnWire(r) => CanArrive(r)
    BY WhenItGoes DEF OnWire, CanArrive
  <1>6. LiveInv /\ Goroutine(r) /\ Told(r) => ~Told(r)'
    BY GoroutineMoves
  <1>7. LiveInv /\ Arrive(r) /\ OnWire(r) => ~OnWire(r)'
    BY Arrives
  <1>8. LiveInv /\ NoneLost /\ Handed(r) => OnWire(r) \/ QP!InStore(r) \/ QP!Done(r)
    BY HandedPlaces
  <1>9. QP!Done(r) => r \in handled
    BY DEF QP!Done
  <1>10. Home0 => QP!Connected(Home)
    BY DEF Q!Connected, QP!Connected
  <1> HIDE DEF Home0
  <1>11. Spec => []LiveInv /\ [][Next]_vars
    BY Living, PTL DEF Spec
  <1>12. Spec /\ []Home0 => []NoneLost /\ [][QP!NoLoss]_(QP!vars)
    BY <1>1, <1>3, <1>11, PTL DEF Spec
  <1>13. Spec /\ GuardedFairness /\ []Home0 => (QP!InStore(r) ~> QP!Done(r))
    <2>1. Spec => QP!Spec
      BY <1>1, QueueRuns, PTL DEF Spec, QP!Spec
    <2>2. Spec /\ GuardedFairness => QP!GuardedFairness
      BY <1>11, QueueFair
    <2> QED
      BY <1>2, <1>10, <1>12, <2>1, <2>2, PTL DEF QP!LossesEnd, QP!Calm, QP!HandledIfStable
  <1>14. Spec /\ GuardedFairness /\ []Home0
           => (Told(r) \/ Handed(r)) ~> QP!Done(r)
    BY <1>3, <1>4, <1>5, <1>6, <1>7, <1>8, <1>11, <1>12, <1>13, PTL
       DEF GuardedFairness, RequestServed, JobServed
  <1>15. Spec /\ GuardedFairness /\ LockMoves => IsTold(r)
    BY <1>11, CreatedTold
  <1>16. Spec /\ GuardedFairness /\ LockMoves /\ []Home0 => IsWelcomed(r)
    BY <1>9, <1>14, <1>15, PTL DEF IsTold, IsWelcomed
  <1> QED
    BY <1>16 DEF Home0

(* While the process keeps its connection to the broker, every account it  *)
(* creates is welcomed, however often the handler of its job fails,        *)
(* provided that the process has a worker.                                 *)
THEOREM CreatedWelcomed ==
  ASSUME Concurrency > 0
  PROVE  Spec /\ GuardedFairness /\ LoopsEnd => CreatedIsWelcomed
  <1>1. Spec /\ GuardedFairness /\ LockMoves /\ []Q!Connected(Home)
          => \A r \in Request : IsWelcomed(r)
    BY ConnectedWelcomed
  <1> QED
    BY <1>1, LockMovesOn DEF CreatedIsWelcomed, IsWelcomed

=============================================================================
