-------------------------- MODULE LifecycleProofs --------------------------
(***************************************************************************)
(* Theorems about Lifecycle, for any requests and any size of the pool.    *)
(***************************************************************************)
EXTENDS Lifecycle, Descent, FiniteSetTheorems, TLAPS

-----------------------------------------------------------------------------
(* The inductive invariant.                                                *)

(* The stages of main in which a subsystem is open, if it is enabled. *)
QueueStages == {"consumers", "start", "waiting", "draining", "closeQueue"}
RedisStages == QueueStages \cup {"queue", "closingQueue", "closeRedis"}
PoolStages == RedisStages \cup {"redis", "closePool"}

OpenByStage ==
  /\ ("pool" \in open) = (main \in PoolStages)
  /\ ("redis" \in open) = (main \in RedisStages /\ "redis" \in enabled)
  /\ ("queue" \in open) = (main \in QueueStages /\ "queue" \in enabled)
  /\ "http" \in open => main = "waiting"

(* The stages after the drain.  Requests exist from Start on. *)
ClosingStages == {"closeQueue", "closingQueue", "closeRedis", "closePool", "closingPool"}
ServingStages == ClosingStages \cup {"waiting", "draining", "exited"}

RequestsServed == \A r \in Request : req[r] # "none" => main \in ServingStages

QuietAfterDrain == main \in ClosingStages /\ ~late => \A r \in Request : ~Active(r)

IInv ==
  /\ TypeOK
  /\ OpenByStage
  /\ RequestsServed
  /\ QuietAfterDrain
  /\ DrainProtects

LEMMA InitInv == Init => IInv
  <1> SUFFICES ASSUME Init
               PROVE  IInv
    OBVIOUS
  <1> USE DEF Init
  <1>1. TypeOK
    BY DEF TypeOK
  <1>2. OpenByStage
    BY DEF OpenByStage, QueueStages, RedisStages, PoolStages
  <1>3. RequestsServed /\ QuietAfterDrain /\ DrainProtects
    BY DEF RequestsServed, QuietAfterDrain, DrainProtects, ClosingStages
  <1> QED
    BY <1>1, <1>2, <1>3 DEF IInv

(* The steps of main, but for its last, leave the requests alone; what is  *)
(* open follows main.                                                      *)
LEMMA MainStepInv ==
  ASSUME IInv,
         Setup \/ SetupFails \/ Start \/ Listening \/ Signal
           \/ StopListening \/ Drained \/ DrainDeadline \/ CloseQueue \/ QueueClosed
           \/ CloseRedis \/ ClosePool
  PROVE  IInv'
  <1> USE DEF IInv, Step
  <1>0. CASE LoadConfig
    <2>1. TypeOK'
      BY <1>0 DEF LoadConfig, TypeOK
    <2>2. OpenByStage'
      BY <1>0 DEF LoadConfig, OpenByStage, QueueStages, RedisStages, PoolStages
    <2>3. RequestsServed' /\ QuietAfterDrain' /\ DrainProtects'
      BY <1>0 DEF LoadConfig, RequestsServed, QuietAfterDrain, DrainProtects, Active,
             ClosingStages, ServingStages
    <2> QED
      BY <2>1, <2>2, <2>3 DEF IInv
  <1>1. CASE ConnectDatabase
    <2>1. TypeOK'
      BY <1>1 DEF ConnectDatabase, TypeOK, SettingUp
    <2>2. OpenByStage'
      BY <1>1 DEF ConnectDatabase, TypeOK, OpenByStage, SettingUp, QueueStages,
        RedisStages, PoolStages
    <2>3. RequestsServed'
      BY <1>1 DEF ConnectDatabase, RequestsServed, SettingUp, ClosingStages, ServingStages
    <2>4. QuietAfterDrain' /\ DrainProtects'
      BY <1>1 DEF ConnectDatabase, QuietAfterDrain, DrainProtects, Active, SettingUp,
        ClosingStages
    <2> QED
      BY <2>1, <2>2, <2>3, <2>4 DEF IInv
  <1>2. CASE ConnectRedis
    <2>1. TypeOK'
      BY <1>2 DEF ConnectRedis, TypeOK, SettingUp
    <2>2. OpenByStage'
      BY <1>2 DEF ConnectRedis, TypeOK, OpenByStage, SettingUp, QueueStages,
        RedisStages, PoolStages
    <2>3. RequestsServed'
      BY <1>2 DEF ConnectRedis, RequestsServed, SettingUp, ClosingStages, ServingStages
    <2>4. QuietAfterDrain' /\ DrainProtects'
      BY <1>2 DEF ConnectRedis, QuietAfterDrain, DrainProtects, Active, SettingUp,
        ClosingStages
    <2> QED
      BY <2>1, <2>2, <2>3, <2>4 DEF IInv
  <1>3. CASE DialQueue
    <2>1. TypeOK'
      BY <1>3 DEF DialQueue, TypeOK, SettingUp
    <2>2. OpenByStage'
      BY <1>3 DEF DialQueue, TypeOK, OpenByStage, SettingUp, QueueStages, RedisStages,
        PoolStages
    <2>3. RequestsServed'
      BY <1>3 DEF DialQueue, RequestsServed, SettingUp, ClosingStages, ServingStages
    <2>4. QuietAfterDrain' /\ DrainProtects'
      BY <1>3 DEF DialQueue, QuietAfterDrain, DrainProtects, Active, SettingUp,
        ClosingStages
    <2> QED
      BY <2>1, <2>2, <2>3, <2>4 DEF IInv
  <1>4. CASE FinishSetup
    <2>1. TypeOK'
      BY <1>4 DEF FinishSetup, TypeOK, SettingUp
    <2>2. OpenByStage'
      BY <1>4 DEF FinishSetup, TypeOK, OpenByStage, SettingUp, QueueStages,
        RedisStages, PoolStages
    <2>3. RequestsServed'
      BY <1>4 DEF FinishSetup, RequestsServed, SettingUp, ClosingStages, ServingStages
    <2>4. QuietAfterDrain' /\ DrainProtects'
      BY <1>4 DEF FinishSetup, QuietAfterDrain, DrainProtects, Active, SettingUp,
        ClosingStages
    <2> QED
      BY <2>1, <2>2, <2>3, <2>4 DEF IInv
  <1>5. CASE SetupFails
    <2>1. TypeOK'
      BY <1>5 DEF SetupFails, TypeOK, SettingUp
    <2>2. OpenByStage'
      BY <1>5 DEF SetupFails, TypeOK, OpenByStage, SettingUp, QueueStages, RedisStages,
        PoolStages
    <2>3. RequestsServed'
      BY <1>5 DEF SetupFails, RequestsServed, SettingUp, ClosingStages, ServingStages
    <2>4. QuietAfterDrain' /\ DrainProtects'
      BY <1>5 DEF SetupFails, QuietAfterDrain, DrainProtects, Active, SettingUp,
        ClosingStages
    <2> QED
      BY <2>1, <2>2, <2>3, <2>4 DEF IInv
  <1>6. CASE Start
    <2>1. TypeOK'
      BY <1>6 DEF Start, TypeOK, SettingUp
    <2>2. OpenByStage'
      BY <1>6 DEF Start, TypeOK, OpenByStage, SettingUp, QueueStages, RedisStages,
        PoolStages
    <2>3. RequestsServed'
      BY <1>6 DEF Start, RequestsServed, SettingUp, ClosingStages, ServingStages
    <2>4. QuietAfterDrain' /\ DrainProtects'
      BY <1>6 DEF Start, QuietAfterDrain, DrainProtects, Active, SettingUp, ClosingStages
    <2> QED
      BY <2>1, <2>2, <2>3, <2>4 DEF IInv
  <1>7. CASE Listen
    <2>1. TypeOK'
      BY <1>7 DEF Listen, TypeOK, SettingUp
    <2>2. OpenByStage'
      BY <1>7 DEF Listen, TypeOK, OpenByStage, SettingUp, QueueStages, RedisStages,
        PoolStages
    <2>3. RequestsServed'
      BY <1>7 DEF Listen, RequestsServed, SettingUp, ClosingStages, ServingStages
    <2>4. QuietAfterDrain' /\ DrainProtects'
      BY <1>7 DEF Listen, QuietAfterDrain, DrainProtects, Active, SettingUp, ClosingStages
    <2> QED
      BY <2>1, <2>2, <2>3, <2>4 DEF IInv
  <1>8. CASE ListenFails
    <2>1. TypeOK'
      BY <1>8 DEF ListenFails, TypeOK, SettingUp
    <2>2. OpenByStage'
      BY <1>8 DEF ListenFails, TypeOK, OpenByStage, SettingUp, QueueStages,
        RedisStages, PoolStages
    <2>3. RequestsServed'
      BY <1>8 DEF ListenFails, RequestsServed, SettingUp, ClosingStages, ServingStages
    <2>4. QuietAfterDrain' /\ DrainProtects'
      BY <1>8 DEF ListenFails, QuietAfterDrain, DrainProtects, Active, SettingUp,
        ClosingStages
    <2> QED
      BY <2>1, <2>2, <2>3, <2>4 DEF IInv
  <1>9. CASE Signal
    <2>1. TypeOK'
      BY <1>9 DEF Signal, TypeOK, SettingUp
    <2>2. OpenByStage'
      BY <1>9 DEF Signal, TypeOK, OpenByStage, SettingUp, QueueStages, RedisStages,
        PoolStages
    <2>3. RequestsServed'
      BY <1>9 DEF Signal, RequestsServed, SettingUp, ClosingStages, ServingStages
    <2>4. QuietAfterDrain' /\ DrainProtects'
      BY <1>9 DEF Signal, QuietAfterDrain, DrainProtects, Active, SettingUp, ClosingStages
    <2> QED
      BY <2>1, <2>2, <2>3, <2>4 DEF IInv
  <1>10. CASE StopListening
    <2>1. TypeOK'
      BY <1>10 DEF StopListening, TypeOK, SettingUp
    <2>2. OpenByStage'
      BY <1>10 DEF StopListening, TypeOK, OpenByStage, SettingUp, QueueStages,
        RedisStages, PoolStages
    <2>3. RequestsServed'
      BY <1>10 DEF StopListening, RequestsServed, SettingUp, ClosingStages, ServingStages
    <2>4. QuietAfterDrain' /\ DrainProtects'
      BY <1>10 DEF StopListening, QuietAfterDrain, DrainProtects, Active, SettingUp,
        ClosingStages
    <2> QED
      BY <2>1, <2>2, <2>3, <2>4 DEF IInv
  <1>11. CASE Drained
    <2>1. TypeOK'
      BY <1>11 DEF Drained, TypeOK, SettingUp
    <2>2. OpenByStage'
      BY <1>11 DEF Drained, TypeOK, OpenByStage, SettingUp, QueueStages, RedisStages,
        PoolStages
    <2>3. RequestsServed'
      BY <1>11 DEF Drained, RequestsServed, SettingUp, ClosingStages, ServingStages
    <2>4. QuietAfterDrain' /\ DrainProtects'
      BY <1>11 DEF Drained, QuietAfterDrain, DrainProtects, Active, SettingUp, ClosingStages
    <2> QED
      BY <2>1, <2>2, <2>3, <2>4 DEF IInv
  <1>12. CASE DrainDeadline
    <2>1. TypeOK'
      BY <1>12 DEF DrainDeadline, TypeOK, SettingUp
    <2>2. OpenByStage'
      BY <1>12 DEF DrainDeadline, TypeOK, OpenByStage, SettingUp, QueueStages,
        RedisStages, PoolStages
    <2>3. RequestsServed'
      BY <1>12 DEF DrainDeadline, RequestsServed, SettingUp, ClosingStages, ServingStages
    <2>4. QuietAfterDrain' /\ DrainProtects'
      BY <1>12 DEF DrainDeadline, QuietAfterDrain, DrainProtects, Active, SettingUp,
        ClosingStages
    <2> QED
      BY <2>1, <2>2, <2>3, <2>4 DEF IInv
  <1>13. CASE CloseQueue
    <2>1. TypeOK'
      BY <1>13 DEF CloseQueue, TypeOK, SettingUp
    <2>2. OpenByStage'
      BY <1>13 DEF CloseQueue, TypeOK, OpenByStage, SettingUp, QueueStages,
        RedisStages, PoolStages
    <2>3. RequestsServed'
      BY <1>13 DEF CloseQueue, RequestsServed, SettingUp, ClosingStages, ServingStages
    <2>4. QuietAfterDrain' /\ DrainProtects'
      BY <1>13 DEF CloseQueue, QuietAfterDrain, DrainProtects, Active, SettingUp,
        ClosingStages
    <2> QED
      BY <2>1, <2>2, <2>3, <2>4 DEF IInv
  <1>14. CASE CloseRedis
    <2>1. TypeOK'
      BY <1>14 DEF CloseRedis, TypeOK, SettingUp
    <2>2. OpenByStage'
      BY <1>14 DEF CloseRedis, TypeOK, OpenByStage, SettingUp, QueueStages,
        RedisStages, PoolStages
    <2>3. RequestsServed'
      BY <1>14 DEF CloseRedis, RequestsServed, SettingUp, ClosingStages, ServingStages
    <2>4. QuietAfterDrain' /\ DrainProtects'
      BY <1>14 DEF CloseRedis, QuietAfterDrain, DrainProtects, Active, SettingUp,
        ClosingStages
    <2> QED
      BY <2>1, <2>2, <2>3, <2>4 DEF IInv
  <1>15. CASE ClosePool
    <2>1. TypeOK'
      BY <1>15 DEF ClosePool, TypeOK, SettingUp
    <2>2. OpenByStage'
      BY <1>15 DEF ClosePool, TypeOK, OpenByStage, SettingUp, QueueStages, RedisStages,
        PoolStages
    <2>3. RequestsServed'
      BY <1>15 DEF ClosePool, RequestsServed, SettingUp, ClosingStages, ServingStages
    <2>4. QuietAfterDrain' /\ DrainProtects'
      BY <1>15 DEF ClosePool, QuietAfterDrain, DrainProtects, Active, SettingUp,
        ClosingStages
    <2> QED
      BY <2>1, <2>2, <2>3, <2>4 DEF IInv
  <1>16. CASE QueueClosed
    <2>1. TypeOK'
      BY <1>16 DEF QueueClosed, TypeOK, SettingUp
    <2>2. OpenByStage'
      BY <1>16 DEF QueueClosed, TypeOK, OpenByStage, SettingUp, QueueStages,
        RedisStages, PoolStages
    <2>3. RequestsServed'
      BY <1>16 DEF QueueClosed, RequestsServed, SettingUp, ClosingStages, ServingStages
    <2>4. QuietAfterDrain' /\ DrainProtects'
      BY <1>16 DEF QueueClosed, QuietAfterDrain, DrainProtects, Active, SettingUp,
        ClosingStages
    <2> QED
      BY <2>1, <2>2, <2>3, <2>4 DEF IInv
  <1> QED
    BY <1>0, <1>1, <1>2, <1>3, <1>4, <1>5, <1>6, <1>7, <1>8, <1>9, <1>10, <1>11, <1>12,
       <1>13, <1>14, <1>15, <1>16 DEF Setup, Listening

(* main returns: what still runs is cut off, and late if it is a request. *)
LEMMA PoolClosedInv ==
  ASSUME IInv, PoolClosed
  PROVE  IInv'
  <1> USE DEF IInv, PoolClosed, Exit, Interrupted
  <1>1. TypeOK'
    BY DEF TypeOK
  <1>2. OpenByStage' /\ RequestsServed'
    BY DEF OpenByStage, RequestsServed, QueueStages, RedisStages, PoolStages, ServingStages
  <1>3. QuietAfterDrain'
    BY DEF QuietAfterDrain, ClosingStages
  <1>4. ASSUME NEW r \in Request, req'[r] = "cut"
        PROVE  late
    <2>1. req[r] = "cut" \/ Active(r)
      BY <1>4 DEF Active
    <2> QED
      BY <2>1 DEF QuietAfterDrain, DrainProtects, ClosingStages
  <1>5. DrainProtects'
    BY <1>4 DEF DrainProtects
  <1> QED
    BY <1>1, <1>2, <1>3, <1>5

(* The steps of a request.  Once the drain is over in time there are none, *)
(* because they all begin in an active request or on an open server.       *)
LEMMA RequestStepInv ==
  ASSUME IInv, NEW r \in Request, RequestStep(r)
  PROVE  IInv'
  <1> USE DEF IInv, Move, mainVars
  <1>1. CASE Connect(r)
    <2>1. TypeOK' /\ OpenByStage'
      BY <1>1 DEF Connect, TypeOK, OpenByStage
    <2>2. RequestsServed'
      BY <1>1 DEF Connect, TypeOK, OpenByStage, RequestsServed, ServingStages
    <2>3. QuietAfterDrain'
      BY <1>1 DEF Connect, TypeOK, OpenByStage, QuietAfterDrain, Active, ClosingStages
    <2>4. DrainProtects'
      BY <1>1 DEF Connect, TypeOK, DrainProtects
    <2> QED
      BY <2>1, <2>2, <2>3, <2>4
  <1>2. CASE Begin(r)
    <2>1. TypeOK' /\ OpenByStage'
      BY <1>2 DEF Begin, TypeOK, OpenByStage
    <2>2. RequestsServed'
      BY <1>2 DEF Begin, TypeOK, OpenByStage, RequestsServed, ServingStages
    <2>3. QuietAfterDrain'
      BY <1>2 DEF Begin, TypeOK, OpenByStage, QuietAfterDrain, Active, ClosingStages
    <2>4. DrainProtects'
      BY <1>2 DEF Begin, TypeOK, DrainProtects
    <2> QED
      BY <2>1, <2>2, <2>3, <2>4
  <1>3. CASE Close(r)
    <2>1. TypeOK' /\ OpenByStage'
      BY <1>3 DEF Close, TypeOK, OpenByStage
    <2>2. RequestsServed'
      BY <1>3 DEF Close, TypeOK, OpenByStage, RequestsServed, ServingStages
    <2>3. QuietAfterDrain'
      BY <1>3 DEF Close, TypeOK, OpenByStage, QuietAfterDrain, Active, ClosingStages
    <2>4. DrainProtects'
      BY <1>3 DEF Close, TypeOK, DrainProtects
    <2> QED
      BY <2>1, <2>2, <2>3, <2>4
  <1>4. CASE Acquire(r)
    <2>1. TypeOK' /\ OpenByStage'
      BY <1>4 DEF Acquire, TypeOK, OpenByStage
    <2>2. RequestsServed'
      BY <1>4 DEF Acquire, TypeOK, OpenByStage, RequestsServed, ServingStages
    <2>3. QuietAfterDrain'
      BY <1>4 DEF Acquire, TypeOK, OpenByStage, QuietAfterDrain, Active, ClosingStages
    <2>4. DrainProtects'
      BY <1>4 DEF Acquire, TypeOK, DrainProtects
    <2> QED
      BY <2>1, <2>2, <2>3, <2>4
  <1>5. CASE Query(r)
    <2>1. TypeOK' /\ OpenByStage'
      BY <1>5 DEF Query, TypeOK, OpenByStage
    <2>2. RequestsServed'
      BY <1>5 DEF Query, TypeOK, OpenByStage, RequestsServed, ServingStages
    <2>3. QuietAfterDrain'
      BY <1>5 DEF Query, TypeOK, OpenByStage, QuietAfterDrain, Active, ClosingStages
    <2>4. DrainProtects'
      BY <1>5 DEF Query, TypeOK, DrainProtects
    <2> QED
      BY <2>1, <2>2, <2>3, <2>4
  <1>6. CASE QueryRefused(r)
    <2>1. TypeOK' /\ OpenByStage'
      BY <1>6 DEF QueryRefused, TypeOK, OpenByStage
    <2>2. RequestsServed'
      BY <1>6 DEF QueryRefused, TypeOK, OpenByStage, RequestsServed, ServingStages
    <2>3. QuietAfterDrain'
      BY <1>6 DEF QueryRefused, TypeOK, OpenByStage, QuietAfterDrain, Active, ClosingStages
    <2>a. req[r] # "none" /\ Active(r)
      BY <1>6 DEF QueryRefused, Active
    <2>b. main \in ClosingStages
      BY <1>6, <2>a DEF QueryRefused, OpenByStage, RequestsServed, Gone, ClosingStages,
             ServingStages, QueueStages, RedisStages, PoolStages
    <2>c. late
      BY <2>a, <2>b DEF QuietAfterDrain
    <2>4. DrainProtects'
      BY <1>6, <2>c DEF QueryRefused, TypeOK, DrainProtects
    <2> QED
      BY <2>1, <2>2, <2>3, <2>4
  <1>7. CASE QueryEnds(r)
    <2>1. TypeOK' /\ OpenByStage'
      BY <1>7 DEF QueryEnds, TypeOK, OpenByStage
    <2>2. RequestsServed'
      BY <1>7 DEF QueryEnds, TypeOK, OpenByStage, RequestsServed, ServingStages
    <2>3. QuietAfterDrain'
      BY <1>7 DEF QueryEnds, TypeOK, OpenByStage, QuietAfterDrain, Active, ClosingStages
    <2>4. DrainProtects'
      BY <1>7 DEF QueryEnds, TypeOK, DrainProtects
    <2> QED
      BY <2>1, <2>2, <2>3, <2>4
  <1>8. CASE QueryCancelled(r)
    <2>1. TypeOK' /\ OpenByStage'
      BY <1>8 DEF QueryCancelled, TypeOK, OpenByStage
    <2>2. RequestsServed'
      BY <1>8 DEF QueryCancelled, TypeOK, OpenByStage, RequestsServed, ServingStages
    <2>3. QuietAfterDrain'
      BY <1>8 DEF QueryCancelled, TypeOK, OpenByStage, QuietAfterDrain, Active,
        ClosingStages
    <2>4. DrainProtects'
      BY <1>8 DEF QueryCancelled, TypeOK, DrainProtects
    <2> QED
      BY <2>1, <2>2, <2>3, <2>4
  <1>9. CASE FindsClosed(r)
    <2>1. TypeOK' /\ OpenByStage'
      BY <1>9 DEF FindsClosed, TypeOK, OpenByStage
    <2>2. RequestsServed'
      BY <1>9 DEF FindsClosed, TypeOK, OpenByStage, RequestsServed, ServingStages
    <2>3. QuietAfterDrain'
      BY <1>9 DEF FindsClosed, TypeOK, OpenByStage, QuietAfterDrain, Active, ClosingStages
    <2>a. req[r] # "none" /\ Active(r)
      BY <1>9 DEF FindsClosed, Active
    <2>b. main \in ClosingStages
      BY <1>9, <2>a DEF FindsClosed, OpenByStage, RequestsServed, Gone, ClosingStages,
             ServingStages, QueueStages, RedisStages, PoolStages
    <2>c. late
      BY <2>a, <2>b DEF QuietAfterDrain
    <2>4. DrainProtects'
      BY <1>9, <2>c DEF FindsClosed, TypeOK, DrainProtects
    <2> QED
      BY <2>1, <2>2, <2>3, <2>4
  <1>10. CASE EmitAuditLog(r)
    <2>1. TypeOK' /\ OpenByStage'
      BY <1>10 DEF EmitAuditLog, TypeOK, OpenByStage
    <2>2. RequestsServed'
      BY <1>10 DEF EmitAuditLog, TypeOK, OpenByStage, RequestsServed, ServingStages
    <2>3. QuietAfterDrain'
      BY <1>10 DEF EmitAuditLog, TypeOK, OpenByStage, QuietAfterDrain, Active, ClosingStages
    <2>4. DrainProtects'
      BY <1>10 DEF EmitAuditLog, TypeOK, DrainProtects
    <2> QED
      BY <2>1, <2>2, <2>3, <2>4
  <1>11. CASE Answer(r)
    <2>1. TypeOK' /\ OpenByStage'
      BY <1>11 DEF Answer, TypeOK, OpenByStage
    <2>2. RequestsServed'
      BY <1>11 DEF Answer, TypeOK, OpenByStage, RequestsServed, ServingStages
    <2>3. QuietAfterDrain'
      BY <1>11 DEF Answer, TypeOK, OpenByStage, QuietAfterDrain, Active, ClosingStages
    <2>4. DrainProtects'
      BY <1>11 DEF Answer, TypeOK, DrainProtects
    <2> QED
      BY <2>1, <2>2, <2>3, <2>4
  <1>12. CASE Upgrade(r)
    <2>1. TypeOK' /\ OpenByStage'
      BY <1>12 DEF Upgrade, TypeOK, OpenByStage
    <2>2. RequestsServed'
      BY <1>12 DEF Upgrade, TypeOK, OpenByStage, RequestsServed, ServingStages
    <2>3. QuietAfterDrain'
      BY <1>12 DEF Upgrade, TypeOK, OpenByStage, QuietAfterDrain, Active, ClosingStages
    <2>4. DrainProtects'
      BY <1>12 DEF Upgrade, TypeOK, DrainProtects
    <2> QED
      BY <2>1, <2>2, <2>3, <2>4
  <1>13. CASE Leave(r)
    <2>1. TypeOK' /\ OpenByStage'
      BY <1>13 DEF Leave, TypeOK, OpenByStage
    <2>2. RequestsServed'
      BY <1>13 DEF Leave, TypeOK, OpenByStage, RequestsServed, ServingStages
    <2>3. QuietAfterDrain'
      BY <1>13 DEF Leave, TypeOK, OpenByStage, QuietAfterDrain, Active, ClosingStages
    <2>4. DrainProtects'
      BY <1>13 DEF Leave, TypeOK, DrainProtects
    <2> QED
      BY <2>1, <2>2, <2>3, <2>4
  <1> QED
    BY <1>1, <1>2, <1>3, <1>4, <1>5, <1>6, <1>7, <1>8, <1>9, <1>10, <1>11, <1>12, <1>13
       DEF RequestStep

LEMMA AuditStepInv ==
  ASSUME IInv, NEW r \in Request, AuditStep(r)
  PROVE  IInv'
  <1>1. audit \in [Request -> {"none", "waiting", "writing", "ended", "lost", "cut"}]
    BY DEF IInv, TypeOK
  <1>2. audit' \in [Request -> {"none", "waiting", "writing", "ended", "lost", "cut"}]
    <2>1. CASE AuditAcquires(r)
      BY <1>1, <2>1 DEF AuditAcquires
    <2>2. CASE AuditEnds(r)
      BY <1>1, <2>2 DEF AuditEnds
    <2>3. CASE AuditLost(r)
      BY <1>1, <2>3 DEF AuditLost
    <2> QED
      BY <2>1, <2>2, <2>3 DEF AuditStep
  <1>3. UNCHANGED <<mainVars, req, spoiled>>
    BY DEF AuditStep, AuditAcquires, AuditEnds, AuditLost
  <1>4. TypeOK'
    BY <1>2, <1>3 DEF IInv, TypeOK, mainVars
  <1>5. OpenByStage'
    BY <1>3 DEF IInv, OpenByStage, mainVars
  <1>6. RequestsServed' /\ QuietAfterDrain'
    BY <1>3 DEF IInv, RequestsServed, QuietAfterDrain, Active, mainVars
  <1>7. DrainProtects'
    BY <1>3 DEF IInv, DrainProtects, mainVars
  <1> QED
    BY <1>4, <1>5, <1>6, <1>7 DEF IInv

LEMMA NextInv == IInv /\ [Next]_vars => IInv'
  <1> SUFFICES ASSUME IInv, [Next]_vars
               PROVE  IInv'
    OBVIOUS
  <1>1. CASE Setup \/ SetupFails \/ Start \/ Listening \/ Signal \/ QueueClosed
    BY <1>1, MainStepInv
  <1>2. CASE Shutdown
    BY <1>2, MainStepInv, PoolClosedInv DEF Shutdown
  <1>3. ASSUME NEW r \in Request, RequestStep(r) \/ AuditStep(r)
        PROVE  IInv'
    BY <1>3, RequestStepInv, AuditStepInv
  <1>4. CASE UNCHANGED vars
    BY <1>4 DEF vars, IInv, TypeOK, OpenByStage, RequestsServed, QuietAfterDrain,
           DrainProtects, Active
  <1> QED
    BY <1>1, <1>2, <1>3, <1>4 DEF Next, Ended

LEMMA Invariance == Spec => []IInv
  BY InitInv, NextInv, PTL DEF Spec

-----------------------------------------------------------------------------
(* The theorems.                                                           *)

(* Every variable of the process keeps its type, for any requests. *)
THEOREM TypeCorrect == Spec => []TypeOK
  <1>1. IInv => TypeOK
    BY DEF IInv
  <1> QED
    BY <1>1, Invariance, PTL

(* Set-up, its failures and shutdown keep what is open a beginning of the  *)
(* order of Setup.                                                         *)
THEOREM ClosedInReverse == Spec => []ReverseOrder
  <1>1. ASSUME IInv
        PROVE  ReverseOrder
    <2>1. "queue" \in open => "redis" \in open \/ "redis" \notin enabled
      BY <1>1 DEF IInv, OpenByStage, RedisStages
    <2>2. "http" \in open => "queue" \in open \/ "queue" \notin enabled
      BY <1>1 DEF IInv, OpenByStage, QueueStages
    <2>3. "http" \in open => "redis" \in open \/ "redis" \notin enabled
      BY <1>1 DEF IInv, OpenByStage, QueueStages, RedisStages
    <2>4. {"redis", "queue", "http"} \cap open # {} => "pool" \in open
      BY <1>1 DEF IInv, OpenByStage, QueueStages, RedisStages, PoolStages
    <2>5. /\ Subsystem[1] = "pool" /\ Subsystem[2] = "redis"
          /\ Subsystem[3] = "queue" /\ Subsystem[4] = "http"
      BY DEF Subsystem
    <2> SUFFICES ASSUME NEW i \in 1..4, NEW j \in 1..4, i < j, Subsystem[j] \in open
                 PROVE  Subsystem[i] \in open \/ Subsystem[i] \in {"redis", "queue"} \ enabled
      BY DEF ReverseOrder
    <2>6. CASE i = 1
      BY <2>4, <2>5, <2>6
    <2>7. CASE i = 2
      BY <2>1, <2>3, <2>5, <2>7
    <2>8. CASE i = 3
      BY <2>2, <2>5, <2>8
    <2> QED
      BY <2>6, <2>7, <2>8
  <1> QED
    BY <1>1, Invariance, PTL

(* The drain protects every request that ends before its deadline. *)
THEOREM RequestsProtected == Spec => []DrainProtects
  <1>1. IInv => DrainProtects
    BY DEF IInv
  <1> QED
    BY <1>1, Invariance, PTL

(* A step of another goroutine leaves a query alone, and the last step of  *)
(* main finds none.                                                        *)
LEMMA StepFinishesQueries ==
  ASSUME TypeOK, [Next]_vars, NEW q \in Request
  PROVE  /\ req[q] = "querying" => req'[q] \in {"querying", "running"}
         /\ audit[q] = "writing" => audit'[q] \in {"writing", "ended"}
  <1>1. CASE UNCHANGED <<req, audit>>
    BY <1>1
  <1>2. CASE PoolClosed
    BY <1>2 DEF PoolClosed, InUse, AuditsInUse
  <1>3. ASSUME NEW r \in Request, RequestStep(r)
        PROVE  /\ req[q] = "querying" => req'[q] \in {"querying", "running"}
               /\ audit[q] = "writing" => audit'[q] \in {"writing", "ended"}
    BY <1>3 DEF TypeOK, Move, RequestStep, Connect, Begin, Close, Acquire, Query,
           QueryRefused, QueryEnds, QueryCancelled, FindsClosed, EmitAuditLog, Answer,
           Upgrade, Leave
  <1>4. ASSUME NEW r \in Request, AuditStep(r)
        PROVE  /\ req[q] = "querying" => req'[q] \in {"querying", "running"}
               /\ audit[q] = "writing" => audit'[q] \in {"writing", "ended"}
    BY <1>4 DEF TypeOK, AuditStep, AuditAcquires, AuditEnds, AuditLost
  <1>5. CASE Setup \/ SetupFails \/ Start \/ Listening \/ Signal \/ QueueClosed
    BY <1>1, <1>5 DEF Setup, LoadConfig, ConnectDatabase, ConnectRedis, DialQueue,
      FinishSetup,
           SetupFails, Start, Listening, Listen, ListenFails, Signal, QueueClosed
  <1>6. CASE Shutdown
    BY <1>1, <1>2, <1>6 DEF Shutdown, StopListening, Drained, DrainDeadline, CloseQueue,
           CloseRedis, ClosePool
  <1> QED
    BY <1>1, <1>3, <1>4, <1>5, <1>6 DEF Next, Ended, vars

(* Shutdown never takes a connection away from its user, nor does main     *)
(* return over a running query.                                            *)
THEOREM QueriesFinish == Spec => StartedQueriesFinish
  <1>1. IInv => TypeOK
    BY DEF IInv
  <1>2. TypeOK /\ [Next]_vars =>
          [\A r \in Request :
             /\ req[r] = "querying" => req'[r] \in {"querying", "running"}
             /\ audit[r] = "writing" => audit'[r] \in {"writing", "ended"}]_vars
    BY StepFinishesQueries
  <1> QED
    BY <1>1, <1>2, Invariance, PTL DEF Spec, StartedQueriesFinish

-----------------------------------------------------------------------------
(* The pool.                                                               *)

(* No more connections are in use than the pool has, whoever asks.         *)
PoolRespected ==
  /\ IsFiniteSet(InUse) /\ IsFiniteSet(AuditsInUse)
  /\ Cardinality(InUse) + Cardinality(AuditsInUse) <= PoolSize

LEMMA AddOne ==
  ASSUME NEW S, IsFiniteSet(S), NEW r
  PROVE  /\ IsFiniteSet(S \cup {r})
         /\ Cardinality(S) \in Nat /\ Cardinality(S \cup {r}) \in Nat
         /\ Cardinality(S \cup {r}) <= Cardinality(S) + 1
  <1>1. Cardinality(S) \in Nat
    BY FS_CardinalityType
  <1>2. IsFiniteSet(S \cup {r})
    BY FS_AddElement
  <1>3. Cardinality(S \cup {r}) = IF r \in S THEN Cardinality(S) ELSE Cardinality(S) + 1
    BY FS_AddElement
  <1> QED
    BY <1>1, <1>2, <1>3

(* Connections come back, or one is taken out of an open pool with room.   *)
LEMMA PoolStep ==
  ASSUME TypeOK, [Next]_vars
  PROVE  \/ InUse' \subseteq InUse /\ AuditsInUse' \subseteq AuditsInUse
         \/ /\ "pool" \in open /\ HasRoom
            /\ \E r \in Request :
                 \/ InUse' = InUse \cup {r} /\ AuditsInUse' = AuditsInUse
                 \/ InUse' = InUse /\ AuditsInUse' = AuditsInUse \cup {r}
  <1> USE DEF TypeOK, InUse, AuditsInUse
  <1>1. CASE UNCHANGED <<req, audit>>
    BY <1>1
  <1>2. CASE PoolClosed
    BY <1>2 DEF PoolClosed, Exit, Interrupted
  <1>3. ASSUME NEW r \in Request, Query(r)
        PROVE  /\ "pool" \in open /\ HasRoom
               /\ InUse' = InUse \cup {r} /\ AuditsInUse' = AuditsInUse
    BY <1>3 DEF Query, Move
  <1>4. ASSUME NEW r \in Request, AuditAcquires(r)
        PROVE  /\ "pool" \in open /\ HasRoom
               /\ InUse' = InUse /\ AuditsInUse' = AuditsInUse \cup {r}
    BY <1>4 DEF AuditAcquires
  <1>5. ASSUME NEW r \in Request, RequestStep(r), ~Query(r)
        PROVE  InUse' \subseteq InUse /\ AuditsInUse' \subseteq AuditsInUse
    BY <1>5 DEF Move, RequestStep, Connect, Begin, Close, Acquire, QueryRefused, QueryEnds,
           QueryCancelled, FindsClosed, EmitAuditLog, Answer, Upgrade, Leave
  <1>6. ASSUME NEW r \in Request, AuditEnds(r) \/ AuditLost(r)
        PROVE  InUse' \subseteq InUse /\ AuditsInUse' \subseteq AuditsInUse
    BY <1>6 DEF AuditEnds, AuditLost
  <1>7. CASE Setup \/ SetupFails \/ Start \/ Listening \/ Signal \/ QueueClosed
    BY <1>1, <1>7 DEF Setup, LoadConfig, ConnectDatabase, ConnectRedis, DialQueue,
      FinishSetup,
           SetupFails, Start, Listening, Listen, ListenFails, Signal, QueueClosed
  <1>8. CASE Shutdown
    BY <1>1, <1>2, <1>8 DEF Shutdown, StopListening, Drained, DrainDeadline, CloseQueue,
           CloseRedis, ClosePool
  <1> HIDE DEF TypeOK, InUse, AuditsInUse
  <1> QED
    BY <1>1, <1>3, <1>4, <1>5, <1>6, <1>7, <1>8 DEF Next, AuditStep, Ended, vars

(* The pool is never overdrawn, from set-up to the end of the process. *)
THEOREM PoolNeverOverdrawn == Spec => []PoolRespected
  <1>1. Init => PoolRespected
    <2> SUFFICES ASSUME Init
                 PROVE  PoolRespected
      OBVIOUS
    <2>1. InUse = {} /\ AuditsInUse = {}
      BY DEF Init, InUse, AuditsInUse
    <2> QED
      BY <2>1, FS_EmptySet, PoolSizeAssumption DEF PoolRespected
  <1>2. TypeOK /\ PoolRespected /\ [Next]_vars => PoolRespected'
    <2> SUFFICES ASSUME TypeOK, PoolRespected, [Next]_vars
                 PROVE  PoolRespected'
      OBVIOUS
    <2> USE DEF PoolRespected
    <2>1. Cardinality(InUse) \in Nat /\ Cardinality(AuditsInUse) \in Nat
      BY FS_CardinalityType
    <2>2. CASE InUse' \subseteq InUse /\ AuditsInUse' \subseteq AuditsInUse
      <3>1. /\ IsFiniteSet(InUse') /\ Cardinality(InUse') <= Cardinality(InUse)
            /\ IsFiniteSet(AuditsInUse')
            /\ Cardinality(AuditsInUse') <= Cardinality(AuditsInUse)
        BY <2>2, FS_Subset
      <3>2. Cardinality(InUse') \in Nat /\ Cardinality(AuditsInUse') \in Nat
        BY <3>1, FS_CardinalityType
      <3> QED
        BY <2>1, <3>1, <3>2, PoolSizeAssumption
    <2>3. ASSUME NEW r \in Request, HasRoom,
                 InUse' = InUse \cup {r}, AuditsInUse' = AuditsInUse
          PROVE  PoolRespected'
      <3>1. /\ IsFiniteSet(InUse') /\ Cardinality(InUse') \in Nat
            /\ Cardinality(InUse') <= Cardinality(InUse) + 1
        BY <2>3, AddOne
      <3> QED
        BY <2>1, <2>3, <3>1, PoolSizeAssumption DEF HasRoom
    <2>4. ASSUME NEW r \in Request, HasRoom,
                 InUse' = InUse, AuditsInUse' = AuditsInUse \cup {r}
          PROVE  PoolRespected'
      <3>1. /\ IsFiniteSet(AuditsInUse') /\ Cardinality(AuditsInUse') \in Nat
            /\ Cardinality(AuditsInUse') <= Cardinality(AuditsInUse) + 1
        BY <2>4, AddOne
      <3> QED
        BY <2>1, <2>4, <3>1, PoolSizeAssumption DEF HasRoom
    <2> QED
      BY PoolStep, <2>2, <2>3, <2>4
  <1> QED
    BY <1>1, <1>2, TypeCorrect, PTL DEF Spec

(* From pool.Close on, the users of the pool only leave. *)
UsersOnlyLeave ==
  [][main = "closingPool" =>
       InUse' \subseteq InUse /\ AuditsInUse' \subseteq AuditsInUse]_vars

(* From pool.Close on, who waits gets no connection any more: the users of *)
(* the pool that main waits for only become fewer.                         *)
THEOREM NoNewUsers == Spec => UsersOnlyLeave
  <1>1. IInv /\ [Next]_vars =>
          [main = "closingPool" =>
             InUse' \subseteq InUse /\ AuditsInUse' \subseteq AuditsInUse]_vars
    BY PoolStep DEF IInv, OpenByStage, PoolStages, RedisStages, QueueStages
  <1> QED
    BY <1>1, Invariance, PTL DEF Spec, UsersOnlyLeave

-----------------------------------------------------------------------------
(* Liveness.  The prover has no rule for ENABLED, so fairness is stated    *)
(* with what enables a step of Shutdown written out.                       *)

Stopping ==
  \/ main = "waiting" /\ signalled
  \/ main \in {"draining", "closeQueue", "closeRedis", "closePool"}
  \/ main = "closingPool" /\ InUse = {} /\ AuditsInUse = {}

(* WF_vars(Shutdown), with the guards for its ENABLED. *)
ShutdownGoesOn == []<>~Stopping \/ []<><<Shutdown>>_vars

(* The same for who has a connection of the pool: the database answers,    *)
(* and an audit goroutine has a deadline.                                  *)
GivesBack(r) ==
  /\ []<>~(req[r] = "querying" /\ ~Gone) \/ []<><<QueryEnds(r)>>_vars
  /\ []<>~(audit[r] = "writing" /\ ~Gone) \/ []<><<AuditEnds(r)>>_vars

AllGiveBack == \A r \in Request : GivesBack(r)

GuardedFairness == ShutdownGoesOn /\ []AllGiveBack

(* What BrokerAnswers says, with the guard of QueueClosed for its ENABLED. *)
QueueGetsClosed == []<>~(main = "closingQueue") \/ []<><<QueueClosed>>_vars

GuardedAnswer == BrokerAnswers => QueueGetsClosed

SignalInv == signalled => main \in ServingStages

LEMMA SignalKept == SignalInv /\ [Next]_vars => SignalInv'
  <1> SUFFICES ASSUME SignalInv, [Next]_vars
               PROVE  SignalInv'
    OBVIOUS
  <1> USE DEF SignalInv, ServingStages, ClosingStages, Step
  <1>1. CASE Setup \/ SetupFails \/ Start \/ Listening
    BY <1>1 DEF Setup, LoadConfig, ConnectDatabase, ConnectRedis, DialQueue, FinishSetup,
           SetupFails, Start, Listening, Listen, ListenFails
  <1>2. CASE Signal
    BY <1>2 DEF Signal, SettingUp
  <1>3. CASE Shutdown \/ QueueClosed
    BY <1>3 DEF Shutdown, StopListening, Drained, DrainDeadline, CloseQueue, QueueClosed,
           CloseRedis, ClosePool, PoolClosed, Exit
  <1>4. ASSUME NEW r \in Request, RequestStep(r) \/ AuditStep(r)
        PROVE  SignalInv'
    BY <1>4 DEF RequestStep, Connect, Begin, Close, Acquire, Query, QueryRefused, QueryEnds,
           QueryCancelled, FindsClosed, EmitAuditLog, Answer, Upgrade, Leave, AuditStep,
           AuditAcquires, AuditEnds, AuditLost, mainVars
  <1> QED
    BY <1>1, <1>2, <1>3, <1>4 DEF Next, Ended, vars

(* A server that has been told to stop is at a stage of its shutdown. *)
StopsAt(stage) == signalled /\ main = stage

(* The stages of Shutdown in their order, but for the one that waits for   *)
(* the broker.                                                             *)
StageOrder ==
  {<<"waiting", "draining">>, <<"draining", "closeQueue">>,
   <<"closeQueue", "closingQueue">>, <<"closeQueue", "closeRedis">>,
   <<"closeRedis", "closePool">>, <<"closePool", "closingPool">>,
   <<"closingPool", "exited">>}

(* Shutdown goes from stage to stage, the broker's answer takes it on, and *)
(* nothing else moves main.                                                *)
LEMMA ShutdownOrder ==
  ASSUME SignalInv, signalled, [Next]_vars
  PROVE  /\ signalled'
         /\ main' = main \/ ((Shutdown \/ QueueClosed) /\ main' # main)
         /\ Shutdown => <<main, main'>> \in StageOrder
         /\ QueueClosed => main = "closingQueue" /\ main' = "closeRedis"
  <1> USE DEF SignalInv, ServingStages, ClosingStages, Step
  <1>1. CASE Setup \/ SetupFails \/ Start
    BY <1>1 DEF Setup, LoadConfig, ConnectDatabase, ConnectRedis, DialQueue, FinishSetup,
           SetupFails, Start
  <1>2. Shutdown => UNCHANGED signalled /\ <<main, main'>> \in StageOrder
    BY DEF Shutdown, StopListening, Drained, DrainDeadline, CloseQueue, CloseRedis,
           ClosePool, PoolClosed, Exit, StageOrder
  <1>3. QueueClosed => UNCHANGED signalled /\ main = "closingQueue" /\ main' = "closeRedis"
    BY DEF QueueClosed
  <1>4. CASE Shutdown \/ QueueClosed
    BY <1>2, <1>3, <1>4 DEF StageOrder
  <1>5. CASE Listening \/ Signal
    <2>1. UNCHANGED main /\ signalled'
      BY <1>5 DEF Listening, Listen, ListenFails, Signal, SettingUp
    <2> QED
      BY <1>2, <1>3, <2>1
  <1>6. ASSUME NEW r \in Request, RequestStep(r) \/ AuditStep(r)
        PROVE  UNCHANGED <<main, signalled>>
    BY <1>6 DEF RequestStep, Connect, Begin, Close, Acquire, Query, QueryRefused, QueryEnds,
           QueryCancelled, FindsClosed, EmitAuditLog, Answer, Upgrade, Leave, AuditStep,
           AuditAcquires, AuditEnds, AuditLost, mainVars
  <1>7. CASE UNCHANGED vars \/ Ended
    BY <1>2, <1>3, <1>7 DEF Ended, vars
  <1> QED
    BY <1>1, <1>2, <1>3, <1>4, <1>5, <1>6, <1>7 DEF Next

(* Told to stop, the server comes to the close of its queue, if it has     *)
(* one, and to the closing of its pool otherwise: neither a handler that   *)
(* hangs nor a browser that stays keeps it from there.                     *)
ComesToClose == signalled ~> main \in {"closingQueue", "closingPool", "exited"}

(* Once the broker has answered, it comes to the closing of the pool.      *)
ComesToPool == signalled ~> main \in {"closingPool", "exited"}

LeadsOn(stage, next) == StopsAt(stage) ~> StopsAt(next)

(* The steps of main itself that have one successor. *)
LEMMA StageLeft ==
  ASSUME NEW stage \in {"waiting", "draining", "closeRedis", "closePool"},
         NEW next \in {"draining", "closeQueue", "closePool", "closingPool"},
         <<stage, next>> \in
           {<<"waiting", "draining">>, <<"draining", "closeQueue">>,
            <<"closeRedis", "closePool">>, <<"closePool", "closingPool">>}
  PROVE  []SignalInv /\ [][Next]_vars /\ GuardedFairness
           => LeadsOn(stage, next)
  <1>1. StopsAt(stage) => Stopping
    BY DEF StopsAt, Stopping
  <1>2. SignalInv /\ StopsAt(stage) /\ [Next]_vars => StopsAt(stage)' \/ StopsAt(next)'
    BY ShutdownOrder DEF StopsAt, StageOrder
  <1>3. SignalInv /\ StopsAt(stage) /\ [Next]_vars /\ Shutdown => StopsAt(next)'
    BY ShutdownOrder DEF StopsAt, StageOrder
  <1> QED
    BY <1>1, <1>2, <1>3, PTL DEF GuardedFairness, ShutdownGoesOn, LeadsOn

(* The close of the queue begins, or there is none to close. *)
QueueLeft == StopsAt("closeQueue") ~> (StopsAt("closingQueue") \/ StopsAt("closeRedis"))

LEMMA QueueStageLeft ==
  []SignalInv /\ [][Next]_vars /\ GuardedFairness => QueueLeft
  <1>1. StopsAt("closeQueue") => Stopping
    BY DEF StopsAt, Stopping
  <1>2. SignalInv /\ StopsAt("closeQueue") /\ [Next]_vars
          => \/ StopsAt("closeQueue")'
             \/ StopsAt("closingQueue")' \/ StopsAt("closeRedis")'
    BY ShutdownOrder DEF StopsAt, StageOrder
  <1>3. SignalInv /\ StopsAt("closeQueue") /\ [Next]_vars /\ Shutdown
          => StopsAt("closingQueue")' \/ StopsAt("closeRedis")'
    BY ShutdownOrder DEF StopsAt, StageOrder
  <1> QED
    BY <1>1, <1>2, <1>3, PTL DEF GuardedFairness, ShutdownGoesOn, QueueLeft

(* A broker that answers lets the close of the queue end. *)
LEMMA AnswerTakesOn ==
  []SignalInv /\ [][Next]_vars /\ QueueGetsClosed => LeadsOn("closingQueue", "closeRedis")
  <1>1. StopsAt("closingQueue") => main = "closingQueue"
    BY DEF StopsAt
  <1>2. SignalInv /\ StopsAt("closingQueue") /\ [Next]_vars
          => StopsAt("closingQueue")' \/ StopsAt("closeRedis")'
    BY ShutdownOrder DEF StopsAt, StageOrder
  <1>3. SignalInv /\ StopsAt("closingQueue") /\ [Next]_vars /\ QueueClosed
          => StopsAt("closeRedis")'
    BY ShutdownOrder DEF StopsAt
  <1> QED
    BY <1>1, <1>2, <1>3, PTL DEF QueueGetsClosed, LeadsOn

(* What is left of shutdown waits for those who use the pool: n of them.   *)
Closing == StopsAt("closingPool")
PoolUsers == Cardinality(InUse) + Cardinality(AuditsInUse)
PoolQuiet == main = "exited" \/ (Closing /\ InUse = {} /\ AuditsInUse = {})

UsersLeft(n) == Closing /\ PoolUsers = n
FewerLeft(n) == \E m \in Nat : m < n /\ UsersLeft(m)
SomeLeft == \E n \in Nat : UsersLeft(n)

(* The pool is not left by one user after the other for ever. *)
UsersRunOut == Descends(LAMBDA n : UsersLeft(n), PoolQuiet)

UsersGoOn(n) == UsersLeft(n) ~> (PoolQuiet \/ FewerLeft(n))
UsersGo == (\A n \in Nat : UsersGoOn(n)) => (SomeLeft ~> PoolQuiet)

ClosingInv == SignalInv /\ IInv /\ PoolRespected

LEMMA UsersStep ==
  ASSUME ClosingInv, [Next]_vars, NEW n \in Nat, UsersLeft(n)
  PROVE  \/ UsersLeft(n)' /\ InUse' = InUse /\ AuditsInUse' = AuditsInUse
         \/ PoolQuiet' \/ FewerLeft(n)'
  <1>1. signalled' /\ (main' = "closingPool" \/ main' = "exited")
    BY ShutdownOrder DEF UsersLeft, Closing, StopsAt, ClosingInv, StageOrder
  <1>2. InUse' \subseteq InUse /\ AuditsInUse' \subseteq AuditsInUse
    BY PoolStep DEF UsersLeft, Closing, StopsAt, ClosingInv, IInv, OpenByStage, PoolStages,
      RedisStages, QueueStages
  <1>3. IsFiniteSet(InUse) /\ IsFiniteSet(AuditsInUse)
    BY DEF ClosingInv, PoolRespected
  <1>4. /\ IsFiniteSet(InUse') /\ Cardinality(InUse') <= Cardinality(InUse)
        /\ Cardinality(InUse) = Cardinality(InUse') => InUse = InUse'
    BY <1>2, <1>3, FS_Subset
  <1>5. /\ IsFiniteSet(AuditsInUse')
        /\ Cardinality(AuditsInUse') <= Cardinality(AuditsInUse)
        /\ Cardinality(AuditsInUse) = Cardinality(AuditsInUse') => AuditsInUse = AuditsInUse'
    BY <1>2, <1>3, FS_Subset
  <1>6. /\ Cardinality(InUse) \in Nat /\ Cardinality(AuditsInUse) \in Nat
        /\ Cardinality(InUse') \in Nat /\ Cardinality(AuditsInUse') \in Nat
    BY <1>3, <1>4, <1>5, FS_CardinalityType
  <1>7. PoolUsers = n /\ PoolUsers' \in Nat
    BY <1>6 DEF UsersLeft, PoolUsers
  <1>8. PoolUsers' < n \/ (PoolUsers' = n /\ InUse' = InUse /\ AuditsInUse' = AuditsInUse)
    BY <1>4, <1>5, <1>6, <1>7 DEF PoolUsers
  <1>9. CASE main' = "exited"
    BY <1>9 DEF PoolQuiet
  <1>10. CASE main' = "closingPool"
    BY <1>1, <1>7, <1>8, <1>10 DEF FewerLeft, UsersLeft, Closing, StopsAt
  <1> QED
    BY <1>1, <1>9, <1>10

QueriesLeft(r, n) == UsersLeft(n) /\ r \in InUse
AuditsLeft(r, n) == UsersLeft(n) /\ r \in AuditsInUse

LEMMA UsersGoOnLeaving ==
  ASSUME NEW n \in Nat
  PROVE  []ClosingInv /\ [][Next]_vars /\ GuardedFairness => UsersGoOn(n)
  <1> SUFFICES ASSUME []ClosingInv, [][Next]_vars, []AllGiveBack
               PROVE  [](UsersLeft(n) => <>(PoolQuiet \/ FewerLeft(n)))
    BY PTL DEF GuardedFairness, UsersGoOn
  <1>1. ASSUME NEW r \in Request
        PROVE  QueriesLeft(r, n) => <>(PoolQuiet \/ FewerLeft(n))
    <2>1. AllGiveBack => []<>~(req[r] = "querying" /\ ~Gone) \/ []<><<QueryEnds(r)>>_vars
      BY DEF AllGiveBack, GivesBack
    <2>2. ClosingInv /\ [Next]_vars /\ QueriesLeft(r, n)
            => QueriesLeft(r, n)' \/ PoolQuiet' \/ FewerLeft(n)'
      BY UsersStep DEF QueriesLeft
    <2>3. ClosingInv /\ [Next]_vars /\ QueriesLeft(r, n) /\ QueryEnds(r)
            => PoolQuiet' \/ FewerLeft(n)'
      <3>1. ClosingInv /\ QueryEnds(r) => ~(r \in InUse')
        BY DEF QueryEnds, Move, InUse, ClosingInv, IInv, TypeOK
      <3> QED
        BY <3>1, UsersStep DEF QueriesLeft
    <2>4. QueriesLeft(r, n) => req[r] = "querying" /\ ~Gone
      BY DEF QueriesLeft, InUse, UsersLeft, Closing, StopsAt, Gone
    <2> QED
      BY <2>1, <2>2, <2>3, <2>4, PTL
  <1>2. ASSUME NEW r \in Request
        PROVE  AuditsLeft(r, n) => <>(PoolQuiet \/ FewerLeft(n))
    <2>1. AllGiveBack => []<>~(audit[r] = "writing" /\ ~Gone) \/ []<><<AuditEnds(r)>>_vars
      BY DEF AllGiveBack, GivesBack
    <2>2. ClosingInv /\ [Next]_vars /\ AuditsLeft(r, n)
            => AuditsLeft(r, n)' \/ PoolQuiet' \/ FewerLeft(n)'
      BY UsersStep DEF AuditsLeft
    <2>3. ClosingInv /\ [Next]_vars /\ AuditsLeft(r, n) /\ AuditEnds(r)
            => PoolQuiet' \/ FewerLeft(n)'
      <3>1. ClosingInv /\ AuditEnds(r) => ~(r \in AuditsInUse')
        BY DEF AuditEnds, AuditsInUse, ClosingInv, IInv, TypeOK
      <3> QED
        BY <3>1, UsersStep DEF AuditsLeft
    <2>4. AuditsLeft(r, n) => audit[r] = "writing" /\ ~Gone
      BY DEF AuditsLeft, AuditsInUse, UsersLeft, Closing, StopsAt, Gone
    <2> QED
      BY <2>1, <2>2, <2>3, <2>4, PTL
  <1>3. UsersLeft(n) => \/ PoolQuiet
                        \/ \E r \in Request : QueriesLeft(r, n) \/ AuditsLeft(r, n)
    BY DEF UsersLeft, PoolQuiet, QueriesLeft, AuditsLeft, InUse, AuditsInUse
  <1>4. UsersLeft(n) => PoolQuiet \/ <>(PoolQuiet \/ FewerLeft(n))
    BY <1>1, <1>2, <1>3
  <1> QED
    BY <1>4, PTL

(* A server that is told to stop does, once the users of its pool leave.   *)
LEMMA LastStage ==
  []ClosingInv /\ [][Next]_vars /\ GuardedFairness /\ UsersRunOut
    => (Closing ~> main = "exited")
  <1> DEFINE Quiet == Closing /\ InUse = {} /\ AuditsInUse = {}
  <1>1. Quiet => Stopping
    BY DEF Closing, StopsAt, Stopping
  <1>2. ClosingInv /\ Quiet /\ [Next]_vars => Quiet' \/ (main = "exited")'
    <2> SUFFICES ASSUME ClosingInv, Quiet, [Next]_vars
                 PROVE  Quiet' \/ (main = "exited")'
      OBVIOUS
    <2>1. InUse' \subseteq InUse /\ AuditsInUse' \subseteq AuditsInUse
      BY PoolStep DEF Closing, StopsAt, ClosingInv, IInv, OpenByStage, PoolStages,
        RedisStages, QueueStages
    <2>2. signalled' /\ (main' = "closingPool" \/ main' = "exited")
      BY ShutdownOrder DEF Closing, StopsAt, ClosingInv, StageOrder
    <2> QED
      BY <2>1, <2>2 DEF Closing, StopsAt
  <1>3. ClosingInv /\ Closing /\ [Next]_vars /\ Shutdown => (main = "exited")'
    BY ShutdownOrder DEF Closing, StopsAt, ClosingInv, StageOrder
  <1>4. Quiet => Closing
    OBVIOUS
  <1>5. PoolQuiet => main = "exited" \/ Quiet
    BY DEF PoolQuiet
  <1> HIDE DEF Quiet
  <1>6. []ClosingInv /\ [][Next]_vars /\ GuardedFairness => \A n \in Nat : UsersGoOn(n)
    BY UsersGoOnLeaving
  <1>7. UsersRunOut => UsersGo
    BY DEF UsersRunOut, UsersGo, Descends, UsersGoOn, SomeLeft, FewerLeft
  <1>8. UsersGo /\ (\A n \in Nat : UsersGoOn(n)) => (SomeLeft ~> PoolQuiet)
    BY DEF UsersGo
  <1>9. ClosingInv /\ Closing => SomeLeft
    <2> SUFFICES ASSUME ClosingInv, Closing PROVE SomeLeft
      OBVIOUS
    <2>1. Cardinality(InUse) \in Nat /\ Cardinality(AuditsInUse) \in Nat
      BY FS_CardinalityType DEF ClosingInv, PoolRespected
    <2>2. PoolUsers \in Nat
      BY <2>1 DEF PoolUsers
    <2> QED
      BY <2>2 DEF SomeLeft, UsersLeft
  <1> QED
    BY <1>1, <1>2, <1>3, <1>4, <1>5, <1>6, <1>7, <1>8, <1>9, PTL
       DEF GuardedFairness, ShutdownGoesOn

LEMMA SignalInvariance == Spec => []SignalInv
  <1>1. Init => SignalInv
    BY DEF Init, SignalInv
  <1> QED
    BY <1>1, SignalKept, PTL DEF Spec

(* The stages of a shutdown, as far as it gets by itself. *)
LEMMA ReachesClose ==
  Spec /\ GuardedFairness
    => (signalled ~> (StopsAt("closingQueue") \/ StopsAt("closingPool") \/ main = "exited"))
  <1> DEFINE H == []SignalInv /\ [][Next]_vars /\ GuardedFairness
  <1>1. /\ H => LeadsOn("waiting", "draining")
        /\ H => LeadsOn("draining", "closeQueue")
        /\ H => LeadsOn("closeRedis", "closePool")
        /\ H => LeadsOn("closePool", "closingPool")
    BY StageLeft
  <1>2. H => QueueLeft
    BY QueueStageLeft
  <1>3. SignalInv /\ signalled =>
          \/ StopsAt("waiting") \/ StopsAt("draining") \/ StopsAt("closeQueue")
          \/ StopsAt("closingQueue") \/ StopsAt("closeRedis") \/ StopsAt("closePool")
          \/ StopsAt("closingPool") \/ main = "exited"
    BY DEF SignalInv, ServingStages, ClosingStages, StopsAt
  <1> QED
    BY <1>1, <1>2, <1>3, SignalInvariance, PTL DEF Spec, LeadsOn, QueueLeft

(* And with the broker's answer. *)
LEMMA ReachesPool ==
  Spec /\ GuardedFairness /\ QueueGetsClosed
    => (signalled ~> (StopsAt("closingPool") \/ main = "exited"))
  <1> DEFINE H == []SignalInv /\ [][Next]_vars /\ GuardedFairness
  <1>1. /\ H => LeadsOn("closeRedis", "closePool")
        /\ H => LeadsOn("closePool", "closingPool")
    BY StageLeft
  <1>2. []SignalInv /\ [][Next]_vars /\ QueueGetsClosed
          => LeadsOn("closingQueue", "closeRedis")
    BY AnswerTakesOn
  <1> QED
    BY <1>1, <1>2, ReachesClose, SignalInvariance, PTL DEF Spec, LeadsOn

(* A server that is told to stop comes to the closes that wait for others, *)
(* of its queue and of its pool, with no help from requests or browsers,   *)
(* and past that of its queue if the broker answers.                       *)
THEOREM StopsAtPool ==
  Spec /\ GuardedFairness /\ GuardedAnswer
    => ComesToClose /\ (BrokerAnswers => ComesToPool)
  <1>1. StopsAt("closingQueue") \/ StopsAt("closingPool") \/ main = "exited"
          => main \in {"closingQueue", "closingPool", "exited"}
    BY DEF StopsAt
  <1>2. StopsAt("closingPool") \/ main = "exited" => main \in {"closingPool", "exited"}
    BY DEF StopsAt
  <1>3. GuardedAnswer /\ BrokerAnswers => QueueGetsClosed
    BY DEF GuardedAnswer
  <1> QED
    BY <1>1, <1>2, <1>3, ReachesClose, ReachesPool, PTL DEF ComesToClose, ComesToPool

(* A server that is told to stop does so but for the close of its queue,   *)
(* and entirely if the broker answers that: no handler that hangs, no      *)
(* browser that keeps its WebSocket and no goroutine that waits for the    *)
(* pool keeps the process: who has a connection of it gives it back.       *)
THEOREM ServerTerminates ==
  Spec /\ GuardedFairness /\ GuardedAnswer /\ UsersRunOut => Terminates
  <1>1. Spec => []ClosingInv
    BY SignalInvariance, Invariance, PoolNeverOverdrawn, PTL DEF ClosingInv
  <1>2. Spec /\ GuardedFairness /\ UsersRunOut => (Closing ~> main = "exited")
    BY <1>1, LastStage, PTL DEF Spec
  <1>3. StopsAt("closingQueue") \/ main = "exited" => main \in {"closingQueue", "exited"}
    BY DEF StopsAt
  <1>4. Spec /\ GuardedFairness /\ UsersRunOut
          => (signalled ~> main \in {"closingQueue", "exited"})
    BY <1>2, <1>3, ReachesClose, PTL DEF Closing
  <1>5. Spec /\ GuardedFairness /\ QueueGetsClosed /\ UsersRunOut
          => (signalled ~> main = "exited")
    BY <1>2, ReachesPool, PTL DEF Closing
  <1>6. GuardedAnswer /\ BrokerAnswers => QueueGetsClosed
    BY DEF GuardedAnswer
  <1> QED
    BY <1>4, <1>5, <1>6 DEF Terminates
=============================================================================
