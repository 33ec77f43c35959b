--------------------------- MODULE QueueProofs ---------------------------
(***************************************************************************)
(* Theorems about Queue, for any number of instances, workers, jobs and    *)
(* lost connections.                                                       *)
(***************************************************************************)
EXTENDS Queue, Descent, TLAPS

-----------------------------------------------------------------------------
(* Type correctness.                                                       *)

(* A worker belongs to an instance. *)
LEMMA WorkerInstance == \A w \in Worker : InstanceOf(w) \in Instance
  BY DEF Worker, InstanceOf

(* What the broker is told keeps the types. *)
LEMMA TellTyped ==
  ASSUME TypeOK, NEW w \in Worker, Tell(w, "gone") \/ Tell(w, "ready")
  PROVE  /\ broker' \in [Job -> {"new", "failed", "wire", "lost", "ready", "unacked", "gone"}]
         /\ via' \in [Job -> Instance \cup {None}]
  BY DEF Tell, TypeOK, brokerVars

(* A requeue keeps the types. *)
LEMMA RequeueTyped ==
  ASSUME TypeOK, NEW i \in Instance, Requeue(i)
  PROVE  /\ broker' \in [Job -> {"new", "failed", "wire", "lost", "ready", "unacked", "gone"}]
         /\ via' \in [Job -> Instance \cup {None}]
  BY DEF Requeue, TypeOK

(* A worker in hand of a job has one. *)
HandsFull == \A w \in Worker : Busy(w) => job[w] \in Job

TypeInv == TypeOK /\ HandsFull

(* Every step keeps the types. *)
LEMMA TypeStep ==
  ASSUME TypeInv, [Next]_vars
  PROVE  TypeInv'
  <1> USE WorkerInstance DEF TypeInv, brokerVars, clientVars, workerVars
  <1>1. ASSUME NEW i \in Instance, ConnectionStep(i)
        PROVE  TypeInv'
    <2>1. ASSUME NEW j \in Job, Publish(i, j)
          PROVE  TypeInv'
      BY <2>1 DEF Publish, TypeOK, HandsFull, Busy
    <2>2. ASSUME NEW j \in Job, PublishFails(i, j)
          PROVE  TypeInv'
      BY <2>2 DEF PublishFails, TypeOK, HandsFull, Busy
    <2>3. ASSUME NEW j \in Job, Deliver(i, j)
          PROVE  TypeInv'
      BY <2>3 DEF Deliver, TypeOK, HandsFull, Busy
    <2>4. CASE LoseConnection(i)
      <3>1. losses' \in 0..MaxLosses
        BY <2>4, BoundAssumption DEF LoseConnection, TypeOK
      <3> QED
        BY <2>4, <3>1, RequeueTyped DEF LoseConnection, TypeOK, HandsFull, Busy
    <2>5. CASE Die(i)
      <3>1. losses' \in 0..MaxLosses
        BY <2>5, BoundAssumption DEF Die, TypeOK
      <3>2. HandsFull'
        BY <2>5 DEF Die, TypeOK, HandsFull, Busy
      <3> QED
        BY <2>5, <3>1, <3>2, RequeueTyped DEF Die, TypeOK
    <2>6. CASE Start(i)
      BY <2>6 DEF Start, TypeOK, HandsFull, Busy
    <2> QED
      BY <1>1, <2>1, <2>2, <2>3, <2>4, <2>5, <2>6 DEF ConnectionStep
  <1>2. ASSUME NEW j \in Job, Store(j)
        PROVE  TypeInv'
    BY <1>2 DEF Store, TypeOK, HandsFull, Busy
  <1>3. ASSUME NEW w \in Worker, WorkerStep(w)
        PROVE  TypeInv'
    <2>1. ASSUME NEW j \in Job, Take(w, j)
          PROVE  TypeInv'
      BY <2>1 DEF Take, Move, TypeOK, HandsFull, Busy
    <2>2. CASE Malformed(w)
      BY <2>2 DEF Malformed, Move, TypeOK, HandsFull, Busy
    <2>3. CASE HandlerOk(w)
      <3>1. job[w] \in Job
        BY <2>3 DEF HandlerOk, Move, HandsFull, Busy
      <3> QED
        BY <2>3, <3>1 DEF HandlerOk, Move, TypeOK, HandsFull, Busy
    <2>4. CASE HandlerFails(w)
      <3>1. job[w] \in Job
        BY <2>4 DEF HandlerFails, Move, HandsFull, Busy
      <3> QED
        BY <2>4, <3>1 DEF HandlerFails, Move, TypeOK, HandsFull, Busy
    <2>5. CASE Ack(w)
      BY <2>5, TellTyped DEF Ack, Move, TypeOK, HandsFull, Busy
    <2>6. CASE Nack(w)
      BY <2>6, TellTyped DEF Nack, Move, TypeOK, HandsFull, Busy
    <2>7. CASE Reject(w)
      BY <2>7, TellTyped DEF Reject, Move, TypeOK, HandsFull, Busy
    <2>8. CASE WorkerExits(w)
      BY <2>8 DEF WorkerExits, Move, TypeOK, HandsFull, Busy
    <2> QED
      BY <1>3, <2>1, <2>2, <2>3, <2>4, <2>5, <2>6, <2>7, <2>8 DEF WorkerStep
  <1>4. CASE UNCHANGED vars
    BY <1>4 DEF vars, TypeOK, HandsFull, Busy
  <1> QED
    BY <1>1, <1>2, <1>3, <1>4 DEF Next

LEMMA Typing == Spec => []TypeInv
  <1>1. Init => TypeInv
    BY BoundAssumption DEF Init, TypeInv, TypeOK, HandsFull, Busy
  <1> QED
    BY <1>1, TypeStep, PTL DEF Spec

(* Every variable of the queue keeps its type. *)
THEOREM TypeCorrect == Spec => []TypeOK
  BY Typing, PTL DEF TypeInv
-----------------------------------------------------------------------------
(* The inductive invariant.                                                *)

(* A job is on a connection, an open one, exactly while the broker knows   *)
(* it as received but not stored, or delivered but not acknowledged.       *)
OnConnection ==
  \A j \in Job :
    IF broker[j] \in {"wire", "unacked"}
      THEN via[j] \in Instance /\ Connected(via[j])
      ELSE via[j] = None

(* What a client has buffered, the broker has delivered to it. *)
BufferedUnacked ==
  \A i \in Instance : \A j \in buffer[i] : broker[j] = "unacked" /\ via[j] = i

(* A worker's job was stored, and it says of it what it has seen. *)
HeldStored ==
  \A w \in Worker : Busy(w) =>
    /\ broker[job[w]] \in {"ready", "unacked", "gone"}
    /\ worker[w] = "acking" => job[w] \in handled
    /\ worker[w] = "rejecting" => job[w] \in Bad

(* A connected worker holds a delivery of its own connection, which is no  *)
(* longer in the buffer.                                                   *)
HeldUnacked ==
  \A w \in Worker : (Busy(w) /\ Connected(InstanceOf(w))) =>
    /\ broker[job[w]] = "unacked"
    /\ via[job[w]] = InstanceOf(w)
    /\ job[w] \notin buffer[InstanceOf(w)]

IInv ==
  /\ OnConnection
  /\ BufferedUnacked
  /\ HeldStored
  /\ HeldUnacked
  /\ OneHolder
  /\ HandledBeforeGone

(* Every step keeps the invariant. *)
LEMMA SafeStep ==
  ASSUME TypeInv, IInv, [Next]_vars
  PROVE  IInv'
  <1> USE WorkerInstance, NoneAssumption
      DEF TypeInv, TypeOK, HandsFull, Busy, Connected,
          brokerVars, clientVars, workerVars
  <1>1. OnConnection /\ BufferedUnacked /\ HeldStored /\ HeldUnacked /\ OneHolder
          /\ HandledBeforeGone
    BY DEF IInv
  <1>2. ASSUME NEW i \in Instance, ConnectionStep(i)
        PROVE  IInv'
    <2>1. ASSUME NEW j \in Job, Publish(i, j)
          PROVE  IInv'
      <3>1. OnConnection'
        BY <1>1, <2>1 DEF Publish, OnConnection
      <3>2. BufferedUnacked'
        BY <1>1, <2>1 DEF Publish, BufferedUnacked
      <3>3. HeldStored'
        BY <1>1, <2>1 DEF Publish, HeldStored
      <3>4. HeldUnacked'
        BY <1>1, <2>1 DEF Publish, HeldUnacked
      <3> QED
        BY <1>1, <2>1, <3>1, <3>2, <3>3, <3>4 DEF Publish, OneHolder,
          HandledBeforeGone, IInv
    <2>2. ASSUME NEW j \in Job, PublishFails(i, j)
          PROVE  IInv'
      <3>1. OnConnection'
        BY <1>1, <2>2 DEF PublishFails, OnConnection
      <3>2. BufferedUnacked'
        BY <1>1, <2>2 DEF PublishFails, BufferedUnacked
      <3>3. HeldStored'
        BY <1>1, <2>2 DEF PublishFails, HeldStored
      <3>4. HeldUnacked'
        BY <1>1, <2>2 DEF PublishFails, HeldUnacked
      <3> QED
        BY <1>1, <2>2, <3>1, <3>2, <3>3, <3>4 DEF PublishFails, OneHolder,
          HandledBeforeGone, IInv
    <2>3. ASSUME NEW j \in Job, Deliver(i, j)
          PROVE  IInv'
      <3>1. OnConnection'
        BY <1>1, <2>3 DEF Deliver, OnConnection
      <3>2. BufferedUnacked'
        BY <1>1, <2>3 DEF Deliver, BufferedUnacked
      <3>3. HeldStored'
        BY <1>1, <2>3 DEF Deliver, HeldStored
      <3>4. HeldUnacked'
        BY <1>1, <2>3 DEF Deliver, HeldUnacked
      <3> QED
        BY <1>1, <2>3, <3>1, <3>2, <3>3, <3>4 DEF Deliver, OneHolder,
          HandledBeforeGone, IInv
    <2>4. CASE LoseConnection(i)
      <3>1. OnConnection'
        BY <1>1, <2>4 DEF LoseConnection, Requeue, OnConnection
      <3>2. BufferedUnacked'
        BY <1>1, <2>4 DEF LoseConnection, Requeue, BufferedUnacked
      <3>3. HeldStored'
        BY <1>1, <2>4 DEF LoseConnection, Requeue, HeldStored
      <3>4. HeldUnacked'
        BY <1>1, <2>4 DEF LoseConnection, Requeue, HeldUnacked
      <3>5. OneHolder'
        BY <1>1, <2>4 DEF LoseConnection, Requeue, OneHolder
      <3>6. HandledBeforeGone'
        BY <1>1, <2>4 DEF LoseConnection, Requeue, HandledBeforeGone
      <3> QED
        BY <3>1, <3>2, <3>3, <3>4, <3>5, <3>6 DEF IInv
    <2>5. CASE Die(i)
      <3>1. OnConnection'
        BY <1>1, <2>5 DEF Die, Requeue, OnConnection
      <3>2. BufferedUnacked'
        BY <1>1, <2>5 DEF Die, Requeue, BufferedUnacked
      <3>3. HeldStored'
        BY <1>1, <2>5 DEF Die, Requeue, HeldStored
      <3>4. HeldUnacked'
        BY <1>1, <2>5 DEF Die, Requeue, HeldUnacked
      <3>5. OneHolder'
        BY <1>1, <2>5 DEF Die, Requeue, OneHolder
      <3>6. HandledBeforeGone'
        BY <1>1, <2>5 DEF Die, Requeue, HandledBeforeGone
      <3> QED
        BY <3>1, <3>2, <3>3, <3>4, <3>5, <3>6 DEF IInv
    <2>6. CASE Start(i)
      <3>1. OnConnection'
        BY <1>1, <2>6 DEF Start, OnConnection
      <3>2. HeldStored'
        BY <1>1, <2>6 DEF Start, HeldStored
      <3>3. HeldUnacked'
        BY <1>1, <2>6 DEF Start, HeldUnacked
      <3>4. OneHolder'
        BY <1>1, <2>6 DEF Start, OneHolder
      <3> QED
        BY <1>1, <2>6, <3>1, <3>2, <3>3, <3>4 DEF Start, BufferedUnacked,
          HandledBeforeGone, IInv
    <2> QED
      BY <1>2, <2>1, <2>2, <2>3, <2>4, <2>5, <2>6 DEF ConnectionStep
  <1>3. ASSUME NEW j \in Job, Store(j)
        PROVE  IInv'
    <2>1. OnConnection'
      BY <1>1, <1>3 DEF Store, OnConnection
    <2>2. BufferedUnacked'
      BY <1>1, <1>3 DEF Store, BufferedUnacked
    <2>3. HeldStored'
      BY <1>1, <1>3 DEF Store, HeldStored
    <2>4. HeldUnacked'
      BY <1>1, <1>3 DEF Store, HeldUnacked
    <2> QED
      BY <1>3, <2>1, <2>2, <2>3, <2>4 DEF Store, OneHolder, HandledBeforeGone,
        IInv
  <1>4. ASSUME NEW w \in Worker, WorkerStep(w)
        PROVE  IInv'
    <2>1. ASSUME NEW j \in Job, Take(w, j)
          PROVE  IInv'
      <3>1. BufferedUnacked'
        BY <1>1, <2>1 DEF Take, Move, BufferedUnacked
      <3>2. HeldStored'
        BY <1>1, <2>1 DEF Take, Move, HeldStored, BufferedUnacked
      <3>3. HeldUnacked'
        BY <1>1, <2>1 DEF Take, Move, HeldUnacked, BufferedUnacked
      <3>4. OneHolder'
        BY <1>1, <2>1 DEF Take, Move, OneHolder, BufferedUnacked, HeldUnacked
      <3> QED
        BY <1>1, <2>1, <3>1, <3>2, <3>3, <3>4 DEF Take, Move, OnConnection,
          HandledBeforeGone, IInv
    <2>2. CASE Malformed(w)
      <3>1. HeldStored'
        BY <1>1, <2>2 DEF Malformed, Move, HeldStored
      <3>2. HeldUnacked'
        BY <1>1, <2>2 DEF Malformed, Move, HeldUnacked
      <3>3. OneHolder'
        BY <1>1, <2>2 DEF Malformed, Move, OneHolder
      <3> QED
        BY <1>1, <2>2, <3>1, <3>2, <3>3 DEF Malformed, Move, OnConnection,
          BufferedUnacked, HandledBeforeGone, IInv
    <2>3. CASE HandlerOk(w)
      <3>1. HeldStored'
        BY <1>1, <2>3 DEF HandlerOk, Move, HeldStored
      <3>2. HeldUnacked'
        BY <1>1, <2>3 DEF HandlerOk, Move, HeldUnacked
      <3>3. OneHolder'
        BY <1>1, <2>3 DEF HandlerOk, Move, OneHolder
      <3>4. HandledBeforeGone'
        BY <1>1, <2>3 DEF HandlerOk, Move, HandledBeforeGone
      <3> QED
        BY <1>1, <2>3, <3>1, <3>2, <3>3, <3>4 DEF HandlerOk, Move, OnConnection,
          BufferedUnacked, IInv
    <2>4. CASE HandlerFails(w)
      <3>1. HeldStored'
        BY <1>1, <2>4 DEF HandlerFails, Move, HeldStored
      <3>2. HeldUnacked'
        BY <1>1, <2>4 DEF HandlerFails, Move, HeldUnacked
      <3>3. OneHolder'
        BY <1>1, <2>4 DEF HandlerFails, Move, OneHolder
      <3> QED
        BY <1>1, <2>4, <3>1, <3>2, <3>3 DEF HandlerFails, Move, OnConnection,
          BufferedUnacked, HandledBeforeGone, IInv
    <2>5. CASE Ack(w)
      <3>1. OnConnection'
        BY <1>1, <2>5 DEF Ack, Move, Tell, OnConnection
      <3>2. BufferedUnacked'
        BY <1>1, <2>5 DEF Ack, Move, Tell, BufferedUnacked, HeldUnacked
      <3>3. HeldStored'
        BY <1>1, <2>5 DEF Ack, Move, Tell, HeldStored
      <3>4. HeldUnacked'
        BY <1>1, <2>5 DEF Ack, Move, Tell, HeldUnacked, OneHolder
      <3>5. OneHolder'
        BY <1>1, <2>5 DEF Ack, Move, Tell, OneHolder
      <3>6. HandledBeforeGone'
        BY <1>1, <2>5 DEF Ack, Move, Tell, HandledBeforeGone, HeldStored
      <3> QED
        BY <3>1, <3>2, <3>3, <3>4, <3>5, <3>6 DEF IInv
    <2>6. CASE Nack(w)
      <3>1. OnConnection'
        BY <1>1, <2>6 DEF Nack, Move, Tell, OnConnection
      <3>2. BufferedUnacked'
        BY <1>1, <2>6 DEF Nack, Move, Tell, BufferedUnacked, HeldUnacked
      <3>3. HeldStored'
        BY <1>1, <2>6 DEF Nack, Move, Tell, HeldStored
      <3>4. HeldUnacked'
        BY <1>1, <2>6 DEF Nack, Move, Tell, HeldUnacked, OneHolder
      <3>5. OneHolder'
        BY <1>1, <2>6 DEF Nack, Move, Tell, OneHolder
      <3>6. HandledBeforeGone'
        BY <1>1, <2>6 DEF Nack, Move, Tell, HandledBeforeGone
      <3> QED
        BY <3>1, <3>2, <3>3, <3>4, <3>5, <3>6 DEF IInv
    <2>7. CASE Reject(w)
      <3>1. OnConnection'
        BY <1>1, <2>7 DEF Reject, Move, Tell, OnConnection
      <3>2. BufferedUnacked'
        BY <1>1, <2>7 DEF Reject, Move, Tell, BufferedUnacked, HeldUnacked
      <3>3. HeldStored'
        BY <1>1, <2>7 DEF Reject, Move, Tell, HeldStored
      <3>4. HeldUnacked'
        BY <1>1, <2>7 DEF Reject, Move, Tell, HeldUnacked, OneHolder
      <3>5. OneHolder'
        BY <1>1, <2>7 DEF Reject, Move, Tell, OneHolder
      <3>6. HandledBeforeGone'
        BY <1>1, <2>7 DEF Reject, Move, Tell, HandledBeforeGone, HeldStored
      <3> QED
        BY <3>1, <3>2, <3>3, <3>4, <3>5, <3>6 DEF IInv
    <2>8. CASE WorkerExits(w)
      <3>1. HeldStored'
        BY <1>1, <2>8 DEF WorkerExits, Move, HeldStored
      <3>2. HeldUnacked'
        BY <1>1, <2>8 DEF WorkerExits, Move, HeldUnacked
      <3>3. OneHolder'
        BY <1>1, <2>8 DEF WorkerExits, Move, OneHolder
      <3> QED
        BY <1>1, <2>8, <3>1, <3>2, <3>3 DEF WorkerExits, Move, OnConnection,
          BufferedUnacked, HandledBeforeGone, IInv
    <2> QED
      BY <1>4, <2>1, <2>2, <2>3, <2>4, <2>5, <2>6, <2>7, <2>8 DEF WorkerStep
  <1>5. CASE UNCHANGED vars
    BY <1>5 DEF vars, IInv, OnConnection, BufferedUnacked, HeldStored,
      HeldUnacked, OneHolder, HandledBeforeGone
  <1> QED
    BY <1>2, <1>3, <1>4, <1>5 DEF Next

LEMMA Safety == Spec => []IInv
  <1>1. Init => IInv
    BY DEF Init, IInv, OnConnection, BufferedUnacked, HeldStored, HeldUnacked,
           OneHolder, HandledBeforeGone, Busy
  <1> QED
    BY <1>1, SafeStep, Typing, PTL DEF Spec

(* No stored job is lost: the broker forgets a job only after a handler    *)
(* has succeeded on it, whatever connections and processes fail.           *)
THEOREM NothingLost == Spec => []HandledBeforeGone
  BY Safety, PTL DEF IInv

(* Among connected workers a job has one holder. *)
THEOREM HeldOnce == Spec => []OneHolder
  BY Safety, PTL DEF IInv
-----------------------------------------------------------------------------
(* The queue implements at-least-once processing.                          *)

(* A connection that ends leaves the stored jobs as they are. *)
LEMMA RequeueInvisible ==
  ASSUME TypeInv, OnConnection, NEW i \in Instance, Requeue(i)
  PROVE  StoredJobs' = StoredJobs /\ GoneJobs' = GoneJobs
  BY NoneAssumption
  DEF TypeInv, TypeOK, OnConnection, Requeue, StoredJobs, GoneJobs

(* A settled job leaves the store once it was handled or cannot be read. *)
LEMMA TellGone ==
  ASSUME TypeInv, NEW w \in Worker, Busy(w), HeldUnacked, Tell(w, "gone"),
         job[w] \in handled \cup Bad, handled' = handled
  PROVE  Abstract!Next \/ UNCHANGED <<StoredJobs, GoneJobs>>
  <1> USE DEF TypeInv, TypeOK, HandsFull, StoredJobs, GoneJobs
  <1>1. CASE Connected(InstanceOf(w))
    <2>1. job[w] \in Job /\ broker[job[w]] = "unacked"
      BY <1>1 DEF HeldUnacked
    <2>2. broker' = [broker EXCEPT ![job[w]] = "gone"]
      BY <1>1 DEF Tell
    <2>3. \E j \in Job : Abstract!Leave(j)
      BY <2>1, <2>2 DEF Abstract!Leave
    <2> QED
      BY <2>3 DEF Abstract!Next
  <1>2. CASE ~Connected(InstanceOf(w))
    BY <1>2 DEF Tell, brokerVars
  <1> QED
    BY <1>1, <1>2

(* A job that goes back to the queue has not left the store. *)
LEMMA TellReady ==
  ASSUME TypeInv, NEW w \in Worker, Busy(w), HeldUnacked, Tell(w, "ready")
  PROVE  UNCHANGED <<StoredJobs, GoneJobs>>
  BY DEF TypeInv, TypeOK, HandsFull, HeldUnacked, Tell, brokerVars, StoredJobs, GoneJobs

(* A handler runs on a job that is stored, or that has left the store      *)
(* through another worker after this one was cut off.                      *)
LEMMA HandlerHandles ==
  ASSUME TypeInv, HeldStored, NEW w \in Worker, HandlerOk(w)
  PROVE  Abstract!Next
  <1>1. /\ job[w] \in Job \ Bad
        /\ broker[job[w]] \in {"ready", "unacked", "gone"}
    BY DEF HandlerOk, Move, TypeInv, HandsFull, HeldStored, Busy
  <1>2. /\ handled' = handled \cup {job[w]}
        /\ UNCHANGED <<StoredJobs, GoneJobs>>
    BY DEF HandlerOk, clientVars, brokerVars, StoredJobs, GoneJobs
  <1>3. \E j \in Job : Abstract!Handle(j)
    BY <1>1, <1>2 DEF Abstract!Handle, StoredJobs, GoneJobs
  <1> QED
    BY <1>3 DEF Abstract!Next

LEMMA AbstractStep ==
  ASSUME TypeInv, IInv, [Next]_vars
  PROVE  [Abstract!Next]_(Abstract!vars)
  <1> USE DEF TypeInv, TypeOK, IInv, StoredJobs, GoneJobs, Abstract!vars,
              brokerVars, clientVars, workerVars
  <1>1. ASSUME NEW i \in Instance, ConnectionStep(i)
        PROVE  UNCHANGED Abstract!vars
    <2>1. ASSUME NEW j \in Job, Publish(i, j) \/ PublishFails(i, j) \/ Deliver(i, j)
          PROVE  UNCHANGED Abstract!vars
      BY <2>1 DEF Publish, PublishFails, Deliver
    <2>2. CASE LoseConnection(i) \/ Die(i)
      <3>1. Requeue(i) /\ handled' = handled
        BY <2>2 DEF LoseConnection, Die
      <3> QED
        BY <3>1, RequeueInvisible
    <2>3. CASE Start(i)
      BY <2>3 DEF Start
    <2> QED
      BY <1>1, <2>1, <2>2, <2>3 DEF ConnectionStep
  <1>2. ASSUME NEW j \in Job, Store(j)
        PROVE  Abstract!Next
    <2>1. Abstract!Store(j)
      BY <1>2 DEF Store, Abstract!Store
    <2> QED
      BY <2>1 DEF Abstract!Next
  <1>3. ASSUME NEW w \in Worker, WorkerStep(w)
        PROVE  [Abstract!Next]_(Abstract!vars)
    <2>1. CASE HandlerOk(w)
      BY <2>1, HandlerHandles
    <2>2. CASE Ack(w) \/ Reject(w)
      <3>1. /\ Busy(w) /\ job[w] \in Job /\ job[w] \in handled \cup Bad
            /\ Tell(w, "gone") /\ handled' = handled
        BY <2>2 DEF Ack, Reject, Move, Busy, HandsFull, HeldStored
      <3> QED
        BY <3>1, TellGone
    <2>3. CASE Nack(w)
      <3>1. Busy(w) /\ Tell(w, "ready") /\ handled' = handled
        BY <2>3 DEF Nack, Move, Busy
      <3> QED
        BY <3>1, TellReady
    <2>4. ASSUME NEW j \in Job, Take(w, j)
          PROVE  UNCHANGED Abstract!vars
      BY <2>4 DEF Take
    <2>5. CASE Malformed(w) \/ HandlerFails(w) \/ WorkerExits(w)
      BY <2>5 DEF Malformed, HandlerFails, WorkerExits
    <2> QED
      BY <1>3, <2>1, <2>2, <2>3, <2>4, <2>5 DEF WorkerStep
  <1>4. CASE UNCHANGED vars
    BY <1>4 DEF vars
  <1> QED
    BY <1>1, <1>2, <1>3, <1>4 DEF Next

(* The broker, its consumers and their failures implement a store that a   *)
(* job leaves only once it has been handled.                               *)
THEOREM Refinement == Spec => ImplementsJobStore
  <1>1. Init => Abstract!Init
    BY DEF Init, Abstract!Init, StoredJobs, GoneJobs
  <1> QED
    BY <1>1, AbstractStep, Typing, Safety, PTL
    DEF Spec, ImplementsJobStore, Abstract!Spec
-----------------------------------------------------------------------------
(* Where the unacknowledged jobs are.                                      *)

HasInHand(w, j) == Busy(w) /\ job[w] = j

(* A job that the broker waits for is in the buffer of the connection it   *)
(* was delivered on, or in the hand of a worker there: no delivery is      *)
(* dropped between the channel and the acknowledgement.                    *)
NoJobForgotten ==
  \A j \in Job : broker[j] = "unacked" =>
    \/ j \in buffer[via[j]]
    \/ \E w \in Worker : InstanceOf(w) = via[j] /\ HasInHand(w, j)

(* The workers of an instance that has its connection are at work. *)
WorkersStay == \A w \in Worker : Connected(InstanceOf(w)) => worker[w] # "exited"

PlaceInv == NoJobForgotten /\ WorkersStay

(* Every step of a worker keeps a job where it can be found. *)
LEMMA PlaceWorkerStep ==
  ASSUME TypeInv, IInv, PlaceInv, NEW w \in Worker, WorkerStep(w)
  PROVE  PlaceInv'
  <1> USE WorkerInstance, NoneAssumption
      DEF TypeInv, TypeOK, HandsFull, Busy, Connected, HasInHand, Move, PlaceInv,
          NoJobForgotten, WorkersStay, brokerVars, clientVars, workerVars
  <1>1. ASSUME NEW j \in Job, Take(w, j)
        PROVE  PlaceInv'
    <2>1. WorkersStay'
      BY <1>1 DEF Take
    <2>2. ASSUME NEW k \in Job, broker[k] = "unacked"
          PROVE  \/ k \in buffer'[via[k]]
                 \/ \E v \in Worker : InstanceOf(v) = via[k] /\ HasInHand(v, k)'
      <3>1. CASE k = j
        <4>1. via[j] = InstanceOf(w)
          BY <1>1 DEF Take, IInv, BufferedUnacked
        <4> QED
          BY <1>1, <3>1, <4>1 DEF Take
      <3>2. CASE k # j /\ k \in buffer[via[k]]
        BY <1>1, <2>2, <3>2 DEF Take, IInv, OnConnection
      <3>3. ASSUME NEW v \in Worker, InstanceOf(v) = via[k], HasInHand(v, k)
            PROVE  HasInHand(v, k)'
        BY <1>1, <3>3 DEF Take
      <3> QED
        BY <2>2, <3>1, <3>2, <3>3
    <2> QED
      BY <1>1, <2>1, <2>2 DEF Take
  <1>2. CASE Malformed(w) \/ HandlerOk(w) \/ HandlerFails(w)
    BY <1>2 DEF Malformed, HandlerOk, HandlerFails
  <1>3. CASE Ack(w) \/ Nack(w) \/ Reject(w)
    <2>1. WorkersStay'
      BY <1>3 DEF Ack, Nack, Reject
    <2>2. CASE Connected(InstanceOf(w))
      <3>1. /\ \A k \in Job \ {job[w]} : broker'[k] = broker[k] /\ via'[k] = via[k]
            /\ broker'[job[w]] # "unacked" /\ UNCHANGED buffer
            /\ \A v \in Worker \ {w} : worker'[v] = worker[v] /\ job'[v] = job[v]
        BY <1>3, <2>2 DEF Ack, Nack, Reject, Tell
      <3> QED
        BY <2>1, <3>1
    <2>3. CASE ~Connected(InstanceOf(w))
      <3>1. /\ UNCHANGED <<broker, via, buffer>>
            /\ \A v \in Worker \ {w} : worker'[v] = worker[v] /\ job'[v] = job[v]
        BY <1>3, <2>3 DEF Ack, Nack, Reject, Tell
      <3>2. ASSUME NEW k \in Job, broker[k] = "unacked"
            PROVE  via[k] # InstanceOf(w)
        BY <2>3, <3>2 DEF IInv, OnConnection
      <3> QED
        BY <2>1, <3>1, <3>2
    <2> QED
      BY <2>2, <2>3
  <1>4. CASE WorkerExits(w)
    <2>1. UNCHANGED <<broker, via, buffer, conn, job>>
      BY <1>4 DEF WorkerExits
    <2>2. worker[w] = "idle" /\ ~Connected(InstanceOf(w))
            /\ \A v \in Worker \ {w} : worker'[v] = worker[v]
      BY <1>4 DEF WorkerExits
    <2> QED
      BY <2>1, <2>2
  <1> QED
    BY <1>1, <1>2, <1>3, <1>4 DEF WorkerStep

(* So does every other step. *)
LEMMA PlaceStep ==
  ASSUME TypeInv, IInv, PlaceInv, [Next]_vars
  PROVE  PlaceInv'
  <1> USE WorkerInstance, NoneAssumption
      DEF TypeInv, TypeOK, HandsFull, Busy, Connected, HasInHand, PlaceInv,
          NoJobForgotten, WorkersStay, brokerVars, clientVars, workerVars
  <1>1. ASSUME NEW i \in Instance, NEW j \in Job,
               Publish(i, j) \/ PublishFails(i, j)
        PROVE  PlaceInv'
    BY <1>1 DEF Publish, PublishFails
  <1>2. ASSUME NEW i \in Instance, NEW j \in Job, Deliver(i, j)
        PROVE  PlaceInv'
    BY <1>2 DEF Deliver
  <1>3. ASSUME NEW i \in Instance, LoseConnection(i) \/ Die(i)
        PROVE  PlaceInv'
    <2>1. /\ \A k \in Job : broker'[k] = "unacked" =>
               broker[k] = "unacked" /\ via[k] # i /\ via'[k] = via[k] /\ via[k] \in Instance
          /\ \A m \in Instance \ {i} : buffer'[m] = buffer[m] /\ conn'[m] = conn[m]
          /\ conn'[i] # "open"
      BY <1>3 DEF LoseConnection, Die, Requeue, IInv, OnConnection
    <2>2. \A v \in Worker : InstanceOf(v) # i => worker'[v] = worker[v] /\ job'[v] = job[v]
      BY <1>3 DEF LoseConnection, Die
    <2> QED
      BY <2>1, <2>2
  <1>4. ASSUME NEW i \in Instance, Start(i)
        PROVE  PlaceInv'
    <2>1. \A k \in Job : broker[k] = "unacked" => via[k] # i
      BY <1>4 DEF Start, IInv, OnConnection
    <2> QED
      BY <1>4, <2>1 DEF Start
  <1>5. CASE UNCHANGED vars
    BY <1>5 DEF vars
  <1>6. ASSUME NEW j \in Job, Store(j)
        PROVE  PlaceInv'
    BY <1>6 DEF Store
  <1> HIDE DEF PlaceInv
  <1> QED
    BY <1>1, <1>2, <1>3, <1>4, <1>5, <1>6, PlaceWorkerStep DEF Next, ConnectionStep

LEMMA Placing == Spec => []PlaceInv
  <1>1. Init => PlaceInv
    BY DEF Init, PlaceInv, NoJobForgotten, WorkersStay
  <1> QED
    BY <1>1, PlaceStep, Typing, Safety, PTL DEF Spec

(* No delivery is forgotten: while its connection lasts, a job the broker  *)
(* waits for is where a worker will come to it, or in a worker's hand.     *)
THEOREM DeliveriesKept == Spec => []NoJobForgotten
  BY Placing, PTL DEF PlaceInv

-----------------------------------------------------------------------------
(* Liveness.  The prover has no rule for ENABLED, so each condition of     *)
(* Fairness is stated with its guard written out.                          *)

CanDeliver(j) == broker[j] = "ready" /\ \E i \in Instance : Connected(i)
CanTake(j) == \E w \in Worker : worker[w] = "idle" /\ j \in buffer[InstanceOf(w)]
CanHandle(j) == \E w \in Worker : job[w] = j /\ worker[w] = "handling"

Delivery(j) == \E i \in Instance : Deliver(i, j)
Taking(j) == \E w \in Worker : Take(w, j)
Success(j) == \E w \in Worker : job[w] = j /\ HandlerOk(w)
GoOn(w) ==
  Malformed(w) \/ HandlerOk(w) \/ HandlerFails(w) \/ Ack(w) \/ Nack(w) \/ Reject(w)
    \/ WorkerExits(w)

JobServed(j) ==
  /\ <>[]~CanDeliver(j) \/ []<><<Delivery(j)>>_vars
  /\ <>[]~CanTake(j) \/ []<><<Taking(j)>>_vars
  /\ <>[]~CanHandle(j) \/ []<><<Success(j)>>_vars

WorkerGoesOn(w) == []<>~Busy(w) \/ []<><<GoOn(w)>>_vars

AllServed ==
  /\ \A j \in Good : JobServed(j)
  /\ \A w \in Worker : WorkerGoesOn(w)

(* Fairness, with the guards for what ENABLED said.  WorkerExits, which    *)
(* the guard of WorkerGoesOn leaves out, matters to no job.                *)
GuardedFairness == []AllServed

(* A step with which no connection is lost; that none is lost any more; and *)
(* how many still may be.                                                  *)
NoLoss == losses' = losses
Calm == [][NoLoss]_vars
LossesEnd == <>Calm
LossesLeft(n) == MaxLosses - losses = n

(* Losses, of which MaxLosses bounds the number, come to an end.           *)
LossesRunOut == Descends(LAMBDA n : LossesLeft(n), Calm)

SafeInv == TypeInv /\ IInv /\ PlaceInv

CalmNext == Next /\ NoLoss

(* Where a job is, as long as its connection lasts. *)
IsReady(j) == broker[j] = "ready"
Buffered(i, j) == broker[j] = "unacked" /\ Connected(i) /\ j \in buffer[i]
InHand(w, j, stage) == Connected(InstanceOf(w)) /\ job[w] = j /\ worker[w] = stage
IsBuffered(j) == \E i \in Instance : Buffered(i, j)
IsInHand(j, stage) == \E w \in Worker : InHand(w, j, stage)
Done(j) == j \in handled

(* In a calm step no connection ends. *)
LEMMA CalmKeeps ==
  ASSUME TypeInv, [CalmNext]_vars, NEW i \in Instance, Connected(i)
  PROVE  Connected(i)'
  <1> USE DEF TypeInv, TypeOK, Connected
  <1>1. ASSUME NEW k \in Instance, LoseConnection(k) \/ Die(k), NoLoss
        PROVE  FALSE
    BY <1>1, BoundAssumption DEF LoseConnection, Die, NoLoss
  <1>2. ASSUME NEW k \in Instance, Start(k)
        PROVE  Connected(i)'
    BY <1>2 DEF Start
  <1>3. ASSUME NEW k \in Instance, NEW j \in Job,
               Publish(k, j) \/ PublishFails(k, j) \/ Deliver(k, j) \/ Store(j)
        PROVE  Connected(i)'
    BY <1>3 DEF Publish, PublishFails, Deliver, Store, clientVars
  <1>4. ASSUME NEW w \in Worker, WorkerStep(w)
        PROVE  Connected(i)'
    BY <1>4 DEF WorkerStep, Take, Malformed, HandlerOk, HandlerFails, Ack, Nack, Reject,
           WorkerExits, clientVars
  <1>5. ASSUME NEW j \in Job, Store(j)
        PROVE  Connected(i)'
    BY <1>5 DEF Store, clientVars
  <1>6. CASE UNCHANGED vars
    BY <1>6 DEF vars, clientVars
  <1> QED
    BY <1>1, <1>2, <1>3, <1>4, <1>5, <1>6 DEF CalmNext, Next, ConnectionStep

(* A good job that is ready is delivered, and then in a buffer. *)
LEMMA ReadyStep ==
  ASSUME SafeInv, [CalmNext]_vars, NEW j \in Good, IsReady(j)
  PROVE  IsReady(j)' \/ IsBuffered(j)'
  <1> USE WorkerInstance DEF SafeInv, TypeInv, TypeOK, IsReady, Good, brokerVars
  <1>1. ASSUME NEW i \in Instance, NEW k \in Job, Deliver(i, k)
        PROVE  IsReady(j)' \/ IsBuffered(j)'
    BY <1>1 DEF Deliver, IsBuffered, Buffered, Connected
  <1>2. ASSUME NEW i \in Instance, LoseConnection(i) \/ Die(i), NoLoss
        PROVE  FALSE
    BY <1>2, BoundAssumption DEF LoseConnection, Die, NoLoss
  <1>3. ASSUME NEW i \in Instance, NEW k \in Job,
               Publish(i, k) \/ PublishFails(i, k)
        PROVE  IsReady(j)'
    BY <1>3 DEF Publish, PublishFails
  <1>4. ASSUME NEW k \in Job, Store(k)
        PROVE  IsReady(j)'
    BY <1>4 DEF Store
  <1>5. ASSUME NEW w \in Worker, Ack(w) \/ Nack(w) \/ Reject(w)
        PROVE  IsReady(j)'
    <2>1. Busy(w)
      BY <1>5 DEF Ack, Nack, Reject, Move, Busy
    <2>2. Connected(InstanceOf(w)) => job[w] # j
      BY <2>1 DEF IInv, HeldUnacked
    <2> QED
      BY <1>5, <2>2 DEF Ack, Nack, Reject, Tell
  <1>6. ASSUME NEW w \in Worker, NEW k \in Job, Take(w, k)
        PROVE  IsReady(j)'
    BY <1>6 DEF Take
  <1>7. ASSUME NEW w \in Worker, WorkerExits(w)
        PROVE  IsReady(j)'
    BY <1>7 DEF WorkerExits
  <1>8. ASSUME NEW w \in Worker, Malformed(w) \/ HandlerOk(w) \/ HandlerFails(w)
        PROVE  IsReady(j)'
    BY <1>8 DEF Malformed, HandlerOk, HandlerFails
  <1>9. ASSUME NEW i \in Instance, Start(i)
        PROVE  IsReady(j)'
    BY <1>9 DEF Start
  <1>10. CASE UNCHANGED vars
    BY <1>10 DEF vars
  <1> HIDE DEF SafeInv, TypeInv, TypeOK, IsReady, Good
  <1> QED
    BY <1>1, <1>2, <1>3, <1>4, <1>5, <1>6, <1>7, <1>8, <1>9, <1>10
       DEF CalmNext, Next, ConnectionStep, WorkerStep

LEMMA DeliveryStep ==
  ASSUME SafeInv, NEW j \in Good, Delivery(j)
  PROVE  IsBuffered(j)'
  BY DEF SafeInv, TypeInv, TypeOK, Good, Delivery, Deliver, IsBuffered, Buffered, Connected

(* A good job in a buffer stays there until a worker takes it. *)
LEMMA BufferedStep ==
  ASSUME SafeInv, [CalmNext]_vars, NEW i \in Instance, NEW j \in Good, Buffered(i, j)
  PROVE  Buffered(i, j)' \/ IsInHand(j, "handling")'
  <1> USE WorkerInstance
      DEF SafeInv, TypeInv, TypeOK, Buffered, Good, brokerVars, Connected
  <1>0. Connected(i)'
    BY CalmKeeps
  <1>1. ASSUME NEW w \in Worker, NEW k \in Job, Take(w, k)
        PROVE  Buffered(i, j)' \/ IsInHand(j, "handling")'
    <2>1. CASE k = j /\ InstanceOf(w) = i
      BY <1>1, <2>1 DEF Take, Move, IsInHand, InHand
    <2>2. CASE k # j \/ InstanceOf(w) # i
      BY <1>0, <1>1, <2>2 DEF Take
    <2> QED
      BY <2>1, <2>2
  <1>2. ASSUME NEW w \in Worker, Ack(w) \/ Nack(w) \/ Reject(w)
        PROVE  Buffered(i, j)'
    <2>1. Busy(w)
      BY <1>2 DEF Ack, Nack, Reject, Move, Busy
    <2>2. Connected(InstanceOf(w)) => job[w] # j
      BY <2>1 DEF IInv, HeldUnacked, BufferedUnacked
    <2> QED
      BY <1>0, <1>2, <2>2 DEF Ack, Nack, Reject, Tell, clientVars
  <1>3. ASSUME NEW m \in Instance, NEW k \in Job, Deliver(m, k)
        PROVE  Buffered(i, j)'
    BY <1>0, <1>3 DEF Deliver
  <1>4. ASSUME NEW m \in Instance, LoseConnection(m) \/ Die(m), NoLoss
        PROVE  FALSE
    BY <1>4, BoundAssumption DEF LoseConnection, Die, NoLoss
  <1>5. ASSUME NEW m \in Instance, NEW k \in Job, Publish(m, k) \/ PublishFails(m, k)
        PROVE  Buffered(i, j)'
    BY <1>0, <1>5 DEF Publish, PublishFails, clientVars
  <1>6. ASSUME NEW m \in Instance, Start(m)
        PROVE  Buffered(i, j)'
    BY <1>0, <1>6 DEF Start
  <1>7. ASSUME NEW k \in Job, Store(k)
        PROVE  Buffered(i, j)'
    BY <1>0, <1>7 DEF Store, clientVars
  <1>8. ASSUME NEW w \in Worker,
               Malformed(w) \/ HandlerOk(w) \/ HandlerFails(w) \/ WorkerExits(w)
        PROVE  Buffered(i, j)'
    BY <1>0, <1>8 DEF Malformed, HandlerOk, HandlerFails, WorkerExits, clientVars
  <1>9. CASE UNCHANGED vars
    BY <1>9 DEF vars, clientVars
  <1> HIDE DEF SafeInv, TypeInv, TypeOK, Buffered, Good
  <1> QED
    BY <1>1, <1>2, <1>3, <1>4, <1>5, <1>6, <1>7, <1>8, <1>9
       DEF CalmNext, Next, ConnectionStep, WorkerStep

LEMMA TakingStep ==
  ASSUME SafeInv, NEW i \in Instance, NEW j \in Good, Buffered(i, j), Taking(j)
  PROVE  IsInHand(j, "handling")'
  <1>1. PICK w \in Worker : Take(w, j)
    BY DEF Taking
  <1>2. Connected(InstanceOf(w))
    BY <1>1, WorkerInstance DEF Take, SafeInv, IInv, BufferedUnacked, Buffered
  <1>3. InHand(w, j, "handling")'
    BY <1>1, <1>2 DEF Take, Move, InHand, SafeInv, TypeInv, TypeOK, Connected
  <1> QED
    BY <1>3 DEF IsInHand

(* The delivery of a good job in a worker's hand: it is handled, or goes   *)
(* back to the queue.                                                      *)
LEMMA InHandStep ==
  ASSUME SafeInv, [CalmNext]_vars, NEW w \in Worker, NEW j \in Good
  PROVE  /\ InHand(w, j, "handling") =>
              InHand(w, j, "handling")' \/ InHand(w, j, "nacking")' \/ Done(j)'
         /\ InHand(w, j, "nacking") => InHand(w, j, "nacking")' \/ IsReady(j)'
  <1> USE WorkerInstance
      DEF SafeInv, TypeInv, TypeOK, InHand, Good, IsReady, Done, Move, brokerVars, Connected
  <1>0. Connected(InstanceOf(w)) => Connected(InstanceOf(w))'
    BY CalmKeeps
  <1>1. ASSUME NEW v \in Worker, v # w, WorkerStep(v)
        PROVE  worker'[w] = worker[w] /\ job'[w] = job[w]
    BY <1>1 DEF WorkerStep, Take, Malformed, HandlerOk, HandlerFails, Ack, Nack, Reject,
           WorkerExits
  <1>2. CASE WorkerStep(w)
    <2>1. ASSUME InHand(w, j, "handling")
          PROVE  InHand(w, j, "nacking")' \/ Done(j)'
      BY <1>0, <1>2, <2>1 DEF WorkerStep, Take, Malformed, HandlerOk, HandlerFails, Ack, Nack,
             Reject, WorkerExits
    <2>2. ASSUME InHand(w, j, "nacking")
          PROVE  IsReady(j)'
      BY <1>2, <2>2 DEF WorkerStep, Take, Malformed, HandlerOk, HandlerFails, Ack, Nack,
             Reject, WorkerExits, Tell
    <2> QED
      BY <2>1, <2>2
  <1>3. ASSUME NEW i \in Instance, LoseConnection(i) \/ Die(i), NoLoss
        PROVE  FALSE
    BY <1>3, BoundAssumption DEF LoseConnection, Die, NoLoss
  <1>4. ASSUME NEW i \in Instance, NEW k \in Job,
               Publish(i, k) \/ PublishFails(i, k) \/ Deliver(i, k)
        PROVE  UNCHANGED workerVars
    BY <1>4 DEF Publish, PublishFails, Deliver
  <1>5. ASSUME NEW i \in Instance, Start(i), Connected(InstanceOf(w))
        PROVE  worker'[w] = worker[w] /\ job'[w] = job[w]
    BY <1>5 DEF Start
  <1>6. ASSUME NEW k \in Job, Store(k)
        PROVE  UNCHANGED workerVars
    BY <1>6 DEF Store
  <1>7. UNCHANGED vars => UNCHANGED workerVars
    BY DEF vars
  <1>8. CASE Connected(InstanceOf(w)) /\ worker'[w] = worker[w] /\ job'[w] = job[w]
    BY <1>0, <1>8
  <1>9. CASE ~Connected(InstanceOf(w))
    BY <1>9
  <1> HIDE DEF SafeInv, TypeInv, TypeOK, InHand, Good, IsReady, Done
  <1> QED
    BY <1>1, <1>2, <1>3, <1>4, <1>5, <1>6, <1>7, <1>8, <1>9
       DEF CalmNext, Next, ConnectionStep, workerVars

LEMMA HandStep ==
  ASSUME SafeInv, NEW w \in Worker, NEW j \in Good, GoOn(w)
  PROVE  /\ InHand(w, j, "handling") /\ [CalmNext]_vars
              => InHand(w, j, "nacking")' \/ Done(j)'
         /\ InHand(w, j, "nacking") /\ [CalmNext]_vars => IsReady(j)'
  <1> USE WorkerInstance
      DEF SafeInv, TypeInv, TypeOK, InHand, Good, Move
  <1>1. InHand(w, j, "handling") => worker'[w] # "handling"
    BY DEF GoOn, Malformed, HandlerOk, HandlerFails, Ack, Nack, Reject, WorkerExits
  <1>2. InHand(w, j, "nacking") => worker'[w] # "nacking"
    BY DEF GoOn, Malformed, HandlerOk, HandlerFails, Ack, Nack, Reject, WorkerExits
  <1> QED
    BY <1>1, <1>2, InHandStep

LEMMA SuccessStep == ASSUME NEW j \in Job, Success(j) PROVE Done(j)'
  BY DEF Success, HandlerOk, Done

(* A worker with a connection comes to the end of what it does. *)
Tail(w) == worker[w] \in {"acking", "nacking", "rejecting"}

LEMMA WorkerMoves ==
  ASSUME SafeInv, [CalmNext]_vars, NEW w \in Worker, Connected(InstanceOf(w))
  PROVE  /\ worker[w] = "handling" => (worker[w] = "handling")' \/ Tail(w)'
         /\ worker[w] = "handling" /\ GoOn(w) => Tail(w)'
         /\ Tail(w) => Tail(w)' \/ (worker[w] = "idle")'
         /\ Tail(w) /\ GoOn(w) => (worker[w] = "idle")'
  <1> USE WorkerInstance
      DEF SafeInv, TypeInv, TypeOK, Tail, Move, Connected
  <1>1. ASSUME NEW v \in Worker, v # w, WorkerStep(v)
        PROVE  worker'[w] = worker[w]
    BY <1>1 DEF WorkerStep, Take, Malformed, HandlerOk, HandlerFails, Ack, Nack, Reject,
           WorkerExits
  <1>2. WorkerStep(w) =>
          /\ worker[w] = "handling" => worker'[w] \in {"acking", "nacking", "rejecting"}
          /\ Tail(w) => worker'[w] = "idle"
    BY DEF WorkerStep, Take, Malformed, HandlerOk, HandlerFails, Ack, Nack, Reject,
           WorkerExits
  <1>3. ASSUME NEW i \in Instance, LoseConnection(i) \/ Die(i), NoLoss
        PROVE  FALSE
    BY <1>3, BoundAssumption DEF LoseConnection, Die, NoLoss
  <1>4. ASSUME NEW i \in Instance, NEW k \in Job,
               Publish(i, k) \/ PublishFails(i, k) \/ Deliver(i, k)
        PROVE  UNCHANGED worker
    BY <1>4 DEF Publish, PublishFails, Deliver, workerVars
  <1>5. ASSUME NEW i \in Instance, Start(i)
        PROVE  worker'[w] = worker[w]
    BY <1>5 DEF Start
  <1>6. ASSUME NEW k \in Job, Store(k)
        PROVE  UNCHANGED worker
    BY <1>6 DEF Store, workerVars
  <1>7. WorkerStep(w) \/ worker'[w] = worker[w]
    BY <1>1, <1>3, <1>4, <1>5, <1>6 DEF CalmNext, Next, ConnectionStep, vars, workerVars
  <1>8. GoOn(w) => WorkerStep(w)
    BY DEF GoOn, WorkerStep
  <1> QED
    BY <1>2, <1>7, <1>8

(* Whatever its handlers do, a worker with a connection is idle again and  *)
(* again.                                                                  *)
IsIdleAgain(w) == [](Connected(InstanceOf(w)) => []<>(worker[w] = "idle"))

LEMMA WorkerIdles ==
  ASSUME NEW w \in Worker
  PROVE  []SafeInv /\ [][CalmNext]_vars /\ GuardedFairness => IsIdleAgain(w)
  <1>1. AllServed => WorkerGoesOn(w)
    BY DEF AllServed
  <1>2. SafeInv /\ [CalmNext]_vars /\ Connected(InstanceOf(w)) =>
          /\ Connected(InstanceOf(w))'
          /\ worker[w] = "handling" => (worker[w] = "handling")' \/ Tail(w)'
          /\ worker[w] = "handling" /\ GoOn(w) => Tail(w)'
          /\ Tail(w) => Tail(w)' \/ (worker[w] = "idle")'
          /\ Tail(w) /\ GoOn(w) => (worker[w] = "idle")'
    BY WorkerMoves, CalmKeeps, WorkerInstance DEF SafeInv
  <1>3. SafeInv /\ Connected(InstanceOf(w))
          => worker[w] = "handling" \/ Tail(w) \/ worker[w] = "idle"
    BY DEF SafeInv, TypeInv, TypeOK, PlaceInv, WorkersStay, Tail
  <1>4. worker[w] = "handling" \/ Tail(w) => Busy(w)
    BY DEF Tail, Busy
  <1> QED
    BY <1>1, <1>2, <1>3, <1>4, PTL DEF GuardedFairness, WorkerGoesOn, IsIdleAgain

(* A job that is ready is delivered, to whom the broker likes. *)
IsDelivered(j) == IsReady(j) ~> IsBuffered(j)

LEMMA ReadyDelivered ==
  ASSUME NEW i \in Instance, NEW j \in Good
  PROVE  []SafeInv /\ [][CalmNext]_vars /\ []Connected(i) /\ GuardedFairness
           => IsDelivered(j)
  <1>1. AllServed => JobServed(j)
    BY DEF AllServed
  <1>2. IsReady(j) /\ Connected(i) => CanDeliver(j)
    BY DEF IsReady, CanDeliver
  <1>3. SafeInv /\ [CalmNext]_vars /\ IsReady(j) => IsReady(j)' \/ IsBuffered(j)'
    BY ReadyStep
  <1>4. SafeInv /\ Delivery(j) => IsBuffered(j)'
    BY DeliveryStep
  <1> QED
    BY <1>1, <1>2, <1>3, <1>4, PTL DEF GuardedFairness, JobServed, IsDelivered

IsTaken(i, j) == Buffered(i, j) ~> IsInHand(j, "handling")

(* A job in a buffer is taken: an idle worker finds it there again and     *)
(* again.                                                                  *)
LEMMA BufferedTaken ==
  ASSUME Concurrency > 0, NEW i \in Instance, NEW j \in Good
  PROVE  []SafeInv /\ [][CalmNext]_vars /\ GuardedFairness => IsTaken(i, j)
  <1> DEFINE w == <<i, 1>>
  <1>1. w \in Worker /\ InstanceOf(w) = i
    BY ConcurrencyAssumption DEF Worker, InstanceOf
  <1> HIDE DEF w
  <1>2. []SafeInv /\ [][CalmNext]_vars /\ GuardedFairness => IsIdleAgain(w)
    BY <1>1, WorkerIdles
  <1>3. AllServed => JobServed(j)
    BY DEF AllServed
  <1>4. Buffered(i, j) => Connected(InstanceOf(w))
    BY <1>1 DEF Buffered
  <1>5. Buffered(i, j) /\ worker[w] = "idle" => CanTake(j)
    BY <1>1 DEF Buffered, CanTake
  <1>6. SafeInv /\ [CalmNext]_vars /\ Buffered(i, j)
          => Buffered(i, j)' \/ IsInHand(j, "handling")'
    BY BufferedStep
  <1>7. SafeInv /\ Buffered(i, j) /\ Taking(j) => IsInHand(j, "handling")'
    BY TakingStep
  <1> QED
    BY <1>2, <1>3, <1>4, <1>5, <1>6, <1>7, PTL DEF GuardedFairness, JobServed, IsTaken,
       IsIdleAgain

(* A handler returns, *)
IsTried(w, j) == InHand(w, j, "handling") ~> (IsInHand(j, "nacking") \/ Done(j))

LEMMA HandlingEnds ==
  ASSUME NEW w \in Worker, NEW j \in Good
  PROVE  []SafeInv /\ [][CalmNext]_vars /\ GuardedFairness => IsTried(w, j)
  <1>1. AllServed => WorkerGoesOn(w)
    BY DEF AllServed
  <1>2. InHand(w, j, "handling") => Busy(w)
    BY DEF InHand, Busy
  <1>3. InHand(w, j, "nacking") => IsInHand(j, "nacking")
    BY DEF IsInHand
  <1>4. SafeInv /\ [CalmNext]_vars /\ InHand(w, j, "handling")
          => InHand(w, j, "handling")' \/ InHand(w, j, "nacking")' \/ Done(j)'
    BY InHandStep
  <1>5. SafeInv /\ [CalmNext]_vars /\ GoOn(w) /\ InHand(w, j, "handling")
          => InHand(w, j, "nacking")' \/ Done(j)'
    BY HandStep
  <1> QED
    BY <1>1, <1>2, <1>3, <1>4, <1>5, PTL DEF GuardedFairness, WorkerGoesOn, IsTried

(* and what has failed goes back to the queue. *)
IsReturned(w, j) == InHand(w, j, "nacking") ~> IsReady(j)

LEMMA NackingEnds ==
  ASSUME NEW w \in Worker, NEW j \in Good
  PROVE  []SafeInv /\ [][CalmNext]_vars /\ GuardedFairness => IsReturned(w, j)
  <1>1. AllServed => WorkerGoesOn(w)
    BY DEF AllServed
  <1>2. InHand(w, j, "nacking") => Busy(w)
    BY DEF InHand, Busy
  <1>3. SafeInv /\ [CalmNext]_vars /\ InHand(w, j, "nacking")
          => InHand(w, j, "nacking")' \/ IsReady(j)'
    BY InHandStep
  <1>4. SafeInv /\ [CalmNext]_vars /\ GoOn(w) /\ InHand(w, j, "nacking") => IsReady(j)'
    BY HandStep
  <1> QED
    BY <1>1, <1>2, <1>3, <1>4, PTL DEF GuardedFairness, WorkerGoesOn, IsReturned

(* The same of a job, whoever has it. *)
IsMoved(j) ==
  /\ IsBuffered(j) ~> IsInHand(j, "handling")
  /\ IsInHand(j, "handling") ~> (IsInHand(j, "nacking") \/ Done(j))
  /\ IsInHand(j, "nacking") ~> IsReady(j)

LEMMA JobMoves ==
  ASSUME Concurrency > 0, NEW j \in Good
  PROVE  []SafeInv /\ [][CalmNext]_vars /\ GuardedFairness => IsMoved(j)
  <1> SUFFICES ASSUME []SafeInv, [][CalmNext]_vars, []AllServed
               PROVE  /\ [](IsBuffered(j) => <>IsInHand(j, "handling"))
                      /\ [](IsInHand(j, "handling") => <>(IsInHand(j, "nacking") \/ Done(j)))
                      /\ [](IsInHand(j, "nacking") => <>IsReady(j))
    BY PTL DEF GuardedFairness, IsMoved
  <1>1. ASSUME NEW i \in Instance
        PROVE  Buffered(i, j) => <>IsInHand(j, "handling")
    <2>1. []SafeInv /\ [][CalmNext]_vars /\ GuardedFairness => IsTaken(i, j)
      BY BufferedTaken
    <2> QED
      BY <2>1, PTL DEF GuardedFairness, IsTaken
  <1>2. ASSUME NEW w \in Worker
        PROVE  InHand(w, j, "handling") => <>(IsInHand(j, "nacking") \/ Done(j))
    <2>1. []SafeInv /\ [][CalmNext]_vars /\ GuardedFairness => IsTried(w, j)
      BY HandlingEnds
    <2> QED
      BY <2>1, PTL DEF GuardedFairness, IsTried
  <1>3. ASSUME NEW w \in Worker
        PROVE  InHand(w, j, "nacking") => <>IsReady(j)
    <2>1. []SafeInv /\ [][CalmNext]_vars /\ GuardedFairness => IsReturned(w, j)
      BY NackingEnds
    <2> QED
      BY <2>1, PTL DEF GuardedFairness, IsReturned
  <1>4. IsBuffered(j) => <>IsInHand(j, "handling")
    BY <1>1 DEF IsBuffered
  <1>5. IsInHand(j, "handling") => <>(IsInHand(j, "nacking") \/ Done(j))
    BY <1>2 DEF IsInHand
  <1>6. IsInHand(j, "nacking") => <>IsReady(j)
    BY <1>3 DEF IsInHand
  <1> QED
    BY <1>4, <1>5, <1>6, PTL

(* The job is in the store of the broker. *)
InStore(j) == broker[j] \in {"ready", "unacked"}

(* Whatever is lost, a job stays in the store until it is handled. *)
LEMMA StaysInStore ==
  ASSUME SafeInv, [Next]_vars, NEW j \in Good, InStore(j)
  PROVE  InStore(j)' \/ Done(j)'
  <1> USE DEF SafeInv, TypeInv
  <1>1. HandledBeforeGone' /\ TypeOK'
    BY SafeStep, TypeStep DEF IInv
  <1>2. broker'[j] \in {"ready", "unacked", "gone"}
    <2> USE DEF TypeOK, InStore, Good, brokerVars
    <2>1. ASSUME NEW i \in Instance, NEW k \in Job,
                 Publish(i, k) \/ PublishFails(i, k) \/ Deliver(i, k)
          PROVE  broker'[j] \in {"ready", "unacked", "gone"}
      BY <2>1 DEF Publish, PublishFails, Deliver
    <2>2. ASSUME NEW i \in Instance, LoseConnection(i) \/ Die(i) \/ Start(i)
          PROVE  broker'[j] \in {"ready", "unacked", "gone"}
      BY <2>2 DEF LoseConnection, Die, Start, Requeue
    <2>3. ASSUME NEW k \in Job, Store(k)
          PROVE  broker'[j] \in {"ready", "unacked", "gone"}
      BY <2>3 DEF Store
    <2>4. ASSUME NEW w \in Worker, WorkerStep(w)
          PROVE  broker'[j] \in {"ready", "unacked", "gone"}
      BY <2>4 DEF WorkerStep, Take, Malformed, HandlerOk, HandlerFails, Ack, Nack, Reject,
             WorkerExits, Tell
    <2>5. CASE UNCHANGED vars
      BY <2>5 DEF vars
    <2> HIDE DEF TypeOK, InStore, Good
    <2> QED
      BY <2>1, <2>2, <2>3, <2>4, <2>5 DEF Next, ConnectionStep
  <1>3. broker'[j] = "gone" => j \in handled'
    BY <1>1 DEF HandledBeforeGone, Good
  <1> QED
    BY <1>2, <1>3 DEF InStore, Done

IsHandled(j) == [](InStore(j) => <>Done(j))

(* In calm, a good job in the store is handled: it comes to a handler      *)
(* again and again, and one time the handler succeeds.                     *)
LEMMA HandledInCalm ==
  ASSUME Concurrency > 0, NEW i \in Instance, NEW j \in Good
  PROVE  []SafeInv /\ [][CalmNext]_vars /\ []Connected(i) /\ GuardedFairness => IsHandled(j)
  <1>1. []SafeInv /\ [][CalmNext]_vars /\ GuardedFairness => IsMoved(j)
    BY JobMoves
  <1>2. []SafeInv /\ [][CalmNext]_vars /\ []Connected(i) /\ GuardedFairness => IsDelivered(j)
    BY ReadyDelivered
  <1>3. AllServed => JobServed(j)
    BY DEF AllServed
  <1>4. IsInHand(j, "handling") => CanHandle(j)
    BY DEF IsInHand, InHand, CanHandle
  <1>5. Success(j) => Done(j)'
    BY SuccessStep DEF Good
  <1>6. SafeInv /\ InStore(j) => \/ IsReady(j) \/ IsBuffered(j)
                                 \/ IsInHand(j, "handling") \/ IsInHand(j, "nacking")
                                 \/ Done(j)
    <2> SUFFICES ASSUME SafeInv, broker[j] = "unacked"
                 PROVE  \/ IsBuffered(j) \/ IsInHand(j, "handling") \/ IsInHand(j, "nacking")
                        \/ Done(j)
      BY DEF InStore, IsReady
    <2>1. j \in Job /\ via[j] \in Instance /\ Connected(via[j])
      BY DEF SafeInv, IInv, OnConnection, Good
    <2>2. CASE j \in buffer[via[j]]
      BY <2>1, <2>2 DEF IsBuffered, Buffered
    <2>3. ASSUME NEW w \in Worker, InstanceOf(w) = via[j], HasInHand(w, j)
          PROVE  IsInHand(j, "handling") \/ IsInHand(j, "nacking") \/ Done(j)
      <3>1. worker[w] \in {"handling", "acking", "nacking", "rejecting"} /\ job[w] = j
        BY <2>3 DEF HasInHand, Busy, SafeInv, TypeInv, TypeOK
      <3>2. worker[w] = "acking" => Done(j)
        BY <2>3, <3>1 DEF HasInHand, SafeInv, IInv, HeldStored, Done
      <3>3. worker[w] # "rejecting"
        BY <2>3, <3>1 DEF HasInHand, SafeInv, IInv, HeldStored, Good
      <3> QED
        BY <2>1, <2>3, <3>1, <3>2, <3>3 DEF IsInHand, InHand
    <2> QED
      BY <2>1, <2>2, <2>3 DEF SafeInv, PlaceInv, NoJobForgotten
  <1>7. SafeInv /\ [CalmNext]_vars /\ InStore(j) => InStore(j)' \/ Done(j)'
    BY StaysInStore DEF CalmNext
  <1> QED
    BY <1>1, <1>2, <1>3, <1>4, <1>5, <1>6, <1>7, PTL
       DEF GuardedFairness, IsMoved, IsDelivered, JobServed, IsHandled

HandledIfStable(i, j) == <>[]Connected(i) => (InStore(j) ~> Done(j))

(* The store keeps a job while connections are lost; once they are lost no *)
(* more, it is handled.                                                    *)
LEMMA StableHandled ==
  ASSUME Concurrency > 0, NEW i \in Instance, NEW j \in Good
  PROVE  Spec /\ GuardedFairness /\ LossesEnd => HandledIfStable(i, j)
  <1>1. []SafeInv /\ [][CalmNext]_vars /\ []Connected(i) /\ GuardedFairness => IsHandled(j)
    BY HandledInCalm
  <1>2. [Next]_vars /\ [NoLoss]_vars => [CalmNext]_vars
    BY DEF CalmNext
  <1>3. SafeInv /\ [Next]_vars /\ InStore(j) => InStore(j)' \/ Done(j)'
    BY StaysInStore
  <1> QED
    BY <1>1, <1>2, <1>3, Typing, Safety, Placing, PTL
       DEF Spec, SafeInv, GuardedFairness, LossesEnd, Calm, IsHandled, HandledIfStable

FewerLosses(n) == \E m \in Nat : m < n /\ LossesLeft(m)
SomeLossesLeft == \E n \in Nat : LossesLeft(n)
LossesGoOn(n) == LossesLeft(n) ~> (Calm \/ FewerLosses(n))
LossesGo == (\A n \in Nat : LossesGoOn(n)) => (SomeLossesLeft ~> Calm)

(* A step loses no connection, or it leaves fewer to lose.                 *)
LEMMA LossesStep ==
  ASSUME TypeInv, TypeInv', [Next]_vars, NEW n \in Nat, LossesLeft(n)
  PROVE  (LossesLeft(n)' /\ [NoLoss]_vars) \/ FewerLosses(n)'
  <1>1. losses \in 0..MaxLosses /\ losses' \in 0..MaxLosses /\ MaxLosses \in Nat
    BY BoundAssumption DEF TypeInv, TypeOK
  <1>2. losses' = losses \/ losses' = losses + 1
    BY DEF Next, ConnectionStep, WorkerStep, Publish, PublishFails, Deliver, Store, LoseConnection,
      Die, Start, Take, Malformed, HandlerOk, HandlerFails, Ack, Nack, Reject, WorkerExits, vars
  <1>3. CASE losses' = losses
    BY <1>3 DEF LossesLeft, NoLoss
  <1>4. CASE losses' = losses + 1
    <2>1. n - 1 \in Nat /\ n - 1 < n /\ LossesLeft(n - 1)'
      BY <1>1, <1>4 DEF LossesLeft
    <2> QED
      BY <2>1 DEF FewerLosses
  <1> QED
    BY <1>2, <1>3, <1>4

(* So connections are lost for the last time.                              *)
LEMMA LossesStop == Spec /\ LossesRunOut => LossesEnd
  <1>1. ASSUME NEW n \in Nat
        PROVE  []TypeInv /\ [][Next]_vars => LossesGoOn(n)
    <2>1. TypeInv /\ TypeInv' /\ [Next]_vars /\ LossesLeft(n)
            => (LossesLeft(n)' /\ [NoLoss]_vars) \/ FewerLosses(n)'
      BY LossesStep
    <2> QED
      BY <2>1, PTL DEF LossesGoOn, Calm
  <1>2. []TypeInv /\ [][Next]_vars => \A n \in Nat : LossesGoOn(n)
    BY <1>1
  <1>3. LossesRunOut => LossesGo
    BY DEF LossesRunOut, LossesGo, Descends, LossesGoOn, SomeLossesLeft, FewerLosses
  <1>4. LossesGo /\ (\A n \in Nat : LossesGoOn(n)) => (SomeLossesLeft ~> Calm)
    BY DEF LossesGo
  <1>5. TypeInv => SomeLossesLeft
    <2> SUFFICES ASSUME TypeInv PROVE SomeLossesLeft
      OBVIOUS
    <2>1. MaxLosses - losses \in Nat
      BY BoundAssumption DEF TypeInv, TypeOK
    <2> QED
      BY <2>1 DEF SomeLossesLeft, LossesLeft
  <1> QED
    BY <1>2, <1>3, <1>4, <1>5, Typing, PTL DEF Spec, LossesEnd

HandledIfReady(i, j) == <>[]Connected(i) => (broker[j] = "ready" ~> j \in handled)

(* While some instance stays connected, every stored job is handled in the *)
(* end, however many connections are lost and however often its handler    *)
(* fails before, provided that instances have workers.                     *)
THEOREM StoredJobsHandled ==
  ASSUME Concurrency > 0
  PROVE  Spec /\ GuardedFairness /\ LossesRunOut => StoredHandled
  <1>1. ASSUME NEW i \in Instance, NEW j \in Good
        PROVE  Spec /\ GuardedFairness /\ LossesRunOut => HandledIfReady(i, j)
    <2>1. /\ broker[j] = "ready" => InStore(j)
          /\ Done(j) <=> j \in handled
      BY DEF InStore, Done
    <2> QED
      BY <2>1, StableHandled, LossesStop, PTL DEF HandledIfStable, HandledIfReady
  <1>2. Spec /\ GuardedFairness /\ LossesRunOut
          => \A i \in Instance, j \in Good : HandledIfReady(i, j)
    BY <1>1
  <1> QED
    BY <1>2 DEF StoredHandled, HandledIfReady
=============================================================================
