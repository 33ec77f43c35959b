------------------------------ MODULE Queue ------------------------------
(***************************************************************************)
(* The job queue of internal/core/queue/queue.go and its workers, as       *)
(* internal/server.go wires them, with RabbitMQ as an external component.  *)
(*                                                                         *)
(* Every instance of the server owns one connection with one channel, on   *)
(* which it publishes welcome-email jobs and consumes them with            *)
(* Concurrency workers.  There is no reconnection: an instance that has    *)
(* lost its connection keeps running without a queue until it is           *)
(* restarted.                                                              *)
(*                                                                         *)
(* The handler is what ConsumeWelcomeEmails is given: it may return an     *)
(* error, as its signature says, although the stub of workers/ that the    *)
(* template ships never does.                                              *)
(***************************************************************************)
EXTENDS Integers, FiniteSets

CONSTANTS
  Instance,     \* the running copies of the server
  Concurrency,  \* workers per instance
  Job,          \* the jobs that are published, one per registered user
  Bad,          \* jobs whose body is not valid JSON (another publisher's)
  Poison,       \* jobs on which the handler always fails
  None,         \* no job, no instance
  MaxLosses     \* bound: how many connections are lost or processes die

ASSUME ConcurrencyAssumption == Concurrency \in Nat
ASSUME JobAssumption == Bad \subseteq Job /\ Poison \subseteq Job \ Bad
ASSUME NoneAssumption == None \notin Job /\ None \notin Instance
ASSUME BoundAssumption == MaxLosses \in Nat

Worker == Instance \X (1..Concurrency)
InstanceOf(w) == w[1]

VARIABLES
  broker,    \* where the broker has a job: new (not published), failed (never
             \* sent), wire (sent, not stored), lost, ready, unacked, gone
  via,       \* whose connection a job is on while on the wire or unacked
  conn,      \* an instance's connection: open, closed, or down with its process
  buffer,    \* deliveries in an instance's `msgs' channel
  worker,    \* where a worker is: idle, handling, acking, nacking, rejecting, exited
  job,       \* the job of a worker's delivery
  handled,   \* history: the jobs a handler has succeeded on
  losses     \* how many connections were lost so far

brokerVars  == <<broker, via>>
clientVars  == <<conn, buffer>>
workerVars  == <<worker, job>>
vars == <<brokerVars, clientVars, workerVars, handled, losses>>

Good == Job \ (Bad \cup Poison)
Busy(w) == worker[w] \notin {"idle", "exited"}
Connected(i) == conn[i] = "open"

Init ==
  /\ broker = [j \in Job |-> "new"]
  /\ via = [j \in Job |-> None]
  /\ conn = [i \in Instance |-> "open"]
  /\ buffer = [i \in Instance |-> {}]
  /\ worker = [w \in Worker |-> "idle"]
  /\ job = [w \in Worker |-> None]
  /\ handled = {}
  /\ losses = 0

-----------------------------------------------------------------------------
(* Publish, from the listener of auth.user.registered.                     *)

(* The frame is written to the socket; without publisher confirms Publish  *)
(* returns nil here.                                                       *)
Publish(i, j) ==
  /\ broker[j] = "new"
  /\ Connected(i)
  /\ broker' = [broker EXCEPT ![j] = "wire"]
  /\ via' = [via EXCEPT ![j] = i]
  /\ UNCHANGED <<clientVars, workerVars, handled, losses>>

(* On a closed channel Publish returns an error, which is logged. *)
PublishFails(i, j) ==
  /\ broker[j] = "new"
  /\ conn[i] = "closed"
  /\ broker' = [broker EXCEPT ![j] = "failed"]
  /\ UNCHANGED <<via, clientVars, workerVars, handled, losses>>

-----------------------------------------------------------------------------
(* The broker.                                                             *)

(* The persistent message is written to the durable queue. *)
Store(j) ==
  /\ broker[j] = "wire"
  /\ broker' = [broker EXCEPT ![j] = "ready"]
  /\ via' = [via EXCEPT ![j] = None]
  /\ UNCHANGED <<clientVars, workerVars, handled, losses>>

(* Mutant: consumed with autoAck, the broker forgets what it delivers. *)
DeliverAutoAck(i, j) ==
  /\ broker[j] = "ready"
  /\ Connected(i)
  /\ broker' = [broker EXCEPT ![j] = "gone"]
  /\ buffer' = [buffer EXCEPT ![i] = @ \cup {j}]
  /\ UNCHANGED <<via, conn, workerVars, handled, losses>>

(* A delivery to a consumer; no Qos is set, so nothing limits how many. *)
Deliver(i, j) ==
  /\ broker[j] = "ready"
  /\ Connected(i)
  /\ broker' = [broker EXCEPT ![j] = "unacked"]
  /\ via' = [via EXCEPT ![j] = i]
  /\ buffer' = [buffer EXCEPT ![i] = @ \cup {j}]
  /\ UNCHANGED <<conn, workerVars, handled, losses>>

(* What becomes of the jobs on a connection that ends: the deliveries are  *)
(* requeued, what was not stored is lost.                                  *)
Requeue(i) ==
  /\ broker' = [j \in Job |->
       IF via[j] # i THEN broker[j]
       ELSE IF broker[j] = "wire" THEN "lost" ELSE "ready"]
  /\ via' = [j \in Job |-> IF via[j] = i THEN None ELSE via[j]]

-----------------------------------------------------------------------------
(* The workers: the loop of ConsumeWelcomeEmails and processWithRetry.     *)

Move(w, from, to) ==
  /\ worker[w] = from
  /\ worker' = [worker EXCEPT ![w] = to]

(* Mutant: the delivery stays in the buffer while it is handled. *)
TakeCopy(w, j) ==
  /\ Move(w, "idle", "handling")
  /\ j \in buffer[InstanceOf(w)]
  /\ job' = [job EXCEPT ![w] = j]
  /\ UNCHANGED <<brokerVars, buffer, conn, handled, losses>>

(* case msg, ok := <-msgs *)
Take(w, j) ==
  /\ Move(w, "idle", "handling")
  /\ j \in buffer[InstanceOf(w)]
  /\ buffer' = [buffer EXCEPT ![InstanceOf(w)] = @ \ {j}]
  /\ job' = [job EXCEPT ![w] = j]
  /\ UNCHANGED <<brokerVars, conn, handled, losses>>

(* json.Unmarshal fails. *)
Malformed(w) ==
  /\ job[w] \in Bad
  /\ Move(w, "handling", "rejecting")
  /\ UNCHANGED <<brokerVars, clientVars, job, handled, losses>>

(* The handler returns nil. *)
HandlerOk(w) ==
  /\ job[w] \notin Bad \cup Poison
  /\ Move(w, "handling", "acking")
  /\ handled' = handled \cup {job[w]}
  /\ UNCHANGED <<brokerVars, clientVars, job, losses>>

(* The handler returns an error. *)
HandlerFails(w) ==
  /\ job[w] \notin Bad
  /\ Move(w, "handling", "nacking")
  /\ UNCHANGED <<brokerVars, clientVars, job, handled, losses>>

(* Ack and Nack tell the broker what to do with the delivery.  On a        *)
(* connection that has ended they return an error nobody looks at.         *)
Tell(w, place) ==
  IF Connected(InstanceOf(w))
    THEN /\ broker' = [broker EXCEPT ![job[w]] = place]
         /\ via' = [via EXCEPT ![job[w]] = None]
    ELSE UNCHANGED brokerVars

(* msg.Ack(false) *)
Ack(w) ==
  /\ Move(w, "acking", "idle")
  /\ Tell(w, "gone")
  /\ job' = [job EXCEPT ![w] = None]
  /\ UNCHANGED <<clientVars, handled, losses>>

(* Mutant: the arguments of msg.Nack are swapped, and the job is dropped. *)
NackDrops(w) ==
  /\ Move(w, "nacking", "idle")
  /\ Tell(w, "gone")
  /\ job' = [job EXCEPT ![w] = None]
  /\ UNCHANGED <<clientVars, handled, losses>>

(* Mutant: nothing is said of a job that failed. *)
NackForgotten(w) ==
  /\ Move(w, "nacking", "idle")
  /\ job' = [job EXCEPT ![w] = None]
  /\ UNCHANGED <<brokerVars, clientVars, handled, losses>>

(* msg.Nack(false, true): back to the queue, at once and without backoff. *)
Nack(w) ==
  /\ Move(w, "nacking", "idle")
  /\ Tell(w, "ready")
  /\ job' = [job EXCEPT ![w] = None]
  /\ UNCHANGED <<clientVars, handled, losses>>

(* msg.Nack(false, false): dropped. *)
Reject(w) ==
  /\ Move(w, "rejecting", "idle")
  /\ Tell(w, "gone")
  /\ job' = [job EXCEPT ![w] = None]
  /\ UNCHANGED <<clientVars, handled, losses>>

(* Mutant: `ok' is not looked at, and the zero delivery of a closed channel *)
(* is handled like a job.                                                  *)
WorkerTakesNothing(w) ==
  /\ ~Connected(InstanceOf(w))
  /\ Move(w, "idle", "handling")
  /\ UNCHANGED <<brokerVars, clientVars, job, handled, losses>>

(* The delivery channel has been closed with the connection. *)
WorkerExits(w) ==
  /\ ~Connected(InstanceOf(w))
  /\ Move(w, "idle", "exited")
  /\ UNCHANGED <<brokerVars, clientVars, job, handled, losses>>

-----------------------------------------------------------------------------
(* Failures.                                                               *)

(* The network or the broker drops the connection, or Shutdown closes it   *)
(* while workers run.  The client drops the deliveries it has buffered; a  *)
(* handler that runs goes on with its job in hand.                         *)
LoseConnection(i) ==
  /\ Connected(i)
  /\ losses < MaxLosses
  /\ losses' = losses + 1
  /\ conn' = [conn EXCEPT ![i] = "closed"]
  /\ buffer' = [buffer EXCEPT ![i] = {}]
  /\ Requeue(i)
  /\ UNCHANGED <<workerVars, handled>>

(* The process ends: its workers are gone whatever they were doing. *)
Die(i) ==
  /\ conn[i] # "down"
  /\ losses < MaxLosses
  /\ losses' = losses + 1
  /\ conn' = [conn EXCEPT ![i] = "down"]
  /\ buffer' = [buffer EXCEPT ![i] = {}]
  /\ worker' = [w \in Worker |-> IF InstanceOf(w) = i THEN "exited" ELSE worker[w]]
  /\ job' = [w \in Worker |-> IF InstanceOf(w) = i THEN None ELSE job[w]]
  /\ Requeue(i)
  /\ UNCHANGED handled

(* New and ConsumeWelcomeEmails in a process that starts. *)
Start(i) ==
  /\ conn[i] = "down"
  /\ conn' = [conn EXCEPT ![i] = "open"]
  /\ worker' = [w \in Worker |-> IF InstanceOf(w) = i THEN "idle" ELSE worker[w]]
  /\ UNCHANGED <<brokerVars, buffer, job, handled, losses>>

-----------------------------------------------------------------------------
WorkerStep(w) ==
  \/ \E j \in Job : Take(w, j)
  \/ Malformed(w) \/ HandlerOk(w) \/ HandlerFails(w)
  \/ Ack(w) \/ Nack(w) \/ Reject(w)
  \/ WorkerExits(w)

ConnectionStep(i) ==
  \/ \E j \in Job : Publish(i, j) \/ PublishFails(i, j) \/ Deliver(i, j)
  \/ LoseConnection(i) \/ Die(i) \/ Start(i)

Next ==
  \/ \E i \in Instance : ConnectionStep(i)
  \/ \E j \in Job : Store(j)
  \/ \E w \in Worker : WorkerStep(w)

Spec == Init /\ [][Next]_vars

(* The broker delivers its oldest message first and the client's buffer is *)
(* first in, first out, so no job is passed over for ever; a handler       *)
(* returns; a worker goes on.  A job outside Poison that is tried again    *)
(* and again succeeds in the end.                                          *)
Fairness ==
  /\ \A j \in Good :
       /\ SF_vars(\E i \in Instance : Deliver(i, j))
       /\ SF_vars(\E w \in Worker : Take(w, j))
       /\ SF_vars(\E w \in Worker : job[w] = j /\ HandlerOk(w))
  /\ \A w \in Worker :
       WF_vars(Malformed(w) \/ HandlerOk(w) \/ HandlerFails(w)
                 \/ Ack(w) \/ Nack(w) \/ Reject(w) \/ WorkerExits(w))

FairSpec == Spec /\ Fairness

-----------------------------------------------------------------------------
(* Properties.                                                             *)

(* Every variable has the type its declaration promises. *)
TypeOK ==
  /\ broker \in [Job -> {"new", "failed", "wire", "lost", "ready", "unacked", "gone"}]
  /\ via \in [Job -> Instance \cup {None}]
  /\ conn \in [Instance -> {"open", "closed", "down"}]
  /\ buffer \in [Instance -> SUBSET Job]
  /\ worker \in [Worker -> {"idle", "handling", "acking", "nacking", "rejecting",
                            "exited"}]
  /\ job \in [Worker -> Job \cup {None}]
  /\ handled \subseteq Job
  /\ losses \in 0..MaxLosses

(* The broker forgets a job only after a handler has succeeded on it, or   *)
(* because it is not a job: no crash, lost connection or failed handler    *)
(* between delivery and acknowledgement loses a stored job.                *)
HandledBeforeGone ==
  \A j \in Job : broker[j] = "gone" => j \in handled \cup Bad

(* Two workers have the same job in hand only when one of them is cut off  *)
(* from the broker; among connected workers a job has one holder, so that  *)
(* an acknowledgement settles the delivery it is about.                    *)
OneHolder ==
  \A w, v \in Worker :
    (w # v /\ Busy(w) /\ Busy(v) /\ job[w] = job[v])
      => ~(Connected(InstanceOf(w)) /\ Connected(InstanceOf(v)))

(* The broker, its consumers and their failures implement at-least-once    *)
(* processing.                                                             *)
StoredJobs == {j \in Job : broker[j] \in {"ready", "unacked"}}
GoneJobs == {j \in Job : broker[j] = "gone"}

Abstract == INSTANCE JobStore WITH stored <- StoredJobs, left <- GoneJobs

ImplementsJobStore == Abstract!Spec

(* While some instance stays connected, every stored job is handled in the *)
(* end, although one that always fails is requeued for ever beside it.     *)
StoredHandled ==
  (\E i \in Instance : <>[]Connected(i)) =>
    \A j \in Good : (broker[j] = "ready") ~> (j \in handled)
=============================================================================
