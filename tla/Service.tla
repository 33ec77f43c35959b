------------------------------ MODULE Service ------------------------------
(***************************************************************************)
(* Registering an account end to end: Registration, the Hub and the Queue  *)
(* joined by the bus of internal/core/events.                              *)
(*                                                                         *)
(* Emitting an event runs its listeners in the goroutine of the request,   *)
(* one after the other: for auth.user.registered first the hub's broadcast *)
(* and then the publishing of the welcome email, which in turn emits       *)
(* queue.job.enqueued to the hub.  So a step of Registration that emits an *)
(* event lasts as long as the broadcast it waits for, whose steps are      *)
(* interleaved with everything else.                                       *)
(*                                                                         *)
(* One process serves the requests and its browsers and consumes its own   *)
(* jobs.  It may lose its connection to the broker, and does not die here. *)
(***************************************************************************)
EXTENDS Integers, Sequences, FiniteSets

CONSTANTS
  Request,      \* the requests; each is the emitter and the job of its account
  Email,        \* the emails
  PoolSize,     \* database.pool_size
  Client,       \* the WebSocket connections
  SendCap,      \* capacity of a client's send channel
  Home,         \* the process
  Concurrency,  \* its workers
  MaxLosses,    \* bound: how often its connection to the broker is lost
  None          \* no account, goroutine, job or process

ASSUME PoolSizeAssumption == PoolSize \in Nat \ {0}
ASSUME SendCapAssumption == SendCap \in Nat \ {0}
ASSUME ConcurrencyAssumption == Concurrency \in Nat
ASSUME BoundAssumption == MaxLosses \in Nat
ASSUME NoneAssumption == None \notin Request \cup Client \cup {Home}

VARIABLES
  want, at, row, answer, announced, queued, audit, crashes,  \* Registration
  clients, writer, serve, reader, pump, send, closed, inhand, conn, peer,
  delivered, log, dropped, bcast, round, visit, panicked,    \* Hub
  broker, via, link, buffer, worker, job, handled, losses,   \* Queue, its conn is link
  audience   \* history: the clients in the hub when a request's account was announced

accountVars == <<want, at, row, answer, announced, queued, audit, crashes>>
hubVars == <<clients, writer, serve, reader, pump, send, closed, inhand, conn, peer,
             delivered, log, dropped, bcast, round, visit, panicked>>
queueVars == <<broker, via, link, buffer, worker, job, handled, losses>>
vars == <<accountVars, hubVars, queueVars, audience>>

R == INSTANCE Registration WITH Faults <- TRUE, MaxCrashes <- 0
H == INSTANCE Hub WITH Emitter <- Request, Rounds <- 2
Q == INSTANCE Queue WITH Job <- Request, Bad <- {}, Poison <- {}, Instance <- {Home},
                      conn <- link

Init ==
  /\ R!Init /\ H!Init /\ Q!Init
  /\ audience = [r \in Request |-> {}]

-----------------------------------------------------------------------------
(* The steps of one component that leave the others alone.                 *)

RequestStep(r) ==
  /\ R!CheckStep(r) \/ R!InsertStep(r) \/ R!EmitAuditLog(r) \/ R!Reply(r) \/ R!AuditStep(r)
  /\ UNCHANGED <<hubVars, queueVars, audience>>

HubStep ==
  /\ \E c \in Client :
       \/ H!ServeStep(c) \/ H!ReaderStep(c) \/ H!PumpStep(c) \/ H!PeerLeaves(c)
       \/ \E r \in Request : H!SendTo(r, c)
  /\ UNCHANGED <<accountVars, queueVars, audience>>

QueueStep ==
  /\ \/ \E w \in Q!Worker : Q!WorkerStep(w)
     \/ \E j \in Request : Q!Store(j) \/ Q!Deliver(Home, j)
     \/ Q!LoseConnection(Home)
  /\ UNCHANGED <<accountVars, hubVars, audience>>

-----------------------------------------------------------------------------
(* The listeners of auth.user.registered, in the order of their            *)
(* registration by Setup.                                                  *)

Broadcasting(r, k) == bcast[r] = "sending" /\ round[r] = k
Broadcasted(r, k) == bcast[r] = "idle" /\ round[r] = k

(* The hub's listener is called, *)
BroadcastUser(r) ==
  /\ at[r] = "created"
  /\ Broadcasted(r, 0)
  /\ H!BeginBroadcast(r)
  /\ audience' = [audience EXCEPT ![r] = clients]
  /\ UNCHANGED <<accountVars, queueVars>>

(* and returns; *)
UserAnnounced(r) ==
  /\ Broadcasting(r, 1)
  /\ H!EndBroadcast(r)
  /\ R!AnnounceUser(r)
  /\ UNCHANGED <<queueVars, audience>>

(* Mutant: the queue's listener was registered before the hub's. *)
PublishJobFirst(r) ==
  /\ at[r] = "created"
  /\ Q!Publish(Home, r)
  /\ UNCHANGED <<accountVars, hubVars, audience>>

(* then the queue's listener publishes, *)
PublishJob(r) ==
  /\ at[r] = "announcing"
  /\ Q!Publish(Home, r)
  /\ UNCHANGED <<accountVars, hubVars, audience>>

(* or fails to, and returns; *)
PublishFailed(r) ==
  /\ Q!PublishFails(Home, r)
  /\ UNCHANGED queued /\ R!Enqueue(r)
  /\ H!EmitterStops(r)
  /\ UNCHANGED audience

(* Mutant: the job is announced on its way to the broker. *)
BroadcastJobEarly(r) ==
  /\ at[r] = "announcing"
  /\ Broadcasted(r, 1)
  /\ H!BeginBroadcast(r)
  /\ UNCHANGED <<accountVars, queueVars, audience>>

(* and emits queue.job.enqueued, whose listener is the hub. *)
BroadcastJob(r) ==
  /\ at[r] = "announcing"
  /\ broker[r] # "new"
  /\ Broadcasted(r, 1)
  /\ H!BeginBroadcast(r)
  /\ UNCHANGED <<accountVars, queueVars, audience>>

JobAnnounced(r) ==
  /\ Broadcasting(r, 2)
  /\ H!EndBroadcast(r)
  /\ queued' = queued \cup {r} /\ R!Enqueue(r)
  /\ UNCHANGED <<queueVars, audience>>

EventStep(r) ==
  \/ BroadcastUser(r) \/ UserAnnounced(r)
  \/ PublishJob(r) \/ PublishFailed(r)
  \/ BroadcastJob(r) \/ JobAnnounced(r)

Next ==
  \/ \E r \in Request : RequestStep(r) \/ EventStep(r)
  \/ HubStep
  \/ QueueStep

Spec == Init /\ [][Next]_vars

(* The goroutine of a request goes on once its account is created: a       *)
(* reader that waits for the hub's lock gets it when a writer leaves, so   *)
(* no sequence of writers keeps it out.  Writers that have the lock go on. *)
(* Browsers owe nothing.  The queue is fair as in Queue, and the broker    *)
(* takes what is published to it or the connection fails.                  *)
Fairness ==
  /\ \A r \in Request :
       /\ SF_vars(\/ EventStep(r)
                  \/ (\E c \in Client : H!SendTo(r, c)) /\ HubStep
                  \/ (R!EmitAuditLog(r) \/ R!Reply(r)) /\ RequestStep(r))
       /\ SF_vars((Q!Store(r) \/ Q!Deliver(Home, r)) /\ QueueStep)
       /\ SF_vars((\E w \in Q!Worker : Q!Take(w, r)) /\ QueueStep)
       /\ SF_vars((\E w \in Q!Worker : job[w] = r /\ Q!HandlerOk(w)) /\ QueueStep)
  /\ \A c \in Client : WF_vars((H!Register(c) \/ H!Unregister(c)) /\ HubStep)
  /\ \A w \in Q!Worker : WF_vars((Q!HandlerFails(w) \/ Q!Ack(w) \/ Q!Nack(w)) /\ QueueStep)

FairSpec == Spec /\ Fairness

-----------------------------------------------------------------------------
(* Properties.                                                             *)

(* Every variable has the type its declaration promises. *)
TypeOK == R!TypeOK /\ H!TypeOK /\ Q!TypeOK /\ audience \in [Request -> SUBSET Client]

(* A welcome email, wherever it is, is one for an account that exists, and *)
(* that browsers heard of before.                                          *)
WelcomeHasAccount ==
  \A r \in Request : broker[r] # "new" => row[want[r]] = r /\ r \in announced

(* A browser hears of a job only once it was handed to the broker. *)
JobFrameIsTrue ==
  \A r \in Request : \A c \in Client :
    H!Reached(c, H!FrameOf(r, 2)) => broker[r] \notin {"new", "failed"}

(* Who was connected when an account was announced has been sent the news  *)
(* by the time its client is told 201.                                     *)
CreatedIsKnown ==
  \A r \in Request : answer[r] = "201" =>
    \A c \in audience[r] : H!Reached(c, H!FrameOf(r, 1))

(* Once its account is committed and known to the program, a client is     *)
(* told so, although browsers hang, the connection to the broker is lost   *)
(* and the hub's lock is contended on the way, provided a broker that is   *)
(* connected takes what Publish writes to it (queue.go has no deadline).   *)
CreatedIsAnswered == \A r \in Request : at[r] = "created" ~> answer[r] = "201"

(* While the process keeps its connection to the broker, every account it  *)
(* creates is welcomed, however often the handler of its job fails.        *)
CreatedIsWelcomed ==
  []Q!Connected(Home) => \A r \in Request : at[r] = "created" ~> r \in handled
=============================================================================
