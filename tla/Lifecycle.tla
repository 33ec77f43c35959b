----------------------------- MODULE Lifecycle -----------------------------
(***************************************************************************)
(* The life of one server process: main.go, and Setup, Start and Shutdown  *)
(* of internal/server.go, with the requests and audit goroutines that use  *)
(* what Setup opens and Shutdown closes.                                   *)
(*                                                                         *)
(* The goroutine of main is at main.  It opens the subsystems one after    *)
(* the other, waits for a signal, stops the HTTP server, waits for the     *)
(* requests at most thirty seconds, closes the subsystems and returns;     *)
(* nothing waits for goroutines that still run then.                       *)
(***************************************************************************)
EXTENDS Integers, FiniteSets

CONSTANTS
  Request,   \* the requests, each on a connection of its own
  PoolSize   \* database.pool_size

ASSUME PoolSizeAssumption == PoolSize \in Nat \ {0}

(* The subsystems in the order of Setup, http being the listening server. *)
Subsystem == <<"pool", "redis", "queue", "http">>

VARIABLES
  enabled,   \* the optional parts that config.yaml enables
  main,      \* where the goroutine of main is
  open,      \* the subsystems that are open
  listener,  \* the goroutine of ListenAndServe: starting, running, ended
  signalled, \* whether the channel quit has received something
  late,      \* whether the deadline of the drain has passed
  req,       \* the connection of a request and the goroutine that serves it
  spoiled,   \* requests that found a subsystem closed under them
  audit      \* the audit goroutine of a request

vars == <<enabled, main, open, listener, signalled, late, req, spoiled, audit>>

mainVars == <<enabled, main, open, listener, signalled, late>>

Init ==
  /\ enabled = {}
  /\ main = "config"
  /\ open = {}
  /\ listener = "none"
  /\ signalled = FALSE
  /\ late = FALSE
  /\ req = [r \in Request |-> "none"]
  /\ spoiled = {}
  /\ audit = [r \in Request |-> "none"]

SettingUp == main \in {"config", "database", "redis", "queue", "consumers", "start"}
Gone == main \in {"failed", "killed", "exited"}

Step(from, to) ==
  /\ main = from
  /\ main' = to

-----------------------------------------------------------------------------
(* main and Setup.                                                         *)

(* config.yaml and the environment say what is enabled. *)
LoadConfig ==
  /\ Step("config", "database")
  /\ enabled' \in SUBSET {"redis", "queue", "websocket"}
  /\ UNCHANGED <<open, listener, signalled, late, req, spoiled, audit>>

ConnectDatabase ==
  /\ Step("database", "redis")
  /\ open' = open \cup {"pool"}
  /\ UNCHANGED <<enabled, listener, signalled, late, req, spoiled, audit>>

ConnectRedis ==
  /\ Step("redis", "queue")
  /\ open' = open \cup ({"redis"} \cap enabled)
  /\ UNCHANGED <<enabled, listener, signalled, late, req, spoiled, audit>>

DialQueue ==
  /\ Step("queue", "consumers")
  /\ open' = open \cup ({"queue"} \cap enabled)
  /\ UNCHANGED <<enabled, listener, signalled, late, req, spoiled, audit>>

(* The consumers, if any, the listeners of the bus, the router. *)
FinishSetup ==
  /\ Step("consumers", "start")
  /\ UNCHANGED <<enabled, open, listener, signalled, late, req, spoiled, audit>>

(* What was opened goes with the process: os.Exit, without Shutdown. *)
SetupFails ==
  /\ \/ main \in {"config", "database"}
     \/ main = "redis" /\ "redis" \in enabled
     \/ main \in {"queue", "consumers"} /\ "queue" \in enabled
  /\ main' = "failed"
  /\ open' = {}
  /\ UNCHANGED <<enabled, listener, signalled, late, req, spoiled, audit>>

-----------------------------------------------------------------------------
(* Start: from signal.Notify on, a signal is a message to quit.            *)

Start ==
  /\ Step("start", "waiting")
  /\ listener' = "starting"
  /\ UNCHANGED <<enabled, open, signalled, late, req, spoiled, audit>>

Listen ==
  /\ listener = "starting"
  /\ main = "waiting"
  /\ listener' = "running"
  /\ open' = open \cup {"http"}
  /\ UNCHANGED <<enabled, main, signalled, late, req, spoiled, audit>>

(* The address is taken: the goroutine signals its own process. *)
ListenFails ==
  /\ listener = "starting"
  /\ main = "waiting"
  /\ listener' = "ended"
  /\ signalled' = TRUE
  /\ UNCHANGED <<enabled, main, open, late, req, spoiled, audit>>

(* SIGINT or SIGTERM.  Before Notify it kills the process; one that comes  *)
(* during Shutdown stays in the channel or is dropped.                     *)
Signal ==
  /\ \/ /\ SettingUp
        /\ main' = "killed"
        /\ open' = {}
        /\ UNCHANGED signalled
     \/ /\ main = "waiting"
        /\ signalled' = TRUE
        /\ UNCHANGED <<main, open>>
  /\ UNCHANGED <<enabled, listener, late, req, spoiled, audit>>

-----------------------------------------------------------------------------
(* Shutdown.                                                               *)

(* Mutant: the HTTP server is shut down in the background. *)
StopListeningOnly ==
  /\ signalled
  /\ Step("waiting", "closeQueue")
  /\ open' = open \ {"http"}
  /\ listener' = "ended"
  /\ UNCHANGED <<enabled, signalled, late, req, spoiled, audit>>

StopListening ==
  /\ signalled
  /\ Step("waiting", "draining")
  /\ open' = open \ {"http"}
  /\ listener' = "ended"
  /\ UNCHANGED <<enabled, signalled, late, req, spoiled, audit>>

(* A connection that was taken over is none of the HTTP server's any more. *)
Active(r) == req[r] \notin {"none", "streaming", "answered", "closed", "cut", "dropped"}

Drained ==
  /\ \A r \in Request : ~Active(r)
  /\ Step("draining", "closeQueue")
  /\ UNCHANGED <<enabled, open, listener, signalled, late, req, spoiled, audit>>

(* Mutant: Shutdown gets a context without deadline. *)
DrainWithoutDeadline ==
  /\ \A r \in Request : ~Active(r)
  /\ Step("draining", "closeQueue")
  /\ UNCHANGED <<enabled, open, listener, signalled, late, req, spoiled, audit>>

(* Mutant: an error of the drain is fatal. *)
DrainFatal ==
  /\ \E r \in Request : Active(r)
  /\ Step("draining", "aborted")
  /\ late' = TRUE
  /\ UNCHANGED <<enabled, open, listener, signalled, req, spoiled, audit>>

(* Thirty seconds are over; the requests go on. *)
DrainDeadline ==
  /\ \E r \in Request : Active(r)
  /\ Step("draining", "closeQueue")
  /\ late' = TRUE
  /\ UNCHANGED <<enabled, open, listener, signalled, req, spoiled, audit>>

(* Mutant: the subsystems are closed in the order of Setup. *)
ClosePoolFirst ==
  /\ Step("closeQueue", "closeRedis")
  /\ open' = open \ {"pool"}
  /\ UNCHANGED <<enabled, listener, signalled, late, req, spoiled, audit>>

(* Close tells the broker that the channel and then the connection end,    *)
(* and waits for its answers without a deadline.                           *)
CloseQueue ==
  /\ \/ "queue" \in enabled /\ Step("closeQueue", "closingQueue")
     \/ "queue" \notin enabled /\ Step("closeQueue", "closeRedis")
  /\ open' = open \ {"queue"}
  /\ UNCHANGED <<enabled, listener, signalled, late, req, spoiled, audit>>

(* The broker has answered, or the connection to it is lost. *)
QueueClosed ==
  /\ Step("closingQueue", "closeRedis")
  /\ UNCHANGED <<enabled, open, listener, signalled, late, req, spoiled, audit>>

CloseRedis ==
  /\ Step("closeRedis", "closePool")
  /\ open' = open \ {"redis"}
  /\ UNCHANGED <<enabled, listener, signalled, late, req, spoiled, audit>>

(* The connections of the pool in use. *)
InUse == {r \in Request : req[r] = "querying"}
AuditsInUse == {r \in Request : audit[r] = "writing"}
HasRoom == Cardinality(InUse) + Cardinality(AuditsInUse) < PoolSize

(* Goroutines that have not returned when main does, and the WebSockets,   *)
(* which nothing in Shutdown closes.                                       *)
Interrupted(state) ==
  CASE state \in {"connected", "running", "waiting", "querying", "writing"} -> "cut"
    [] state = "streaming" -> "dropped"
    [] OTHER -> state

Exit ==
  /\ main' = "exited"
  /\ req' = [r \in Request |-> Interrupted(req[r])]
  /\ audit' = [r \in Request |-> Interrupted(audit[r])]

(* Mutant: main returns while the pool is being closed. *)
ClosePoolInBackground ==
  /\ main = "closePool"
  /\ open' = open \ {"pool"}
  /\ Exit
  /\ UNCHANGED <<enabled, listener, signalled, late, spoiled>>

(* pool.Close gives out no more connections *)
ClosePool ==
  /\ Step("closePool", "closingPool")
  /\ open' = open \ {"pool"}
  /\ UNCHANGED <<enabled, listener, signalled, late, req, spoiled, audit>>

(* and waits for those in use to come back; then main returns.             *)
PoolClosed ==
  /\ main = "closingPool"
  /\ InUse = {} /\ AuditsInUse = {}
  /\ Exit
  /\ UNCHANGED <<enabled, open, listener, signalled, late, spoiled>>

-----------------------------------------------------------------------------
(* A request: its connection is accepted, its first byte read, and its     *)
(* handler alternates between queries and other work.                      *)

Move(r, from, to) ==
  /\ req[r] = from
  /\ req' = [req EXCEPT ![r] = to]

Connect(r) ==
  /\ "http" \in open
  /\ Move(r, "none", "connected")
  /\ UNCHANGED <<mainVars, spoiled, audit>>

Begin(r) ==
  /\ ~Gone
  /\ Move(r, "connected", "running")
  /\ UNCHANGED <<mainVars, spoiled, audit>>

(* The browser goes, or Shutdown closes a connection that stayed silent. *)
Close(r) ==
  /\ ~Gone
  /\ Move(r, "connected", "closed")
  /\ UNCHANGED <<mainVars, spoiled, audit>>

Acquire(r) ==
  /\ ~Gone
  /\ Move(r, "running", "waiting")
  /\ UNCHANGED <<mainVars, spoiled, audit>>

Query(r) ==
  /\ ~Gone
  /\ "pool" \in open
  /\ HasRoom
  /\ Move(r, "waiting", "querying")
  /\ UNCHANGED <<mainVars, spoiled, audit>>

(* A closed pool refuses; the handler takes it for a failed query. *)
QueryRefused(r) ==
  /\ ~Gone
  /\ "pool" \notin open
  /\ Move(r, "waiting", "running")
  /\ spoiled' = spoiled \cup {r}
  /\ UNCHANGED <<mainVars, audit>>

QueryEnds(r) ==
  /\ ~Gone
  /\ Move(r, "querying", "running")
  /\ UNCHANGED <<mainVars, spoiled, audit>>

(* The client has gone, and the request's context with it. *)
QueryCancelled(r) ==
  /\ ~Gone
  /\ Move(r, "waiting", "running")
  /\ UNCHANGED <<mainVars, spoiled, audit>>

(* A job is published on a channel that is closed or being closed, or the  *)
(* health check pings a closed Redis client.                               *)
FindsClosed(r) ==
  /\ ~Gone
  /\ req[r] = "running"
  /\ \E s \in {"queue", "redis"} : s \in enabled \ open
  /\ spoiled' = spoiled \cup {r}
  /\ UNCHANGED <<mainVars, req, audit>>

EmitAuditLog(r) ==
  /\ ~Gone
  /\ req[r] = "running"
  /\ audit[r] = "none"
  /\ audit' = [audit EXCEPT ![r] = "waiting"]
  /\ UNCHANGED <<mainVars, req, spoiled>>

Answer(r) ==
  /\ ~Gone
  /\ Move(r, "running", "answered")
  /\ UNCHANGED <<mainVars, spoiled, audit>>

(* The hub takes the connection over; its browser stays as long as it      *)
(* likes.                                                                  *)
Upgrade(r) ==
  /\ ~Gone
  /\ "websocket" \in enabled
  /\ Move(r, "running", "streaming")
  /\ UNCHANGED <<mainVars, spoiled, audit>>

Leave(r) ==
  /\ ~Gone
  /\ Move(r, "streaming", "closed")
  /\ UNCHANGED <<mainVars, spoiled, audit>>

AuditAcquires(r) ==
  /\ ~Gone
  /\ audit[r] = "waiting"
  /\ "pool" \in open
  /\ HasRoom
  /\ audit' = [audit EXCEPT ![r] = "writing"]
  /\ UNCHANGED <<mainVars, req, spoiled>>

(* Written, failed, or out of its five seconds. *)
AuditEnds(r) ==
  /\ ~Gone
  /\ audit[r] = "writing"
  /\ audit' = [audit EXCEPT ![r] = "ended"]
  /\ UNCHANGED <<mainVars, req, spoiled>>

(* Refused by a closed pool, or out of its five seconds. *)
AuditLost(r) ==
  /\ ~Gone
  /\ audit[r] = "waiting"
  /\ audit' = [audit EXCEPT ![r] = "lost"]
  /\ UNCHANGED <<mainVars, req, spoiled>>

-----------------------------------------------------------------------------
Setup == LoadConfig \/ ConnectDatabase \/ ConnectRedis \/ DialQueue \/ FinishSetup
Listening == Listen \/ ListenFails
Shutdown ==
  StopListening \/ Drained \/ DrainDeadline \/ CloseQueue \/ CloseRedis \/ ClosePool
    \/ PoolClosed

RequestStep(r) ==
  \/ Connect(r) \/ Begin(r) \/ Close(r)
  \/ Acquire(r) \/ Query(r) \/ QueryRefused(r) \/ QueryEnds(r)
  \/ QueryCancelled(r) \/ FindsClosed(r) \/ EmitAuditLog(r) \/ Answer(r)
  \/ Upgrade(r) \/ Leave(r)

AuditStep(r) == AuditAcquires(r) \/ AuditEnds(r) \/ AuditLost(r)

(* The process is no more. *)
Ended == Gone /\ UNCHANGED vars

Next ==
  \/ Setup \/ SetupFails \/ Start \/ Listening \/ Signal \/ Shutdown \/ QueueClosed
  \/ \E r \in Request : RequestStep(r) \/ AuditStep(r)
  \/ Ended

Spec == Init /\ [][Next]_vars

(* main goes on, its timer fires, the address is taken or not, and what    *)
(* has a connection of the pool gives it back: the database answers and    *)
(* audit goroutines have a deadline.  Nobody has to send a signal, no      *)
(* handler has to return, and the broker owes no answer (QueueClosed).     *)
Fairness ==
  /\ WF_vars(Setup) /\ WF_vars(Start) /\ WF_vars(Listening)
  /\ WF_vars(Shutdown)
  /\ \A r \in Request : WF_vars(QueryEnds(r)) /\ WF_vars(AuditEnds(r))

FairSpec == Spec /\ Fairness

-----------------------------------------------------------------------------
(* Properties.                                                             *)

(* Every variable has the type its declaration promises. *)
TypeOK ==
  /\ enabled \subseteq {"redis", "queue", "websocket"}
  /\ main \in {"config", "database", "redis", "queue", "consumers", "start", "waiting",
               "draining", "closeQueue", "closingQueue", "closeRedis", "closePool",
               "closingPool", "failed", "killed", "exited"}
  /\ open \subseteq {"pool", "redis", "queue", "http"}
  /\ listener \in {"none", "starting", "running", "ended"}
  /\ signalled \in BOOLEAN
  /\ late \in BOOLEAN
  /\ req \in [Request -> {"none", "connected", "running", "waiting", "querying",
                          "streaming", "answered", "closed", "cut", "dropped"}]
  /\ spoiled \subseteq Request
  /\ audit \in [Request -> {"none", "waiting", "writing", "ended", "lost", "cut"}]

(* server.go:324, "in reverse setup order": at every moment, through       *)
(* set-up, failure and shutdown, what is open was set up before what is    *)
(* not, so nothing is up without what Setup built it on.                   *)
ReverseOrder ==
  \A i, j \in 1..4 :
    (i < j /\ Subsystem[j] \in open) =>
      Subsystem[i] \in open \/ Subsystem[i] \in {"redis", "queue"} \ enabled

(* WORKFLOW.md:626, "wait for in-flight requests to complete": a request   *)
(* finds a subsystem closed, or is cut off by the end of the process, only *)
(* if it outlived the deadline of the drain.  WebSockets are not protected *)
(* (dropped): Shutdown neither waits for them nor closes them.             *)
DrainProtects ==
  \A r \in Request : (r \in spoiled \/ req[r] = "cut") => late

(* Shutdown, late or not, lets every query and every audit entry that has  *)
(* its connection come to its end: only those who wait for one are refused *)
(* by the closed pool (server.go:348) or cut off when main returns.        *)
StartedQueriesFinish ==
  [][\A r \in Request :
       /\ req[r] = "querying" => req'[r] \in {"querying", "running"}
       /\ audit[r] = "writing" => audit'[r] \in {"writing", "ended"}]_vars

(* The broker answers the close of the queue, or the connection to it      *)
(* fails.  Nothing has to happen where no queue is enabled.                *)
BrokerAnswers == WF_vars(QueueClosed)

(* A server that is told to stop does so up to the close of its queue by   *)
(* itself, and entirely if the broker answers that (server.go:337): no     *)
(* handler that hangs, no browser that keeps its WebSocket and no audit    *)
(* goroutine keeps the process, provided the database answers.             *)
Terminates ==
  /\ signalled ~> main \in {"closingQueue", "exited"}
  /\ BrokerAnswers => (signalled ~> main = "exited")
=============================================================================
