# Verification of the Go backend template

TLA+ models of the concurrent and failure-prone parts of this repository (an HTTP
service with accounts, a job queue, a WebSocket hub and a rate limiter), TLC
configurations that check them on small instances, and TLAPS proofs of their main
safety properties for every value of the constants. Line numbers below refer to
the files of the repository.

## 1. The system

One process per instance. `main.go` builds a `Server` (`internal/server.go`), which
connects to PostgreSQL, Redis and RabbitMQ, subscribes listeners to an in-process
event bus, mounts the routes and serves until a signal arrives.

| Part | State | Operations | Talks to |
|---|---|---|---|
| Registration (`auth.service.go`, `auth.controller.go`, `auth.schema.go`, `validate_middleware.go`, `users.sql.go`) | table `users`, whose email is UNIQUE; the pool's connections | `Register`: validate, look up, hash, insert, two events, reply | pool, event bus |
| Event bus (`core/events`) | the listener table, written during set-up only | `on`, `emit` (listeners run in the emitter's goroutine) | hub, queue, audit listener |
| Audit listener (`server.go:184-211`) | one goroutine per event, five seconds each | insert into `audit_logs`, once, best effort | pool |
| WebSocket hub (`core/realtime/hub.go`) | the map of clients under an RWMutex; per client a bounded channel and a connection | `ServeHTTP`, `register`, `unregister`, `Broadcast`, `readPump`, `writePump` | event bus, browsers |
| Job queue and workers (`core/queue/queue.go`, `core/workers`) | a connection, a channel, the deliveries in flight; the broker's queue | `New`, `Publish`, `ConsumeWelcomeEmails`, `processWithRetry`, `Close` | RabbitMQ |
| Rate limiter (`ratelimit_middleware.go`) | a map from IPs to a counter and the end of its window | `Middleware`, `cleanup` | every request |
| Login, refresh, current user (`auth.service.go`, `jwt.go`, `auth_middleware.go`) | none: what a client may do follows from its tokens and the clock | `Login`, `RefreshToken`, `Me`, `Guard` | pool, event bus |
| Router and middlewares (`routes.go`, `internal/middlewares`, `utils/http.go`) | per request only | request id, CORS, access log, responses | handlers, log files |
| Logger (`pkg/logger.go`) | an open file | one goroutine per file entry | disk |
| Server (`server.go`, `main.go`) | the handles of everything above | `Setup`, `Start`, `Shutdown` | everything |
| Health, Redis client, configuration, documentation | none that changes after start | read only | pool, Redis |

A registration crosses most of it: the request passes the limiter, `Register` writes
the row, its first event is broadcast by the hub and turned into a job by the queue's
listener (which emits the event that the job is enqueued, broadcast in turn), its
second event starts the audit goroutine, and a worker of some instance handles the
job later.

### What is hard here

* **The hub**: three goroutines per client and any number of broadcasting requests
  meet at one lock and at channels that one of them closes. `unregister` closes the
  channel *after* it released the lock (`hub.go:119`). Correct means: no send on a
  closed channel, no registered client skipped, frames in order, broadcasts that
  never wait for a browser, and no dead client left in the map.
* **The queue**: handlers succeed and the acknowledgement is lost; connections break
  with deliveries in hand; failing jobs go straight back. Correct means: a stored job
  is handled at least once and is settled by the one worker that holds it.
* **The limiter**: a window's boundary, a clean-up that deletes entries between two
  requests, a ticker that drops ticks. Correct means: a bound on bursts, no refusal
  without cause, no growth, and a clean-up that nobody can notice.
* **Registration**: a look-up and an insert in two queries, an insert that may be
  committed although it reports an error, events sent after the commit, and audit
  goroutines that compete with requests for connections. Correct means: one account
  per email, answers that tell the truth, no effect without an account, no request
  stuck behind audit logs.
* **Sessions**: the server keeps none, so nothing revokes a token; the clock is read several
  times while a request is served, in different units. Correct means: sessions end, and a
  token is good for its purpose and its lifetime.
* **The bus**: an event's listeners run one after the other in the request's goroutine, and
  one of them emits another event. Correct means: effects in their order, for accounts that
  exist, and a reply although browsers hang and brokers fail.
* **The chain of middlewares**: wrappers whose order decides who is counted, answered
  and logged, a wrapped writer, a log file per request with a goroutine that writes to it.
  Correct means: one answer, a log that tells the truth, a budget spent on handlers only,
  files closed, and documented endpoints that are there.
* **Set-up and shutdown**: failures half way, signals at any time, requests that outlive
  the drain, goroutines nobody waits for. Correct means: subsystems go in the reverse of
  the order in which they came, requests are spoiled after the deadline only, started
  queries end, and so does the process.

The full list of hazards, each at its line with the properties that cover it, is in
`PROJECT.json`.

## 2. The modules

| Module | Models | Checked by | Proved in |
|---|---|---|---|
| `Hub` | `core/realtime/hub.go`, and the emitters of `server.go:220-232` | `MCHub` | `HubProofs` |
| `RateLimiter` | `ratelimit_middleware.go` | `MCRateLimiter` | `RateLimiterProofs` |
| `FixedWindow` | abstract: windows that open with a request and close by themselves | by refinement | by refinement |
| `Queue` | `core/queue/queue.go`, its use in `server.go`, RabbitMQ | `MCQueue` | `QueueProofs` |
| `JobStore` | abstract: at-least-once processing | by refinement | by refinement |
| `Registration` | `Register` from `Validate` to the reply, with pool, events and audit | `MCRegistration` | `RegistrationProofs` |
| `Registry` | abstract: a registry that takes one request at a time | by refinement | by refinement |
| `Lifecycle` | `main.go`, `Setup`, `Start` and `Shutdown`, and the users of what they open and close | `MCLifecycle` | `LifecycleProofs` |
| `Edge` | router, middlewares, response helpers, per-request logger | `MCEdge` | `EdgeProofs` |
| `Session` | login, refresh and `Me`, `pkg/jwt.go`, the Guard | `MCSession` | `SessionProofs` |
| `Service` | the bus: `Registration`, `Hub` and `Queue` composed | `MCService` | `ServiceProofs` |
| `Descent` | no code: the proof rule for loops that come to their end | | cited in four of the proof modules |

`PROJECT.json` maps every definition to the lines it stands for. Definitions named
in a comment that begins with `Mutant:` are plausible bugs; each shows that a
property would notice it, and none is part of a specification.

### Hub

A client is one connection; its goroutines are `serve[c]` (`ServeHTTP`), `reader[c]`
(`readPump`) and `pump[c]` (`writePump`). `writer` is the goroutine that has called
`h.mu.Lock()`: as in Go, it waits for the readers that are in and holds off new ones.
An emitter that broadcasts holds the read lock from `BeginBroadcast` to
`EndBroadcast` and visits the clients one by one in any order (`SendTo`), as Go
iterates over a map. `Offer` is the `select` of `hub.go:94-98`: accept, drop when
full, or panic when closed. `send`, `closed` and `inhand` are the channel and the
frame being written, `conn` and `peer` the two ends of the connection. `log`,
`dropped` and `delivered` are histories. An emitter's two frames are the user that
registered and the job that was enqueued for it; when publishing failed it stops
after the first (`EmitterStops`).

### RateLimiter

A request decides inside one critical section, hence in one step: `NewEntry` opens a
window, `Count` counts in one that holds and passes the request on or refuses it.
`Cleanup` is one round of the clean-up goroutine, enabled when a tick waits in the
ticker's channel; the channel holds one tick and drops the rest (`fired`). `Tick` is
the clock. Comparisons are strict, as `After` is. A limit below one admits the
request that opens a window, as the code does (`Budget`).

### Queue

`broker[j]` is where the broker has a job; `wire` means that `Publish` has returned but
the broker has stored nothing yet, because the channel has no confirms. `buffer[i]` is
the `msgs` channel of an instance and `worker[w]` where a worker goroutine is in its
loop. `Ack`, `Nack` and `Reject` go through `Tell`, which reaches the broker only on an
open connection: their errors are ignored by the code. Losing a connection or a process
returns what it held unacknowledged to the queue (`Requeue`), while workers of a closed
connection finish what they hold (`WorkerExits` comes after). Instances do not dial
again; a process that died can be started again.

### Registration

`at[r]` is where the goroutine of a request is. Queries wait for one of `PoolSize`
connections (`AcquireForCheck`, `AcquireForInsert`) which the audit goroutines use too
(`AuditAcquires`). `CheckMisses` stands for "no rows" and for any error, because
`Register` does not tell them apart. `InsertCommits` is the database's commit and
`InsertReturns` the answer that reaches the program; between the two `InsertFails` may
strike. A death of the process (`Crash`) ends all goroutines and keeps the table.
Passwords and names are abstracted away, and so are the contents of the tables but
for who inserted which email. An invalid body is 400 or 422 (`Invalid`).

### Lifecycle

`main` is where the goroutine of `main` is, from `LoadConfig` over the parts of `Setup` to
`waiting` (blocked on `quit`) and through `Shutdown`; `open` is the set of subsystems that
are up, `http` among them. A signal before `Start` kills the process, one after it is a
message in `quit`; `ListenFails` sends itself one. `req[r]` is a connection and the
goroutine that serves it: accepted, reading, working, waiting for a connection of the
pool, querying. `Drained` and `DrainDeadline` are the two ends of `httpSrv.Shutdown`;
after the second, requests go on and may find a subsystem closed (`spoiled`). `CloseQueue` is
where `qmgr.Close` begins, if there is a queue, and `QueueClosed` where the broker has answered
it, which it may never do. A request that
upgrades (`Upgrade`) becomes a WebSocket: the drain does not know its connection, nothing
closes it, and it breaks when the process ends (`dropped`). `ClosePool`
stops handing out connections and `PoolClosed` waits for those in use, as pgxpool does;
then `main` returns and cuts off every goroutine that is left.

### Edge

One request passes `Chain`, in which only the enabled parts are stages; the set of enabled
parts is chosen in `Init`, so every configuration is covered. Paths are sequences of
segments, as routes compare them. `sent[r]` lists the status codes written to the
connection, `seen[r]` what the access log's wrapper remembers, `line[r]` what it logs.
`WriteEntry` is the goroutine of `Logger.Info`; it finds the file open or closed. An answer
of the router itself (`Mismatch`) meets no middleware, which is how gorilla/mux works.

### Session

`at[r]` is where a goroutine is that serves logins, refreshes and protected requests, one
after the other. `clock` is `time.Now()`, read at each `Sign` and `Verify`, so that it may move
between the check of a token and the signing of the next. `exp` is rounded down to a second
(`Unix`) while `Verify` compares with the full clock. A token is a record: its key, its user,
when it was signed and when it expires; signatures cannot be forged (`Junk` is a token nobody
signed). `issued` is what the clients have, of which they may lose any part.
`lastLogin` is a history. `Extracted` is the Guard's preference for the cookie.

### Service

Three instances, `R`, `H` and `Q`, of the components, whose variables are those of `Service`. A
request is at once a registration, an emitter of the hub and a job of the queue. A step of one
component that nobody else sees leaves the others alone (`RequestStep`, `HubStep`,
`QueueStep`); the steps of the bus are joint (`EventStep`): `AnnounceUser` of `Registration`
happens when the hub's broadcast returns, between `BroadcastUser` and `UserAnnounced`, and
`Enqueue` when the queue's listener does, which published and then broadcast the job
(`PublishJob`, `BroadcastJob`, `JobAnnounced`), or failed to (`PublishFailed`). One process
serves, broadcasts and consumes; it may lose its broker, but it does not die here, as
`Registration` and `Queue` have deaths of their own. `audience` is a history.

### Edges between the modules

Between `Registration`, `Hub` and `Queue` the edges are `Service`. Alone, `Registration` emits
an event in one step, `Hub` starts from an emitter that has events and `Queue` from jobs to
publish; `Service` shows that these are the same steps.

The limiter of `Edge` passes or refuses at will; when it does is `RateLimiter`'s matter.
`Edge`'s handlers are single steps: what registering does is `Registration`, what login and
refresh do is `Session`, what an upgrade starts is `Hub`. `Lifecycle` knows of a request only
that it queries, publishes, upgrades and starts an audit goroutine, in any order;
`Registration` has that order and no shutdown.

Each component is modelled at its own interface. In the shipped set-up two of them
cannot be reached over HTTP: `routes.go:23` mounts the auth router under a prefix that
its routes do not have (run `edge_auth`), and the access log's `ResponseWriter`
(`utils/http.go:62`) cannot be hijacked, so that an upgrade fails while the log is enabled
(`RefuseUpgrade` and `Upgrade` in `Edge`).

## 3. The runs

| Run | Configuration | What it checks |
|---|---|---|
| `hub_safety` | 2 clients, 2 emitters with 1 event each, channel of 1, symmetric | `NoPanic`, `BroadcastReaches`, types |
| `hub_delivery` | 1 client, 2 emitters with 2 events each, channel of 2 | `DeliveredInOrder`; `AcceptedDelivered` to a browser that reads; `BroadcastCompletes`, also when it hangs; `DeadClientsLeave` |
| `limiter` | 2 IPs, limit 2, window 2, clock to 7 | `BurstBound`, `RefusedOverBudget`, `StaleBounded`, `ImplementsFixedWindow`, types |
| `limiter_sliding` | 1 IP | violated: `SlidingWindow` |
| `queue` | 2 instances with 2 workers, a good, a malformed and a failing job, 2 losses | `HandledBeforeGone`, `OneHolder`, `ImplementsJobStore`, `StoredHandled`, types |
| `registration` | 3 requests, 2 emails, pool of 1, faults, 1 death | `EffectsCommitted`, `CreatedIsAnnounced`, `ImplementsRegistry`, `RequestsAnswered`, types |
| `registration_race` | 2 requests, 1 email, no faults | violated: `TakenIsConflict` |
| `edge` | 1 request, all paths, methods and sets of enabled parts | `OneAnswer`, `LogTellsTruth`, `BudgetIsForHandlers`, `FilesClosed`, types |
| `edge_auth` | the same | violated: `AuthServed` |
| `lifecycle` | 2 requests, pool of 1 | `ReverseOrder`, `DrainProtects`, `StartedQueriesFinish`, `Terminates`, types |
| `session` | 1 user, 2 goroutines, 2 tokens kept, lifetimes of 2 and 4 ticks, 2 ticks a second, clock to 10 | `SessionEnds`, `LifetimesKept`, types |
| `service` | 1 request, 1 browser with a channel of 1, 1 worker, 1 loss | `WelcomeHasAccount`, `JobFrameIsTrue`, `CreatedIsKnown`, `CreatedIsAnswered`, `CreatedIsWelcomed` |

Deadlock is checked except where the system may really stop: in `queue` and `service` when
every job is settled or lost, nothing can fail any more and workers wait for ever.

### Bounds, and why they are enough

* `Rounds`, `SendCap`: one or two frames per emitter and a channel of one or two make
  every channel empty, partly full and full; the code's 256 differs only in how many
  frames it takes.
* `MaxTime` 7 with a window of 2 covers more than three windows, so every window has a
  predecessor and a successor, and a tick can be dropped. `MaxCount` 3 lets a counter
  pass its limit of 2 and stop there: the code counts on but compares only.
* `MaxLosses`: two losses make both instances fail at once or one fail twice.
* `MaxTokens` 2 and `MaxTime` 10 in `session`: a refresh needs one token and yields one more;
  ten ticks are past the end of the longest session, `RefreshTTL + AccessTTL + 3 * MaxDelay`.
* One request in `service`: what it contends with is the browser that comes and goes at the
  hub's lock, the worker and the lost connection. Requests meet each other at the pool, at the
  lock and in the queue, which is what `registration`, the hub's runs and `queue` are about;
  the properties of `Service` are proved for any number (its liveness as section 5 says).
* `MaxCrashes`: one death between any two steps. A request that comes later is one that
  is still `new` at the death.
* A pool of 1 in `registration` and `lifecycle`: every query competes with every other.
  Two emails, so that requests that share nothing but the pool are there too.
* Three requests: for one email, one that wins, one that finds the row, one that collides.
* One request in `edge`: requests share nothing there. The limiter decides at will, and
  every request has a log file of its own. Nothing in the module is otherwise bounded.
* Two requests in `lifecycle`: one that holds the connection while the other waits, or one
  that ends in time while the other does not.

The safety properties are proved without these bounds mattering: their constants are
arbitrary there.

### Fairness

* `Hub!FairSpec`: a goroutine that can step does, and a lock that stays free is taken
  (writers are preferred, so none starves). `ReadError` is fair because a connection
  whose other end is gone is noticed by TCP keep-alive, which Go's listener enables; a
  write on a closed connection fails. Browsers owe nothing: neither reading nor leaving
  is fair. That a browser keeps reading (`KeepsReading`) is an assumption of
  `AcceptedDelivered` alone.
* `Queue!FairSpec`: the broker delivers the oldest message first, the client's buffer is
  first in, first out (strong fairness per job), a handler returns, and a job that is not
  poison succeeds when tried often enough. No fairness for restarts: `StoredHandled` assumes
  that one instance stays connected.
* `Service!FairSpec`: the goroutine of a request goes on once its account is created, as in
  `Registration` and `Hub` together: it waits for the hub's lock behind one writer at most
  (strong fairness, because the lock changes hands meanwhile), and never for a browser. The
  queue is fair as in `Queue`, and the broker takes what is written to it (`Publish` ends, well
  or not) and stores what it receives. `CreatedIsWelcomed`
  assumes that the connection to the broker is never lost, `CreatedIsAnswered` does not.
* `Registration!FairSpec`: goroutines go on, the database answers the queries of
  requests and the broker takes what is written to it (the code sets no deadline for
  either), and pgxpool serves waiting goroutines in their order (strong fairness of the
  acquisition). Audit goroutines are only sure to end by their deadline of five seconds.
* `Edge!FairSpec`: goroutines go on. Of the handlers only the health check waits for
  anything, its two pings, which are taken to be answered.
* `Lifecycle!FairSpec`: `main` goes on, the drain's timer fires, queries end and audit
  entries have their deadline. Nobody has to send a signal, no handler has to return and no
  browser has to leave, because the drain has a deadline and the pool waits for queries only.
  The broker owes no answer: `QueueClosed`, the end of `qmgr.Close`, is not fair, because
  `queue.go:151-156` waits for the broker without a deadline. `Terminates` therefore has two
  parts: without the broker's help `main` comes to that close, or to its end where no queue is
  enabled; that it ends in any case is stated under `BrokerAnswers` alone.
* `RateLimiter` and `Session` have safety properties only: that a window closes and that a
  session ends are bounds in time, stated with their clocks.

## 4. What the checks showed

Everything but the following holds.

* **The limiter is no sliding window** (`limiter_sliding`). It opens a fixed window with
  an IP's first request, so around its end up to `2 * Limit - 1` requests pass within one
  window's length: the run, with a limit of 2 and a window of 2, admits at 0, 2, 3 and 3, the
  last three within one tick. What holds is proved as `BurstBound`: `2 * Budget` requests never
  pass within a window's length, since the next window opens strictly later than one length
  after the request that opened the last.
* **The loser of a registration race is told 500** (`registration_race`) and not the
  documented 409, because the error of the insert is not looked at.
* **No auth endpoint can be reached** (`edge_auth`). The auth controller's router is mounted
  under `/api/v1/auth` without stripping the prefix, and its routes lack it: whatever is
  sent there is answered 404. A route with the prefix, or `http.StripPrefix`, would do.

The models also show some consequences that no document denies clearly enough to count as
violations. A job that keeps failing is requeued at once and for ever: `default_attempts` and
`default_backoff` are read from the configuration and used nowhere (`StoredHandled` holds
beside such a job). A token stays good when the password changes or the account goes, and an
access token that is fetched at the end of the refresh token's life is good for a whole
`AccessTTL` more, as the bound of `SessionEnds` says. `Publish` has no confirms, so a job that was announced as enqueued can be lost
with the connection. A preflight for `/health` or the documentation page is answered 405
before CORS is asked, because those routes name their method. Refused, unmatched and
preflight requests are not in the access log (`LogTellsTruth` says which are). The file
entry of a request is lost when its goroutine runs after the request's logger was closed.

## 5. What is proved

With TLAPS, for all values of the constants that satisfy the modules' assumptions
(positive capacities and windows, the null value outside the sets, bounds that are
numbers):

* `HubProofs`: `TypeCorrect`, `NeverPanics`, `NoClientSkipped`, `InOrderDelivery`. Why nobody sends on a
  closed channel is a statement about the lock: `LockInv` says that clients in the map
  have an open channel, that only a reader on its way out closes one and only after the
  client left the map, that a broadcast still visits registered clients only, and that a
  reader starts only after the greeting was sent. `NoPanic` follows at each send.
  `NoClientSkipped` adds that a channel's history only grows, and that registering is
  impossible while a broadcast holds the lock. For `InOrderDelivery`, the channel's content is
  the end of its history (`SendIsTail`), what was received is the beginning before it, up to
  the frame in hand (`ReceivesTaken`), and each frame of the history is there once, in the
  emitter's order (`InOrder`), because it comes from a broadcast that has already visited the
  client (`Visited`). `NoFrameSwallowed` says, for a browser that is still there, that these
  three parts are all there is: received, in hand, queued.
* `RateLimiterProofs`: `TypeCorrect`, `EntriesEvicted`, `BurstsBounded`,
  `RefusalsDeserved`, `Refinement`. The invariant `History` ties a live entry to the
  tail of the admitted requests: its counter, cut at the budget, is the number of
  requests admitted since its window opened, the first of them opened it, and everything before
  is older. Two windows in a row then bound any burst. The refinement maps live entries to open windows: the
  clean-up removes entries the mapping never shows.
* `QueueProofs`: `TypeCorrect`, `NothingLost`, `HeldOnce`, `Refinement`. The invariant
  says that what is unacknowledged belongs to an open connection (`OnConnection`), that
  an instance's buffer and its busy workers hold different jobs that are unacknowledged
  on its connection (`BufferedUnacked`, `HeldUnacked`), that jobs in hand were stored
  (`HeldStored`), and that a worker about to acknowledge has had its handler succeed.
  `DeliveriesKept` is the converse: what is unacknowledged is in the buffer or in the hand of
  a worker of the instance it was delivered to, so no delivery is stuck with the broker.
* `RegistrationProofs`: `TypeCorrect`, `EffectsFollowCommits`,
  `CreatedAccountsAnnounced`, `Refinement`. The invariant says which steps a goroutine
  has behind it (`NotYet`, `Inserted`, `EventsInOrder`, `AnsweredLast`). In the
  refinement the commit is the registry's `Create`, each answer its `Reply`, and all
  else is invisible, deaths included. `PoolNeverOverdrawn` bounds the connections in use by
  the size of the pool, at every acquisition of a request or an audit goroutine.
* `LifecycleProofs`: `TypeCorrect`, `ClosedInReverse`, `RequestsProtected`,
  `QueriesFinish`. `OpenByStage` says exactly which subsystems are open in which stage of
  `main`, from which the order follows; `QuietAfterDrain`, that no request is active once
  the drain has ended in time, which is why nobody can be spoiled: a request that finds
  something closed is active, and `main` is then past the drain (`RequestsServed`).
  `PoolNeverOverdrawn` is here too; `NoNewUsers` says that from `pool.Close` on its users only
  leave.
* `EdgeProofs`: `TypeCorrect`, `AnsweredOnce`, `LogIsTrue`, `BudgetSpentOnHandlers`. The
  invariant says of each stage what has been done before it: `OnTheWay`, that no middleware
  which lets a request pass has answered it and that it was counted if it had to be; `Logged`
  and `Over`, what holds of an answered one. `ChainOrder` unfolds the chain once, for every
  set of enabled parts.
* `SessionProofs`: `TypeCorrect`, `EverySessionEnds`, `LifetimesExact`. The invariant
  traces each token back to a login, which bounds its end (`Rooted`, `Reach`), and bounds what
  a request does with what it has verified by the time it may take (`LoginChecked`,
  `TokenChecked`).
* `ServiceProofs`: `ComponentsCorrect`, `TypeCorrect`, `WelcomesHaveAccounts`, `JobFramesTrue`,
  `CreatedAccountsKnown`, `ComponentsSafe`. Every step of the composition is a step or a stutter of each
  component, so the theorems about the components hold in it (`ComponentsCorrect`: it
  implements `Registry` and `JobStore` at once, and never panics; `ComponentsSafe`: it keeps
  the promises of all three), and their invariants may be cited. What is new relates them: how far the events of a request are in all three
  (`EventInv`), that no channel's history has a job's frame before the job is published
  (`JobFrames`), and that a broadcast reaches its audience (`AudienceInv`).

### Liveness

Each temporal property that a run checks under fairness is the conclusion of a theorem. Two
things are beyond the prover, and what stands in for them is in the hypotheses, by name.

*Enabledness.* There is no rule for `ENABLED`, so `WF` and `SF` cannot be used as they stand.
Each proof module that has a liveness theorem states `GuardedFairness`: the conditions of
`Fairness`, each with the guard of its actions written out, `[]<>~Guard \/ []<><<Action>>_vars`
for `WF` and `<>[]~Guard \/ []<><<Action>>_vars` for `SF`. `GuardedReading` says the same of a
browser that keeps reading (`KeepsReading`), and `GuardedAnswer` of a broker that answers the
close of the queue (`BrokerAnswers`). Each guard is the conjunction of its action's
guards, which a reader compares.

*Descent.* That something which gets smaller comes to its end is an induction, and there is
none over temporal formulas. `Descent` states the rule, LATTICE in the Temporal Logic of
Actions: if from every `n` what is measured gets smaller or the goal comes, the goal comes. Each
instance of it is true of every behaviour, because no sequence of naturals descends for ever;
it says nothing of the system. A theorem that needs the rule has the instances it uses as a
hypothesis, and what the rule asks for, that the measure does get smaller, is proved from the
specification.

| Theorem | Property | Instances of `Descends` | What gets smaller |
|---|---|---|---|
| `HubProofs!BroadcastsEnd` | `BroadcastCompletes` | `LoopsRunOut` | the clients that a broadcast has yet to visit |
| `HubProofs!LockIsServed` | `LockServes`: who waits for the hub's lock gets it | `Descents` | besides, the broadcasts that a waiting writer awaits, and those who may still take the lock: each client twice |
| `HubProofs!DeadClientsGo` | `DeadClientsLeave` | `Descents` | the same |
| `HubProofs!AcceptedArrives` | `AcceptedDelivered` | `DeliveriesRunOut` | the writes before a frame |
| `QueueProofs!StoredJobsHandled` | `StoredHandled` | `LossesRunOut` | the connections that `MaxLosses` lets be lost |
| `LifecycleProofs!StopsAtPool` | `ComesToClose`: `main` gets as far as the close of the queue or `pool.Close`; `ComesToPool`, if the broker answers: as far as the latter | none | |
| `LifecycleProofs!ServerTerminates` | `Terminates` | `UsersRunOut` | the users of the closed pool |
| `RegistrationProofs!RequestsGetAnswers` | `RequestsAnswered` | none | |
| `EdgeProofs!LogsGetClosed` | `FilesClosed` | none | |
| `ServiceProofs!CreatedAnswered` | `CreatedIsAnswered` | `LoopsEnd` | the clients to visit and the broadcasts awaited, as in the hub |
| `ServiceProofs!CreatedWelcomed` | `CreatedIsWelcomed` | `LoopsEnd` | the same |

Four theorems assume something of a constant: `LockIsServed` and `DeadClientsGo`
that `Client` is finite (were clients to come for ever, each might take the lock before the one
that waits; Go's mutex does not let that happen, but no model here has its queue),
`StoredJobsHandled` and `CreatedWelcomed` that there are workers (`Concurrency > 0`), without
which nobody consumes.

A theorem is one step per stage (who is in it stays or goes on, the action leaves it, the guard
holds in it) and temporal logic between them.

* The hub's lock is the heart of four of them. A set that a broadcast visits is finite
  (`FiniteInv`), because the map grows by one client at a time, so its loop ends
  (`EmitterEnds`). A goroutine that has called `Lock` keeps new broadcasts out
  (`WriterHolds`), so those it waits for become fewer, and it frees the lock (`LockIsFreed`).
  Whoever waits meanwhile sees the lock taken by others, who never come back for the same
  purpose (`TakersStep`, `FewerTake`), until it is alone (`DoorAnswered`, `ExitAnswered`).
* `AcceptedArrives` follows one place of a channel's history, which only grows at its end
  (`HistoryKept`). While that place is due, the pump starts, takes a frame or writes one
  (`DueStages`), because the safety invariants say that what is missing is queued or in hand;
  each write that ends brings the place nearer (`DueStep`), and a write that fails ends the
  connection.
* In `StoredJobsHandled` a job goes between the store, a buffer, a worker and back
  (`IsDelivered`, `IsTaken`, `IsTried`, `IsReturned`), an idle worker is there again and again
  because it finishes what it has (`WorkerIdles`), and so the handler is tried again and again,
  until it succeeds. All this needs that connections have stopped being lost, which
  `LossesStop` shows.
* The theorems about `Service` use those about its components as they are. What the composition
  is fair about implies the fairness of the hub's emitters and writers (`EmittersGoOn`,
  `WritersGoOn`) and of the queue (`QueueFair`); so broadcasts end and the lock moves on
  (`LockMovesOn`), and a stored job is handled. What is left is that the goroutine of a created
  account announces it, hands its job over and replies (`CreatedTold`), and that the broker
  stores the job (`ConnectedWelcomed`).

### Model-checked only

* The properties above under `Fairness` itself, that is without a named instance of `Descends`
  and with `WF` and `SF` in place of their guards: the runs check them so.
* The three violations.

## 6. Not modelled

* `TimeoutMiddleware`, `OptionalGuard` and the methods of `HttpWriter` that only the former
  uses: `server.go` and the controllers mount neither, so no execution reaches them.
* Configuration values, documentation and scripts: no behaviour that changes state. The
  defaults of `config.go` replace zero only; that a negative window ends the process in
  `time.NewTicker` is listed among the hazards, and `RateLimiter` assumes a positive one.
* `Get`, `Set`, `Del` and `Exists` of the Redis client, the queries nobody calls
  (`VerifyUser`, `UpdateUserPassword`, `DeleteUser`, `GetAuditLogsByUser`) and
  `ConnectedClients` of the hub: they have no caller.
* The process's own logger, levels and formats: output only. The loggers of the requests are
  in `Edge`.
* Cryptography: a signature cannot be forged and a password is right or wrong.
* The contents of frames, jobs, accounts and log entries, and the formatting of
  responses.
* The checks of a WebSocket's origin: part of `UpgradeFails`.
* A broker that stops reading from its socket, except at shutdown: `Publish` has no deadline, so
  the request would wait as long, and `RequestsAnswered`, `CreatedIsAnswered` and
  `CreatedIsWelcomed` assume that it does not. `Lifecycle` covers both ends of such a broker: a
  request may stay in its handler for ever, and `main` in the close of the queue, which is as
  far as `Terminates` promises to come then.
* An instance that publishes with its workers disabled (`server.go:164`): every connected
  instance of `Queue` may be delivered to. For the safety properties that is one of its
  behaviours, in which the broker delivers to the others only; `StoredHandled` and
  `CreatedIsWelcomed` are about instances that consume.

## 7. Plan

1. Done: the modules of section 2, their runs, and a theorem for each property that a passing
   run checks.
2. Open, in this order: several requests in `service`, which needs a smaller hub; the writer
   preference and the pool's queue of waiters as abstract locks of their own, which would make
   `LockServes` the promise of the one; the deaths of the process in `Service`, across which
   accounts stay and their events do not.
