------------------------------- MODULE Edge -------------------------------
(***************************************************************************)
(* The way of a request to its handler and back: the router of             *)
(* server.go:237-303 and routes.go, the middlewares around the handlers,   *)
(* and the log entries they leave behind.                                  *)
(*                                                                         *)
(* The middlewares of a mux.Router wrap the handler of a route that has    *)
(* matched; a request that matches none meets no middleware.  What they    *)
(* share with other requests is modelled in RateLimiter; here the limiter  *)
(* passes a request or refuses it.                                         *)
(***************************************************************************)
EXTENDS Integers, SequencesExt, FiniteSetsExt

CONSTANT Request   \* the requests

(* What config.yaml can switch on and off. *)
Part == {"request_id", "cors", "rate_limit", "logger", "websocket", "swagger"}

(* The paths, as the segments that the routes tell apart. *)
Health == <<"api", "health">>
Register == <<"api", "auth", "register">>
Socket == <<"ws">>
Docs == <<"docs">>
Unknown == <<"unknown">>
Path == {Health, Register, Socket, Docs, Unknown}

(* The method that the documentation names for the path, OPTIONS, another. *)
Method == {"documented", "options", "other"}

VARIABLES
  enabled,  \* the parts that are enabled
  path,     \* the path and
  method,   \* the method of each request
  at,       \* where the goroutine of a request is
  file,     \* its logs/app.jsonl: none, open or closed
  entry,    \* the goroutine of its entry there: none, waiting, written, lost
  counted,  \* the requests that the rate limiter has counted
  sent,     \* the status codes that were written to its connection
  seen,     \* the status that the access log's writer remembers
  line      \* the status in the access log; none

request == <<enabled, path, method>>
logVars == <<file, entry>>
accessVars == <<seen, line>>
vars == <<request, at, logVars, counted, sent, accessVars>>

Init ==
  /\ enabled \in SUBSET Part
  /\ path \in [Request -> Path]
  /\ method \in [Request -> Method]
  /\ at = [r \in Request |-> "new"]
  /\ file = [r \in Request |-> "none"]
  /\ entry = [r \in Request |-> "none"]
  /\ counted = {}
  /\ sent = [r \in Request |-> <<>>]
  /\ seen = [r \in Request |-> "none"]
  /\ line = [r \in Request |-> "none"]

-----------------------------------------------------------------------------
(* The chain.                                                              *)

(* Mutant: the limiter is put before CORS. *)
ChainLimitedFirst == <<"request_id", "rate_limit", "cors", "logger", "handler">>

(* The order of router.Use; the handler is the last. *)
Chain == <<"request_id", "cors", "rate_limit", "logger", "handler">>

Stages == enabled \cup {"handler"}

From(i) == Chain[Min({j \in i..Len(Chain) : Chain[j] \in Stages})]

First == From(1)

After(stage) == From(1 + CHOOSE i \in 1..Len(Chain) : Chain[i] = stage)

(* The deferred Close of the outermost middleware, or the end. *)
Outermost == IF "request_id" \in enabled THEN "closing" ELSE "done"

To(r, stage) == at' = [at EXCEPT ![r] = stage]

(* WriteHeader, straight to the connection. *)
Respond(r, status) == sent' = [sent EXCEPT ![r] = Append(@, status)]

-----------------------------------------------------------------------------
(* The router.                                                             *)

(* The routes of health and docs name their method; the auth router is     *)
(* mounted under a prefix and the hub at its path, both for every method.  *)
Routed(p) ==
  \/ p = Health
  \/ IsPrefix(<<"api", "auth">>, p)
  \/ p = Socket /\ "websocket" \in enabled
  \/ p = Docs /\ "swagger" \in enabled

Takes(p, m) == p \in {Health, Docs} => m = "documented"

Dispatch(r) ==
  /\ at[r] = "new"
  /\ Routed(path[r]) /\ Takes(path[r], method[r])
  /\ To(r, First)
  /\ UNCHANGED <<request, logVars, counted, sent, accessVars>>

Mismatch(r) ==
  /\ at[r] = "new"
  /\ ~(Routed(path[r]) /\ Takes(path[r], method[r]))
  /\ Respond(r, IF Routed(path[r]) THEN "405" ELSE "404")
  /\ To(r, "done")
  /\ UNCHANGED <<request, logVars, counted, accessVars>>

-----------------------------------------------------------------------------
(* RequestIDMiddleware.                                                    *)

OpenLog(r) ==
  /\ at[r] = "request_id"
  /\ file' = [file EXCEPT ![r] = "open"]
  /\ To(r, "identify")
  /\ UNCHANGED <<request, entry, counted, sent, accessVars>>

(* Mutant: a log file that cannot be opened is fatal. *)
OpenLogFatal(r) ==
  /\ at[r] = "request_id"
  /\ To(r, "dead")
  /\ UNCHANGED <<request, logVars, counted, sent, accessVars>>

(* NewLogger returns nil, and the first call on it panics: net/http        *)
(* recovers and hangs up without an answer.                                *)
OpenLogFails(r) ==
  /\ at[r] = "request_id"
  /\ To(r, "aborted")
  /\ UNCHANGED <<request, logVars, counted, sent, accessVars>>

(* Mutant: without an id the request is refused, and the log not closed. *)
IdentifyOrLeak(r) ==
  /\ at[r] = "identify"
  /\ entry' = [entry EXCEPT ![r] = "waiting"]
  /\ \/ /\ To(r, After("request_id"))
        /\ UNCHANGED sent
     \/ /\ Respond(r, "500")
        /\ To(r, "done")
  /\ UNCHANGED <<request, file, counted, accessVars>>

(* The request is announced to the log, or the failure of uuid.NewRandom;  *)
(* the line goes to stdout at once and to the file in a goroutine.         *)
Identify(r) ==
  /\ at[r] = "identify"
  /\ entry' = [entry EXCEPT ![r] = "waiting"]
  /\ To(r, After("request_id"))
  /\ UNCHANGED <<request, file, counted, sent, accessVars>>

(* The goroutine of Logger.Info; its error is not looked at. *)
WriteEntry(r) ==
  /\ entry[r] = "waiting"
  /\ entry' = [entry EXCEPT ![r] = IF file[r] = "open" THEN "written" ELSE "lost"]
  /\ UNCHANGED <<request, at, file, counted, sent, accessVars>>

CloseLog(r) ==
  /\ at[r] = "closing"
  /\ file' = [file EXCEPT ![r] = "closed"]
  /\ To(r, "done")
  /\ UNCHANGED <<request, entry, counted, sent, accessVars>>

-----------------------------------------------------------------------------
(* CORSMiddleware and RateLimiter.Middleware.                              *)

(* Mutant: the preflight goes on to the handler. *)
PreflightFallsThrough(r) ==
  /\ at[r] = "cors"
  /\ method[r] = "options"
  /\ Respond(r, "204")
  /\ To(r, After("cors"))
  /\ UNCHANGED <<request, logVars, counted, accessVars>>

Preflight(r) ==
  /\ at[r] = "cors"
  /\ method[r] = "options"
  /\ Respond(r, "204")
  /\ To(r, Outermost)
  /\ UNCHANGED <<request, logVars, counted, accessVars>>

CrossOrigin(r) ==
  /\ at[r] = "cors"
  /\ method[r] # "options"
  /\ To(r, After("cors"))
  /\ UNCHANGED <<request, logVars, counted, sent, accessVars>>

Admit(r) ==
  /\ at[r] = "rate_limit"
  /\ counted' = counted \cup {r}
  /\ To(r, After("rate_limit"))
  /\ UNCHANGED <<request, logVars, sent, accessVars>>

Refuse(r) ==
  /\ at[r] = "rate_limit"
  /\ counted' = counted \cup {r}
  /\ Respond(r, "429")
  /\ To(r, Outermost)
  /\ UNCHANGED <<request, logVars, accessVars>>

-----------------------------------------------------------------------------
(* LoggerMiddleware.                                                       *)

(* The writer is wrapped; a handler that sets no status means 200. *)
Wrap(r) ==
  /\ at[r] = "logger"
  /\ seen' = [seen EXCEPT ![r] = "200"]
  /\ To(r, "handler")
  /\ UNCHANGED <<request, logVars, counted, sent, line>>

LogAccess(r) ==
  /\ at[r] = "logging"
  /\ line' = [line EXCEPT ![r] = seen[r]]
  /\ To(r, Outermost)
  /\ UNCHANGED <<request, logVars, counted, sent, seen>>

-----------------------------------------------------------------------------
(* The handlers.                                                           *)

Wrapped == "logger" \in enabled

(* Mutant: the wrapper has no WriteHeader of its own. *)
WriteHeaderPromoted(r, status) ==
  /\ Respond(r, status)
  /\ UNCHANGED seen

(* ResponseWriter.WriteHeader, or the connection's own. *)
WriteHeader(r, status) ==
  /\ Respond(r, status)
  /\ seen' = IF Wrapped THEN [seen EXCEPT ![r] = status] ELSE seen

Serve(r, p, statuses) ==
  /\ at[r] = "handler"
  /\ IsPrefix(p, path[r])
  /\ \E status \in statuses : WriteHeader(r, status)
  /\ To(r, IF Wrapped THEN "logging" ELSE Outermost)
  /\ UNCHANGED <<request, logVars, counted, line>>

(* The health check says 200 whatever it finds. *)
ServeHealth(r) == Serve(r, Health, {"200"})

(* The router of the auth controller matches the whole path of the request *)
(* against routes without the prefix; one that matched would be answered.  *)
AuthStatus(p) == IF p = <<"register">> THEN {"201", "400", "409", "422", "500"} ELSE {"404"}

ServeAuth(r) == Serve(r, <<"api", "auth">>, AuthStatus(path[r]))

(* No WebSocket handshake, another origin; or a connection that the        *)
(* wrapper does not let the upgrader take over.                            *)
RefuseUpgrade(r) ==
  Serve(r, Socket, {"400", "403", "405"} \cup (IF Wrapped THEN {"500"} ELSE {}))

(* The upgrader takes over the connection and answers on it. *)
Upgrade(r) ==
  /\ at[r] = "handler"
  /\ path[r] = Socket
  /\ method[r] = "documented"
  /\ ~Wrapped
  /\ Respond(r, "101")
  /\ To(r, Outermost)
  /\ UNCHANGED <<request, logVars, counted, accessVars>>

(* The page, without a status of its own. *)
ServeDocs(r) ==
  /\ at[r] = "handler"
  /\ path[r] = Docs
  /\ Respond(r, "200")
  /\ To(r, IF Wrapped THEN "logging" ELSE Outermost)
  /\ UNCHANGED <<request, logVars, counted, accessVars>>

DocsFail(r) == Serve(r, Docs, {"500"})

-----------------------------------------------------------------------------
RouterStep(r) == Dispatch(r) \/ Mismatch(r)
RequestIDStep(r) == OpenLog(r) \/ OpenLogFails(r) \/ Identify(r) \/ CloseLog(r)
MiddlewareStep(r) ==
  Preflight(r) \/ CrossOrigin(r) \/ Admit(r) \/ Refuse(r) \/ Wrap(r) \/ LogAccess(r)
HandlerStep(r) ==
  \/ ServeHealth(r) \/ ServeAuth(r) \/ RefuseUpgrade(r) \/ Upgrade(r)
  \/ ServeDocs(r) \/ DocsFail(r)

GoroutineStep(r) ==
  RouterStep(r) \/ RequestIDStep(r) \/ MiddlewareStep(r) \/ HandlerStep(r)

Answered ==
  /\ \A r \in Request : at[r] \in {"done", "aborted"} /\ entry[r] # "waiting"
  /\ UNCHANGED vars

Next ==
  \/ \E r \in Request : GoroutineStep(r) \/ WriteEntry(r)
  \/ Answered

Spec == Init /\ [][Next]_vars

(* Goroutines go on.  The handlers of this module wait for the database    *)
(* and Redis at most (the health check), which are taken to answer.        *)
FairSpec ==
  /\ Spec
  /\ \A r \in Request : WF_vars(GoroutineStep(r)) /\ WF_vars(WriteEntry(r))

-----------------------------------------------------------------------------
(* Properties.                                                             *)

Statuses == {"101", "200", "201", "204", "400", "403", "404", "405", "409", "422", "429", "500"}

(* Every variable has the type its declaration promises. *)
TypeOK ==
  /\ enabled \subseteq Part
  /\ path \in [Request -> Path]
  /\ method \in [Request -> Method]
  /\ at \in [Request -> {"new", "request_id", "identify", "cors", "rate_limit", "logger",
                         "handler", "logging", "closing", "done", "aborted"}]
  /\ file \in [Request -> {"none", "open", "closed"}]
  /\ entry \in [Request -> {"none", "waiting", "written", "lost"}]
  /\ counted \subseteq Request
  /\ sent \in [Request -> Seq(Statuses)]
  /\ seen \in [Request -> Statuses \cup {"none"}]
  /\ line \in [Request -> Statuses \cup {"none"}]

Matched(r) == Routed(path[r]) /\ Takes(path[r], method[r])
IsPreflight(r) == "cors" \in enabled /\ method[r] = "options"

(* Whatever is enabled, a request is answered once: middlewares that       *)
(* answer do not call the next one, and no handler stays silent.  Only a   *)
(* request without a log file gets no answer.                              *)
OneAnswer ==
  \A r \in Request :
    /\ Len(sent[r]) <= 1
    /\ at[r] = "done" => Len(sent[r]) = 1
    /\ at[r] = "aborted" => sent[r] = <<>>

(* The access log has every answer of a handler, with the status that the  *)
(* client got, and no other: refused, unmatched and preflight requests     *)
(* are not in it.                                                          *)
LogTellsTruth ==
  \A r \in Request :
    /\ line[r] # "none" => sent[r] = <<line[r]>>
    /\ at[r] = "done" =>
         (line[r] # "none" <=>
            /\ "logger" \in enabled
            /\ Matched(r) /\ ~IsPreflight(r)
            /\ sent[r] # <<"429">>)

(* The limiter counts each request that is on its way to a handler, and    *)
(* neither preflights nor requests that match no route.                    *)
BudgetIsForHandlers ==
  \A r \in Request :
    at[r] = "done" =>
      (r \in counted <=> "rate_limit" \in enabled /\ Matched(r) /\ ~IsPreflight(r))

(* The log file that a request opens is closed, on every way through the   *)
(* chain.                                                                  *)
FilesClosed ==
  \A r \in Request : file[r] = "open" ~> file[r] = "closed"

(* README.md:313, "POST /api/v1/auth/register: Register a new user": with  *)
(* the documented method, the route is there.                              *)
AuthServed ==
  \A r \in Request :
    (at[r] = "done" /\ path[r] = Register /\ method[r] = "documented")
      => sent[r] # <<"404">>
=============================================================================
