--------------------------- MODULE Registration ---------------------------
(***************************************************************************)
(* Registering an account: POST /auth/register through Service.Register of *)
(* auth.service.go, the queries it sends through the connection pool, the  *)
(* domain events it emits and the audit log written behind its back.       *)
(*                                                                         *)
(* Each request runs in a goroutine of its own.  A query takes one of the  *)
(* pool's connections and gives it back with its result; between the       *)
(* database and the result the connection can break or the client can go   *)
(* away, and then a row may be there although the query reports an error.  *)
(***************************************************************************)
EXTENDS Integers, FiniteSets

CONSTANTS
  Request,    \* the requests
  Email,      \* the emails, trimmed and lowered by Validate
  None,       \* no account
  PoolSize,   \* database.pool_size
  Faults,     \* whether queries, hashing and publishing can fail
  MaxCrashes  \* bound: how often the process dies

ASSUME PoolSizeAssumption == PoolSize \in Nat \ {0}
ASSUME FaultsAssumption == Faults \in BOOLEAN
ASSUME MaxCrashesAssumption == MaxCrashes \in Nat
ASSUME NoneAssumption == None \notin Request

VARIABLES
  want,       \* the email each request registers
  at,         \* where the goroutine of a request is; dead with its process
  row,        \* the table users: the request that inserted an email's row
  answer,     \* the status of the response: none, 201, 400, 409, 422 or
              \* 500
  announced,  \* the requests whose auth.user.registered has been emitted
  queued,     \* the requests whose welcome email has been published
  audit,      \* the audit goroutine of a request: none, waiting, writing,
              \* written or lost
  crashes     \* how often the process has died

eventVars == <<announced, queued>>
vars == <<want, at, row, answer, eventVars, audit, crashes>>

Init ==
  /\ want \in [Request -> Email]
  /\ at = [r \in Request |-> "new"]
  /\ row = [e \in Email |-> None]
  /\ answer = [r \in Request |-> "none"]
  /\ announced = {}
  /\ queued = {}
  /\ audit = [r \in Request |-> "none"]
  /\ crashes = 0

(* The connections in use: one per running query. *)
InUse ==
  Cardinality({r \in Request : at[r] \in {"checking", "inserting", "committed"}})
    + Cardinality({r \in Request : audit[r] = "writing"})

Go(r, from, to) ==
  /\ at[r] = from
  /\ at' = [at EXCEPT ![r] = to]

Answer(r, status) ==
  /\ at' = [at EXCEPT ![r] = "done"]
  /\ answer' = [answer EXCEPT ![r] = status]

Taken(r) == row[want[r]] # None

-----------------------------------------------------------------------------
(* Validate, and the check for an existing account.                        *)

Submit(r) ==
  /\ Go(r, "new", "checkWait")
  /\ UNCHANGED <<want, row, answer, eventVars, audit, crashes>>

(* A body that cannot be parsed; a missing name, an email without @ or a   *)
(* short password.                                                         *)
Invalid(r) ==
  /\ at[r] = "new"
  /\ \E status \in {"400", "422"} : Answer(r, status)
  /\ UNCHANGED <<want, row, eventVars, audit, crashes>>

AcquireForCheck(r) ==
  /\ InUse < PoolSize
  /\ Go(r, "checkWait", "checking")
  /\ UNCHANGED <<want, row, answer, eventVars, audit, crashes>>

CheckFinds(r) ==
  /\ at[r] = "checking"
  /\ Taken(r)
  /\ Answer(r, "409")
  /\ UNCHANGED <<want, row, eventVars, audit, crashes>>

(* No row; or an error, which Register takes for the same. *)
CheckMisses(r) ==
  /\ Taken(r) => Faults
  /\ Go(r, "checking", "hashing")
  /\ UNCHANGED <<want, row, answer, eventVars, audit, crashes>>

CheckWaitFails(r) ==
  /\ Faults
  /\ Go(r, "checkWait", "hashing")
  /\ UNCHANGED <<want, row, answer, eventVars, audit, crashes>>

-----------------------------------------------------------------------------
(* HashPassword and CreateUser.                                            *)

Hash(r) ==
  /\ Go(r, "hashing", "insertWait")
  /\ UNCHANGED <<want, row, answer, eventVars, audit, crashes>>

HashFails(r) ==
  /\ Faults
  /\ at[r] = "hashing"
  /\ Answer(r, "500")
  /\ UNCHANGED <<want, row, eventVars, audit, crashes>>

AcquireForInsert(r) ==
  /\ InUse < PoolSize
  /\ Go(r, "insertWait", "inserting")
  /\ UNCHANGED <<want, row, answer, eventVars, audit, crashes>>

(* Mutant: the column email is not UNIQUE, the later row is found first. *)
InsertOverwrites(r) ==
  /\ Go(r, "inserting", "committed")
  /\ row' = [row EXCEPT ![want[r]] = r]
  /\ UNCHANGED <<want, answer, eventVars, audit, crashes>>

(* The database commits the row, whose email is UNIQUE. *)
InsertCommits(r) ==
  /\ ~Taken(r)
  /\ Go(r, "inserting", "committed")
  /\ row' = [row EXCEPT ![want[r]] = r]
  /\ UNCHANGED <<want, answer, eventVars, audit, crashes>>

(* The email has been inserted since the check. *)
InsertRefused(r) ==
  /\ at[r] = "inserting"
  /\ Taken(r)
  /\ Answer(r, "500")
  /\ UNCHANGED <<want, row, eventVars, audit, crashes>>

(* Mutant: the error of CreateUser is not looked at. *)
InsertErrorIgnored(r) ==
  /\ Faults
  /\ at[r] \in {"insertWait", "inserting", "committed"}
  /\ at' = [at EXCEPT ![r] = "created"]
  /\ UNCHANGED <<want, row, answer, eventVars, audit, crashes>>

(* The client goes away or the connection breaks, before the database has  *)
(* inserted the row or after.                                              *)
InsertFails(r) ==
  /\ Faults
  /\ at[r] \in {"insertWait", "inserting", "committed"}
  /\ Answer(r, "500")
  /\ UNCHANGED <<want, row, eventVars, audit, crashes>>

InsertReturns(r) ==
  /\ Go(r, "committed", "created")
  /\ UNCHANGED <<want, row, answer, eventVars, audit, crashes>>

-----------------------------------------------------------------------------
(* The events, whose listeners run in the request's goroutine.             *)

(* EmitUserRegistered reaches the hub, *)
AnnounceUser(r) ==
  /\ Go(r, "created", "announcing")
  /\ announced' = announced \cup {r}
  /\ UNCHANGED <<want, row, answer, queued, audit, crashes>>

(* Mutant: Register returns when the job could not be published. *)
EnqueueOrReply(r) ==
  /\ at[r] = "announcing"
  /\ \/ queued' = queued \cup {r} /\ at' = [at EXCEPT ![r] = "auditing"]
     \/ Faults /\ UNCHANGED queued /\ at' = [at EXCEPT ![r] = "replying"]
  /\ UNCHANGED <<want, row, answer, announced, audit, crashes>>

(* then the queue; without a queue, or when Publish fails, no job.         *)
Enqueue(r) ==
  /\ Go(r, "announcing", "auditing")
  /\ \/ queued' = queued \cup {r}
     \/ Faults /\ UNCHANGED queued
  /\ UNCHANGED <<want, row, answer, announced, audit, crashes>>

(* EmitAuditLog: the listener starts a goroutine and returns. *)
EmitAuditLog(r) ==
  /\ Go(r, "auditing", "replying")
  /\ audit' = [audit EXCEPT ![r] = "waiting"]
  /\ UNCHANGED <<want, row, answer, eventVars, crashes>>

(* Mutant: the status of a success is left to its default. *)
ReplyDefault(r) ==
  /\ at[r] = "replying"
  /\ Answer(r, "200")
  /\ UNCHANGED <<want, row, eventVars, audit, crashes>>

Reply(r) ==
  /\ at[r] = "replying"
  /\ Answer(r, "201")
  /\ UNCHANGED <<want, row, eventVars, audit, crashes>>

-----------------------------------------------------------------------------
(* The audit goroutine, with five seconds for all it does.                 *)

AuditAcquires(r) ==
  /\ audit[r] = "waiting"
  /\ InUse < PoolSize
  /\ audit' = [audit EXCEPT ![r] = "writing"]
  /\ UNCHANGED <<want, at, row, answer, eventVars, crashes>>

AuditWritten(r) ==
  /\ audit[r] = "writing"
  /\ audit' = [audit EXCEPT ![r] = "written"]
  /\ UNCHANGED <<want, at, row, answer, eventVars, crashes>>

(* Mutant: only waiting for a connection is given up. *)
AuditWriteHangs(r) ==
  /\ audit[r] = "waiting"
  /\ audit' = [audit EXCEPT ![r] = "lost"]
  /\ UNCHANGED <<want, at, row, answer, eventVars, crashes>>

(* The deadline passes or the query fails: logged, and not tried again.    *)
AuditFails(r) ==
  /\ audit[r] \in {"waiting", "writing"}
  /\ audit' = [audit EXCEPT ![r] = "lost"]
  /\ UNCHANGED <<want, at, row, answer, eventVars, crashes>>

-----------------------------------------------------------------------------
(* The process dies with its goroutines; the database stays. *)
Crash ==
  /\ crashes < MaxCrashes
  /\ crashes' = crashes + 1
  /\ at' = [r \in Request |-> IF at[r] \in {"new", "done"} THEN at[r] ELSE "dead"]
  /\ audit' = [r \in Request |-> IF audit[r] \in {"waiting", "writing"} THEN "lost"
                                                                      ELSE audit[r]]
  /\ UNCHANGED <<want, row, answer, eventVars>>

(* Every request has ended and every audit goroutine has returned. *)
Finished ==
  /\ \A r \in Request : at[r] \in {"done", "dead"} /\ audit[r] \notin {"waiting", "writing"}
  /\ UNCHANGED vars

-----------------------------------------------------------------------------
CheckStep(r) ==
  \/ Submit(r) \/ Invalid(r)
  \/ AcquireForCheck(r) \/ CheckFinds(r) \/ CheckMisses(r) \/ CheckWaitFails(r)

InsertStep(r) ==
  \/ Hash(r) \/ HashFails(r)
  \/ AcquireForInsert(r) \/ InsertCommits(r) \/ InsertRefused(r) \/ InsertFails(r)
  \/ InsertReturns(r)

EventStep(r) == AnnounceUser(r) \/ Enqueue(r) \/ EmitAuditLog(r) \/ Reply(r)

AuditStep(r) == AuditAcquires(r) \/ AuditWritten(r) \/ AuditFails(r)

Next ==
  \/ \E r \in Request : CheckStep(r) \/ InsertStep(r) \/ EventStep(r) \/ AuditStep(r)
  \/ Crash
  \/ Finished

Spec == Init /\ [][Next]_vars

(* A goroutine goes on, the database answers the queries of requests, the  *)
(* broker takes what is written to it, and pgxpool serves those who wait   *)
(* for a connection in their order.  Of the audit goroutine only its       *)
(* deadline is certain.                                                    *)
Fairness ==
  \A r \in Request :
    /\ SF_vars(AcquireForCheck(r) \/ AcquireForInsert(r))
    /\ WF_vars(CheckFinds(r) \/ CheckMisses(r))
    /\ WF_vars(Hash(r))
    /\ WF_vars(InsertCommits(r) \/ InsertRefused(r) \/ InsertReturns(r))
    /\ WF_vars(EventStep(r))
    /\ WF_vars(AuditFails(r))

FairSpec == Spec /\ Fairness

-----------------------------------------------------------------------------
(* Properties.                                                             *)

(* Every variable has the type its declaration promises. *)
TypeOK ==
  /\ want \in [Request -> Email]
  /\ at \in [Request -> {"new", "checkWait", "checking", "hashing", "insertWait",
                         "inserting", "committed", "created", "announcing", "auditing",
                         "replying", "done", "dead"}]
  /\ row \in [Email -> Request \cup {None}]
  /\ answer \in [Request -> {"none", "201", "400", "409", "422", "500"}]
  /\ announced \subseteq Request
  /\ queued \subseteq Request
  /\ audit \in [Request -> {"none", "waiting", "writing", "written", "lost"}]
  /\ crashes \in 0..MaxCrashes

(* An event, a welcome email or an audit entry is only ever about an       *)
(* account that was committed, by the request that created it: whatever    *)
(* races, breaks or dies, an email is welcomed at most once and never      *)
(* without an account.                                                     *)
EffectsCommitted ==
  \A r \in Request :
    (r \in announced \cup queued \/ audit[r] # "none") => row[want[r]] = r

(* A client that was told 201 has an account, which was announced, and its *)
(* audit entry was at least tried.                                         *)
CreatedIsAnnounced ==
  \A r \in Request : answer[r] = "201" =>
    row[want[r]] = r /\ r \in announced /\ audit[r] # "none"

(* Concurrent registrations implement a registry that takes them one at a  *)
(* time.                                                                   *)
Abstract == INSTANCE Registry

ImplementsRegistry == Abstract!Spec

(* A request that waits for a connection is answered, however many audit   *)
(* goroutines hang on theirs, unless its process dies.                     *)
RequestsAnswered ==
  \A r \in Request : at[r] = "checkWait" ~> at[r] \in {"done", "dead"}

(* WORKFLOW.md:602 and auth.route.tsp:20: a valid registration of an email *)
(* that somebody else has is answered 409.                                 *)
TakenIsConflict ==
  \A r \in Request :
    (answer[r] # "none" /\ row[want[r]] \notin {None, r}) => answer[r] \in {"400", "409", "422"}
=============================================================================
