------------------------------ MODULE Session ------------------------------
(***************************************************************************)
(* Signing in and staying signed in: POST /login, POST /refresh and GET    *)
(* /me of modules/auth, with the tokens of pkg/jwt.go and the Guard of     *)
(* auth_middleware.go.                                                     *)
(*                                                                         *)
(* The server keeps no session.  What somebody may do follows from the     *)
(* tokens they hold and from the clock, which is read several times while  *)
(* a request is served: once to verify a token, again to sign one, and     *)
(* with a query in between.  Time is counted in ticks; the claims iat and  *)
(* exp are whole seconds.                                                  *)
(*                                                                         *)
(* Queries wait for the pool as in Registration; here they only take time  *)
(* and may fail.  The audit entry of a login is written behind its back as *)
(* in Registration and is left out.                                        *)
(***************************************************************************)
EXTENDS Integers, FiniteSets

CONSTANTS
  Request,        \* goroutines that serve requests, one after the other
  User,           \* the accounts
  AccessSecret,   \* JWT_SECRET
  RefreshSecret,  \* JWT_REFRESH_SECRET
  AccessTTL,      \* 24 hours, in ticks
  RefreshTTL,     \* 30 days, in ticks
  Second,         \* how many ticks are a second
  None,           \* no token
  Junk,           \* a token that none of the secrets has signed
  MaxDelay,       \* how long a request is served at most
  MaxTokens,      \* bound: how many tokens the clients keep
  MaxTime         \* bound: when the clock stops

ASSUME TimeAssumption ==
  /\ Second \in Nat \ {0}
  /\ AccessTTL \in Nat /\ RefreshTTL \in Nat /\ MaxDelay \in Nat

(* Each secret has a default of its own; the set-up must not make them one. *)
ASSUME SecretAssumption == AccessSecret # RefreshSecret

(* born is the moment of signing, to which iat and exp are rounded down. *)
Token == [key : {AccessSecret, RefreshSecret}, uid : User, born : Nat, exp : Int]

ASSUME NoTokenAssumption == None \notin Token /\ Junk \notin Token

VARIABLES
  clock,      \* time.Now()
  issued,     \* the tokens the clients have
  at,         \* where the goroutine of a request is
  started,    \* when the request came
  uid,        \* the user looked up, or named by a verified token
  token,      \* the token a request is judged by, or has just been given
  lastLogin   \* history: when a user's password was last found right; -1 if never

requestVars == <<at, started, uid, token>>
vars == <<clock, issued, requestVars, lastLogin>>

Init ==
  /\ clock = 0
  /\ issued = {}
  /\ at = [r \in Request |-> "idle"]
  /\ started = [r \in Request |-> 0]
  /\ uid = [r \in Request |-> None]
  /\ token = [r \in Request |-> None]
  /\ lastLogin = [u \in User |-> -1]

-----------------------------------------------------------------------------
(* pkg/jwt.go.                                                             *)

(* Time.Unix() *)
Unix(n) == n - (n % Second)

(* Mutant: the lifetimes of the two kinds of tokens are mixed up. *)
SignAccessLong(key, user) ==
  [key |-> key, uid |-> user, born |-> clock, exp |-> Unix(clock + RefreshTTL)]

(* NewTokenSigner(key).Sign(StandardClaims(user, ttl)) *)
Sign(key, user) ==
  [key |-> key, uid |-> user, born |-> clock,
   exp |-> Unix(clock + IF key = AccessSecret THEN AccessTTL ELSE RefreshTTL)]

(* NewTokenSigner(key).Verify(t), and a claim uid that is not empty. *)
Verify(t, key) == t \in Token /\ t.key = key /\ clock < t.exp

-----------------------------------------------------------------------------
(* The life of a request.                                                  *)

Go(r, from, to) ==
  /\ at[r] = from
  /\ at' = [at EXCEPT ![r] = to]

(* A request whose body Validate accepts (else it is answered 400 or 422   *)
(* and that is all) and what it carries: the user of a login or the token  *)
(* of a refresh or a protected request.                                    *)
Arrive(r, to, user, t) ==
  /\ Go(r, "idle", to)
  /\ started' = [started EXCEPT ![r] = clock]
  /\ uid' = [uid EXCEPT ![r] = user]
  /\ token' = [token EXCEPT ![r] = t]
  /\ UNCHANGED <<clock, issued, lastLogin>>

(* A token has been verified: what is used from here on is its uid. *)
Identify(r, from, to, t) ==
  /\ Go(r, from, to)
  /\ uid' = [uid EXCEPT ![r] = t.uid]
  /\ token' = [token EXCEPT ![r] = None]
  /\ UNCHANGED <<clock, issued, started, lastLogin>>

(* The goroutine forgets what it knows with its response, whose status is  *)
(* in the comment of the action.                                           *)
Respond(r, from) ==
  /\ Go(r, from, "idle")
  /\ started' = [started EXCEPT ![r] = 0]
  /\ uid' = [uid EXCEPT ![r] = None]
  /\ token' = [token EXCEPT ![r] = None]
  /\ UNCHANGED <<clock, lastLogin>>

Reply(r, from) == Respond(r, from) /\ UNCHANGED issued

(* 200 with new tokens; the clients keep MaxTokens of all they have. *)
Grant(r, from, new) ==
  /\ Respond(r, from)
  /\ issued' \in {kept \in SUBSET (issued \cup new) : Cardinality(kept) <= MaxTokens}

-----------------------------------------------------------------------------
(* POST /login.                                                            *)

Login(r, user) == Arrive(r, "lookup", user, None)

(* GetUserByEmail: a row; or, 401, no row or any error of the query. *)
UserFound(r) ==
  /\ Go(r, "lookup", "comparing")
  /\ UNCHANGED <<clock, issued, started, uid, token, lastLogin>>

(* Mutant: the error of the query is not looked at. *)
UserNotFoundIgnored(r) ==
  /\ Go(r, "lookup", "comparing")
  /\ uid' = [uid EXCEPT ![r] = None]
  /\ UNCHANGED <<clock, issued, started, token, lastLogin>>

UserNotFound(r) == Reply(r, "lookup")

(* ComparePassword; else 401. *)
PasswordRight(r) ==
  /\ Go(r, "comparing", "signing")
  /\ lastLogin' = [lastLogin EXCEPT ![uid[r]] = clock]
  /\ UNCHANGED <<clock, issued, started, uid, token>>

PasswordWrong(r) == Reply(r, "comparing")

SignAccess(r) ==
  /\ Go(r, "signing", "granting")
  /\ token' = [token EXCEPT ![r] = Sign(AccessSecret, uid[r])]
  /\ UNCHANGED <<clock, issued, started, uid, lastLogin>>

(* The refresh token is signed with a reading of the clock of its own. *)
LoggedIn(r) == Grant(r, "granting", {token[r], Sign(RefreshSecret, uid[r])})

-----------------------------------------------------------------------------
(* POST /refresh.                                                          *)

Refresh(r, t) == Arrive(r, "verifying", None, t)

(* Mutant: the token is verified with the secret of the access tokens. *)
RefreshByAccess(r) ==
  /\ Verify(token[r], AccessSecret)
  /\ Identify(r, "verifying", "renewing", token[r])

RefreshValid(r) ==
  /\ Verify(token[r], RefreshSecret)
  /\ Identify(r, "verifying", "renewing", token[r])

RefreshRefused(r) ==
  /\ ~Verify(token[r], RefreshSecret)
  /\ Reply(r, "verifying")

Refreshed(r) == Grant(r, "renewing", {Sign(AccessSecret, uid[r])})

-----------------------------------------------------------------------------
(* GET /me, behind the Guard.                                              *)

(* extractToken: a cookie `jwt' hides the header Authorization. *)
Extracted(cookie, header) == IF cookie # None THEN cookie ELSE header

Me(r, cookie, header) == Arrive(r, "guarding", None, Extracted(cookie, header))

GuardPasses(r) ==
  /\ Verify(token[r], AccessSecret)
  /\ Identify(r, "guarding", "querying", token[r])

GuardRefuses(r) ==
  /\ ~Verify(token[r], AccessSecret)
  /\ Reply(r, "guarding")

(* GetUserByID: 200 with the user; or, 404, no row or any error. *)
Served(r) == Reply(r, "querying")
NotServed(r) == Reply(r, "querying")

-----------------------------------------------------------------------------
(* A request is not served for longer than MaxDelay. *)
Tick ==
  /\ clock < MaxTime
  /\ \A r \in Request : at[r] # "idle" => clock < started[r] + MaxDelay
  /\ clock' = clock + 1
  /\ UNCHANGED <<issued, requestVars, lastLogin>>

Carried == issued \cup {Junk, None}

LoginStep(r) ==
  \/ UserFound(r) \/ UserNotFound(r) \/ PasswordRight(r) \/ PasswordWrong(r)
  \/ SignAccess(r) \/ LoggedIn(r)

TokenStep(r) ==
  \/ RefreshValid(r) \/ RefreshRefused(r) \/ Refreshed(r)
  \/ GuardPasses(r) \/ GuardRefuses(r) \/ Served(r) \/ NotServed(r)

NewRequest(r) ==
  \/ \E user \in User : Login(r, user)
  \/ \E t \in issued \cup {Junk} : Refresh(r, t)
  \/ \E c, t \in Carried : Me(r, c, t)

Next ==
  \/ \E r \in Request : NewRequest(r) \/ LoginStep(r) \/ TokenStep(r)
  \/ Tick

Spec == Init /\ [][Next]_vars

-----------------------------------------------------------------------------
(* Properties.                                                             *)

(* Every variable has the type its declaration promises. *)
TypeOK ==
  /\ clock \in Nat
  /\ issued \subseteq Token
  /\ at \in [Request -> {"idle", "lookup", "comparing", "signing", "granting",
                         "verifying", "renewing", "guarding", "querying"}]
  /\ started \in [Request -> Nat]
  /\ uid \in [Request -> User \cup {None}]
  /\ token \in [Request -> Token \cup {Junk, None}]
  /\ lastLogin \in [User -> Nat \cup {-1}]

(* Sessions end: nobody is let in as a user whose password was not given   *)
(* within the lifetimes of both tokens and the time three requests take,   *)
(* by whatever chain of refreshes; and never as one who did not log in.    *)
SessionEnds ==
  \A r \in Request : at[r] = "querying" =>
    /\ lastLogin[uid[r]] >= 0
    /\ clock <= lastLogin[uid[r]] + RefreshTTL + AccessTTL + 3 * MaxDelay

(* A token is honoured for its purpose only, never from the end of its     *)
(* lifetime on, and always until less than a second before that.           *)
Honoured(t, key, ttl, passes) ==
  IF t \in Token /\ t.key = key
    THEN IF passes THEN clock < t.born + ttl ELSE clock > t.born + ttl - Second
    ELSE ~passes

LifetimesKept ==
  [][\A r \in Request :
       /\ (at[r] = "guarding" /\ at'[r] # at[r]) =>
            Honoured(token[r], AccessSecret, AccessTTL, at'[r] = "querying")
       /\ (at[r] = "verifying" /\ at'[r] # at[r]) =>
            Honoured(token[r], RefreshSecret, RefreshTTL, at'[r] = "renewing")]_vars
=============================================================================
