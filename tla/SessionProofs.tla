--------------------------- MODULE SessionProofs ---------------------------
(***************************************************************************)
(* Theorems about Session, for any number of users and requests and any    *)
(* lifetimes.                                                              *)
(***************************************************************************)
EXTENDS Session, TLAPS

-----------------------------------------------------------------------------
(* Type correctness.                                                       *)

TTL(key) == IF key = AccessSecret THEN AccessTTL ELSE RefreshTTL

(* Unix rounds down, by less than a second. *)
LEMMA UnixBounds ==
  ASSUME NEW n \in Nat
  PROVE  Unix(n) \in Int /\ n - Second < Unix(n) /\ Unix(n) <= n
  <1>1. n % Second \in 0..(Second - 1)
    BY TimeAssumption
  <1> QED
    BY <1>1, TimeAssumption DEF Unix

(* The claims of a token lie within a second of what was promised. *)
WellSigned(t) ==
  /\ t.born <= clock
  /\ t.exp <= t.born + TTL(t.key)
  /\ t.born + TTL(t.key) - Second < t.exp

LEMMA SignedToken ==
  ASSUME clock \in Nat, NEW key \in {AccessSecret, RefreshSecret}, NEW user \in User
  PROVE  /\ Sign(key, user) \in Token
         /\ Sign(key, user).key = key
         /\ Sign(key, user).uid = user
         /\ Sign(key, user).born = clock
         /\ WellSigned(Sign(key, user))
  <1> DEFINE end == clock + TTL(key)
  <1>1. end \in Nat /\ clock <= clock
    BY TimeAssumption DEF TTL
  <1>2. Unix(end) \in Int /\ end - Second < Unix(end) /\ Unix(end) <= end
    BY <1>1, UnixBounds
  <1>3. Sign(key, user) = [key |-> key, uid |-> user, born |-> clock, exp |-> Unix(end)]
    BY DEF Sign, TTL
  <1> HIDE DEF end
  <1>4. Sign(key, user) \in Token
    BY <1>2, <1>3 DEF Token
  <1>5. /\ Sign(key, user).key = key
        /\ Sign(key, user).uid = user
        /\ Sign(key, user).born = clock
        /\ Sign(key, user).exp = Unix(end)
    BY <1>3
  <1>6. TTL(Sign(key, user).key) = TTL(key) /\ TTL(key) \in Nat
    BY <1>5, TimeAssumption DEF TTL
  <1>7. \A born, exp, ttl : (born = clock /\ exp = Unix(end) /\ ttl = TTL(key)) =>
          born <= clock /\ exp <= born + ttl /\ born + ttl - Second < exp
    BY <1>1, <1>2, <1>6, TimeAssumption DEF end
  <1>8. WellSigned(Sign(key, user))
    BY <1>5, <1>6, <1>7, Zenon DEF WellSigned
  <1> QED
    BY <1>4, <1>5, <1>8

(* A request that has got past its look-up knows its user, and one that    *)
(* grants tokens has signed the first.                                     *)
Known ==
  \A r \in Request :
    /\ at[r] \in {"lookup", "comparing", "signing", "granting", "renewing", "querying"}
         => uid[r] \in User
    /\ at[r] = "granting" => token[r] \in Token

TypeInv == TypeOK /\ Known

(* A granting step leaves tokens with the clients. *)
LEMMA GrantTyped ==
  ASSUME TypeInv, NEW r \in Request, NEW from, NEW new \in SUBSET Token, Grant(r, from, new)
  PROVE  TypeInv'
  BY DEF TypeInv, TypeOK, Known, Grant, Respond, Go

LEMMA TypeStep ==
  ASSUME TypeInv, [Next]_vars
  PROVE  TypeInv'
  <1> USE DEF TypeInv, TypeOK, Known
  <1>1. ASSUME NEW r \in Request, NewRequest(r)
        PROVE  TypeInv'
    <2>1. ASSUME NEW user \in User, Login(r, user)
          PROVE  TypeInv'
      BY <2>1 DEF Login, Arrive, Go
    <2>2. ASSUME NEW t \in issued \cup {Junk}, Refresh(r, t)
          PROVE  TypeInv'
      BY <2>2 DEF Refresh, Arrive, Go
    <2>3. ASSUME NEW c \in Carried, NEW t \in Carried, Me(r, c, t)
          PROVE  TypeInv'
      BY <2>3 DEF Me, Arrive, Go, Extracted, Carried
    <2> QED
      BY <1>1, <2>1, <2>2, <2>3 DEF NewRequest
  <1>2. ASSUME NEW r \in Request, LoginStep(r)
        PROVE  TypeInv'
    <2>1. CASE UserFound(r)
      BY <2>1 DEF UserFound, Go
    <2>2. CASE UserNotFound(r) \/ PasswordWrong(r)
      BY <2>2 DEF UserNotFound, PasswordWrong, Reply, Respond, Go
    <2>3. CASE PasswordRight(r)
      BY <2>3 DEF PasswordRight, Go
    <2>4. CASE SignAccess(r)
      <3>1. Sign(AccessSecret, uid[r]) \in Token
        BY <2>4, SignedToken DEF SignAccess, Go
      <3> QED
        BY <2>4, <3>1 DEF SignAccess, Go
    <2>5. CASE LoggedIn(r)
      <3>1. Sign(RefreshSecret, uid[r]) \in Token
        BY <2>5, SignedToken DEF LoggedIn, Grant, Respond, Go
      <3>2. issued' \subseteq issued \cup {token[r], Sign(RefreshSecret, uid[r])}
        BY <2>5 DEF LoggedIn, Grant
      <3> QED
        BY <2>5, <3>1, <3>2 DEF LoggedIn, Grant, Respond, Go
    <2> QED
      BY <1>2, <2>1, <2>2, <2>3, <2>4, <2>5 DEF LoginStep
  <1>3. ASSUME NEW r \in Request, TokenStep(r)
        PROVE  TypeInv'
    <2>1. CASE RefreshValid(r)
      BY <2>1 DEF RefreshValid, Verify, Identify, Go, Token
    <2>2. CASE GuardPasses(r)
      BY <2>2 DEF GuardPasses, Verify, Identify, Go, Token
    <2>3. CASE RefreshRefused(r) \/ GuardRefuses(r) \/ Served(r) \/ NotServed(r)
      BY <2>3 DEF RefreshRefused, GuardRefuses, Served, NotServed, Reply, Respond, Go
    <2>4. CASE Refreshed(r)
      <3>1. Sign(AccessSecret, uid[r]) \in Token
        BY <2>4, SignedToken DEF Refreshed, Grant, Respond, Go
      <3> QED
        BY <2>4, <3>1, GrantTyped DEF Refreshed
    <2> QED
      BY <1>3, <2>1, <2>2, <2>3, <2>4 DEF TokenStep
  <1>4. CASE Tick
    BY <1>4 DEF Tick, requestVars
  <1>5. CASE UNCHANGED vars
    BY <1>5 DEF vars, requestVars
  <1> QED
    BY <1>1, <1>2, <1>3, <1>4, <1>5 DEF Next

LEMMA Typing == Spec => []TypeInv
  <1>1. Init => TypeInv
    BY DEF Init, TypeInv, TypeOK, Known
  <1> QED
    BY <1>1, TypeStep, PTL DEF Spec

(* Every variable of the sessions keeps its type. *)
THEOREM TypeCorrect == Spec => []TypeOK
  BY Typing, PTL DEF TypeInv
-----------------------------------------------------------------------------
(* The inductive invariant.                                                *)

(* A request in service came at most MaxDelay ago. *)
InTime ==
  \A r \in Request : at[r] # "idle" =>
    started[r] <= clock /\ clock <= started[r] + MaxDelay

LoginPast == \A u \in User : lastLogin[u] <= clock

(* How long after the password was given a token of a kind may be valid.   *)
Reach(key) ==
  IF key = AccessSecret THEN RefreshTTL + AccessTTL + 2 * MaxDelay
                        ELSE RefreshTTL + MaxDelay

(* A token goes back to a login, which bounds its end. *)
Rooted(t) ==
  /\ WellSigned(t)
  /\ lastLogin[t.uid] >= 0
  /\ t.exp <= lastLogin[t.uid] + Reach(t.key)

TokensRooted ==
  /\ \A t \in issued : Rooted(t)
  /\ \A r \in Request : token[r] \in Token => Rooted(token[r])

(* What a request has found out about its user. *)
LoginChecked ==
  \A r \in Request : at[r] \in {"signing", "granting"} =>
    started[r] <= lastLogin[uid[r]]

TokenChecked ==
  \A r \in Request :
    /\ at[r] = "renewing" =>
         /\ lastLogin[uid[r]] >= 0
         /\ started[r] <= lastLogin[uid[r]] + Reach(RefreshSecret)
    /\ at[r] = "querying" =>
         /\ lastLogin[uid[r]] >= 0
         /\ started[r] <= lastLogin[uid[r]] + Reach(AccessSecret)

IInv == InTime /\ LoginPast /\ TokensRooted /\ LoginChecked /\ TokenChecked

(* Time passing, and a later login, leave a token rooted. *)
LEMMA RootedStays ==
  ASSUME TypeInv, NEW t \in Token, Rooted(t),
         clock' \in Nat, clock' >= clock,
         lastLogin'[t.uid] \in Nat \cup {-1}, lastLogin'[t.uid] >= lastLogin[t.uid]
  PROVE  Rooted(t)'
  <1>1. /\ t.born \in Nat /\ t.exp \in Int /\ t.uid \in User
        /\ lastLogin[t.uid] \in Nat \cup {-1} /\ clock \in Nat
    BY DEF TypeInv, TypeOK, Token
  <1>2. Reach(t.key) \in Nat
    BY TimeAssumption DEF Reach
  <1>3. WellSigned(t)'
    BY <1>1 DEF Rooted, WellSigned
  <1> QED
    BY <1>1, <1>2, <1>3 DEF Rooted

(* A login's tokens are rooted in it. *)
LEMMA LoginRoots ==
  ASSUME TypeInv, InTime, LoginPast, LoginChecked, NEW r \in Request,
         at[r] \in {"signing", "granting"}, NEW key \in {AccessSecret, RefreshSecret}
  PROVE  Sign(key, uid[r]) \in Token /\ Rooted(Sign(key, uid[r]))
  <1> DEFINE t == Sign(key, uid[r])
  <1>1. /\ uid[r] \in User /\ clock \in Nat /\ started[r] \in Nat
        /\ lastLogin[uid[r]] \in Nat \cup {-1}
    BY DEF TypeInv, TypeOK, Known
  <1>2. t \in Token /\ t.key = key /\ t.uid = uid[r] /\ t.born = clock /\ WellSigned(t)
    BY <1>1, SignedToken
  <1>3. started[r] <= lastLogin[uid[r]] /\ clock <= started[r] + MaxDelay
    BY DEF InTime, LoginChecked
  <1>4. t.exp \in Int /\ t.exp <= clock + TTL(key)
    BY <1>2 DEF WellSigned, Token
  <1> HIDE DEF t
  <1>5. MaxDelay + TTL(key) <= Reach(key) /\ TTL(key) \in Nat /\ Reach(key) \in Nat
    BY TimeAssumption, SecretAssumption DEF TTL, Reach
  <1>6. lastLogin[uid[r]] >= 0 /\ t.exp <= lastLogin[uid[r]] + Reach(key)
    BY <1>1, <1>3, <1>4, <1>5, TimeAssumption
  <1>7. Rooted(t)
    BY <1>2, <1>6 DEF Rooted
  <1> QED
    BY <1>2, <1>7 DEF t

(* A renewed token is rooted in the login of the token it renews. *)
LEMMA RenewalRoots ==
  ASSUME TypeInv, InTime, TokenChecked, NEW r \in Request, at[r] = "renewing"
  PROVE  Sign(AccessSecret, uid[r]) \in Token /\ Rooted(Sign(AccessSecret, uid[r]))
  <1> DEFINE t == Sign(AccessSecret, uid[r])
  <1>1. /\ uid[r] \in User /\ clock \in Nat /\ started[r] \in Nat
        /\ lastLogin[uid[r]] \in Nat \cup {-1}
    BY DEF TypeInv, TypeOK, Known
  <1>2. /\ t \in Token /\ t.key = AccessSecret /\ t.uid = uid[r] /\ t.born = clock
        /\ WellSigned(t)
    BY <1>1, SignedToken
  <1>3. /\ lastLogin[uid[r]] >= 0 /\ clock <= started[r] + MaxDelay
        /\ started[r] <= lastLogin[uid[r]] + Reach(RefreshSecret)
    BY DEF InTime, TokenChecked
  <1>4. t.exp \in Int /\ t.exp <= clock + AccessTTL
    BY <1>2 DEF WellSigned, Token, TTL
  <1> HIDE DEF t
  <1>5. /\ Reach(RefreshSecret) = RefreshTTL + MaxDelay
        /\ Reach(AccessSecret) = RefreshTTL + AccessTTL + 2 * MaxDelay
    BY SecretAssumption DEF Reach
  <1>6. t.exp <= lastLogin[uid[r]] + Reach(AccessSecret)
    BY <1>1, <1>3, <1>4, <1>5, TimeAssumption
  <1>7. Rooted(t)
    BY <1>2, <1>3, <1>6 DEF Rooted
  <1> QED
    BY <1>2, <1>7 DEF t

(* A step that leaves the clock and the logins alone and only changes what *)
(* one request is doing, to tokens that are rooted, keeps the tokens so.   *)
LEMMA StillRooted ==
  ASSUME TypeInv, TokensRooted, UNCHANGED <<clock, lastLogin>>,
         \A t \in issued' : t \in issued \/ (t \in Token /\ Rooted(t)),
         \A r \in Request : token'[r] \in Token =>
           Rooted(token'[r]) \/ token'[r] = token[r]
  PROVE  TokensRooted'
  BY DEF TypeInv, TypeOK, TokensRooted, Rooted, WellSigned

(* A request ends; nothing is left of it. *)
LEMMA RespondSafe ==
  ASSUME TypeInv, IInv, NEW r \in Request, NEW from, Respond(r, from),
         \A t \in issued' : t \in issued \/ (t \in Token /\ Rooted(t))
  PROVE  IInv'
  <1> USE DEF TypeInv, TypeOK, IInv, Respond, Go
  <1>1. TokensRooted'
    BY StillRooted, NoTokenAssumption
  <1> QED
    BY <1>1 DEF InTime, LoginPast, LoginChecked, TokenChecked

LEMMA ReplySafe ==
  ASSUME TypeInv, IInv, NEW r \in Request, NEW from, Reply(r, from)
  PROVE  IInv'
  BY RespondSafe DEF Reply

(* A request arrives with a token of the clients, or with none. *)
LEMMA ArriveSafe ==
  ASSUME TypeInv, IInv, NEW r \in Request, NEW to \in {"lookup", "verifying", "guarding"},
         NEW user, NEW t \in issued \cup {Junk, None}, Arrive(r, to, user, t)
  PROVE  IInv'
  <1> USE DEF TypeInv, TypeOK, IInv, Arrive, Go
  <1>1. TokensRooted'
    BY StillRooted, NoTokenAssumption DEF TokensRooted
  <1>2. InTime'
    BY TimeAssumption DEF InTime
  <1> QED
    BY <1>1, <1>2 DEF LoginPast, LoginChecked, TokenChecked

(* A verified token says what its login allows. *)
LEMMA VerifyChecks ==
  ASSUME TypeInv, IInv, NEW r \in Request, at[r] # "idle",
         NEW key \in {AccessSecret, RefreshSecret}, Verify(token[r], key)
  PROVE  /\ token[r] \in Token /\ token[r].uid \in User
         /\ lastLogin[token[r].uid] >= 0
         /\ started[r] <= lastLogin[token[r].uid] + Reach(key)
  <1> DEFINE t == token[r]
  <1>1. t \in Token /\ t.key = key /\ clock < t.exp /\ Rooted(t)
    BY DEF Verify, IInv, TokensRooted
  <1>2. /\ t.uid \in User /\ t.exp \in Int /\ clock \in Nat /\ started[r] \in Nat
        /\ lastLogin[t.uid] \in Nat \cup {-1}
    BY <1>1 DEF TypeInv, TypeOK, Token
  <1>3. /\ started[r] <= clock /\ lastLogin[t.uid] >= 0
        /\ t.exp <= lastLogin[t.uid] + Reach(key)
    BY <1>1 DEF IInv, InTime, Rooted
  <1>4. Reach(key) \in Nat
    BY TimeAssumption DEF Reach
  <1> HIDE DEF t
  <1>5. started[r] <= lastLogin[t.uid] + Reach(key)
    BY <1>1, <1>2, <1>3, <1>4
  <1> QED
    BY <1>1, <1>2, <1>3, <1>5 DEF t

LEMMA IdentifySafe ==
  ASSUME TypeInv, IInv, NEW r \in Request, NEW from, from # "idle",
         NEW key \in {AccessSecret, RefreshSecret}, Verify(token[r], key),
         Identify(r, from, IF key = AccessSecret THEN "querying" ELSE "renewing", token[r])
  PROVE  IInv'
  <1> DEFINE to == IF key = AccessSecret THEN "querying" ELSE "renewing"
  <1> USE DEF TypeInv, TypeOK, IInv, Identify, Go
  <1>1. /\ lastLogin[token[r].uid] >= 0
        /\ started[r] <= lastLogin[token[r].uid] + Reach(key)
    BY VerifyChecks
  <1>2. TokensRooted'
    BY StillRooted, NoTokenAssumption
  <1>3. InTime' /\ LoginPast' /\ LoginChecked'
    BY DEF InTime, LoginPast, LoginChecked
  <1>4. uid'[r] = token[r].uid /\ at'[r] = to
    OBVIOUS
  <1>5. ASSUME NEW q \in Request, q # r
        PROVE  at'[q] = at[q] /\ uid'[q] = uid[q]
    BY <1>5
  <1>6. TokenChecked'
    BY <1>1, <1>4, <1>5, SecretAssumption DEF TokenChecked, Reach
  <1> QED
    BY <1>2, <1>3, <1>6

LEMMA SafeStep ==
  ASSUME TypeInv, IInv, [Next]_vars
  PROVE  IInv'
  <1> USE DEF TypeInv, TypeOK
  <1>1. ASSUME NEW r \in Request, NewRequest(r)
        PROVE  IInv'
    <2>1. ASSUME NEW user \in User, Login(r, user)
          PROVE  IInv'
      BY <2>1, ArriveSafe DEF Login
    <2>2. ASSUME NEW t \in issued \cup {Junk}, Refresh(r, t)
          PROVE  IInv'
      BY <2>2, ArriveSafe DEF Refresh
    <2>3. ASSUME NEW c \in Carried, NEW t \in Carried, Me(r, c, t)
          PROVE  IInv'
      <3>1. Extracted(c, t) \in issued \cup {Junk, None}
        BY DEF Extracted, Carried
      <3> QED
        BY <2>3, <3>1, ArriveSafe DEF Me
    <2> QED
      BY <1>1, <2>1, <2>2, <2>3 DEF NewRequest
  <1>2. ASSUME NEW r \in Request, LoginStep(r)
        PROVE  IInv'
    <2>1. CASE UserFound(r)
      <3>1. TokensRooted'
        BY <2>1, StillRooted DEF UserFound, IInv
      <3> QED
        BY <2>1, <3>1 DEF UserFound, Go, IInv, InTime, LoginPast, LoginChecked, TokenChecked
    <2>2. CASE UserNotFound(r) \/ PasswordWrong(r)
      BY <2>2, ReplySafe DEF UserNotFound, PasswordWrong
    <2>3. CASE PasswordRight(r)
      <3>1. uid[r] \in User
        BY <2>3 DEF PasswordRight, Go, Known
      <3>2. \A u \in User : /\ lastLogin'[u] \in Nat \cup {-1}
                            /\ lastLogin'[u] >= lastLogin[u]
                            /\ lastLogin'[u] <= clock
        BY <2>3, <3>1 DEF PasswordRight, IInv, LoginPast
      <3>3. TokensRooted'
        <4>1. ASSUME NEW t \in Token, Rooted(t)
              PROVE  Rooted(t)'
          <5>1. t.uid \in User
            BY DEF Token
          <5> QED
            BY <4>1, <5>1, <2>3, <3>2, RootedStays DEF PasswordRight
        <4> QED
          BY <2>3, <4>1 DEF PasswordRight, IInv, TokensRooted
      <3>4. InTime' /\ LoginPast'
        BY <2>3, <3>2 DEF PasswordRight, Go, IInv, InTime, LoginPast
      <3>5. LoginChecked'
        <4>1. lastLogin'[uid[r]] = clock /\ started[r] <= clock
          BY <2>3, <3>1 DEF PasswordRight, Go, IInv, InTime
        <4>2. ASSUME NEW q \in Request, at'[q] \in {"signing", "granting"}
              PROVE  started[q] <= lastLogin'[uid[q]]
          <5>1. CASE q = r
            BY <4>1, <5>1
          <5>2. CASE q # r
            <6>1. started[q] <= lastLogin[uid[q]] /\ uid[q] \in User
              BY <2>3, <4>2, <5>2 DEF PasswordRight, Go, IInv, LoginChecked, Known
            <6> QED
              BY <3>2, <6>1
          <5> QED
            BY <5>1, <5>2
        <4> QED
          BY <2>3, <4>2 DEF PasswordRight, LoginChecked
      <3>6. TokenChecked'
        <4>1. ASSUME NEW q \in Request, at'[q] \in {"renewing", "querying"}
              PROVE  at[q] = at'[q] /\ uid[q] \in User
          BY <2>3, <4>1 DEF PasswordRight, Go, Known
        <4>2. Reach(AccessSecret) \in Nat /\ Reach(RefreshSecret) \in Nat
          BY TimeAssumption DEF Reach
        <4> QED
          BY <2>3, <3>2, <4>1, <4>2 DEF PasswordRight, IInv, TokenChecked, Reach
      <3> QED
        BY <3>3, <3>4, <3>5, <3>6 DEF IInv
    <2>4. CASE SignAccess(r)
      <3>1. Rooted(Sign(AccessSecret, uid[r]))
        BY <2>4, LoginRoots DEF SignAccess, Go, IInv
      <3>2. TokensRooted'
        BY <2>4, <3>1, StillRooted DEF SignAccess, IInv
      <3> QED
        BY <2>4, <3>2 DEF SignAccess, Go, IInv, InTime, LoginPast, LoginChecked, TokenChecked
    <2>5. CASE LoggedIn(r)
      <3>1. /\ token[r] \in Token /\ Rooted(token[r])
            /\ Sign(RefreshSecret, uid[r]) \in Token /\ Rooted(Sign(RefreshSecret, uid[r]))
        BY <2>5, LoginRoots DEF LoggedIn, Grant, Respond, Go, IInv, Known, TokensRooted
      <3> QED
        BY <2>5, <3>1, RespondSafe DEF LoggedIn, Grant
    <2> QED
      BY <1>2, <2>1, <2>2, <2>3, <2>4, <2>5 DEF LoginStep
  <1>3. ASSUME NEW r \in Request, TokenStep(r)
        PROVE  IInv'
    <2>1. CASE RefreshValid(r)
      BY <2>1, SecretAssumption, IdentifySafe DEF RefreshValid
    <2>2. CASE GuardPasses(r)
      BY <2>2, IdentifySafe DEF GuardPasses
    <2>3. CASE RefreshRefused(r) \/ GuardRefuses(r) \/ Served(r) \/ NotServed(r)
      BY <2>3, ReplySafe DEF RefreshRefused, GuardRefuses, Served, NotServed
    <2>4. CASE Refreshed(r)
      <3>1. /\ Sign(AccessSecret, uid[r]) \in Token
            /\ Rooted(Sign(AccessSecret, uid[r]))
        BY <2>4, RenewalRoots DEF Refreshed, Grant, Respond, Go, IInv
      <3> QED
        BY <2>4, <3>1, RespondSafe DEF Refreshed, Grant
    <2> QED
      BY <1>3, <2>1, <2>2, <2>3, <2>4 DEF TokenStep
  <1>4. CASE Tick
    <2>1. clock' = clock + 1 /\ UNCHANGED <<issued, requestVars, lastLogin>>
      BY <1>4 DEF Tick
    <2>2. InTime'
      BY <1>4, TimeAssumption DEF Tick, requestVars, IInv, InTime
    <2>3. LoginPast'
      BY <2>1 DEF IInv, LoginPast
    <2>4. TokensRooted'
      <3>1. ASSUME NEW t \in Token, Rooted(t)
            PROVE  Rooted(t)'
        <4>1. t.uid \in User
          BY DEF Token
        <4> QED
          BY <2>1, <3>1, <4>1, RootedStays
      <3> QED
        BY <2>1, <3>1 DEF requestVars, IInv, TokensRooted
    <2> QED
      BY <2>1, <2>2, <2>3, <2>4 DEF requestVars, IInv, LoginChecked, TokenChecked
  <1>5. CASE UNCHANGED vars
    BY <1>5 DEF vars, requestVars, IInv, InTime, LoginPast, TokensRooted, Rooted,
      WellSigned, LoginChecked, TokenChecked
  <1> QED
    BY <1>1, <1>2, <1>3, <1>4, <1>5 DEF Next

LEMMA Safety == Spec => []IInv
  <1>1. Init => IInv
    BY NoTokenAssumption
    DEF Init, IInv, InTime, LoginPast, TokensRooted, LoginChecked, TokenChecked
  <1> QED
    BY <1>1, SafeStep, Typing, PTL DEF Spec

(* Whatever chain of refreshes a user's clients go through, nobody is let  *)
(* in as the user once both lifetimes have passed since the password was   *)
(* last given.                                                             *)
THEOREM EverySessionEnds == Spec => []SessionEnds
  <1>1. TypeInv /\ IInv => SessionEnds
    <2> SUFFICES ASSUME TypeInv, IInv, NEW r \in Request, at[r] = "querying"
                 PROVE  /\ lastLogin[uid[r]] >= 0
                        /\ clock <= lastLogin[uid[r]] + RefreshTTL + AccessTTL + 3 * MaxDelay
      BY DEF SessionEnds
    <2>1. /\ uid[r] \in User /\ clock \in Nat /\ started[r] \in Nat
          /\ lastLogin[uid[r]] \in Nat \cup {-1}
      BY DEF TypeInv, TypeOK, Known
    <2>2. /\ lastLogin[uid[r]] >= 0 /\ clock <= started[r] + MaxDelay
          /\ started[r] <= lastLogin[uid[r]] + RefreshTTL + AccessTTL + 2 * MaxDelay
      BY <2>1, TimeAssumption DEF IInv, InTime, TokenChecked, Reach
    <2> QED
      BY <2>1, <2>2, TimeAssumption
  <1> QED
    BY <1>1, Typing, Safety, PTL

(* A verdict on a token agrees with the lifetime it was signed for. *)
LEMMA VerdictHonours ==
  ASSUME TypeInv, NEW t \in Token \cup {Junk, None}, t \in Token => WellSigned(t),
         NEW key \in {AccessSecret, RefreshSecret}, NEW passes \in BOOLEAN,
         passes <=> Verify(t, key)
  PROVE  Honoured(t, key, TTL(key), passes)
  <1>1. CASE t \in Token /\ t.key = key
    <2>1. /\ t.born \in Nat /\ t.exp \in Int /\ clock \in Nat
          /\ TTL(key) \in Nat /\ t.exp <= t.born + TTL(key)
          /\ t.born + TTL(key) - Second < t.exp
      BY <1>1, TimeAssumption DEF Token, TypeInv, TypeOK, WellSigned, TTL
    <2>2. CASE passes
      <3>1. clock < t.exp
        BY <2>2 DEF Verify
      <3>2. clock < t.born + TTL(key)
        BY <2>1, <3>1
      <3> QED
        BY <1>1, <2>2, <3>2 DEF Honoured
    <2>3. CASE ~passes
      <3>1. ~(clock < t.exp)
        BY <1>1, <2>3 DEF Verify
      <3>2. clock > t.born + TTL(key) - Second
        BY <2>1, <3>1, TimeAssumption
      <3> QED
        BY <1>1, <2>3, <3>2 DEF Honoured
    <2> QED
      BY <2>2, <2>3
  <1>2. CASE ~(t \in Token /\ t.key = key)
    BY <1>2 DEF Honoured, Verify
  <1> QED
    BY <1>1, <1>2

(* A step that moves a request on from judging a token has verified it. *)
LEMMA Verdicts ==
  ASSUME TypeInv, [Next]_vars, NEW r \in Request, at'[r] # at[r]
  PROVE  /\ at[r] = "guarding" =>
              (at'[r] = "querying" <=> Verify(token[r], AccessSecret))
         /\ at[r] = "verifying" =>
              (at'[r] = "renewing" <=> Verify(token[r], RefreshSecret))
  <1> USE DEF TypeInv, TypeOK, Go
  <1>1. ASSUME NEW q \in Request, NewRequest(q) \/ LoginStep(q) \/ TokenStep(q)
        PROVE  q = r
    <2>1. \E from, to : Go(q, from, to)
      <3>1. CASE NewRequest(q)
        BY <3>1 DEF NewRequest, Login, Refresh, Me, Arrive
      <3>2. CASE LoginStep(q)
        BY <3>2 DEF LoginStep, UserFound, UserNotFound, PasswordRight, PasswordWrong,
          SignAccess, LoggedIn, Reply, Grant, Respond
      <3>3. CASE TokenStep(q)
        BY <3>3 DEF TokenStep, RefreshValid, RefreshRefused, Refreshed, GuardPasses,
          GuardRefuses, Served, NotServed, Reply, Grant, Respond, Identify
      <3> QED
        BY <1>1, <3>1, <3>2, <3>3
    <2> QED
      BY <2>1
  <1>2. CASE NewRequest(r)
    BY <1>2 DEF NewRequest, Login, Refresh, Me, Arrive
  <1>3. CASE LoginStep(r)
    BY <1>3 DEF LoginStep, UserFound, UserNotFound, PasswordRight, PasswordWrong,
      SignAccess, LoggedIn, Reply, Grant, Respond
  <1>4. CASE TokenStep(r)
    BY <1>4 DEF TokenStep, RefreshValid, RefreshRefused, Refreshed, GuardPasses,
      GuardRefuses, Served, NotServed, Reply, Grant, Respond, Identify
  <1>5. CASE Tick \/ UNCHANGED vars
    BY <1>5 DEF Tick, vars, requestVars
  <1> QED
    BY <1>1, <1>2, <1>3, <1>4, <1>5 DEF Next

(* Tokens are honoured for their purpose and for their lifetime, to less   *)
(* than a second.                                                          *)
THEOREM LifetimesExact == Spec => LifetimesKept
  <1>1. TypeInv /\ IInv /\ [Next]_vars =>
          [\A r \in Request :
             /\ (at[r] = "guarding" /\ at'[r] # at[r]) =>
                  Honoured(token[r], AccessSecret, AccessTTL, at'[r] = "querying")
             /\ (at[r] = "verifying" /\ at'[r] # at[r]) =>
                  Honoured(token[r], RefreshSecret, RefreshTTL, at'[r] = "renewing")]_vars
    <2> SUFFICES ASSUME TypeInv, IInv, [Next]_vars, NEW r \in Request, at'[r] # at[r]
                 PROVE  /\ at[r] = "guarding" =>
                             Honoured(token[r], AccessSecret, AccessTTL, at'[r] = "querying")
                        /\ at[r] = "verifying" =>
                             Honoured(token[r], RefreshSecret, RefreshTTL, at'[r] = "renewing")
      OBVIOUS
    <2>1. /\ token[r] \in Token \cup {Junk, None}
          /\ token[r] \in Token => WellSigned(token[r])
      BY DEF TypeInv, TypeOK, IInv, TokensRooted, Rooted
    <2>2. TTL(AccessSecret) = AccessTTL /\ TTL(RefreshSecret) = RefreshTTL
      BY SecretAssumption DEF TTL
    <2>3. CASE at[r] = "guarding"
      <3>1. Honoured(token[r], AccessSecret, TTL(AccessSecret), at'[r] = "querying")
        BY <2>1, <2>3, Verdicts, VerdictHonours
      <3> QED
        BY <2>2, <2>3, <3>1
    <2>4. CASE at[r] = "verifying"
      <3>1. Honoured(token[r], RefreshSecret, TTL(RefreshSecret), at'[r] = "renewing")
        BY <2>1, <2>4, Verdicts, VerdictHonours
      <3> QED
        BY <2>2, <2>4, <3>1
    <2> QED
      BY <2>3, <2>4
  <1> QED
    BY <1>1, Typing, Safety, PTL DEF Spec, LifetimesKept
=============================================================================
