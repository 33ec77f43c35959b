--------------------------- MODULE RateLimiter ---------------------------
(***************************************************************************)
(* The per-IP rate limiter of internal/middlewares/ratelimit_middleware.go *)
(* and its clean-up goroutine.  A request decides, and the clean-up runs,  *)
(* inside one critical section of rl.mu each, so each is one step.         *)
(*                                                                         *)
(* The clock counts ticks.  Within a tick any number of steps happens, so  *)
(* two of them may read the same time.Now(); the code compares strictly    *)
(* (After), so an entry still holds at the very instant windowEnd.         *)
(***************************************************************************)
EXTENDS Integers, Sequences

CONSTANTS
  IP,        \* what utils.GetIP makes of the requests
  Limit,     \* rl.limit; nothing in config.go keeps it from being negative
  Window,    \* rl.window in ticks; time.NewTicker panics unless positive
  MaxTime,   \* bound: the clock stops here
  MaxCount   \* bound: requests counted in one window

ASSUME LimitAssumption == Limit \in Int
ASSUME WindowAssumption == Window \in Nat \ {0}
ASSUME MaxTimeAssumption == MaxTime \in Nat
ASSUME MaxCountAssumption == MaxCount \in Nat

VARIABLES
  now,       \* time.Now()
  entries,   \* rl.entries, a map from IPs to entries
  nextFire,  \* when the ticker of cleanup fires next
  fired,     \* whether a tick waits in ticker.C, which holds at most one
  admitted,  \* history: when each IP's requests were passed on, in order
  verdict    \* history: the last answer to each IP and its instant

vars == <<now, entries, nextFire, fired, admitted, verdict>>

(* The first request of a window is counted without a look at the limit. *)
Budget == IF Limit < 1 THEN 1 ELSE Limit

NoVerdict == [ok |-> TRUE, at |-> 0]

Init ==
  /\ now = 0
  /\ entries = [ip \in {} |-> [count |-> 0, windowEnd |-> 0]]
  /\ nextFire = Window
  /\ fired = FALSE
  /\ admitted = [ip \in IP |-> <<>>]
  /\ verdict = [ip \in IP |-> NoVerdict]

(* now.After(entry.windowEnd) *)
Expired(ip) == now > entries[ip].windowEnd

(* The IPs whose window is not over. *)
Live == {ip \in DOMAIN entries : ~Expired(ip)}

(* next.ServeHTTP, or a 429. *)
Pass(ip) ==
  /\ admitted' = [admitted EXCEPT ![ip] = Append(@, now)]
  /\ verdict' = [verdict EXCEPT ![ip] = [ok |-> TRUE, at |-> now]]

TooMany(ip) ==
  /\ verdict' = [verdict EXCEPT ![ip] = [ok |-> FALSE, at |-> now]]
  /\ UNCHANGED admitted

-----------------------------------------------------------------------------
(* Middleware.                                                             *)

(* No entry, or one that has expired: a new window with this request. *)
NewEntry(ip) ==
  /\ ip \notin Live
  /\ entries' = [i \in DOMAIN entries \cup {ip} |->
                   IF i = ip THEN [count |-> 1, windowEnd |-> now + Window] ELSE entries[i]]
  /\ Pass(ip)
  /\ UNCHANGED <<now, nextFire, fired>>

(* Mutant: the limit is compared before the request is counted. *)
CountLate(ip) ==
  /\ ip \in Live
  /\ entries[ip].count < MaxCount
  /\ entries' = [entries EXCEPT ![ip].count = @ + 1]
  /\ IF entries[ip].count > Limit THEN TooMany(ip) ELSE Pass(ip)
  /\ UNCHANGED <<now, nextFire, fired>>

(* Mutant: an expired entry still counts. *)
CountExpired(ip) ==
  /\ ip \in DOMAIN entries
  /\ entries[ip].count < MaxCount
  /\ entries' = [entries EXCEPT ![ip].count = @ + 1]
  /\ IF entries[ip].count + 1 > Limit THEN TooMany(ip) ELSE Pass(ip)
  /\ UNCHANGED <<now, nextFire, fired>>

(* A live entry: the request is counted, then compared with the limit. *)
Count(ip) ==
  /\ ip \in Live
  /\ entries[ip].count < MaxCount
  /\ entries' = [entries EXCEPT ![ip].count = @ + 1]
  /\ IF entries[ip].count + 1 > Limit THEN TooMany(ip) ELSE Pass(ip)
  /\ UNCHANGED <<now, nextFire, fired>>

-----------------------------------------------------------------------------
(* cleanup, and the clock with its ticker.                                 *)

(* Mutant: every entry goes, whether or not its window is over. *)
CleanupAll ==
  /\ fired
  /\ fired' = FALSE
  /\ entries' = [i \in {} |-> [count |-> 0, windowEnd |-> 0]]
  /\ UNCHANGED <<now, nextFire, admitted, verdict>>

(* Mutant: nothing is evicted. *)
CleanupNothing ==
  /\ fired
  /\ fired' = FALSE
  /\ UNCHANGED <<now, entries, nextFire, admitted, verdict>>

(* A tick is received: every expired entry is deleted under the lock. *)
Cleanup ==
  /\ fired
  /\ fired' = FALSE
  /\ entries' = [i \in Live |-> entries[i]]
  /\ UNCHANGED <<now, nextFire, admitted, verdict>>

(* Mutant: the ticker is a one-shot timer. *)
TickOnce ==
  /\ now < MaxTime
  /\ now' = now + 1
  /\ fired' = (fired \/ now + 1 = nextFire)
  /\ UNCHANGED <<entries, nextFire, admitted, verdict>>

(* Time passes.  The ticker fires every Window, and drops the tick when the *)
(* previous one has not been received.                                     *)
Tick ==
  /\ now < MaxTime
  /\ now' = now + 1
  /\ fired' = (fired \/ now + 1 = nextFire)
  /\ nextFire' = IF now + 1 = nextFire THEN nextFire + Window ELSE nextFire
  /\ UNCHANGED <<entries, admitted, verdict>>

(* The clock has reached its bound and the windows are used up. *)
Stopped == now = MaxTime /\ UNCHANGED vars

-----------------------------------------------------------------------------
Next ==
  \/ \E ip \in IP : NewEntry(ip) \/ Count(ip)
  \/ Cleanup
  \/ Tick
  \/ Stopped

Spec == Init /\ [][Next]_vars

-----------------------------------------------------------------------------
(* Properties.                                                             *)

(* Every variable has the type its declaration promises, and the ticker    *)
(* always has a next tick within a window's length.                        *)
TypeOK ==
  /\ now \in 0..MaxTime
  /\ DOMAIN entries \subseteq IP
  /\ entries \in [DOMAIN entries -> [count : Nat \ {0}, windowEnd : Nat]]
  /\ \A ip \in DOMAIN entries : entries[ip].windowEnd \in Window .. now + Window
  /\ nextFire \in now + 1 .. now + Window
  /\ fired \in BOOLEAN
  /\ admitted \in [IP -> Seq(0..MaxTime)]
  /\ verdict \in [IP -> [ok : BOOLEAN, at : 0..MaxTime]]

(* However requests, window ends and clean-ups fall, 2 * Budget requests   *)
(* of one IP are never admitted within a window's length: a burst across   *)
(* the end of a window gets one less, because the request that opens the   *)
(* window lies too far back (ratelimit_middleware.go:48).                  *)
BurstBound ==
  \A ip \in IP : \A i, j \in DOMAIN admitted[ip] :
    j >= i + 2 * Budget - 1 => admitted[ip][j] - admitted[ip][i] > Window

(* A request answered 429 had at least Budget requests of its IP admitted  *)
(* within the last window's length: nobody is refused for what another IP  *)
(* did or for what it did in a window that is over.                        *)
RefusedOverBudget ==
  \A ip \in IP : ~verdict[ip].ok =>
    LET a == admitted[ip] IN
      /\ Len(a) >= Budget
      /\ verdict[ip].at - a[Len(a) - Budget + 1] <= Window

(* Whenever no tick waits for the clean-up, no entry has been expired for  *)
(* a whole window's length: entries of IPs that never return do not pile   *)
(* up, although ticks are dropped while the clean-up is late.              *)
StaleBounded ==
  ~fired => \A ip \in DOMAIN entries : now < entries[ip].windowEnd + Window

(* The map and its clean-up implement windows that close by themselves:    *)
(* evicting an entry never changes what a later request is answered.       *)
Spent(ip) == IF entries[ip].count > Budget THEN Budget ELSE entries[ip].count

OpenWindows ==
  [ip \in Live |-> [used |-> Spent(ip), end |-> entries[ip].windowEnd]]

Abstract == INSTANCE FixedWindow WITH windows <- OpenWindows

ImplementsFixedWindow == Abstract!Spec

(* What README.md:162 and the comments of the code say: the limiter is a   *)
(* sliding window that allows Limit requests per window and IP.            *)
SlidingWindow ==
  \A ip \in IP : \A i, j \in DOMAIN admitted[ip] :
    j >= i + Limit => admitted[ip][j] - admitted[ip][i] >= Window
=============================================================================
