--------------------------- MODULE FixedWindow ---------------------------
(***************************************************************************)
(* What a per-IP fixed-window limiter promises, without a map to clean up: *)
(* the first request of an IP opens a window, a window closes by itself    *)
(* when it is over, and an open window admits at most Budget requests.     *)
(***************************************************************************)
EXTENDS Integers, Sequences

CONSTANTS
  IP,       \* the clients' addresses
  Limit,    \* requests per window, as configured
  Window,   \* length of a window, in ticks of the clock
  MaxTime   \* bound: the clock stops here

VARIABLES
  now,       \* the clock
  windows,   \* the open windows: how much is used, and the last instant
  admitted,  \* history: when each IP's requests were admitted, in order
  verdict    \* history: the last answer, to whom and when

vars == <<now, windows, admitted, verdict>>

(* A window is opened by a request, which is admitted unasked. *)
Budget == IF Limit < 1 THEN 1 ELSE Limit

NoVerdict == [ok |-> TRUE, at |-> 0]

Init ==
  /\ now = 0
  /\ windows = [ip \in {} |-> [used |-> 0, end |-> 0]]
  /\ admitted = [ip \in IP |-> <<>>]
  /\ verdict = [ip \in IP |-> NoVerdict]

Answer(ip, ok) == verdict' = [verdict EXCEPT ![ip] = [ok |-> ok, at |-> now]]

Admit(ip) ==
  /\ admitted' = [admitted EXCEPT ![ip] = Append(@, now)]
  /\ Answer(ip, TRUE)

Open(ip) ==
  /\ ip \notin DOMAIN windows
  /\ windows' = [i \in DOMAIN windows \cup {ip} |->
                   IF i = ip THEN [used |-> 1, end |-> now + Window] ELSE windows[i]]
  /\ Admit(ip)
  /\ UNCHANGED now

Spend(ip) ==
  /\ ip \in DOMAIN windows
  /\ windows[ip].used < Budget
  /\ windows' = [windows EXCEPT ![ip].used = @ + 1]
  /\ Admit(ip)
  /\ UNCHANGED now

Refuse(ip) ==
  /\ ip \in DOMAIN windows
  /\ windows[ip].used = Budget
  /\ Answer(ip, FALSE)
  /\ UNCHANGED <<now, windows, admitted>>

(* Time passes, and the windows that are over close. *)
Tick ==
  /\ now < MaxTime
  /\ now' = now + 1
  /\ windows' = [i \in {ip \in DOMAIN windows : now + 1 <= windows[ip].end} |-> windows[i]]
  /\ UNCHANGED <<admitted, verdict>>

Next ==
  \/ \E ip \in IP : Open(ip) \/ Spend(ip) \/ Refuse(ip)
  \/ Tick

Spec == Init /\ [][Next]_vars
=============================================================================
