----------------------------- MODULE Registry -----------------------------
(***************************************************************************)
(* What registering accounts promises, one request at a time: an email has *)
(* one account for ever, and an answer tells the truth about it.           *)
(***************************************************************************)
CONSTANTS
  Request,  \* the requests that register an account
  None      \* no account

VARIABLES
  want,    \* the email each request registers
  row,     \* the request that created the account of an email
  answer   \* the status each request was answered with

vars == <<want, row, answer>>

Taken(r) == row[want[r]] \notin {None, r}

Init ==
  /\ row = [e \in DOMAIN row |-> None]
  /\ answer = [r \in Request |-> "none"]

Create(r) ==
  /\ answer[r] = "none"
  /\ row[want[r]] = None
  /\ row' = [row EXCEPT ![want[r]] = r]
  /\ UNCHANGED <<want, answer>>

(* 500 promises nothing: the account may have been created. *)
Reply(r, status) ==
  /\ answer[r] = "none"
  /\ status = "201" => row[want[r]] = r
  /\ status = "409" => Taken(r)
  /\ status \in {"400", "422"} => row[want[r]] # r
  /\ answer' = [answer EXCEPT ![r] = status]
  /\ UNCHANGED <<want, row>>

Next ==
  \E r \in Request :
    \/ Create(r)
    \/ \E status \in {"201", "400", "409", "422", "500"} : Reply(r, status)

Spec == Init /\ [][Next]_vars
=============================================================================
