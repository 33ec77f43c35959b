----------------------------- MODULE JobStore -----------------------------
(***************************************************************************)
(* At-least-once processing, as a user of the job queue sees it: a stored  *)
(* job may be handled any number of times, and it leaves the store only    *)
(* once it has been handled or because nobody can read it.                 *)
(***************************************************************************)
CONSTANTS
  Job,  \* the jobs
  Bad   \* those whose body is not a job

VARIABLES
  stored,   \* the jobs in the store
  handled,  \* the jobs a handler has succeeded on
  left      \* the jobs that have left the store

vars == <<stored, handled, left>>

Init == stored = {} /\ handled = {} /\ left = {}

Store(j) ==
  /\ j \notin stored \cup left
  /\ stored' = stored \cup {j}
  /\ UNCHANGED <<handled, left>>

(* Also after it has left: a worker that was cut off may finish late. *)
Handle(j) ==
  /\ j \in (stored \cup left) \ Bad
  /\ handled' = handled \cup {j}
  /\ UNCHANGED <<stored, left>>

Leave(j) ==
  /\ j \in stored
  /\ j \in handled \cup Bad
  /\ stored' = stored \ {j}
  /\ left' = left \cup {j}
  /\ UNCHANGED handled

Next == \E j \in Job : Store(j) \/ Handle(j) \/ Leave(j)

Spec == Init /\ [][Next]_vars
=============================================================================
