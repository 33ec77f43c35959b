------------------------ MODULE RegistrationProofs ------------------------
(***************************************************************************)
(* Theorems about Registration, for any requests, emails, pool and faults. *)
(***************************************************************************)
EXTENDS Registration, FiniteSetTheorems, TLAPS

-----------------------------------------------------------------------------
(* The inductive invariant.  The properties speak of what a request leaves *)
(* behind; these parts say what its goroutine has done on the way there.   *)

BeforeInsert == {"new", "checkWait", "checking", "hashing", "insertWait", "inserting"}
AfterInsert == {"committed", "created", "announcing", "auditing", "replying"}

(* The row of an email is there from the insert on, and not before. *)
NotYet == \A r \in Request : at[r] \in BeforeInsert => row[want[r]] # r
Inserted == \A r \in Request : at[r] \in AfterInsert => row[want[r]] = r

(* The events go out in their order. *)
EventsInOrder ==
  \A r \in Request :
    /\ at[r] \in {"announcing", "auditing", "replying"} => r \in announced
    /\ at[r] = "replying" => audit[r] # "none"

(* A request is answered when its goroutine is done. *)
AnsweredLast == \A r \in Request : (answer[r] = "none") = (at[r] # "done")

IInv ==
  /\ TypeOK
  /\ NotYet
  /\ Inserted
  /\ EffectsCommitted
  /\ EventsInOrder
  /\ AnsweredLast
  /\ CreatedIsAnnounced

(* The invariant holds at the start. *)
LEMMA InitInv == Init => IInv
  <1> SUFFICES ASSUME Init
               PROVE  IInv
    OBVIOUS
  <1> USE NoneAssumption, MaxCrashesAssumption DEF Init
  <1>1. TypeOK
    BY DEF TypeOK
  <1>2. NotYet /\ Inserted
    BY DEF NotYet, Inserted, BeforeInsert, AfterInsert
  <1>3. EffectsCommitted /\ EventsInOrder /\ AnsweredLast /\ CreatedIsAnnounced
    BY DEF EffectsCommitted, EventsInOrder, AnsweredLast, CreatedIsAnnounced
  <1> QED
    BY <1>1, <1>2, <1>3 DEF IInv

(* The steps of the check keep the invariant. *)
LEMMA CheckStepInv ==
  ASSUME IInv, NEW r \in Request, CheckStep(r)
  PROVE  IInv'
  <1> USE NoneAssumption DEF IInv, Go, Answer, Taken, eventVars
  <1>1. ASSUME Submit(r)
        PROVE  IInv'
    <2>1. TypeOK'
      BY <1>1 DEF Submit, TypeOK
    <2>2. (NotYet /\ Inserted /\ EffectsCommitted)'
      BY <1>1 DEF Submit, TypeOK, NotYet, Inserted, EffectsCommitted, BeforeInsert,
        AfterInsert
    <2>3. (EventsInOrder /\ AnsweredLast /\ CreatedIsAnnounced)'
      BY <1>1 DEF Submit, TypeOK, NotYet, Inserted, EventsInOrder, AnsweredLast,
             CreatedIsAnnounced, BeforeInsert, AfterInsert
    <2> QED
      BY <2>1, <2>2, <2>3
  <1>2. ASSUME Invalid(r)
        PROVE  IInv'
    <2>1. TypeOK'
      BY <1>2 DEF Invalid, TypeOK
    <2>2. (NotYet /\ Inserted /\ EffectsCommitted)'
      BY <1>2 DEF Invalid, TypeOK, NotYet, Inserted, EffectsCommitted, BeforeInsert,
        AfterInsert
    <2>3. (EventsInOrder /\ AnsweredLast /\ CreatedIsAnnounced)'
      BY <1>2 DEF Invalid, TypeOK, NotYet, Inserted, EventsInOrder, AnsweredLast,
             CreatedIsAnnounced, BeforeInsert, AfterInsert
    <2> QED
      BY <2>1, <2>2, <2>3
  <1>3. ASSUME AcquireForCheck(r)
        PROVE  IInv'
    <2>1. TypeOK'
      BY <1>3 DEF AcquireForCheck, TypeOK
    <2>2. (NotYet /\ Inserted /\ EffectsCommitted)'
      BY <1>3 DEF AcquireForCheck, TypeOK, NotYet, Inserted, EffectsCommitted,
        BeforeInsert, AfterInsert
    <2>3. (EventsInOrder /\ AnsweredLast /\ CreatedIsAnnounced)'
      BY <1>3 DEF AcquireForCheck, TypeOK, NotYet, Inserted, EventsInOrder, AnsweredLast,
             CreatedIsAnnounced, BeforeInsert, AfterInsert
    <2> QED
      BY <2>1, <2>2, <2>3
  <1>4. ASSUME CheckFinds(r)
        PROVE  IInv'
    <2>1. TypeOK'
      BY <1>4 DEF CheckFinds, TypeOK
    <2>2. (NotYet /\ Inserted /\ EffectsCommitted)'
      BY <1>4 DEF CheckFinds, TypeOK, NotYet, Inserted, EffectsCommitted, BeforeInsert,
        AfterInsert
    <2>3. (EventsInOrder /\ AnsweredLast /\ CreatedIsAnnounced)'
      BY <1>4 DEF CheckFinds, TypeOK, NotYet, Inserted, EventsInOrder, AnsweredLast,
             CreatedIsAnnounced, BeforeInsert, AfterInsert
    <2> QED
      BY <2>1, <2>2, <2>3
  <1>5. ASSUME CheckMisses(r)
        PROVE  IInv'
    <2>1. TypeOK'
      BY <1>5 DEF CheckMisses, TypeOK
    <2>2. (NotYet /\ Inserted /\ EffectsCommitted)'
      BY <1>5 DEF CheckMisses, TypeOK, NotYet, Inserted, EffectsCommitted,
        BeforeInsert, AfterInsert
    <2>3. (EventsInOrder /\ AnsweredLast /\ CreatedIsAnnounced)'
      BY <1>5 DEF CheckMisses, TypeOK, NotYet, Inserted, EventsInOrder, AnsweredLast,
             CreatedIsAnnounced, BeforeInsert, AfterInsert
    <2> QED
      BY <2>1, <2>2, <2>3
  <1>6. ASSUME CheckWaitFails(r)
        PROVE  IInv'
    <2>1. TypeOK'
      BY <1>6 DEF CheckWaitFails, TypeOK
    <2>2. (NotYet /\ Inserted /\ EffectsCommitted)'
      BY <1>6 DEF CheckWaitFails, TypeOK, NotYet, Inserted, EffectsCommitted,
        BeforeInsert, AfterInsert
    <2>3. (EventsInOrder /\ AnsweredLast /\ CreatedIsAnnounced)'
      BY <1>6 DEF CheckWaitFails, TypeOK, NotYet, Inserted, EventsInOrder, AnsweredLast,
             CreatedIsAnnounced, BeforeInsert, AfterInsert
    <2> QED
      BY <2>1, <2>2, <2>3
  <1> QED
    BY <1>1, <1>2, <1>3, <1>4, <1>5, <1>6 DEF CheckStep

(* The steps of the insert keep the invariant. *)
LEMMA InsertStepInv ==
  ASSUME IInv, NEW r \in Request, InsertStep(r)
  PROVE  IInv'
  <1> USE NoneAssumption DEF IInv, Go, Answer, Taken, eventVars
  <1>1. ASSUME Hash(r)
        PROVE  IInv'
    <2>1. TypeOK'
      BY <1>1 DEF Hash, TypeOK
    <2>2. (NotYet /\ Inserted /\ EffectsCommitted)'
      BY <1>1 DEF Hash, TypeOK, NotYet, Inserted, EffectsCommitted, BeforeInsert,
        AfterInsert
    <2>3. (EventsInOrder /\ AnsweredLast /\ CreatedIsAnnounced)'
      BY <1>1 DEF Hash, TypeOK, NotYet, Inserted, EventsInOrder, AnsweredLast,
             CreatedIsAnnounced, BeforeInsert, AfterInsert
    <2> QED
      BY <2>1, <2>2, <2>3
  <1>2. ASSUME HashFails(r)
        PROVE  IInv'
    <2>1. TypeOK'
      BY <1>2 DEF HashFails, TypeOK
    <2>2. (NotYet /\ Inserted /\ EffectsCommitted)'
      BY <1>2 DEF HashFails, TypeOK, NotYet, Inserted, EffectsCommitted, BeforeInsert,
        AfterInsert
    <2>3. (EventsInOrder /\ AnsweredLast /\ CreatedIsAnnounced)'
      BY <1>2 DEF HashFails, TypeOK, NotYet, Inserted, EventsInOrder, AnsweredLast,
             CreatedIsAnnounced, BeforeInsert, AfterInsert
    <2> QED
      BY <2>1, <2>2, <2>3
  <1>3. ASSUME AcquireForInsert(r)
        PROVE  IInv'
    <2>1. TypeOK'
      BY <1>3 DEF AcquireForInsert, TypeOK
    <2>2. (NotYet /\ Inserted /\ EffectsCommitted)'
      BY <1>3 DEF AcquireForInsert, TypeOK, NotYet, Inserted, EffectsCommitted,
        BeforeInsert, AfterInsert
    <2>3. (EventsInOrder /\ AnsweredLast /\ CreatedIsAnnounced)'
      BY <1>3 DEF AcquireForInsert, TypeOK, NotYet, Inserted, EventsInOrder, AnsweredLast,
             CreatedIsAnnounced, BeforeInsert, AfterInsert
    <2> QED
      BY <2>1, <2>2, <2>3
  <1>4. ASSUME InsertCommits(r)
        PROVE  IInv'
    <2>1. TypeOK'
      BY <1>4 DEF InsertCommits, TypeOK
    <2>2. (NotYet /\ Inserted /\ EffectsCommitted)'
      BY <1>4 DEF InsertCommits, TypeOK, NotYet, Inserted, EffectsCommitted,
        BeforeInsert, AfterInsert
    <2>3. (EventsInOrder /\ AnsweredLast /\ CreatedIsAnnounced)'
      BY <1>4 DEF InsertCommits, TypeOK, NotYet, Inserted, EventsInOrder, AnsweredLast,
             CreatedIsAnnounced, BeforeInsert, AfterInsert
    <2> QED
      BY <2>1, <2>2, <2>3
  <1>5. ASSUME InsertRefused(r)
        PROVE  IInv'
    <2>1. TypeOK'
      BY <1>5 DEF InsertRefused, TypeOK
    <2>2. (NotYet /\ Inserted /\ EffectsCommitted)'
      BY <1>5 DEF InsertRefused, TypeOK, NotYet, Inserted, EffectsCommitted,
        BeforeInsert, AfterInsert
    <2>3. (EventsInOrder /\ AnsweredLast /\ CreatedIsAnnounced)'
      BY <1>5 DEF InsertRefused, TypeOK, NotYet, Inserted, EventsInOrder, AnsweredLast,
             CreatedIsAnnounced, BeforeInsert, AfterInsert
    <2> QED
      BY <2>1, <2>2, <2>3
  <1>6. ASSUME InsertFails(r)
        PROVE  IInv'
    <2>1. TypeOK'
      BY <1>6 DEF InsertFails, TypeOK
    <2>2. (NotYet /\ Inserted /\ EffectsCommitted)'
      BY <1>6 DEF InsertFails, TypeOK, NotYet, Inserted, EffectsCommitted,
        BeforeInsert, AfterInsert
    <2>3. (EventsInOrder /\ AnsweredLast /\ CreatedIsAnnounced)'
      BY <1>6 DEF InsertFails, TypeOK, NotYet, Inserted, EventsInOrder, AnsweredLast,
             CreatedIsAnnounced, BeforeInsert, AfterInsert
    <2> QED
      BY <2>1, <2>2, <2>3
  <1>7. ASSUME InsertReturns(r)
        PROVE  IInv'
    <2>1. TypeOK'
      BY <1>7 DEF InsertReturns, TypeOK
    <2>2. (NotYet /\ Inserted /\ EffectsCommitted)'
      BY <1>7 DEF InsertReturns, TypeOK, NotYet, Inserted, EffectsCommitted,
        BeforeInsert, AfterInsert
    <2>3. (EventsInOrder /\ AnsweredLast /\ CreatedIsAnnounced)'
      BY <1>7 DEF InsertReturns, TypeOK, NotYet, Inserted, EventsInOrder, AnsweredLast,
             CreatedIsAnnounced, BeforeInsert, AfterInsert
    <2> QED
      BY <2>1, <2>2, <2>3
  <1> QED
    BY <1>1, <1>2, <1>3, <1>4, <1>5, <1>6, <1>7 DEF InsertStep

(* The steps of the events and the reply keep the invariant. *)
LEMMA EventStepInv ==
  ASSUME IInv, NEW r \in Request, EventStep(r)
  PROVE  IInv'
  <1> USE NoneAssumption DEF IInv, Go, Answer, Taken, eventVars
  <1>1. ASSUME AnnounceUser(r)
        PROVE  IInv'
    <2>1. TypeOK'
      BY <1>1 DEF AnnounceUser, TypeOK
    <2>2. (NotYet /\ Inserted /\ EffectsCommitted)'
      BY <1>1 DEF AnnounceUser, TypeOK, NotYet, Inserted, EffectsCommitted,
        BeforeInsert, AfterInsert
    <2>3. (EventsInOrder /\ AnsweredLast /\ CreatedIsAnnounced)'
      BY <1>1 DEF AnnounceUser, TypeOK, NotYet, Inserted, EventsInOrder, AnsweredLast,
             CreatedIsAnnounced, BeforeInsert, AfterInsert
    <2> QED
      BY <2>1, <2>2, <2>3
  <1>2. ASSUME Enqueue(r)
        PROVE  IInv'
    <2>1. TypeOK'
      BY <1>2 DEF Enqueue, TypeOK
    <2>2. (NotYet /\ Inserted /\ EffectsCommitted)'
      BY <1>2 DEF Enqueue, TypeOK, NotYet, Inserted, EffectsCommitted, BeforeInsert,
        AfterInsert
    <2>3. (EventsInOrder /\ AnsweredLast /\ CreatedIsAnnounced)'
      BY <1>2 DEF Enqueue, TypeOK, NotYet, Inserted, EventsInOrder, AnsweredLast,
             CreatedIsAnnounced, BeforeInsert, AfterInsert
    <2> QED
      BY <2>1, <2>2, <2>3
  <1>3. ASSUME EmitAuditLog(r)
        PROVE  IInv'
    <2>1. TypeOK'
      BY <1>3 DEF EmitAuditLog, TypeOK
    <2>2. (NotYet /\ Inserted /\ EffectsCommitted)'
      BY <1>3 DEF EmitAuditLog, TypeOK, NotYet, Inserted, EffectsCommitted,
        BeforeInsert, AfterInsert
    <2>3. (EventsInOrder /\ AnsweredLast /\ CreatedIsAnnounced)'
      BY <1>3 DEF EmitAuditLog, TypeOK, NotYet, Inserted, EventsInOrder, AnsweredLast,
             CreatedIsAnnounced, BeforeInsert, AfterInsert
    <2> QED
      BY <2>1, <2>2, <2>3
  <1>4. ASSUME Reply(r)
        PROVE  IInv'
    <2>1. TypeOK'
      BY <1>4 DEF Reply, TypeOK
    <2>2. (NotYet /\ Inserted /\ EffectsCommitted)'
      BY <1>4 DEF Reply, TypeOK, NotYet, Inserted, EffectsCommitted, BeforeInsert,
        AfterInsert
    <2>3. (EventsInOrder /\ AnsweredLast /\ CreatedIsAnnounced)'
      BY <1>4 DEF Reply, TypeOK, NotYet, Inserted, EventsInOrder, AnsweredLast,
             CreatedIsAnnounced, BeforeInsert, AfterInsert
    <2> QED
      BY <2>1, <2>2, <2>3
  <1> QED
    BY <1>1, <1>2, <1>3, <1>4 DEF EventStep

(* The steps of the audit goroutine keep the invariant. *)
LEMMA AuditStepInv ==
  ASSUME IInv, NEW r \in Request, AuditStep(r)
  PROVE  IInv'
  <1> USE NoneAssumption DEF IInv, Go, Answer, Taken, eventVars
  <1>1. ASSUME AuditAcquires(r)
        PROVE  IInv'
    <2>1. TypeOK'
      BY <1>1 DEF AuditAcquires, TypeOK
    <2>2. (NotYet /\ Inserted /\ EffectsCommitted)'
      BY <1>1 DEF AuditAcquires, TypeOK, NotYet, Inserted, EffectsCommitted,
        BeforeInsert, AfterInsert
    <2>3. (EventsInOrder /\ AnsweredLast /\ CreatedIsAnnounced)'
      BY <1>1 DEF AuditAcquires, TypeOK, NotYet, Inserted, EventsInOrder, AnsweredLast,
             CreatedIsAnnounced, BeforeInsert, AfterInsert
    <2> QED
      BY <2>1, <2>2, <2>3
  <1>2. ASSUME AuditWritten(r)
        PROVE  IInv'
    <2>1. TypeOK'
      BY <1>2 DEF AuditWritten, TypeOK
    <2>2. (NotYet /\ Inserted /\ EffectsCommitted)'
      BY <1>2 DEF AuditWritten, TypeOK, NotYet, Inserted, EffectsCommitted,
        BeforeInsert, AfterInsert
    <2>3. (EventsInOrder /\ AnsweredLast /\ CreatedIsAnnounced)'
      BY <1>2 DEF AuditWritten, TypeOK, NotYet, Inserted, EventsInOrder, AnsweredLast,
             CreatedIsAnnounced, BeforeInsert, AfterInsert
    <2> QED
      BY <2>1, <2>2, <2>3
  <1>3. ASSUME AuditFails(r)
        PROVE  IInv'
    <2>1. TypeOK'
      BY <1>3 DEF AuditFails, TypeOK
    <2>2. (NotYet /\ Inserted /\ EffectsCommitted)'
      BY <1>3 DEF AuditFails, TypeOK, NotYet, Inserted, EffectsCommitted, BeforeInsert,
        AfterInsert
    <2>3. (EventsInOrder /\ AnsweredLast /\ CreatedIsAnnounced)'
      BY <1>3 DEF AuditFails, TypeOK, NotYet, Inserted, EventsInOrder, AnsweredLast,
             CreatedIsAnnounced, BeforeInsert, AfterInsert
    <2> QED
      BY <2>1, <2>2, <2>3
  <1> QED
    BY <1>1, <1>2, <1>3 DEF AuditStep

(* A death of the process keeps the invariant. *)
LEMMA CrashInv ==
  ASSUME IInv, Crash
  PROVE  IInv'
  <1> USE DEF IInv, Crash, eventVars
  <1>1. TypeOK'
    BY MaxCrashesAssumption DEF TypeOK
  <1>2. (NotYet /\ Inserted /\ EffectsCommitted)'
    BY DEF TypeOK, NotYet, Inserted, EffectsCommitted, BeforeInsert, AfterInsert
  <1>3. (EventsInOrder /\ AnsweredLast /\ CreatedIsAnnounced)'
    BY DEF TypeOK, NotYet, Inserted, EventsInOrder, AnsweredLast,
             CreatedIsAnnounced, BeforeInsert, AfterInsert
  <1> QED
    BY <1>1, <1>2, <1>3

(* Every step keeps the invariant. *)
LEMMA NextInv == IInv /\ [Next]_vars => IInv'
  <1> SUFFICES ASSUME IInv, [Next]_vars
               PROVE  IInv'
    OBVIOUS
  <1>1. CASE UNCHANGED vars
    BY <1>1 DEF IInv, vars, eventVars, TypeOK, NotYet, Inserted, EffectsCommitted,
                EventsInOrder, AnsweredLast, CreatedIsAnnounced
  <1>2. CASE Crash
    BY <1>2, CrashInv
  <1>3. CASE Finished
    BY <1>1, <1>3 DEF Finished
  <1>4. ASSUME NEW r \in Request,
               CheckStep(r) \/ InsertStep(r) \/ EventStep(r) \/ AuditStep(r)
        PROVE  IInv'
    BY <1>4, CheckStepInv, InsertStepInv, EventStepInv, AuditStepInv
  <1> QED
    BY <1>1, <1>2, <1>3, <1>4 DEF Next

LEMMA Inductive == Spec => []IInv
  BY InitInv, NextInv, PTL DEF Spec

-----------------------------------------------------------------------------
(* The theorems.                                                           *)

(* Every variable keeps its type. *)
THEOREM TypeCorrect == Spec => []TypeOK
  <1>1. IInv => TypeOK
    BY DEF IInv
  <1> QED
    BY <1>1, Inductive, PTL

(* No event, email or audit entry without the account it is about. *)
THEOREM EffectsFollowCommits == Spec => []EffectsCommitted
  <1>1. IInv => EffectsCommitted
    BY DEF IInv
  <1> QED
    BY <1>1, Inductive, PTL

(* A client told 201 has an account, announced and audited. *)
THEOREM CreatedAccountsAnnounced == Spec => []CreatedIsAnnounced
  <1>1. IInv => CreatedIsAnnounced
    BY DEF IInv
  <1> QED
    BY <1>1, Inductive, PTL

-----------------------------------------------------------------------------
(* The refinement.                                                         *)

(* A step that answers a request is the registry's Reply, if the answer    *)
(* tells the truth.                                                        *)
LEMMA AnswerReplies ==
  ASSUME IInv, NEW r \in Request, at[r] # "done",
         NEW status \in {"201", "400", "409", "422", "500"}, Answer(r, status),
         UNCHANGED <<want, row>>,
         status = "201" => row[want[r]] = r,
         status = "409" => row[want[r]] \notin {None, r},
         status \in {"400", "422"} => row[want[r]] # r
  PROVE  Abstract!Next
  <1>1. answer[r] = "none"
    BY DEF IInv, AnsweredLast
  <1>2. Abstract!Reply(r, status)
    BY <1>1 DEF Abstract!Reply, Abstract!Taken, Answer
  <1> QED
    BY <1>2 DEF Abstract!Next

(* Any other step leaves what the registry sees alone, or creates a row.   *)
LEMMA StepRefines ==
  ASSUME IInv, NEW r \in Request,
         CheckStep(r) \/ InsertStep(r) \/ EventStep(r) \/ AuditStep(r)
  PROVE  Abstract!Next \/ UNCHANGED Abstract!vars
  <1> USE DEF Go, Taken
  <1>1. CASE Invalid(r)
    <2>1. PICK status \in {"400", "422"} : Answer(r, status)
      BY <1>1 DEF Invalid
    <2> QED
      BY <1>1, <2>1, AnswerReplies DEF Invalid, IInv, NotYet, BeforeInsert
  <1>2. CASE CheckFinds(r)
    BY <1>2, AnswerReplies DEF CheckFinds, IInv, NotYet, BeforeInsert
  <1>3. CASE HashFails(r)
    BY <1>3, AnswerReplies DEF HashFails
  <1>4. CASE InsertCommits(r)
    <2>1. answer[r] = "none"
      BY <1>4 DEF InsertCommits, IInv, AnsweredLast
    <2>2. Abstract!Create(r)
      BY <1>4, <2>1 DEF InsertCommits, Abstract!Create
    <2> QED
      BY <2>2 DEF Abstract!Next
  <1>5. CASE InsertRefused(r)
    BY <1>5, AnswerReplies DEF InsertRefused
  <1>6. CASE InsertFails(r)
    BY <1>6, AnswerReplies DEF InsertFails
  <1>7. CASE Reply(r)
    BY <1>7, AnswerReplies DEF Reply, IInv, Inserted, AfterInsert
  <1>8. CASE Submit(r) \/ AcquireForCheck(r) \/ CheckMisses(r) \/ CheckWaitFails(r)
    BY <1>8 DEF Submit, AcquireForCheck, CheckMisses, CheckWaitFails, Abstract!vars
  <1>9. CASE Hash(r) \/ AcquireForInsert(r) \/ InsertReturns(r)
    BY <1>9 DEF Hash, AcquireForInsert, InsertReturns, Abstract!vars
  <1>10. CASE AnnounceUser(r) \/ Enqueue(r) \/ EmitAuditLog(r)
    BY <1>10 DEF AnnounceUser, Enqueue, EmitAuditLog, Abstract!vars
  <1>11. CASE AuditStep(r)
    BY <1>11 DEF AuditStep, AuditAcquires, AuditWritten, AuditFails, Abstract!vars
  <1> QED
    BY <1>1, <1>2, <1>3, <1>4, <1>5, <1>6, <1>7, <1>8, <1>9, <1>10, <1>11
       DEF CheckStep, InsertStep, EventStep

(* Concurrent registrations implement the registry: an email has one       *)
(* account for ever, and no answer but 500 leaves its client guessing.     *)
THEOREM Refinement == Spec => ImplementsRegistry
  <1>1. Init => Abstract!Init
    BY DEF Init, Abstract!Init
  <1>2. IInv /\ [Next]_vars => [Abstract!Next]_(Abstract!vars)
    <2> SUFFICES ASSUME IInv, [Next]_vars
                 PROVE  Abstract!Next \/ UNCHANGED Abstract!vars
      OBVIOUS
    <2>1. CASE UNCHANGED vars
      BY <2>1 DEF vars, Abstract!vars
    <2>2. CASE Crash
      BY <2>2 DEF Crash, Abstract!vars
    <2>3. CASE Finished
      BY <2>3, <2>1 DEF Finished
    <2>4. ASSUME NEW r \in Request,
                 CheckStep(r) \/ InsertStep(r) \/ EventStep(r) \/ AuditStep(r)
          PROVE  Abstract!Next \/ UNCHANGED Abstract!vars
      BY <2>4, StepRefines
    <2> QED
      BY <2>1, <2>2, <2>3, <2>4 DEF Next
  <1> QED
    BY <1>1, <1>2, Inductive, PTL DEF Spec, ImplementsRegistry, Abstract!Spec

-----------------------------------------------------------------------------
(* The pool.                                                               *)

Querying == {r \in Request : at[r] \in {"checking", "inserting", "committed"}}
Writing == {r \in Request : audit[r] = "writing"}

(* No more queries run than the pool has connections, however many there   *)
(* are who would like to send one.                                         *)
PoolRespected ==
  /\ IsFiniteSet(Querying) /\ IsFiniteSet(Writing)
  /\ InUse <= PoolSize

LEMMA InUseIs == InUse = Cardinality(Querying) + Cardinality(Writing)
  BY DEF InUse, Querying, Writing

(* Who gives a connection back, or does nothing, keeps the bound. *)
LEMMA PoolShrinks ==
  ASSUME PoolRespected, Querying' \subseteq Querying, Writing' \subseteq Writing
  PROVE  PoolRespected' /\ InUse' <= InUse
  <1> USE DEF PoolRespected
  <1>1. /\ IsFiniteSet(Querying') /\ Cardinality(Querying') <= Cardinality(Querying)
        /\ IsFiniteSet(Writing') /\ Cardinality(Writing') <= Cardinality(Writing)
    BY FS_Subset
  <1>2. /\ Cardinality(Querying) \in Nat /\ Cardinality(Querying') \in Nat
        /\ Cardinality(Writing) \in Nat /\ Cardinality(Writing') \in Nat
    BY <1>1, FS_CardinalityType
  <1>3. InUse' = Cardinality(Querying') + Cardinality(Writing')
    BY DEF InUse, Querying, Writing
  <1> QED
    BY <1>1, <1>2, <1>3, InUseIs, PoolSizeAssumption

(* Who gives up the connection it has, makes room for another. *)
LEMMA ConnectionFreed ==
  ASSUME PoolRespected, Querying' \subseteq Querying, Writing' \subseteq Writing,
         Querying' # Querying \/ Writing' # Writing
  PROVE  InUse' < PoolSize
  <1> USE DEF PoolRespected
  <1>1. /\ IsFiniteSet(Querying') /\ Cardinality(Querying') <= Cardinality(Querying)
        /\ IsFiniteSet(Writing') /\ Cardinality(Writing') <= Cardinality(Writing)
    BY FS_Subset
  <1>2. /\ Cardinality(Querying) \in Nat /\ Cardinality(Querying') \in Nat
        /\ Cardinality(Writing) \in Nat /\ Cardinality(Writing') \in Nat
    BY <1>1, FS_CardinalityType
  <1>3. \/ Cardinality(Querying') < Cardinality(Querying)
        \/ Cardinality(Writing') < Cardinality(Writing)
    BY FS_Subset, <1>1, <1>2
  <1>4. InUse' = Cardinality(Querying') + Cardinality(Writing')
    BY DEF InUse, Querying, Writing
  <1> QED
    BY <1>1, <1>2, <1>3, <1>4, InUseIs, PoolSizeAssumption

(* Who takes one finds it free. *)
LEMMA PoolGrows ==
  ASSUME PoolRespected, InUse < PoolSize, NEW r \in Request,
         \/ Querying' = Querying \cup {r} /\ Writing' = Writing
         \/ Querying' = Querying /\ Writing' = Writing \cup {r}
  PROVE  PoolRespected'
  <1> USE DEF PoolRespected
  <1>1. ASSUME NEW S, IsFiniteSet(S)
        PROVE  /\ IsFiniteSet(S \cup {r})
               /\ Cardinality(S) \in Nat /\ Cardinality(S \cup {r}) \in Nat
               /\ Cardinality(S \cup {r}) <= Cardinality(S) + 1
    <2>1. Cardinality(S) \in Nat
      BY <1>1, FS_CardinalityType
    <2>2. IsFiniteSet(S \cup {r})
      BY <1>1, FS_AddElement
    <2>3. Cardinality(S \cup {r}) = IF r \in S THEN Cardinality(S) ELSE Cardinality(S) + 1
      BY <1>1, FS_AddElement
    <2> QED
      BY <2>1, <2>2, <2>3
  <1>2. InUse' = Cardinality(Querying') + Cardinality(Writing')
    BY DEF InUse, Querying, Writing
  <1>3. CASE Querying' = Querying \cup {r} /\ Writing' = Writing
    <2>1. /\ IsFiniteSet(Querying') /\ Cardinality(Querying) \in Nat
          /\ Cardinality(Querying') \in Nat
          /\ Cardinality(Querying') <= Cardinality(Querying) + 1
      BY <1>1, <1>3
    <2>2. Cardinality(Writing) \in Nat /\ Writing' = Writing
      BY <1>3, FS_CardinalityType
    <2> QED
      BY <1>2, <2>1, <2>2, InUseIs, PoolSizeAssumption
  <1>4. CASE Querying' = Querying /\ Writing' = Writing \cup {r}
    <2>1. /\ IsFiniteSet(Writing') /\ Cardinality(Writing) \in Nat
          /\ Cardinality(Writing') \in Nat
          /\ Cardinality(Writing') <= Cardinality(Writing) + 1
      BY <1>1, <1>4
    <2>2. Cardinality(Querying) \in Nat /\ Querying' = Querying
      BY <1>4, FS_CardinalityType
    <2> QED
      BY <1>2, <2>1, <2>2, InUseIs, PoolSizeAssumption
  <1> QED
    BY <1>3, <1>4

(* A connection is only ever taken out of a pool that has one. *)
LEMMA PoolStep ==
  ASSUME TypeOK, PoolRespected, [Next]_vars
  PROVE  \/ Querying' \subseteq Querying /\ Writing' \subseteq Writing
         \/ InUse < PoolSize /\ PoolRespected'
  <1> USE DEF TypeOK, Querying, Writing, Go, Answer
  <1>1. ASSUME NEW r \in Request, AcquireForCheck(r) \/ AcquireForInsert(r)
        PROVE  InUse < PoolSize /\ PoolRespected'
    <2>1. Querying' = Querying \cup {r} /\ Writing' = Writing
      BY <1>1 DEF AcquireForCheck, AcquireForInsert
    <2> QED
      BY <1>1, <2>1, PoolGrows DEF AcquireForCheck, AcquireForInsert
  <1>2. ASSUME NEW r \in Request, AuditAcquires(r)
        PROVE  InUse < PoolSize /\ PoolRespected'
    <2>1. Querying' = Querying /\ Writing' = Writing \cup {r}
      BY <1>2 DEF AuditAcquires
    <2> QED
      BY <1>2, <2>1, PoolGrows DEF AuditAcquires
  <1>3. ASSUME NEW r \in Request,
               \/ Submit(r) \/ Invalid(r) \/ CheckFinds(r) \/ CheckMisses(r)
               \/ CheckWaitFails(r) \/ Hash(r) \/ HashFails(r) \/ InsertCommits(r)
               \/ InsertRefused(r) \/ InsertFails(r) \/ InsertReturns(r)
        PROVE  Querying' \subseteq Querying /\ Writing' \subseteq Writing
    BY <1>3 DEF Submit, Invalid, CheckFinds, CheckMisses, CheckWaitFails, Hash, HashFails,
           InsertCommits, InsertRefused, InsertFails, InsertReturns
  <1>4. ASSUME NEW r \in Request, EventStep(r) \/ AuditWritten(r) \/ AuditFails(r)
        PROVE  Querying' \subseteq Querying /\ Writing' \subseteq Writing
    BY <1>4 DEF EventStep, AnnounceUser, Enqueue, EmitAuditLog, Reply, AuditWritten,
      AuditFails
  <1>5. CASE Crash \/ UNCHANGED vars
    BY <1>5 DEF Crash, vars
  <1> QED
    BY <1>1, <1>2, <1>3, <1>4, <1>5
       DEF Next, CheckStep, InsertStep, AuditStep, Finished

(* The pool is never overdrawn: each acquisition, of a request or of an    *)
(* audit goroutine, waits for a connection that is free.                   *)
THEOREM PoolNeverOverdrawn == Spec => []PoolRespected
  <1>1. Init => PoolRespected
    <2> SUFFICES ASSUME Init
                 PROVE  PoolRespected
      OBVIOUS
    <2>1. Querying = {} /\ Writing = {}
      BY DEF Init, Querying, Writing
    <2> QED
      BY <2>1, FS_EmptySet, InUseIs, PoolSizeAssumption DEF PoolRespected
  <1>2. TypeOK /\ PoolRespected /\ [Next]_vars => PoolRespected'
    BY PoolStep, PoolShrinks
  <1> QED
    BY <1>1, <1>2, TypeCorrect, PTL DEF Spec

-----------------------------------------------------------------------------
(* Liveness.  The prover has no rule for ENABLED, so each condition of     *)
(* Fairness is stated with its guard written out.                          *)

Waits(r) == at[r] \in {"checkWait", "insertWait"} /\ InUse < PoolSize

Acquire(r) == AcquireForCheck(r) \/ AcquireForInsert(r)
Check(r) == CheckFinds(r) \/ CheckMisses(r)
Insert(r) == InsertCommits(r) \/ InsertRefused(r) \/ InsertReturns(r)

(* Strong for whoever waits for a connection, weak for the others. *)
GetsConnection(r) == <>[]~Waits(r) \/ []<><<Acquire(r)>>_vars
CheckAnswered(r) == []<>~(at[r] = "checking") \/ []<><<Check(r)>>_vars
Hashes(r) == []<>~(at[r] = "hashing") \/ []<><<Hash(r)>>_vars
InsertAnswered(r) ==
  []<>~(at[r] \in {"inserting", "committed"}) \/ []<><<Insert(r)>>_vars
EventsEmitted(r) ==
  []<>~(at[r] \in {"created", "announcing", "auditing", "replying"})
    \/ []<><<EventStep(r)>>_vars
AuditEnds(r) == []<>~(audit[r] \in {"waiting", "writing"}) \/ []<><<AuditFails(r)>>_vars

AllServed ==
  \A r \in Request :
    /\ GetsConnection(r) /\ CheckAnswered(r) /\ Hashes(r)
    /\ InsertAnswered(r) /\ EventsEmitted(r) /\ AuditEnds(r)

(* Fairness, with the guards for what ENABLED says.  The box adds nothing: *)
(* each condition is about the far future.                                 *)
GuardedFairness == []AllServed

SafeInv == TypeOK /\ PoolRespected

LEMMA Safety == Spec => []SafeInv
  BY TypeCorrect, PoolNeverOverdrawn, PTL DEF SafeInv

(* The stages that may follow. *)
Onwards(stage) ==
  CASE stage = "checkWait" -> {"checking", "hashing", "dead"}
    [] stage = "checking" -> {"hashing", "done", "dead"}
    [] stage = "hashing" -> {"insertWait", "done", "dead"}
    [] stage = "insertWait" -> {"inserting", "done", "dead"}
    [] stage = "inserting" -> {"committed", "done", "dead"}
    [] stage = "committed" -> {"created", "done", "dead"}
    [] stage = "created" -> {"announcing", "dead"}
    [] stage = "announcing" -> {"auditing", "dead"}
    [] stage = "auditing" -> {"replying", "dead"}
    [] stage = "replying" -> {"done", "dead"}
    [] OTHER -> {}

(* The stages of a request that is on its way. *)
OnTheWay ==
  {"checkWait", "checking", "hashing", "insertWait", "inserting", "committed", "created",
   "announcing", "auditing", "replying"}

(* Register goes forward only. *)
LEMMA GoesForward ==
  ASSUME TypeOK, [Next]_vars, NEW r \in Request, at[r] \in OnTheWay
  PROVE  at'[r] = at[r] \/ at'[r] \in Onwards(at[r])
  <1> USE DEF TypeOK, Go, Answer, OnTheWay, Onwards
  <1>1. ASSUME NEW q \in Request, CheckStep(q)
        PROVE  at'[r] = at[r] \/ at'[r] \in Onwards(at[r])
    BY <1>1 DEF CheckStep, Submit, Invalid, AcquireForCheck, CheckFinds, CheckMisses,
           CheckWaitFails
  <1>2. ASSUME NEW q \in Request, InsertStep(q)
        PROVE  at'[r] = at[r] \/ at'[r] \in Onwards(at[r])
    BY <1>2 DEF InsertStep, Hash, HashFails, AcquireForInsert, InsertCommits, InsertRefused,
           InsertFails, InsertReturns
  <1>3. ASSUME NEW q \in Request, EventStep(q) \/ AuditStep(q)
        PROVE  at'[r] = at[r] \/ at'[r] \in Onwards(at[r])
    BY <1>3 DEF EventStep, AnnounceUser, Enqueue, EmitAuditLog, Reply, AuditStep,
           AuditAcquires, AuditWritten, AuditFails
  <1>4. CASE Crash \/ UNCHANGED vars
    BY <1>4 DEF Crash, vars
  <1> QED
    BY <1>1, <1>2, <1>3, <1>4 DEF Next, Finished

(* What has a connection: a query of a request or an audit entry.          *)
Full == InUse = PoolSize
Room == InUse < PoolSize

LEMMA FullOrRoom == SafeInv => (Full \/ Room) /\ ~(Full /\ Room)
  <1> SUFFICES ASSUME SafeInv
               PROVE  (Full \/ Room) /\ ~(Full /\ Room)
    OBVIOUS
  <1>1. Cardinality(Querying) \in Nat /\ Cardinality(Writing) \in Nat
    BY FS_CardinalityType DEF SafeInv, PoolRespected
  <1> QED
    BY <1>1, InUseIs, PoolSizeAssumption DEF SafeInv, PoolRespected, Full, Room

(* While the pool is full, the step that changes who has a connection      *)
(* gives one back.                                                         *)
LEMMA FullStep ==
  ASSUME SafeInv, Full, [Next]_vars
  PROVE  Room' \/ (Full' /\ Querying' = Querying /\ Writing' = Writing)
  <1>1. Querying' \subseteq Querying /\ Writing' \subseteq Writing
    <2>1. ~(InUse < PoolSize)
      BY FullOrRoom DEF Full, Room
    <2> QED
      BY <2>1, PoolStep DEF SafeInv
  <1>2. CASE Querying' = Querying /\ Writing' = Writing
    BY <1>2 DEF Full, InUse, Querying, Writing
  <1>3. CASE Querying' # Querying \/ Writing' # Writing
    BY <1>1, <1>3, ConnectionFreed DEF SafeInv, Room
  <1> QED
    BY <1>2, <1>3

(* A full pool has somebody who holds a connection. *)
LEMMA FullIsHeld ==
  ASSUME SafeInv, Full
  PROVE  \E r \in Request :
           at[r] \in {"checking", "inserting", "committed"} \/ audit[r] = "writing"
  <1>1. Querying # {} \/ Writing # {}
    <2> SUFFICES ASSUME Querying = {}, Writing = {}
                 PROVE  FALSE
      OBVIOUS
    <2> QED
      BY FS_EmptySet, InUseIs, PoolSizeAssumption DEF Full
  <1> QED
    BY <1>1 DEF Querying, Writing

Holds(r) == at[r] \in {"checking", "inserting", "committed"} \/ audit[r] = "writing"

(* Whoever holds a connection of a full pool gives it back: the check and  *)
(* the insert are answered, and a deadline ends the audit entry.           *)
LEMMA HolderMakesRoom ==
  ASSUME NEW h \in Request
  PROVE  []SafeInv /\ [][Next]_vars /\ GuardedFairness => (Full /\ Holds(h) ~> Room)
  <1>1. AllServed => CheckAnswered(h) /\ InsertAnswered(h) /\ AuditEnds(h)
    BY DEF AllServed
  <1>2. Holds(h) <=> \/ at[h] = "checking"
                     \/ at[h] \in {"inserting", "committed"}
                     \/ audit[h] = "writing"
    BY DEF Holds
  <1>3. SafeInv /\ Full /\ [Next]_vars /\ at[h] = "checking"
          => Room' \/ (Full' /\ (at[h] = "checking")')
    BY FullStep, GoesForward DEF SafeInv, Querying, OnTheWay, Onwards
  <1>4. SafeInv /\ Full /\ [Next]_vars /\ at[h] = "checking" /\ Check(h) => Room'
    <2>1. TypeOK /\ Check(h) => at'[h] \notin {"checking", "inserting", "committed"}
      BY DEF Check, CheckFinds, CheckMisses, Go, Answer, TypeOK
    <2> QED
      BY <2>1, FullStep DEF SafeInv, Querying
  <1>5. SafeInv /\ Full /\ [Next]_vars /\ at[h] = "inserting"
          => Room' \/ (Full' /\ ((at[h] = "inserting")' \/ (at[h] = "committed")'))
    BY FullStep, GoesForward DEF SafeInv, Querying, OnTheWay, Onwards
  <1>6. SafeInv /\ Full /\ [Next]_vars /\ at[h] = "inserting" /\ Insert(h)
          => Room' \/ (Full' /\ (at[h] = "committed")')
    <2>1. TypeOK /\ at[h] = "inserting" /\ Insert(h) => at'[h] \in {"committed", "done"}
      BY DEF Insert, InsertCommits, InsertRefused, InsertReturns, Go, Answer, TypeOK
    <2> QED
      BY <2>1, FullStep DEF SafeInv, Querying
  <1>7. SafeInv /\ Full /\ [Next]_vars /\ at[h] = "committed"
          => Room' \/ (Full' /\ (at[h] = "committed")')
    BY FullStep, GoesForward DEF SafeInv, Querying, OnTheWay, Onwards
  <1>8. SafeInv /\ Full /\ [Next]_vars /\ at[h] = "committed" /\ Insert(h) => Room'
    <2>1. TypeOK /\ at[h] = "committed" /\ Insert(h) => at'[h] \in {"created", "done"}
      BY DEF Insert, InsertCommits, InsertRefused, InsertReturns, Go, Answer, TypeOK
    <2> QED
      BY <2>1, FullStep DEF SafeInv, Querying
  <1>9. SafeInv /\ Full /\ [Next]_vars /\ audit[h] = "writing"
          => Room' \/ (Full' /\ (audit[h] = "writing")')
    BY FullStep DEF SafeInv, Writing
  <1>10. SafeInv /\ Full /\ [Next]_vars /\ audit[h] = "writing" /\ AuditFails(h) => Room'
    <2>1. TypeOK /\ AuditFails(h) => audit'[h] # "writing"
      BY DEF AuditFails, TypeOK
    <2> QED
      BY <2>1, FullStep DEF SafeInv, Writing
  <1>11. /\ at[h] \in {"inserting", "committed"} <=>
              at[h] = "inserting" \/ at[h] = "committed"
         /\ audit[h] = "writing" => audit[h] \in {"waiting", "writing"}
    OBVIOUS
  <1> QED
    BY <1>1, <1>2, <1>3, <1>4, <1>5, <1>6, <1>7, <1>8, <1>9, <1>10, <1>11, PTL
       DEF GuardedFairness, CheckAnswered, InsertAnswered, AuditEnds

RoomAgain == Full ~> Room

(* A full pool has room again. *)
LEMMA PoolFreed ==
  []SafeInv /\ [][Next]_vars /\ GuardedFairness => RoomAgain
  <1> SUFFICES ASSUME []SafeInv, [][Next]_vars, []AllServed
               PROVE  [](Full => <>Room)
    BY PTL DEF GuardedFairness, RoomAgain
  <1>1. ASSUME NEW h \in Request
        PROVE  Full /\ Holds(h) => <>Room
    BY HolderMakesRoom, PTL DEF GuardedFairness
  <1>2. (\E h \in Request : Full /\ Holds(h)) => <>Room
    BY <1>1
  <1>3. SafeInv /\ Full => \E h \in Request : Full /\ Holds(h)
    BY FullIsHeld DEF Holds
  <1> QED
    BY <1>2, <1>3, PTL

Past(r, stage) == at[r] \in Onwards(stage)

IsLeft(r, stage) == at[r] = stage ~> Past(r, stage)

(* Whoever waits for a connection gets one: there is room again and again, *)
(* and pgxpool serves those who wait in their order.                       *)
LEMMA WaitingEnds ==
  ASSUME NEW r \in Request, NEW stage \in {"checkWait", "insertWait"}
  PROVE  []SafeInv /\ [][Next]_vars /\ GuardedFairness => IsLeft(r, stage)
  <1>1. AllServed => GetsConnection(r)
    BY DEF AllServed
  <1>2. SafeInv /\ [Next]_vars /\ at[r] = stage => (at[r] = stage)' \/ Past(r, stage)'
    BY GoesForward DEF SafeInv, OnTheWay, Past
  <1>3. SafeInv /\ at[r] = stage /\ Acquire(r) => ~(at[r] = stage)'
    BY DEF Acquire, AcquireForCheck, AcquireForInsert, Go, SafeInv, TypeOK
  <1>4. at[r] = stage /\ Room => Waits(r)
    BY DEF Room, Waits
  <1>5. SafeInv => Full \/ Room
    BY FullOrRoom
  <1> QED
    BY PoolFreed, <1>1, <1>2, <1>3, <1>4, <1>5, PTL
       DEF GuardedFairness, GetsConnection, RoomAgain, IsLeft

(* The other stages are left, too. *)
LEMMA CheckEnds ==
  ASSUME NEW r \in Request
  PROVE  []SafeInv /\ [][Next]_vars /\ GuardedFairness => IsLeft(r, "checking")
  <1>1. AllServed => CheckAnswered(r)
    BY DEF AllServed
  <1>2. SafeInv /\ [Next]_vars /\ at[r] = "checking"
          => (at[r] = "checking")' \/ Past(r, "checking")'
    BY GoesForward DEF SafeInv, OnTheWay, Past
  <1>3. SafeInv /\ Check(r) => ~((at[r] = "checking")')
    BY DEF Check, CheckFinds, CheckMisses, Go, Answer, SafeInv, TypeOK
  <1> QED
    BY <1>1, <1>2, <1>3, PTL DEF GuardedFairness, CheckAnswered, IsLeft

LEMMA HashingEnds ==
  ASSUME NEW r \in Request
  PROVE  []SafeInv /\ [][Next]_vars /\ GuardedFairness => IsLeft(r, "hashing")
  <1>1. AllServed => Hashes(r)
    BY DEF AllServed
  <1>2. SafeInv /\ [Next]_vars /\ at[r] = "hashing"
          => (at[r] = "hashing")' \/ Past(r, "hashing")'
    BY GoesForward DEF SafeInv, OnTheWay, Past
  <1>3. SafeInv /\ Hash(r) => ~((at[r] = "hashing")')
    BY DEF Hash, Go, SafeInv, TypeOK
  <1> QED
    BY <1>1, <1>2, <1>3, PTL DEF GuardedFairness, Hashes, IsLeft

LEMMA InsertEnds ==
  ASSUME NEW r \in Request, NEW stage \in {"inserting", "committed"}
  PROVE  []SafeInv /\ [][Next]_vars /\ GuardedFairness => IsLeft(r, stage)
  <1>1. AllServed => InsertAnswered(r)
    BY DEF AllServed
  <1>2. SafeInv /\ [Next]_vars /\ at[r] = stage => (at[r] = stage)' \/ Past(r, stage)'
    BY GoesForward DEF SafeInv, OnTheWay, Past
  <1>3. SafeInv /\ at[r] = stage /\ Insert(r) => ~(at[r] = stage)'
    BY DEF Insert, InsertCommits, InsertRefused, InsertReturns, Go, Answer, SafeInv, TypeOK
  <1>4. at[r] = stage => at[r] \in {"inserting", "committed"}
    OBVIOUS
  <1> QED
    BY <1>1, <1>2, <1>3, <1>4, PTL DEF GuardedFairness, InsertAnswered, IsLeft

LEMMA EventsEnd ==
  ASSUME NEW r \in Request, NEW stage \in {"created", "announcing", "auditing", "replying"}
  PROVE  []SafeInv /\ [][Next]_vars /\ GuardedFairness => IsLeft(r, stage)
  <1>1. AllServed => EventsEmitted(r)
    BY DEF AllServed
  <1>2. SafeInv /\ [Next]_vars /\ at[r] = stage => (at[r] = stage)' \/ Past(r, stage)'
    BY GoesForward DEF SafeInv, OnTheWay, Past
  <1>3. SafeInv /\ at[r] = stage /\ EventStep(r) => ~(at[r] = stage)'
    BY DEF EventStep, AnnounceUser, Enqueue, EmitAuditLog, Reply, Go, Answer, SafeInv,
      TypeOK
  <1>4. at[r] = stage => at[r] \in {"created", "announcing", "auditing", "replying"}
    OBVIOUS
  <1> QED
    BY <1>1, <1>2, <1>3, <1>4, PTL DEF GuardedFairness, EventsEmitted, IsLeft

(* From stage to stage, a request comes to its answer. *)
LEMMA ComesToItsEnd ==
  ASSUME NEW r \in Request
  PROVE  []SafeInv /\ [][Next]_vars /\ GuardedFairness =>
           (at[r] = "checkWait" ~> at[r] \in {"done", "dead"})
  <1> DEFINE H == []SafeInv /\ [][Next]_vars /\ GuardedFairness
             Ended == at[r] \in {"done", "dead"}
  <1>1. /\ H => IsLeft(r, "checkWait")
        /\ H => IsLeft(r, "insertWait")
    BY WaitingEnds
  <1>2. /\ H => IsLeft(r, "checking")
        /\ H => IsLeft(r, "hashing")
    BY CheckEnds, HashingEnds
  <1>3. /\ H => IsLeft(r, "inserting")
        /\ H => IsLeft(r, "committed")
    BY InsertEnds
  <1>4. /\ H => IsLeft(r, "created")
        /\ H => IsLeft(r, "announcing")
        /\ H => IsLeft(r, "auditing")
        /\ H => IsLeft(r, "replying")
    BY EventsEnd
  <1>5. /\ Past(r, "checkWait") => at[r] = "checking" \/ at[r] = "hashing" \/ Ended
        /\ Past(r, "checking") => at[r] = "hashing" \/ Ended
        /\ Past(r, "hashing") => at[r] = "insertWait" \/ Ended
        /\ Past(r, "insertWait") => at[r] = "inserting" \/ Ended
        /\ Past(r, "inserting") => at[r] = "committed" \/ Ended
        /\ Past(r, "committed") => at[r] = "created" \/ Ended
        /\ Past(r, "created") => at[r] = "announcing" \/ Ended
        /\ Past(r, "announcing") => at[r] = "auditing" \/ Ended
        /\ Past(r, "auditing") => at[r] = "replying" \/ Ended
        /\ Past(r, "replying") => Ended
    BY DEF Past, Onwards
  <1> QED
    BY <1>1, <1>2, <1>3, <1>4, <1>5, PTL DEF IsLeft

(* A request that waits for a connection is answered, however many audit   *)
(* goroutines hang on theirs, unless its process dies.                     *)
THEOREM RequestsGetAnswers == Spec /\ GuardedFairness => RequestsAnswered
  <1>1. ASSUME NEW r \in Request
        PROVE  Spec /\ GuardedFairness => (at[r] = "checkWait" ~> at[r] \in {"done", "dead"})
    BY Safety, ComesToItsEnd, PTL DEF Spec
  <1> QED
    BY <1>1 DEF RequestsAnswered
=============================================================================
