---------------------------- MODULE EdgeProofs ----------------------------
(***************************************************************************)
(* Theorems about Edge, for any number of requests and every set of        *)
(* enabled parts.                                                          *)
(***************************************************************************)
EXTENDS Edge, TLAPS

-----------------------------------------------------------------------------
(* The order of the chain, unfolded.                                       *)

LEMMA ChainIs ==
  /\ Len(Chain) = 5
  /\ Chain[1] = "request_id" /\ Chain[2] = "cors" /\ Chain[3] = "rate_limit"
  /\ Chain[4] = "logger" /\ Chain[5] = "handler"
  BY DEF Chain

(* The next stage is the first one in the chain that is there. *)
LEMMA FromUnfolds ==
  /\ From(5) = "handler"
  /\ \A i \in 1..4 : From(i) = IF Chain[i] \in Stages THEN Chain[i] ELSE From(i + 1)
  <1> DEFINE S(i) == {j \in i..Len(Chain) : Chain[j] \in Stages}
  <1>1. ASSUME NEW i \in 1..5, Chain[i] \in Stages
        PROVE  From(i) = Chain[i]
    <2>1. i \in S(i) /\ \A j \in S(i) : i =< j
      BY <1>1, ChainIs
    <2>2. \A k \in S(i) : (\A j \in S(i) : k =< j) => k = i
      BY <2>1, ChainIs
    <2>3. Min(S(i)) = i
      BY <2>1, <2>2 DEF Min
    <2> QED
      BY <2>3 DEF From
  <1>2. ASSUME NEW i \in 1..4, Chain[i] \notin Stages
        PROVE  From(i) = From(i + 1)
    <2>1. S(i) = S(i + 1)
      BY <1>2, ChainIs
    <2> QED
      BY <2>1 DEF From
  <1>3. Chain[5] \in Stages
    BY ChainIs DEF Stages
  <1> QED
    BY <1>1, <1>2, <1>3, ChainIs

LEMMA ChainOrder ==
  /\ From(4) = IF "logger" \in enabled THEN "logger" ELSE "handler"
  /\ From(3) = IF "rate_limit" \in enabled THEN "rate_limit" ELSE From(4)
  /\ From(2) = IF "cors" \in enabled THEN "cors" ELSE From(3)
  /\ First = IF "request_id" \in enabled THEN "request_id" ELSE From(2)
  BY FromUnfolds, ChainIs DEF Stages, First

LEMMA AfterStage ==
  /\ After("request_id") = From(2)
  /\ After("cors") = From(3)
  /\ After("rate_limit") = From(4)
  <1>1. ASSUME NEW k \in 1..5
        PROVE  (CHOOSE i \in 1..Len(Chain) : Chain[i] = Chain[k]) = k
    BY ChainIs
  <1>2. ASSUME NEW k \in 1..5
        PROVE  After(Chain[k]) = From(1 + k)
    BY <1>1 DEF After
  <1> QED
    BY <1>2, ChainIs

-----------------------------------------------------------------------------
(* The inductive invariant: what is known of a request at each stage.      *)

(* The limiter has counted the request if it had to. *)
CountsRight(r) ==
  r \in counted <=> "rate_limit" \in enabled /\ Matched(r) /\ ~IsPreflight(r)

Fresh(r) ==
  at[r] = "new" => sent[r] = <<>> /\ line[r] = "none" /\ r \notin counted

(* No middleware that lets a request pass has answered it. *)
OnTheWay(r) ==
  at[r] \in {"request_id", "identify", "cors", "rate_limit", "logger", "handler"} =>
    /\ Matched(r) /\ sent[r] = <<>> /\ line[r] = "none"
    /\ at[r] \in Part => at[r] \in enabled
    /\ at[r] \in {"request_id", "identify", "cors", "rate_limit"} => r \notin counted
    /\ at[r] \in {"rate_limit", "logger", "handler"} => ~IsPreflight(r)
    /\ at[r] \in {"logger", "handler"} => CountsRight(r)
    /\ at[r] = "handler" /\ Wrapped => seen[r] = "200"

Logged(r) ==
  at[r] = "logging" =>
    /\ Wrapped /\ Matched(r) /\ ~IsPreflight(r) /\ CountsRight(r)
    /\ line[r] = "none"
    /\ sent[r] = <<seen[r]>>
    /\ seen[r] \in Statuses \ {"429"}

Over(r) ==
  at[r] \in {"closing", "done"} =>
    /\ CountsRight(r)
    /\ \E status \in Statuses : sent[r] = <<status>>
    /\ line[r] # "none" => sent[r] = <<line[r]>>
    /\ line[r] # "none" <=>
         "logger" \in enabled /\ Matched(r) /\ ~IsPreflight(r) /\ sent[r] # <<"429">>

Aborted(r) == at[r] = "aborted" => sent[r] = <<>> /\ line[r] = "none"

RequestInv(r) == Fresh(r) /\ OnTheWay(r) /\ Logged(r) /\ Over(r) /\ Aborted(r)

Inv == \A r \in Request : RequestInv(r)

LEMMA InitInv == Init => TypeOK /\ Inv
  BY DEF Init, TypeOK, Inv, RequestInv, Fresh, OnTheWay, Logged, Over, Aborted

(* A step of one request leaves what is known of another. *)
LEMMA OthersKeep ==
  ASSUME NEW q \in Request, RequestInv(q), UNCHANGED request,
         UNCHANGED <<at[q], sent[q], seen[q], line[q]>>, q \in counted' <=> q \in counted
  PROVE  RequestInv(q)'
  <1>1. /\ Matched(q)' <=> Matched(q)
        /\ IsPreflight(q)' <=> IsPreflight(q)
        /\ Wrapped' <=> Wrapped
    BY DEF request, Matched, Routed, Takes, IsPreflight, Wrapped
  <1>2. CountsRight(q)' <=> CountsRight(q)
    BY <1>1 DEF CountsRight, request
  <1>3. enabled' = enabled
    BY DEF request
  <1> HIDE DEF Matched, IsPreflight, Wrapped, CountsRight
  <1> QED
    BY <1>1, <1>2, <1>3 DEF RequestInv, Fresh, OnTheWay, Logged, Over, Aborted

LEMMA StaysApart ==
  ASSUME TypeOK, NEW r \in Request, GoroutineStep(r), NEW q \in Request, q # r
  PROVE  /\ UNCHANGED <<at[q], sent[q], seen[q], line[q]>>
         /\ q \in counted' <=> q \in counted
  <1> USE DEF TypeOK, To, Respond, accessVars, logVars
  <1>1. CASE RouterStep(r)
    BY <1>1 DEF RouterStep, Dispatch, Mismatch
  <1>2. CASE RequestIDStep(r)
    BY <1>2 DEF RequestIDStep, OpenLog, OpenLogFails, Identify, CloseLog
  <1>3. CASE MiddlewareStep(r)
    BY <1>3 DEF MiddlewareStep, Preflight, CrossOrigin, Admit, Refuse, Wrap, LogAccess
  <1>4. CASE HandlerStep(r)
    BY <1>4 DEF HandlerStep, ServeHealth, ServeAuth, RefuseUpgrade, Upgrade, ServeDocs,
      DocsFail,
           Serve, WriteHeader
  <1> QED
    BY <1>1, <1>2, <1>3, <1>4 DEF GoroutineStep

LEMMA RequestKept ==
  ASSUME NEW r \in Request, GoroutineStep(r)
  PROVE  UNCHANGED request
  BY DEF GoroutineStep, RouterStep, Dispatch, Mismatch, RequestIDStep, OpenLog,
    OpenLogFails,
         Identify, CloseLog, MiddlewareStep, Preflight, CrossOrigin, Admit, Refuse, Wrap,
         LogAccess, HandlerStep, ServeHealth, ServeAuth, RefuseUpgrade, Upgrade, ServeDocs,
         DocsFail, Serve

-----------------------------------------------------------------------------
(* The steps of a request.                                                 *)

(* What configuration and request say does not change. *)
LEMMA SameRequest ==
  ASSUME NEW r \in Request, UNCHANGED request
  PROVE  /\ Matched(r)' = Matched(r) /\ IsPreflight(r)' = IsPreflight(r)
         /\ Wrapped' = Wrapped /\ enabled' = enabled
         /\ Matched(r) \in BOOLEAN /\ IsPreflight(r) \in BOOLEAN
  BY DEF request, Matched, Routed, Takes, IsPreflight, Wrapped

(* A stage that is reached unanswered, from the stages before it. *)
LEMMA StageReached ==
  ASSUME TypeOK, NEW r \in Request, UNCHANGED <<request, sent, line, counted>>,
         Matched(r), sent[r] = <<>>, line[r] = "none",
         at'[r] \in {"identify", "cors", "rate_limit", "logger", "handler", "request_id"},
         at'[r] \in Part => at'[r] \in enabled,
         at'[r] \in {"request_id", "identify", "cors", "rate_limit"} => r \notin counted,
         at'[r] \in {"rate_limit", "logger", "handler"} => ~IsPreflight(r),
         at'[r] \in {"logger", "handler"} => CountsRight(r),
         at'[r] = "handler" /\ Wrapped => seen'[r] = "200"
  PROVE  RequestInv(r)'
  <1>1. CountsRight(r)' = CountsRight(r)
    BY SameRequest DEF CountsRight
  <1> HIDE DEF CountsRight, Matched, IsPreflight, Wrapped
  <1> QED
    BY <1>1, SameRequest DEF RequestInv, Fresh, OnTheWay, Logged, Over, Aborted

(* The end of a request, answered and not logged. *)
LEMMA EndsUnlogged ==
  ASSUME TypeOK, NEW r \in Request, UNCHANGED request,
         at'[r] \in {"closing", "done"},
         CountsRight(r)', line'[r] = "none",
         NEW status \in Statuses, sent'[r] = <<status>>,
         "logger" \in enabled /\ Matched(r) /\ ~IsPreflight(r) => status = "429"
  PROVE  RequestInv(r)'
  <1> HIDE DEF CountsRight, Matched, IsPreflight
  <1> QED
    BY SameRequest DEF RequestInv, Fresh, OnTheWay, Logged, Over, Aborted

LEMMA RouterStepInv ==
  ASSUME TypeOK, NEW r \in Request, RequestInv(r), RouterStep(r)
  PROVE  RequestInv(r)'
  <1> USE DEF RequestInv
  <1>0. UNCHANGED request
    BY RequestKept DEF GoroutineStep
  <1>1. CASE Dispatch(r)
    <2>1. at'[r] = First /\ UNCHANGED <<sent, line, counted, seen>> /\ Matched(r)
      BY <1>1 DEF Dispatch, To, TypeOK, accessVars, Matched
    <2>2. sent[r] = <<>> /\ line[r] = "none" /\ r \notin counted
      BY <1>1 DEF Dispatch, Fresh
    <2>3. "cors" \notin enabled => ~IsPreflight(r)
      BY DEF IsPreflight
    <2>4. "rate_limit" \notin enabled => CountsRight(r)
      BY <2>2 DEF CountsRight
    <2> QED
      BY <1>0, <2>1, <2>2, <2>3, <2>4, ChainOrder, StageReached DEF Part, Wrapped
  <1>2. CASE Mismatch(r)
    <2>1. at'[r] = "done" /\ UNCHANGED <<line, counted>> /\ ~Matched(r)
      BY <1>2 DEF Mismatch, To, TypeOK, accessVars, Matched
    <2>2. sent[r] = <<>> /\ line[r] = "none" /\ r \notin counted
      BY <1>2 DEF Mismatch, Fresh
    <2>3. PICK status \in Statuses : sent'[r] = <<status>>
      BY <1>2, <2>2 DEF Mismatch, Respond, TypeOK, Statuses
    <2>4. CountsRight(r)'
      BY <1>0, <2>1, <2>2, SameRequest DEF CountsRight
    <2> QED
      BY <1>0, <2>1, <2>2, <2>3, <2>4, EndsUnlogged
  <1> QED
    BY <1>1, <1>2 DEF RouterStep

LEMMA RequestIDStepInv ==
  ASSUME TypeOK, NEW r \in Request, RequestInv(r), RequestIDStep(r)
  PROVE  RequestInv(r)'
  <1> USE DEF RequestInv
  <1>0. UNCHANGED <<request, counted, sent, seen, line>>
    BY DEF RequestIDStep, OpenLog, OpenLogFails, Identify, CloseLog, accessVars
  <1>1. CASE OpenLog(r)
    <2>1. at[r] = "request_id" /\ at'[r] = "identify"
      BY <1>1 DEF OpenLog, To, TypeOK
    <2> QED
      BY <1>0, <2>1, StageReached DEF OnTheWay, Part
  <1>2. CASE OpenLogFails(r)
    <2>1. at[r] = "request_id" /\ at'[r] = "aborted"
      BY <1>2 DEF OpenLogFails, To, TypeOK
    <2> QED
      BY <1>0, <2>1 DEF Fresh, OnTheWay, Logged, Over, Aborted
  <1>3. CASE Identify(r)
    <2>1. at[r] = "identify" /\ at'[r] = From(2)
      BY <1>3, AfterStage DEF Identify, To, TypeOK
    <2>2. Matched(r) /\ sent[r] = <<>> /\ line[r] = "none" /\ r \notin counted
      BY <2>1 DEF OnTheWay
    <2>3. "cors" \notin enabled => ~IsPreflight(r)
      BY DEF IsPreflight
    <2>4. "rate_limit" \notin enabled => CountsRight(r)
      BY <2>2 DEF CountsRight
    <2> QED
      BY <1>0, <2>1, <2>2, <2>3, <2>4, ChainOrder, StageReached DEF Part, Wrapped
  <1>4. CASE CloseLog(r)
    <2>1. at[r] = "closing" /\ at'[r] = "done"
      BY <1>4 DEF CloseLog, To, TypeOK
    <2>2. CountsRight(r)' = CountsRight(r)
      BY <1>0, SameRequest DEF CountsRight
    <2> HIDE DEF CountsRight, Matched, IsPreflight
    <2> QED
      BY <1>0, <2>1, <2>2, SameRequest DEF Fresh, OnTheWay, Logged, Over, Aborted
  <1> QED
    BY <1>1, <1>2, <1>3, <1>4 DEF RequestIDStep

(* What is left of the chain when a request does not reach its handler. *)
LEMMA OutermostIs == Outermost \in {"closing", "done"}
  BY DEF Outermost

LEMMA MiddlewareStepInv ==
  ASSUME TypeOK, NEW r \in Request, RequestInv(r), MiddlewareStep(r)
  PROVE  RequestInv(r)'
  <1> USE DEF RequestInv
  <1>0. UNCHANGED request
    BY RequestKept DEF GoroutineStep
  <1>1. CASE Preflight(r)
    <2>1. /\ at[r] = "cors" /\ at'[r] \in {"closing", "done"}
          /\ UNCHANGED <<line, counted>> /\ method[r] = "options"
      BY <1>1, OutermostIs DEF Preflight, To, TypeOK, accessVars
    <2>2. /\ Matched(r) /\ sent[r] = <<>> /\ line[r] = "none" /\ r \notin counted
          /\ "cors" \in enabled
      BY <2>1 DEF OnTheWay, Part
    <2>3. IsPreflight(r)
      BY <2>1, <2>2 DEF IsPreflight
    <2>4. sent'[r] = <<"204">>
      BY <1>1, <2>2 DEF Preflight, Respond, TypeOK
    <2>5. CountsRight(r)'
      BY <1>0, <2>1, <2>2, <2>3, SameRequest DEF CountsRight
    <2> QED
      BY <1>0, <2>1, <2>2, <2>3, <2>4, <2>5, EndsUnlogged DEF Statuses
  <1>2. CASE CrossOrigin(r)
    <2>1. /\ at[r] = "cors" /\ at'[r] = From(3) /\ method[r] # "options"
          /\ UNCHANGED <<sent, seen, line, counted>>
      BY <1>2, AfterStage DEF CrossOrigin, To, TypeOK, accessVars
    <2>2. Matched(r) /\ sent[r] = <<>> /\ line[r] = "none" /\ r \notin counted
      BY <2>1 DEF OnTheWay
    <2>3. ~IsPreflight(r)
      BY <2>1 DEF IsPreflight
    <2>4. "rate_limit" \notin enabled => CountsRight(r)
      BY <2>2 DEF CountsRight
    <2> QED
      BY <1>0, <2>1, <2>2, <2>3, <2>4, ChainOrder, StageReached DEF Part, Wrapped
  <1>3. CASE Admit(r)
    <2>1. /\ at[r] = "rate_limit" /\ at'[r] = From(4) /\ counted' = counted \cup {r}
          /\ UNCHANGED <<sent, seen, line>>
      BY <1>3, AfterStage DEF Admit, To, TypeOK, accessVars
    <2>2. /\ Matched(r) /\ sent[r] = <<>> /\ line[r] = "none"
          /\ "rate_limit" \in enabled /\ ~IsPreflight(r)
      BY <2>1 DEF OnTheWay, Part
    <2>3. CountsRight(r)'
      BY <1>0, <2>1, <2>2, SameRequest DEF CountsRight
    <2>4. at'[r] \in {"logger", "handler"} /\ (at'[r] = "logger" => "logger" \in enabled)
      BY <2>1, ChainOrder
    <2>5. at'[r] = "handler" => ~Wrapped
      BY <2>1, ChainOrder DEF Wrapped
    <2> HIDE DEF CountsRight, Matched, IsPreflight, Wrapped
    <2> QED
      BY <1>0, <2>1, <2>2, <2>3, <2>4, <2>5, SameRequest
         DEF Fresh, OnTheWay, Logged, Over, Aborted, Part
  <1>4. CASE Refuse(r)
    <2>1. /\ at[r] = "rate_limit" /\ at'[r] \in {"closing", "done"}
          /\ counted' = counted \cup {r} /\ UNCHANGED line
      BY <1>4, OutermostIs DEF Refuse, To, TypeOK, accessVars
    <2>2. /\ Matched(r) /\ sent[r] = <<>> /\ line[r] = "none"
          /\ "rate_limit" \in enabled /\ ~IsPreflight(r)
      BY <2>1 DEF OnTheWay, Part
    <2>3. sent'[r] = <<"429">>
      BY <1>4, <2>2 DEF Refuse, Respond, TypeOK
    <2>4. CountsRight(r)'
      BY <1>0, <2>1, <2>2, SameRequest DEF CountsRight
    <2> QED
      BY <1>0, <2>1, <2>2, <2>3, <2>4, EndsUnlogged DEF Statuses
  <1>5. CASE Wrap(r)
    <2>1. /\ at[r] = "logger" /\ at'[r] = "handler" /\ seen'[r] = "200"
          /\ UNCHANGED <<sent, line, counted>>
      BY <1>5 DEF Wrap, To, TypeOK
    <2>2. /\ Matched(r) /\ sent[r] = <<>> /\ line[r] = "none"
          /\ CountsRight(r) /\ ~IsPreflight(r)
      BY <2>1 DEF OnTheWay
    <2> QED
      BY <1>0, <2>1, <2>2, StageReached DEF Part
  <1>6. CASE LogAccess(r)
    <2>1. /\ at[r] = "logging" /\ at'[r] \in {"closing", "done"} /\ line'[r] = seen[r]
          /\ UNCHANGED <<sent, seen, counted>>
      BY <1>6, OutermostIs DEF LogAccess, To, TypeOK
    <2>2. /\ Wrapped /\ Matched(r) /\ ~IsPreflight(r) /\ CountsRight(r)
          /\ sent[r] = <<seen[r]>> /\ seen[r] \in Statuses \ {"429"} /\ seen[r] # "none"
      BY <2>1 DEF Logged, Statuses
    <2>3. CountsRight(r)'
      BY <1>0, <2>1, <2>2, SameRequest DEF CountsRight
    <2>4. "logger" \in enabled /\ sent[r] # <<"429">>
      BY <2>2 DEF Wrapped
    <2> HIDE DEF CountsRight, Matched, IsPreflight, Wrapped
    <2> QED
      BY <1>0, <2>1, <2>2, <2>3, <2>4, SameRequest DEF Fresh, OnTheWay, Logged, Over,
        Aborted
  <1> QED
    BY <1>1, <1>2, <1>3, <1>4, <1>5, <1>6 DEF MiddlewareStep

(* A handler that answers goes on to the access log, if there is one. *)
LEMMA HandlerAnswers ==
  ASSUME TypeOK, NEW r \in Request, RequestInv(r), at[r] = "handler",
         UNCHANGED <<request, counted, line>>,
         at'[r] = IF Wrapped THEN "logging" ELSE Outermost,
         NEW status \in Statuses \ {"429"}, sent'[r] = <<status>>,
         Wrapped => seen'[r] = status
  PROVE  RequestInv(r)'
  <1>1. Matched(r) /\ ~IsPreflight(r) /\ CountsRight(r) /\ line[r] = "none"
    BY DEF RequestInv, OnTheWay
  <1>2. CountsRight(r)'
    BY <1>1, SameRequest DEF CountsRight
  <1>3. CASE Wrapped
    <2> HIDE DEF CountsRight, Matched, IsPreflight, Wrapped
    <2> QED
      BY <1>1, <1>2, <1>3, SameRequest DEF RequestInv, Fresh, OnTheWay, Logged, Over,
        Aborted
  <1>4. CASE ~Wrapped
    <2>1. "logger" \notin enabled
      BY <1>4 DEF Wrapped
    <2>2. at'[r] \in {"closing", "done"}
      BY <1>4, OutermostIs
    <2> QED
      BY <1>1, <1>2, <2>1, <2>2, EndsUnlogged
  <1> QED
    BY <1>3, <1>4

LEMMA HandlerStepInv ==
  ASSUME TypeOK, NEW r \in Request, RequestInv(r), HandlerStep(r)
  PROVE  RequestInv(r)'
  <1>0. UNCHANGED request
    BY RequestKept DEF GoroutineStep
  <1>a. at[r] = "handler" /\ sent[r] = <<>> /\ (Wrapped => seen[r] = "200")
    BY DEF HandlerStep, ServeHealth, ServeAuth, RefuseUpgrade, Upgrade, ServeDocs, DocsFail,
           Serve, RequestInv, OnTheWay
  <1>1. ASSUME NEW p, NEW statuses \in SUBSET (Statuses \ {"429"}), Serve(r, p, statuses)
        PROVE  RequestInv(r)'
    <2>1. PICK status \in statuses : WriteHeader(r, status)
      BY <1>1 DEF Serve
    <2>2. sent'[r] = <<status>> /\ (Wrapped => seen'[r] = status)
      BY <1>a, <2>1 DEF WriteHeader, Respond, TypeOK
    <2>3. UNCHANGED <<counted, line>> /\ at'[r] = IF Wrapped THEN "logging" ELSE Outermost
      BY <1>1 DEF Serve, To, TypeOK
    <2> QED
      BY <1>0, <1>a, <2>2, <2>3, HandlerAnswers
  <1>2. CASE ServeHealth(r)
    BY <1>1, <1>2 DEF ServeHealth, Statuses
  <1>3. CASE ServeAuth(r)
    <2>1. AuthStatus(path[r]) \in SUBSET (Statuses \ {"429"})
      BY DEF AuthStatus, Statuses
    <2> QED
      BY <1>1, <1>3, <2>1 DEF ServeAuth
  <1>4. CASE RefuseUpgrade(r)
    <2>1. {"400", "403", "405"} \cup (IF Wrapped THEN {"500"} ELSE {})
            \in SUBSET (Statuses \ {"429"})
      BY DEF Statuses
    <2> QED
      BY <1>1, <1>4, <2>1 DEF RefuseUpgrade
  <1>5. CASE DocsFail(r)
    BY <1>1, <1>5 DEF DocsFail, Statuses
  <1>6. CASE Upgrade(r)
    <2>1. /\ sent'[r] = <<"101">> /\ UNCHANGED <<counted, line>> /\ ~Wrapped
          /\ at'[r] = Outermost
      BY <1>a, <1>6 DEF Upgrade, Respond, To, TypeOK, accessVars
    <2> QED
      BY <1>0, <1>a, <2>1, HandlerAnswers DEF Statuses
  <1>7. CASE ServeDocs(r)
    <2>1. /\ sent'[r] = <<"200">> /\ UNCHANGED <<counted, line, seen>>
          /\ at'[r] = IF Wrapped THEN "logging" ELSE Outermost
      BY <1>a, <1>7 DEF ServeDocs, Respond, To, TypeOK, accessVars
    <2> QED
      BY <1>0, <1>a, <2>1, HandlerAnswers DEF Statuses
  <1> QED
    BY <1>2, <1>3, <1>4, <1>5, <1>6, <1>7 DEF HandlerStep

-----------------------------------------------------------------------------
(* Types.                                                                  *)

Stage == {"new", "request_id", "identify", "cors", "rate_limit", "logger", "handler",
          "logging", "closing", "done", "aborted"}

(* A goroutine moves to some stage, and appends at most one status. *)
LEMMA StepTypes ==
  ASSUME TypeOK, UNCHANGED request, NEW r \in Request,
         \E stage \in Stage : To(r, stage),
         sent' = sent \/ \E status \in Statuses : Respond(r, status),
         file' \in [Request -> {"none", "open", "closed"}],
         entry' \in [Request -> {"none", "waiting", "written", "lost"}],
         counted' \subseteq Request,
         seen' \in [Request -> Statuses \cup {"none"}],
         line' \in [Request -> Statuses \cup {"none"}]
  PROVE  TypeOK'
  <1>1. at' \in [Request -> Stage]
    BY DEF TypeOK, To, Stage
  <1>2. sent' \in [Request -> Seq(Statuses)]
    <2>1. CASE sent' = sent
      BY <2>1 DEF TypeOK
    <2>2. ASSUME NEW status \in Statuses, Respond(r, status)
          PROVE  sent' \in [Request -> Seq(Statuses)]
      <3>1. Append(sent[r], status) \in Seq(Statuses)
        BY DEF TypeOK
      <3> QED
        BY <2>2, <3>1 DEF Respond, TypeOK
    <2> QED
      BY <2>1, <2>2
  <1>3. enabled' \subseteq Part /\ path' \in [Request -> Path] /\ method' \in [Request -> Method]
    BY DEF TypeOK, request
  <1> QED
    BY <1>1, <1>2, <1>3 DEF TypeOK, Stage

LEMMA NextStages == \A i \in 1..5 : From(i) \in Stage
  BY FromUnfolds, ChainOrder, ChainIs DEF First, Stage

LEMMA GoroutineTypes ==
  ASSUME TypeOK, NEW r \in Request, GoroutineStep(r)
  PROVE  TypeOK'
  <1>0. UNCHANGED request
    BY RequestKept
  <1>1. \E stage \in Stage : To(r, stage)
    <2>1. Outermost \in Stage /\ First \in Stage /\ After("request_id") \in Stage
            /\ After("cors") \in Stage /\ After("rate_limit") \in Stage
      BY OutermostIs, NextStages, AfterStage DEF Stage, First
    <2>2. \A s \in {"identify", "aborted", "logging", "handler", "done"} : s \in Stage
      BY DEF Stage
    <2>3. CASE RouterStep(r) \/ RequestIDStep(r)
      BY <2>1, <2>2, <2>3 DEF RouterStep, Dispatch, Mismatch, RequestIDStep, OpenLog,
             OpenLogFails, Identify, CloseLog
    <2>4. CASE MiddlewareStep(r)
      BY <2>1, <2>2, <2>4 DEF MiddlewareStep, Preflight, CrossOrigin, Admit, Refuse, Wrap,
             LogAccess
    <2>5. CASE HandlerStep(r)
      BY <2>1, <2>2, <2>5 DEF HandlerStep, ServeHealth, ServeAuth, RefuseUpgrade, Upgrade,
             ServeDocs, DocsFail, Serve
    <2> QED
      BY <2>3, <2>4, <2>5 DEF GoroutineStep
  <1>2. CASE RouterStep(r)
    BY <1>0, <1>1, <1>2, StepTypes DEF RouterStep, Dispatch, Mismatch, TypeOK, Statuses,
           accessVars, logVars
  <1>3. CASE RequestIDStep(r)
    <2>1. /\ file' \in [Request -> {"none", "open", "closed"}]
          /\ entry' \in [Request -> {"none", "waiting", "written", "lost"}]
          /\ UNCHANGED <<counted, sent, seen, line>>
      BY <1>3 DEF RequestIDStep, OpenLog, OpenLogFails, Identify, CloseLog, TypeOK,
        accessVars,
             logVars
    <2>2. /\ counted' \subseteq Request
          /\ seen' \in [Request -> Statuses \cup {"none"}]
          /\ line' \in [Request -> Statuses \cup {"none"}]
      BY <2>1 DEF TypeOK
    <2> QED
      BY <1>0, <1>1, <2>1, <2>2, StepTypes
  <1>4. CASE MiddlewareStep(r)
    <2>1. sent' = sent \/ \E status \in Statuses : Respond(r, status)
      BY <1>4 DEF MiddlewareStep, Preflight, CrossOrigin, Admit, Refuse, Wrap,
        LogAccess, Statuses
    <2>2. UNCHANGED <<file, entry>> /\ counted' \subseteq Request
      BY <1>4 DEF MiddlewareStep, Preflight, CrossOrigin, Admit, Refuse, Wrap,
        LogAccess, TypeOK,
             logVars
    <2>3. /\ seen' \in [Request -> Statuses \cup {"none"}]
          /\ line' \in [Request -> Statuses \cup {"none"}]
      <3>1. "200" \in Statuses
        BY DEF Statuses
      <3> QED
        BY <1>4, <3>1 DEF MiddlewareStep, Preflight, CrossOrigin, Admit, Refuse, Wrap,
          LogAccess,
               TypeOK, accessVars
    <2>4. /\ file' \in [Request -> {"none", "open", "closed"}]
          /\ entry' \in [Request -> {"none", "waiting", "written", "lost"}]
      BY <2>2 DEF TypeOK
    <2> QED
      BY <1>0, <1>1, <2>1, <2>2, <2>3, <2>4, StepTypes
  <1>5. CASE HandlerStep(r)
    <2>1. ASSUME NEW p, NEW statuses \in SUBSET Statuses, Serve(r, p, statuses)
          PROVE  TypeOK'
      <3>1. PICK status \in statuses : WriteHeader(r, status)
        BY <2>1 DEF Serve
      <3>2. Respond(r, status) /\ seen' \in [Request -> Statuses \cup {"none"}]
        BY <3>1 DEF WriteHeader, TypeOK
      <3> QED
        BY <1>0, <1>1, <2>1, <3>2, StepTypes DEF Serve, TypeOK, logVars
    <2>2. CASE ServeHealth(r) \/ DocsFail(r)
      BY <2>1, <2>2 DEF ServeHealth, DocsFail, Statuses
    <2>3. CASE ServeAuth(r)
      <3>1. AuthStatus(path[r]) \in SUBSET Statuses
        BY DEF AuthStatus, Statuses
      <3> QED
        BY <2>1, <2>3, <3>1 DEF ServeAuth
    <2>4. CASE RefuseUpgrade(r)
      <3>1. {"400", "403", "405"} \cup (IF Wrapped THEN {"500"} ELSE {}) \in SUBSET Statuses
        BY DEF Statuses
      <3> QED
        BY <2>1, <2>4, <3>1 DEF RefuseUpgrade
    <2>5. CASE Upgrade(r) \/ ServeDocs(r)
      BY <1>0, <1>1, <2>5, StepTypes DEF Upgrade, ServeDocs, TypeOK, Statuses, accessVars,
             logVars
    <2> QED
      BY <1>5, <2>2, <2>3, <2>4, <2>5 DEF HandlerStep
  <1> QED
    BY <1>2, <1>3, <1>4, <1>5 DEF GoroutineStep

LEMMA NextInv == TypeOK /\ Inv /\ [Next]_vars => (TypeOK /\ Inv)'
  <1> SUFFICES ASSUME TypeOK, Inv, [Next]_vars
               PROVE  TypeOK' /\ Inv'
    OBVIOUS
  <1>1. ASSUME NEW r \in Request, GoroutineStep(r)
        PROVE  TypeOK' /\ Inv'
    <2>1. RequestInv(r)'
      BY <1>1, RouterStepInv, RequestIDStepInv, MiddlewareStepInv, HandlerStepInv
         DEF GoroutineStep, Inv
    <2>2. ASSUME NEW q \in Request, q # r
          PROVE  RequestInv(q)'
      BY <1>1, <2>2, RequestKept, StaysApart, OthersKeep DEF Inv
    <2> QED
      BY <1>1, <2>1, <2>2, GoroutineTypes DEF Inv
  <1>2. ASSUME NEW r \in Request, WriteEntry(r) \/ UNCHANGED vars
        PROVE  TypeOK' /\ Inv'
    <2>1. UNCHANGED <<request, at, counted, sent, seen, line>>
      BY <1>2 DEF WriteEntry, vars, accessVars
    <2>2. TypeOK'
      BY <1>2 DEF TypeOK, WriteEntry, vars, request, logVars, accessVars
    <2>3. ASSUME NEW q \in Request
          PROVE  RequestInv(q)'
      BY <2>1, OthersKeep DEF Inv
    <2> QED
      BY <2>2, <2>3 DEF Inv
  <1>3. CASE UNCHANGED vars
    <2>1. TypeOK'
      BY <1>3 DEF TypeOK, vars, request, logVars, accessVars
    <2>2. ASSUME NEW q \in Request
          PROVE  RequestInv(q)'
      BY <1>3, OthersKeep DEF Inv, vars, accessVars
    <2> QED
      BY <2>1, <2>2 DEF Inv
  <1> QED
    BY <1>1, <1>2, <1>3 DEF Next, Answered

LEMMA Invariance == Spec => [](TypeOK /\ Inv)
  BY InitInv, NextInv, PTL DEF Spec

-----------------------------------------------------------------------------
(* The theorems.                                                           *)

(* Every variable keeps its type, for any requests and configuration. *)
THEOREM TypeCorrect == Spec => []TypeOK
  BY Invariance, PTL

(* Whatever is enabled, nobody on the chain answers twice, and only a      *)
(* request without a log file ends without an answer.                      *)
THEOREM AnsweredOnce == Spec => []OneAnswer
  <1>1. TypeOK /\ Inv => OneAnswer
    <2> SUFFICES ASSUME TypeOK, Inv, NEW r \in Request
                 PROVE  /\ Len(sent[r]) <= 1
                        /\ at[r] = "done" => Len(sent[r]) = 1
                        /\ at[r] = "aborted" => sent[r] = <<>>
      BY DEF OneAnswer
    <2>1. RequestInv(r) /\ at[r] \in Stage
      BY DEF Inv, TypeOK, Stage
    <2>2. sent[r] = <<>> \/ \E status : sent[r] = <<status>>
      BY <2>1 DEF RequestInv, Fresh, OnTheWay, Logged, Over, Aborted, Stage
    <2>3. at[r] = "done" => \E status : sent[r] = <<status>>
      BY <2>1 DEF RequestInv, Over
    <2>4. at[r] = "aborted" => sent[r] = <<>>
      BY <2>1 DEF RequestInv, Aborted
    <2>5. Len(<<>>) = 0 /\ \A status : Len(<<status>>) = 1
      OBVIOUS
    <2>6. Len(sent[r]) = 0 \/ Len(sent[r]) = 1
      BY <2>2, <2>5
    <2>7. at[r] = "done" => Len(sent[r]) = 1
      BY <2>3, <2>5
    <2>8. Len(sent[r]) <= 1
      <3>1. CASE Len(sent[r]) = 0
        BY <3>1
      <3>2. CASE Len(sent[r]) = 1
        BY <3>2
      <3> QED
        BY <2>6, <3>1, <3>2
    <2> QED
      BY <2>4, <2>7, <2>8
  <1> QED
    BY <1>1, Invariance, PTL

(* The access log has the status that the client got, of each request that *)
(* a handler answered and of no other.                                     *)
THEOREM LogIsTrue == Spec => []LogTellsTruth
  <1>1. TypeOK /\ Inv => LogTellsTruth
    <2> SUFFICES ASSUME TypeOK, Inv, NEW r \in Request
                 PROVE  /\ line[r] # "none" => sent[r] = <<line[r]>>
                        /\ at[r] = "done" =>
                             (line[r] # "none" <=>
                                /\ "logger" \in enabled
                                /\ Matched(r) /\ ~IsPreflight(r)
                                /\ sent[r] # <<"429">>)
      BY DEF LogTellsTruth
    <2>1. RequestInv(r) /\ at[r] \in Stage
      BY DEF Inv, TypeOK, Stage
    <2> HIDE DEF Matched, IsPreflight, CountsRight, Wrapped
    <2> QED
      BY <2>1 DEF RequestInv, Fresh, OnTheWay, Logged, Over, Aborted, Stage
  <1> QED
    BY <1>1, Invariance, PTL

(* The limiter's budget goes to requests for handlers and to no other. *)
THEOREM BudgetSpentOnHandlers == Spec => []BudgetIsForHandlers
  <1>1. Inv => BudgetIsForHandlers
    BY DEF Inv, RequestInv, Over, CountsRight, BudgetIsForHandlers
  <1> QED
    BY <1>1, Invariance, PTL

-----------------------------------------------------------------------------
(* Liveness.  The prover has no rule for ENABLED, so fairness is stated    *)
(* with what enables a step written out: the guards of GoroutineStep.      *)

Ready(r) ==
  \/ at[r] \in {"new", "request_id", "identify", "cors", "rate_limit", "logger", "logging",
                "closing"}
  \/ /\ at[r] = "handler"
     /\ \/ \E p \in {Health, <<"api", "auth">>, Socket} : IsPrefix(p, path[r])
        \/ path[r] = Docs

(* WF_vars(GoroutineStep(r)), with the guard for its ENABLED. *)
GoesOn(r) == []<>~Ready(r) \/ []<><<GoroutineStep(r)>>_vars

AllGoOn == \A q \in Request : GoesOn(q)

(* The box adds nothing: the condition is about the far future. *)
GuardedFairness == []AllGoOn

(* No goroutine is stuck: whatever has been dispatched finds a handler. *)
LEMMA NeverStuck ==
  ASSUME TypeOK, Inv, NEW r \in Request, at[r] \notin {"done", "aborted"}
  PROVE  Ready(r)
  <1>1. CASE at[r] = "handler"
    <2>1. Routed(path[r])
      BY <1>1 DEF Inv, RequestInv, OnTheWay, Matched
    <2>2. IsPrefix(Health, Health) /\ IsPrefix(Socket, Socket)
      BY DEF IsPrefix
    <2> QED
      BY <1>1, <2>1, <2>2 DEF Routed, Ready
  <1> QED
    BY <1>1 DEF TypeOK, Ready

(* An open log belongs to a goroutine that has its closing ahead. *)
LogIsOwned ==
  \A r \in Request :
    /\ at[r] \in {"identify", "closing"} => "request_id" \in enabled
    /\ at[r] \in {"new", "request_id"} => file[r] = "none"
    /\ file[r] = "open" => "request_id" \in enabled
    /\ at[r] \in {"done", "aborted"} => file[r] # "open"

(* The stages that may follow. *)
Onwards(stage) ==
  CASE stage = "identify" -> {"cors", "rate_limit", "logger", "handler"}
    [] stage = "cors" -> {"rate_limit", "logger", "handler", "closing"}
    [] stage = "rate_limit" -> {"logger", "handler", "closing"}
    [] stage = "logger" -> {"handler"}
    [] stage = "handler" -> {"logging", "closing"}
    [] stage = "logging" -> {"closing"}
    [] OTHER -> {}

(* While its log is open, a goroutine moves towards closing it. *)
LEMMA MovesOn ==
  ASSUME TypeOK, LogIsOwned, NEW r \in Request, file[r] = "open", GoroutineStep(r)
  PROVE  \/ at[r] = "closing" /\ file'[r] = "closed"
         \/ file'[r] = "open" /\ at'[r] \in Onwards(at[r])
  <1> USE DEF To, logVars
  <1>1. Outermost = "closing" /\ at[r] \notin {"new", "request_id"}
    BY DEF LogIsOwned, Outermost
  <1>2. /\ After("request_id") \in {"cors", "rate_limit", "logger", "handler"}
        /\ After("cors") \in {"rate_limit", "logger", "handler"}
        /\ After("rate_limit") \in {"logger", "handler"}
    BY ChainOrder, AfterStage
  <1>3. CASE RouterStep(r)
    BY <1>1, <1>3 DEF RouterStep, Dispatch, Mismatch
  <1>4. CASE RequestIDStep(r)
    <2>1. CASE Identify(r)
      BY <1>2, <2>1 DEF Identify, TypeOK, Onwards
    <2>2. CASE CloseLog(r)
      BY <2>2 DEF CloseLog, TypeOK
    <2> QED
      BY <1>1, <1>4, <2>1, <2>2 DEF RequestIDStep, OpenLog, OpenLogFails
  <1>5. CASE MiddlewareStep(r)
    <2>1. UNCHANGED file
      BY <1>5 DEF MiddlewareStep, Preflight, CrossOrigin, Admit, Refuse, Wrap, LogAccess
    <2>2. at'[r] \in Onwards(at[r])
      BY <1>1, <1>2, <1>5 DEF MiddlewareStep, Preflight, CrossOrigin, Admit, Refuse, Wrap,
             LogAccess, TypeOK, Onwards
    <2> QED
      BY <2>1, <2>2
  <1>6. CASE HandlerStep(r)
    <2>1. at[r] = "handler" /\ UNCHANGED file
            /\ at' \in {[at EXCEPT ![r] = "logging"], [at EXCEPT ![r] = "closing"]}
      BY <1>1, <1>6 DEF HandlerStep, ServeHealth, ServeAuth, RefuseUpgrade, Upgrade,
        ServeDocs,
             DocsFail, Serve
    <2> QED
      BY <2>1 DEF TypeOK, Onwards
  <1> QED
    BY <1>3, <1>4, <1>5, <1>6 DEF GoroutineStep

(* Steps of others leave a goroutine and its log alone. *)
LEMMA LogApart ==
  ASSUME TypeOK, NEW r \in Request, [Next]_vars, ~GoroutineStep(r)
  PROVE  UNCHANGED <<at[r], file[r]>>
  <1>1. ASSUME NEW q \in Request, q # r, GoroutineStep(q)
        PROVE  UNCHANGED file[r]
    BY <1>1 DEF GoroutineStep, RouterStep, Dispatch, Mismatch, RequestIDStep, OpenLog,
           OpenLogFails, Identify, CloseLog, MiddlewareStep, Preflight, CrossOrigin, Admit,
           Refuse, Wrap, LogAccess, HandlerStep, ServeHealth, ServeAuth, RefuseUpgrade,
           Upgrade, ServeDocs, DocsFail, Serve, logVars, TypeOK
  <1>2. ASSUME NEW q \in Request, q # r, GoroutineStep(q)
        PROVE  UNCHANGED at[r]
    BY <1>2, StaysApart
  <1>3. CASE UNCHANGED vars \/ \E q \in Request : WriteEntry(q)
    BY <1>3 DEF vars, WriteEntry, logVars
  <1> QED
    BY <1>1, <1>2, <1>3 DEF Next, Answered

LEMMA OwnedInv == TypeOK /\ Inv /\ LogIsOwned /\ [Next]_vars => LogIsOwned'
  <1> SUFFICES ASSUME TypeOK, Inv, LogIsOwned, [Next]_vars, NEW r \in Request
               PROVE  (/\ at[r] \in {"identify", "closing"} => "request_id" \in enabled
                       /\ at[r] \in {"new", "request_id"} => file[r] = "none"
                       /\ file[r] = "open" => "request_id" \in enabled
                       /\ at[r] \in {"done", "aborted"} => file[r] # "open")'
    BY DEF LogIsOwned
  <1>1. UNCHANGED enabled
    BY RequestKept DEF Next, Answered, vars, WriteEntry, request
  <1>2. CASE ~GoroutineStep(r)
    BY <1>1, <1>2, LogApart DEF LogIsOwned
  <1>3. CASE GoroutineStep(r) /\ file[r] = "open"
    <2>1. CASE at[r] = "closing" /\ file'[r] = "closed"
      <3>1. at'[r] = "done"
        BY <1>3, <2>1 DEF GoroutineStep, RouterStep, Dispatch, Mismatch, RequestIDStep,
          OpenLog,
           OpenLogFails, Identify, CloseLog, MiddlewareStep, Preflight, CrossOrigin, Admit,
           Refuse, Wrap, LogAccess, HandlerStep, ServeHealth, ServeAuth, RefuseUpgrade,
           Upgrade, ServeDocs, DocsFail, Serve, To, TypeOK
      <3> QED
        BY <2>1, <3>1
    <2>2. CASE file'[r] = "open" /\ at'[r] \in Onwards(at[r])
      <3>1. at'[r] \in {"cors", "rate_limit", "logger", "handler", "logging", "closing"}
        BY <2>2 DEF Onwards
      <3> QED
        BY <1>1, <1>3, <2>2, <3>1 DEF LogIsOwned
    <2> QED
      BY <1>3, <2>1, <2>2, MovesOn
  <1>4. CASE GoroutineStep(r) /\ file[r] # "open"
    <2>0. "request_id" \in enabled => Outermost = "closing"
      BY DEF Outermost
    <2>1. CASE RouterStep(r)
      <3>1. UNCHANGED file /\ file[r] = "none" /\ at'[r] \in {First, "done"}
        BY <2>1 DEF RouterStep, Dispatch, Mismatch, logVars, To, TypeOK, LogIsOwned
      <3>2. First \notin {"identify", "closing", "new", "aborted", "done"}
        BY ChainOrder
      <3> QED
        BY <3>1, <3>2
    <2>2. CASE OpenLog(r)
      <3>1. Inv /\ at[r] = "request_id" /\ at'[r] = "identify" /\ file'[r] = "open"
        BY <2>2 DEF OpenLog, To, TypeOK
      <3>2. "request_id" \in enabled
        BY <3>1 DEF Inv, RequestInv, OnTheWay, Part
      <3> QED
        BY <1>1, <3>1, <3>2
    <2>3. CASE OpenLogFails(r)
      BY <1>4, <2>3 DEF OpenLogFails, To, TypeOK, logVars
    <2>4. CASE Identify(r)
      <3>1. After("request_id") \in {"cors", "rate_limit", "logger", "handler"}
        BY ChainOrder, AfterStage
      <3> QED
        BY <1>4, <2>4, <3>1 DEF Identify, To, TypeOK
    <2>5. CASE CloseLog(r)
      BY <1>1, <2>5 DEF CloseLog, To, TypeOK
    <2>6. CASE MiddlewareStep(r) \/ HandlerStep(r)
      <3>1. UNCHANGED file
        BY <2>6 DEF MiddlewareStep, Preflight, CrossOrigin, Admit, Refuse, Wrap, LogAccess,
               HandlerStep, ServeHealth, ServeAuth, RefuseUpgrade, Upgrade, ServeDocs,
               DocsFail, Serve, logVars
      <3>2. at'[r] \in {After("cors"), After("rate_limit"), "handler", "logging", Outermost}
        BY <2>6 DEF MiddlewareStep, Preflight, CrossOrigin, Admit, Refuse, Wrap, LogAccess,
               HandlerStep, ServeHealth, ServeAuth, RefuseUpgrade, Upgrade, ServeDocs,
               DocsFail, Serve, To, TypeOK
      <3>3. {After("cors"), After("rate_limit")} \subseteq {"rate_limit", "logger", "handler"}
        BY ChainOrder, AfterStage
      <3>4. Outermost = IF "request_id" \in enabled THEN "closing" ELSE "done"
        BY DEF Outermost
      <3> QED
        BY <1>1, <1>4, <3>1, <3>2, <3>3, <3>4
    <2> QED
      BY <1>4, <2>1, <2>2, <2>3, <2>4, <2>5, <2>6 DEF GoroutineStep, RequestIDStep
  <1> QED
    BY <1>2, <1>3, <1>4

(* A stage in which the log is open. *)
Holding(r, stage) == file[r] = "open" /\ at[r] = stage

SafeInv == TypeOK /\ Inv /\ LogIsOwned

LEMMA Safety == Spec => []SafeInv
  <1>1. Init => LogIsOwned
    BY DEF Init, LogIsOwned
  <1> QED
    BY <1>1, OwnedInv, Invariance, PTL DEF Spec, SafeInv

(* What may follow a stage with an open log, and that it does. *)
Beyond(r, stage) ==
  file[r] = "closed" \/ \E next \in Onwards(stage) : Holding(r, next)

IsLeft(r, stage) == Holding(r, stage) ~> Beyond(r, stage)

LEMMA StageLeft ==
  ASSUME NEW r \in Request, NEW stage \in Stage
  PROVE  []SafeInv /\ [][Next]_vars /\ GuardedFairness => IsLeft(r, stage)
  <1>1. AllGoOn => GoesOn(r)
    BY DEF AllGoOn
  <1>2. SafeInv /\ Holding(r, stage) => Ready(r)
    BY NeverStuck DEF SafeInv, LogIsOwned, Holding
  <1>3. SafeInv /\ Holding(r, stage) /\ GoroutineStep(r) => Beyond(r, stage)'
    BY MovesOn DEF SafeInv, Holding, Onwards, Beyond
  <1>4. SafeInv /\ Holding(r, stage) /\ [Next]_vars /\ ~GoroutineStep(r)
          => Holding(r, stage)'
    BY LogApart DEF SafeInv, Holding
  <1> QED
    BY <1>1, <1>2, <1>3, <1>4, PTL DEF GuardedFairness, GoesOn, IsLeft

(* By the order of the stages, a goroutine comes to its closing. *)
LEMMA LogGetsClosed ==
  ASSUME NEW r \in Request
  PROVE  []SafeInv /\ [][Next]_vars /\ GuardedFairness =>
           (file[r] = "open" ~> file[r] = "closed")
  <1> DEFINE H == []SafeInv /\ [][Next]_vars /\ GuardedFairness
             Open == {"identify", "cors", "rate_limit", "logger", "handler", "logging",
                      "closing"}
  <1>1. ASSUME NEW stage \in Open
        PROVE  H => IsLeft(r, stage)
    BY StageLeft DEF Stage
  <1>2. /\ H => IsLeft(r, "closing")
        /\ H => IsLeft(r, "logging")
        /\ H => IsLeft(r, "handler")
        /\ H => IsLeft(r, "logger")
        /\ H => IsLeft(r, "rate_limit")
        /\ H => IsLeft(r, "cors")
        /\ H => IsLeft(r, "identify")
    <2> HIDE DEF H
    <2> QED
      BY <1>1
  <1>3. /\ Beyond(r, "closing") => file[r] = "closed"
        /\ Beyond(r, "logging") => file[r] = "closed" \/ Holding(r, "closing")
        /\ Beyond(r, "handler") =>
             file[r] = "closed" \/ Holding(r, "logging") \/ Holding(r, "closing")
        /\ Beyond(r, "logger") => file[r] = "closed" \/ Holding(r, "handler")
        /\ Beyond(r, "rate_limit") =>
             file[r] = "closed" \/ Holding(r, "logger") \/ Holding(r, "handler")
               \/ Holding(r, "closing")
        /\ Beyond(r, "cors") =>
             file[r] = "closed" \/ Holding(r, "rate_limit") \/ Holding(r, "logger")
               \/ Holding(r, "handler") \/ Holding(r, "closing")
        /\ Beyond(r, "identify") =>
             file[r] = "closed" \/ Holding(r, "cors") \/ Holding(r, "rate_limit")
               \/ Holding(r, "logger") \/ Holding(r, "handler")
    BY DEF Beyond, Onwards
  <1>4. SafeInv /\ file[r] = "open" =>
          \/ Holding(r, "closing") \/ Holding(r, "logging") \/ Holding(r, "handler")
          \/ Holding(r, "logger") \/ Holding(r, "rate_limit") \/ Holding(r, "cors")
          \/ Holding(r, "identify")
    BY DEF SafeInv, TypeOK, LogIsOwned, Holding
  <1> QED
    BY <1>2, <1>3, <1>4, PTL DEF IsLeft

(* A log that is open is closed, whatever is enabled and however the       *)
(* request ends: every stage of the chain leads to the deferred Close.     *)
THEOREM LogsGetClosed == Spec /\ GuardedFairness => FilesClosed
  <1>1. ASSUME NEW r \in Request
        PROVE  Spec /\ GuardedFairness => (file[r] = "open" ~> file[r] = "closed")
    BY Safety, LogGetsClosed, PTL DEF Spec
  <1> QED
    BY <1>1 DEF FilesClosed
=============================================================================
