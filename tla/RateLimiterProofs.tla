------------------------ MODULE RateLimiterProofs ------------------------
(***************************************************************************)
(* Theorems about RateLimiter, for every limit (zero and negative ones     *)
(* too), every window length and every set of IPs.                         *)
(***************************************************************************)
EXTENDS RateLimiter, SequenceTheorems, TLAPS

(* The clean-up runs often enough: with no tick waiting, every entry ends  *)
(* late enough to be found by the next one.                                *)
NextTickInTime ==
  ~fired => \A ip \in DOMAIN entries : nextFire <= entries[ip].windowEnd + Window

TypeInv == TypeOK /\ NextTickInTime

(* Where the admissions a of an IP lie that has a live window, begun at s, *)
(* with u of the budget spent: the last u of them are not before s, the    *)
(* first of these is at s, the others are before, and all of the others    *)
(* but Budget - 1 are a further window's length before.                    *)
WindowHistory(a, s, u) ==
  /\ u <= Len(a)
  /\ \A i \in 1..Len(a) : /\ i <= Len(a) - u => a[i] < s
                          /\ i > Len(a) - u => a[i] >= s
                          /\ i <= Len(a) - u + 1 => a[i] <= s
                          /\ i <= Len(a) - u - Budget + 1 => a[i] < s - Window

LiveHistory(ip) ==
  WindowHistory(admitted[ip], entries[ip].windowEnd - Window, Spent(ip))

(* Once no window is live, all but Budget - 1 of them are a window's       *)
(* length ago.                                                             *)
IdleHistory(ip) ==
  \A i \in DOMAIN admitted[ip] :
    /\ admitted[ip][i] < now
    /\ i <= Len(admitted[ip]) - Budget + 1 => admitted[ip][i] < now - Window

History ==
  \A ip \in IP :
    /\ \A i \in DOMAIN admitted[ip] : admitted[ip][i] <= now
    /\ ip \in Live => LiveHistory(ip)
    /\ ip \notin Live => IdleHistory(ip)

(* The inductive strengthening of BurstBound and RefusedOverBudget. *)
IInv == History /\ BurstBound /\ RefusedOverBudget

-----------------------------------------------------------------------------
LEMMA BudgetPositive == Budget \in Nat \ {0}
  BY LimitAssumption DEF Budget

(* A request that is passed on extends its IP's history, and no other. *)
LEMMA PassAppends ==
  ASSUME TypeOK, NEW ip \in IP, Pass(ip)
  PROVE  /\ admitted' \in [IP -> Seq(0..MaxTime)]
         /\ verdict' \in [IP -> [ok : BOOLEAN, at : 0..MaxTime]]
         /\ verdict'[ip].ok
         /\ Len(admitted'[ip]) = Len(admitted[ip]) + 1
         /\ Len(admitted[ip]) \in Nat
         /\ DOMAIN admitted[ip] = 1..Len(admitted[ip])
         /\ DOMAIN admitted'[ip] = 1..(Len(admitted[ip]) + 1)
         /\ \A i \in 1..Len(admitted[ip]) : admitted'[ip][i] = admitted[ip][i]
         /\ admitted'[ip][Len(admitted[ip]) + 1] = now
         /\ \A other \in IP \ {ip} : /\ admitted'[other] = admitted[other]
                                     /\ verdict'[other] = verdict[other]
  <1>1. /\ admitted \in [IP -> Seq(0..MaxTime)]
        /\ admitted[ip] \in Seq(0..MaxTime)
        /\ now \in 0..MaxTime
        /\ verdict \in [IP -> [ok : BOOLEAN, at : 0..MaxTime]]
    BY DEF TypeOK
  <1>2. Append(admitted[ip], now) \in Seq(0..MaxTime)
    BY <1>1, AppendProperties
  <1>3. /\ admitted' = [admitted EXCEPT ![ip] = Append(@, now)]
        /\ verdict' = [verdict EXCEPT ![ip] = [ok |-> TRUE, at |-> now]]
    BY DEF Pass
  <1>4. admitted'[ip] = Append(admitted[ip], now)
    BY <1>1, <1>3
  <1>5. /\ admitted' \in [IP -> Seq(0..MaxTime)]
        /\ \A other \in IP \ {ip} : admitted'[other] = admitted[other]
    BY <1>1, <1>2, <1>3
  <1>6. /\ verdict' \in [IP -> [ok : BOOLEAN, at : 0..MaxTime]]
        /\ verdict'[ip].ok
        /\ \A other \in IP \ {ip} : verdict'[other] = verdict[other]
    BY <1>1, <1>3
  <1>7. /\ Len(admitted'[ip]) = Len(admitted[ip]) + 1
        /\ Len(admitted[ip]) \in Nat
        /\ DOMAIN admitted[ip] = 1..Len(admitted[ip])
        /\ DOMAIN admitted'[ip] = 1..(Len(admitted[ip]) + 1)
    BY <1>1, <1>2, <1>4, AppendProperties, LenProperties
  <1>8. /\ \A i \in 1..Len(admitted[ip]) : admitted'[ip][i] = admitted[ip][i]
        /\ admitted'[ip][Len(admitted[ip]) + 1] = now
    BY <1>1, <1>4, AppendProperties
  <1> QED
    BY <1>5, <1>6, <1>7, <1>8

LEMMA TypeStep ==
  ASSUME TypeInv, [Next]_vars
  PROVE  TypeInv'
  <1> USE WindowAssumption, MaxTimeAssumption DEF TypeInv
  <1>1. ASSUME NEW ip \in IP, NewEntry(ip)
        PROVE  TypeInv'
    <2>1. /\ admitted' \in [IP -> Seq(0..MaxTime)]
          /\ verdict' \in [IP -> [ok : BOOLEAN, at : 0..MaxTime]]
      BY <1>1, PassAppends DEF NewEntry
    <2>2. TypeOK'
      BY <1>1, <2>1 DEF NewEntry, TypeOK
    <2>3. NextTickInTime'
      BY <1>1 DEF NewEntry, TypeOK, NextTickInTime
    <2> QED
      BY <2>2, <2>3
  <1>2. ASSUME NEW ip \in IP, Count(ip)
        PROVE  TypeInv'
    <2>1. /\ admitted' \in [IP -> Seq(0..MaxTime)]
          /\ verdict' \in [IP -> [ok : BOOLEAN, at : 0..MaxTime]]
      <3>1. CASE Pass(ip)
        BY <3>1, PassAppends
      <3>2. CASE TooMany(ip)
        BY <3>2 DEF TooMany, TypeOK
      <3> QED
        BY <1>2, <3>1, <3>2 DEF Count
    <2>2. /\ DOMAIN entries' = DOMAIN entries
          /\ entries' \in [DOMAIN entries' -> [count : Nat \ {0}, windowEnd : Nat]]
          /\ \A i \in DOMAIN entries' : entries'[i].windowEnd = entries[i].windowEnd
      <3>1. /\ entries \in [DOMAIN entries -> [count : Nat \ {0}, windowEnd : Nat]]
            /\ ip \in DOMAIN entries
            /\ entries' = [entries EXCEPT ![ip].count = @ + 1]
        BY <1>2 DEF Count, Live, TypeOK
      <3> QED
        BY <3>1
    <2>3. TypeOK'
      BY <1>2, <2>1, <2>2 DEF Count, TypeOK
    <2>4. NextTickInTime'
      BY <1>2, <2>2 DEF Count, NextTickInTime
    <2> QED
      BY <2>3, <2>4
  <1>3. CASE Cleanup
    <2>1. /\ DOMAIN entries' = Live
          /\ Live \subseteq DOMAIN entries
          /\ \A i \in Live : entries'[i] = entries[i] /\ now <= entries[i].windowEnd
      BY <1>3 DEF Cleanup, Live, Expired, TypeOK
    <2>2. /\ entries' \in [DOMAIN entries' -> [count : Nat \ {0}, windowEnd : Nat]]
          /\ \A i \in DOMAIN entries' : entries'[i].windowEnd \in Window .. now + Window
      BY <1>3, <2>1 DEF Cleanup, TypeOK
    <2>3. TypeOK'
      BY <1>3, <2>1, <2>2 DEF Cleanup, TypeOK
    <2>4. NextTickInTime'
      BY <1>3, <2>1 DEF Cleanup, TypeOK, NextTickInTime
    <2> QED
      BY <2>3, <2>4
  <1>4. CASE Tick
    <2>1. TypeOK'
      BY <1>4 DEF Tick, TypeOK
    <2>2. NextTickInTime'
      BY <1>4 DEF Tick, TypeOK, NextTickInTime
    <2> QED
      BY <2>1, <2>2
  <1>5. CASE UNCHANGED vars
    BY <1>5 DEF vars, TypeOK, NextTickInTime
  <1> QED
    BY <1>1, <1>2, <1>3, <1>4, <1>5 DEF Next, Stopped

LEMMA Typing == Spec => []TypeInv
  <1>1. Init => TypeInv
    <2> SUFFICES ASSUME Init PROVE TypeInv
      OBVIOUS
    <2> USE WindowAssumption, MaxTimeAssumption
    <2>1. DOMAIN entries = {}
      BY DEF Init
    <2>2. admitted \in [IP -> Seq(0..MaxTime)]
      BY DEF Init
    <2>3. verdict \in [IP -> [ok : BOOLEAN, at : 0..MaxTime]]
      BY DEF Init, NoVerdict
    <2>4. entries \in [DOMAIN entries -> [count : Nat \ {0}, windowEnd : Nat]]
      BY <2>1 DEF Init
    <2>5. TypeOK
      <3>1. now \in 0..MaxTime /\ nextFire \in now + 1 .. now + Window
        BY DEF Init
      <3>2. fired \in BOOLEAN
        BY DEF Init
      <3>3. /\ DOMAIN entries \subseteq IP
            /\ \A ip \in DOMAIN entries : entries[ip].windowEnd \in Window .. now + Window
        BY <2>1
      <3> QED
        BY <2>2, <2>3, <2>4, <3>1, <3>2, <3>3, Zenon DEF TypeOK
    <2>6. NextTickInTime
      BY <2>1 DEF NextTickInTime
    <2> QED
      BY <2>5, <2>6 DEF TypeInv
  <1> QED
    BY <1>1, TypeStep, PTL DEF Spec

(* Types are kept whatever the limit and the window. *)
THEOREM TypeCorrect == Spec => []TypeOK
  BY Typing, PTL DEF TypeInv

(* No entry is left in the map for a window's length after it expired,     *)
(* unless a tick still waits for the clean-up.                             *)
THEOREM EntriesEvicted == Spec => []StaleBounded
  <1>1. TypeInv => StaleBounded
    BY WindowAssumption DEF TypeInv, TypeOK, NextTickInTime, StaleBounded
  <1> QED
    BY <1>1, Typing, PTL
-----------------------------------------------------------------------------
(* The history of one IP, step by step.                                    *)

(* A request that opens a window. *)
LEMMA NewEntryHistory ==
  ASSUME TypeInv, IInv, NEW ip \in IP, NewEntry(ip)
  PROVE  /\ ip \in Live'
         /\ LiveHistory(ip)'
         /\ \A i \in DOMAIN admitted'[ip] : admitted'[ip][i] <= now'
         /\ \A i, j \in DOMAIN admitted'[ip] :
              j >= i + 2 * Budget - 1 => admitted'[ip][j] - admitted'[ip][i] > Window
  <1> DEFINE a == admitted[ip]
             n == Len(a)
             b == admitted'[ip]
  <1> USE WindowAssumption, MaxTimeAssumption, BudgetPositive
  <1>1. /\ Len(b) = n + 1 /\ n \in Nat
        /\ DOMAIN a = 1..n /\ DOMAIN b = 1..(n + 1)
        /\ \A i \in 1..n : b[i] = a[i]
        /\ b[n + 1] = now
        /\ now' = now /\ now \in Nat
    BY PassAppends DEF NewEntry, TypeInv, TypeOK
  <1>2. /\ \A i \in 1..n : a[i] \in Nat /\ a[i] < now
        /\ \A i \in 1..n : i <= n - Budget + 1 => a[i] < now - Window
    <2>1. IdleHistory(ip)
      BY DEF NewEntry, IInv, History
    <2>2. admitted[ip] \in Seq(0..MaxTime)
      BY DEF TypeInv, TypeOK
    <2>3. \A i \in 1..n : a[i] \in Nat
      BY <1>1, <2>2, ElementOfSeq
    <2>4. \A i \in 1..n : a[i] < now /\ (i <= n - Budget + 1 => a[i] < now - Window)
      BY <1>1, <2>1 DEF IdleHistory
    <2> QED
      BY <2>3, <2>4
  <1>3. ip \in DOMAIN entries' /\ entries'[ip] = [count |-> 1, windowEnd |-> now + Window]
    BY DEF NewEntry
  <1>4. ip \in Live' /\ Spent(ip)' = 1 /\ entries'[ip].windowEnd - Window = now
    BY <1>1, <1>3 DEF Live, Expired, Spent
  <1>5. LiveHistory(ip)'
    <2>1. WindowHistory(b, now, 1)
      <3> HIDE DEF a, n, b
      <3> QED
        BY <1>1, <1>2 DEF WindowHistory
    <2> QED
      BY <1>4, <2>1 DEF LiveHistory
  <1>6. \A i \in DOMAIN b : b[i] <= now'
    <2> HIDE DEF a, n, b
    <2> SUFFICES ASSUME NEW i \in 1..(n + 1)
                 PROVE  b[i] <= now'
      BY <1>1
    <2>1. CASE i = n + 1
      BY <1>1, <2>1
    <2>2. CASE i \in 1..n
      BY <1>1, <1>2, <2>2
    <2> QED
      BY <1>1, <2>1, <2>2
  <1>7. ASSUME NEW i \in DOMAIN b, NEW j \in DOMAIN b, j >= i + 2 * Budget - 1
        PROVE  b[j] - b[i] > Window
    <2>1. CASE j = n + 1
      <3> HIDE DEF a, n, b
      <3>1. i \in 1..n /\ i <= n - Budget + 1
        BY <1>1, <1>7, <2>1
      <3> QED
        BY <1>1, <1>2, <2>1, <3>1
    <2>2. CASE j \in 1..n
      <3>1. i \in 1..n
        BY <1>1, <1>7, <2>2
      <3> QED
        BY <1>1, <1>7, <2>2, <3>1 DEF IInv, BurstBound
    <2>3. j = n + 1 \/ j \in 1..n
      <3> HIDE DEF a, n, b
      <3>1. j \in 1..(n + 1)
        BY <1>1, <1>7
      <3> QED
        BY <1>1, <3>1
    <2> QED
      BY <2>1, <2>2, <2>3
  <1> QED
    BY <1>4, <1>5, <1>6, <1>7

(* A request within a live window that is passed on. *)
LEMMA CountHistory ==
  ASSUME TypeInv, IInv, NEW ip \in IP, Count(ip), Pass(ip),
         entries[ip].count + 1 <= Limit
  PROVE  /\ ip \in Live'
         /\ LiveHistory(ip)'
         /\ \A i \in DOMAIN admitted'[ip] : admitted'[ip][i] <= now'
         /\ \A i, j \in DOMAIN admitted'[ip] :
              j >= i + 2 * Budget - 1 => admitted'[ip][j] - admitted'[ip][i] > Window
  <1> DEFINE a == admitted[ip]
             n == Len(a)
             b == admitted'[ip]
             u == Spent(ip)
             s == entries[ip].windowEnd - Window
  <1> USE WindowAssumption, MaxTimeAssumption, BudgetPositive
  <1>1. /\ Len(b) = n + 1 /\ n \in Nat
        /\ DOMAIN a = 1..n /\ DOMAIN b = 1..(n + 1)
        /\ \A i \in 1..n : b[i] = a[i]
        /\ b[n + 1] = now
        /\ now' = now /\ now \in Nat
    BY PassAppends DEF Count, TypeInv, TypeOK
  <1>2. /\ ip \in Live /\ ip \in DOMAIN entries /\ now <= entries[ip].windowEnd
        /\ entries[ip].windowEnd \in Nat /\ entries[ip].count \in Nat \ {0}
        /\ entries[ip].windowEnd <= now + Window
    BY DEF Count, Live, Expired, TypeInv, TypeOK
  <1>3. /\ DOMAIN entries' = DOMAIN entries
        /\ entries'[ip].count = entries[ip].count + 1
        /\ entries'[ip].windowEnd = entries[ip].windowEnd
    <2>1. /\ entries \in [DOMAIN entries -> [count : Nat \ {0}, windowEnd : Nat]]
          /\ entries' = [entries EXCEPT ![ip].count = @ + 1]
      BY DEF Count, TypeInv, TypeOK
    <2> QED
      BY <1>2, <2>1
  <1>4. u \in Nat \ {0} /\ u + 1 <= Budget /\ Spent(ip)' = u + 1 /\ ip \in Live'
    <2>1. Budget = Limit
      BY <1>2, LimitAssumption DEF Budget
    <2> QED
      BY <1>1, <1>2, <1>3, <2>1, LimitAssumption DEF Spent, Live, Expired
  <1>5. /\ n - u >= 0
        /\ \A i \in 1..n : /\ a[i] \in Nat
                           /\ a[i] <= now
                           /\ i <= n - u => a[i] < s
                           /\ i > n - u => a[i] >= s
                           /\ i <= n - u + 1 => a[i] <= s
                           /\ i <= n - u - Budget + 1 => a[i] < s - Window
    <2>1. WindowHistory(a, s, u) /\ \A i \in DOMAIN a : a[i] <= now
      BY <1>2 DEF IInv, History, LiveHistory
    <2>2. admitted[ip] \in Seq(0..MaxTime)
      BY DEF TypeInv, TypeOK
    <2>3. \A i \in 1..n : a[i] \in Nat
      BY <1>1, <2>2, ElementOfSeq
    <2>4. s \in Int
      BY <1>2
    <2>5. n = Len(a) /\ n \in Nat /\ \A i \in 1..n : a[i] <= now
      BY <1>1, <2>1
    <2> HIDE DEF a, n, u, s
    <2> QED
      BY <1>4, <2>1, <2>3, <2>4, <2>5 DEF WindowHistory
  <1>6. LiveHistory(ip)'
    <2>1. s \in Int /\ s <= now
      BY <1>1, <1>2
    <2>2. WindowHistory(b, s, u + 1)
      <3> HIDE DEF a, n, b, u, s
      <3> QED
        BY <1>1, <1>4, <1>5, <2>1 DEF WindowHistory
    <2> QED
      BY <1>3, <1>4, <2>2 DEF LiveHistory
  <1>7. \A i \in DOMAIN b : b[i] <= now'
    <2> HIDE DEF a, n, b, u, s
    <2> SUFFICES ASSUME NEW i \in 1..(n + 1)
                 PROVE  b[i] <= now'
      BY <1>1
    <2>1. CASE i = n + 1
      BY <1>1, <2>1
    <2>2. CASE i \in 1..n
      BY <1>1, <1>5, <2>2
    <2> QED
      BY <1>1, <2>1, <2>2
  <1>8. ASSUME NEW i \in DOMAIN b, NEW j \in DOMAIN b, j >= i + 2 * Budget - 1
        PROVE  b[j] - b[i] > Window
    <2>1. CASE j = n + 1
      <3>1. s \in Int /\ s <= now
        BY <1>1, <1>2
      <3> HIDE DEF a, n, b, u, s
      <3>2. i \in 1..n /\ i <= n - u - Budget + 1
        BY <1>1, <1>4, <1>8, <2>1
      <3>3. a[i] \in Nat /\ a[i] < s - Window
        BY <1>5, <3>2
      <3> QED
        BY <1>1, <2>1, <3>1, <3>2, <3>3
    <2>2. CASE j \in 1..n
      <3>1. i \in 1..n
        BY <1>1, <1>8, <2>2
      <3> QED
        BY <1>1, <1>8, <2>2, <3>1 DEF IInv, BurstBound
    <2>3. j = n + 1 \/ j \in 1..n
      <3> HIDE DEF a, n, b, u, s
      <3>1. j \in 1..(n + 1)
        BY <1>1, <1>8
      <3> QED
        BY <1>1, <3>1
    <2> QED
      BY <2>1, <2>2, <2>3
  <1> QED
    BY <1>4, <1>6, <1>7, <1>8

(* A step that admits a request of one IP leaves the others alone. *)
LEMMA OthersKeep ==
  ASSUME TypeInv, IInv, NEW ip \in IP, now' = now,
         ip \in Live', LiveHistory(ip)', verdict'[ip].ok,
         \A i \in DOMAIN admitted'[ip] : admitted'[ip][i] <= now',
         \A i, j \in DOMAIN admitted'[ip] :
           j >= i + 2 * Budget - 1 => admitted'[ip][j] - admitted'[ip][i] > Window,
         \A other \in IP \ {ip} :
           /\ admitted'[other] = admitted[other]
           /\ verdict'[other] = verdict[other],
         \A other \in IP \ {ip} :
           /\ other \in DOMAIN entries' <=> other \in DOMAIN entries
           /\ other \in DOMAIN entries => entries'[other] = entries[other]
  PROVE  IInv'
  <1>1. ASSUME NEW other \in IP \ {ip}
        PROVE  /\ other \in Live' <=> other \in Live
               /\ other \in Live => (LiveHistory(other) => LiveHistory(other)')
               /\ IdleHistory(other) => IdleHistory(other)'
    <2>1. other \in Live' <=> other \in Live
      BY DEF Live, Expired
    <2>2. other \in Live => Spent(other)' = Spent(other)
      BY DEF Live, Spent
    <2>3. other \in Live => (LiveHistory(other) => LiveHistory(other)')
      BY <2>2 DEF LiveHistory, Live
    <2>4. IdleHistory(other) => IdleHistory(other)'
      BY DEF IdleHistory
    <2> QED
      BY <2>1, <2>3, <2>4
  <1>2. History'
    <2> SUFFICES ASSUME NEW x \in IP
                 PROVE  (/\ \A i \in DOMAIN admitted[x] : admitted[x][i] <= now
                         /\ x \in Live => LiveHistory(x)
                         /\ x \notin Live => IdleHistory(x))'
      BY DEF History
    <2>1. CASE x = ip
      BY <2>1
    <2>2. CASE x # ip
      BY <1>1, <2>2 DEF IInv, History
    <2> QED
      BY <2>1, <2>2
  <1>3. BurstBound'
    BY DEF IInv, BurstBound
  <1>4. RefusedOverBudget'
    BY DEF IInv, RefusedOverBudget
  <1> QED
    BY <1>2, <1>3, <1>4 DEF IInv

(* A refusal comes with Budget admissions in the window it falls in. *)
LEMMA RefusalHistory ==
  ASSUME TypeInv, IInv, NEW ip \in IP, Count(ip), TooMany(ip),
         entries[ip].count + 1 > Limit,
         \A other \in IP \ {ip} :
           /\ other \in DOMAIN entries' <=> other \in DOMAIN entries
           /\ other \in DOMAIN entries => entries'[other] = entries[other]
  PROVE  IInv'
  <1> DEFINE a == admitted[ip]
             s == entries[ip].windowEnd - Window
  <1> USE WindowAssumption, MaxTimeAssumption, BudgetPositive
  <1>1. /\ ip \in Live /\ ip \in DOMAIN entries /\ now <= entries[ip].windowEnd
        /\ entries[ip].windowEnd \in Nat /\ entries[ip].count \in Nat \ {0}
        /\ now \in Nat /\ now' = now /\ admitted' = admitted
    BY DEF Count, TooMany, Live, Expired, TypeInv, TypeOK
  <1>2. /\ DOMAIN entries' = DOMAIN entries
        /\ entries'[ip].count = entries[ip].count + 1
        /\ entries'[ip].windowEnd = entries[ip].windowEnd
    <2>1. /\ entries \in [DOMAIN entries -> [count : Nat \ {0}, windowEnd : Nat]]
          /\ entries' = [entries EXCEPT ![ip].count = @ + 1]
      BY DEF Count, TypeInv, TypeOK
    <2> QED
      BY <1>1, <2>1
  <1>3. Spent(ip) = Budget /\ Spent(ip)' = Budget
    BY <1>1, <1>2, LimitAssumption DEF Spent, Budget
  <1>4. WindowHistory(a, s, Budget)
    BY <1>1, <1>3 DEF IInv, History, LiveHistory
  <1>5. LiveHistory(ip)' /\ ip \in Live'
    BY <1>1, <1>2, <1>3, <1>4 DEF LiveHistory, Live, Expired
  <1>6. Len(a) \in Nat /\ DOMAIN a = 1..Len(a) /\ \A i \in 1..Len(a) : a[i] \in Nat
    <2>1. admitted[ip] \in Seq(0..MaxTime)
      BY DEF TypeInv, TypeOK
    <2> QED
      BY <2>1, LenProperties, ElementOfSeq
  <1>7. Len(a) >= Budget /\ now - a[Len(a) - Budget + 1] <= Window
    <2>1. s \in Int /\ now <= s + Window
      BY <1>1
    <2> HIDE DEF a, s
    <2>2. Len(a) >= Budget /\ Len(a) - Budget + 1 \in 1..Len(a)
      BY <1>4, <1>6 DEF WindowHistory
    <2>3. a[Len(a) - Budget + 1] \in Nat /\ a[Len(a) - Budget + 1] >= s
      BY <1>4, <1>6, <2>2 DEF WindowHistory
    <2> QED
      BY <1>1, <2>1, <2>2, <2>3
  <1>8. /\ verdict'[ip] = [ok |-> FALSE, at |-> now]
        /\ \A other \in IP \ {ip} : verdict'[other] = verdict[other]
    BY DEF TooMany, TypeInv, TypeOK
  <1>9. ASSUME NEW other \in IP \ {ip}
        PROVE  /\ other \in Live' <=> other \in Live
               /\ other \in Live => (LiveHistory(other) => LiveHistory(other)')
               /\ IdleHistory(other) => IdleHistory(other)'
    <2>1. other \in Live' <=> other \in Live
      BY <1>1 DEF Live, Expired
    <2>2. other \in Live => Spent(other)' = Spent(other)
      BY DEF Live, Spent
    <2>3. other \in Live => (LiveHistory(other) => LiveHistory(other)')
      BY <1>1, <2>2 DEF LiveHistory, Live
    <2>4. IdleHistory(other) => IdleHistory(other)'
      BY <1>1 DEF IdleHistory
    <2> QED
      BY <2>1, <2>3, <2>4
  <1>10. History'
    <2> SUFFICES ASSUME NEW x \in IP
                 PROVE  (/\ \A i \in DOMAIN admitted[x] : admitted[x][i] <= now
                         /\ x \in Live => LiveHistory(x)
                         /\ x \notin Live => IdleHistory(x))'
      BY DEF History
    <2>1. CASE x = ip
      BY <1>1, <1>5, <2>1 DEF IInv, History
    <2>2. CASE x # ip
      BY <1>1, <1>9, <2>2 DEF IInv, History
    <2> QED
      BY <2>1, <2>2
  <1>11. BurstBound'
    BY <1>1 DEF IInv, BurstBound
  <1>12. RefusedOverBudget'
    <2> SUFFICES ASSUME NEW x \in IP, ~verdict'[x].ok
                 PROVE  /\ Len(admitted[x]) >= Budget
                        /\ verdict'[x].at - admitted[x][Len(admitted[x]) - Budget + 1] <= Window
      BY <1>1 DEF RefusedOverBudget
    <2>1. CASE x = ip
      BY <1>7, <1>8, <2>1
    <2>2. CASE x # ip
      BY <1>8, <2>2 DEF IInv, RefusedOverBudget
    <2> QED
      BY <2>1, <2>2
  <1> QED
    BY <1>10, <1>11, <1>12 DEF IInv

(* The clean-up takes no live entry. *)
LEMMA CleanupHistory ==
  ASSUME TypeInv, IInv, Cleanup
  PROVE  IInv'
  <1>1. UNCHANGED <<now, admitted, verdict>> /\ DOMAIN entries' = Live
        /\ \A ip \in Live : entries'[ip] = entries[ip]
    BY DEF Cleanup
  <1>2. Live' = Live
    BY <1>1 DEF Live, Expired
  <1>3. \A ip \in Live : LiveHistory(ip) => LiveHistory(ip)'
    BY <1>1 DEF LiveHistory, Spent
  <1>4. History'
    BY <1>1, <1>2, <1>3 DEF IInv, History, IdleHistory
  <1> QED
    BY <1>1, <1>4 DEF IInv, BurstBound, RefusedOverBudget

(* Time turns a live window into one that is over. *)
LEMMA TickHistory ==
  ASSUME TypeInv, IInv, Tick
  PROVE  IInv'
  <1> USE WindowAssumption, MaxTimeAssumption, BudgetPositive
  <1>1. now' = now + 1 /\ now \in Nat /\ UNCHANGED <<entries, admitted, verdict>>
    BY DEF Tick, TypeInv, TypeOK
  <1>2. ASSUME NEW ip \in IP
        PROVE  (/\ \A i \in DOMAIN admitted[ip] : admitted[ip][i] <= now
                /\ ip \in Live => LiveHistory(ip)
                /\ ip \notin Live => IdleHistory(ip))'
    <2> DEFINE a == admitted[ip]
               s == entries[ip].windowEnd - Window
               u == Spent(ip)
    <2>1. /\ Len(a) \in Nat /\ DOMAIN a = 1..Len(a)
          /\ \A i \in 1..Len(a) : a[i] \in Nat /\ a[i] <= now
      <3>1. admitted[ip] \in Seq(0..MaxTime)
        BY DEF TypeInv, TypeOK
      <3> QED
        BY <3>1, LenProperties, ElementOfSeq DEF IInv, History
    <2>2. ip \in Live' => ip \in Live
      <3>1. \A e \in DOMAIN entries : entries[e].windowEnd \in Nat
        BY DEF TypeInv, TypeOK
      <3> QED
        BY <1>1, <3>1 DEF Live, Expired
    <2>3. ip \in Live' => LiveHistory(ip)'
      BY <1>1, <2>2 DEF IInv, History, LiveHistory, Spent
    <2>4. ASSUME ip \in Live, ip \notin Live'
          PROVE  IdleHistory(ip)'
      <3>1. /\ s \in Int /\ u \in Nat /\ u <= Budget
            /\ s + Window < now + 1
        BY <1>1, <2>4 DEF Live, Expired, Spent, TypeInv, TypeOK
      <3>2. WindowHistory(a, s, u)
        BY <2>4 DEF IInv, History, LiveHistory
      <3>3. \A i \in 1..Len(a) : i <= Len(a) - Budget + 1 => a[i] < (now + 1) - Window
        <4> HIDE DEF a, s, u
        <4> QED
          BY <1>1, <2>1, <3>1, <3>2 DEF WindowHistory
      <3>4. \A i \in DOMAIN a : a[i] < now' /\ (i <= Len(a) - Budget + 1 => a[i] < now' - Window)
        <4> HIDE DEF a
        <4> QED
          BY <1>1, <2>1, <3>3
      <3> QED
        BY <1>1, <3>4 DEF IdleHistory
    <2>5. ASSUME ip \notin Live
          PROVE  IdleHistory(ip)'
      <3>1. \A i \in 1..Len(a) : i <= Len(a) - Budget + 1 => a[i] < now - Window
        BY <2>1, <2>5 DEF IInv, History, IdleHistory
      <3>2. \A i \in 1..Len(a) : i <= Len(a) - Budget + 1 => a[i] < (now + 1) - Window
        <4> HIDE DEF a
        <4> QED
          BY <1>1, <2>1, <3>1
      <3>3. \A i \in DOMAIN a : a[i] < now' /\ (i <= Len(a) - Budget + 1 => a[i] < now' - Window)
        <4> HIDE DEF a
        <4> QED
          BY <1>1, <2>1, <3>2
      <3> QED
        BY <1>1, <3>3 DEF IdleHistory
    <2>6. \A i \in DOMAIN a : a[i] <= now + 1
      BY <1>1, <2>1
    <2> QED
      BY <1>1, <2>3, <2>4, <2>5, <2>6
  <1>3. History'
    BY <1>2 DEF History
  <1> QED
    BY <1>1, <1>3 DEF IInv, BurstBound, RefusedOverBudget

(* Every step keeps the history and the two properties it is for. *)
LEMMA HistoryStep ==
  ASSUME TypeInv, TypeInv', IInv, [Next]_vars
  PROVE  IInv'
  <1> USE WindowAssumption, MaxTimeAssumption, BudgetPositive
  <1>1. ASSUME NEW ip \in IP, NewEntry(ip)
        PROVE  IInv'
    <2>1. /\ ip \in Live'
          /\ LiveHistory(ip)'
          /\ \A i \in DOMAIN admitted'[ip] : admitted'[ip][i] <= now'
          /\ \A i, j \in DOMAIN admitted'[ip] :
               j >= i + 2 * Budget - 1 => admitted'[ip][j] - admitted'[ip][i] > Window
      BY <1>1, NewEntryHistory
    <2>2. now' = now /\ verdict'[ip].ok
      BY <1>1, PassAppends DEF NewEntry, TypeInv
    <2>3. \A other \in IP \ {ip} :
            /\ admitted'[other] = admitted[other]
            /\ verdict'[other] = verdict[other]
            /\ other \in DOMAIN entries' <=> other \in DOMAIN entries
            /\ other \in DOMAIN entries => entries'[other] = entries[other]
      BY <1>1, PassAppends DEF NewEntry, TypeInv
    <2> QED
      BY <2>1, <2>2, <2>3, OthersKeep
  <1>2. ASSUME NEW ip \in IP, Count(ip)
        PROVE  IInv'
    <2>1. \A other \in IP \ {ip} :
            /\ other \in DOMAIN entries' <=> other \in DOMAIN entries
            /\ other \in DOMAIN entries => entries'[other] = entries[other]
      BY <1>2 DEF Count, TypeInv, TypeOK
    <2>2. CASE entries[ip].count + 1 <= Limit /\ Pass(ip)
      <3>1. /\ ip \in Live'
            /\ LiveHistory(ip)'
            /\ \A i \in DOMAIN admitted'[ip] : admitted'[ip][i] <= now'
            /\ \A i, j \in DOMAIN admitted'[ip] :
                 j >= i + 2 * Budget - 1 => admitted'[ip][j] - admitted'[ip][i] > Window
        BY <1>2, <2>2, CountHistory
      <3>2. now' = now /\ verdict'[ip].ok
        BY <1>2, <2>2, PassAppends DEF Count, TypeInv
      <3>3. \A other \in IP \ {ip} : /\ admitted'[other] = admitted[other]
                                     /\ verdict'[other] = verdict[other]
        BY <2>2, PassAppends DEF TypeInv
      <3> QED
        BY <2>1, <3>1, <3>2, <3>3, OthersKeep
    <2>3. CASE entries[ip].count + 1 > Limit /\ TooMany(ip)
      BY <1>2, <2>1, <2>3, RefusalHistory
    <2> QED
      BY <1>2, <2>2, <2>3, LimitAssumption DEF Count, TypeInv, TypeOK, Live
  <1>3. CASE Cleanup
    BY <1>3, CleanupHistory
  <1>4. CASE Tick
    BY <1>4, TickHistory
  <1>5. CASE UNCHANGED vars
    BY <1>5 DEF vars, IInv, History, LiveHistory, IdleHistory, Live, Expired, Spent,
      BurstBound, RefusedOverBudget
  <1> QED
    BY <1>1, <1>2, <1>3, <1>4, <1>5 DEF Next, Stopped
LEMMA Histories == Spec => []IInv
  <1>1. Init => IInv
    <2> SUFFICES ASSUME Init PROVE IInv
      OBVIOUS
    <2>1. /\ Live = {}
          /\ \A ip \in IP : DOMAIN admitted[ip] = {} /\ verdict[ip].ok
      BY DEF Init, Live, NoVerdict
    <2> QED
      BY <2>1 DEF IInv, History, IdleHistory, BurstBound, RefusedOverBudget
  <1> QED
    BY <1>1, HistoryStep, Typing, PTL DEF Spec

(* No window's length ever sees more than twice the budget of one IP. *)
THEOREM BurstsBounded == Spec => []BurstBound
  BY Histories, PTL DEF IInv

(* Nobody is refused before its budget is spent. *)
THEOREM RefusalsDeserved == Spec => []RefusedOverBudget
  BY Histories, PTL DEF IInv
-----------------------------------------------------------------------------
(* The map with its clean-up implements windows that close by themselves.  *)

LEMMA AbstractBudget == Abstract!Budget = Budget
  BY DEF Abstract!Budget, Budget

(* A new entry is a window opened. *)
LEMMA NewEntryOpens ==
  ASSUME TypeInv, NEW ip \in IP, NewEntry(ip)
  PROVE  Abstract!Open(ip)
  <1> USE WindowAssumption, MaxTimeAssumption, BudgetPositive
  <1>1. /\ now' = now /\ now \in Nat
        /\ ip \notin Live
        /\ DOMAIN entries' = DOMAIN entries \cup {ip}
        /\ entries'[ip] = [count |-> 1, windowEnd |-> now + Window]
        /\ \A i \in DOMAIN entries : i # ip => entries'[i] = entries[i]
    BY DEF NewEntry, TypeInv, TypeOK
  <1>2. Live' = Live \cup {ip}
    BY <1>1 DEF Live, Expired
  <1>3. Spent(ip)' = 1 /\ \A i \in Live : Spent(i)' = Spent(i) /\ entries'[i] = entries[i]
    BY <1>1 DEF Spent, Live
  <1>4. OpenWindows' = [i \in Live \cup {ip} |->
                          IF i = ip THEN [used |-> 1, end |-> now + Window]
                                    ELSE OpenWindows[i]]
    BY <1>1, <1>2, <1>3 DEF OpenWindows
  <1>5. DOMAIN OpenWindows = Live
    BY DEF OpenWindows
  <1>6. Abstract!Admit(ip)
    BY DEF NewEntry, Pass, Abstract!Admit, Abstract!Answer
  <1> QED
    BY <1>1, <1>4, <1>5, <1>6 DEF Abstract!Open

(* A counted request spends the window's budget or is refused. *)
LEMMA CountSpends ==
  ASSUME TypeInv, NEW ip \in IP, Count(ip)
  PROVE  Abstract!Spend(ip) \/ Abstract!Refuse(ip)
  <1> USE WindowAssumption, MaxTimeAssumption, BudgetPositive, LimitAssumption
  <1>1. /\ now' = now /\ ip \in Live /\ ip \in DOMAIN entries
        /\ entries[ip].count \in Nat \ {0}
        /\ DOMAIN entries' = DOMAIN entries
        /\ entries'[ip].count = entries[ip].count + 1
        /\ \A i \in DOMAIN entries : /\ entries'[i].windowEnd = entries[i].windowEnd
                                     /\ i # ip => entries'[i] = entries[i]
    <2>1. /\ entries \in [DOMAIN entries -> [count : Nat \ {0}, windowEnd : Nat]]
          /\ entries' = [entries EXCEPT ![ip].count = @ + 1]
          /\ now' = now /\ ip \in Live /\ ip \in DOMAIN entries
      BY DEF Count, Live, TypeInv, TypeOK
    <2> QED
      BY <2>1
  <1>2. Live' = Live /\ \A i \in Live : i # ip => Spent(i)' = Spent(i)
    BY <1>1 DEF Live, Expired, Spent
  <1>3. /\ DOMAIN OpenWindows = Live
        /\ OpenWindows = [i \in Live |-> [used |-> Spent(i), end |-> entries[i].windowEnd]]
        /\ OpenWindows' = [i \in Live |-> [used |-> Spent(i)', end |-> entries[i].windowEnd]]
    BY <1>1, <1>2 DEF OpenWindows, Live
  <1>4. CASE entries[ip].count + 1 <= Limit /\ Pass(ip)
    <2>1. Spent(ip) < Budget /\ Spent(ip)' = Spent(ip) + 1
      BY <1>1, <1>4 DEF Spent, Budget
    <2>2. OpenWindows' = [OpenWindows EXCEPT ![ip].used = @ + 1]
      BY <1>1, <1>2, <1>3, <2>1
    <2>3. Abstract!Admit(ip)
      BY <1>4 DEF Pass, Abstract!Admit, Abstract!Answer
    <2> QED
      BY <1>1, <1>3, <2>1, <2>2, <2>3, AbstractBudget DEF Abstract!Spend
  <1>5. CASE entries[ip].count + 1 > Limit /\ TooMany(ip)
    <2>1. Spent(ip) = Budget /\ Spent(ip)' = Budget
      BY <1>1, <1>5 DEF Spent, Budget
    <2>2. OpenWindows' = OpenWindows
      BY <1>1, <1>2, <1>3, <2>1
    <2>3. Abstract!Answer(ip, FALSE) /\ admitted' = admitted
      BY <1>5 DEF TooMany, Abstract!Answer
    <2>4. ip \in DOMAIN OpenWindows /\ OpenWindows[ip].used = Abstract!Budget
      BY <1>1, <1>3, <2>1, AbstractBudget
    <2> QED
      BY <1>1, <2>2, <2>3, <2>4 DEF Abstract!Refuse
  <1> QED
    BY <1>1, <1>4, <1>5 DEF Count

(* Eviction changes no window, and time closes those that are over. *)
LEMMA CleanupInvisible ==
  ASSUME TypeInv, Cleanup
  PROVE  UNCHANGED Abstract!vars
  <1>1. UNCHANGED <<now, admitted, verdict>> /\ DOMAIN entries' = Live
        /\ \A ip \in Live : entries'[ip] = entries[ip]
    BY DEF Cleanup
  <1>2. Live' = Live /\ \A ip \in Live : Spent(ip)' = Spent(ip)
    BY <1>1 DEF Live, Expired, Spent
  <1>3. OpenWindows' = OpenWindows
    BY <1>1, <1>2 DEF OpenWindows
  <1> QED
    BY <1>1, <1>3 DEF Abstract!vars

LEMMA TickCloses ==
  ASSUME TypeInv, Tick
  PROVE  Abstract!Tick
  <1>1. /\ now \in Nat /\ now' = now + 1 /\ now < MaxTime
        /\ UNCHANGED <<entries, admitted, verdict>>
        /\ \A ip \in DOMAIN entries : entries[ip].windowEnd \in Nat
    BY MaxTimeAssumption DEF Tick, TypeInv, TypeOK
  <1>2. DOMAIN OpenWindows = Live
        /\ \A ip \in Live : OpenWindows[ip] = [used |-> Spent(ip), end |-> entries[ip].windowEnd]
    BY DEF OpenWindows
  <1>3. Live' = {ip \in DOMAIN OpenWindows : now + 1 <= OpenWindows[ip].end}
    <2>1. Live' = {ip \in DOMAIN entries : now + 1 <= entries[ip].windowEnd}
      BY <1>1 DEF Live, Expired
    <2>2. Live = {ip \in DOMAIN entries : now <= entries[ip].windowEnd}
      BY <1>1 DEF Live, Expired
    <2>3. Live' = {ip \in Live : now + 1 <= entries[ip].windowEnd}
      BY <1>1, <2>1, <2>2
    <2> QED
      BY <1>2, <2>3
  <1>4. OpenWindows' = [i \in Live' |-> OpenWindows[i]]
    BY <1>1, <1>2, <1>3 DEF OpenWindows, Spent
  <1> QED
    BY <1>1, <1>3, <1>4 DEF Abstract!Tick

LEMMA AbstractStep ==
  ASSUME TypeInv, [Next]_vars
  PROVE  [Abstract!Next]_(Abstract!vars)
  <1>1. ASSUME NEW ip \in IP, NewEntry(ip) \/ Count(ip)
        PROVE  Abstract!Next
    BY <1>1, NewEntryOpens, CountSpends DEF Abstract!Next
  <1>2. CASE Tick
    BY <1>2, TickCloses DEF Abstract!Next
  <1>3. CASE UNCHANGED vars
    BY <1>3 DEF vars, Abstract!vars, OpenWindows, Live, Expired, Spent
  <1> QED
    BY <1>1, <1>2, <1>3, CleanupInvisible DEF Next, Stopped

(* Whatever a client is answered, it would have been answered by windows   *)
(* that need no clean-up.                                                  *)
THEOREM Refinement == Spec => ImplementsFixedWindow
  <1>1. Init => Abstract!Init
    <2> SUFFICES ASSUME Init PROVE Abstract!Init
      OBVIOUS
    <2>1. Live = {}
      BY DEF Init, Live
    <2>2. OpenWindows = [ip \in {} |-> [used |-> 0, end |-> 0]]
      BY <2>1 DEF OpenWindows
    <2> QED
      BY <2>2 DEF Init, Abstract!Init, NoVerdict, Abstract!NoVerdict
  <1> QED
    BY <1>1, AbstractStep, Typing, PTL DEF Spec, ImplementsFixedWindow, Abstract!Spec
=============================================================================
