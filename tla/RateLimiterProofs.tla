------------------------- MODULE RateLimiterProofs -------------------------
(***************************************************************************)
(* A limiter behind a lock keeps its rate, for any number of threads, any  *)
(* rates, and a clock that is set back any number of times.                *)
(***************************************************************************)
EXTENDS RateLimiter, TLAPS

Stages == {"idle", "clock", "elapse", "tick", "balance", "add", "cap", "clip",
           "compare", "pay", "subtract"}

\* The lock.
LockInv ==
  /\ \A t \in Thread : pc[t] # "idle" => t \in holder
  /\ \A t, u \in holder : t = u

\* What a call has read is still so.
LocalInv ==
  \A t \in Thread :
    /\ pc[t] = "tick" => elapsed[t] = now[t] - lastTick
    /\ pc[t] \in {"balance", "add", "cap", "clip", "compare", "pay", "subtract"} => lastTick = now[t]
    /\ pc[t] \in {"add", "subtract"} => read[t] = balance
    /\ pc[t] = "clip" => balance > Full
    /\ pc[t] \in {"compare", "pay", "subtract"} => balance <= Full
    /\ pc[t] \in {"pay", "subtract"} => balance >= Cost

\* The balance as of the clock in call t.
CallBalance(t) == Capped(Worth(t) + Earned(clock - now[t]))

\* What is sold and what could be sold now stay within the window's allowance.
Spent == sold * Cost
Allowance == allowed * scale
IdleInv == (\A t \in Thread : ~InCall(t)) => Spent + IdleBalance <= Allowance
CallInv ==
  \A t \in Thread : InCall(t) =>
    /\ Spent + Worth(t) <= Allowance
    /\ Spent + Worth(t) + Earned(clock - now[t]) <= Allowance

RateInv == TypeOK /\ LockInv /\ LocalInv /\ Spent <= Allowance /\ IdleInv /\ CallInv

-----------------------------------------------------------------------------
(* Arithmetic. *)

LEMMA MaxBalanceNat ==
  ASSUME NEW r \in Rate
  PROVE  MaxBalance(r) \in Nat /\ MaxBalance(r) > 0 /\ MaxBalance(r) >= Item
BY RateLimiterAssumption DEF MaxBalance

LEMMA ProductMonotone ==
  ASSUME NEW a \in Int, NEW b \in Int, NEW k \in Nat, a <= b
  PROVE  a * k \in Int /\ b * k \in Int /\ a * k <= b * k
<1>1. (b - a) * k >= 0 /\ (b - a) * k = b * k - a * k
  OBVIOUS
<1> QED
  BY <1>1

LEMMA ProductCancels ==
  ASSUME NEW a \in Int, NEW b \in Int, NEW k \in Nat \ {0}, a * k <= b * k
  PROVE  a <= b
<1>1. CASE a > b
  <2>1. a - b >= 1 /\ k >= 1 /\ a - b \in Nat
    BY <1>1
  <2>2. (a - b) * k >= k
    <3>1. 1 * k <= (a - b) * k
      BY <2>1, ProductMonotone
    <3> QED BY <3>1
  <2>3. (a - b) * k = a * k - b * k
    OBVIOUS
  <2> QED BY <2>1, <2>2, <2>3
<1> QED
  BY <1>1

LEMMA FullCost ==
  ASSUME rate \in Rate, scale \in Nat \ {0}
  PROVE  Cost \in Nat \ {0} /\ Full \in Nat \ {0} /\ Full >= Cost
<1>1. Item \in Nat \ {0} /\ MaxBalance(rate) \in Nat \ {0} /\ MaxBalance(rate) >= Item
  BY MaxBalanceNat, RateLimiterAssumption
<1>2. Item * scale <= MaxBalance(rate) * scale
  BY <1>1, ProductMonotone
<1>3. \A a, b \in Nat \ {0} : a * b \in Nat \ {0}
  OBVIOUS
<1> QED
  BY <1>1, <1>2, <1>3 DEF Cost, Full

LEMMA EarnedInt ==
  ASSUME rate \in Rate, scale \in Nat \ {0}, NEW s \in Int
  PROVE  Earned(s) \in Int
BY RateLimiterAssumption DEF Earned

LEMMA EarnedNothing ==
  ASSUME rate \in Rate, scale \in Nat \ {0}
  PROVE  Earned(0) = 0
BY RateLimiterAssumption DEF Earned

\* What is earned in a longer time.
LEMMA EarnedMore ==
  ASSUME rate \in Rate, scale \in Nat \ {0}, NEW s \in Int, NEW b \in Nat
  PROVE  Earned(b) \in Nat /\ Earned(s + b) = Earned(s) + Earned(b)
<1>1. rate \in Nat /\ scale \in Nat
  BY RateLimiterAssumption
<1>2. \A i, j, k \in Nat : (i * j) * k \in Nat
  OBVIOUS
<1>3. (s + b) * rate = s * rate + b * rate /\ s * rate \in Int /\ b * rate \in Int
  BY <1>1
<1>4. \A i, j, k \in Int : (i + j) * k = i * k + j * k
  OBVIOUS
<1>5. ((s + b) * rate) * scale = (s * rate) * scale + (b * rate) * scale
  BY <1>1, <1>3, <1>4
<1> QED
  BY <1>1, <1>2, <1>5 DEF Earned

LEMMA CappedInt ==
  ASSUME rate \in Rate, scale \in Nat \ {0}, NEW c \in Int
  PROVE  /\ Capped(c) \in Int /\ Capped(c) <= c /\ Capped(c) <= Full
         /\ c <= Full => Capped(c) = c
BY FullCost DEF Capped

LEMMA Earlier ==
  ASSUME NEW n \in Nat, NEW m \in 0 .. n - 1
  PROVE  \E b \in Nat : m \in Nat /\ n = m + b
<1>1. n - m \in Nat /\ n = m + (n - m) /\ m \in Nat
  OBVIOUS
<1> QED
  BY <1>1

\* Capping loses credits, it never makes any; capping twice is capping once.
LEMMA CappedMonotone ==
  ASSUME rate \in Rate, scale \in Nat \ {0}, NEW c \in Int, NEW d \in Int, d >= 0
  PROVE  /\ Capped(c + d) <= Capped(c) + d /\ Capped(c) <= Capped(c + d)
         /\ Capped(Capped(c) + d) = Capped(c + d)
BY FullCost DEF Capped

\* A balance that was scaled with its maximum fits the window that is allowed the difference.
LEMMA ScaledFits ==
  ASSUME NEW m \in Nat \ {0}, NEW n \in Nat \ {0}, NEW k \in Nat \ {0}, NEW c \in Int, c <= m * k,
         NEW S \in Int, NEW A \in Int, NEW B \in Int, S <= A * k, S + c <= A * k,
         B >= A, B >= A + (n - m)
  PROVE  S * m + n * c <= (B * k) * m
<1>1. /\ \A i, j, l \in Int : i * (j + l) = i * j + i * l
      /\ \A i, j \in Int : i * j \in Int /\ i * j = j * i
  OBVIOUS
<1>2. A * k \in Int /\ B * k \in Int /\ (A * k) * m <= (B * k) * m
  BY ProductMonotone
<1>3. CASE c <= 0
  <2>1. c * n <= 0 * n
    BY <1>3, ProductMonotone
  <2>2. S * m <= (A * k) * m
    BY <1>2, ProductMonotone
  <2> QED BY <1>1, <1>2, <2>1, <2>2
<1>4. CASE c > 0 /\ n <= m
  <2>1. n * c <= m * c
    BY <1>4, ProductMonotone
  <2>2. (S + c) * m <= (A * k) * m
    BY <1>2, ProductMonotone
  <2>3. (S + c) * m = S * m + m * c
    OBVIOUS
  <2> QED BY <1>1, <1>2, <2>1, <2>2, <2>3
<1>5. CASE c > 0 /\ n > m
  <2> DEFINE d == n - m
  <2>1. d \in Nat /\ n = m + d /\ A + d <= B
    BY <1>5
  <2> HIDE DEF d
  <2>2. n * c = m * c + d * c
    BY <2>1
  <2>3. c * d <= (m * k) * d
    BY <2>1, <1>1, ProductMonotone
  <2>4. d * c <= (k * d) * m
    <3>1. c * d = d * c
      BY <2>1
    <3>2. (m * k) * d = (k * d) * m
      BY <2>1
    <3> QED BY <2>3, <3>1, <3>2
  <2>5. (S + c) * m <= (A * k) * m
    BY <1>2, ProductMonotone
  <2>6. (S + c) * m = S * m + m * c
    OBVIOUS
  <2>7. (A + d) * k <= B * k
    BY <2>1, ProductMonotone
  <2>8. ((A + d) * k) * m <= (B * k) * m
    BY <1>2, <2>1, <2>7, ProductMonotone
  <2>9. ((A + d) * k) * m = (A * k) * m + (k * d) * m
    BY <2>1
  <2>10. S * m \in Int /\ n * c \in Int /\ m * c \in Int /\ d * c \in Int /\ (k * d) * m \in Int /\ (A * k) * m \in Int /\ (B * k) * m \in Int
    BY <1>1, <1>2, <2>1
  <2> QED BY <2>2, <2>4, <2>5, <2>6, <2>8, <2>9, <2>10
<1> QED
  BY <1>3, <1>4, <1>5

-----------------------------------------------------------------------------
(* Types. *)

LEMMA TypeInit == Init => TypeOK
<1> SUFFICES ASSUME Init PROVE TypeOK
  OBVIOUS
<1>1. FieldType
  <2>1. MaxBalance(rate) \in Nat
    BY MaxBalanceNat DEF Init
  <2>2. balance \in Int /\ allowed \in Nat
    BY <2>1 DEF Init
  <2> QED BY <2>2, RateLimiterAssumption DEF Init, FieldType
<1>2. CallType
  BY DEF Init, CallType
<1>3. FlagType
  BY DEF Init, FlagType
<1> QED
  BY <1>1, <1>2, <1>3 DEF TypeOK

LEMMA TypeStep == TypeOK /\ [Next]_vars => TypeOK'
<1> SUFFICES ASSUME TypeOK, [Next]_vars PROVE TypeOK'
  OBVIOUS
<1> USE RateLimiterAssumption
<1>1. ASSUME NEW t \in Thread, CheckCredit(t) PROVE TypeOK'
  <2>1. CheckCredit(t)
    BY <1>1
  <2>2. FieldType'
    <3>1. CASE Refill(t)
      <4>1. balance' \in Int
        BY <3>1, EarnedInt DEF Refill, TypeOK, FieldType, CallType
      <4> QED BY <3>1, <4>1 DEF Refill, bounds, window, pause, TypeOK, FieldType
    <3>2. CASE Clip(t)
      <4>1. balance' \in Int
        BY <3>2, FullCost DEF Clip, TypeOK, FieldType
      <4> QED BY <3>2, <4>1 DEF Clip, bounds, window, pause, TypeOK, FieldType
    <3>3. CASE Pay(t)
      BY <3>3, FullCost DEF Pay, bounds, TypeOK, FieldType, CallType
    <3>4. CASE WriteLastTick(t)
      BY <3>4 DEF WriteLastTick, bounds, window, pause, TypeOK, FieldType, CallType
    <3>5. CASE ~Refill(t) /\ ~Clip(t) /\ ~Pay(t) /\ ~WriteLastTick(t)
      BY <2>1, <3>5 DEF CheckCredit, Start, ReadClock, ReadLastTick, ReadBalance, CompareMax,
         Afford, Refuse, fields, bounds, window, pause, TypeOK, FieldType
    <3> QED BY <3>1, <3>2, <3>3, <3>4, <3>5
  <2>3. CallType'
    BY <2>1 DEF CheckCredit, Start, ReadClock, ReadLastTick, WriteLastTick, ReadBalance, Refill,
       CompareMax, Clip, Afford, Refuse, Pay, Return, Goto, fields, TypeOK, FieldType, CallType
  <2>4. FlagType'
    <3>1. CASE ReadClock(t)
      <4>1. Due \in BOOLEAN
        BY DEF Due
      <4>2. owed' = [owed EXCEPT ![t] = Due] /\ setBack' = setBack
        BY <3>1 DEF ReadClock, pause
      <4> QED BY <4>1, <4>2 DEF TypeOK, FlagType
    <3>2. CASE Pay(t)
      <4>1. setBack' \in BOOLEAN
        BY <3>2 DEF Pay
      <4>2. owed' \in [Thread -> BOOLEAN]
        BY <3>2 DEF Pay, Return, TypeOK, FlagType
      <4> QED BY <4>1, <4>2 DEF FlagType
    <3>3. CASE Refuse(t)
      BY <3>3 DEF Refuse, Return, pause, TypeOK, FlagType
    <3>4. CASE ~ReadClock(t) /\ ~Pay(t) /\ ~Refuse(t)
      BY <2>1, <3>4 DEF CheckCredit, Start, ReadLastTick, WriteLastTick, ReadBalance, Refill,
         CompareMax, Clip, Afford, pause, TypeOK, FlagType
    <3> QED BY <3>1, <3>2, <3>3, <3>4
  <2> QED BY <2>2, <2>3, <2>4 DEF TypeOK
<1>2. ASSUME NEW r \in Rate, Update(r) PROVE TypeOK'
  <2>1. FieldType'
    <3>1. Capped(balance + Earned(clock - lastTick)) \in Int
      BY EarnedInt, CappedInt DEF TypeOK, FieldType
    <3>2. balance' \in Int /\ scale' \in Nat \ {0}
      <4>1. /\ \A i \in Nat, j \in Int : i * j \in Int
            /\ \A i, j \in Nat \ {0} : i * j \in Nat \ {0}
        OBVIOUS
      <4> QED BY <1>2, <3>1, <4>1, MaxBalanceNat DEF Update, ChangeRate, Rescaled, TypeOK, FieldType
    <3>3. allowed' \in Nat
      BY <1>2, MaxBalanceNat DEF Update, ChangeRate, TypeOK, FieldType
    <3> QED BY <1>2, <3>2, <3>3 DEF Update, ChangeRate, TypeOK, FieldType
  <2>2. CallType' /\ FlagType'
    BY <1>2 DEF Update, ChangeRate, threads, TypeOK, CallType, FlagType
  <2> QED BY <2>1, <2>2 DEF TypeOK
<1>3. CASE Tick
  BY <1>3 DEF Tick, fields, threads, bounds, TypeOK, FieldType, CallType, FlagType
<1>4. CASE SetBack
  <2>1. FieldType'
    BY <1>4 DEF SetBack, fields, window, TypeOK, FieldType
  <2>2. CallType' /\ FlagType'
    BY <1>4 DEF SetBack, threads, TypeOK, CallType, FlagType
  <2> QED BY <2>1, <2>2 DEF TypeOK
<1>5. CASE Mark
  BY <1>5, MaxBalanceNat DEF Mark, fields, threads, bounds, pause, TypeOK, FieldType, CallType, FlagType
<1>6. CASE UNCHANGED vars
  BY <1>6 DEF vars, fields, threads, bounds, window, pause, TypeOK, FieldType, CallType, FlagType
<1> QED
  BY <1>1, <1>2, <1>3, <1>4, <1>5, <1>6 DEF Next

\* Type correctness, with a lock and without.
THEOREM TypeCorrect == Spec => []TypeOK
<1>1. Init => TypeOK
  BY TypeInit
<1>2. TypeOK /\ [Next]_vars => TypeOK'
  BY TypeStep
<1> QED
  BY <1>1, <1>2, PTL DEF Spec

-----------------------------------------------------------------------------
(* The lock: at most one thread is in a call, and what it has read is still so. *)

\* A step of one thread leaves all the others idle.
LEMMA Alone ==
  ASSUME Guarded, LockInv, NEW t \in Thread, CheckCredit(t)
  PROVE  \A u \in Thread \ {t} : pc[u] = "idle"
<1>1. pc[t] = "idle" => holder = {}
  BY DEF CheckCredit, Start, ReadClock, ReadLastTick, WriteLastTick, Refill, CompareMax, Clip,
     Afford, Refuse, Pay
<1> QED
  BY <1>1 DEF LockInv

LEMMA LockStep == Guarded /\ TypeOK /\ LockInv /\ [Next]_vars => LockInv'
<1> SUFFICES ASSUME Guarded, TypeOK, LockInv, [Next]_vars PROVE LockInv'
  OBVIOUS
<1>1. ASSUME NEW t \in Thread, CheckCredit(t) PROVE LockInv'
  <2>1. CASE Start(t)
    BY <2>1 DEF Start, Goto, TypeOK, CallType, LockInv
  <2>2. CASE Refuse(t) \/ Pay(t)
    BY <2>2 DEF Refuse, Pay, Return, Goto, TypeOK, CallType, LockInv
  <2>3. CASE ~Start(t) /\ ~Refuse(t) /\ ~Pay(t)
    BY <1>1, <2>3 DEF CheckCredit, ReadClock, ReadLastTick, WriteLastTick, ReadBalance, Refill,
       CompareMax, Clip, Afford, Goto, TypeOK, CallType, LockInv
  <2> QED BY <2>1, <2>2, <2>3
<1>2. ASSUME NEW r \in Rate, Update(r) PROVE LockInv'
  BY <1>2 DEF Update, ChangeRate, threads, LockInv
<1>3. CASE Tick \/ SetBack \/ Mark \/ UNCHANGED vars
  BY <1>3 DEF Tick, SetBack, Mark, vars, threads, LockInv
<1> QED
  BY <1>1, <1>2, <1>3 DEF Next

LEMMA LocalStep == Guarded /\ TypeOK /\ LockInv /\ LocalInv /\ [Next]_vars => LocalInv'
<1> SUFFICES ASSUME Guarded, TypeOK, LockInv, LocalInv, [Next]_vars PROVE LocalInv'
  OBVIOUS
<1>1. ASSUME NEW t \in Thread, CheckCredit(t) PROVE LocalInv'
  <2>1. \A u \in Thread \ {t} : pc[u] = "idle"
    BY <1>1, Alone
  <2>2. Full \in Nat /\ Cost \in Nat /\ (balance + Earned(elapsed[t])) \in Int
    BY FullCost, EarnedInt DEF TypeOK, FieldType, CallType
  <2> USE <2>1, <2>2 DEF TypeOK, FieldType, CallType, LocalInv, Goto, Full, Cost
  <2>3. CASE Start(t) \/ ReadClock(t) \/ ReadLastTick(t)
    BY <2>3 DEF Start, ReadClock, ReadLastTick, fields
  <2>4. CASE WriteLastTick(t)
    BY <2>4 DEF WriteLastTick
  <2>5. CASE pc[t] = "balance" /\ ReadBalance(t, "add")
    BY <2>5 DEF ReadBalance, fields
  <2>6. CASE Refill(t)
    BY <2>6 DEF Refill
  <2>7. CASE CompareMax(t)
    BY <2>7 DEF CompareMax, Overflows, fields
  <2>8. CASE Clip(t)
    BY <2>8 DEF Clip
  <2>9. CASE Afford(t)
    BY <2>9 DEF Afford, fields
  <2>10. CASE pc[t] = "pay" /\ ReadBalance(t, "subtract")
    BY <2>10 DEF ReadBalance, fields
  <2>11. CASE Refuse(t) \/ Pay(t)
    BY <2>11 DEF Refuse, Pay, Return
  <2> QED
    BY <1>1, <2>3, <2>4, <2>5, <2>6, <2>7, <2>8, <2>9, <2>10, <2>11 DEF CheckCredit
<1>2. ASSUME NEW r \in Rate, Update(r) PROVE LocalInv'
  BY <1>2 DEF Update, ChangeRate, threads, TypeOK, CallType, LockInv, LocalInv
<1>3. CASE Tick \/ SetBack \/ Mark \/ UNCHANGED vars
  <2>1. UNCHANGED <<rate, balance, scale, lastTick, pc, now, elapsed, read>>
    BY <1>3 DEF Tick, SetBack, Mark, vars, fields, threads
  <2>2. Full' = Full /\ Cost' = Cost
    BY <2>1 DEF Full, Cost
  <2> QED BY <2>1, <2>2 DEF LocalInv
<1> QED
  BY <1>1, <1>2, <1>3 DEF Next

-----------------------------------------------------------------------------
(* The rate. *)

LEMMA WorthInt ==
  ASSUME TypeOK, NEW t \in Thread
  PROVE  Worth(t) \in Int /\ Worth(t) <= Full
<1>1. Earned(now[t] - lastTick) \in Int /\ Earned(elapsed[t]) \in Int
  BY EarnedInt DEF TypeOK, FieldType, CallType
<1> QED
  BY <1>1, CappedInt DEF Worth, TypeOK, FieldType, CallType

\* The steps between reading the clock and the decision neither make credits nor lose them.
Working(t) == CheckCredit(t) /\ InCall(t) /\ InCall(t)'

LEMMA WorkKeepsWorth ==
  ASSUME Guarded, TypeOK, LockInv, LocalInv, NEW t \in Thread, Working(t)
  PROVE  /\ Worth(t)' = Worth(t) /\ owed'[t] = owed[t]
         /\ UNCHANGED <<clock, rate, scale, window, pause>> /\ now'[t] = now[t]
<1>1. Full \in Int /\ Cost \in Int /\ Earned(elapsed[t]) \in Int
  BY FullCost, EarnedInt DEF TypeOK, FieldType, CallType
<1> USE <1>1 DEF Working, InCall, TypeOK, FieldType, CallType, LocalInv, Goto, Worth, Capped
<1>2. CASE ReadLastTick(t)
  BY <1>2 DEF ReadLastTick, fields, Full, Earned
<1>3. CASE WriteLastTick(t)
  BY <1>3 DEF WriteLastTick, Full, Earned
<1>4. CASE pc[t] = "balance" /\ ReadBalance(t, "add")
  BY <1>4 DEF ReadBalance, fields, Full, Earned
<1>5. CASE Refill(t)
  BY <1>5 DEF Refill, Full, Earned
<1>6. CASE CompareMax(t)
  BY <1>6 DEF CompareMax, fields, Full
<1>7. CASE Clip(t)
  <2>1. Full' = Full /\ balance' = Full /\ balance > Full
    BY <1>7 DEF Clip, Full
  <2> QED BY <1>7, <2>1 DEF Clip
<1>8. CASE Afford(t)
  BY <1>8 DEF Afford, fields, Full
<1>9. CASE pc[t] = "pay" /\ ReadBalance(t, "subtract")
  BY <1>9 DEF ReadBalance, fields, Full
<1> QED
  BY <1>2, <1>3, <1>4, <1>5, <1>6, <1>7, <1>8, <1>9
  DEF CheckCredit, Start, ReadClock, Refuse, Pay, Return

\* Where a call begins and where it ends, its balance is the limiter's.
LEMMA CallBegins ==
  ASSUME TypeOK, NEW t \in Thread, ReadClock(t)
  PROVE  /\ ~InCall(t) /\ InCall(t)' /\ Worth(t)' = IdleBalance /\ CallBalance(t)' = IdleBalance
         /\ Earned(clock - now[t])' = 0 /\ UNCHANGED <<clock, fields, window, pause>>
<1>1. ~InCall(t) /\ InCall(t)' /\ UNCHANGED <<clock, fields, window, pause>> /\ now'[t] = clock
  BY DEF ReadClock, Goto, InCall, TypeOK, CallType
<1>2. Worth(t)' = IdleBalance
  BY <1>1 DEF ReadClock, Goto, fields, Worth, IdleBalance, Capped, Full, Earned, TypeOK, CallType
<1>3. clock' - now'[t] = 0 /\ Earned(clock - now[t])' = Earned(0)
  BY <1>1 DEF fields, Earned, TypeOK, FieldType
<1>4. IdleBalance \in Int /\ IdleBalance <= Full
  BY EarnedInt, CappedInt DEF IdleBalance, TypeOK, FieldType
<1>5. CallBalance(t)' = Capped(IdleBalance)
  <2>1. CallBalance(t)' = Capped(IdleBalance + Earned(0))
    BY <1>1, <1>2, <1>3 DEF CallBalance, Capped, Full, fields
  <2> QED BY <2>1, <1>4, EarnedNothing DEF TypeOK, FieldType
<1> QED
  BY <1>1, <1>2, <1>3, <1>4, <1>5, CappedInt, EarnedNothing DEF TypeOK, FieldType

LEMMA CallEnds ==
  ASSUME TypeOK, LocalInv, NEW t \in Thread, Refuse(t) \/ Pay(t)
  PROVE  /\ InCall(t) /\ ~InCall(t)' /\ now[t] = lastTick /\ Worth(t) = balance
         /\ balance <= Full /\ UNCHANGED <<clock, rate, scale, lastTick, allowed>>
         /\ Refuse(t) => balance < Cost /\ balance' = balance /\ sold' = sold /\ UNCHANGED pause
         /\ Pay(t) => balance >= Cost /\ balance' = balance - Cost /\ sold' = sold + 1
<1>1. InCall(t) /\ ~InCall(t)' /\ UNCHANGED <<clock, rate, scale, lastTick, allowed>>
  BY DEF Refuse, Pay, Return, Goto, InCall, fields, window, TypeOK, CallType
<1>2. now[t] = lastTick /\ balance <= Full
  BY DEF Refuse, Pay, LocalInv
<1>3. Worth(t) = balance
  BY <1>2, CappedInt DEF Refuse, Pay, Worth, TypeOK, FieldType
<1>4. Refuse(t) => balance < Cost /\ balance' = balance /\ sold' = sold /\ UNCHANGED pause
  BY DEF Refuse, fields, window
<1>5. Pay(t) => balance >= Cost /\ balance' = balance - Cost /\ sold' = sold + 1
  BY DEF Pay, LocalInv
<1> QED
  BY <1>1, <1>2, <1>3, <1>4, <1>5

\* The others are idle, before and after.
LEMMA OthersIdle ==
  ASSUME Guarded, TypeOK, LockInv, NEW t \in Thread, CheckCredit(t)
  PROVE  \A u \in Thread \ {t} : ~InCall(u) /\ ~InCall(u)'
<1>1. \A u \in Thread \ {t} : pc[u] = "idle"
  BY Alone
<1>2. \A u \in Thread \ {t} : pc'[u] = "idle"
  BY <1>1 DEF CheckCredit, Start, ReadClock, ReadLastTick, WriteLastTick, ReadBalance, Refill, CompareMax,
     Clip, Afford, Refuse, Pay, Return, Goto, TypeOK, CallType
<1> QED
  BY <1>1, <1>2 DEF InCall

\* The steps of a call, by what they are for its balance.
LEMMA CallSteps ==
  ASSUME TypeOK, NEW t \in Thread, CheckCredit(t)
  PROVE  Start(t) \/ ReadClock(t) \/ Working(t) \/ Refuse(t) \/ Pay(t)
BY DEF CheckCredit, Working, Start, ReadClock, ReadLastTick, WriteLastTick,
   ReadBalance, Refill, CompareMax, Clip, Afford, Goto, InCall, TypeOK, CallType

\* A call of check_credit keeps the rate.
LEMMA CallStep ==
  ASSUME Guarded, RateInv, NEW t \in Thread, CheckCredit(t)
  PROVE  (Spent <= Allowance)' /\ IdleInv' /\ CallInv'
<1> USE DEF RateInv
<1>1. \A u \in Thread \ {t} : ~InCall(u) /\ ~InCall(u)'
  BY OthersIdle
<1>2. Spent \in Int /\ Worth(t) \in Int /\ Earned(clock - now[t]) \in Int /\ Allowance \in Int
  <2>1. \A i, j \in Nat : i * j \in Int
    OBVIOUS
  <2> QED BY <2>1, WorthInt, EarnedInt, FullCost DEF Spent, Allowance, TypeOK, FieldType, CallType
<1>3. CASE Start(t)
  <2>1. UNCHANGED <<clock, rate, balance, scale, lastTick, sold, allowed>> /\ ~InCall(t) /\ ~InCall(t)'
    BY <1>3 DEF Start, Goto, InCall, fields, window, TypeOK, CallType
  <2> QED BY <1>1, <2>1 DEF IdleInv, CallInv, Spent, Allowance, Cost, IdleBalance, Capped, Full, Earned
<1>4. CASE ReadClock(t)
  <2>1. /\ ~InCall(t) /\ InCall(t)' /\ Worth(t)' = IdleBalance
        /\ Earned(clock - now[t])' = 0 /\ UNCHANGED <<rate, scale, sold, allowed>>
    BY <1>4, CallBegins DEF fields, window
  <2>2. Spent + IdleBalance <= Allowance
    BY <1>1, <2>1 DEF IdleInv
  <2>3. IdleBalance \in Int
    BY EarnedInt, CappedInt DEF IdleBalance, TypeOK, FieldType
  <2>4. Spent' = Spent /\ Allowance' = Allowance
    BY <2>1 DEF Spent, Allowance, Cost
  <2>5. Spent' + Worth(t)' <= Allowance' /\ Spent' + Worth(t)' + Earned(clock - now[t])' <= Allowance'
    BY <1>2, <2>1, <2>2, <2>3, <2>4
  <2> QED
    BY <1>1, <2>1, <2>4, <2>5 DEF IdleInv, CallInv
<1>5. CASE Working(t)
  <2>1. Worth(t)' = Worth(t) /\ Earned(clock - now[t])' = Earned(clock - now[t]) /\ Spent' = Spent /\ Allowance' = Allowance
    BY <1>5, WorkKeepsWorth DEF window, Spent, Allowance, Cost, Earned
  <2> QED BY <1>1, <1>5, <2>1 DEF Working, IdleInv, CallInv
<1>6. CASE Refuse(t) \/ Pay(t)
  <2> DEFINE d == Earned(clock - lastTick)
  <2>1. /\ InCall(t) /\ ~InCall(t)' /\ now[t] = lastTick /\ Worth(t) = balance
        /\ UNCHANGED <<clock, rate, scale, lastTick, allowed>> /\ Allowance' = Allowance
    BY <1>6, CallEnds DEF Allowance
  <2>2. Spent + balance <= Allowance /\ Spent + balance + d <= Allowance /\ d \in Int /\ balance \in Int
    BY <1>2, <2>1 DEF CallInv, TypeOK, FieldType
  <2>3. Spent' \in Int /\ balance' \in Int /\ Spent' + balance' = Spent + balance /\ Spent' <= Allowance
    <3>1. CASE Refuse(t)
      BY <1>2, <2>2, <3>1, <2>1, CallEnds DEF Spent, Cost
    <3>2. CASE Pay(t)
      <4>1. balance >= Cost /\ balance' = balance - Cost /\ sold' = sold + 1 /\ Cost' = Cost /\ Cost \in Nat
        BY <2>1, <3>2, CallEnds, FullCost DEF Cost, TypeOK, FieldType
      <4>2. (sold + 1) * Cost = sold * Cost + Cost
        BY <4>1 DEF TypeOK, FieldType
      <4>3. Spent' = Spent + Cost
        BY <4>1, <4>2 DEF Spent
      <4> QED BY <1>2, <2>2, <4>1, <4>3
    <3> QED BY <1>6, <3>1, <3>2
  <2>4. IdleBalance' = Capped(balance' + d)
    BY <2>1 DEF IdleBalance, Capped, Full, Earned
  <2> HIDE DEF d
  <2>5. IdleBalance' \in Int /\ IdleBalance' <= balance' + d
    BY <2>2, <2>3, <2>4, CappedInt DEF TypeOK, FieldType
  <2>6. Spent' + IdleBalance' <= Allowance'
    <3>1. \A s, x, a, y, e, i, l \in Int :
            s + x = a + y /\ a + y + e <= l /\ i <= x + e => s + i <= l
      OBVIOUS
    <3> QED BY <1>2, <2>1, <2>2, <2>3, <2>5, <3>1
  <2> QED
    BY <1>1, <2>1, <2>3, <2>6 DEF IdleInv, CallInv
<1> QED
  BY <1>3, <1>4, <1>5, <1>6, CallSteps

\* What an answer makes of the balance.
LEMMA Rescales ==
  ASSUME TypeOK, LockInv, NEW r \in Rate, Update(r)
  PROVE  /\ IdleBalance \in Int /\ IdleBalance <= Full
         /\ IdleBalance' = MaxBalance(r) * IdleBalance
         /\ Full' = MaxBalance(r) * Full /\ scale' = scale * MaxBalance(rate) /\ scale' \in Nat \ {0}
         /\ \A t \in Thread : ~InCall(t) /\ ~InCall(t)'
<1> USE DEF TypeOK, FieldType
<1> DEFINE m == MaxBalance(rate)
           n == MaxBalance(r)
<1>1. m \in Nat \ {0} /\ n \in Nat \ {0}
  BY MaxBalanceNat
<1>2. IdleBalance \in Int /\ IdleBalance <= Full
  BY EarnedInt, CappedInt DEF IdleBalance
<1>3. balance' = n * IdleBalance /\ rate' = r /\ clock' = clock /\ lastTick' = clock
  BY DEF Update, ChangeRate, Rescaled, IdleBalance
<1>4. scale' = scale * m /\ \A i, j \in Nat \ {0} : i * j \in Nat \ {0}
  BY DEF Update, ChangeRate
<1>5. Full' = n * Full
  <2>1. Full' = n * (scale * m)
    BY <1>3, <1>4 DEF Full, MaxBalance
  <2>2. Full = m * scale
    BY DEF Full
  <2> HIDE DEF m, n
  <2>3. n * (scale * m) = n * (m * scale)
    BY <1>1
  <2> QED BY <2>1, <2>2, <2>3
<1>6. \A t \in Thread : ~InCall(t) /\ ~InCall(t)'
  BY DEF Update, ChangeRate, threads, LockInv, InCall
<1>7. scale' \in Nat \ {0}
  BY <1>1, <1>4
<1>8. IdleBalance' = n * IdleBalance
  <2>1. clock' - lastTick' = 0 /\ rate' \in Nat /\ scale' \in Nat
    BY <1>3, <1>7, RateLimiterAssumption
  <2>2. Earned(clock - lastTick)' = 0
    <3>1. \A i, j \in Nat : (0 * i) * j = 0
      OBVIOUS
    <3> QED BY <2>1, <3>1 DEF Earned
  <2>3. Full \in Nat
    BY FullCost
  <2>4. n * IdleBalance \in Int /\ n * IdleBalance <= n * Full
    BY <1>1, <1>2, <2>3, ProductMonotone
  <2>5. IdleBalance' = IF balance' + 0 > Full' THEN Full' ELSE balance' + 0
    BY <2>2 DEF IdleBalance, Capped
  <2> HIDE DEF n
  <2> QED BY <1>3, <1>5, <2>3, <2>4, <2>5
<1> QED
  BY <1>1, <1>2, <1>4, <1>5, <1>6, <1>7, <1>8

\* An answer scales the balance with its maximum; the window is allowed the difference.
LEMMA UpdateStep ==
  ASSUME RateInv, NEW r \in Rate, Update(r)
  PROVE  (Spent <= Allowance)' /\ IdleInv' /\ CallInv'
<1> DEFINE m == MaxBalance(rate)
           n == MaxBalance(r)
<1> USE DEF RateInv, TypeOK, FieldType
<1>1. m \in Nat \ {0} /\ n \in Nat \ {0} /\ Item \in Nat /\ Cost \in Nat
  BY MaxBalanceNat, FullCost, RateLimiterAssumption
<1>2. /\ IdleBalance \in Int /\ IdleBalance <= m * scale /\ IdleBalance' = n * IdleBalance
      /\ scale' = scale * m /\ \A t \in Thread : ~InCall(t) /\ ~InCall(t)'
  BY Rescales DEF Full
<1>3. Spent + IdleBalance <= allowed * scale /\ Spent <= allowed * scale
  BY <1>2 DEF IdleInv, Allowance
<1>4. allowed' >= allowed /\ allowed' >= allowed + (n - m) /\ allowed' \in Int
  BY <1>1 DEF Update, ChangeRate
<1>5. sold' = sold
  BY DEF Update, ChangeRate
<1> HIDE DEF m, n
<1>6. Spent \in Int /\ Spent' = Spent * m
  <2>1. /\ \A i, j \in Nat : i * j \in Int
        /\ \A i, j, k, l \in Nat : i * (j * (k * l)) = (i * (j * k)) * l
    OBVIOUS
  <2> QED BY <1>1, <1>2, <1>5, <2>1 DEF Spent, Cost
<1>7. Allowance' = (allowed' * scale) * m
  <2>1. \A i \in Int, j, k \in Nat : i * (j * k) = (i * j) * k
    OBVIOUS
  <2> QED BY <1>1, <1>2, <1>4, <2>1 DEF Allowance
<1>8. Spent' + IdleBalance' <= Allowance'
  <2>1. \A S, A, B \in Int, c \in Int, k \in Nat \ {0} :
          /\ c <= m * k /\ S <= A * k /\ S + c <= A * k /\ B >= A /\ B >= A + (n - m)
          => S * m + n * c <= (B * k) * m
    BY <1>1, ScaledFits
  <2>2. allowed \in Int /\ scale \in Nat \ {0}
    OBVIOUS
  <2> QED BY <1>2, <1>3, <1>4, <1>6, <1>7, <2>1, <2>2
<1>9. Spent' <= Allowance'
  <2>1. allowed \in Int /\ scale \in Nat /\ allowed' \in Int /\ allowed <= allowed'
    BY <1>4
  <2>2. allowed * scale \in Int /\ allowed' * scale \in Int /\ allowed * scale <= allowed' * scale
    BY <2>1, ProductMonotone
  <2>3. \A i, j, l \in Int : i <= j /\ j <= l => i <= l
    OBVIOUS
  <2>4. Spent <= allowed' * scale /\ allowed' * scale \in Int
    BY <1>3, <1>6, <2>2, <2>3
  <2> QED BY <1>1, <1>6, <1>7, <2>4, ProductMonotone
<1> QED
  BY <1>2, <1>8, <1>9 DEF IdleInv, CallInv

\* A second, for the balance.
LEMMA Grows ==
  ASSUME TypeOK, Tick
  PROVE  /\ Earned(1) \in Nat /\ UNCHANGED <<fields, threads, Full>> /\ clock' = clock + 1
         /\ Earned(clock - lastTick)' = Earned(clock - lastTick) + Earned(1)
         /\ IdleBalance' = Capped(IdleBalance + Earned(1))
         /\ \A t \in Thread :
              /\ InCall(t)' = InCall(t) /\ Worth(t)' = Worth(t)
              /\ Earned(clock - now[t])' = Earned(clock - now[t]) + Earned(1)
              /\ CallBalance(t)' = Capped(CallBalance(t) + Earned(1))
<1> USE DEF TypeOK, FieldType, CallType
<1>1. clock' = clock + 1 /\ UNCHANGED <<fields, threads>> /\ UNCHANGED Full
  BY DEF Tick, fields, Full
<1>2. \A s \in Int : Earned(s + 1) = Earned(s) + Earned(1) /\ Earned(1) \in Nat /\ Earned(s) \in Int
  BY EarnedMore, EarnedInt
<1>3. \A s \in Nat : Earned(clock - s)' = Earned(clock - s) + Earned(1)
  <2> SUFFICES ASSUME NEW s \in Nat PROVE Earned(clock - s)' = Earned(clock - s) + Earned(1)
    OBVIOUS
  <2>1. clock' - s = (clock - s) + 1 /\ clock - s \in Int
    BY <1>1
  <2>2. Earned(clock - s)' = Earned((clock - s) + 1)
    BY <1>1, <2>1 DEF Earned, fields
  <2> QED BY <1>2, <2>1, <2>2
<1>4. Earned(clock - lastTick)' = Earned(clock - lastTick) + Earned(1)
  BY <1>1, <1>3 DEF fields, Earned
<1>5. IdleBalance' = Capped(IdleBalance + Earned(1))
  <2> DEFINE c == balance + Earned(clock - lastTick)
  <2>1. c \in Int /\ (balance + Earned(clock - lastTick))' = c + Earned(1)
    BY <1>1, <1>2, <1>4 DEF fields
  <2>2. IdleBalance' = Capped(c + Earned(1)) /\ IdleBalance = Capped(c)
    BY <1>1, <2>1 DEF IdleBalance, Capped
  <2> HIDE DEF c
  <2> QED BY <1>2, <2>1, <2>2, CappedMonotone
<1>6. ASSUME NEW t \in Thread
      PROVE  /\ InCall(t)' = InCall(t) /\ Worth(t)' = Worth(t)
             /\ Earned(clock - now[t])' = Earned(clock - now[t]) + Earned(1)
             /\ CallBalance(t)' = Capped(CallBalance(t) + Earned(1))
  <2>1. Worth(t)' = Worth(t)
    BY <1>1 DEF fields, threads, Worth, Capped, Earned
  <2>2. Earned(clock - now[t])' = Earned(clock - now[t]) + Earned(1)
    BY <1>1, <1>3 DEF threads, Earned
  <2> DEFINE c == Worth(t) + Earned(clock - now[t])
  <2>3. c \in Int /\ (Worth(t) + Earned(clock - now[t]))' = c + Earned(1)
    BY <1>2, <2>1, <2>2, WorthInt
  <2>4. CallBalance(t)' = Capped(c + Earned(1)) /\ CallBalance(t) = Capped(c)
    BY <1>1, <2>3 DEF CallBalance, Capped
  <2>5. InCall(t)' = InCall(t)
    BY <1>1 DEF threads, InCall
  <2> HIDE DEF c
  <2> QED BY <1>2, <2>1, <2>2, <2>3, <2>4, <2>5, CappedMonotone
<1> QED
  BY <1>1, <1>2, <1>4, <1>5, <1>6

\* A second makes credits where the window is allowed them.
LEMMA TickStep ==
  ASSUME RateInv, Tick
  PROVE  (Spent <= Allowance)' /\ IdleInv' /\ CallInv'
<1> USE DEF RateInv
<1>1. Spent' = Spent /\ Spent \in Int /\ Allowance \in Int /\ Earned(1) \in Nat
  <2>1. \A i, j \in Nat : i * j \in Int
    OBVIOUS
  <2> QED BY <2>1, Grows, FullCost DEF Tick, fields, Spent, Allowance, Cost, TypeOK, FieldType
<1>2. Allowance' = Allowance + Earned(1)
  <2>1. allowed' = allowed + rate /\ scale' = scale
    BY DEF Tick, fields
  <2>2. \A i, j, k \in Nat : (i + j) * k = i * k + (1 * j) * k
    OBVIOUS
  <2> QED BY <2>1, <2>2, RateLimiterAssumption DEF Allowance, Earned, TypeOK, FieldType
<1>3. IdleInv'
  <2>1. IdleBalance \in Int
    BY EarnedInt, CappedInt DEF IdleBalance, TypeOK, FieldType
  <2>2. IdleBalance' \in Int /\ IdleBalance' <= IdleBalance + Earned(1)
    BY <1>1, <2>1, Grows, CappedInt DEF TypeOK, FieldType
  <2>3. (\A t \in Thread : ~InCall(t))' => Spent + IdleBalance <= Allowance
    BY Grows DEF IdleInv
  <2> QED BY <1>1, <1>2, <2>1, <2>2, <2>3 DEF IdleInv
<1>4. CallInv'
  <2> SUFFICES ASSUME NEW t \in Thread, InCall(t)'
               PROVE  /\ (Spent + Worth(t) <= Allowance)'
                      /\ (Spent + Worth(t) + Earned(clock - now[t]) <= Allowance)'
    BY DEF CallInv
  <2>1. /\ InCall(t) /\ Worth(t)' = Worth(t) /\ Worth(t) \in Int /\ Earned(clock - now[t]) \in Int
        /\ Earned(clock - now[t])' = Earned(clock - now[t]) + Earned(1)
    BY Grows, WorthInt, EarnedInt DEF TypeOK, FieldType, CallType
  <2> QED BY <1>1, <1>2, <2>1 DEF CallInv
<1> QED
  BY <1>1, <1>2, <1>3, <1>4

\* A clock that is set back, for the balance.
LEMMA Shrinks ==
  ASSUME TypeOK, SetBack
  PROVE  /\ UNCHANGED <<fields, threads, Full>> /\ clock' \in Nat
         /\ IdleBalance \in Int /\ IdleBalance' \in Int /\ IdleBalance' <= IdleBalance
         /\ \A t \in Thread :
              /\ InCall(t)' = InCall(t) /\ Worth(t)' = Worth(t)
              /\ Earned(clock - now[t])' \in Int /\ Earned(clock - now[t])' <= Earned(clock - now[t])
              /\ CallBalance(t) \in Int /\ CallBalance(t)' \in Int /\ CallBalance(t)' <= CallBalance(t)
<1> USE DEF TypeOK, FieldType, CallType
<1>1. UNCHANGED <<fields, threads>> /\ UNCHANGED Full
  BY DEF SetBack, fields, Full
<1>2. PICK b \in Nat : clock' \in Nat /\ clock = clock' + b
  <2>1. clock' \in 0 .. clock - 1 /\ clock \in Nat
    BY DEF SetBack
  <2> QED BY <2>1, Earlier
<1>3. /\ \A s \in Int : Earned(s + b) = Earned(s) + Earned(b) /\ Earned(s) \in Int
      /\ Earned(b) \in Nat
  BY EarnedMore, EarnedInt
<1>4. \A s \in Nat : Earned(clock - s) = Earned(clock - s)' + Earned(b) /\ Earned(clock - s)' \in Int
  <2> SUFFICES ASSUME NEW s \in Nat
               PROVE  Earned(clock - s) = Earned(clock - s)' + Earned(b) /\ Earned(clock - s)' \in Int
    OBVIOUS
  <2>1. clock - s = (clock' - s) + b /\ clock' - s \in Int
    BY <1>2
  <2>2. Earned(clock - s)' = Earned(clock' - s)
    BY <1>1 DEF Earned, fields
  <2> QED BY <1>3, <2>1, <2>2
<1>5. IdleBalance \in Int /\ IdleBalance' \in Int /\ IdleBalance' <= IdleBalance
  <2> DEFINE c == balance + Earned(clock - lastTick)'
  <2>1. c \in Int /\ (balance + Earned(clock - lastTick)) = c + Earned(b) /\ (balance + Earned(clock - lastTick))' = c
    <3>1. Earned(clock - lastTick)' \in Int /\ Earned(clock - lastTick) = Earned(clock - lastTick)' + Earned(b) /\ balance' = balance
      BY <1>1, <1>4 DEF fields, Earned
    <3> QED BY <1>3, <3>1
  <2>2. IdleBalance' = Capped(c) /\ IdleBalance = Capped(c + Earned(b))
    BY <1>1, <2>1 DEF IdleBalance, Capped
  <2> HIDE DEF c
  <2> QED BY <1>3, <2>1, <2>2, CappedMonotone, CappedInt
<1>6. ASSUME NEW t \in Thread
      PROVE  /\ InCall(t)' = InCall(t) /\ Worth(t)' = Worth(t)
             /\ Earned(clock - now[t])' \in Int /\ Earned(clock - now[t])' <= Earned(clock - now[t])
             /\ CallBalance(t) \in Int /\ CallBalance(t)' \in Int /\ CallBalance(t)' <= CallBalance(t)
  <2>1. Worth(t)' = Worth(t) /\ Worth(t) \in Int
    BY <1>1, WorthInt DEF fields, threads, Worth, Capped, Earned
  <2>2. Earned(clock - now[t])' \in Int /\ Earned(clock - now[t]) = Earned(clock - now[t])' + Earned(b)
    BY <1>1, <1>4 DEF threads, Earned
  <2> DEFINE c == Worth(t) + Earned(clock - now[t])'
  <2>3. c \in Int /\ Worth(t) + Earned(clock - now[t]) = c + Earned(b) /\ (Worth(t) + Earned(clock - now[t]))' = c
    <3>1. \A w, e, f, g \in Int : f = e + g => w + f = (w + e) + g /\ w + e \in Int
      OBVIOUS
    <3>2. Earned(b) \in Int /\ Earned(clock - now[t]) \in Int
      BY <1>3, <2>2
    <3> QED BY <2>1, <2>2, <3>1, <3>2
  <2>4. CallBalance(t)' = Capped(c) /\ CallBalance(t) = Capped(c + Earned(b))
    BY <1>1, <2>3 DEF CallBalance, Capped
  <2>5. InCall(t)' = InCall(t)
    BY <1>1 DEF threads, InCall
  <2> HIDE DEF c
  <2>6. Earned(b) \in Int /\ Earned(b) >= 0 /\ c + Earned(b) \in Int
    BY <1>3, <2>3
  <2>7. Capped(c) <= Capped(c + Earned(b)) /\ Capped(c) \in Int /\ Capped(c + Earned(b)) \in Int
    BY <2>3, <2>6, CappedMonotone, CappedInt
  <2>8. Earned(clock - now[t])' <= Earned(clock - now[t])
    BY <2>2, <2>6
  <2> QED BY <2>1, <2>2, <2>4, <2>5, <2>7, <2>8
<1> QED
  BY <1>1, <1>2, <1>5, <1>6

\* Setting the clock back makes no credits.
LEMMA SetBackStep ==
  ASSUME RateInv, SetBack
  PROVE  (Spent <= Allowance)' /\ IdleInv' /\ CallInv'
<1> USE DEF RateInv
<1>1. Spent' = Spent /\ Spent \in Int /\ Allowance' = Allowance /\ Allowance \in Int
  <2>1. \A i, j \in Nat : i * j \in Int
    OBVIOUS
  <2> QED BY <2>1, FullCost DEF SetBack, fields, window, Spent, Allowance, Cost, TypeOK, FieldType
<1>2. IdleInv'
  BY <1>1, Shrinks DEF IdleInv
<1>3. CallInv'
  <2> SUFFICES ASSUME NEW t \in Thread, InCall(t)'
               PROVE  /\ (Spent + Worth(t) <= Allowance)'
                      /\ (Spent + Worth(t) + Earned(clock - now[t]) <= Allowance)'
    BY DEF CallInv
  <2>1. InCall(t) /\ Worth(t)' = Worth(t) /\ Worth(t) \in Int /\ Earned(clock - now[t]) \in Int
    BY Shrinks, WorthInt, EarnedInt DEF TypeOK, FieldType, CallType
  <2> QED BY <1>1, <2>1, Shrinks DEF CallInv
<1> QED
  BY <1>1, <1>2, <1>3

LEMMA MarkStep ==
  ASSUME RateInv, Mark
  PROVE  (Spent <= Allowance)' /\ IdleInv' /\ CallInv'
<1> USE DEF RateInv, TypeOK, FieldType
<1>1. Spent' = 0 /\ Allowance' = Full
  BY FullCost DEF Mark, fields, Spent, Allowance, Cost, Full
<1>2. \A t \in Thread : ~InCall(t)'
  BY DEF Mark, threads, LockInv, InCall
<1>3. IdleBalance' = IdleBalance /\ IdleBalance \in Int /\ IdleBalance <= Full /\ Full \in Nat
  BY EarnedInt, CappedInt, FullCost DEF Mark, IdleBalance, Capped, Full, Earned, fields
<1> QED
  BY <1>1, <1>2, <1>3 DEF IdleInv, CallInv

LEMMA RateInit == Init => RateInv
<1> SUFFICES ASSUME Init PROVE RateInv
  OBVIOUS
<1>1. TypeOK
  BY TypeInit
<1>2. LockInv /\ LocalInv /\ CallInv
  BY DEF Init, LockInv, LocalInv, CallInv, InCall
<1>3. scale = 1 /\ sold = 0 /\ allowed = MaxBalance(rate) /\ Earned(clock - lastTick) = 0 /\ balance <= allowed
  BY <1>1, MaxBalanceNat, EarnedNothing DEF Init, TypeOK, FieldType
<1>4. Spent = 0 /\ Allowance = Full /\ Full \in Nat
  BY <1>1, <1>3, FullCost DEF Spent, Allowance, Full, TypeOK, FieldType
<1>5. IdleBalance \in Int /\ IdleBalance <= Full
  BY <1>1, EarnedInt, CappedInt DEF IdleBalance, TypeOK, FieldType
<1> QED
  BY <1>1, <1>2, <1>4, <1>5 DEF RateInv, IdleInv

LEMMA RateStep == Guarded /\ RateInv /\ [Next]_vars => RateInv'
<1> SUFFICES ASSUME Guarded, RateInv, [Next]_vars PROVE RateInv'
  OBVIOUS
<1>1. TypeOK' /\ LockInv' /\ LocalInv'
  BY TypeStep, LockStep, LocalStep DEF RateInv
<1>2. ASSUME UNCHANGED vars PROVE (Spent <= Allowance)' /\ IdleInv' /\ CallInv'
  <2>1. UNCHANGED <<clock, rate, balance, scale, lastTick, pc, now, elapsed, sold, allowed>>
    BY <1>2 DEF vars, fields, threads, window
  <2> QED BY <2>1 DEF RateInv, IdleInv, CallInv, InCall, Worth, IdleBalance, Spent, Allowance, Cost, Capped, Full, Earned
<1>3. (Spent <= Allowance)' /\ IdleInv' /\ CallInv'
  BY <1>2, CallStep, UpdateStep, TickStep, SetBackStep, MarkStep DEF Next
<1> QED
  BY <1>1, <1>3 DEF RateInv

\* Behind the sampler's lock the rate is kept in every window of time.
THEOREM RateIsKept == Guarded => (Spec => []RateKept)
<1> SUFFICES ASSUME Guarded PROVE Spec => []RateKept
  OBVIOUS
<1>1. RateInv => RateKept
  <2> SUFFICES ASSUME RateInv PROVE RateKept
    OBVIOUS
  <2>1. /\ Item \in Nat /\ sold \in Nat /\ allowed \in Nat /\ scale \in Nat \ {0}
        /\ \A i, j, k \in Nat : i * (j * k) = (i * j) * k /\ i * j \in Int
    BY RateLimiterAssumption DEF RateInv, TypeOK, FieldType
  <2>2. (sold * Item) * scale <= allowed * scale
    BY <2>1 DEF RateInv, Spent, Allowance, Cost
  <2> QED BY <2>1, <2>2, ProductCancels DEF RateKept
<1> QED
  BY <1>1, RateInit, RateStep, PTL DEF Spec
-----------------------------------------------------------------------------
(* The lower bound.  The share of its maximum that a balance has reached grows by at least *)
(* Pace / Item each second, and no answer changes it.                                      *)

\* A balance that is full, or holds its share of the time waited for.
Grown(credits) == credits >= Full \/ Item * credits >= Full * (waited * Pace)

IdleDue == (\A t \in Thread : ~InCall(t)) => Grown(IdleBalance)
CallDue == \A t \in Thread : InCall(t) => Grown(CallBalance(t)) /\ (owed[t] => Worth(t) = Full)

DueInv == slowest <= rate /\ (~setBack => IdleDue /\ CallDue)

LEMMA PaceNat ==
  ASSUME TypeOK
  PROVE  /\ Pace \in Nat /\ waited \in Nat /\ waited * Pace \in Nat /\ Item \in Nat \ {0}
         /\ Full * (waited * Pace) \in Nat
<1>1. \A i, j \in Nat : i * j \in Nat
  OBVIOUS
<1> QED
  BY <1>1, FullCost, RateLimiterAssumption DEF Pace, TypeOK, FieldType

\* A second is worth its share of the maximum, whatever the rate.
LEMMA SecondIsWorth ==
  ASSUME TypeOK, slowest <= rate
  PROVE  Full * Pace <= Item * Earned(1) /\ Item * Earned(1) \in Int
<1>1. /\ Item \in Nat \ {0} /\ rate \in Nat /\ slowest \in Nat /\ scale \in Nat
      /\ Earned(1) = rate * scale /\ Full = MaxBalance(rate) * scale
  BY RateLimiterAssumption DEF TypeOK, FieldType, Earned, Full
<1>2. /\ \A i, j, k \in Nat : i * (j * k) = (j * k) * i /\ (i * j) * k = j * (i * k) /\ i * (j * k) \in Nat
      /\ \A i, j, k \in Nat : (i * j) * k = i * (k * j)
  OBVIOUS
<1>3. CASE rate > Item
  <2>1. Full = rate * scale /\ Pace <= Item /\ Pace \in Nat
    BY <1>1, <1>3 DEF MaxBalance, Pace
  <2>2. Pace * (rate * scale) <= Item * (rate * scale)
    <3>1. rate * scale \in Nat
      BY <1>1
    <3> QED BY <1>1, <2>1, <3>1, ProductMonotone
  <2> QED BY <1>1, <1>2, <2>1, <2>2
<1>4. CASE rate <= Item
  <2>1. Full = Item * scale /\ Pace <= rate /\ Pace \in Nat
    BY <1>1, <1>4 DEF MaxBalance, Pace
  <2>2. Pace * (Item * scale) <= rate * (Item * scale)
    <3>1. Item * scale \in Nat
      BY <1>1
    <3> QED BY <1>1, <2>1, <3>1, ProductMonotone
  <2>3. rate * (Item * scale) = Item * (rate * scale) /\ (Item * scale) * Pace = Pace * (Item * scale)
    BY <1>1, <2>1, <1>2
  <2> QED BY <1>1, <1>2, <2>1, <2>2, <2>3
<1> QED
  BY <1>1, <1>3, <1>4

LEMMA GrownTick ==
  ASSUME TypeOK, Tick, slowest <= rate, NEW c \in Int, c <= Full, Grown(c)
  PROVE  Capped(c + Earned(1)) >= Full \/ Item * Capped(c + Earned(1)) >= Full * ((waited + 1) * Pace)
<1>1. Earned(1) \in Nat /\ Full \in Nat \ {0}
  BY Grows, FullCost DEF TypeOK, FieldType
<1>2. CASE c + Earned(1) >= Full
  BY <1>1, <1>2 DEF Capped
<1>3. CASE c + Earned(1) < Full
  <2>1. Capped(c + Earned(1)) = c + Earned(1) /\ c < Full
    BY <1>1, <1>3 DEF Capped
  <2>2. Item * c >= Full * (waited * Pace)
    BY <1>1, <2>1 DEF Grown
  <2>3. Item * (c + Earned(1)) = Item * c + Item * Earned(1) /\ Item * c \in Int
    BY <1>1, RateLimiterAssumption
  <2>4. Full * ((waited + 1) * Pace) = Full * (waited * Pace) + Full * Pace
    <3>1. \A f, w, p \in Nat : f * ((w + 1) * p) = f * (w * p) + f * p
      OBVIOUS
    <3> QED BY <1>1, <3>1, PaceNat
  <2>5. Full * Pace \in Int
    <3>1. \A f, p \in Nat : f * p \in Int
      OBVIOUS
    <3> QED BY <1>1, <3>1, PaceNat
  <2> QED BY <2>1, <2>2, <2>3, <2>4, <2>5, SecondIsWorth, PaceNat
<1> QED
  BY <1>1, <1>2, <1>3

LEMMA DueInit == Init => DueInv
<1> SUFFICES ASSUME Init PROVE DueInv
  OBVIOUS
<1>1. TypeOK /\ waited = 0 /\ balance \in Nat /\ clock = lastTick /\ slowest = rate
  BY TypeInit, MaxBalanceNat DEF Init
<1>2. IdleBalance \in Int /\ IdleBalance >= 0
  <2>1. Earned(clock - lastTick) = 0 /\ Full \in Nat
    BY <1>1, EarnedNothing, FullCost DEF TypeOK, FieldType
  <2> QED BY <1>1, <2>1 DEF IdleBalance, Capped
<1>3. Item * IdleBalance >= Full * (waited * Pace)
  <2>1. Full * (waited * Pace) = 0
    <3>1. \A f, p \in Nat : f * (0 * p) = 0
      OBVIOUS
    <3> QED BY <1>1, <3>1, PaceNat, FullCost DEF TypeOK, FieldType
  <2>2. \A i, j \in Nat : i * j >= 0
    OBVIOUS
  <2> QED BY <1>2, <2>1, <2>2, PaceNat, <1>1
<1>4. CallDue /\ slowest <= rate
  BY <1>1, RateLimiterAssumption DEF Init, CallDue, InCall, TypeOK, FieldType
<1> QED
  BY <1>3, <1>4 DEF DueInv, IdleDue, Grown

\* In a call the share is kept, and what is due fills the balance.
LEMMA DueCallStep ==
  ASSUME Guarded, TypeOK, LockInv, LocalInv, DueInv, NEW t \in Thread, CheckCredit(t)
  PROVE  DueInv'
<1>1. \A u \in Thread \ {t} : ~InCall(u) /\ ~InCall(u)'
  BY OthersIdle
<1>2. CASE Start(t)
  <2>1. UNCHANGED <<clock, fields, pause>> /\ ~InCall(t) /\ ~InCall(t)'
    BY <1>2 DEF Start, Goto, InCall, TypeOK, CallType
  <2>2. UNCHANGED <<IdleBalance, Full, Pace, rate, slowest, setBack, waited>>
    BY <2>1 DEF fields, pause, IdleBalance, Capped, Full, Earned, Pace
  <2> QED BY <1>1, <2>1, <2>2 DEF DueInv, IdleDue, CallDue, Grown
<1>3. CASE ReadClock(t)
  <2>1. /\ ~InCall(t) /\ InCall(t)' /\ Worth(t)' = IdleBalance /\ CallBalance(t)' = IdleBalance
        /\ UNCHANGED <<rate, Full, Pace, slowest, setBack, waited>>
    BY <1>3, CallBegins DEF fields, pause, Full, Pace
  <2>2. owed'[t] = Due
    BY <1>3 DEF ReadClock, TypeOK, FlagType
  <2>3. ASSUME ~setBack PROVE Grown(IdleBalance)
    BY <1>1, <2>1, <2>3 DEF DueInv, IdleDue
  <2>4. ASSUME ~setBack, Due PROVE IdleBalance = Full
    <3>1. IdleBalance \in Int /\ IdleBalance <= Full /\ Full \in Nat
      BY EarnedInt, CappedInt, FullCost DEF IdleBalance, TypeOK, FieldType
    <3>2. CASE Item * IdleBalance >= Full * (waited * Pace)
      <4>1. Item * Full <= (waited * Pace) * Full
        BY <2>4, <3>1, PaceNat, ProductMonotone DEF Due
      <4>2. \A i, j \in Nat : i * j = j * i
        OBVIOUS
      <4>3. Item * IdleBalance = IdleBalance * Item /\ IdleBalance * Item \in Int /\ Full * Item \in Int
        BY <3>1, RateLimiterAssumption
      <4>4. Full * Item <= IdleBalance * Item
        BY <3>1, <3>2, <4>1, <4>2, <4>3, PaceNat
      <4>5. Full <= IdleBalance
        BY <3>1, <4>4, PaceNat, ProductCancels
      <4> QED BY <3>1, <4>5
    <3> QED BY <2>3, <2>4, <3>1, <3>2 DEF Grown
  <2> QED BY <1>1, <2>1, <2>2, <2>3, <2>4 DEF DueInv, IdleDue, CallDue, Grown
<1>4. CASE Working(t)
  <2>1. Worth(t)' = Worth(t) /\ owed'[t] = owed[t] /\ UNCHANGED <<clock, rate, scale, window, pause>> /\ now'[t] = now[t]
    BY <1>4, WorkKeepsWorth
  <2>2. CallBalance(t)' = CallBalance(t) /\ UNCHANGED <<rate, Full, Pace, slowest, setBack, waited>>
    BY <2>1 DEF pause, CallBalance, Capped, Full, Earned, Pace
  <2> QED BY <1>1, <1>4, <2>1, <2>2 DEF Working, DueInv, IdleDue, CallDue, Grown
<1>5. CASE Refuse(t)
  <2>1. /\ InCall(t) /\ ~InCall(t)' /\ now[t] = lastTick /\ Worth(t) = balance
        /\ UNCHANGED <<clock, rate, scale, lastTick, pause>> /\ balance' = balance
    BY <1>5, CallEnds
  <2>2. IdleBalance' = CallBalance(t) /\ UNCHANGED <<rate, Full, Pace, slowest, setBack, waited>>
    BY <2>1 DEF pause, CallBalance, IdleBalance, Capped, Full, Earned, Pace
  <2> QED BY <1>1, <2>1, <2>2 DEF DueInv, IdleDue, CallDue, Grown
<1>6. CASE Pay(t)
  <2>1. /\ ~InCall(t)' /\ UNCHANGED <<clock, rate, scale, lastTick>>
        /\ balance >= Cost /\ balance' = balance - Cost
    BY <1>6, CallEnds
  <2>2. waited' = 0 /\ slowest' = rate /\ setBack' = (clock < lastTick)
    BY <1>6 DEF Pay
  <2>3. Full' = Full /\ Full \in Nat /\ Cost \in Nat /\ Item \in Nat /\ Pace' \in Nat
    BY <2>1, <2>2, FullCost, RateLimiterAssumption DEF Full, Pace, TypeOK, FieldType
  <2>4. ASSUME ~setBack' PROVE Grown(IdleBalance)'
    <3>1. clock - lastTick \in Nat
      <4>1. ~(clock < lastTick)
        BY <2>2, <2>4, Zenon
      <4>2. clock \in Nat /\ lastTick \in Nat
        BY DEF TypeOK, FieldType
      <4> QED BY <4>1, <4>2
    <3>2. Earned(clock - lastTick) \in Nat
      BY <3>1, EarnedMore DEF TypeOK, FieldType
    <3>3. IdleBalance' = Capped(balance' + Earned(clock - lastTick))
      BY <2>1 DEF IdleBalance, Capped, Full, Earned
    <3>4. IdleBalance' \in Nat
      BY <2>1, <2>3, <3>2, <3>3 DEF Capped, TypeOK, FieldType
    <3>5. \A f, p, i, c \in Nat : i * c >= f * (0 * p)
      OBVIOUS
    <3> QED BY <2>2, <2>3, <3>4, <3>5 DEF Grown
  <2>5. slowest' <= rate'
    BY <2>1, <2>2, RateLimiterAssumption DEF TypeOK, FieldType
  <2> QED BY <1>1, <2>1, <2>4, <2>5 DEF DueInv, IdleDue, CallDue
<1> QED
  BY <1>2, <1>3, <1>4, <1>5, <1>6, CallSteps

\* An answer keeps the share of the maximum.
LEMMA DueUpdateStep ==
  ASSUME TypeOK, LockInv, DueInv, NEW r \in Rate, Update(r)
  PROVE  DueInv'
<1> DEFINE n == MaxBalance(r)
<1> USE DEF TypeOK, FieldType
<1>1. /\ n \in Nat \ {0} /\ IdleBalance \in Int /\ IdleBalance' = n * IdleBalance /\ Full' = n * Full
      /\ Full \in Nat /\ \A t \in Thread : ~InCall(t) /\ ~InCall(t)'
  BY Rescales, MaxBalanceNat, FullCost
<1>2. /\ rate' = r /\ waited' = waited /\ setBack' = setBack
      /\ slowest' = IF r < slowest THEN r ELSE slowest
  BY DEF Update, ChangeRate
<1>3. r \in Nat /\ slowest \in Nat
  BY RateLimiterAssumption
<1>4. slowest' <= rate' /\ Pace' \in Nat /\ Pace' <= Pace
  BY <1>2, <1>3, RateLimiterAssumption DEF Pace
<1> HIDE DEF n
<1>5. ASSUME Grown(IdleBalance) PROVE Grown(IdleBalance)'
  <2>1. CASE IdleBalance >= Full
    <3>1. Full * n <= IdleBalance * n
      BY <1>1, <2>1, ProductMonotone
    <3>2. \A i, j \in Int : i * j = j * i
      OBVIOUS
    <3> QED BY <1>1, <3>1, <3>2 DEF Grown
  <2>2. CASE Item * IdleBalance >= Full * (waited * Pace)
    <3>1. Item \in Nat /\ Pace \in Nat /\ waited \in Nat /\ waited * Pace \in Nat /\ waited * Pace' \in Nat
      <4>1. \A i, j \in Nat : i * j \in Nat
        OBVIOUS
      <4> QED BY <1>4, <4>1, PaceNat
    <3>2. /\ \A i, j \in Int : i * j = j * i /\ i * j \in Int
          /\ \A i, j, k \in Int : (i * j) * k = i * (k * j) /\ (i * j) * k = (k * i) * j
      OBVIOUS
    <3>3. waited * Pace' <= waited * Pace
      <4>1. \A i, j, k \in Nat : i <= j => k * i <= k * j
        <5>1. \A i, j, k \in Nat : i <= j => i * k <= j * k
          BY ProductMonotone
        <5>2. \A i, k \in Nat : i * k = k * i
          OBVIOUS
        <5> QED BY <5>1, <5>2
      <4> QED BY <1>4, <3>1, <4>1
    <3>4. Full * (waited * Pace') <= Full * (waited * Pace)
      <4>1. (waited * Pace') * Full <= (waited * Pace) * Full
        BY <1>1, <3>1, <3>3, ProductMonotone
      <4> QED BY <1>1, <3>1, <3>2, <4>1
    <3>5. /\ Full * (waited * Pace') \in Int /\ Item * IdleBalance \in Int
          /\ Full * (waited * Pace') <= Item * IdleBalance
      <4>1. Full * (waited * Pace') \in Int /\ Full * (waited * Pace) \in Int /\ Item * IdleBalance \in Int
        BY <1>1, <3>1, <3>2
      <4>2. \A i, j, k \in Int : i <= j /\ k >= j => i <= k
        OBVIOUS
      <4> QED BY <2>2, <3>4, <4>1, <4>2
    <3>6. (Full * (waited * Pace')) * n <= (Item * IdleBalance) * n
      BY <1>1, <3>5, ProductMonotone
    <3>7. (Full * (waited * Pace')) * n = (n * Full) * (waited * Pace')
      BY <1>1, <3>1, <3>2
    <3>8. (Item * IdleBalance) * n = Item * (n * IdleBalance)
      BY <1>1, <3>1, <3>2
    <3>9. Item * IdleBalance' >= Full' * (waited' * Pace')
      BY <1>1, <1>2, <3>6, <3>7, <3>8
    <3> QED BY <3>9 DEF Grown
  <2> QED BY <1>5, <2>1, <2>2 DEF Grown
<1> QED
  BY <1>1, <1>2, <1>4, <1>5 DEF DueInv, IdleDue, CallDue

LEMMA DueTickStep ==
  ASSUME TypeOK, DueInv, Tick
  PROVE  DueInv'
<1>1. /\ waited' = waited + 1 /\ Full' = Full
      /\ UNCHANGED <<rate, slowest, setBack, owed, Pace>>
  BY Grows DEF Tick, fields, Pace
<1>2. ASSUME NEW c \in Int, c <= Full, Grown(c), NEW d, d = Capped(c + Earned(1))
      PROVE  d >= Full' \/ Item * d >= Full' * (waited' * Pace')
  BY <1>1, <1>2, GrownTick DEF DueInv
<1>3. ASSUME ~setBack PROVE IdleDue'
  <2> SUFFICES ASSUME (\A t \in Thread : ~InCall(t))' PROVE Grown(IdleBalance)'
    BY DEF IdleDue
  <2>1. Grown(IdleBalance)
    BY <1>3, Grows DEF DueInv, IdleDue
  <2>2. IdleBalance \in Int /\ IdleBalance <= Full
    BY EarnedInt, CappedInt DEF IdleBalance, TypeOK, FieldType
  <2> QED BY <1>2, <2>1, <2>2, Grows DEF Grown
<1>4. ASSUME ~setBack PROVE CallDue'
  <2> SUFFICES ASSUME NEW t \in Thread, InCall(t)'
               PROVE  Grown(CallBalance(t))' /\ (owed'[t] => Worth(t)' = Full')
    BY DEF CallDue
  <2>1. InCall(t) /\ Worth(t)' = Worth(t) /\ CallBalance(t)' = Capped(CallBalance(t) + Earned(1))
    BY Grows
  <2>2. Grown(CallBalance(t)) /\ (owed[t] => Worth(t) = Full)
    BY <1>4, <2>1 DEF DueInv, CallDue
  <2>3. CallBalance(t) \in Int /\ CallBalance(t) <= Full
    BY WorthInt, EarnedInt, CappedInt DEF CallBalance, TypeOK, FieldType, CallType
  <2> QED BY <1>1, <1>2, <2>1, <2>2, <2>3 DEF Grown
<1> QED
  BY <1>1, <1>3, <1>4 DEF DueInv

LEMMA DueStep == Guarded /\ RateInv /\ DueInv /\ [Next]_vars => DueInv'
<1> SUFFICES ASSUME Guarded, RateInv, DueInv, [Next]_vars PROVE DueInv'
  OBVIOUS
<1>1. TypeOK /\ LockInv /\ LocalInv
  BY DEF RateInv
<1>2. ASSUME SetBack PROVE DueInv'
  BY <1>2 DEF SetBack, fields, DueInv
<1>3. ASSUME Mark \/ UNCHANGED vars PROVE DueInv'
  <2>1. UNCHANGED <<clock, rate, balance, scale, lastTick, pc, now, elapsed, waited, slowest, setBack, owed>>
    BY <1>3 DEF Mark, vars, fields, threads, pause
  <2> QED BY <2>1 DEF DueInv, IdleDue, CallDue, Grown, InCall, Worth, IdleBalance, CallBalance, Capped, Full, Earned, Pace
<1> QED
  BY <1>1, <1>2, <1>3, DueCallStep, DueUpdateStep, DueTickStep DEF Next

\* Behind the sampler's lock no trace is refused that is due, for any rates and any changes of them.
THEOREM LowerBoundIsMet == Guarded => (Spec => LowerBoundMet)
<1> SUFFICES ASSUME Guarded PROVE Spec => LowerBoundMet
  OBVIOUS
<1>1. Init => RateInv /\ DueInv
  BY RateInit, DueInit
<1>2. RateInv /\ DueInv /\ [Next]_vars => (RateInv /\ DueInv)'
  BY RateStep, DueStep
<1>3. RateInv /\ DueInv /\ [Next]_vars => [\A t \in Thread : Refuse(t) /\ ~setBack => ~owed[t]]_vars
  <2> SUFFICES ASSUME RateInv, DueInv, NEW t \in Thread, Refuse(t), ~setBack, owed[t] PROVE FALSE
    OBVIOUS
  <2>1. TypeOK /\ LocalInv
    BY DEF RateInv
  <2>2. InCall(t) /\ Worth(t) = balance /\ balance < Cost
    BY <2>1, CallEnds
  <2>3. balance = Full
    BY <2>2 DEF DueInv, CallDue
  <2> QED BY <2>1, <2>2, <2>3, FullCost DEF TypeOK, FieldType
<1> QED
  BY <1>1, <1>2, <1>3, PTL DEF Spec, LowerBoundMet

-----------------------------------------------------------------------------
(* The refinement.  A call buys or is refused when it reads the clock, and has returned when *)
(* it pays or refuses; what it does in between is not seen.                                  *)

LEMMA LevelInCall ==
  ASSUME NEW t \in Thread, InCall(t), \A u \in Thread \ {t} : ~InCall(u)
  PROVE  Level = Capped(Left(t) + Earned(clock - now[t]))
<1>1. \A u \in Thread : InCall(u) <=> u = t
  OBVIOUS
<1>2. (CHOOSE u \in Thread : InCall(u)) = t
  BY <1>1
<1> QED
  BY <1>2 DEF Level

LEMMA LevelInNextCall ==
  ASSUME NEW t \in Thread, InCall(t)', \A u \in Thread \ {t} : ~InCall(u)'
  PROVE  Level' = Capped(Left(t) + Earned(clock - now[t]))'
<1>1. \A u \in Thread : InCall(u)' <=> u = t
  OBVIOUS
<1>2. (CHOOSE u \in Thread : InCall(u)') = t
  BY <1>1
<1> QED
  BY <1>2 DEF Level

LEMMA LevelIdle ==
  /\ (\A t \in Thread : ~InCall(t)) => Level = IdleBalance
  /\ (\A t \in Thread : ~InCall(t)') => Level' = IdleBalance'
BY DEF Level

LEMMA LeftInt ==
  ASSUME TypeOK, NEW t \in Thread
  PROVE  Left(t) \in Int /\ Left(t) <= Full
BY WorthInt, FullCost DEF Left, TypeOK, FieldType

\* A thread that is in no call has no answer; what it is told changes with its own steps only.
LEMMA AnswerStep ==
  ASSUME NEW t \in Thread, \A u \in Thread \ {t} : ~InCall(u) /\ ~InCall(u)',
         NEW a, a = Answer'[t]
  PROVE  Answer' = [Answer EXCEPT ![t] = a]
BY DEF Answer

LEMMA BucketCallStep ==
  ASSUME Guarded, TypeOK, LockInv, LocalInv, NEW t \in Thread, CheckCredit(t)
  PROVE  [Bucket!Next]_(Bucket!vars)
<1> USE DEF TypeOK, FieldType
<1>1. \A u \in Thread \ {t} : ~InCall(u) /\ ~InCall(u)'
  BY OthersIdle
<1>2. Full \in Nat /\ Cost \in Nat /\ Cost = Item * scale
  BY FullCost DEF Cost
<1>3. CASE Start(t)
  <2>1. UNCHANGED <<clock, fields>> /\ ~InCall(t) /\ ~InCall(t)'
    BY <1>3 DEF Start, Goto, InCall, CallType
  <2>2. Level' = Level
    BY <1>1, <2>1, LevelIdle DEF fields, IdleBalance, Capped, Full, Earned
  <2>3. Answer' = Answer
    BY <1>1, <2>1 DEF Answer
  <2> QED BY <2>1, <2>2, <2>3 DEF fields, Bucket!vars
<1>4. CASE ReadClock(t)
  <2>1. /\ ~InCall(t) /\ InCall(t)' /\ Worth(t)' = IdleBalance /\ Earned(clock - now[t])' = 0
        /\ UNCHANGED <<rate, scale, Cost, Full>>
    BY <1>4, CallBegins DEF fields, Cost, Full
  <2>2. Level = IdleBalance
    BY <1>1, <2>1, LevelIdle
  <2>3. IdleBalance \in Int /\ IdleBalance <= Full
    BY EarnedInt, CappedInt DEF IdleBalance
  <2>4. Level' = IF Level >= Cost THEN Level - Cost ELSE Level
    <3>1. Level' = Capped(Left(t) + Earned(clock - now[t]))'
      BY <1>1, <2>1, LevelInNextCall
    <3>2. Left(t)' = IF Level >= Cost THEN Level - Cost ELSE Level
      BY <2>1, <2>2 DEF Left
    <3>3. Left(t)' \in Int /\ Left(t)' <= Full
      BY <1>2, <2>2, <2>3, <3>2
    <3>4. Level' = IF Left(t)' + 0 > Full THEN Full ELSE Left(t)' + 0
      BY <2>1, <3>1 DEF Capped
    <3> QED BY <1>2, <3>2, <3>3, <3>4
  <2>5. Answer[t] = "none" /\ Answer'[t] = IF Level >= Cost THEN "bought" ELSE "refused"
    BY <2>1, <2>2 DEF Answer
  <2>6. Answer' = [Answer EXCEPT ![t] = IF Level >= Cost THEN "bought" ELSE "refused"]
    BY <1>1, <2>5, AnswerStep
  <2>7. Level \in Int
    BY <2>2, <2>3
  <2>8. Bucket!Buy(t) \/ Bucket!Refuse(t)
    <3>1. CASE Level >= Cost
      BY <1>2, <2>1, <2>4, <2>5, <2>6, <3>1 DEF Bucket!Buy
    <3>2. CASE Level < Cost
      <4>1. ~(Level >= Cost)
        BY <1>2, <2>7, <3>2
      <4> QED BY <1>2, <2>1, <2>4, <2>5, <2>6, <3>2, <4>1 DEF Bucket!Refuse
    <3> QED BY <1>2, <2>7, <3>1, <3>2
  <2> QED BY <2>8 DEF Bucket!Next
<1>5. CASE Working(t)
  <2>1. Worth(t)' = Worth(t) /\ UNCHANGED <<clock, rate, scale>> /\ now'[t] = now[t] /\ InCall(t) /\ InCall(t)'
    BY <1>5, WorkKeepsWorth DEF Working
  <2>2. Level' = Level
    BY <1>1, <2>1, LevelInCall, LevelInNextCall DEF Left, Capped, Full, Cost, Earned
  <2>3. Answer' = Answer
    BY <1>1, <2>1 DEF Answer, Cost
  <2> QED BY <2>1, <2>2, <2>3 DEF Bucket!vars
<1>6. CASE Refuse(t) \/ Pay(t)
  <2>1. /\ InCall(t) /\ ~InCall(t)' /\ now[t] = lastTick /\ Worth(t) = balance
        /\ UNCHANGED <<clock, rate, scale, lastTick>>
        /\ Refuse(t) => balance < Cost /\ balance' = balance
        /\ Pay(t) => balance >= Cost /\ balance' = balance - Cost
    BY <1>6, CallEnds
  <2>2. Left(t) = balance'
    BY <1>2, <1>6, <2>1 DEF Left
  <2>3. Level' = Level
    BY <1>1, <2>1, <2>2, LevelInCall, LevelIdle DEF IdleBalance, Capped, Full, Earned
  <2>4. Answer'[t] = "none"
    BY <2>1 DEF Answer
  <2>5. Bucket!Return(t)
    BY <1>1, <2>1, <2>3, <2>4, AnswerStep DEF Bucket!Return
  <2> QED BY <2>5 DEF Bucket!Next
<1> QED
  BY <1>3, <1>4, <1>5, <1>6, CallSteps

LEMMA BucketUpdateStep ==
  ASSUME TypeOK, LockInv, NEW r \in Rate, Update(r)
  PROVE  Bucket!Resize(r)
<1>1. /\ IdleBalance' = MaxBalance(r) * IdleBalance /\ scale' = scale * MaxBalance(rate)
      /\ \A t \in Thread : ~InCall(t) /\ ~InCall(t)'
  BY Rescales
<1>2. Level = IdleBalance /\ Level' = IdleBalance'
  BY <1>1, LevelIdle
<1>3. Answer' = Answer
  BY <1>1 DEF Answer
<1>4. rate' = r
  BY DEF Update, ChangeRate
<1> QED
  BY <1>1, <1>2, <1>3, <1>4 DEF Bucket!Resize, Bucket!MaxLevel, MaxBalance

LEMMA BucketClockStep ==
  ASSUME TypeOK, LockInv, Tick \/ SetBack
  PROVE  Bucket!Fill \/ Bucket!Drain
<1> USE DEF TypeOK, FieldType, CallType
<1>1. UNCHANGED <<fields, threads, Full, Cost>>
  BY Grows, Shrinks DEF fields, Cost
<1>2. \A t \in Thread : InCall(t)' = InCall(t) /\ Worth(t)' = Worth(t) /\ Left(t)' = Left(t)
  BY <1>1, Grows, Shrinks DEF Left
<1>3. Answer' = Answer
  BY <1>1, <1>2 DEF Answer
<1>4. \A t \in Thread : InCall(t) => \A u \in Thread \ {t} : ~InCall(u)
  BY DEF LockInv, InCall
<1>5. CASE Tick
  <2>1. Earned(1) \in Nat /\ Earned(1) = rate * scale
    BY <1>5, Grows, RateLimiterAssumption DEF Earned
  <2>2. Level' = Capped(Level + Earned(1))
    <3>1. CASE \E t \in Thread : InCall(t)
      <4>1. PICK t \in Thread : InCall(t)
        BY <3>1
      <4> DEFINE c == Left(t) + Earned(clock - now[t])
      <4>2. c \in Int /\ (Left(t) + Earned(clock - now[t]))' = c + Earned(1)
        <5>1. Left(t) \in Int /\ Earned(clock - now[t]) \in Int
          BY LeftInt, EarnedInt
        <5>2. Left(t)' = Left(t) /\ Earned(clock - now[t])' = Earned(clock - now[t]) + Earned(1)
          BY <1>2, <1>5, Grows
        <5> QED BY <2>1, <5>1, <5>2
      <4>3. Level = Capped(c) /\ Level' = Capped(c + Earned(1))
        BY <1>1, <1>2, <1>4, <4>1, <4>2, LevelInCall, LevelInNextCall DEF Capped
      <4> HIDE DEF c
      <4> QED BY <2>1, <4>2, <4>3, CappedMonotone
    <3>2. CASE ~\E t \in Thread : InCall(t)
      BY <1>2, <1>5, <3>2, Grows, LevelIdle
    <3> QED BY <3>1, <3>2
  <2>3. Bucket!Fill
    BY <1>1, <1>3, <2>1, <2>2 DEF Bucket!Fill, Bucket!MaxLevel, Capped, Full, MaxBalance, fields
  <2> QED BY <2>3
<1>6. CASE SetBack
  <2>1. Level' \in Int /\ Level' <= Level
    <3>1. CASE \E t \in Thread : InCall(t)
      <4>1. PICK t \in Thread : InCall(t)
        BY <3>1
      <4>2. /\ Left(t)' = Left(t) /\ Left(t) \in Int
            /\ Earned(clock - now[t])' \in Int /\ Earned(clock - now[t])' <= Earned(clock - now[t])
            /\ Earned(clock - now[t]) \in Int
        BY <1>2, <1>6, LeftInt, EarnedInt, Shrinks
      <4>3. /\ Level = Capped(Left(t) + Earned(clock - now[t]))
            /\ Level' = Capped(Left(t) + Earned(clock - now[t])')
        BY <1>1, <1>2, <1>4, <4>1, <4>2, LevelInCall, LevelInNextCall DEF Capped
      <4>4. Full \in Nat
        BY FullCost
      <4> QED BY <4>2, <4>3, <4>4 DEF Capped
    <3>2. CASE ~\E t \in Thread : InCall(t)
      BY <1>2, <1>6, <3>2, Shrinks, LevelIdle
    <3> QED BY <3>1, <3>2
  <2>2. Bucket!Drain
    BY <1>1, <1>3, <2>1 DEF Bucket!Drain, fields
  <2> QED BY <2>2
<1> QED
  BY <1>5, <1>6

\* Behind the sampler's lock check_credit takes effect at once, on a balance that has grown all
\* the time: the limiter implements the leaky bucket.
THEOREM RefinesBucket == Guarded => (Spec => ImplementsBucket)
<1> SUFFICES ASSUME Guarded PROVE Spec => ImplementsBucket
  OBVIOUS
<1>1. Init => Bucket!Init
  <2> SUFFICES ASSUME Init PROVE Bucket!Init
    OBVIOUS
  <2>1. \A t \in Thread : ~InCall(t)
    BY DEF Init, InCall
  <2>2. TypeOK /\ Earned(clock - lastTick) = 0
    BY TypeInit, EarnedNothing DEF Init, TypeOK, FieldType
  <2>3. Full = MaxBalance(rate) /\ MaxBalance(rate) \in Nat
    BY <2>2, MaxBalanceNat DEF Init, Full, TypeOK, FieldType
  <2>4. Level = balance
    BY <2>1, <2>2, <2>3, LevelIdle DEF Init, IdleBalance, Capped
  <2>5. Answer = [t \in Thread |-> "none"]
    BY <2>1 DEF Answer
  <2> QED BY <2>4, <2>5 DEF Init, Bucket!Init, Bucket!MaxLevel, MaxBalance
<1>2. RateInv /\ [Next]_vars => [Bucket!Next]_(Bucket!vars)
  <2> SUFFICES ASSUME RateInv, [Next]_vars PROVE [Bucket!Next]_(Bucket!vars)
    OBVIOUS
  <2>1. TypeOK /\ LockInv /\ LocalInv
    BY DEF RateInv
  <2>2. ASSUME NEW r \in Rate, Update(r) PROVE Bucket!Next
    BY <2>1, <2>2, BucketUpdateStep DEF Bucket!Next
  <2>3. ASSUME Tick \/ SetBack PROVE Bucket!Next
    BY <2>1, <2>3, BucketClockStep DEF Bucket!Next
  <2>4. ASSUME Mark \/ UNCHANGED vars PROVE UNCHANGED Bucket!vars
    <3>1. UNCHANGED <<clock, rate, balance, scale, lastTick, pc, now, elapsed>>
      BY <2>4 DEF Mark, vars, fields, threads
    <3>2. Level' = Level /\ Answer' = Answer
      BY <3>1 DEF Level, Answer, InCall, Left, Worth, IdleBalance, Capped, Full, Cost, Earned
    <3> QED BY <3>1, <3>2 DEF Bucket!vars
  <2> QED BY <2>1, <2>2, <2>3, <2>4, BucketCallStep DEF Next
<1>3. RateInv /\ [Next]_vars => RateInv'
  BY RateStep
<1> QED
  BY <1>1, <1>2, <1>3, RateInit, PTL DEF Spec, ImplementsBucket, Bucket!Spec
=============================================================================
