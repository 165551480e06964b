---------------------------- MODULE RateLimiter ----------------------------
(***************************************************************************)
(* jaeger_client.rate_limiter.RateLimiter, as RateLimitingSampler uses it: *)
(* a balance that grows with the time of the wall clock, up to a maximum,  *)
(* and pays for one trace at a time.                                       *)
(*                                                                         *)
(* The limiter has no lock of its own.  Behind a RemoteControlledSampler   *)
(* its callers hold that sampler's lock, and the answers of the agent      *)
(* change its rate; alone, as config.py builds it for "ratelimiting", any  *)
(* thread may call it, and a call is a row of reads and writes of its      *)
(* fields between which others run.  Guarded says which of the two.        *)
(* Item units of a credit pay for a trace, and balances are fractions of    *)
(* units, as the floats of the code are: scale is their denominator.       *)
(***************************************************************************)
EXTENDS Integers

CONSTANTS
  Thread,
  Guarded,      \* do callers hold RemoteControlledSampler.lock?
  Item,         \* item_cost, 1.0
  Rate,         \* the rates there may be, in units per second
  MaxClock,     \* bound: the time the clock reaches
  MaxSetBack,   \* bound: how often the clock is set back
  MaxUpdate     \* bound: how often the rate is changed

ASSUME RateLimiterAssumption ==
  /\ Guarded \in BOOLEAN /\ Item \in Nat \ {0} /\ Rate \subseteq Nat
  /\ MaxClock \in Nat /\ MaxSetBack \in Nat /\ MaxUpdate \in Nat

VARIABLES
  clock,      \* time.time()
  rate,       \* self.credits_per_second
  balance,    \* self.balance, times scale
  scale,      \* the denominator of balance and read
  lastTick,   \* self.last_tick
  holder,     \* the threads in a call; with a lock, at most one
  pc,         \* pc[t]: what thread t does next in check_credit
  now,        \* now[t]: current_time, 0 outside of a call
  elapsed,    \* elapsed[t]: elapsed_time, 0 outside of a call
  read,       \* read[t]: the balance that += or -= has read, times scale, 0 outside of a call
  setBacks,   \* how often the clock was set back
  updates,    \* how often the rate was changed
  sold,       \* history: the traces paid for in a window of time
  allowed,    \* history: the credits that window allows
  waited,     \* history: seconds since a trace was last paid for
  slowest,    \* history: the lowest rate since then
  setBack,    \* history: was the clock set back since the time that call read?
  owed        \* history: owed[t]: was a trace due when t read the clock in this call?

fields  == <<rate, balance, scale, lastTick>>
threads == <<holder, pc, now, elapsed, read>>
bounds  == <<setBacks, updates>>
window  == <<sold, allowed>>
pause   == <<waited, slowest, setBack>>
vars == <<clock, fields, threads, bounds, window, pause, owed>>

\* max_balance, which RateLimitingSampler._init derives from the rate.
MaxBalance(r) == IF r > Item THEN r ELSE Item

\* What pays for a trace, the maximum, and what some seconds are worth, in fractions.
Cost == Item * scale
Full == MaxBalance(rate) * scale
Earned(seconds) == seconds * rate * scale

Capped(credits) == IF credits > Full THEN Full ELSE credits

\* The balance starts anywhere below its maximum.
Init ==
  /\ clock = 0 /\ lastTick = 0 /\ rate \in Rate /\ balance \in 0 .. MaxBalance(rate) - 1 /\ scale = 1
  /\ holder = {} /\ pc = [t \in Thread |-> "idle"]
  /\ now = [t \in Thread |-> 0] /\ elapsed = [t \in Thread |-> 0] /\ read = [t \in Thread |-> 0]
  /\ setBacks = 0 /\ updates = 0
  /\ sold = 0 /\ allowed = MaxBalance(rate)
  /\ waited = 0 /\ slowest = rate /\ setBack = FALSE
  /\ owed = [t \in Thread |-> FALSE]

-----------------------------------------------------------------------------
(* check_credit, by thread t. *)

Goto(t, next) == pc' = [pc EXCEPT ![t] = next]

\* check_credit returns; its local variables are gone.
Return(t) ==
  /\ Goto(t, "idle") /\ holder' = holder \ {t}
  /\ now' = [now EXCEPT ![t] = 0] /\ elapsed' = [elapsed EXCEPT ![t] = 0]
  /\ read' = [read EXCEPT ![t] = 0] /\ owed' = [owed EXCEPT ![t] = FALSE]

\* Mutant: the lock is not taken.
Start_Unlocked(t) ==
  /\ pc[t] = "idle"
  /\ holder' = holder \cup {t}
  /\ Goto(t, "clock")
  /\ UNCHANGED <<clock, fields, now, elapsed, read, bounds, window, pause, owed>>

Start(t) ==
  /\ pc[t] = "idle"
  /\ Guarded => holder = {}
  /\ holder' = holder \cup {t}
  /\ Goto(t, "clock")
  /\ UNCHANGED <<clock, fields, now, elapsed, read, bounds, window, pause, owed>>

\* What the time since the last trace is worth at the lowest rate there was.
Pace == IF slowest < Item THEN slowest ELSE Item
Due == waited * Pace >= Item

ReadClock(t) ==
  /\ pc[t] = "clock" /\ Goto(t, "elapse")
  /\ now' = [now EXCEPT ![t] = clock]
  /\ owed' = [owed EXCEPT ![t] = Due]
  /\ UNCHANGED <<clock, fields, holder, elapsed, read, bounds, window, pause>>

ReadLastTick(t) ==
  /\ pc[t] = "elapse" /\ Goto(t, "tick")
  /\ elapsed' = [elapsed EXCEPT ![t] = now[t] - lastTick]
  /\ UNCHANGED <<clock, fields, holder, now, read, bounds, window, pause, owed>>

WriteLastTick(t) ==
  /\ pc[t] = "tick" /\ Goto(t, "balance")
  /\ lastTick' = now[t]
  /\ UNCHANGED <<clock, rate, balance, scale, holder, now, elapsed, read, bounds, window, pause, owed>>

ReadBalance(t, next) ==
  /\ Goto(t, next)
  /\ read' = [read EXCEPT ![t] = balance]
  /\ UNCHANGED <<clock, fields, holder, now, elapsed, bounds, window, pause, owed>>

Refill(t) ==
  /\ pc[t] = "add" /\ Goto(t, "cap")
  /\ balance' = read[t] + Earned(elapsed[t])
  /\ UNCHANGED <<clock, rate, scale, lastTick, holder, now, elapsed, read, bounds, window, pause, owed>>

\* Mutant: no maximum.
Overflows_Never == FALSE

Overflows == balance > Full

CompareMax(t) ==
  /\ pc[t] = "cap"
  /\ (Overflows /\ Goto(t, "clip")) \/ (~Overflows /\ Goto(t, "compare"))
  /\ UNCHANGED <<clock, fields, holder, now, elapsed, read, bounds, window, pause, owed>>

Clip(t) ==
  /\ pc[t] = "clip" /\ Goto(t, "compare")
  /\ balance' = Full
  /\ UNCHANGED <<clock, rate, scale, lastTick, holder, now, elapsed, read, bounds, window, pause, owed>>

Afford(t) ==
  /\ pc[t] = "compare" /\ balance >= Cost
  /\ Goto(t, "pay")
  /\ UNCHANGED <<clock, fields, holder, now, elapsed, read, bounds, window, pause, owed>>

Refuse(t) ==
  /\ pc[t] = "compare" /\ balance < Cost
  /\ Return(t)
  /\ UNCHANGED <<clock, fields, bounds, window, pause>>

Pay(t) ==
  /\ pc[t] = "subtract" /\ Return(t)
  /\ balance' = read[t] - Cost
  /\ sold' = sold + 1
  /\ waited' = 0 /\ slowest' = rate /\ setBack' = (clock < lastTick)
  /\ UNCHANGED <<clock, rate, scale, lastTick, bounds, allowed>>

CheckCredit(t) ==
  \/ Start(t) \/ ReadClock(t) \/ ReadLastTick(t) \/ WriteLastTick(t)
  \/ (pc[t] = "balance" /\ ReadBalance(t, "add"))
  \/ Refill(t) \/ CompareMax(t) \/ Clip(t) \/ Afford(t) \/ Refuse(t)
  \/ (pc[t] = "pay" /\ ReadBalance(t, "subtract"))
  \/ Pay(t)

-----------------------------------------------------------------------------
(* An answer of the agent, applied under the lock by the loop thread. *)

\* Mutant: the balance starts anew.
Rescaled_Zero(credits, r) == 0

\* "The new balance should be proportional to the old balance": what it is divided by goes to scale.
Rescaled(credits, r) == MaxBalance(r) * credits

\* RateLimiter.update.
ChangeRate(r) ==
  /\ balance' = Rescaled(Capped(balance + Earned(clock - lastTick)), r)
  /\ scale' = scale * MaxBalance(rate)
  /\ lastTick' = clock /\ rate' = r

\* RateLimitingSampler.update, which leaves alone a limiter that has the rate already.
Update(r) ==
  /\ Guarded /\ holder = {} /\ r # rate
  /\ updates < MaxUpdate /\ updates' = updates + 1
  /\ ChangeRate(r)
  /\ slowest' = IF r < slowest THEN r ELSE slowest
  /\ allowed' = allowed + (IF MaxBalance(r) > MaxBalance(rate) THEN MaxBalance(r) - MaxBalance(rate) ELSE 0)
  /\ UNCHANGED <<clock, threads, setBacks, sold, waited, setBack, owed>>

-----------------------------------------------------------------------------
(* The clock, and the window of time that is looked at. *)

Tick ==
  /\ clock < MaxClock
  /\ clock' = clock + 1 /\ waited' = waited + 1
  /\ allowed' = allowed + rate
  /\ UNCHANGED <<fields, threads, bounds, sold, slowest, setBack, owed>>

\* time.time() is no monotonic clock.
SetBack ==
  /\ setBacks < MaxSetBack /\ setBacks' = setBacks + 1
  /\ clock' \in 0 .. clock - 1 /\ setBack' = TRUE
  /\ UNCHANGED <<fields, threads, updates, window, waited, slowest, owed>>

\* A window may begin at any moment between two calls.
Mark ==
  /\ holder = {}
  /\ sold' = 0 /\ allowed' = MaxBalance(rate)
  /\ UNCHANGED <<clock, fields, threads, bounds, pause, owed>>

Next ==
  \/ (\E t \in Thread : CheckCredit(t)) \/ (\E r \in Rate : Update(r))
  \/ Tick \/ SetBack \/ Mark

Spec == Init /\ [][Next]_vars
-----------------------------------------------------------------------------
(* Properties. *)

FieldType ==
  /\ clock \in Nat /\ lastTick \in Nat /\ rate \in Rate /\ balance \in Int /\ scale \in Nat \ {0}
  /\ setBacks \in Nat /\ updates \in Nat
  /\ sold \in Nat /\ allowed \in Nat /\ waited \in Nat /\ slowest \in Rate
CallType ==
  /\ holder \subseteq Thread
  /\ pc \in [Thread -> {"idle", "clock", "elapse", "tick", "balance", "add", "cap", "clip",
                        "compare", "pay", "subtract"}]
  /\ now \in [Thread -> Nat] /\ elapsed \in [Thread -> Int] /\ read \in [Thread -> Int]
FlagType == setBack \in BOOLEAN /\ owed \in [Thread -> BOOLEAN]

\* Type invariant.
TypeOK == FieldType /\ CallType /\ FlagType

\* "Samples at most max_traces_per_second": in any window of time the traces paid for are at
\* most a full balance and what the rates in force have added since, whatever the clock does
\* and the rate becomes meanwhile.
RateKept == sold * Item <= allowed

\* "Every operation is sampled at least once in a time interval defined by the lower_bound":
\* no trace is refused when at the lowest rate since the last one a trace has become due,
\* also when the rate was changed in between; unless the clock was set back.
LowerBoundMet == [][\A t \in Thread : Refuse(t) /\ ~setBack => ~owed[t]]_vars

-----------------------------------------------------------------------------
(* What the callers see of a limiter behind a lock, as the variables of LeakyBucket: a call *)
(* is decided when it has read the clock, by a balance that it has yet to compute.          *)

InCall(t) == pc[t] \notin {"idle", "clock"}

\* The balance as of the time that call t has read.
Worth(t) ==
  IF pc[t] \in {"elapse", "tick"} THEN Capped(balance + Earned(now[t] - lastTick))
  ELSE IF pc[t] \in {"balance", "add"} THEN Capped(balance + Earned(elapsed[t]))
  ELSE Capped(balance)

\* What call t leaves of it.
Left(t) == IF Worth(t) >= Cost THEN Worth(t) - Cost ELSE Worth(t)

IdleBalance == Capped(balance + Earned(clock - lastTick))
Level ==
  IF \E t \in Thread : InCall(t)
  THEN LET t == CHOOSE t \in Thread : InCall(t) IN Capped(Left(t) + Earned(clock - now[t]))
  ELSE IdleBalance
Answer ==
  [t \in Thread |-> IF ~InCall(t) THEN "none" ELSE IF Worth(t) >= Cost THEN "bought" ELSE "refused"]

Bucket == INSTANCE LeakyBucket WITH level <- Level, answer <- Answer

\* Behind a lock the limiter implements LeakyBucket: check_credit is atomic, and the balance that
\* is computed at each call is the one that would have grown all the time.
ImplementsBucket == Bucket!Spec
=============================================================================
