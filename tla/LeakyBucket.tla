---------------------------- MODULE LeakyBucket ----------------------------
(***************************************************************************)
(* What jaeger_client.rate_limiter.RateLimiter promises behind a lock: a   *)
(* bucket that fills all the time, and calls that take effect at once.     *)
(* "If the balance exceeds the cost of the item, the item is purchased and *)
(* the balance reduced [...].  Otherwise the balance is unchanged": a call *)
(* is decided in one step, and what it finds is what has come in by then,  *)
(* up to the maximum.                                                      *)
(***************************************************************************)
EXTENDS Integers

CONSTANTS Thread, Item, Rate

VARIABLES
  rate,
  level,      \* what is in the bucket, as a fraction with the denominator scale
  scale,
  answer      \* answer[t]: what the call of thread t was told, "none" outside of a call

vars == <<rate, level, scale, answer>>

MaxLevel(r) == IF r > Item THEN r ELSE Item

Init ==
  /\ rate \in Rate /\ scale = 1 /\ level \in 0 .. MaxLevel(rate) - 1
  /\ answer = [t \in Thread |-> "none"]

Buy(t) ==
  /\ answer[t] = "none" /\ level >= Item * scale
  /\ level' = level - Item * scale
  /\ answer' = [answer EXCEPT ![t] = "bought"]
  /\ UNCHANGED <<rate, scale>>

Refuse(t) ==
  /\ answer[t] = "none" /\ level < Item * scale
  /\ answer' = [answer EXCEPT ![t] = "refused"]
  /\ UNCHANGED <<rate, level, scale>>

Return(t) ==
  /\ answer' = [answer EXCEPT ![t] = "none"]
  /\ UNCHANGED <<rate, level, scale>>

Fill ==
  /\ level' = IF level + rate * scale > MaxLevel(rate) * scale THEN MaxLevel(rate) * scale
              ELSE level + rate * scale
  /\ UNCHANGED <<rate, scale, answer>>

\* The clock is set back.
Drain ==
  /\ level' \in Int /\ level' <= level
  /\ UNCHANGED <<rate, scale, answer>>

\* "The new balance should be proportional to the old balance."
Resize(r) ==
  /\ rate' = r
  /\ level' = MaxLevel(r) * level /\ scale' = scale * MaxLevel(rate)
  /\ UNCHANGED answer

Next ==
  \/ (\E t \in Thread : Buy(t) \/ Refuse(t) \/ Return(t))
  \/ Fill \/ Drain \/ (\E r \in Rate : Resize(r))

Spec == Init /\ [][Next]_vars
=============================================================================
