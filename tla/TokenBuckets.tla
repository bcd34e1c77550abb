---------------------------- MODULE TokenBuckets ----------------------------
(***************************************************************************)
(* What a rate limiter promises its callers: each key has a budget of      *)
(* Limit calls per Window units of time.  A call that is let through       *)
(* spends one, and no key earns faster than time passes, whatever table    *)
(* of buckets, eviction or clock the limiter has.  Budgets are counted in  *)
(* Window-ths of a call, of which a unit of time earns Limit.              *)
(***************************************************************************)
EXTENDS Integers

CONSTANTS Keys, Limit, Window

VARIABLES
  level,    \* what each key may still spend
  elapsed   \* how much time has passed

Full == Limit * Window

Capped(n) == IF n < Full THEN n ELSE Full

Init == level = [k \in Keys |-> Full] /\ elapsed = 0

\* A call that is let through costs its key, and nobody else, one call.
Spend(k) ==
  /\ level[k] >= Window
  /\ level' = [level EXCEPT ![k] = @ - Window]
  /\ UNCHANGED elapsed

\* Budgets grow at most with the time that passes, and may be forfeited.
Pass ==
  /\ elapsed' >= elapsed
  /\ \A k \in Keys : level'[k] <= Capped(level[k] + Limit * (elapsed' - elapsed))

Next == (\E k \in Keys : Spend(k)) \/ Pass

Spec == Init /\ [][Next]_<<level, elapsed>>
=============================================================================
