---------------------------- MODULE RateLimiter -----------------------------
(***************************************************************************)
(* service.py RateLimiter: one token bucket per key, at most MaxKeys of    *)
(* them, in the order they were last used.  The clock is the host's wall   *)
(* clock, which may be set back.                                           *)
(***************************************************************************)
EXTENDS Integers, SequencesExt

CONSTANTS
  Keys, Limit, Window, MaxKeys,
  Steps,        \* how the clock may move; a negative step sets it back
  MaxElapsed    \* bound on the time that passes

ASSUME LimiterAssumption ==
  /\ {Limit, Window, MaxKeys} \subseteq Nat \ {0}
  /\ Steps \subseteq Int
  /\ MaxElapsed \in Nat

VARIABLES
  buckets,   \* [key, tokens, updated], least recently used first
  now,       \* what the clock says
  elapsed    \* history: the time that really passed

vars == <<buckets, now, elapsed>>

Full == Limit * Window

Bucket == [key : Keys, tokens : 0..Full, updated : -MaxElapsed..MaxElapsed]

TypeOK ==
  /\ buckets \in Seq(Bucket)
  /\ Len(buckets) <= MaxKeys
  /\ \A i, j \in DOMAIN buckets : buckets[i].key = buckets[j].key => i = j
  /\ now \in -MaxElapsed..elapsed
  /\ elapsed \in 0..MaxElapsed

Init == buckets = <<>> /\ now = 0 /\ elapsed = 0

\* The call drops the buckets at the front that had the time to refill, up to the first that had not.
Stale(b) == now - b.updated >= Window
Swept ==
  LET fresh == {i \in DOMAIN buckets : ~Stale(buckets[i])}
  IN  IF fresh = {} THEN <<>>
      ELSE SubSeq(buckets, CHOOSE i \in fresh : \A j \in fresh : i <= j, Len(buckets))

\* A bucket's tokens now; a key without a bucket has its whole budget.
Refilled(b) ==
  LET gained == IF now > b.updated THEN Limit * (now - b.updated) ELSE 0
  IN  IF b.tokens + gained < Full THEN b.tokens + gained ELSE Full
Places(bs, k) == {i \in DOMAIN bs : bs[i].key = k}
Level(bs, k) ==
  IF Places(bs, k) = {} THEN Full ELSE Refilled(bs[CHOOSE i \in Places(bs, k) : TRUE])

\* Mistake: a used bucket keeps its place in the order.
StoreInPlace(k, tokens) ==
  LET used == [key |-> k, tokens |-> tokens, updated |-> now]
  IN  IF Places(Swept, k) # {}
        THEN [i \in DOMAIN Swept |-> IF Swept[i].key = k THEN used ELSE Swept[i]]
        ELSE Append(Swept, used)

\* The bucket is written back and becomes the most recently used.
Others(bs, k) ==
  IF Places(bs, k) = {} THEN bs ELSE RemoveAt(bs, CHOOSE i \in Places(bs, k) : TRUE)
Store(k, tokens) ==
  Append(Others(Swept, k), [key |-> k, tokens |-> tokens, updated |-> now])

\* Mistake: one bucket too many before the table counts as full.
CrowdedTooLate(k) ==
  /\ Places(Swept, k) = {}
  /\ Len(Swept) > MaxKeys

\* At capacity a key without a bucket is refused; no bucket is evicted for it.
Crowded(k) ==
  /\ Places(Swept, k) = {}
  /\ Len(Swept) >= MaxKeys

\* Mistake: the least recently used bucket is evicted to admit the new key.
EvictOldest(k) ==
  /\ Crowded(k)
  /\ buckets' = Append(Tail(Swept), [key |-> k, tokens |-> Full - Window, updated |-> now])
  /\ UNCHANGED <<now, elapsed>>

RefuseNew(k) == Crowded(k) /\ buckets' = Swept /\ UNCHANGED <<now, elapsed>>

Admit(k) ==
  /\ ~Crowded(k)
  /\ Level(Swept, k) >= Window
  /\ buckets' = Store(k, Level(Swept, k) - Window)
  /\ UNCHANGED <<now, elapsed>>

Throttle(k) ==
  /\ ~Crowded(k)
  /\ Level(Swept, k) < Window
  /\ buckets' = Store(k, Level(Swept, k))
  /\ UNCHANGED <<now, elapsed>>

allow(k) == Admit(k) \/ Throttle(k) \/ RefuseNew(k)

ClockMoves ==
  \E d \in Steps :
    /\ now + d \in -MaxElapsed..MaxElapsed
    /\ now' = now + d
    /\ elapsed' = elapsed + (IF d > 0 THEN d ELSE 0)
    /\ elapsed' <= MaxElapsed
    /\ UNCHANGED buckets

Next == ClockMoves \/ \E k \in Keys : allow(k)

Spec == Init /\ [][Next]_vars
-----------------------------------------------------------------------------
(* No key spends more than time earned it: "active buckets are never       *)
(* evicted to admit a new key", so that neither key churn at capacity nor  *)
(* the sweep, nor a clock that is set back and forward again, resets or    *)
(* raises a budget.  The limiter implements TokenBuckets.                  *)
Budgets == INSTANCE TokenBuckets WITH level <- [k \in Keys |-> Level(buckets, k)]
KeepsBudgets == Budgets!Spec

(* "Idle keys expire after a full refill": once a call has been decided,   *)
(* no bucket that had a Window to refill still takes up room.  It takes a  *)
(* clock that was never set back (then now is the time that passed), since *)
(* the sweep stops at the first bucket that is fresh.                      *)
IdleKeysExpire ==
  [][(now = elapsed /\ \E k \in Keys : allow(k)) =>
       \A i \in DOMAIN buckets' : now - buckets'[i].updated < Window]_vars
=============================================================================
