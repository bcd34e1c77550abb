------------------------ MODULE AuthenticationProofs ------------------------
(***************************************************************************)
(* Authentication accounts for its capacity and its budgets, whatever the  *)
(* numbers of calls, peers, workers and verifier threads.                  *)
(***************************************************************************)
EXTENDS Authentication, FiniteSetTheorems, TLAPS

Budgets ==
  [source : [Sources -> 0..SourceLimit], pre_auth : 0..PreAuthLimit,
   worker : [Workers -> 0..WorkerLimit], global : 0..GlobalLimit, audit : 0..AuditLimit]
Tally == [pre_auth : [Sources -> 0..PreAuthLimit], global : [Workers -> 0..GlobalLimit]]

\* What was drawn of a shared budget is gone from it, and from the budget of whoever drew it.
Balanced(b, d) ==
  /\ b \in Budgets /\ d \in Tally
  /\ \A s \in Sources : d.pre_auth[s] + b.source[s] <= SourceLimit /\ d.pre_auth[s] + b.pre_auth <= PreAuthLimit
  /\ \A w \in Workers : d.global[w] + b.worker[w] <= WorkerLimit /\ d.global[w] + b.global <= GlobalLimit

\* A call has a thread while it waits for one that runs, nobody else has that one, and it has a
\* worker by the time its worker is looked at.
CallsKeepTheirs ==
  /\ calls \in [Calls -> Call]
  /\ \A c \in Calls :
       /\ calls[c].thread # NoThread => calls[c].at = "verifying"
       /\ calls[c].at = "verifying" => calls[c].thread \in verifying
       /\ calls[c].at \in {"existing", "approve"} => calls[c].worker \in Workers
  /\ \A c, d \in Calls : calls[c].thread = calls[d].thread /\ calls[c].thread # NoThread => c = d

Active == {c \in Calls : calls[c].at \in Inside}

CallersAreCounted == active_auth = Cardinality(Active) /\ active_auth \in 0..MaxAuthConcurrency

ThreadsAreCounted ==
  /\ verifying \subseteq Threads /\ IsFiniteSet(verifying)
  /\ slots = MaxVerifications - Cardinality(verifying) /\ slots \in 0..MaxVerifications

AuthInv ==
  /\ CallsKeepTheirs /\ CallersAreCounted /\ ThreadsAreCounted /\ Balanced(budgets, drawn)
  /\ refills \in 0..MaxRefills

USE AdmissionAssumption, CallersAssumption, RefillAssumption
-----------------------------------------------------------------------------
(* Budgets.                                                                *)

\* Budgets start full and undrawn, and a refill makes them so again.
LEMMA FullIsBalanced == Balanced(Full, Undrawn)
<1>1. Full \in Budgets
  BY DEF Full, Budgets
<1>2. Undrawn \in Tally
  BY DEF Undrawn, Tally
<1> QED
  BY <1>1, <1>2 DEF Balanced, Full, Undrawn

\* An arriving call takes one of its peer's budget and one of the shared one.
LEMMA ChargedIsBalanced ==
  ASSUME NEW s \in Sources, Balanced(budgets, drawn), Passes(s), Draws(s)
  PROVE  Balanced(Charged(s), drawn')
<1> DEFINE left == Charged(s)
<1>1. /\ left \in Budgets /\ left.source = [budgets.source EXCEPT ![s] = @ - 1]
      /\ left.pre_auth = budgets.pre_auth - 1 /\ left.worker = budgets.worker /\ left.global = budgets.global
  <2>1. budgets \in Budgets
    BY DEF Balanced
  <2>2. [budgets.source EXCEPT ![s] = @ - 1] \in [Sources -> 0..SourceLimit] /\ budgets.pre_auth - 1 \in 0..PreAuthLimit
    BY <2>1 DEF Budgets, Passes
  <2> QED
    BY <2>1, <2>2 DEF Budgets, Charged
<1>2. drawn.pre_auth[s] + 1 \in 0..PreAuthLimit
  BY DEF Balanced, Budgets, Tally, Passes
<1>3. /\ drawn' \in Tally /\ drawn'.pre_auth = [drawn.pre_auth EXCEPT ![s] = @ + 1]
      /\ drawn'.global = drawn.global
  BY <1>2 DEF Balanced, Tally, Draws
<1> HIDE DEF left
<1>4. \A p \in Sources : drawn'.pre_auth[p] + left.source[p] <= SourceLimit /\ drawn'.pre_auth[p] + left.pre_auth <= PreAuthLimit
  BY <1>1, <1>3 DEF Balanced, Budgets, Tally
<1>5. Balanced(left, drawn')
  BY <1>1, <1>3, <1>4 DEF Balanced
<1> QED
  BY <1>5 DEF left

\* An audit row is paid for from a budget of its own.
LEMMA SampledIsBalanced ==
  ASSUME NEW b, NEW d, Balanced(b, d)
  PROVE  Balanced(Sampled(b), d)
<1> DEFINE left == Sampled(b)
<1>1. /\ left \in Budgets /\ left.source = b.source /\ left.pre_auth = b.pre_auth
      /\ left.worker = b.worker /\ left.global = b.global
  BY DEF Balanced, Budgets, Sampled
<1> HIDE DEF left
<1>2. Balanced(left, d)
  BY <1>1 DEF Balanced
<1> QED
  BY <1>2 DEF left

\* A peer, and a worker, may be charged without drawing on the others.
LEMMA SpentIsBalanced ==
  ASSUME Balanced(budgets, drawn)
  PROVE  /\ \A s \in Sources : budgets.source[s] > 0 => Balanced([budgets EXCEPT !.source[s] = @ - 1], drawn)
         /\ \A w \in Workers : budgets.worker[w] > 0 => Balanced([budgets EXCEPT !.worker[w] = @ - 1], drawn)
<1>1. ASSUME NEW s \in Sources, budgets.source[s] > 0
      PROVE  Balanced([budgets EXCEPT !.source[s] = @ - 1], drawn)
  <2> DEFINE left == [budgets EXCEPT !.source[s] = @ - 1]
  <2>1. /\ left \in Budgets /\ left.source = [budgets.source EXCEPT ![s] = @ - 1]
        /\ left.pre_auth = budgets.pre_auth /\ left.worker = budgets.worker /\ left.global = budgets.global
    BY <1>1 DEF Balanced, Budgets
  <2> HIDE DEF left
  <2>2. Balanced(left, drawn)
    BY <2>1 DEF Balanced, Budgets, Tally
  <2> QED
    BY <2>2 DEF left
<1>2. ASSUME NEW w \in Workers, budgets.worker[w] > 0
      PROVE  Balanced([budgets EXCEPT !.worker[w] = @ - 1], drawn)
  <2> DEFINE left == [budgets EXCEPT !.worker[w] = @ - 1]
  <2>1. /\ left \in Budgets /\ left.worker = [budgets.worker EXCEPT ![w] = @ - 1]
        /\ left.pre_auth = budgets.pre_auth /\ left.source = budgets.source /\ left.global = budgets.global
    BY <1>2 DEF Balanced, Budgets
  <2> HIDE DEF left
  <2>2. Balanced(left, drawn)
    BY <2>1 DEF Balanced, Budgets, Tally
  <2> QED
    BY <2>2 DEF left
<1> QED
  BY <1>1, <1>2

\* A worker's call takes one of its own budget and one of the budget of all.
LEMMA AdmittedIsBalanced ==
  ASSUME NEW w \in Workers, Balanced(budgets, drawn), budgets.worker[w] > 0, budgets.global > 0
  PROVE  Balanced([budgets EXCEPT !.worker[w] = @ - 1, !.global = @ - 1], [drawn EXCEPT !.global[w] = @ + 1])
<1> DEFINE left == [budgets EXCEPT !.worker[w] = @ - 1, !.global = @ - 1]
           sum == [drawn EXCEPT !.global[w] = @ + 1]
<1>1. /\ left \in Budgets /\ left.worker = [budgets.worker EXCEPT ![w] = @ - 1]
      /\ left.global = budgets.global - 1 /\ left.source = budgets.source /\ left.pre_auth = budgets.pre_auth
  <2>1. budgets \in Budgets
    BY DEF Balanced
  <2>2. [budgets.worker EXCEPT ![w] = @ - 1] \in [Workers -> 0..WorkerLimit] /\ budgets.global - 1 \in 0..GlobalLimit
    BY <2>1 DEF Budgets
  <2> QED
    BY <2>1, <2>2 DEF Budgets
<1>2. drawn.global[w] + 1 \in 0..GlobalLimit
  BY DEF Balanced, Budgets, Tally
<1>3. sum \in Tally /\ sum.global = [drawn.global EXCEPT ![w] = @ + 1] /\ sum.pre_auth = drawn.pre_auth
  BY <1>2 DEF Balanced, Tally
<1> HIDE DEF left, sum
<1>4. \A v \in Workers : sum.global[v] + left.worker[v] <= WorkerLimit /\ sum.global[v] + left.global <= GlobalLimit
  BY <1>1, <1>3 DEF Balanced, Budgets, Tally
<1>5. Balanced(left, sum)
  BY <1>1, <1>3, <1>4 DEF Balanced
<1> QED
  BY <1>5 DEF left, sum
-----------------------------------------------------------------------------
(* Calls.                                                                  *)

\* A call without a thread, wherever it goes, leaves the others what they have.
LEMMA OneCallMoves ==
  ASSUME CallsKeepTheirs, NEW c \in Calls, NEW v \in Call, calls' = [calls EXCEPT ![c] = v], verifying' = verifying,
         v.thread = NoThread, v.at # "verifying", v.at \in {"existing", "approve"} => v.worker \in Workers
  PROVE  CallsKeepTheirs'
  BY DEF CallsKeepTheirs

\* Only the call that moves joins or leaves those inside.
LEMMA OneCallIsCounted ==
  ASSUME CallsKeepTheirs, NEW c \in Calls, NEW v \in Call, calls' = [calls EXCEPT ![c] = v]
  PROVE  /\ IsFiniteSet(Active)
         /\ Cardinality(Active) \in Nat /\ Cardinality(Active') \in Nat
         /\ v.at \in Inside /\ calls[c].at \in Inside => Cardinality(Active') = Cardinality(Active)
         /\ v.at \in Inside /\ calls[c].at \notin Inside => Cardinality(Active') = Cardinality(Active) + 1
         /\ v.at \notin Inside /\ calls[c].at \notin Inside => Cardinality(Active') = Cardinality(Active)
         /\ v.at \notin Inside /\ calls[c].at \in Inside => Cardinality(Active') = Cardinality(Active) - 1
<1>1. IsFiniteSet(Active) /\ Cardinality(Active) \in Nat
  BY FS_Subset, FS_CardinalityType DEF Active
<1>2. \A d \in Calls : calls'[d] = IF d = c THEN v ELSE calls[d]
  BY DEF CallsKeepTheirs
<1>3. v.at \in Inside => Active' = Active \cup {c}
  BY <1>2 DEF Active
<1>4. v.at \notin Inside => Active' = Active \ {c}
  BY <1>2 DEF Active
<1>5. c \in Active <=> calls[c].at \in Inside
  BY DEF Active
<1>6. Cardinality(Active \cup {c}) \in Nat /\ Cardinality(Active \ {c}) \in Nat
  BY <1>1, FS_AddElement, FS_RemoveElement, FS_CardinalityType
<1>7. /\ Cardinality(Active \cup {c}) = IF c \in Active THEN Cardinality(Active) ELSE Cardinality(Active) + 1
      /\ Cardinality(Active \ {c}) = IF c \in Active THEN Cardinality(Active) - 1 ELSE Cardinality(Active)
  BY <1>1, FS_AddElement, FS_RemoveElement
<1> QED
  BY <1>1, <1>3, <1>4, <1>5, <1>6, <1>7

\* A call comes inside, which the counter must allow.
LEMMA Enters ==
  ASSUME AuthInv, NEW c \in Calls, calls[c].at = "idle", active_auth < MaxAuthConcurrency,
         NEW v \in Call, v.at \in Inside, calls' = [calls EXCEPT ![c] = v], active_auth' = active_auth + 1
  PROVE  CallersAreCounted'
<1>1. CallsKeepTheirs /\ active_auth = Cardinality(Active) /\ active_auth \in 0..MaxAuthConcurrency
  BY DEF AuthInv, CallersAreCounted
<1>2. calls[c].at \notin Inside
  BY DEF Inside
<1>3. Cardinality(Active') = Cardinality(Active) + 1
  BY <1>1, <1>2, OneCallIsCounted
<1> QED
  BY <1>1, <1>3 DEF CallersAreCounted

\* A call goes on inside.
LEMMA GoesOn ==
  ASSUME AuthInv, NEW c \in Calls, calls[c].at \in Inside \ {"verifying"},
         NEW at \in Inside \ {"verifying"}, NEW w \in Workers \cup {Nobody},
         at \in {"existing", "approve"} => w \in Workers,
         calls' = [calls EXCEPT ![c] = [calls[c] EXCEPT !.at = at, !.worker = w]],
         UNCHANGED <<active_auth, verifying, slots>>
  PROVE  CallsKeepTheirs' /\ CallersAreCounted' /\ ThreadsAreCounted'
<1> DEFINE v == [calls[c] EXCEPT !.at = at, !.worker = w]
<1>1. calls[c] \in Call /\ calls[c].thread = NoThread
  BY DEF AuthInv, CallsKeepTheirs
<1>2. v \in Call /\ v.at = at /\ v.worker = w /\ v.thread = NoThread
  BY <1>1 DEF Call
<1> HIDE DEF v
<1>3. CallsKeepTheirs'
  BY <1>2, OneCallMoves DEF AuthInv, v
<1>4. CallersAreCounted'
  BY <1>2, OneCallIsCounted DEF AuthInv, CallersAreCounted, v
<1> QED
  BY <1>3, <1>4 DEF AuthInv, ThreadsAreCounted

\* A call leaves, from whichever of its awaits.
LEMMA Leaves ==
  ASSUME AuthInv, NEW c \in Calls, calls[c].at \in Inside,
         calls' = [calls EXCEPT ![c] = Idle], active_auth' = active_auth - 1, UNCHANGED <<slots, verifying>>
  PROVE  CallsKeepTheirs' /\ CallersAreCounted' /\ ThreadsAreCounted'
<1>1. Idle \in Call /\ Idle.at = "idle" /\ Idle.thread = NoThread
  BY DEF Idle, Call
<1>2. CallsKeepTheirs'
  BY <1>1, OneCallMoves DEF AuthInv
<1>3. CallersAreCounted'
  <2>1. CallsKeepTheirs /\ active_auth = Cardinality(Active) /\ active_auth \in 0..MaxAuthConcurrency
    BY DEF AuthInv, CallersAreCounted
  <2>2. Idle.at \notin Inside
    BY <1>1 DEF Inside
  <2>3. Cardinality(Active') = Cardinality(Active) - 1 /\ Cardinality(Active') \in Nat
    BY <1>1, <2>1, <2>2, OneCallIsCounted
  <2> QED
    BY <2>1, <2>3 DEF CallersAreCounted
<1> QED
  BY <1>2, <1>3 DEF AuthInv, ThreadsAreCounted

\* A call moves between the awaits of one that is not counted.
LEMMA StaysOutside ==
  ASSUME AuthInv, NEW c \in Calls, calls[c].at \in {"idle", "rejecting"}, NEW at \in {"idle", "rejecting"},
         calls' = [calls EXCEPT ![c].at = at], UNCHANGED <<active_auth, verifying, slots>>
  PROVE  CallsKeepTheirs' /\ CallersAreCounted' /\ ThreadsAreCounted'
<1> DEFINE v == [calls[c] EXCEPT !.at = at]
<1>1. calls[c] \in Call /\ calls[c].thread = NoThread
  BY DEF AuthInv, CallsKeepTheirs
<1>2. v \in Call /\ v.at = at /\ v.thread = NoThread
  BY <1>1 DEF Call
<1>3. calls' = [calls EXCEPT ![c] = v]
  OBVIOUS
<1> HIDE DEF v
<1>4. CallsKeepTheirs'
  BY <1>2, <1>3, OneCallMoves DEF AuthInv
<1>5. CallersAreCounted'
  BY <1>2, <1>3, OneCallIsCounted DEF AuthInv, CallersAreCounted, Inside
<1> QED
  BY <1>4, <1>5 DEF AuthInv, ThreadsAreCounted
-----------------------------------------------------------------------------
(* Every step keeps the invariant.                                         *)

\* A call goes on with the worker it has.
LEMMA KeepsItsWorker ==
  ASSUME AuthInv, NEW c \in Calls, calls[c].at \in Inside \ {"verifying"}, NEW at \in Inside \ {"verifying"},
         at \in {"existing", "approve"} => calls[c].worker \in Workers,
         calls' = [calls EXCEPT ![c].at = at], UNCHANGED <<active_auth, verifying, slots>>
  PROVE  CallsKeepTheirs' /\ CallersAreCounted' /\ ThreadsAreCounted'
<1>1. calls[c] \in Call
  BY DEF AuthInv, CallsKeepTheirs
<1>2. calls[c].worker \in Workers \cup {Nobody} /\ [calls[c] EXCEPT !.at = at] = [calls[c] EXCEPT !.at = at, !.worker = calls[c].worker]
  BY <1>1 DEF Call
<1>3. calls' = [calls EXCEPT ![c] = [calls[c] EXCEPT !.at = at, !.worker = calls[c].worker]]
  BY <1>2
<1> QED
  BY <1>2, <1>3, GoesOn

\* A rejection inside, audited or not.
LEMMA RejectKeeps ==
  ASSUME AuthInv, NEW c \in Calls, calls[c].at \in Inside \ {"verifying"},
         NEW left, Balanced(left, drawn), RejectWith(c, left)
  PROVE  AuthInv'
<1>1. Balanced(budgets', drawn)
  BY SampledIsBalanced DEF RejectWith
<1>2. CASE budgets.audit > 0
  <2>1. calls' = [calls EXCEPT ![c].at = "auditing"] /\ UNCHANGED <<active_auth, slots, verifying, drawn, refills>>
    BY <1>2 DEF RejectWith
  <2>2. CallsKeepTheirs' /\ CallersAreCounted' /\ ThreadsAreCounted'
    BY <2>1, KeepsItsWorker DEF Inside
  <2> QED
    BY <1>1, <2>1, <2>2 DEF AuthInv
<1>3. CASE ~(budgets.audit > 0)
  BY <1>1, <1>3, Leaves DEF RejectWith, Leave, AuthInv
<1> QED
  BY <1>2, <1>3

\* A verifier starts: a free slot, a free thread.
LEMMA StartKeeps ==
  ASSUME AuthInv, NEW c \in Calls, NEW s \in Sources, NEW t \in Threads, StartVerifier(c, s, t)
  PROVE  AuthInv'
<1> DEFINE v == [Idle EXCEPT !.at = "verifying", !.thread = t]
<1>1. v \in Call /\ v.at \in Inside /\ v.at = "verifying" /\ v.thread = t /\ calls' = [calls EXCEPT ![c] = v]
  <2>1. Idle \in Call
    BY DEF Idle, Call
  <2>2. v \in Call /\ v.at = "verifying" /\ v.thread = t
    BY <2>1 DEF Call, Inside
  <2>3. calls' = [calls EXCEPT ![c] = v]
    BY DEF StartVerifier
  <2> QED
    BY <2>2, <2>3 DEF Inside
<1> HIDE DEF v
<1>2. CallersAreCounted'
  BY <1>1, Enters DEF StartVerifier
<1>3. ThreadsAreCounted'
  <2>1. Cardinality(verifying \cup {t}) = Cardinality(verifying) + 1 /\ IsFiniteSet(verifying \cup {t})
    BY FS_AddElement DEF StartVerifier, AuthInv, ThreadsAreCounted
  <2>2. verifying' = verifying \cup {t} /\ slots' = slots - 1 /\ slots > 0
    BY DEF StartVerifier
  <2>3. Cardinality(verifying) \in Nat
    BY FS_CardinalityType DEF AuthInv, ThreadsAreCounted
  <2> QED
    BY <2>1, <2>2, <2>3 DEF AuthInv, ThreadsAreCounted
<1>4. CallsKeepTheirs'
  <2>1. \A d \in Calls : calls'[d] = IF d = c THEN v ELSE calls[d]
    BY <1>1 DEF AuthInv, CallsKeepTheirs
  <2>2. \A d \in Calls : calls[d].thread # t
    BY DEF AuthInv, CallsKeepTheirs, StartVerifier
  <2>3. calls' \in [Calls -> Call]
    BY <1>1 DEF AuthInv, CallsKeepTheirs
  <2>4. verifying' = verifying \cup {t}
    BY DEF StartVerifier
  <2>5. CallsKeepTheirs
    BY DEF AuthInv
  <2>6. \A d \in Calls :
          /\ calls'[d].thread # NoThread => calls'[d].at = "verifying"
          /\ calls'[d].at = "verifying" => calls'[d].thread \in verifying'
          /\ calls'[d].at \in {"existing", "approve"} => calls'[d].worker \in Workers
    <3>1. v.at = "verifying" /\ v.thread \in verifying'
      BY <1>1, <2>4
    <3> QED
      BY <2>1, <2>4, <2>5, <3>1 DEF CallsKeepTheirs
  <2>7. \A d, e \in Calls : calls'[d].thread = calls'[e].thread /\ calls'[d].thread # NoThread => d = e
    BY <1>1, <2>1, <2>2, <2>5 DEF CallsKeepTheirs
  <2> QED
    BY <2>3, <2>6, <2>7 DEF CallsKeepTheirs
<1>5. Balanced(budgets', drawn')
  BY ChargedIsBalanced DEF StartVerifier, AuthInv
<1> QED
  BY <1>2, <1>3, <1>4, <1>5 DEF AuthInv, StartVerifier

\* A thread ends: its slot is free, and its caller, if it has one, is told.
LEMMA FinishKeeps ==
  ASSUME AuthInv, NEW t \in Threads, Finish(t)
  PROVE  AuthInv'
<1>1. \A c \in Calls : calls'[c] = IF calls[c].thread = t THEN [calls[c] EXCEPT !.at = "verified", !.thread = NoThread]
                                   ELSE calls[c]
  BY DEF Finish
<1>2. \A c \in Calls : calls[c] \in Call
  BY DEF AuthInv, CallsKeepTheirs
<1>3. \A c \in Calls : /\ calls'[c] \in Call /\ calls'[c].worker = calls[c].worker
                       /\ calls[c].thread = t => calls'[c].at = "verified" /\ calls'[c].thread = NoThread
                       /\ calls[c].thread # t => calls'[c] = calls[c]
  <2> SUFFICES ASSUME NEW c \in Calls
               PROVE  /\ calls'[c] \in Call /\ calls'[c].worker = calls[c].worker
                      /\ calls[c].thread = t => calls'[c].at = "verified" /\ calls'[c].thread = NoThread
                      /\ calls[c].thread # t => calls'[c] = calls[c]
    OBVIOUS
  <2>1. calls[c] \in Call
    BY <1>2
  <2> DEFINE told == [calls[c] EXCEPT !.at = "verified", !.thread = NoThread]
  <2>2. told \in Call /\ told.worker = calls[c].worker /\ told.at = "verified" /\ told.thread = NoThread
    BY <2>1 DEF Call, Inside
  <2>3. calls'[c] = IF calls[c].thread = t THEN told ELSE calls[c]
    BY <1>1
  <2> HIDE DEF told
  <2> QED
    BY <2>1, <2>2, <2>3
<1>4. verifying' = verifying \ {t} /\ slots' = slots + 1 /\ t \in verifying /\ DOMAIN calls' = Calls
      /\ calls' = [c \in Calls |-> calls'[c]] /\ UNCHANGED <<active_auth, budgets, drawn, refills>>
  BY DEF Finish
<1>5. CallsKeepTheirs'
  <2>1. calls' \in [Calls -> Call]
    BY <1>3, <1>4
  <2> QED
    BY <1>3, <1>4, <2>1 DEF AuthInv, CallsKeepTheirs
<1>6. Active' = Active
  <2>1. \A c \in Calls : calls[c].thread = t => calls[c].at = "verifying"
    BY DEF AuthInv, CallsKeepTheirs
  <2> QED
    BY <1>3, <2>1 DEF Active, Inside
<1>7. ThreadsAreCounted'
  <2>1. Cardinality(verifying \ {t}) = Cardinality(verifying) - 1 /\ IsFiniteSet(verifying \ {t})
    BY <1>4, FS_RemoveElement DEF AuthInv, ThreadsAreCounted
  <2>2. Cardinality(verifying) \in Nat /\ Cardinality(verifying \ {t}) \in Nat
    BY <2>1, FS_CardinalityType DEF AuthInv, ThreadsAreCounted
  <2> QED
    BY <1>4, <2>1, <2>2 DEF AuthInv, ThreadsAreCounted
<1> QED
  BY <1>4, <1>5, <1>6, <1>7 DEF AuthInv, CallersAreCounted

\* A call comes inside without a thread.
LEMMA ArrivesInside ==
  ASSUME AuthInv, NEW c \in Calls, calls[c].at = "idle", active_auth < MaxAuthConcurrency,
         NEW v \in Call, v.at \in {"approve", "auditing"}, v.thread = NoThread,
         v.at = "approve" => v.worker \in Workers,
         calls' = [calls EXCEPT ![c] = v], active_auth' = active_auth + 1, UNCHANGED <<verifying, slots>>
  PROVE  CallsKeepTheirs' /\ CallersAreCounted' /\ ThreadsAreCounted'
<1>1. CallsKeepTheirs'
  BY OneCallMoves DEF AuthInv
<1>2. CallersAreCounted'
  BY Enters DEF Inside
<1> QED
  BY <1>1, <1>2 DEF AuthInv, ThreadsAreCounted

\* A call arrives.
LEMMA ArrivesKeeps ==
  ASSUME AuthInv, NEW c \in Calls, Arrives(c)
  PROVE  AuthInv'
<1>1. PICK s \in Sources :
        \/ TurnAway(c, s) \/ RejectCredential(c, s) \/ RejectToken(c, s) \/ VerifierBusy(c, s)
        \/ (\E w \in Workers : Recognise(c, s, w))
        \/ \E t \in Threads : StartVerifier(c, s, t)
  BY DEF Arrives
<1>2. Balanced(budgets, drawn) /\ CallsKeepTheirs /\ calls[c] \in Call
  BY DEF AuthInv, CallsKeepTheirs
<1>3. CASE TurnAway(c, s)
  <2>1. Balanced(budgets', drawn')
    <3>1. CASE UNCHANGED <<budgets, drawn>>
      BY <1>2, <3>1 DEF Balanced, Budgets, Tally
    <3>2. CASE budgets.source[s] > 0 /\ budgets' = [budgets EXCEPT !.source[s] = @ - 1] /\ UNCHANGED drawn
      BY <1>2, <3>2, SpentIsBalanced
    <3>3. CASE Passes(s) /\ budgets' = Charged(s) /\ Draws(s)
      BY <1>2, <3>3, ChargedIsBalanced
    <3> QED
      BY <1>3, <3>1, <3>2, <3>3 DEF TurnAway
  <2> QED
    BY <1>3, <2>1 DEF TurnAway, AuthInv, CallsKeepTheirs, CallersAreCounted, ThreadsAreCounted, Active
<1>4. CASE RejectCredential(c, s)
  <2>1. Balanced(budgets', drawn')
    BY <1>2, <1>4, ChargedIsBalanced, SampledIsBalanced DEF RejectCredential
  <2>2. CallsKeepTheirs' /\ CallersAreCounted' /\ ThreadsAreCounted'
    BY <1>4, StaysOutside DEF RejectCredential
  <2> QED
    BY <1>4, <2>1, <2>2 DEF AuthInv, RejectCredential
<1>5. CASE RejectToken(c, s)
  <2>1. Balanced(budgets', drawn')
    BY <1>2, <1>5, ChargedIsBalanced, SampledIsBalanced DEF RejectToken
  <2>2. calls[c].thread = NoThread /\ calls[c].at = "idle"
    BY <1>2, <1>5 DEF CallsKeepTheirs, RejectToken
  <2>3. CASE budgets.audit > 0
    <3> DEFINE v == [calls[c] EXCEPT !.at = "auditing"]
    <3>1. v \in Call /\ v.at = "auditing" /\ v.thread = NoThread
      BY <1>2, <2>2 DEF Call, Inside
    <3>2. calls' = [calls EXCEPT ![c] = v] /\ active_auth' = active_auth + 1 /\ active_auth < MaxAuthConcurrency
          /\ UNCHANGED <<verifying, slots, refills>>
      BY <1>5, <2>3 DEF RejectToken
    <3> HIDE DEF v
    <3>3. CallsKeepTheirs' /\ CallersAreCounted' /\ ThreadsAreCounted'
      BY <2>2, <3>1, <3>2, ArrivesInside
    <3> QED
      BY <2>1, <3>2, <3>3 DEF AuthInv
  <2>4. CASE ~(budgets.audit > 0)
    <3>1. UNCHANGED <<calls, active_auth, slots, verifying, refills>>
      BY <1>5, <2>4 DEF RejectToken
    <3> QED
      BY <2>1, <3>1 DEF AuthInv, CallsKeepTheirs, CallersAreCounted, ThreadsAreCounted, Active
  <2> QED
    BY <2>3, <2>4
<1>6. CASE VerifierBusy(c, s)
  <2>1. Balanced(budgets', drawn')
    BY <1>2, <1>6, ChargedIsBalanced DEF VerifierBusy
  <2> QED
    BY <1>6, <2>1 DEF VerifierBusy, AuthInv, CallsKeepTheirs, CallersAreCounted, ThreadsAreCounted, Active
<1>7. ASSUME NEW w \in Workers, Recognise(c, s, w)
      PROVE  AuthInv'
  <2>1. Balanced(budgets', drawn')
    BY <1>2, <1>7, ChargedIsBalanced DEF Recognise
  <2> DEFINE v == [Idle EXCEPT !.at = "approve", !.worker = w]
  <2>2. Idle \in Call /\ Idle.thread = NoThread
    BY DEF Idle, Call
  <2>3. v \in Call /\ v.at = "approve" /\ v.worker = w /\ v.thread = NoThread
    BY <2>2 DEF Call, Inside
  <2>4. /\ calls[c].at = "idle" /\ active_auth < MaxAuthConcurrency
        /\ calls' = [calls EXCEPT ![c] = v] /\ active_auth' = active_auth + 1 /\ UNCHANGED <<slots, verifying, refills>>
    BY <1>7 DEF Recognise
  <2> HIDE DEF v
  <2>5. CallsKeepTheirs' /\ CallersAreCounted' /\ ThreadsAreCounted'
    BY <2>3, <2>4, ArrivesInside
  <2> QED
    BY <2>1, <2>4, <2>5 DEF AuthInv
<1> QED
  BY <1>1, <1>3, <1>4, <1>5, <1>6, <1>7, StartKeeps

\* A call goes on from one of its awaits.
LEMMA ProceedsKeeps ==
  ASSUME AuthInv, NEW c \in Calls, Proceeds(c)
  PROVE  AuthInv'
<1>1. Balanced(budgets, drawn) /\ CallsKeepTheirs /\ calls[c] \in Call
  BY DEF AuthInv, CallsKeepTheirs
<1>2. ASSUME NEW from \in Inside \ {"verifying"}, calls[c].at = from, Reject(c)
      PROVE  AuthInv'
  BY <1>1, <1>2, RejectKeeps DEF Reject
<1>3. ASSUME NEW from \in Inside, calls[c].at = from, Leave(c), UNCHANGED budgets
      PROVE  AuthInv'
  BY <1>1, <1>3, Leaves DEF Leave, AuthInv
<1>4. ASSUME NEW from \in Inside \ {"verifying"}, calls[c].at = from, NEW at \in Inside \ {"verifying"}, Goto(c, at),
             at \in {"existing", "approve"} => from = "existing"
      PROVE  AuthInv'
  BY <1>1, <1>4, KeepsItsWorker DEF Goto, AuthInv, CallsKeepTheirs
<1>5. CASE ClaimsRefused(c) \/ NotFound(c) \/ BindingDiffers(c) \/ NotApproved(c)
  BY <1>2, <1>5 DEF ClaimsRefused, NotFound, BindingDiffers, NotApproved, Inside
<1>6. CASE ClaimsHold(c) \/ BindingHolds(c)
  BY <1>4, <1>6 DEF ClaimsHold, BindingHolds, Inside
<1>7. CASE WorkerIsRevoked(c) \/ Recorded(c) \/ Fails(c)
  BY <1>3, <1>7 DEF WorkerIsRevoked, Recorded, Fails, Inside
<1>8. ASSUME NEW w \in Workers, Found(c, w)
      PROVE  AuthInv'
  <2>1. PICK at \in {"approve", "existing"} : calls' = [calls EXCEPT ![c] = [@ EXCEPT !.at = at, !.worker = w]]
    BY <1>8 DEF Found
  <2>2. calls[c].at = "find" /\ UNCHANGED <<active_auth, slots, verifying, budgets, drawn, refills>>
    BY <1>8 DEF Found
  <2>3. calls' = [calls EXCEPT ![c] = [calls[c] EXCEPT !.at = at, !.worker = w]]
    BY <2>1
  <2>4. CallsKeepTheirs' /\ CallersAreCounted' /\ ThreadsAreCounted'
    BY <2>2, <2>3, GoesOn DEF Inside
  <2> QED
    BY <1>1, <2>2, <2>4 DEF AuthInv
<1>9. CASE Admit(c)
  <2> DEFINE w == calls[c].worker
  <2>1. /\ calls[c].at = "approve" /\ budgets.worker[w] > 0 /\ budgets.global > 0
        /\ budgets' = [budgets EXCEPT !.worker[w] = @ - 1, !.global = @ - 1]
        /\ drawn' = [drawn EXCEPT !.global[w] = @ + 1]
        /\ calls' = [calls EXCEPT ![c] = Idle] /\ active_auth' = active_auth - 1 /\ UNCHANGED <<slots, verifying, refills>>
    BY <1>9 DEF Admit
  <2>2. w \in Workers
    BY <1>1, <2>1 DEF CallsKeepTheirs
  <2> HIDE DEF w
  <2>3. Balanced(budgets', drawn')
    BY <1>1, <2>1, <2>2, AdmittedIsBalanced
  <2>4. CallsKeepTheirs' /\ CallersAreCounted' /\ ThreadsAreCounted'
    BY <2>1, Leaves DEF Inside
  <2> QED
    BY <2>1, <2>3, <2>4 DEF AuthInv
<1>10. CASE Throttle(c)
  <2> DEFINE w == calls[c].worker
             left == IF Refused(budgets.worker[w], WorkerLimit) THEN budgets
                     ELSE [budgets EXCEPT !.worker[w] = @ - 1]
  <2>1. calls[c].at = "approve" /\ RejectWith(c, left)
    BY <1>10 DEF Throttle
  <2>2. w \in Workers
    BY <1>1, <2>1 DEF CallsKeepTheirs
  <2>3. ~Refused(budgets.worker[w], WorkerLimit) => budgets.worker[w] > 0
    BY <1>1, <2>2 DEF Balanced, Budgets, Refused
  <2>4. Balanced(left, drawn)
    BY <1>1, <2>2, <2>3, SpentIsBalanced
  <2> HIDE DEF left
  <2> QED
    BY <2>1, <2>4, RejectKeeps DEF Inside
<1>11. CASE RecordedOutside(c)
  BY <1>1, <1>11, StaysOutside DEF RecordedOutside, Goto, AuthInv
<1> QED
  BY <1>5, <1>6, <1>7, <1>8, <1>9, <1>10, <1>11 DEF Proceeds

LEMMA InitInv == Init => AuthInv
<1> SUFFICES ASSUME Init PROVE AuthInv
  OBVIOUS
<1>1. Idle \in Call /\ Idle.at = "idle" /\ Idle.thread = NoThread
  BY DEF Idle, Call
<1>2. calls \in [Calls -> Call] /\ \A c \in Calls : calls[c].at = "idle" /\ calls[c].thread = NoThread
  BY <1>1 DEF Init
<1>3. CallsKeepTheirs
  BY <1>2 DEF CallsKeepTheirs
<1>4. Active = {}
  BY <1>2 DEF Active, Inside
<1>5. CallersAreCounted /\ ThreadsAreCounted
  BY <1>4, FS_EmptySet DEF Init, CallersAreCounted, ThreadsAreCounted
<1> QED
  BY <1>3, <1>5, FullIsBalanced DEF Init, AuthInv

LEMMA NextInv == AuthInv /\ [Next]_vars => AuthInv'
<1> SUFFICES ASSUME AuthInv, [Next]_vars PROVE AuthInv'
  OBVIOUS
<1>1. CASE Refill
  BY <1>1, FullIsBalanced
  DEF Refill, AuthInv, CallsKeepTheirs, CallersAreCounted, ThreadsAreCounted, Active
<1>2. ASSUME NEW c \in Calls, Cancel(c)
      PROVE  AuthInv'
  BY <1>2, Leaves DEF Cancel, Leave, AuthInv
<1>3. ASSUME NEW c \in Calls, CancelOutside(c)
      PROVE  AuthInv'
  BY <1>3, StaysOutside DEF CancelOutside, Goto, AuthInv
<1>4. CASE UNCHANGED vars
  BY <1>4 DEF vars, AuthInv, CallsKeepTheirs, CallersAreCounted, ThreadsAreCounted, Active
<1> QED
  BY <1>1, <1>2, <1>3, <1>4, FinishKeeps, ArrivesKeeps, ProceedsKeeps DEF Next

\* The invariant holds whatever callers, verifiers and the clock do.
THEOREM AuthInvariance == Spec => []AuthInv
  BY InitInv, NextInv, PTL DEF Spec

\* Counters, slots and budgets keep their types.
THEOREM AuthTypeCorrectness == Spec => []TypeOK
<1>1. AuthInv => TypeOK
  BY DEF AuthInv, CallsKeepTheirs, CallersAreCounted, ThreadsAreCounted, Balanced, Budgets, Tally, TypeOK
<1> QED
  BY <1>1, AuthInvariance, PTL

\* No way out of authenticate leaks a count or a slot.
THEOREM CapacityIsNeverLeaked == Spec => []CapacityIsAccounted
<1>1. AuthInv => CapacityIsAccounted
  BY DEF AuthInv, CallersAreCounted, ThreadsAreCounted, Active, CapacityIsAccounted
<1> QED
  BY <1>1, AuthInvariance, PTL

\* Never more verifier threads than slots, and whoever waits waits for one that runs.
THEOREM VerifiersStayBounded == Spec => []VerifiersAreBounded
<1>1. AuthInv => VerifiersAreBounded
  <2> SUFFICES ASSUME AuthInv PROVE VerifiersAreBounded
    OBVIOUS
  <2>1. Cardinality(verifying) \in Nat
    BY FS_CardinalityType DEF AuthInv, ThreadsAreCounted
  <2> QED
    BY <2>1 DEF AuthInv, CallsKeepTheirs, ThreadsAreCounted, VerifiersAreBounded
<1> QED
  BY <1>1, AuthInvariance, PTL

\* No peer and no worker takes more of a shared budget than its own has.
THEOREM BudgetsStayApart == Spec => []NobodyDrawsMoreThanItsOwn
<1>1. AuthInv => NobodyDrawsMoreThanItsOwn
  BY DEF AuthInv, Balanced, NobodyDrawsMoreThanItsOwn
<1> QED
  BY <1>1, AuthInvariance, PTL
=============================================================================
