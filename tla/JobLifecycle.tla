---------------------------- MODULE JobLifecycle ----------------------------
(***************************************************************************)
(* What the pool promises a host about each job it submits, whatever the   *)
(* workers, the network and the coordinator's interleavings do: the phases *)
(* a job passes through and who may move it.  Jobs move independently, and *)
(* one statement may move several of them.                                 *)
(***************************************************************************)
EXTENDS Integers

CONSTANTS Jobs, Workers, Nobody, Digests, NoDigest,
          AttemptBudget     \* job -> how often it may be claimed

VARIABLE life

Init == life = [j \in Jobs |-> [phase |-> "absent", attempts |-> 0,
                                holder |-> Nobody, output |-> NoDigest]]

Claimed(a) == a.phase \in {"held", "lapsed"}

Submitted(a, b) ==
  a.phase = "absent" /\ b = [a EXCEPT !.phase = "queued"]

\* A claim is exclusive until it lapses, and costs an attempt.
Claims(j, a, b) ==
  /\ a.phase \in {"queued", "lapsed"}
  /\ a.attempts < AttemptBudget[j]
  /\ \E w \in Workers : \E phase \in {"held", "lapsed"} :
       b = [a EXCEPT !.phase = phase, !.attempts = @ + 1, !.holder = w]

\* The holder renews its claim, or lets it run out.
Renewed(a, b) ==
  Claimed(a) /\ \E phase \in {"held", "lapsed"} : b = [a EXCEPT !.phase = phase]

\* A job only waits again if it can still be claimed.
Returned(j, a, b) ==
  /\ Claimed(a)
  /\ a.attempts < AttemptBudget[j]
  /\ b = [a EXCEPT !.phase = "queued", !.holder = Nobody]

\* The holder of the latest claim, lapsed or not, is the one that completes.
Completed(a, b) ==
  /\ Claimed(a)
  /\ \E d \in Digests : b = [a EXCEPT !.phase = "completed", !.output = d]

Failed(a, b) ==
  Claimed(a) /\ b = [a EXCEPT !.phase = "failed", !.holder = Nobody]

Cancelled(a, b) ==
  /\ a.phase \in {"queued", "held", "lapsed"}
  /\ b = [a EXCEPT !.phase = "cancelled", !.holder = Nobody]

Moves(j, a, b) ==
  \/ Submitted(a, b) \/ Claims(j, a, b) \/ Renewed(a, b) \/ Returned(j, a, b)
  \/ Completed(a, b) \/ Failed(a, b) \/ Cancelled(a, b)

Next ==
  /\ DOMAIN life' = Jobs
  /\ \A j \in Jobs : life'[j] = life[j] \/ Moves(j, life[j], life'[j])

Spec == Init /\ [][Next]_life
=============================================================================
