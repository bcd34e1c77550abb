---------------------------- MODULE MCCoordinator ---------------------------
(***************************************************************************)
(* Two workers and two jobs for TLC: j1 may be tried twice, j2 once and    *)
(* belongs to another tenant.                                              *)
(***************************************************************************)
EXTENDS Coordinator, TLC

CONSTANTS w1, w2, j1, j2, d1, d2, s1, s2

Requirements == [worker_ids |-> {}, runtime_versions |-> {}, min_vram_mb |-> 0,
                 gpu_models |-> {}, labels |-> {}]

Job(key, tenant, budget) ==
  [idempotency_key |-> key, capability_id |-> "c", tenant_id |-> tenant,
   priority |-> 100, attempt_budget |-> budget, output_key |-> key,
   requirements |-> Requirements]

MCSubmission == [j \in Jobs |-> IF j = j1 THEN Job("k1", "t", 2) ELSE Job("k2", "u", 1)]

Offer(capability, tenant) ==
  [capability_ids |-> {capability}, tenant_id |-> tenant, vram_mb |-> 0,
   gpu_model |-> "g", labels |-> {}, runtime_versions |-> {}]

MCOffers == {Offer("c", "t"), Offer("c", "u"), Offer("x", "t")}

MCIdentity == [w \in Workers |-> w]

MCEnrollments ==
  [w \in Workers |-> [identity_subject |-> w, tenant_id |-> IF w = w1 THEN "t" ELSE "u"]]

MCSameTenant == [w \in Workers |-> [identity_subject |-> w, tenant_id |-> "t"]]

RegisterCall(offer, draining) ==
  [Body("register") EXCEPT !.offer = offer, !.draining = draining]
LeaseCall == [Body("lease") EXCEPT !.capability_ids = Capabilities]
CompleteCall(digest) == [Body("complete") EXCEPT !.digest = digest]

\* Everything a worker may ask about a job it leased.
JobCalls == {RegisterCall(Offer("c", "t"), FALSE), RegisterCall(Offer("c", "u"), FALSE), LeaseCall,
             Body("heartbeat"), Body("fail"), Body("release")}
              \cup {CompleteCall(d) : d \in Digests \cup {NoDigest}}

\* A host that draws a new job id whenever it submits its request again.
MCReplays == [j \in Jobs |-> Job("k1", "t", 2)]

Symmetric == Permutations(Jobs) \cup Permutations(Digests) \cup Permutations(Workers) \cup Permutations(Slots)
=============================================================================
