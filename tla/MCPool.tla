------------------------------- MODULE MCPool -------------------------------
(***************************************************************************)
(* Two machines that serve one job for TLC.                                *)
(***************************************************************************)
EXTENDS Pool, TLC

CONSTANTS w1, w2, j1, d1, d2, s1, s2, s3, s4

Requirements == [worker_ids |-> {}, runtime_versions |-> {}, min_vram_mb |-> 0,
                 gpu_models |-> {}, labels |-> {}]

MCSubmission ==
  [j \in Jobs |-> [idempotency_key |-> j, capability_id |-> "c", tenant_id |-> "t",
                   priority |-> 100, attempt_budget |-> 2, output_key |-> "k",
                   requirements |-> Requirements]]

MCOffer == [capability_ids |-> {"c"}, tenant_id |-> "t", vram_mb |-> 0,
            gpu_model |-> "g", labels |-> {}, runtime_versions |-> {}]

MCOffers == {MCOffer}

MCCalls == AgentCalls

MCIdentity == [w \in Workers |-> w]

MCEnrollments == [w \in Workers |-> [identity_subject |-> w, tenant_id |-> "t"]]

MCAdvertised == [w \in Workers |-> MCOffer]

Symmetric == Permutations(Digests) \cup Permutations(Workers)
=============================================================================
