------------------------------ MODULE JobStore ------------------------------
(***************************************************************************)
(* The pool_jobs table and the statements that change it (postgres.py      *)
(* PostgresJobStore, memory.py MemoryJobStore).  Each statement is one     *)
(* atomic action: a single UPDATE or INSERT in Postgres, a coroutine       *)
(* without an await in memory.                                             *)
(*                                                                         *)
(* Time is kept as the time a lease has left: lease_until - now() in       *)
(* ticks, so that lease_until < now() is lease_left < 0.  A token drawn by *)
(* uuid4() is the ordinal of the attempt it was drawn for: attempts only   *)
(* grows, so no two claims of one job share a token.                       *)
(***************************************************************************)
EXTENDS Contracts

VARIABLE jobs

NoToken == 0

Row == [status      : JobStatus \cup {Absent},
        attempts    : Nat,
        created_at  : Nat,
        claim_token : Nat,
        leased_by   : Workers \cup {Nobody},
        lease_left  : Int,
        executed_by : Workers \cup {Nobody},
        output      : Digests \cup {NoDigest},
        retryable   : BOOLEAN]

NoRow == [status |-> Absent, attempts |-> 0, created_at |-> 0,
          claim_token |-> NoToken, leased_by |-> Nobody, lease_left |-> 0,
          executed_by |-> Nobody, output |-> NoDigest, retryable |-> FALSE]

JobsInit == jobs = [j \in Jobs |-> NoRow]

Present == {j \in Jobs : jobs[j].status # Absent}

-----------------------------------------------------------------------------
(* Which rows a statement may touch.                                       *)

\* What INSERT ... ON CONFLICT (idempotency_key) finds: the job first submitted under j's key.
Original(j) ==
  {k \in Present : Submission[k].idempotency_key = Submission[j].idempotency_key}

\* Mistake: any claim of the job opens the fence.
LeasedByAnyone(j, token) == jobs[j].status = "processing" /\ token # NoToken

\* The claim fence of heartbeat, complete, fail and release.
Leased(j, token) ==
  /\ jobs[j].status = "processing"
  /\ jobs[j].claim_token # NoToken
  /\ jobs[j].claim_token = token

Expired(j) == jobs[j].status = "processing" /\ jobs[j].lease_left < 0

\* Mistake: a lease that ran out is not given to anyone else.
IsLeasableOnlyQueued(j) == jobs[j].status = "queued"

\* Mistake: a claim is taken from a worker whose lease has not run out.
IsLeasableAnyway(j) == jobs[j].status \in {"queued", "processing"}

IsLeasable(j) == jobs[j].status = "queued" \/ Expired(j)

\* The worker and the hardware it offers meet what the job requires of them.
SatisfiesRequirements(need, worker, offer) ==
  /\ need.worker_ids = {} \/ worker \in need.worker_ids
  /\ need.runtime_versions \subseteq offer.runtime_versions
  /\ need.min_vram_mb <= offer.vram_mb
  /\ need.gpu_models = {} \/ offer.gpu_model \in need.gpu_models
  /\ need.labels \subseteq offer.labels

\* Mistake: the WHERE clause forgets the tenant.
CandidatesOfAnyTenant(worker, capability_ids, offer) ==
  {j \in Present : /\ Submission[j].capability_id \in capability_ids
                   /\ jobs[j].attempts < Budget(j)
                   /\ IsLeasable(j)
                   /\ SatisfiesRequirements(Submission[j].requirements, worker, offer)}

Candidates(worker, capability_ids, offer) ==
  {j \in Present : /\ Submission[j].capability_id \in capability_ids
                   /\ jobs[j].attempts < Budget(j)
                   /\ IsLeasable(j)
                   /\ Submission[j].tenant_id = offer.tenant_id
                   /\ SatisfiesRequirements(Submission[j].requirements, worker, offer)}

\* ORDER BY priority, created_at: oldest first within a priority.
Before(j, k) ==
  \/ Submission[j].priority < Submission[k].priority
  \/ /\ Submission[j].priority = Submission[k].priority
     /\ jobs[j].created_at <= jobs[k].created_at

-----------------------------------------------------------------------------
(* The statements.                                                         *)

\* Mistake: the status changes and the lease stays.
SettledKeepingLease(row, status) == [row EXCEPT !.status = status]

\* A row that leaves the processing state gives up its lease.
Settled(row, status) ==
  [row EXCEPT !.status = status, !.claim_token = NoToken,
              !.leased_by = Nobody, !.lease_left = 0]

\* Mistake: a replay is recognised as long as the original is in progress.
SubmitAgain(j) ==
  /\ jobs[j].status = Absent
  /\ \A k \in Original(j) : jobs[k].status \in Terminal
  /\ jobs' = [jobs EXCEPT ![j] = [@ EXCEPT !.status = "queued",
                                           !.created_at = Cardinality(Present)]]

\* An equal resubmission replays the row and an unequal one conflicts: neither writes.
Submit(j) ==
  /\ jobs[j].status = Absent
  /\ Original(j) = {}
  /\ jobs' = [jobs EXCEPT ![j] = [@ EXCEPT !.status = "queued",
                                           !.created_at = Cardinality(Present)]]

Cancel(j) ==
  /\ jobs[j].status \in {"queued", "processing"}
  /\ jobs' = [jobs EXCEPT ![j] = Settled(@, "cancelled")]

\* Mistake: a claim that lapsed is taken over under the token it had.
LeaseKeepingToken(j, worker, capability_ids, offer, span) ==
  /\ j \in Candidates(worker, capability_ids, offer)
  /\ jobs' = [jobs EXCEPT ![j] = [@ EXCEPT
                !.status = "processing", !.attempts = @ + 1, !.leased_by = worker,
                !.claim_token = IF @ = NoToken THEN jobs[j].attempts + 1 ELSE @,
                !.lease_left = span]]

Lease(j, worker, capability_ids, offer, span) ==
  LET attempt == jobs[j].attempts + 1 IN
  /\ j \in Candidates(worker, capability_ids, offer)
  /\ \A k \in Candidates(worker, capability_ids, offer) : Before(j, k)
  /\ jobs' = [jobs EXCEPT ![j] = [@ EXCEPT !.status = "processing",
                                           !.attempts = attempt,
                                           !.claim_token = attempt,
                                           !.leased_by = worker,
                                           !.lease_left = span]]

\* A heartbeat renews a lease that ran out, as long as nobody has claimed the job since.
Heartbeat(j, token, span) ==
  /\ Leased(j, token)
  /\ jobs' = [jobs EXCEPT ![j] = [@ EXCEPT !.lease_left = span]]

Complete(j, token, digest) ==
  /\ Leased(j, token)
  /\ jobs' = [jobs EXCEPT ![j] = [Settled(@, "completed") EXCEPT
                                    !.executed_by = jobs[j].leased_by,
                                    !.output = digest]]

Fail(j, token, retryable) ==
  /\ Leased(j, token)
  /\ jobs' = [jobs EXCEPT ![j] = [Settled(@, "failed") EXCEPT !.retryable = retryable]]

Release(j, token) ==
  /\ Leased(j, token)
  /\ jobs' = [jobs EXCEPT ![j] = Settled(@, "queued")]

Exhausted(j) == Expired(j) /\ jobs[j].attempts >= Budget(j)

ExpireExhausted ==
  jobs' = [j \in Jobs |-> IF Exhausted(j)
                            THEN [Settled(jobs[j], "failed") EXCEPT !.retryable = TRUE]
                            ELSE jobs[j]]

\* now() advances: every lease that has not run out has one tick less.
Elapse ==
  jobs' = [j \in Jobs |-> IF jobs[j].status = "processing" /\ ~Expired(j)
                            THEN [jobs[j] EXCEPT !.lease_left = @ - 1]
                            ELSE jobs[j]]
=============================================================================
