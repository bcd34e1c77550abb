---------------------------- MODULE Coordinator -----------------------------
(***************************************************************************)
(* WorkerPoolService (service.py): the worker requests it serves, step by  *)
(* step.  Every await of a handler is a step of its own, so what a handler *)
(* read may be stale when it writes; several handlers run at once, each in *)
(* a slot, and they share the job table, the worker table and the bucket.  *)
(*                                                                         *)
(* The workers are the environment here: one may call with any claim token *)
(* that was minted for it, however old, and upload under any grant it got. *)
(***************************************************************************)
EXTENDS JobStore, WorkerRegistry, AssetStore

CONSTANTS
  Slots,            \* request handlers that can run at once
  Identity,         \* worker id -> the subject its credential proves
  Unqualified,      \* what names a machine profile that is not qualified: its capabilities, its recipe
  DefaultLease,     \* default_lease_seconds, in ticks
  Calls,            \* the bodies of the requests workers send
  HostStatuses      \* the statuses the host sets

ASSUME DefaultLeaseAssumption == DefaultLease \in Nat
ASSUME HostStatusesAssumption == HostStatuses \subseteq WorkerStatus
ASSUME IdentityAssumption == Identity \in [Workers -> Subjects]

VARIABLES
  requests,     \* slot -> the request it serves and what its handler has read
  audit,        \* settlements in the audit log
  grantee,      \* history: job -> attempt -> the worker its token was minted for
  intent        \* history: worker -> the status the host last asked for

vars == <<jobs, workers, objects, requests, audit, grantee, intent>>

JobOps == {"heartbeat", "complete", "fail", "release"}
Ops == JobOps \cup {"register", "lease"}

Steps == {"authorize", "register", "admit", "expire", "claim", "mint",
          "load", "verify", "reject", "settle", "audit", "reply"}

\* A request body: the fields an operation does not have keep their Idle value.
Call == [op             : Ops,
         offer          : Offers \cup {NoOffer},
         draining       : BOOLEAN,
         capability_ids : SUBSET Capabilities,
         span           : Nat,
         digest         : Digests \cup {NoDigest},
         retryable      : BOOLEAN]

Body(op) == [op |-> op, offer |-> NoOffer, draining |-> FALSE, capability_ids |-> {},
             span |-> 0, digest |-> NoDigest, retryable |-> FALSE]

ASSUME CallsAssumption ==
  \A call \in Calls : call \in Call /\ (call.op = "register" => call.offer \in Offers)

Codes == {200, 204, 401, 403, 409, 422, 500}

Request == [op             : Ops \cup {"none"},
            pc             : Steps \cup {"idle"},
            worker         : Workers \cup {Nobody},
            job            : Jobs \cup {"none"},
            token          : Nat,
            digest         : Digests \cup {NoDigest},
            retryable      : BOOLEAN,
            offer          : Offers \cup {NoOffer},
            draining       : BOOLEAN,
            capability_ids : SUBSET Capabilities,
            span           : Nat,
            spent          : BOOLEAN,
            code           : Codes]

Idle == [op |-> "none", pc |-> "idle", worker |-> Nobody, job |-> "none",
         token |-> NoToken, digest |-> NoDigest, retryable |-> FALSE,
         offer |-> NoOffer, draining |-> FALSE, capability_ids |-> {},
         span |-> 0, spent |-> FALSE, code |-> 200]

Settlements == {"job_completed", "job_failed"} \X Jobs

Init ==
  /\ JobsInit /\ WorkersInit /\ ObjectsInit
  /\ requests = [s \in Slots |-> Idle]
  /\ audit = {}
  /\ grantee = [j \in Jobs |-> [a \in 1..20 |-> Nobody]]
  /\ intent = [w \in Workers |-> "active"]

\* The worker was handed this claim token by a lease.
Granted(w, j, token) == token \in 1..Budget(j) /\ grantee[j][token] = w

-----------------------------------------------------------------------------
(* A handler's progress.                                                   *)

At(s, pc) == requests[s].pc = pc

Goto(s, pc) == requests' = [requests EXCEPT ![s].pc = pc]

\* Only a granted lease is answered with more than a status code.
Reply(s, code) ==
  LET r == requests[s]
      answer == [Idle EXCEPT !.op = r.op, !.pc = "reply", !.worker = r.worker, !.code = code]
  IN requests' = [requests EXCEPT ![s] =
       IF r.op = "lease" /\ code = 200
         THEN [answer EXCEPT !.job = r.job, !.token = r.token] ELSE answer]

Opened(w, call, job, token) ==
  [op |-> call.op, pc |-> "authorize", worker |-> w, job |-> job, token |-> token,
   digest |-> call.digest, retryable |-> call.retryable, offer |-> call.offer,
   draining |-> call.draining, capability_ids |-> call.capability_ids,
   span |-> call.span, spent |-> FALSE, code |-> 200]

Receive(s, request) ==
  /\ At(s, "idle")
  /\ requests' = [requests EXCEPT ![s] = request]
  /\ UNCHANGED <<jobs, workers, objects, audit, grantee, intent>>

-----------------------------------------------------------------------------
(* The host's calls: one statement each.                                   *)

\* _unqualified_reason: a capability or a pinned runtime version names such a profile.
Refuses(capability_ids, runtime_versions) ==
  (capability_ids \cup runtime_versions) \cap Unqualified # {}

RefusesJob(j) ==
  Refuses({Submission[j].capability_id}, Submission[j].requirements.runtime_versions)

HostSubmit(j) ==
  /\ ~RefusesJob(j)
  /\ Submit(j)
  /\ UNCHANGED <<workers, objects, requests, audit, grantee, intent>>

HostCancel(j) ==
  /\ Cancel(j)
  /\ UNCHANGED <<workers, objects, requests, audit, grantee, intent>>

HostSetStatus(w, status) ==
  /\ SetStatus(w, status)
  /\ intent' = [intent EXCEPT ![w] = status]
  /\ UNCHANGED <<jobs, objects, requests, audit, grantee>>

-----------------------------------------------------------------------------
(* Requests arrive.                                                        *)

\* A worker presents a claim token only with a job that token was minted for.
ReceiveCall(s, w, call) ==
  /\ call.op \notin JobOps
  /\ Receive(s, Opened(w, call, "none", NoToken))

ReceiveJobCall(s, w, call, j, token) ==
  /\ call.op \in JobOps
  /\ Granted(w, j, token)
  /\ Receive(s, Opened(w, call, j, token))

-----------------------------------------------------------------------------
(* Every handler starts with _approved_enrollment.                         *)

FirstStep(op) ==
  CASE op = "register" -> "register"
    [] op = "lease"    -> "admit"
    [] OTHER           -> "load"

Authorize(s) ==
  LET w == requests[s].worker IN
  /\ At(s, "authorize")
  /\ IF Approved(w, Identity[w])
       THEN Goto(s, FirstStep(requests[s].op))
       ELSE Reply(s, IF Revoked(w, Identity[w]) THEN 403 ELSE 401)
  /\ UNCHANGED <<jobs, workers, objects, audit, grantee, intent>>

-----------------------------------------------------------------------------
(* POST /worker/v1/heartbeat                                               *)

\* The tenant is the enrolment's, an unqualified profile refuses the whole heartbeat.
Advertises(w, offer) ==
  /\ offer.tenant_id = EnrolledTenant(w)
  /\ ~Refuses(offer.capability_ids, offer.runtime_versions)

RegisterHeartbeat(s) ==
  LET r == requests[s] IN
  /\ At(s, "register")
  /\ Advertises(r.worker, r.offer)
  /\ Upsert(r.worker, Identity[r.worker], r.offer, r.draining)
  /\ Reply(s, 200)
  /\ UNCHANGED <<jobs, objects, audit, grantee, intent>>

\* The tenant is compared first, then the profile; the upsert finds the other conflicts.
RefusalCode(r) ==
  IF r.offer.tenant_id # EnrolledTenant(r.worker) THEN 409
  ELSE IF Refuses(r.offer.capability_ids, r.offer.runtime_versions) THEN 422
  ELSE IF workers[r.worker].identity_subject \in {NoSubject, Identity[r.worker]} THEN 409
  ELSE 401

RefuseHeartbeat(s) ==
  LET r == requests[s] IN
  /\ At(s, "register")
  /\ \/ ~Advertises(r.worker, r.offer)
     \/ Rebinds(r.worker, Identity[r.worker], r.offer)
     \/ ~SubjectFree(r.worker, Identity[r.worker])
  /\ Reply(s, RefusalCode(r))
  /\ UNCHANGED <<jobs, workers, objects, audit, grantee, intent>>

-----------------------------------------------------------------------------
(* POST /worker/v1/lease                                                   *)

\* What the worker may lease: what it asks for, advertised and may run.
Effective(r) ==
  LET offer == workers[r.worker].offer IN
  IF Refuses({}, offer.runtime_versions) THEN {}
    ELSE (r.capability_ids \cap offer.capability_ids) \ Unqualified

\* The handler reads the worker's row a second time, and keeps what it read.
AdmitLease(s) ==
  LET r == requests[s] IN
  /\ At(s, "admit")
  /\ Registered(r.worker)
  /\ workers[r.worker].status # "draining"
  /\ Effective(r) # {}
  /\ requests' = [requests EXCEPT ![s].pc = "expire",
                                  ![s].capability_ids = Effective(r),
                                  ![s].offer = workers[r.worker].offer]
  /\ UNCHANGED <<jobs, workers, objects, audit, grantee, intent>>

DenyLease(s) ==
  LET r == requests[s] IN
  /\ At(s, "admit")
  /\ \/ ~Registered(r.worker) /\ Reply(s, 409)
     \/ /\ Registered(r.worker)
        /\ workers[r.worker].status = "draining" \/ Effective(r) = {}
        /\ Reply(s, 204)
  /\ UNCHANGED <<jobs, workers, objects, audit, grantee, intent>>

ExpireBeforeLease(s) ==
  /\ At(s, "expire")
  /\ ExpireExhausted
  /\ Goto(s, "claim")
  /\ UNCHANGED <<workers, objects, audit, grantee, intent>>

ClaimJob(s, j) ==
  LET r == requests[s] IN
  /\ At(s, "claim")
  /\ Lease(j, r.worker, r.capability_ids, r.offer, r.span)
  /\ requests' = [requests EXCEPT ![s].pc = "mint", ![s].job = j,
                                  ![s].token = jobs[j].attempts + 1]
  /\ grantee' = [grantee EXCEPT ![j][jobs[j].attempts + 1] = r.worker]
  /\ UNCHANGED <<workers, objects, audit, intent>>

ClaimNothing(s) ==
  LET r == requests[s] IN
  /\ At(s, "claim")
  /\ Candidates(r.worker, r.capability_ids, r.offer) = {}
  /\ Reply(s, 204)
  /\ UNCHANGED <<jobs, workers, objects, audit, grantee, intent>>

MintGrants(s) ==
  /\ At(s, "mint")
  /\ Reply(s, 200)
  /\ UNCHANGED <<jobs, workers, objects, audit, grantee, intent>>

-----------------------------------------------------------------------------
(* POST /worker/v1/jobs/{job_id}/heartbeat, complete, fail and release     *)

\* _owned_job compares the worker, not the token: the statement fences the token.
Owned(s) ==
  /\ jobs[requests[s].job].leased_by = requests[s].worker
  /\ jobs[requests[s].job].status = "processing"

\* Mistake: off by one, the last attempt is taken for one of many.
SpentTooLate(j) == jobs[j].attempts > Budget(j)

Spent(j) == jobs[j].attempts >= Budget(j)

LoadOwnedJob(s) ==
  LET r == requests[s] IN
  /\ At(s, "load")
  /\ IF Owned(s)
       THEN requests' = [requests EXCEPT
              ![s].pc = IF r.op = "complete" THEN "verify" ELSE "settle",
              ![s].spent = r.op = "release" /\ Spent(r.job)]
       ELSE Reply(s, 409)
  /\ UNCHANGED <<jobs, workers, objects, audit, grantee, intent>>

\* Mistake: that there is an artifact is enough.
AttestedByPresence(r) == r.digest # NoDigest /\ Stored(OutputKey(r.job)) # NoDigest

Attested(r) ==
  /\ ~RefusesJob(r.job)
  /\ r.digest # NoDigest
  /\ Stored(OutputKey(r.job)) = r.digest

VerifyOutput(s) ==
  /\ At(s, "verify")
  /\ Goto(s, IF Attested(requests[s]) THEN "settle" ELSE "reject")
  /\ UNCHANGED <<jobs, workers, objects, audit, grantee, intent>>

\* Mistake: the completion is refused and the job stays with its worker.
RejectCompletionOnly(s) ==
  /\ At(s, "reject")
  /\ Reply(s, 422)
  /\ UNCHANGED <<jobs, workers, objects, audit, grantee, intent>>

\* The result of jobs.fail is not looked at: 422 whether or not the claim was current.
RejectCompletion(s) ==
  LET r == requests[s] IN
  /\ At(s, "reject")
  /\ \/ Fail(r.job, r.token, FALSE)
     \/ ~Leased(r.job, r.token) /\ UNCHANGED jobs
  /\ Reply(s, 422)
  /\ UNCHANGED <<workers, objects, audit, grantee, intent>>

SettleHeartbeat(s) ==
  LET r == requests[s] IN
  /\ At(s, "settle") /\ r.op = "heartbeat"
  /\ Heartbeat(r.job, r.token, DefaultLease)
  /\ Reply(s, 200)
  /\ UNCHANGED <<workers, objects, audit, grantee, intent>>

SettleComplete(s) ==
  LET r == requests[s] IN
  /\ At(s, "settle") /\ r.op = "complete"
  /\ Complete(r.job, r.token, r.digest)
  /\ Goto(s, "audit")
  /\ UNCHANGED <<workers, objects, audit, grantee, intent>>

SettleFail(s) ==
  LET r == requests[s] IN
  /\ At(s, "settle") /\ r.op = "fail"
  /\ Fail(r.job, r.token, r.retryable)
  /\ Goto(s, "audit")
  /\ UNCHANGED <<workers, objects, audit, grantee, intent>>

\* A release on the last attempt settles the job instead of requeueing it.
SettleRelease(s) ==
  LET r == requests[s] IN
  /\ At(s, "settle") /\ r.op = "release"
  /\ \/ r.spent /\ Fail(r.job, r.token, TRUE) /\ Goto(s, "audit")
     \/ ~r.spent /\ Release(r.job, r.token) /\ Reply(s, 200)
  /\ UNCHANGED <<workers, objects, audit, grantee, intent>>

\* Mistake: the event is written without a look at the statement's result.
RecordStale(s) ==
  LET r == requests[s] IN
  /\ At(s, "settle")
  /\ ~Leased(r.job, r.token)
  /\ Goto(s, "audit")
  /\ UNCHANGED <<jobs, workers, objects, audit, grantee, intent>>

RefuseStale(s) ==
  LET r == requests[s] IN
  /\ At(s, "settle")
  /\ ~Leased(r.job, r.token)
  /\ Reply(s, 409)
  /\ UNCHANGED <<jobs, workers, objects, audit, grantee, intent>>

Event(r) == <<IF r.op = "complete" THEN "job_completed" ELSE "job_failed", r.job>>

RecordSettlement(s) ==
  /\ At(s, "audit")
  /\ audit' = audit \cup {Event(requests[s])}
  /\ Reply(s, 200)
  /\ UNCHANGED <<jobs, workers, objects, grantee, intent>>

-----------------------------------------------------------------------------
(* The rest of the world.                                                  *)

\* The response leaves; whether it reaches the worker is the worker's affair.
Respond(s) ==
  /\ At(s, "reply")
  /\ requests' = [requests EXCEPT ![s] = Idle]
  /\ UNCHANGED <<jobs, workers, objects, audit, grantee, intent>>

\* What a handler awaits raises: the database, the bucket or the signer is away.  What
\* the handler has written so far stays, a claim whose grants could not be signed too.
Outage(s) ==
  /\ requests[s].pc \in Steps \ {"reply"}
  /\ Reply(s, 500)
  /\ UNCHANGED <<jobs, workers, objects, audit, grantee, intent>>

\* The coordinator process stops: its handlers are gone, the three stores stay.
Crash ==
  /\ \E s \in Slots : ~At(s, "idle")
  /\ requests' = [s \in Slots |-> Idle]
  /\ UNCHANGED <<jobs, workers, objects, audit, grantee, intent>>

\* A worker puts an artifact under an upload grant, which outlives the lease.
Upload(w, j, digest) ==
  /\ \E token \in 1..Budget(j) : Granted(w, j, token)
  /\ WriteOnce(OutputKey(j), digest)
  /\ UNCHANGED <<jobs, workers, requests, audit, grantee, intent>>

Tick ==
  /\ Elapse
  /\ UNCHANGED <<workers, objects, requests, audit, grantee, intent>>

-----------------------------------------------------------------------------
HostStep ==
  \/ \E j \in Jobs : HostSubmit(j) \/ HostCancel(j)
  \/ \E w \in Workers, status \in HostStatuses : HostSetStatus(w, status)

Arrival ==
  \E s \in Slots, w \in Workers, call \in Calls :
    \/ ReceiveCall(s, w, call)
    \/ \E j \in Jobs : \E token \in 1..Budget(j) : ReceiveJobCall(s, w, call, j, token)

LeaseStep(s) ==
  \/ AdmitLease(s) \/ DenyLease(s) \/ ExpireBeforeLease(s)
  \/ \E j \in Jobs : ClaimJob(s, j)
  \/ ClaimNothing(s) \/ MintGrants(s)

JobStep(s) ==
  \/ LoadOwnedJob(s) \/ VerifyOutput(s) \/ RejectCompletion(s)
  \/ SettleHeartbeat(s) \/ SettleComplete(s) \/ SettleFail(s) \/ SettleRelease(s)
  \/ RefuseStale(s) \/ RecordSettlement(s)

HandlerStep(s) ==
  Authorize(s) \/ RegisterHeartbeat(s) \/ RefuseHeartbeat(s) \/ LeaseStep(s) \/ JobStep(s)

Next ==
  \/ HostStep
  \/ Arrival
  \/ \E s \in Slots : HandlerStep(s) \/ Respond(s) \/ Outage(s)
  \/ Crash
  \/ \E w \in Workers, j \in Jobs, digest \in Digests : Upload(w, j, digest)
  \/ Tick

Spec == Init /\ [][Next]_vars

-----------------------------------------------------------------------------
(* What must hold.                                                         *)

\* Every variable has its type, and a claim token was minted for some worker.
TypeOK ==
  /\ jobs \in [Jobs -> Row]
  /\ workers \in [Workers -> WorkerRow]
  /\ objects \in [OutputKeys -> Digests \cup {NoDigest}]
  /\ requests \in [Slots -> Request]
  /\ audit \subseteq Settlements
  /\ grantee \in [Jobs -> [1..20 -> Workers \cup {Nobody}]]
  /\ intent \in [Workers -> WorkerStatus]

\* A queued job can still be claimed.  One whose attempts are spent would be neither
\* leasable (lease wants attempts < attempt_budget) nor expirable (expire_exhausted wants
\* a processing row): it would wait for ever.  release decides this on a row it read
\* before the statement that requeues the job.
QueuedHasBudget ==
  \A j \in Jobs : jobs[j].status = "queued" => jobs[j].attempts < Budget(j)

\* A processing row names the worker its current claim token was minted for, and no other
\* row names one: leased_by and claim_token move together in every statement.
ClaimIsCoherent ==
  \A j \in Jobs :
    IF jobs[j].status = "processing"
      THEN /\ jobs[j].claim_token = jobs[j].attempts
           /\ Granted(jobs[j].leased_by, j, jobs[j].claim_token)
           /\ jobs[j].leased_by \in Workers
      ELSE jobs[j].claim_token = NoToken /\ jobs[j].leased_by = Nobody

\* A completed job's recorded digest is that of the object under its output key, and it
\* was completed by the worker its last claim was minted for.  complete verifies the
\* object in one step and writes the digest in a later one.
CompletedOutputIsStored ==
  \A j \in Jobs : jobs[j].status = "completed" =>
    /\ jobs[j].output \in Digests
    /\ Stored(OutputKey(j)) = jobs[j].output
    /\ Granted(jobs[j].executed_by, j, jobs[j].attempts)

\* The audit log records a settlement only of a job that is settled that way, although
\* the event is written after the statement and by another await.
AuditIsTruthful ==
  \A j \in Jobs :
    /\ <<"job_completed", j>> \in audit => jobs[j].status = "completed"
    /\ <<"job_failed", j>> \in audit => jobs[j].status = "failed"

\* The coordinator "returns the original immutable output on a replay of the same idempotency
\* key": once a job is completed, whoever submits its request again, under whatever job id,
\* finds that job and the output it was completed with, and nothing runs it again.
ReplaysFindTheOriginal ==
  [][\A j \in Jobs : jobs[j].status = "completed" =>
       /\ Original(j)' = {j}
       /\ jobs'[j].status = "completed" /\ jobs'[j].output = jobs[j].output
       /\ jobs'[j].attempts = jobs[j].attempts]_vars

\* A worker never holds a job of another tenant: the tenant a lease is claimed for is
\* the one the handler read in the worker's row two steps before the claim.
TenantsNeverMix ==
  \A j \in Jobs : jobs[j].leased_by # Nobody =>
    workers[jobs[j].leased_by].offer.tenant_id = Submission[j].tenant_id

AdmitsNoRevoked ==
  \A s \in Slots :
    requests[s].pc = "authorize" /\ requests'[s].pc \in {"register", "admit", "load"} =>
      intent[requests[s].worker] # "revoked"

\* Revocation takes effect on the worker's next request: no handler passes the
\* enrolment check for a worker the host revoked, whatever heartbeats were in flight.
RevokedIsNotAdmitted == [][AdmitsNoRevoked]_vars

-----------------------------------------------------------------------------
(* Why it holds: what the tables and the handlers' stale readings of them  *)
(* have in common.                                                         *)

\* What a row says about its latest claim, by status.
RowCoherent(j) ==
  LET row == jobs[j] IN
  /\ row.attempts \in 0..Budget(j)
  /\ row.status = Absent => row = NoRow
  /\ row.status = "queued" => row.attempts < Budget(j)
  /\ row.status = "processing" => /\ row.attempts >= 1
                                  /\ row.claim_token = row.attempts
                                  /\ row.leased_by \in Workers
                                  /\ row.leased_by = grantee[j][row.attempts]
  /\ row.status # "processing" => row.claim_token = NoToken /\ row.leased_by = Nobody
  /\ row.status # "completed" => row.output = NoDigest
  /\ row.status = "completed" => /\ row.attempts >= 1
                                 /\ row.executed_by = grantee[j][row.attempts]
                                 /\ row.output \in Digests
                                 /\ Stored(OutputKey(j)) = row.output

\* Tokens are minted in the order of the attempts.
TokensAreMinted ==
  \A j \in Jobs : \A a \in 1..20 : grantee[j][a] # Nobody => a <= jobs[j].attempts

\* A handler serves the worker its token was minted for, and nobody else was given it.
HandlerKnowsItsClaim(s) ==
  LET r == requests[s] IN
  /\ r.pc # "idle" => r.worker \in Workers /\ r.op \in Ops
  /\ r.pc \in {"load", "verify", "reject", "settle", "audit"} => r.op \in JobOps
  /\ r.pc \in {"admit", "expire", "claim", "mint"} => r.op = "lease"
  /\ r.pc = "register" => r.op = "register"
  /\ r.op \in JobOps /\ r.pc \notin {"idle", "reply"} =>
       /\ r.job \in Jobs
       /\ r.token \in 1..jobs[r.job].attempts
       /\ grantee[r.job][r.token] = r.worker
  /\ r.pc \in {"verify", "reject"} => r.op = "complete"

\* What a handler found out before it settles stays true: the artifact is where it was
\* when it was verified, and a claim that was not the last allowed one never becomes it.
ReadingsLast(s) ==
  LET r == requests[s] IN
  /\ r.pc = "settle" /\ r.op = "complete" =>
       r.digest \in Digests /\ Stored(OutputKey(r.job)) = r.digest
  /\ r.pc = "settle" /\ r.op = "release" /\ ~r.spent => r.token < Budget(r.job)
  /\ r.pc = "audit" => r.op # "heartbeat"
  /\ r.pc = "audit" /\ r.op = "complete" => jobs[r.job].status = "completed"
  /\ r.pc = "audit" /\ r.op # "complete" => jobs[r.job].status = "failed"

\* The inductive invariant the safety properties follow from.
IInv ==
  /\ TypeOK
  /\ \A j \in Jobs : RowCoherent(j)
  /\ TokensAreMinted
  /\ \A s \in Slots : HandlerKnowsItsClaim(s) /\ ReadingsLast(s)
  /\ AuditIsTruthful

-----------------------------------------------------------------------------
\* The lifecycle a host is promised, read off the job rows.
Phase(j) ==
  IF jobs[j].status # "processing" THEN jobs[j].status
  ELSE IF Expired(j) THEN "lapsed" ELSE "held"

Life == [j \in Jobs |->
  [phase    |-> Phase(j),
   attempts |-> jobs[j].attempts,
   holder   |-> IF jobs[j].status = "completed" THEN jobs[j].executed_by ELSE jobs[j].leased_by,
   output   |-> jobs[j].output]]

Lifecycle == INSTANCE JobLifecycle
  WITH AttemptBudget <- [j \in Jobs |-> Budget(j)], life <- Life

\* The coordinator, under every interleaving of its handlers, keeps the promise.
KeepsLifecycle == Lifecycle!Spec
=============================================================================
