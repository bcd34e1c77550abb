-------------------------- MODULE AdmissionProofs ---------------------------
(***************************************************************************)
(* Who may work for whom: tenants stay apart, revocation takes effect and  *)
(* bindings are permanent, for any number of workers, jobs and handlers,   *)
(* also while hosts enrol workers beside heartbeats.                       *)
(***************************************************************************)
EXTENDS CoordinatorProofs, Enrollment

\* The host's revocation outlives every heartbeat that was in flight.
RevocationStands ==
  \A w \in Workers : intent[w] = "revoked" => workers[w].status = "revoked"

Serves(w, tenant) == Registered(w) /\ workers[w].offer.tenant_id = tenant

\* What a handler read of its worker's tenant outlives the awaits until the claim.
OfferLasts(s) ==
  requests[s].pc \in {"expire", "claim"} =>
    Serves(requests[s].worker, requests[s].offer.tenant_id)

HolderServes(j) ==
  jobs[j].leased_by # Nobody => Serves(jobs[j].leased_by, Submission[j].tenant_id)

AdmissionInv ==
  /\ IInv
  /\ RevocationStands
  /\ \A s \in Slots : OfferLasts(s)
  /\ \A j \in Jobs : HolderServes(j)

-----------------------------------------------------------------------------
(* The worker table: a row is never unbound from its tenant.               *)

TenantsStay ==
  \A w \in Workers : Registered(w) =>
    Registered(w)' /\ workers'[w].offer.tenant_id = workers[w].offer.tenant_id

LEMMA RegisterStays ==
  ASSUME IInv, RevocationStands, NEW s \in Slots, RegisterHeartbeat(s)
  PROVE  TenantsStay /\ RevocationStands'
<1> DEFINE r == requests[s]
           row == [status |-> IF workers[r.worker].status = "revoked" THEN "revoked"
                              ELSE IF r.draining THEN "draining" ELSE "active",
                   identity_subject |-> Identity[r.worker],
                   offer |-> r.offer]
<1>1. r.worker \in Workers /\ r.pc = "register"
  BY SlotFacts DEF RegisterHeartbeat, At
<1>2. /\ workers' = [workers EXCEPT ![r.worker] = row]
      /\ ~Rebinds(r.worker, Identity[r.worker], r.offer)
      /\ intent' = intent
  BY DEF RegisterHeartbeat, Upsert
<1>3. /\ workers'[r.worker] = row
      /\ \A v \in Workers \ {r.worker} : workers'[v] = workers[v]
  BY <1>1, <1>2 DEF IInv, TypeOK
<1>4. /\ row.status # Absent /\ row.offer = r.offer
      /\ workers[r.worker].status = "revoked" => row.status = "revoked"
  BY DEF Absent
<1> HIDE DEF row
<1>5. Registered(r.worker) => workers[r.worker].offer.tenant_id = r.offer.tenant_id
  BY <1>2 DEF Rebinds
<1> QED  BY <1>2, <1>3, <1>4, <1>5 DEF TenantsStay, Registered, RevocationStands

LEMMA SetStatusStays ==
  ASSUME IInv, RevocationStands, NEW w \in Workers, NEW status \in HostStatuses,
         HostSetStatus(w, status)
  PROVE  TenantsStay /\ RevocationStands'
<1> DEFINE row == [workers[w] EXCEPT !.status = status]
<1>1. /\ workers' = [workers EXCEPT ![w] = row]
      /\ intent' = [intent EXCEPT ![w] = status]
  BY DEF HostSetStatus, SetStatus
<1>2. workers[w] \in WorkerRow /\ status \in WorkerStatus
  BY HostStatusesAssumption DEF IInv, TypeOK
<1>3. row.status = status /\ row.offer = workers[w].offer /\ status # Absent
  BY <1>2 DEF WorkerRow, WorkerStatus, Absent
<1> HIDE DEF row
<1>4. /\ workers'[w] = row /\ intent'[w] = status
      /\ \A v \in Workers \ {w} : workers'[v] = workers[v] /\ intent'[v] = intent[v]
  BY <1>1 DEF IInv, TypeOK
<1> QED  BY <1>3, <1>4 DEF TenantsStay, Registered, RevocationStands

LEMMA WorkersStay ==
  ASSUME IInv, RevocationStands, [Next]_vars
  PROVE  TenantsStay /\ RevocationStands'
<1>1. CASE UNCHANGED <<workers, intent>>
  BY <1>1 DEF TenantsStay, Registered, RevocationStands
<1> QED  BY <1>1, WorkersChange, RegisterStays, SetStatusStays

-----------------------------------------------------------------------------
(* What a handler read of its worker.                                      *)

LEMMA OffersStay ==
  ASSUME AdmissionInv, [Next]_vars, NEW s \in Slots
  PROVE  OfferLasts(s)'
<1> DEFINE r == requests[s]
<1>1. IInv /\ TenantsStay /\ OfferLasts(s)
  BY WorkersStay DEF AdmissionInv
<1>2. r \in Request /\ (r.pc \in {"expire", "claim"} => r.worker \in Workers)
  BY <1>1, SlotFacts DEF At
<1>3. CASE requests'[s] = r
  BY <1>1, <1>2, <1>3 DEF OfferLasts, Serves, TenantsStay, Registered
<1>4. CASE AdmitLease(s)
  <2> DEFINE a == [r EXCEPT !.pc = "expire"]
             b == [a EXCEPT !.capability_ids = Effective(r)]
             new == [b EXCEPT !.offer = workers[r.worker].offer]
  <2>1. requests' = [requests EXCEPT ![s] = new]
    BY <1>1, <1>2, <1>4 DEF AdmitLease, IInv, TypeOK, Request
  <2>2. new.worker = r.worker /\ new.offer = workers[r.worker].offer
    BY <1>2 DEF Request
  <2>3. workers' = workers /\ Registered(r.worker)
    BY <1>4 DEF AdmitLease
  <2> HIDE DEF new
  <2>4. requests'[s] = new
    BY <1>1, <2>1 DEF IInv, TypeOK
  <2> QED  BY <2>2, <2>3, <2>4 DEF OfferLasts, Serves, Registered
<1>5. CASE ExpireBeforeLease(s)
  <2>1. r.pc = "expire" /\ workers' = workers /\ Goto(s, "claim")
    BY <1>5 DEF ExpireBeforeLease, At
  <2>2. requests'[s].worker = r.worker /\ requests'[s].offer = r.offer
    BY <1>1, <2>1, GotoOwn
  <2> QED  BY <1>1, <2>1, <2>2 DEF OfferLasts, Serves, Registered
<1>6. CASE requests'[s].pc \notin {"expire", "claim"}
  BY <1>6 DEF OfferLasts
<1> QED  BY <1>1, <1>3, <1>4, <1>5, <1>6, OwnStep, HandlerAside DEF Aside

-----------------------------------------------------------------------------
(* Claims stay within the tenant.                                          *)

LEMMA ClaimHolder ==
  ASSUME AdmissionInv, NEW s \in Slots, NEW j \in Jobs, ClaimJob(s, j)
  PROVE  \A k \in Jobs : HolderServes(k)'
<1> DEFINE r == requests[s]
           n == jobs[j].attempts + 1
           a == [jobs[j] EXCEPT !.status = "processing"]
           b == [a EXCEPT !.attempts = n]
           c == [b EXCEPT !.claim_token = n]
           d == [c EXCEPT !.leased_by = r.worker]
           row == [d EXCEPT !.lease_left = r.span]
<1>1. IInv /\ jobs[j] \in Row /\ workers' = workers
  BY RowFacts DEF AdmissionInv, ClaimJob
<1>2. Serves(r.worker, r.offer.tenant_id) /\ Submission[j].tenant_id = r.offer.tenant_id
  BY DEF AdmissionInv, OfferLasts, ClaimJob, At, Lease, Candidates
<1>3. jobs' = [jobs EXCEPT ![j] = row]
  BY <1>1 DEF ClaimJob, Lease, IInv, TypeOK, Row
<1>4. row.leased_by = r.worker
  BY <1>1 DEF Row
<1> HIDE DEF row
<1>5. jobs'[j] = row /\ \A k \in Jobs \ {j} : jobs'[k] = jobs[k]
  BY <1>1, <1>3 DEF IInv, TypeOK
<1> QED  BY <1>1, <1>2, <1>4, <1>5 DEF AdmissionInv, HolderServes, Serves, Registered

LEMMA HoldersStay ==
  ASSUME AdmissionInv, [Next]_vars
  PROVE  \A k \in Jobs : HolderServes(k)'
<1>1. IInv /\ TenantsStay
  BY WorkersStay DEF AdmissionInv
<1>2. ASSUME NEW k \in Jobs, NoNewHolder(k) PROVE HolderServes(k)'
  <2>1. jobs[k].leased_by \in Workers \cup {Nobody} /\ HolderServes(k)
    BY <1>1, RowFacts DEF Row, AdmissionInv
  <2> QED  BY <1>1, <1>2, <2>1 DEF HolderServes, NoNewHolder, Serves, TenantsStay, Registered
<1> QED  BY <1>1, <1>2, HoldersMove, ClaimHolder

-----------------------------------------------------------------------------
(* The theorems.                                                           *)

LEMMA AdmissionInit == Init => AdmissionInv
BY InitIInv DEF Init, AdmissionInv, RevocationStands, OfferLasts, HolderServes, JobsInit,
   NoRow, Idle

LEMMA AdmissionNext == AdmissionInv /\ [Next]_vars => AdmissionInv'
<1> SUFFICES ASSUME AdmissionInv, [Next]_vars PROVE AdmissionInv'
  OBVIOUS
<1>1. IInv' /\ RevocationStands'
  BY NextIInv, WorkersStay DEF AdmissionInv
<1>2. \A s \in Slots : OfferLasts(s)'
  BY OffersStay
<1>3. \A j \in Jobs : HolderServes(j)'
  BY HoldersStay
<1> QED  BY <1>1, <1>2, <1>3 DEF AdmissionInv

LEMMA AdmissionInvariance == Spec => []AdmissionInv
BY AdmissionInit, AdmissionNext, PTL DEF Spec

\* No worker ever holds a job of another tenant, although lease claims for the tenant it
\* read two awaits before.
THEOREM TenantsApart == Spec => []TenantsNeverMix
<1>1. AdmissionInv => TenantsNeverMix
  BY DEF AdmissionInv, HolderServes, Serves, TenantsNeverMix
<1> QED  BY <1>1, AdmissionInvariance, PTL

LEMMA OnlyApprovedEnter ==
  ASSUME IInv, [Next]_vars, NEW s \in Slots, requests[s].pc = "authorize",
         requests'[s].pc \in {"register", "admit", "load"}
  PROVE  Approved(requests[s].worker, Identity[requests[s].worker])
<1>1. HandlerStep(s)
  BY OwnStep
<1>2. Authorize(s)
  BY <1>1
  DEF HandlerStep, LeaseStep, JobStep, RegisterHeartbeat, RefuseHeartbeat, AdmitLease,
     DenyLease, ExpireBeforeLease, ClaimJob, ClaimNothing, MintGrants, LoadOwnedJob,
     VerifyOutput, RejectCompletion, SettleHeartbeat, SettleComplete, SettleFail,
     SettleRelease, RefuseStale, RecordSettlement, At
<1> QED  BY <1>2, AuthorizeAside

\* No handler lets a request of a revoked worker past the enrolment check.
THEOREM RevocationHolds == Spec => RevokedIsNotAdmitted
<1>1. ASSUME AdmissionInv, [Next]_vars, NEW s \in Slots, requests[s].pc = "authorize",
             requests'[s].pc \in {"register", "admit", "load"}
      PROVE  intent[requests[s].worker] # "revoked"
  <2>1. requests[s].worker \in Workers
    BY <1>1, SlotFacts DEF AdmissionInv, At
  <2>2. Approved(requests[s].worker, Identity[requests[s].worker])
    BY <1>1, OnlyApprovedEnter DEF AdmissionInv
  <2> QED  BY <1>1, <2>1, <2>2 DEF AdmissionInv, RevocationStands, Approved, Registered, Absent
<1>2. AdmissionInv /\ [Next]_vars => AdmitsNoRevoked
  BY <1>1 DEF AdmitsNoRevoked
<1> QED  BY <1>2, AdmissionInvariance, PTL DEF Spec, RevokedIsNotAdmitted
-----------------------------------------------------------------------------
(* What enrolment adds.                                                    *)

SubjectsAreUnique ==
  \A v, w \in Workers : v # w /\ Registered(v) /\ Registered(w) =>
    workers[v].identity_subject # workers[w].identity_subject

EnrollmentInv ==
  /\ AdmissionInv
  /\ SubjectsAreUnique
  /\ enrolling \subseteq Asked

-----------------------------------------------------------------------------
\* The statement both writers use keeps every binding and the host's revocations.
LEMMA UpsertKeeps ==
  ASSUME workers \in [Workers -> WorkerRow], SubjectsAreUnique,
         NEW w \in Workers, NEW subject, NEW offer, NEW draining,
         Upsert(w, subject, offer, draining)
  PROVE  /\ KeepsBindings
         /\ \A v \in Workers : workers[v].status = "revoked" => workers'[v].status = "revoked"
<1> DEFINE row == [status |-> IF workers[w].status = "revoked" THEN "revoked"
                              ELSE IF draining THEN "draining" ELSE "active",
                   identity_subject |-> subject,
                   offer |-> offer]
<1>1. /\ workers' = [workers EXCEPT ![w] = row]
      /\ ~Rebinds(w, subject, offer)
      /\ SubjectFree(w, subject)
  BY DEF Upsert
<1>2. /\ row.status # Absent /\ row.identity_subject = subject /\ row.offer = offer
      /\ workers[w].status = "revoked" => row.status = "revoked"
  BY DEF Absent
<1> HIDE DEF row
<1>3. workers'[w] = row /\ \A v \in Workers \ {w} : workers'[v] = workers[v]
  BY <1>1
<1>4. \A v \in Workers : Registered(v) =>
        /\ Registered(v)'
        /\ workers'[v].identity_subject = workers[v].identity_subject
        /\ workers'[v].offer.tenant_id = workers[v].offer.tenant_id
  BY <1>1, <1>2, <1>3 DEF Rebinds, Registered
<1>5. ASSUME NEW u \in Workers, NEW v \in Workers, u # v, Registered(u)', Registered(v)'
      PROVE  workers'[u].identity_subject # workers'[v].identity_subject
  <2>1. \A x \in Workers \ {w} : workers'[x].identity_subject # subject
    BY <1>1, <1>3 DEF SubjectFree
  <2>2. CASE u = w
    BY <1>2, <1>3, <1>5, <2>1, <2>2
  <2>3. CASE v = w
    BY <1>2, <1>3, <1>5, <2>1, <2>3
  <2>4. CASE u # w /\ v # w
    BY <1>3, <1>5, <2>4 DEF SubjectsAreUnique, Registered
  <2> QED  BY <2>2, <2>3, <2>4
<1> QED  BY <1>2, <1>3, <1>4, <1>5 DEF KeepsBindings

\* What does not touch a binding keeps it.
LEMMA SameKeeps ==
  ASSUME SubjectsAreUnique,
         \A w \in Workers :
           /\ Registered(w)' <=> Registered(w)
           /\ workers'[w].identity_subject = workers[w].identity_subject
           /\ workers'[w].offer = workers[w].offer
  PROVE  KeepsBindings
BY DEF SubjectsAreUnique, KeepsBindings

LEMMA ServeKeeps ==
  ASSUME EnrollmentInv, [Next]_vars
  PROVE  KeepsBindings
<1>1. IInv /\ SubjectsAreUnique /\ workers \in [Workers -> WorkerRow]
  BY DEF EnrollmentInv, AdmissionInv, IInv, TypeOK
<1>2. CASE UNCHANGED <<workers, intent>>
  BY <1>1, <1>2, SameKeeps DEF Registered
<1>3. ASSUME NEW s \in Slots, RegisterHeartbeat(s) PROVE KeepsBindings
  <2>1. requests[s].worker \in Workers
    BY <1>1, <1>3, SlotFacts DEF RegisterHeartbeat, At
  <2> QED  BY <1>1, <1>3, <2>1, UpsertKeeps DEF RegisterHeartbeat
<1>4. ASSUME NEW w \in Workers, NEW status \in HostStatuses, HostSetStatus(w, status)
      PROVE  KeepsBindings
  <2> DEFINE row == [workers[w] EXCEPT !.status = status]
  <2>1. workers' = [workers EXCEPT ![w] = row] /\ Registered(w)
    BY <1>4 DEF HostSetStatus, SetStatus
  <2>2. workers[w] \in WorkerRow /\ status \in WorkerStatus
    BY <1>1, HostStatusesAssumption
  <2>3. /\ row.status # Absent /\ row.offer = workers[w].offer
        /\ row.identity_subject = workers[w].identity_subject
    BY <2>2 DEF WorkerRow, WorkerStatus, Absent
  <2> HIDE DEF row
  <2>4. workers'[w] = row /\ \A v \in Workers \ {w} : workers'[v] = workers[v]
    BY <1>1, <2>1
  <2> QED  BY <1>1, <2>1, <2>3, <2>4, SameKeeps DEF Registered
<1> QED  BY <1>2, <1>3, <1>4, WorkersChange

-----------------------------------------------------------------------------
(* Writing the row of an enrolment disturbs nothing the handlers rely on.  *)

LEMMA WriteRowKeeps ==
  ASSUME EnrollmentInv, NEW e \in Asked, WriteRow(e)
  PROVE  KeepsBindings /\ AdmissionInv'
<1> DEFINE offer == Bare(e.tenant_id)
<1>1. /\ IInv /\ RevocationStands /\ SubjectsAreUnique
      /\ workers \in [Workers -> WorkerRow]
  BY DEF EnrollmentInv, AdmissionInv, IInv, TypeOK
<1>2. e.worker \in Workers /\ e.identity_subject \in Subjects /\ offer \in Offers
  BY AskedAssumption
<1> HIDE DEF offer
<1>3. /\ Upsert(e.worker, e.identity_subject, offer, FALSE)
      /\ UNCHANGED <<jobs, objects, requests, audit, grantee, intent>>
  BY DEF WriteRow, offer
<1>4. /\ KeepsBindings
      /\ \A v \in Workers : workers[v].status = "revoked" => workers'[v].status = "revoked"
  BY <1>1, <1>2, <1>3, UpsertKeeps
<1>5. workers' \in [Workers -> WorkerRow]
  <2> DEFINE row == [status |-> IF workers[e.worker].status = "revoked" THEN "revoked" ELSE "active",
                     identity_subject |-> e.identity_subject, offer |-> offer]
  <2>1. workers' = [workers EXCEPT ![e.worker] = row]
    BY <1>3 DEF Upsert
  <2>2. row \in WorkerRow
    BY <1>2 DEF WorkerRow, WorkerStatus
  <2> HIDE DEF row
  <2> QED  BY <1>1, <2>1, <2>2
<1>6. IInv'
  <2>1. TypeOK'
    BY <1>1, <1>3, <1>5 DEF IInv, TypeOK
  <2>2. (\A j \in Jobs : RowCoherent(j))' /\ TokensAreMinted'
    BY <1>1, <1>3 DEF IInv, RowCoherent, TokensAreMinted, Stored
  <2>3. ASSUME NEW s \in Slots PROVE HandlerKnowsItsClaim(s)'
    BY <1>1, <1>3 DEF IInv, HandlerKnowsItsClaim, Stored
  <2>4. ASSUME NEW s \in Slots PROVE ReadingsLast(s)'
    BY <1>1, <1>3 DEF IInv, ReadingsLast, Stored
  <2>5. AuditIsTruthful'
    BY <1>1, <1>3 DEF IInv, AuditIsTruthful, Stored
  <2> QED  BY <2>1, <2>2, <2>3, <2>4, <2>5 DEF IInv
<1>7. TenantsStay /\ RevocationStands'
  BY <1>1, <1>3, <1>4 DEF KeepsBindings, TenantsStay, RevocationStands
<1>8. ASSUME NEW s \in Slots PROVE OfferLasts(s)'
  <2>1. OfferLasts(s) /\ (requests[s].pc \in {"expire", "claim"} => requests[s].worker \in Workers)
    BY <1>1, SlotFacts DEF EnrollmentInv, AdmissionInv, At
  <2> QED  BY <1>3, <1>7, <2>1 DEF OfferLasts, Serves, TenantsStay, Registered
<1>9. ASSUME NEW j \in Jobs PROVE HolderServes(j)'
  <2>1. jobs[j].leased_by \in Workers \cup {Nobody} /\ HolderServes(j)
    BY <1>1, RowFacts DEF Row, EnrollmentInv, AdmissionInv
  <2> QED  BY <1>3, <1>7, <2>1 DEF HolderServes, Serves, TenantsStay, Registered
<1> QED  BY <1>4, <1>6, <1>7, <1>8, <1>9 DEF AdmissionInv

-----------------------------------------------------------------------------
LEMMA EnrollmentInitInv == EnrollmentInit => EnrollmentInv
BY AdmissionInit
DEF EnrollmentInit, EnrollmentInv, SubjectsAreUnique, Init, WorkersInit, NoWorkerRow, Registered

LEMMA EnrollmentSteps ==
  ASSUME EnrollmentInv, [EnrollmentNext]_enrollment
  PROVE  KeepsBindings /\ EnrollmentInv'
<1>1. KeepsBindings => SubjectsAreUnique'
  BY DEF KeepsBindings, SubjectsAreUnique
<1>2. AdmissionInv /\ SubjectsAreUnique /\ enrolling \subseteq Asked
  BY DEF EnrollmentInv
<1>3. CASE Serve \/ UNCHANGED enrollment
  <2>1. [Next]_vars /\ enrolling' = enrolling
    BY <1>3 DEF Serve, enrollment
  <2> QED  BY <1>1, <1>2, <2>1, ServeKeeps, AdmissionNext DEF EnrollmentInv
<1>4. ASSUME NEW e \in Asked, FindRow(e) \/ Abandon(e)
      PROVE  KeepsBindings /\ EnrollmentInv'
  <2>1. UNCHANGED vars /\ enrolling' \subseteq Asked
    BY <1>2, <1>4 DEF FindRow, Abandon
  <2> QED  BY <1>1, <1>2, <2>1, ServeKeeps, AdmissionNext DEF EnrollmentInv
<1>5. ASSUME NEW e \in Asked, WriteRow(e)
      PROVE  KeepsBindings /\ EnrollmentInv'
  <2>1. enrolling' \subseteq Asked
    BY <1>2, <1>5 DEF WriteRow
  <2> QED  BY <1>1, <1>5, <2>1, WriteRowKeeps DEF EnrollmentInv
<1> QED  BY <1>3, <1>4, <1>5 DEF EnrollmentNext

LEMMA EnrollmentInvariance == EnrollmentSpec => []EnrollmentInv
BY EnrollmentInitInv, EnrollmentSteps, PTL DEF EnrollmentSpec

\* Whoever writes a worker's row first, any number of hosts that enrol it or the worker's own
\* heartbeat, binds it to one identity and tenant for good, and no identity to two workers.
THEOREM BindingsStand == EnrollmentSpec => BindingsArePermanent
<1>1. EnrollmentInv /\ [EnrollmentNext]_enrollment => KeepsBindings
  BY EnrollmentSteps
<1> QED  BY <1>1, EnrollmentInvariance, PTL DEF EnrollmentSpec, BindingsArePermanent

\* Tenants stay apart while hosts enrol workers beside the coordinator's handlers.
THEOREM TenantsApartWhileEnrolling == EnrollmentSpec => []TenantsNeverMix
<1>1. EnrollmentInv => TenantsNeverMix
  BY DEF EnrollmentInv, AdmissionInv, HolderServes, Serves, TenantsNeverMix
<1> QED  BY <1>1, EnrollmentInvariance, PTL
=============================================================================
