----------------------------- MODULE Enrollment ------------------------------
(***************************************************************************)
(* enroll_worker (service.py): a host admits a worker by reading its row   *)
(* and, if there is none, writing one.  It does so beside the coordinator's*)
(* handlers, whose heartbeats write the same row; what it found may be     *)
(* out of date when it writes.                                             *)
(***************************************************************************)
EXTENDS Coordinator

CONSTANT Asked   \* enrolments hosts ask for: [worker, identity_subject, tenant_id]

\* The row of a worker that was enrolled and never called.
Bare(tenant) ==
  [capability_ids |-> {}, tenant_id |-> tenant, vram_mb |-> 0, gpu_model |-> "none",
   labels |-> {}, runtime_versions |-> {}]

\* Hosts do not contradict the allowlist on a worker's tenant; for a worker it does not list they
\* may contradict each other.
ASSUME AskedAssumption ==
  \A e \in Asked :
    /\ e.worker \in Workers /\ e.identity_subject \in Subjects /\ Bare(e.tenant_id) \in Offers
    /\ \/ Enrollments[e.worker].identity_subject = NoSubject
       \/ Enrollments[e.worker].tenant_id = e.tenant_id

VARIABLE enrolling   \* enrolments that found no row and are about to write one

enrollment == <<vars, enrolling>>

EnrollmentInit == Init /\ enrolling = {}

\* An existing row is returned or refused, whichever binding it has, and never changed.
FindRow(e) ==
  /\ ~Registered(e.worker)
  /\ enrolling' = enrolling \cup {e}
  /\ UNCHANGED vars

\* Mistake: the row is written as it was found, that is, over anything.
WriteRowAnyway(e) ==
  /\ e \in enrolling
  /\ SubjectFree(e.worker, e.identity_subject)
  /\ workers' = [workers EXCEPT ![e.worker] =
       [status |-> IF @.status = "revoked" THEN "revoked" ELSE "active",
        identity_subject |-> e.identity_subject, offer |-> Bare(e.tenant_id)]]
  /\ enrolling' = enrolling \ {e}
  /\ UNCHANGED <<jobs, objects, requests, audit, grantee, intent>>

\* The statement a heartbeat uses too: a worker that called meanwhile loses what it advertised.
WriteRow(e) ==
  /\ e \in enrolling
  /\ Upsert(e.worker, e.identity_subject, Bare(e.tenant_id), FALSE)
  /\ enrolling' = enrolling \ {e}
  /\ UNCHANGED <<jobs, objects, requests, audit, grantee, intent>>

\* It raises, or the host gave up.
Abandon(e) ==
  /\ e \in enrolling
  /\ enrolling' = enrolling \ {e}
  /\ UNCHANGED vars

Serve == Next /\ UNCHANGED enrolling

EnrollmentNext == Serve \/ \E e \in Asked : FindRow(e) \/ WriteRow(e) \/ Abandon(e)

EnrollmentSpec == EnrollmentInit /\ [][EnrollmentNext]_enrollment
-----------------------------------------------------------------------------
KeepsBindings ==
  /\ \A w \in Workers : Registered(w) =>
       /\ Registered(w)'
       /\ workers'[w].identity_subject = workers[w].identity_subject
       /\ workers'[w].offer.tenant_id = workers[w].offer.tenant_id
  /\ \A v, w \in Workers : v # w /\ Registered(v)' /\ Registered(w)' =>
       workers'[v].identity_subject # workers'[w].identity_subject

\* "Existing bindings cannot be changed with this method or a worker heartbeat": whoever gets to
\* write a worker's row first, hosts that enrol it differently or the worker itself, binds it for
\* good to one identity and tenant, and no identity is bound to two workers.
BindingsArePermanent == [][KeepsBindings]_enrollment
=============================================================================
