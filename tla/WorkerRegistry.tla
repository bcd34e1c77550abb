--------------------------- MODULE WorkerRegistry ---------------------------
(***************************************************************************)
(* The pool_workers table (postgres.py PostgresWorkerRegistry, memory.py   *)
(* MemoryWorkerRegistry): which identity and tenant a worker id is bound   *)
(* to, the status the host gave it and what it last advertised.            *)
(***************************************************************************)
EXTENDS Contracts

CONSTANTS
  Subjects,     \* identity subjects a verified credential can carry
  NoSubject,    \* SQL NULL in identity_subject
  Enrollments   \* the host's allowlist: worker id -> its subject and tenant

ASSUME NoSubjectAssumption == NoSubject \notin Subjects

VARIABLE workers

WorkerRow == [status           : WorkerStatus \cup {Absent},
              identity_subject : Subjects \cup {NoSubject},
              offer            : Offers \cup {NoOffer}]

NoWorkerRow ==
  [status |-> Absent, identity_subject |-> NoSubject, offer |-> NoOffer]

WorkersInit == workers = [w \in Workers |-> NoWorkerRow]

Registered(w) == workers[w].status # Absent

\* UNIQUE (identity_subject): no other worker id holds the subject.
SubjectFree(w, subject) ==
  \A v \in Workers \ {w} : workers[v].identity_subject # subject

\* The conflict predicate of the upsert: a row is never rebound to another identity or tenant.
Rebinds(w, subject, offer) ==
  /\ Registered(w)
  /\ \/ workers[w].identity_subject # subject
     \/ workers[w].offer.tenant_id # offer.tenant_id

\* Mistake: the heartbeat replaces the stored status whatever it is.
UpsertForgivingly(w, subject, offer, draining) ==
  /\ ~Rebinds(w, subject, offer)
  /\ SubjectFree(w, subject)
  /\ workers' = [workers EXCEPT ![w] =
       [status |-> IF draining THEN "draining" ELSE "active",
        identity_subject |-> subject, offer |-> offer]]

\* A heartbeat's draining flag replaces the stored status, unless that is revoked.
Upsert(w, subject, offer, draining) ==
  /\ ~Rebinds(w, subject, offer)
  /\ SubjectFree(w, subject)
  /\ workers' = [workers EXCEPT ![w] =
       [status |-> IF @.status = "revoked" THEN "revoked"
                   ELSE IF draining THEN "draining" ELSE "active",
        identity_subject |-> subject,
        offer |-> offer]]

SetStatus(w, status) ==
  /\ Registered(w)
  /\ workers' = [workers EXCEPT ![w].status = status]

\* _approved_enrollment: the row decides, and the allowlist only for a worker without one.
Approved(w, subject) ==
  IF Registered(w)
    THEN workers[w].identity_subject = subject /\ workers[w].status # "revoked"
    ELSE Enrollments[w].identity_subject = subject

Revoked(w, subject) ==
  workers[w].status = "revoked" /\ workers[w].identity_subject = subject

\* The tenant the approved enrolment binds the worker to.
EnrolledTenant(w) ==
  IF Registered(w) THEN workers[w].offer.tenant_id ELSE Enrollments[w].tenant_id
=============================================================================
