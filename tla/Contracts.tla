----------------------------- MODULE Contracts ------------------------------
(***************************************************************************)
(* The vocabulary the parts of the pool share (contracts.py): identifiers, *)
(* what a host submits, what a worker advertises and the statuses.         *)
(***************************************************************************)
EXTENDS Integers, FiniteSets

CONSTANTS
  Jobs,         \* job ids a host may submit
  Workers,      \* worker ids
  Nobody,       \* SQL NULL in a worker column
  Capabilities, \* capability ids
  OutputKeys,   \* asset keys a job can name as its output
  Digests,      \* sha256 of the contents an output can have
  NoDigest,     \* no content: SQL NULL, or no object under the key
  Submission,   \* job id -> what the host submits under it
  Offers,       \* what a worker can advertise: capabilities, tenant, hardware
  NoOffer       \* the offer of a worker id without a row

ASSUME JobsAssumption == IsFiniteSet(Jobs)
ASSUME NobodyAssumption == Nobody \notin Workers
ASSUME NoDigestAssumption == NoDigest \notin Digests
ASSUME NoOfferAssumption == NoOffer \notin Offers

\* Bounds of validate_job_submission that the lifecycle of a job depends on.
ASSUME SubmissionAssumption ==
  \A j \in Jobs : /\ Submission[j].attempt_budget \in 1..20
                  /\ Submission[j].output_key \in OutputKeys

ASSUME OfferAssumption ==
  \A offer \in Offers : offer.capability_ids \subseteq Capabilities

JobStatus == {"queued", "processing", "completed", "failed", "cancelled"}

Terminal == {"completed", "failed", "cancelled"}

WorkerStatus == {"active", "draining", "revoked"}

\* The status of an id that has no row yet.
Absent == "absent"

Budget(j) == Submission[j].attempt_budget

OutputKey(j) == Submission[j].output_key
=============================================================================
