--------------------------- MODULE Authentication ---------------------------
(***************************************************************************)
(* service.py WorkerPoolService.authenticate with the authenticators of    *)
(* auth.py, Google's and the one for static tokens, whichever a deployment *)
(* has: how a request with a credential is admitted.  Each action is the   *)
(* code between two awaits.  A rate limiter is the budgets RateLimiter     *)
(* keeps (see there), counted in calls; what the credential and the        *)
(* registry say is a choice (see WorkerRegistry).                          *)
(***************************************************************************)
EXTENDS Integers, FiniteSets

CONSTANTS
  Calls,             \* requests that can be in progress together
  Nobody, NoThread,
  Sources, Workers,  \* network peers, and the workers credentials stand for
  Threads,           \* verifier threads
  SourceLimit, PreAuthLimit, WorkerLimit, GlobalLimit, AuditLimit,
  MaxAuthConcurrency, MaxVerifications,
  MaxRefills         \* bound on the minutes that pass

ASSUME AdmissionAssumption ==
  {SourceLimit, PreAuthLimit, WorkerLimit, GlobalLimit, AuditLimit,
   MaxAuthConcurrency, MaxVerifications} \subseteq Nat \ {0}

ASSUME CallersAssumption == IsFiniteSet(Calls) /\ Nobody \notin Workers /\ NoThread \notin Threads

ASSUME RefillAssumption == MaxRefills \in Nat

VARIABLES
  calls,        \* where each call is, the worker it stands for, its verifier
  active_auth,  \* the counter of calls between admission and answer
  slots,        \* the semaphore's value
  verifying,    \* verifier threads that run, with a caller or without
  budgets,      \* what the limiters' keys may still spend
  drawn,        \* history: what peers took of the shared budgets since they were refilled
  refills

vars == <<calls, active_auth, slots, verifying, budgets, drawn, refills>>

\* The awaits of a call; "verified" has its verifier's answer and has not resumed yet.
\* "rejecting" is the audit write of a call that was never counted as active.
Inside == {"verifying", "verified", "find", "existing", "approve", "auditing"}
Call == [at : Inside \cup {"idle", "rejecting"},
         worker : Workers \cup {Nobody}, thread : Threads \cup {NoThread}]
Idle == [at |-> "idle", worker |-> Nobody, thread |-> NoThread]

Full == [source |-> [s \in Sources |-> SourceLimit], pre_auth |-> PreAuthLimit,
         worker |-> [w \in Workers |-> WorkerLimit], global |-> GlobalLimit,
         audit |-> AuditLimit]
Undrawn == [pre_auth |-> [s \in Sources |-> 0], global |-> [w \in Workers |-> 0]]

TypeOK ==
  /\ calls \in [Calls -> Call]
  /\ active_auth \in 0..MaxAuthConcurrency
  /\ slots \in 0..MaxVerifications
  /\ verifying \subseteq Threads
  /\ budgets \in [source : [Sources -> 0..SourceLimit], pre_auth : 0..PreAuthLimit,
                  worker : [Workers -> 0..WorkerLimit], global : 0..GlobalLimit,
                  audit : 0..AuditLimit]
  /\ drawn \in [pre_auth : [Sources -> 0..PreAuthLimit], global : [Workers -> 0..GlobalLimit]]
  /\ refills \in 0..MaxRefills

Init ==
  /\ calls = [c \in Calls |-> Idle]
  /\ active_auth = 0 /\ slots = MaxVerifications /\ verifying = {}
  /\ budgets = Full /\ drawn = Undrawn /\ refills = 0

\* A key is refused when its budget is spent, or, still without a bucket, at capacity.
Refused(left, limit) == left = 0 \/ left = limit
-----------------------------------------------------------------------------
(* The first step of a call: its budgets, its credential and the verifier. *)

Passes(s) == budgets.source[s] > 0 /\ budgets.pre_auth > 0

Charged(s) == [budgets EXCEPT !.source[s] = @ - 1, !.pre_auth = @ - 1]

Draws(s) == drawn' = [drawn EXCEPT !.pre_auth[s] = @ + 1]

\* Mistake: the shared budget is charged before the peer's own is looked at.
TurnAwayCharged(c, s) ==
  /\ calls[c].at = "idle"
  /\ budgets.pre_auth > 0
  /\ ~Passes(s) \/ active_auth >= MaxAuthConcurrency
  /\ budgets' = [budgets EXCEPT !.pre_auth = @ - 1]
  /\ Draws(s)
  /\ UNCHANGED <<calls, active_auth, slots, verifying, refills>>

\* 429 before anything is verified or written: the peer's budget, the shared one, or too many inside.
TurnAway(c, s) ==
  /\ calls[c].at = "idle"
  /\ \/ Refused(budgets.source[s], SourceLimit) /\ UNCHANGED <<budgets, drawn>>
     \/ /\ budgets.source[s] > 0 /\ budgets.pre_auth = 0
        /\ budgets' = [budgets EXCEPT !.source[s] = @ - 1]
        /\ UNCHANGED drawn
     \/ /\ Passes(s) /\ active_auth >= MaxAuthConcurrency
        /\ budgets' = Charged(s) /\ Draws(s)
  /\ UNCHANGED <<calls, active_auth, slots, verifying, refills>>

\* _audit_auth: a rejection waits for its audit row while the sampling budget lasts.
Sampled(left) == [left EXCEPT !.audit = IF @ = 0 THEN 0 ELSE @ - 1]

\* No credential, or an oversized one: rejected before the call counts as active.
RejectCredential(c, s) ==
  /\ calls[c].at = "idle" /\ Passes(s) /\ active_auth < MaxAuthConcurrency
  /\ budgets' = Sampled(Charged(s)) /\ Draws(s)
  /\ calls' = [calls EXCEPT ![c].at = IF budgets.audit > 0 THEN "rejecting" ELSE "idle"]
  /\ UNCHANGED <<active_auth, slots, verifying, refills>>

\* Mistake: one call too many inside.
StartOneMore(c, s, t) ==
  /\ calls[c].at = "idle" /\ Passes(s) /\ active_auth <= MaxAuthConcurrency
  /\ slots > 0 /\ t \notin verifying
  /\ budgets' = Charged(s) /\ Draws(s)
  /\ calls' = [calls EXCEPT ![c] = [Idle EXCEPT !.at = "verifying", !.thread = t]]
  /\ active_auth' = active_auth + 1
  /\ slots' = slots - 1
  /\ verifying' = verifying \cup {t}
  /\ UNCHANGED refills

\* The call is counted and its verifier started: a free slot is taken without waiting.
StartVerifier(c, s, t) ==
  /\ calls[c].at = "idle" /\ Passes(s) /\ active_auth < MaxAuthConcurrency
  /\ slots > 0 /\ t \notin verifying
  /\ budgets' = Charged(s) /\ Draws(s)
  /\ calls' = [calls EXCEPT ![c] = [Idle EXCEPT !.at = "verifying", !.thread = t]]
  /\ active_auth' = active_auth + 1
  /\ slots' = slots - 1
  /\ verifying' = verifying \cup {t}
  /\ UNCHANGED refills

\* Mistake: the early way out forgets the counter.
BusyStillCounted(c, s) ==
  /\ calls[c].at = "idle" /\ Passes(s) /\ active_auth < MaxAuthConcurrency
  /\ slots = 0
  /\ budgets' = Charged(s) /\ Draws(s)
  /\ active_auth' = active_auth + 1
  /\ UNCHANGED <<calls, slots, verifying, refills>>

\* WorkerAuthBusy: every slot is taken, and the counter goes up and down in one step.
VerifierBusy(c, s) ==
  /\ calls[c].at = "idle" /\ Passes(s) /\ active_auth < MaxAuthConcurrency
  /\ slots = 0
  /\ budgets' = Charged(s) /\ Draws(s)
  /\ UNCHANGED <<calls, active_auth, slots, verifying, refills>>

\* No bearer token, or a static one that names nobody: rejected as an active call, in the same step.
RejectToken(c, s) ==
  /\ calls[c].at = "idle" /\ Passes(s) /\ active_auth < MaxAuthConcurrency
  /\ budgets' = Sampled(Charged(s)) /\ Draws(s)
  /\ IF budgets.audit > 0
       THEN calls' = [calls EXCEPT ![c].at = "auditing"] /\ active_auth' = active_auth + 1
       ELSE UNCHANGED <<calls, active_auth>>
  /\ UNCHANGED <<slots, verifying, refills>>

\* StaticTokenWorkerAuthenticator: the token names its worker, without a verifier.
Recognise(c, s, w) ==
  /\ calls[c].at = "idle" /\ Passes(s) /\ active_auth < MaxAuthConcurrency
  /\ budgets' = Charged(s) /\ Draws(s)
  /\ calls' = [calls EXCEPT ![c] = [Idle EXCEPT !.at = "approve", !.worker = w]]
  /\ active_auth' = active_auth + 1
  /\ UNCHANGED <<slots, verifying, refills>>
-----------------------------------------------------------------------------
(* The verifier thread, and what its answer leads to.                      *)

\* Mistake: the slot is given back by the caller, so a thread without one keeps it.
FinishForCaller(t) ==
  /\ t \in verifying
  /\ verifying' = verifying \ {t}
  /\ IF \E c \in Calls : calls[c].thread = t
       THEN /\ slots' = slots + 1
            /\ calls' = [c \in Calls |-> IF calls[c].thread = t
                           THEN [calls[c] EXCEPT !.at = "verified", !.thread = NoThread]
                           ELSE calls[c]]
       ELSE UNCHANGED <<slots, calls>>
  /\ UNCHANGED <<active_auth, budgets, drawn, refills>>

\* finished(): the thread's end frees its slot, and resumes its caller if that still waits.
Finish(t) ==
  /\ t \in verifying
  /\ verifying' = verifying \ {t}
  /\ slots' = slots + 1
  /\ calls' = [c \in Calls |-> IF calls[c].thread = t
                 THEN [calls[c] EXCEPT !.at = "verified", !.thread = NoThread]
                 ELSE calls[c]]
  /\ UNCHANGED <<active_auth, budgets, drawn, refills>>

\* The finally of authenticate: the call is no longer active, whatever ended it.
Leave(c) ==
  /\ calls' = [calls EXCEPT ![c] = Idle]
  /\ active_auth' = active_auth - 1
  /\ UNCHANGED <<slots, verifying, drawn, refills>>

Goto(c, at) ==
  /\ calls' = [calls EXCEPT ![c].at = at]
  /\ UNCHANGED <<active_auth, slots, verifying, budgets, drawn, refills>>

\* A rejection inside: recorded if the sampling budget allows it, then out.
RejectWith(c, left) ==
  /\ budgets' = Sampled(left)
  /\ IF budgets.audit > 0
       THEN calls' = [calls EXCEPT ![c].at = "auditing"]
            /\ UNCHANGED <<active_auth, slots, verifying, drawn, refills>>
       ELSE Leave(c)

Reject(c) == RejectWith(c, budgets)

\* The verifier failed, or its claims name no verified email.
ClaimsRefused(c) == calls[c].at = "verified" /\ Reject(c)

ClaimsHold(c) == calls[c].at = "verified" /\ Goto(c, "find")

\* The subject has a row, whose worker it is; or the allowlist names its worker.
Found(c, w) ==
  /\ calls[c].at = "find"
  /\ \E at \in {"approve", "existing"} :
       calls' = [calls EXCEPT ![c] = [@ EXCEPT !.at = at, !.worker = w]]
  /\ UNCHANGED <<active_auth, slots, verifying, budgets, drawn, refills>>

NotFound(c) == calls[c].at = "find" /\ Reject(c)

\* An allowlisted worker id that somebody else's row holds is refused.
BindingHolds(c) == calls[c].at = "existing" /\ Goto(c, "approve")
BindingDiffers(c) == calls[c].at = "existing" /\ Reject(c)

\* _approved_enrollment: no approval is rejected, a revocation answered without a record.
NotApproved(c) == calls[c].at = "approve" /\ Reject(c)
WorkerIsRevoked(c) == calls[c].at = "approve" /\ Leave(c) /\ UNCHANGED budgets

\* The worker's own budget, then the one all share.
Admit(c) ==
  LET w == calls[c].worker IN
  /\ calls[c].at = "approve"
  /\ budgets.worker[w] > 0 /\ budgets.global > 0
  /\ budgets' = [budgets EXCEPT !.worker[w] = @ - 1, !.global = @ - 1]
  /\ drawn' = [drawn EXCEPT !.global[w] = @ + 1]
  /\ calls' = [calls EXCEPT ![c] = Idle]
  /\ active_auth' = active_auth - 1
  /\ UNCHANGED <<slots, verifying, refills>>

\* Refused by its own budget the worker takes nothing of the shared one.
Throttle(c) ==
  LET w == calls[c].worker
      left == IF Refused(budgets.worker[w], WorkerLimit) THEN budgets
              ELSE [budgets EXCEPT !.worker[w] = @ - 1]
  IN
  /\ calls[c].at = "approve"
  /\ Refused(budgets.worker[w], WorkerLimit) \/ budgets.global = 0
  /\ RejectWith(c, left)
-----------------------------------------------------------------------------
(* The ways out of an await: its answer, an error, the caller's departure. *)

\* The audit write of a rejection returned, or failed: the call is answered either way.
Recorded(c) == calls[c].at = "auditing" /\ Leave(c) /\ UNCHANGED budgets

RecordedOutside(c) == calls[c].at = "rejecting" /\ Goto(c, "idle")

\* The registry cannot be read.
Fails(c) ==
  calls[c].at \in {"find", "existing", "approve"} /\ Leave(c) /\ UNCHANGED budgets

\* Mistake: the cancelled call frees the slot of the thread it leaves behind.
CancelAndFree(c) ==
  /\ calls[c].at \in Inside
  /\ calls' = [calls EXCEPT ![c] = Idle]
  /\ active_auth' = active_auth - 1
  /\ slots' = IF calls[c].at = "verifying" THEN slots + 1 ELSE slots
  /\ UNCHANGED <<verifying, budgets, drawn, refills>>

\* The peer left: the await raises CancelledError, and the shielded thread runs on.
Cancel(c) == calls[c].at \in Inside /\ Leave(c) /\ UNCHANGED budgets
CancelOutside(c) == calls[c].at = "rejecting" /\ Goto(c, "idle")

\* A minute passes: every bucket is full again.
Refill ==
  /\ refills < MaxRefills
  /\ budgets' = Full /\ drawn' = Undrawn
  /\ refills' = refills + 1
  /\ UNCHANGED <<calls, active_auth, slots, verifying>>

Arrives(c) ==
  \E s \in Sources :
    \/ TurnAway(c, s) \/ RejectCredential(c, s) \/ RejectToken(c, s) \/ VerifierBusy(c, s)
    \/ (\E w \in Workers : Recognise(c, s, w))
    \/ \E t \in Threads : StartVerifier(c, s, t)

Proceeds(c) ==
  \/ ClaimsRefused(c) \/ ClaimsHold(c) \/ NotFound(c) \/ (\E w \in Workers : Found(c, w))
  \/ BindingHolds(c) \/ BindingDiffers(c)
  \/ NotApproved(c) \/ WorkerIsRevoked(c) \/ Admit(c) \/ Throttle(c)
  \/ Recorded(c) \/ RecordedOutside(c) \/ Fails(c)

Next ==
  \/ Refill
  \/ \E t \in Threads : Finish(t)
  \/ \E c \in Calls : Arrives(c) \/ Proceeds(c) \/ Cancel(c) \/ CancelOutside(c)

Spec == Init /\ [][Next]_vars

\* A verifier's requests time out, and an await that can return does.
Fairness ==
  /\ \A t \in Threads : WF_vars(Finish(t))
  /\ \A c \in Calls : WF_vars(Proceeds(c))

FairSpec == Spec /\ Fairness
-----------------------------------------------------------------------------
(* No way out of authenticate leaks capacity: the counter is the number of *)
(* calls inside, and the semaphore's value what the running threads leave, *)
(* whether a call is answered, fails or is cancelled at any of its awaits. *)
CapacityIsAccounted ==
  /\ active_auth = Cardinality({c \in Calls : calls[c].at \in Inside})
  /\ slots = MaxVerifications - Cardinality(verifying)

(* "Cancelling a request does not release its slot while its verifier      *)
(* thread is still running": never more threads than slots, and a call     *)
(* that waits for one waits for one that runs.                             *)
VerifiersAreBounded ==
  /\ Cardinality(verifying) <= MaxVerifications
  /\ \A c \in Calls : calls[c].at = "verifying" => calls[c].thread \in verifying

(* "A saturated peer cannot consume additional global tokens": between two *)
(* refills no peer takes more calls of the shared budget than its own has, *)
(* and no worker more of the workers' shared budget than its own.          *)
NobodyDrawsMoreThanItsOwn ==
  /\ \A s \in Sources : drawn.pre_auth[s] + budgets.source[s] <= SourceLimit
  /\ \A w \in Workers : drawn.global[w] + budgets.worker[w] <= WorkerLimit

(* Verification that is busy does not stay so: callers that left their     *)
(* threads behind give the slots back without doing anything.              *)
BusyEnds == (slots = 0) ~> (slots > 0)
=============================================================================
