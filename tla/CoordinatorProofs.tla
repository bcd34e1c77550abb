------------------------- MODULE CoordinatorProofs --------------------------
(***************************************************************************)
(* Theorems of Coordinator, for any number of jobs, workers and handlers,  *)
(* and that it implements JobLifecycle.                                    *)
(***************************************************************************)
EXTENDS Coordinator, FiniteSetTheorems, TLAPS

Tables == <<jobs, workers, objects, audit, grantee, intent>>

\* How every step of the coordinator changes the shared tables: attempts grow, a settled
\* row keeps its status, a minted token keeps its owner and an object its content.
Evolves ==
  /\ \A j \in Jobs : /\ jobs[j].attempts <= jobs'[j].attempts
                     /\ jobs[j].status \in Terminal => jobs'[j].status = jobs[j].status
  /\ \A j \in Jobs : \A a \in 1..20 :
       grantee[j][a] # Nobody => grantee'[j][a] = grantee[j][a]
  /\ \A k \in OutputKeys : Stored(k) # NoDigest => Stored(k)' = Stored(k)

HandlerOK(s) == HandlerKnowsItsClaim(s) /\ ReadingsLast(s)

LEMMA BudgetBound == \A j \in Jobs : Budget(j) \in 1..20 /\ OutputKey(j) \in OutputKeys
  BY SubmissionAssumption DEF Budget, OutputKey

\* The invariant at one job.
LEMMA RowFacts ==
  ASSUME IInv, NEW j \in Jobs
  PROVE  /\ RowCoherent(j)
         /\ jobs[j] \in Row
         /\ jobs[j].attempts \in 0..Budget(j)
         /\ jobs[j].attempts \in 0..20
<1>1. RowCoherent(j) /\ jobs[j] \in Row
  BY DEF IInv, TypeOK
<1>2. jobs[j].attempts \in 0..Budget(j)
  BY <1>1 DEF RowCoherent
<1> QED  BY <1>1, <1>2, BudgetBound

\* What a handler knows outlives the steps of others.
LEMMA SlotKept ==
  ASSUME IInv, Evolves, jobs' \in [Jobs -> Row], NEW s \in Slots,
         requests'[s] = requests[s]
  PROVE  HandlerOK(s)'
<1> DEFINE r == requests[s]
<1>1. r \in Request /\ HandlerKnowsItsClaim(s) /\ ReadingsLast(s)
  BY DEF IInv, TypeOK
<1>2. HandlerKnowsItsClaim(s)'
  <2>1. ASSUME r.op \in JobOps, r.pc \notin {"idle", "reply"}
        PROVE  /\ r.token \in 1..jobs'[r.job].attempts
               /\ grantee'[r.job][r.token] = r.worker
    <3>1. /\ r.job \in Jobs /\ r.token \in 1..jobs[r.job].attempts
          /\ grantee[r.job][r.token] = r.worker
      BY <1>1, <2>1 DEF HandlerKnowsItsClaim
    <3>2. /\ jobs[r.job].attempts \in 0..20 /\ jobs'[r.job].attempts \in Nat
          /\ jobs[r.job].attempts <= jobs'[r.job].attempts
      BY <3>1, RowFacts DEF Evolves, Row
    <3>3. r.worker # Nobody /\ r.token \in 1..20
      BY <1>1, <2>1, <3>1, <3>2, NobodyAssumption DEF HandlerKnowsItsClaim, Request
    <3>4. r.token \in 1..jobs'[r.job].attempts
      BY <3>1, <3>2
    <3>5. grantee'[r.job][r.token] = r.worker
      BY <3>1, <3>3 DEF Evolves
    <3> QED  BY <3>4, <3>5
  <2> QED  BY <1>1, <2>1 DEF HandlerKnowsItsClaim
<1>3. ReadingsLast(s)'
  <2>1. ASSUME r.pc \in {"settle", "audit"} PROVE r.job \in Jobs
    BY <1>1, <2>1 DEF HandlerKnowsItsClaim
  <2> QED
    BY <1>1, <2>1, BudgetBound, NoDigestAssumption
    DEF ReadingsLast, Evolves, Stored, OutputKey, Budget, Terminal
<1> QED  BY <1>2, <1>3 DEF HandlerOK

-----------------------------------------------------------------------------
(* What the statements do to the rows.                                     *)

RowsKept ==
  /\ jobs' \in [Jobs -> Row]
  /\ \A j \in Jobs : RowCoherent(j)'
  /\ TokensAreMinted'
  /\ Evolves

\* A statement that leaves the attempts alone and touches no settled row.
LEMMA RowsStep ==
  ASSUME IInv, jobs' \in [Jobs -> Row], UNCHANGED <<objects, grantee>>,
         \A j \in Jobs : \/ jobs'[j] = jobs[j]
                        \/ /\ jobs'[j].attempts = jobs[j].attempts
                           /\ jobs[j].status \notin Terminal
                           /\ RowCoherent(j)'
  PROVE  RowsKept
<1>1. ASSUME NEW j \in Jobs PROVE RowCoherent(j)'
  <2>1. CASE jobs'[j] = jobs[j]
    BY <2>1, RowFacts DEF RowCoherent, Stored
  <2> QED  BY <2>1
<1>2. ASSUME NEW j \in Jobs
      PROVE  jobs'[j].attempts = jobs[j].attempts /\ jobs[j].attempts \in 0..20
  BY RowFacts
<1>3. TokensAreMinted'
  BY <1>2 DEF IInv, TokensAreMinted
<1>4. Evolves
  BY <1>2 DEF Evolves, Stored
<1> QED  BY <1>1, <1>3, <1>4 DEF RowsKept

\* A field of a row takes any value of its type.
LEMMA RowFields ==
  ASSUME NEW r \in Row
  PROVE  /\ \A x \in JobStatus : [r EXCEPT !.status = x] \in Row
         /\ \A x \in Nat : [r EXCEPT !.attempts = x] \in Row
         /\ \A x \in Nat : [r EXCEPT !.claim_token = x] \in Row
         /\ \A x \in Workers \cup {Nobody} : [r EXCEPT !.leased_by = x] \in Row
         /\ \A x \in Int : [r EXCEPT !.lease_left = x] \in Row
         /\ \A x \in Workers \cup {Nobody} : [r EXCEPT !.executed_by = x] \in Row
         /\ \A x \in Digests \cup {NoDigest} : [r EXCEPT !.output = x] \in Row
         /\ \A x \in BOOLEAN : [r EXCEPT !.retryable = x] \in Row
  BY DEF Row

LEMMA SettledRow ==
  ASSUME NEW r \in Row, NEW status \in JobStatus
  PROVE  LET row == Settled(r, status) IN
         /\ row \in Row
         /\ row.status = status /\ row.attempts = r.attempts
         /\ row.claim_token = NoToken /\ row.leased_by = Nobody
         /\ row.output = r.output /\ row.executed_by = r.executed_by
<1> DEFINE a == [r EXCEPT !.status = status]
           b == [a EXCEPT !.claim_token = NoToken]
           c == [b EXCEPT !.leased_by = Nobody]
           d == [c EXCEPT !.lease_left = 0]
<1>1. a \in Row
  BY RowFields
<1>2. b \in Row
  BY <1>1, RowFields DEF NoToken
<1>3. c \in Row
  BY <1>2, RowFields
<1>4. d \in Row
  <2> HIDE DEF c
  <2> QED  BY <1>3, RowFields
<1>5. d = Settled(r, status)
  BY DEF Settled, Row
<1>6. /\ d.status = status /\ d.attempts = r.attempts
      /\ d.claim_token = NoToken /\ d.leased_by = Nobody
      /\ d.output = r.output /\ d.executed_by = r.executed_by
  BY DEF Row
<1> QED  BY <1>4, <1>5, <1>6

\* A statement that writes one unsettled row.
LEMMA OneRowStep ==
  ASSUME IInv, NEW j \in Jobs, NEW row \in Row, UNCHANGED <<objects, grantee>>,
         jobs' = [jobs EXCEPT ![j] = row],
         jobs[j].status \notin Terminal,
         row.attempts = jobs[j].attempts,
         jobs'[j] = row => RowCoherent(j)'
  PROVE  RowsKept
<1>1. jobs' \in [Jobs -> Row] /\ jobs'[j] = row /\ \A k \in Jobs \ {j} : jobs'[k] = jobs[k]
  BY DEF IInv, TypeOK
<1> QED  BY <1>1, RowsStep

LEMMA SubmitKeeps ==
  ASSUME IInv, NEW j \in Jobs, Submit(j), UNCHANGED <<objects, grantee>>
  PROVE  RowsKept
<1> DEFINE row == [jobs[j] EXCEPT !.status = "queued", !.created_at = Cardinality(Present)]
<1>1. jobs[j] = NoRow /\ Budget(j) \in 1..20 /\ jobs[j] \in Row
  BY RowFacts, BudgetBound DEF Submit, RowCoherent
<1>2. Cardinality(Present) \in Nat
  BY JobsAssumption, FS_Subset, FS_CardinalityType DEF Present
<1>3. row \in Row
  BY <1>1, <1>2 DEF Row, JobStatus
<1>4. jobs'[j] = row => RowCoherent(j)'
  BY <1>1 DEF RowCoherent, NoRow, Absent
<1>5. row.attempts = jobs[j].attempts /\ jobs[j].status \notin Terminal
  BY <1>1 DEF NoRow, Absent, Terminal
<1> QED  BY <1>3, <1>4, <1>5, OneRowStep DEF Submit

\* A row that is settled or requeued holds no claim.
LEMMA SettledKeeps ==
  ASSUME IInv, NEW j \in Jobs, NEW status \in {"failed", "cancelled", "queued"},
         NEW row \in {Settled(jobs[j], status)}
                       \cup {[Settled(jobs[j], status) EXCEPT !.retryable = b] : b \in BOOLEAN},
         jobs[j].status \in {"queued", "processing"},
         status = "queued" => jobs[j].attempts < Budget(j)
  PROVE  /\ row \in Row
         /\ row.attempts = jobs[j].attempts
         /\ jobs[j].status \notin Terminal
         /\ jobs'[j] = row => RowCoherent(j)'
<1>1. jobs[j] \in Row /\ RowCoherent(j) /\ jobs[j].attempts \in 0..Budget(j)
  BY RowFacts
<1> DEFINE bare == Settled(jobs[j], status)
<1>2. /\ bare \in Row
      /\ bare.attempts = jobs[j].attempts /\ bare.status = status
      /\ bare.claim_token = NoToken /\ bare.leased_by = Nobody
      /\ bare.output = jobs[j].output
  BY <1>1, SettledRow DEF JobStatus
<1> HIDE DEF bare
<1>3. /\ row \in Row
      /\ row.attempts = jobs[j].attempts /\ row.status = status
      /\ row.claim_token = NoToken /\ row.leased_by = Nobody
      /\ row.output = jobs[j].output
  <2>1. CASE row = bare
    BY <2>1, <1>2
  <2>2. CASE \E b \in BOOLEAN : row = [bare EXCEPT !.retryable = b]
    BY <2>2, <1>2, RowFields DEF Row
  <2> QED  BY <2>1, <2>2 DEF bare
<1>4. jobs[j].output = NoDigest
  BY <1>1 DEF RowCoherent
<1>5. jobs'[j] = row => RowCoherent(j)'
  BY <1>1, <1>3, <1>4 DEF RowCoherent, Absent
<1> QED  BY <1>3, <1>5 DEF Terminal

LEMMA CancelKeeps ==
  ASSUME IInv, NEW j \in Jobs, Cancel(j), UNCHANGED <<objects, grantee>>
  PROVE  RowsKept
<1> DEFINE row == Settled(jobs[j], "cancelled")
<1>1. /\ row \in Row /\ row.attempts = jobs[j].attempts
      /\ jobs[j].status \notin Terminal /\ (jobs'[j] = row => RowCoherent(j)')
  BY SettledKeeps DEF Cancel
<1> QED  BY <1>1, OneRowStep DEF Cancel

LEMMA FailKeeps ==
  ASSUME IInv, NEW j \in Jobs, NEW token \in Nat, NEW retryable \in BOOLEAN,
         Fail(j, token, retryable), UNCHANGED <<objects, grantee>>
  PROVE  RowsKept /\ jobs'[j].status = "failed"
<1> DEFINE row == [Settled(jobs[j], "failed") EXCEPT !.retryable = retryable]
<1>1. /\ row \in Row /\ row.attempts = jobs[j].attempts
      /\ jobs[j].status \notin Terminal /\ (jobs'[j] = row => RowCoherent(j)')
  BY SettledKeeps DEF Fail, Leased
<1>2. jobs' = [jobs EXCEPT ![j] = row]
  BY DEF Fail
<1>3. RowsKept
  BY <1>1, <1>2, OneRowStep
<1>4. jobs[j] \in Row /\ Settled(jobs[j], "failed").status = "failed"
  BY RowFacts, SettledRow DEF JobStatus
<1>5. row.status = "failed"
  BY <1>4, SettledRow DEF Row, JobStatus
<1> QED  BY <1>2, <1>3, <1>5 DEF IInv, TypeOK

LEMMA ReleaseKeeps ==
  ASSUME IInv, NEW j \in Jobs, NEW token \in Nat, token < Budget(j),
         Release(j, token), UNCHANGED <<objects, grantee>>
  PROVE  RowsKept
<1> DEFINE row == Settled(jobs[j], "queued")
<1>1. jobs[j].status = "processing" /\ jobs[j].attempts < Budget(j)
  BY RowFacts DEF Release, Leased, RowCoherent
<1>2. /\ row \in Row /\ row.attempts = jobs[j].attempts
      /\ jobs[j].status \notin Terminal /\ (jobs'[j] = row => RowCoherent(j)')
  BY <1>1, SettledKeeps
<1> QED  BY <1>2, OneRowStep DEF Release

LEMMA HeartbeatKeeps ==
  ASSUME IInv, NEW j \in Jobs, NEW token \in Nat, NEW span \in Nat,
         Heartbeat(j, token, span), UNCHANGED <<objects, grantee>>
  PROVE  RowsKept
<1> DEFINE row == [jobs[j] EXCEPT !.lease_left = span]
<1>1. jobs[j] \in Row /\ RowCoherent(j) /\ jobs[j].status = "processing"
  BY RowFacts DEF Heartbeat, Leased
<1>2. row \in Row
  BY <1>1, RowFields
<1>3. /\ row.status = "processing" /\ row.attempts = jobs[j].attempts
      /\ row.claim_token = jobs[j].claim_token /\ row.leased_by = jobs[j].leased_by
      /\ row.output = jobs[j].output
  BY <1>1 DEF Row
<1>4. jobs'[j] = row => RowCoherent(j)'
  BY <1>1, <1>3 DEF RowCoherent, Absent
<1> QED  BY <1>1, <1>2, <1>3, <1>4, OneRowStep DEF Heartbeat, Terminal

LEMMA CompleteKeeps ==
  ASSUME IInv, NEW j \in Jobs, NEW token \in Nat, NEW digest \in Digests,
         Stored(OutputKey(j)) = digest,
         Complete(j, token, digest), UNCHANGED <<objects, grantee>>
  PROVE  RowsKept /\ jobs'[j].status = "completed"
<1> DEFINE bare == Settled(jobs[j], "completed")
           half == [bare EXCEPT !.executed_by = jobs[j].leased_by]
           row  == [bare EXCEPT !.executed_by = jobs[j].leased_by, !.output = digest]
<1>1. jobs[j] \in Row /\ RowCoherent(j) /\ jobs[j].status = "processing"
  BY RowFacts DEF Complete, Leased
<1>2. /\ bare \in Row /\ bare.status = "completed" /\ bare.attempts = jobs[j].attempts
      /\ bare.claim_token = NoToken /\ bare.leased_by = Nobody
  BY <1>1, SettledRow DEF JobStatus
<1>3. jobs[j].leased_by \in Workers /\ jobs[j].leased_by = grantee[j][jobs[j].attempts]
  BY <1>1 DEF RowCoherent
<1> HIDE DEF bare
<1>4. half \in Row
  BY <1>2, <1>3, RowFields
<1>5. row = [half EXCEPT !.output = digest]
  BY <1>2 DEF Row
<1>6. row \in Row
  <2> HIDE DEF half, row
  <2> QED  BY <1>4, <1>5, RowFields
<1>7. /\ row.status = "completed" /\ row.attempts = jobs[j].attempts
      /\ row.claim_token = NoToken /\ row.leased_by = Nobody
      /\ row.executed_by = jobs[j].leased_by /\ row.output = digest
  BY <1>2 DEF Row
<1> HIDE DEF row
<1>8. jobs'[j] = row => RowCoherent(j)'
  BY <1>1, <1>3, <1>7 DEF RowCoherent, Absent, Stored
<1>9. jobs' = [jobs EXCEPT ![j] = row]
  BY DEF Complete, row, bare
<1> QED  BY <1>1, <1>6, <1>7, <1>8, <1>9, OneRowStep DEF Terminal, IInv, TypeOK

\* A claim draws the next token, and records whom it was minted for.
LEMMA LeaseKeeps ==
  ASSUME IInv, NEW j \in Jobs, NEW worker \in Workers, NEW span \in Nat,
         NEW capability_ids, NEW offer,
         Lease(j, worker, capability_ids, offer, span),
         grantee' = [grantee EXCEPT ![j][jobs[j].attempts + 1] = worker],
         UNCHANGED objects
  PROVE  RowsKept
<1> DEFINE n == jobs[j].attempts + 1
           a == [jobs[j] EXCEPT !.status = "processing"]
           b == [a EXCEPT !.attempts = n]
           c == [b EXCEPT !.claim_token = n]
           d == [c EXCEPT !.leased_by = worker]
           row == [d EXCEPT !.lease_left = span]
<1>1. jobs[j] \in Row /\ RowCoherent(j) /\ jobs[j].attempts \in 0..20
  BY RowFacts
<1>2. /\ jobs[j].attempts < Budget(j)
      /\ jobs[j].status \in {"queued", "processing"}
  BY DEF Lease, Candidates, IsLeasable, Expired
<1>3. n \in 1..20 /\ n <= Budget(j) /\ n = jobs[j].attempts + 1
  BY <1>1, <1>2, BudgetBound
<1>4. jobs' = [jobs EXCEPT ![j] = row]
  <2>1. row = [jobs[j] EXCEPT !.status = "processing", !.attempts = n, !.claim_token = n,
                              !.leased_by = worker, !.lease_left = span]
    BY <1>1 DEF Row
  <2>2. jobs' = [jobs EXCEPT ![j] = [jobs[j] EXCEPT
                   !.status = "processing", !.attempts = n, !.claim_token = n,
                   !.leased_by = worker, !.lease_left = span]]
    BY <1>1 DEF Lease, IInv, TypeOK
  <2> QED  BY <2>1, <2>2
<1>5. row \in Row
  <2>1. a \in Row
    BY <1>1, RowFields DEF JobStatus
  <2>2. b \in Row
    <3> HIDE DEF a, n
    <3> QED  BY <2>1, <1>3, RowFields
  <2>3. c \in Row
    <3>1. n \in Nat
      BY <1>3
    <3> HIDE DEF b, n
    <3> QED  BY <2>2, <3>1, RowFields
  <2>4. d \in Row
    <3> HIDE DEF c
    <3> QED  BY <2>3, RowFields
  <2> HIDE DEF d
  <2> QED  BY <2>4, RowFields
<1>6. /\ row.status = "processing" /\ row.attempts = n /\ row.claim_token = n
      /\ row.leased_by = worker /\ row.output = jobs[j].output
  BY <1>1 DEF Row
<1> HIDE DEF row, n
<1>7. /\ jobs' \in [Jobs -> Row] /\ jobs'[j] = row
      /\ \A k \in Jobs \ {j} : jobs'[k] = jobs[k]
  BY <1>4, <1>5 DEF IInv, TypeOK
<1>8. /\ grantee'[j][n] = worker
      /\ \A k \in Jobs : \A m \in 1..20 : (k # j \/ m # n) => grantee'[k][m] = grantee[k][m]
  BY <1>3 DEF IInv, TypeOK, n
<1>9. ASSUME NEW k \in Jobs PROVE RowCoherent(k)'
  <2>1. CASE k = j
    <3>1. jobs[j].output = NoDigest
      BY <1>1, <1>2 DEF RowCoherent
    <3> QED  BY <2>1, <3>1, <1>2, <1>3, <1>6, <1>7, <1>8 DEF RowCoherent, Absent
  <2>2. CASE k # j
    <3>1. /\ jobs'[k] = jobs[k] /\ RowCoherent(k) /\ jobs[k].attempts \in 0..20
          /\ jobs[k].attempts >= 1 => grantee'[k][jobs[k].attempts] = grantee[k][jobs[k].attempts]
      BY <2>2, <1>7, <1>8, RowFacts
    <3> QED  BY <3>1 DEF RowCoherent, Stored
  <2> QED  BY <2>1, <2>2
<1>10. grantee[j][n] = Nobody
  BY <1>1, <1>3 DEF IInv, TokensAreMinted
<1>11. \A k \in Jobs : jobs[k].attempts \in 0..20 /\ jobs[k].attempts <= jobs'[k].attempts
  BY <1>1, <1>3, <1>6, <1>7, RowFacts
<1>12. TokensAreMinted'
  <2> SUFFICES ASSUME NEW k \in Jobs, NEW m \in 1..20, grantee'[k][m] # Nobody
               PROVE  m <= jobs'[k].attempts
    BY DEF TokensAreMinted
  <2>1. CASE k = j /\ m = n
    BY <2>1, <1>3, <1>6, <1>7
  <2>2. CASE k # j \/ m # n
    <3>1. m <= jobs[k].attempts
      BY <2>2, <1>8 DEF IInv, TokensAreMinted
    <3>2. jobs'[k].attempts \in Nat
      BY <1>7 DEF Row
    <3> QED  BY <3>1, <3>2, <1>11
  <2> QED  BY <2>1, <2>2
<1>13. Evolves
  BY <1>2, <1>7, <1>8, <1>10, <1>11 DEF Evolves, Terminal, Stored
<1> QED  BY <1>7, <1>9, <1>12, <1>13 DEF RowsKept

LEMMA ExpireKeeps ==
  ASSUME IInv, ExpireExhausted, UNCHANGED <<objects, grantee>>
  PROVE  RowsKept
<1>1. ASSUME NEW j \in Jobs, Exhausted(j)
      PROVE  /\ jobs'[j] \in Row /\ jobs'[j].attempts = jobs[j].attempts
             /\ jobs[j].status \notin Terminal /\ RowCoherent(j)'
  <2> DEFINE row == [Settled(jobs[j], "failed") EXCEPT !.retryable = TRUE]
  <2>1. /\ row \in Row /\ row.attempts = jobs[j].attempts
        /\ jobs[j].status \notin Terminal /\ (jobs'[j] = row => RowCoherent(j)')
    BY <1>1, SettledKeeps DEF Exhausted, Expired
  <2>2. jobs'[j] = row
    BY <1>1 DEF ExpireExhausted
  <2> QED  BY <2>1, <2>2
<1>2. ASSUME NEW j \in Jobs, ~Exhausted(j) PROVE jobs'[j] = jobs[j] /\ jobs[j] \in Row
  BY <1>2, RowFacts DEF ExpireExhausted
<1>3. jobs' = [j \in Jobs |-> jobs'[j]]
  BY DEF ExpireExhausted
<1>4. \A j \in Jobs : jobs'[j] \in Row
  BY <1>1, <1>2
<1>5. jobs' \in [Jobs -> Row]
  BY <1>3, <1>4
<1> QED  BY <1>1, <1>2, <1>5, RowsStep

LEMMA ElapseKeeps ==
  ASSUME IInv, Elapse, UNCHANGED <<objects, grantee>>
  PROVE  RowsKept
<1> DEFINE Runs(j) == jobs[j].status = "processing" /\ ~Expired(j)
<1>1. ASSUME NEW j \in Jobs, Runs(j)
      PROVE  /\ jobs'[j] \in Row /\ jobs'[j].attempts = jobs[j].attempts
             /\ jobs[j].status \notin Terminal /\ RowCoherent(j)'
  <2> DEFINE row == [jobs[j] EXCEPT !.lease_left = @ - 1]
  <2>1. jobs[j] \in Row /\ RowCoherent(j) /\ jobs[j].lease_left - 1 \in Int
    BY RowFacts DEF Row
  <2>2. row \in Row
    BY <2>1, RowFields
  <2>3. /\ row.status = "processing" /\ row.attempts = jobs[j].attempts
        /\ row.claim_token = jobs[j].claim_token /\ row.leased_by = jobs[j].leased_by
        /\ row.output = jobs[j].output
    BY <1>1, <2>1 DEF Row
  <2>4. jobs'[j] = row
    BY <1>1 DEF Elapse
  <2>5. RowCoherent(j)'
    BY <1>1, <2>1, <2>3, <2>4 DEF RowCoherent, Absent
  <2> QED  BY <1>1, <2>2, <2>3, <2>4, <2>5 DEF Terminal
<1>2. ASSUME NEW j \in Jobs, ~Runs(j) PROVE jobs'[j] = jobs[j] /\ jobs[j] \in Row
  BY <1>2, RowFacts DEF Elapse
<1>3. jobs' = [j \in Jobs |-> jobs'[j]]
  BY DEF Elapse
<1>4. \A j \in Jobs : jobs'[j] \in Row
  BY <1>1, <1>2
<1>5. jobs' \in [Jobs -> Row]
  BY <1>3, <1>4
<1> QED  BY <1>1, <1>2, <1>5, RowsStep

LEMMA UploadKeeps ==
  ASSUME IInv, NEW k \in OutputKeys, NEW digest \in Digests, WriteOnce(k, digest),
         UNCHANGED <<jobs, grantee>>
  PROVE  RowsKept /\ objects' \in [OutputKeys -> Digests \cup {NoDigest}]
<1>1. /\ objects' \in [OutputKeys -> Digests \cup {NoDigest}]
      /\ \A key \in OutputKeys : Stored(key) # NoDigest => Stored(key)' = Stored(key)
  BY DEF WriteOnce, Stored, IInv, TypeOK
<1>2. ASSUME NEW j \in Jobs PROVE RowCoherent(j)'
  BY <1>1, RowFacts, BudgetBound, NoDigestAssumption DEF RowCoherent, Stored
<1>3. TokensAreMinted'
  BY DEF IInv, TokensAreMinted
<1>4. Evolves
  BY <1>1, RowFacts DEF Evolves
<1> QED  BY <1>1, <1>2, <1>3, <1>4 DEF RowsKept, IInv, TypeOK

LEMMA TablesUntouched ==
  ASSUME IInv, UNCHANGED <<jobs, objects, grantee>>
  PROVE  RowsKept
BY RowsStep DEF IInv, TypeOK

-----------------------------------------------------------------------------
(* What the handlers do.                                                   *)

LEMMA AuditKept ==
  ASSUME IInv, Evolves, audit' = audit
  PROVE  AuditIsTruthful'
BY DEF IInv, AuditIsTruthful, Evolves, Terminal

LEMMA Preserved ==
  ASSUME IInv, RowsKept, AuditIsTruthful', audit' \subseteq Settlements,
         requests' \in [Slots -> Request],
         \A s \in Slots : requests'[s] = requests[s] \/ HandlerOK(s)',
         workers' \in [Workers -> WorkerRow],
         objects' \in [OutputKeys -> Digests \cup {NoDigest}],
         grantee' \in [Jobs -> [1..20 -> Workers \cup {Nobody}]],
         intent' \in [Workers -> WorkerStatus]
  PROVE  IInv'
<1>1. \A s \in Slots : HandlerOK(s)'
  BY SlotKept DEF RowsKept
<1> QED  BY <1>1 DEF IInv, TypeOK, RowsKept, HandlerOK

\* A step of one handler that records no settlement.
LEMMA SlotStep ==
  ASSUME IInv, RowsKept, NEW s \in Slots, NEW new \in Request,
         requests' = [requests EXCEPT ![s] = new],
         requests'[s] = new => HandlerOK(s)',
         workers' \in [Workers -> WorkerRow],
         grantee' \in [Jobs -> [1..20 -> Workers \cup {Nobody}]],
         UNCHANGED <<objects, audit, intent>>
  PROVE  IInv'
<1>1. /\ requests' \in [Slots -> Request] /\ requests'[s] = new
      /\ \A t \in Slots \ {s} : requests'[t] = requests[t]
  BY DEF IInv, TypeOK
<1>2. AuditIsTruthful'
  BY AuditKept DEF RowsKept
<1> QED  BY <1>1, <1>2, Preserved DEF IInv, TypeOK

LEMMA SlotFacts ==
  ASSUME IInv, NEW s \in Slots
  PROVE  /\ requests[s] \in Request /\ HandlerKnowsItsClaim(s) /\ ReadingsLast(s)
         /\ ~At(s, "idle") => requests[s].worker \in Workers /\ requests[s].op \in Ops
BY DEF IInv, TypeOK, At, HandlerKnowsItsClaim

\* A field of a request takes any value of its type.
LEMMA RequestFields ==
  ASSUME NEW r \in Request
  PROVE  /\ \A x \in Ops : [r EXCEPT !.op = x] \in Request
         /\ \A x \in Steps : [r EXCEPT !.pc = x] \in Request
         /\ \A x \in Workers : [r EXCEPT !.worker = x] \in Request
         /\ \A x \in Jobs \cup {"none"} : [r EXCEPT !.job = x] \in Request
         /\ \A x \in Nat : [r EXCEPT !.token = x] \in Request
         /\ \A x \in Digests \cup {NoDigest} : [r EXCEPT !.digest = x] \in Request
         /\ \A x \in BOOLEAN : [r EXCEPT !.retryable = x] \in Request
         /\ \A x \in Offers \cup {NoOffer} : [r EXCEPT !.offer = x] \in Request
         /\ \A x \in BOOLEAN : [r EXCEPT !.draining = x] \in Request
         /\ \A x \in SUBSET Capabilities : [r EXCEPT !.capability_ids = x] \in Request
         /\ \A x \in Nat : [r EXCEPT !.span = x] \in Request
         /\ \A x \in BOOLEAN : [r EXCEPT !.spent = x] \in Request
         /\ \A x \in Codes : [r EXCEPT !.code = x] \in Request
  BY DEF Request

LEMMA IdleRequest == Idle \in Request
  BY DEF Idle, Request, NoToken, Codes

\* A handler that answers knows nothing any more.
LEMMA ReplyRequest ==
  ASSUME IInv, NEW s \in Slots, NEW code \in Codes, ~At(s, "idle"), Reply(s, code)
  PROVE  \E new \in Request : /\ requests' = [requests EXCEPT ![s] = new]
                              /\ new.pc = "reply" /\ new.worker = requests[s].worker
                              /\ new.op = requests[s].op
<1> DEFINE r == requests[s]
           a == [Idle EXCEPT !.op = r.op]
           b == [a EXCEPT !.pc = "reply"]
           c == [b EXCEPT !.worker = r.worker]
           bare == [c EXCEPT !.code = code]
           full == [[bare EXCEPT !.job = r.job] EXCEPT !.token = r.token]
           new == IF r.op = "lease" /\ code = 200 THEN full ELSE bare
<1>1. r \in Request /\ r.worker \in Workers /\ r.op \in Ops
  BY SlotFacts
<1>2. bare \in Request
  <2>1. a \in Request
    BY <1>1, IdleRequest, RequestFields
  <2>2. b \in Request
    <3> HIDE DEF a
    <3> QED  BY <2>1, RequestFields DEF Steps
  <2>3. c \in Request
    <3> HIDE DEF b
    <3> QED  BY <1>1, <2>2, RequestFields
  <2> HIDE DEF c
  <2> QED  BY <2>3, RequestFields
<1>3. full \in Request
  <2>1. /\ \A x \in Request : [x EXCEPT !.job = r.job] \in Request
        /\ \A x \in Request : [x EXCEPT !.token = r.token] \in Request
    BY <1>1 DEF Request
  <2> HIDE DEF bare
  <2> QED  BY <1>2, <2>1
<1>4. bare.pc = "reply" /\ bare.worker = r.worker /\ bare.op = r.op
  BY DEF Idle
<1>5. full.pc = "reply" /\ full.worker = r.worker /\ full.op = r.op
  <2> HIDE DEF bare
  <2> QED  BY <1>2, <1>4 DEF Request
<1>6. requests' = [requests EXCEPT ![s] = new]
  <2>1. bare = [Idle EXCEPT !.op = r.op, !.pc = "reply", !.worker = r.worker, !.code = code]
    BY DEF Idle
  <2>2. full = [bare EXCEPT !.job = r.job, !.token = r.token]
    <3> HIDE DEF bare
    <3> QED  BY <1>2 DEF Request
  <2> HIDE DEF bare, full
  <2> QED  BY <2>1, <2>2 DEF Reply
<1>7. new \in Request /\ new.pc = "reply" /\ new.worker = r.worker /\ new.op = r.op
  <2> HIDE DEF bare, full
  <2> QED  BY <1>2, <1>3, <1>4, <1>5
<1> HIDE DEF new
<1> QED  BY <1>6, <1>7

LEMMA ReplyStep ==
  ASSUME IInv, RowsKept, NEW s \in Slots, NEW code \in Codes, ~At(s, "idle"),
         Reply(s, code),
         workers' \in [Workers -> WorkerRow],
         UNCHANGED <<objects, audit, grantee, intent>>
  PROVE  IInv'
<1>1. PICK new \in Request : /\ requests' = [requests EXCEPT ![s] = new]
                             /\ new.pc = "reply" /\ new.worker = requests[s].worker
                             /\ new.op = requests[s].op
  BY ReplyRequest
<1>2. requests'[s] = new => HandlerOK(s)'
  BY <1>1, SlotFacts DEF HandlerOK, HandlerKnowsItsClaim, ReadingsLast
<1> QED  BY <1>1, <1>2, SlotStep DEF IInv, TypeOK

\* A handler that goes on to another step, and what it must then know.
LEMMA GotoStep ==
  ASSUME IInv, RowsKept, NEW s \in Slots, NEW pc \in Steps, Goto(s, pc),
         requests'[s] = [requests[s] EXCEPT !.pc = pc] => HandlerOK(s)',
         UNCHANGED <<workers, objects, audit, grantee, intent>>
  PROVE  IInv'
<1> DEFINE new == [requests[s] EXCEPT !.pc = pc]
<1>1. requests[s] \in Request
  BY SlotFacts
<1>2. new \in Request
  BY <1>1 DEF Request
<1>3. requests' = [requests EXCEPT ![s] = new]
  BY DEF Goto
<1> QED  BY <1>2, <1>3, SlotStep DEF IInv, TypeOK

-----------------------------------------------------------------------------
(* Requests arrive.                                                        *)

LEMMA OpenedRequest ==
  ASSUME NEW w \in Workers, NEW call \in Calls, NEW j \in Jobs \cup {"none"},
         NEW token \in Nat
  PROVE  LET new == Opened(w, call, j, token) IN
         /\ new \in Request
         /\ new.pc = "authorize" /\ new.worker = w /\ new.op = call.op
         /\ new.job = j /\ new.token = token
         /\ call.op \in Ops
<1>1. call \in Call
  BY CallsAssumption
<1>2. Opened(w, call, j, token) \in Request
  BY <1>1 DEF Opened, Request, Call, Steps, Codes
<1> QED  BY <1>1, <1>2 DEF Call, Opened

LEMMA ReceiveCallKeeps ==
  ASSUME IInv, NEW s \in Slots, NEW w \in Workers, NEW call \in Calls,
         ReceiveCall(s, w, call)
  PROVE  IInv'
<1> DEFINE new == Opened(w, call, "none", NoToken)
<1>1. /\ new \in Request /\ new.pc = "authorize" /\ new.worker = w /\ new.op = call.op
      /\ call.op \in Ops
  BY OpenedRequest DEF NoToken
<1>2. /\ requests' = [requests EXCEPT ![s] = new] /\ call.op \notin JobOps
      /\ UNCHANGED <<jobs, workers, objects, audit, grantee, intent>>
  BY DEF ReceiveCall, Receive
<1> HIDE DEF new
<1>3. requests'[s] = new => HandlerOK(s)'
  BY <1>1, <1>2 DEF HandlerOK, HandlerKnowsItsClaim, ReadingsLast
<1> QED  BY <1>1, <1>2, <1>3, TablesUntouched, SlotStep DEF IInv, TypeOK

LEMMA ReceiveJobCallKeeps ==
  ASSUME IInv, NEW s \in Slots, NEW w \in Workers, NEW call \in Calls, NEW j \in Jobs,
         NEW token \in 1..Budget(j), ReceiveJobCall(s, w, call, j, token)
  PROVE  IInv'
<1> DEFINE new == Opened(w, call, j, token)
<1>1. token \in 1..20 /\ token \in Nat
  BY BudgetBound
<1>2. /\ new \in Request /\ new.pc = "authorize" /\ new.worker = w /\ new.op = call.op
      /\ new.job = j /\ new.token = token /\ call.op \in Ops
  BY <1>1, OpenedRequest
<1>3. token \in 1..jobs[j].attempts /\ grantee[j][token] = w
  BY <1>1, NobodyAssumption, RowFacts DEF ReceiveJobCall, Granted, IInv, TokensAreMinted
<1>4. /\ requests' = [requests EXCEPT ![s] = new] /\ call.op \in JobOps
      /\ UNCHANGED <<jobs, workers, objects, audit, grantee, intent>>
  BY DEF ReceiveJobCall, Receive
<1> HIDE DEF new
<1>5. requests'[s] = new => HandlerOK(s)'
  BY <1>2, <1>3, <1>4 DEF HandlerOK, HandlerKnowsItsClaim, ReadingsLast
<1> QED  BY <1>2, <1>4, <1>5, TablesUntouched, SlotStep DEF IInv, TypeOK

-----------------------------------------------------------------------------
(* The steps of a handler.                                                 *)

LEMMA AuthorizeKeeps ==
  ASSUME IInv, NEW s \in Slots, Authorize(s)
  PROVE  IInv'
<1> DEFINE r == requests[s]
<1>1. /\ r \in Request /\ r.worker \in Workers /\ r.op \in Ops /\ r.pc = "authorize"
      /\ HandlerKnowsItsClaim(s)
      /\ UNCHANGED <<jobs, workers, objects, audit, grantee, intent>>
  BY SlotFacts DEF Authorize, At
<1>2. RowsKept
  BY <1>1, TablesUntouched
<1>3. CASE Approved(r.worker, Identity[r.worker])
  <2> DEFINE pc == FirstStep(r.op)
             new == [r EXCEPT !.pc = pc]
  <2>1. /\ pc \in Steps
        /\ \/ pc = "register" /\ r.op = "register"
           \/ pc = "admit" /\ r.op = "lease"
           \/ pc = "load" /\ r.op \in JobOps
    BY <1>1 DEF FirstStep, Steps, Ops, JobOps
  <2>2. Goto(s, pc)
    BY <1>3 DEF Authorize
  <2> HIDE DEF pc
  <2>3. /\ new.pc = pc /\ new.op = r.op /\ new.worker = r.worker /\ new.job = r.job
        /\ new.token = r.token
    BY <1>1 DEF Request
  <2>4. requests'[s] = new => HandlerOK(s)'
    BY <1>1, <2>1, <2>3 DEF HandlerOK, HandlerKnowsItsClaim, ReadingsLast
  <2> QED  BY <1>1, <1>2, <2>1, <2>2, <2>4, GotoStep
<1>4. CASE ~Approved(r.worker, Identity[r.worker])
  <2>1. \E code \in Codes : Reply(s, code)
    BY <1>4 DEF Authorize, Codes
  <2> QED  BY <1>1, <1>2, <2>1, ReplyStep DEF At, IInv, TypeOK
<1> QED  BY <1>3, <1>4

LEMMA RegisterKeeps ==
  ASSUME IInv, NEW s \in Slots, RegisterHeartbeat(s) \/ RefuseHeartbeat(s)
  PROVE  IInv'
<1> DEFINE r == requests[s]
<1>1. r \in Request /\ r.worker \in Workers /\ r.op = "register" /\ ~At(s, "idle")
  BY SlotFacts DEF RegisterHeartbeat, RefuseHeartbeat, At, HandlerKnowsItsClaim
<1>2. UNCHANGED <<jobs, objects, audit, grantee, intent>>
  BY DEF RegisterHeartbeat, RefuseHeartbeat
<1>3. workers' \in [Workers -> WorkerRow]
  <2>1. CASE RegisterHeartbeat(s)
    <3>1. Identity[r.worker] \in Subjects /\ r.offer \in Offers \cup {NoOffer}
      BY <1>1, IdentityAssumption DEF Request
    <3>2. workers \in [Workers -> WorkerRow]
      BY DEF IInv, TypeOK
    <3> QED  BY <1>1, <2>1, <3>1, <3>2 DEF RegisterHeartbeat, Upsert, WorkerRow, WorkerStatus
  <2>2. CASE RefuseHeartbeat(s)
    BY <2>2 DEF RefuseHeartbeat, IInv, TypeOK
  <2> QED  BY <2>1, <2>2
<1>4. RefusalCode(r) \in Codes
  BY DEF RefusalCode, Codes
<1>5. \E code \in Codes : Reply(s, code)
  BY <1>4 DEF RegisterHeartbeat, RefuseHeartbeat, Codes
<1> QED  BY <1>1, <1>2, <1>3, <1>5, TablesUntouched, ReplyStep

LEMMA AdmitKeeps ==
  ASSUME IInv, NEW s \in Slots, AdmitLease(s)
  PROVE  IInv'
<1> DEFINE r == requests[s]
           a == [r EXCEPT !.pc = "expire"]
           b == [a EXCEPT !.capability_ids = Effective(r)]
           new == [b EXCEPT !.offer = workers[r.worker].offer]
<1>1. r \in Request /\ r.worker \in Workers /\ r.op = "lease"
  BY SlotFacts DEF AdmitLease, At, HandlerKnowsItsClaim
<1>2. Effective(r) \in SUBSET Capabilities
  BY <1>1 DEF Effective, Request
<1>3. workers[r.worker].offer \in Offers \cup {NoOffer}
  BY <1>1 DEF IInv, TypeOK, WorkerRow
<1>4. a \in Request
  BY <1>1, RequestFields DEF Steps
<1>5. b \in Request
  <2> HIDE DEF a
  <2> QED  BY <1>2, <1>4, RequestFields
<1>6. new \in Request
  <2> HIDE DEF b
  <2> QED  BY <1>3, <1>5, RequestFields
<1>7. new.pc = "expire" /\ new.op = "lease" /\ new.worker = r.worker
  BY <1>1 DEF Request
<1>8. new = [r EXCEPT !.pc = "expire", !.capability_ids = Effective(r),
                      !.offer = workers[r.worker].offer]
  BY <1>1 DEF Request
<1> HIDE DEF new
<1>9. requests' = [requests EXCEPT ![s] = new]
  BY <1>8 DEF AdmitLease
<1>10. requests'[s] = new => HandlerOK(s)'
  BY <1>1, <1>7 DEF HandlerOK, HandlerKnowsItsClaim, ReadingsLast, Ops, JobOps
<1> QED  BY <1>6, <1>9, <1>10, TablesUntouched, SlotStep DEF AdmitLease, IInv, TypeOK

\* Steps that only answer.
LEMMA AnswerKeeps ==
  ASSUME IInv, NEW s \in Slots,
         DenyLease(s) \/ ClaimNothing(s) \/ MintGrants(s) \/ RefuseStale(s) \/ Outage(s)
  PROVE  IInv'
<1>1. ~At(s, "idle") /\ UNCHANGED <<jobs, workers, objects, audit, grantee, intent>>
  BY DEF DenyLease, ClaimNothing, MintGrants, RefuseStale, Outage, At, Steps
<1>2. \E code \in Codes : Reply(s, code)
  BY DEF DenyLease, ClaimNothing, MintGrants, RefuseStale, Outage, Codes
<1> QED  BY <1>1, <1>2, TablesUntouched, ReplyStep DEF IInv, TypeOK

LEMMA ExpireBeforeLeaseKeeps ==
  ASSUME IInv, NEW s \in Slots, ExpireBeforeLease(s)
  PROVE  IInv'
<1> DEFINE new == [requests[s] EXCEPT !.pc = "claim"]
<1>1. /\ requests[s] \in Request /\ requests[s].worker \in Workers /\ requests[s].op = "lease"
      /\ UNCHANGED <<workers, objects, audit, grantee, intent>>
  BY SlotFacts DEF ExpireBeforeLease, At, HandlerKnowsItsClaim
<1>2. RowsKept
  BY <1>1, ExpireKeeps DEF ExpireBeforeLease
<1>3. new.pc = "claim" /\ new.op = "lease" /\ new.worker = requests[s].worker
  BY <1>1 DEF Request
<1>4. requests'[s] = new => HandlerOK(s)'
  <2> HIDE DEF new
  <2> QED  BY <1>1, <1>3 DEF HandlerOK, HandlerKnowsItsClaim, ReadingsLast, Ops, JobOps
<1> QED  BY <1>1, <1>2, <1>4, GotoStep DEF ExpireBeforeLease, Steps

LEMMA ClaimJobKeeps ==
  ASSUME IInv, NEW s \in Slots, NEW j \in Jobs, ClaimJob(s, j)
  PROVE  IInv'
<1> DEFINE r == requests[s]
           n == jobs[j].attempts + 1
           a == [r EXCEPT !.pc = "mint"]
           b == [a EXCEPT !.job = j]
           new == [b EXCEPT !.token = n]
<1>1. /\ r \in Request /\ r.worker \in Workers /\ r.op = "lease" /\ r.span \in Nat
      /\ UNCHANGED <<workers, objects, audit, intent>>
  BY SlotFacts DEF ClaimJob, At, HandlerKnowsItsClaim, Request
<1>2. n \in 1..20
  BY RowFacts, BudgetBound DEF ClaimJob, Lease, Candidates
<1>3. grantee' = [grantee EXCEPT ![j][n] = r.worker]
  BY DEF ClaimJob
<1>4. RowsKept
  BY <1>1, <1>3, LeaseKeeps DEF ClaimJob
<1>5. grantee' \in [Jobs -> [1..20 -> Workers \cup {Nobody}]]
  BY <1>1, <1>2, <1>3 DEF IInv, TypeOK
<1>6. a \in Request
  BY <1>1, RequestFields DEF Steps
<1>7. b \in Request
  <2> HIDE DEF a
  <2> QED  BY <1>6, RequestFields
<1>8. new \in Request
  <2>1. n \in Nat
    BY <1>2
  <2> HIDE DEF b, n
  <2> QED  BY <1>7, <2>1, RequestFields
<1>9. new.pc = "mint" /\ new.op = "lease" /\ new.worker = r.worker
  BY <1>1 DEF Request
<1>10. new = [r EXCEPT !.pc = "mint", !.job = j, !.token = n]
  BY <1>1 DEF Request
<1> HIDE DEF new, n
<1>11. requests' = [requests EXCEPT ![s] = new]
  BY <1>10 DEF ClaimJob, n
<1>12. requests'[s] = new => HandlerOK(s)'
  BY <1>1, <1>9 DEF HandlerOK, HandlerKnowsItsClaim, ReadingsLast, Ops, JobOps
<1> QED  BY <1>1, <1>4, <1>5, <1>8, <1>11, <1>12, SlotStep DEF IInv, TypeOK

\* A handler that has a claim: the facts every step from load on starts from.
LEMMA ClaimFacts ==
  ASSUME IInv, NEW s \in Slots,
         requests[s].pc \in {"load", "verify", "reject", "settle", "audit"}
  PROVE  /\ requests[s] \in Request
         /\ requests[s].worker \in Workers
         /\ requests[s].op \in JobOps
         /\ requests[s].job \in Jobs
         /\ requests[s].token \in 1..jobs[requests[s].job].attempts
         /\ requests[s].token \in Nat
         /\ jobs[requests[s].job].attempts \in 0..20
         /\ ~At(s, "idle")
<1> USE SlotFacts DEF HandlerKnowsItsClaim, At
<1>1. requests[s].job \in Jobs /\ requests[s].token \in 1..jobs[requests[s].job].attempts
  OBVIOUS
<1>2. requests[s].token \in Nat
  BY DEF Request
<1> QED  BY <1>1, <1>2, RowFacts

LEMMA LoadKeeps ==
  ASSUME IInv, NEW s \in Slots, LoadOwnedJob(s)
  PROVE  IInv'
<1> DEFINE r == requests[s]
<1>1. /\ UNCHANGED <<jobs, workers, objects, audit, grantee, intent>> /\ r.pc = "load"
      /\ HandlerKnowsItsClaim(s)
  BY SlotFacts DEF LoadOwnedJob, At
<1>2. /\ r \in Request /\ r.worker \in Workers /\ r.op \in JobOps /\ r.job \in Jobs
      /\ r.token \in 1..jobs[r.job].attempts /\ jobs[r.job].attempts \in 0..20
      /\ ~At(s, "idle")
  BY <1>1, ClaimFacts
<1>3. CASE Owned(s)
  <2> DEFINE pc == IF r.op = "complete" THEN "verify" ELSE "settle"
             spent == r.op = "release" /\ Spent(r.job)
             new == [[r EXCEPT !.pc = pc] EXCEPT !.spent = spent]
  <2>1. pc \in Steps /\ spent \in BOOLEAN
    BY DEF Steps
  <2>2. new \in Request
    <3>1. [r EXCEPT !.pc = pc] \in Request
      BY <1>2, <2>1, RequestFields
    <3> HIDE DEF pc, spent
    <3> QED  BY <2>1, <3>1 DEF Request
  <2>3. new = [r EXCEPT !.pc = pc, !.spent = spent]
    BY <1>2 DEF Request
  <2>4. requests' = [requests EXCEPT ![s] = new]
    BY <1>3, <2>3 DEF LoadOwnedJob
  <2>5. /\ new.pc = pc /\ new.spent = spent /\ new.op = r.op /\ new.worker = r.worker
        /\ new.job = r.job /\ new.token = r.token
    BY <1>2 DEF Request
  <2>6. r.op = "release" /\ ~spent => r.token < Budget(r.job)
    BY <1>2, BudgetBound DEF Spent
  <2> HIDE DEF new, spent
  <2>7. requests'[s] = new => HandlerOK(s)'
    BY <1>1, <1>2, <2>5, <2>6 DEF HandlerOK, HandlerKnowsItsClaim, ReadingsLast, JobOps, Ops
  <2> QED  BY <1>1, <2>2, <2>4, <2>7, TablesUntouched, SlotStep DEF IInv, TypeOK
<1>4. CASE ~Owned(s)
  BY <1>1, <1>2, <1>4, TablesUntouched, ReplyStep DEF LoadOwnedJob, Codes, IInv, TypeOK
<1> QED  BY <1>3, <1>4

\* An artifact that was verified is there for good.
LEMMA VerifyKeeps ==
  ASSUME IInv, NEW s \in Slots, VerifyOutput(s)
  PROVE  IInv'
<1> DEFINE r == requests[s]
           pc == IF Attested(r) THEN "settle" ELSE "reject"
           new == [r EXCEPT !.pc = pc]
<1>1. /\ UNCHANGED <<jobs, workers, objects, audit, grantee, intent>> /\ r.pc = "verify"
      /\ HandlerKnowsItsClaim(s)
  BY SlotFacts DEF VerifyOutput, At
<1>2. /\ r \in Request /\ r.worker \in Workers /\ r.op = "complete" /\ r.job \in Jobs
      /\ r.token \in 1..jobs[r.job].attempts
  BY <1>1, ClaimFacts DEF HandlerKnowsItsClaim
<1>3. pc \in {"settle", "reject"} /\ Goto(s, pc)
  BY DEF VerifyOutput
<1>4. pc = "settle" => r.digest \in Digests /\ Stored(OutputKey(r.job)) = r.digest
  BY <1>2 DEF Attested, Request
<1> HIDE DEF pc
<1>5. /\ new.pc = pc /\ new.op = "complete" /\ new.worker = r.worker /\ new.job = r.job
      /\ new.token = r.token /\ new.digest = r.digest
  BY <1>2 DEF Request
<1> HIDE DEF new
<1>6. requests'[s] = new => HandlerOK(s)'
  BY <1>1, <1>2, <1>3, <1>4, <1>5
  DEF HandlerOK, HandlerKnowsItsClaim, ReadingsLast, JobOps, Ops, Stored
<1> QED  BY <1>1, <1>3, <1>6, TablesUntouched, GotoStep DEF Steps, new

LEMMA RejectKeeps ==
  ASSUME IInv, NEW s \in Slots, RejectCompletion(s)
  PROVE  IInv'
<1> DEFINE r == requests[s]
<1>1. r.pc = "reject" /\ UNCHANGED <<workers, objects, audit, grantee, intent>>
  BY DEF RejectCompletion, At
<1>2. r.job \in Jobs /\ r.token \in Nat /\ ~At(s, "idle")
  BY <1>1, ClaimFacts
<1>3. RowsKept
  BY <1>1, <1>2, FailKeeps, TablesUntouched DEF RejectCompletion
<1> QED  BY <1>1, <1>2, <1>3, ReplyStep DEF RejectCompletion, Codes, IInv, TypeOK

LEMMA SettleHeartbeatKeeps ==
  ASSUME IInv, NEW s \in Slots, SettleHeartbeat(s)
  PROVE  IInv'
<1> DEFINE r == requests[s]
<1>1. r.pc = "settle" /\ UNCHANGED <<workers, objects, audit, grantee, intent>>
  BY DEF SettleHeartbeat, At
<1>2. r.job \in Jobs /\ r.token \in Nat /\ ~At(s, "idle")
  BY <1>1, ClaimFacts
<1>3. RowsKept
  BY <1>1, <1>2, HeartbeatKeeps, DefaultLeaseAssumption DEF SettleHeartbeat
<1> QED  BY <1>1, <1>2, <1>3, ReplyStep DEF SettleHeartbeat, Codes, IInv, TypeOK

\* A settled handler has a settlement to record.
LEMMA SettledStep ==
  ASSUME IInv, NEW s \in Slots, requests[s].pc = "settle", Goto(s, "audit"),
         RowsKept, requests[s].op # "heartbeat",
         jobs'[requests[s].job].status =
           IF requests[s].op = "complete" THEN "completed" ELSE "failed",
         UNCHANGED <<workers, objects, audit, grantee, intent>>
  PROVE  IInv'
<1> DEFINE r == requests[s]
           new == [r EXCEPT !.pc = "audit"]
<1>1. /\ r \in Request /\ r.worker \in Workers /\ r.op \in JobOps /\ r.job \in Jobs
      /\ r.token \in 1..jobs[r.job].attempts /\ jobs[r.job].attempts \in 0..20
      /\ HandlerKnowsItsClaim(s)
  BY ClaimFacts, SlotFacts
<1>2. /\ new.pc = "audit" /\ new.op = r.op /\ new.worker = r.worker /\ new.job = r.job
      /\ new.token = r.token
  BY <1>1 DEF Request
<1>3. r.token \in 1..jobs'[r.job].attempts
  BY <1>1 DEF RowsKept, Evolves, Row
<1>4. grantee'[r.job][r.token] = r.worker
  BY <1>1 DEF HandlerKnowsItsClaim
<1> HIDE DEF new
<1>5. requests'[s] = new => HandlerOK(s)'
  BY <1>1, <1>2, <1>3, <1>4 DEF HandlerOK, HandlerKnowsItsClaim, ReadingsLast, JobOps, Ops
<1> QED  BY <1>5, GotoStep DEF Steps, new

LEMMA SettleCompleteKeeps ==
  ASSUME IInv, NEW s \in Slots, SettleComplete(s)
  PROVE  IInv'
<1> DEFINE r == requests[s]
<1>1. /\ r.pc = "settle" /\ r.op = "complete"
      /\ UNCHANGED <<workers, objects, audit, grantee, intent>>
  BY DEF SettleComplete, At
<1>2. r.job \in Jobs /\ r.token \in Nat /\ ReadingsLast(s)
  BY <1>1, ClaimFacts, SlotFacts
<1>3. r.digest \in Digests /\ Stored(OutputKey(r.job)) = r.digest
  BY <1>1, <1>2 DEF ReadingsLast
<1>4. RowsKept /\ jobs'[r.job].status = "completed"
  BY <1>1, <1>2, <1>3, CompleteKeeps DEF SettleComplete
<1> QED  BY <1>1, <1>4, SettledStep DEF SettleComplete

LEMMA SettleFailKeeps ==
  ASSUME IInv, NEW s \in Slots, SettleFail(s)
  PROVE  IInv'
<1> DEFINE r == requests[s]
<1>1. /\ r.pc = "settle" /\ r.op = "fail"
      /\ UNCHANGED <<workers, objects, audit, grantee, intent>>
  BY DEF SettleFail, At
<1>2. r.job \in Jobs /\ r.token \in Nat /\ r.retryable \in BOOLEAN
  BY <1>1, ClaimFacts DEF Request
<1>3. RowsKept /\ jobs'[r.job].status = "failed"
  BY <1>1, <1>2, FailKeeps DEF SettleFail
<1> QED  BY <1>1, <1>3, SettledStep DEF SettleFail

\* The claim released was not the last one allowed, when it was read and still.
LEMMA SettleReleaseKeeps ==
  ASSUME IInv, NEW s \in Slots, SettleRelease(s)
  PROVE  IInv'
<1> DEFINE r == requests[s]
<1>1. /\ r.pc = "settle" /\ r.op = "release"
      /\ UNCHANGED <<workers, objects, audit, grantee, intent>>
  BY DEF SettleRelease, At
<1>2. r.job \in Jobs /\ r.token \in Nat /\ ReadingsLast(s) /\ ~At(s, "idle")
  BY <1>1, ClaimFacts, SlotFacts
<1>3. CASE Fail(r.job, r.token, TRUE) /\ Goto(s, "audit")
  <2>1. RowsKept /\ jobs'[r.job].status = "failed"
    BY <1>1, <1>2, <1>3, FailKeeps
  <2> QED  BY <1>1, <1>3, <2>1, SettledStep
<1>4. CASE ~r.spent /\ Release(r.job, r.token) /\ Reply(s, 200)
  <2>1. r.token < Budget(r.job)
    BY <1>1, <1>2, <1>4 DEF ReadingsLast
  <2>2. RowsKept
    BY <1>1, <1>2, <1>4, <2>1, ReleaseKeeps
  <2> QED  BY <1>1, <1>2, <1>4, <2>2, ReplyStep DEF Codes, IInv, TypeOK
<1> QED  BY <1>3, <1>4 DEF SettleRelease

LEMMA RecordKeeps ==
  ASSUME IInv, NEW s \in Slots, RecordSettlement(s)
  PROVE  IInv'
<1> DEFINE r == requests[s]
<1>1. /\ r.pc = "audit" /\ UNCHANGED <<jobs, workers, objects, grantee, intent>>
      /\ Reply(s, 200) /\ audit' = audit \cup {Event(r)}
  BY DEF RecordSettlement, At
<1>2. r.job \in Jobs /\ r.worker \in Workers /\ r.op \in JobOps /\ ReadingsLast(s)
  BY <1>1, ClaimFacts, SlotFacts
<1>3. AuditIsTruthful'
  BY <1>1, <1>2 DEF AuditIsTruthful, Event, ReadingsLast, IInv
<1>4. audit' \subseteq Settlements
  BY <1>1, <1>2 DEF Settlements, Event, IInv, TypeOK
<1>5. RowsKept
  BY <1>1, TablesUntouched
<1>6. PICK new \in Request : /\ requests' = [requests EXCEPT ![s] = new]
                             /\ new.pc = "reply" /\ new.worker = r.worker
                             /\ new.op = r.op
  BY <1>1, ReplyRequest DEF Codes, At
<1>7. requests'[s] = new /\ requests' \in [Slots -> Request]
  BY <1>6 DEF IInv, TypeOK
<1>8. HandlerOK(s)'
  BY <1>2, <1>6, <1>7 DEF HandlerOK, HandlerKnowsItsClaim, ReadingsLast, Ops
<1>9. \A t \in Slots : requests'[t] = requests[t] \/ HandlerOK(t)'
  BY <1>6, <1>8 DEF IInv, TypeOK
<1> QED  BY <1>1, <1>3, <1>4, <1>5, <1>7, <1>9, Preserved DEF IInv, TypeOK

-----------------------------------------------------------------------------
(* The rest of the world.                                                  *)

\* A step that leaves the handlers alone.
LEMMA TablesStep ==
  ASSUME IInv, RowsKept, UNCHANGED <<requests, audit, grantee>>,
         workers' \in [Workers -> WorkerRow],
         objects' \in [OutputKeys -> Digests \cup {NoDigest}],
         intent' \in [Workers -> WorkerStatus]
  PROVE  IInv'
BY AuditKept, Preserved DEF RowsKept, IInv, TypeOK

LEMMA HostKeeps ==
  ASSUME IInv, HostStep
  PROVE  IInv'
<1>1. ASSUME NEW j \in Jobs, HostSubmit(j) \/ HostCancel(j) PROVE IInv'
  BY <1>1, SubmitKeeps, CancelKeeps, TablesStep DEF HostSubmit, HostCancel, IInv, TypeOK
<1>2. ASSUME NEW w \in Workers, NEW status \in HostStatuses, HostSetStatus(w, status)
      PROVE  IInv'
  <2>1. status \in WorkerStatus
    BY HostStatusesAssumption
  <2>2. workers' \in [Workers -> WorkerRow]
    BY <1>2, <2>1 DEF HostSetStatus, SetStatus, WorkerRow, IInv, TypeOK
  <2>3. intent' \in [Workers -> WorkerStatus]
    BY <1>2, <2>1 DEF HostSetStatus, IInv, TypeOK
  <2> QED  BY <1>2, <2>2, <2>3, TablesUntouched, TablesStep DEF HostSetStatus, IInv, TypeOK
<1> QED  BY <1>1, <1>2 DEF HostStep

LEMMA UploadStepKeeps ==
  ASSUME IInv, NEW w \in Workers, NEW j \in Jobs, NEW digest \in Digests, Upload(w, j, digest)
  PROVE  IInv'
BY UploadKeeps, BudgetBound, TablesStep DEF Upload, IInv, TypeOK

\* A handler that is gone knows nothing.
LEMMA GoneKeeps ==
  ASSUME IInv, NEW gone \in SUBSET Slots,
         requests' = [s \in Slots |-> IF s \in gone THEN Idle ELSE requests[s]],
         UNCHANGED <<jobs, workers, objects, audit, grantee, intent>>
  PROVE  IInv'
<1>1. requests' \in [Slots -> Request]
  BY IdleRequest DEF IInv, TypeOK
<1>2. \A s \in Slots : requests'[s] = requests[s] \/ requests'[s] = Idle
  OBVIOUS
<1>3. ASSUME NEW s \in Slots, requests'[s] = Idle PROVE HandlerOK(s)'
  BY <1>3 DEF HandlerOK, HandlerKnowsItsClaim, ReadingsLast, Idle, JobOps
<1>4. RowsKept
  BY TablesUntouched
<1>5. AuditIsTruthful'
  BY <1>4, AuditKept DEF RowsKept
<1> QED  BY <1>1, <1>2, <1>3, <1>4, <1>5, Preserved DEF IInv, TypeOK

LEMMA RespondKeeps ==
  ASSUME IInv, NEW s \in Slots, Respond(s)
  PROVE  IInv'
<1>1. requests' = [t \in Slots |-> IF t \in {s} THEN Idle ELSE requests[t]]
  BY DEF Respond, IInv, TypeOK
<1> QED  BY <1>1, GoneKeeps DEF Respond

LEMMA CrashKeeps ==
  ASSUME IInv, Crash
  PROVE  IInv'
<1>1. requests' = [t \in Slots |-> IF t \in Slots THEN Idle ELSE requests[t]]
  BY DEF Crash
<1> QED  BY <1>1, GoneKeeps DEF Crash

-----------------------------------------------------------------------------
(* A handler's steps are its own.                                          *)

LEMMA GotoOwn ==
  ASSUME IInv, NEW s \in Slots, NEW pc, Goto(s, pc)
  PROVE  /\ requests'[s].pc = pc
         /\ requests'[s].worker = requests[s].worker
         /\ requests'[s].offer = requests[s].offer
         /\ \A t \in Slots \ {s} : requests'[t] = requests[t]
<1>1. requests[s] \in Request /\ requests \in [Slots -> Request]
  BY DEF IInv, TypeOK
<1> QED  BY <1>1 DEF Goto, Request

LEMMA ReplyOwn ==
  ASSUME IInv, NEW s \in Slots, NEW code \in Codes, ~At(s, "idle"), Reply(s, code)
  PROVE  /\ requests'[s].pc = "reply"
         /\ \A t \in Slots \ {s} : requests'[t] = requests[t]
<1>1. PICK new \in Request : requests' = [requests EXCEPT ![s] = new] /\ new.pc = "reply"
  BY ReplyRequest
<1> QED  BY <1>1 DEF IInv, TypeOK

\* A step of a handler that does not reach the claim.
Aside(s) ==
  /\ \A t \in Slots \ {s} : requests'[t] = requests[t]
  /\ requests'[s].pc \notin {"expire", "claim"}

LEMMA ReplyAside ==
  ASSUME IInv, NEW s \in Slots, NEW code \in Codes, ~At(s, "idle"), Reply(s, code)
  PROVE  Aside(s) /\ requests'[s].pc = "reply"
BY ReplyOwn DEF Aside

LEMMA GotoAside ==
  ASSUME IInv, NEW s \in Slots, NEW pc, pc \notin {"expire", "claim"}, Goto(s, pc)
  PROVE  Aside(s)
BY GotoOwn DEF Aside

LEMMA JobStepAside ==
  ASSUME IInv, NEW s \in Slots, JobStep(s)
  PROVE  Aside(s)
<1>1. ~At(s, "idle")
  BY DEF JobStep, LoadOwnedJob, VerifyOutput, RejectCompletion, SettleHeartbeat,
     SettleComplete, SettleFail, SettleRelease, RefuseStale, RecordSettlement, At
<1>2. CASE LoadOwnedJob(s) /\ Owned(s)
  <2> DEFINE r == requests[s]
             pc == IF r.op = "complete" THEN "verify" ELSE "settle"
             new == [r EXCEPT !.pc = pc, !.spent = r.op = "release" /\ Spent(r.job)]
  <2>1. requests' = [requests EXCEPT ![s] = new]
    BY <1>2 DEF LoadOwnedJob, IInv, TypeOK
  <2>2. new.pc = pc /\ pc \in {"verify", "settle"}
    BY DEF IInv, TypeOK, Request
  <2> HIDE DEF new
  <2> QED  BY <2>1, <2>2 DEF Aside, IInv, TypeOK
<1>3. CASE LoadOwnedJob(s) /\ ~Owned(s)
  BY <1>1, <1>3, ReplyAside DEF LoadOwnedJob, Codes
<1>4. CASE VerifyOutput(s)
  BY <1>4, GotoAside DEF VerifyOutput
<1>5. CASE RejectCompletion(s) \/ SettleHeartbeat(s) \/ RefuseStale(s) \/ RecordSettlement(s)
  <2>1. Reply(s, 422) \/ Reply(s, 200) \/ Reply(s, 409)
    BY <1>5 DEF RejectCompletion, SettleHeartbeat, RefuseStale, RecordSettlement
  <2> QED  BY <1>1, <2>1, ReplyAside DEF Codes
<1>6. CASE SettleComplete(s) \/ SettleFail(s)
  BY <1>6, GotoAside DEF SettleComplete, SettleFail
<1>7. CASE SettleRelease(s)
  <2>1. Goto(s, "audit") \/ Reply(s, 200)
    BY <1>7 DEF SettleRelease
  <2> QED  BY <1>1, <2>1, GotoAside, ReplyAside DEF Codes
<1> QED  BY <1>2, <1>3, <1>4, <1>5, <1>6, <1>7 DEF JobStep

LEMMA LeaseStepAside ==
  ASSUME IInv, NEW s \in Slots, LeaseStep(s), ~AdmitLease(s), ~ExpireBeforeLease(s)
  PROVE  Aside(s)
<1>1. ~At(s, "idle")
  BY DEF LeaseStep, DenyLease, ClaimJob, ClaimNothing, MintGrants, At
<1>2. ASSUME NEW j \in Jobs, ClaimJob(s, j) PROVE Aside(s)
  <2> DEFINE n == jobs[j].attempts + 1
             a == [requests[s] EXCEPT !.pc = "mint"]
             b == [a EXCEPT !.job = j]
             new == [b EXCEPT !.token = n]
  <2>1. requests[s] \in Request
    BY SlotFacts
  <2>2. requests' = [requests EXCEPT ![s] = new]
    BY <1>2, <2>1 DEF ClaimJob, IInv, TypeOK, Request
  <2>3. new.pc = "mint"
    BY <2>1 DEF Request
  <2> HIDE DEF new
  <2> QED  BY <2>2, <2>3 DEF Aside, IInv, TypeOK
<1>3. CASE DenyLease(s) \/ ClaimNothing(s) \/ MintGrants(s)
  <2>1. \E code \in Codes : Reply(s, code)
    BY <1>3 DEF DenyLease, ClaimNothing, MintGrants, Codes
  <2> QED  BY <1>1, <2>1, ReplyAside
<1> QED  BY <1>2, <1>3 DEF LeaseStep

LEMMA AuthorizeAside ==
  ASSUME IInv, NEW s \in Slots, Authorize(s)
  PROVE  /\ Aside(s)
         /\ requests'[s].pc # "reply" => Approved(requests[s].worker, Identity[requests[s].worker])
<1> DEFINE w == requests[s].worker
<1>1. ~At(s, "idle")
  BY DEF Authorize, At
<1>2. CASE Approved(w, Identity[w])
  <2>1. Goto(s, FirstStep(requests[s].op))
    BY <1>2 DEF Authorize
  <2>2. FirstStep(requests[s].op) \in {"register", "admit", "load"}
    BY DEF FirstStep
  <2> HIDE DEF w
  <2> QED  BY <1>2, <2>1, <2>2, GotoAside DEF w
<1>3. CASE ~Approved(w, Identity[w])
  <2>1. \E code \in Codes : Reply(s, code)
    BY <1>3 DEF Authorize, Codes
  <2> QED  BY <1>1, <2>1, ReplyAside
<1> QED  BY <1>2, <1>3

LEMMA HandlerAside ==
  ASSUME IInv, NEW s \in Slots, HandlerStep(s) \/ Outage(s),
         ~AdmitLease(s), ~ExpireBeforeLease(s)
  PROVE  Aside(s)
<1>1. CASE RegisterHeartbeat(s) \/ RefuseHeartbeat(s) \/ Outage(s)
  <2>1. ~At(s, "idle") /\ \E code \in Codes : Reply(s, code)
    BY <1>1 DEF RegisterHeartbeat, RefuseHeartbeat, Outage, At, Codes, RefusalCode, Steps
  <2> QED  BY <2>1, ReplyAside
<1> QED  BY <1>1, AuthorizeAside, LeaseStepAside, JobStepAside DEF HandlerStep

\* A handler moves on by its own steps only.
LEMMA OwnStep ==
  ASSUME IInv, [Next]_vars, NEW s \in Slots
  PROVE  \/ requests'[s] = requests[s]
         \/ requests'[s].pc \in {"authorize", "idle", "reply"}
         \/ HandlerStep(s)
<1>1. CASE HostStep \/ Tick \/ UNCHANGED vars
  BY <1>1 DEF HostStep, HostSubmit, HostCancel, HostSetStatus, Tick, vars
<1>2. CASE Arrival
  <2>1. ASSUME NEW t \in Slots, NEW w \in Workers, NEW call \in Calls, NEW j, NEW token,
               Receive(t, Opened(w, call, j, token))
        PROVE  requests'[s] = requests[s] \/ requests'[s].pc = "authorize"
    <3>1. requests' = [requests EXCEPT ![t] = Opened(w, call, j, token)]
      BY <2>1 DEF Receive
    <3>2. Opened(w, call, j, token).pc = "authorize"
      BY DEF Opened
    <3> QED  BY <3>1, <3>2 DEF IInv, TypeOK
  <2> QED  BY <1>2, <2>1 DEF Arrival, ReceiveCall, ReceiveJobCall
<1>3. ASSUME NEW t \in Slots \ {s}, HandlerStep(t) \/ Outage(t)
      PROVE  requests'[s] = requests[s]
  <2>1. CASE AdmitLease(t)
    BY <2>1 DEF AdmitLease, IInv, TypeOK
  <2>2. CASE ExpireBeforeLease(t)
    BY <2>2, GotoOwn DEF ExpireBeforeLease
  <2>3. CASE ~AdmitLease(t) /\ ~ExpireBeforeLease(t)
    BY <1>3, <2>3, HandlerAside DEF Aside
  <2> QED  BY <2>1, <2>2, <2>3
<1>4. CASE Outage(s)
  <2>1. ~At(s, "idle") /\ Reply(s, 500)
    BY <1>4 DEF Outage, At, Steps
  <2> QED  BY <2>1, ReplyOwn DEF Codes
<1>5. ASSUME NEW t \in Slots, Respond(t) PROVE requests'[s] \in {requests[s], Idle}
  BY <1>5 DEF Respond, IInv, TypeOK
<1>6. CASE Crash
  BY <1>6 DEF Crash, Idle
<1>7. ASSUME NEW w \in Workers, NEW j \in Jobs, NEW digest \in Digests, Upload(w, j, digest)
      PROVE  requests' = requests
  BY <1>7 DEF Upload
<1> QED  BY <1>1, <1>2, <1>3, <1>4, <1>5, <1>6, <1>7 DEF Next, Idle

-----------------------------------------------------------------------------
(* Only a registration or the host changes the worker table, only a claim  *)
(* gives a job a holder.                                                   *)

LEMMA WorkersChange ==
  ASSUME [Next]_vars
  PROVE  \/ UNCHANGED <<workers, intent>>
         \/ \E s \in Slots : RegisterHeartbeat(s)
         \/ \E w \in Workers, status \in HostStatuses : HostSetStatus(w, status)
<1>1. CASE HostStep
  BY <1>1 DEF HostStep, HostSubmit, HostCancel
<1>2. CASE Arrival
  BY <1>2 DEF Arrival, ReceiveCall, ReceiveJobCall, Receive
<1>3. ASSUME NEW s \in Slots, HandlerStep(s)
      PROVE  UNCHANGED <<workers, intent>> \/ RegisterHeartbeat(s)
  BY <1>3 DEF HandlerStep, Authorize, RefuseHeartbeat, LeaseStep, AdmitLease, DenyLease,
     ExpireBeforeLease, ClaimJob, ClaimNothing, MintGrants, JobStep, LoadOwnedJob,
     VerifyOutput, RejectCompletion, SettleHeartbeat, SettleComplete, SettleFail,
     SettleRelease, RefuseStale, RecordSettlement
<1>4. ASSUME NEW s \in Slots, Respond(s) \/ Outage(s) PROVE UNCHANGED <<workers, intent>>
  BY <1>4 DEF Respond, Outage
<1>5. CASE Crash \/ Tick \/ UNCHANGED vars
  BY <1>5 DEF Crash, Tick, vars
<1>6. ASSUME NEW w \in Workers, NEW j \in Jobs, NEW digest \in Digests, Upload(w, j, digest)
      PROVE  UNCHANGED <<workers, intent>>
  BY <1>6 DEF Upload
<1> QED  BY <1>1, <1>2, <1>3, <1>4, <1>5, <1>6 DEF Next

NoNewHolder(j) == jobs'[j].leased_by \in {jobs[j].leased_by, Nobody}

\* A statement on one job that settles, requeues or renews it.
LEMMA OneRowHolder ==
  ASSUME IInv, NEW j \in Jobs, NEW row, jobs' = [jobs EXCEPT ![j] = row],
         row.leased_by \in {jobs[j].leased_by, Nobody}
  PROVE  \A k \in Jobs : NoNewHolder(k)
BY DEF IInv, TypeOK, NoNewHolder

LEMMA SettledHolder ==
  ASSUME IInv, NEW j \in Jobs, NEW status \in JobStatus
  PROVE  /\ Settled(jobs[j], status).leased_by = Nobody
         /\ \A b \in BOOLEAN :
              [Settled(jobs[j], status) EXCEPT !.retryable = b].leased_by = Nobody
<1> DEFINE bare == Settled(jobs[j], status)
<1>1. bare \in Row /\ bare.leased_by = Nobody
  BY RowFacts, SettledRow
<1> HIDE DEF bare
<1>2. \A b \in BOOLEAN : [bare EXCEPT !.retryable = b].leased_by = Nobody
  BY <1>1 DEF Row
<1> QED  BY <1>1, <1>2 DEF bare

LEMMA FailHolder ==
  ASSUME IInv, NEW j \in Jobs, NEW token, NEW retryable \in BOOLEAN, Fail(j, token, retryable)
  PROVE  \A k \in Jobs : NoNewHolder(k)
<1> DEFINE row == [Settled(jobs[j], "failed") EXCEPT !.retryable = retryable]
<1>1. row.leased_by = Nobody
  BY SettledHolder DEF JobStatus
<1>2. jobs' = [jobs EXCEPT ![j] = row]
  BY DEF Fail
<1> HIDE DEF row
<1> QED  BY <1>1, <1>2, OneRowHolder

LEMMA ReleaseHolder ==
  ASSUME IInv, NEW j \in Jobs, NEW token, Release(j, token)
  PROVE  \A k \in Jobs : NoNewHolder(k)
BY SettledHolder, OneRowHolder DEF Release, JobStatus

LEMMA CancelHolder ==
  ASSUME IInv, NEW j \in Jobs, Cancel(j)
  PROVE  \A k \in Jobs : NoNewHolder(k)
BY SettledHolder, OneRowHolder DEF Cancel, JobStatus

LEMMA SubmitHolder ==
  ASSUME IInv, NEW j \in Jobs, Submit(j)
  PROVE  \A k \in Jobs : NoNewHolder(k)
<1> DEFINE row == [jobs[j] EXCEPT !.status = "queued", !.created_at = Cardinality(Present)]
<1>1. jobs[j] = NoRow
  BY RowFacts DEF Submit, RowCoherent
<1>2. row.leased_by = jobs[j].leased_by
  BY <1>1 DEF NoRow
<1>3. jobs' = [jobs EXCEPT ![j] = row]
  BY DEF Submit
<1> HIDE DEF row
<1> QED  BY <1>2, <1>3, OneRowHolder

LEMMA HeartbeatHolder ==
  ASSUME IInv, NEW j \in Jobs, NEW token, NEW span, Heartbeat(j, token, span)
  PROVE  \A k \in Jobs : NoNewHolder(k)
<1> DEFINE row == [jobs[j] EXCEPT !.lease_left = span]
<1>1. row.leased_by = jobs[j].leased_by
  BY RowFacts DEF Row
<1>2. jobs' = [jobs EXCEPT ![j] = row]
  BY DEF Heartbeat
<1> HIDE DEF row
<1> QED  BY <1>1, <1>2, OneRowHolder

LEMMA CompleteHolder ==
  ASSUME IInv, NEW j \in Jobs, NEW token, NEW digest, Complete(j, token, digest)
  PROVE  \A k \in Jobs : NoNewHolder(k)
<1> DEFINE bare == Settled(jobs[j], "completed")
           row  == [bare EXCEPT !.executed_by = jobs[j].leased_by, !.output = digest]
<1>1. bare \in Row /\ bare.leased_by = Nobody
  BY RowFacts, SettledRow DEF JobStatus
<1>2. jobs' = [jobs EXCEPT ![j] = row]
  BY DEF Complete
<1> HIDE DEF bare
<1>3. row.leased_by = Nobody
  BY <1>1 DEF Row
<1> HIDE DEF row
<1> QED  BY <1>2, <1>3, OneRowHolder

LEMMA ExpireHolder ==
  ASSUME IInv, ExpireExhausted
  PROVE  \A k \in Jobs : NoNewHolder(k)
<1>1. ASSUME NEW k \in Jobs, Exhausted(k) PROVE NoNewHolder(k)
  BY <1>1, SettledHolder DEF ExpireExhausted, NoNewHolder, JobStatus
<1>2. ASSUME NEW k \in Jobs, ~Exhausted(k) PROVE NoNewHolder(k)
  BY <1>2 DEF ExpireExhausted, NoNewHolder
<1> QED  BY <1>1, <1>2

LEMMA ElapseHolder ==
  ASSUME IInv, Elapse
  PROVE  \A k \in Jobs : NoNewHolder(k)
<1>1. ASSUME NEW k \in Jobs PROVE [jobs[k] EXCEPT !.lease_left = @ - 1].leased_by = jobs[k].leased_by
  BY <1>1, RowFacts DEF Row
<1> QED  BY <1>1 DEF Elapse, NoNewHolder

LEMMA RowsHolder ==
  ASSUME UNCHANGED jobs
  PROVE  \A k \in Jobs : NoNewHolder(k)
BY DEF NoNewHolder

LEMMA HandlerHolder ==
  ASSUME IInv, NEW s \in Slots, HandlerStep(s), \A j \in Jobs : ~ClaimJob(s, j)
  PROVE  \A k \in Jobs : NoNewHolder(k)
<1> DEFINE r == requests[s]
<1>1. r \in Request /\ (r.pc \in {"reject", "settle"} => r.job \in Jobs)
  BY SlotFacts, ClaimFacts
<1>2. CASE LoadOwnedJob(s) \/ VerifyOutput(s) \/ RefuseStale(s) \/ RecordSettlement(s)
           \/ AdmitLease(s) \/ DenyLease(s) \/ ClaimNothing(s) \/ MintGrants(s)
           \/ Authorize(s) \/ RegisterHeartbeat(s) \/ RefuseHeartbeat(s)
  BY <1>2, RowsHolder DEF LoadOwnedJob, VerifyOutput, RefuseStale, RecordSettlement,
     AdmitLease, DenyLease, ClaimNothing, MintGrants, Authorize, RegisterHeartbeat,
     RefuseHeartbeat
<1>3. CASE RejectCompletion(s)
  BY <1>1, <1>3, FailHolder, RowsHolder DEF RejectCompletion, At
<1>4. CASE SettleHeartbeat(s)
  BY <1>1, <1>4, HeartbeatHolder DEF SettleHeartbeat, At
<1>5. CASE SettleComplete(s)
  BY <1>1, <1>5, CompleteHolder DEF SettleComplete, At
<1>6. CASE SettleFail(s)
  <2>1. r.retryable \in BOOLEAN
    BY <1>1 DEF Request
  <2> QED  BY <1>1, <1>6, <2>1, FailHolder DEF SettleFail, At
<1>7. CASE SettleRelease(s)
  BY <1>1, <1>7, FailHolder, ReleaseHolder DEF SettleRelease, At
<1>8. CASE ExpireBeforeLease(s)
  BY <1>8, ExpireHolder DEF ExpireBeforeLease
<1> QED  BY <1>2, <1>3, <1>4, <1>5, <1>6, <1>7, <1>8 DEF HandlerStep, LeaseStep, JobStep

LEMMA HoldersMove ==
  ASSUME IInv, [Next]_vars
  PROVE  \/ \A k \in Jobs : NoNewHolder(k)
         \/ \E s \in Slots, j \in Jobs : ClaimJob(s, j)
<1>1. CASE HostStep
  BY <1>1, SubmitHolder, CancelHolder, RowsHolder
  DEF HostStep, HostSubmit, HostCancel, HostSetStatus
<1>2. CASE Arrival \/ Crash \/ UNCHANGED vars
  BY <1>2, RowsHolder DEF Arrival, ReceiveCall, ReceiveJobCall, Receive, Crash, vars
<1>3. ASSUME NEW s \in Slots, HandlerStep(s)
      PROVE  (\A k \in Jobs : NoNewHolder(k)) \/ \E j \in Jobs : ClaimJob(s, j)
  BY <1>3, HandlerHolder
<1>4. ASSUME NEW s \in Slots, Respond(s) \/ Outage(s) PROVE UNCHANGED jobs
  BY <1>4 DEF Respond, Outage
<1>5. ASSUME NEW w \in Workers, NEW j \in Jobs, NEW digest \in Digests, Upload(w, j, digest)
      PROVE  UNCHANGED jobs
  BY <1>5 DEF Upload
<1>6. CASE Tick
  BY <1>6, ElapseHolder DEF Tick
<1> QED  BY <1>1, <1>2, <1>3, <1>4, <1>5, <1>6, RowsHolder DEF Next

-----------------------------------------------------------------------------
(* The theorems.                                                           *)

LEMMA InitIInv == Init => IInv
<1> SUFFICES ASSUME Init PROVE IInv
  OBVIOUS
<1>1. TypeOK
  <2> USE DEF Init, JobsInit, WorkersInit, ObjectsInit
  <2>1. jobs \in [Jobs -> Row]
    BY DEF Row, NoRow, NoToken
  <2>2. workers \in [Workers -> WorkerRow]
    BY DEF WorkerRow, NoWorkerRow
  <2>3. requests \in [Slots -> Request]
    BY IdleRequest
  <2> QED  BY <2>1, <2>2, <2>3 DEF TypeOK, Settlements, WorkerStatus
<1>2. ASSUME NEW j \in Jobs PROVE RowCoherent(j)
  <2>1. jobs[j] = NoRow /\ Budget(j) \in 1..20
    BY BudgetBound DEF Init, JobsInit
  <2> QED  BY <2>1 DEF RowCoherent, NoRow, Absent
<1>3. TokensAreMinted
  BY DEF TokensAreMinted, Init
<1>4. ASSUME NEW s \in Slots PROVE HandlerKnowsItsClaim(s) /\ ReadingsLast(s)
  BY DEF HandlerKnowsItsClaim, ReadingsLast, Idle, JobOps, Init
<1>5. AuditIsTruthful
  BY DEF AuditIsTruthful, Init
<1> QED  BY <1>1, <1>2, <1>3, <1>4, <1>5 DEF IInv

LEMMA NextIInv == IInv /\ [Next]_vars => IInv'
<1> SUFFICES ASSUME IInv, [Next]_vars PROVE IInv'
  OBVIOUS
<1>1. CASE HostStep
  BY <1>1, HostKeeps
<1>2. CASE Arrival
  BY <1>2, ReceiveCallKeeps, ReceiveJobCallKeeps DEF Arrival
<1>3. ASSUME NEW s \in Slots, HandlerStep(s) PROVE IInv'
  <2>1. CASE Authorize(s)
    BY <2>1, AuthorizeKeeps
  <2>2. CASE RegisterHeartbeat(s) \/ RefuseHeartbeat(s)
    BY <2>2, RegisterKeeps
  <2>3. CASE LeaseStep(s)
    BY <2>3, AdmitKeeps, AnswerKeeps, ExpireBeforeLeaseKeeps, ClaimJobKeeps DEF LeaseStep
  <2>4. CASE JobStep(s)
    BY <2>4, LoadKeeps, VerifyKeeps, RejectKeeps, SettleHeartbeatKeeps, SettleCompleteKeeps,
       SettleFailKeeps, SettleReleaseKeeps, AnswerKeeps, RecordKeeps DEF JobStep
  <2> QED  BY <1>3, <2>1, <2>2, <2>3, <2>4 DEF HandlerStep
<1>4. ASSUME NEW s \in Slots, Respond(s) \/ Outage(s) PROVE IInv'
  BY <1>4, RespondKeeps, AnswerKeeps
<1>5. CASE Crash
  BY <1>5, CrashKeeps
<1>6. ASSUME NEW w \in Workers, NEW j \in Jobs, NEW digest \in Digests, Upload(w, j, digest)
      PROVE  IInv'
  BY <1>6, UploadStepKeeps
<1>7. CASE Tick
  BY <1>7, ElapseKeeps, TablesStep DEF Tick, IInv, TypeOK
<1>8. CASE UNCHANGED vars
  BY <1>8, TablesUntouched, TablesStep DEF vars, IInv, TypeOK
<1>9. CASE Next
  BY <1>9, <1>1, <1>2, <1>3, <1>4, <1>5, <1>6, <1>7, Zenon DEF Next
<1> QED  BY <1>8, <1>9

\* The inductive invariant holds in every state of the coordinator: what the handlers
\* read before an await is still enough of the truth when they write.
THEOREM Invariance == Spec => []IInv
  BY InitIInv, NextIInv, PTL DEF Spec

\* Every variable keeps its type.
THEOREM TypeCorrectness == Spec => []TypeOK
<1>1. IInv => TypeOK
  BY DEF IInv
<1> QED  BY <1>1, Invariance, PTL

\* No queued job is out of attempts, although release decides whether to requeue on a row
\* it read before the statement that requeues.
THEOREM QueuedJobsCanBeClaimed == Spec => []QueuedHasBudget
<1>1. IInv => QueuedHasBudget
  BY RowFacts DEF QueuedHasBudget, RowCoherent
<1> QED  BY <1>1, Invariance, PTL

\* leased_by and claim_token move together in every statement.
THEOREM ClaimsAreCoherent == Spec => []ClaimIsCoherent
<1>1. ASSUME IInv, NEW j \in Jobs, jobs[j].status = "processing"
      PROVE  /\ jobs[j].claim_token = jobs[j].attempts
             /\ Granted(jobs[j].leased_by, j, jobs[j].claim_token)
             /\ jobs[j].leased_by \in Workers
  BY <1>1, RowFacts, BudgetBound DEF RowCoherent, Granted
<1>2. ASSUME IInv, NEW j \in Jobs, jobs[j].status # "processing"
      PROVE  jobs[j].claim_token = NoToken /\ jobs[j].leased_by = Nobody
  BY <1>2, RowFacts DEF RowCoherent
<1>3. IInv => ClaimIsCoherent
  BY <1>1, <1>2 DEF ClaimIsCoherent
<1> QED  BY <1>3, Invariance, PTL

\* What complete verified before it settled the job is what the bucket holds for good.
THEOREM CompletedOutputsAreStored == Spec => []CompletedOutputIsStored
<1>1. ASSUME IInv, NEW j \in Jobs, jobs[j].status = "completed"
      PROVE  /\ jobs[j].output \in Digests
             /\ Stored(OutputKey(j)) = jobs[j].output
             /\ Granted(jobs[j].executed_by, j, jobs[j].attempts)
  BY <1>1, RowFacts, BudgetBound DEF RowCoherent, Granted
<1>2. IInv => CompletedOutputIsStored
  BY <1>1 DEF CompletedOutputIsStored
<1> QED  BY <1>2, Invariance, PTL

\* The audit log names no settlement that did not happen.
THEOREM TruthfulAudit == Spec => []AuditIsTruthful
<1>1. IInv => AuditIsTruthful
  BY DEF IInv
<1> QED  BY <1>1, Invariance, PTL
-----------------------------------------------------------------------------
(* Coordinator implements JobLifecycle: every statement on the job table   *)
(* moves each job as the lifecycle allows, or leaves it where it is.       *)


\* What the lifecycle sees of a row.
Seen(row) ==
  [phase    |-> IF row.status # "processing" THEN row.status
                ELSE IF row.lease_left < 0 THEN "lapsed" ELSE "held",
   attempts |-> row.attempts,
   holder   |-> IF row.status = "completed" THEN row.executed_by ELSE row.leased_by,
   output   |-> row.output]

LEMMA LifeIsSeen ==
  /\ Life = [j \in Jobs |-> Seen(jobs[j])]
  /\ Life' = [j \in Jobs |-> Seen(jobs'[j])]
  BY DEF Life, Phase, Expired, Seen

View == [phase    : JobStatus \cup {Absent, "held", "lapsed"},
         attempts : Nat,
         holder   : Workers \cup {Nobody},
         output   : Digests \cup {NoDigest}]

LEMMA SeenIsView ==
  ASSUME NEW row \in Row
  PROVE  Seen(row) \in View
BY DEF Seen, View, Row, JobStatus

\* The updates of a view that the moves make, field by field.
LEMMA PhaseUpdate ==
  ASSUME NEW a \in View, NEW p \in JobStatus \cup {Absent, "held", "lapsed"}
  PROVE  /\ [a EXCEPT !.phase = p] \in View
         /\ [a EXCEPT !.phase = p] = [phase |-> p, attempts |-> a.attempts,
                                      holder |-> a.holder, output |-> a.output]
BY DEF View

LEMMA HolderUpdate ==
  ASSUME NEW a \in View, NEW h \in Workers \cup {Nobody}
  PROVE  /\ [a EXCEPT !.holder = h] \in View
         /\ [a EXCEPT !.holder = h] = [phase |-> a.phase, attempts |-> a.attempts,
                                       holder |-> h, output |-> a.output]
BY DEF View

LEMMA SettledUpdate ==
  ASSUME NEW a \in View, NEW p \in JobStatus
  PROVE  [a EXCEPT !.phase = p, !.holder = Nobody]
           = [phase |-> p, attempts |-> a.attempts, holder |-> Nobody, output |-> a.output]
<1> DEFINE b == [a EXCEPT !.phase = p]
<1>1. b \in View /\ b = [phase |-> p, attempts |-> a.attempts,
                        holder |-> a.holder, output |-> a.output]
  BY PhaseUpdate
<1>2. [a EXCEPT !.phase = p, !.holder = Nobody] = [b EXCEPT !.holder = Nobody]
  BY DEF View
<1> HIDE DEF b
<1> QED  BY <1>1, <1>2, HolderUpdate

LEMMA CompletedUpdate ==
  ASSUME NEW a \in View, NEW o \in Digests
  PROVE  [a EXCEPT !.phase = "completed", !.output = o]
           = [phase |-> "completed", attempts |-> a.attempts, holder |-> a.holder, output |-> o]
<1> DEFINE b == [a EXCEPT !.phase = "completed"]
<1>1. b \in View /\ b = [phase |-> "completed", attempts |-> a.attempts,
                        holder |-> a.holder, output |-> a.output]
  BY PhaseUpdate DEF JobStatus
<1>2. [a EXCEPT !.phase = "completed", !.output = o] = [b EXCEPT !.output = o]
  BY DEF View
<1> HIDE DEF b
<1> QED  BY <1>1, <1>2 DEF View

LEMMA ClaimedUpdate ==
  ASSUME NEW a \in View, NEW w \in Workers
  PROVE  [a EXCEPT !.phase = "held", !.attempts = @ + 1, !.holder = w]
           = [phase |-> "held", attempts |-> a.attempts + 1, holder |-> w, output |-> a.output]
<1> DEFINE b == [a EXCEPT !.phase = "held"]
           c == [b EXCEPT !.attempts = a.attempts + 1]
<1>1. b \in View /\ b = [phase |-> "held", attempts |-> a.attempts,
                        holder |-> a.holder, output |-> a.output]
  BY PhaseUpdate
<1>2. [a EXCEPT !.phase = "held", !.attempts = @ + 1, !.holder = w] = [c EXCEPT !.holder = w]
  BY DEF View
<1>3. a.attempts + 1 \in Nat
  BY DEF View
<1> HIDE DEF b
<1>4. c \in View /\ c = [phase |-> "held", attempts |-> a.attempts + 1,
                        holder |-> a.holder, output |-> a.output]
  BY <1>1, <1>3 DEF View
<1> HIDE DEF c
<1> QED  BY <1>2, <1>4, HolderUpdate

\* A job stays where it is or moves.
Goes(j) ==
  Seen(jobs'[j]) = Seen(jobs[j]) \/ Lifecycle!Moves(j, Seen(jobs[j]), Seen(jobs'[j]))

LEMMA EveryJobGoes ==
  ASSUME \A j \in Jobs : Goes(j)
  PROVE  [Lifecycle!Next]_Life
BY LifeIsSeen DEF Goes, Lifecycle!Next

LEMMA OneJobGoes ==
  ASSUME IInv, NEW j \in Jobs, NEW row, jobs' = [jobs EXCEPT ![j] = row],
         \/ Seen(row) = Seen(jobs[j])
         \/ Lifecycle!Moves(j, Seen(jobs[j]), Seen(row))
  PROVE  [Lifecycle!Next]_Life
<1>1. jobs'[j] = row /\ \A k \in Jobs \ {j} : jobs'[k] = jobs[k]
  BY DEF IInv, TypeOK
<1>2. \A k \in Jobs : Goes(k)
  BY <1>1 DEF Goes
<1> QED  BY <1>2, EveryJobGoes

LEMMA SubmitMoves ==
  ASSUME IInv, NEW j \in Jobs, Submit(j)
  PROVE  [Lifecycle!Next]_Life
<1> DEFINE row == [jobs[j] EXCEPT !.status = "queued", !.created_at = Cardinality(Present)]
<1>1. jobs[j] = NoRow
  BY RowFacts DEF Submit, RowCoherent
<1>2. Seen(row) = [Seen(jobs[j]) EXCEPT !.phase = "queued"] /\ Seen(jobs[j]).phase = "absent"
  BY <1>1 DEF Seen, NoRow, Absent
<1>3. Lifecycle!Moves(j, Seen(jobs[j]), Seen(row))
  BY <1>2 DEF Lifecycle!Moves, Lifecycle!Submitted
<1> QED  BY <1>3, OneJobGoes DEF Submit

\* What the lifecycle sees of a row that gave up its lease.
LEMMA SeenSettled ==
  ASSUME IInv, NEW j \in Jobs, NEW status \in {"failed", "cancelled", "queued"},
         NEW row \in {Settled(jobs[j], status)}
                       \cup {[Settled(jobs[j], status) EXCEPT !.retryable = b] : b \in BOOLEAN},
         jobs[j].status \in {"queued", "processing"}
  PROVE  Seen(row) = [Seen(jobs[j]) EXCEPT !.phase = status, !.holder = Nobody]
<1> DEFINE bare == Settled(jobs[j], status)
<1>1. /\ bare \in Row /\ bare.status = status /\ bare.attempts = jobs[j].attempts
      /\ bare.leased_by = Nobody /\ bare.output = jobs[j].output
  BY RowFacts, SettledRow DEF JobStatus
<1> HIDE DEF bare
<1>2. /\ row.status = status /\ row.attempts = jobs[j].attempts
      /\ row.leased_by = Nobody /\ row.output = jobs[j].output
  <2>1. CASE row = bare
    BY <2>1, <1>1
  <2>2. CASE \E b \in BOOLEAN : row = [bare EXCEPT !.retryable = b]
    BY <2>2, <1>1 DEF Row
  <2> QED  BY <2>1, <2>2 DEF bare
<1>3. Seen(jobs[j]) \in View
  BY RowFacts, SeenIsView
<1>4. Seen(row) = [phase |-> status, attempts |-> Seen(jobs[j]).attempts,
                   holder |-> Nobody, output |-> Seen(jobs[j]).output]
  BY <1>2 DEF Seen
<1> QED  BY <1>3, <1>4, SettledUpdate DEF JobStatus

LEMMA CancelMoves ==
  ASSUME IInv, NEW j \in Jobs, Cancel(j)
  PROVE  [Lifecycle!Next]_Life
<1>1. Seen(Settled(jobs[j], "cancelled"))
        = [Seen(jobs[j]) EXCEPT !.phase = "cancelled", !.holder = Nobody]
  BY SeenSettled DEF Cancel
<1>2. Seen(jobs[j]).phase \in {"queued", "held", "lapsed"}
  BY DEF Cancel, Seen
<1>3. Lifecycle!Moves(j, Seen(jobs[j]), Seen(Settled(jobs[j], "cancelled")))
  BY <1>1, <1>2 DEF Lifecycle!Moves, Lifecycle!Cancelled
<1> QED  BY <1>3, OneJobGoes DEF Cancel

\* A row with a claim is held or lapsed.
LEMMA ProcessingIsClaimed ==
  ASSUME NEW j \in Jobs, jobs[j].status = "processing"
  PROVE  /\ Lifecycle!Claimed(Seen(jobs[j]))
         /\ Seen(jobs[j]).holder = jobs[j].leased_by
         /\ Seen(jobs[j]).attempts = jobs[j].attempts
BY DEF Seen, Lifecycle!Claimed

LEMMA FailMoves ==
  ASSUME IInv, NEW j \in Jobs, NEW retryable \in BOOLEAN, jobs[j].status = "processing"
  PROVE  Lifecycle!Moves(j, Seen(jobs[j]),
                         Seen([Settled(jobs[j], "failed") EXCEPT !.retryable = retryable]))
<1> DEFINE row == [Settled(jobs[j], "failed") EXCEPT !.retryable = retryable]
<1>1. Seen(row) = [Seen(jobs[j]) EXCEPT !.phase = "failed", !.holder = Nobody]
  <2>1. row \in {Settled(jobs[j], "failed")}
                   \cup {[Settled(jobs[j], "failed") EXCEPT !.retryable = b] : b \in BOOLEAN}
    OBVIOUS
  <2> HIDE DEF row
  <2> QED  BY <2>1, SeenSettled
<1> HIDE DEF row
<1>2. Lifecycle!Failed(Seen(jobs[j]), Seen(row))
  BY <1>1, ProcessingIsClaimed DEF Lifecycle!Failed
<1> QED  BY <1>2 DEF Lifecycle!Moves, row

LEMMA FailStepMoves ==
  ASSUME IInv, NEW j \in Jobs, NEW token, NEW retryable \in BOOLEAN, Fail(j, token, retryable)
  PROVE  [Lifecycle!Next]_Life
BY FailMoves, OneJobGoes DEF Fail, Leased

LEMMA ReleaseMoves ==
  ASSUME IInv, NEW j \in Jobs, NEW token \in Nat, token < Budget(j), Release(j, token)
  PROVE  [Lifecycle!Next]_Life
<1>1. jobs[j].status = "processing" /\ jobs[j].attempts < Budget(j)
  BY RowFacts DEF Release, Leased, RowCoherent
<1>2. Seen(Settled(jobs[j], "queued"))
        = [Seen(jobs[j]) EXCEPT !.phase = "queued", !.holder = Nobody]
  BY <1>1, SeenSettled
<1>3. Lifecycle!Returned(j, Seen(jobs[j]), Seen(Settled(jobs[j], "queued")))
  BY <1>1, <1>2, ProcessingIsClaimed DEF Lifecycle!Returned
<1> QED  BY <1>3, OneJobGoes DEF Release, Lifecycle!Moves

\* Only the time a lease has left changes.
LEMMA RenewalMoves ==
  ASSUME IInv, NEW j \in Jobs, jobs[j].status = "processing", NEW left
  PROVE  Lifecycle!Moves(j, Seen(jobs[j]), Seen([jobs[j] EXCEPT !.lease_left = left]))
<1> DEFINE row == [jobs[j] EXCEPT !.lease_left = left]
           phase == IF left < 0 THEN "lapsed" ELSE "held"
<1>1. jobs[j] \in Row
  BY RowFacts
<1>2. /\ row.status = "processing" /\ row.attempts = jobs[j].attempts
      /\ row.leased_by = jobs[j].leased_by /\ row.output = jobs[j].output
      /\ row.lease_left = left
  BY <1>1 DEF Row
<1> HIDE DEF row
<1>3. Seen(row) = [Seen(jobs[j]) EXCEPT !.phase = phase] /\ phase \in {"held", "lapsed"}
  BY <1>2 DEF Seen
<1> HIDE DEF phase
<1>4. Lifecycle!Renewed(Seen(jobs[j]), Seen(row))
  BY <1>3, ProcessingIsClaimed DEF Lifecycle!Renewed
<1> QED  BY <1>4 DEF Lifecycle!Moves, row

LEMMA HeartbeatMoves ==
  ASSUME IInv, NEW j \in Jobs, NEW token, NEW span, Heartbeat(j, token, span)
  PROVE  [Lifecycle!Next]_Life
BY RenewalMoves, OneJobGoes DEF Heartbeat, Leased

LEMMA CompleteMoves ==
  ASSUME IInv, NEW j \in Jobs, NEW token, NEW digest \in Digests, Complete(j, token, digest)
  PROVE  [Lifecycle!Next]_Life
<1> DEFINE bare == Settled(jobs[j], "completed")
           row  == [bare EXCEPT !.executed_by = jobs[j].leased_by, !.output = digest]
<1>1. jobs[j].status = "processing" /\ jobs[j] \in Row
  BY RowFacts DEF Complete, Leased
<1>2. bare \in Row /\ bare.status = "completed" /\ bare.attempts = jobs[j].attempts
  BY <1>1, SettledRow DEF JobStatus
<1>3. jobs' = [jobs EXCEPT ![j] = row]
  BY DEF Complete
<1> HIDE DEF bare
<1>4. /\ row.status = "completed" /\ row.attempts = jobs[j].attempts
      /\ row.executed_by = jobs[j].leased_by /\ row.output = digest
  BY <1>2 DEF Row
<1> HIDE DEF row
<1>5. Seen(row) = [Seen(jobs[j]) EXCEPT !.phase = "completed", !.output = digest]
  <2>1. Seen(jobs[j]) \in View
    BY <1>1, SeenIsView
  <2>2. Seen(row) = [phase |-> "completed", attempts |-> Seen(jobs[j]).attempts,
                     holder |-> Seen(jobs[j]).holder, output |-> digest]
    BY <1>1, <1>4 DEF Seen
  <2> QED  BY <2>1, <2>2, CompletedUpdate
<1>6. Lifecycle!Completed(Seen(jobs[j]), Seen(row))
  BY <1>1, <1>5, ProcessingIsClaimed DEF Lifecycle!Completed
<1>7. Lifecycle!Moves(j, Seen(jobs[j]), Seen(row))
  BY <1>6 DEF Lifecycle!Moves
<1> QED  BY <1>3, <1>7, OneJobGoes

LEMMA LeaseMoves ==
  ASSUME IInv, NEW j \in Jobs, NEW worker \in Workers, NEW span \in Nat,
         NEW capability_ids, NEW offer, Lease(j, worker, capability_ids, offer, span)
  PROVE  [Lifecycle!Next]_Life
<1> DEFINE n == jobs[j].attempts + 1
           a == [jobs[j] EXCEPT !.status = "processing"]
           b == [a EXCEPT !.attempts = n]
           c == [b EXCEPT !.claim_token = n]
           d == [c EXCEPT !.leased_by = worker]
           row == [d EXCEPT !.lease_left = span]
<1>1. jobs[j] \in Row /\ jobs[j].attempts < Budget(j) /\ IsLeasable(j)
  BY RowFacts DEF Lease, Candidates
<1>2. jobs' = [jobs EXCEPT ![j] = row]
  BY <1>1 DEF Lease, Row
<1>3. /\ row.status = "processing" /\ row.attempts = n /\ row.leased_by = worker
      /\ row.output = jobs[j].output /\ row.lease_left = span
  BY <1>1 DEF Row
<1> HIDE DEF row
<1>4. Seen(row) = [Seen(jobs[j]) EXCEPT !.phase = "held", !.attempts = @ + 1, !.holder = worker]
  <2>1. Seen(jobs[j]) \in View
    BY <1>1, SeenIsView
  <2>2. Seen(row) = [phase |-> "held", attempts |-> Seen(jobs[j]).attempts + 1,
                     holder |-> worker, output |-> Seen(jobs[j]).output]
    BY <1>3 DEF Seen
  <2> QED  BY <2>1, <2>2, ClaimedUpdate
<1>5. Seen(jobs[j]).phase \in {"queued", "lapsed"} /\ Seen(jobs[j]).attempts < Budget(j)
  BY <1>1 DEF Seen, IsLeasable, Expired
<1>6. Lifecycle!Claims(j, Seen(jobs[j]), Seen(row))
  BY <1>4, <1>5 DEF Lifecycle!Claims
<1>7. Lifecycle!Moves(j, Seen(jobs[j]), Seen(row))
  BY <1>6 DEF Lifecycle!Moves
<1> QED  BY <1>2, <1>7, OneJobGoes

LEMMA ExpireMoves ==
  ASSUME IInv, ExpireExhausted
  PROVE  [Lifecycle!Next]_Life
<1>1. ASSUME NEW j \in Jobs, Exhausted(j) PROVE Goes(j)
  BY <1>1, FailMoves DEF ExpireExhausted, Exhausted, Expired, Goes
<1>2. ASSUME NEW j \in Jobs, ~Exhausted(j) PROVE Goes(j)
  BY <1>2 DEF ExpireExhausted, Goes
<1> QED  BY <1>1, <1>2, EveryJobGoes

LEMMA ElapseMoves ==
  ASSUME IInv, Elapse
  PROVE  [Lifecycle!Next]_Life
<1>1. ASSUME NEW j \in Jobs, jobs[j].status = "processing" /\ ~Expired(j) PROVE Goes(j)
  BY <1>1, RenewalMoves DEF Elapse, Goes
<1>2. ASSUME NEW j \in Jobs, ~(jobs[j].status = "processing" /\ ~Expired(j)) PROVE Goes(j)
  BY <1>2 DEF Elapse, Goes
<1> QED  BY <1>1, <1>2, EveryJobGoes

LEMMA RowsUntouched ==
  ASSUME UNCHANGED jobs
  PROVE  [Lifecycle!Next]_Life
BY EveryJobGoes DEF Goes

-----------------------------------------------------------------------------
(* The refinement.                                                         *)

LEMMA InitMaps == Init => Lifecycle!Init
BY LifeIsSeen DEF Init, JobsInit, NoRow, Absent, Seen, Lifecycle!Init

LEMMA JobStepMoves ==
  ASSUME IInv, NEW s \in Slots, JobStep(s)
  PROVE  [Lifecycle!Next]_Life
<1> DEFINE r == requests[s]
<1>1. CASE LoadOwnedJob(s) \/ VerifyOutput(s) \/ RefuseStale(s) \/ RecordSettlement(s)
  BY <1>1, RowsUntouched DEF LoadOwnedJob, VerifyOutput, RefuseStale, RecordSettlement
<1>2. ASSUME r.pc \in {"reject", "settle"}
      PROVE  r.job \in Jobs /\ r.token \in Nat /\ r \in Request /\ ReadingsLast(s)
  BY <1>2, ClaimFacts, SlotFacts
<1>3. CASE RejectCompletion(s)
  BY <1>2, <1>3, FailStepMoves, RowsUntouched DEF RejectCompletion, At
<1>4. CASE SettleHeartbeat(s)
  BY <1>2, <1>4, HeartbeatMoves DEF SettleHeartbeat, At
<1>5. CASE SettleComplete(s)
  <2>1. r.job \in Jobs /\ r.digest \in Digests
    BY <1>2, <1>5 DEF SettleComplete, At, ReadingsLast
  <2> QED  BY <1>5, <2>1, CompleteMoves DEF SettleComplete
<1>6. CASE SettleFail(s)
  <2>1. r.job \in Jobs /\ r.retryable \in BOOLEAN
    BY <1>2, <1>6 DEF SettleFail, At, Request
  <2> QED  BY <1>6, <2>1, FailStepMoves DEF SettleFail
<1>7. CASE SettleRelease(s)
  <2>1. CASE Fail(r.job, r.token, TRUE)
    BY <1>2, <1>7, <2>1, FailStepMoves DEF SettleRelease, At
  <2>2. CASE ~r.spent /\ Release(r.job, r.token)
    <3>1. r.job \in Jobs /\ r.token \in Nat /\ r.token < Budget(r.job)
      BY <1>2, <1>7, <2>2 DEF SettleRelease, At, ReadingsLast
    <3> QED  BY <2>2, <3>1, ReleaseMoves
  <2> QED  BY <1>7, <2>1, <2>2 DEF SettleRelease
<1> QED  BY <1>1, <1>3, <1>4, <1>5, <1>6, <1>7 DEF JobStep

LEMMA LeaseStepMoves ==
  ASSUME IInv, NEW s \in Slots, LeaseStep(s)
  PROVE  [Lifecycle!Next]_Life
<1>1. CASE AdmitLease(s) \/ DenyLease(s) \/ ClaimNothing(s) \/ MintGrants(s)
  BY <1>1, RowsUntouched DEF AdmitLease, DenyLease, ClaimNothing, MintGrants
<1>2. CASE ExpireBeforeLease(s)
  BY <1>2, ExpireMoves DEF ExpireBeforeLease
<1>3. ASSUME NEW j \in Jobs, ClaimJob(s, j) PROVE [Lifecycle!Next]_Life
  <2>1. requests[s].worker \in Workers /\ requests[s].span \in Nat
    BY <1>3, SlotFacts DEF ClaimJob, At, Request
  <2> QED  BY <1>3, <2>1, LeaseMoves DEF ClaimJob
<1> QED  BY <1>1, <1>2, <1>3 DEF LeaseStep

LEMMA StepMaps == IInv /\ [Next]_vars => [Lifecycle!Next]_Life
<1> SUFFICES ASSUME IInv, [Next]_vars PROVE [Lifecycle!Next]_Life
  OBVIOUS
<1>1. CASE HostStep
  <2>1. ASSUME NEW j \in Jobs, HostSubmit(j) \/ HostCancel(j) PROVE [Lifecycle!Next]_Life
    BY <2>1, SubmitMoves, CancelMoves DEF HostSubmit, HostCancel
  <2>2. ASSUME NEW w \in Workers, NEW status \in HostStatuses, HostSetStatus(w, status)
        PROVE  [Lifecycle!Next]_Life
    BY <2>2, RowsUntouched DEF HostSetStatus
  <2> QED  BY <1>1, <2>1, <2>2 DEF HostStep
<1>2. CASE Arrival
  BY <1>2, RowsUntouched DEF Arrival, ReceiveCall, ReceiveJobCall, Receive
<1>3. ASSUME NEW s \in Slots, HandlerStep(s) PROVE [Lifecycle!Next]_Life
  <2>1. CASE Authorize(s) \/ RegisterHeartbeat(s) \/ RefuseHeartbeat(s)
    BY <2>1, RowsUntouched DEF Authorize, RegisterHeartbeat, RefuseHeartbeat
  <2> QED  BY <1>3, <2>1, LeaseStepMoves, JobStepMoves DEF HandlerStep
<1>4. ASSUME NEW s \in Slots, Respond(s) \/ Outage(s) PROVE [Lifecycle!Next]_Life
  BY <1>4, RowsUntouched DEF Respond, Outage
<1>5. CASE Crash \/ UNCHANGED vars
  BY <1>5, RowsUntouched DEF Crash, vars
<1>6. ASSUME NEW w \in Workers, NEW j \in Jobs, NEW digest \in Digests, Upload(w, j, digest)
      PROVE  [Lifecycle!Next]_Life
  BY <1>6, RowsUntouched DEF Upload
<1>7. CASE Tick
  BY <1>7, ElapseMoves DEF Tick
<1>8. CASE Next
  BY <1>8, <1>1, <1>2, <1>3, <1>4, <1>5, <1>6, <1>7, Zenon DEF Next
<1> QED  BY <1>5, <1>8

\* The coordinator keeps the lifecycle it promises a host for each job, under every
\* interleaving of its handlers, with any number of jobs, workers and handlers.
THEOREM LifecycleIsKept == Spec => KeepsLifecycle
BY InitMaps, StepMaps, Invariance, PTL DEF Spec, KeepsLifecycle, Lifecycle!Spec
-----------------------------------------------------------------------------
(* Replays.                                                                *)

\* Rows appear by being submitted.
NoneAppears == \A j \in Jobs : jobs[j].status = Absent => jobs'[j].status = Absent

LEMMA RowChanges ==
  ASSUME IInv, NEW j \in Jobs, NEW row, jobs' = [jobs EXCEPT ![j] = row], jobs[j].status # Absent
  PROVE  NoneAppears
BY DEF NoneAppears, IInv, TypeOK

LEMMA LeasedRowsChange ==
  ASSUME IInv, NEW j \in Jobs, NEW token, NEW row, Leased(j, token), jobs' = [jobs EXCEPT ![j] = row]
  PROVE  NoneAppears
BY RowChanges DEF Leased, Absent

LEMMA JobStepSubmitsNothing ==
  ASSUME IInv, NEW s \in Slots, JobStep(s)
  PROVE  NoneAppears
<1> DEFINE r == requests[s]
<1>1. CASE UNCHANGED jobs
  BY <1>1 DEF NoneAppears
<1>2. ASSUME r.pc \in {"reject", "settle"}
      PROVE  r.job \in Jobs
  BY <1>2, ClaimFacts
<1>3. CASE RejectCompletion(s)
  BY <1>1, <1>2, <1>3, LeasedRowsChange DEF RejectCompletion, Fail, At
<1>4. CASE SettleHeartbeat(s)
  BY <1>2, <1>4, LeasedRowsChange DEF SettleHeartbeat, Heartbeat, At
<1>5. CASE SettleComplete(s)
  BY <1>2, <1>5, LeasedRowsChange DEF SettleComplete, Complete, At
<1>6. CASE SettleFail(s)
  BY <1>2, <1>6, LeasedRowsChange DEF SettleFail, Fail, At
<1>7. CASE SettleRelease(s)
  BY <1>2, <1>7, LeasedRowsChange DEF SettleRelease, Fail, Release, At
<1>8. CASE LoadOwnedJob(s) \/ VerifyOutput(s) \/ RefuseStale(s) \/ RecordSettlement(s)
  BY <1>1, <1>8 DEF LoadOwnedJob, VerifyOutput, RefuseStale, RecordSettlement
<1> QED  BY <1>3, <1>4, <1>5, <1>6, <1>7, <1>8 DEF JobStep

LEMMA LeaseStepSubmitsNothing ==
  ASSUME IInv, NEW s \in Slots, LeaseStep(s)
  PROVE  NoneAppears
<1>1. CASE AdmitLease(s) \/ DenyLease(s) \/ ClaimNothing(s) \/ MintGrants(s)
  BY <1>1 DEF AdmitLease, DenyLease, ClaimNothing, MintGrants, NoneAppears
<1>2. CASE ExpireBeforeLease(s)
  BY <1>2 DEF ExpireBeforeLease, ExpireExhausted, Exhausted, Expired, NoneAppears, Absent
<1>3. ASSUME NEW j \in Jobs, ClaimJob(s, j) PROVE NoneAppears
  <2>1. jobs[j].status # Absent
    BY <1>3 DEF ClaimJob, Lease, Candidates, Present
  <2> QED  BY <1>3, <2>1, RowChanges DEF ClaimJob, Lease
<1> QED  BY <1>1, <1>2, <1>3 DEF LeaseStep

LEMMA OnlySubmitSubmits ==
  ASSUME IInv, [Next]_vars, \A j \in Jobs : ~HostSubmit(j)
  PROVE  NoneAppears
<1>1. CASE UNCHANGED jobs
  BY <1>1 DEF NoneAppears
<1>2. CASE HostStep
  <2>1. ASSUME NEW j \in Jobs, HostCancel(j) PROVE NoneAppears
    BY <2>1, RowChanges DEF HostCancel, Cancel, Absent
  <2>2. ASSUME NEW w \in Workers, NEW status \in HostStatuses, HostSetStatus(w, status)
        PROVE  NoneAppears
    BY <1>1, <2>2 DEF HostSetStatus
  <2> QED  BY <1>2, <2>1, <2>2 DEF HostStep
<1>3. CASE Arrival
  BY <1>1, <1>3 DEF Arrival, ReceiveCall, ReceiveJobCall, Receive
<1>4. ASSUME NEW s \in Slots, HandlerStep(s) PROVE NoneAppears
  <2>1. CASE Authorize(s) \/ RegisterHeartbeat(s) \/ RefuseHeartbeat(s)
    BY <1>1, <2>1 DEF Authorize, RegisterHeartbeat, RefuseHeartbeat
  <2> QED  BY <1>4, <2>1, LeaseStepSubmitsNothing, JobStepSubmitsNothing DEF HandlerStep
<1>5. ASSUME NEW s \in Slots, Respond(s) \/ Outage(s) PROVE NoneAppears
  BY <1>1, <1>5 DEF Respond, Outage
<1>6. CASE Crash \/ UNCHANGED vars
  BY <1>1, <1>6 DEF Crash, vars
<1>7. ASSUME NEW w \in Workers, NEW j \in Jobs, NEW digest \in Digests, Upload(w, j, digest)
      PROVE  NoneAppears
  BY <1>1, <1>7 DEF Upload
<1>8. CASE Tick
  BY <1>8 DEF Tick, Elapse, NoneAppears, Absent
<1>9. CASE Next
  BY <1>9, <1>2, <1>3, <1>4, <1>5, <1>6, <1>7, <1>8, Zenon DEF Next
<1> QED  BY <1>6, <1>9

\* The UNIQUE constraint of the table.
KeysAreUnique == \A j \in Present : Original(j) = {j}

\* No row disappears.
LEMMA RowsRemain ==
  ASSUME IInv, [Next]_vars, NEW j \in Jobs
  PROVE  Goes(j)
BY StepMaps, LifeIsSeen DEF Goes, Lifecycle!Next

\* No move leads back to where a job is before it is submitted.
LEMMA MovesLeadOn ==
  ASSUME NEW a \in View, NEW b, NEW j, Lifecycle!Moves(j, a, b)
  PROVE  b.phase # "absent"
<1>1. CASE Lifecycle!Submitted(a, b) \/ Lifecycle!Renewed(a, b) \/ Lifecycle!Failed(a, b)
  BY <1>1 DEF View, Lifecycle!Submitted, Lifecycle!Renewed, Lifecycle!Failed
<1>2. CASE Lifecycle!Claims(j, a, b)
  BY <1>2 DEF View, Lifecycle!Claims
<1>3. CASE Lifecycle!Returned(j, a, b) \/ Lifecycle!Completed(a, b) \/ Lifecycle!Cancelled(a, b)
  BY <1>3 DEF View, Lifecycle!Returned, Lifecycle!Completed, Lifecycle!Cancelled
<1> QED  BY <1>1, <1>2, <1>3 DEF Lifecycle!Moves

LEMMA PresenceLasts ==
  ASSUME IInv, [Next]_vars
  PROVE  Present \subseteq Present'
<1> SUFFICES ASSUME NEW j \in Jobs, jobs[j].status # Absent PROVE jobs'[j].status # Absent
  BY DEF Present
<1>1. Seen(jobs[j]).phase # "absent" /\ Seen(jobs[j]) \in View
  BY RowFacts, SeenIsView DEF Seen, Absent
<1>2. Seen(jobs'[j]).phase # "absent"
  BY <1>1, RowsRemain, MovesLeadOn DEF Goes
<1> QED  BY <1>2 DEF Seen, Absent

\* A completed job is where it was.
LEMMA CompletedRowsStay ==
  ASSUME IInv, [Next]_vars, NEW j \in Jobs, jobs[j].status = "completed"
  PROVE  /\ jobs'[j].status = "completed" /\ jobs'[j].output = jobs[j].output
         /\ jobs'[j].attempts = jobs[j].attempts /\ jobs'[j].executed_by = jobs[j].executed_by
<1>1. Seen(jobs[j]).phase = "completed"
  BY DEF Seen
<1>2. Seen(jobs'[j]) = Seen(jobs[j])
  BY <1>1, RowsRemain DEF Goes, Lifecycle!Moves, Lifecycle!Submitted, Lifecycle!Claims, Lifecycle!Renewed,
     Lifecycle!Claimed, Lifecycle!Completed, Lifecycle!Failed, Lifecycle!Returned, Lifecycle!Cancelled
<1> QED  BY <1>1, <1>2 DEF Seen

LEMMA KeysStayUnique == IInv /\ KeysAreUnique /\ [Next]_vars => KeysAreUnique'
<1> SUFFICES ASSUME IInv, KeysAreUnique, [Next]_vars PROVE KeysAreUnique'
  OBVIOUS
<1> DEFINE Key(j) == Submission[j].idempotency_key
<1>1. Present \subseteq Jobs /\ Present' \subseteq Jobs
  BY DEF Present
<1>2. \A j, k \in Present : Key(j) = Key(k) => j = k
  BY <1>1 DEF KeysAreUnique, Original
<1>3. CASE NoneAppears
  <2>1. Present' = Present
    BY <1>3, PresenceLasts DEF NoneAppears, Present
  <2> QED  BY <1>1, <1>2, <2>1 DEF KeysAreUnique, Original
<1>4. ASSUME NEW j \in Jobs, HostSubmit(j)
      PROVE  KeysAreUnique'
  <2>1. \A k \in Jobs \ {j} : jobs'[k] = jobs[k]
    BY <1>4 DEF HostSubmit, Submit, IInv, TypeOK
  <2>2. Present' \subseteq Present \cup {j}
    BY <2>1 DEF Present
  <2>3. \A k \in Present : Key(k) # Key(j)
    BY <1>4 DEF HostSubmit, Submit, Original
  <2>4. \A k, l \in Present' : Key(k) = Key(l) => k = l
    BY <1>2, <2>2, <2>3
  <2> QED  BY <1>1, <2>4 DEF KeysAreUnique, Original
<1> QED  BY <1>3, <1>4, OnlySubmitSubmits

\* However often a request is submitted again, its host is given the completed original.
THEOREM ReplaysAreOriginal == Spec => ReplaysFindTheOriginal
<1>1. Init => KeysAreUnique
  BY DEF Init, JobsInit, NoRow, KeysAreUnique, Present
<1>2. IInv /\ KeysAreUnique /\ [Next]_vars =>
        [\A j \in Jobs : jobs[j].status = "completed" =>
           /\ Original(j)' = {j}
           /\ jobs'[j].status = "completed" /\ jobs'[j].output = jobs[j].output
           /\ jobs'[j].attempts = jobs[j].attempts]_vars
  <2> SUFFICES ASSUME IInv, KeysAreUnique, [Next]_vars, NEW j \in Jobs, jobs[j].status = "completed"
               PROVE  /\ Original(j)' = {j}
                      /\ jobs'[j].status = "completed" /\ jobs'[j].output = jobs[j].output
                      /\ jobs'[j].attempts = jobs[j].attempts
    OBVIOUS
  <2>1. jobs'[j].status = "completed" /\ jobs'[j].output = jobs[j].output /\ jobs'[j].attempts = jobs[j].attempts
    BY CompletedRowsStay
  <2>2. j \in Present'
    BY <2>1 DEF Present, Absent
  <2> QED  BY <2>1, <2>2, KeysStayUnique DEF KeysAreUnique
<1> QED  BY <1>1, <1>2, KeysStayUnique, Invariance, PTL DEF Spec, ReplaysFindTheOriginal
=============================================================================
