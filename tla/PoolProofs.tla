----------------------------- MODULE PoolProofs ------------------------------
(***************************************************************************)
(* The whole pool: agents are workers the coordinator was made for, so all *)
(* it promises holds beside them; what an agent was told is true, and only *)
(* faults leave a lease behind.  For any number of agents, jobs, handlers, *)
(* faults and drains.                                                      *)
(***************************************************************************)
EXTENDS CoordinatorProofs, Pool

-----------------------------------------------------------------------------
(* What a step of a handler does to its slot.                              *)

\* The fields of a request that only its arrival and a claim set.
SameClaim(s) ==
  /\ requests'[s].job = requests[s].job /\ requests'[s].token = requests[s].token
  /\ requests'[s].digest = requests[s].digest

SameCaller(s) ==
  requests'[s].worker = requests[s].worker /\ requests'[s].op = requests[s].op

Continues(s) ==
  requests'[s].pc \notin {"idle", "reply", "mint"} /\ SameCaller(s) /\ SameClaim(s)

Answers(s, code) ==
  /\ requests'[s].pc = "reply" /\ requests'[s].code = code /\ SameCaller(s)
  /\ requests[s].op = "lease" /\ code = 200 =>
       requests'[s].job = requests[s].job /\ requests'[s].token = requests[s].token

Takes(s, j) ==
  /\ requests'[s].pc = "mint" /\ SameCaller(s) /\ requests[s].op = "lease"
  /\ requests'[s].job = j /\ requests'[s].token = jobs[j].attempts + 1

OthersRest(s) == \A t \in Slots \ {s} : requests'[t] = requests[t]

LEMMA GotoContinues ==
  ASSUME IInv, NEW s \in Slots, NEW pc, Goto(s, pc), pc \notin {"idle", "reply", "mint"}
  PROVE  Continues(s) /\ OthersRest(s)
<1> DEFINE new == [requests[s] EXCEPT !.pc = pc]
<1>1. requests[s] \in Request /\ requests \in [Slots -> Request]
  BY DEF IInv, TypeOK
<1>2. /\ new.pc = pc /\ new.worker = requests[s].worker /\ new.op = requests[s].op
      /\ new.job = requests[s].job /\ new.token = requests[s].token /\ new.digest = requests[s].digest
  BY <1>1 DEF Request
<1>3. requests' = [requests EXCEPT ![s] = new]
  BY <1>1 DEF Goto
<1> HIDE DEF new
<1>4. requests'[s] = new /\ OthersRest(s)
  BY <1>1, <1>3 DEF OthersRest
<1> QED  BY <1>2, <1>4 DEF Continues, SameCaller, SameClaim

LEMMA ReplyAnswers ==
  ASSUME IInv, NEW s \in Slots, NEW code \in Codes, Reply(s, code)
  PROVE  Answers(s, code) /\ OthersRest(s)
<1> DEFINE r == requests[s]
           bare == [Idle EXCEPT !.op = r.op, !.pc = "reply", !.worker = r.worker, !.code = code]
           full == [bare EXCEPT !.job = r.job, !.token = r.token]
           new == IF r.op = "lease" /\ code = 200 THEN full ELSE bare
<1>1. requests \in [Slots -> Request]
  BY DEF IInv, TypeOK
<1>2. /\ bare.pc = "reply" /\ bare.code = code /\ bare.worker = r.worker /\ bare.op = r.op
      /\ full.pc = "reply" /\ full.code = code /\ full.worker = r.worker /\ full.op = r.op
      /\ full.job = r.job /\ full.token = r.token
  BY DEF Idle
<1>3. requests' = [requests EXCEPT ![s] = new]
  BY DEF Reply
<1> HIDE DEF bare, full
<1>4. requests'[s] = new /\ OthersRest(s)
  BY <1>1, <1>3 DEF OthersRest
<1> QED  BY <1>2, <1>4 DEF Answers, SameCaller

LEMMA LoadContinues ==
  ASSUME IInv, NEW s \in Slots, LoadOwnedJob(s), Owned(s)
  PROVE  Continues(s) /\ OthersRest(s) /\ requests'[s].pc \in {"verify", "settle"}
<1> DEFINE r == requests[s]
           pc == IF r.op = "complete" THEN "verify" ELSE "settle"
           spent == r.op = "release" /\ Spent(r.job)
           new == [[r EXCEPT !.pc = pc] EXCEPT !.spent = spent]
<1>1. r \in Request /\ requests \in [Slots -> Request]
  BY DEF IInv, TypeOK
<1>2. requests' = [requests EXCEPT ![s] = new]
  BY <1>1 DEF LoadOwnedJob
<1>3. /\ new.pc = pc /\ new.worker = r.worker /\ new.op = r.op
      /\ new.job = r.job /\ new.token = r.token /\ new.digest = r.digest
  BY <1>1 DEF Request
<1>4. pc \in {"verify", "settle"}
  OBVIOUS
<1> HIDE DEF new, pc
<1>5. requests'[s] = new /\ OthersRest(s)
  BY <1>1, <1>2 DEF OthersRest
<1> QED  BY <1>3, <1>4, <1>5 DEF Continues, SameCaller, SameClaim

LEMMA AdmitContinues ==
  ASSUME IInv, NEW s \in Slots, AdmitLease(s)
  PROVE  Continues(s) /\ OthersRest(s) /\ requests'[s].pc = "expire"
<1> DEFINE r == requests[s]
           a == [r EXCEPT !.pc = "expire"]
           b == [a EXCEPT !.capability_ids = Effective(r)]
           new == [b EXCEPT !.offer = workers[r.worker].offer]
<1>1. r \in Request /\ requests \in [Slots -> Request]
  BY DEF IInv, TypeOK
<1>2. requests' = [requests EXCEPT ![s] = new]
  BY <1>1 DEF AdmitLease, Request
<1>3. /\ new.pc = "expire" /\ new.worker = r.worker /\ new.op = r.op
      /\ new.job = r.job /\ new.token = r.token /\ new.digest = r.digest
  BY <1>1 DEF Request
<1> HIDE DEF new
<1>4. requests'[s] = new /\ OthersRest(s)
  BY <1>1, <1>2 DEF OthersRest
<1> QED  BY <1>3, <1>4 DEF Continues, SameCaller, SameClaim

LEMMA ClaimTakes ==
  ASSUME IInv, NEW s \in Slots, NEW j \in Jobs, ClaimJob(s, j)
  PROVE  Takes(s, j) /\ OthersRest(s)
<1> DEFINE r == requests[s]
           n == jobs[j].attempts + 1
           a == [r EXCEPT !.pc = "mint"]
           b == [a EXCEPT !.job = j]
           new == [b EXCEPT !.token = n]
<1>1. r \in Request /\ requests \in [Slots -> Request] /\ r.op = "lease"
  BY SlotFacts DEF IInv, TypeOK, ClaimJob, At, HandlerKnowsItsClaim
<1>2. requests' = [requests EXCEPT ![s] = new]
  BY <1>1 DEF ClaimJob, Request
<1>3. /\ new.pc = "mint" /\ new.worker = r.worker /\ new.op = r.op
      /\ new.job = j /\ new.token = n
  BY <1>1 DEF Request
<1> HIDE DEF new
<1>4. requests'[s] = new /\ OthersRest(s)
  BY <1>1, <1>2 DEF OthersRest
<1> QED  BY <1>1, <1>3, <1>4 DEF Takes, SameCaller

\* Which answers are a success, by what was asked.
Succeeds(s) ==
  /\ requests[s].op = "lease" => requests[s].pc = "mint"
  /\ requests[s].op = "complete" => requests[s].pc = "audit"

\* All that a handler's step does to its slot, and that it is no other's.
HandlerMoves(s) ==
  /\ OthersRest(s) /\ requests[s].pc \notin {"idle", "reply"}
  /\ \/ /\ Continues(s) /\ requests[s].pc # "mint"
        /\ requests'[s].pc = "audit" /\ requests[s].op = "complete" => SettleComplete(s)
     \/ \E code \in Codes : Answers(s, code) /\ (code = 200 => Succeeds(s))
     \/ \E j \in Jobs : ClaimJob(s, j) /\ Takes(s, j)

LEMMA Refusal ==
  ASSUME IInv, NEW s \in Slots, NEW code \in Codes, Reply(s, code),
         requests[s].pc \notin {"idle", "reply"}, code = 200 => Succeeds(s)
  PROVE  HandlerMoves(s)
BY ReplyAnswers DEF HandlerMoves

LEMMA Progress ==
  ASSUME IInv, NEW s \in Slots, NEW pc, Goto(s, pc), pc \notin {"idle", "reply", "mint"},
         requests[s].pc \notin {"idle", "reply", "mint"},
         pc = "audit" /\ requests[s].op = "complete" => SettleComplete(s)
  PROVE  HandlerMoves(s)
<1>1. requests'[s].pc = pc
  BY GotoOwn
<1> QED  BY <1>1, GotoContinues DEF HandlerMoves

LEMMA HandlerFrame ==
  ASSUME IInv, NEW s \in Slots, HandlerStep(s) \/ Outage(s)
  PROVE  HandlerMoves(s)
<1> DEFINE r == requests[s]
<1> USE DEF At
<1>1. HandlerKnowsItsClaim(s) /\ ReadingsLast(s)
  BY SlotFacts
<1>2. CASE Authorize(s)
  <2>1. r.pc = "authorize"
    BY <1>2 DEF Authorize
  <2>2. Goto(s, FirstStep(r.op)) \/ Reply(s, 401) \/ Reply(s, 403)
    BY <1>2 DEF Authorize
  <2>3. FirstStep(r.op) \in {"register", "admit", "load"}
    BY DEF FirstStep
  <2> QED  BY <2>1, <2>2, <2>3, Progress, Refusal DEF Codes
<1>3. CASE RegisterHeartbeat(s) \/ RefuseHeartbeat(s)
  <2>1. r.pc = "register" /\ r.op = "register"
    BY <1>1, <1>3 DEF RegisterHeartbeat, RefuseHeartbeat, HandlerKnowsItsClaim
  <2>2. \E code \in Codes : Reply(s, code)
    BY <1>3 DEF RegisterHeartbeat, RefuseHeartbeat, RefusalCode, Codes
  <2> QED  BY <2>1, <2>2, Refusal DEF Succeeds
<1>4. CASE Outage(s)
  BY <1>4, Refusal DEF Outage, Codes, Steps
<1>5. CASE AdmitLease(s)
  BY <1>5, AdmitContinues DEF AdmitLease, HandlerMoves
<1>6. CASE DenyLease(s)
  <2>1. r.pc = "admit" /\ \E code \in Codes \ {200} : Reply(s, code)
    BY <1>6 DEF DenyLease, Codes
  <2> QED  BY <2>1, Refusal
<1>7. CASE ExpireBeforeLease(s)
  BY <1>7, Progress DEF ExpireBeforeLease
<1>8. ASSUME NEW j \in Jobs, ClaimJob(s, j) PROVE HandlerMoves(s)
  BY <1>8, ClaimTakes DEF HandlerMoves, ClaimJob
<1>9. CASE ClaimNothing(s)
  BY <1>9, Refusal DEF ClaimNothing, Codes
<1>10. CASE MintGrants(s)
  <2>1. r.pc = "mint" /\ r.op = "lease" /\ Reply(s, 200)
    BY <1>1, <1>10 DEF MintGrants, HandlerKnowsItsClaim
  <2> QED  BY <2>1, Refusal DEF Succeeds, Codes
<1>11. CASE LoadOwnedJob(s)
  <2>1. CASE Owned(s)
    BY <1>11, <2>1, LoadContinues DEF LoadOwnedJob, HandlerMoves
  <2>2. CASE ~Owned(s)
    BY <1>11, <2>2, Refusal DEF LoadOwnedJob, Codes
  <2> QED  BY <2>1, <2>2
<1>12. CASE VerifyOutput(s)
  <2>1. r.pc = "verify"
    BY <1>12 DEF VerifyOutput
  <2>2. PICK pc \in {"settle", "reject"} : Goto(s, pc)
    BY <1>12 DEF VerifyOutput
  <2>3. pc \notin {"idle", "reply", "mint", "audit"} /\ r.pc \notin {"idle", "reply", "mint"}
    BY <2>1, <2>2
  <2> HIDE DEF r
  <2> QED  BY <2>2, <2>3, Progress DEF r
<1>13. CASE RejectCompletion(s) \/ RefuseStale(s)
  <2>1. r.pc \in {"reject", "settle"} /\ (Reply(s, 422) \/ Reply(s, 409))
    BY <1>13 DEF RejectCompletion, RefuseStale
  <2> QED  BY <2>1, Refusal DEF Codes
<1>14. CASE SettleHeartbeat(s)
  <2>1. r.pc = "settle" /\ r.op = "heartbeat" /\ Reply(s, 200)
    BY <1>14 DEF SettleHeartbeat
  <2> QED  BY <2>1, Refusal DEF Codes, Succeeds
<1>15. CASE SettleComplete(s)
  BY <1>15, Progress DEF SettleComplete
<1>16. CASE SettleFail(s)
  BY <1>16, Progress DEF SettleFail
<1>17. CASE SettleRelease(s)
  <2>1. r.pc = "settle" /\ r.op = "release" /\ (Goto(s, "audit") \/ Reply(s, 200))
    BY <1>17 DEF SettleRelease
  <2> QED  BY <2>1, Progress, Refusal DEF Codes, Succeeds
<1>18. CASE RecordSettlement(s)
  <2>1. r.pc = "audit" /\ r.op \in JobOps /\ Reply(s, 200)
    BY <1>1, <1>18 DEF RecordSettlement, HandlerKnowsItsClaim
  <2> QED  BY <2>1, Refusal DEF Codes, Succeeds, JobOps
<1> QED
  BY <1>2, <1>3, <1>4, <1>5, <1>6, <1>7, <1>8, <1>9, <1>10, <1>11, <1>12, <1>13, <1>14, <1>15,
     <1>16, <1>17, <1>18 DEF HandlerStep, LeaseStep, JobStep

-----------------------------------------------------------------------------
(* Every step of the pool is a step of the coordinator, or none of its.    *)

\* What is known of the process of a worker.
AgentOK(w) == CallIsOwn(w) /\ LeaseIsGranted(w) /\ AnswerIsTrue(w)

LEMMA AgentFacts ==
  ASSUME PoolInv, NEW w \in Workers
  PROVE  /\ agents[w] \in Agent /\ AgentOK(w)
         /\ agents[w].pc \in WaitPoints => agents[w].call \in Slots
         /\ agents[w].pc \in ServePoints \/ agents[w].beating => agents[w].job \in Jobs
<1>1. agents[w] \in Agent /\ AgentOK(w)
  BY DEF PoolInv, AgentsTypeOK, AgentOK
<1> QED  BY <1>1 DEF AgentOK, CallIsOwn, LeaseIsGranted, Agent

LEMMA FreeSlotIsFree ==
  ASSUME CanConnect
  PROVE  FreeSlot \in Slots /\ At(FreeSlot, "idle")
BY DEF CanConnect, FreeSlot

LEMMA PostArrives ==
  ASSUME NEW w \in Workers, NEW body \in AgentCalls, CanConnect, ReceiveCall(FreeSlot, w, body)
  PROVE  Arrival
BY FreeSlotIsFree, AgentCallsAssumption DEF Arrival

LEMMA PostForJobArrives ==
  ASSUME PoolInv, NEW w \in Workers, NEW body \in AgentCalls, CanConnect,
         agents[w].pc \in ServePoints \/ agents[w].beating,
         ReceiveJobCall(FreeSlot, w, body, agents[w].job, agents[w].token)
  PROVE  Arrival
<1>1. agents[w].job \in Jobs
  BY AgentFacts
<1>2. agents[w].token \in 1..Budget(agents[w].job)
  BY DEF ReceiveJobCall, Granted
<1> QED  BY <1>1, <1>2, FreeSlotIsFree, AgentCallsAssumption DEF Arrival

LEMMA LoopStepIsServed ==
  ASSUME PoolInv, NEW w \in Workers, LoopStep(w)
  PROVE  Next
<1>1. CASE Poll(w) \/ Farewell(w) \/ AskForWork(w)
  <2>1. \A draining \in BOOLEAN : Presence(w, draining) \in AgentCalls
    BY DEF AgentCalls
  <2>2. LeaseCall(w) \in AgentCalls
    BY DEF AgentCalls
  <2>3. Arrival
    BY <1>1, <2>1, <2>2, PostArrives DEF Poll, Farewell, AskForWork, Post
  <2> QED  BY <2>3 DEF Next
<1>2. CASE PresenceAnswered(w) \/ FarewellAnswered(w) \/ LeaseAnswered(w)
  <2>1. agents[w].pc \in WaitPoints /\ Respond(agents[w].call)
    BY <1>2 DEF PresenceAnswered, FarewellAnswered, LeaseAnswered, Answered, WaitPoints
  <2> QED  BY <2>1, AgentFacts DEF Next
<1> QED  BY <1>1, <1>2 DEF LoopStep

LEMMA ServeStepIsServed ==
  ASSUME PoolInv, NEW w \in Workers, ServeStep(w)
  PROVE  [Next]_vars
<1> DEFINE a == agents[w]
<1>1. CASE RejectLease(w) \/ ReleaseWhenStopping(w) \/ StartDownload(w) \/ Downloaded(w)
           \/ Executed(w) \/ ExecutionRejected(w)
  BY <1>1 DEF RejectLease, ReleaseWhenStopping, StartDownload, Downloaded, Executed,
     ExecutionRejected
<1>2. CASE UploadOutput(w)
  <2>1. a.job \in Jobs /\ a.digest \in Digests
    BY <1>2, AgentFacts DEF UploadOutput, AgentOK, LeaseIsGranted, ServePoints
  <2> QED  BY <1>2, <2>1 DEF UploadOutput, Next
<1>3. CASE Attest(w) \/ GiveBack(w) \/ Reject(w)
  <2>1. a.pc \in ServePoints /\ (a.pc = "attest" => a.digest \in Digests)
    BY <1>3, AgentFacts DEF Attest, GiveBack, Reject, ServePoints, AgentOK, LeaseIsGranted
  <2>2. Body("release") \in AgentCalls /\ Body("fail") \in AgentCalls
        /\ (a.pc = "attest" => Completion(a.digest) \in AgentCalls)
    BY <2>1 DEF AgentCalls
  <2>3. Arrival
    BY <1>3, <2>1, <2>2, PostForJobArrives DEF Attest, GiveBack, Reject, PostForJob
  <2> QED  BY <2>3 DEF Next
<1>4. CASE CompletionAnswered(w) \/ SettlementAnswered(w)
  <2>1. agents[w].pc \in WaitPoints /\ Respond(agents[w].call)
    BY <1>4 DEF CompletionAnswered, SettlementAnswered, Answered, WaitPoints
  <2> QED  BY <2>1, AgentFacts DEF Next
<1> QED  BY <1>1, <1>2, <1>3, <1>4 DEF ServeStep

LEMMA BeatStepIsServed ==
  ASSUME PoolInv, NEW w \in Workers, BeatStep(w)
  PROVE  Next
<1>1. (\A draining \in BOOLEAN : Presence(w, draining) \in AgentCalls)
      /\ Body("heartbeat") \in AgentCalls
  BY DEF AgentCalls
<1>2. CASE BeatJob(w)
  <2>1. agents[w].beating /\ CanConnect
        /\ ReceiveJobCall(FreeSlot, w, Body("heartbeat"), agents[w].job, agents[w].token)
    BY <1>2 DEF BeatJob
  <2>2. Arrival
    BY <1>1, <2>1, PostForJobArrives
  <2> QED  BY <2>2 DEF Next
<1>3. CASE BeatPresence(w)
  BY <1>1, <1>3, PostArrives DEF BeatPresence, Next
<1> QED  BY <1>2, <1>3 DEF BeatStep

LEMMA PoolStepIsServed ==
  ASSUME PoolInv, [PoolNext]_poolVars
  PROVE  [Next]_vars
<1>1. CASE Healthy
  <2>1. ASSUME NEW w \in Workers, Start(w) \/ LoopStep(w) \/ ServeStep(w) \/ BeatStep(w)
        PROVE  [Next]_vars
    BY <2>1, LoopStepIsServed, ServeStepIsServed, BeatStepIsServed DEF Start
  <2>2. ASSUME NEW s \in Slots, Served(s) \/ DropAnswer(s) PROVE Next
    BY <2>2 DEF Served, DropAnswer, Next
  <2>3. CASE HostActs \/ TimePasses
    BY <2>3 DEF HostActs, TimePasses, Next
  <2> QED  BY <1>1, <2>1, <2>2, <2>3 DEF Healthy
<1>2. ASSUME NEW w \in Workers, Stop(w) \/ AgentFault(w) PROVE UNCHANGED vars
  BY <1>2 DEF Stop, AgentFault, Die, LoseAnswer, AttemptFails
<1>3. CASE Faulty
  <2>1. ASSUME NEW s \in Slots, Outage(s) PROVE Next
    BY <2>1 DEF Next
  <2> QED  BY <1>2, <1>3, <2>1 DEF Faulty, LoseCoordinator, Next
<1>4. CASE UNCHANGED poolVars
  BY <1>4 DEF poolVars
<1> QED  BY <1>1, <1>2, <1>3, <1>4 DEF PoolNext

-----------------------------------------------------------------------------
(* What an agent relies on lasts, whoever takes a step.                    *)

\* Only a claim mints a token.
LEMMA OnlyClaimsMint ==
  ASSUME [Next]_vars
  PROVE  grantee' = grantee \/ \E s \in Slots, j \in Jobs : ClaimJob(s, j)
<1>1. CASE HostStep
  BY <1>1 DEF HostStep, HostSubmit, HostCancel, HostSetStatus
<1>2. CASE Arrival
  BY <1>2 DEF Arrival, ReceiveCall, ReceiveJobCall, Receive
<1>3. ASSUME NEW s \in Slots, HandlerStep(s)
      PROVE  grantee' = grantee \/ \E j \in Jobs : ClaimJob(s, j)
  BY <1>3 DEF HandlerStep, Authorize, RegisterHeartbeat, RefuseHeartbeat, LeaseStep, AdmitLease,
     DenyLease, ExpireBeforeLease, ClaimNothing, MintGrants, JobStep, LoadOwnedJob,
     VerifyOutput, RejectCompletion, SettleHeartbeat, SettleComplete, SettleFail,
     SettleRelease, RefuseStale, RecordSettlement
<1>4. ASSUME NEW s \in Slots, Respond(s) \/ Outage(s) PROVE grantee' = grantee
  BY <1>4 DEF Respond, Outage
<1>5. CASE Crash \/ Tick \/ UNCHANGED vars
  BY <1>5 DEF Crash, Tick, vars
<1>6. ASSUME NEW w \in Workers, NEW j \in Jobs, NEW digest \in Digests, Upload(w, j, digest)
      PROVE  grantee' = grantee
  BY <1>6 DEF Upload
<1> QED  BY <1>1, <1>2, <1>3, <1>4, <1>5, <1>6 DEF Next

StillGranted(w, j, token) == token \in 1..Budget(j) /\ grantee'[j][token] = w

StillCompleted(w, j, digest) ==
  jobs'[j].status = "completed" /\ jobs'[j].executed_by = w /\ jobs'[j].output = digest

LEMMA ClaimMints ==
  ASSUME IInv, NEW s \in Slots, NEW j \in Jobs, ClaimJob(s, j)
  PROVE  /\ StillGranted(requests[s].worker, j, jobs[j].attempts + 1)
         /\ \A k \in Jobs : \A a \in 1..20 :
              grantee[k][a] # Nobody => grantee'[k][a] = grantee[k][a]
<1> DEFINE n == jobs[j].attempts + 1
           w == requests[s].worker
<1>1. jobs[j].attempts \in 0..20 /\ jobs[j].attempts < Budget(j) /\ Budget(j) \in 1..20
  BY RowFacts, BudgetBound DEF ClaimJob, Lease, Candidates
<1>2. n \in 1..Budget(j) /\ n \in 1..20 /\ ~(n <= jobs[j].attempts)
  BY <1>1
<1>3. grantee[j][n] = Nobody
  BY <1>2 DEF IInv, TokensAreMinted
<1>4. grantee' = [grantee EXCEPT ![j][n] = w] /\ grantee \in [Jobs -> [1..20 -> Workers \cup {Nobody}]]
  BY DEF ClaimJob, IInv, TypeOK
<1> HIDE DEF n, w
<1>5. grantee'[j][n] = w
  BY <1>2, <1>4
<1>6. ASSUME NEW k \in Jobs, NEW a \in 1..20, k # j \/ a # n PROVE grantee'[k][a] = grantee[k][a]
  BY <1>4, <1>6
<1> QED  BY <1>2, <1>3, <1>5, <1>6 DEF StillGranted, n, w

LEMMA GrantsStay ==
  ASSUME IInv, [Next]_vars, NEW w \in Workers, NEW j \in Jobs, NEW token, Granted(w, j, token)
  PROVE  StillGranted(w, j, token)
<1>1. token \in 1..20 /\ token \in 1..Budget(j) /\ grantee[j][token] = w /\ w # Nobody
  BY BudgetBound, NobodyAssumption DEF Granted
<1> QED  BY <1>1, OnlyClaimsMint, ClaimMints DEF StillGranted

LEMMA CompletionsStay ==
  ASSUME IInv, [Next]_vars, NEW w, NEW j \in Jobs, NEW digest, CompletedBy(w, j, digest)
  PROVE  StillCompleted(w, j, digest)
BY CompletedRowsStay DEF CompletedBy, StillCompleted

\* An agent that took no step, and whose request took none, knows what it knew.
LEMMA AgentUntouched ==
  ASSUME IInv, PoolInv, [Next]_vars, NEW w \in Workers, agents'[w] = agents[w],
         agents[w].call = NoSlot \/ requests'[agents[w].call] = requests[agents[w].call]
  PROVE  AgentOK(w)'
<1> DEFINE a == agents[w]
<1>1. a \in Agent /\ AgentOK(w)
  BY AgentFacts
<1>2. CallIsOwn(w)'
  BY <1>1 DEF AgentOK, CallIsOwn
<1>3. LeaseIsGranted(w)'
  BY <1>1, GrantsStay DEF AgentOK, LeaseIsGranted, Granted, StillGranted, Budget
<1>4. AnswerIsTrue(w)'
  <2>1. a.pc = "completing" => a.call # NoSlot /\ a.job \in Jobs
    BY <1>1 DEF AgentOK, CallIsOwn, LeaseIsGranted, WaitPoints, ServePoints
  <2> QED  BY <1>1, <2>1, CompletionsStay
           DEF AgentOK, AnswerIsTrue, CompletedBy, StillCompleted, Succeeded
<1> QED  BY <1>2, <1>3, <1>4 DEF AgentOK

\* A completion that took effect is the agent's own.
LEMMA SettlesOwn ==
  ASSUME IInv, NEW s \in Slots, SettleComplete(s)
  PROVE  StillCompleted(requests[s].worker, requests[s].job, requests[s].digest)
<1> DEFINE r == requests[s]
           bare == Settled(jobs[r.job], "completed")
           row  == [bare EXCEPT !.executed_by = jobs[r.job].leased_by, !.output = r.digest]
<1>1. /\ r.job \in Jobs /\ r.token \in 1..jobs[r.job].attempts
      /\ grantee[r.job][r.token] = r.worker
  BY SlotFacts DEF SettleComplete, At, HandlerKnowsItsClaim, JobOps
<1>2. /\ jobs[r.job] \in Row /\ jobs[r.job].status = "processing"
      /\ jobs[r.job].leased_by = r.worker
  BY <1>1, RowFacts DEF SettleComplete, Complete, Leased, RowCoherent
<1>3. jobs' = [jobs EXCEPT ![r.job] = row]
  BY DEF SettleComplete, Complete
<1>4. bare \in Row /\ bare.status = "completed"
  BY <1>2, SettledRow DEF JobStatus
<1> HIDE DEF bare
<1>5. row.status = "completed" /\ row.executed_by = jobs[r.job].leased_by /\ row.output = r.digest
  BY <1>4 DEF Row
<1> HIDE DEF row
<1>6. jobs'[r.job] = row
  BY <1>1, <1>3 DEF IInv, TypeOK
<1> QED  BY <1>2, <1>5, <1>6 DEF StillCompleted

\* An agent whose request is served knows of its progress what is true.
LEMMA AgentServed ==
  ASSUME IInv, PoolInv, [Next]_vars, NEW w \in Workers, agents'[w] = agents[w],
         agents[w].call \in Slots, HandlerMoves(agents[w].call)
  PROVE  AgentOK(w)'
<1> DEFINE a == agents[w]
           r == requests[a.call]
           q == requests'[a.call]
<1>1. a \in Agent /\ AgentOK(w) /\ a.call # NoSlot
  BY AgentFacts, NoSlotAssumption
<1>2. SameCaller(a.call) /\ q.pc # "idle" /\ r.pc \notin {"idle", "reply"}
  BY DEF HandlerMoves, Continues, Answers, Takes
<1>3. q.pc # "reply" /\ q.op \in JobOps => SameClaim(a.call)
  BY <1>2 DEF HandlerMoves, Continues, Answers, Takes, JobOps, SameCaller
<1>4. CallIsOwn(w)'
  BY <1>1, <1>2, <1>3 DEF AgentOK, CallIsOwn, SameCaller, SameClaim, JobOps
<1>5. LeaseIsGranted(w)'
  BY <1>1, GrantsStay DEF AgentOK, LeaseIsGranted, Granted, StillGranted, Budget
<1>6. ASSUME a.pc = "completing", q.pc = "audit" \/ (q.pc = "reply" /\ q.code = 200)
      PROVE  StillCompleted(w, a.job, a.digest)
  <2>1. a.job \in Jobs /\ r.op = "complete" /\ r.worker = w /\ r.job = a.job /\ r.digest = a.digest
    BY <1>1, <1>2, <1>6 DEF AgentOK, CallIsOwn, LeaseIsGranted, ServePoints, AskedAt, JobOps
  <2>2. CASE SettleComplete(a.call)
    BY <1>6, <2>1, <2>2, SettlesOwn
  <2>3. CASE r.pc = "audit"
    BY <1>1, <1>6, <2>1, <2>3, CompletionsStay DEF AgentOK, AnswerIsTrue
  <2> QED  BY <1>6, <2>1, <2>2, <2>3 DEF HandlerMoves, Continues, Answers, Takes, Succeeds
<1>7. AnswerIsTrue(w)'
  BY <1>6 DEF AnswerIsTrue, CompletedBy, StillCompleted, Succeeded
<1> QED  BY <1>4, <1>5, <1>7 DEF AgentOK

LEMMA GrantUntouched ==
  ASSUME IInv, PoolInv, [Next]_vars, NEW s \in Slots,
         requests'[s] = requests[s] \/ ~Grants(requests'[s])
  PROVE  GrantIsMinted(s)'
<1> DEFINE r == requests[s]
<1>1. ASSUME Grants(r) PROVE r.job \in Jobs /\ StillGranted(r.worker, r.job, r.token)
  <2>1. r.job \in Jobs /\ Granted(r.worker, r.job, r.token)
    BY <1>1 DEF PoolInv, GrantIsMinted
  <2>2. r.worker \in Workers
    BY <1>1, SlotFacts DEF HandlerKnowsItsClaim, Grants, Succeeded
  <2> QED  BY <2>1, <2>2, GrantsStay
<1> QED  BY <1>1 DEF GrantIsMinted, Granted, StillGranted, Budget, Grants, Succeeded

LEMMA GrantServed ==
  ASSUME IInv, PoolInv, [Next]_vars, NEW s \in Slots, HandlerMoves(s)
  PROVE  GrantIsMinted(s)'
<1> DEFINE r == requests[s]
           q == requests'[s]
<1>1. CASE Continues(s)
  BY <1>1, GrantUntouched DEF Continues, Grants, Succeeded
<1>2. ASSUME NEW code \in Codes, Answers(s, code), code = 200 => Succeeds(s)
      PROVE  GrantIsMinted(s)'
  <2>1. ASSUME Grants(q)
        PROVE  q.job \in Jobs /\ StillGranted(q.worker, q.job, q.token)
    <3>1. Grants(r) /\ q.job = r.job /\ q.token = r.token /\ q.worker = r.worker
      BY <1>2, <2>1 DEF Answers, SameCaller, Succeeds, Grants, Succeeded
    <3>2. r.job \in Jobs /\ Granted(r.worker, r.job, r.token) /\ r.worker \in Workers
      BY <3>1, SlotFacts DEF PoolInv, GrantIsMinted, HandlerKnowsItsClaim, Grants, Succeeded
    <3> QED  BY <3>1, <3>2, GrantsStay
  <2> QED  BY <2>1 DEF GrantIsMinted, Granted, StillGranted, Budget, Grants, Succeeded
<1>3. ASSUME NEW j \in Jobs, ClaimJob(s, j), Takes(s, j)
      PROVE  GrantIsMinted(s)'
  <2>1. q.job = j /\ q.token = jobs[j].attempts + 1 /\ q.worker = r.worker
    BY <1>3 DEF Takes, SameCaller
  <2>2. StillGranted(q.worker, q.job, q.token)
    BY <1>3, <2>1, ClaimMints
  <2> QED  BY <2>1, <2>2 DEF GrantIsMinted, Granted, StillGranted, Budget
<1> QED  BY <1>1, <1>2, <1>3 DEF HandlerMoves

LEMMA ConfirmedStay ==
  ASSUME IInv, PoolInv, [Next]_vars, outcomes' = outcomes
  PROVE  ConfirmedIsFinal'
<1> SUFFICES ASSUME NEW o \in outcomes
             PROVE  StillCompleted(o[1], o[2], o[3])
  BY DEF ConfirmedIsFinal, StillCompleted
<1>1. o[2] \in Jobs
  BY DEF PoolInv, AgentsTypeOK
<1>2. CompletedBy(o[1], o[2], o[3])
  BY DEF PoolInv, ConfirmedIsFinal, CompletedBy
<1> QED  BY <1>1, <1>2, CompletionsStay

-----------------------------------------------------------------------------
(* A step of the coordinator.                                              *)

CountersOK == faults \in 0..MaxFaults /\ stops \in 0..MaxStops

\* What a step leaves of the invariant, part by part.
LEMMA PoolInvParts ==
  ASSUME agents' \in [Workers -> Agent], outcomes' \subseteq Workers \X Jobs \X Digests,
         CountersOK', \A w \in Workers : AgentOK(w)', \A s \in Slots : GrantIsMinted(s)',
         ConfirmedIsFinal'
  PROVE  PoolInv'
BY DEF PoolInv, AgentsTypeOK, AgentOK, CountersOK

\* Handlers other than s rest, and the agents do.
LEMMA SlotMoves ==
  ASSUME IInv, PoolInv, [Next]_vars, UNCHANGED agentVars, CountersOK', NEW s,
         \A t \in Slots \ {s} : requests'[t] = requests[t],
         s \in Slots => GrantIsMinted(s)',
         \A w \in Workers : agents[w].call = s => AgentOK(w)'
  PROVE  PoolInv'
<1>1. ASSUME NEW w \in Workers PROVE AgentOK(w)'
  <2>1. agents[w].call = s \/ agents[w].call = NoSlot
          \/ requests'[agents[w].call] = requests[agents[w].call]
    BY AgentFacts DEF Agent
  <2> QED  BY <2>1, AgentUntouched DEF agentVars
<1>2. ASSUME NEW t \in Slots PROVE GrantIsMinted(t)'
  BY GrantUntouched
<1>3. ConfirmedIsFinal'
  BY ConfirmedStay DEF agentVars
<1> QED  BY <1>1, <1>2, <1>3, PoolInvParts DEF PoolInv, AgentsTypeOK, agentVars

LEMMA ServedKeeps ==
  ASSUME IInv, PoolInv, [Next]_vars, UNCHANGED agentVars, CountersOK',
         NEW s \in Slots, HandlerStep(s) \/ Outage(s)
  PROVE  PoolInv'
<1>1. HandlerMoves(s)
  BY HandlerFrame
<1>2. \A w \in Workers : agents[w].call = s => AgentOK(w)'
  BY <1>1, AgentServed DEF agentVars
<1> QED  BY <1>1, <1>2, GrantServed, SlotMoves DEF HandlerMoves, OthersRest

LEMMA RequestsUntouched ==
  ASSUME IInv, PoolInv, [Next]_vars, UNCHANGED <<agentVars, requests>>, CountersOK'
  PROVE  PoolInv'
<1>1. \A w \in Workers : AgentOK(w)'
  BY AgentUntouched DEF agentVars
<1>2. \A s \in Slots : GrantIsMinted(s)'
  BY GrantUntouched
<1> QED  BY <1>1, <1>2, ConfirmedStay, PoolInvParts DEF PoolInv, AgentsTypeOK, agentVars

\* A request that arrives, or that nobody awaits, in a slot of its own.
LEMMA ArrivalKeeps ==
  ASSUME IInv, PoolInv, [Next]_vars, UNCHANGED agentVars, CountersOK', NEW s \in Slots, NEW q,
         requests' = [requests EXCEPT ![s] = q], q.pc \notin {"mint", "reply"},
         At(s, "idle") \/ \A w \in Workers : agents[w].call # s
  PROVE  PoolInv'
<1>1. requests'[s] = q /\ \A t \in Slots \ {s} : requests'[t] = requests[t]
  BY DEF IInv, TypeOK
<1>2. GrantIsMinted(s)'
  BY <1>1, GrantUntouched DEF Grants, Succeeded
<1>3. \A w \in Workers : agents[w].call # s
  BY AgentFacts, NoSlotAssumption DEF AgentOK, CallIsOwn, At
<1> QED  BY <1>1, <1>2, <1>3, SlotMoves

-----------------------------------------------------------------------------
(* A step of an agent.                                                     *)

\* The slot of one agent's request is no other's.
LEMMA SlotIsOwn ==
  ASSUME PoolInv, NEW w \in Workers, NEW v \in Workers, v # w, NEW s \in Slots,
         At(s, "idle") \/ agents[w].call = s
  PROVE  agents[v].call # s
<1>1. ASSUME NEW u \in Workers, agents[u].call = s
      PROVE  requests[s].pc # "idle" /\ requests[s].worker = u
  <2>1. CallIsOwn(u)
    BY AgentFacts DEF AgentOK
  <2> QED  BY <1>1, <2>1, NoSlotAssumption DEF CallIsOwn
<1> QED  BY <1>1 DEF At

LEMMA AgentMoves ==
  ASSUME IInv, PoolInv, [Next]_vars, CountersOK', NEW w \in Workers, NEW a \in Agent, NEW s,
         agents' = [agents EXCEPT ![w] = a], AgentOK(w)',
         \A t \in Slots \ {s} : requests'[t] = requests[t],
         s \in Slots => /\ ~Grants(requests'[s])
                        /\ At(s, "idle") \/ agents[w].call = s,
         outcomes' \subseteq Workers \X Jobs \X Digests, ConfirmedIsFinal'
  PROVE  PoolInv'
<1>1. /\ agents' \in [Workers -> Agent]
      /\ \A v \in Workers \ {w} : agents'[v] = agents[v]
  BY DEF PoolInv, AgentsTypeOK
<1>2. ASSUME NEW v \in Workers \ {w} PROVE AgentOK(v)'
  <2>1. agents[v].call = NoSlot \/ requests'[agents[v].call] = requests[agents[v].call]
    BY AgentFacts, SlotIsOwn DEF Agent
  <2> QED  BY <1>1, <2>1, AgentUntouched
<1>3. ASSUME NEW t \in Slots PROVE GrantIsMinted(t)'
  BY GrantUntouched
<1> QED  BY <1>1, <1>2, <1>3, PoolInvParts

\* What an agent must know when it awaits no answer.
RestsWell(w, a) ==
  /\ a \in Agent /\ a.call = NoSlot /\ a.pc \notin WaitPoints
  /\ a.pc \in ServePoints => a.job \in Jobs /\ Granted(w, a.job, a.token)
  /\ a.pc \in {"upload", "attest"} => a.digest \in Digests
  /\ a.beating => a.pc \in ServePoints

LEMMA AgentRests ==
  ASSUME IInv, [Next]_vars, NEW w \in Workers, NEW a, agents'[w] = a, RestsWell(w, a)
  PROVE  AgentOK(w)'
<1>1. CallIsOwn(w)'
  BY DEF CallIsOwn, RestsWell
<1>2. LeaseIsGranted(w)'
  BY GrantsStay DEF LeaseIsGranted, RestsWell, Granted, StillGranted, Budget, WaitPoints
<1>3. AnswerIsTrue(w)'
  BY DEF AnswerIsTrue, RestsWell, WaitPoints
<1> QED  BY <1>1, <1>2, <1>3 DEF AgentOK

LEMMA AgentFields ==
  ASSUME NEW a \in Agent
  PROVE  /\ \A x \in LoopPoints \cup ServePoints : [a EXCEPT !.pc = x] \in Agent
         /\ \A x \in Slots \cup {NoSlot} : [a EXCEPT !.call = x] \in Agent
         /\ \A x \in Jobs : [a EXCEPT !.job = x] \in Agent
         /\ \A x \in Nat : [a EXCEPT !.token = x] \in Agent
         /\ \A x \in Digests : [a EXCEPT !.digest = x] \in Agent
         /\ \A x \in BOOLEAN : [a EXCEPT !.beating = x] \in Agent
         /\ \A x \in BOOLEAN : [a EXCEPT !.stop = x] \in Agent
BY DEF Agent

LEMMA OffRests == ASSUME NEW w PROVE Off \in Agent /\ RestsWell(w, Off)
<1>1. Off \in Agent
  BY DEF Off, Agent, LoopPoints, NoToken
<1> QED  BY <1>1 DEF RestsWell, Off, WaitPoints, ServePoints

LEMMA UnservedRests ==
  ASSUME NEW w, NEW a \in Agent
  PROVE  RestsWell(w, Unserved(a)) /\ Unserved(a).stop = a.stop
<1> DEFINE b == [Off EXCEPT !.pc = "poll"]
<1>1. b \in Agent /\ b.pc = "poll" /\ b.call = NoSlot /\ b.beating = FALSE
  BY OffRests DEF Off, Agent, LoopPoints
<1>2. a.stop \in BOOLEAN
  BY DEF Agent
<1>3. Unserved(a) = [b EXCEPT !.stop = a.stop]
  BY <1>1 DEF Unserved, Off
<1> HIDE DEF b
<1>4. Unserved(a) \in Agent
  BY <1>1, <1>2, <1>3, AgentFields
<1>5. Unserved(a).pc = "poll" /\ Unserved(a).call = NoSlot /\ Unserved(a).beating = FALSE
      /\ Unserved(a).stop = a.stop
  BY <1>1, <1>3 DEF Agent
<1> QED  BY <1>4, <1>5 DEF RestsWell, WaitPoints, ServePoints

\* Whatever an agent was at, it rests after an error of the transport.
LEMMA TransportErrorRests ==
  ASSUME PoolInv, NEW w \in Workers
  PROVE  RestsWell(w, TransportError(agents[w]))
<1> DEFINE a == agents[w]
<1>1. a \in Agent
  BY AgentFacts
<1>2. CASE a.pc = "completing"
  <2> DEFINE b == [a EXCEPT !.pc = "giveback"]
             c == [b EXCEPT !.call = NoSlot]
  <2>1. b \in Agent /\ b.pc = "giveback" /\ b.job = a.job /\ b.token = a.token
        /\ b.beating = a.beating
    BY <1>1, AgentFields DEF Agent, ServePoints
  <2>2. c = TransportError(a)
    BY <1>1, <1>2 DEF TransportError, Agent
  <2> HIDE DEF b
  <2>3. c \in Agent /\ c.pc = "giveback" /\ c.job = a.job /\ c.token = a.token
        /\ c.call = NoSlot
    BY <2>1, AgentFields DEF Agent
  <2> HIDE DEF c
  <2>4. a.job \in Jobs /\ Granted(w, a.job, a.token)
    BY <1>2, AgentFacts DEF AgentOK, LeaseIsGranted, ServePoints
  <2> QED  BY <2>2, <2>3, <2>4 DEF RestsWell, WaitPoints, ServePoints
<1>3. CASE a.pc = "farewell"
  BY <1>3, OffRests DEF TransportError
<1>4. CASE a.pc \notin {"completing", "farewell"}
  BY <1>1, <1>4, UnservedRests DEF TransportError
<1> QED  BY <1>2, <1>3, <1>4

\* An agent that took the answer it awaited, or asked nothing.
LEMMA AnswerTaken ==
  ASSUME IInv, PoolInv, [Next]_vars, CountersOK', NEW w \in Workers, NEW a, RestsWell(w, a),
         agents' = [agents EXCEPT ![w] = a],
         Respond(agents[w].call) \/ UNCHANGED requests,
         agents[w].pc \in WaitPoints \/ UNCHANGED requests,
         outcomes' \subseteq Workers \X Jobs \X Digests, ConfirmedIsFinal'
  PROVE  PoolInv'
<1>1. a \in Agent /\ agents'[w] = a
  BY DEF RestsWell, PoolInv, AgentsTypeOK
<1>2. AgentOK(w)'
  BY <1>1, AgentRests
<1>3. CASE UNCHANGED requests
  BY <1>1, <1>2, <1>3, AgentMoves, NoSlotAssumption
<1>4. CASE Respond(agents[w].call) /\ agents[w].pc \in WaitPoints
  <2>1. agents[w].call \in Slots
    BY <1>4, AgentFacts
  <2>2. requests' = [requests EXCEPT ![agents[w].call] = Idle]
    BY <1>4 DEF Respond
  <2>3. ~Grants(Idle)
    BY DEF Grants, Idle
  <2> QED  BY <1>1, <1>2, <2>1, <2>2, <2>3, AgentMoves DEF IInv, TypeOK
<1> QED  BY <1>3, <1>4

LEMMA Rested ==
  ASSUME IInv, PoolInv, [Next]_vars, CountersOK', NEW w \in Workers, NEW a, RestsWell(w, a),
         Become(w, a),
         Respond(agents[w].call) \/ UNCHANGED requests,
         agents[w].pc \in WaitPoints \/ UNCHANGED requests
  PROVE  PoolInv'
<1>1. outcomes' = outcomes /\ agents' = [agents EXCEPT ![w] = a]
  BY DEF Become
<1>2. outcomes' \subseteq Workers \X Jobs \X Digests /\ ConfirmedIsFinal'
  BY <1>1, ConfirmedStay DEF PoolInv, AgentsTypeOK
<1> QED  BY <1>1, <1>2, AnswerTaken

\* An agent that is serving goes on.
LEMMA ProceedRests ==
  ASSUME PoolInv, NEW w \in Workers, agents[w].pc \in ServePoints \ WaitPoints,
         NEW pc \in ServePoints \ WaitPoints,
         pc \in {"upload", "attest"} => agents[w].digest \in Digests
  PROVE  RestsWell(w, [agents[w] EXCEPT !.pc = pc])
<1> DEFINE a == agents[w]
           b == [a EXCEPT !.pc = pc]
<1>1. /\ a \in Agent /\ a.call = NoSlot
      /\ a.job \in Jobs /\ Granted(w, a.job, a.token)
  BY AgentFacts DEF AgentOK, CallIsOwn, LeaseIsGranted
<1>2. b \in Agent
  BY <1>1, AgentFields
<1>3. /\ b.pc = pc /\ b.call = NoSlot /\ b.job = a.job /\ b.token = a.token
      /\ b.digest = a.digest
  BY <1>1 DEF Agent
<1> HIDE DEF b
<1>4. RestsWell(w, b)
  BY <1>1, <1>2, <1>3 DEF RestsWell
<1> QED  BY <1>4 DEF b

LEMMA ProceedKeeps ==
  ASSUME IInv, PoolInv, [Next]_vars, CountersOK', NEW w \in Workers,
         agents[w].pc \in ServePoints \ WaitPoints,
         NEW pc \in ServePoints \ WaitPoints, Proceed(w, pc), UNCHANGED requests,
         pc \in {"upload", "attest"} => agents[w].digest \in Digests
  PROVE  PoolInv'
BY ProceedRests, Rested DEF Proceed

LEMMA LoopAnswerKeeps ==
  ASSUME IInv, PoolInv, [Next]_vars, CountersOK', NEW w \in Workers,
         PresenceAnswered(w) \/ FarewellAnswered(w) \/ LeaseAnswered(w)
  PROVE  PoolInv'
<1> DEFINE a == agents[w]
           r == requests[a.call]
<1>1. a \in Agent /\ CallIsOwn(w) /\ a.pc \in WaitPoints /\ a.call \in Slots /\ Respond(a.call)
      /\ r.pc = "reply"
  BY AgentFacts DEF PresenceAnswered, FarewellAnswered, LeaseAnswered, Answered, WaitPoints, AgentOK, At
<1>2. CASE Raises(w)
  BY <1>1, <1>2, TransportErrorRests, Rested DEF Raises
<1>3. CASE Become(w, Off)
  BY <1>1, <1>3, OffRests, Rested
<1>4. CASE Become(w, [a EXCEPT !.pc = "ask", !.call = NoSlot]) /\ a.pc = "presence"
  <2> DEFINE b == [a EXCEPT !.pc = "ask"]
             c == [b EXCEPT !.call = NoSlot]
  <2>1. b \in Agent /\ b.pc = "ask" /\ b.beating = a.beating
    BY <1>1, AgentFields DEF Agent, LoopPoints
  <2>2. Become(w, c)
    BY <1>1, <1>4 DEF Agent
  <2> HIDE DEF b
  <2>3. c \in Agent /\ c.pc = "ask" /\ c.call = NoSlot /\ c.beating = a.beating
    BY <2>1, AgentFields DEF Agent
  <2> HIDE DEF c
  <2>4. a.beating = FALSE
    BY <1>1, <1>4, AgentFacts DEF AgentOK, LeaseIsGranted, ServePoints, Agent
  <2>5. RestsWell(w, c)
    BY <2>3, <2>4 DEF RestsWell, WaitPoints, ServePoints
  <2> QED  BY <1>1, <2>2, <2>5, Rested
<1>5. CASE /\ a.pc = "leasing" /\ Code(w) = 200
           /\ Become(w, [a EXCEPT !.pc = "serve", !.call = NoSlot, !.job = r.job, !.token = r.token])
  <2> DEFINE b == [a EXCEPT !.pc = "serve"]
             c == [b EXCEPT !.call = NoSlot]
             d == [c EXCEPT !.job = r.job]
             e == [d EXCEPT !.token = r.token]
  <2>1. r.worker = w /\ r.op = "lease" /\ r \in Request
    BY <1>1, <1>5, NoSlotAssumption DEF CallIsOwn, AskedAt, IInv, TypeOK
  <2>2. r.job \in Jobs /\ Granted(w, r.job, r.token) /\ r.token \in Nat
    BY <1>1, <1>5, <2>1 DEF PoolInv, GrantIsMinted, Grants, Succeeded, Code, Request
  <2>3. Become(w, e)
    BY <1>1, <1>5 DEF Agent
  <2>4. b \in Agent /\ b.pc = "serve"
    BY <1>1, AgentFields DEF Agent, ServePoints
  <2> HIDE DEF b
  <2>5. c \in Agent /\ c.pc = "serve" /\ c.call = NoSlot
    BY <2>4, AgentFields DEF Agent
  <2> HIDE DEF c
  <2>6. d \in Agent /\ d.pc = "serve" /\ d.call = NoSlot /\ d.job = r.job
    BY <2>2, <2>5, AgentFields DEF Agent
  <2> HIDE DEF d
  <2>7. e \in Agent /\ e.pc = "serve" /\ e.call = NoSlot /\ e.job = r.job /\ e.token = r.token
    BY <2>2, <2>6, AgentFields DEF Agent
  <2> HIDE DEF e
  <2>8. RestsWell(w, e)
    BY <2>2, <2>7 DEF RestsWell, WaitPoints, ServePoints
  <2> QED  BY <1>1, <2>3, <2>8, Rested
<1> QED  BY <1>2, <1>3, <1>4, <1>5 DEF PresenceAnswered, FarewellAnswered, LeaseAnswered, Answered

LEMMA WorkKeeps ==
  ASSUME IInv, PoolInv, [Next]_vars, CountersOK', NEW w \in Workers,
         RejectLease(w) \/ ReleaseWhenStopping(w) \/ StartDownload(w) \/ Downloaded(w)
           \/ Executed(w) \/ ExecutionRejected(w) \/ UploadOutput(w) \/ AttemptFails(w)
  PROVE  PoolInv'
<1> DEFINE a == agents[w]
<1>1. /\ UNCHANGED requests
      /\ a.pc \in ServePoints \ WaitPoints
  BY DEF RejectLease, ReleaseWhenStopping, StartDownload, Downloaded, Executed,
     ExecutionRejected, UploadOutput, AttemptFails, Upload, vars, ServePoints, WaitPoints
<1>2. /\ a \in Agent /\ a.call = NoSlot /\ a.job \in Jobs /\ Granted(w, a.job, a.token)
      /\ a.pc = "upload" => a.digest \in Digests
  BY <1>1, AgentFacts DEF AgentOK, CallIsOwn, LeaseIsGranted
<1>3. ASSUME NEW pc \in {"reject", "giveback", "download"}, Proceed(w, pc)
      PROVE  PoolInv'
  BY <1>1, <1>3, ProceedKeeps DEF ServePoints, WaitPoints
<1>4. CASE UploadOutput(w)
  BY <1>1, <1>2, <1>4, ProceedKeeps DEF UploadOutput, ServePoints, WaitPoints
<1>5. CASE Downloaded(w)
  <2> DEFINE b == [a EXCEPT !.pc = "execute"]
             c == [b EXCEPT !.beating = TRUE]
  <2>1. b \in Agent /\ b.pc = "execute" /\ b.call = NoSlot /\ b.job = a.job /\ b.token = a.token
    BY <1>2, AgentFields DEF Agent, ServePoints
  <2>2. Become(w, c)
    BY <1>2, <1>5 DEF Agent, Downloaded
  <2> HIDE DEF b
  <2>3. c \in Agent /\ c.pc = "execute" /\ c.call = NoSlot /\ c.job = a.job /\ c.token = a.token
    BY <2>1 DEF Agent
  <2> HIDE DEF c
  <2>4. RestsWell(w, c)
    BY <1>2, <2>3 DEF RestsWell, WaitPoints, ServePoints
  <2> QED  BY <1>1, <2>2, <2>4, Rested
<1>6. CASE Executed(w)
  <2>1. PICK d \in Digests : Become(w, [a EXCEPT !.pc = "upload", !.digest = d])
    BY <1>6 DEF Executed
  <2> DEFINE b == [a EXCEPT !.pc = "upload"]
             c == [b EXCEPT !.digest = d]
  <2>2. /\ b \in Agent /\ b.pc = "upload" /\ b.call = NoSlot /\ b.job = a.job
        /\ b.token = a.token /\ b.beating = a.beating
    BY <1>2, AgentFields DEF Agent, ServePoints
  <2>3. Become(w, c)
    BY <1>2, <2>1 DEF Agent
  <2> HIDE DEF b
  <2>4. /\ c \in Agent /\ c.pc = "upload" /\ c.call = NoSlot /\ c.job = a.job
        /\ c.token = a.token /\ c.digest = d
    BY <2>2, AgentFields DEF Agent
  <2> HIDE DEF c
  <2>5. RestsWell(w, c)
    BY <1>2, <2>4 DEF RestsWell, WaitPoints, ServePoints
  <2> QED  BY <1>1, <2>3, <2>5, Rested
<1> QED  BY <1>3, <1>4, <1>5, <1>6 DEF RejectLease, ReleaseWhenStopping, StartDownload,
            ExecutionRejected, AttemptFails

LEMMA SettlementKeeps ==
  ASSUME IInv, PoolInv, [Next]_vars, CountersOK', NEW w \in Workers,
         CompletionAnswered(w) \/ SettlementAnswered(w)
  PROVE  PoolInv'
<1> DEFINE a == agents[w]
           r == requests[a.call]
<1>1. a \in Agent /\ CallIsOwn(w) /\ a.pc \in WaitPoints /\ a.call \in Slots /\ Respond(a.call)
      /\ r.pc = "reply"
  BY AgentFacts DEF CompletionAnswered, SettlementAnswered, Answered, WaitPoints, AgentOK, At
<1>2. RestsWell(w, Unserved(a))
  BY <1>1, UnservedRests
<1>3. CASE Raises(w)
  BY <1>1, <1>3, TransportErrorRests, Rested DEF Raises
<1>4. CASE Become(w, Unserved(a))
  BY <1>1, <1>2, <1>4, Rested
<1>5. CASE /\ a.pc = "completing" /\ Code(w) = 200
           /\ agents' = [agents EXCEPT ![w] = Unserved(@)]
           /\ outcomes' = outcomes \cup {<<w, a.job, a.digest>>}
  <2>1. CompletedBy(w, a.job, a.digest)
    BY <1>1, <1>5, AgentFacts DEF AgentOK, AnswerIsTrue, Succeeded, Code
  <2>2. a.job \in Jobs /\ a.digest \in Digests
    BY <1>5, AgentFacts DEF AgentOK, LeaseIsGranted, ServePoints
  <2>3. outcomes' \subseteq Workers \X Jobs \X Digests
    BY <1>5, <2>2 DEF PoolInv, AgentsTypeOK
  <2>4. StillCompleted(w, a.job, a.digest)
    BY <2>1, <2>2, CompletionsStay
  <2>5. ASSUME NEW o \in outcomes PROVE StillCompleted(o[1], o[2], o[3])
    BY CompletionsStay DEF PoolInv, AgentsTypeOK, ConfirmedIsFinal, CompletedBy
  <2>6. ConfirmedIsFinal'
    BY <1>5, <2>4, <2>5 DEF ConfirmedIsFinal, StillCompleted
  <2>7. agents' = [agents EXCEPT ![w] = Unserved(a)]
    BY <1>5
  <2> QED  BY <1>1, <1>2, <2>3, <2>6, <2>7, AnswerTaken
<1> QED  BY <1>3, <1>4, <1>5 DEF CompletionAnswered, SettlementAnswered, Answered

\* An agent that asked: what it asked is in its slot.
LEMMA AgentAsks ==
  ASSUME IInv, PoolInv, [Next]_vars, CountersOK', NEW w \in Workers,
         agents[w].pc \notin WaitPoints, NEW pc \in WaitPoints, NEW body, NEW job, NEW token,
         CanConnect, Receive(FreeSlot, Opened(w, body, job, token)),
         Become(w, [agents[w] EXCEPT !.pc = pc, !.call = FreeSlot]),
         <<pc, body.op>> \in AskedAt,
         body.op \in JobOps => job = agents[w].job /\ token = agents[w].token,
         body.op = "complete" => body.digest = agents[w].digest /\ agents[w].digest \in Digests,
         pc \in ServePoints <=> agents[w].pc \in ServePoints
  PROVE  PoolInv'
<1> DEFINE a == agents[w]
           s == FreeSlot
           q == Opened(w, body, job, token)
           b == [a EXCEPT !.pc = pc]
           c == [b EXCEPT !.call = s]
<1>1. a \in Agent /\ AgentOK(w) /\ s \in Slots /\ At(s, "idle") /\ s # NoSlot
  BY AgentFacts, FreeSlotIsFree, NoSlotAssumption
<1>2. /\ q.pc = "authorize" /\ q.worker = w /\ q.op = body.op /\ q.job = job
      /\ q.token = token /\ q.digest = body.digest
  BY DEF Opened
<1>3. requests' = [requests EXCEPT ![s] = q]
  BY DEF Receive
<1>4. /\ b \in Agent /\ b.pc = pc /\ b.job = a.job /\ b.token = a.token /\ b.digest = a.digest
      /\ b.beating = a.beating
  <2>1. pc \in LoopPoints \cup ServePoints
    BY DEF WaitPoints, LoopPoints, ServePoints
  <2> QED  BY <1>1, <2>1, AgentFields DEF Agent
<1>5. Become(w, c)
  BY <1>1 DEF Agent
<1> HIDE DEF b, q, s
<1>6. /\ c \in Agent /\ c.pc = pc /\ c.job = a.job /\ c.token = a.token /\ c.digest = a.digest
      /\ c.beating = a.beating /\ c.call = s
  BY <1>1, <1>4, AgentFields DEF Agent
<1> HIDE DEF c
<1>7. requests'[s] = q /\ \A t \in Slots \ {s} : requests'[t] = requests[t]
  BY <1>1, <1>3 DEF IInv, TypeOK
<1>8. agents'[w] = c /\ agents' = [agents EXCEPT ![w] = c] /\ outcomes' = outcomes
  BY <1>5 DEF Become, PoolInv, AgentsTypeOK
<1>9. CallIsOwn(w)'
  BY <1>1, <1>2, <1>6, <1>7, <1>8 DEF CallIsOwn
<1>10. LeaseIsGranted(w)'
  <2>1. pc \in ServePoints =>
          a.job \in Jobs /\ StillGranted(w, a.job, a.token)
    BY <1>1, GrantsStay DEF AgentOK, LeaseIsGranted
  <2>2. pc \in {"upload", "attest", "completing"} => a.digest \in Digests
    BY DEF AskedAt, WaitPoints
  <2>3. a.beating => pc \in ServePoints
    BY <1>1 DEF AgentOK, LeaseIsGranted
  <2> QED  BY <1>6, <1>8, <2>1, <2>2, <2>3 DEF LeaseIsGranted, Granted, StillGranted, Budget
<1>11. AnswerIsTrue(w)'
  BY <1>2, <1>6, <1>7, <1>8 DEF AnswerIsTrue, Succeeded
<1>12. ~Grants(q)
  BY <1>2 DEF Grants, Succeeded
<1>13. outcomes' \subseteq Workers \X Jobs \X Digests /\ ConfirmedIsFinal'
  BY <1>8, ConfirmedStay DEF PoolInv, AgentsTypeOK
<1> QED  BY <1>1, <1>6, <1>7, <1>8, <1>9, <1>10, <1>11, <1>12, <1>13, AgentMoves DEF AgentOK

LEMMA PostKeeps ==
  ASSUME IInv, PoolInv, [Next]_vars, CountersOK', NEW w \in Workers,
         Poll(w) \/ Farewell(w) \/ AskForWork(w)
  PROVE  PoolInv'
<1>1. ASSUME NEW body, NEW pc \in {"presence", "farewell", "leasing"}, Post(w, body, pc),
             <<pc, body.op>> \in AskedAt, agents[w].pc \in {"poll", "ask"}
      PROVE  PoolInv'
  <2>1. body.op \in {"register", "lease"}
    BY <1>1 DEF AskedAt
  <2> QED  BY <1>1, <2>1, AgentAsks DEF Post, ReceiveCall, WaitPoints, ServePoints, JobOps
<1>2. \A draining \in BOOLEAN : Presence(w, draining).op = "register"
  BY DEF Presence, Body
<1>3. LeaseCall(w).op = "lease"
  BY DEF LeaseCall, Body
<1>4. CASE Poll(w)
  BY <1>1, <1>2, <1>4 DEF Poll, AskedAt
<1>5. CASE Farewell(w)
  BY <1>1, <1>2, <1>5 DEF Farewell, AskedAt
<1>6. CASE AskForWork(w)
  BY <1>1, <1>3, <1>6 DEF AskForWork, AskedAt
<1> QED  BY <1>4, <1>5, <1>6

LEMMA PostForJobKeeps ==
  ASSUME IInv, PoolInv, [Next]_vars, CountersOK', NEW w \in Workers,
         Attest(w) \/ GiveBack(w) \/ Reject(w)
  PROVE  PoolInv'
<1> DEFINE a == agents[w]
<1>1. ASSUME NEW body, NEW pc \in {"completing", "releasing", "rejecting"}, PostForJob(w, body, pc),
             <<pc, body.op>> \in AskedAt, a.pc \in {"attest", "giveback", "reject"},
             body.op = "complete" => body.digest = a.digest /\ a.digest \in Digests
      PROVE  PoolInv'
  BY <1>1, AgentAsks DEF PostForJob, ReceiveJobCall, WaitPoints, ServePoints
<1>2. CASE Attest(w)
  <2>1. a.pc = "attest" /\ PostForJob(w, Completion(a.digest), "completing")
    BY <1>2 DEF Attest
  <2>2. Completion(a.digest).op = "complete" /\ Completion(a.digest).digest = a.digest
    BY DEF Completion, Body
  <2>3. a.digest \in Digests
    BY <2>1, AgentFacts DEF AgentOK, LeaseIsGranted
  <2> QED  BY <1>1, <2>1, <2>2, <2>3 DEF AskedAt
<1>3. CASE GiveBack(w)
  <2>1. Body("release").op = "release"
    BY DEF Body
  <2> QED  BY <1>1, <1>3, <2>1 DEF GiveBack, AskedAt
<1>4. CASE Reject(w)
  <2>1. Body("fail").op = "fail"
    BY DEF Body
  <2> QED  BY <1>1, <1>4, <2>1 DEF Reject, AskedAt
<1> QED  BY <1>2, <1>3, <1>4

LEMMA BeatKeeps ==
  ASSUME IInv, PoolInv, [Next]_vars, CountersOK', NEW w \in Workers, BeatStep(w)
  PROVE  PoolInv'
<1>1. ASSUME NEW body, NEW job, NEW token, CanConnect, UNCHANGED agentVars,
             Receive(FreeSlot, Opened(w, body, job, token))
      PROVE  PoolInv'
  <2>1. Opened(w, body, job, token).pc = "authorize"
    BY DEF Opened
  <2> QED  BY <1>1, <2>1, FreeSlotIsFree, ArrivalKeeps DEF Receive
<1> QED  BY <1>1 DEF BeatStep, BeatJob, BeatPresence, ReceiveCall, ReceiveJobCall

LEMMA ProcessKeeps ==
  ASSUME IInv, PoolInv, [Next]_vars, CountersOK', NEW w \in Workers,
         Start(w) \/ Die(w) \/ LoseAnswer(w)
  PROVE  PoolInv'
<1>1. UNCHANGED requests
  BY DEF Start, Die, LoseAnswer, vars
<1>2. CASE Start(w)
  <2>1. [Off EXCEPT !.pc = "poll"] \in Agent
    BY OffRests, AgentFields DEF LoopPoints
  <2>2. RestsWell(w, [Off EXCEPT !.pc = "poll"])
    BY <2>1 DEF RestsWell, Off, WaitPoints, ServePoints
  <2> QED  BY <1>1, <1>2, <2>2, Rested DEF Start
<1>3. CASE Die(w)
  BY <1>1, <1>3, OffRests, Rested DEF Die
<1>4. CASE LoseAnswer(w)
  BY <1>1, <1>4, TransportErrorRests, Rested DEF LoseAnswer, Raises
<1> QED  BY <1>2, <1>3, <1>4

\* SIGTERM changes nothing an agent relies on.
LEMMA StopKeeps ==
  ASSUME IInv, PoolInv, [Next]_vars, CountersOK', NEW w \in Workers, Stop(w)
  PROVE  PoolInv'
<1> DEFINE a == agents[w]
           b == [a EXCEPT !.stop = TRUE]
<1>1. a \in Agent /\ AgentOK(w)
  BY AgentFacts
<1>2. /\ b \in Agent /\ b.pc = a.pc /\ b.call = a.call /\ b.job = a.job /\ b.token = a.token
      /\ b.digest = a.digest /\ b.beating = a.beating
  BY <1>1 DEF Agent
<1>3. UNCHANGED vars /\ agents' = [agents EXCEPT ![w] = b] /\ outcomes' = outcomes
  BY DEF Stop, Become
<1> HIDE DEF b
<1>4. agents'[w] = b
  BY <1>3 DEF PoolInv, AgentsTypeOK
<1>5. AgentOK(w)'
  <2> USE <1>1, <1>2, <1>3, <1>4 DEF vars
  <2>1. CallIsOwn(w)'
    BY DEF CallIsOwn, AgentOK
  <2>2. LeaseIsGranted(w)'
    BY DEF LeaseIsGranted, AgentOK, Granted, Budget
  <2>3. AnswerIsTrue(w)'
    BY DEF AnswerIsTrue, AgentOK, CompletedBy, Succeeded
  <2> QED  BY <2>1, <2>2, <2>3 DEF AgentOK
<1>6. outcomes' \subseteq Workers \X Jobs \X Digests /\ ConfirmedIsFinal'
  BY <1>3, ConfirmedStay DEF PoolInv, AgentsTypeOK
<1> QED  BY <1>2, <1>3, <1>5, <1>6, AgentMoves, NoSlotAssumption DEF vars

\* With the coordinator goes every request: no agent awaits one any more.
LEMMA LoseCoordinatorKeeps ==
  ASSUME IInv, PoolInv, [Next]_vars, CountersOK', LoseCoordinator
  PROVE  PoolInv'
<1> DEFINE new(w) == IF agents[w].call = NoSlot THEN agents[w] ELSE TransportError(agents[w])
<1>1. agents' = [w \in Workers |-> new(w)] /\ outcomes' = outcomes
      /\ requests' = [s \in Slots |-> Idle]
  BY DEF LoseCoordinator, Crash
<1>2. ASSUME NEW w \in Workers PROVE RestsWell(w, new(w))
  <2>1. CASE agents[w].call = NoSlot
    BY <2>1, AgentFacts DEF RestsWell, AgentOK, CallIsOwn, LeaseIsGranted
  <2>2. CASE agents[w].call # NoSlot
    BY <2>2, TransportErrorRests
  <2> QED  BY <2>1, <2>2
<1> HIDE DEF new
<1>3. ASSUME NEW w \in Workers PROVE AgentOK(w)'
  BY <1>1, <1>2, AgentRests
<1>4. agents' \in [Workers -> Agent]
  BY <1>1, <1>2 DEF RestsWell
<1>5. ASSUME NEW s \in Slots PROVE GrantIsMinted(s)'
  BY <1>1, GrantUntouched DEF Grants, Idle
<1> QED  BY <1>1, <1>3, <1>4, <1>5, ConfirmedStay, PoolInvParts DEF PoolInv, AgentsTypeOK

LEMMA DropAnswerKeeps ==
  ASSUME IInv, PoolInv, [Next]_vars, CountersOK', NEW s \in Slots, DropAnswer(s)
  PROVE  PoolInv'
BY ArrivalKeeps DEF DropAnswer, Respond, Idle

-----------------------------------------------------------------------------
(* The theorems.                                                           *)

LEMMA PoolInitInv == PoolInit => IInv /\ PoolInv
<1> SUFFICES ASSUME PoolInit PROVE IInv /\ PoolInv
  OBVIOUS
<1>1. agents = [w \in Workers |-> Off] /\ outcomes = {} /\ Init
      /\ requests = [s \in Slots |-> Idle]
  BY DEF PoolInit, AgentsInit, Init
<1>2. ASSUME NEW w \in Workers PROVE AgentOK(w)
  BY <1>1 DEF AgentOK, CallIsOwn, LeaseIsGranted, AnswerIsTrue, Off, WaitPoints, ServePoints
<1>3. ASSUME NEW s \in Slots PROVE GrantIsMinted(s)
  BY <1>1 DEF GrantIsMinted, Grants, Succeeded, Idle
<1>4. AgentsTypeOK
  BY <1>1, OffRests, BoundsAssumption DEF AgentsTypeOK, PoolInit
<1> QED  BY <1>1, <1>2, <1>3, <1>4, InitIInv DEF PoolInv, AgentOK, ConfirmedIsFinal

LEMMA CountersStep ==
  ASSUME PoolInv, [PoolNext]_poolVars
  PROVE  CountersOK'
BY BoundsAssumption DEF PoolInv, AgentsTypeOK, CountersOK, PoolNext, poolVars, counters

LEMMA PoolInvNext == IInv /\ PoolInv /\ [PoolNext]_poolVars => PoolInv'
<1> SUFFICES ASSUME IInv, PoolInv, [PoolNext]_poolVars PROVE PoolInv'
  OBVIOUS
<1>1. [Next]_vars /\ CountersOK'
  BY PoolStepIsServed, CountersStep
<1>2. ASSUME NEW w \in Workers,
             Start(w) \/ LoopStep(w) \/ ServeStep(w) \/ BeatStep(w) \/ Stop(w) \/ AgentFault(w)
      PROVE  PoolInv'
  BY <1>1, <1>2, PostKeeps, LoopAnswerKeeps, WorkKeeps, PostForJobKeeps, SettlementKeeps,
     BeatKeeps, ProcessKeeps, StopKeeps DEF LoopStep, ServeStep, AgentFault
<1>3. ASSUME NEW s \in Slots, Served(s) \/ (Outage(s) /\ UNCHANGED agentVars)
      PROVE  PoolInv'
  BY <1>1, <1>3, ServedKeeps DEF Served
<1>4. ASSUME NEW s \in Slots, DropAnswer(s)
      PROVE  PoolInv'
  BY <1>1, <1>4, DropAnswerKeeps
<1>5. CASE HostActs \/ TimePasses
  <2>1. UNCHANGED <<agentVars, requests>>
    BY <1>5 DEF HostActs, HostStep, HostSubmit, HostCancel, HostSetStatus, TimePasses, Tick
  <2> QED  BY <1>1, <2>1, RequestsUntouched
<1>6. CASE LoseCoordinator
  BY <1>1, <1>6, LoseCoordinatorKeeps
<1>7. CASE UNCHANGED poolVars
  BY <1>1, <1>7, RequestsUntouched DEF poolVars, vars
<1> QED  BY <1>2, <1>3, <1>4, <1>5, <1>6, <1>7 DEF PoolNext, Healthy, Faulty

LEMMA PoolInvariants == PoolSpec => [](IInv /\ PoolInv)
<1>1. IInv /\ PoolInv /\ [PoolNext]_poolVars => IInv'
  BY PoolStepIsServed, NextIInv
<1> QED  BY <1>1, PoolInitInv, PoolInvNext, PTL DEF PoolSpec

\* What an agent believes of its lease and its request is true in every state of the pool:
\* its job and claim token were granted to it, and the answer it awaits is to what it asked.
THEOREM PoolInvariance == PoolSpec => []PoolInv
BY PoolInvariants, PTL

\* The pool with its agents is the coordinator with any workers: whatever the coordinator
\* promises its host, it keeps in the pool.
THEOREM PoolImplementsCoordinator == PoolSpec => Spec
<1>1. PoolInit => Init
  BY DEF PoolInit
<1>2. PoolInv /\ [PoolNext]_poolVars => [Next]_vars
  BY PoolStepIsServed
<1> QED  BY <1>1, <1>2, PoolInvariants, PTL DEF PoolSpec, Spec

\* The lifecycle of every job is kept beside agents that crash, drain and retry.
THEOREM PoolKeepsLifecycle == PoolSpec => KeepsLifecycle
BY PoolImplementsCoordinator, LifecycleIsKept, PTL

\* Processes, outcomes and counters keep their types.
THEOREM AgentsAreTyped == PoolSpec => []AgentsTypeOK
<1>1. PoolInv => AgentsTypeOK
  BY DEF PoolInv
<1> QED  BY <1>1, PoolInvariance, PTL

\* An agent told its artifact was accepted was told the truth, and it stays true, whatever
\* is lost, retried or taken over afterwards.
THEOREM ConfirmationsAreFinal == PoolSpec => []ConfirmedIsFinal
<1>1. PoolInv => ConfirmedIsFinal
  BY DEF PoolInv
<1> QED  BY <1>1, PoolInvariance, PTL

-----------------------------------------------------------------------------
(* Only faults leave a lease behind: the workers stay approved.            *)

\* The allowlist names every worker with the identity it proves, and the host revokes none.
NobodyIsTurnedAway ==
  /\ "revoked" \notin HostStatuses
  /\ \A w \in Workers : Enrollments[w].identity_subject = Identity[w]

AllApproved == \A w \in Workers : Approved(w, Identity[w])

LEMMA RegisterApproves ==
  ASSUME IInv, AllApproved, NEW s \in Slots, RegisterHeartbeat(s)
  PROVE  AllApproved'
<1> DEFINE r == requests[s]
           row == [status |-> IF workers[r.worker].status = "revoked" THEN "revoked"
                              ELSE IF r.draining THEN "draining" ELSE "active",
                   identity_subject |-> Identity[r.worker],
                   offer |-> r.offer]
<1>1. r.worker \in Workers
  BY SlotFacts DEF RegisterHeartbeat, At
<1>2. workers' = [workers EXCEPT ![r.worker] = row]
  BY DEF RegisterHeartbeat, Upsert
<1>3. /\ workers'[r.worker] = row
      /\ \A v \in Workers \ {r.worker} : workers'[v] = workers[v]
  BY <1>1, <1>2 DEF IInv, TypeOK
<1>4. workers[r.worker].status # "revoked"
  BY <1>1 DEF AllApproved, Approved, Registered, Absent
<1>5. row.status \in {"draining", "active"} /\ row.identity_subject = Identity[r.worker]
  BY <1>4
<1> HIDE DEF row
<1> QED  BY <1>3, <1>5 DEF AllApproved, Approved, Registered, Absent

LEMMA SetStatusApproves ==
  ASSUME IInv, AllApproved, NobodyIsTurnedAway, NEW w \in Workers, NEW status \in HostStatuses,
         HostSetStatus(w, status)
  PROVE  AllApproved'
<1> DEFINE row == [workers[w] EXCEPT !.status = status]
<1>1. workers' = [workers EXCEPT ![w] = row] /\ Registered(w)
  BY DEF HostSetStatus, SetStatus
<1>2. workers[w] \in WorkerRow
  BY DEF IInv, TypeOK
<1>3. row.status = status /\ row.identity_subject = workers[w].identity_subject
      /\ status # "revoked"
  BY <1>2 DEF WorkerRow, NobodyIsTurnedAway
<1> HIDE DEF row
<1>4. workers'[w] = row /\ \A v \in Workers \ {w} : workers'[v] = workers[v]
  BY <1>1 DEF IInv, TypeOK
<1>5. row.identity_subject = Identity[w]
  BY <1>1, <1>3 DEF AllApproved, Approved
<1> QED  BY <1>3, <1>4, <1>5 DEF AllApproved, Approved, Registered, NobodyIsTurnedAway

LEMMA ApprovedStay ==
  ASSUME IInv, AllApproved, NobodyIsTurnedAway, [Next]_vars
  PROVE  AllApproved'
<1>1. CASE UNCHANGED <<workers, intent>>
  BY <1>1 DEF AllApproved, Approved, Registered
<1> QED  BY <1>1, WorkersChange, RegisterApproves, SetStatusApproves

-----------------------------------------------------------------------------
(* An answer to the holder of a lease ends it.                             *)

\* The claim a request was made for is no longer the row's.
ClaimIsOver(r) == jobs'[r.job].leased_by = r.worker => jobs'[r.job].claim_token # r.token

LEMMA FailEnds ==
  ASSUME IInv, NEW j \in Jobs, NEW token, NEW retryable \in BOOLEAN, Fail(j, token, retryable)
  PROVE  jobs'[j].leased_by = Nobody
<1> DEFINE row == [Settled(jobs[j], "failed") EXCEPT !.retryable = retryable]
<1>1. row.leased_by = Nobody
  BY SettledHolder DEF JobStatus
<1>2. jobs' = [jobs EXCEPT ![j] = row]
  BY DEF Fail
<1> HIDE DEF row
<1> QED  BY <1>1, <1>2 DEF IInv, TypeOK

LEMMA ReleaseEnds ==
  ASSUME IInv, NEW j \in Jobs, NEW token, Release(j, token)
  PROVE  jobs'[j].leased_by = Nobody
BY SettledHolder DEF Release, JobStatus, IInv, TypeOK

\* A claim that is the row's is processing, under a token.
LEMMA HeldIsLeased ==
  ASSUME IInv, NEW j \in Jobs, NEW w \in Workers, jobs[j].leased_by = w
  PROVE  jobs[j].status = "processing" /\ Leased(j, jobs[j].claim_token)
<1>1. RowCoherent(j) /\ jobs[j].attempts \in 0..20 /\ w # Nobody
  BY RowFacts, NobodyAssumption
<1> QED  BY <1>1 DEF RowCoherent, Leased, NoToken

LEMMA AnswerEnds ==
  ASSUME IInv, AllApproved, NEW s \in Slots, HandlerStep(s), requests'[s].pc = "reply",
         requests[s].op \in {"complete", "fail", "release"}, requests[s].pc \notin {"idle", "reply"}
  PROVE  ClaimIsOver(requests[s])
<1> DEFINE r == requests[s]
<1> USE DEF At
<1>1. /\ r \in Request /\ r.worker \in Workers /\ r.job \in Jobs /\ HandlerKnowsItsClaim(s)
      /\ ReadingsLast(s)
  BY SlotFacts DEF HandlerKnowsItsClaim, JobOps
<1>2. r.worker # Nobody
  BY <1>1, NobodyAssumption
<1>3. ASSUME NEW pc, Goto(s, pc), pc # "reply" PROVE FALSE
  BY <1>3, GotoOwn
<1>4. ASSUME UNCHANGED jobs, ~Owned(s) \/ ~Leased(r.job, r.token) \/ jobs[r.job].status # "processing"
      PROVE  ClaimIsOver(r)
  BY <1>1, <1>4, HeldIsLeased DEF ClaimIsOver, Owned
<1>5. CASE Authorize(s)
  <2>1. Goto(s, FirstStep(r.op))
    BY <1>1, <1>5 DEF Authorize, AllApproved
  <2>2. FirstStep(r.op) \in {"register", "admit", "load"}
    BY DEF FirstStep
  <2> QED  BY <1>3, <2>1, <2>2
<1>6. CASE LoadOwnedJob(s)
  <2>1. ~Owned(s)
    BY <1>6, LoadContinues
  <2> QED  BY <1>4, <1>6, <2>1 DEF LoadOwnedJob
<1>7. CASE VerifyOutput(s)
  <2>1. PICK pc \in {"settle", "reject"} : Goto(s, pc)
    BY <1>7 DEF VerifyOutput
  <2> QED  BY <1>3, <2>1
<1>8. CASE RejectCompletion(s)
  BY <1>1, <1>2, <1>4, <1>8, FailEnds DEF RejectCompletion, ClaimIsOver
<1>9. CASE SettleComplete(s)
  BY <1>3, <1>9 DEF SettleComplete
<1>10. CASE SettleFail(s)
  BY <1>3, <1>10 DEF SettleFail
<1>11. CASE SettleRelease(s)
  BY <1>1, <1>2, <1>11, FailEnds, ReleaseEnds DEF SettleRelease, ClaimIsOver
<1>12. CASE RefuseStale(s)
  BY <1>4, <1>12 DEF RefuseStale
<1>13. CASE RecordSettlement(s)
  BY <1>1, <1>4, <1>13 DEF RecordSettlement, ReadingsLast
<1>14. ~SettleHeartbeat(s)
  BY DEF SettleHeartbeat
<1>15. r.pc \notin {"register", "admit", "expire", "claim", "mint"}
  BY <1>1 DEF HandlerKnowsItsClaim
<1>16. Authorize(s) \/ JobStep(s)
  BY <1>15 DEF HandlerStep, RegisterHeartbeat, RefuseHeartbeat, LeaseStep, AdmitLease, DenyLease,
     ExpireBeforeLease, ClaimJob, ClaimNothing, MintGrants
<1> QED  BY <1>5, <1>6, <1>7, <1>8, <1>9, <1>10, <1>11, <1>12, <1>13, <1>14, <1>16 DEF JobStep

\* A claimed job is answered with its lease.
LEMMA GrantIsAnswered ==
  ASSUME IInv, NEW s \in Slots, HandlerStep(s), requests[s].pc = "mint"
  PROVE  Answers(s, 200)
<1>1. MintGrants(s)
  BY DEF At, HandlerStep, Authorize, RegisterHeartbeat, RefuseHeartbeat, LeaseStep, AdmitLease,
     DenyLease, ExpireBeforeLease, ClaimJob, ClaimNothing, JobStep, LoadOwnedJob, VerifyOutput,
     RejectCompletion, SettleHeartbeat, SettleComplete, SettleFail, SettleRelease, RefuseStale,
     RecordSettlement
<1> QED  BY <1>1, ReplyAnswers DEF MintGrants, Codes

-----------------------------------------------------------------------------
(* A claim stays the same until the job is claimed again or given up.      *)

LEMMA AttemptsGrow ==
  ASSUME IInv, [Next]_vars, NEW j \in Jobs
  PROVE  jobs[j].attempts <= jobs'[j].attempts
<1> DEFINE x == Seen(jobs[j])
           y == Seen(jobs'[j])
<1>1. x \in View /\ x.attempts = jobs[j].attempts /\ y.attempts = jobs'[j].attempts
  BY RowFacts, SeenIsView DEF Seen
<1>2. x = y \/ Lifecycle!Moves(j, x, y)
  BY RowsRemain DEF Goes
<1>3. x.attempts \in Nat
  BY <1>1 DEF View
<1> HIDE DEF x, y
<1>4. y.attempts \in {x.attempts, x.attempts + 1}
  BY <1>1, <1>2 DEF View, Lifecycle!Moves, Lifecycle!Submitted, Lifecycle!Claims, Lifecycle!Renewed,
     Lifecycle!Completed, Lifecycle!Failed, Lifecycle!Returned, Lifecycle!Cancelled
<1> QED  BY <1>1, <1>3, <1>4

LEMMA ClaimKept ==
  ASSUME IInv, [Next]_vars, NEW w \in Workers, NEW j \in Jobs, jobs'[j].leased_by = w,
         \A s \in Slots : \A k \in Jobs : ~ClaimJob(s, k)
  PROVE  jobs[j].leased_by = w /\ jobs'[j].claim_token = jobs[j].claim_token
<1>1. IInv' /\ grantee' = grantee /\ NoNewHolder(j) /\ w # Nobody
  BY NextIInv, OnlyClaimsMint, HoldersMove, NobodyAssumption
<1>2. jobs[j].leased_by = w
  BY <1>1 DEF NoNewHolder
<1>3. /\ jobs[j].attempts \in 0..20 /\ jobs[j].claim_token = jobs[j].attempts
  BY <1>1, <1>2, RowFacts DEF RowCoherent
<1>4. /\ RowCoherent(j)' /\ TypeOK'
  BY <1>1 DEF IInv
<1>5. /\ jobs'[j].claim_token = jobs'[j].attempts /\ jobs'[j].attempts >= 1
      /\ jobs'[j].attempts \in 0..Budget(j) /\ w = grantee[j][jobs'[j].attempts]
  BY <1>1, <1>4 DEF RowCoherent, Budget
<1>6. jobs'[j].attempts \in 1..20
  BY <1>5, BudgetBound
<1>7. jobs'[j].attempts <= jobs[j].attempts
  BY <1>1, <1>5, <1>6 DEF IInv, TokensAreMinted
<1> QED  BY <1>2, <1>3, <1>5, <1>6, <1>7, AttemptsGrow

LEMMA ClaimRow ==
  ASSUME IInv, NEW s \in Slots, NEW j \in Jobs, ClaimJob(s, j)
  PROVE  /\ jobs'[j].leased_by = requests[s].worker
         /\ jobs'[j].claim_token = jobs[j].attempts + 1
         /\ \A k \in Jobs \ {j} : jobs'[k] = jobs[k]
<1> DEFINE r == requests[s]
           n == jobs[j].attempts + 1
           a == [jobs[j] EXCEPT !.status = "processing"]
           b == [a EXCEPT !.attempts = n]
           c == [b EXCEPT !.claim_token = n]
           d == [c EXCEPT !.leased_by = r.worker]
           row == [d EXCEPT !.lease_left = r.span]
<1>1. jobs[j] \in Row
  BY RowFacts
<1>2. jobs' = [jobs EXCEPT ![j] = row]
  BY <1>1 DEF ClaimJob, Lease, IInv, TypeOK, Row
<1>3. row.leased_by = r.worker /\ row.claim_token = n
  BY <1>1 DEF Row
<1> HIDE DEF row
<1> QED  BY <1>2, <1>3 DEF IInv, TypeOK

LEMMA HeldBefore ==
  ASSUME IInv, [Next]_vars, NEW w \in Workers, NEW j \in Jobs, jobs'[j].leased_by = w,
         \A s \in Slots : \A k \in Jobs : ClaimJob(s, k) => k # j \/ requests[s].worker # w
  PROVE  jobs[j].leased_by = w /\ jobs'[j].claim_token = jobs[j].claim_token
<1>1. ASSUME NEW s \in Slots, NEW k \in Jobs, ClaimJob(s, k)
      PROVE  jobs'[j] = jobs[j]
  BY <1>1, ClaimRow
<1> QED  BY <1>1, ClaimKept

-----------------------------------------------------------------------------
(* Until a fault, the holder of a claim knows it.                          *)

FaultlessOK ==
  /\ \A s \in Slots : LeaseAwaited(s)
  /\ \A w \in Workers, j \in Jobs : HolderKnows(w, j)

\* An agent that could not know of a claim has none.
HoldsNothing(w) == \A j \in Jobs : jobs[j].leased_by # w

LEMMA KnowsOfNone ==
  ASSUME FaultlessOK, NEW w \in Workers,
         LET a == agents[w]  r == requests[a.call] IN
         \/ a.pc \notin ServePoints \cup {"leasing"}
         \/ a.pc = "leasing" /\ ~Grants(r)
         \/ a.pc \in ServePoints /\ a.call # NoSlot /\ r.pc = "reply"
  PROVE  HoldsNothing(w)
BY DEF FaultlessOK, HolderKnows, HoldsNothing, ServePoints

\* A lease request is of an agent that holds nothing.
LEMMA ClaimantIsLeasing ==
  ASSUME IInv, PoolInv, FaultlessOK, NEW s \in Slots, requests[s].op = "lease", requests[s].pc # "idle"
  PROVE  LET w == requests[s].worker IN
         /\ w \in Workers /\ agents[w].call = s /\ agents[w].pc = "leasing"
         /\ requests[s].pc = "claim" => HoldsNothing(w)
<1> DEFINE w == requests[s].worker
<1>1. w \in Workers /\ agents[w].call = s
  BY SlotFacts DEF HandlerKnowsItsClaim, FaultlessOK, LeaseAwaited
<1>2. agents[w].pc = "leasing"
  BY <1>1, AgentFacts, NoSlotAssumption DEF AgentOK, CallIsOwn, AskedAt
<1>3. requests[s].pc = "claim" => HoldsNothing(w)
  BY <1>1, <1>2, KnowsOfNone DEF Grants, Succeeded
<1> QED  BY <1>1, <1>2, <1>3

LEMMA HolderUntouched ==
  ASSUME IInv, PoolInv, FaultlessOK, [Next]_vars, NEW w \in Workers, agents'[w] = agents[w],
         agents[w].call = NoSlot \/ requests'[agents[w].call] = requests[agents[w].call]
  PROVE  \A j \in Jobs : HolderKnows(w, j)'
<1> DEFINE a == agents[w]
<1> SUFFICES ASSUME NEW j \in Jobs, jobs'[j].leased_by = w PROVE HolderKnows(w, j)'
  BY DEF HolderKnows
<1>1. ASSUME NEW s \in Slots, NEW k \in Jobs, ClaimJob(s, k) PROVE requests[s].worker # w
  <2>1. requests'[s].pc = "mint" /\ requests[s].pc = "claim" /\ requests[s].op = "lease"
    BY <1>1, ClaimTakes DEF Takes, ClaimJob, At
  <2>2. agents[requests[s].worker].call = s
    BY <2>1, ClaimantIsLeasing
  <2> QED  BY <2>1, <2>2, NoSlotAssumption
<1>2. jobs[j].leased_by = w /\ jobs'[j].claim_token = jobs[j].claim_token
  BY <1>1, HeldBefore
<1>3. HolderKnows(w, j) /\ CallIsOwn(w)
  BY AgentFacts DEF FaultlessOK, AgentOK
<1> QED  BY <1>2, <1>3 DEF HolderKnows, CallIsOwn, WaitPoints

LEMMA HolderServed ==
  ASSUME IInv, PoolInv, FaultlessOK, AllApproved, [Next]_vars, NEW w \in Workers,
         agents'[w] = agents[w], agents[w].call \in Slots, HandlerStep(agents[w].call)
  PROVE  \A j \in Jobs : HolderKnows(w, j)'
<1> DEFINE a == agents[w]
           s == a.call
           r == requests[s]
           q == requests'[s]
<1> SUFFICES ASSUME NEW j \in Jobs, jobs'[j].leased_by = w PROVE HolderKnows(w, j)'
  BY DEF HolderKnows
<1>1. /\ HandlerMoves(s) /\ CallIsOwn(w) /\ s # NoSlot /\ r.worker = w
      /\ r.pc \notin {"idle", "reply"}
  BY HandlerFrame, AgentFacts, NoSlotAssumption DEF AgentOK, CallIsOwn, HandlerMoves
<1>2. ASSUME NEW t \in Slots, NEW k \in Jobs, ClaimJob(t, k) PROVE t = s /\ q.pc = "mint"
  <2>1. requests'[t].pc = "mint" /\ requests[t].pc = "claim"
    BY <1>2, ClaimTakes DEF Takes, ClaimJob, At
  <2>2. requests'[t] # requests[t]
    BY <2>1
  <2>3. OthersRest(s)
    BY <1>1 DEF HandlerMoves
  <2> QED  BY <2>1, <2>2, <2>3 DEF OthersRest
<1>3. ASSUME NEW k \in Jobs, ClaimJob(s, k) PROVE HolderKnows(w, j)'
  <2>1. /\ r.pc = "claim" /\ r.op = "lease" /\ q.pc = "mint" /\ SameCaller(s)
        /\ q.job = k /\ q.token = jobs[k].attempts + 1
    BY <1>3, ClaimTakes DEF Takes, ClaimJob, At
  <2>2. HoldsNothing(w) /\ a.pc = "leasing"
    BY <1>1, <2>1, ClaimantIsLeasing
  <2>3. j = k
    BY <1>3, <2>2, ClaimRow DEF HoldsNothing
  <2> QED  BY <1>3, <2>1, <2>2, <2>3, ClaimRow DEF HolderKnows, Grants, SameCaller
<1>4. ASSUME \A k \in Jobs : ~ClaimJob(s, k) PROVE HolderKnows(w, j)'
  <2>1. jobs[j].leased_by = w /\ jobs'[j].claim_token = jobs[j].claim_token
    BY <1>2, <1>4, HeldBefore
  <2>2. HolderKnows(w, j)
    BY DEF FaultlessOK
  <2>3. CASE a.pc = "leasing" /\ Grants(r) /\ r.job = j /\ r.token = jobs[j].claim_token
    <3>1. r.pc = "mint" /\ r.op = "lease"
      BY <1>1, <2>3 DEF Grants, Succeeded
    <3>2. Answers(s, 200)
      BY <3>1, GrantIsAnswered
    <3> QED  BY <2>1, <2>3, <3>1, <3>2 DEF HolderKnows, Answers, SameCaller, Grants, Succeeded
  <2>4. CASE a.pc \in ServePoints /\ a.job = j /\ a.token = jobs[j].claim_token
    <3>1. r.op \in {"complete", "fail", "release"} /\ r.job = a.job /\ r.token = a.token
      BY <1>1, <2>4 DEF CallIsOwn, AskedAt, ServePoints, WaitPoints, JobOps
    <3>2. q.pc # "reply"
      BY <1>1, <2>1, <2>4, <3>1, AnswerEnds DEF ClaimIsOver
    <3> QED  BY <2>1, <2>4, <3>2 DEF HolderKnows
  <2> QED  BY <2>1, <2>2, <2>3, <2>4 DEF HolderKnows
<1> QED  BY <1>3, <1>4

LEMMA SlotsAfter ==
  ASSUME IInv, PoolInv, FaultlessOK, NEW w \in Workers, NEW a, NEW s,
         agents' = [agents EXCEPT ![w] = a],
         \A t \in Slots \ {s} : requests'[t] = requests[t],
         agents[w].call \in {a.call, s, NoSlot},
         \/ s \notin Slots
         \/ requests'[s].pc = "idle"
         \/ requests'[s].op = "lease" => requests'[s].worker = w /\ a.call = s
  PROVE  \A t \in Slots : LeaseAwaited(t)'
<1>1. agents'[w] = a /\ \A v \in Workers \ {w} : agents'[v] = agents[v]
  BY DEF PoolInv, AgentsTypeOK
<1>2. ASSUME NEW t \in Slots, t # s, requests[t].pc # "idle", requests[t].op = "lease"
      PROVE  agents'[requests[t].worker].call = t
  <2>1. requests[t].worker \in Workers /\ agents[requests[t].worker].call = t
    BY <1>2, ClaimantIsLeasing
  <2> QED  BY <1>1, <1>2, <2>1, NoSlotAssumption
<1>3. ASSUME NEW t \in Slots, t # s PROVE LeaseAwaited(t)'
  BY <1>2, <1>3 DEF LeaseAwaited
<1>4. s \in Slots => LeaseAwaited(s)'
  BY <1>1 DEF LeaseAwaited
<1> QED  BY <1>3, <1>4

LEMMA FaultlessAfter ==
  ASSUME IInv, PoolInv, FaultlessOK, [Next]_vars, NEW w \in Workers, NEW a, NEW s,
         agents' = [agents EXCEPT ![w] = a],
         \A t \in Slots \ {s} : requests'[t] = requests[t],
         s \in Slots => At(s, "idle") \/ agents[w].call = s,
         agents[w].call \in {a.call, s, NoSlot},
         \/ s \notin Slots
         \/ requests'[s].pc = "idle"
         \/ requests'[s].op = "lease" => requests'[s].worker = w /\ a.call = s,
         \A j \in Jobs : HolderKnows(w, j)'
  PROVE  FaultlessOK'
<1>1. ASSUME NEW v \in Workers \ {w} PROVE \A j \in Jobs : HolderKnows(v, j)'
  <2>1. agents'[v] = agents[v]
    BY DEF PoolInv, AgentsTypeOK
  <2>2. agents[v].call = NoSlot \/ requests'[agents[v].call] = requests[agents[v].call]
    BY AgentFacts, SlotIsOwn DEF Agent
  <2> QED  BY <2>1, <2>2, HolderUntouched
<1>2. \A t \in Slots : LeaseAwaited(t)'
  BY SlotsAfter
<1> QED  BY <1>1, <1>2 DEF FaultlessOK

\* What becomes of an agent that held nothing, or of one that goes on serving.
GoesOn(w, a) ==
  \/ HoldsNothing(w)
  \/ /\ agents[w].pc \in ServePoints /\ a.pc \in ServePoints
     /\ a.job = agents[w].job /\ a.token = agents[w].token
     /\ a.call # NoSlot => requests'[a.call].pc # "reply"

LEMMA GoingOnKnows ==
  ASSUME FaultlessOK, NEW w \in Workers, NEW a, agents'[w] = a, jobs' = jobs, GoesOn(w, a)
  PROVE  \A j \in Jobs : HolderKnows(w, j)'
BY DEF FaultlessOK, GoesOn, HoldsNothing, HolderKnows, ServePoints

LEMMA FaultlessGoesOn ==
  ASSUME IInv, PoolInv, FaultlessOK, [Next]_vars, NEW w \in Workers, NEW a, Become(w, a),
         UNCHANGED requests, jobs' = jobs, agents[w].call \in {a.call, NoSlot}, GoesOn(w, a)
  PROVE  FaultlessOK'
<1>1. agents' = [agents EXCEPT ![w] = a] /\ agents'[w] = a
  BY DEF Become, PoolInv, AgentsTypeOK
<1>2. \A j \in Jobs : HolderKnows(w, j)'
  BY <1>1, GoingOnKnows
<1> QED  BY <1>1, <1>2, FaultlessAfter, NoSlotAssumption

LEMMA FaultlessAnswered ==
  ASSUME IInv, PoolInv, FaultlessOK, [Next]_vars, NEW w \in Workers, NEW a,
         agents' = [agents EXCEPT ![w] = a],
         agents[w].pc \in WaitPoints, Respond(agents[w].call),
         \A j \in Jobs : HolderKnows(w, j)'
  PROVE  FaultlessOK'
<1> DEFINE s == agents[w].call
<1>1. s \in Slots
  BY AgentFacts
<1>2. requests' = [requests EXCEPT ![s] = Idle] /\ Idle.pc = "idle"
  BY DEF Respond, Idle
<1>3. requests'[s] = Idle /\ \A t \in Slots \ {s} : requests'[t] = requests[t]
  BY <1>1, <1>2 DEF IInv, TypeOK
<1> HIDE DEF s
<1>4. s = agents[w].call
  BY DEF s
<1> QED  BY <1>1, <1>2, <1>3, <1>4, FaultlessAfter

LEMMA FaultlessAsked ==
  ASSUME IInv, PoolInv, FaultlessOK, [Next]_vars, NEW w \in Workers, NEW a, NEW body, NEW job, NEW token,
         agents[w].pc \notin WaitPoints, CanConnect, Receive(FreeSlot, Opened(w, body, job, token)),
         Become(w, a), a.call = FreeSlot,
         a.pc \in ServePoints => a.job = agents[w].job /\ a.token = agents[w].token,
         agents[w].pc \in ServePoints => a.pc \in ServePoints
  PROVE  FaultlessOK'
<1> DEFINE s == FreeSlot
           q == Opened(w, body, job, token)
<1>1. s \in Slots /\ At(s, "idle") /\ agents[w].call = NoSlot
  BY FreeSlotIsFree, AgentFacts DEF AgentOK, CallIsOwn
<1>2. q.pc = "authorize" /\ q.worker = w
  BY DEF Opened
<1>3. requests' = [requests EXCEPT ![s] = q] /\ jobs' = jobs
  BY DEF Receive
<1> HIDE DEF q, s
<1>4. requests'[s] = q /\ \A t \in Slots \ {s} : requests'[t] = requests[t]
  BY <1>1, <1>3 DEF IInv, TypeOK
<1>5. agents' = [agents EXCEPT ![w] = a] /\ agents'[w] = a
  BY DEF Become, PoolInv, AgentsTypeOK
<1>6. a.call = s
  BY DEF s
<1>7. agents[w].pc \notin ServePoints => HoldsNothing(w)
  BY KnowsOfNone DEF WaitPoints
<1>8. GoesOn(w, a)
  BY <1>2, <1>4, <1>6, <1>7 DEF GoesOn
<1>9. \A j \in Jobs : HolderKnows(w, j)'
  BY <1>3, <1>5, <1>8, GoingOnKnows
<1> QED  BY <1>1, <1>2, <1>4, <1>5, <1>6, <1>9, FaultlessAfter

\* The fields of a process that a step of its agent leaves alone.
LEMMA KeptFields ==
  ASSUME NEW a \in Agent
  PROVE  /\ \A pc : LET b == [a EXCEPT !.pc = pc] IN
              b.pc = pc /\ b.call = a.call /\ b.job = a.job /\ b.token = a.token
         /\ \A pc, s : LET b == [a EXCEPT !.pc = pc, !.call = s] IN
              b.pc = pc /\ b.call = s /\ b.job = a.job /\ b.token = a.token
         /\ \A pc, d : LET b == [a EXCEPT !.pc = pc, !.digest = d] IN
              b.pc = pc /\ b.call = a.call /\ b.job = a.job /\ b.token = a.token
         /\ \A pc, d : LET b == [a EXCEPT !.pc = pc, !.beating = d] IN
              b.pc = pc /\ b.call = a.call /\ b.job = a.job /\ b.token = a.token
         /\ \A pc, s, j, t : LET b == [a EXCEPT !.pc = pc, !.call = s, !.job = j, !.token = t] IN
              b.pc = pc /\ b.call = s /\ b.job = j /\ b.token = t
         /\ \A d : LET b == [a EXCEPT !.stop = d] IN
              b.pc = a.pc /\ b.call = a.call /\ b.job = a.job /\ b.token = a.token
BY DEF Agent

LEMMA PostFaultless ==
  ASSUME IInv, PoolInv, FaultlessOK, [Next]_vars, NEW w \in Workers,
         Poll(w) \/ Farewell(w) \/ AskForWork(w) \/ Attest(w) \/ GiveBack(w) \/ Reject(w)
  PROVE  FaultlessOK'
<1> DEFINE a == agents[w]
<1>1. a \in Agent
  BY AgentFacts
<1>2. ASSUME NEW body, NEW job, NEW token, NEW pc,
             CanConnect, Receive(FreeSlot, Opened(w, body, job, token)),
             Become(w, [a EXCEPT !.pc = pc, !.call = FreeSlot]), a.pc \notin WaitPoints,
             a.pc \in ServePoints => pc \in ServePoints
      PROVE  FaultlessOK'
  <2> DEFINE b == [a EXCEPT !.pc = pc, !.call = FreeSlot]
  <2>1. b.pc = pc /\ b.call = FreeSlot /\ b.job = a.job /\ b.token = a.token
    BY <1>1, KeptFields
  <2>2. Become(w, b)
    BY <1>2
  <2> HIDE DEF b
  <2> QED  BY <1>2, <2>1, <2>2, FaultlessAsked
<1>3. ASSUME NEW body, NEW pc, Post(w, body, pc), a.pc \in {"poll", "ask"}
      PROVE  FaultlessOK'
  BY <1>2, <1>3 DEF Post, ReceiveCall, WaitPoints, ServePoints
<1>4. ASSUME NEW body, NEW pc \in {"completing", "releasing", "rejecting"}, PostForJob(w, body, pc),
             a.pc \in {"attest", "giveback", "reject"}
      PROVE  FaultlessOK'
  BY <1>2, <1>4 DEF PostForJob, ReceiveJobCall, WaitPoints, ServePoints
<1> QED  BY <1>3, <1>4 DEF Poll, Farewell, AskForWork, Attest, GiveBack, Reject

LEMMA AnswerFaultless ==
  ASSUME IInv, PoolInv, FaultlessOK, [Next]_vars, NEW w \in Workers,
         PresenceAnswered(w) \/ FarewellAnswered(w) \/ LeaseAnswered(w)
           \/ CompletionAnswered(w) \/ SettlementAnswered(w)
  PROVE  FaultlessOK'
<1> DEFINE a == agents[w]
           r == requests[a.call]
<1>1. /\ a \in Agent /\ CallIsOwn(w) /\ a.pc \in WaitPoints /\ a.call \in Slots
      /\ Respond(a.call) /\ r.pc = "reply" /\ jobs' = jobs
  BY AgentFacts DEF PresenceAnswered, FarewellAnswered, LeaseAnswered, CompletionAnswered,
     SettlementAnswered, Answered, WaitPoints, AgentOK, At, Respond
<1>2. PICK b : agents' = [agents EXCEPT ![w] = b]
               /\ (LeaseAnswered(w) /\ Code(w) = 200 =>
                     b = [a EXCEPT !.pc = "serve", !.call = NoSlot, !.job = r.job, !.token = r.token])
  BY DEF PresenceAnswered, FarewellAnswered, LeaseAnswered, CompletionAnswered,
     SettlementAnswered, Raises, Become
<1>3. agents'[w] = b
  BY <1>2 DEF PoolInv, AgentsTypeOK
<1>4. CASE LeaseAnswered(w) /\ Code(w) = 200
  <2>1. b.pc = "serve" /\ b.call = NoSlot /\ b.job = r.job /\ b.token = r.token
    <3>1. b = [a EXCEPT !.pc = "serve", !.call = NoSlot, !.job = r.job, !.token = r.token]
      BY <1>2, <1>4
    <3> QED  BY <1>1, <3>1, KeptFields
  <2>2. a.pc = "leasing"
    BY <1>4 DEF LeaseAnswered, Answered
  <2>3. ASSUME NEW j \in Jobs, jobs[j].leased_by = w
        PROVE  r.job = j /\ r.token = jobs[j].claim_token
    BY <2>2, <2>3 DEF FaultlessOK, HolderKnows, ServePoints
  <2>4. \A j \in Jobs : HolderKnows(w, j)'
    BY <1>1, <1>3, <2>1, <2>3 DEF HolderKnows, ServePoints
  <2> QED  BY <1>1, <1>2, <2>4, FaultlessAnswered
<1>5. CASE ~(LeaseAnswered(w) /\ Code(w) = 200)
  <2>1. a.pc \in ServePoints \/ a.pc \notin ServePoints \cup {"leasing"} \/ (a.pc = "leasing" /\ ~Grants(r))
    BY <1>1, <1>5 DEF PresenceAnswered, FarewellAnswered, LeaseAnswered, CompletionAnswered,
       SettlementAnswered, Answered, Grants, Succeeded, Code
  <2>2. HoldsNothing(w)
    BY <1>1, <2>1, KnowsOfNone, NoSlotAssumption
  <2>3. \A j \in Jobs : HolderKnows(w, j)'
    BY <1>1, <1>3, <2>2, GoingOnKnows DEF GoesOn
  <2> QED  BY <1>1, <1>2, <2>3, FaultlessAnswered
<1> QED  BY <1>4, <1>5

LEMMA WorkFaultless ==
  ASSUME IInv, PoolInv, FaultlessOK, [Next]_vars, NEW w \in Workers,
         RejectLease(w) \/ ReleaseWhenStopping(w) \/ StartDownload(w) \/ Downloaded(w)
           \/ Executed(w) \/ ExecutionRejected(w) \/ UploadOutput(w) \/ Start(w) \/ Stop(w)
  PROVE  FaultlessOK'
<1> DEFINE a == agents[w]
<1>1. /\ UNCHANGED <<requests, jobs>> /\ a \in Agent /\ CallIsOwn(w)
  BY AgentFacts DEF RejectLease, ReleaseWhenStopping, StartDownload, Downloaded, Executed,
     ExecutionRejected, UploadOutput, Upload, vars, Start, Stop, AgentOK
<1>2. ASSUME NEW b, Become(w, b), b.call = a.call, b.job = a.job, b.token = a.token,
             a.pc \in ServePoints \ WaitPoints, b.pc \in ServePoints
      PROVE  FaultlessOK'
  <2>1. a.call = NoSlot
    BY <1>1, <1>2 DEF CallIsOwn
  <2> QED  BY <1>1, <1>2, <2>1, FaultlessGoesOn DEF GoesOn
<1>3. ASSUME NEW pc \in ServePoints, Proceed(w, pc), a.pc \in ServePoints \ WaitPoints
      PROVE  FaultlessOK'
  <2> DEFINE b == [a EXCEPT !.pc = pc]
  <2>1. b.pc = pc /\ b.call = a.call /\ b.job = a.job /\ b.token = a.token
    BY <1>1, KeptFields
  <2>2. Become(w, b)
    BY <1>3 DEF Proceed
  <2> HIDE DEF b
  <2> QED  BY <1>2, <1>3, <2>1, <2>2
<1>4. CASE RejectLease(w) \/ ReleaseWhenStopping(w) \/ StartDownload(w) \/ ExecutionRejected(w)
           \/ UploadOutput(w)
  BY <1>3, <1>4 DEF RejectLease, ReleaseWhenStopping, StartDownload, ExecutionRejected,
     UploadOutput, ServePoints, WaitPoints
<1>5. CASE Downloaded(w)
  <2> DEFINE b == [a EXCEPT !.pc = "execute", !.beating = TRUE]
  <2>1. b.pc = "execute" /\ b.call = a.call /\ b.job = a.job /\ b.token = a.token
    BY <1>1, KeptFields
  <2>2. Become(w, b) /\ a.pc = "download"
    BY <1>5 DEF Downloaded
  <2> HIDE DEF b
  <2> QED  BY <1>2, <2>1, <2>2 DEF ServePoints, WaitPoints
<1>6. CASE Executed(w)
  <2>1. PICK d \in Digests : Become(w, [a EXCEPT !.pc = "upload", !.digest = d])
    BY <1>6 DEF Executed
  <2> DEFINE b == [a EXCEPT !.pc = "upload", !.digest = d]
  <2>2. b.pc = "upload" /\ b.call = a.call /\ b.job = a.job /\ b.token = a.token
    BY <1>1, KeptFields
  <2>3. Become(w, b) /\ a.pc = "execute"
    BY <1>6, <2>1 DEF Executed
  <2> HIDE DEF b
  <2> QED  BY <1>2, <2>2, <2>3 DEF ServePoints, WaitPoints
<1>7. CASE Start(w)
  <2>1. Become(w, [Off EXCEPT !.pc = "poll"]) /\ a.pc = "off"
    BY <1>7 DEF Start
  <2>2. a.call = NoSlot /\ HoldsNothing(w)
    BY <1>1, <2>1, KnowsOfNone DEF CallIsOwn, WaitPoints, ServePoints
  <2>3. [Off EXCEPT !.pc = "poll"].call = NoSlot
    BY DEF Off
  <2> QED  BY <1>1, <2>1, <2>2, <2>3, FaultlessGoesOn DEF GoesOn
<1>8. CASE Stop(w)
  <2> DEFINE b == [a EXCEPT !.stop = TRUE]
  <2>1. b.pc = a.pc /\ b.call = a.call /\ b.job = a.job /\ b.token = a.token
    BY <1>1, KeptFields
  <2>2. Become(w, b) /\ agents' = [agents EXCEPT ![w] = b]
    BY <1>8 DEF Stop, Become
  <2> HIDE DEF b
  <2>3. agents'[w] = b
    BY <2>2 DEF PoolInv, AgentsTypeOK
  <2>4. \A j \in Jobs : HolderKnows(w, j)'
    BY <1>1, <2>1, <2>3 DEF FaultlessOK, HolderKnows
  <2> QED  BY <1>1, <2>1, <2>2, <2>4, FaultlessAfter, NoSlotAssumption
<1> QED  BY <1>4, <1>5, <1>6, <1>7, <1>8

\* A step of a handler is the business of the agent that awaits it alone.
LEMMA ServedFaultless ==
  ASSUME IInv, PoolInv, FaultlessOK, AllApproved, [Next]_vars, NEW s \in Slots, Served(s)
  PROVE  FaultlessOK'
<1>1. HandlerMoves(s) /\ agents' = agents
  BY HandlerFrame DEF Served, agentVars
<1>2. OthersRest(s) /\ SameCaller(s) /\ requests[s].pc # "idle"
  BY <1>1 DEF HandlerMoves, Continues, Answers, Takes
<1>3. ASSUME NEW w \in Workers PROVE \A j \in Jobs : HolderKnows(w, j)'
  <2>1. agents'[w] = agents[w]
    BY <1>1
  <2>2. CASE agents[w].call = s
    BY <2>1, <2>2, HolderServed DEF Served
  <2>3. CASE agents[w].call # s
    <3>1. agents[w].call = NoSlot \/ requests'[agents[w].call] = requests[agents[w].call]
      BY <1>2, <2>3, AgentFacts DEF OthersRest, Agent
    <3> QED  BY <2>1, <3>1, HolderUntouched
  <2> QED  BY <2>2, <2>3
<1>4. ASSUME NEW t \in Slots PROVE LeaseAwaited(t)'
  BY <1>1, <1>2 DEF FaultlessOK, LeaseAwaited, SameCaller, OthersRest
<1> QED  BY <1>3, <1>4 DEF FaultlessOK

\* A request that arrives in a free slot, or leaves one, and is nobody's claim.
LEMMA SlotFaultless ==
  ASSUME IInv, PoolInv, FaultlessOK, [Next]_vars, NEW s \in Slots, agents' = agents,
         \A t \in Slots \ {s} : requests'[t] = requests[t],
         \A w \in Workers : agents[w].call # s,
         requests'[s].pc = "idle" \/ requests'[s].op # "lease"
  PROVE  FaultlessOK'
<1>1. ASSUME NEW w \in Workers PROVE \A j \in Jobs : HolderKnows(w, j)'
  <2>1. agents[w].call = NoSlot \/ requests'[agents[w].call] = requests[agents[w].call]
    BY AgentFacts DEF Agent
  <2> QED  BY <2>1, HolderUntouched
<1>2. ASSUME NEW t \in Slots PROVE LeaseAwaited(t)'
  BY DEF FaultlessOK, LeaseAwaited
<1> QED  BY <1>1, <1>2 DEF FaultlessOK

LEMMA BeatFaultless ==
  ASSUME IInv, PoolInv, FaultlessOK, [Next]_vars, NEW w \in Workers, BeatStep(w)
  PROVE  FaultlessOK'
<1>1. ASSUME NEW body, NEW job, NEW token, CanConnect, UNCHANGED agentVars, body.op # "lease",
             Receive(FreeSlot, Opened(w, body, job, token))
      PROVE  FaultlessOK'
  <2> DEFINE s == FreeSlot
             q == Opened(w, body, job, token)
  <2>1. s \in Slots /\ At(s, "idle")
    BY <1>1, FreeSlotIsFree
  <2>2. q.op # "lease"
    BY <1>1 DEF Opened
  <2>3. requests' = [requests EXCEPT ![s] = q] /\ agents' = agents
    BY <1>1 DEF Receive, agentVars
  <2>4. requests \in [Slots -> Request]
    BY DEF IInv, TypeOK
  <2> HIDE DEF s, q
  <2>5. requests'[s] = q /\ \A t \in Slots \ {s} : requests'[t] = requests[t]
    BY <2>1, <2>3, <2>4
  <2>6. ASSUME NEW v \in Workers, agents[v].call = s PROVE FALSE
    <3>1. CallIsOwn(v) /\ s # NoSlot
      BY <2>1, AgentFacts, NoSlotAssumption DEF AgentOK
    <3> QED
      BY <2>1, <2>6, <3>1 DEF CallIsOwn, At
  <2> QED  BY <2>1, <2>2, <2>3, <2>5, <2>6, SlotFaultless
<1>2. Body("heartbeat").op # "lease" /\ Presence(w, FALSE).op # "lease"
  BY DEF Presence, Body
<1> QED  BY <1>1, <1>2 DEF BeatStep, BeatJob, BeatPresence, ReceiveCall, ReceiveJobCall

LEMMA DropAnswerFaultless ==
  ASSUME IInv, PoolInv, FaultlessOK, [Next]_vars, NEW s \in Slots, DropAnswer(s)
  PROVE  FaultlessOK'
<1>1. requests' = [requests EXCEPT ![s] = Idle] /\ Idle.pc = "idle" /\ agents' = agents
      /\ \A w \in Workers : agents[w].call # s
  BY DEF DropAnswer, Respond, Idle, agentVars
<1>2. requests'[s].pc = "idle" /\ \A t \in Slots \ {s} : requests'[t] = requests[t]
  BY <1>1 DEF IInv, TypeOK
<1> QED  BY <1>1, <1>2, SlotFaultless

LEMMA RestFaultless ==
  ASSUME IInv, PoolInv, FaultlessOK, [Next]_vars, UNCHANGED <<agents, requests>>
  PROVE  FaultlessOK'
<1>1. ASSUME NEW w \in Workers PROVE \A j \in Jobs : HolderKnows(w, j)'
  BY HolderUntouched
<1> QED  BY <1>1 DEF FaultlessOK, LeaseAwaited

LEMMA FaultlessNext ==
  IInv /\ PoolInv /\ AllApproved /\ FaultlessInv /\ [PoolNext]_poolVars => FaultlessInv'
<1> SUFFICES ASSUME IInv, PoolInv, AllApproved, FaultlessInv, [PoolNext]_poolVars, faults' = 0
             PROVE  FaultlessOK'
  BY DEF FaultlessInv, FaultlessOK
<1>1. [Next]_vars
  BY PoolStepIsServed
<1>2. faults \in Nat
  BY BoundsAssumption DEF PoolInv, AgentsTypeOK
<1>3. \/ Healthy /\ faults = 0
      \/ (\E w \in Workers : Stop(w)) /\ faults = 0
      \/ UNCHANGED poolVars
  BY <1>2 DEF PoolNext, counters, poolVars
<1>4. FaultlessOK
  BY <1>3 DEF FaultlessInv, FaultlessOK, poolVars, counters
<1>5. ASSUME NEW w \in Workers, Start(w) \/ LoopStep(w) \/ ServeStep(w) \/ BeatStep(w) \/ Stop(w)
      PROVE  FaultlessOK'
  BY <1>1, <1>4, <1>5, PostFaultless, AnswerFaultless, WorkFaultless, BeatFaultless
     DEF LoopStep, ServeStep
<1>6. ASSUME NEW s \in Slots, Served(s) \/ DropAnswer(s) PROVE FaultlessOK'
  BY <1>1, <1>4, <1>6, ServedFaultless, DropAnswerFaultless
<1>7. CASE HostActs \/ TimePasses
  <2>1. UNCHANGED <<agents, requests>>
    BY <1>7 DEF HostActs, HostStep, HostSubmit, HostCancel, HostSetStatus, TimePasses, Tick, agentVars
  <2> QED  BY <1>1, <1>4, <2>1, RestFaultless
<1>8. CASE UNCHANGED poolVars
  BY <1>1, <1>4, <1>8, RestFaultless DEF poolVars, vars, agentVars
<1> QED  BY <1>3, <1>5, <1>6, <1>7, <1>8 DEF Healthy

LEMMA FaultlessInit == PoolInit => FaultlessInv
<1> SUFFICES ASSUME PoolInit PROVE FaultlessOK
  BY DEF FaultlessInv, FaultlessOK
<1>1. requests = [s \in Slots |-> Idle] /\ \A j \in Jobs : jobs[j].leased_by = Nobody
  BY DEF PoolInit, Init, JobsInit, NoRow
<1> QED  BY <1>1, NobodyAssumption DEF FaultlessOK, LeaseAwaited, HolderKnows, Idle

\* Until the first fault, an agent between two jobs or drained holds no job: every way out
\* of _serve settles the lease before the loop goes on.  The allowlist must let the release
\* through; a worker it turns away keeps its lease until it lapses.
THEOREM IdleAgentsHoldNothing ==
  ASSUME NobodyIsTurnedAway PROVE PoolSpec => []IdleHoldsNothing
<1>1. PoolInit => AllApproved
  BY DEF PoolInit, Init, WorkersInit, NoWorkerRow, AllApproved, Approved, Registered, NobodyIsTurnedAway
<1>2. IInv /\ PoolInv /\ AllApproved /\ [PoolNext]_poolVars => AllApproved'
  BY PoolStepIsServed, ApprovedStay
<1>3. FaultlessInv => IdleHoldsNothing
  BY DEF FaultlessInv, IdleHoldsNothing, HolderKnows, LoopPoints, ServePoints
<1> QED  BY <1>1, <1>2, <1>3, PoolInvariants, FaultlessInit, FaultlessNext, PTL DEF PoolSpec

-----------------------------------------------------------------------------
(* Only a plugin's rejection is terminal, where every run of a job makes   *)
(* the same artifact.                                                      *)

\* The plugins are deterministic: there is one content an output can have.
OneContent == \E d : Digests = {d}

\* What is in the bucket stays there.
LEMMA StoredStays ==
  ASSUME IInv, [Next]_vars, NEW k \in OutputKeys, Stored(k) # NoDigest
  PROVE  objects'[k] # NoDigest
<1>1. CASE UNCHANGED objects
  BY <1>1 DEF Stored
<1>2. ASSUME NEW w \in Workers, NEW j \in Jobs, NEW digest \in Digests, Upload(w, j, digest)
      PROVE  objects'[k] # NoDigest
  BY <1>2, BudgetBound, NoDigestAssumption DEF Upload, WriteOnce, Stored, IInv, TypeOK
<1>3. CASE HostStep \/ Arrival \/ Crash \/ Tick \/ UNCHANGED vars
  BY <1>1, <1>3 DEF HostStep, HostSubmit, HostCancel, HostSetStatus, Arrival, ReceiveCall,
     ReceiveJobCall, Receive, Crash, Tick, vars
<1>4. ASSUME NEW s \in Slots, HandlerStep(s) \/ Respond(s) \/ Outage(s) PROVE UNCHANGED objects
  BY <1>4 DEF HandlerStep, Authorize, RegisterHeartbeat, RefuseHeartbeat, LeaseStep, AdmitLease,
     DenyLease, ExpireBeforeLease, ClaimJob, ClaimNothing, MintGrants, JobStep, LoadOwnedJob,
     VerifyOutput, RejectCompletion, SettleHeartbeat, SettleComplete, SettleFail,
     SettleRelease, RefuseStale, RecordSettlement, Respond, Outage
<1> QED  BY <1>1, <1>2, <1>3, <1>4 DEF Next

\* A job that the profiles refuse is not let in.
LEMMA NoneIsRefused ==
  ASSUME IInv, [Next]_vars, \A j \in Present : ~RefusesJob(j)
  PROVE  \A j \in Present' : ~RefusesJob(j)
<1>1. CASE NoneAppears
  BY <1>1 DEF NoneAppears, Present
<1>2. ASSUME NEW j \in Jobs, HostSubmit(j)
      PROVE  \A k \in Present' : ~RefusesJob(k)
  <2>1. ~RefusesJob(j) /\ \A k \in Jobs \ {j} : jobs'[k] = jobs[k]
    BY <1>2 DEF HostSubmit, Submit, IInv, TypeOK
  <2> QED  BY <2>1 DEF Present
<1> QED  BY <1>1, <1>2, OnlySubmitSubmits

FailuresAreMendable == \A j \in Jobs \ Refused : jobs'[j].status = "failed" => jobs'[j].retryable

LEMMA RowIsMendable ==
  ASSUME IInv, OnlyRejectionsAreTerminal, NEW j \in Jobs, NEW row,
         jobs' = [jobs EXCEPT ![j] = row],
         j \in Refused \/ (row.status = "failed" => row.retryable)
  PROVE  FailuresAreMendable
BY DEF OnlyRejectionsAreTerminal, FailuresAreMendable, IInv, TypeOK

LEMMA FailIsMendable ==
  ASSUME IInv, OnlyRejectionsAreTerminal, NEW j \in Jobs, NEW token, NEW retryable \in BOOLEAN,
         Fail(j, token, retryable), j \in Refused \/ retryable
  PROVE  FailuresAreMendable
<1> DEFINE bare == Settled(jobs[j], "failed")
           row  == [bare EXCEPT !.retryable = retryable]
<1>1. bare \in Row
  BY RowFacts, SettledRow DEF JobStatus
<1>2. jobs' = [jobs EXCEPT ![j] = row]
  BY DEF Fail
<1> HIDE DEF bare
<1>3. row.retryable = retryable
  BY <1>1 DEF Row
<1> HIDE DEF row
<1> QED  BY <1>2, <1>3, RowIsMendable

LEMMA SettledIsMendable ==
  ASSUME IInv, OnlyRejectionsAreTerminal, NEW j \in Jobs, NEW status \in JobStatus \ {"failed"},
         jobs' = [jobs EXCEPT ![j] = Settled(@, status)]
  PROVE  FailuresAreMendable
<1> DEFINE row == Settled(jobs[j], status)
<1>1. row.status = status
  BY RowFacts, SettledRow
<1>2. jobs' = [jobs EXCEPT ![j] = row]
  OBVIOUS
<1> HIDE DEF row
<1> QED  BY <1>1, <1>2, RowIsMendable

LEMMA CompleteIsMendable ==
  ASSUME IInv, OnlyRejectionsAreTerminal, NEW s \in Slots, SettleComplete(s)
  PROVE  FailuresAreMendable
<1> DEFINE r == requests[s]
           bare == Settled(jobs[r.job], "completed")
           row  == [bare EXCEPT !.executed_by = jobs[r.job].leased_by, !.output = r.digest]
<1>1. r.job \in Jobs
  BY ClaimFacts DEF SettleComplete, At
<1>2. bare \in Row /\ bare.status = "completed"
  BY <1>1, RowFacts, SettledRow DEF JobStatus
<1>3. jobs' = [jobs EXCEPT ![r.job] = row]
  BY DEF SettleComplete, Complete
<1> HIDE DEF bare
<1>4. row.status = "completed"
  BY <1>2 DEF Row
<1> HIDE DEF row
<1> QED  BY <1>1, <1>3, <1>4, RowIsMendable

LEMMA ClaimIsMendable ==
  ASSUME IInv, OnlyRejectionsAreTerminal, NEW s \in Slots, NEW j \in Jobs, ClaimJob(s, j)
  PROVE  FailuresAreMendable
<1>1. jobs'[j].leased_by = requests[s].worker /\ \A k \in Jobs \ {j} : jobs'[k] = jobs[k]
  BY ClaimRow
<1>2. requests[s].worker \in Workers
  BY SlotFacts DEF ClaimJob, At, HandlerKnowsItsClaim
<1>3. RowCoherent(j)'
  <2>1. [Next]_vars
    BY DEF Next, HandlerStep, LeaseStep
  <2> QED  BY <2>1, NextIInv DEF IInv
<1>4. jobs'[j].status # "failed"
  BY <1>1, <1>2, <1>3, NobodyAssumption DEF RowCoherent
<1> QED  BY <1>1, <1>4 DEF OnlyRejectionsAreTerminal, FailuresAreMendable

LEMMA SteadyIsMendable ==
  ASSUME OnlyRejectionsAreTerminal,
         \A j \in Jobs : jobs'[j].status = jobs[j].status /\ jobs'[j].retryable = jobs[j].retryable
  PROVE  FailuresAreMendable
BY DEF OnlyRejectionsAreTerminal, FailuresAreMendable

LEMMA HandlerIsMendable ==
  ASSUME IInv, OnlyRejectionsAreTerminal, NEW s \in Slots, ServesFairly(s), HandlerStep(s)
  PROVE  FailuresAreMendable
<1> DEFINE r == requests[s]
<1>1. CASE UNCHANGED jobs
  BY <1>1, SteadyIsMendable
<1>2. r.pc \in {"reject", "settle"} => r.job \in Jobs
  BY ClaimFacts
<1>3. CASE ExpireBeforeLease(s)
  <2>1. ASSUME NEW j \in Jobs, Exhausted(j)
        PROVE  [Settled(jobs[j], "failed") EXCEPT !.retryable = TRUE].retryable = TRUE
    <3> DEFINE bare == Settled(jobs[j], "failed")
    <3>1. bare \in Row
      BY RowFacts, SettledRow DEF JobStatus
    <3> HIDE DEF bare
    <3>2. [bare EXCEPT !.retryable = TRUE].retryable = TRUE
      BY <3>1 DEF Row
    <3> QED  BY <3>2 DEF bare
  <2>2. ASSUME NEW j \in Jobs PROVE jobs'[j] = jobs[j] \/ jobs'[j].retryable
    BY <1>3, <2>1 DEF ExpireBeforeLease, ExpireExhausted
  <2> QED  BY <2>2 DEF OnlyRejectionsAreTerminal, FailuresAreMendable
<1>4. CASE SettleHeartbeat(s)
  <2> DEFINE row == [jobs[r.job] EXCEPT !.lease_left = DefaultLease]
  <2>1. jobs' = [jobs EXCEPT ![r.job] = row] /\ r.job \in Jobs
    BY <1>2, <1>4 DEF SettleHeartbeat, Heartbeat, At
  <2>2. row.status = jobs[r.job].status /\ row.retryable = jobs[r.job].retryable
    BY <2>1, RowFacts DEF Row
  <2> HIDE DEF row
  <2>3. jobs'[r.job] = row /\ \A j \in Jobs \ {r.job} : jobs'[j] = jobs[j]
    BY <2>1 DEF IInv, TypeOK
  <2> QED  BY <2>2, <2>3, SteadyIsMendable
<1>5. ~RejectCompletion(s)
  BY SlotFacts DEF RejectCompletion, ServesFairly, HandlerKnowsItsClaim, At
<1>6. CASE SettleFail(s)
  <2>1. r.job \in Refused /\ Fail(r.job, r.token, r.retryable) /\ r.job \in Jobs
    BY <1>2, <1>6 DEF SettleFail, ServesFairly, At
  <2>2. r.retryable \in BOOLEAN
    BY DEF IInv, TypeOK, Request
  <2> QED  BY <2>1, <2>2, FailIsMendable
<1>7. CASE SettleRelease(s)
  <2>1. r.job \in Jobs
    BY <1>2, <1>7 DEF SettleRelease, At
  <2>2. CASE Fail(r.job, r.token, TRUE)
    BY <2>1, <2>2, FailIsMendable
  <2>3. CASE Release(r.job, r.token)
    <3>1. jobs' = [jobs EXCEPT ![r.job] = Settled(@, "queued")]
      BY <2>3 DEF Release
    <3> HIDE DEF r
    <3> QED  BY <2>1, <3>1, SettledIsMendable DEF JobStatus
  <2> QED  BY <1>7, <2>2, <2>3 DEF SettleRelease
<1> QED
  BY <1>1, <1>3, <1>4, <1>5, <1>6, <1>7, CompleteIsMendable, ClaimIsMendable
     DEF HandlerStep, Authorize, RegisterHeartbeat, RefuseHeartbeat, LeaseStep, AdmitLease,
         DenyLease, ClaimNothing, MintGrants, JobStep, LoadOwnedJob, VerifyOutput,
         RefuseStale, RecordSettlement

LEMMA NextIsMendable ==
  ASSUME IInv, OnlyRejectionsAreTerminal, \A s \in Slots : ServesFairly(s), [Next]_vars
  PROVE  FailuresAreMendable
<1>1. CASE UNCHANGED jobs
  BY <1>1, SteadyIsMendable
<1>2. ASSUME NEW j \in Jobs, HostSubmit(j) PROVE FailuresAreMendable
  <2> DEFINE row == [jobs[j] EXCEPT !.status = "queued", !.created_at = Cardinality(Present)]
  <2>1. row.status = "queued" /\ jobs' = [jobs EXCEPT ![j] = row]
    BY <1>2, RowFacts DEF Row, HostSubmit, Submit
  <2> HIDE DEF row
  <2> QED  BY <2>1, RowIsMendable
<1>3. ASSUME NEW j \in Jobs, HostCancel(j) PROVE FailuresAreMendable
  BY <1>3, SettledIsMendable DEF HostCancel, Cancel, JobStatus
<1>4. CASE Tick
  <2>1. ASSUME NEW j \in Jobs
        PROVE  jobs'[j].status = jobs[j].status /\ jobs'[j].retryable = jobs[j].retryable
    BY <1>4, RowFacts DEF Tick, Elapse, Row
  <2> QED  BY <2>1, SteadyIsMendable
<1>5. CASE Arrival \/ Crash \/ UNCHANGED vars
  BY <1>1, <1>5 DEF Arrival, ReceiveCall, ReceiveJobCall, Receive, Crash, vars
<1>6. ASSUME NEW w \in Workers, NEW status \in HostStatuses, HostSetStatus(w, status)
      PROVE  FailuresAreMendable
  BY <1>1, <1>6 DEF HostSetStatus
<1>7. ASSUME NEW s \in Slots, HandlerStep(s) \/ Respond(s) \/ Outage(s)
      PROVE  FailuresAreMendable
  BY <1>1, <1>7, HandlerIsMendable DEF Respond, Outage
<1>8. ASSUME NEW w \in Workers, NEW j \in Jobs, NEW digest \in Digests, Upload(w, j, digest)
      PROVE  FailuresAreMendable
  BY <1>1, <1>8 DEF Upload
<1> QED  BY <1>2, <1>3, <1>4, <1>5, <1>6, <1>7, <1>8, Zenon DEF Next, HostStep

\* A handler's step leads to no rejection of what was fairly asked.
LEMMA VerdictsAreGood ==
  ASSUME IInv, \A j \in Present : ~RefusesJob(j), NEW s \in Slots, OneContent,
         HandlerStep(s), ServesFairly(s)
  PROVE  requests'[s].pc # "reject"
<1> DEFINE r == requests[s]
<1> USE DEF At
<1> SUFFICES ASSUME requests'[s].pc = "reject" PROVE FALSE
  OBVIOUS
<1>1. ASSUME NEW code \in Codes, Reply(s, code), r.pc # "idle" PROVE FALSE
  BY <1>1, ReplyOwn
<1>2. CASE VerifyOutput(s)
  <2>1. /\ r.pc = "verify" /\ r.op = "complete" /\ r.job \in Jobs
        /\ r.digest \in Digests /\ Stored(OutputKey(r.job)) # NoDigest
        /\ r.token \in 1..jobs[r.job].attempts
    BY <1>2, SlotFacts, ClaimFacts DEF VerifyOutput, HandlerKnowsItsClaim, ServesFairly
  <2>2. Stored(OutputKey(r.job)) \in Digests
    BY <2>1, BudgetBound DEF IInv, TypeOK, Stored
  <2>3. Stored(OutputKey(r.job)) = r.digest /\ r.digest # NoDigest
    BY <2>1, <2>2, NoDigestAssumption DEF OneContent
  <2>4. r.job \in Present
    BY <2>1, RowFacts DEF RowCoherent, NoRow, Present
  <2>5. Goto(s, "settle")
    BY <1>2, <2>3, <2>4 DEF VerifyOutput, Attested
  <2> QED  BY <2>5, GotoOwn
<1>3. CASE Authorize(s)
  <2>1. FirstStep(r.op) # "reject"
    BY DEF FirstStep
  <2>2. Goto(s, FirstStep(r.op))
    BY <1>1, <1>3 DEF Authorize, Codes
  <2> QED  BY <2>1, <2>2, GotoOwn
<1>4. ~LoadOwnedJob(s)
  BY <1>1, LoadContinues DEF LoadOwnedJob, Codes
<1>5. ~AdmitLease(s)
  BY AdmitContinues
<1>6. \A j \in Jobs : ~ClaimJob(s, j)
  BY ClaimTakes DEF Takes
<1>7. ASSUME NEW pc, Goto(s, pc), pc # "reject" PROVE FALSE
  BY <1>7, GotoOwn
<1>8. ~RegisterHeartbeat(s) /\ ~RefuseHeartbeat(s)
  BY <1>1 DEF RegisterHeartbeat, RefuseHeartbeat, RefusalCode, Codes
<1>9. ~DenyLease(s) /\ ~ExpireBeforeLease(s) /\ ~ClaimNothing(s) /\ ~MintGrants(s)
  BY <1>1, <1>7 DEF DenyLease, ExpireBeforeLease, ClaimNothing, MintGrants, Codes
<1>10. ~RejectCompletion(s) /\ ~SettleHeartbeat(s) /\ ~SettleComplete(s) /\ ~SettleFail(s)
  <2>1. ~Goto(s, "audit")
    BY <1>7
  <2>2. ASSUME r.pc = "reject" \/ r.pc = "settle" PROVE ~Reply(s, 422) /\ ~Reply(s, 200)
    BY <1>1, <2>2 DEF Codes
  <2>3. ~RejectCompletion(s) /\ ~SettleHeartbeat(s)
    BY <2>1, <2>2 DEF RejectCompletion, SettleHeartbeat
  <2> QED
    BY <2>1, <2>3 DEF SettleComplete, SettleFail
<1>11. ~SettleRelease(s) /\ ~RefuseStale(s) /\ ~RecordSettlement(s)
  <2>1. 200 \in Codes /\ 409 \in Codes
    BY DEF Codes
  <2>2. ~Goto(s, "audit")
    BY <1>7
  <2>3. ASSUME r.pc = "settle" \/ r.pc = "audit" PROVE ~Reply(s, 200) /\ ~Reply(s, 409)
    BY <1>1, <2>1, <2>3
  <2> QED  BY <2>2, <2>3 DEF SettleRelease, RefuseStale, RecordSettlement
<1> QED
  BY <1>2, <1>3, <1>4, <1>5, <1>6, <1>8, <1>9, <1>10, <1>11 DEF HandlerStep, LeaseStep, JobStep

LEMMA FairnessLasts ==
  ASSUME IInv, [Next]_vars, NEW s \in Slots, ServesFairly(s),
         requests[s].pc \notin {"idle", "reply"}, requests'[s].pc \notin {"reply", "reject"}, SameCaller(s), SameClaim(s)
  PROVE  ServesFairly(s)'
<1> DEFINE r == requests[s]
<1>1. r.op = "complete" /\ r.pc # "reply" => r.job \in Jobs /\ OutputKey(r.job) \in OutputKeys
  BY SlotFacts, BudgetBound DEF HandlerKnowsItsClaim, JobOps, At
<1> QED  BY <1>1, StoredStays DEF ServesFairly, SameCaller, SameClaim, Stored

LEMMA HandlerServesFairly ==
  ASSUME IInv, \A j \in Present : ~RefusesJob(j), [Next]_vars, NEW s \in Slots, OneContent,
         HandlerStep(s) \/ Outage(s), ServesFairly(s)
  PROVE  ServesFairly(s)'
<1>1. HandlerMoves(s) /\ requests[s].pc \notin {"idle", "reply"}
  BY HandlerFrame DEF HandlerMoves
<1>2. CASE Continues(s)
  <2>1. Outage(s) => requests'[s].pc = "reply"
    BY <1>1, ReplyOwn DEF Outage, Codes, At
  <2>2. requests'[s].pc # "reject"
    BY <1>2, <2>1, VerdictsAreGood DEF Continues
  <2> QED  BY <1>1, <1>2, <2>2, FairnessLasts DEF Continues, At
<1>3. ASSUME NEW code, Answers(s, code) PROVE ServesFairly(s)'
  BY <1>3 DEF Answers, ServesFairly
<1>4. ASSUME NEW j, Takes(s, j) PROVE ServesFairly(s)'
  BY <1>4 DEF Takes, SameCaller, ServesFairly
<1> QED  BY <1>1, <1>2, <1>3, <1>4 DEF HandlerMoves

\* The invariant after a step, from what the agents ask and what the handlers serve then.
LEMMA FairStep ==
  ASSUME IInv, NothingIsRejected, [Next]_vars,
         \A w \in Workers : AsksFairly(w)', \A s \in Slots : ServesFairly(s)'
  PROVE  NothingIsRejected'
<1>1. \A j \in Present' : ~RefusesJob(j)
  BY NoneIsRefused DEF NothingIsRejected
<1>2. OnlyRejectionsAreTerminal'
  BY NextIsMendable DEF NothingIsRejected, OnlyRejectionsAreTerminal, FailuresAreMendable
<1> QED  BY <1>1, <1>2 DEF NothingIsRejected, RefusesJob, Refuses

LEMMA SlotsStayFair ==
  ASSUME IInv, NothingIsRejected, [Next]_vars, NEW s,
         \A t \in Slots \ {s} : requests'[t] = requests[t], s \in Slots => ServesFairly(s)'
  PROVE  \A t \in Slots : ServesFairly(t)'
<1>1. ASSUME NEW t \in Slots, t # s PROVE ServesFairly(t)'
  <2>1. ServesFairly(t) /\ requests'[t] = requests[t]
    BY <1>1 DEF NothingIsRejected
  <2>2. CASE requests[t].pc \in {"idle", "reply"}
    BY <2>1, <2>2 DEF ServesFairly
  <2>3. CASE requests[t].pc \notin {"idle", "reply"}
    <3>1. requests[t].op = "complete" => OutputKey(requests[t].job) \in OutputKeys
      BY <2>3, SlotFacts, BudgetBound DEF HandlerKnowsItsClaim, JobOps
    <3> QED  BY <2>1, <2>3, <3>1, StoredStays DEF ServesFairly, Stored
  <2> QED  BY <2>2, <2>3
<1> QED  BY <1>1

LEMMA AgentsStayFair ==
  ASSUME IInv, PoolInv, NothingIsRejected, [Next]_vars, UNCHANGED agents
  PROVE  \A w \in Workers : AsksFairly(w)'
<1> SUFFICES ASSUME NEW w \in Workers PROVE AsksFairly(w)'
  OBVIOUS
<1>1. AsksFairly(w)
  BY DEF NothingIsRejected
<1>2. agents[w].pc = "attest" => OutputKey(agents[w].job) \in OutputKeys
  BY AgentFacts, BudgetBound DEF ServePoints
<1> QED  BY <1>1, <1>2, StoredStays DEF AsksFairly, Stored

\* An agent took a step to b.
LEMMA OneAgentFair ==
  ASSUME IInv, PoolInv, NothingIsRejected, [Next]_vars, NEW w \in Workers, NEW b,
         agents' = [agents EXCEPT ![w] = b],
         \/ b.pc \notin {"reject", "attest"}
         \/ b.pc = agents[w].pc /\ b.job = agents[w].job
         \/ b.pc = "reject" /\ b.job \in Refused
         \/ b.pc = "attest" /\ objects'[OutputKey(b.job)] # NoDigest
  PROVE  \A v \in Workers : AsksFairly(v)'
<1> SUFFICES ASSUME NEW v \in Workers PROVE AsksFairly(v)'
  OBVIOUS
<1>1. agents'[w] = b /\ (v # w => agents'[v] = agents[v])
  BY DEF PoolInv, AgentsTypeOK
<1>2. AsksFairly(v)
  BY DEF NothingIsRejected
<1>3. agents[v].pc = "attest" => OutputKey(agents[v].job) \in OutputKeys
  BY AgentFacts, BudgetBound DEF ServePoints
<1>4. agents[v].pc = "attest" => objects'[OutputKey(agents[v].job)] # NoDigest
  BY <1>2, <1>3, StoredStays DEF AsksFairly
<1> QED  BY <1>1, <1>2, <1>4 DEF AsksFairly, Stored

LEMMA IdleIsFair ==
  ASSUME NEW s \in Slots, requests'[s] = Idle
  PROVE  ServesFairly(s)'
BY DEF ServesFairly, Idle

LEMMA RestIsFair ==
  ASSUME IInv, PoolInv, NothingIsRejected, [Next]_vars, NEW w \in Workers, NEW b,
         agents' = [agents EXCEPT ![w] = b],
         Respond(agents[w].call) \/ UNCHANGED requests,
         agents[w].pc \in WaitPoints \/ UNCHANGED requests,
         b.pc \notin {"reject", "attest"} \/ (b.pc = agents[w].pc /\ b.job = agents[w].job)
  PROVE  NothingIsRejected'
<1> DEFINE s == agents[w].call
<1>1. \A v \in Workers : AsksFairly(v)'
  BY OneAgentFair
<1>2. CASE UNCHANGED requests
  <2>1. \A t \in Slots : ServesFairly(t)'
    <3>1. NoSlot \notin Slots
      BY NoSlotAssumption
    <3> QED  BY <1>2, <3>1, SlotsStayFair
  <2> QED  BY <1>1, <2>1, FairStep
<1>3. CASE Respond(s) /\ agents[w].pc \in WaitPoints
  <2>1. s \in Slots
    BY <1>3, AgentFacts
  <2>2. requests' = [requests EXCEPT ![s] = Idle]
    BY <1>3 DEF Respond
  <2> HIDE DEF s
  <2>3. requests'[s] = Idle /\ \A t \in Slots \ {s} : requests'[t] = requests[t]
    BY <2>1, <2>2 DEF IInv, TypeOK
  <2>4. \A t \in Slots : ServesFairly(t)'
    BY <2>1, <2>3, IdleIsFair, SlotsStayFair
  <2> QED  BY <1>1, <2>4, FairStep
<1> QED  BY <1>2, <1>3

LEMMA AnswersAreFair ==
  ASSUME IInv, PoolInv, NothingIsRejected, [Next]_vars, NEW w \in Workers,
         PresenceAnswered(w) \/ FarewellAnswered(w) \/ LeaseAnswered(w)
           \/ CompletionAnswered(w) \/ SettlementAnswered(w)
  PROVE  NothingIsRejected'
<1> DEFINE a == agents[w]
<1>1. a \in Agent /\ a.pc \in WaitPoints /\ Respond(a.call)
  BY AgentFacts DEF PresenceAnswered, FarewellAnswered, LeaseAnswered, CompletionAnswered,
     SettlementAnswered, Answered, WaitPoints
<1>2. /\ Off.pc = "off" /\ Unserved(a).pc = "poll"
      /\ TransportError(a).pc \in {"giveback", "off", "poll"}
  BY <1>1 DEF TransportError, Unserved, Off, Agent
<1>3. ASSUME NEW b, agents' = [agents EXCEPT ![w] = b], b.pc \notin {"reject", "attest"}
      PROVE  NothingIsRejected'
  BY <1>1, <1>3, RestIsFair
<1>4. CASE Raises(w) \/ Become(w, Off) \/ agents' = [agents EXCEPT ![w] = Unserved(a)]
  BY <1>2, <1>3, <1>4 DEF Raises, Become
<1>5. CASE Become(w, [a EXCEPT !.pc = "ask", !.call = NoSlot])
  <2>1. [a EXCEPT !.pc = "ask", !.call = NoSlot].pc = "ask"
    BY <1>1, KeptFields
  <2> QED  BY <1>3, <1>5, <2>1 DEF Become
<1>6. ASSUME NEW j, NEW t,
             Become(w, [a EXCEPT !.pc = "serve", !.call = NoSlot, !.job = j, !.token = t])
      PROVE  NothingIsRejected'
  <2>1. [a EXCEPT !.pc = "serve", !.call = NoSlot, !.job = j, !.token = t].pc = "serve"
    BY <1>1, KeptFields
  <2> QED  BY <1>3, <1>6, <2>1 DEF Become
<1>7. PresenceAnswered(w) => NothingIsRejected'
  BY <1>4, <1>5 DEF PresenceAnswered
<1>8. CASE LeaseAnswered(w)
  <2>1. \/ Raises(w)
        \/ Become(w, [a EXCEPT !.pc = "serve", !.call = NoSlot, !.job = requests[a.call].job,
                               !.token = requests[a.call].token])
    BY <1>8 DEF LeaseAnswered
  <2> QED  BY <1>4, <1>6, <2>1, Zenon
<1>9. FarewellAnswered(w) \/ CompletionAnswered(w) \/ SettlementAnswered(w) => NothingIsRejected'
  BY <1>4 DEF FarewellAnswered, CompletionAnswered, SettlementAnswered, Become
<1> QED  BY <1>7, <1>8, <1>9

LEMMA WorkIsFair ==
  ASSUME IInv, PoolInv, NothingIsRejected, [Next]_vars, NEW w \in Workers,
         RejectLease(w) \/ ReleaseWhenStopping(w) \/ StartDownload(w) \/ Downloaded(w)
           \/ Executed(w) \/ ExecutionRejected(w) \/ UploadOutput(w) \/ AttemptFails(w)
           \/ Start(w) \/ Stop(w) \/ Die(w) \/ LoseAnswer(w)
  PROVE  NothingIsRejected'
<1> DEFINE a == agents[w]
<1>1. a \in Agent /\ UNCHANGED requests /\ NoSlot \notin Slots
  BY AgentFacts, NoSlotAssumption DEF RejectLease, ReleaseWhenStopping, StartDownload, Downloaded,
     Executed, ExecutionRejected, UploadOutput, Upload, AttemptFails, Start, Stop, Die,
     LoseAnswer, vars
<1>2. ASSUME \A v \in Workers : AsksFairly(v)' PROVE NothingIsRejected'
  <2>1. \A t \in Slots : ServesFairly(t)'
    BY <1>1, SlotsStayFair
  <2> QED  BY <1>2, <2>1, FairStep
<1>3. ASSUME NEW pc, Proceed(w, pc),
             \/ pc \notin {"reject", "attest"}
             \/ pc = "reject" /\ a.job \in Refused
             \/ pc = "attest" /\ objects'[OutputKey(a.job)] # NoDigest
      PROVE  NothingIsRejected'
  <2> DEFINE b == [a EXCEPT !.pc = pc]
  <2>1. b.pc = pc /\ b.job = a.job
    BY <1>1, KeptFields
  <2>2. agents' = [agents EXCEPT ![w] = b]
    BY <1>3 DEF Proceed, Become
  <2> HIDE DEF b
  <2> QED  BY <1>2, <1>3, <2>1, <2>2, OneAgentFair
<1>4. ASSUME NEW b, Become(w, b),
             b.pc \notin {"reject", "attest"} \/ (b.pc = a.pc /\ b.job = a.job)
      PROVE  NothingIsRejected'
  BY <1>1, <1>4, RestIsFair DEF Become
<1>5. CASE RejectLease(w) \/ ReleaseWhenStopping(w) \/ StartDownload(w) \/ ExecutionRejected(w)
           \/ AttemptFails(w)
  BY <1>3, <1>5 DEF RejectLease, ReleaseWhenStopping, StartDownload, ExecutionRejected, AttemptFails
<1>6. CASE Downloaded(w)
  <2>1. [a EXCEPT !.pc = "execute", !.beating = TRUE].pc = "execute"
    BY <1>1, KeptFields
  <2> QED  BY <1>4, <1>6, <2>1 DEF Downloaded
<1>7. CASE Executed(w)
  <2>1. PICK d \in Digests : Become(w, [a EXCEPT !.pc = "upload", !.digest = d])
    BY <1>7 DEF Executed
  <2>2. [a EXCEPT !.pc = "upload", !.digest = d].pc = "upload"
    BY <1>1, KeptFields
  <2> QED  BY <1>4, <2>1, <2>2
<1>8. CASE UploadOutput(w)
  <2>1. a.job \in Jobs /\ a.digest \in Digests /\ OutputKey(a.job) \in OutputKeys
    BY <1>8, AgentFacts, BudgetBound DEF UploadOutput, AgentOK, LeaseIsGranted, ServePoints
  <2>2. Upload(w, a.job, a.digest) => objects'[OutputKey(a.job)] = a.digest
    BY <2>1 DEF Upload, WriteOnce, IInv, TypeOK
  <2>3. Stored(OutputKey(a.job)) # NoDigest => objects'[OutputKey(a.job)] # NoDigest
    BY <2>1, StoredStays
  <2>4. objects'[OutputKey(a.job)] # NoDigest /\ Proceed(w, "attest")
    BY <1>8, <2>1, <2>2, <2>3, NoDigestAssumption DEF UploadOutput
  <2> QED  BY <1>3, <2>4
<1>9. CASE Start(w) \/ Die(w)
  <2>1. Off.pc = "off" /\ [Off EXCEPT !.pc = "poll"].pc = "poll"
    BY DEF Off
  <2> QED  BY <1>4, <1>9, <2>1 DEF Start, Die
<1>10. CASE Stop(w)
  <2>1. [a EXCEPT !.stop = TRUE].pc = a.pc /\ [a EXCEPT !.stop = TRUE].job = a.job
    BY <1>1, KeptFields
  <2> QED  BY <1>4, <1>10, <2>1 DEF Stop
<1>11. CASE LoseAnswer(w)
  <2>1. TransportError(a).pc \in {"giveback", "off", "poll"}
    BY <1>1 DEF TransportError, Unserved, Off, Agent
  <2> QED  BY <1>4, <1>11, <2>1 DEF LoseAnswer, Raises
<1> QED  BY <1>5, <1>6, <1>7, <1>8, <1>9, <1>10, <1>11

\* A request that opens fairly, and an agent that asks it.
LEMMA OpensFairly ==
  ASSUME IInv, PoolInv, NothingIsRejected, [Next]_vars, NEW w \in Workers, NEW body, NEW job, NEW token,
         CanConnect, Receive(FreeSlot, Opened(w, body, job, token)),
         body.op = "fail" => job \in Refused,
         body.op = "complete" => body.digest \in Digests /\ Stored(OutputKey(job)) # NoDigest,
         \A v \in Workers : AsksFairly(v)'
  PROVE  NothingIsRejected'
<1> DEFINE q == Opened(w, body, job, token)
<1>1. PICK s \in Slots : s = FreeSlot
  BY FreeSlotIsFree
<1>2. requests' = [requests EXCEPT ![s] = q] /\ objects' = objects
  BY <1>1 DEF Receive
<1>3. /\ q.pc = "authorize" /\ q.op = body.op /\ q.job = job /\ q.digest = body.digest
  BY DEF Opened
<1> HIDE DEF q
<1>4. requests'[s] = q /\ \A t \in Slots \ {s} : requests'[t] = requests[t]
  BY <1>1, <1>2 DEF IInv, TypeOK
<1>5. ServesFairly(s)'
  BY <1>2, <1>3, <1>4 DEF ServesFairly, Stored
<1>6. \A t \in Slots : ServesFairly(t)'
  BY <1>4, <1>5, SlotsStayFair
<1> QED  BY <1>6, FairStep

LEMMA CallsAreFair ==
  ASSUME IInv, PoolInv, NothingIsRejected, [Next]_vars, NEW w \in Workers,
         Poll(w) \/ Farewell(w) \/ AskForWork(w) \/ Attest(w) \/ GiveBack(w) \/ Reject(w)
           \/ BeatStep(w)
  PROVE  NothingIsRejected'
<1> DEFINE a == agents[w]
<1>1. a \in Agent /\ AgentOK(w) /\ AsksFairly(w)
  BY AgentFacts DEF NothingIsRejected
<1>2. ASSUME NEW body, NEW job, NEW token, NEW pc, pc \notin {"reject", "attest"},
             CanConnect, Receive(FreeSlot, Opened(w, body, job, token)),
             Become(w, [a EXCEPT !.pc = pc, !.call = FreeSlot]),
             body.op = "fail" => job \in Refused,
             body.op = "complete" => body.digest \in Digests /\ Stored(OutputKey(job)) # NoDigest
      PROVE  NothingIsRejected'
  <2> DEFINE b == [a EXCEPT !.pc = pc, !.call = FreeSlot]
  <2>1. b.pc = pc /\ agents' = [agents EXCEPT ![w] = b]
    BY <1>1, <1>2, KeptFields DEF Become
  <2> HIDE DEF b
  <2>2. \A v \in Workers : AsksFairly(v)'
    BY <1>2, <2>1, OneAgentFair
  <2> QED  BY <1>2, <2>2, OpensFairly
<1>3. ASSUME NEW body, NEW job, NEW token, CanConnect, UNCHANGED agentVars,
             body.op \in {"register", "heartbeat"},
             Receive(FreeSlot, Opened(w, body, job, token))
      PROVE  NothingIsRejected'
  BY <1>3, AgentsStayFair, OpensFairly DEF agentVars
<1>4. ASSUME NEW body, NEW pc, Post(w, body, pc), body.op \in {"register", "lease"},
             pc \notin {"reject", "attest"}
      PROVE  NothingIsRejected'
  BY <1>2, <1>4 DEF Post, ReceiveCall
<1>5. /\ Body("release").op = "release" /\ Body("fail").op = "fail"
      /\ Body("heartbeat").op = "heartbeat" /\ LeaseCall(w).op = "lease"
      /\ Presence(w, TRUE).op = "register" /\ Presence(w, FALSE).op = "register"
      /\ Completion(a.digest).op = "complete" /\ Completion(a.digest).digest = a.digest
  BY DEF Body, LeaseCall, Presence, Completion
<1>6. ASSUME NEW body, NEW pc \in {"completing", "releasing", "rejecting"}, PostForJob(w, body, pc),
             body.op = "fail" => a.job \in Refused,
             body.op = "complete" => body.digest \in Digests /\ Stored(OutputKey(a.job)) # NoDigest
      PROVE  NothingIsRejected'
  BY <1>2, <1>6 DEF PostForJob, ReceiveJobCall
<1>7. CASE Poll(w)
  <2> DEFINE body == Presence(w, FALSE)
  <2>1. body.op = "register" /\ Post(w, body, "presence")
    BY <1>5, <1>7 DEF Poll
  <2> HIDE DEF body
  <2> QED  BY <1>4, <2>1
<1>8. CASE Farewell(w)
  <2> DEFINE body == Presence(w, TRUE)
  <2>1. body.op = "register" /\ Post(w, body, "farewell")
    BY <1>5, <1>8 DEF Farewell
  <2> HIDE DEF body
  <2> QED  BY <1>4, <2>1
<1>9. CASE AskForWork(w)
  BY <1>4, <1>5, <1>9 DEF AskForWork
<1>10. CASE GiveBack(w)
  BY <1>5, <1>6, <1>10 DEF GiveBack
<1>11. CASE Reject(w)
  BY <1>1, <1>5, <1>6, <1>11 DEF Reject, AsksFairly
<1>12. CASE Attest(w)
  <2>1. a.pc = "attest" /\ PostForJob(w, Completion(a.digest), "completing")
    BY <1>12 DEF Attest
  <2>2. a.digest \in Digests /\ Stored(OutputKey(a.job)) # NoDigest
    BY <1>1, <2>1 DEF AgentOK, LeaseIsGranted, AsksFairly
  <2> QED  BY <1>5, <1>6, <2>1, <2>2
<1>13. CASE BeatStep(w)
  BY <1>3, <1>5, <1>13 DEF BeatStep, BeatJob, BeatPresence, ReceiveCall, ReceiveJobCall
<1> QED  BY <1>7, <1>8, <1>9, <1>10, <1>11, <1>12, <1>13

LEMMA NothingIsRejectedNext ==
  ASSUME OneContent, IInv, PoolInv, NothingIsRejected, [PoolNext]_poolVars
  PROVE  NothingIsRejected'
<1>1. [Next]_vars
  BY PoolStepIsServed
<1>2. ASSUME NEW w \in Workers,
             Start(w) \/ LoopStep(w) \/ ServeStep(w) \/ BeatStep(w) \/ Stop(w) \/ AgentFault(w)
      PROVE  NothingIsRejected'
  BY <1>1, <1>2, CallsAreFair, AnswersAreFair, WorkIsFair DEF LoopStep, ServeStep, AgentFault
<1>3. ASSUME NEW s \in Slots, Served(s) \/ (Outage(s) /\ UNCHANGED agentVars)
      PROVE  NothingIsRejected'
  <2>1. HandlerStep(s) \/ Outage(s)
    BY <1>3 DEF Served
  <2>2. ServesFairly(s)' /\ OthersRest(s)
    BY <1>1, <2>1, HandlerServesFairly, HandlerFrame DEF NothingIsRejected, HandlerMoves
  <2>3. \A t \in Slots : ServesFairly(t)'
    BY <1>1, <2>2, SlotsStayFair DEF OthersRest
  <2>4. UNCHANGED agents
    BY <1>3 DEF Served, agentVars
  <2> QED  BY <1>1, <2>3, <2>4, AgentsStayFair, FairStep
<1>4. ASSUME NEW s \in Slots, DropAnswer(s)
      PROVE  NothingIsRejected'
  <2>1. requests' = [requests EXCEPT ![s] = Idle] /\ UNCHANGED agents
    BY <1>4 DEF DropAnswer, Respond, agentVars
  <2>2. requests'[s] = Idle /\ \A t \in Slots \ {s} : requests'[t] = requests[t]
    BY <2>1 DEF IInv, TypeOK
  <2>3. \A t \in Slots : ServesFairly(t)'
    BY <1>1, <2>2, IdleIsFair, SlotsStayFair
  <2> QED  BY <1>1, <2>1, <2>3, AgentsStayFair, FairStep
<1>5. CASE HostActs \/ TimePasses \/ UNCHANGED poolVars
  <2>1. UNCHANGED <<agents, requests>>
    BY <1>5 DEF HostActs, HostStep, HostSubmit, HostCancel, HostSetStatus, TimePasses, Tick,
       agentVars, poolVars, vars
  <2>2. \A t \in Slots : ServesFairly(t)'
    BY <1>1, <2>1, SlotsStayFair, NoSlotAssumption
  <2> QED  BY <1>1, <2>1, <2>2, AgentsStayFair, FairStep
<1>6. CASE LoseCoordinator
  <2> DEFINE new(w) == IF agents[w].call = NoSlot THEN agents[w] ELSE TransportError(agents[w])
  <2>1. agents' = [w \in Workers |-> new(w)] /\ requests' = [s \in Slots |-> Idle]
        /\ objects' = objects
    BY <1>6 DEF LoseCoordinator, Crash
  <2>2. ASSUME NEW w \in Workers PROVE AsksFairly(w)'
    <3>1. AsksFairly(w) /\ agents[w] \in Agent
      BY AgentFacts DEF NothingIsRejected
    <3>2. TransportError(agents[w]).pc \in {"giveback", "off", "poll"}
      BY <3>1 DEF TransportError, Unserved, Off, Agent
    <3> QED  BY <2>1, <3>1, <3>2 DEF AsksFairly, Stored
  <2>3. ASSUME NEW s \in Slots PROVE ServesFairly(s)'
    BY <2>1, IdleIsFair
  <2> QED  BY <1>1, <2>2, <2>3, FairStep
<1> QED  BY <1>2, <1>3, <1>4, <1>5, <1>6 DEF PoolNext, Healthy, Faulty

LEMMA NothingIsRejectedInit == PoolInit => NothingIsRejected
<1> SUFFICES ASSUME PoolInit PROVE NothingIsRejected
  OBVIOUS
<1>1. /\ requests = [s \in Slots |-> Idle] /\ agents = [w \in Workers |-> Off]
      /\ \A j \in Jobs : jobs[j].status = Absent
  BY DEF PoolInit, Init, JobsInit, NoRow, AgentsInit
<1> QED
  BY <1>1 DEF NothingIsRejected, AsksFairly, ServesFairly, OnlyRejectionsAreTerminal, Present,
     Absent, Off, Idle

\* A job no plugin rejects fails only in ways another attempt could mend, whatever is lost or
\* dies on the way.  It takes deterministic plugins: an artifact that another run of the job
\* put in the bucket first would not be the one attested, and that failure is final.
THEOREM RejectionsAreThePlugins ==
  ASSUME OneContent PROVE PoolSpec => []OnlyRejectionsAreTerminal
<1>1. IInv /\ PoolInv /\ NothingIsRejected /\ [PoolNext]_poolVars => NothingIsRejected'
  BY NothingIsRejectedNext
<1>2. NothingIsRejected => OnlyRejectionsAreTerminal
  BY DEF NothingIsRejected
<1> QED  BY <1>1, <1>2, PoolInvariants, NothingIsRejectedInit, PTL DEF PoolSpec
=============================================================================
