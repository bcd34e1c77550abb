-------------------------------- MODULE Pool --------------------------------
(***************************************************************************)
(* The whole pool: the agents of every machine, the coordinator that       *)
(* serves them and the host.  What goes wrong is bounded by MaxFaults: an  *)
(* outage or a crash of the coordinator, an agent that dies, an answer     *)
(* that is lost, an attempt that fails.  MaxStops bounds the SIGTERMs.     *)
(***************************************************************************)
EXTENDS WorkerAgent

CONSTANTS MaxFaults, MaxStops

ASSUME BoundsAssumption == MaxFaults \in Nat /\ MaxStops \in Nat

VARIABLES faults, stops

counters == <<faults, stops>>

poolVars == <<vars, agentVars, counters>>

PoolInit == Init /\ AgentsInit /\ faults = 0 /\ stops = 0

Served(s) == HandlerStep(s) /\ UNCHANGED agentVars

HostActs == HostStep /\ UNCHANGED agentVars

TimePasses == Tick /\ UNCHANGED agentVars

Healthy ==
  \/ \E w \in Workers : Start(w) \/ LoopStep(w) \/ ServeStep(w) \/ BeatStep(w)
  \/ \E s \in Slots : Served(s) \/ DropAnswer(s)
  \/ HostActs
  \/ TimePasses

Faulty ==
  \/ \E w \in Workers : AgentFault(w)
  \/ \E s \in Slots : Outage(s) /\ UNCHANGED agentVars
  \/ LoseCoordinator

PoolNext ==
  \/ Healthy /\ UNCHANGED counters
  \/ stops < MaxStops /\ (\E w \in Workers : Stop(w)) /\ stops' = stops + 1 /\ UNCHANGED faults
  \/ faults < MaxFaults /\ Faulty /\ faults' = faults + 1 /\ UNCHANGED stops

PoolSpec == PoolInit /\ [][PoolNext]_poolVars

\* asyncio runs every task that can run, systemd restarts an agent that ended, a plugin
\* ends by its deadline and time passes.  Nothing makes the host, a fault or a beat occur.
Fairness ==
  /\ \A s \in Slots : WF_poolVars((Served(s) \/ DropAnswer(s)) /\ UNCHANGED counters)
  /\ \A w \in Workers :
       WF_poolVars((Start(w) \/ LoopStep(w) \/ ServeStep(w)) /\ UNCHANGED counters)
  /\ WF_poolVars(TimePasses /\ UNCHANGED counters)

FairPoolSpec == PoolSpec /\ Fairness

-----------------------------------------------------------------------------
(* What must hold.                                                         *)

AgentsTypeOK ==
  /\ agents \in [Workers -> Agent]
  /\ outcomes \subseteq Workers \X Jobs \X Digests
  /\ faults \in 0..MaxFaults /\ stops \in 0..MaxStops

\* An agent that was told its artifact was accepted was told the truth: the job is
\* completed, by it, with the digest it attested, whatever was lost or retried since.
ConfirmedIsFinal ==
  \A o \in outcomes :
    /\ jobs[o[2]].status = "completed"
    /\ jobs[o[2]].executed_by = o[1]
    /\ jobs[o[2]].output = o[3]

\* Only a fault leaves a lease behind: until there is one, an agent that is between jobs
\* or drained holds no job, however its last attempt ended and whoever else took the job.
IdleHoldsNothing ==
  faults = 0 =>
    \A w \in Workers : agents[w].pc \in LoopPoints \ {"leasing"} =>
      \A j \in Jobs : jobs[j].leased_by # w

\* A job no plugin rejects is never settled as not retryable: every failure on the way
\* is one another attempt could mend.
OnlyRejectionsAreTerminal ==
  \A j \in Jobs \ Refused : jobs[j].status = "failed" => jobs[j].retryable

\* Every job the host submitted is settled in the end: no crash, lost answer or drain
\* leaves one queued or processing for ever.
JobSettles ==
  \A j \in Jobs : jobs[j].status = "queued" ~> jobs[j].status \in Terminal

\* Draining is a promise to the operator: while the host wants a worker to drain, no lease
\* request of it passes the check that would claim a job.
DrainingLeasesNothing ==
  [][\A s \in Slots : requests[s].pc = "admit" /\ requests'[s].pc = "expire"
       => intent[requests[s].worker] # "draining"]_poolVars
-----------------------------------------------------------------------------
(* Why it holds: what an agent believes of the request it awaits and of    *)
(* the lease it serves.                                                    *)

WaitPoints == {"presence", "farewell", "leasing", "completing", "releasing", "rejecting"}

\* What an agent asked when it waits at a point.
AskedAt == {<<"presence", "register">>, <<"farewell", "register">>, <<"leasing", "lease">>,
            <<"completing", "complete">>, <<"releasing", "release">>, <<"rejecting", "fail">>}

\* An agent awaits an answer exactly where it asked something, and what it asked is in its slot.
CallIsOwn(w) ==
  LET a == agents[w]  r == requests[a.call] IN
  /\ a.call # NoSlot <=> a.pc \in WaitPoints
  /\ a.call # NoSlot =>
       /\ r.pc # "idle" /\ r.worker = w /\ <<a.pc, r.op>> \in AskedAt
       /\ r.op \in JobOps /\ r.pc # "reply" => r.job = a.job /\ r.token = a.token
       /\ r.op = "complete" /\ r.pc # "reply" => r.digest = a.digest

\* The lease was granted to the agent that serves it.
LeaseIsGranted(w) ==
  LET a == agents[w] IN
  /\ a.pc \in ServePoints => a.job \in Jobs /\ Granted(w, a.job, a.token)
  /\ a.pc \in {"upload", "attest", "completing"} => a.digest \in Digests
  /\ a.beating => a.pc \in ServePoints

Succeeded(r) == r.pc = "reply" /\ r.code = 200

\* The answer to a lease request is known once the job is claimed.
Grants(r) == r.op = "lease" /\ (r.pc = "mint" \/ Succeeded(r))

GrantIsMinted(s) ==
  LET r == requests[s] IN Grants(r) => r.job \in Jobs /\ Granted(r.worker, r.job, r.token)

CompletedBy(w, j, digest) ==
  jobs[j].status = "completed" /\ jobs[j].executed_by = w /\ jobs[j].output = digest

\* A completion is answered with 200 only after the statement took effect.
AnswerIsTrue(w) ==
  LET a == agents[w]  r == requests[a.call] IN
  a.pc = "completing" /\ (r.pc = "audit" \/ Succeeded(r)) =>
    CompletedBy(w, a.job, a.digest)

PoolInv ==
  /\ AgentsTypeOK
  /\ \A w \in Workers : CallIsOwn(w) /\ LeaseIsGranted(w) /\ AnswerIsTrue(w)
  /\ \A s \in Slots : GrantIsMinted(s)
  /\ ConfirmedIsFinal

\* Whose claim a job is, is known to the agent or on its way to it.
HolderKnows(w, j) ==
  LET a == agents[w]  r == requests[a.call] IN
  jobs[j].leased_by = w =>
    \/ a.pc = "leasing" /\ Grants(r) /\ r.job = j /\ r.token = jobs[j].claim_token
    \/ /\ a.pc \in ServePoints /\ a.job = j /\ a.token = jobs[j].claim_token
       /\ a.call # NoSlot => r.pc # "reply"

\* No lease request is left that its agent does not await.
LeaseAwaited(s) ==
  requests[s].pc # "idle" /\ requests[s].op = "lease" => agents[requests[s].worker].call = s

\* What a fault breaks.
FaultlessInv ==
  faults = 0 =>
    /\ \A s \in Slots : LeaseAwaited(s)
    /\ \A w \in Workers, j \in Jobs : HolderKnows(w, j)

\* An agent rejects what its plugins reject, and attests what is in the bucket.
AsksFairly(w) ==
  LET a == agents[w] IN
  /\ a.pc = "reject" => a.job \in Refused
  /\ a.pc = "attest" => Stored(OutputKey(a.job)) # NoDigest

\* So does a handler find it, while it has not answered.
ServesFairly(s) ==
  LET r == requests[s] IN
  r.pc \notin {"idle", "reply"} =>
    /\ r.op = "fail" => r.job \in Refused
    /\ r.op = "complete" => /\ r.pc # "reject" /\ r.digest \in Digests
                            /\ Stored(OutputKey(r.job)) # NoDigest

\* Where every output has one content, nothing that leads to a terminal failure is asked or found.
NothingIsRejected ==
  /\ \A j \in Present : ~RefusesJob(j)
  /\ \A w \in Workers : AsksFairly(w)
  /\ \A s \in Slots : ServesFairly(s)
  /\ OnlyRejectionsAreTerminal
=============================================================================
