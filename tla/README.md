# The outbound GPU worker pool in TLA+

A verification project for `outbound-gpu-worker-pool`. Hosts submit jobs to a coordinator;
GPU machines that accept no inbound connection poll it, lease a job, run it and attest the
artifact they uploaded. The specifications model the coordinator, the tables it shares
between requests, the bucket, the agents, the admission of workers, the plugins that drive the
local GPU runtimes, and what a job carries at each gate that looks into it. TLC checks them on
small instances. TLAPS proves, for every value of the constants, every invariant, every action
property and all three refinements those runs check, and that the pool with its agents implements the
coordinator; only liveness is left to TLC.

Source paths are relative to `src/src/outbound_gpu_worker_pool/` unless they start with `src/`.

## The system

| Part | Source | State it keeps | Operations |
|---|---|---|---|
| Job store | `postgres.py`, `memory.py`, `migrations/001` | `pool_jobs`: status, attempts, claim token, lease, output | submit, cancel, lease, heartbeat, complete, fail, release, expire_exhausted |
| Worker registry | `postgres.py`, `memory.py` | `pool_workers`: identity subject, tenant, status, what it advertises | upsert, set_status, reads |
| Asset store | `assets/gcs.py`, `memory.py` | objects in the bucket | signed grants, describe, read_limited, create-once upload |
| Coordinator service | `service.py`, `routes.py` | requests in progress, audit log, limiters | host calls and the `/worker/v1` routes |
| Worker agent | `agent.py`, `agent_main.py` | the lease it serves, the heartbeat task, the stop event | poll, serve, publish, drain |
| Admission | `auth.py`, `enrollment.py`, `RateLimiter` in `service.py` | token buckets, verification slots, allowlist | authenticate, enroll_worker |
| Engine plugin | `engine.py` | the stage's process, or its job on the runner | inspect, execute, cancel |
| ComfyUI plugin | `comfy.py` | the prompt it waits for | ensure_running, execute, cancel |
| Machine profiles | `machine_profiles.py`, `engine_recipes.py`, `agent_main.py` | what a worker verified, registered and inspected; the package's revision | resolve, verify, inspect, qualify, attest, compare |
| Validation | `validation.py`, `contracts.py` | the walk over one payload | request digest, bounds |
| Processes | `coordinator.py`, `coordinator_main.py`, `src/deploy/` | what was started | start, stop, restart |

**Interaction.** An agent calls the coordinator over HTTP, one request at a time from its main
task and one from its heartbeat task. The coordinator serves requests concurrently on one
event loop: a handler is interrupted at every `await`, and its requests meet in three shared
places, the job table, the worker table and the bucket. Every statement on a table is atomic
(one SQL statement, or a coroutine of `memory.py` without an `await`), and so is an object's
creation. Agents upload to the bucket directly, under a grant that outlives their lease. Before
a handler runs, the request is authenticated, with awaits of its own and counters all requests
share. An agent executes a lease through one plugin, which drives a runtime on the same machine:
a subprocess, the engine's runner over loopback HTTP, or ComfyUI.

**What is hard.** A handler reads a row and writes in a later step, so the worker's status, the
job's attempts and holder, and the verified object may all have changed. A lease lapses while
its worker is still running, and a heartbeat may bring it back. Old claim tokens and old
upload grants are used late. Answers are lost, the coordinator or the agent restarts between
any two steps, and the signing of grants can fail after the claim was committed. A request may be
cancelled while its verifier thread runs on. A plugin's deadline, a cancellation of the job, one
of its own task and the runtime's answer race at every await, and what it gave up may still arrive.

**What makes each part correct**

- *Job store*: a claim is exclusive until it lapses; a settled job stays settled; attempts never
  pass the budget; a job that waits can still be claimed; token and holder move together; a request
  submitted again finds its original.
- *Worker registry*: a row is never rebound; a revocation is not undone by a heartbeat.
- *Asset store*: an object never changes once it exists.
- *Coordinator*: a completed job's digest is that of the stored object; nothing crosses tenants;
  the audit log tells the truth; stale tokens change nothing.
- *Agent*: what it was told is final; a drain gives its lease back; every job is settled in the end.
- *Admission*: whoever first gets a worker's row written binds it for good; buckets stay bounded,
  and no budget is reset or spent by others; slots and counters are never leaked.
- *Plugins*: no process, runner job or prompt outlives its execution, none of another execution is
  stopped, an output is the execution's own, and an execution ends once its deadline has passed. A plugin takes
  what the schema it publishes says, and a template makes whole graphs of it.
- *Machine profiles*: the recipe a completed job pinned is the one that ran; a worker that ran it is
  believed; what is not qualified is never accepted.
- *Validation*: what is encoded, digested and stored is a JSON tree of bounded depth, and no such
  tree is refused.

## Modules

| Module | Models |
|---|---|
| `Contracts` | Identifiers, submissions, offers and statuses (`contracts.py`), with the bounds of `validation.py` as assumptions |
| `JobStore` | `jobs` and one action per statement on `pool_jobs` |
| `WorkerRegistry` | `workers`, `Upsert`, `SetStatus` and the predicates of the enrolment check |
| `AssetStore` | `objects` and `WriteOnce` |
| `Coordinator` | EXTENDS the three: the handlers, the host's calls, crashes, outages, time; invariants, `IInv`, and the refinement mapping |
| `JobLifecycle` | The abstract specification: the phases a host is promised for each job |
| `CoordinatorProofs` | The inductive invariant of `Coordinator` and what follows from it; `Coordinator` implements `JobLifecycle`; replays |
| `Enrollment` | EXTENDS `Coordinator`: `enroll_worker` in its two steps beside the handlers |
| `AdmissionProofs` | Tenants stay apart, a revocation stands, bindings are permanent, also while hosts enrol |
| `WorkerAgent` | EXTENDS `Coordinator`: the agent's loop, `_serve`, the heartbeat task, its faults |
| `Pool`, `PoolProofs` | Composes agents, coordinator and host; faults, fairness, the end-to-end properties and why they hold |
| `TokenBuckets` | The abstract specification of a rate limiter: what each key may still spend |
| `RateLimiter`, `LimiterProofs` | `RateLimiter.allow` with its table of buckets; implements `TokenBuckets`, as proved |
| `Authentication`, `AuthenticationProofs` | `authenticate` and the two authenticators: limiters, admission counter, verifier slots and threads, audit sampling; its invariants |
| `PluginExecution` | The abstract specification of a plugin's `execute`: how an execution ends, and what it may hold when it does |
| `EngineRunner` | One job at a time on the engine's HTTP runner: the plugin's requests, the wire, the runner |
| `EngineProcess` | The same execution as subprocesses: process groups, SIGTERM, grace, SIGKILL, `plugin.cancel` |
| `EngineTransports`, `EngineProcessProofs` | The plugin on the transport it was configured with: `EngineProcess` or `EngineRunner`; nothing is left of either; implements `PluginExecution`, as proved |
| `ComfyRuntime`, `ComfyProofs` | `ComfyWorkflowPlugin` on a ComfyUI that queues prompts and may be stopped; no prompt is left; implements `PluginExecution`, as proved |
| `Submissions` | `validate_job_submission`: the walk over a payload that may share children or contain itself, requirements, input keys |
| `InputSchemas` | The schemas plugins publish, and what conforms to them |
| `Templates` | A workflow template: the checks of its document, its schema, the graph an execution makes |
| `EngineStages` | The settings and inputs a recipe's stage takes, its schema; the reference plugin |
| `PluginInputs` | A lease in a plugin: `validate`, then binding, pruning and uploading slot by slot |
| `Recipes` | Profiles, recipe versions, what an inspection yields, what the coordinator reads out of pins |
| `ProfileWorker` | The worker's profiles, a job that pins them, the coordinator's comparison; reconfigured runtimes and revisions of the package |
| `JobContent`, `JobContentProofs` | The three gates side by side: a host's submission, a plugin, a recipe; each lets the right jobs through |
| `MCCoordinator`, `MCAdmission`, `MCPool`, `MCRateLimiter`, `MCJobContent` | Constants for TLC |

`Coordinator` has one action per step between two awaits. `requests[s].pc` names the statement
a handler is about to run:

| pc | Code | Actions |
|---|---|---|
| `authorize` | `_approved_enrollment` | `Authorize` |
| `register` | `register_heartbeat` after it | `RegisterHeartbeat`, `RefuseHeartbeat` |
| `admit` | the second read of the worker's row in `lease` | `AdmitLease`, `DenyLease` |
| `expire`, `claim`, `mint` | `expire_exhausted`, `jobs.lease`, the grants | `ExpireBeforeLease`, `ClaimJob`, `ClaimNothing`, `MintGrants` |
| `load` | `_owned_job` | `LoadOwnedJob` |
| `verify`, `reject` | `_verify_output`, `jobs.fail` after it | `VerifyOutput`, `RejectCompletion` |
| `settle` | the statement of heartbeat, complete, fail or release | `Settle...`, `RefuseStale` |
| `audit` | the settlement's event | `RecordSettlement` |
| `reply` | the response | `Respond` |

In `Coordinator` alone a worker is as free as the protocol allows: it sends any body with any
token that was ever minted for it, and uploads under any grant it ever got. In `Pool` the
workers are agents: `agents[w].pc` is the await its main task is at, `call` the slot whose
answer it waits for.

In the plugins' modules `at` is the await an execution is at. `EngineRunner` keeps the requests the
runner has not handled in `wire`: it handles them in their order, except that one the plugin gave up
may have been stuck on its own connection and arrive late. `EngineProcess` has one process group at a
time; `plugin.cancel` is a second actor (`canceller`) that signals the same group, or, while the stage is
still being spawned, sets the job's event, for which nothing waits over this transport (`"told"`). `EngineTransports`
chooses one of the two once, as `AISmithEnginePlugin` is constructed with a runner or without. `ComfyRuntime`
numbers prompts by their execution. The runner, the engine's processes and ComfyUI are not in the
repository and are modelled by what the plugins ask of them and are told.

`Enrollment` adds `enrolling`, the calls of `enroll_worker` that read no row and are about to write
one; until they do, the worker's own heartbeat or another host may have written it.

In `JobContent`, `gate` says which gate a behaviour is about. `Submissions` is the walk of
`_validate_json_tree` with its stack: `stack` and `seen` are that function's, one action pops one
value. `PluginInputs` goes from loading a template or a stage through `validate` to one action per
slot that is bound or pruned. `ProfileWorker` has the agent's start (every profile inspected on its
own), its registration, the lease, the inspection before the execution, the attestation, and the
comparison in `_verify_output` with the coordinator's own revision; the runtime may be reconfigured,
the agent stopped and either side redeployed between any two of them.

### Abstractions

- **Time** is kept as the ticks a lease has left; `Tick` is `now()` advancing. Leases of 0 ticks
  lapse at the first tick, which is all that order can tell apart.
- **A claim token** is the ordinal of the attempt it was drawn for; `uuid4()` never draws one twice.
- **`FOR UPDATE SKIP LOCKED`**: a lease is one atomic statement that takes the first candidate.
- **The audit log** keeps settlements. The other events are written after the last change of
  state and before the response: if that write fails the worker gets a 500 for an answer, which
  for it is the loss of that answer.
- **`Outage`** is any exception out of what a handler awaits. An authentication that fails or is
  throttled never reaches a handler; an agent treats those status codes like a lost answer.
- **Verification** compares one digest; keys, lengths and recipe inputs are part of what makes
  two artifacts or manifests differ. A profile that is not qualified refuses as in the code.
- **The tenant** of an enrolment is compared in the handler's second step: a row's tenant never
  changes, so it does not matter when.
- Rows are never deleted, so `JobNotFound` cannot arise for a job a worker leased.
- **A limiter inside `Authentication`** is a budget per key that is full again after a minute.
  A key whose budget is full may have no bucket, and may then be refused because the table is full.
- **Plugins leave data out**: the checks of an output's content, command lines, file names and
  progress reports. What a check rejects is a failure; a size and a sha256 are one digest. Inputs,
  settings, templates and schemas are `PluginInputs`, apart from the executions.
- **A hash** of a recipe, a configuration or a profile is the record it is taken of: two are equal
  when what is hashed is.
- **Values of a payload**: a string is its length, a number is counted in halves so that 1.5 and 2.0
  exist, and a container's keys are strings or not. `True` equals 1, as in Python.
- **The gates of `JobContent`** share no state and no step; they are one specification only to be
  checked in one run.
- **What an `await` of asyncio's own cleanup does** (a subprocess that is cancelled while it is
  spawned) is taken as atomic; calls of `plugin.cancel` during that await are not left out.
- `grantee`, `intent` and `outcomes` are history variables: who each token was minted for, what
  the host last asked of a worker, which completions an agent was told of.

## Runs

| Run | Question | Result |
|---|---|---|
| `coordinator` | Do the tables stay coherent, does every job keep the promised lifecycle, and does a replay find the original, under every interleaving of two handlers? | 0.8 million states |
| `admission` | Can a job cross tenants, a heartbeat undo a revocation, or an enrolment that raced another writer bind a worker anew? | 0.8 million states |
| `pool` | Is what an agent was told final, and does only a fault leave a lease behind? | 4.1 million states |
| `settles` | Is every submitted job settled, and never as beyond retrying unless rejected? | 0.17 million states, liveness |
| `limiter` | Do key churn, the sweep and a clock set back leave every budget intact, and do idle buckets make room? | 9 thousand states |
| `authentication` | Does any way out of `authenticate` leak a slot or a count, or draw on others' budgets? | 94 thousand states, liveness |
| `engine` | Does any process survive an execution or a `plugin.cancel`, is anything left on the runner, is an output the execution's own, and does each execution keep what a plugin promises? | 94 thousand states, liveness |
| `content` | Does each gate let exactly the right jobs through, whatever they carry and whatever is reconfigured meanwhile? | 2.6 million states |
| `comfy` | Is a prompt left behind, does each execution keep what a plugin promises, and end once its deadline has passed? | 37 thousand states, liveness |
| `drain` | Does a drained worker lease nothing (`src/README.md:290`, `src/docs/operations.md:116`)? | Violated |
| `nondeterministic` | Is a failure another attempt could mend always retryable (`src/README.md:636-646`)? | Violated when outputs differ |
| `interrupts` | Does an interrupt stop only the prompt of the job it is for (`src/tests/test_comfy.py:879`)? | Violated after a failed request |

`KeepsLifecycle` is the refinement: `Coordinator` implements `JobLifecycle` under the mapping
`Life`. A statement that moves several rows (`ExpireExhausted`, `Tick`) is one step of the
abstract specification, in which jobs move independently.

`KeepsBudgets` is the second refinement: `RateLimiter` implements `TokenBuckets` under
`Level(buckets, k)`, the tokens a key has now, or all of them if it has no bucket.

`KeepsContract` is the third, and two modules have it: the engine's plugin over either transport and the
ComfyUI plugin implement `PluginExecution`, which is all `_serve` of the agent needs to know of
`GpuExecutorPlugin.execute` when it takes the next job. What a plugin holds is a process group
(`Gone`), a job on the runner or a request for one that is still on its way (`Holds`), or prompts in
the queue. Only an execution's work adds to it, an inspection or an upload does not, and what was held
is gone when the execution is over; an execution that was given up never yields an output after all. Two
things are excepted: a request that failed or was lost (`astray`), and a clean-up that was cancelled itself,
which ends as `killed`.

**The three disagreements.** `drain`: every poll of an agent starts with `heartbeat()`, whose flag
is `draining=False`, and the upsert lets it replace any status but `revoked`. A worker drained
by the host is active again within one poll. `nondeterministic`: a first attempt uploads and then
fails in transport; the retry produces other bytes, takes the `412` for success, attests its own
digest and is refused with `sha256_mismatch`, so the job ends with `retryable=false` although
nothing but a transport error happened, and its artifact is there. With reproducible outputs the
same property holds (`settles`). `interrupts`: `/interrupt` stops whatever ComfyUI runs. An execution
whose submission or history poll fails leaves its prompt in ComfyUI's queue; the next one's prompt
waits behind it, and a deadline, a cancellation or `cancel()` then stops the older prompt and leaves
the one it was meant for.

Some properties except what the code does not survive or does not promise, and say so:

- `NothingIsLeftRunning` of `EngineProcess`: a cancellation of the task while it cleans up. It leaves
  `_kill_group` between SIGTERM and SIGKILL (`engine.py:250-255`), and the stage may run on and stays registered,
  although the comment there says "Also on our own cancellation: never leave a stage running" (`617`).
- `CancelledIsGone`: a `plugin.cancel` over the local transport while the stage is being spawned. The job's event
  is in `_cancels` before its process is in `_running` (`524`, `603`), so the call sets the event and answers
  True (`776-780`), but only `context.cancel` is waited for (`605`): the stage runs to its end and its output is
  returned, although the module says it is "killing the whole group on cancel or timeout" (`10`). The model has
  this call (`TellsTheEvent`); a later one, once the process is registered, does kill it, and is covered.
- `NothingIsLeftBehind` of `EngineRunner`: requests that never arrive.
- `NothingIsLeftRunning` of `ComfyRuntime`: executions one of whose requests failed or whose task was
  cancelled.
- `HonestJobsVerify`: different revisions of the package on the two sides, a coordinator without the
  agent extras, and a job that pins the shared runtime fact of a worker whose profiles were inspected
  on different runtimes. Such a job fails for good although its worker did what it pins.
- `PinsWereTrue` is about the runtime as it was when it was checked; it may change while the job runs.
- `GraphIsWhole`: templates in which two slots share a node, or in which a slot's node or dependent is
  the output. No check of the document excludes them.
- `SchemaIsWhatPluginTakes`: an integer written as a float, which JSON Schema counts as an integer and
  the plugins refuse.

### Bounds

- `coordinator`: one request with two attempts that its host may submit under two job ids, two workers,
  two digests, two handlers. Two handlers are what a race needs, two attempts a stale token and a spent
  budget, two digests a mismatch.
  Jobs of different requests meet only in `ExpireExhausted` and in the choice of a candidate, which the proofs cover
  for any number.
- `admission`: one job, two tenants, the offers of `coordinator` and one that is unqualified, statuses
  active and revoked. `w1` is on the allowlist; hosts ask to enrol `w2` under three identity and tenant
  pairs that contradict each other, one of them with the identity of `w1`.
- `pool`: two agents, two slots, one job with two attempts that a plugin may also reject, one
  fault of any kind (`MaxFaults`) and one SIGTERM (`MaxStops`), anywhere.
- `settles`: one agent, two faults and one SIGTERM. Two agents need four connections before the
  property is about leases and not about connections, and 2.6 million states of liveness checking.
- `limiter`: three keys for two buckets, two calls per two units of time, steps of one or two units
  and one back, five units in all: a bucket refills twice, and a key is refused at capacity.
- `authentication`: three requests, one verifier slot and two threads, so that a request finds the
  slot taken by a thread whose caller left; a shared budget below the sum of the peers' own; one refill.
- `engine`: on the runner, two inputs, a retry after whatever the first execution left, two requests
  lost or stuck, two cancellations of the task; as subprocesses, one execution, since executions share
  nothing but `_running`, and a task cancelled twice.
- `content`: payloads of two containers of at most two items that may hold themselves and each other,
  against depth 2: a cycle, a shared child and a container too deep all occur. Eight template documents,
  of which three load, two stages, and every combination of a few values below, at and above each
  bound. Two revisions, four profiles, three runtimes, two attempts, two changes of anything: one
  between registration and lease and one between lease and verdict.
- `comfy`: three executions, two uploads, two stops of ComfyUI, one failed request. `interrupts` needs
  two executions and one failed request.
- Symmetry: handlers, workers and digests are interchangeable where the submissions and
  enrolments do not tell them apart; the liveness run uses none.

### Fairness

`FairPoolSpec` assumes that a handler or answer that can proceed does (asyncio runs every ready
task), that an agent goes on (likewise; an agent that ended is started again, `Restart=always` in
`src/deploy/agent/outbound-gpu-worker.service`; a plugin ends once its deadline has passed, which the plugins' runs
check; not at that moment, since each of its requests has a timeout of its own) and that time passes. It assumes nothing of the host, the faults or the heartbeats. The plugins' and authentication's runs assume that
a task whose await can return goes on, that time passes, that a verifier thread ends (its requests have
timeouts, `auth.py:85-87`), that the engine's runner answers and that an exit is noticed; never that a
stage, a process or a prompt ends of itself, or that ComfyUI comes back. `PluginFairness` of `EngineTransports` is that of
the transport in use. Weak fairness is enough, since nothing disables an agent's or a handler's next
step for ever.

## Proofs

The eight proof modules prove, for every value of the constants that satisfies the named assumptions
of the modules concerned (finitely many jobs and calls, `Nobody` not a worker, limits that are natural
numbers and the like; what is assumed of the data a job carries is listed below):

| Theorem | States |
|---|---|
| `Invariance` (`CoordinatorProofs`) | `Spec => []IInv` |
| `TypeCorrectness` | `Spec => []TypeOK` |
| `QueuedJobsCanBeClaimed` | `Spec => []QueuedHasBudget` |
| `ClaimsAreCoherent` | `Spec => []ClaimIsCoherent` |
| `CompletedOutputsAreStored` | `Spec => []CompletedOutputIsStored` |
| `TruthfulAudit` | `Spec => []AuditIsTruthful` |
| `LifecycleIsKept` | `Spec => KeepsLifecycle` |
| `ReplaysAreOriginal` | `Spec => ReplaysFindTheOriginal` |
| `TenantsApart` (`AdmissionProofs`) | `Spec => []TenantsNeverMix` |
| `RevocationHolds` | `Spec => RevokedIsNotAdmitted` |
| `BindingsStand` | `EnrollmentSpec => BindingsArePermanent` |
| `TenantsApartWhileEnrolling` | `EnrollmentSpec => []TenantsNeverMix` |
| `PoolImplementsCoordinator` (`PoolProofs`) | `PoolSpec => Spec` |
| `PoolKeepsLifecycle` | `PoolSpec => KeepsLifecycle` |
| `AgentsAreTyped` | `PoolSpec => []AgentsTypeOK` |
| `ConfirmationsAreFinal` | `PoolSpec => []ConfirmedIsFinal` |
| `IdleAgentsHoldNothing` | `PoolSpec => []IdleHoldsNothing`, if `NobodyIsTurnedAway` |
| `RejectionsAreThePlugins` | `PoolSpec => []OnlyRejectionsAreTerminal`, if `OneContent` |
| `BudgetsAreKept` (`LimiterProofs`) | `Spec => KeepsBudgets` |
| `IdleKeysMakeRoom` | `Spec => IdleKeysExpire` |
| `LimiterTypeCorrectness` | `Spec => []TypeOK` |
| `CapacityIsNeverLeaked` (`AuthenticationProofs`) | `Spec => []CapacityIsAccounted` |
| `VerifiersStayBounded` | `Spec => []VerifiersAreBounded` |
| `BudgetsStayApart` | `Spec => []NobodyDrawsMoreThanItsOwn` |
| `AuthTypeCorrectness` | `Spec => []TypeOK` |
| `PluginLeavesNothingRunning` (`EngineProcessProofs`) | `PluginSpec => []NothingIsLeftRunning` |
| `PluginCancelsWhatRuns` | `PluginSpec => []CancelledIsGone`, for a cancel that found the process |
| `PluginStatusesAreExitCodes` | `PluginSpec => []SignalsAreNoStatus` |
| `RunnerIsLeftClean` | `PluginSpec => []NothingIsLeftBehind` |
| `OutputsAreTheExecutions` | `PluginSpec => []OutputIsItsOwn` |
| `PluginTypeCorrectness` | `PluginSpec => []PluginTypeOK` |
| `EngineKeepsContract` | `PluginSpec => KeepsContract` |
| `NoPromptIsLeft` (`ComfyProofs`) | `Spec => []NothingIsLeftRunning` |
| `ComfyKeepsContract` | `Spec => KeepsContract` |
| `ComfyTypeCorrectness` | `Spec => []TypeOK` |
| `TreesAreDecided` (`JobContentProofs`) | `ContentSpec => []WalkDecides` |
| `SchemasAreWhatIsTaken` | `ContentSpec => []SchemaIsWhatPluginTakes` |
| `GraphsAreWhole` | `ContentSpec => []GraphIsWhole` |
| `PinsAreTrue` | `ContentSpec => []PinsWereTrue` |
| `HonestWorkersAreBelieved` | `ContentSpec => []HonestJobsVerify` |
| `UnqualifiedIsRefused` | `ContentSpec => []UnqualifiedIsNeverAccepted`, if `CapabilitiesAreKept` |

**The coordinator.** None of the properties is inductive. A handler about to write `complete` or `release` must be
known to have read something that is still true, so `IInv` adds to the rows' coherence
(`RowCoherent`, `TokensAreMinted`) what each handler knows (`HandlerKnowsItsClaim`) and why its
reading lasts (`ReadingsLast`): a verified object stays as it was since objects are created
once, and a claim that was not the last allowed one has a token below the budget, so that the
fence on the token admits the release only while attempts are still below the budget.

The argument is in three layers. Each statement of `JobStore` keeps `RowCoherent` and only
`Evolves` the tables: attempts grow, settled rows keep their status, minted tokens their owner,
objects their content (`SubmitKeeps` to `ElapseKeeps`, `UploadKeeps`). `SlotKept` shows that what
a handler knows survives any such step of somebody else. Each handler action then needs a
statement's lemma and the new state of its own slot (`AuthorizeKeeps` to `RecordKeeps`), and
`NextIInv` puts them together.

The refinement reads each row as the lifecycle does (`Seen`) and shows statement by statement
that what it sees stays or makes one of `Moves` (`SubmitMoves` to `ElapseMoves`); `IInv` supplies
the budget a released or failed job still has. From the same reading it follows that no row
disappears and that a completed one stays; with `OnlySubmitSubmits`, that keys stay unique, so that a
replay finds the original. `AdmissionProofs` strengthens `IInv` to
`AdmissionInv`: a revoked worker's row says so, and the tenant a handler read stays the worker's
until the claim, because a row is never unbound (`TenantsStay`). `OwnStep` shows that a handler's
`pc` moves by its own steps only, so that the enrolment check is the one way in.

**Enrolment.** `EnrollmentInv` adds to `AdmissionInv` that no identity is bound to two rows
(`SubjectsAreUnique`). `UpsertKeeps` is about the one statement both writers use: it keeps whatever
is bound, which is why neither the late enrolment nor the heartbeat it raced can rebind the row.

**The pool.** Agents are workers the coordinator was made for: what they send is in `AgentCalls`, which
`AgentCallsAssumption` puts among the coordinator's `Calls`, so each step of the pool is one of
`Coordinator` or leaves the tables alone, and all that is proved of the coordinator holds beside the
agents. `PoolInv` ties an agent to the handler that serves it: the call it awaits is its own, at the
await where it was made (`CallIsOwn`), what it serves was minted for it (`LeaseIsGranted`), and an
answer of 200 is only on its way after the statement took effect (`AnswerIsTrue`, `GrantIsMinted`). A
handler's step is described once, by what it does to its slot (`Continues`, `Answers`, `Takes`), and
used for every agent that may be waiting there. `ConfirmedIsFinal` then follows because a completed row stays as it is.

Two theorems name what the deployment has to grant. `IdleHoldsNothing` needs `NobodyIsTurnedAway`: a
worker that is not enrolled or was revoked is answered 403 and cannot give its job back. Without faults
every lease is known to its agent or on its way to it (`HolderKnows`), and no lease request is left
behind (`LeaseAwaited`). `OnlyRejectionsAreTerminal` needs `OneContent`, one content an output can
have, which is exactly what the run `nondeterministic` violates: then a stored object is what any
attempt attests (`AsksFairly`, `ServesFairly`), and no completion is refused.

**The limiter.** The table's type (one bucket per key, none above the limit) is inductive. The
refinement follows from what each operation does to the level of every key: a sweep takes only full
buckets, so no level changes (`SweepIsFree`; `SweptIsAnEnd` says that what a sweep takes is a prefix);
`Store` sets the level of its key and of no other (`OthersStay`, `StoreSetsLevel`); as the clock moves
a bucket earns at most what time earned it, which needs a lemma on products (`BucketEarns`). Idle keys
make room only because buckets lie in the order of their times while the clock never goes back
(`InOrder`): a sweep stops at the first bucket it may keep.

**Authentication.** `AuthInv` says that a call waits for a thread nobody else has, that the counters
count exactly the calls inside and the threads that run, and that what was drawn from a shared budget
and what is left of it balance (`Balanced`). A step moves one call, so a counter changes by one
(`OneCallIsCounted`).

**The plugins.** For the engine, `ProcessInv` adds that the stage that runs is the one registered
(`StageIsRegistered`), that reaping starts after the group is gone (`ReapingMeansGone`) and that the
code is the leader's (`CodeIsTheLeaders`); the same holds of the plugin with either transport. Over the
runner, `HttpInv` says what is known of the requests on the wire: until one goes astray they are
handled in order, so that with no stage under way the last of them is a DELETE (`DeleteIsLast`), after
which nothing is left; and what `run` reports is what this execution's own run made, whatever an
earlier one's late request did to the runner (`OutputIsKnown`). For
ComfyUI, `OnlyItsPrompt` says what is in the queue at each await while no request failed: nothing, or
the execution's own prompt, and then its interrupt cannot miss.

The refinement of `PluginExecution` goes action by action. What makes a step of the plugin one of the
promise is mostly what it leaves alone: on the runner, nothing but a `put` or a `run` the plugin sends in
its work makes a job. That nothing is held when an execution ends needs `OrderInv`: no
request on the wire is of a later execution (`RequestsAreEarlier`), an execution's DELETE is not sent
before its clean-up (`NoDeleteYet`), and while no request went astray it is the last on the wire until it is
answered, and then nothing is on the wire and no job is there (`AnsweredMeansGone`). For subprocesses it is
`ReapingMeansGone`, and for ComfyUI `OnlyItsPrompt`.

**What a job pins.** `ProfileInv` follows a recipe from the inspection to the verdict: what a worker
verified was shown by a runtime that passed (`AgentVerified`), its row says so while it polls
(`RowIsHeard`), a job it was given pins nothing else (`LeaseIsEligible`), the plugin is the one that
serves the capability (`PluginIsServed`), and what it reports is what it saw just before it ran
(`ReportIsInspected`). The verdict is the last step, so that the coordinator would still give it
(`VerdictIsLast`). What is accepted has one recipe, since the keys of recipes are distinct, and a
recipe's version names its profile. `UnqualifiedIsNeverAccepted` needs `CapabilitiesAreKept`:
the coordinator refuses an unqualified profile by its capabilities, and nothing in the code keeps a
capability from being moved to another profile in a later revision. A coordinator one revision ahead
would then accept the job from the profile it refuses.

**What a plugin takes.** `PluginInv` says what each phase knows of the lease. For graphs, `WholeAfter`
says what is true after *n* slots: the nodes are the template's without those that are gone, every link
left is one of the template's and leads to no node that is gone, and each slot bound so far has its
file. Slots that share no node do not disturb each other's files, and an output no slot takes stays. The
schemas are proved in both directions, entry by entry and slot by slot, since both the schema and the
check are made from the same declarations; the uniqueness of declared names carries it.

**The walk.** `IsTree` is stated without recursion, over the routes from the payload to whatever it
holds: none is too long, no two lead to one container, and none to a foreign value. While the walk goes
on, every route found so far was followed or lies ahead, in the order of the stack (`Walked`). A walk that
ends has followed them all: of the routes it missed one is shortest, and the route before that was followed,
which put the missed one ahead. A walk that refuses has a route that is too long, that leads where another
led, or to something foreign. The shortest route is found as the least element of a set (`WFMin`), not
by induction over the payload.

**What is assumed of the data.** `ContentAssumption` and `CatalogIsSound` say what the program's own data is,
and TLC evaluates them on the instances:

- `IsHeap`: scalars are not containers, and a container has a list of values.
- `IsDocument`: a template's document is parsed JSON in which a link is a link and no default is one
  (`ComfyTemplate`, `comfy.py:79-131`), and every node has its inputs. `_validate_template` does not check the
  last: where a node has none `_node_inputs` raises (`comfy.py:697`) and no graph is made.
- `IsStage`: a stage needs an input, none of its settings is called `inputs`, and its choices are no booleans
  (`engine_recipes.py:42-74`, "Integers only, never booleans, unless the choices are strings").
- `IsLease`: an `int` is whole, and a granted input is a key.
- `CatalogIsSound`: profiles have distinct names, an engine profile is qualified only with its
  pins (`engine_recipes.py:106-121`), and two revisions whose descriptions of a profile are equal give it the same
  capabilities, which are part of what is described (`machine_profiles.py:165-190`).

The type invariants of `Coordinator` and `ComfyRuntime` are no properties of a run of their own: the one
is a conjunct of `IInv`, the other is proved from the specification alone.

**Checked by TLC only**: the four liveness properties `JobSettles`, `BusyEnds`, `EveryExecutionEnds` and
`ExecutionEnds`, which are out of TLAPS's reach, as is everything that would need `ENABLED`. The three
disagreements are counterexamples TLC finds.

## Not modelled

- The expiry of a grant as a clock of its own. An agent's failed upload, which `WorkerAgent` has,
  stands for its effect.
- The comparison that tells a replay from another request under the same key, and the request digest,
  which are pure functions: neither a replay nor a conflict writes anything.
- The reads that change nothing: `worker_views`, `list_for_tenant`, `queue_depth`, plugins' `health`.
- The lengths of single strings and the encoded size of a payload; what becomes of output bytes.
- Parsing of the environment, the allowlist and credentials; launching ComfyUI and editing its flags;
  versions given in `MVS_WORKER_PROFILE_VERSIONS`, which nothing compares with the runtime.
- `nvidia-smi` output and shell scripts, which hold no state of the pool.
- `memory.py` replaces a row whose job id is submitted again under another idempotency key, where
  Postgres raises; identifiers are drawn by hosts once.

## Plan

*Done*, in this order: the tables, `Coordinator`, `JobLifecycle`, `WorkerAgent` and `Pool`; the
limiter and authentication; the plugins' executions; enrolment; what jobs carry at each gate; the
proofs of every safety property the runs check; what a plugin promises of an execution, and that the
engine's and ComfyUI's plugins keep it.

Left, the most important first:

1. Grant expiry in `AssetStore` and `WorkerAgent`.
2. The status views and the queue depth as state functions, compared with the rows they summarise.
