-------------------------- MODULE EngineTransports --------------------------
(***************************************************************************)
(* engine.py AISmithEnginePlugin: the transport it was configured with     *)
(* decides whether its stages are subprocesses (EngineProcess) or jobs of  *)
(* the runner beside it (EngineRunner); execute, cancel and the deadline   *)
(* are the plugin's own in both.                                           *)
(***************************************************************************)
EXTENDS EngineProcess, Sequences

CONSTANTS Inputs, MaxExecutions, MaxFaults

ASSUME StageAssumption == Inputs \in Nat /\ MaxExecutions \in Nat /\ MaxFaults \in Nat

VARIABLES
  transport,                                  \* "local" or "http"
  request, nth, todo, expired, cancelled, ending, artifact, answer, wire, runner, faults, aborts

local == vars
http == <<request, nth, todo, expired, cancelled, ending, artifact, answer, wire, runner, faults, aborts>>
plugin == <<transport, local, http>>

Http == INSTANCE EngineRunner WITH
  at <- request, execution <- nth, late <- expired, cancel <- cancelled, fate <- ending, kills <- aborts

\* Either model starts idle; the other one stays there.
PluginInit == transport \in {"local", "http"} /\ Init /\ Http!Init /\ (transport = "http" => ~late)

Over(kind, step, others) == transport = kind /\ step /\ UNCHANGED <<transport, others>>

LocalStep == Over("local", Next, http)
HttpStep == Over("http", Http!Next, local)

PluginNext == LocalStep \/ HttpStep

PluginFairness ==
  /\ WF_plugin(Over("local", Proceeds, http))
  /\ WF_plugin(Over("local", TimePasses, http))
  /\ WF_plugin(Over("local", Notices /\ UNCHANGED <<execution, running, late, cancel, canceller, cut, kills>>, http))
  /\ WF_plugin(Over("http", Http!Proceeds, local))
  /\ WF_plugin(Over("http", Http!DeadlinePasses, local))
  /\ WF_plugin(Over("http", Http!Handles, local))

PluginSpec == PluginInit /\ [][PluginNext]_plugin /\ PluginFairness
-----------------------------------------------------------------------------
(* Both transports keep the plugin's state well-formed: the requests, the  *)
(* runner's job, the process group and what is registered as running.      *)
PluginTypeOK == TypeOK /\ Http!TypeOK

(* "Always: only DELETE removes the job's work directory on the runner":   *)
(* once an execution's requests have arrived nothing of the job is left.   *)
NothingIsLeftBehind == Http!NothingIsLeftBehind

(* The bytes an execution returns are those its own run made: not what a   *)
(* request of an earlier execution, handled late, left under the same job. *)
OutputIsItsOwn == Http!OutputIsItsOwn

(* Over either transport the plugin keeps what an execution promises: only *)
(* its work starts anything, what it gives up yields no output, and it     *)
(* lets go of all it started before it ends, unless a request went astray  *)
(* or its clean-up was itself cancelled.                                   *)
PluginPhase == IF transport = "local" THEN Phase ELSE Http!Phase
PluginFate == IF transport = "local" THEN fate ELSE ending
PluginHolds == IF transport = "local" THEN ~Gone ELSE Http!Holds
RequestsWentAstray == transport = "http" /\ faults # 0

Contract == INSTANCE PluginExecution WITH
  phase <- PluginPhase, fate <- PluginFate, held <- PluginHolds, astray <- RequestsWentAstray

KeepsContract == Contract!Spec

(* Over either transport every execution ends once its deadline has passed *)
(* although its processes ignore SIGTERM or the runner's stage never stops *)
(* (not at once: the runner's requests have timeouts of their own).        *)
EveryExecutionEnds == ExecutionEnds /\ Http!ExecutionEnds
=============================================================================
