---------------------------- MODULE EngineRunner ----------------------------
(***************************************************************************)
(* engine.py AISmithEnginePlugin over its http transport: one job's stage  *)
(* on the engine sidecar.  An execution inspects the engine, PUTs inputs,  *)
(* POSTs run and waits for it, GETs the output and DELETEs the job; its    *)
(* deadline, a cancellation of the job, the cancellation of its own task   *)
(* and the runner's answers race at every await.  The runner itself is not *)
(* in the repository: it is modelled from what the plugin asks of it.      *)
(***************************************************************************)
EXTENDS Integers, Sequences

CONSTANTS
  Inputs,         \* how many inputs the stage takes
  MaxExecutions,  \* how often the job is executed: a retry finds what the last one left
  MaxFaults,      \* bound on requests lost, or stuck on their way
  MaxKills        \* bound on cancellations of the execution's own task

VARIABLES
  at,         \* the await the execution is at, that is, the request it waits for
  execution,  \* its ordinal
  todo,       \* inputs not uploaded yet
  late,       \* its deadline has passed
  cancel,     \* the job was cancelled: context.cancel, or the event plugin.cancel sets
  fate,       \* how the execution ends, once its finally blocks are through
  artifact,   \* the digest its run reported, then that of the file it fetched
  answer,     \* the answer to the request it waits for
  wire,       \* requests the runner has not handled, oldest first
  runner,     \* the job on the runner's side
  faults, kills

progress == <<execution, todo>>
signals == <<late, cancel>>
vars == <<at, progress, signals, fate, artifact, answer, wire, runner, faults, kills>>

Awaits == {"inspect", "put", "run", "stop", "fetch", "delete"}
Fates == {"none", "output", "rejected", "failed", "timed_out", "cancelled", "drift", "killed"}
Digests == 0..MaxExecutions   \* each execution makes its own output; 0 is none
Answer == [status : {"none", "ok", "failed", "rejected", "refused", "lost"}, digest : Digests]
Request == [verb : Awaits, execution : 1..MaxExecutions, stuck : BOOLEAN]

NoAnswer == [status |-> "none", digest |-> 0]
Answers(status) == answer' = [status |-> status, digest |-> 0]
NoJob == [dir |-> FALSE, running |-> 0, output |-> 0]

TypeOK ==
  /\ at \in Awaits \cup {"idle"} /\ fate \in Fates
  /\ execution \in Digests /\ todo \in 0..Inputs /\ artifact \in Digests
  /\ late \in BOOLEAN /\ cancel \in BOOLEAN
  /\ answer \in Answer /\ wire \in Seq(Request)
  /\ runner \in [dir : BOOLEAN, running : Digests, output : Digests]
  /\ faults \in 0..MaxFaults /\ kills \in 0..MaxKills

Init ==
  /\ at = "idle" /\ execution = 0 /\ todo = 0 /\ late = FALSE /\ cancel = FALSE
  /\ fate = "none" /\ artifact = 0 /\ answer = NoAnswer /\ wire = <<>>
  /\ runner = NoJob /\ faults = 0 /\ kills = 0
-----------------------------------------------------------------------------
(* The execution.                                                          *)

Awaited(r) == r.verb = at /\ r.execution = execution /\ ~r.stuck

\* The next request leaves while the wire is w.
SendOn(w, verb) ==
  /\ at' = verb
  /\ wire' = Append(w, [verb |-> verb, execution |-> execution, stuck |-> FALSE])
  /\ answer' = NoAnswer

Send(verb) == SendOn(wire, verb)

\* The wire once its i-th request is handled, or lost.
Without(i) == SubSeq(wire, 1, i - 1) \o SubSeq(wire, i + 1, Len(wire))

\* A request given up may have reached the runner's socket or not.
GivenUp == {wire} \cup {Without(i) : i \in {k \in DOMAIN wire : Awaited(wire[k])}}

Finally(f) == fate' = f /\ Send("delete")

Answered(statuses) == answer.status \in statuses

Begin ==
  /\ at = "idle" /\ execution < MaxExecutions
  /\ execution' = execution + 1 /\ todo' = Inputs
  /\ at' = "inspect"
  /\ late' = FALSE /\ cancel' = FALSE
  /\ fate' = "none" /\ artifact' = 0 /\ answer' = NoAnswer
  /\ UNCHANGED <<wire, runner, faults, kills>>

\* Nothing is on the runner yet, so nothing is cleaned up.
InspectionFails ==
  /\ at = "inspect"
  /\ at' = "idle"
  /\ fate' = IF late THEN "timed_out" ELSE "drift"
  /\ UNCHANGED <<progress, signals, artifact, answer, wire, runner, faults, kills>>

\* Mistake: the loop over the inputs goes round once more.
StageStepOneMore ==
  IF late THEN Finally("timed_out")
  ELSE fate' = fate /\ Send(IF todo' >= 0 THEN "put" ELSE "run")

\* The next input, or the stage once all are uploaded; past the deadline neither.
StageStep ==
  IF late THEN Finally("timed_out")
  ELSE fate' = fate /\ Send(IF todo' > 0 THEN "put" ELSE "run")

Inspected ==
  /\ at = "inspect" /\ ~late
  /\ UNCHANGED todo
  /\ StageStep
  /\ UNCHANGED <<execution, signals, artifact, runner, faults, kills>>

InputUploaded ==
  /\ at = "put" /\ Answered({"ok"})
  /\ todo' = todo - 1
  /\ StageStep
  /\ UNCHANGED <<execution, signals, artifact, runner, faults, kills>>

\* The result is checked, and its output fetched within the time that is left.
RunReported ==
  /\ at = "run" /\ Answered({"ok"})
  /\ artifact' = answer.digest
  /\ IF late THEN Finally("timed_out") ELSE Send("fetch") /\ fate' = fate
  /\ UNCHANGED <<progress, signals, runner, faults, kills>>

\* "rejected" is terminal; every other answer to run, and every refusal, is a failure.
Fails ==
  /\ at \in {"put", "run", "fetch"} /\ Answered({"failed", "rejected", "refused", "lost"})
  /\ Finally(IF answer.status = "rejected" THEN "rejected" ELSE "failed")
  /\ UNCHANGED <<progress, signals, artifact, runner, faults, kills>>

\* Mistake: the file is taken without comparing it with the result.
OutputTaken ==
  /\ at = "fetch" /\ Answered({"ok"})
  /\ artifact' = answer.digest
  /\ Finally("output")
  /\ UNCHANGED <<progress, signals, runner, faults, kills>>

\* Size and sha256 are those the result reported.
OutputFetched ==
  /\ at = "fetch" /\ Answered({"ok"})
  /\ artifact' = answer.digest
  /\ Finally(IF answer.digest = artifact THEN "output" ELSE "failed")
  /\ UNCHANGED <<progress, signals, runner, faults, kills>>

\* A transfer's timeout is the time the stage has left.
TransferTimesOut ==
  /\ at \in {"put", "fetch"} /\ late /\ answer = NoAnswer
  /\ \E w \in GivenUp : SendOn(w, "delete")
  /\ fate' = "timed_out"
  /\ UNCHANGED <<progress, signals, artifact, runner, faults, kills>>

\* Mistake: the deadline is left to the runner.
StopWhenCancelled ==
  /\ at = "run" /\ answer = NoAnswer /\ cancel
  /\ fate' = "cancelled"
  /\ \E w \in GivenUp : SendOn(w, "stop")
  /\ UNCHANGED <<progress, signals, artifact, runner, faults, kills>>

\* The wait for run ends with a cancellation or the deadline: the runner is told to stop.
StopWaiting ==
  /\ at = "run" /\ answer = NoAnswer /\ (cancel \/ late)
  /\ fate' = IF cancel THEN "cancelled" ELSE "timed_out"
  /\ \E w \in GivenUp : SendOn(w, "stop")
  /\ UNCHANGED <<progress, signals, artifact, runner, faults, kills>>

\* What the runner says to the cancellation is not looked at.
Stopped ==
  /\ at = "stop" /\ answer # NoAnswer
  /\ Send("delete")
  /\ UNCHANGED <<progress, signals, fate, artifact, runner, faults, kills>>

Deleted ==
  /\ at = "delete" /\ answer # NoAnswer
  /\ at' = "idle" /\ answer' = NoAnswer
  /\ UNCHANGED <<progress, signals, fate, artifact, wire, runner, faults, kills>>

\* RUNNER_REQUEST_SECONDS without an answer.
RequestTimesOut ==
  /\ at \in {"stop", "delete"} /\ answer = NoAnswer /\ faults < MaxFaults
  /\ \E w \in GivenUp :
       IF at = "stop" THEN SendOn(w, "delete")
       ELSE at' = "idle" /\ wire' = w /\ answer' = NoAnswer
  /\ faults' = faults + 1
  /\ UNCHANGED <<progress, signals, fate, artifact, runner, kills>>
-----------------------------------------------------------------------------
(* What happens to the execution.                                          *)

DeadlinePasses ==
  /\ at # "idle" /\ ~late /\ late' = TRUE
  /\ UNCHANGED <<at, progress, cancel, fate, artifact, answer, wire, runner, faults, kills>>

CancelJob ==
  /\ at # "idle" /\ ~cancel /\ cancel' = TRUE
  /\ UNCHANGED <<at, progress, late, fate, artifact, answer, wire, runner, faults, kills>>

\* Mistake: the finally of the wait tells the runner nothing.
KilledQuietly ==
  /\ at \in Awaits \ {"delete"} /\ kills < MaxKills
  /\ kills' = kills + 1
  /\ fate' = "killed"
  /\ at' = "idle" /\ answer' = NoAnswer /\ wire' \in GivenUp
  /\ UNCHANGED <<progress, signals, artifact, runner, faults>>

\* CancelledError at an await: the finally blocks run, and the one of the wait swallows a second.
Killed ==
  /\ at \in Awaits \ {"delete"} /\ kills < MaxKills
  /\ kills' = kills + 1
  /\ fate' = IF at = "stop" THEN fate ELSE "killed"
  /\ \E w \in GivenUp :
       CASE at = "inspect" -> at' = "idle" /\ UNCHANGED <<wire, answer>>
         [] at = "run" /\ answer = NoAnswer -> SendOn(w, "stop")
         [] OTHER -> SendOn(w, "delete")
  /\ UNCHANGED <<progress, signals, artifact, runner, faults>>

\* During the DELETE, which may then never leave: a request lost.
KilledAtTheEnd ==
  /\ at = "delete" /\ kills < MaxKills
  /\ kills' = kills + 1
  /\ at' = "idle" /\ fate' = "killed" /\ answer' = NoAnswer
  /\ wire' \in GivenUp
  /\ faults' = IF wire' = wire THEN faults ELSE faults + 1
  /\ faults' <= MaxFaults
  /\ UNCHANGED <<progress, signals, artifact, runner>>

\* The connection breaks: the request never arrives, or is stuck on its way, or its answer is.
ConnectionFails ==
  /\ at \in Awaits \ {"inspect"} /\ answer = NoAnswer /\ faults < MaxFaults
  /\ faults' = faults + 1
  /\ Answers("lost")
  /\ \/ wire' \in GivenUp
     \/ wire' = [i \in DOMAIN wire |->
                   IF Awaited(wire[i]) THEN [wire[i] EXCEPT !.stuck = TRUE] ELSE wire[i]]
  /\ UNCHANGED <<at, progress, signals, fate, artifact, runner, kills>>

\* Requests on different connections: one that was given up may arrive after later ones.
Stalls ==
  /\ faults < MaxFaults
  /\ \E i \in DOMAIN wire :
       /\ ~wire[i].stuck /\ ~Awaited(wire[i])
       /\ wire' = [wire EXCEPT ![i].stuck = TRUE]
  /\ faults' = faults + 1
  /\ UNCHANGED <<at, progress, signals, fate, artifact, answer, runner, kills>>
-----------------------------------------------------------------------------
(* The runner, which handles requests in their order but for those stuck.  *)

Tells(r, status, digest) ==
  answer' = IF Awaited(r) THEN [status |-> status, digest |-> digest] ELSE answer

\* The stage is stopped; an execution that still waits for it is told that it failed.
StageStops(r) ==
  answer' = IF Awaited(r) THEN [status |-> "ok", digest |-> 0]
            ELSE IF at = "run" /\ runner.running = execution /\ answer = NoAnswer
              THEN [status |-> "failed", digest |-> 0]
            ELSE answer

StoresInput(r) ==
  /\ r.verb = "put"
  /\ \/ runner' = [runner EXCEPT !.dir = TRUE] /\ Tells(r, "ok", 0)
     \/ UNCHANGED runner /\ Tells(r, "refused", 0)

\* 409 while a stage runs.
StartsStage(r) ==
  /\ r.verb = "run"
  /\ \/ /\ runner.running = 0
        /\ runner' = [dir |-> TRUE, running |-> r.execution, output |-> 0]
        /\ UNCHANGED answer
     \/ UNCHANGED runner /\ Tells(r, "refused", 0)

StopsStage(r) ==
  /\ r.verb = "stop"
  /\ runner' = [runner EXCEPT !.running = 0]
  /\ StageStops(r)

ServesOutput(r) ==
  /\ r.verb = "fetch"
  /\ UNCHANGED runner
  /\ IF runner.output # 0 THEN Tells(r, "ok", runner.output) ELSE Tells(r, "refused", 0)

RemovesJob(r) ==
  /\ r.verb = "delete"
  /\ runner' = NoJob
  /\ StageStops(r)

Handles ==
  /\ \E i \in DOMAIN wire :
       /\ wire[i].stuck \/ \A k \in 1..(i - 1) : wire[k].stuck
       /\ wire' = Without(i)
       /\ \/ StoresInput(wire[i]) \/ StartsStage(wire[i]) \/ StopsStage(wire[i])
          \/ ServesOutput(wire[i]) \/ RemovesJob(wire[i])
  /\ UNCHANGED <<at, progress, signals, fate, artifact, faults, kills>>

\* The stage ends by itself, by a crash or by the deadline the runner was given.
StageEnds ==
  /\ runner.running # 0
  /\ \E status \in {"ok", "failed", "rejected"} :
       LET made == IF status = "ok" THEN runner.running ELSE 0 IN
       /\ runner' = [runner EXCEPT !.running = 0, !.output = made]
       /\ answer' = IF at = "run" /\ runner.running = execution /\ answer = NoAnswer
                      THEN [status |-> status, digest |-> made] ELSE answer
  /\ UNCHANGED <<at, progress, signals, fate, artifact, wire, faults, kills>>
-----------------------------------------------------------------------------
Proceeds ==
  \/ InspectionFails \/ Inspected \/ InputUploaded \/ RunReported \/ Fails \/ OutputFetched
  \/ TransferTimesOut \/ StopWaiting \/ Stopped \/ Deleted

Disturbs == CancelJob \/ Killed \/ KilledAtTheEnd \/ ConnectionFails \/ Stalls \/ RequestTimesOut

Next == Begin \/ Proceeds \/ DeadlinePasses \/ Disturbs \/ Handles \/ StageEnds

Spec == Init /\ [][Next]_vars

\* Time passes and tasks that can go on do; the runner answers, but a stage need never end.
Fairness == WF_vars(Proceeds) /\ WF_vars(DeadlinePasses) /\ WF_vars(Handles)

FairSpec == Spec /\ Fairness
-----------------------------------------------------------------------------
(* "Always: only DELETE removes the job's work directory on the runner",   *)
(* and "never leave a stage running": however the deadline, cancellations  *)
(* and answers race, once the execution has ended and its requests have    *)
(* arrived nothing of the job is left, unless a request went astray.       *)
NothingIsLeftBehind ==
  (at = "idle" /\ wire = <<>> /\ faults = 0) => runner = NoJob

(* The bytes an execution returns are those its own run made: not what a   *)
(* request of an earlier execution, handled late, left under the same job. *)
OutputIsItsOwn == fate = "output" => artifact = execution

(* What PluginExecution sees of an execution.                              *)
Phase ==
  CASE at = "idle" -> "idle"
    [] at = "inspect" -> "checking"
    [] at \in {"stop", "delete"} -> "ending"
    [] OTHER -> "working"

\* The job is there, or a request that makes it is on its way.
Holds == runner # NoJob \/ \E i \in DOMAIN wire : wire[i].verb \in {"put", "run"}

(* The client keeps its own deadline: an execution ends although the stage *)
(* never does, and lets go of the runner on its way out.                   *)
ExecutionEnds == (at # "idle") ~> (at = "idle")
=============================================================================
