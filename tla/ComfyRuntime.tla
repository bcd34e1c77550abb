---------------------------- MODULE ComfyRuntime ----------------------------
(***************************************************************************)
(* comfy.py ComfyWorkflowPlugin: one execution after the other on a        *)
(* ComfyUI that runs its prompts in the order it got them.  ComfyUI is not *)
(* in the repository: it is modelled from what the plugin asks of it.  Its *)
(* queue and history are lost when somebody stops it, and /interrupt stops *)
(* the prompt it runs, whoever's that is.                                  *)
(***************************************************************************)
EXTENDS Integers, Sequences

CONSTANTS
  Slots,          \* how many images and audios the template binds
  MaxExecutions,  \* bound on the executions
  MaxFaults,      \* bound on requests and answers lost or refused, and on tasks cancelled
  MaxStops        \* bound on how often somebody stops ComfyUI

ASSUME RuntimeAssumption ==
  Slots \in Nat /\ MaxExecutions \in Nat /\ MaxFaults \in Nat /\ MaxStops \in Nat

VARIABLES
  at,         \* the await the execution is at
  execution,  \* its ordinal, which is its prompt's id as well
  todo,       \* media not uploaded yet
  prompt,     \* _prompts: the prompt cancel() would find, 0 for none
  overdue,    \* the startup timeout has passed
  late,       \* the execution's deadline has passed
  cancel,     \* context.cancel is set
  fate,       \* how the execution ended, or is about to
  outside,    \* the prompt a cancel() of another task found and has not interrupted yet, 0 for none
  up, queue, history,   \* ComfyUI: reachable, its prompts, what became of them
  faults, stops

plugin == <<at, execution, todo, prompt, fate>>
signals == <<overdue, late, cancel>>
comfy == <<up, queue, history>>
vars == <<plugin, signals, outside, comfy, faults, stops>>

Executions == 1..MaxExecutions
Tracked == {"poll", "sleep", "interrupt", "collect"}   \* the awaits in the scope of _prompts
Awaits == {"probe", "start", "wait", "upload", "submit"} \cup Tracked
Fates == {"none", "output", "failed", "timed_out", "cancelled", "unavailable", "killed"}

TypeOK ==
  /\ at \in Awaits \cup {"idle"} /\ fate \in Fates
  /\ execution \in 0..MaxExecutions /\ todo \in 0..Slots
  /\ prompt = IF at \in Tracked THEN execution ELSE 0
  /\ outside \in 0..MaxExecutions
  /\ overdue \in BOOLEAN /\ late \in BOOLEAN /\ cancel \in BOOLEAN
  /\ up \in BOOLEAN /\ queue \in Seq(Executions)
  /\ history \in [Executions -> {"none", "completed", "error"}]
  /\ faults \in 0..MaxFaults /\ stops \in 0..MaxStops

Init ==
  /\ at = "idle" /\ execution = 0 /\ todo = 0 /\ prompt = 0 /\ fate = "none" /\ outside = 0
  /\ overdue = FALSE /\ late = FALSE /\ cancel = FALSE
  /\ up = TRUE /\ queue = <<>> /\ history = [p \in Executions |-> "none"]
  /\ faults = 0 /\ stops = 0

Goto(where) == at' = where /\ UNCHANGED <<execution, todo, prompt, fate>>

\* The finally of execute: the prompt is tracked for the length of the execution and no longer.
Ends(f) == at' = "idle" /\ prompt' = 0 /\ fate' = f /\ UNCHANGED <<execution, todo>>

Begin ==
  /\ at = "idle" /\ execution < MaxExecutions
  /\ execution' = execution + 1 /\ todo' = Slots
  /\ at' = "probe" /\ fate' = "none"
  /\ overdue' = FALSE /\ late' = FALSE /\ cancel' = FALSE
  /\ UNCHANGED <<prompt, outside, comfy, faults, stops>>
-----------------------------------------------------------------------------
(* ensure_running.                                                         *)

\* The runtime is there: the media, then the graph.
ProbedUp ==
  /\ at \in {"probe", "wait"} /\ up
  /\ Goto(IF todo > 0 THEN "upload" ELSE "submit")
  /\ UNCHANGED <<signals, outside, comfy, faults, stops>>

\* It is not, and either there is a start command or there is none.
ProbedDown ==
  /\ at = "probe" /\ ~up
  /\ Goto("start") \/ Ends("unavailable")
  /\ UNCHANGED <<signals, outside, comfy, faults, stops>>

\* The start command ends, with any exit status, is killed after its own timeout, or is not found.
StartCommandEnds ==
  /\ at = "start"
  /\ \/ up' \in {up, TRUE} /\ Goto("wait")
     \/ up' = up /\ Ends("failed")
  /\ UNCHANGED <<signals, outside, queue, history, faults, stops>>

\* No further probe is sent; one in flight may still succeed.
StartupTimesOut ==
  /\ at = "wait" /\ overdue
  /\ Ends("unavailable")
  /\ UNCHANGED <<signals, outside, comfy, faults, stops>>
-----------------------------------------------------------------------------
(* execute: uploads, submission, polling, the artifact.                    *)

Uploaded ==
  /\ at = "upload" /\ up
  /\ todo' = todo - 1
  /\ at' = IF todo' > 0 THEN "upload" ELSE "submit"
  /\ UNCHANGED <<execution, prompt, fate, signals, outside, comfy, faults, stops>>

Queued == queue' = Append(queue, execution) /\ UNCHANGED <<up, history>>

\* Mistake: the loop looks at the cancellation only.
LoopTopOnCancel ==
  IF cancel THEN at' = "interrupt" /\ fate' = "cancelled" ELSE at' = "poll" /\ fate' = fate

\* Where the loop of _await_artifact goes from its top.
LoopTop ==
  IF cancel THEN at' = "interrupt" /\ fate' = "cancelled"
  ELSE IF late THEN at' = "interrupt" /\ fate' = "timed_out"
  ELSE at' = "poll" /\ fate' = fate

Submitted ==
  /\ at = "submit" /\ up
  /\ Queued
  /\ prompt' = execution
  /\ LoopTop
  /\ UNCHANGED <<execution, todo, signals, outside, faults, stops>>

\* What the history says: a prompt it does not know is polled again, and one may complete without an artifact.
Polled ==
  /\ at = "poll" /\ up
  /\ \/ history[execution] = "none" /\ Goto("sleep")
     \/ history[execution] = "completed" /\ Goto("collect")
     \/ history[execution] # "none" /\ Ends("failed")
  /\ UNCHANGED <<signals, outside, comfy, faults, stops>>

Wakes ==
  /\ at = "sleep"
  /\ LoopTop
  /\ UNCHANGED <<execution, todo, prompt, signals, outside, comfy, faults, stops>>

Collected ==
  /\ at = "collect" /\ up
  /\ Ends("output")
  /\ UNCHANGED <<signals, outside, comfy, faults, stops>>

\* /interrupt stops the prompt at the head of the queue.
Interrupt ==
  /\ up' = up
  /\ IF queue = <<>> THEN UNCHANGED <<queue, history>>
     ELSE queue' = Tail(queue) /\ history' = [history EXCEPT ![Head(queue)] = "error"]

\* Mistake: the deadline is raised without telling the runtime.
InterruptOnCancelOnly ==
  /\ at = "interrupt" /\ up
  /\ IF fate = "cancelled" THEN Interrupt ELSE UNCHANGED comfy
  /\ Ends(fate)
  /\ UNCHANGED <<signals, outside, faults, stops>>

\* Mistake: a prompt that completed just before its deadline counts as an output.
InterruptedTooLate ==
  /\ at = "interrupt" /\ up
  /\ Interrupt
  /\ Ends(IF history[execution] = "completed" THEN "output" ELSE fate)
  /\ UNCHANGED <<signals, outside, faults, stops>>

Interrupted ==
  /\ at = "interrupt" /\ up
  /\ Interrupt
  /\ Ends(fate)
  /\ UNCHANGED <<signals, outside, faults, stops>>

\* plugin.cancel(job_id), in another task: its /interrupt arrives later, or not at all.
PluginCancel ==
  /\ prompt # 0 /\ outside = 0
  /\ outside' = prompt
  /\ UNCHANGED <<plugin, signals, comfy, faults, stops>>

\* The execution goes on, and finds the error in the history.
OutsideInterrupt ==
  /\ outside # 0
  /\ outside' = 0
  /\ (up /\ Interrupt) \/ UNCHANGED comfy
  /\ UNCHANGED <<plugin, signals, faults, stops>>
-----------------------------------------------------------------------------
(* What goes wrong.                                                        *)

\* Nobody listens: the error ends the execution, an interrupt's as any other's.
Unreachable ==
  /\ at \in {"upload", "submit", "poll", "interrupt", "collect"}
  /\ ~up
  /\ Ends("failed")
  /\ UNCHANGED <<signals, outside, comfy, faults, stops>>

\* A status other than 2xx, a timeout, or an answer lost after the request was handled.
RequestFails ==
  /\ at \in {"upload", "submit", "poll", "interrupt", "collect"}
  /\ up /\ faults < MaxFaults
  /\ \/ UNCHANGED comfy
     \/ at = "submit" /\ Queued
     \/ at = "interrupt" /\ Interrupt
  /\ Ends("failed")
  /\ faults' = faults + 1
  /\ UNCHANGED <<signals, outside, stops>>

\* A probe that fails counts as down.
ProbeFails ==
  /\ at = "probe" /\ up /\ faults < MaxFaults
  /\ Goto("start") \/ Ends("unavailable")
  /\ faults' = faults + 1
  /\ UNCHANGED <<signals, outside, comfy, stops>>

\* The execution's own task is cancelled: nothing is said to the runtime.
Killed ==
  /\ at # "idle" /\ faults < MaxFaults
  /\ \/ UNCHANGED comfy
     \/ at = "submit" /\ up /\ Queued
     \/ at = "interrupt" /\ up /\ Interrupt
  /\ Ends("killed")
  /\ faults' = faults + 1
  /\ UNCHANGED <<signals, outside, stops>>

\* A helper stops ComfyUI, "to free the GPU for another product".
ComfyStops ==
  /\ up /\ stops < MaxStops
  /\ up' = FALSE /\ queue' = <<>> /\ history' = [p \in Executions |-> "none"]
  /\ stops' = stops + 1
  /\ UNCHANGED <<plugin, signals, outside, faults>>

\* Somebody else starts it, or the start command's effect takes a while.
ComfyStarts ==
  /\ ~up /\ up' = TRUE
  /\ UNCHANGED <<plugin, signals, outside, queue, history, faults, stops>>

PromptEnds ==
  /\ up /\ queue # <<>>
  /\ queue' = Tail(queue)
  /\ \E result \in {"completed", "error"} :
       history' = [history EXCEPT ![Head(queue)] = result]
  /\ UNCHANGED <<up, plugin, signals, outside, faults, stops>>

CancelJob ==
  /\ at # "idle" /\ ~cancel /\ cancel' = TRUE
  /\ UNCHANGED <<plugin, overdue, late, outside, comfy, faults, stops>>

TimePasses ==
  /\ at # "idle"
  /\ \/ at = "wait" /\ ~overdue /\ overdue' = TRUE /\ UNCHANGED late
     \/ ~late /\ late' = TRUE /\ UNCHANGED overdue
  /\ UNCHANGED <<plugin, cancel, outside, comfy, faults, stops>>
-----------------------------------------------------------------------------
Proceeds ==
  \/ ProbedUp \/ ProbedDown \/ StartCommandEnds \/ StartupTimesOut \/ Uploaded \/ Submitted
  \/ Polled \/ Wakes \/ Collected \/ Interrupted \/ Unreachable

Next ==
  \/ Begin \/ Proceeds \/ PluginCancel \/ OutsideInterrupt \/ RequestFails \/ ProbeFails \/ Killed
  \/ ComfyStops \/ ComfyStarts \/ PromptEnds \/ CancelJob \/ TimePasses

Spec == Init /\ [][Next]_vars

\* Tasks that can go on do, and time passes; a prompt need never end, nor ComfyUI come back.
FairSpec == Spec /\ WF_vars(Proceeds) /\ WF_vars(TimePasses)
-----------------------------------------------------------------------------
(* The GPU is free again: unless a request of the execution failed or its  *)
(* task was cancelled, no prompt of an execution that ended is running or  *)
(* queued, whichever of its prompt's end, the deadline, a cancellation, an *)
(* outside cancel() and a stop of ComfyUI came first.                      *)
NothingIsLeftRunning == (at = "idle" /\ faults = 0) => queue = <<>>

(* The plugin keeps what an execution promises: only its submission queues *)
(* a prompt, and it ends with its prompt through or interrupted, unless a  *)
(* request failed or its task was cancelled.                               *)
Phase ==
  CASE at = "idle" -> "idle"
    [] at \in {"probe", "start", "wait", "upload"} -> "checking"
    [] at = "interrupt" -> "ending"
    [] OTHER -> "working"

Contract == INSTANCE PluginExecution WITH
  phase <- Phase, held <- (queue # <<>>), astray <- (faults # 0)

KeepsContract == Contract!Spec

(* An execution ends by its deadline although its prompt never does, and   *)
(* although ComfyUI forgot the prompt when it was stopped or stays down.   *)
ExecutionEnds == (at # "idle") ~> (at = "idle")

(* "cancel interrupts only the job whose prompt is running": the prompt    *)
(* the plugin stops at a deadline, a cancellation or through cancel() is   *)
(* that of the execution concerned.                                        *)
Stops(p) == queue' = queue \/ Head(queue) = p
InterruptsOnlyItsOwn ==
  [][(Interrupted => Stops(execution)) /\ (OutsideInterrupt => Stops(outside))]_vars
=============================================================================
