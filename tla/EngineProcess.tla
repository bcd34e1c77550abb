--------------------------- MODULE EngineProcess ----------------------------
(***************************************************************************)
(* engine.py AISmithEnginePlugin over its local transport: one execution,  *)
(* that is, the engine's inspection and then the stage, each a process     *)
(* leading a group of its own.  The group gets SIGTERM and, after a grace, *)
(* SIGKILL, from the execution, from plugin.cancel in another task, or     *)
(* from both.                                                              *)
(***************************************************************************)
EXTENDS Integers

CONSTANT MaxKills   \* bound on cancellations of the execution's own task

ASSUME KillsAssumption == MaxKills \in Nat

VARIABLES
  at,           \* the await the execution is at
  what,         \* the process it is about
  group,        \* that process and what it started
  running,      \* _running holds the stage's process
  late,         \* the bound of the wait has passed
  cancel,       \* context.cancel is set
  fate,
  canceller,    \* the await plugin.cancel is at, or how its last call answered True
  cut,          \* history: the execution's clean-up was itself cancelled
  kills

execution == <<at, what, fate>>
vars == <<execution, group, running, late, cancel, canceller, cut, kills>>

Statuses == {"ok", "failed", "rejected"}
Fates == {"none", "output", "drift", "timed_out", "cancelled", "killed"} \cup Statuses

\* "leader" is the process itself, "noticed" that asyncio has its return code, "others" what it started.
Group == [leader : {"none", "alive", "exited"}, code : {"none", "signal", "crash"} \cup Statuses,
          result : {"none"} \cup Statuses, noticed : BOOLEAN, others : BOOLEAN, terminated : BOOLEAN]
NoGroup == [leader |-> "none", code |-> "none", result |-> "none",
            noticed |-> FALSE, others |-> FALSE, terminated |-> FALSE]

Gone == group.leader # "alive" /\ ~group.others

Steps == {"spawning", "waiting", "grace", "reaping"}

TypeOK ==
  /\ at \in Steps \cup {"idle", "over"} /\ what \in {"inspect", "run"} /\ fate \in Fates
  /\ group \in Group
  /\ running \in BOOLEAN /\ late \in BOOLEAN /\ cancel \in BOOLEAN /\ cut \in BOOLEAN
  /\ canceller \in {"idle", "told", "grace", "reaping", "killed"}
  /\ kills \in 0..MaxKills
  /\ running => cut \/ (what = "run" /\ at \in {"waiting", "grace", "reaping"})
  /\ group.noticed => group.leader = "exited"

Init ==
  /\ at = "idle" /\ what = "inspect" /\ fate = "none" /\ group = NoGroup
  /\ running = FALSE /\ late \in BOOLEAN /\ cancel = FALSE
  /\ canceller = "idle" /\ cut = FALSE /\ kills = 0
-----------------------------------------------------------------------------
(* Signals, as os.killpg sends them: to a group that may be gone already.  *)

Sigterm == group' = [group EXCEPT !.terminated = TRUE]

\* Mistake: only the leader is killed.
SigkillLeader ==
  group' = IF group.leader = "alive"
             THEN [group EXCEPT !.leader = "exited", !.code = "signal"] ELSE group

Sigkill ==
  group' = [group EXCEPT !.others = FALSE,
              !.leader = IF @ = "alive" THEN "exited" ELSE @,
              !.code = IF group.leader = "alive" THEN "signal" ELSE @]

\* Mistake: the process stays registered.
EndsRegistered(f) == at' = "over" /\ fate' = f /\ UNCHANGED <<what, running>>

Ends(f) == at' = "over" /\ fate' = f /\ running' = FALSE /\ UNCHANGED what

\* _kill_group up to its first await: SIGTERM and the grace, or SIGKILL at once for stragglers.
StartKilling(f) ==
  IF group.noticed
    THEN Sigkill /\ Ends(f)
    ELSE Sigterm /\ at' = "grace" /\ fate' = f /\ UNCHANGED <<what, running>>
-----------------------------------------------------------------------------
(* The execution.                                                          *)

\* An expired context starts no process.
Begin ==
  /\ at = "idle"
  /\ IF late THEN Ends("timed_out") ELSE at' = "spawning" /\ UNCHANGED <<what, fate, running>>
  /\ UNCHANGED <<group, late, cancel, canceller, cut, kills>>

Spawned ==
  /\ at = "spawning"
  /\ group' = [NoGroup EXCEPT !.leader = "alive"]
  /\ at' = "waiting"
  /\ running' = (what = "run")
  /\ UNCHANGED <<what, fate, late, cancel, canceller, cut, kills>>

SpawnFails ==
  /\ at = "spawning"
  /\ Ends("failed")
  /\ UNCHANGED <<group, late, cancel, canceller, cut, kills>>

\* run_inspect returns; the stage is next if the report is that of the registered engine.
Inspected ==
  /\ at = "waiting" /\ what = "inspect" /\ group.noticed
  /\ Sigkill
  /\ \/ Ends("drift")
     \/ group.code = "ok" /\ late /\ Ends("timed_out")
     \/ /\ group.code = "ok" /\ ~late
        /\ at' = "spawning" /\ what' = "run" /\ UNCHANGED <<fate, running>>
  /\ UNCHANGED <<late, cancel, canceller, cut, kills>>

\* Mistake: result.json is believed whatever the exit code.
VerdictOfResult == IF group.result \in {"ok", "rejected"} THEN group.result ELSE "failed"

\* The exit code is a status and the one result.json reports; a signal or a crash is neither.
Verdict == IF group.code = group.result /\ group.code \in {"ok", "rejected"} THEN group.code ELSE "failed"

\* The stage's leader exited: stragglers are killed before its result and output are read and checked.
StageOver ==
  /\ at = "waiting" /\ what = "run" /\ group.noticed
  /\ Sigkill
  /\ \E f \in IF Verdict = "ok" THEN {"output", "failed"} ELSE {Verdict} : Ends(f)
  /\ UNCHANGED <<late, cancel, canceller, cut, kills>>

\* Mistake: there is no bound on the wait.
GiveUpWhenCancelled ==
  /\ at = "waiting"
  /\ what = "run" /\ cancel /\ StartKilling("cancelled")
  /\ UNCHANGED <<late, cancel, canceller, cut, kills>>

\* The bound of the wait, or a cancellation of the job, which an inspection does not look at.
GiveUp ==
  /\ at = "waiting"
  /\ \/ what = "run" /\ cancel /\ StartKilling("cancelled")
     \/ late /\ StartKilling("timed_out")
     \/ what = "inspect" /\ late /\ StartKilling("drift")
  /\ UNCHANGED <<late, cancel, canceller, cut, kills>>

\* The leader has exited, or the grace is over: whatever is left is killed.
GraceEnds ==
  /\ at = "grace"
  /\ Sigkill
  /\ IF group.noticed THEN Ends(fate) ELSE at' = "reaping" /\ UNCHANGED <<what, fate, running>>
  /\ UNCHANGED <<late, cancel, canceller, cut, kills>>

\* Mistake: a stage that exits in its grace is taken for one that was waited for.
ReapedWithOutput ==
  /\ at = "reaping" /\ group.noticed
  /\ Ends(IF Verdict = "ok" THEN "output" ELSE fate)
  /\ UNCHANGED <<group, late, cancel, canceller, cut, kills>>

Reaped ==
  /\ at = "reaping" /\ group.noticed
  /\ Ends(fate)
  /\ UNCHANGED <<group, late, cancel, canceller, cut, kills>>

\* CancelledError at the wait runs the finally; at an await of the finally it ends it there.
Killed ==
  /\ at \in Steps /\ kills < MaxKills
  /\ kills' = kills + 1
  /\ \/ at = "spawning" /\ Ends("killed") /\ UNCHANGED <<group, cut>>
     \/ at = "waiting" /\ StartKilling("killed") /\ UNCHANGED cut
     \/ /\ at \in {"grace", "reaping"}
        /\ at' = "over" /\ fate' = "killed" /\ cut' = TRUE
        /\ UNCHANGED <<what, group, running>>
  /\ UNCHANGED <<late, cancel, canceller>>
-----------------------------------------------------------------------------
(* plugin.cancel, in another task, on the process _running holds.  One     *)
(* that is still being spawned is not there yet, but _cancels has an event *)
(* for its job: it is set, nothing over this transport waits for it, and   *)
(* the answer is True as well.                                             *)

OnlyItsEventIsKnown == at = "spawning" /\ what = "run" /\ ~running

TellsTheEvent == OnlyItsEventIsKnown /\ canceller' = "told" /\ UNCHANGED group

\* Mistake: SIGTERM is left to work.
CancelPolitely ==
  /\ canceller \notin {"grace", "reaping"}
  /\ \/ running /\ Sigterm /\ canceller' = "killed"
     \/ TellsTheEvent
  /\ UNCHANGED <<execution, running, late, cancel, cut, kills>>

\* Where neither knows the job the answer is False and nothing changes.
PluginCancel ==
  /\ canceller \notin {"grace", "reaping"}
  /\ \/ running /\ group.noticed /\ Sigkill /\ canceller' = "killed"
     \/ running /\ ~group.noticed /\ Sigterm /\ canceller' = "grace"
     \/ TellsTheEvent
  /\ UNCHANGED <<execution, running, late, cancel, cut, kills>>

CancelGraceEnds ==
  /\ canceller = "grace"
  /\ Sigkill
  /\ canceller' = IF group.noticed THEN "killed" ELSE "reaping"
  /\ UNCHANGED <<execution, running, late, cancel, cut, kills>>

CancelReturns ==
  /\ canceller = "reaping" /\ group.noticed
  /\ canceller' = "killed"
  /\ UNCHANGED <<execution, group, running, late, cancel, cut, kills>>
-----------------------------------------------------------------------------
(* The processes, the clock and the job.                                   *)

Forks == group.leader = "alive" /\ group' = [group EXCEPT !.others = TRUE]

OthersExit == group.others /\ group' = [group EXCEPT !.others = FALSE]

\* The leader exits of itself, crashes, or obeys SIGTERM; its children may outlive it.
Exits ==
  /\ group.leader = "alive"
  /\ \E code \in Statuses \cup {"crash"} \cup (IF group.terminated THEN {"signal"} ELSE {}),
        result \in {"none"} \cup Statuses :
       group' = [group EXCEPT !.leader = "exited", !.code = code, !.result = result]

\* The child watcher reports the leader's exit.
Notices == group.leader = "exited" /\ ~group.noticed /\ group' = [group EXCEPT !.noticed = TRUE]

ProcessStep ==
  /\ Forks \/ OthersExit \/ Exits \/ Notices
  /\ UNCHANGED <<execution, running, late, cancel, canceller, cut, kills>>

TimePasses ==
  /\ ~late /\ late' = TRUE
  /\ UNCHANGED <<execution, group, running, cancel, canceller, cut, kills>>

CancelJob ==
  /\ at \in Steps /\ ~cancel /\ cancel' = TRUE
  /\ UNCHANGED <<execution, group, running, late, canceller, cut, kills>>
-----------------------------------------------------------------------------
Proceeds == Spawned \/ SpawnFails \/ Inspected \/ StageOver \/ GiveUp \/ GraceEnds \/ Reaped
Cancels == PluginCancel \/ CancelGraceEnds \/ CancelReturns

Next == Begin \/ Proceeds \/ Killed \/ Cancels \/ ProcessStep \/ TimePasses \/ CancelJob

Spec == Init /\ [][Next]_vars

\* Awaits that can return do, time passes and exits are noticed; a process need never exit.
FairSpec ==
  /\ Spec
  /\ WF_vars(Proceeds) /\ WF_vars(TimePasses)
  /\ WF_vars(Notices /\ UNCHANGED <<execution, running, late, cancel, canceller, cut, kills>>)
-----------------------------------------------------------------------------
(* "Never leave a stage running", nor what it started: neither the leader  *)
(* nor a straggler outlives the execution, however the exit, the deadline, *)
(* cancellations and plugin.cancel race, unless the execution's own task   *)
(* is cancelled while it cleans up.                                        *)
NothingIsLeftRunning == (at = "over" /\ ~cut) => Gone

(* A plugin.cancel that found the stage's process returns once nothing of  *)
(* it is alive, also when the execution is killing the same group or is    *)
(* cancelled while it does, and when an earlier cancel came too soon: one  *)
(* that was called during the spawn answers True and stops nothing.        *)
CancelledIsGone == canceller = "killed" => Gone

(* "A crash or signal is never an engine status, whatever result.json      *)
(* says": no output or rejection is taken from a stage that was killed.    *)
SignalsAreNoStatus == fate \in {"output", "rejected"} => group.code \in Statuses

(* What PluginExecution sees of an execution.                              *)
Phase ==
  CASE at \in {"idle", "over"} -> "idle"
    [] at = "spawning" /\ what = "inspect" -> "checking"
    [] at \in {"grace", "reaping"} -> "ending"
    [] OTHER -> "working"

(* An execution ends after its deadline and a grace although its processes *)
(* ignore SIGTERM and never exit of themselves.                            *)
ExecutionEnds == (at \in Steps) ~> (at = "over")
=============================================================================
