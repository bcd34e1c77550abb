--------------------------- MODULE PluginExecution ---------------------------
(***************************************************************************)
(* What a plugin promises the agent about each execution, whichever local  *)
(* runtime it drives (GpuExecutorPlugin in plugins.py): how it ends is     *)
(* decided while it works, what was started is let go of before it ends,   *)
(* and nothing is started once it was given up.                            *)
(***************************************************************************)

VARIABLES
  phase,    \* "checking": the runtime is looked at, nothing is started; "ending": the clean-up
  fate,     \* how the execution ends, once that is decided
  held,     \* something of the plugin's runs, waits or is kept on the machine
  astray    \* a request to the runtime went wrong at some time: what it holds is not known

execution == <<phase, fate, held, astray>>

Outcomes ==
  {"output", "rejected", "failed", "timed_out", "cancelled", "drift", "unavailable", "killed"}

Init == phase = "idle" /\ fate = "none" /\ held = FALSE /\ astray = FALSE

\* Earlier things may still be held when an execution begins, but only its work adds to them.
AddsNothing == held' => held

Begins == phase = "idle" /\ phase' = "checking" /\ fate' = "none" /\ AddsNothing

\* Its time was over before it began.
Declines == phase = "idle" /\ phase' = "idle" /\ fate' = "timed_out" /\ AddsNothing

Works ==
  /\ phase \in {"checking", "working"} /\ phase' = "working"
  /\ fate' = fate /\ held' \in BOOLEAN

\* An execution is given up for a reason, or its output is at hand: what it holds is next.
Decides ==
  /\ phase = "working" /\ phase' = "ending"
  /\ fate' \in Outcomes /\ held' \in BOOLEAN

\* Nothing was started: there is nothing to let go of, and no output.
Abandons ==
  /\ phase = "checking" /\ phase' = "idle"
  /\ fate' \in Outcomes \ {"output", "rejected"} /\ AddsNothing

\* An execution that needs no clean-up, or whose clean-up is atomic.
Finishes ==
  /\ phase = "working" /\ phase' = "idle"
  /\ fate' \in Outcomes
  /\ held' => astray'

\* The clean-up is through; it can fail, or be cancelled itself, but what was given up yields no output.
Ends ==
  /\ phase = "ending" /\ phase' = "idle"
  /\ fate' \in {fate, "failed", "killed"} /\ AddsNothing
  /\ held' => astray' \/ fate' = "killed"

\* What is held ends of itself, is stopped or is forgotten.
LetsGo == phase' = phase /\ fate' = fate /\ AddsNothing

Next ==
  /\ astray => astray'
  /\ \/ Begins \/ Declines \/ Works \/ Decides \/ Abandons \/ Finishes \/ Ends \/ LetsGo

Spec == Init /\ [][Next]_execution
=============================================================================
