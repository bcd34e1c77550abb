---------------------------- MODULE ComfyProofs -----------------------------
(***************************************************************************)
(* ComfyRuntime leaves no prompt behind, whatever the numbers of slots,    *)
(* executions and stops.                                                   *)
(***************************************************************************)
EXTENDS ComfyRuntime, SequenceTheorems, TLAPS

\* An execution has an ordinal; before its submission ComfyUI knows nothing of its prompt.
Unsubmitted == {"probe", "start", "wait", "upload", "submit"}

ExecutionsAreCounted == (at # "idle" => execution \in Executions) /\ (at = "upload" => todo > 0)

\* What ComfyUI may hold as long as no request failed: the prompt of the execution that waits for it.
OnlyItsPrompt ==
  faults = 0 =>
    /\ queue = <<>> \/ (queue = <<execution>> /\ at \in {"poll", "sleep", "interrupt"} /\ history[execution] = "none")
    /\ at \in Unsubmitted => history[execution] = "none"
    /\ \A p \in Executions : p > execution => history[p] = "none"

ComfyInv == TypeOK /\ ExecutionsAreCounted /\ (~up => queue = <<>>) /\ OnlyItsPrompt

USE DEF Executions, Tracked, Awaits, Fates, Unsubmitted
-----------------------------------------------------------------------------
(* The queue.                                                              *)

\* The first prompt of an idle ComfyUI is its only one, and taking it leaves none.
LEMMA OnePrompt ==
  ASSUME NEW p
  PROVE  Append(<<>>, p) = <<p>> /\ Head(<<p>>) = p /\ Tail(<<p>>) = <<>> /\ <<p>> # <<>>
  OBVIOUS

\* Prompts come and go.
LEMMA QueueTypes ==
  ASSUME TypeOK
  PROVE  /\ \A p \in Executions : Append(queue, p) \in Seq(Executions)
         /\ queue # <<>> => Head(queue) \in Executions /\ Tail(queue) \in Seq(Executions)
<1>1. queue \in Seq(Executions)
  BY DEF TypeOK
<1> HIDE DEF Executions
<1> QED
  BY <1>1, HeadTailProperties, AppendProperties

\* ComfyUI drops the prompt it runs, by its end or an interrupt: nothing else is affected.
LEMMA HeadGoes ==
  ASSUME TypeOK, queue # <<>>, NEW result \in {"completed", "error"},
         queue' = Tail(queue), history' = [history EXCEPT ![Head(queue)] = result]
  PROVE  /\ queue' \in Seq(Executions)
         /\ history' \in [Executions -> {"none", "completed", "error"}]
         /\ OnlyItsPrompt /\ faults = 0 =>
              queue' = <<>> /\ \A p \in Executions : p # execution => history'[p] = history[p]
<1>1. queue' \in Seq(Executions) /\ Head(queue) \in Executions
  BY QueueTypes
<1>2. history' \in [Executions -> {"none", "completed", "error"}]
  BY <1>1 DEF TypeOK
<1>3. ASSUME OnlyItsPrompt, faults = 0
      PROVE  queue' = <<>> /\ \A p \in Executions : p # execution => history'[p] = history[p]
  <2>1. queue = <<execution>>
    BY <1>3 DEF OnlyItsPrompt
  <2> QED
    BY <2>1, OnePrompt DEF TypeOK
<1> QED
  BY <1>1, <1>2, <1>3

\* An interrupt leaves whatever it does not stop.
LEMMA InterruptKeeps ==
  ASSUME TypeOK, Interrupt
  PROVE  /\ up' = up /\ queue' \in Seq(Executions)
         /\ history' \in [Executions -> {"none", "completed", "error"}]
         /\ queue = <<>> => queue' = <<>> /\ history' = history
         /\ OnlyItsPrompt /\ faults = 0 =>
              queue' = <<>> /\ \A p \in Executions : p # execution => history'[p] = history[p]
<1>1. CASE queue = <<>>
  BY <1>1 DEF Interrupt, TypeOK
<1>2. CASE queue # <<>>
  BY <1>2, HeadGoes DEF Interrupt
<1> QED
  BY <1>1, <1>2
-----------------------------------------------------------------------------
(* Every step keeps the invariant.                                         *)

\* Nothing runs at first.
LEMMA InitInv == Init => ComfyInv
<1> SUFFICES ASSUME Init PROVE ComfyInv
  OBVIOUS
<1>1. queue \in Seq(Executions) /\ history \in [Executions -> {"none", "completed", "error"}]
  BY DEF Init
<1>2. TypeOK
  <2>1. /\ at = "idle" /\ execution = 0 /\ todo = 0 /\ prompt = 0 /\ fate = "none" /\ outside = 0
        /\ overdue = FALSE /\ late = FALSE /\ cancel = FALSE /\ up = TRUE /\ faults = 0 /\ stops = 0
    BY DEF Init
  <2>2. /\ execution \in 0..MaxExecutions /\ todo \in 0..Slots /\ outside \in 0..MaxExecutions
        /\ faults \in 0..MaxFaults /\ stops \in 0..MaxStops
    BY <2>1, RuntimeAssumption
  <2> QED
    BY <1>1, <2>1, <2>2 DEF TypeOK
<1>3. OnlyItsPrompt
  BY DEF Init, OnlyItsPrompt
<1> QED
  BY <1>2, <1>3 DEF Init, ComfyInv, ExecutionsAreCounted

\* A step of the plugin that leaves ComfyUI alone keeps what is known of it.
LEMMA PluginMoves ==
  ASSUME ComfyInv, UNCHANGED <<execution, comfy>>, faults' \in {faults, faults + 1},
         at' \in Unsubmitted => at \in Unsubmitted,
         at \in {"poll", "sleep", "interrupt"} /\ at' \notin {"poll", "sleep", "interrupt"} /\ faults' = 0
           => queue = <<>>
  PROVE  (~up' => queue' = <<>>) /\ OnlyItsPrompt'
  BY DEF ComfyInv, OnlyItsPrompt, comfy, TypeOK

LEMMA NextInv == ComfyInv /\ [Next]_vars => ComfyInv'
<1> SUFFICES ASSUME ComfyInv, [Next]_vars PROVE ComfyInv'
  OBVIOUS
<1> USE RuntimeAssumption DEF ComfyInv, TypeOK, ExecutionsAreCounted
<1>1. CASE Begin
  <2>1. execution' \in Executions /\ execution' > execution
    BY <1>1 DEF Begin
  <2>2. TypeOK'
    <3>1. /\ at' = "probe" /\ fate' = "none" /\ todo' \in 0..Slots /\ prompt' = 0
          /\ overdue' = FALSE /\ late' = FALSE /\ cancel' = FALSE /\ UNCHANGED <<outside, up, queue, history, faults, stops>>
      BY <1>1 DEF Begin, comfy
    <3>2. at' \in Awaits \cup {"idle"} /\ fate' \in Fates /\ prompt' = IF at' \in Tracked THEN execution' ELSE 0
      BY <3>1
    <3>3. queue' \in Seq(Executions) /\ history' \in [Executions -> {"none", "completed", "error"}]
      BY <3>1
    <3>4. execution' \in 0..MaxExecutions
      BY <2>1
    <3> QED
      BY <3>1, <3>2, <3>3, <3>4
  <2>3. OnlyItsPrompt'
    BY <1>1, <2>1 DEF Begin, comfy, OnlyItsPrompt
  <2> QED
    BY <1>1, <2>1, <2>2, <2>3 DEF Begin, comfy
<1>2. CASE ProbedUp
  BY <1>2, PluginMoves DEF ProbedUp, Goto, signals, comfy
<1>3. CASE ProbedDown
  BY <1>3, PluginMoves DEF ProbedDown, Goto, Ends, signals, comfy
<1>4. CASE StartCommandEnds
  BY <1>4 DEF StartCommandEnds, Goto, Ends, signals, OnlyItsPrompt
<1>5. CASE StartupTimesOut
  BY <1>5, PluginMoves DEF StartupTimesOut, Ends, signals, comfy
<1>6. CASE Uploaded
  BY <1>6, PluginMoves DEF Uploaded, signals, comfy
<1>7. CASE Submitted
  BY <1>7, OnePrompt, QueueTypes DEF Submitted, Queued, LoopTop, signals, OnlyItsPrompt
<1>8. CASE Polled
  <2>1. UNCHANGED <<execution, todo, comfy, faults, stops, signals, outside>>
    BY <1>8 DEF Polled, Goto, Ends
  <2>2. \/ at' = "sleep" /\ UNCHANGED <<prompt, fate>>
        \/ at' = "collect" /\ history[execution] # "none" /\ UNCHANGED <<prompt, fate>>
        \/ at' = "idle" /\ history[execution] # "none" /\ prompt' = 0 /\ fate' = "failed"
    BY <1>8 DEF Polled, Goto, Ends
  <2>3. faults' = 0 /\ at' # "sleep" => queue = <<>>
    BY <2>1, <2>2 DEF OnlyItsPrompt
  <2>4. (~up' => queue' = <<>>) /\ OnlyItsPrompt'
    BY <1>8, <2>1, <2>2, <2>3, PluginMoves DEF Polled
  <2> QED
    BY <1>8, <2>1, <2>2, <2>4 DEF Polled, signals, comfy
<1>9. CASE Wakes
  BY <1>9, PluginMoves DEF Wakes, LoopTop, signals, comfy
<1>10. CASE Collected
  BY <1>10, PluginMoves DEF Collected, Ends, signals, comfy
<1>11. CASE Interrupted
  <2>1. at' = "idle" /\ prompt' = 0 /\ fate' = fate /\ UNCHANGED <<execution, todo, signals, outside, faults, stops>>
    BY <1>11 DEF Interrupted, Ends
  <2>2. up' = up /\ up /\ queue' \in Seq(Executions) /\ history' \in [Executions -> {"none", "completed", "error"}]
    BY <1>11, InterruptKeeps DEF Interrupted
  <2>3. OnlyItsPrompt'
    <3>1. faults = 0 => queue' = <<>> /\ \A p \in Executions : p # execution => history'[p] = history[p]
      BY <1>11, InterruptKeeps DEF Interrupted
    <3>2. \A p \in Executions : p > execution => p # execution
      OBVIOUS
    <3> QED
      BY <2>1, <3>1, <3>2 DEF OnlyItsPrompt
  <2> QED
    BY <1>11, <2>1, <2>2, <2>3 DEF signals
<1>12. CASE Unreachable
  BY <1>12, PluginMoves DEF Unreachable, Ends, signals, comfy
<1>13. CASE PluginCancel
  BY <1>13, PluginMoves DEF PluginCancel, plugin, signals, comfy
<1>14. CASE OutsideInterrupt
  BY <1>14, InterruptKeeps DEF OutsideInterrupt, plugin, signals, comfy, OnlyItsPrompt
<1>15. CASE RequestFails
  <2>1. /\ at' = "idle" /\ prompt' = 0 /\ fate' = "failed" /\ faults' = faults + 1 /\ faults' \in 0..MaxFaults
        /\ UNCHANGED <<execution, todo, signals, outside, stops>>
    BY <1>15 DEF RequestFails, Ends
  <2>2. up' = up /\ up /\ queue' \in Seq(Executions) /\ history' \in [Executions -> {"none", "completed", "error"}]
    BY <1>15, InterruptKeeps, QueueTypes DEF RequestFails, Queued, comfy
  <2> QED
    BY <2>1, <2>2 DEF signals, OnlyItsPrompt
<1>16. CASE ProbeFails
  BY <1>16, PluginMoves DEF ProbeFails, Goto, Ends, signals, comfy
<1>17. CASE Killed
  <2>1. /\ at' = "idle" /\ prompt' = 0 /\ fate' = "killed" /\ faults' = faults + 1 /\ faults' \in 0..MaxFaults
        /\ UNCHANGED <<execution, todo, signals, outside, stops>>
    BY <1>17 DEF Killed, Ends
  <2>2. /\ up' = up /\ queue' \in Seq(Executions) /\ history' \in [Executions -> {"none", "completed", "error"}]
        /\ ~up => queue' = <<>>
    BY <1>17, InterruptKeeps, QueueTypes DEF Killed, Queued, comfy
  <2> QED
    BY <2>1, <2>2 DEF signals, OnlyItsPrompt
<1>18. CASE ComfyStops
  <2>1. queue' = <<>> /\ queue' \in Seq(Executions) /\ history' = [p \in Executions |-> "none"]
    BY <1>18 DEF ComfyStops
  <2>2. UNCHANGED <<at, execution, todo, prompt, fate, signals, outside, faults>> /\ up' = FALSE /\ stops' \in 0..MaxStops
    BY <1>18 DEF ComfyStops, plugin
  <2>3. OnlyItsPrompt'
    BY <2>1, <2>2 DEF OnlyItsPrompt
  <2>4. history' \in [Executions -> {"none", "completed", "error"}]
    BY <2>1
  <2> QED
    BY <2>1, <2>2, <2>3, <2>4 DEF signals
<1>19. CASE ComfyStarts
  BY <1>19 DEF ComfyStarts, plugin, signals, OnlyItsPrompt
<1>20. CASE PromptEnds
  BY <1>20, HeadGoes DEF PromptEnds, plugin, signals, OnlyItsPrompt
<1>21. CASE CancelJob
  <2>1. cancel' = TRUE /\ UNCHANGED <<plugin, overdue, late, outside, comfy, faults, stops>>
    BY <1>21 DEF CancelJob
  <2> QED
    BY <2>1, PluginMoves DEF plugin, comfy
<1>22. CASE TimePasses
  <2>1. overdue' \in BOOLEAN /\ late' \in BOOLEAN /\ at # "idle"
        /\ UNCHANGED <<plugin, cancel, outside, comfy, faults, stops>>
    BY <1>22 DEF TimePasses
  <2>2. UNCHANGED <<at, execution, comfy>> /\ faults' = faults
    BY <2>1 DEF plugin
  <2>3. (~up' => queue' = <<>>) /\ OnlyItsPrompt'
    BY <2>2, PluginMoves
  <2> QED
    BY <2>1, <2>2, <2>3 DEF plugin, comfy
<1>23. CASE UNCHANGED vars
  BY <1>23, PluginMoves DEF vars, plugin, signals, comfy
<1> QED
  BY <1>1, <1>2, <1>3, <1>4, <1>5, <1>6, <1>7, <1>8, <1>9, <1>10, <1>11, <1>12, <1>13, <1>14, <1>15, <1>16,
     <1>17, <1>18, <1>19, <1>20, <1>21, <1>22, <1>23 DEF Next, Proceeds

\* The invariant holds whatever ComfyUI, its helpers and the clock do.
THEOREM ComfyInvariance == Spec => []ComfyInv
  BY InitInv, NextInv, PTL DEF Spec

\* The plugin's state and ComfyUI's keep their types.
THEOREM ComfyTypeCorrectness == Spec => []TypeOK
<1>1. ComfyInv => TypeOK
  BY DEF ComfyInv
<1> QED
  BY <1>1, ComfyInvariance, PTL

\* As long as no request failed, no prompt outlives its execution.
THEOREM NoPromptIsLeft == Spec => []NothingIsLeftRunning
<1>1. ComfyInv => NothingIsLeftRunning
  BY DEF ComfyInv, OnlyItsPrompt, NothingIsLeftRunning
<1> QED
  BY <1>1, ComfyInvariance, PTL
-----------------------------------------------------------------------------
(* An execution is one of PluginExecution.                                 *)

\* The queue is empty at first, and at the ends of executions that had no faults.
LEMMA InitIsInit == Init => Contract!Init
  BY DEF Init, Contract!Init, Phase

\* A prompt is queued by the submission alone; whatever else happens drops prompts.
LEMMA StepIsStep == ComfyInv /\ [Next]_vars => [Contract!Next]_(Contract!execution)
<1> SUFFICES ASSUME ComfyInv, [Next]_vars PROVE [Contract!Next]_(Contract!execution)
  OBVIOUS
<1> DEFINE AddsNothing == queue = <<>> => queue' = <<>>
<1>0. /\ TypeOK /\ OnlyItsPrompt /\ (~up => queue = <<>>) /\ faults \in Nat
      /\ (at = "upload" => todo > 0) /\ todo \in Nat /\ (at # "idle" => execution \in Executions)
  BY RuntimeAssumption DEF ComfyInv, ExecutionsAreCounted, TypeOK
<1>1. CASE Begin
  BY <1>1 DEF Begin, Phase, comfy, Contract!Next, Contract!Begins, Contract!AddsNothing
<1>2. CASE ProbedUp \/ Uploaded
  BY <1>2 DEF ProbedUp, Uploaded, Goto, Phase, comfy, Contract!Next, Contract!Works, Contract!LetsGo,
     Contract!AddsNothing
<1>3. CASE ProbedDown \/ StartCommandEnds \/ StartupTimesOut \/ ProbeFails
  <2>1. /\ at \in {"probe", "start", "wait"} /\ queue' = queue
        /\ \/ at' \in {"start", "wait"} /\ fate' = fate
           \/ at' = "idle" /\ fate' \in {"unavailable", "failed"}
    BY <1>3 DEF ProbedDown, StartCommandEnds, StartupTimesOut, ProbeFails, Goto, Ends, comfy
  <2>2. faults' \in {faults, faults + 1}
    BY <1>3 DEF ProbedDown, StartCommandEnds, StartupTimesOut, ProbeFails
  <2> QED
    BY <1>0, <2>1, <2>2 DEF Phase, Contract!Next, Contract!Abandons, Contract!LetsGo, Contract!AddsNothing,
       Contract!Outcomes
<1>4. CASE Submitted
  BY <1>4 DEF Submitted, LoopTop, Phase, Contract!Next, Contract!Works, Contract!Decides, Contract!Outcomes
<1>5. CASE Polled
  <2>1. history[execution] # "none" /\ faults = 0 => queue = <<>>
    BY <1>0, <1>5 DEF Polled, OnlyItsPrompt
  <2> QED
    BY <1>0, <1>5, <2>1 DEF Polled, Goto, Ends, Phase, comfy, Contract!Next, Contract!Works, Contract!Finishes,
       Contract!Outcomes
<1>6. CASE Wakes
  BY <1>6 DEF Wakes, LoopTop, Phase, comfy, Contract!Next, Contract!Works, Contract!Decides, Contract!Outcomes
<1>7. CASE Collected
  <2>1. faults = 0 => queue = <<>>
    BY <1>0, <1>7 DEF Collected, OnlyItsPrompt
  <2> QED
    BY <1>7, <2>1 DEF Collected, Ends, Phase, comfy, Contract!Next, Contract!Finishes, Contract!Outcomes
<1>8. CASE Interrupted
  <2>1. (faults = 0 => queue' = <<>>) /\ AddsNothing
    BY <1>0, <1>8, InterruptKeeps DEF Interrupted
  <2> QED
    BY <1>8, <2>1 DEF Interrupted, Ends, Phase, Contract!Next, Contract!Ends, Contract!AddsNothing
<1>9. CASE PluginCancel \/ CancelJob \/ TimePasses \/ ComfyStarts
  BY <1>9 DEF PluginCancel, CancelJob, TimePasses, ComfyStarts, plugin, comfy, Phase, Contract!Next, Contract!LetsGo,
     Contract!AddsNothing
<1>10. CASE OutsideInterrupt
  <2>1. AddsNothing
    BY <1>0, <1>10, InterruptKeeps DEF OutsideInterrupt, comfy
  <2> QED
    BY <1>10, <2>1 DEF OutsideInterrupt, plugin, Phase, Contract!Next, Contract!LetsGo, Contract!AddsNothing
<1>11. CASE Unreachable
  <2>1. queue = <<>> /\ queue' = <<>>
    BY <1>0, <1>11 DEF Unreachable, comfy
  <2> QED
    BY <1>11, <2>1 DEF Unreachable, Ends, Phase, Contract!Next, Contract!Abandons, Contract!Finishes, Contract!Ends,
       Contract!AddsNothing, Contract!Outcomes
<1>12. CASE RequestFails \/ Killed
  <2>1. faults' # 0 /\ at' = "idle" /\ fate' \in {"failed", "killed"}
    BY <1>0, <1>12 DEF RequestFails, Killed, Ends
  <2>2. at # "submit" => AddsNothing
    BY <1>0, <1>12, InterruptKeeps DEF RequestFails, Killed, comfy
  <2>3. at # "idle"
    BY <1>12 DEF RequestFails, Killed
  <2> QED
    BY <2>1, <2>2, <2>3 DEF Phase, Contract!Next, Contract!Abandons, Contract!Finishes, Contract!Ends,
       Contract!AddsNothing, Contract!Outcomes
<1>13. CASE ComfyStops \/ PromptEnds
  <2>1. AddsNothing /\ UNCHANGED <<at, fate, faults>>
    BY <1>13 DEF ComfyStops, PromptEnds, plugin
  <2> QED
    BY <2>1 DEF Phase, Contract!Next, Contract!LetsGo, Contract!AddsNothing
<1>14. CASE UNCHANGED vars
  BY <1>14 DEF vars, plugin, comfy, Phase, Contract!execution
<1> QED
  BY <1>1, <1>2, <1>3, <1>4, <1>5, <1>6, <1>7, <1>8, <1>9, <1>10, <1>11, <1>12, <1>13, <1>14 DEF Next, Proceeds

\* Whatever ComfyUI does, only work on an execution queues a prompt, and without a fault its end finds none.
THEOREM ComfyKeepsContract == Spec => KeepsContract
  BY InitIsInit, StepIsStep, ComfyInvariance, PTL DEF Spec, KeepsContract, Contract!Spec
=============================================================================
