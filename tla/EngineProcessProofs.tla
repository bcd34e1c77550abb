------------------------ MODULE EngineProcessProofs -------------------------
(***************************************************************************)
(* What EngineProcess leaves behind, for any number of cancellations of    *)
(* the execution's task, by itself and under EngineTransports.             *)
(***************************************************************************)
EXTENDS EngineTransports, TLAPS

\* Before the first process, between two of them and for a registered stage.
StageIsRegistered ==
  /\ at = "idle" => group = NoGroup /\ canceller = "idle" /\ what = "inspect" /\ fate = "none"
  /\ at = "spawning" => Gone /\ canceller \in {"idle", "told"}
  /\ at \in Steps \ {"spawning"} => group.leader # "none"
  /\ running => what = "run" /\ at \notin {"idle", "spawning"}
  /\ cut => at = "over"
  /\ canceller # "idle" => what = "run"

\* After SIGKILL nothing is alive: who reaps waits only for the exit to be noticed.
ReapingMeansGone == at = "reaping" \/ canceller \in {"reaping", "killed"} => Gone

\* An exit code that was believed is kept, since the leader exits once.
CodeIsTheLeaders ==
  /\ group.leader = "alive" => group.code = "none"
  /\ fate \in {"output", "rejected"} => at = "over" /\ group.leader # "alive"

ProcessInv ==
  /\ TypeOK /\ StageIsRegistered /\ ReapingMeansGone /\ CodeIsTheLeaders
  /\ NothingIsLeftRunning /\ SignalsAreNoStatus
-----------------------------------------------------------------------------
(* The signals.                                                            *)

\* SIGTERM is only remembered.
LEMMA SigtermTerminates ==
  ASSUME group \in Group, Sigterm
  PROVE  /\ group' \in Group
         /\ group'.leader = group.leader /\ group'.code = group.code
         /\ group'.noticed = group.noticed /\ group'.others = group.others
  BY DEF Group, Sigterm

\* SIGKILL ends the leader, by a signal unless it has exited, and the others.
LEMMA SigkillKills ==
  ASSUME group \in Group, Sigkill
  PROVE  /\ group' \in Group
         /\ group'.leader = (IF group.leader = "alive" THEN "exited" ELSE group.leader)
         /\ group'.code = (IF group.leader = "alive" THEN "signal" ELSE group.code)
         /\ group'.noticed = group.noticed /\ ~group'.others
  BY DEF Group, Sigkill

-----------------------------------------------------------------------------
(* Every step keeps the invariant.                                         *)

USE DEF Steps, Fates, Statuses

\* Nothing was started.
LEMMA NothingStarted ==
  /\ NoGroup \in Group /\ NoGroup.leader = "none" /\ NoGroup.code = "none"
  /\ NoGroup.noticed = FALSE /\ NoGroup.others = FALSE
  BY DEF NoGroup, Group

\* The plugin starts with no process.
LEMMA InitInv == Init => ProcessInv
<1> SUFFICES ASSUME Init PROVE ProcessInv
  OBVIOUS
<1>1. /\ at = "idle" /\ what = "inspect" /\ fate = "none" /\ group = NoGroup /\ canceller = "idle"
      /\ running = FALSE /\ late \in BOOLEAN /\ cancel = FALSE /\ cut = FALSE /\ kills = 0
  BY DEF Init
<1>2. TypeOK
  <2>1. kills \in 0..MaxKills
    BY <1>1, KillsAssumption
  <2>2. group \in Group /\ (group.noticed => group.leader = "exited")
    BY <1>1, NothingStarted
  <2> QED
    BY <1>1, <2>1, <2>2 DEF TypeOK
<1>3. StageIsRegistered /\ ReapingMeansGone /\ CodeIsTheLeaders
  BY <1>1, NothingStarted DEF StageIsRegistered, ReapingMeansGone, CodeIsTheLeaders
<1>4. NothingIsLeftRunning /\ SignalsAreNoStatus
  BY <1>1 DEF NothingIsLeftRunning, SignalsAreNoStatus
<1> QED
  BY <1>2, <1>3, <1>4 DEF ProcessInv

\* What every step of the execution that kills and ends, or starts to kill, leaves behind.
LEMMA StartKillingKeeps ==
  ASSUME ProcessInv, at = "waiting", NEW f \in Fates \ {"output", "rejected"}, StartKilling(f),
         UNCHANGED <<late, cancel, canceller, cut>>, kills' \in 0..MaxKills
  PROVE  ProcessInv'
<1>1. CASE group.noticed
  BY <1>1, SigkillKills DEF ProcessInv, TypeOK, StageIsRegistered, ReapingMeansGone, CodeIsTheLeaders,
     NothingIsLeftRunning, SignalsAreNoStatus, Gone, StartKilling, Ends
<1>2. CASE ~group.noticed
  BY <1>2, SigtermTerminates DEF ProcessInv, TypeOK, StageIsRegistered, ReapingMeansGone, CodeIsTheLeaders,
     NothingIsLeftRunning, SignalsAreNoStatus, Gone, StartKilling
<1> QED
  BY <1>1, <1>2
\* Every step of the execution, of plugin.cancel, of the processes, the clock and the job.
LEMMA NextInv == ProcessInv /\ [Next]_vars => ProcessInv'
<1> SUFFICES ASSUME ProcessInv, [Next]_vars PROVE ProcessInv'
  OBVIOUS
<1> USE DEF ProcessInv, TypeOK, StageIsRegistered, ReapingMeansGone, CodeIsTheLeaders,
            NothingIsLeftRunning, SignalsAreNoStatus, Gone
<1>1. CASE Begin
  BY <1>1, NothingStarted DEF Begin, Ends
<1>2. CASE Spawned
  <2>1. /\ group' \in Group /\ group'.leader = "alive" /\ group'.code = "none"
        /\ ~group'.noticed
    BY <1>2 DEF Spawned, NoGroup, Group
  <2> QED
    BY <1>2, <2>1 DEF Spawned
<1>3. CASE SpawnFails
  BY <1>3 DEF SpawnFails, Ends
<1>4. CASE Inspected
  <2>1. /\ group' \in Group /\ Gone' /\ group'.leader = "exited"
        /\ UNCHANGED <<late, cancel, canceller, cut, kills>>
    BY <1>4, SigkillKills DEF Inspected
  <2>2. CASE \E f \in {"drift", "timed_out"} : Ends(f)
    BY <2>1, <2>2 DEF Ends
  <2>3. CASE at' = "spawning" /\ what' = "run" /\ UNCHANGED <<fate, running>>
    <3>1. ~running /\ canceller \in {"idle", "told"} /\ ~cut /\ fate \notin {"output", "rejected"}
      BY <1>4 DEF Inspected
    <3> QED
      BY <2>1, <2>3, <3>1
  <2> QED
    BY <1>4, <2>2, <2>3 DEF Inspected
<1>5. CASE StageOver
  <2>1. PICK f \in IF Verdict = "ok" THEN {"output", "failed"} ELSE {Verdict} : Ends(f)
    BY <1>5 DEF StageOver
  <2>2. f \in {"output", "rejected"} => group.code \in Statuses
    BY <2>1 DEF Verdict
  <2>3. f \in {"output", "rejected", "failed"}
    BY <2>1 DEF Verdict
  <2> QED
    BY <1>5, <2>1, <2>2, <2>3, SigkillKills DEF StageOver, Ends
<1>6. CASE GiveUp
  <2>1. PICK f \in {"cancelled", "timed_out", "drift"} : StartKilling(f)
    BY <1>6 DEF GiveUp
  <2> QED
    BY <1>6, <2>1, StartKillingKeeps DEF GiveUp
<1>7. CASE GraceEnds
  <2>1. CASE group.noticed
    BY <1>7, <2>1, SigkillKills DEF GraceEnds, Ends
  <2>2. CASE ~group.noticed
    BY <1>7, <2>2, SigkillKills DEF GraceEnds
  <2> QED
    BY <2>1, <2>2
<1>8. CASE Reaped
  <2>1. /\ at = "reaping" /\ group.noticed /\ at' = "over" /\ fate' = fate /\ running' = FALSE
        /\ UNCHANGED <<what, group, late, cancel, canceller, cut, kills>>
    BY <1>8 DEF Reaped, Ends
  <2> QED
    BY <2>1
<1>9. CASE Killed
  <2>1. kills' \in 0..MaxKills
    BY <1>9, KillsAssumption DEF Killed
  <2>2. CASE at = "spawning"
    BY <1>9, <2>1, <2>2 DEF Killed, Ends
  <2>3. CASE at = "waiting"
    BY <1>9, <2>1, <2>3, StartKillingKeeps DEF Killed
  <2>4. CASE at \in {"grace", "reaping"}
    <3>1. at' = "over" /\ fate' = "killed" /\ cut' = TRUE
      BY <1>9, <2>4 DEF Killed
    <3>2. UNCHANGED <<what, group, running, late, cancel, canceller>>
      BY <1>9, <2>4 DEF Killed
    <3>3. TypeOK'
      BY <2>1, <3>1, <3>2
    <3>4. StageIsRegistered'
      BY <2>4, <3>1, <3>2
    <3> QED
      BY <2>4, <3>1, <3>2, <3>3, <3>4
  <2> QED
    BY <1>9, <2>2, <2>3, <2>4 DEF Killed
<1>10. CASE PluginCancel
  <2>1. CASE running /\ group.noticed /\ Sigkill /\ canceller' = "killed"
    BY <1>10, <2>1, SigkillKills DEF PluginCancel, execution
  <2>2. CASE running /\ ~group.noticed /\ Sigterm /\ canceller' = "grace"
    BY <1>10, <2>2, SigtermTerminates DEF PluginCancel, execution
  <2>3. CASE TellsTheEvent
    BY <1>10, <2>3 DEF PluginCancel, execution, TellsTheEvent, OnlyItsEventIsKnown
  <2> QED
    BY <1>10, <2>1, <2>2, <2>3 DEF PluginCancel
<1>11. CASE CancelGraceEnds
  BY <1>11, SigkillKills DEF CancelGraceEnds, execution
<1>12. CASE CancelReturns
  BY <1>12 DEF CancelReturns, execution
<1>13. CASE ProcessStep
  <2>1. CASE Forks
    <3>1. /\ group' \in Group /\ group'.leader = group.leader /\ group'.code = group.code
          /\ group'.noticed = group.noticed
      BY <2>1 DEF Forks, Group
    <3> QED
      BY <1>13, NothingStarted, <2>1, <3>1 DEF Forks, ProcessStep, execution
  <2>2. CASE OthersExit
    <3>1. /\ group' \in Group /\ group'.leader = group.leader /\ group'.code = group.code
          /\ group'.noticed = group.noticed /\ ~group'.others
      BY <2>2 DEF OthersExit, Group
    <3> QED
      BY <1>13, NothingStarted, <2>2, <3>1 DEF OthersExit, ProcessStep, execution
  <2>3. CASE Exits
    <3>1. PICK code \in Statuses \cup {"crash", "signal"}, result \in {"none"} \cup Statuses :
            group' = [group EXCEPT !.leader = "exited", !.code = code, !.result = result]
      BY <2>3 DEF Exits
    <3>2. /\ group' \in Group /\ group'.leader = "exited"
          /\ group'.noticed = group.noticed /\ group'.others = group.others
      BY <3>1 DEF Group
    <3>3. group.leader = "alive" /\ UNCHANGED <<at, what, fate, running, late, cancel, canceller, cut, kills>>
      BY <1>13, <2>3 DEF Exits, ProcessStep, execution
    <3>4. fate \notin {"output", "rejected"} /\ at \notin {"idle", "spawning", "reaping"} /\ ~Gone
      BY <3>3, NothingStarted
    <3> QED
      BY <3>2, <3>3, <3>4
  <2>4. CASE Notices
    <3>1. /\ group' \in Group /\ group'.leader = group.leader /\ group'.code = group.code
          /\ group'.others = group.others
      BY <2>4 DEF Notices, Group
    <3> QED
      BY <1>13, NothingStarted, <2>4, <3>1 DEF Notices, ProcessStep, execution
  <2> QED
    BY <1>13, <2>1, <2>2, <2>3, <2>4 DEF ProcessStep
<1>14. CASE TimePasses
  BY <1>14 DEF TimePasses, execution
<1>15. CASE CancelJob
  BY <1>15 DEF CancelJob, execution
<1>16. CASE UNCHANGED vars
  BY <1>16 DEF vars, execution
<1> QED
  BY <1>1, <1>2, <1>3, <1>4, <1>5, <1>6, <1>7, <1>8, <1>9, <1>10, <1>11, <1>12, <1>13, <1>14, <1>15, <1>16
     DEF Next, Proceeds, Cancels

-----------------------------------------------------------------------------
\* The invariant holds whatever the processes, the clock and the cancellations do.
THEOREM Invariance == Spec => []ProcessInv
  BY InitInv, NextInv, PTL DEF Spec

\* The execution, the process group and what is registered keep their types.
THEOREM ProcessTypeCorrectness == Spec => []TypeOK
<1>1. ProcessInv => TypeOK
  BY DEF ProcessInv
<1> QED
  BY <1>1, Invariance, PTL

\* "Never leave a stage running": nothing of it outlives an execution whose clean-up ran to its end.
THEOREM StagesAreKilled == Spec => []NothingIsLeftRunning
<1>1. ProcessInv => NothingIsLeftRunning
  BY DEF ProcessInv
<1> QED
  BY <1>1, Invariance, PTL

\* Once a plugin.cancel that found the process returned nothing of the stage is alive, whatever its
\* execution does and however often it was cancelled before.
THEOREM CancelledStagesAreGone == Spec => []CancelledIsGone
<1>1. ProcessInv => CancelledIsGone
  BY DEF ProcessInv, ReapingMeansGone, CancelledIsGone
<1> QED
  BY <1>1, Invariance, PTL

\* "A crash or signal is never an engine status": no output or rejection comes of one.
THEOREM StatusesAreExitCodes == Spec => []SignalsAreNoStatus
<1>1. ProcessInv => SignalsAreNoStatus
  BY DEF ProcessInv
<1> QED
  BY <1>1, Invariance, PTL
\* The plugin over its local transport runs as EngineProcess, and leaves it alone over the other.
LEMMA LocalIsProcess == PluginSpec => Spec
<1>1. PluginInit => Init
  BY DEF PluginInit
<1>2. [PluginNext]_plugin => [Next]_vars
  BY DEF PluginNext, LocalStep, HttpStep, Over, plugin, local
<1> QED
  BY <1>1, <1>2, PTL DEF PluginSpec, Spec

\* "Never leave a stage running", whichever transport the plugin was configured with.
THEOREM PluginLeavesNothingRunning == PluginSpec => []NothingIsLeftRunning
  BY LocalIsProcess, StagesAreKilled, PTL

-----------------------------------------------------------------------------
(* The same of the http transport, where a request may be handled at any   *)
(* time or never: while none has gone astray they are handled in order, so *)
(* that a DELETE sent last is handled last.                                *)

\* Whoever waits for anything but the DELETE has an execution, which has not ended.
StageIsUnderWay ==
  /\ request # "idle" => nth > 0
  /\ request = "put" => todo > 0
  /\ request \in {"inspect", "put", "run", "fetch"} => ending = "none"
  /\ request = "stop" => ending # "output"

\* The answer to run is the stage's own, and what was checked is what run reported.
OutputIsKnown ==
  /\ request = "run" /\ answer.status = "ok" => answer.digest = nth
  /\ request = "fetch" => artifact = nth
  /\ Http!OutputIsItsOwn

\* With no fault nothing is stuck, and with no stage under way the last thing to come is a DELETE.
DeleteIsLast ==
  faults = 0 =>
    /\ \A i \in DOMAIN wire : ~wire[i].stuck
    /\ request \in {"idle", "inspect", "delete"} =>
         IF wire = <<>> THEN runner = Http!NoJob ELSE wire[Len(wire)].verb = "delete"

HttpInv == Http!TypeOK /\ StageIsUnderWay /\ OutputIsKnown /\ DeleteIsLast

USE DEF Http!Awaits, Http!Fates, Http!Digests

\* What is awaited of a request just sent, and what the runner has when it has nothing.
LEMMA NothingSent ==
  /\ Http!NoAnswer \in Http!Answer
  /\ Http!NoAnswer.status = "none" /\ Http!NoAnswer.digest = 0
  /\ Http!NoJob \in [dir : BOOLEAN, running : Http!Digests, output : Http!Digests]
  /\ Http!NoJob.running = 0 /\ Http!NoJob.output = 0
  BY StageAssumption DEF Http!NoAnswer, Http!Answer, Http!NoJob

\* A request that gets stuck is the same request.
LEMMA StuckIsARequest ==
  ASSUME NEW r \in Http!Request
  PROVE  [r EXCEPT !.stuck = TRUE] \in Http!Request
  BY DEF Http!Request

\* Sending puts one request behind those on the wire, and waits for its answer.
LEMMA SendingAppends ==
  ASSUME NEW w \in Seq(Http!Request), NEW verb \in Http!Awaits, nth \in 1..MaxExecutions,
         Http!SendOn(w, verb)
  PROVE  /\ request' = verb /\ answer' = Http!NoAnswer /\ wire' \in Seq(Http!Request)
         /\ wire' # <<>> /\ wire'[Len(wire')].verb = verb
         /\ (\A i \in DOMAIN w : ~w[i].stuck) => \A i \in DOMAIN wire' : ~wire'[i].stuck
<1> DEFINE r == [verb |-> verb, execution |-> nth, stuck |-> FALSE]
<1>1. r \in Http!Request /\ r.verb = verb /\ ~r.stuck
  BY DEF Http!Request
<1>2. wire' = Append(w, r) /\ request' = verb /\ answer' = Http!NoAnswer
  BY DEF Http!SendOn
<1> HIDE DEF r
<1>3. /\ wire' \in Seq(Http!Request) /\ Len(wire') = Len(w) + 1 /\ wire'[Len(wire')] = r
      /\ \A i \in 1..Len(w) : wire'[i] = w[i]
  BY <1>1, <1>2
<1> QED
  BY <1>1, <1>2, <1>3

\* A handled or lost request is all that is missing, and the others stay in their order.
LEMMA OneIsMissing ==
  ASSUME wire \in Seq(Http!Request), NEW i \in DOMAIN wire
  PROVE  /\ Http!Without(i) \in Seq(Http!Request) /\ Len(Http!Without(i)) = Len(wire) - 1
         /\ \A k \in DOMAIN Http!Without(i) :
              Http!Without(i)[k] = wire[IF k < i THEN k ELSE k + 1]
<1> DEFINE before == SubSeq(wire, 1, i - 1)
           after == SubSeq(wire, i + 1, Len(wire))
<1>1. i \in 1..Len(wire) /\ Len(wire) \in Nat
  OBVIOUS
<1>2. /\ before \in Seq(Http!Request) /\ Len(before) = i - 1
      /\ \A k \in 1..(i - 1) : before[k] = wire[k]
  BY <1>1
<1>3. /\ after \in Seq(Http!Request) /\ Len(after) = Len(wire) - i
      /\ \A k \in 1..(Len(wire) - i) : after[k] = wire[k + i]
  BY <1>1
<1>4. Http!Without(i) = before \o after
  BY DEF Http!Without
<1> HIDE DEF before, after
<1>5. /\ before \o after \in Seq(Http!Request) /\ Len(before \o after) = Len(wire) - 1
      /\ \A k \in 1..(Len(wire) - 1) :
           (before \o after)[k] = IF k < i THEN before[k] ELSE after[k - (i - 1)]
  <2>1. before \in Seq(Http!Request) /\ after \in Seq(Http!Request) /\ before \o after \in Seq(Http!Request)
    BY <1>2, <1>3
  <2>2. Len(before) = i - 1 /\ Len(after) = Len(wire) - i /\ Len(before) + Len(after) = Len(wire) - 1
    BY <1>1, <1>2, <1>3
  <2>3. /\ Len(before \o after) = Len(before) + Len(after)
        /\ \A k \in 1..(Len(before) + Len(after)) :
             (before \o after)[k] = IF k <= Len(before) THEN before[k] ELSE after[k - Len(before)]
    BY <2>1
  <2>4. \A k \in 1..(Len(wire) - 1) : k < i <=> k <= i - 1
    BY <1>1
  <2> QED
    BY <2>1, <2>2, <2>3, <2>4
<1>6. ASSUME NEW k \in 1..(Len(wire) - 1)
      PROVE  (before \o after)[k] = wire[IF k < i THEN k ELSE k + 1]
  <2>1. CASE k < i
    BY <1>1, <1>2, <1>5, <2>1
  <2>2. CASE ~(k < i)
    <3>1. k - (i - 1) \in 1..(Len(wire) - i) /\ (k - (i - 1)) + i = k + 1
      BY <1>1, <2>2
    <3> QED
      BY <1>3, <1>5, <2>2, <3>1
  <2> QED
    BY <2>1, <2>2
<1>7. /\ Http!Without(i) \in Seq(Http!Request) /\ Len(Http!Without(i)) = Len(wire) - 1
      /\ DOMAIN Http!Without(i) = 1..(Len(wire) - 1)
  BY <1>1, <1>4, <1>5
<1> QED
  BY <1>4, <1>6, <1>7

\* Giving a request up leaves a wire of the requests that were on it.
LEMMA GivingUpKeeps ==
  ASSUME wire \in Seq(Http!Request), NEW w \in Http!GivenUp
  PROVE  /\ w \in Seq(Http!Request)
         /\ (\A i \in DOMAIN wire : ~wire[i].stuck) => \A i \in DOMAIN w : ~w[i].stuck
<1>1. CASE w = wire
  BY <1>1
<1>2. CASE \E i \in DOMAIN wire : w = Http!Without(i)
  <2>1. PICK i \in DOMAIN wire : w = Http!Without(i)
    BY <1>2
  <2>2. \A k \in DOMAIN w : w[k] = wire[IF k < i THEN k ELSE k + 1]
    BY <2>1, OneIsMissing
  <2>3. w \in Seq(Http!Request) /\ Len(w) = Len(wire) - 1
    BY <2>1, OneIsMissing
  <2>4. \A k \in DOMAIN w : (IF k < i THEN k ELSE k + 1) \in DOMAIN wire
    BY <2>3
  <2> QED
    BY <2>2, <2>3, <2>4
<1> QED
  BY <1>1, <1>2 DEF Http!GivenUp

\* The plugin has executed nothing yet.
LEMMA HttpInitInv == Http!Init => HttpInv
<1> SUFFICES ASSUME Http!Init PROVE HttpInv
  OBVIOUS
<1>1. /\ request = "idle" /\ nth = 0 /\ todo = 0 /\ expired = FALSE /\ cancelled = FALSE
      /\ ending = "none" /\ artifact = 0 /\ answer = Http!NoAnswer /\ wire = <<>>
      /\ runner = Http!NoJob /\ faults = 0 /\ aborts = 0
  BY DEF Http!Init
<1>2. Http!TypeOK
  <2>1. /\ 0 \in Http!Digests /\ 0 \in 0..Inputs /\ 0 \in 0..MaxFaults /\ 0 \in 0..MaxKills
        /\ <<>> \in Seq(Http!Request)
    BY StageAssumption, KillsAssumption
  <2> QED
    BY <1>1, <2>1, NothingSent DEF Http!TypeOK
<1>3. StageIsUnderWay /\ OutputIsKnown /\ DeleteIsLast
  BY <1>1 DEF StageIsUnderWay, OutputIsKnown, DeleteIsLast, Http!OutputIsItsOwn
<1> QED
  BY <1>2, <1>3 DEF HttpInv

\* The end of a stage: its DELETE is the last request, however much is still under way.
LEMMA DeletingKeeps ==
  ASSUME HttpInv, request # "idle", NEW w \in {wire} \cup Http!GivenUp, Http!SendOn(w, "delete"),
         ending' \in Http!Fates, artifact' \in Http!Digests, ending' = "output" => artifact' = nth,
         faults' \in {faults, faults + 1}, faults' <= MaxFaults, aborts' \in 0..MaxKills,
         todo' \in 0..Inputs, UNCHANGED <<nth, expired, cancelled, runner>>
  PROVE  HttpInv'
<1> USE DEF HttpInv
<1>1. /\ w \in Seq(Http!Request)
      /\ (\A i \in DOMAIN wire : ~wire[i].stuck) => \A i \in DOMAIN w : ~w[i].stuck
  BY GivingUpKeeps DEF Http!TypeOK
<1>2. nth \in 1..MaxExecutions
  BY StageAssumption DEF Http!TypeOK, StageIsUnderWay
<1>3. /\ request' = "delete" /\ answer' = Http!NoAnswer /\ wire' \in Seq(Http!Request)
      /\ wire' # <<>> /\ wire'[Len(wire')].verb = "delete"
      /\ (\A i \in DOMAIN w : ~w[i].stuck) => \A i \in DOMAIN wire' : ~wire'[i].stuck
  BY <1>1, <1>2, SendingAppends
<1>4. faults' \in 0..MaxFaults /\ (faults' = 0 => faults = 0)
  BY StageAssumption DEF Http!TypeOK
<1>5. Http!TypeOK'
  BY <1>3, <1>4, NothingSent DEF Http!TypeOK
<1>6. StageIsUnderWay' /\ OutputIsKnown'
  BY <1>2, <1>3 DEF StageIsUnderWay, OutputIsKnown, Http!OutputIsItsOwn
<1>7. DeleteIsLast'
  BY <1>1, <1>3, <1>4 DEF DeleteIsLast
<1> QED
  BY <1>5, <1>6, <1>7

\* On the way to the output, or to the end of a wait, another request is sent.
LEMMA RequestingKeeps ==
  ASSUME HttpInv, request # "idle", NEW w \in {wire} \cup Http!GivenUp,
         NEW verb \in {"put", "run", "stop", "fetch"}, Http!SendOn(w, verb),
         todo' \in 0..Inputs, verb = "put" => todo' > 0,
         artifact' \in Http!Digests, verb = "fetch" => artifact' = nth,
         ending' \in Http!Fates \ {"output"}, verb # "stop" => ending' = "none",
         aborts' \in 0..MaxKills, UNCHANGED <<nth, expired, cancelled, runner, faults>>
  PROVE  HttpInv'
<1> USE DEF HttpInv
<1>1. /\ w \in Seq(Http!Request)
      /\ (\A i \in DOMAIN wire : ~wire[i].stuck) => \A i \in DOMAIN w : ~w[i].stuck
  BY GivingUpKeeps DEF Http!TypeOK
<1>2. nth \in 1..MaxExecutions
  BY StageAssumption DEF Http!TypeOK, StageIsUnderWay
<1>3. /\ request' = verb /\ answer' = Http!NoAnswer /\ wire' \in Seq(Http!Request)
      /\ (\A i \in DOMAIN w : ~w[i].stuck) => \A i \in DOMAIN wire' : ~wire'[i].stuck
  BY <1>1, <1>2, SendingAppends
<1>4. Http!TypeOK'
  BY <1>3, NothingSent DEF Http!TypeOK
<1>5. StageIsUnderWay' /\ OutputIsKnown'
  BY <1>2, <1>3, NothingSent DEF StageIsUnderWay, OutputIsKnown, Http!OutputIsItsOwn
<1>6. DeleteIsLast'
  BY <1>1, <1>3 DEF DeleteIsLast
<1> QED
  BY <1>4, <1>5, <1>6

\* The runner answers who waits for it, tells nobody that run succeeded, and after DELETE has nothing.
LEMMA HandlingAnswers ==
  ASSUME HttpInv, NEW r \in Http!Request,
         \/ Http!StoresInput(r) \/ Http!StartsStage(r) \/ Http!StopsStage(r)
         \/ Http!ServesOutput(r) \/ Http!RemovesJob(r)
  PROVE  /\ answer' \in Http!Answer
         /\ runner' \in [dir : BOOLEAN, running : Http!Digests, output : Http!Digests]
         /\ request = "run" /\ answer'.status = "ok" => answer' = answer
         /\ r.verb = "delete" => runner' = Http!NoJob
<1> USE DEF HttpInv, Http!TypeOK, Http!Answer, Http!Request, Http!Awaited, Http!Tells
<1>1. CASE Http!StoresInput(r)
  <2>1. CASE runner' = [runner EXCEPT !.dir = TRUE] /\ Http!Tells(r, "ok", 0)
    <3>1. runner' \in [dir : BOOLEAN, running : Http!Digests, output : Http!Digests]
      BY <2>1
    <3>2. answer' \in Http!Answer
      BY <2>1, StageAssumption
    <3>3. r.verb = "put" /\ (answer' = answer \/ request = "put")
      BY <1>1, <2>1 DEF Http!StoresInput
    <3> QED
      BY <3>1, <3>2, <3>3
  <2>2. CASE UNCHANGED runner /\ Http!Tells(r, "refused", 0)
    BY <1>1, <2>2, StageAssumption DEF Http!StoresInput
  <2> QED
    BY <1>1, <2>1, <2>2 DEF Http!StoresInput
<1>2. CASE Http!StartsStage(r)
  <2>1. CASE runner' = [dir |-> TRUE, running |-> r.execution, output |-> 0] /\ UNCHANGED answer
    <3>1. r.execution \in Http!Digests /\ 0 \in Http!Digests
      BY StageAssumption
    <3> QED
      BY <1>2, <2>1, <3>1 DEF Http!StartsStage
  <2>2. CASE UNCHANGED runner /\ Http!Tells(r, "refused", 0)
    BY <1>2, <2>2, StageAssumption DEF Http!StartsStage
  <2> QED
    BY <1>2, <2>1, <2>2 DEF Http!StartsStage
<1>3. CASE Http!StopsStage(r)
  <2>1. r.verb = "stop" /\ runner' = [runner EXCEPT !.running = 0] /\ Http!StageStops(r)
    BY <1>3 DEF Http!StopsStage
  <2>2. runner' \in [dir : BOOLEAN, running : Http!Digests, output : Http!Digests]
    <3>1. /\ runner \in [dir : BOOLEAN, running : Http!Digests, output : Http!Digests]
          /\ 0 \in Http!Digests /\ runner' = [runner EXCEPT !.running = 0]
      BY <2>1, StageAssumption
    <3> QED
      BY ONLY <3>1
  <2>3. answer' \in Http!Answer
    <3>1. \A status \in {"ok", "failed"} : [status |-> status, digest |-> 0] \in Http!Answer
      BY StageAssumption
    <3>2. answer' \in {answer, [status |-> "ok", digest |-> 0], [status |-> "failed", digest |-> 0]}
      BY <2>1 DEF Http!StageStops
    <3> QED
      BY <3>1, <3>2
  <2>4. request = "run" /\ answer'.status = "ok" => answer' = answer
    BY <2>1 DEF Http!StageStops
  <2> QED
    BY <2>1, <2>2, <2>3, <2>4
<1>4. CASE Http!ServesOutput(r)
  BY <1>4, StageAssumption DEF Http!ServesOutput
<1>5. CASE Http!RemovesJob(r)
  BY <1>5, NothingSent, StageAssumption DEF Http!RemovesJob, Http!StageStops
<1> QED
  BY <1>1, <1>2, <1>3, <1>4, <1>5

\* Handled in order, a DELETE that was last is the last one still, or the job is gone.
LEMMA HandlesInv == HttpInv /\ Http!Handles => HttpInv'
<1> SUFFICES ASSUME HttpInv, Http!Handles PROVE HttpInv'
  OBVIOUS
<1> USE DEF HttpInv
<1>1. PICK i \in DOMAIN wire :
        /\ wire[i].stuck \/ \A k \in 1..(i - 1) : wire[k].stuck
        /\ wire' = Http!Without(i)
        /\ \/ Http!StoresInput(wire[i]) \/ Http!StartsStage(wire[i]) \/ Http!StopsStage(wire[i])
           \/ Http!ServesOutput(wire[i]) \/ Http!RemovesJob(wire[i])
  BY DEF Http!Handles
<1>2. UNCHANGED <<request, nth, todo, expired, cancelled, ending, artifact, faults, aborts>>
  BY DEF Http!Handles, Http!progress, Http!signals
<1>3. wire \in Seq(Http!Request) /\ Len(wire) \in Nat /\ i \in 1..Len(wire) /\ wire[i] \in Http!Request
  BY DEF Http!TypeOK
<1>4. /\ answer' \in Http!Answer
      /\ runner' \in [dir : BOOLEAN, running : Http!Digests, output : Http!Digests]
      /\ request = "run" /\ answer'.status = "ok" => answer' = answer
      /\ wire[i].verb = "delete" => runner' = Http!NoJob
  BY <1>1, <1>3, HandlingAnswers
<1>5. /\ wire' \in Seq(Http!Request) /\ Len(wire') = Len(wire) - 1
      /\ \A k \in DOMAIN wire' : wire'[k] = wire[IF k < i THEN k ELSE k + 1]
  BY <1>1, <1>3, OneIsMissing
<1>6. Http!TypeOK'
  BY <1>2, <1>4, <1>5 DEF Http!TypeOK
<1>7. StageIsUnderWay' /\ OutputIsKnown'
  BY <1>2, <1>4 DEF StageIsUnderWay, OutputIsKnown, Http!OutputIsItsOwn
<1>8. ASSUME faults = 0 PROVE \A k \in DOMAIN wire' : ~wire'[k].stuck
  <2>1. \A k \in DOMAIN wire' : (IF k < i THEN k ELSE k + 1) \in DOMAIN wire
    BY <1>3, <1>5
  <2> QED
    BY <1>5, <1>8, <2>1 DEF DeleteIsLast
<1>9. ASSUME faults = 0, request \in {"idle", "inspect", "delete"}
      PROVE  IF wire' = <<>> THEN runner' = Http!NoJob ELSE wire'[Len(wire')].verb = "delete"
  <2>1. wire[Len(wire)].verb = "delete"
    BY <1>3, <1>9 DEF DeleteIsLast
  <2>2. i = 1
    BY <1>1, <1>3, <1>9 DEF DeleteIsLast
  <2>3. CASE Len(wire) = 1
    BY <1>4, <1>5, <2>1, <2>2, <2>3
  <2>4. CASE Len(wire) # 1
    <3>1. Len(wire') \in DOMAIN wire' /\ ~(Len(wire') < i) /\ Len(wire') + 1 = Len(wire)
      BY <1>3, <1>5, <2>2, <2>4
    <3>2. wire'[Len(wire')] = wire[Len(wire)]
      BY <1>5, <3>1
    <3> QED
      BY <2>1, <3>1, <3>2
  <2> QED
    BY <2>3, <2>4
<1> QED
  BY <1>2, <1>6, <1>7, <1>8, <1>9 DEF DeleteIsLast

\* Every step of the execution, of what disturbs it and of the runner.
LEMMA HttpNextInv == HttpInv /\ [Http!Next]_http => HttpInv'
<1> SUFFICES ASSUME HttpInv, [Http!Next]_http PROVE HttpInv'
  OBVIOUS
<1> USE DEF Http!progress, Http!signals
<1>a. /\ Http!TypeOK /\ StageIsUnderWay /\ OutputIsKnown /\ DeleteIsLast
      /\ nth \in Http!Digests /\ todo \in 0..Inputs /\ artifact \in Http!Digests
      /\ answer \in Http!Answer /\ answer.digest \in Http!Digests
      /\ ending \in Http!Fates /\ faults \in 0..MaxFaults /\ aborts \in 0..MaxKills
      /\ request \in Http!Awaits \cup {"idle"} /\ Inputs \in Nat /\ MaxFaults \in Nat
  BY StageAssumption DEF HttpInv, Http!TypeOK, Http!Answer
<1>b. wire \in Http!GivenUp
  BY DEF Http!GivenUp
<1>1. CASE Http!Begin
  <2>1. nth' \in 1..MaxExecutions /\ todo' \in 0..Inputs /\ 0 \in Http!Digests
    BY <1>1, <1>a, StageAssumption DEF Http!Begin
  <2>2. /\ request = "idle" /\ request' = "inspect" /\ expired' = FALSE /\ cancelled' = FALSE
        /\ ending' = "none" /\ artifact' = 0 /\ answer' = Http!NoAnswer
        /\ UNCHANGED <<wire, runner, faults, aborts>>
    BY <1>1 DEF Http!Begin
  <2>3. Http!TypeOK'
    <3>1. nth' \in Http!Digests /\ artifact' \in Http!Digests
      BY <2>1, <2>2
    <3> QED
      BY <1>a, <2>1, <2>2, <3>1, NothingSent DEF Http!TypeOK
  <2>4. StageIsUnderWay' /\ OutputIsKnown' /\ DeleteIsLast'
    BY <1>a, <2>1, <2>2 DEF StageIsUnderWay, OutputIsKnown, DeleteIsLast, Http!OutputIsItsOwn
  <2> QED
    BY <2>3, <2>4 DEF HttpInv
<1>2. CASE Http!InspectionFails
  BY <1>2, <1>a
     DEF HttpInv, Http!TypeOK, StageIsUnderWay, OutputIsKnown, DeleteIsLast, Http!OutputIsItsOwn, Http!InspectionFails
<1>3. CASE Http!Inspected \/ Http!InputUploaded
  <2>1. /\ todo' \in 0..Inputs /\ request # "idle" /\ ending = "none"
        /\ UNCHANGED <<nth, expired, cancelled, artifact, runner, faults, aborts>> /\ Http!StageStep
    BY <1>3, <1>a DEF Http!Inspected, Http!InputUploaded, StageIsUnderWay
  <2>2. CASE expired
    <3>1. ending' = "timed_out" /\ Http!SendOn(wire, "delete")
      BY <1>3, <2>1, <2>2 DEF Http!StageStep, Http!Finally, Http!Send
    <3> QED
      BY <1>a, <2>1, <3>1, DeletingKeeps
  <2>3. CASE ~expired
    <3>1. PICK verb \in {"put", "run"} : Http!SendOn(wire, verb) /\ (verb = "put" => todo' > 0)
      BY <2>1, <2>3 DEF Http!StageStep, Http!Send
    <3>2. ending' = "none"
      BY <2>1, <2>3 DEF Http!StageStep
    <3> QED
      BY <1>a, <2>1, <3>1, <3>2, RequestingKeeps
  <2> QED
    BY <2>2, <2>3
<1>4. CASE Http!RunReported
  <2>1. CASE expired
    BY <1>4, <1>a, <2>1, DeletingKeeps DEF Http!RunReported, Http!Finally, Http!Send
  <2>2. CASE ~expired
    <3>1. /\ request = "run" /\ artifact' = nth /\ Http!SendOn(wire, "fetch") /\ ending' = "none"
          /\ UNCHANGED <<nth, todo, expired, cancelled, runner, faults, aborts>>
      BY <1>4, <1>a, <2>2 DEF Http!RunReported, Http!Send, Http!Answered, OutputIsKnown, StageIsUnderWay
    <3> QED
      BY <1>a, <3>1, RequestingKeeps
  <2> QED
    BY <2>1, <2>2
<1>5. CASE Http!Fails
  BY <1>5, <1>a, DeletingKeeps DEF Http!Fails, Http!Finally, Http!Send
<1>6. CASE Http!OutputFetched
  <2>1. artifact = nth
    BY <1>6, <1>a DEF Http!OutputFetched, OutputIsKnown
  <2> QED
    BY <1>6, <1>a, <2>1, DeletingKeeps DEF Http!OutputFetched, Http!Finally, Http!Send
<1>7. CASE Http!TransferTimesOut
  <2>1. PICK w \in Http!GivenUp : Http!SendOn(w, "delete")
    BY <1>7 DEF Http!TransferTimesOut
  <2> QED
    BY <1>7, <1>a, <2>1, DeletingKeeps DEF Http!TransferTimesOut
<1>8. CASE Http!StopWaiting
  <2>1. PICK w \in Http!GivenUp : Http!SendOn(w, "stop")
    BY <1>8 DEF Http!StopWaiting
  <2> QED
    BY <1>8, <1>a, <2>1, RequestingKeeps DEF Http!StopWaiting
<1>9. CASE Http!Stopped
  BY <1>9, <1>a, DeletingKeeps DEF Http!Stopped, Http!Send, StageIsUnderWay
<1>10. CASE Http!Deleted
  BY <1>10, <1>a, NothingSent
     DEF HttpInv, Http!TypeOK, StageIsUnderWay, OutputIsKnown, DeleteIsLast, Http!OutputIsItsOwn, Http!Deleted
<1>11. CASE Http!RequestTimesOut
  <2>1. PICK w \in Http!GivenUp :
          IF request = "stop" THEN Http!SendOn(w, "delete")
          ELSE request' = "idle" /\ wire' = w /\ answer' = Http!NoAnswer
    BY <1>11 DEF Http!RequestTimesOut
  <2>2. CASE request = "stop"
    BY <1>11, <1>a, <2>1, <2>2, DeletingKeeps DEF Http!RequestTimesOut, StageIsUnderWay
  <2>3. CASE request # "stop"
    <3>1. w \in Seq(Http!Request) /\ faults' \in 1..MaxFaults
      BY <1>11, <1>a, GivingUpKeeps DEF Http!RequestTimesOut, Http!TypeOK
    <3> QED
      BY <1>11, <1>a, <2>1, <2>3, <3>1, NothingSent
         DEF HttpInv, Http!TypeOK, StageIsUnderWay, OutputIsKnown, DeleteIsLast, Http!OutputIsItsOwn,
             Http!RequestTimesOut
  <2> QED
    BY <2>2, <2>3
<1>12. CASE Http!DeadlinePasses \/ Http!CancelJob
  BY <1>12, <1>a
     DEF HttpInv, Http!TypeOK, StageIsUnderWay, OutputIsKnown, DeleteIsLast, Http!OutputIsItsOwn,
         Http!DeadlinePasses, Http!CancelJob
<1>13. CASE Http!Killed
  <2>1. aborts' \in 0..MaxKills /\ request # "idle"
    BY <1>13, <1>a, KillsAssumption DEF Http!Killed
  <2>2. PICK w \in Http!GivenUp :
          CASE request = "inspect" -> request' = "idle" /\ UNCHANGED <<wire, answer>>
            [] request = "run" /\ answer = Http!NoAnswer -> Http!SendOn(w, "stop")
            [] OTHER -> Http!SendOn(w, "delete")
    BY <1>13 DEF Http!Killed
  <2>3. ending' \in Http!Fates \ {"output"}
    BY <1>13, <1>a DEF Http!Killed, StageIsUnderWay
  <2>4. CASE request = "inspect"
    BY <1>13, <1>a, <2>1, <2>2, <2>3, <2>4
       DEF HttpInv, Http!TypeOK, StageIsUnderWay, OutputIsKnown, DeleteIsLast, Http!OutputIsItsOwn, Http!Killed
  <2>5. CASE request = "run" /\ answer = Http!NoAnswer
    BY <1>13, <1>a, <2>1, <2>2, <2>3, <2>5, RequestingKeeps DEF Http!Killed
  <2>6. CASE request # "inspect" /\ ~(request = "run" /\ answer = Http!NoAnswer)
    BY <1>13, <1>a, <2>1, <2>2, <2>3, <2>6, DeletingKeeps DEF Http!Killed
  <2> QED
    BY <2>4, <2>5, <2>6
<1>14. CASE Http!KilledAtTheEnd
  <2>1. PICK w \in Http!GivenUp : wire' = w
    BY <1>14 DEF Http!KilledAtTheEnd
  <2>2. w \in Seq(Http!Request) /\ ((\A i \in DOMAIN wire : ~wire[i].stuck) => \A i \in DOMAIN w : ~w[i].stuck)
    BY <1>a, GivingUpKeeps DEF Http!TypeOK
  <2>3. aborts' \in 0..MaxKills /\ faults' \in 0..MaxFaults /\ (faults' = 0 => faults = 0 /\ wire' = wire)
    BY <1>14, <1>a, KillsAssumption DEF Http!KilledAtTheEnd
  <2> QED
    BY <1>14, <1>a, <2>1, <2>2, <2>3, NothingSent
       DEF HttpInv, Http!TypeOK, StageIsUnderWay, OutputIsKnown, DeleteIsLast, Http!OutputIsItsOwn,
           Http!KilledAtTheEnd
<1>15. CASE Http!ConnectionFails
  <2>1. /\ faults' \in 1..MaxFaults /\ answer' \in Http!Answer /\ answer'.status = "lost"
        /\ UNCHANGED <<request, nth, todo, expired, cancelled, ending, artifact, runner, aborts>>
    BY <1>15, <1>a, NothingSent DEF Http!ConnectionFails, Http!Answers, Http!Answer
  <2>2. wire' \in Seq(Http!Request)
    <3>1. CASE wire' \in Http!GivenUp
      BY <3>1, <1>a, GivingUpKeeps DEF Http!TypeOK
    <3>2. CASE wire' = [i \in DOMAIN wire |->
                          IF Http!Awaited(wire[i]) THEN [wire[i] EXCEPT !.stuck = TRUE] ELSE wire[i]]
      <4>1. \A i \in DOMAIN wire : wire'[i] \in Http!Request
        BY <3>2, <1>a, StuckIsARequest DEF Http!TypeOK
      <4> QED
        BY <3>2, <4>1, <1>a DEF Http!TypeOK
    <3> QED
      BY <1>15, <3>1, <3>2 DEF Http!ConnectionFails
  <2> QED
    BY <1>a, <2>1, <2>2
       DEF HttpInv, Http!TypeOK, StageIsUnderWay, OutputIsKnown, DeleteIsLast, Http!OutputIsItsOwn
<1>16. CASE Http!Stalls
  <2>1. PICK i \in DOMAIN wire : wire' = [wire EXCEPT ![i].stuck = TRUE]
    BY <1>16 DEF Http!Stalls
  <2>2. wire' \in Seq(Http!Request)
    <3>1. wire \in Seq(Http!Request) /\ [wire[i] EXCEPT !.stuck = TRUE] \in Http!Request
      BY <1>a, <2>1, StuckIsARequest DEF Http!TypeOK
    <3>2. wire' = [wire EXCEPT ![i] = [wire[i] EXCEPT !.stuck = TRUE]]
      BY <2>1
    <3> QED
      BY <3>1, <3>2
  <2>3. faults' \in 1..MaxFaults
    BY <1>16, <1>a DEF Http!Stalls
  <2> QED
    BY <1>16, <1>a, <2>2, <2>3
       DEF HttpInv, Http!TypeOK, StageIsUnderWay, OutputIsKnown, DeleteIsLast, Http!OutputIsItsOwn, Http!Stalls
<1>17. CASE Http!Handles
  BY <1>17, HandlesInv
<1>18. CASE Http!StageEnds
  <2>1. PICK status \in {"ok", "failed", "rejected"} :
          LET made == IF status = "ok" THEN runner.running ELSE 0 IN
          /\ runner' = [runner EXCEPT !.running = 0, !.output = made]
          /\ answer' = IF request = "run" /\ runner.running = nth /\ answer = Http!NoAnswer
                         THEN [status |-> status, digest |-> made] ELSE answer
    BY <1>18 DEF Http!StageEnds
  <2>2. /\ runner' \in [dir : BOOLEAN, running : Http!Digests, output : Http!Digests]
        /\ answer' \in Http!Answer
    <3>1. (IF status = "ok" THEN runner.running ELSE 0) \in Http!Digests /\ 0 \in Http!Digests
      BY <1>a, StageAssumption DEF Http!TypeOK
    <3> DEFINE made == IF status = "ok" THEN runner.running ELSE 0
    <3>2. made \in Http!Digests /\ runner' = [runner EXCEPT !.running = 0, !.output = made]
      BY <2>1, <3>1
    <3>3. answer' \in {answer, [status |-> status, digest |-> made]}
      BY <2>1
    <3> HIDE DEF made
    <3>4. [status |-> status, digest |-> made] \in Http!Answer
      BY <3>2 DEF Http!Answer
    <3>5. runner' \in [dir : BOOLEAN, running : Http!Digests, output : Http!Digests]
      BY <1>a, <3>1, <3>2 DEF Http!TypeOK
    <3> QED
      BY <1>a, <3>3, <3>4, <3>5
  <2>3. request = "run" /\ answer'.status = "ok" => answer'.digest = nth
    BY <1>a, <2>1 DEF OutputIsKnown
  <2>4. runner # Http!NoJob
    BY <1>18, NothingSent DEF Http!StageEnds
  <2> QED
    BY <1>18, <1>a, <2>2, <2>3, <2>4
       DEF HttpInv, Http!TypeOK, StageIsUnderWay, OutputIsKnown, DeleteIsLast, Http!OutputIsItsOwn, Http!StageEnds
<1>19. CASE UNCHANGED http
  BY <1>19, <1>a
     DEF HttpInv, Http!TypeOK, StageIsUnderWay, OutputIsKnown, DeleteIsLast, Http!OutputIsItsOwn, http
<1> HIDE DEF HttpInv, Http!progress, Http!signals
<1> QED
  BY <1>1, <1>2, <1>3, <1>4, <1>5, <1>6, <1>7, <1>8, <1>9, <1>10, <1>11, <1>12, <1>13, <1>14, <1>15, <1>16,
     <1>17, <1>18, <1>19 DEF Http!Next, Http!Proceeds, Http!Disturbs
\* The plugin over its http transport runs as EngineRunner, and leaves it alone over the other.
LEMMA HttpIsRunner == PluginSpec => []HttpInv
<1>1. PluginInit => HttpInv
  BY HttpInitInv DEF PluginInit
<1>2. HttpInv /\ [PluginNext]_plugin => HttpInv'
  <2>1. [PluginNext]_plugin => [Http!Next]_http
    BY DEF PluginNext, LocalStep, HttpStep, Over, plugin, http
  <2> QED
    BY <2>1, HttpNextInv
<1> QED
  BY <1>1, <1>2, PTL DEF PluginSpec

\* Requests, the runner's job, the process group and what is registered keep their types over both.
THEOREM PluginTypeCorrectness == PluginSpec => []PluginTypeOK
<1>1. HttpInv => Http!TypeOK
  BY DEF HttpInv
<1>2. TypeOK /\ Http!TypeOK => PluginTypeOK
  BY DEF PluginTypeOK
<1> QED
  BY <1>1, <1>2, HttpIsRunner, LocalIsProcess, ProcessTypeCorrectness, PTL

\* Once an execution has ended and its requests have arrived the runner has nothing of the job.
THEOREM RunnerIsLeftClean == PluginSpec => []NothingIsLeftBehind
<1>1. HttpInv => NothingIsLeftBehind
  BY DEF HttpInv, DeleteIsLast, NothingIsLeftBehind, Http!NothingIsLeftBehind
<1> QED
  BY <1>1, HttpIsRunner, PTL

\* What an execution returns is what its own run made, also when requests went astray.
THEOREM OutputsAreTheExecutions == PluginSpec => []OutputIsItsOwn
<1>1. HttpInv => OutputIsItsOwn
  BY DEF HttpInv, OutputIsKnown, OutputIsItsOwn
<1> QED
  BY <1>1, HttpIsRunner, PTL

\* Nothing of the stage is alive once a plugin.cancel that found its process returned, for the plugin as
\* it is configured.  One that came during the spawn found only the job's event, and stops nothing.
THEOREM PluginCancelsWhatRuns == PluginSpec => []CancelledIsGone
  BY LocalIsProcess, CancelledStagesAreGone, PTL

\* "A crash or signal is never an engine status", for the plugin as it is configured.
THEOREM PluginStatusesAreExitCodes == PluginSpec => []SignalsAreNoStatus
  BY LocalIsProcess, StatusesAreExitCodes, PTL
-----------------------------------------------------------------------------
(* An execution over either transport is one of PluginExecution.  As       *)
(* subprocesses: a process is started by the work alone, and no end leaves *)
(* any, but for a cancelled clean-up's.                                    *)

USE DEF Contract!Outcomes, Contract!AddsNothing

\* What SIGKILL leaves: nothing.
LEMMA SigkillLeavesNothing ==
  ASSUME group \in Group, Sigkill
  PROVE  Gone'
  BY SigkillKills DEF Gone

\* Whoever kills the group either ends with nothing left or waits for the grace.
LEMMA StartKillingIsStep ==
  ASSUME TypeOK, at = "waiting", transport = "local", transport' = transport,
         NEW f \in {"drift", "timed_out", "cancelled", "killed"}, StartKilling(f)
  PROVE  Contract!Finishes \/ Contract!Decides
<1>1. /\ PluginPhase = "working" /\ PluginPhase' = Phase' /\ PluginFate' = fate' /\ PluginHolds' = ~Gone'
      /\ PluginHolds' \in BOOLEAN
  BY DEF PluginPhase, PluginFate, PluginHolds, Phase, Gone
<1>2. CASE group.noticed
  <2>1. Gone' /\ at' = "over" /\ fate' = f
    BY <1>2, SigkillLeavesNothing DEF StartKilling, Ends, TypeOK
  <2> QED
    BY <1>1, <2>1 DEF Phase, Contract!Finishes
<1>3. CASE ~group.noticed
  <2>1. at' = "grace" /\ fate' = f
    BY <1>3 DEF StartKilling
  <2> QED
    BY <1>1, <2>1 DEF Phase, Contract!Decides
<1> QED
  BY <1>2, <1>3

\* Steps of the processes, of plugin.cancel, of the clock and of the job start nothing.
LEMMA OthersStartNothing ==
  ASSUME ProcessInv, transport = "local", transport' = transport,
         Cancels \/ ProcessStep \/ TimePasses \/ CancelJob
  PROVE  Contract!LetsGo /\ RequestsWentAstray' = RequestsWentAstray
<1>0. group \in Group
  BY DEF ProcessInv, TypeOK
<1>1. UNCHANGED execution
  BY DEF Cancels, PluginCancel, CancelGraceEnds, CancelReturns, ProcessStep, TimePasses, CancelJob
<1>2. CASE Cancels
  <2>1. Sigkill => Gone'
    BY <1>0, SigkillLeavesNothing
  <2>2. Sigterm => (Gone => Gone')
    BY <1>0, SigtermTerminates DEF Gone
  <2>3. UNCHANGED group => (Gone => Gone')
    BY DEF Gone
  <2>4. Gone => Gone'
    BY <1>2, <2>1, <2>2, <2>3 DEF Cancels, PluginCancel, TellsTheEvent, CancelGraceEnds, CancelReturns
  <2> QED
    BY <1>1, <2>4 DEF execution, Phase, PluginPhase, PluginFate, PluginHolds, RequestsWentAstray, Contract!LetsGo
<1>3. CASE ProcessStep
  <2>1. Forks \/ Exits \/ OthersExit => (Gone => Gone')
    BY <1>0 DEF Forks, Exits, OthersExit, Gone, Group
  <2>2. Notices => (Gone => Gone')
    BY <1>0 DEF Notices, Gone, Group
  <2>3. Gone => Gone'
    BY <1>3, <2>1, <2>2 DEF ProcessStep
  <2> QED
    BY <1>1, <2>3 DEF execution, Phase, PluginPhase, PluginFate, PluginHolds, RequestsWentAstray, Contract!LetsGo
<1>4. CASE TimePasses \/ CancelJob
  BY <1>1, <1>4 DEF TimePasses, CancelJob, execution, Phase, Gone, PluginPhase, PluginFate, PluginHolds,
     RequestsWentAstray, Contract!LetsGo
<1> QED
  BY <1>2, <1>3, <1>4

\* Every step of the execution is one of the contract's.
LEMMA LocalIsStep ==
  ASSUME ProcessInv, Next, transport = "local", transport' = transport
  PROVE  Contract!Next
<1> USE DEF ProcessInv
<1>0. /\ TypeOK /\ StageIsRegistered /\ ReapingMeansGone /\ group \in Group
      /\ ~RequestsWentAstray
  BY DEF TypeOK, RequestsWentAstray
<1>a. /\ PluginPhase = Phase /\ PluginPhase' = Phase' /\ PluginFate = fate /\ PluginFate' = fate'
      /\ PluginHolds = ~Gone /\ PluginHolds' = ~Gone' /\ PluginHolds' \in BOOLEAN
  BY DEF PluginPhase, PluginFate, PluginHolds, Gone
<1> HIDE DEF ProcessInv
<1>1. CASE Begin
  <2>1. at = "idle" /\ what = "inspect" /\ what' = what
    BY <1>0, <1>1 DEF Begin, Ends, StageIsRegistered
  <2>2. \/ at' = "over" /\ fate' = "timed_out"
        \/ at' = "spawning" /\ fate' = fate
    BY <1>1 DEF Begin, Ends
  <2>3. fate = "none"
    BY <1>0, <2>1 DEF StageIsRegistered
  <2>4. Gone
    BY <1>0, <2>1, NothingStarted DEF StageIsRegistered, Gone
  <2>5. Gone'
    BY <1>1, <2>4 DEF Begin, Gone
  <2> QED
    BY <1>0, <1>a, <2>1, <2>2, <2>3, <2>4, <2>5 DEF Phase, Contract!Next, Contract!Begins, Contract!Declines
<1>2. CASE Spawned
  BY <1>0, <1>2, <1>a DEF Spawned, Phase, Contract!Next, Contract!Works
<1>3. CASE SpawnFails
  <2>1. Gone /\ Gone'
    BY <1>0, <1>3 DEF SpawnFails, StageIsRegistered, Gone
  <2> QED
    BY <1>0, <1>3, <1>a, <2>1 DEF SpawnFails, Ends, Phase, Contract!Next, Contract!Finishes, Contract!Abandons
<1>4. CASE Inspected
  <2>1. Gone'
    BY <1>0, <1>4, SigkillLeavesNothing DEF Inspected
  <2> QED
    BY <1>0, <1>4, <1>a, <2>1 DEF Inspected, Ends, Phase, Contract!Next, Contract!Finishes, Contract!Works
<1>5. CASE StageOver
  <2>1. Gone'
    BY <1>0, <1>5, SigkillLeavesNothing DEF StageOver
  <2>2. PICK f \in {"output", "failed", "rejected"} : Ends(f)
    BY <1>5 DEF StageOver, Verdict
  <2> QED
    BY <1>0, <1>5, <1>a, <2>1, <2>2 DEF StageOver, Ends, Phase, Contract!Next, Contract!Finishes
<1>6. CASE GiveUp
  <2>1. PICK f \in {"cancelled", "timed_out", "drift"} : StartKilling(f)
    BY <1>6 DEF GiveUp
  <2> QED
    BY <1>0, <1>6, <2>1, StartKillingIsStep DEF GiveUp, Contract!Next
<1>7. CASE GraceEnds
  <2>1. Gone'
    BY <1>0, <1>7, SigkillLeavesNothing DEF GraceEnds
  <2> QED
    BY <1>0, <1>7, <1>a, <2>1 DEF GraceEnds, Ends, Phase, Contract!Next, Contract!Ends, Contract!LetsGo
<1>8. CASE Reaped
  <2>1. Gone /\ Gone'
    BY <1>0, <1>8 DEF Reaped, ReapingMeansGone, Gone
  <2> QED
    BY <1>0, <1>8, <1>a, <2>1 DEF Reaped, Ends, Phase, Contract!Next, Contract!Ends
<1>9. CASE Killed
  <2>1. CASE at = "spawning"
    <3>1. Gone /\ Gone' /\ at' = "over" /\ fate' = "killed"
      BY <1>0, <1>9, <2>1 DEF Killed, Ends, StageIsRegistered, Gone
    <3> QED
      BY <1>0, <1>a, <2>1, <3>1 DEF Phase, Contract!Next, Contract!Finishes, Contract!Abandons
  <2>2. CASE at = "waiting"
    BY <1>0, <1>9, <2>2, StartKillingIsStep DEF Killed, Contract!Next
  <2>3. CASE at \in {"grace", "reaping"}
    <3>1. Gone' = Gone /\ at' = "over" /\ fate' = "killed"
      BY <1>9, <2>3 DEF Killed, Gone
    <3> QED
      BY <1>0, <1>a, <2>3, <3>1 DEF Phase, Contract!Next, Contract!Ends
  <2> QED
    BY <1>9, <2>1, <2>2, <2>3 DEF Killed
<1>10. CASE Cancels \/ ProcessStep \/ TimePasses \/ CancelJob
  BY <1>10, OthersStartNothing DEF Contract!Next
<1> QED
  BY <1>1, <1>2, <1>3, <1>4, <1>5, <1>6, <1>7, <1>8, <1>9, <1>10 DEF Next, Proceeds
-----------------------------------------------------------------------------
(* Over the runner: the DELETE of an execution is sent once and last, so   *)
(* that while no request goes astray its answer means that nothing is left. *)

RequestsAreEarlier == \A i \in DOMAIN wire : wire[i].execution <= nth

NoDeleteYet ==
  request \notin {"idle", "delete"} =>
    \A i \in DOMAIN wire : wire[i].execution = nth => wire[i].verb # "delete"

AnsweredMeansGone ==
  request = "delete" /\ faults = 0 =>
    IF answer = Http!NoAnswer
      THEN \A i \in DOMAIN wire : wire[i].execution = nth /\ wire[i].verb = "delete" => i = Len(wire)
      ELSE wire = <<>> /\ runner = Http!NoJob

OrderInv == RequestsAreEarlier /\ NoDeleteYet /\ AnsweredMeansGone

\* Those before a request that is sent stay where they are.
LEMMA SendingKeepsOrder ==
  ASSUME NEW w \in Seq(Http!Request), NEW verb \in Http!Awaits, nth \in 1..MaxExecutions,
         Http!SendOn(w, verb)
  PROVE  /\ Len(w) \in Nat /\ DOMAIN w = 1..Len(w) /\ Len(wire') = Len(w) + 1 /\ DOMAIN wire' = 1..(Len(w) + 1)
         /\ \A i \in 1..Len(w) : wire'[i] = w[i]
         /\ wire'[Len(w) + 1].verb = verb /\ wire'[Len(w) + 1].execution = nth
<1> DEFINE r == [verb |-> verb, execution |-> nth, stuck |-> FALSE]
<1>1. r \in Http!Request /\ r.verb = verb /\ r.execution = nth /\ wire' = Append(w, r)
  BY DEF Http!Request, Http!SendOn
<1> HIDE DEF r
<1> QED
  BY <1>1

\* Giving a request up adds none.
LEMMA GivingUpAddsNothing ==
  ASSUME wire \in Seq(Http!Request), NEW w \in Http!GivenUp
  PROVE  /\ w \in Seq(Http!Request)
         /\ \A k \in DOMAIN w : \E i \in DOMAIN wire : w[k] = wire[i]
<1>1. CASE w = wire
  BY <1>1
<1>2. CASE \E i \in DOMAIN wire : w = Http!Without(i)
  <2>1. PICK i \in DOMAIN wire : w = Http!Without(i)
    BY <1>2
  <2>2. /\ w \in Seq(Http!Request) /\ Len(w) = Len(wire) - 1
        /\ \A k \in DOMAIN w : w[k] = wire[IF k < i THEN k ELSE k + 1]
    BY <2>1, OneIsMissing
  <2>3. \A k \in DOMAIN w : (IF k < i THEN k ELSE k + 1) \in DOMAIN wire
    BY <2>2
  <2> QED
    BY <2>2, <2>3
<1> QED
  BY <1>1, <1>2 DEF Http!GivenUp

\* Before its DELETE an execution sends others; its DELETE is behind them all.
LEMMA SendingOrders ==
  ASSUME HttpInv, OrderInv, request \notin {"idle", "delete"}, NEW w \in Http!GivenUp,
         NEW verb \in Http!Awaits, Http!SendOn(w, verb), nth' = nth
  PROVE  OrderInv'
<1>1. nth \in 1..MaxExecutions /\ wire \in Seq(Http!Request)
  BY StageAssumption DEF HttpInv, Http!TypeOK, StageIsUnderWay
<1>2. w \in Seq(Http!Request) /\ \A k \in DOMAIN w : \E i \in DOMAIN wire : w[k] = wire[i]
  BY <1>1, GivingUpAddsNothing
<1>3. \A k \in DOMAIN w : w[k].execution <= nth /\ (w[k].execution = nth => w[k].verb # "delete")
  BY <1>2 DEF OrderInv, RequestsAreEarlier, NoDeleteYet
<1>4. /\ Len(w) \in Nat /\ DOMAIN w = 1..Len(w) /\ Len(wire') = Len(w) + 1 /\ DOMAIN wire' = 1..(Len(w) + 1)
      /\ \A i \in 1..Len(w) : wire'[i] = w[i]
      /\ wire'[Len(w) + 1].verb = verb /\ wire'[Len(w) + 1].execution = nth
  BY <1>1, <1>2, SendingKeepsOrder
<1>5. request' = verb /\ answer' = Http!NoAnswer
  BY DEF Http!SendOn
<1>6. ASSUME NEW i \in DOMAIN wire'
      PROVE  /\ wire'[i].execution <= nth
             /\ wire'[i].execution = nth /\ wire'[i].verb = "delete" => i = Len(wire') /\ verb = "delete"
  <2>1. CASE i \in 1..Len(w)
    BY <1>3, <1>4, <2>1
  <2>2. CASE i = Len(w) + 1
    BY <1>1, <1>4, <2>2
  <2> QED
    BY <1>4, <2>1, <2>2
<1> QED
  BY <1>5, <1>6 DEF OrderInv, RequestsAreEarlier, NoDeleteYet, AnsweredMeansGone

\* Nothing is sent when an execution is over, nor by what happens to requests on their way.
LEMMA OthersOrder ==
  ASSUME HttpInv, OrderInv, nth' = nth,
         \/ request' = "idle" /\ wire' \in Http!GivenUp
         \/ /\ request' = request /\ (request = "delete" => faults' # 0)
            /\ \A k \in DOMAIN wire' : \E i \in DOMAIN wire :
                 wire'[k].execution = wire[i].execution /\ wire'[k].verb = wire[i].verb
  PROVE  OrderInv'
<1>1. \A k \in DOMAIN wire' : \E i \in DOMAIN wire :
        wire'[k].execution = wire[i].execution /\ wire'[k].verb = wire[i].verb
  BY GivingUpAddsNothing DEF HttpInv, Http!TypeOK
<1> QED
  BY <1>1 DEF OrderInv, RequestsAreEarlier, NoDeleteYet, AnsweredMeansGone

\* While an execution awaits its DELETE the runner answers that one alone.
LEMMA OnlyTheDeleteIsAnswered ==
  ASSUME request = "delete", NEW r,
         \/ Http!StoresInput(r) \/ Http!StartsStage(r) \/ Http!StopsStage(r)
         \/ Http!ServesOutput(r) \/ Http!RemovesJob(r)
  PROVE  answer' = answer \/ (r.verb = "delete" /\ r.execution = nth)
  BY DEF Http!StoresInput, Http!StartsStage, Http!StopsStage, Http!ServesOutput, Http!RemovesJob, Http!Tells,
     Http!StageStops, Http!Awaited

\* Handled in order, the awaited DELETE is handled last.
LEMMA HandlesOrders == HttpInv /\ OrderInv /\ Http!Handles => OrderInv'
<1> SUFFICES ASSUME HttpInv, OrderInv, Http!Handles PROVE OrderInv'
  OBVIOUS
<1>1. PICK i \in DOMAIN wire :
        /\ wire[i].stuck \/ \A k \in 1..(i - 1) : wire[k].stuck
        /\ wire' = Http!Without(i)
        /\ \/ Http!StoresInput(wire[i]) \/ Http!StartsStage(wire[i]) \/ Http!StopsStage(wire[i])
           \/ Http!ServesOutput(wire[i]) \/ Http!RemovesJob(wire[i])
  BY DEF Http!Handles
<1>2. UNCHANGED <<request, nth, faults>>
  BY DEF Http!Handles, Http!progress
<1>3. wire \in Seq(Http!Request) /\ Len(wire) \in Nat /\ i \in 1..Len(wire)
  BY DEF HttpInv, Http!TypeOK
<1>4. /\ wire' \in Seq(Http!Request) /\ Len(wire') = Len(wire) - 1
      /\ \A k \in DOMAIN wire' : wire'[k] = wire[IF k < i THEN k ELSE k + 1]
  BY <1>1, <1>3, OneIsMissing
<1>5. \A k \in DOMAIN wire' : (IF k < i THEN k ELSE k + 1) \in DOMAIN wire
  BY <1>3, <1>4
<1>6. RequestsAreEarlier' /\ NoDeleteYet'
  BY <1>2, <1>4, <1>5 DEF OrderInv, RequestsAreEarlier, NoDeleteYet
<1>7. ASSUME request = "delete", faults = 0 PROVE AnsweredMeansGone'
  <2>1. i = 1 /\ answer = Http!NoAnswer
    BY <1>1, <1>3, <1>7 DEF HttpInv, DeleteIsLast, OrderInv, AnsweredMeansGone
  <2>2. \A k \in DOMAIN wire : wire[k].execution = nth /\ wire[k].verb = "delete" => k = Len(wire)
    BY <1>7, <2>1 DEF OrderInv, AnsweredMeansGone
  <2>3. CASE wire[i].verb = "delete" /\ wire[i].execution = nth
    <3>1. wire' = <<>>
      BY <1>3, <1>4, <2>1, <2>2, <2>3
    <3>2. runner' = Http!NoJob
      BY <1>1, <2>3 DEF Http!StoresInput, Http!StartsStage, Http!StopsStage, Http!ServesOutput, Http!RemovesJob
    <3> QED
      BY <3>1, <3>2 DEF AnsweredMeansGone
  <2>4. CASE ~(wire[i].verb = "delete" /\ wire[i].execution = nth)
    <3>1. answer' = Http!NoAnswer
      BY <1>1, <1>7, <2>1, <2>4, OnlyTheDeleteIsAnswered
    <3>2. \A k \in DOMAIN wire' : k + 1 \in DOMAIN wire /\ wire'[k] = wire[k + 1] /\ Len(wire') = Len(wire) - 1
      BY <1>3, <1>4, <2>1
    <3>3. \A k \in DOMAIN wire' : wire'[k].execution = nth /\ wire'[k].verb = "delete" => k + 1 = Len(wire)
      BY <2>2, <3>2
    <3>4. \A k \in DOMAIN wire' : k + 1 = Len(wire) => k = Len(wire')
      BY <1>3, <1>4
    <3> QED
      BY <1>2, <3>1, <3>3, <3>4 DEF AnsweredMeansGone
  <2> QED
    BY <2>3, <2>4
<1>8. ~(request = "delete" /\ faults = 0) => AnsweredMeansGone'
  BY <1>2 DEF AnsweredMeansGone
<1> QED
  BY <1>6, <1>7, <1>8 DEF OrderInv

\* Every step of the execution, of what disturbs it and of the runner.
LEMMA OrderNextInv == HttpInv /\ OrderInv /\ [Http!Next]_http => OrderInv'
<1> SUFFICES ASSUME HttpInv, OrderInv, [Http!Next]_http PROVE OrderInv'
  OBVIOUS
<1> USE DEF Http!progress, Http!signals
<1>a. wire \in Http!GivenUp /\ nth \in Nat /\ faults \in Nat /\ wire \in Seq(Http!Request)
  BY StageAssumption DEF Http!GivenUp, HttpInv, Http!TypeOK
<1>b. DOMAIN wire = 1..Len(wire) /\ \A i \in DOMAIN wire : wire[i] \in Http!Request
  BY <1>a
<1>1. CASE Http!Begin
  <2>1. request' = "inspect" /\ nth' = nth + 1 /\ wire' = wire
    BY <1>1 DEF Http!Begin
  <2>2. \A i \in DOMAIN wire : wire[i].execution \in Int /\ wire[i].execution <= nth
    BY <1>b DEF OrderInv, RequestsAreEarlier, Http!Request
  <2>3. \A i \in DOMAIN wire : wire[i].execution <= nth + 1 /\ wire[i].execution # nth + 1
    BY <1>a, <2>2
  <2> QED
    BY <2>1, <2>3 DEF OrderInv, RequestsAreEarlier, NoDeleteYet, AnsweredMeansGone
<1>2. CASE \/ Http!Inspected \/ Http!InputUploaded \/ Http!RunReported \/ Http!Fails \/ Http!OutputFetched
           \/ Http!Stopped
  <2>1. nth' = nth /\ request \notin {"idle", "delete"}
    BY <1>2 DEF Http!Inspected, Http!InputUploaded, Http!RunReported, Http!Fails, Http!OutputFetched, Http!Stopped
  <2>2. \E verb \in Http!Awaits : Http!SendOn(wire, verb)
    BY <1>2 DEF Http!Inspected, Http!InputUploaded, Http!RunReported, Http!Fails, Http!OutputFetched, Http!Stopped,
       Http!StageStep, Http!Finally, Http!Send
  <2> QED
    BY <1>a, <2>1, <2>2, SendingOrders
<1>3. CASE Http!TransferTimesOut \/ Http!StopWaiting
  <2>1. nth' = nth /\ request \notin {"idle", "delete"}
    BY <1>3 DEF Http!TransferTimesOut, Http!StopWaiting
  <2>2. \E w \in Http!GivenUp : \E verb \in Http!Awaits : Http!SendOn(w, verb)
    BY <1>3 DEF Http!TransferTimesOut, Http!StopWaiting
  <2> QED
    BY <2>1, <2>2, SendingOrders
<1>4. CASE Http!InspectionFails \/ Http!Deleted \/ Http!KilledAtTheEnd
  BY <1>4, <1>a, OthersOrder DEF Http!InspectionFails, Http!Deleted, Http!KilledAtTheEnd
<1>5. CASE Http!RequestTimesOut
  <2>1. PICK w \in Http!GivenUp :
          IF request = "stop" THEN Http!SendOn(w, "delete") ELSE request' = "idle" /\ wire' = w
    BY <1>5 DEF Http!RequestTimesOut
  <2>2. nth' = nth
    BY <1>5 DEF Http!RequestTimesOut
  <2>3. CASE request = "stop"
    BY <2>1, <2>2, <2>3, SendingOrders
  <2>4. CASE request # "stop"
    BY <2>1, <2>2, <2>4, OthersOrder
  <2> QED
    BY <2>3, <2>4
<1>6. CASE Http!Killed
  <2>1. PICK w \in Http!GivenUp :
          CASE request = "inspect" -> request' = "idle" /\ UNCHANGED <<wire, answer>>
            [] request = "run" /\ answer = Http!NoAnswer -> Http!SendOn(w, "stop")
            [] OTHER -> Http!SendOn(w, "delete")
    BY <1>6 DEF Http!Killed
  <2>2. nth' = nth /\ request \notin {"idle", "delete"}
    BY <1>6 DEF Http!Killed
  <2>3. CASE request = "inspect"
    BY <1>a, <2>1, <2>2, <2>3, OthersOrder
  <2>4. CASE request # "inspect"
    <3>1. \E verb \in Http!Awaits : Http!SendOn(w, verb)
      BY <2>1, <2>4
    <3> QED
      BY <2>2, <3>1, SendingOrders
  <2> QED
    BY <2>3, <2>4
<1>7. CASE Http!ConnectionFails
  <2>1. nth' = nth /\ request' = request /\ faults' # 0
    BY <1>7, <1>a DEF Http!ConnectionFails
  <2>2. CASE wire' \in Http!GivenUp
    <3>1. \A k \in DOMAIN wire' : \E i \in DOMAIN wire : wire'[k] = wire[i]
      BY <1>a, <2>2, GivingUpAddsNothing
    <3>2. \A k \in DOMAIN wire' : \E i \in DOMAIN wire :
            wire'[k].execution = wire[i].execution /\ wire'[k].verb = wire[i].verb
      BY <3>1
    <3> QED
      BY <2>1, <3>2, OthersOrder
  <2>3. CASE wire' = [i \in DOMAIN wire |->
                        IF Http!Awaited(wire[i]) THEN [wire[i] EXCEPT !.stuck = TRUE] ELSE wire[i]]
    <3>1. \A i \in DOMAIN wire : /\ [wire[i] EXCEPT !.stuck = TRUE].execution = wire[i].execution
                                 /\ [wire[i] EXCEPT !.stuck = TRUE].verb = wire[i].verb
      BY <1>b DEF Http!Request
    <3>2. \A k \in DOMAIN wire' : k \in DOMAIN wire /\ wire'[k].execution = wire[k].execution
                                  /\ wire'[k].verb = wire[k].verb
      BY <2>3, <3>1
    <3>3. \A k \in DOMAIN wire' : \E i \in DOMAIN wire :
            wire'[k].execution = wire[i].execution /\ wire'[k].verb = wire[i].verb
      BY <3>2
    <3> QED
      BY <2>1, <3>3, OthersOrder
  <2> QED
    BY <1>7, <2>2, <2>3 DEF Http!ConnectionFails
<1>8. CASE Http!Stalls
  <2>1. nth' = nth /\ request' = request /\ faults' # 0
    BY <1>8, <1>a DEF Http!Stalls
  <2>2. PICK i \in DOMAIN wire : wire' = [wire EXCEPT ![i].stuck = TRUE]
    BY <1>8 DEF Http!Stalls
  <2>3. \A k \in DOMAIN wire' : k \in DOMAIN wire /\ wire'[k].execution = wire[k].execution
                                /\ wire'[k].verb = wire[k].verb
    BY <1>b, <2>2 DEF Http!Request
  <2>4. \A k \in DOMAIN wire' : \E j \in DOMAIN wire :
          wire'[k].execution = wire[j].execution /\ wire'[k].verb = wire[j].verb
    BY <2>3
  <2> QED
    BY <2>1, <2>4, OthersOrder
<1>9. CASE Http!Handles
  BY <1>9, HandlesOrders
<1>10. CASE Http!StageEnds
  <2>1. UNCHANGED <<request, nth, wire, faults>> /\ (request = "delete" => answer' = answer)
    BY <1>10 DEF Http!StageEnds
  <2>2. runner # Http!NoJob
    BY <1>10, NothingSent DEF Http!StageEnds
  <2> QED
    BY <2>1, <2>2 DEF OrderInv, RequestsAreEarlier, NoDeleteYet, AnsweredMeansGone
<1>11. CASE Http!DeadlinePasses \/ Http!CancelJob \/ UNCHANGED http
  BY <1>11 DEF Http!DeadlinePasses, Http!CancelJob, http, OrderInv, RequestsAreEarlier, NoDeleteYet, AnsweredMeansGone
<1> HIDE DEF Http!progress, Http!signals
<1> QED
  BY <1>1, <1>2, <1>3, <1>4, <1>5, <1>6, <1>7, <1>8, <1>9, <1>10, <1>11
     DEF Http!Next, Http!Proceeds, Http!Disturbs
-----------------------------------------------------------------------------
(* Over the runner, step by step: putting an input and running are what    *)
(* makes it hold something; every other request takes away.                *)

Started(verb) == verb \in {"put", "run"}

\* A request that is no work, sent while others may be given up, makes the runner hold nothing more.
LEMMA SendingStartsNothing ==
  ASSUME HttpInv, request # "idle", NEW w \in Http!GivenUp, NEW verb \in Http!Awaits, ~Started(verb),
         Http!SendOn(w, verb), runner' = runner
  PROVE  Http!Holds' => Http!Holds
<1>1. nth \in 1..MaxExecutions /\ wire \in Seq(Http!Request)
  BY StageAssumption DEF HttpInv, Http!TypeOK, StageIsUnderWay
<1>2. w \in Seq(Http!Request) /\ \A k \in DOMAIN w : \E i \in DOMAIN wire : w[k] = wire[i]
  BY <1>1, GivingUpAddsNothing
<1>3. /\ Len(w) \in Nat /\ DOMAIN w = 1..Len(w) /\ DOMAIN wire' = 1..(Len(w) + 1)
      /\ \A i \in 1..Len(w) : wire'[i] = w[i]
      /\ wire'[Len(w) + 1].verb = verb
  BY <1>1, <1>2, SendingKeepsOrder
<1>4. ASSUME NEW k \in DOMAIN wire', wire'[k].verb \in {"put", "run"}
      PROVE  \E i \in DOMAIN wire : wire[i].verb \in {"put", "run"}
  <2>1. k \in 1..Len(w)
    BY <1>3, <1>4 DEF Started
  <2>2. k \in DOMAIN w /\ wire'[k] = w[k]
    BY <1>3, <2>1
  <2> QED
    BY <1>2, <1>4, <2>2
<1> QED
  BY <1>4 DEF Http!Holds

\* Nor does anything that happens to requests on their way.
LEMMA LosingStartsNothing ==
  ASSUME runner' = runner,
         \A k \in DOMAIN wire' : \E i \in DOMAIN wire : wire'[k].verb = wire[i].verb
  PROVE  Http!Holds' => Http!Holds
  BY DEF Http!Holds

\* A runner without the job, asked for no work, has nothing to do.
LEMMA HandlingStartsNothing ==
  ASSUME HttpInv, Http!Handles
  PROVE  Http!Holds' => Http!Holds
<1> SUFFICES ASSUME ~Http!Holds PROVE ~Http!Holds'
  OBVIOUS
<1>1. PICK i \in DOMAIN wire :
        /\ wire' = Http!Without(i)
        /\ \/ Http!StoresInput(wire[i]) \/ Http!StartsStage(wire[i]) \/ Http!StopsStage(wire[i])
           \/ Http!ServesOutput(wire[i]) \/ Http!RemovesJob(wire[i])
  BY DEF Http!Handles
<1>2. runner = Http!NoJob /\ \A k \in DOMAIN wire : wire[k].verb \notin {"put", "run"}
  BY DEF Http!Holds
<1>3. [Http!NoJob EXCEPT !.running = 0] = Http!NoJob
  BY DEF Http!NoJob
<1>4. runner' = Http!NoJob
  BY <1>1, <1>2, <1>3 DEF Http!StoresInput, Http!StartsStage, Http!StopsStage, Http!ServesOutput, Http!RemovesJob
<1>5. wire \in Seq(Http!Request)
  BY DEF HttpInv, Http!TypeOK
<1>6. /\ wire' \in Seq(Http!Request) /\ Len(wire') = Len(wire) - 1
      /\ \A k \in DOMAIN wire' : wire'[k] = wire[IF k < i THEN k ELSE k + 1]
  BY <1>1, <1>5, OneIsMissing
<1>7. \A k \in DOMAIN wire' : (IF k < i THEN k ELSE k + 1) \in DOMAIN wire
  BY <1>5, <1>6
<1> QED
  BY <1>2, <1>4, <1>6, <1>7 DEF Http!Holds

\* Every step of the execution, of what disturbs it and of the runner is one of the contract's.
LEMMA HttpIsStep ==
  ASSUME HttpInv, OrderInv, Http!Next, transport = "http", transport' = transport
  PROVE  Contract!Next
<1> USE DEF Http!progress, Http!signals
<1>a. /\ PluginPhase = Http!Phase /\ PluginPhase' = Http!Phase' /\ PluginFate = ending /\ PluginFate' = ending'
      /\ PluginHolds = Http!Holds /\ PluginHolds' = Http!Holds' /\ PluginHolds' \in BOOLEAN
      /\ RequestsWentAstray = (faults # 0) /\ RequestsWentAstray' = (faults' # 0)
  BY DEF PluginPhase, PluginFate, PluginHolds, RequestsWentAstray, Http!Holds
<1>b. faults \in Nat /\ wire \in Http!GivenUp /\ wire \in Seq(Http!Request)
  BY StageAssumption DEF Http!GivenUp, HttpInv, Http!TypeOK
<1>c. ASSUME request \in {"put", "run", "fetch"}, request' \in {"stop", "delete"}, faults' = faults,
             ending' \in {"output", "rejected", "failed", "timed_out", "cancelled", "killed"}
      PROVE  Contract!Next
  BY <1>a, <1>c DEF Http!Phase, Contract!Next, Contract!Decides
<1>d. ASSUME request \in {"inspect", "put", "run"}, request' \in {"put", "run", "fetch"}, faults' = faults, ending' = ending
      PROVE  Contract!Next
  BY <1>a, <1>d DEF Http!Phase, Contract!Next, Contract!Works
<1>e. ASSUME Http!Phase' = Http!Phase, ending' = ending, Http!Holds' => Http!Holds, faults' \in {faults, faults + 1}
      PROVE  Contract!Next
  BY <1>a, <1>b, <1>e DEF Contract!Next, Contract!LetsGo
<1>1. CASE Http!Begin
  BY <1>1, <1>a DEF Http!Begin, Http!Phase, Http!Holds, Contract!Next, Contract!Begins
<1>2. CASE Http!InspectionFails
  BY <1>2, <1>a DEF Http!InspectionFails, Http!Phase, Http!Holds, Contract!Next, Contract!Abandons
<1>3. CASE Http!Inspected
  <2>1. request = "inspect" /\ request' \in {"put", "run"} /\ faults' = faults /\ ending' = ending
    BY <1>3 DEF Http!Inspected, Http!StageStep, Http!Send, Http!SendOn
  <2> QED
    BY <1>d, <2>1
<1>4. CASE Http!InputUploaded
  <2>1. /\ request = "put" /\ faults' = faults
        /\ \/ request' \in {"put", "run"} /\ ending' = ending
           \/ request' = "delete" /\ ending' = "timed_out"
    BY <1>4 DEF Http!InputUploaded, Http!StageStep, Http!Finally, Http!Send, Http!SendOn
  <2> QED
    BY <1>c, <1>d, <2>1
<1>5. CASE Http!RunReported
  <2>1. /\ request = "run" /\ faults' = faults
        /\ \/ request' = "fetch" /\ ending' = ending
           \/ request' = "delete" /\ ending' = "timed_out"
    BY <1>5 DEF Http!RunReported, Http!Finally, Http!Send, Http!SendOn
  <2> QED
    BY <1>c, <1>d, <2>1
<1>6. CASE Http!Fails \/ Http!OutputFetched \/ Http!TransferTimesOut \/ Http!StopWaiting
  <2>1. /\ request \in {"put", "run", "fetch"} /\ request' \in {"stop", "delete"} /\ faults' = faults
        /\ ending' \in {"output", "rejected", "failed", "timed_out", "cancelled"}
    BY <1>6 DEF Http!Fails, Http!OutputFetched, Http!TransferTimesOut, Http!StopWaiting, Http!Finally, Http!Send,
       Http!SendOn
  <2> QED
    BY <1>c, <2>1
<1>7. CASE Http!Stopped
  <2>1. /\ request = "stop" /\ request' = "delete" /\ Http!SendOn(wire, "delete") /\ runner' = runner
        /\ ending' = ending /\ faults' = faults
    BY <1>7 DEF Http!Stopped, Http!Send, Http!SendOn
  <2>2. Http!Holds' => Http!Holds
    BY <1>b, <2>1, SendingStartsNothing DEF Started
  <2> QED
    BY <1>e, <2>1, <2>2 DEF Http!Phase
<1>8. CASE Http!Deleted
  <2>1. request = "delete" /\ request' = "idle" /\ answer # Http!NoAnswer /\ UNCHANGED <<ending, wire, runner, faults>>
    BY <1>8 DEF Http!Deleted
  <2>2. faults = 0 => ~Http!Holds'
    BY <2>1 DEF OrderInv, AnsweredMeansGone, Http!Holds
  <2>3. Http!Holds' => Http!Holds
    BY <2>1 DEF Http!Holds
  <2> QED
    BY <1>a, <2>1, <2>2, <2>3 DEF Http!Phase, Contract!Next, Contract!Ends
<1>9. CASE Http!RequestTimesOut
  <2>1. PICK w \in Http!GivenUp :
          IF request = "stop" THEN Http!SendOn(w, "delete") ELSE request' = "idle" /\ wire' = w
    BY <1>9 DEF Http!RequestTimesOut
  <2>2. request \in {"stop", "delete"} /\ runner' = runner /\ ending' = ending /\ faults' = faults + 1
    BY <1>9 DEF Http!RequestTimesOut
  <2>3. CASE request = "stop"
    <3>1. Http!SendOn(w, "delete") /\ request' = "delete"
      BY <2>1, <2>3 DEF Http!SendOn
    <3>2. Http!Holds' => Http!Holds
      BY <2>2, <2>3, <3>1, SendingStartsNothing DEF Started
    <3> QED
      BY <1>e, <2>2, <2>3, <3>1, <3>2 DEF Http!Phase
  <2>4. CASE request = "delete"
    <3>1. request' = "idle" /\ wire' = w
      BY <2>1, <2>4
    <3>2. \A k \in DOMAIN w : \E i \in DOMAIN wire : w[k].verb = wire[i].verb
      <4>1. \A k \in DOMAIN w : \E i \in DOMAIN wire : w[k] = wire[i]
        BY <1>b, GivingUpAddsNothing
      <4> QED
        BY <4>1
    <3>3. Http!Holds' => Http!Holds
      BY <2>2, <3>1, <3>2, LosingStartsNothing
    <3>4. faults' # 0
      BY <1>b, <2>2
    <3> QED
      BY <1>a, <2>2, <2>4, <3>1, <3>3, <3>4 DEF Http!Phase, Contract!Next, Contract!Ends
  <2> QED
    BY <2>2, <2>3, <2>4
<1>10. CASE Http!DeadlinePasses \/ Http!CancelJob
  BY <1>10, <1>e DEF Http!DeadlinePasses, Http!CancelJob, Http!Phase, Http!Holds
<1>11. CASE Http!Killed
  <2>1. PICK w \in Http!GivenUp :
          CASE request = "inspect" -> request' = "idle" /\ UNCHANGED <<wire, answer>>
            [] request = "run" /\ answer = Http!NoAnswer -> Http!SendOn(w, "stop")
            [] OTHER -> Http!SendOn(w, "delete")
    BY <1>11 DEF Http!Killed
  <2>2. /\ request \in Http!Awaits \ {"delete"} /\ runner' = runner /\ faults' = faults
        /\ ending' = IF request = "stop" THEN ending ELSE "killed"
    BY <1>11 DEF Http!Killed
  <2>3. CASE request = "inspect"
    <3>1. request' = "idle" /\ ending' = "killed" /\ Http!Holds' = Http!Holds
      BY <2>1, <2>2, <2>3 DEF Http!Holds
    <3> QED
      BY <1>a, <2>2, <2>3, <3>1 DEF Http!Phase, Contract!Next, Contract!Abandons
  <2>4. CASE request = "stop"
    <3>1. Http!SendOn(w, "delete") /\ request' = "delete" /\ ending' = ending
      BY <2>1, <2>2, <2>4 DEF Http!SendOn
    <3>2. Http!Holds' => Http!Holds
      BY <2>2, <2>4, <3>1, SendingStartsNothing DEF Started
    <3> QED
      BY <1>e, <2>2, <2>4, <3>1, <3>2 DEF Http!Phase
  <2>5. CASE request \in {"put", "run", "fetch"}
    <3>1. request' \in {"stop", "delete"} /\ ending' = "killed"
      BY <2>1, <2>2, <2>5 DEF Http!SendOn
    <3> QED
      BY <1>c, <2>2, <2>5, <3>1
  <2> QED
    BY <2>2, <2>3, <2>4, <2>5
<1>12. CASE Http!KilledAtTheEnd
  <2>1. /\ request = "delete" /\ request' = "idle" /\ ending' = "killed" /\ runner' = runner
        /\ wire' \in Http!GivenUp /\ faults' \in {faults, faults + 1}
    BY <1>12 DEF Http!KilledAtTheEnd
  <2>2. \A k \in DOMAIN wire' : \E i \in DOMAIN wire : wire'[k].verb = wire[i].verb
    <3>1. \A k \in DOMAIN wire' : \E i \in DOMAIN wire : wire'[k] = wire[i]
      BY <1>b, <2>1, GivingUpAddsNothing
    <3> QED
      BY <3>1
  <2>3. Http!Holds' => Http!Holds
    BY <2>1, <2>2, LosingStartsNothing
  <2>4. faults # 0 => faults' # 0
    BY <1>b, <2>1
  <2> QED
    BY <1>a, <2>1, <2>3, <2>4 DEF Http!Phase, Contract!Next, Contract!Ends
<1>13. CASE Http!ConnectionFails
  <2>1. request' = request /\ runner' = runner /\ ending' = ending /\ faults' = faults + 1
    BY <1>13 DEF Http!ConnectionFails
  <2>2. CASE wire' \in Http!GivenUp
    <3>1. \A k \in DOMAIN wire' : \E i \in DOMAIN wire : wire'[k] = wire[i]
      BY <1>b, <2>2, GivingUpAddsNothing
    <3>2. \A k \in DOMAIN wire' : \E i \in DOMAIN wire : wire'[k].verb = wire[i].verb
      BY <3>1
    <3> QED
      BY <1>e, <2>1, <3>2, LosingStartsNothing DEF Http!Phase
  <2>3. CASE wire' = [i \in DOMAIN wire |->
                        IF Http!Awaited(wire[i]) THEN [wire[i] EXCEPT !.stuck = TRUE] ELSE wire[i]]
    <3>1. \A i \in DOMAIN wire : [wire[i] EXCEPT !.stuck = TRUE].verb = wire[i].verb
      BY <1>b DEF Http!Request
    <3>2. \A k \in DOMAIN wire' : k \in DOMAIN wire /\ wire'[k].verb = wire[k].verb
      BY <2>3, <3>1
    <3>3. \A k \in DOMAIN wire' : \E i \in DOMAIN wire : wire'[k].verb = wire[i].verb
      BY <3>2
    <3> QED
      BY <1>e, <2>1, <3>3, LosingStartsNothing DEF Http!Phase
  <2> QED
    BY <1>13, <2>2, <2>3 DEF Http!ConnectionFails
<1>14. CASE Http!Stalls
  <2>1. request' = request /\ runner' = runner /\ ending' = ending /\ faults' = faults + 1
    BY <1>14 DEF Http!Stalls
  <2>2. PICK i \in DOMAIN wire : wire' = [wire EXCEPT ![i].stuck = TRUE]
    BY <1>14 DEF Http!Stalls
  <2>3. \A k \in DOMAIN wire' : k \in DOMAIN wire /\ wire'[k].verb = wire[k].verb
    BY <1>b, <2>2 DEF Http!Request
  <2>4. \A k \in DOMAIN wire' : \E j \in DOMAIN wire : wire'[k].verb = wire[j].verb
    BY <2>3
  <2> QED
    BY <1>e, <2>1, <2>4, LosingStartsNothing DEF Http!Phase
<1>15. CASE Http!Handles
  <2>1. UNCHANGED <<request, ending, faults>>
    BY <1>15 DEF Http!Handles
  <2> QED
    BY <1>15, <1>e, <2>1, HandlingStartsNothing DEF Http!Phase
<1>16. CASE Http!StageEnds
  <2>1. UNCHANGED <<request, ending, faults>>
    BY <1>16 DEF Http!StageEnds
  <2>2. Http!Holds
    BY <1>16, NothingSent DEF Http!StageEnds, Http!Holds
  <2> QED
    BY <1>e, <2>1, <2>2 DEF Http!Phase
<1> HIDE DEF Http!progress, Http!signals
<1> QED
  BY <1>1, <1>2, <1>3, <1>4, <1>5, <1>6, <1>7, <1>8, <1>9, <1>10, <1>11, <1>12, <1>13, <1>14, <1>15, <1>16
     DEF Http!Next, Http!Proceeds, Http!Disturbs

\* An idle plugin promises nothing yet and holds nothing.
LEMMA PluginInitIsInit == PluginInit => Contract!Init
<1> SUFFICES ASSUME PluginInit PROVE Contract!Init
  OBVIOUS
<1>1. /\ at = "idle" /\ fate = "none" /\ group = NoGroup /\ transport \in {"local", "http"}
      /\ request = "idle" /\ ending = "none" /\ wire = <<>> /\ runner = Http!NoJob /\ faults = 0
  BY DEF PluginInit, Init, Http!Init
<1>2. Gone /\ ~Http!Holds /\ Phase = "idle" /\ Http!Phase = "idle"
  BY <1>1, NothingStarted DEF Gone, Http!Holds, Phase, Http!Phase
<1> QED
  BY <1>1, <1>2 DEF Contract!Init, PluginPhase, PluginFate, PluginHolds, RequestsWentAstray

\* Over the runner an execution's DELETE stays the last of its requests.
LEMMA RequestsAreOrdered == PluginSpec => []OrderInv
<1>1. PluginInit => OrderInv
  BY DEF PluginInit, Http!Init, OrderInv, RequestsAreEarlier, NoDeleteYet, AnsweredMeansGone
<1>2. HttpInv /\ OrderInv /\ [PluginNext]_plugin => OrderInv'
  <2>1. [PluginNext]_plugin => [Http!Next]_http
    BY DEF PluginNext, LocalStep, HttpStep, Over, plugin, http
  <2> QED
    BY <2>1, OrderNextInv
<1> QED
  BY <1>1, <1>2, HttpIsRunner, PTL DEF PluginSpec

\* Only work starts anything, what is given up yields no output, and what was started is let go of
\* before the execution ends, over either transport.
THEOREM EngineKeepsContract == PluginSpec => KeepsContract
<1>1. ProcessInv /\ HttpInv /\ OrderInv /\ [PluginNext]_plugin => [Contract!Next]_(Contract!execution)
  <2> SUFFICES ASSUME ProcessInv, HttpInv, OrderInv, [PluginNext]_plugin
               PROVE  [Contract!Next]_(Contract!execution)
    OBVIOUS
  <2>1. CASE LocalStep
    BY <2>1, LocalIsStep DEF LocalStep, Over
  <2>2. CASE HttpStep
    BY <2>2, HttpIsStep DEF HttpStep, Over
  <2>3. CASE UNCHANGED plugin
    BY <2>3 DEF plugin, local, http, vars, execution, Contract!execution, PluginPhase, PluginFate, PluginHolds,
       RequestsWentAstray, Phase, Gone, Http!Phase, Http!Holds
  <2> QED
    BY <2>1, <2>2, <2>3 DEF PluginNext
<1> QED
  BY <1>1, PluginInitIsInit, LocalIsProcess, Invariance, HttpIsRunner, RequestsAreOrdered, PTL
     DEF PluginSpec, KeepsContract, Contract!Spec
=============================================================================
