---------------------------- MODULE WorkerAgent -----------------------------
(***************************************************************************)
(* The agent process of each GPU machine (agent.py WorkerAgent): its poll  *)
(* loop, the serving of one lease at a time and the heartbeat task beside  *)
(* it.  An agent awaits at most one answer; a call whose answer it gave up *)
(* on may still be served by the coordinator.                              *)
(***************************************************************************)
EXTENDS Coordinator

CONSTANTS
  NoSlot,           \* the agent awaits no answer
  Advertised,       \* worker id -> the offer its agent was started with
  Refused,          \* jobs whose payload the plugins reject
  AgentLease        \* the agent's lease_seconds, in ticks

ASSUME NoSlotAssumption == NoSlot \notin Slots
ASSUME AdvertisedAssumption == Advertised \in [Workers -> Offers]
ASSUME AgentLeaseAssumption == AgentLease \in Nat

VARIABLES
  agents,       \* worker id -> its process
  outcomes      \* history: completions the coordinator confirmed to an agent

agentVars == <<agents, outcomes>>

\* Points of the poll loop and of _serve.
LoopPoints == {"off", "poll", "ask", "presence", "leasing", "farewell"}
ServePoints == {"serve", "download", "execute", "upload", "attest", "giveback", "reject",
                "completing", "releasing", "rejecting"}

Agent == [pc      : LoopPoints \cup ServePoints,
          call    : Slots \cup {NoSlot},
          job     : Jobs \cup {"none"},
          token   : Nat,
          digest  : Digests \cup {NoDigest},
          beating : BOOLEAN,
          stop    : BOOLEAN]

Off == [pc |-> "off", call |-> NoSlot, job |-> "none", token |-> NoToken,
        digest |-> NoDigest, beating |-> FALSE, stop |-> FALSE]

AgentsInit == agents = [w \in Workers |-> Off] /\ outcomes = {}

\* The end of _serve: the heartbeat task is cancelled and the workspace removed.
Unserved(a) == [Off EXCEPT !.pc = "poll", !.stop = a.stop]

Become(w, a) == agents' = [agents EXCEPT ![w] = a] /\ UNCHANGED outcomes

Proceed(w, pc) == Become(w, [agents[w] EXCEPT !.pc = pc])

\* A connection the coordinator takes: which free slot serves it does not matter.
FreeSlot == CHOOSE s \in Slots : At(s, "idle")

CanConnect == \E s \in Slots : At(s, "idle")

Post(w, body, pc) ==
  /\ CanConnect
  /\ ReceiveCall(FreeSlot, w, body)
  /\ Become(w, [agents[w] EXCEPT !.pc = pc, !.call = FreeSlot])

PostForJob(w, body, pc) ==
  /\ CanConnect
  /\ ReceiveJobCall(FreeSlot, w, body, agents[w].job, agents[w].token)
  /\ Become(w, [agents[w] EXCEPT !.pc = pc, !.call = FreeSlot])

Presence(w, draining) ==
  [Body("register") EXCEPT !.offer = Advertised[w], !.draining = draining]

LeaseCall(w) ==
  [Body("lease") EXCEPT !.capability_ids = Advertised[w].capability_ids, !.span = AgentLease]

Completion(digest) == [Body("complete") EXCEPT !.digest = digest]

\* Agents are among the workers the coordinator serves.
AgentCalls ==
  {Presence(w, draining) : w \in Workers, draining \in BOOLEAN}
    \cup {LeaseCall(w) : w \in Workers} \cup {Completion(d) : d \in Digests}
    \cup {Body("heartbeat"), Body("release"), Body("fail")}

ASSUME AgentCallsAssumption == AgentCalls \subseteq Calls

\* What an httpx.HTTPError does at an await: _publish is inside the try of _serve and
\* releases the job, the farewell is past the loop, and run_forever polls again otherwise.
TransportError(a) ==
  CASE a.pc = "completing" -> [a EXCEPT !.pc = "giveback", !.call = NoSlot]
    [] a.pc = "farewell"   -> Off
    [] OTHER               -> Unserved(a)

\* The answer the agent awaits has arrived: response.raise_for_status() is TransportError.
Answered(w, pc) == agents[w].pc = pc /\ At(agents[w].call, "reply") /\ Respond(agents[w].call)

Code(w) == requests[agents[w].call].code

Raises(w) == Become(w, TransportError(agents[w]))

-----------------------------------------------------------------------------
(* run_forever and run_once                                                *)

\* Every turn of the loop first advertises the worker, and never as draining.
Poll(w) ==
  /\ agents[w].pc = "poll"
  /\ ~agents[w].stop
  /\ Post(w, Presence(w, FALSE), "presence")

Farewell(w) ==
  /\ agents[w].pc = "poll"
  /\ agents[w].stop
  /\ Post(w, Presence(w, TRUE), "farewell")

PresenceAnswered(w) ==
  /\ Answered(w, "presence")
  /\ IF Code(w) = 200 THEN Become(w, [agents[w] EXCEPT !.pc = "ask", !.call = NoSlot])
                      ELSE Raises(w)

FarewellAnswered(w) ==
  Answered(w, "farewell") /\ Become(w, Off)

AskForWork(w) ==
  /\ agents[w].pc = "ask"
  /\ Post(w, LeaseCall(w), "leasing")

LeaseAnswered(w) ==
  LET r == requests[agents[w].call] IN
  /\ Answered(w, "leasing")
  /\ IF Code(w) = 200
       THEN Become(w, [agents[w] EXCEPT !.pc = "serve", !.call = NoSlot,
                                        !.job = r.job, !.token = r.token])
       ELSE Raises(w)

-----------------------------------------------------------------------------
(* _serve                                                                  *)

\* No plugin serves the capability, or its validate rejects the payload.
RejectLease(w) ==
  /\ agents[w].pc = "serve"
  /\ agents[w].job \in Refused
  /\ Proceed(w, "reject")
  /\ UNCHANGED vars

\* A lease granted just as the drain began is given back instead of started.
ReleaseWhenStopping(w) ==
  /\ agents[w].pc = "serve"
  /\ agents[w].stop
  /\ Proceed(w, "giveback")
  /\ UNCHANGED vars

StartDownload(w) ==
  /\ agents[w].pc = "serve"
  /\ ~agents[w].stop
  /\ Proceed(w, "download")
  /\ UNCHANGED vars

\* The heartbeat task is created only after the inputs are there.
Downloaded(w) ==
  /\ agents[w].pc = "download"
  /\ Become(w, [agents[w] EXCEPT !.pc = "execute", !.beating = TRUE])
  /\ UNCHANGED vars

\* Mistake: the artifact is attested before it is uploaded.
ExecutedAndAttested(w) ==
  /\ agents[w].pc = "execute"
  /\ \E d \in Digests : Become(w, [agents[w] EXCEPT !.pc = "attest", !.digest = d])
  /\ UNCHANGED vars

\* Nothing sets the cancel event meanwhile: execute ends when the plugin ends.
Executed(w) ==
  /\ agents[w].pc = "execute"
  /\ \E d \in Digests : Become(w, [agents[w] EXCEPT !.pc = "upload", !.digest = d])
  /\ UNCHANGED vars

ExecutionRejected(w) ==
  /\ agents[w].pc = "execute"
  /\ agents[w].job \in Refused
  /\ Proceed(w, "reject")
  /\ UNCHANGED vars

\* A failed transfer, a plugin's exception, a deadline: released, whatever was uploaded.
AttemptFails(w) ==
  /\ agents[w].pc \in {"download", "execute", "upload"}
  /\ Proceed(w, "giveback")
  /\ UNCHANGED vars

\* The create-once PUT; 412 counts as uploaded, whoever's content is there.
UploadOutput(w) ==
  /\ agents[w].pc = "upload"
  /\ Proceed(w, "attest")
  /\ \/ Upload(w, agents[w].job, agents[w].digest)
     \/ Stored(OutputKey(agents[w].job)) # NoDigest /\ UNCHANGED vars

Attest(w) ==
  /\ agents[w].pc = "attest"
  /\ PostForJob(w, Completion(agents[w].digest), "completing")

\* Mistake: the outcome is reported after the lease was forgotten.
CompletionAnsweredLate(w) ==
  LET after == IF Code(w) \in {200, 409, 422} THEN Unserved(agents[w])
                                              ELSE TransportError(agents[w])
  IN
  /\ Answered(w, "completing")
  /\ agents' = [agents EXCEPT ![w] = after]
  /\ outcomes' = IF Code(w) = 200 THEN outcomes \cup {<<w, after.job, after.digest>>}
                                  ELSE outcomes

\* 409 and 422 end the attempt as FAILED, any other error status raises and so releases.
CompletionAnswered(w) ==
  /\ Answered(w, "completing")
  /\ CASE Code(w) = 200 ->
            /\ agents' = [agents EXCEPT ![w] = Unserved(@)]
            /\ outcomes' = outcomes \cup {<<w, agents[w].job, agents[w].digest>>}
       [] Code(w) \in {409, 422} -> Become(w, Unserved(agents[w]))
       [] OTHER -> Raises(w)

GiveBack(w) ==
  /\ agents[w].pc = "giveback"
  /\ PostForJob(w, Body("release"), "releasing")

Reject(w) ==
  /\ agents[w].pc = "reject"
  /\ PostForJob(w, Body("fail"), "rejecting")

\* The status of a release or a fail is not looked at.
SettlementAnswered(w) ==
  /\ \E pc \in {"releasing", "rejecting"} : Answered(w, pc)
  /\ Become(w, Unserved(agents[w]))

-----------------------------------------------------------------------------
(* The heartbeat task: it never looks at an answer's status.               *)

\* One heartbeat of a worker at a time, besides the call its main task awaits.
BeatInFlight(w) ==
  \E s \in Slots : requests[s].worker = w /\ s # agents[w].call

BeatJob(w) ==
  /\ agents[w].beating /\ ~BeatInFlight(w) /\ CanConnect
  /\ ReceiveJobCall(FreeSlot, w, Body("heartbeat"), agents[w].job, agents[w].token)
  /\ UNCHANGED agentVars

BeatPresence(w) ==
  /\ agents[w].beating /\ ~BeatInFlight(w) /\ CanConnect
  /\ ReceiveCall(FreeSlot, w, Presence(w, FALSE))
  /\ UNCHANGED agentVars

-----------------------------------------------------------------------------
(* The process.                                                            *)

Start(w) ==
  /\ agents[w].pc = "off"
  /\ Become(w, [Off EXCEPT !.pc = "poll"])
  /\ UNCHANGED vars

\* SIGTERM sets the stop event, which only the loop and the start of _serve look at.
Stop(w) ==
  /\ agents[w].pc # "off" /\ ~agents[w].stop
  /\ Become(w, [agents[w] EXCEPT !.stop = TRUE])
  /\ UNCHANGED vars

\* The machine goes down, or an error no handler expects ends the process.
Die(w) ==
  /\ agents[w].pc # "off"
  /\ Become(w, Off)
  /\ UNCHANGED vars

\* The client's timeout, or a connection that broke: the coordinator may still serve it.
LoseAnswer(w) ==
  /\ agents[w].call # NoSlot
  /\ Raises(w)
  /\ UNCHANGED vars

\* The coordinator goes down, and with it the connection of every agent that awaits it.
LoseCoordinator ==
  /\ Crash
  /\ agents' = [w \in Workers |-> IF agents[w].call = NoSlot THEN agents[w]
                                                           ELSE TransportError(agents[w])]
  /\ UNCHANGED outcomes

\* An answer nobody awaits.
DropAnswer(s) ==
  /\ At(s, "reply")
  /\ \A w \in Workers : agents[w].call # s
  /\ Respond(s)
  /\ UNCHANGED agentVars

-----------------------------------------------------------------------------
LoopStep(w) ==
  \/ Poll(w) \/ Farewell(w) \/ PresenceAnswered(w) \/ FarewellAnswered(w)
  \/ AskForWork(w) \/ LeaseAnswered(w)

ServeStep(w) ==
  \/ RejectLease(w) \/ ReleaseWhenStopping(w) \/ StartDownload(w) \/ Downloaded(w)
  \/ Executed(w) \/ ExecutionRejected(w) \/ UploadOutput(w) \/ Attest(w)
  \/ CompletionAnswered(w) \/ GiveBack(w) \/ Reject(w) \/ SettlementAnswered(w)

BeatStep(w) == BeatJob(w) \/ BeatPresence(w)

AgentFault(w) == Die(w) \/ LoseAnswer(w) \/ AttemptFails(w)
=============================================================================
