---------------------------- MODULE PluginInputs ----------------------------
(***************************************************************************)
(* What becomes of a lease's payload in a plugin: validate, the terminal   *)
(* gate, takes or rejects it, and a workflow plugin then makes it into the *)
(* graph it submits to ComfyUI, uploading a file for every slot it binds.  *)
(***************************************************************************)
EXTENDS Templates, EngineStages

CONSTANTS
  Documents,   \* template documents in an operator's directory
  Stages,      \* stages of engine recipes
  Offered      \* leases: [version, payload, granted]

\* A job's payload and its input keys: an integer is a whole number.
IsLease(l) ==
  /\ NoString \notin l.granted
  /\ \A name \in DOMAIN l.payload : l.payload[name].kind = "int" => l.payload[name].n % 2 = 0

VARIABLES
  serving,     \* the plugin, and the template or stage it serves
  lease,
  phase,
  graph,       \* the execution's copy of the template's graph
  slot         \* the slots done with

vars == <<serving, lease, phase, graph, slot>>

NoGraph == <<>>
NoLease == [version |-> 0, payload |-> <<>>, granted |-> {}]

Init ==
  /\ \/ \E t \in Documents : serving = [plugin |-> "comfy", of |-> t]
     \/ \E s \in Stages : serving = [plugin |-> "engine", of |-> s]
     \/ serving = [plugin |-> "echo", of |-> <<>>]
  /\ lease = NoLease /\ phase = "loading" /\ graph = NoGraph /\ slot = 0

Template == serving.of

\* An unusable document ends the process that loads it.
Load ==
  /\ phase = "loading"
  /\ phase' = IF serving.plugin = "comfy" /\ ~Usable(Template) THEN "refused" ELSE "ready"
  /\ UNCHANGED <<serving, lease, graph, slot>>

Accepts(l) ==
  \/ serving.plugin = "comfy" /\ Takes(Template, l)
  \/ serving.plugin = "engine" /\ StageTakes(serving.of, l)
  \/ serving.plugin = "echo" /\ EchoTakes(l)

Published ==
  IF serving.plugin = "comfy" THEN Schema(Template)
  ELSE IF serving.plugin = "engine" THEN StageSchema(serving.of) ELSE EchoSchema

Validate ==
  /\ phase = "ready"
  /\ \E l \in Offered :
       /\ lease' = l
       /\ phase' = IF Accepts(l) THEN "accepted" ELSE "rejected"
  /\ UNCHANGED <<serving, graph, slot>>

FillInputs ==
  /\ phase = "accepted" /\ serving.plugin = "comfy"
  /\ graph' = Fill(Template.graph, Template.entries, Inputs(Template, lease))
  /\ phase' = "binding"
  /\ UNCHANGED <<serving, lease, slot>>

Current == Slots(Template)[slot + 1]
Upload(s) == [kind |-> "upload", slot |-> s.name]

Binding == phase = "binding" /\ slot < Len(Slots(Template))

SkipSlot ==
  /\ Binding /\ KeyFor(Template, lease, Current) = {}
  /\ graph' = DropSlot(graph, Current)
  /\ slot' = slot + 1
  /\ UNCHANGED <<serving, lease, phase>>

\* The file is uploaded before the node is looked up, which another slot may have dropped.
BindSlot ==
  /\ Binding /\ KeyFor(Template, lease, Current) # {}
  /\ IF Current.node \in DOMAIN graph
       THEN graph' = SetInput(graph, Current.node, "file", Upload(Current)) /\ slot' = slot + 1 /\ UNCHANGED phase
       ELSE phase' = "broken" /\ UNCHANGED <<graph, slot>>
  /\ UNCHANGED <<serving, lease>>

UploadFails ==
  /\ Binding /\ KeyFor(Template, lease, Current) # {}
  /\ phase' = "failed"
  /\ UNCHANGED <<serving, lease, graph, slot>>

\* The output node is given a prefix of the job's own, if it takes one.
SubmitPrompt ==
  /\ phase = "binding" /\ slot = Len(Slots(Template))
  /\ IF Template.output \notin DOMAIN graph THEN phase' = "broken" /\ UNCHANGED graph
     ELSE /\ phase' = "submitted"
          /\ graph' = IF "prefix" \in DOMAIN graph[Template.output].inputs
                        THEN SetInput(graph, Template.output, "prefix", Scalar("string", 1)) ELSE graph
  /\ UNCHANGED <<serving, lease, slot>>

Next == Load \/ Validate \/ FillInputs \/ SkipSlot \/ BindSlot \/ UploadFails \/ SubmitPrompt

Spec == Init /\ [][Next]_vars
-----------------------------------------------------------------------------
(* The document check leaves two mistakes to the execution.                *)
SlotsAreApart(t) == \A i, j \in DOMAIN Slots(t) : i # j => Slots(t)[i].node # Slots(t)[j].node
OutputStays(t) == \A s \in ToSet(Slots(t)) : t.output # s.node /\ t.output \notin s.dependents

(* A template that loads makes whole graphs: whichever slots a job binds,  *)
(* every link leads to a node, the output node and the node of every bound *)
(* slot are there with that slot's file, and nothing breaks on the way.    *)
(* Unless two slots share a node or a slot takes the output with it, which *)
(* no check of the document excludes.                                      *)
GraphIsWhole ==
  (phase \in {"submitted", "broken"} /\ SlotsAreApart(Template) /\ OutputStays(Template)) =>
    /\ phase = "submitted"
    /\ Dangling(graph) \subseteq Dangling(Template.graph)
    /\ \A s \in ToSet(Slots(Template)) :
         IF KeyFor(Template, lease, s) = {} THEN s.node \notin DOMAIN graph
         ELSE graph[s.node].inputs["file"] = Upload(s)

KeysIn(payload) ==
  UNION {{payload[name].of[s] : s \in DOMAIN payload[name].of} :
           name \in {n \in DOMAIN payload : payload[n].kind = "object"}}

BindsWhatIsGranted(l) == serving.plugin # "echo" => KeysIn(l.payload) = l.granted

\* JSON Schema counts 2.0 among the integers, Python does not.
HasIntegralFloat(l) == \E name \in DOMAIN l.payload : l.payload[name].kind = "float" /\ l.payload[name].n % 2 = 0

VersionServed == IF serving.plugin = "comfy" THEN Template.version ELSE 1

(* "The typed allowlist a coordinator publishes" is what plugins take:     *)
(* nothing is accepted that the schema excludes, and a payload that        *)
(* conforms and binds just the inputs it was granted is never rejected for *)
(* good, but for an integer written as a float.                            *)
SchemaIsWhatPluginTakes ==
  /\ phase \notin {"loading", "refused", "ready", "rejected"} => Conforms(Published, lease.payload)
  /\ phase = "rejected" /\ lease.version = VersionServed /\ Conforms(Published, lease.payload) =>
       ~BindsWhatIsGranted(lease) \/ HasIntegralFloat(lease)
=============================================================================
