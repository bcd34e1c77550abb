----------------------------- MODULE Templates ------------------------------
(***************************************************************************)
(* comfy.py: a workflow template, what makes its document usable, the      *)
(* schema it publishes, the requests it takes, and the graph an execution  *)
(* makes of it.                                                            *)
(***************************************************************************)
EXTENDS InputSchemas, SequencesExt

Media == {"images", "audios"}
SlotsOf(t, medium) == IF medium = "images" THEN t.images ELSE t.audios
Slots(t) == t.images \o t.audios

NamesIn(s) == {s[i].name : i \in DOMAIN s}

Link(node) == [kind |-> "link", node |-> node]

\* A document as it is read: its nodes have inputs that are values or links, and no default is a link.
IsDocument(t) ==
  /\ \A list \in {t.entries, t.images, t.audios} : list \in Seq(ToSet(list))
  /\ \A node \in DOMAIN t.graph :
       LET inputs == t.graph[node].inputs IN
       /\ t.graph[node] = [class |-> t.graph[node].class, inputs |-> inputs]
       /\ \A name \in DOMAIN inputs : inputs[name].kind = "link" => inputs[name] = Link(inputs[name].node)
  /\ \A e \in ToSet(t.entries) : \A v \in e.default : v.kind # "link"

\* What a lease grants is carried by images, and by audios where the template has audio slots.
MediaOf(t) == IF t.audios = <<>> THEN {"images"} ELSE Media
-----------------------------------------------------------------------------
(* _validate_template.                                                     *)

LoaderOf(t, slot) == IF slot \in ToSet(t.images) THEN "LoadImage" ELSE "LoadAudio"

\* Mistake: a slot's node may be the dependent of another slot.
UsableWithSharedNodes(t) ==
  LET declared == t.entries \o Slots(t)  nodes == DOMAIN t.graph IN
  /\ IsInjective([i \in DOMAIN declared |-> declared[i].name]) /\ NamesIn(declared) \cap Media = {}
  /\ \A e \in ToSet(declared) : e.node \in nodes
  /\ \A slot \in ToSet(Slots(t)) : t.graph[slot.node].class = LoaderOf(t, slot) /\ slot.dependents \subseteq nodes
  /\ t.output \in nodes

Usable(t) ==
  LET declared == t.entries \o Slots(t)  nodes == DOMAIN t.graph IN
  /\ IsInjective([i \in DOMAIN declared |-> declared[i].name]) /\ NamesIn(declared) \cap Media = {}
  /\ \A e \in ToSet(declared) : e.node \in nodes
  /\ \A e \in ToSet(t.entries) : e.kind \in {"string", "integer", "number", "boolean"}
  /\ \A slot \in ToSet(Slots(t)) :
       /\ t.graph[slot.node].class = LoaderOf(t, slot)
       /\ slot.dependents \subseteq nodes \ {s.node : s \in ToSet(Slots(t))}
  /\ t.output \in nodes
-----------------------------------------------------------------------------
(* input_schema.                                                           *)

EntrySchema(e) ==
  [Property(e.kind) EXCEPT !.least = e.minimum,
                           !.most = IF e.kind = "string" THEN e.length ELSE e.maximum]

SlotSchema(slots) ==
  [Property("object") EXCEPT !.slots = NamesIn(slots),
                             !.needed = {s.name : s \in {x \in ToSet(slots) : x.required}}]

Schema(t) ==
  [properties |-> [name \in NamesIn(t.entries) \cup MediaOf(t) |->
                     IF name \in MediaOf(t) THEN SlotSchema(SlotsOf(t, name))
                     ELSE EntrySchema(CHOOSE e \in ToSet(t.entries) : e.name = name)],
   required |-> {e.name : e \in {x \in ToSet(t.entries) : x.required}}
                \cup {medium \in MediaOf(t) : \E s \in ToSet(SlotsOf(t, medium)) : s.required},
   oneOf |-> {}]
-----------------------------------------------------------------------------
(* ComfyWorkflowPlugin.validate.                                           *)

\* A bool is never a number, and a string's maximum is its max_length alone.
Checked(e, v) ==
  CASE e.kind = "boolean" -> v.kind = "bool"
    [] e.kind = "string"  -> v.kind = "string" /\ Within(v.n, e.minimum, e.length)
    [] e.kind = "integer" -> v.kind = "int" /\ Within(v.n, e.minimum, e.maximum)
    [] e.kind = "number"  -> v.kind \in Numeric /\ Within(v.n, e.minimum, e.maximum)

Requested(payload, medium) == IF medium \in DOMAIN payload THEN payload[medium] ELSE Keys(<<>>)

Binds(slots, asked, granted) ==
  /\ asked.kind = "object"
  /\ DOMAIN asked.of \subseteq NamesIn(slots)
  /\ \A s \in ToSet(slots) : s.required => s.name \in DOMAIN asked.of
  /\ \A name \in DOMAIN asked.of : asked.of[name] \in granted

Takes(t, lease) ==
  LET payload == lease.payload IN
  /\ lease.version = t.version
  /\ DOMAIN payload \subseteq NamesIn(t.entries) \cup MediaOf(t)
  /\ \A e \in ToSet(t.entries) :
       IF e.name \in DOMAIN payload THEN Checked(e, payload[e.name]) ELSE ~e.required
  /\ \A medium \in MediaOf(t) : Binds(SlotsOf(t, medium), Requested(payload, medium), lease.granted)
  /\ \A key \in lease.granted : \E medium \in MediaOf(t) :
       \E name \in DOMAIN Requested(payload, medium).of : Requested(payload, medium).of[name] = key

\* The inputs an execution runs with, defaults included; a default is taken as it is.
Inputs(t, lease) ==
  [name \in {e.name : e \in {x \in ToSet(t.entries) :
                                x.name \in DOMAIN lease.payload \/ x.default # {}}} |->
     IF name \in DOMAIN lease.payload THEN lease.payload[name]
     ELSE CHOOSE v \in (CHOOSE e \in ToSet(t.entries) : e.name = name).default : TRUE]

KeyFor(t, lease, slot) ==
  LET asked == Requested(lease.payload, IF slot \in ToSet(t.images) THEN "images" ELSE "audios") IN
  IF slot.name \in DOMAIN asked.of THEN {asked.of[slot.name]} ELSE {}
-----------------------------------------------------------------------------
(* The graph of an execution: nodes with inputs that are values or links.  *)

SetInput(graph, node, name, v) ==
  [graph EXCEPT ![node].inputs = [n \in DOMAIN @ \cup {name} |-> IF n = name THEN v ELSE @[n]]]

\* One entry after the other, so that the last one for an input counts.
Fill(graph, entries, inputs) ==
  LET Given(node, name) == {i \in DOMAIN entries : /\ entries[i].node = node /\ entries[i].input = name
                                                  /\ entries[i].name \in DOMAIN inputs}
      Winner(node, name) == entries[CHOOSE i \in Given(node, name) : \A j \in Given(node, name) : j <= i] IN
  [node \in DOMAIN graph |->
     [graph[node] EXCEPT !.inputs =
        [name \in DOMAIN @ \cup {e.input : e \in {x \in ToSet(entries) : Given(node, x.input) # {}}} |->
           IF Given(node, name) = {} THEN @[name] ELSE inputs[Winner(node, name).name]]]]

\* Mistake: the links into the dependents stay.
DropNodes(graph, slot) ==
  [node \in DOMAIN graph \ ({slot.node} \cup slot.dependents) |->
     LET inputs == graph[node].inputs IN
     [graph[node] EXCEPT !.inputs =
        [name \in {n \in DOMAIN inputs : inputs[n] # Link(slot.node)} |-> inputs[name]]]]

\* An unbound slot leaves neither its node, its dependents, nor a link into any of them.
DropSlot(graph, slot) ==
  LET removed == {slot.node} \cup slot.dependents IN
  [node \in DOMAIN graph \ removed |->
     LET inputs == graph[node].inputs IN
     [graph[node] EXCEPT !.inputs =
        [name \in {n \in DOMAIN inputs : \A r \in removed : inputs[n] # Link(r)} |-> inputs[name]]]]

Dangling(graph) ==
  {node \in DOMAIN graph : \E name \in DOMAIN graph[node].inputs :
     \E other \in {graph[node].inputs[name]} : other.kind = "link" /\ other.node \notin DOMAIN graph}
=============================================================================
