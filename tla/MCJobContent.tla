---------------------------- MODULE MCJobContent -----------------------------
(***************************************************************************)
(* Small payloads, templates, stages, recipes and runtimes for JobContent. *)
(***************************************************************************)
EXTENDS JobContent, TLC

LOCAL INSTANCE InputSchemas

Options(some) == {<<>>} \cup {<<v>> : v \in some}

\* The functions from some of the names to a value each name may have.
Choices(names, values) == UNION {[chosen -> values] : chosen \in SUBSET names}
-----------------------------------------------------------------------------
(* Payloads as a host may build them: two containers that may hold each    *)
(* other, themselves, and values JSON does or does not have.               *)

Short(values) == UNION {[1..n -> values] : n \in 0..2}
MCHeaps ==
  {("payload" :> [keys |-> k, items |-> s]) @@ ("inner" :> [keys |-> l, items |-> t]) :
     k \in {"strings", "other"}, l \in {"none", "strings", "other"},
     s \in Short({"payload", "inner", "plain", "infinite", "unsupported"}), t \in Options({"payload", "inner", "plain"})}

MCRequirements == {[pins |-> 1, lists |-> 3], [pins |-> 2, lists |-> 0]}
MCInputKeys == {<<"k1", "k2">>, <<"k1", "k1">>}
-----------------------------------------------------------------------------
(* Templates.  Two image slots, of which one takes a chain of nodes with   *)
(* it; an audio slot beside an image; and documents with one mistake each. *)

Node(class, ins) == [class |-> class, inputs |-> ins]
Leads(to) == [kind |-> "link", node |-> to]
Value == Scalar("string", 1)
Entry(name, node, kind, required) ==
  [name |-> name, node |-> node, input |-> name, kind |-> kind, minimum |-> {}, maximum |-> {},
   length |-> {}, default |-> {}, required |-> required]
Slot(name, node, required, dependents) ==
  [name |-> name, node |-> node, required |-> required, dependents |-> dependents]

Reference ==
  [version |-> 1,
   graph |-> ("load1" :> Node("LoadImage", "file" :> Value)) @@ ("load2" :> Node("LoadImage", "file" :> Value))
          @@ ("scale" :> Node("Scale", "image" :> Leads("load1")))
          @@ ("encode" :> Node("Encode", "image" :> Leads("scale")))
          @@ ("prompt" :> Node("Prompt", "text" :> Value))
          @@ ("sample" :> Node("Sample", ("latent" :> Leads("encode")) @@ ("frame" :> Leads("load2"))
                                         @@ ("cond" :> Leads("prompt")) @@ ("steps" :> Value)))
          @@ ("save" :> Node("Save", ("image" :> Leads("sample")) @@ ("prefix" :> Value))),
   entries |-> <<[Entry("text", "prompt", "string", TRUE) EXCEPT !.minimum = {1}, !.length = {2}],
                 [Entry("steps", "sample", "integer", FALSE) EXCEPT !.minimum = {2}, !.maximum = {8},
                                                                    !.default = {Scalar("int", 4)}]>>,
   images |-> <<Slot("first", "load1", FALSE, {"scale", "encode"}), Slot("second", "load2", TRUE, {})>>,
   audios |-> <<>>, output |-> "save"]

\* Neither slot is needed, and the second one's node takes the first one's chain.
Chained ==
  [Reference EXCEPT !.graph["scale"].inputs = @ @@ ("mask" :> Leads("load2")),
                    !.images = <<Slot("second", "load2", FALSE, {}), Slot("first", "load1", FALSE, {"scale", "encode"})>>]

Dialogue ==
  [Reference EXCEPT !.graph = ("voice" :> Node("LoadAudio", "file" :> Value)) @@ @,
                    !.graph["sample"].inputs = @ @@ ("voice" :> Leads("voice")),
                    !.entries = <<Entry("loud", "sample", "boolean", FALSE),
                                  [Entry("steps", "sample", "number", FALSE) EXCEPT !.maximum = {4}]>>,
                    !.images = <<Slot("first", "load1", FALSE, {"scale", "encode"})>>,
                    !.audios = <<Slot("line", "voice", FALSE, {})>>]

SharedNode == [Reference EXCEPT !.images = <<Slot("first", "load1", FALSE, {}), Slot("second", "load1", FALSE, {})>>]
OutputInChain == [Reference EXCEPT !.images[1].dependents = {"scale", "encode", "save"}]
SlotInChain == [Chained EXCEPT !.images[1].dependents = {"load1"}]
UnknownNode == [Reference EXCEPT !.entries[1].node = "nowhere"]
NameTwice == [Reference EXCEPT !.entries[1].name = "steps"]

MCDocuments == {Reference, Chained, Dialogue, SharedNode, OutputInChain, SlotInChain, UnknownNode, NameTwice}
-----------------------------------------------------------------------------
(* Stages: a choice that must be made, a range, and one of two settings.   *)

Choice(values) == [kind |-> "choices", values |-> values]
Span(least, most) == [kind |-> "range", least |-> {least}, most |-> {most}]
Mesh ==
  [settings |-> ("steps" :> Choice({Scalar("int", 2), Scalar("int", 4)})) @@ ("seed" :> Span(0, 2)),
   inputs |-> {"first"}, required |-> {"first"}, requiredSettings |-> {"steps"}, oneOf |-> {}]
Clean ==
  [settings |-> ("seed" :> Span(2, 4)) @@ ("text" :> Choice({Scalar("string", 1)})),
   inputs |-> {"first", "second"}, required |-> {"first"}, requiredSettings |-> {}, oneOf |-> {"seed", "text"}]
MCStages == {Mesh, Clean}
-----------------------------------------------------------------------------
(* Leases.                                                                 *)

Given(name, values) == {Nothing} \cup {name :> v : v \in values}
Granted == SUBSET {"k1", "k2"}
Bound(names) == {Keys(f) : f \in Choices(names, {"k1", "k2", NoString})}

Texts == Given("text", {Scalar("string", 0), Scalar("string", 1), Scalar("string", 3)})
Steps == Given("steps", {Scalar("int", 2), Scalar("int", 4), Scalar("int", 10), Scalar("float", 3), Scalar("float", 4),
                         Scalar("bool", 2)})
Seeds == Given("seed", {Scalar("int", -2), Scalar("int", 2), Scalar("int", 6), Scalar("float", 2), Scalar("bool", 2)})
Pictures == Given("images", Bound({"first", "second"}) \cup {Scalar("string", 1)})
Sounds == Given("audios", Bound({"line", "other"}))

Leases(payloads) == {[version |-> 1, payload |-> p, granted |-> g] : p \in payloads, g \in Granted}
MCOffered ==
  Leases({t @@ n @@ i : t \in Texts, n \in Steps, i \in Pictures})
  \cup Leases({n @@ l @@ a @@ i : n \in Steps, l \in Given("loud", {Scalar("bool", 0), Scalar("int", 0)}), a \in Sounds,
                              i \in Given("images", {Keys("first" :> "k1"), Keys(Nothing)})})
  \cup Leases({n @@ s @@ t @@ i : n \in Steps, s \in Seeds, t \in Given("text", {Scalar("string", 1), Scalar("string", 3)}),
                              i \in Given("inputs", {Keys(Nothing), Keys("first" :> "k1"), Keys("second" :> NoString),
                                                   Keys(("first" :> "k2") @@ ("second" :> "k1"))})})
  \cup Leases({s @@ l : s \in Seeds, l \in Given("label", {Scalar("string", 2), Scalar("string", 3), Scalar("int", 2)})})
  \cup {[version |-> 2, payload |-> Nothing, granted |-> {}]}
-----------------------------------------------------------------------------
(* Recipes: two revisions of the package that differ in an input's         *)
(* default, in a profile, and in whether the engine is pinned; profiles    *)
(* that share a runtime and one that does not; a runtime that is rebuilt,  *)
(* or loses a part and is started with a flag one recipe refuses.          *)

Video(rate) ==
  [kind |-> "comfy", attested |-> "video" :> {"steps", "seed"}, described |-> "video", pinned |-> TRUE,
   qualified |-> TRUE, mixed |-> TRUE, needs |-> {"h3"}, flags |-> {}, refused |-> {},
   feature |-> {"last"}, defaults |-> "steps" :> rate]
Subject ==
  [Video("slow") EXCEPT !.attested = "image" :> {"steps", "seed"}, !.described = "subject", !.needs = {"klein"},
                   !.refused = {"gpuonly"}, !.feature = {}, !.defaults = "seed" :> "own"]
Light ==
  [Video("slow") EXCEPT !.attested = "light" :> {"steps", "seed"}, !.described = "light", !.mixed = FALSE, !.flags = {"sage"}]
Engine(ready) ==
  [Subject EXCEPT !.kind = "engine", !.attested = ("mesh" :> {"seed"}) @@ ("clean" :> {"tier"}),
                  !.described = "engine", !.pinned = ready, !.qualified = ready, !.mixed = FALSE,
                  !.needs = {"engine"}, !.refused = {}, !.defaults = Nothing]

MCCatalog ==
  [new |-> ("std" :> Video("fast")) @@ ("subject" :> Subject) @@ ("light" :> Light) @@ ("engine" :> Engine(TRUE)),
   old |-> ("std" :> Video("slow")) @@ ("light" :> Light) @@ ("engine" :> Engine(FALSE))]
MCNames == <<"engine", "light", "std", "subject">>
MCRuntimes ==
  {[parts |-> {"h3", "klein", "last", "engine"}, flags |-> {}, build |-> 1],
   [parts |-> {"h3", "klein", "last", "engine"}, flags |-> {"sage"}, build |-> 2],
   [parts |-> {"h3", "klein"}, flags |-> {"gpuonly"}, build |-> 1]}
MCConfigured ==
  {<<>>, <<"std">>, <<"std", "subject">>, <<"subject", "std">>, <<"engine">>, <<"light">>, <<"std", "engine">>}
MCPayloads == {Nothing, "seed" :> "given"}
=============================================================================
