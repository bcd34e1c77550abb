---------------------------- MODULE EngineStages ----------------------------
(***************************************************************************)
(* engine.py and engine_recipes.py: the stage that serves a capability,    *)
(* the schema it publishes and the requests it takes; and plugins.py's     *)
(* reference plugin, which takes a seed and a label.                       *)
(***************************************************************************)
EXTENDS InputSchemas

Domains(stage) == DOMAIN stage.settings

\* A stage of a recipe: it needs an input, and its choices are integers or strings.
IsStage(stage) ==
  /\ stage.required # {} /\ stage.required \subseteq stage.inputs
  /\ "inputs" \notin Domains(stage)
  /\ \A name \in Domains(stage) : stage.settings[name].kind = "choices" =>
       \A w \in stage.settings[name].values : w.kind \notin {"bool", "object"}

\* A setting's domain: some choices, or a range of integers.
SettingSchema(domain) ==
  IF domain.kind = "choices" THEN [Property("enum") EXCEPT !.values = domain.values]
  ELSE [Property("integer") EXCEPT !.least = domain.least, !.most = domain.most]

StageSchema(stage) ==
  [properties |-> [name \in Domains(stage) \cup {"inputs"} |->
                     IF name \in Domains(stage) THEN SettingSchema(stage.settings[name])
                     ELSE [Property("object") EXCEPT !.slots = stage.inputs, !.needed = stage.required]],
   required |-> {"inputs"} \cup stage.requiredSettings,
   oneOf |-> stage.oneOf]

\* Mistake: a boolean is looked up among the choices, where True is 1.
SettingTaken(domain, v) ==
  IF domain.kind = "choices"
    THEN v.kind # "object" /\ \E w \in domain.values : w.n = v.n
    ELSE v.kind = "int" /\ Within(v.n, domain.least, domain.most)

\* Python compares a choice with 512.0 as with 512, and a range takes integers only.
CheckedSetting(domain, v) ==
  IF domain.kind = "choices"
    THEN v.kind \notin {"bool", "object"} /\ \E w \in domain.values : SameValue(v, w)
    ELSE v.kind = "int" /\ Within(v.n, domain.least, domain.most)

StageTakes(stage, lease) ==
  LET payload == lease.payload
      bound == IF "inputs" \in DOMAIN payload THEN payload["inputs"] ELSE Keys(<<>>) IN
  /\ lease.version = 1
  /\ DOMAIN payload \subseteq Domains(stage) \cup {"inputs"}
  /\ bound.kind = "object"
  /\ DOMAIN bound.of \subseteq stage.inputs /\ stage.required \subseteq DOMAIN bound.of
  /\ \A name \in DOMAIN bound.of : bound.of[name] \in lease.granted
  /\ lease.granted \subseteq {bound.of[name] : name \in DOMAIN bound.of}
  /\ \A name \in Domains(stage) \cap DOMAIN payload : CheckedSetting(stage.settings[name], payload[name])
  /\ stage.requiredSettings \subseteq DOMAIN payload
  /\ stage.oneOf # {} => Cardinality(stage.oneOf \cap DOMAIN payload) = 1
-----------------------------------------------------------------------------
(* DeterministicEchoPlugin.                                                *)

CONSTANT MaxLabel   \* MAX_ECHO_LABEL_LENGTH

EchoSchema ==
  [properties |-> [seed |-> [Property("integer") EXCEPT !.least = {0}],
                   label |-> [Property("string") EXCEPT !.most = {MaxLabel}]],
   required |-> {}, oneOf |-> {}]

EchoTakes(lease) ==
  LET payload == lease.payload IN
  /\ lease.version = 1
  /\ DOMAIN payload \subseteq {"seed", "label"}
  /\ "seed" \in DOMAIN payload => payload["seed"].kind = "int" /\ payload["seed"].n >= 0
  /\ "label" \in DOMAIN payload => payload["label"].kind = "string" /\ payload["label"].n <= MaxLabel
=============================================================================
