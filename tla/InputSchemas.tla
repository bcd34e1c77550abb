---------------------------- MODULE InputSchemas ----------------------------
(***************************************************************************)
(* The input schemas that plugins publish and hosts compose payloads by,   *)
(* read as JSON Schema reads them.  A value is a scalar, a string by its   *)
(* length and a number counted in halves (an odd one is no integer), or an *)
(* object of granted keys.                                                 *)
(***************************************************************************)
EXTENDS Integers, Sequences, FiniteSets

Scalar(kind, n) == [kind |-> kind, n |-> n]
Keys(of) == [kind |-> "object", of |-> of]
NoString == "no string"   \* what an object may hold instead of a key

Numeric == {"int", "float"}
SameValue(v, w) == v = w \/ (v.kind \in Numeric /\ w.kind \in Numeric /\ v.n = w.n)

Within(n, least, most) == (\A low \in least : low <= n) /\ (\A high \in most : n <= high)

Property(type) ==
  [type |-> type, least |-> {}, most |-> {}, values |-> {}, slots |-> {}, needed |-> {}]

Fits(property, v) ==
  \/ property.type = "object" /\ v.kind = "object"
       /\ property.needed \subseteq DOMAIN v.of /\ DOMAIN v.of \subseteq property.slots
       /\ \A s \in DOMAIN v.of : v.of[s] # NoString
  \/ property.type = "enum" /\ v.kind # "object" /\ \E w \in property.values : SameValue(v, w)
  \/ property.type = "boolean" /\ v.kind = "bool"
  \/ property.type = "string" /\ v.kind = "string" /\ Within(v.n, property.least, property.most)
  \/ property.type \in {"integer", "number"} /\ v.kind \in Numeric
       /\ (property.type = "integer" => v.n % 2 = 0)
       /\ Within(v.n, property.least, property.most)

\* An object schema without additional properties; oneOf is a set of names, one of which is given.
Conforms(schema, payload) ==
  /\ schema.required \subseteq DOMAIN payload
  /\ DOMAIN payload \subseteq DOMAIN schema.properties
  /\ \A name \in DOMAIN payload : Fits(schema.properties[name], payload[name])
  /\ schema.oneOf # {} => Cardinality(schema.oneOf \cap DOMAIN payload) = 1
=============================================================================
