----------------------------- MODULE Submissions -----------------------------
(***************************************************************************)
(* validation.py: the gate every submission passes before it is stored.    *)
(* The payload is whatever object graph the host built, so it is a heap of *)
(* containers that may share children and contain themselves; the gate     *)
(* walks it with a stack of its own before anything recursive touches it.  *)
(***************************************************************************)
EXTENDS Naturals, Sequences, SequencesExt, FiniteSets

CONSTANTS
  Heaps,         \* payloads: containers [keys, items] by name, among them "payload"
  Requirements,  \* [pins, lists]: how many versions and how many entries of each list a job asks for
  InputKeys,     \* sequences of input keys
  MaxDepth,      \* MAX_JOB_PAYLOAD_DEPTH
  MaxEntries,    \* MAX_JOB_REQUIREMENT_ENTRIES
  MaxInputs      \* MAX_JOB_INPUT_KEYS

\* A scalar is of a kind JSON has, a number that is not finite, or something else.
Scalars == {"plain", "infinite", "unsupported"}

\* The objects and lists of a payload are told apart from its scalars.
IsHeap(h) ==
  /\ Scalars \cap DOMAIN h = {}
  /\ \A c \in DOMAIN h : h[c].items \in Seq(ToSet(h[c].items))

VARIABLES
  heap, requirements, inputs,
  stack,         \* values still to be looked at, with their depths
  seen,          \* containers looked at
  stage

vars == <<heap, requirements, inputs, stack, seen, stage>>

Init ==
  /\ heap \in Heaps /\ requirements \in Requirements /\ inputs \in InputKeys
  /\ stack = <<>> /\ seen = {} /\ stage = "fields"

InputsHold == Len(inputs) <= MaxInputs /\ IsInjective(inputs)

\* The versions a job pins count twice, by their names and by their values.
RequirementsHold == 2 * requirements.pins <= MaxEntries /\ requirements.lists <= MaxEntries

\* validate_job_submission up to the payload.
CheckFields ==
  /\ stage = "fields"
  /\ IF InputsHold /\ RequirementsHold
       THEN stage' = "walking" /\ stack' = <<[value |-> "payload", depth |-> 1]>>
       ELSE stage' = "refused" /\ UNCHANGED stack
  /\ UNCHANGED <<heap, requirements, inputs, seen>>

Top == Last(stack)
IsContainer(value) == value \in DOMAIN heap
Children(value, depth) ==
  [i \in DOMAIN heap[value].items |-> [value |-> heap[value].items[i], depth |-> depth]]

\* Mistake: only objects are remembered, since lists have no keys to repeat.
Remembered(value) == IF heap[value].keys = "none" THEN {} ELSE {value}

Remembers(value) == {value}

\* A container is opened once, and its children come off the stack last first.
OpenContainer ==
  /\ stage = "walking" /\ stack # <<>> /\ Top.depth <= MaxDepth /\ IsContainer(Top.value)
  /\ Top.value \notin seen /\ heap[Top.value].keys # "other"
  /\ seen' = seen \cup Remembers(Top.value)
  /\ stack' = Front(stack) \o Children(Top.value, Top.depth + 1)
  /\ UNCHANGED <<heap, requirements, inputs, stage>>

PassScalar ==
  /\ stage = "walking" /\ stack # <<>> /\ Top.depth <= MaxDepth /\ Top.value = "plain"
  /\ stack' = Front(stack)
  /\ UNCHANGED <<heap, requirements, inputs, seen, stage>>

\* Too deep, repeated or cyclic, keyed by something else than strings, or no JSON value.
Refuse ==
  /\ stage = "walking" /\ stack # <<>>
  /\ \/ Top.depth > MaxDepth
     \/ IsContainer(Top.value) /\ (Top.value \in seen \/ heap[Top.value].keys = "other")
     \/ ~IsContainer(Top.value) /\ Top.value # "plain"
  /\ stage' = "refused"
  /\ UNCHANGED <<heap, requirements, inputs, stack, seen>>

\* Nothing is left to be looked at: the payload is encoded, which is recursive.
Accept ==
  /\ stage = "walking" /\ stack = <<>>
  /\ stage' = "accepted"
  /\ UNCHANGED <<heap, requirements, inputs, stack, seen>>

Next == CheckFields \/ OpenContainer \/ PassScalar \/ Refuse \/ Accept

Spec == Init /\ [][Next]_vars
-----------------------------------------------------------------------------
\* A place is a position in a container; a route leads from the payload over one place after another.
Places(h) == UNION {{[of |-> c, at |-> i] : i \in DOMAIN h[c].items} : c \in DOMAIN h}
Held(h, place) == h[place.of].items[place.at]
End(h, route) == IF route = <<>> THEN "payload" ELSE Held(h, route[Len(route)])

IsRoute(h, route) ==
  \A i \in DOMAIN route : route[i].of = IF i = 1 THEN "payload" ELSE Held(h, route[i - 1])

Routes(h) == {route \in BoundedSeq(Places(h), MaxDepth) : IsRoute(h, route)}

\* A JSON tree: no route is too long, no two lead to one container, and every value is JSON's.
IsTree(h) ==
  /\ \A r \in Routes(h) : Len(r) < MaxDepth
  /\ \A r, q \in Routes(h) : r # q /\ End(h, r) \in DOMAIN h => End(h, r) # End(h, q)
  /\ \A r \in Routes(h) : IF End(h, r) \in DOMAIN h THEN h[End(h, r)].keys # "other" ELSE End(h, r) = "plain"

(* What is encoded, digested and stored is a JSON tree of bounded depth,   *)
(* and no such tree is refused for its payload: the walk finds every       *)
(* shared, cyclic, too deep or foreign value, in whatever order the values *)
(* come off its stack.                                                     *)
WalkDecides ==
  /\ stage = "accepted" => IsTree(heap)
  /\ stage = "refused" => ~IsTree(heap) \/ ~InputsHold \/ ~RequirementsHold
=============================================================================
