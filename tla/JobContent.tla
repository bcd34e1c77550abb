----------------------------- MODULE JobContent ------------------------------
(***************************************************************************)
(* What a job carries, at each gate that looks into it: validation.py when *)
(* a host submits it (Submissions), the plugin that validates it and makes *)
(* it into a prompt (PluginInputs), and the recipe it pins, which worker   *)
(* and coordinator compare (ProfileWorker).  The gates share no state.     *)
(***************************************************************************)
EXTENDS ProfileWorker

CONSTANTS
  Heaps, Requirements, InputKeys, MaxDepth, MaxEntries, MaxInputs,   \* Submissions
  Documents, Stages, Offered, MaxLabel                              \* PluginInputs

VARIABLES
  gate,       \* the one that is looked at
  heap, requirements, inputs, stack, seen, stage,
  serving, lease, phase, graph, slot

submitting == <<heap, requirements, inputs, stack, seen, stage>>
preparing == <<serving, lease, phase, graph, slot>>
content == <<gate, vars, submitting, preparing>>

Host == INSTANCE Submissions
Plugin == INSTANCE PluginInputs

ASSUME ContentAssumption ==
  /\ MaxDepth \in Nat /\ MaxEntries \in Nat /\ MaxInputs \in Nat /\ MaxLabel \in Nat
  /\ \A h \in Heaps : Host!IsHeap(h)
  /\ \A t \in Documents : Plugin!IsDocument(t)
  /\ \A s \in Stages : Plugin!IsStage(s)
  /\ \A l \in Offered : Plugin!IsLease(l)

Aside == "aside"
NoSubmission == heap = Aside /\ requirements = Aside /\ inputs = Aside /\ stack = Aside /\ seen = Aside /\ stage = Aside
NoPlugin == serving = Aside /\ lease = Aside /\ phase = "loading" /\ graph = Aside /\ slot = Aside
NoRecipe ==
  /\ machine = CHOOSE rt \in Runtimes : TRUE
  /\ agent = Down(CHOOSE rev \in Revisions : TRUE)
  /\ coordinator = [rev |-> CHOOSE rev \in Revisions : TRUE, extras |-> TRUE]
  /\ row = NoRow /\ job = NoJob /\ changes = 0

ContentInit ==
  \/ gate = "submission" /\ Host!Init /\ NoPlugin /\ NoRecipe
  \/ gate = "plugin" /\ Plugin!Init /\ NoSubmission /\ NoRecipe
  \/ gate = "recipe" /\ Init /\ NoSubmission /\ NoPlugin

Through(kind, step, others) == gate = kind /\ step /\ UNCHANGED <<gate, others>>

SubmissionStep == Through("submission", Host!Next, <<preparing, vars>>)
PluginStep == Through("plugin", Plugin!Next, <<submitting, vars>>)
RecipeStep == Through("recipe", Next, <<submitting, preparing>>)

ContentNext == SubmissionStep \/ PluginStep \/ RecipeStep

ContentSpec == ContentInit /\ [][ContentNext]_content
-----------------------------------------------------------------------------
(* What is encoded, digested and stored is a JSON tree of bounded depth,   *)
(* and no such tree is refused for its payload.                            *)
WalkDecides == Host!WalkDecides

(* Whichever slots a job binds, a template that loads makes a whole graph. *)
GraphIsWhole == Plugin!GraphIsWhole

(* Plugins take what conforms to the schema they publish, and only that.   *)
SchemaIsWhatPluginTakes == Plugin!SchemaIsWhatPluginTakes
=============================================================================
