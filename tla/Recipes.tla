------------------------------ MODULE Recipes -------------------------------
(***************************************************************************)
(* machine_profiles.py and engine_recipes.py: what a machine profile is,   *)
(* the recipe version that stands for it, the versions an inspection of a  *)
(* runtime yields, and what the coordinator reads out of the versions a    *)
(* job pins.  Worker and coordinator each run a revision of the package    *)
(* with a catalog of its own.  A hash is the record it is taken of.        *)
(***************************************************************************)
EXTENDS Naturals, Sequences, FiniteSets

CONSTANTS
  Catalog,    \* PROFILES of each revision, by name
  Names,      \* the names of all profiles, sorted
  Original    \* the attested inputs of the first profiles, in order of no one

Known(rev) == DOMAIN Catalog[rev]
Plain == "plain"
Bases == {"recipe", "config", "profile", "runtime", "feature"}

\* magic_recipe and the like, or magic_recipe@<profile>; "runtime" stands for the shared facts.
Key(base, owner) == [base |-> base, owner |-> owner]

Nothing == [k \in {} |-> k]

-----------------------------------------------------------------------------
(* Profiles.                                                               *)

CapabilityIds(rev, p) == DOMAIN Catalog[rev][p].attested

Unusable(rev, p) == ~(Catalog[rev][p].qualified /\ Catalog[rev][p].pinned)

IsEngine(rev, p) == Catalog[rev][p].kind = "engine"

\* The hash of the description: an engine's has its stages and its qualification, and no
\* profile's has the inputs' defaults.
RecipeVersion(rev, p) ==
  LET spec == Catalog[rev][p] IN
  [profile |-> p, described |-> spec.described,
   stages |-> IF IsEngine(rev, p) THEN spec.attested ELSE Nothing,
   qualified |-> IF IsEngine(rev, p) THEN spec.qualified ELSE TRUE]

\* What an engine profile needs is pinned, and it cannot be qualified without its pins;
\* the description that is hashed for another profile names its one capability.
CatalogIsSound ==
  /\ Names \in Seq(STRING) /\ \A i, j \in DOMAIN Names : Names[i] = Names[j] => i = j
  /\ \A rev \in DOMAIN Catalog : \A p \in Known(rev) :
       LET spec == Catalog[rev][p] IN
       /\ p \in {Names[i] : i \in DOMAIN Names}
       /\ spec.qualified => spec.pinned
       /\ spec.kind = "comfy" => spec.pinned /\ Cardinality(DOMAIN spec.attested) = 1
       /\ \A other \in DOMAIN Catalog :
            p \in Known(other) /\ RecipeVersion(rev, p) = RecipeVersion(other, p) =>
              CapabilityIds(rev, p) = CapabilityIds(other, p)

\* Each name known and qualified, none twice, and several only of those that share a runtime.
Parses(rev, names) ==
  LET profiles == {names[i] : i \in DOMAIN names} IN
  /\ profiles \subseteq Known(rev)
  /\ \A p \in profiles : ~Unusable(rev, p)
  /\ Cardinality(profiles) = Len(names)
  /\ Len(names) > 1 => \A p \in profiles : Catalog[rev][p].mixed
-----------------------------------------------------------------------------
(* Inspections: rt is the runtime as it is at that moment.                 *)

\* Nodes, models and memory are there, and the launch flags are the recipe's.
ComfyPasses(rev, p, rt) ==
  LET spec == Catalog[rev][p] IN
  spec.needs \subseteq rt.parts /\ spec.flags \subseteq rt.flags /\ spec.refused \cap rt.flags = {}

\* Commit and locks, every weight of its stages, GPU, native build, Blender, and offline.
EnginePasses(rev, p, rt) == Catalog[rev][p].needs \subseteq rt.parts

HasFeature(rev, p, rt) ==
  Catalog[rev][p].feature # {} /\ Catalog[rev][p].feature \subseteq rt.parts

\* The configuration's hash is taken before the features are added.
RuntimeVersions(rev, p, rt) ==
  LET shared == [build |-> rt.build, flags |-> rt.flags] IN
  [recipe |-> RecipeVersion(rev, p), profile |-> p, runtime |-> shared,
   config |-> [recipe |-> RecipeVersion(rev, p), shared |-> shared]]

EngineVersions(rev, p, rt) ==
  [k \in {Key(base, Plain) : base \in Bases \ {"feature"}} |-> RuntimeVersions(rev, p, rt)[k.base]]

ComfyVersions(rev, p, rt) ==
  [k \in {Key(base, Plain) : base \in IF HasFeature(rev, p, rt) THEN Bases ELSE Bases \ {"feature"}} |->
     IF k.base = "feature" THEN "1" ELSE RuntimeVersions(rev, p, rt)[k.base]]

Passes(rev, p, rt) == IF IsEngine(rev, p) THEN EnginePasses(rev, p, rt) ELSE ComfyPasses(rev, p, rt)
Inspected(rev, p, rt) == IF IsEngine(rev, p) THEN EngineVersions(rev, p, rt) ELSE ComfyVersions(rev, p, rt)

Own(versions) == {k \in DOMAIN versions : k.base # "runtime"}

\* A further profile's own keys.
NamespacedVersions(p, versions) ==
  [k \in {Key(o.base, p) : o \in Own(versions)} |-> versions[Key(k.base, Plain)]]

\* What its plugin reports: the shared facts plain, its own keys under its name.
AttestedVersions(p, versions) ==
  [k \in (DOMAIN versions \ Own(versions)) \cup DOMAIN NamespacedVersions(p, versions) |->
     versions[Key(k.base, Plain)]]
-----------------------------------------------------------------------------
(* The coordinator's side; without the agent extras it has no catalog.     *)

\* Mistake: only names and recipes are looked at.
UnqualifiedByName(rev, extras) ==
  LET refused == {p \in Known(rev) : IF extras THEN Unusable(rev, p) ELSE IsEngine(rev, p)} IN
  [profiles |-> refused, capabilities |-> {},
   recipes |-> IF extras THEN {RecipeVersion(rev, p) : p \in refused} ELSE {}]

\* Without a catalog every engine recipe is refused, which the standard library can tell.
Unqualified(rev, extras) ==
  LET refused == {p \in Known(rev) : IF extras THEN Unusable(rev, p) ELSE IsEngine(rev, p)} IN
  [profiles |-> refused,
   capabilities |-> UNION {CapabilityIds(rev, p) : p \in refused},
   recipes |-> IF extras THEN {RecipeVersion(rev, p) : p \in refused} ELSE {}]

NamesUnqualified(refused, capabilities, versions) ==
  \/ capabilities \cap refused.capabilities # {}
  \/ \E k \in DOMAIN versions :
       \/ k.owner \in refused.profiles
       \/ k.base = "profile" /\ versions[k] \in refused.profiles
       \/ k.base = "recipe" /\ versions[k] \in refused.recipes

\* Where a job may pin a recipe, the place that counts first: the plain key, then the names in order.
RecipeKeys == <<Key("recipe", Plain)>> \o [i \in DOMAIN Names |-> Key("recipe", Names[i])]

Pinned(versions) == {i \in DOMAIN RecipeKeys : RecipeKeys[i] \in DOMAIN versions}

PinnedRecipe(versions) ==
  versions[RecipeKeys[CHOOSE i \in Pinned(versions) : \A j \in Pinned(versions) : i <= j]]

ProfilesOf(rev, recipe) == {p \in Known(rev) : RecipeVersion(rev, p) = recipe}

\* A recipe nobody knows is compared by the original inputs.
AttestedInputs(rev, extras, recipe, capability) ==
  IF ~extras \/ ProfilesOf(rev, recipe) = {} THEN Original
  ELSE LET p == CHOOSE p \in ProfilesOf(rev, recipe) : TRUE
           attested == Catalog[rev][p].attested IN
       IF capability \in DOMAIN attested THEN attested[capability]
       ELSE UNION {attested[c] : c \in DOMAIN attested}

\* An engine recipe has none.
InputDefaults(rev, extras, recipe) ==
  IF ~extras \/ \A p \in ProfilesOf(rev, recipe) : IsEngine(rev, p) THEN Nothing
  ELSE Catalog[rev][CHOOSE p \in ProfilesOf(rev, recipe) : TRUE].defaults
=============================================================================
