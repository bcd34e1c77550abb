--------------------------- MODULE ProfileWorker ----------------------------
(***************************************************************************)
(* agent_main.py, the profile plugins and the coordinator's side of a      *)
(* recipe: a worker verifies its profiles, registers their versions, is    *)
(* leased a job that pins some of them, inspects its runtime again, runs   *)
(* the job and attests; the coordinator compares.  Meanwhile the runtime   *)
(* is reconfigured, the agent restarted, and either side brought to        *)
(* another revision of the package.                                        *)
(***************************************************************************)
EXTENDS Recipes

CONSTANTS
  Runtimes,     \* what the machine's runtime may be: [parts, flags, build]
  Configured,   \* values of MVS_WORKER_PROFILE
  Templates,    \* capabilities of the templates installed for the generic plugin
  Payloads,     \* what hosts submit: functions from input names
  Budget,       \* attempts of a job
  MaxChanges    \* bound on reconfigurations, restarts and revisions

Generic == "generic"

\* Configurations are lists of strings, and no profile has the name of what is none.
ASSUME ProfilesAssumption ==
  /\ CatalogIsSound /\ {Plain, Generic} \cap {Names[i] : i \in DOMAIN Names} = {}
  /\ Configured \subseteq Seq(STRING)
  /\ Budget \in Nat \ {0} /\ MaxChanges \in Nat

VARIABLES
  machine,      \* the runtime as it is
  agent,
  coordinator,  \* its revision, and whether the agent extras are installed
  row,          \* the worker's row
  job,
  changes

vars == <<machine, agent, coordinator, row, job, changes>>

Revisions == DOMAIN Catalog
Down(rev) == [at |-> "down", rev |-> rev, names |-> <<>>, generic |-> FALSE, verified |-> <<>>, heard |-> FALSE]
NoRow == [capabilities |-> {}, versions |-> Nothing]
NoJob == [at |-> "none", capability |-> Generic, pins |-> Nothing, payload |-> Nothing, inputs |-> Nothing,
          plugin |-> Generic, report |-> Nothing, by |-> Down("none"), on |-> {},
          verdict |-> "none", judge |-> {}, attempts |-> 0]

Init ==
  /\ machine \in Runtimes
  /\ \E rev \in Revisions : agent = Down(rev)
  /\ coordinator \in [rev : Revisions, extras : BOOLEAN]
  /\ row = NoRow /\ job = NoJob /\ changes = 0

Change == changes < MaxChanges /\ changes' = changes + 1
-----------------------------------------------------------------------------
(* The agent's start.                                                      *)

Profiles == {agent.names[i] : i \in DOMAIN agent.names}

Engines(rev, names) == {i \in DOMAIN names : names[i] \in Known(rev) /\ IsEngine(rev, names[i])}

\* An engine profile runs alone; beside templates only profiles that may share run.
Accepts(rev, names, generic) ==
  /\ Parses(rev, names)
  /\ IF Engines(rev, names) # {} THEN Len(names) = 1 /\ ~generic
     ELSE \A i \in DOMAIN names : Catalog[rev][names[i]].mixed

\* A refused configuration ends the process before it touches the runtime.
Start ==
  /\ agent.at = "down"
  /\ \E names \in Configured, generic \in BOOLEAN :
       /\ Accepts(agent.rev, names, generic)
       /\ agent' = [Down(agent.rev) EXCEPT !.at = "inspecting", !.names = names, !.generic = generic]
  /\ UNCHANGED <<machine, coordinator, row, job, changes>>

\* One profile after the other, each by requests of its own; a recipe not met ends the process.
InspectProfile ==
  /\ agent.at = "inspecting" /\ Len(agent.verified) < Len(agent.names)
  /\ LET p == agent.names[Len(agent.verified) + 1] IN
     agent' = IF Passes(agent.rev, p, machine)
                THEN [agent EXCEPT !.verified = Append(@, Inspected(agent.rev, p, machine))]
                ELSE Down(agent.rev)
  /\ UNCHANGED <<machine, coordinator, row, job, changes>>

Claimed == UNION {CapabilityIds(agent.rev, p) : p \in Profiles}

\* A capability two profiles claim ends the process too.
Ready ==
  /\ agent.at = "inspecting" /\ Len(agent.verified) = Len(agent.names)
  /\ agent' = IF \E p, q \in Profiles : p # q /\ CapabilityIds(agent.rev, p) \cap CapabilityIds(agent.rev, q) # {}
                THEN Down(agent.rev) ELSE [agent EXCEPT !.at = "up"]
  /\ UNCHANGED <<machine, coordinator, row, job, changes>>

\* Mistake: the generic plugin keeps every template, and comes last.
ServedGenerically ==
  [c \in Claimed \cup (IF agent.generic THEN Templates ELSE {}) |->
     IF agent.generic /\ c \in Templates THEN Generic
     ELSE CHOOSE p \in Profiles : c \in CapabilityIds(agent.rev, p)]

\* The generic plugin runs the templates no profile claims.
Served ==
  [c \in Claimed \cup (IF agent.generic THEN Templates ELSE {}) |->
     IF c \in Claimed THEN CHOOSE p \in Profiles : c \in CapabilityIds(agent.rev, p) ELSE Generic]

Position(p) == CHOOSE i \in DOMAIN agent.names : agent.names[i] = p

\* The first profile has the plain keys; a further one its own beside them.
Registered(i) ==
  IF i = 1 THEN agent.verified[1] ELSE NamespacedVersions(agent.names[i], agent.verified[i])

RuntimeVersionsOfAgent ==
  [k \in UNION {DOMAIN Registered(i) : i \in DOMAIN agent.names} |->
     LET i == CHOOSE i \in DOMAIN agent.names : k \in DOMAIN Registered(i) IN Registered(i)[k]]
-----------------------------------------------------------------------------
(* The worker's requests, and what the coordinator refuses of them.        *)

Refused == Unqualified(coordinator.rev, coordinator.extras)

\* A poll starts with a heartbeat, and ends with it if that is refused.
Heartbeat ==
  /\ agent.at = "up" /\ job.at \notin {"leased", "validated", "checked", "ran"}
  /\ ~NamesUnqualified(Refused, DOMAIN Served, RuntimeVersionsOfAgent)
  /\ row' = [capabilities |-> DOMAIN Served, versions |-> RuntimeVersionsOfAgent]
  /\ agent' = [agent EXCEPT !.heard = TRUE]
  /\ UNCHANGED <<machine, coordinator, job, changes>>

Satisfies(versions, pins) == \A k \in DOMAIN pins : k \in DOMAIN versions /\ versions[k] = pins[k]

Lease ==
  /\ agent.at = "up" /\ agent.heard /\ job.at = "queued"
  /\ ~NamesUnqualified(Refused, {}, row.versions)
  /\ job.capability \in (DOMAIN Served \cap row.capabilities) \ Refused.capabilities
  /\ Satisfies(row.versions, job.pins)
  /\ job' = [job EXCEPT !.at = "leased", !.attempts = @ + 1]
  /\ agent' = [agent EXCEPT !.heard = FALSE]
  /\ UNCHANGED <<machine, coordinator, row, changes>>

\* The attempt is given back, unless it was the last.
GiveBack(j) == [j EXCEPT !.at = IF j.attempts < Budget THEN "queued" ELSE "over"]

WithDefaults(payload, defaults) ==
  [k \in DOMAIN payload \cup DOMAIN defaults |-> IF k \in DOMAIN payload THEN payload[k] ELSE defaults[k]]

\* A template's defaults stand for what the job omits; an engine takes what it is given.
Validate ==
  /\ job.at = "leased"
  /\ LET p == Served[job.capability] IN
     job' = [job EXCEPT !.at = "validated", !.plugin = p,
               !.inputs = IF p = Generic \/ IsEngine(agent.rev, p) THEN job.payload
                          ELSE WithDefaults(job.payload, Catalog[agent.rev][p].defaults)]
  /\ UNCHANGED <<machine, agent, coordinator, row, changes>>

\* Mistake: the plugin trusts what it verified at the start.
CheckOnce ==
  /\ job.at = "validated"
  /\ IF job.plugin = Generic
       THEN job' = [job EXCEPT !.at = "checked", !.by = agent, !.on = {machine}, !.report = Nothing]
       ELSE LET p == job.plugin  expected == agent.verified[Position(p)] IN
            job' = [job EXCEPT !.at = "checked", !.by = agent, !.on = {machine},
                      !.report = IF Position(p) = 1 THEN expected ELSE AttestedVersions(p, expected)]
  /\ UNCHANGED <<machine, agent, coordinator, row, changes>>

\* A profile's plugin inspects the runtime anew; anything else than it verified fails the attempt.
Check ==
  /\ job.at = "validated"
  /\ IF job.plugin = Generic
       THEN job' = [job EXCEPT !.at = "checked", !.by = agent, !.on = {machine}, !.report = Nothing]
       ELSE LET p == job.plugin  i == Position(p)  actual == Inspected(agent.rev, p, machine) IN
            IF Passes(agent.rev, p, machine) /\ actual = agent.verified[i]
              THEN job' = [job EXCEPT !.at = "checked", !.by = agent, !.on = {machine},
                             !.report = IF i = 1 THEN actual ELSE AttestedVersions(p, actual)]
              ELSE job' = GiveBack(job)
  /\ UNCHANGED <<machine, agent, coordinator, row, changes>>

\* The stage or the workflow runs; on a runtime that no longer passes it may fail.
Run ==
  /\ job.at = "checked"
  /\ \/ job' = [job EXCEPT !.at = "ran"]
     \/ job' = GiveBack(job)
  /\ UNCHANGED <<machine, agent, coordinator, row, changes>>

\* An engine attests the inputs the job set, a template's plugin all it ran with.
Effective ==
  IF job.plugin = Generic THEN Nothing
  ELSE IF IsEngine(job.by.rev, job.plugin)
    THEN [k \in DOMAIN job.inputs \cap Catalog[job.by.rev][job.plugin].attested[job.capability] |-> job.inputs[k]]
  ELSE job.inputs

At(f, k) == IF k \in DOMAIN f THEN f[k] ELSE "absent"

ConfigurationDiffers == ~Satisfies(job.report, job.pins)

InputsDiffer(recipe) ==
  LET defaults == InputDefaults(coordinator.rev, coordinator.extras, recipe) IN
  \E k \in AttestedInputs(coordinator.rev, coordinator.extras, recipe, job.capability) :
    At(Effective, k) # IF k \in DOMAIN job.payload THEN job.payload[k] ELSE At(defaults, k)

\* A rejection is terminal: the job has failed.
Verdict ==
  IF NamesUnqualified(Refused, {job.capability}, job.pins) THEN "unqualified"
  ELSE IF Pinned(job.pins) = {} THEN "accepted"
  ELSE IF ConfigurationDiffers THEN "configuration"
  ELSE IF InputsDiffer(PinnedRecipe(job.pins)) THEN "inputs"
  ELSE "accepted"

Complete ==
  /\ job.at = "ran"
  /\ job' = [job EXCEPT !.at = "over", !.verdict = Verdict, !.judge = {coordinator}]
  /\ UNCHANGED <<machine, agent, coordinator, row, changes>>
-----------------------------------------------------------------------------
(* Hosts and operators.                                                    *)

\* A host pins what the row shows of a profile that serves the capability, under that profile's keys:
\* its recipe, and perhaps one thing more.
PinsFor(capability) ==
  {Nothing} \cup
  UNION {LET keys == {k \in DOMAIN row.versions : k.base = "runtime" \/ k.owner = r.owner} IN
         {[k \in {r, more} |-> row.versions[k]] : more \in keys} :
           r \in {k \in DOMAIN row.versions : k.base = "recipe" /\
                    \E rev \in Revisions : \E p \in ProfilesOf(rev, row.versions[k]) :
                      capability \in CapabilityIds(rev, p)}}

Submit ==
  /\ job.at = "none"
  /\ \E capability \in row.capabilities, payload \in Payloads :
       \E pins \in PinsFor(capability) :
         /\ ~NamesUnqualified(Refused, {capability}, pins)
         /\ job' = [NoJob EXCEPT !.at = "queued", !.capability = capability,
                                 !.pins = pins, !.payload = payload]
  /\ UNCHANGED <<machine, agent, coordinator, row, changes>>

Reconfigure ==
  /\ Change
  /\ machine' \in Runtimes \ {machine}
  /\ UNCHANGED <<agent, coordinator, row, job>>

\* The agent stops, perhaps to be another revision; the lease of its job expires.
Stop ==
  /\ Change /\ agent.at # "down"
  /\ \E rev \in Revisions : agent' = Down(rev)
  /\ job' = IF job.at \in {"leased", "validated", "checked", "ran"} THEN GiveBack(job) ELSE job
  /\ UNCHANGED <<machine, coordinator, row>>

Redeploy ==
  /\ Change
  /\ coordinator' \in [rev : Revisions, extras : BOOLEAN] \ {coordinator}
  /\ UNCHANGED <<machine, agent, row, job>>
-----------------------------------------------------------------------------
\* The model ends with its job.
Next ==
  /\ job.at # "over"
  /\ \/ Start \/ InspectProfile \/ Ready \/ Heartbeat \/ Lease \/ Validate \/ Check \/ Run \/ Complete
     \/ Submit \/ Reconfigure \/ Stop \/ Redeploy

Spec == Init /\ [][Next]_vars
-----------------------------------------------------------------------------
(* "A profile's fingerprint binds discovery, lease eligibility and         *)
(* execution": a job that pins a recipe is completed only if the plugin of *)
(* the very profile ran it, on a runtime that, when it was checked, showed *)
(* every version the job pins.                                             *)
PinsWereTrue ==
  (job.verdict = "accepted" /\ Pinned(job.pins) # {}) =>
    /\ job.plugin # Generic
    /\ LET p == job.plugin  rt == CHOOSE rt \in job.on : TRUE
           seen == Inspected(job.by.rev, p, rt) IN
       /\ Passes(job.by.rev, p, rt)
       /\ \A k \in DOMAIN job.pins :
            job.pins[k] = seen[Key(k.base, Plain)] /\ k.owner \in {Plain, p}

\* The profiles were inspected on one and the same runtime.
Uniform(a) ==
  \A i \in DOMAIN a.verified : a.verified[i][Key("runtime", Plain)] = a.verified[1][Key("runtime", Plain)]

(* A worker that did what its job pins is believed: a completion is        *)
(* rejected for its recipe, which fails the job for good, only where the   *)
(* two sides run different revisions, the coordinator lacks the extras, or *)
(* the job pins a shared fact that changed between the inspections of the  *)
(* worker's profiles.                                                      *)
HonestJobsVerify ==
  job.verdict \in {"configuration", "inputs"} =>
    \/ \E c \in job.judge : c.rev # job.by.rev \/ ~c.extras
    \/ job.verdict = "configuration" /\ ~Uniform(job.by) /\ Key("runtime", Plain) \in DOMAIN job.pins

(* "A profile that is not qualified is refused at enrolment, registration  *)
(* and dispatch": nothing is accepted that such a profile ran, also when   *)
(* the coordinator's revision changes while its job is queued or runs.     *)
UnqualifiedIsNeverAccepted ==
  job.verdict = "accepted" =>
    \A c \in job.judge : job.plugin \notin Unqualified(c.rev, c.extras).profiles
=============================================================================
