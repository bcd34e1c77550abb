-------------------------- MODULE JobContentProofs ---------------------------
(***************************************************************************)
(* What the gates of JobContent let through, for any payloads, documents,  *)
(* stages, catalogs, runtimes and configurations.  A job that pins a       *)
(* recipe is run as pinned, an honest worker is believed, and nothing      *)
(* unqualified is accepted; a plugin takes what its schema says and makes  *)
(* whole graphs of it; and a submission is walked for what it is.          *)
(***************************************************************************)
EXTENDS JobContent, FiniteSetTheorems, SequenceTheorems, WellFoundedInduction, TLAPS

\* A capability does not move from one profile to another between two revisions.
CapabilitiesAreKept ==
  \A rev, other \in Revisions : \A p \in Known(rev) \cap Known(other) :
    CapabilityIds(rev, p) = CapabilityIds(other, p)

ProfileNames == {Names[i] : i \in DOMAIN Names}

AgentFields == {"at", "rev", "names", "generic", "verified", "heard"}
JobFields == {"at", "capability", "pins", "payload", "inputs", "plugin", "report", "by", "on",
              "verdict", "judge", "attempts"}

\* Every version an inspection may yield.
Inspections == {Inspected(rev, p, rt) : rev \in Revisions, p \in STRING, rt \in Runtimes}

RecordsAreWhole ==
  /\ agent = [f \in AgentFields |-> agent[f]] /\ agent.rev \in Revisions
  /\ job = [f \in JobFields |-> job[f]]
  /\ job.at \in {"none", "queued", "leased", "validated", "checked", "ran", "over"}
  /\ coordinator \in [rev : Revisions, extras : BOOLEAN] /\ machine \in Runtimes

\* What the agent verified are inspections of its profiles, each on a runtime that passed.
AgentVerified ==
  /\ agent.names \in Seq(STRING) /\ agent.verified \in Seq(Inspections)
  /\ Len(agent.verified) <= Len(agent.names)
  /\ IF agent.at = "down" THEN agent.names = <<>> /\ ~agent.heard
     ELSE Accepts(agent.rev, agent.names, agent.generic)
  /\ \A i \in DOMAIN agent.verified : \E rt \in Runtimes :
       /\ Passes(agent.rev, agent.names[i], rt)
       /\ agent.verified[i] = Inspected(agent.rev, agent.names[i], rt)
  /\ agent.at = "up" =>
       /\ Len(agent.verified) = Len(agent.names)
       /\ \A p, q \in Profiles : p # q => CapabilityIds(agent.rev, p) \cap CapabilityIds(agent.rev, q) = {}

\* What a poll was answered by is the row the agent's heartbeat wrote.
RowIsHeard == agent.heard => agent.at = "up" /\ row.versions = RuntimeVersionsOfAgent

\* A job pins one recipe of a profile with its capability, and a fact shown beside it.
PinsAreOfAProfile ==
  \/ job.pins = Nothing
  \/ \E r, more \in DOMAIN job.pins :
       /\ DOMAIN job.pins = {r, more} /\ r.base = "recipe"
       /\ more.base = "runtime" \/ more.owner = r.owner
       /\ \E rev \in Revisions : \E p \in ProfilesOf(rev, job.pins[r]) : job.capability \in CapabilityIds(rev, p)

Held == job.at \in {"leased", "validated", "checked", "ran"}

\* A worker with a job shows what the job pins.
LeaseIsEligible ==
  Held \/ job.verdict # "none" =>
    /\ agent.at = "up" /\ job.capability \in DOMAIN Served
    /\ Satisfies(RuntimeVersionsOfAgent, job.pins)

PluginIsServed ==
  job.at \in {"validated", "checked", "ran"} \/ job.verdict # "none" =>
    /\ job.plugin = Served[job.capability]
    /\ job.inputs = IF job.plugin = Generic \/ IsEngine(agent.rev, job.plugin) THEN job.payload
                    ELSE WithDefaults(job.payload, Catalog[agent.rev][job.plugin].defaults)

\* What is reported was inspected just before, and is what the worker had verified.
ReportIsInspected ==
  job.at \in {"checked", "ran"} \/ job.verdict # "none" =>
    /\ job.by = agent
    /\ \E rt \in Runtimes : 
       /\ job.on = {rt}
       /\ IF job.plugin = Generic THEN job.report = Nothing
          ELSE LET actual == Inspected(agent.rev, job.plugin, rt)  i == Position(job.plugin) IN
               /\ Passes(agent.rev, job.plugin, rt)
               /\ actual = agent.verified[i]
               /\ job.report = IF i = 1 THEN actual ELSE AttestedVersions(job.plugin, actual)

\* A verdict is the last thing, so that it is what the coordinator would still say.
VerdictIsLast ==
  job.verdict # "none" => job.at = "over" /\ job.verdict = Verdict /\ job.judge = {coordinator}

ProfileInv ==
  /\ RecordsAreWhole /\ AgentVerified /\ RowIsHeard /\ PinsAreOfAProfile
  /\ LeaseIsEligible /\ PluginIsServed /\ ReportIsInspected /\ VerdictIsLast

LEMMA EmptySequence == \A S : <<>> \in Seq(S)
  OBVIOUS

\* Of some places in a list one is the last.
LEMMA LastOne ==
  ASSUME NEW n \in Nat, NEW T \in SUBSET (1..n), T # {}
  PROVE  \E i \in T : \A j \in T : j <= i
<1> DEFINE D == {n - i : i \in T}  R == OpToRel(<, Nat)
<1>a. \A i \in T : i \in 1..n
  OBVIOUS
<1>1. D \subseteq Nat /\ D # {}
  <2>1. \A i \in 1..n : n - i \in Nat
    OBVIOUS
  <2> QED
    BY <1>a, <2>1
<1>2. \A x, y \in Nat : x < y => <<x, y>> \in R
  BY DEF OpToRel
<1>3. PICK x \in D : \A y \in D : ~(<<y, x>> \in R)
  <2> HIDE DEF D, R
  <2> QED
    BY <1>1, WFMin, NatLessThanWellFounded DEF R
<1>4. \A y \in D : x <= y
  <2> HIDE DEF R
  <2> SUFFICES ASSUME NEW y \in D, ~(x <= y) PROVE FALSE
    OBVIOUS
  <2>1. x \in Nat /\ y \in Nat
    BY <1>1
  <2>2. y < x
    BY <2>1
  <2> QED
    BY <1>2, <1>3, <2>1, <2>2
<1>5. PICK i \in T : x = n - i
  OBVIOUS
<1>6. \A j \in T : j <= i
  <2> SUFFICES ASSUME NEW j \in T PROVE j <= i
    OBVIOUS
  <2>1. i \in Nat /\ j \in Nat
    BY <1>a
  <2>2. n - j \in D
    OBVIOUS
  <2>3. x <= n - j
    BY <1>4, <2>2
  <2> QED
    BY <1>5, <2>1, <2>3
<1> QED
  BY <1>6

USE ProfilesAssumption
-----------------------------------------------------------------------------
(* Versions.                                                               *)

\* An inspection's keys are plain, and its recipe is the profile's.
LEMMA InspectionsArePlain ==
  ASSUME NEW rev, NEW p, NEW rt
  PROVE  /\ \A k \in DOMAIN Inspected(rev, p, rt) : k = Key(k.base, Plain) /\ k.owner = Plain
         /\ Key("recipe", Plain) \in DOMAIN Inspected(rev, p, rt)
         /\ Key("runtime", Plain) \in DOMAIN Inspected(rev, p, rt)
         /\ Inspected(rev, p, rt)[Key("recipe", Plain)] = RecipeVersion(rev, p)
<1> DEFINE facts == RuntimeVersions(rev, p, rt)
<1>1. facts["recipe"] = RecipeVersion(rev, p)
  BY DEF RuntimeVersions
<1> HIDE DEF facts
<1>2. \A base : Key(base, Plain).base = base /\ Key(base, Plain).owner = Plain
  BY DEF Key
<1>3. PICK bases \in SUBSET Bases :
        /\ {"recipe", "runtime"} \subseteq bases
        /\ Inspected(rev, p, rt) =
             [k \in {Key(base, Plain) : base \in bases} |-> IF k.base = "feature" THEN "1" ELSE facts[k.base]]
  <2>1. CASE IsEngine(rev, p)
    <3>1. Bases \ {"feature"} \in SUBSET Bases /\ {"recipe", "runtime"} \subseteq Bases \ {"feature"}
      BY DEF Bases
    <3>2. Inspected(rev, p, rt) = [k \in {Key(base, Plain) : base \in Bases \ {"feature"}} |->
                                     IF k.base = "feature" THEN "1" ELSE facts[k.base]]
      <4>1. \A k \in {Key(base, Plain) : base \in Bases \ {"feature"}} : k.base # "feature"
        BY <1>2
      <4> QED
        BY <2>1, <4>1 DEF Inspected, EngineVersions, facts
    <3> QED
      BY <3>1, <3>2
  <2>2. CASE ~IsEngine(rev, p)
    BY <2>2 DEF Inspected, ComfyVersions, facts, Bases
  <2> QED
    BY <2>1, <2>2
<1> QED
  BY <1>1, <1>2, <1>3

\* Versions are read back from what a further profile reports: shared facts plain, its own under its name.
LEMMA AttestedIsInspected ==
  ASSUME NEW rev, NEW p, NEW rt, NEW k \in DOMAIN AttestedVersions(p, Inspected(rev, p, rt))
  PROVE  /\ AttestedVersions(p, Inspected(rev, p, rt))[k] = Inspected(rev, p, rt)[Key(k.base, Plain)]
         /\ k.owner \in {Plain, p}
<1> DEFINE shown == Inspected(rev, p, rt)
<1>1. \A o \in DOMAIN shown : o = Key(o.base, Plain) /\ o.owner = Plain
  BY InspectionsArePlain
<1> HIDE DEF shown
<1>2. DOMAIN AttestedVersions(p, shown) = (DOMAIN shown \ Own(shown)) \cup {Key(o.base, p) : o \in Own(shown)}
  BY DEF AttestedVersions, NamespacedVersions
<1>3. AttestedVersions(p, shown)[k] = shown[Key(k.base, Plain)]
  BY DEF AttestedVersions, shown
<1>4. k.owner \in {Plain, p}
  <2>1. k \in (DOMAIN shown \ Own(shown)) \cup {Key(o.base, p) : o \in Own(shown)}
    BY <1>2 DEF shown
  <2> QED
    BY <1>1, <2>1 DEF Key
<1> QED
  BY <1>3, <1>4 DEF shown

-----------------------------------------------------------------------------
(* The agent's profiles.                                                   *)

\* A list of which no two names coincide, each of a profile that is known and may run.
LEMMA ProfilesAreDistinct ==
  ASSUME NEW rev \in Revisions, NEW names \in Seq(STRING), NEW generic, Accepts(rev, names, generic)
  PROVE  /\ \A i, j \in DOMAIN names : names[i] = names[j] => i = j
         /\ \A i \in DOMAIN names : /\ names[i] \in Known(rev) \cap ProfileNames
                                    /\ names[i] \notin {Plain, Generic} /\ ~Unusable(rev, names[i])
<1> DEFINE profiles == {names[i] : i \in DOMAIN names}
<1>1. /\ profiles \subseteq Known(rev) /\ Cardinality(profiles) = Len(names)
      /\ \A p \in profiles : ~Unusable(rev, p)
  BY DEF Accepts, Parses
<1>2. \A i, j \in DOMAIN names : names[i] = names[j] => i = j
  <2>1. DOMAIN names = 1..Len(names) /\ Len(names) \in Nat
    OBVIOUS
  <2>2. IsFiniteSet(1..Len(names)) /\ Cardinality(1..Len(names)) = Len(names)
    <3>1. /\ IsFiniteSet(1..Len(names))
          /\ Cardinality(1..Len(names)) = IF 1 > Len(names) THEN 0 ELSE Len(names) - 1 + 1
      BY <2>1, FS_Interval
    <3> QED
      BY <2>1, <3>1
  <2>3. names \in Surjection(1..Len(names), profiles)
    BY <2>1 DEF Surjection
  <2>4. names \in Injection(1..Len(names), profiles)
    BY <1>1, <2>2, <2>3, FS_Surjection
  <2> QED
    BY <2>1, <2>4 DEF Injection, IsInjective
<1>3. \A p \in Known(rev) : p \in ProfileNames
  BY DEF CatalogIsSound, ProfileNames, Revisions
<1>4. \A p \in ProfileNames : p \notin {Plain, Generic}
  BY DEF ProfileNames
<1> QED
  BY <1>1, <1>2, <1>3, <1>4

\* What the worker shows was verified: plain keys of its first profile, named ones of the others.
LEMMA ShownIsVerified ==
  ASSUME AgentVerified, agent.at = "up", NEW k \in DOMAIN RuntimeVersionsOfAgent
  PROVE  \E i \in DOMAIN agent.names :
           /\ RuntimeVersionsOfAgent[k] = agent.verified[i][Key(k.base, Plain)]
           /\ Key(k.base, Plain) \in DOMAIN agent.verified[i]
           /\ k = Key(k.base, k.owner)
           /\ \/ i = 1 /\ k.owner = Plain
              \/ i # 1 /\ k.owner = agent.names[i] /\ k.base # "runtime"
<1>1. PICK i \in DOMAIN agent.names :
        /\ k \in DOMAIN Registered(i)
        /\ RuntimeVersionsOfAgent[k] = Registered(i)[k]
  BY DEF RuntimeVersionsOfAgent
<1>2. PICK rt : agent.verified[i] = Inspected(agent.rev, agent.names[i], rt)
  BY DEF AgentVerified
<1> DEFINE shown == agent.verified[i]
<1>3. \A o \in DOMAIN shown : o = Key(o.base, Plain) /\ o.owner = Plain
  BY <1>2, InspectionsArePlain
<1>4. CASE i = 1
  BY <1>1, <1>3, <1>4 DEF Registered
<1>5. CASE i # 1
  <2>1. k \in {Key(o.base, agent.names[i]) : o \in Own(shown)}
    BY <1>1, <1>5 DEF Registered, NamespacedVersions
  <2>2. PICK o \in Own(shown) : k = Key(o.base, agent.names[i])
    BY <2>1
  <2>3. o \in DOMAIN shown /\ o.base # "runtime" /\ o = Key(o.base, Plain)
    BY <1>3, <2>2 DEF Own
  <2>4. k.base = o.base /\ k.owner = agent.names[i]
    BY <2>2 DEF Key
  <2>5. Registered(i)[k] = shown[Key(k.base, Plain)]
    BY <1>1, <1>5 DEF Registered, NamespacedVersions
  <2> QED
    BY <1>1, <1>5, <2>2, <2>3, <2>4, <2>5
<1> QED
  BY <1>4, <1>5

\* A capability is the generic plugin's or that of the one profile which has it.
LEMMA ServedByItsProfile ==
  ASSUME AgentVerified, agent.at = "up", NEW c \in DOMAIN Served
  PROVE  /\ Served[c] = Generic \/ (Served[c] \in Profiles /\ c \in CapabilityIds(agent.rev, Served[c]))
         /\ \A p \in Profiles : c \in CapabilityIds(agent.rev, p) => Served[c] = p
<1>1. c \notin Claimed => Served[c] = Generic
  BY DEF Served
<1>2. ASSUME c \in Claimed
      PROVE  Served[c] \in Profiles /\ c \in CapabilityIds(agent.rev, Served[c])
  <2>1. \E p \in Profiles : c \in CapabilityIds(agent.rev, p)
    BY <1>2 DEF Claimed
  <2>2. Served[c] = CHOOSE p \in Profiles : c \in CapabilityIds(agent.rev, p)
    BY <1>2 DEF Served
  <2> QED
    BY <2>1, <2>2
<1>3. ASSUME NEW p \in Profiles, c \in CapabilityIds(agent.rev, p)
      PROVE  Served[c] = p
  <2>1. c \in Claimed
    BY <1>3 DEF Claimed
  <2>2. \A q \in Profiles : p # q => CapabilityIds(agent.rev, p) \cap CapabilityIds(agent.rev, q) = {}
    BY DEF AgentVerified
  <2> QED
    BY <1>2, <1>3, <2>1, <2>2
<1> QED
  BY <1>1, <1>2, <1>3

-----------------------------------------------------------------------------
(* Every step keeps the invariant.                                         *)

USE DEF AgentFields, JobFields

\* What the agent serves and shows depends on its configuration and what it verified.
AgentIsKept ==
  /\ agent' = [f \in AgentFields |-> agent'[f]]
  /\ UNCHANGED <<agent.at, agent.rev, agent.names, agent.generic, agent.verified>>

LEMMA ServingIsKept ==
  ASSUME AgentIsKept
  PROVE  /\ Profiles' = Profiles /\ Served' = Served
         /\ RuntimeVersionsOfAgent' = RuntimeVersionsOfAgent
<1>1. Profiles' = Profiles
  BY DEF AgentIsKept, Profiles
<1>2. Claimed' = Claimed
  BY <1>1 DEF AgentIsKept, Claimed
<1>3. Served' = Served
  BY <1>1, <1>2 DEF AgentIsKept, Served
<1> DEFINE Of(names, verified, i) ==
             IF i = 1 THEN verified[1] ELSE NamespacedVersions(names[i], verified[i])
           Shown(names, verified) ==
             [k \in UNION {DOMAIN Of(names, verified, i) : i \in DOMAIN names} |->
                LET i == CHOOSE i \in DOMAIN names : k \in DOMAIN Of(names, verified, i)
                IN  Of(names, verified, i)[k]]
<1>4. RuntimeVersionsOfAgent = Shown(agent.names, agent.verified)
  BY DEF RuntimeVersionsOfAgent, Registered
<1>5. RuntimeVersionsOfAgent' = Shown(agent'.names, agent'.verified)
  BY DEF RuntimeVersionsOfAgent, Registered
<1> HIDE DEF Shown
<1>6. RuntimeVersionsOfAgent' = RuntimeVersionsOfAgent
  BY <1>4, <1>5 DEF AgentIsKept
<1> QED
  BY <1>1, <1>3, <1>6

\* The agent does not change but for what it heard: what it verified stands.
LEMMA AgentVerifiedIsKept ==
  ASSUME AgentVerified, AgentIsKept, agent'.heard => agent.at # "down"
  PROVE  AgentVerified'
<1>1. Profiles' = Profiles
  BY ServingIsKept
<1> QED
  BY <1>1 DEF AgentVerified, AgentIsKept

\* A job without an attempt under way asks nothing of the agent.
LEMMA IdleJobsAreFree ==
  ASSUME job'.at \in {"none", "queued", "over"}, job'.verdict = "none"
  PROVE  LeaseIsEligible' /\ PluginIsServed' /\ ReportIsInspected' /\ VerdictIsLast'
  BY DEF LeaseIsEligible, PluginIsServed, ReportIsInspected, VerdictIsLast, Held

\* The model ends with a verdict.
LEMMA NoVerdictYet ==
  ASSUME ProfileInv, job.at # "over"
  PROVE  job.verdict = "none"
  BY DEF ProfileInv, VerdictIsLast

\* An attempt is given back with nothing of it left that counts.
LEMMA GivingBackKeeps ==
  ASSUME ProfileInv, job.at # "over", job' = GiveBack(job)
  PROVE  /\ job' = [f \in JobFields |-> job'[f]] /\ job'.at \in {"queued", "over"}
         /\ PinsAreOfAProfile'
         /\ LeaseIsEligible' /\ PluginIsServed' /\ ReportIsInspected' /\ VerdictIsLast'
<1>1. job.verdict = "none" /\ job = [f \in JobFields |-> job[f]]
  BY NoVerdictYet DEF ProfileInv, RecordsAreWhole
<1>2. /\ job' = [f \in JobFields |-> job'[f]] /\ job'.at \in {"queued", "over"} /\ job'.verdict = "none"
      /\ job'.pins = job.pins /\ job'.capability = job.capability
  BY <1>1 DEF GiveBack
<1>3. PinsAreOfAProfile'
  BY <1>2 DEF ProfileInv, PinsAreOfAProfile
<1> QED
  BY <1>2, <1>3, IdleJobsAreFree

\* A step of the agent on its way up: no attempt is under way.
LEMMA StartingKeeps ==
  ASSUME ProfileInv, job.at # "over", agent.at # "up",
         agent' = [f \in AgentFields |-> agent'[f]], agent'.rev \in Revisions, AgentVerified', ~agent'.heard,
         UNCHANGED <<machine, coordinator, row, job>>
  PROVE  ProfileInv'
<1>1. job.at \in {"none", "queued"} /\ job.verdict = "none"
  BY NoVerdictYet DEF ProfileInv, LeaseIsEligible, Held, RecordsAreWhole
<1>2. LeaseIsEligible' /\ PluginIsServed' /\ ReportIsInspected' /\ VerdictIsLast'
  BY <1>1, IdleJobsAreFree
<1>3. RecordsAreWhole' /\ RowIsHeard' /\ PinsAreOfAProfile'
  BY DEF ProfileInv, RecordsAreWhole, RowIsHeard, PinsAreOfAProfile
<1> QED
  BY <1>2, <1>3 DEF ProfileInv

\* A stopped agent has no profiles, and has verified and heard nothing.
LEMMA StoppedIsVerified ==
  ASSUME NEW rev \in Revisions, agent' = Down(rev)
  PROVE  /\ agent' = [f \in AgentFields |-> agent'[f]] /\ agent'.rev \in Revisions
         /\ AgentVerified' /\ ~agent'.heard
<1>1. /\ agent' = [f \in AgentFields |-> agent'[f]] /\ agent'.rev = rev
      /\ agent'.at = "down" /\ agent'.names = <<>> /\ agent'.verified = <<>> /\ ~agent'.heard
  BY DEF Down
<1>2. AgentVerified'
  BY <1>1 DEF AgentVerified
<1> QED
  BY <1>1, <1>2

LEMMA StartInv ==
  ASSUME ProfileInv, job.at # "over", Start \/ InspectProfile \/ Ready
  PROVE  ProfileInv'
<1>0. /\ agent = [f \in AgentFields |-> agent[f]] /\ agent.rev \in Revisions /\ machine \in Runtimes
      /\ UNCHANGED <<machine, coordinator, row, job>> /\ AgentVerified
  BY DEF ProfileInv, RecordsAreWhole, Start, InspectProfile, Ready
<1>1. CASE Start
  <2>1. PICK names \in Configured, generic \in BOOLEAN :
          /\ Accepts(agent.rev, names, generic)
          /\ agent' = [Down(agent.rev) EXCEPT !.at = "inspecting", !.names = names, !.generic = generic]
    BY <1>1 DEF Start
  <2>2. /\ agent' = [f \in AgentFields |-> agent'[f]] /\ agent'.rev = agent.rev
        /\ agent'.at = "inspecting" /\ agent'.names = names /\ agent'.generic = generic
        /\ agent'.verified = <<>> /\ ~agent'.heard
    BY <2>1 DEF Down
  <2>3. names \in Seq(STRING)
    OBVIOUS
  <2>4. AgentVerified'
    <3>1. /\ <<>> \in Seq(Inspections) /\ Len(<<>>) = 0 /\ DOMAIN <<>> = {}
          /\ Len(names) \in Nat
      BY <2>3
    <3>2. Accepts(agent'.rev, agent'.names, agent'.generic)
      BY <2>1, <2>2, Zenon
    <3>3. /\ agent'.names \in Seq(STRING) /\ agent'.verified \in Seq(Inspections)
          /\ Len(agent'.verified) <= Len(agent'.names) /\ DOMAIN agent'.verified = {}
      BY <2>2, <2>3, <3>1
    <3> QED
      BY <2>2, <3>2, <3>3 DEF AgentVerified
  <2> QED
    BY <1>0, <1>1, <2>2, <2>4, StartingKeeps DEF Start
<1>2. CASE InspectProfile
  <2> DEFINE i == Len(agent.verified) + 1
             p == agent.names[i]
  <2>1. agent.at = "inspecting" /\ agent.names \in Seq(STRING) /\ agent.verified \in Seq(Inspections)
        /\ Len(agent.verified) < Len(agent.names)
    BY <1>0, <1>2 DEF InspectProfile, AgentVerified
  <2>2. CASE agent' = Down(agent.rev)
    BY <1>0, <2>1, <2>2, StoppedIsVerified, StartingKeeps
  <2>3. CASE Passes(agent.rev, p, machine)
             /\ agent' = [agent EXCEPT !.verified = Append(@, Inspected(agent.rev, p, machine))]
    <3>1. /\ agent' = [f \in AgentFields |-> agent'[f]]
          /\ UNCHANGED <<agent.at, agent.rev, agent.names, agent.generic, agent.heard>>
          /\ agent'.verified = Append(agent.verified, Inspected(agent.rev, p, machine))
      BY <1>0, <2>3
    <3>2. p \in STRING /\ i \in DOMAIN agent.names
      BY <2>1
    <3>3. Inspected(agent.rev, p, machine) \in Inspections
      BY <1>0, <3>2 DEF Inspections
    <3>4. /\ agent'.verified \in Seq(Inspections) /\ Len(agent'.verified) = i /\ i <= Len(agent.names)
          /\ \A k \in DOMAIN agent.verified : agent'.verified[k] = agent.verified[k]
          /\ agent'.verified[i] = Inspected(agent.rev, p, machine)
          /\ \A k \in DOMAIN agent'.verified : k # i => k \in DOMAIN agent.verified
      BY <2>1, <3>1, <3>3
    <3>5. \A k \in DOMAIN agent'.verified : \E rt \in Runtimes :
            /\ Passes(agent'.rev, agent'.names[k], rt)
            /\ agent'.verified[k] = Inspected(agent'.rev, agent'.names[k], rt)
      <4>1. Passes(agent'.rev, agent'.names[i], machine) /\ machine \in Runtimes
            /\ agent'.verified[i] = Inspected(agent'.rev, agent'.names[i], machine)
        BY <1>0, <2>3, <3>1, <3>4
      <4>2. \A k \in DOMAIN agent.verified : \E rt \in Runtimes :
              /\ Passes(agent'.rev, agent'.names[k], rt)
              /\ agent.verified[k] = Inspected(agent'.rev, agent'.names[k], rt)
        BY <1>0, <3>1 DEF AgentVerified
      <4> HIDE DEF i
      <4> QED
        BY <3>4, <4>1, <4>2
    <3>6. ~agent.heard
      BY <2>1 DEF ProfileInv, RowIsHeard
    <3>7. AgentVerified'
      BY <1>0, <2>1, <3>1, <3>4, <3>5 DEF AgentVerified
    <3> QED
      BY <1>0, <2>1, <3>1, <3>6, <3>7, StartingKeeps
  <2> QED
    BY <1>2, <2>2, <2>3 DEF InspectProfile
<1>3. CASE Ready
  <2>1. agent.at = "inspecting" /\ Len(agent.verified) = Len(agent.names)
    BY <1>3 DEF Ready
  <2>2. CASE agent' = Down(agent.rev)
    BY <1>0, <2>1, <2>2, StoppedIsVerified, StartingKeeps
  <2>3. CASE /\ \A p, q \in Profiles : p # q => CapabilityIds(agent.rev, p) \cap CapabilityIds(agent.rev, q) = {}
             /\ agent' = [agent EXCEPT !.at = "up"]
    <3>1. /\ agent' = [f \in AgentFields |-> agent'[f]] /\ agent'.at = "up"
          /\ UNCHANGED <<agent.rev, agent.names, agent.generic, agent.verified, agent.heard>>
      BY <1>0, <2>3
    <3>2. Profiles' = Profiles
      BY <3>1 DEF Profiles
    <3>3. ~agent.heard
      BY <2>1 DEF ProfileInv, RowIsHeard
    <3>4. AgentVerified'
      BY <1>0, <2>1, <2>3, <3>1, <3>2 DEF AgentVerified
    <3> QED
      BY <1>0, <2>1, <3>1, <3>3, <3>4, StartingKeeps
  <2> QED
    BY <1>3, <2>2, <2>3 DEF Ready
<1> QED
  BY <1>1, <1>2, <1>3

\* A poll's answer comes of the row that its heartbeat wrote.
LEMMA HeartbeatInv ==
  ASSUME ProfileInv, job.at # "over", Heartbeat
  PROVE  ProfileInv'
<1>1. /\ agent = [f \in AgentFields |-> agent[f]] /\ agent.at = "up" /\ AgentVerified
      /\ agent' = [agent EXCEPT !.heard = TRUE] /\ row'.versions = RuntimeVersionsOfAgent
      /\ UNCHANGED <<machine, coordinator, job>>
  BY DEF ProfileInv, RecordsAreWhole, Heartbeat
<1>2. AgentIsKept /\ agent'.heard
  BY <1>1 DEF AgentIsKept
<1>3. AgentVerified'
  BY <1>1, <1>2, AgentVerifiedIsKept
<1>4. RuntimeVersionsOfAgent' = RuntimeVersionsOfAgent
  BY <1>2, ServingIsKept
<1>5. job.at \in {"none", "queued"} /\ job.verdict = "none"
  BY NoVerdictYet DEF ProfileInv, RecordsAreWhole, Heartbeat
<1>6. LeaseIsEligible' /\ PluginIsServed' /\ ReportIsInspected' /\ VerdictIsLast'
  BY <1>1, <1>5, IdleJobsAreFree
<1>7. RowIsHeard'
  BY <1>1, <1>2, <1>4 DEF RowIsHeard, AgentIsKept
<1>8. RecordsAreWhole' /\ PinsAreOfAProfile'
  BY <1>1, <1>2 DEF ProfileInv, RecordsAreWhole, PinsAreOfAProfile, AgentIsKept
<1> QED
  BY <1>3, <1>6, <1>7, <1>8 DEF ProfileInv

\* The row that was just written shows what the job pins.
LEMMA LeaseInv ==
  ASSUME ProfileInv, job.at # "over", Lease
  PROVE  ProfileInv'
<1>1. /\ agent = [f \in AgentFields |-> agent[f]] /\ agent.at = "up" /\ AgentVerified
      /\ agent' = [agent EXCEPT !.heard = FALSE] /\ row.versions = RuntimeVersionsOfAgent
      /\ UNCHANGED <<machine, coordinator, row>> /\ job = [f \in JobFields |-> job[f]]
      /\ job' = [job EXCEPT !.at = "leased", !.attempts = @ + 1] /\ job.verdict = "none"
      /\ job.capability \in DOMAIN Served /\ Satisfies(row.versions, job.pins)
  BY NoVerdictYet DEF ProfileInv, RecordsAreWhole, RowIsHeard, Lease
<1>2. AgentIsKept /\ ~agent'.heard
  BY <1>1 DEF AgentIsKept
<1>3. AgentVerified'
  BY <1>1, <1>2, AgentVerifiedIsKept
<1>4. Served' = Served /\ RuntimeVersionsOfAgent' = RuntimeVersionsOfAgent
  BY <1>2, ServingIsKept
<1>5. /\ job' = [f \in JobFields |-> job'[f]] /\ job'.at = "leased"
      /\ UNCHANGED <<job.pins, job.capability, job.verdict>>
  BY <1>1
<1>6. LeaseIsEligible'
  BY <1>1, <1>2, <1>4, <1>5 DEF LeaseIsEligible, AgentIsKept, Satisfies
<1>7. PluginIsServed' /\ ReportIsInspected' /\ VerdictIsLast'
  BY <1>1, <1>5 DEF PluginIsServed, ReportIsInspected, VerdictIsLast
<1>8. RecordsAreWhole' /\ RowIsHeard' /\ PinsAreOfAProfile'
  BY <1>1, <1>2, <1>5 DEF ProfileInv, RecordsAreWhole, RowIsHeard, PinsAreOfAProfile, AgentIsKept
<1> QED
  BY <1>3, <1>6, <1>7, <1>8 DEF ProfileInv

\* What the agent serves and shows while it does nothing.
LEMMA IdleAgentServes ==
  ASSUME UNCHANGED agent
  PROVE  Served' = Served /\ RuntimeVersionsOfAgent' = RuntimeVersionsOfAgent /\ Profiles' = Profiles
  BY DEF Served, RuntimeVersionsOfAgent, Profiles, Claimed, Registered

\* What the plugin runs is the job's payload, with its template's defaults.
LEMMA ValidateInv ==
  ASSUME ProfileInv, job.at # "over", Validate
  PROVE  ProfileInv'
<1> DEFINE p == Served[job.capability]
<1>1. /\ job = [f \in JobFields |-> job[f]] /\ job.verdict = "none" /\ job.at = "leased"
      /\ job' = [job EXCEPT !.at = "validated", !.plugin = p,
                   !.inputs = IF p = Generic \/ IsEngine(agent.rev, p) THEN job.payload
                              ELSE WithDefaults(job.payload, Catalog[agent.rev][p].defaults)]
      /\ UNCHANGED <<machine, agent, coordinator, row>>
  BY NoVerdictYet DEF ProfileInv, RecordsAreWhole, Validate
<1>2. Served' = Served /\ RuntimeVersionsOfAgent' = RuntimeVersionsOfAgent /\ Profiles' = Profiles
  BY <1>1, IdleAgentServes
<1>3. /\ job' = [f \in JobFields |-> job'[f]] /\ job'.at = "validated" /\ job'.plugin = p
      /\ job'.inputs = IF p = Generic \/ IsEngine(agent.rev, p) THEN job.payload
                       ELSE WithDefaults(job.payload, Catalog[agent.rev][p].defaults)
      /\ UNCHANGED <<job.pins, job.capability, job.verdict, job.payload>>
  BY <1>1
<1>4. LeaseIsEligible'
  BY <1>1, <1>2, <1>3 DEF ProfileInv, LeaseIsEligible, Held, Satisfies
<1>5. PluginIsServed'
  BY <1>1, <1>2, <1>3 DEF PluginIsServed
<1>6. ReportIsInspected' /\ VerdictIsLast'
  BY <1>1, <1>3 DEF ReportIsInspected, VerdictIsLast
<1>7. RecordsAreWhole' /\ RowIsHeard'
  BY <1>1, <1>2, <1>3 DEF ProfileInv, RecordsAreWhole, RowIsHeard
<1>8. PinsAreOfAProfile'
  BY <1>3 DEF ProfileInv, PinsAreOfAProfile
<1>9. AgentVerified'
  BY <1>1, <1>2 DEF ProfileInv, AgentVerified
<1> QED
  BY <1>4, <1>5, <1>6, <1>7, <1>8, <1>9 DEF ProfileInv

\* The job goes on at its worker with what was validated.
JobGoesOn ==
  /\ job' = [f \in JobFields |-> job'[f]]
  /\ UNCHANGED <<job.pins, job.capability, job.payload, job.plugin, job.inputs>>

LEMMA GoingOnKeeps ==
  ASSUME ProfileInv, JobGoesOn, UNCHANGED <<machine, agent, coordinator, row>>,
         job.at \in {"validated", "checked", "ran"}, job'.at \in {"checked", "ran", "over"}
  PROVE  /\ RecordsAreWhole' /\ AgentVerified' /\ RowIsHeard' /\ PinsAreOfAProfile'
         /\ LeaseIsEligible' /\ PluginIsServed'
<1>1. Served' = Served /\ RuntimeVersionsOfAgent' = RuntimeVersionsOfAgent /\ Profiles' = Profiles
  BY IdleAgentServes
<1>2. LeaseIsEligible'
  BY <1>1 DEF ProfileInv, LeaseIsEligible, Held, Satisfies, JobGoesOn
<1>3. PluginIsServed'
  BY <1>1 DEF ProfileInv, PluginIsServed, JobGoesOn
<1>4. RecordsAreWhole' /\ RowIsHeard' /\ PinsAreOfAProfile' /\ AgentVerified'
  BY <1>1 DEF ProfileInv, RecordsAreWhole, RowIsHeard, PinsAreOfAProfile, AgentVerified, JobGoesOn
<1> QED
  BY <1>2, <1>3, <1>4

\* An attempt that is given back leaves the worker as it is.
LEMMA GivingBackInv ==
  ASSUME ProfileInv, job.at # "over", job' = GiveBack(job), UNCHANGED <<machine, agent, coordinator, row>>
  PROVE  ProfileInv'
<1>1. Served' = Served /\ RuntimeVersionsOfAgent' = RuntimeVersionsOfAgent /\ Profiles' = Profiles
  BY IdleAgentServes
<1>2. /\ job' = [f \in JobFields |-> job'[f]] /\ job'.at \in {"queued", "over"}
      /\ PinsAreOfAProfile' /\ LeaseIsEligible' /\ PluginIsServed' /\ ReportIsInspected' /\ VerdictIsLast'
  BY GivingBackKeeps
<1>3. RecordsAreWhole' /\ RowIsHeard' /\ AgentVerified'
  BY <1>1, <1>2 DEF ProfileInv, RecordsAreWhole, RowIsHeard, AgentVerified
<1> QED
  BY <1>2, <1>3 DEF ProfileInv

\* The plugin reports what its inspection showed, which is what the worker verified.
LEMMA CheckInv ==
  ASSUME ProfileInv, job.at # "over", Check
  PROVE  ProfileInv'
<1>1. /\ job = [f \in JobFields |-> job[f]] /\ job.verdict = "none" /\ job.at = "validated"
      /\ UNCHANGED <<machine, agent, coordinator, row>> /\ machine \in Runtimes
  BY NoVerdictYet DEF ProfileInv, RecordsAreWhole, Check
<1> DEFINE p == job.plugin
           i == Position(p)
           actual == Inspected(agent.rev, p, machine)
<1>2. CASE job' = GiveBack(job)
  BY <1>1, <1>2, GivingBackInv
<1>3. CASE /\ p = Generic
           /\ job' = [job EXCEPT !.at = "checked", !.by = agent, !.on = {machine}, !.report = Nothing]
  <2>1. /\ JobGoesOn /\ job'.at = "checked" /\ job'.verdict = "none"
        /\ job'.by = agent /\ job'.on = {machine} /\ job'.report = Nothing /\ job'.plugin = Generic
    BY <1>1, <1>3 DEF JobGoesOn
  <2>2. ReportIsInspected' /\ VerdictIsLast'
    BY <1>1, <2>1 DEF ReportIsInspected, VerdictIsLast
  <2> QED
    BY <1>1, <2>1, <2>2, GoingOnKeeps DEF ProfileInv
<1>4. CASE /\ p # Generic /\ Passes(agent.rev, p, machine) /\ actual = agent.verified[i]
           /\ job' = [job EXCEPT !.at = "checked", !.by = agent, !.on = {machine},
                        !.report = IF i = 1 THEN actual ELSE AttestedVersions(p, actual)]
  <2>1. /\ JobGoesOn /\ job'.at = "checked" /\ job'.verdict = "none"
        /\ job'.by = agent /\ job'.on = {machine} /\ job'.plugin = p
        /\ job'.report = IF i = 1 THEN actual ELSE AttestedVersions(p, actual)
    BY <1>1, <1>4 DEF JobGoesOn
  <2>2. Position(job.plugin)' = i
    BY <1>1, <2>1 DEF Position
  <2>3. ReportIsInspected'
    BY <1>1, <1>4, <2>1, <2>2 DEF ReportIsInspected
  <2>4. VerdictIsLast'
    BY <2>1 DEF VerdictIsLast
  <2> QED
    BY <1>1, <2>1, <2>3, <2>4, GoingOnKeeps DEF ProfileInv
<1> QED
  BY <1>2, <1>3, <1>4 DEF Check

\* The report stays what it was when the job was checked.
LEMMA ReportIsKept ==
  ASSUME ProfileInv, JobGoesOn, UNCHANGED agent, UNCHANGED <<job.by, job.on, job.report>>,
         job.at \in {"checked", "ran"}
  PROVE  ReportIsInspected'
<1>1. Position(job.plugin)' = Position(job.plugin)
  BY DEF Position, JobGoesOn
<1> QED
  BY <1>1 DEF ProfileInv, ReportIsInspected, JobGoesOn

LEMMA RunInv ==
  ASSUME ProfileInv, job.at # "over", Run
  PROVE  ProfileInv'
<1>1. /\ job = [f \in JobFields |-> job[f]] /\ job.verdict = "none" /\ job.at = "checked"
      /\ UNCHANGED <<machine, agent, coordinator, row>>
  BY NoVerdictYet DEF ProfileInv, RecordsAreWhole, Run
<1>2. CASE job' = GiveBack(job)
  BY <1>1, <1>2, GivingBackInv
<1>3. CASE job' = [job EXCEPT !.at = "ran"]
  <2>1. /\ JobGoesOn /\ job'.at = "ran" /\ job'.verdict = "none"
        /\ UNCHANGED <<job.by, job.on, job.report>>
    BY <1>1, <1>3 DEF JobGoesOn
  <2>2. ReportIsInspected' /\ VerdictIsLast'
    BY <1>1, <2>1, ReportIsKept DEF VerdictIsLast
  <2> QED
    BY <1>1, <2>1, <2>2, GoingOnKeeps DEF ProfileInv
<1> QED
  BY <1>2, <1>3 DEF Run

\* The verdict is what the coordinator says of the job as it stays.
LEMMA CompleteInv ==
  ASSUME ProfileInv, job.at # "over", Complete
  PROVE  ProfileInv'
<1>1. /\ job = [f \in JobFields |-> job[f]] /\ job.at = "ran"
      /\ job' = [job EXCEPT !.at = "over", !.verdict = Verdict, !.judge = {coordinator}]
      /\ UNCHANGED <<machine, agent, coordinator, row>>
  BY DEF ProfileInv, RecordsAreWhole, Complete
<1>2. /\ JobGoesOn /\ job'.at = "over" /\ job'.verdict = Verdict /\ job'.judge = {coordinator}
      /\ UNCHANGED <<job.by, job.on, job.report>>
  BY <1>1 DEF JobGoesOn
<1>3. ReportIsInspected'
  BY <1>1, <1>2, ReportIsKept
<1>4. Verdict' = Verdict
  <2>1. Effective' = Effective
    BY <1>2 DEF JobGoesOn, Effective
  <2>2. \A recipe : InputsDiffer(recipe)' = InputsDiffer(recipe)
    BY <1>1, <1>2, <2>1 DEF JobGoesOn, InputsDiffer
  <2>3. ConfigurationDiffers' = ConfigurationDiffers /\ Refused' = Refused
    BY <1>1, <1>2 DEF JobGoesOn, ConfigurationDiffers, Satisfies, Refused
  <2> QED
    BY <1>1, <1>2, <2>2, <2>3 DEF JobGoesOn, Verdict
<1>5. VerdictIsLast'
  BY <1>1, <1>2, <1>4 DEF VerdictIsLast
<1> QED
  BY <1>1, <1>2, <1>3, <1>5, GoingOnKeeps DEF ProfileInv

\* What a host pins it read of one row: the recipe of a profile, and something shown beside it.
LEMMA SubmitInv ==
  ASSUME ProfileInv, job.at # "over", Submit
  PROVE  ProfileInv'
<1>1. PICK capability \in row.capabilities, payload \in Payloads : \E pins \in PinsFor(capability) :
        job' = [NoJob EXCEPT !.at = "queued", !.capability = capability, !.pins = pins, !.payload = payload]
  BY DEF Submit
<1>2. PICK pins \in PinsFor(capability) :
        job' = [NoJob EXCEPT !.at = "queued", !.capability = capability, !.pins = pins, !.payload = payload]
  BY <1>1
<1>3. /\ job' = [f \in JobFields |-> job'[f]] /\ job'.at = "queued" /\ job'.verdict = "none"
      /\ job'.pins = pins /\ job'.capability = capability
      /\ UNCHANGED <<machine, agent, coordinator, row>>
  <2>1. UNCHANGED <<machine, agent, coordinator, row>>
    BY DEF Submit
  <2>2. job' = [f \in JobFields |-> job'[f]]
    BY <1>2 DEF NoJob
  <2>3. job'.at = "queued" /\ job'.verdict = "none" /\ job'.pins = pins /\ job'.capability = capability
    BY <1>2 DEF NoJob
  <2> QED
    BY <2>1, <2>2, <2>3
<1>4. PinsAreOfAProfile'
  <2>1. CASE pins = Nothing
    BY <1>3, <2>1 DEF PinsAreOfAProfile
  <2>2. CASE pins # Nothing
    <3> DEFINE Having(k) == \E rev \in Revisions : \E p \in ProfilesOf(rev, row.versions[k]) :
                              capability \in CapabilityIds(rev, p)
               Beside(r) == {k \in DOMAIN row.versions : k.base = "runtime" \/ k.owner = r.owner}
               Pairs(r) == {[k \in {r, more} |-> row.versions[k]] : more \in Beside(r)}
    <3>a. pins \in UNION {Pairs(r) : r \in {k \in DOMAIN row.versions : k.base = "recipe" /\ Having(k)}}
      BY <2>2 DEF PinsFor
    <3>1. PICK r \in DOMAIN row.versions : r.base = "recipe" /\ Having(r) /\ pins \in Pairs(r)
      <4> HIDE DEF Having, Pairs
      <4> QED
        BY <3>a
    <3>2. PICK more \in {k \in DOMAIN row.versions : k.base = "runtime" \/ k.owner = r.owner} :
            pins = [k \in {r, more} |-> row.versions[k]]
      BY <3>1
    <3>3. PICK rev \in Revisions : \E p \in ProfilesOf(rev, row.versions[r]) : capability \in CapabilityIds(rev, p)
      BY <3>1
    <3>4. DOMAIN pins = {r, more} /\ pins[r] = row.versions[r]
      BY <3>2
    <3> QED
      BY <1>3, <3>1, <3>2, <3>3, <3>4 DEF PinsAreOfAProfile
  <2> QED
    BY <2>1, <2>2
<1>5. LeaseIsEligible' /\ PluginIsServed' /\ ReportIsInspected' /\ VerdictIsLast'
  BY <1>3, IdleJobsAreFree
<1>6. Served' = Served /\ RuntimeVersionsOfAgent' = RuntimeVersionsOfAgent /\ Profiles' = Profiles
  BY <1>3, IdleAgentServes
<1>7. RecordsAreWhole' /\ RowIsHeard' /\ AgentVerified'
  BY <1>3, <1>6 DEF ProfileInv, RecordsAreWhole, RowIsHeard, AgentVerified
<1> QED
  BY <1>4, <1>5, <1>7 DEF ProfileInv

\* A restart gives the job back; another runtime or coordinator changes nothing the worker has done.
LEMMA ChangeInv ==
  ASSUME ProfileInv, job.at # "over", Reconfigure \/ Stop \/ Redeploy
  PROVE  ProfileInv'
<1>1. job.verdict = "none" /\ job = [f \in JobFields |-> job[f]] /\ AgentVerified
  BY NoVerdictYet DEF ProfileInv, RecordsAreWhole
<1>2. CASE Reconfigure \/ Redeploy
  <2>1. /\ UNCHANGED <<agent, row, job>> /\ machine' \in Runtimes
        /\ coordinator' \in [rev : Revisions, extras : BOOLEAN]
    BY <1>2 DEF Reconfigure, Redeploy, ProfileInv, RecordsAreWhole
  <2>2. Served' = Served /\ RuntimeVersionsOfAgent' = RuntimeVersionsOfAgent /\ Profiles' = Profiles
    BY <2>1, IdleAgentServes
  <2>3. LeaseIsEligible' /\ PluginIsServed' /\ VerdictIsLast'
    BY <1>1, <2>1, <2>2 DEF ProfileInv, LeaseIsEligible, Held, Satisfies, PluginIsServed, VerdictIsLast
  <2>4. Position(job.plugin)' = Position(job.plugin)
    BY <2>1 DEF Position
  <2>5. ReportIsInspected'
    BY <2>1, <2>4 DEF ProfileInv, ReportIsInspected
  <2>6. RecordsAreWhole' /\ RowIsHeard' /\ PinsAreOfAProfile' /\ AgentVerified'
    BY <2>1, <2>2 DEF ProfileInv, RecordsAreWhole, RowIsHeard, PinsAreOfAProfile, AgentVerified
  <2> QED
    BY <2>3, <2>5, <2>6 DEF ProfileInv
<1>3. CASE Stop
  <2>1. PICK rev \in Revisions : agent' = Down(rev)
    BY <1>3 DEF Stop
  <2>2. /\ agent' = [f \in AgentFields |-> agent'[f]] /\ agent'.rev \in Revisions
        /\ AgentVerified' /\ ~agent'.heard
    BY <2>1, StoppedIsVerified
  <2>3. /\ job' = [f \in JobFields |-> job'[f]] /\ PinsAreOfAProfile'
        /\ job'.at \in {"none", "queued", "over"}
        /\ LeaseIsEligible' /\ PluginIsServed' /\ ReportIsInspected' /\ VerdictIsLast'
    <3>1. CASE Held
      BY <1>3, <3>1, GivingBackKeeps DEF Stop, Held
    <3>2. CASE ~Held
      <4>1. job' = job /\ job.at \in {"none", "queued"}
        BY <1>3, <3>2 DEF Stop, Held, ProfileInv, RecordsAreWhole
      <4>2. PinsAreOfAProfile'
        BY <4>1 DEF ProfileInv, PinsAreOfAProfile
      <4> QED
        BY <1>1, <4>1, <4>2, IdleJobsAreFree
    <3> QED
      BY <3>1, <3>2
  <2>4. RecordsAreWhole' /\ RowIsHeard'
    BY <1>3, <2>2, <2>3 DEF Stop, ProfileInv, RecordsAreWhole, RowIsHeard
  <2> QED
    BY <2>2, <2>3, <2>4 DEF ProfileInv
<1> QED
  BY <1>2, <1>3

\* At the start nobody runs and nothing was submitted, in this gate as in the others.
LEMMA NothingSubmittedInv ==
  ASSUME machine \in Runtimes, NEW rev \in Revisions, agent = Down(rev),
         coordinator \in [rev : Revisions, extras : BOOLEAN], job = NoJob
  PROVE  ProfileInv
<1>1. /\ agent = [f \in AgentFields |-> agent[f]] /\ agent.rev = rev
      /\ agent.at = "down" /\ agent.names = <<>> /\ agent.verified = <<>> /\ ~agent.heard
  BY DEF Down
<1>2. /\ job = [f \in JobFields |-> job[f]] /\ job.at = "none" /\ job.verdict = "none"
      /\ job.pins = Nothing
  BY DEF NoJob
<1>3. AgentVerified
  <2>1. <<>> \in Seq(STRING) /\ <<>> \in Seq(Inspections)
    BY EmptySequence
  <2>2. Len(agent.verified) = 0 /\ Len(agent.names) = 0 /\ DOMAIN agent.verified = {}
    BY <1>1
  <2>3. agent.names \in Seq(STRING) /\ agent.verified \in Seq(Inspections)
    BY <1>1, <2>1, Zenon
  <2>4. \A i \in DOMAIN agent.verified : \E rt \in Runtimes :
          /\ Passes(agent.rev, agent.names[i], rt)
          /\ agent.verified[i] = Inspected(agent.rev, agent.names[i], rt)
    BY <2>2, Zenon
  <2>5. Len(agent.verified) <= Len(agent.names) /\ agent.at # "up"
    BY <1>1, <2>2
  <2> QED
    BY <1>1, <2>3, <2>4, <2>5, Zenon DEF AgentVerified
<1>4. RecordsAreWhole /\ RowIsHeard /\ PinsAreOfAProfile
  BY <1>1, <1>2 DEF RecordsAreWhole, RowIsHeard, PinsAreOfAProfile
<1>5. LeaseIsEligible /\ PluginIsServed /\ ReportIsInspected /\ VerdictIsLast
  BY <1>2 DEF LeaseIsEligible, PluginIsServed, ReportIsInspected, VerdictIsLast, Held
<1> QED
  BY <1>3, <1>4, <1>5 DEF ProfileInv

\* One case for each action.
LEMMA ProfileNextInv ==
  ASSUME ProfileInv, [Next]_vars
  PROVE  ProfileInv'
<1>1. CASE UNCHANGED vars
  <2>1. UNCHANGED <<machine, agent, coordinator, row, job>>
    BY <1>1 DEF vars
  <2>2. AgentIsKept /\ Position(job.plugin)' = Position(job.plugin) /\ Verdict' = Verdict
    BY <2>1 DEF AgentIsKept, ProfileInv, RecordsAreWhole, Position, Verdict, Refused, ConfigurationDiffers,
                Satisfies, InputsDiffer, Effective
  <2>3. Served' = Served /\ RuntimeVersionsOfAgent' = RuntimeVersionsOfAgent
    BY <2>2, ServingIsKept
  <2>4. AgentVerified'
    BY <2>1, <2>2, AgentVerifiedIsKept DEF ProfileInv, AgentVerified
  <2>5. RecordsAreWhole' /\ RowIsHeard' /\ PinsAreOfAProfile' /\ VerdictIsLast'
    BY <2>1, <2>2, <2>3 DEF ProfileInv, RecordsAreWhole, RowIsHeard, PinsAreOfAProfile, VerdictIsLast
  <2>6. LeaseIsEligible' /\ PluginIsServed'
    BY <2>1, <2>3 DEF ProfileInv, LeaseIsEligible, Held, Satisfies, PluginIsServed
  <2>7. ReportIsInspected'
    BY <2>1, <2>2 DEF ProfileInv, ReportIsInspected
  <2> QED
    BY <2>4, <2>5, <2>6, <2>7 DEF ProfileInv
<1>2. CASE Next
  <2>1. job.at # "over"
    BY <1>2 DEF Next
  <2>2. CASE Start \/ InspectProfile \/ Ready
    BY <2>1, <2>2, StartInv
  <2>3. CASE Heartbeat
    BY <2>1, <2>3, HeartbeatInv
  <2>4. CASE Lease
    BY <2>1, <2>4, LeaseInv
  <2>5. CASE Validate
    BY <2>1, <2>5, ValidateInv
  <2>6. CASE Check
    BY <2>1, <2>6, CheckInv
  <2>7. CASE Run
    BY <2>1, <2>7, RunInv
  <2>8. CASE Complete
    BY <2>1, <2>8, CompleteInv
  <2>9. CASE Submit
    BY <2>1, <2>9, SubmitInv
  <2>10. CASE Reconfigure \/ Stop \/ Redeploy
    BY <2>1, <2>10, ChangeInv
  <2> QED
    BY <1>2, <2>2, <2>3, <2>4, <2>5, <2>6, <2>7, <2>8, <2>9, <2>10 DEF Next
<1> QED
  BY <1>1, <1>2
-----------------------------------------------------------------------------
(* What the invariant says of a verdict.                                   *)

\* The coordinator accepts a pinned recipe if the report has every version the job pins,
\* and the report is an inspection.
LEMMA AcceptedPinsWereTrue ==
  ASSUME ProfileInv
  PROVE  PinsWereTrue
<1> SUFFICES ASSUME job.verdict = "accepted", Pinned(job.pins) # {}
             PROVE  /\ job.plugin # Generic
                    /\ \E rt : /\ job.on = {rt} /\ Passes(job.by.rev, job.plugin, rt)
                               /\ \A k \in DOMAIN job.pins :
                                    /\ job.pins[k] = Inspected(job.by.rev, job.plugin, rt)[Key(k.base, Plain)]
                                    /\ k.owner \in {Plain, job.plugin}
  <2>1. \A rt : (CHOOSE x \in {rt} : TRUE) = rt
    OBVIOUS
  <2> QED
    BY <2>1 DEF PinsWereTrue
<1>1. Satisfies(job.report, job.pins)
  BY DEF ProfileInv, VerdictIsLast, Verdict, ConfigurationDiffers
<1>2. job.by = agent /\ ReportIsInspected
  BY DEF ProfileInv, ReportIsInspected
<1>3. job.plugin # Generic
  <2>1. PICK i \in DOMAIN RecipeKeys : RecipeKeys[i] \in DOMAIN job.pins
    BY DEF Pinned
  <2>2. ASSUME job.report = Nothing PROVE FALSE
    BY <1>1, <2>1, <2>2 DEF Satisfies, Nothing
  <2> QED
    BY <1>2, <2>2 DEF ReportIsInspected
<1>4. PICK rt : /\ job.on = {rt} /\ Passes(agent.rev, job.plugin, rt)
                /\ job.report = IF Position(job.plugin) = 1 THEN Inspected(agent.rev, job.plugin, rt)
                                ELSE AttestedVersions(job.plugin, Inspected(agent.rev, job.plugin, rt))
  BY <1>2, <1>3 DEF ReportIsInspected
<1>5. ASSUME NEW k \in DOMAIN job.pins
      PROVE  /\ job.pins[k] = Inspected(agent.rev, job.plugin, rt)[Key(k.base, Plain)]
             /\ k.owner \in {Plain, job.plugin}
  <2>1. k \in DOMAIN job.report /\ job.report[k] = job.pins[k]
    BY <1>1 DEF Satisfies
  <2>2. CASE Position(job.plugin) = 1
    <3>1. k = Key(k.base, Plain) /\ k.owner = Plain
      BY <1>4, <2>1, <2>2, InspectionsArePlain
    <3> QED
      BY <1>4, <2>1, <2>2, <3>1
  <2>3. CASE Position(job.plugin) # 1
    BY <1>4, <2>1, <2>3, AttestedIsInspected
  <2> QED
    BY <2>2, <2>3
<1> QED
  BY <1>2, <1>3, <1>4, <1>5

\* What a refused profile ran has one of its capabilities, which the coordinator refuses as well.
LEMMA AcceptedIsQualified ==
  ASSUME ProfileInv, CapabilitiesAreKept
  PROVE  UnqualifiedIsNeverAccepted
<1> SUFFICES ASSUME job.verdict = "accepted",
                    job.plugin \in Unqualified(coordinator.rev, coordinator.extras).profiles
             PROVE  FALSE
  BY DEF ProfileInv, VerdictIsLast, UnqualifiedIsNeverAccepted
<1>1. /\ agent.at = "up" /\ job.capability \in DOMAIN Served /\ job.plugin = Served[job.capability]
      /\ AgentVerified /\ agent.rev \in Revisions /\ coordinator.rev \in Revisions
      /\ Verdict = "accepted"
  BY DEF ProfileInv, LeaseIsEligible, PluginIsServed, RecordsAreWhole, VerdictIsLast
<1>2. job.plugin \in Known(coordinator.rev)
  BY DEF Unqualified
<1>3. job.plugin # Generic
  <2>1. job.plugin \in {Names[i] : i \in DOMAIN Names}
    BY <1>1, <1>2 DEF CatalogIsSound, Revisions
  <2> QED
    BY <2>1
<1>4. job.plugin \in Profiles /\ job.capability \in CapabilityIds(agent.rev, job.plugin)
  BY <1>1, <1>3, ServedByItsProfile
<1>5. job.plugin \in Known(agent.rev)
  BY <1>1, <1>4, ProfilesAreDistinct DEF AgentVerified, Profiles
<1>6. job.capability \in CapabilityIds(coordinator.rev, job.plugin)
  BY <1>1, <1>2, <1>4, <1>5 DEF CapabilitiesAreKept
<1>7. job.capability \in Refused.capabilities
  BY <1>6 DEF Refused, Unqualified
<1>8. Verdict = "unqualified"
  BY <1>7 DEF Verdict, NamesUnqualified
<1> QED
  BY <1>1, <1>8

\* A recipe's place is among the keys of recipes, and it is the only one that key has.
LEMMA RecipeHasOnePlace ==
  /\ \A n \in DOMAIN RecipeKeys : RecipeKeys[n] = Key("recipe", RecipeKeys[n].owner)
  /\ \A n, m \in DOMAIN RecipeKeys : RecipeKeys[n] = RecipeKeys[m] => n = m
  /\ DOMAIN RecipeKeys \subseteq Nat
<1> DEFINE named == [i \in DOMAIN Names |-> Key("recipe", Names[i])]
<1>1. Names \in Seq(STRING) /\ \A i, j \in DOMAIN Names : Names[i] = Names[j] => i = j
  BY DEF CatalogIsSound
<1>2. DOMAIN Names = 1..Len(Names) /\ Len(Names) \in Nat
  BY <1>1
<1>3. \A base, owner : Key(base, owner).base = base /\ Key(base, owner).owner = owner
  BY DEF Key
<1>4. \A i \in DOMAIN Names : Names[i] # Plain
  OBVIOUS
<1>5. /\ DOMAIN RecipeKeys = 1..(Len(Names) + 1)
      /\ \A n \in DOMAIN RecipeKeys :
           RecipeKeys[n] = IF n = 1 THEN Key("recipe", Plain) ELSE Key("recipe", Names[n - 1])
  <2>1. /\ named \in Seq({named[i] : i \in DOMAIN Names}) /\ Len(named) = Len(Names)
        /\ DOMAIN named = DOMAIN Names
    BY <1>2
  <2> HIDE DEF named
  <2>2. RecipeKeys = <<Key("recipe", Plain)>> \o named
    BY DEF RecipeKeys, named
  <2>3. \A i \in DOMAIN Names : named[i] = Key("recipe", Names[i])
    BY DEF named
  <2> QED
    BY <1>2, <2>1, <2>2, <2>3
<1>6. \A n \in DOMAIN RecipeKeys : n # 1 => n - 1 \in DOMAIN Names /\ n \in Nat
  BY <1>2, <1>5
<1>7. \A n \in DOMAIN RecipeKeys :
        /\ RecipeKeys[n] = Key("recipe", RecipeKeys[n].owner)
        /\ RecipeKeys[n].owner = IF n = 1 THEN Plain ELSE Names[n - 1]
  BY <1>3, <1>5
<1>8. ASSUME NEW n \in DOMAIN RecipeKeys, NEW m \in DOMAIN RecipeKeys, RecipeKeys[n] = RecipeKeys[m]
      PROVE  n = m
  <2>1. CASE n = 1 \/ m = 1
    BY <1>4, <1>6, <1>7, <1>8, <2>1
  <2>2. CASE n # 1 /\ m # 1
    <3>1. n - 1 = m - 1
      BY <1>1, <1>6, <1>7, <1>8, <2>2
    <3> QED
      BY <1>6, <2>2, <3>1
  <2> QED
    BY <2>1, <2>2
<1> QED
  BY <1>2, <1>5, <1>7, <1>8

\* The job went to the profile whose recipe it pins.
LEMMA PinnedProfileRuns ==
  ASSUME ProfileInv, job.verdict # "none", Pinned(job.pins) # {}
  PROVE  \E r, more \in DOMAIN job.pins : \E i \in DOMAIN agent.names :
           /\ DOMAIN job.pins = {r, more} /\ r.base = "recipe"
           /\ more.base = "runtime" \/ more.owner = r.owner
           /\ r = Key("recipe", IF i = 1 THEN Plain ELSE agent.names[i])
           /\ job.pins[r] = RecipeVersion(agent.rev, agent.names[i])
           /\ job.plugin = agent.names[i] /\ job.plugin # Generic
           /\ Position(job.plugin) = i
           /\ job.plugin \in Known(agent.rev) /\ job.capability \in CapabilityIds(agent.rev, job.plugin)
<1>1. /\ agent.at = "up" /\ job.capability \in DOMAIN Served /\ job.plugin = Served[job.capability]
      /\ AgentVerified /\ agent.rev \in Revisions /\ Satisfies(RuntimeVersionsOfAgent, job.pins)
  BY DEF ProfileInv, LeaseIsEligible, PluginIsServed, RecordsAreWhole
<1>2. job.pins # Nothing
  <2>1. \E k : k \in DOMAIN job.pins
    BY DEF Pinned
  <2> QED
    BY <2>1 DEF Nothing
<1>3. PICK r, more \in DOMAIN job.pins :
        /\ DOMAIN job.pins = {r, more} /\ r.base = "recipe"
        /\ more.base = "runtime" \/ more.owner = r.owner
        /\ \E rev \in Revisions : \E p \in ProfilesOf(rev, job.pins[r]) : job.capability \in CapabilityIds(rev, p)
  BY <1>2 DEF ProfileInv, PinsAreOfAProfile
<1>4. PICK rev, q :
        /\ rev \in Revisions /\ q \in Known(rev)
        /\ RecipeVersion(rev, q) = job.pins[r] /\ job.capability \in CapabilityIds(rev, q)
  BY <1>3 DEF ProfilesOf
<1>5. r \in DOMAIN RuntimeVersionsOfAgent /\ RuntimeVersionsOfAgent[r] = job.pins[r]
  BY <1>1 DEF Satisfies
<1>6. PICK i \in DOMAIN agent.names :
        /\ job.pins[r] = agent.verified[i][Key("recipe", Plain)]
        /\ r = Key("recipe", r.owner)
        /\ r.owner = IF i = 1 THEN Plain ELSE agent.names[i]
  <2>1. PICK i \in DOMAIN agent.names :
          /\ RuntimeVersionsOfAgent[r] = agent.verified[i][Key(r.base, Plain)]
          /\ r = Key(r.base, r.owner)
          /\ \/ i = 1 /\ r.owner = Plain
             \/ i # 1 /\ r.owner = agent.names[i]
    BY <1>1, <1>5, ShownIsVerified
  <2> QED
    BY <1>3, <1>5, <2>1
<1>7. /\ agent.names \in Seq(STRING) /\ agent.verified \in Seq(Inspections)
      /\ Len(agent.verified) = Len(agent.names) /\ Accepts(agent.rev, agent.names, agent.generic)
  BY <1>1 DEF AgentVerified
<1>8. i \in DOMAIN agent.verified
  BY <1>7
<1>9. job.pins[r] = RecipeVersion(agent.rev, agent.names[i])
  <2>1. PICK rt : agent.verified[i] = Inspected(agent.rev, agent.names[i], rt)
    BY <1>1, <1>8, Zenon DEF AgentVerified
  <2>2. Inspected(agent.rev, agent.names[i], rt)[Key("recipe", Plain)] = RecipeVersion(agent.rev, agent.names[i])
    BY InspectionsArePlain
  <2> QED
    BY <1>6, <2>1, <2>2
<1>10. q = agent.names[i]
  BY <1>4, <1>9 DEF RecipeVersion
<1>11. /\ agent.names[i] \in Known(agent.rev) /\ agent.names[i] # Generic
       /\ \A j \in DOMAIN agent.names : agent.names[j] = agent.names[i] => j = i
  BY <1>1, <1>7, ProfilesAreDistinct
<1>12. job.capability \in CapabilityIds(agent.rev, agent.names[i])
  BY <1>1, <1>4, <1>9, <1>10, <1>11 DEF CatalogIsSound, Revisions
<1>13. job.plugin = agent.names[i]
  BY <1>1, <1>12, ServedByItsProfile DEF Profiles
<1>14. Position(job.plugin) = i
  BY <1>11, <1>13 DEF Position
<1> QED
  BY <1>3, <1>6, <1>9, <1>11, <1>12, <1>13, <1>14

\* What a job pins is in its report, but for shared facts that were not the same for all profiles.
LEMMA ReportHasThePins ==
  ASSUME ProfileInv, job.verdict # "none", Pinned(job.pins) # {}, ConfigurationDiffers
  PROVE  ~Uniform(agent) /\ Key("runtime", Plain) \in DOMAIN job.pins
<1>1. PICK r, more, i :
        /\ r \in DOMAIN job.pins /\ more \in DOMAIN job.pins /\ i \in DOMAIN agent.names
        /\ DOMAIN job.pins = {r, more} /\ r.base = "recipe"
        /\ more.base = "runtime" \/ more.owner = r.owner
        /\ r = Key("recipe", IF i = 1 THEN Plain ELSE agent.names[i])
        /\ job.plugin = agent.names[i] /\ job.plugin # Generic
        /\ Position(job.plugin) = i
  BY PinnedProfileRuns
<1>2. /\ agent.at = "up" /\ AgentVerified /\ agent.rev \in Revisions
      /\ Satisfies(RuntimeVersionsOfAgent, job.pins) /\ ReportIsInspected
  BY DEF ProfileInv, LeaseIsEligible, RecordsAreWhole
<1> DEFINE p == agent.names[i]  actual == agent.verified[i]
<1>3. PICK rt : actual = Inspected(agent.rev, p, rt) /\ job.report = IF i = 1 THEN actual ELSE AttestedVersions(p, actual)
  BY <1>1, <1>2 DEF ReportIsInspected
<1>4. /\ Key("recipe", Plain) \in DOMAIN actual /\ Key("runtime", Plain) \in DOMAIN actual
      /\ \A o \in DOMAIN actual : o = Key(o.base, Plain) /\ o.owner = Plain
  BY <1>3, InspectionsArePlain
<1>5. \A base, owner : Key(base, owner).base = base /\ Key(base, owner).owner = owner
  BY DEF Key
<1>6. /\ agent.names \in Seq(STRING) /\ agent.verified \in Seq(Inspections)
      /\ Len(agent.verified) = Len(agent.names) /\ Accepts(agent.rev, agent.names, agent.generic)
  BY <1>2 DEF AgentVerified
<1>7. \A j \in DOMAIN agent.names : agent.names[j] # Plain /\ (agent.names[j] = p => j = i)
  BY <1>1, <1>2, <1>6, ProfilesAreDistinct
<1> HIDE DEF p, actual
<1>8. ASSUME NEW base, Key(base, Plain) \in DOMAIN actual, base # "runtime"
      PROVE  LET k == Key(base, IF i = 1 THEN Plain ELSE p) IN
             k \in DOMAIN job.report /\ job.report[k] = actual[Key(base, Plain)]
  <2>1. CASE i = 1
    BY <1>3, <1>8, <2>1
  <2>2. CASE i # 1
    <3>1. Key(base, Plain) \in Own(actual)
      BY <1>5, <1>8 DEF Own
    <3>2. Key(base, p) \in DOMAIN NamespacedVersions(p, actual)
      <4>1. Key(Key(base, Plain).base, p) \in {Key(o.base, p) : o \in Own(actual)}
        BY <3>1
      <4> QED
        BY <1>5, <4>1 DEF NamespacedVersions
    <3>3. /\ Key(base, p) \in DOMAIN AttestedVersions(p, actual)
          /\ AttestedVersions(p, actual)[Key(base, p)] = actual[Key(Key(base, p).base, Plain)]
      BY <3>2 DEF AttestedVersions
    <3> QED
      BY <1>3, <1>5, <2>2, <3>3
  <2> QED
    BY <2>1, <2>2
<1>9. /\ Key("runtime", Plain) \in DOMAIN job.report
      /\ job.report[Key("runtime", Plain)] = actual[Key("runtime", Plain)]
  <2>1. CASE i = 1
    BY <1>3, <1>4, <2>1
  <2>2. CASE i # 1
    <3>1. Key("runtime", Plain) \in DOMAIN actual \ Own(actual)
      BY <1>4, <1>5 DEF Own
    <3>2. /\ Key("runtime", Plain) \in DOMAIN AttestedVersions(p, actual)
          /\ AttestedVersions(p, actual)[Key("runtime", Plain)] = actual[Key(Key("runtime", Plain).base, Plain)]
      BY <3>1 DEF AttestedVersions
    <3> QED
      BY <1>3, <1>5, <2>2, <3>2
  <2> QED
    BY <2>1, <2>2
<1>10. PICK k \in {r, more} : ~(k \in DOMAIN job.report /\ job.report[k] = job.pins[k])
  BY <1>1 DEF ConfigurationDiffers, Satisfies
<1>11. k \in DOMAIN RuntimeVersionsOfAgent /\ RuntimeVersionsOfAgent[k] = job.pins[k]
  BY <1>1, <1>2, <1>10 DEF Satisfies
<1>12. PICK j \in DOMAIN agent.names :
         /\ job.pins[k] = agent.verified[j][Key(k.base, Plain)]
         /\ Key(k.base, Plain) \in DOMAIN agent.verified[j]
         /\ k = Key(k.base, k.owner)
         /\ \/ j = 1 /\ k.owner = Plain
            \/ j # 1 /\ k.owner = agent.names[j] /\ k.base # "runtime"
  BY <1>2, <1>11, ShownIsVerified
<1>13. k.base = "runtime"
  <2> SUFFICES ASSUME k.base # "runtime" PROVE FALSE
    OBVIOUS
  <2>1. k.owner = IF i = 1 THEN Plain ELSE p
    BY <1>1, <1>5, <1>10 DEF p
  <2>2. j = i
    <3>1. p # Plain /\ agent.names[j] # Plain /\ (agent.names[j] = p => j = i)
      BY <1>1, <1>7 DEF p
    <3>2. CASE i = 1
      BY <1>12, <2>1, <3>1, <3>2
    <3>3. CASE i # 1
      BY <1>12, <2>1, <3>1, <3>3
    <3> QED
      BY <3>2, <3>3
  <2>3. job.pins[k] = actual[Key(k.base, Plain)] /\ Key(k.base, Plain) \in DOMAIN actual
    BY <1>12, <2>2 DEF actual
  <2> QED
    BY <1>8, <1>10, <1>12, <2>1, <2>3
<1>14. k = Key("runtime", Plain) /\ j = 1
  BY <1>12, <1>13
<1>15. actual[Key("runtime", Plain)] # agent.verified[1][Key("runtime", Plain)]
  BY <1>9, <1>10, <1>12, <1>13, <1>14
<1>16. i \in DOMAIN agent.verified
  BY <1>1, <1>6
<1>17. ~Uniform(agent)
  BY <1>15, <1>16 DEF Uniform, actual
<1> QED
  BY <1>1, <1>10, <1>14, <1>17

\* The place that counts first is the recipe's the job was leased for.
LEMMA RecipeThatCounts ==
  ASSUME NEW pins, NEW r \in DOMAIN pins, NEW more, DOMAIN pins = {r, more},
         r.base = "recipe", more.base = "runtime" \/ more.owner = r.owner,
         \E owner : r = Key("recipe", owner), Pinned(pins) # {}
  PROVE  PinnedRecipe(pins) = pins[r]
<1>1. \A n \in Pinned(pins) : RecipeKeys[n] = r
  <2> SUFFICES ASSUME NEW n \in Pinned(pins), RecipeKeys[n] # r PROVE FALSE
    OBVIOUS
  <2>1. n \in DOMAIN RecipeKeys /\ RecipeKeys[n] = more
    BY DEF Pinned
  <2>2. RecipeKeys[n] = Key("recipe", RecipeKeys[n].owner)
    BY <2>1, RecipeHasOnePlace
  <2> QED
    BY <2>1, <2>2 DEF Key
<1>2. \A n, m \in Pinned(pins) : n = m /\ n \in Nat
  BY <1>1, RecipeHasOnePlace DEF Pinned
<1>3. \E n \in Pinned(pins) : \A m \in Pinned(pins) : n <= m
  BY <1>2
<1> DEFINE first == CHOOSE n \in Pinned(pins) : \A m \in Pinned(pins) : n <= m
<1>4. first \in Pinned(pins)
  BY <1>3
<1> HIDE DEF first
<1>5. RecipeKeys[first] = r
  BY <1>1, <1>4
<1> QED
  BY <1>5 DEF PinnedRecipe, first

\* Of one catalog, what the worker attests is what the coordinator expects.
LEMMA InputsAgree ==
  ASSUME ProfileInv, job.verdict # "none", Pinned(job.pins) # {},
         coordinator.rev = agent.rev, coordinator.extras
  PROVE  ~InputsDiffer(PinnedRecipe(job.pins))
<1>1. PICK r, more, i :
        /\ r \in DOMAIN job.pins /\ DOMAIN job.pins = {r, more} /\ r.base = "recipe"
        /\ more.base = "runtime" \/ more.owner = r.owner
        /\ r = Key("recipe", IF i = 1 THEN Plain ELSE agent.names[i])
        /\ job.pins[r] = RecipeVersion(agent.rev, agent.names[i])
        /\ job.plugin = agent.names[i] /\ job.plugin # Generic
        /\ job.plugin \in Known(agent.rev) /\ job.capability \in CapabilityIds(agent.rev, job.plugin)
  BY PinnedProfileRuns
<1> DEFINE recipe == RecipeVersion(agent.rev, job.plugin)  spec == Catalog[agent.rev][job.plugin]
           defaults == IF IsEngine(agent.rev, job.plugin) THEN Nothing ELSE spec.defaults
<1>2. PinnedRecipe(job.pins) = recipe
  BY <1>1, RecipeThatCounts
<1>3. ProfilesOf(agent.rev, recipe) = {job.plugin}
  BY <1>1 DEF ProfilesOf, RecipeVersion
<1>4. AttestedInputs(coordinator.rev, coordinator.extras, recipe, job.capability) = spec.attested[job.capability]
  <2>1. (CHOOSE p \in {job.plugin} : TRUE) = job.plugin
    OBVIOUS
  <2> QED
    BY <1>1, <1>3, <2>1 DEF AttestedInputs, CapabilityIds
<1>5. InputDefaults(coordinator.rev, coordinator.extras, recipe) = defaults
  <2>1. (CHOOSE p \in {job.plugin} : TRUE) = job.plugin
    OBVIOUS
  <2> QED
    BY <1>3, <2>1 DEF InputDefaults
<1>6. /\ job.by = agent
      /\ job.inputs = IF IsEngine(agent.rev, job.plugin) THEN job.payload ELSE WithDefaults(job.payload, spec.defaults)
  BY <1>1 DEF ProfileInv, ReportIsInspected, PluginIsServed
<1>7. ASSUME NEW k \in spec.attested[job.capability]
      PROVE  At(Effective, k) = IF k \in DOMAIN job.payload THEN job.payload[k] ELSE At(defaults, k)
  <2>1. CASE IsEngine(agent.rev, job.plugin)
    <3>1. Effective = [x \in DOMAIN job.payload \cap spec.attested[job.capability] |-> job.payload[x]]
      BY <1>1, <1>6, <2>1 DEF Effective
    <3> QED
      BY <1>7, <2>1, <3>1 DEF At, Nothing
  <2>2. CASE ~IsEngine(agent.rev, job.plugin)
    <3>1. Effective = WithDefaults(job.payload, spec.defaults)
      BY <1>1, <1>6, <2>2 DEF Effective
    <3> QED
      BY <2>2, <3>1 DEF At, WithDefaults
  <2> QED
    BY <2>1, <2>2
<1> HIDE DEF recipe, spec, defaults
<1> QED
  BY <1>2, <1>4, <1>5, <1>7 DEF InputsDiffer

\* A rejection for the recipe blames what the two sides do not have in common.
LEMMA HonestJobsAreBelieved ==
  ASSUME ProfileInv
  PROVE  HonestJobsVerify
<1> SUFFICES ASSUME job.verdict \in {"configuration", "inputs"},
                    \A c \in job.judge : c.rev = job.by.rev /\ c.extras
             PROVE  job.verdict = "configuration" /\ ~Uniform(job.by) /\ Key("runtime", Plain) \in DOMAIN job.pins
  BY DEF HonestJobsVerify
<1>1. job.verdict = Verdict /\ job.judge = {coordinator} /\ job.by = agent
  BY DEF ProfileInv, VerdictIsLast, ReportIsInspected
<1>2. Pinned(job.pins) # {}
  BY <1>1 DEF Verdict
<1>3. ~InputsDiffer(PinnedRecipe(job.pins))
  BY <1>1, <1>2, InputsAgree
<1>4. job.verdict = "configuration" /\ ConfigurationDiffers
  BY <1>1, <1>3 DEF Verdict
<1> QED
  BY <1>1, <1>2, <1>4, ReportHasThePins
-----------------------------------------------------------------------------
(* The recipe's gate among the others.                                     *)

\* At another gate nothing is submitted to a worker.
ContentInv ==
  /\ gate = "recipe" => ProfileInv
  /\ gate # "recipe" => job = NoJob

LEMMA ContentInvariance ==
  ContentSpec => []ContentInv
<1>1. ContentInit => ContentInv
  <2> SUFFICES ASSUME ContentInit PROVE ContentInv
    OBVIOUS
  <2>1. CASE gate \in {"submission", "plugin"} /\ NoRecipe
    BY <2>1 DEF ContentInv, NoRecipe
  <2>2. CASE gate = "recipe" /\ Init
    <3>1. ProfileInv
      BY <2>2, NothingSubmittedInv DEF Init
    <3> QED
      BY <2>2, <3>1 DEF ContentInv
  <2> QED
    BY <2>1, <2>2 DEF ContentInit
<1>2. ContentInv /\ [ContentNext]_content => ContentInv'
  <2> SUFFICES ASSUME ContentInv, [ContentNext]_content PROVE ContentInv'
    OBVIOUS
  <2>1. gate' = gate
    BY DEF ContentNext, SubmissionStep, PluginStep, RecipeStep, Through, content
  <2>2. CASE gate = "recipe"
    <3>1. [Next]_vars
      BY <2>2 DEF ContentNext, SubmissionStep, PluginStep, RecipeStep, Through, content
    <3>2. ProfileInv'
      BY <2>2, <3>1, ProfileNextInv DEF ContentInv
    <3> QED
      BY <2>1, <2>2, <3>2 DEF ContentInv
  <2>3. CASE gate # "recipe"
    <3>1. job' = job
      BY <2>3 DEF ContentNext, SubmissionStep, PluginStep, RecipeStep, Through, content, vars
    <3> QED
      BY <2>1, <2>3, <3>1 DEF ContentInv, NoJob
  <2> QED
    BY <2>2, <2>3
<1> QED
  BY <1>1, <1>2, PTL DEF ContentSpec

(* PinsWereTrue: a job that pins a recipe is completed only by the plugin   *)
(* of that very profile, on a runtime that showed every version it pins.   *)
THEOREM PinsAreTrue == ContentSpec => []PinsWereTrue
<1>1. ContentInv => PinsWereTrue
  BY AcceptedPinsWereTrue DEF ContentInv, PinsWereTrue, NoJob
<1> QED
  BY <1>1, ContentInvariance, PTL

(* HonestJobsVerify: a worker that ran what the job pins is not rejected   *)
(* for its recipe by a coordinator of its own revision, but for shared     *)
(* facts that changed while it inspected its profiles.                     *)
THEOREM HonestWorkersAreBelieved == ContentSpec => []HonestJobsVerify
<1>1. ContentInv => HonestJobsVerify
  BY HonestJobsAreBelieved DEF ContentInv, HonestJobsVerify, NoJob
<1> QED
  BY <1>1, ContentInvariance, PTL

(* UnqualifiedIsNeverAccepted: where a capability stays with its profile,  *)
(* nothing is accepted that a profile ran which the coordinator refuses.   *)
THEOREM UnqualifiedIsRefused ==
  ASSUME CapabilitiesAreKept
  PROVE  ContentSpec => []UnqualifiedIsNeverAccepted
<1>1. ContentInv => UnqualifiedIsNeverAccepted
  BY AcceptedIsQualified DEF ContentInv, UnqualifiedIsNeverAccepted, NoJob
<1> QED
  BY <1>1, ContentInvariance, PTL

-----------------------------------------------------------------------------
(* Schemas: what a template, a stage and the reference plugin take.        *)

\* A list that is joined to another lists what either does.
LEMMA JoinedLists ==
  ASSUME NEW S, NEW T, NEW s \in Seq(S), NEW t \in Seq(T)
  PROVE  /\ s \o t \in Seq(S \cup T) /\ Len(s \o t) = Len(s) + Len(t) /\ Len(s) \in Nat /\ Len(t) \in Nat
         /\ DOMAIN s = 1..Len(s) /\ DOMAIN t = 1..Len(t) /\ DOMAIN (s \o t) = 1..(Len(s) + Len(t))
         /\ \A i \in DOMAIN s : i \in DOMAIN (s \o t) /\ (s \o t)[i] = s[i]
         /\ \A i \in DOMAIN t : i + Len(s) \in DOMAIN (s \o t) /\ (s \o t)[i + Len(s)] = t[i]
         /\ \A i \in DOMAIN (s \o t) : (s \o t)[i] \in {s[j] : j \in DOMAIN s} \cup {t[j] : j \in DOMAIN t}
<1>1. /\ s \o t \in Seq(S \cup T) /\ Len(s \o t) = Len(s) + Len(t) /\ Len(s) \in Nat /\ Len(t) \in Nat
      /\ DOMAIN s = 1..Len(s) /\ DOMAIN t = 1..Len(t) /\ DOMAIN (s \o t) = 1..(Len(s) + Len(t))
  OBVIOUS
<1>2. \A i \in 1..(Len(s) + Len(t)) : (s \o t)[i] = IF i <= Len(s) THEN s[i] ELSE t[i - Len(s)]
  OBVIOUS
<1>3. \A i \in DOMAIN s : i \in DOMAIN (s \o t) /\ (s \o t)[i] = s[i]
  BY <1>1, <1>2
<1>4. \A i \in DOMAIN t : i + Len(s) \in DOMAIN (s \o t) /\ (s \o t)[i + Len(s)] = t[i]
  <2> SUFFICES ASSUME NEW i \in DOMAIN t
               PROVE  i + Len(s) \in DOMAIN (s \o t) /\ (s \o t)[i + Len(s)] = t[i]
    OBVIOUS
  <2>1. i \in Nat /\ i >= 1 /\ i <= Len(t)
    BY <1>1
  <2>2. i + Len(s) \in 1..(Len(s) + Len(t)) /\ ~(i + Len(s) <= Len(s)) /\ (i + Len(s)) - Len(s) = i
    BY <1>1, <2>1
  <2> QED
    BY <1>1, <1>2, <2>2
<1>5. ASSUME NEW i \in DOMAIN (s \o t)
      PROVE  (s \o t)[i] \in {s[j] : j \in DOMAIN s} \cup {t[j] : j \in DOMAIN t}
  <2>1. CASE i <= Len(s)
    BY <1>1, <1>2, <2>1
  <2>2. CASE ~(i <= Len(s))
    <3>1. i - Len(s) \in DOMAIN t
      BY <1>1, <2>2
    <3> QED
      BY <1>1, <1>2, <2>2, <3>1
  <2> QED
    BY <2>1, <2>2
<1> QED
  BY <1>1, <1>3, <1>4, <1>5

\* Behind another list, a list's items lie in their order.
LEMMA SecondListFollows ==
  ASSUME NEW S, NEW T, NEW s \in Seq(S), NEW t \in Seq(T)
  PROVE  \A i \in DOMAIN t : i + Len(s) \in DOMAIN (s \o t) /\ (s \o t)[i + Len(s)] = t[i]
  BY JoinedLists

\* A usable template's entries: the names are distinct, and none is that of a medium.
LEMMA EntriesAreNamed ==
  ASSUME NEW t, Plugin!IsDocument(t), Plugin!Usable(t)
  PROVE  /\ \A e, f \in Plugin!ToSet(t.entries) : e.name = f.name => e = f
         /\ \A e \in Plugin!ToSet(t.entries) :
              e.name \notin Plugin!Media /\ e.kind \in {"string", "integer", "number", "boolean"}
<1> DEFINE entries == t.entries  slots == Plugin!Slots(t)  declared == entries \o slots
<1>1. /\ entries \in Seq(Plugin!ToSet(entries))
      /\ slots \in Seq(Plugin!ToSet(t.images) \cup Plugin!ToSet(t.audios))
  <2>1. /\ t.images \in Seq(Plugin!ToSet(t.images)) /\ t.audios \in Seq(Plugin!ToSet(t.audios))
        /\ entries \in Seq(Plugin!ToSet(entries))
    BY DEF Plugin!IsDocument
  <2> QED
    BY <2>1, JoinedLists DEF Plugin!Slots
<1>2. /\ \A i, j \in DOMAIN declared : declared[i].name = declared[j].name => i = j
      /\ Plugin!NamesIn(declared) \cap Plugin!Media = {}
      /\ \A e \in Plugin!ToSet(entries) : e.kind \in {"string", "integer", "number", "boolean"}
  <2>1. /\ Plugin!IsInjective([i \in DOMAIN declared |-> declared[i].name])
        /\ Plugin!NamesIn(declared) \cap Plugin!Media = {}
    BY Zenon DEF Plugin!Usable
  <2>2. \A e \in Plugin!ToSet(entries) : e.kind \in {"string", "integer", "number", "boolean"}
    BY Zenon DEF Plugin!Usable
  <2> QED
    BY <2>1, <2>2 DEF Plugin!IsInjective
<1> HIDE DEF entries, slots
<1>3. /\ declared \in Seq(Plugin!ToSet(entries) \cup (Plugin!ToSet(t.images) \cup Plugin!ToSet(t.audios)))
      /\ \A i \in DOMAIN entries : i \in DOMAIN declared /\ declared[i] = entries[i]
  BY <1>1, JoinedLists
<1> HIDE DEF declared
<1>5. \A e \in Plugin!ToSet(entries) : \E i \in DOMAIN entries : e = entries[i]
  BY DEF Plugin!ToSet
<1>6. \A e \in Plugin!ToSet(entries) : e.name \in Plugin!NamesIn(declared)
  BY <1>3, <1>5 DEF Plugin!NamesIn
<1>7. \A e, f \in Plugin!ToSet(entries) : e.name = f.name => e = f
  BY <1>2, <1>3, <1>5
<1> QED
  BY <1>2, <1>6, <1>7 DEF entries

\* A value that fits the entry's schema passes the check, unless it is an integer written as a float.
LEMMA EntriesFit ==
  ASSUME NEW e, e.kind \in {"string", "integer", "number", "boolean"}, NEW v
  PROVE  /\ Plugin!Checked(e, v) /\ (v.kind = "int" => v.n % 2 = 0) => Plugin!Fits(Plugin!EntrySchema(e), v)
         /\ Plugin!Fits(Plugin!EntrySchema(e), v) /\ ~(v.kind = "float" /\ v.n % 2 = 0) => Plugin!Checked(e, v)
         /\ Plugin!Fits(Plugin!EntrySchema(e), v) => v.kind # "object"
         /\ Plugin!Checked(e, v) => v.kind \notin {"object", "link"}
<1> DEFINE s == Plugin!EntrySchema(e)
<1>1. s.type = e.kind /\ s.least = e.minimum /\ s.most = IF e.kind = "string" THEN e.length ELSE e.maximum
  BY DEF Plugin!EntrySchema, Plugin!Property
<1> HIDE DEF s
<1>2. /\ e.kind = "string" => (Plugin!Fits(s, v) <=> v.kind = "string" /\ Plugin!Within(v.n, e.minimum, e.length))
      /\ e.kind = "boolean" => (Plugin!Fits(s, v) <=> v.kind = "bool")
      /\ e.kind = "integer" => (Plugin!Fits(s, v) <=> /\ v.kind \in {"int", "float"} /\ v.n % 2 = 0
                                                      /\ Plugin!Within(v.n, e.minimum, e.maximum))
      /\ e.kind = "number" => (Plugin!Fits(s, v) <=> /\ v.kind \in {"int", "float"}
                                                     /\ Plugin!Within(v.n, e.minimum, e.maximum))
  <2>1. CASE e.kind = "string"
    BY <1>1, <2>1 DEF Plugin!Fits
  <2>2. CASE e.kind = "boolean"
    BY <1>1, <2>2 DEF Plugin!Fits
  <2>3. CASE e.kind \in {"integer", "number"}
    BY <1>1, <2>3 DEF Plugin!Fits, Plugin!Numeric
  <2> QED
    BY <2>1, <2>2, <2>3
<1>3. /\ e.kind = "string" => (Plugin!Checked(e, v) <=> v.kind = "string" /\ Plugin!Within(v.n, e.minimum, e.length))
      /\ e.kind = "boolean" => (Plugin!Checked(e, v) <=> v.kind = "bool")
      /\ e.kind = "integer" => (Plugin!Checked(e, v) <=> v.kind = "int" /\ Plugin!Within(v.n, e.minimum, e.maximum))
      /\ e.kind = "number" => (Plugin!Checked(e, v) <=> /\ v.kind \in {"int", "float"}
                                                        /\ Plugin!Within(v.n, e.minimum, e.maximum))
  BY DEF Plugin!Checked, Plugin!Numeric
<1> QED
  BY <1>2, <1>3 DEF s

\* What a template's schema says of each name.
LEMMA TemplateSchema ==
  ASSUME NEW t, Plugin!IsDocument(t), Plugin!Usable(t)
  PROVE  /\ DOMAIN Plugin!Schema(t).properties = Plugin!NamesIn(t.entries) \cup Plugin!MediaOf(t)
         /\ \A e \in Plugin!ToSet(t.entries) : /\ e.name \in Plugin!NamesIn(t.entries)
                                               /\ Plugin!Schema(t).properties[e.name] = Plugin!EntrySchema(e)
         /\ \A name \in Plugin!NamesIn(t.entries) : \E e \in Plugin!ToSet(t.entries) : e.name = name
         /\ \A medium \in Plugin!MediaOf(t) :
              Plugin!Schema(t).properties[medium] = Plugin!SlotSchema(Plugin!SlotsOf(t, medium))
         /\ Plugin!Schema(t).required = {e.name : e \in {x \in Plugin!ToSet(t.entries) : x.required}}
              \cup {medium \in Plugin!MediaOf(t) : \E s \in Plugin!ToSet(Plugin!SlotsOf(t, medium)) : s.required}
         /\ Plugin!Schema(t).oneOf = {}
<1> DEFINE named == Plugin!NamesIn(t.entries)  media == Plugin!MediaOf(t)
           Of(name) == IF name \in media THEN Plugin!SlotSchema(Plugin!SlotsOf(t, name))
                       ELSE Plugin!EntrySchema(CHOOSE e \in Plugin!ToSet(t.entries) : e.name = name)
           needed == {e.name : e \in {x \in Plugin!ToSet(t.entries) : x.required}}
             \cup {medium \in media : \E s \in Plugin!ToSet(Plugin!SlotsOf(t, medium)) : s.required}
<1>1. Plugin!Schema(t) = [properties |-> [name \in named \cup media |-> Of(name)], required |-> needed, oneOf |-> {}]
  BY DEF Plugin!Schema
<1>2. \A e \in Plugin!ToSet(t.entries) : e.name \in named
  BY DEF Plugin!ToSet, Plugin!NamesIn
<1>3. \A name \in named : \E e \in Plugin!ToSet(t.entries) : e.name = name
  BY DEF Plugin!ToSet, Plugin!NamesIn
<1>4. ASSUME NEW e \in Plugin!ToSet(t.entries) PROVE Of(e.name) = Plugin!EntrySchema(e)
  <2>1. e.name \notin media
    BY EntriesAreNamed DEF Plugin!MediaOf, Plugin!Media
  <2>2. \A f \in Plugin!ToSet(t.entries) : e.name = f.name => e = f
    BY EntriesAreNamed
  <2>3. (CHOOSE f \in Plugin!ToSet(t.entries) : f.name = e.name) = e
    BY <2>2
  <2> QED
    BY <2>1, <2>3
<1>5. \A medium \in media : Of(medium) = Plugin!SlotSchema(Plugin!SlotsOf(t, medium))
  OBVIOUS
<1> HIDE DEF named, media, Of, needed
<1>6. /\ DOMAIN Plugin!Schema(t).properties = named \cup media
      /\ \A name \in named \cup media : Plugin!Schema(t).properties[name] = Of(name)
      /\ Plugin!Schema(t).required = needed /\ Plugin!Schema(t).oneOf = {}
  BY <1>1
<1>7. \A e \in Plugin!ToSet(t.entries) : Plugin!Schema(t).properties[e.name] = Plugin!EntrySchema(e)
  BY <1>2, <1>4, <1>6
<1>8. \A medium \in media : Plugin!Schema(t).properties[medium] = Plugin!SlotSchema(Plugin!SlotsOf(t, medium))
  BY <1>5, <1>6
<1> QED
  BY <1>2, <1>3, <1>6, <1>7, <1>8 DEF named, media, needed

\* An object fits the schema of a medium's slots if it binds keys to slots, and to all that are needed.
LEMMA SlotsFit ==
  ASSUME NEW slots, NEW v
  PROVE  Plugin!Fits(Plugin!SlotSchema(slots), v) <=>
           /\ v.kind = "object" /\ DOMAIN v.of \subseteq Plugin!NamesIn(slots)
           /\ \A s \in Plugin!ToSet(slots) : s.required => s.name \in DOMAIN v.of
           /\ \A name \in DOMAIN v.of : v.of[name] # Plugin!NoString
<1> DEFINE p == Plugin!SlotSchema(slots)
<1>1. /\ p.type = "object" /\ p.slots = Plugin!NamesIn(slots)
      /\ p.needed = {s.name : s \in {x \in Plugin!ToSet(slots) : x.required}}
  BY DEF Plugin!SlotSchema, Plugin!Property
<1> HIDE DEF p
<1>2. Plugin!Fits(p, v) <=> /\ v.kind = "object" /\ p.needed \subseteq DOMAIN v.of /\ DOMAIN v.of \subseteq p.slots
                            /\ \A s \in DOMAIN v.of : v.of[s] # Plugin!NoString
  BY <1>1 DEF Plugin!Fits
<1>3. p.needed \subseteq DOMAIN v.of <=> \A s \in Plugin!ToSet(slots) : s.required => s.name \in DOMAIN v.of
  BY <1>1
<1> QED
  BY <1>1, <1>2, <1>3 DEF p

\* A payload without a medium binds nothing of it.
LEMMA NothingRequested ==
  ASSUME NEW payload, NEW medium
  PROVE  /\ medium \in DOMAIN payload => Plugin!Requested(payload, medium) = payload[medium]
         /\ medium \notin DOMAIN payload => /\ Plugin!Requested(payload, medium).kind = "object"
                                            /\ DOMAIN Plugin!Requested(payload, medium).of = {}
<1>1. Plugin!Keys(<<>>).kind = "object" /\ Plugin!Keys(<<>>).of = <<>> /\ DOMAIN <<>> = {}
  BY DEF Plugin!Keys
<1> QED
  BY <1>1 DEF Plugin!Requested

\* What a template's plugin takes conforms to its schema.
LEMMA TakenConforms ==
  ASSUME NEW t, Plugin!IsDocument(t), Plugin!Usable(t), NEW l, Plugin!IsLease(l), Plugin!Takes(t, l)
  PROVE  Plugin!Conforms(Plugin!Schema(t), l.payload)
<1> DEFINE payload == l.payload  schema == Plugin!Schema(t)  media == Plugin!MediaOf(t)
           named == Plugin!NamesIn(t.entries)
<1>1. /\ DOMAIN payload \subseteq named \cup media
      /\ \A e \in Plugin!ToSet(t.entries) :
           IF e.name \in DOMAIN payload THEN Plugin!Checked(e, payload[e.name]) ELSE ~e.required
      /\ \A medium \in media :
           Plugin!Binds(Plugin!SlotsOf(t, medium), Plugin!Requested(payload, medium), l.granted)
  BY DEF Plugin!Takes
<1>2. /\ Plugin!NoString \notin l.granted
      /\ \A name \in DOMAIN payload : payload[name].kind = "int" => payload[name].n % 2 = 0
  BY DEF Plugin!IsLease
<1>3. /\ DOMAIN schema.properties = named \cup media /\ schema.oneOf = {}
      /\ \A e \in Plugin!ToSet(t.entries) : schema.properties[e.name] = Plugin!EntrySchema(e)
      /\ \A name \in named : \E e \in Plugin!ToSet(t.entries) : e.name = name
      /\ \A medium \in media : schema.properties[medium] = Plugin!SlotSchema(Plugin!SlotsOf(t, medium))
      /\ schema.required = {e.name : e \in {x \in Plugin!ToSet(t.entries) : x.required}}
           \cup {medium \in media : \E s \in Plugin!ToSet(Plugin!SlotsOf(t, medium)) : s.required}
  BY TemplateSchema
<1>4. \A e \in Plugin!ToSet(t.entries) : e.kind \in {"string", "integer", "number", "boolean"}
  BY EntriesAreNamed
<1> HIDE DEF payload, schema, media, named
<1>5. schema.required \subseteq DOMAIN payload
  <2>1. \A e \in Plugin!ToSet(t.entries) : e.required => e.name \in DOMAIN payload
    BY <1>1
  <2>2. ASSUME NEW medium \in media, NEW s \in Plugin!ToSet(Plugin!SlotsOf(t, medium)), s.required
        PROVE  medium \in DOMAIN payload
    <3>1. s.name \in DOMAIN Plugin!Requested(payload, medium).of
      BY <1>1, <2>2 DEF Plugin!Binds
    <3> QED
      BY <3>1, NothingRequested
  <2> QED
    BY <1>3, <2>1, <2>2
<1>6. ASSUME NEW name \in DOMAIN payload PROVE Plugin!Fits(schema.properties[name], payload[name])
  <2>1. CASE name \in named
    <3>1. PICK e \in Plugin!ToSet(t.entries) : e.name = name
      BY <1>3, <2>1
    <3>2. Plugin!Checked(e, payload[name]) /\ schema.properties[name] = Plugin!EntrySchema(e)
      BY <1>1, <1>3, <3>1
    <3> QED
      BY <1>2, <1>4, <3>2, EntriesFit
  <2>2. CASE name \in media
    <3>1. Plugin!Binds(Plugin!SlotsOf(t, name), payload[name], l.granted)
      BY <1>1, <2>2, NothingRequested
    <3>2. Plugin!Fits(Plugin!SlotSchema(Plugin!SlotsOf(t, name)), payload[name])
      BY <1>2, <3>1, SlotsFit DEF Plugin!Binds
    <3> QED
      BY <1>3, <2>2, <3>2
  <2> QED
    BY <1>1, <2>1, <2>2
<1>7. Plugin!Conforms(schema, payload)
  BY <1>1, <1>3, <1>5, <1>6 DEF Plugin!Conforms
<1> QED
  BY <1>7 DEF schema, payload

\* A conforming payload that binds what was granted is taken, but for an integer written as a float.
LEMMA ConformingIsTaken ==
  ASSUME NEW t, Plugin!IsDocument(t), Plugin!Usable(t), NEW l, l.version = t.version,
         Plugin!Conforms(Plugin!Schema(t), l.payload), Plugin!KeysIn(l.payload) = l.granted,
         ~Plugin!HasIntegralFloat(l)
  PROVE  Plugin!Takes(t, l)
<1> DEFINE payload == l.payload  schema == Plugin!Schema(t)  media == Plugin!MediaOf(t)
           named == Plugin!NamesIn(t.entries)
<1>1. /\ schema.required \subseteq DOMAIN payload /\ DOMAIN payload \subseteq DOMAIN schema.properties
      /\ \A name \in DOMAIN payload : Plugin!Fits(schema.properties[name], payload[name])
  BY DEF Plugin!Conforms
<1>2. \A name \in DOMAIN payload : ~(payload[name].kind = "float" /\ payload[name].n % 2 = 0)
  BY DEF Plugin!HasIntegralFloat
<1>3. /\ DOMAIN schema.properties = named \cup media
      /\ \A e \in Plugin!ToSet(t.entries) : schema.properties[e.name] = Plugin!EntrySchema(e)
      /\ \A name \in named : \E e \in Plugin!ToSet(t.entries) : e.name = name
      /\ \A medium \in media : schema.properties[medium] = Plugin!SlotSchema(Plugin!SlotsOf(t, medium))
      /\ schema.required = {e.name : e \in {x \in Plugin!ToSet(t.entries) : x.required}}
           \cup {medium \in media : \E s \in Plugin!ToSet(Plugin!SlotsOf(t, medium)) : s.required}
  BY TemplateSchema
<1>4. \A e \in Plugin!ToSet(t.entries) : e.kind \in {"string", "integer", "number", "boolean"}
  BY EntriesAreNamed
<1>5. Plugin!KeysIn(payload) = l.granted
  OBVIOUS
<1> HIDE DEF payload, schema, media, named
<1>6. ASSUME NEW e \in Plugin!ToSet(t.entries)
      PROVE  IF e.name \in DOMAIN payload THEN Plugin!Checked(e, payload[e.name]) ELSE ~e.required
  <2>1. e.required => e.name \in DOMAIN payload
    BY <1>1, <1>3
  <2>2. ASSUME e.name \in DOMAIN payload PROVE Plugin!Checked(e, payload[e.name])
    <3>1. Plugin!Fits(Plugin!EntrySchema(e), payload[e.name])
      BY <1>1, <1>3, <2>2
    <3> QED
      BY <1>2, <1>4, <2>2, <3>1, EntriesFit
  <2> QED
    BY <2>1, <2>2
<1>7. ASSUME NEW medium \in media
      PROVE  Plugin!Binds(Plugin!SlotsOf(t, medium), Plugin!Requested(payload, medium), l.granted)
  <2>1. CASE medium \in DOMAIN payload
    <3>1. Plugin!Fits(Plugin!SlotSchema(Plugin!SlotsOf(t, medium)), payload[medium])
      BY <1>1, <1>3, <2>1
    <3>2. /\ payload[medium].kind = "object" /\ DOMAIN payload[medium].of \subseteq Plugin!NamesIn(Plugin!SlotsOf(t, medium))
          /\ \A s \in Plugin!ToSet(Plugin!SlotsOf(t, medium)) : s.required => s.name \in DOMAIN payload[medium].of
      BY <3>1, SlotsFit
    <3>3. \A name \in DOMAIN payload[medium].of : payload[medium].of[name] \in l.granted
      BY <1>5, <2>1, <3>2 DEF Plugin!KeysIn
    <3> QED
      BY <2>1, <3>2, <3>3, NothingRequested DEF Plugin!Binds
  <2>2. CASE medium \notin DOMAIN payload
    <3>1. \A s \in Plugin!ToSet(Plugin!SlotsOf(t, medium)) : ~s.required
      BY <1>1, <1>3, <2>2
    <3>2. /\ Plugin!Requested(payload, medium).kind = "object"
          /\ DOMAIN Plugin!Requested(payload, medium).of = {}
      BY <2>2, NothingRequested
    <3> QED
      BY <3>1, <3>2 DEF Plugin!Binds
  <2> QED
    BY <2>1, <2>2
<1>8. ASSUME NEW key \in l.granted
      PROVE  \E medium \in media : \E name \in DOMAIN Plugin!Requested(payload, medium).of :
               Plugin!Requested(payload, medium).of[name] = key
  <2>1. PICK medium \in DOMAIN payload : /\ payload[medium].kind = "object"
                                         /\ \E s \in DOMAIN payload[medium].of : payload[medium].of[s] = key
    BY <1>5 DEF Plugin!KeysIn
  <2>2. medium \notin named
    BY <1>1, <1>3, <1>4, <2>1, EntriesFit
  <2>3. medium \in media
    BY <1>1, <1>3, <2>2
  <2> QED
    BY <2>1, <2>3, NothingRequested
<1> QED
  BY <1>1, <1>3, <1>6, <1>7, <1>8 DEF Plugin!Takes, payload, media, named

\* A setting's value fits its schema if the plugin takes it, and the other way round but for such a float.
LEMMA SettingsFit ==
  ASSUME NEW d, d.kind = "choices" => \A w \in d.values : w.kind \notin {"bool", "object"}, NEW v
  PROVE  /\ Plugin!CheckedSetting(d, v) /\ (v.kind = "int" => v.n % 2 = 0) => Plugin!Fits(Plugin!SettingSchema(d), v)
         /\ Plugin!Fits(Plugin!SettingSchema(d), v) /\ ~(v.kind = "float" /\ v.n % 2 = 0) => Plugin!CheckedSetting(d, v)
         /\ Plugin!Fits(Plugin!SettingSchema(d), v) => v.kind # "object"
<1> DEFINE s == Plugin!SettingSchema(d)
<1>1. CASE d.kind = "choices"
  <2>1. s.type = "enum" /\ s.values = d.values
    BY <1>1 DEF Plugin!SettingSchema, Plugin!Property
  <2> HIDE DEF s
  <2>2. Plugin!Fits(s, v) <=> v.kind # "object" /\ \E w \in d.values : Plugin!SameValue(v, w)
    BY <2>1 DEF Plugin!Fits
  <2>3. \A w \in d.values : Plugin!SameValue(v, w) => v.kind # "bool"
    BY <1>1 DEF Plugin!SameValue, Plugin!Numeric
  <2> QED
    BY <1>1, <2>2, <2>3 DEF Plugin!CheckedSetting, s
<1>2. CASE d.kind # "choices"
  <2>1. s.type = "integer" /\ s.least = d.least /\ s.most = d.most
    BY <1>2 DEF Plugin!SettingSchema, Plugin!Property
  <2> HIDE DEF s
  <2>2. Plugin!Fits(s, v) <=> v.kind \in {"int", "float"} /\ v.n % 2 = 0 /\ Plugin!Within(v.n, d.least, d.most)
    BY <2>1 DEF Plugin!Fits, Plugin!Numeric
  <2> QED
    BY <1>2, <2>2 DEF Plugin!CheckedSetting, s
<1> QED
  BY <1>1, <1>2

\* What a stage's schema says of each name.
LEMMA StagesSchema ==
  ASSUME NEW stg, Plugin!IsStage(stg)
  PROVE  LET schema == Plugin!StageSchema(stg) IN
         /\ DOMAIN schema.properties = Plugin!Domains(stg) \cup {"inputs"}
         /\ \A name \in Plugin!Domains(stg) : schema.properties[name] = Plugin!SettingSchema(stg.settings[name])
         /\ \A v : Plugin!Fits(schema.properties["inputs"], v) <=>
              /\ v.kind = "object" /\ stg.required \subseteq DOMAIN v.of /\ DOMAIN v.of \subseteq stg.inputs
              /\ \A s \in DOMAIN v.of : v.of[s] # Plugin!NoString
         /\ schema.required = {"inputs"} \cup stg.requiredSettings /\ schema.oneOf = stg.oneOf
<1> DEFINE bound == [Plugin!Property("object") EXCEPT !.slots = stg.inputs, !.needed = stg.required]
           Of(name) == IF name \in Plugin!Domains(stg) THEN Plugin!SettingSchema(stg.settings[name]) ELSE bound
<1>1. Plugin!StageSchema(stg) =
        [properties |-> [name \in Plugin!Domains(stg) \cup {"inputs"} |-> Of(name)],
         required |-> {"inputs"} \cup stg.requiredSettings, oneOf |-> stg.oneOf]
  BY DEF Plugin!StageSchema
<1>2. bound.type = "object" /\ bound.slots = stg.inputs /\ bound.needed = stg.required
  BY DEF Plugin!Property
<1>3. Of("inputs") = bound
  BY DEF Plugin!IsStage
<1>4. \A name \in Plugin!Domains(stg) : Of(name) = Plugin!SettingSchema(stg.settings[name])
  OBVIOUS
<1> HIDE DEF bound, Of
<1>5. \A v : Plugin!Fits(bound, v) <=>
        /\ v.kind = "object" /\ stg.required \subseteq DOMAIN v.of /\ DOMAIN v.of \subseteq stg.inputs
        /\ \A s \in DOMAIN v.of : v.of[s] # Plugin!NoString
  BY <1>2 DEF Plugin!Fits
<1>6. LET schema == Plugin!StageSchema(stg) IN
      /\ DOMAIN schema.properties = Plugin!Domains(stg) \cup {"inputs"}
      /\ \A name \in Plugin!Domains(stg) : schema.properties[name] = Plugin!SettingSchema(stg.settings[name])
      /\ schema.properties["inputs"] = bound
      /\ schema.required = {"inputs"} \cup stg.requiredSettings /\ schema.oneOf = stg.oneOf
  BY <1>1, <1>3, <1>4
<1> QED
  BY <1>5, <1>6

\* A stage's plugin takes what conforms to the schema of the stage.
LEMMA StageTakesConforming ==
  ASSUME NEW stg, Plugin!IsStage(stg), NEW l, Plugin!IsLease(l)
  PROVE  /\ Plugin!StageTakes(stg, l) => Plugin!Conforms(Plugin!StageSchema(stg), l.payload)
         /\ /\ l.version = 1 /\ Plugin!Conforms(Plugin!StageSchema(stg), l.payload)
            /\ Plugin!KeysIn(l.payload) = l.granted /\ ~Plugin!HasIntegralFloat(l)
            => Plugin!StageTakes(stg, l)
<1> DEFINE payload == l.payload  schema == Plugin!StageSchema(stg)
           bound == IF "inputs" \in DOMAIN payload THEN payload["inputs"] ELSE Plugin!Keys(<<>>)
<1>1. /\ DOMAIN schema.properties = Plugin!Domains(stg) \cup {"inputs"}
      /\ \A name \in Plugin!Domains(stg) : schema.properties[name] = Plugin!SettingSchema(stg.settings[name])
      /\ \A v : Plugin!Fits(schema.properties["inputs"], v) <=>
              /\ v.kind = "object" /\ stg.required \subseteq DOMAIN v.of /\ DOMAIN v.of \subseteq stg.inputs
              /\ \A s \in DOMAIN v.of : v.of[s] # Plugin!NoString
      /\ schema.required = {"inputs"} \cup stg.requiredSettings /\ schema.oneOf = stg.oneOf
  BY StagesSchema
<1>2. /\ Plugin!NoString \notin l.granted
      /\ \A name \in DOMAIN payload : payload[name].kind = "int" => payload[name].n % 2 = 0
  BY DEF Plugin!IsLease
<1>3. /\ stg.required # {} /\ "inputs" \notin Plugin!Domains(stg)
      /\ \A name \in Plugin!Domains(stg) : stg.settings[name].kind = "choices" =>
           \A w \in stg.settings[name].values : w.kind \notin {"bool", "object"}
  BY DEF Plugin!IsStage
<1>4. Plugin!StageTakes(stg, l) <=>
        /\ l.version = 1
        /\ DOMAIN payload \subseteq Plugin!Domains(stg) \cup {"inputs"}
        /\ bound.kind = "object"
        /\ DOMAIN bound.of \subseteq stg.inputs /\ stg.required \subseteq DOMAIN bound.of
        /\ \A name \in DOMAIN bound.of : bound.of[name] \in l.granted
        /\ l.granted \subseteq {bound.of[name] : name \in DOMAIN bound.of}
        /\ \A name \in Plugin!Domains(stg) \cap DOMAIN payload :
             Plugin!CheckedSetting(stg.settings[name], payload[name])
        /\ stg.requiredSettings \subseteq DOMAIN payload
        /\ stg.oneOf # {} => Plugin!Cardinality(stg.oneOf \cap DOMAIN payload) = 1
  BY DEF Plugin!StageTakes
<1>5. Plugin!Conforms(schema, payload) <=>
        /\ schema.required \subseteq DOMAIN payload /\ DOMAIN payload \subseteq DOMAIN schema.properties
        /\ \A name \in DOMAIN payload : Plugin!Fits(schema.properties[name], payload[name])
        /\ schema.oneOf # {} => Plugin!Cardinality(schema.oneOf \cap DOMAIN payload) = 1
  BY DEF Plugin!Conforms
<1>6. Plugin!HasIntegralFloat(l) <=> \E name \in DOMAIN payload : payload[name].kind = "float" /\ payload[name].n % 2 = 0
  BY DEF Plugin!HasIntegralFloat
<1>7. DOMAIN Plugin!Keys(<<>>).of = {}
  BY DEF Plugin!Keys
<1>8. "inputs" \in DOMAIN payload => bound = payload["inputs"]
  OBVIOUS
<1>9. "inputs" \notin DOMAIN payload => DOMAIN bound.of = {}
  BY <1>7
<1> HIDE DEF payload, schema, bound
<1>10. ASSUME Plugin!StageTakes(stg, l) PROVE Plugin!Conforms(schema, payload)
  <2>1. "inputs" \in DOMAIN payload
    BY <1>3, <1>4, <1>9, <1>10
  <2>2. Plugin!Fits(schema.properties["inputs"], payload["inputs"])
    <3>1. /\ bound.kind = "object" /\ stg.required \subseteq DOMAIN bound.of /\ DOMAIN bound.of \subseteq stg.inputs
          /\ \A s \in DOMAIN bound.of : bound.of[s] # Plugin!NoString
      BY <1>2, <1>4, <1>10
    <3> QED
      BY <1>1, <1>8, <2>1, <3>1
  <2>3. ASSUME NEW name \in Plugin!Domains(stg) \cap DOMAIN payload
        PROVE  Plugin!Fits(schema.properties[name], payload[name])
    <3>1. Plugin!CheckedSetting(stg.settings[name], payload[name])
      BY <1>4, <1>10
    <3>2. payload[name].kind = "int" => payload[name].n % 2 = 0
      BY <1>2
    <3>3. Plugin!Fits(Plugin!SettingSchema(stg.settings[name]), payload[name])
      BY <1>3, <3>1, <3>2, SettingsFit
    <3> QED
      BY <1>1, <3>3
  <2> QED
    BY <1>1, <1>4, <1>5, <1>10, <2>1, <2>2, <2>3
<1>11. ASSUME l.version = 1, Plugin!Conforms(schema, payload), Plugin!KeysIn(payload) = l.granted,
              ~Plugin!HasIntegralFloat(l)
       PROVE  Plugin!StageTakes(stg, l)
  <2>1. "inputs" \in DOMAIN payload /\ Plugin!Fits(schema.properties["inputs"], payload["inputs"])
    BY <1>1, <1>5, <1>11
  <2>2. /\ bound.kind = "object" /\ stg.required \subseteq DOMAIN bound.of /\ DOMAIN bound.of \subseteq stg.inputs
    BY <1>1, <1>8, <2>1
  <2>3. ASSUME NEW name \in Plugin!Domains(stg) \cap DOMAIN payload
        PROVE  /\ Plugin!CheckedSetting(stg.settings[name], payload[name])
               /\ payload[name].kind # "object"
    <3>1. Plugin!Fits(Plugin!SettingSchema(stg.settings[name]), payload[name])
      BY <1>1, <1>5, <1>11
    <3>2. ~(payload[name].kind = "float" /\ payload[name].n % 2 = 0)
      BY <1>6, <1>11
    <3> QED
      BY <1>3, <3>1, <3>2, SettingsFit
  <2>4. \A name \in DOMAIN payload : payload[name].kind = "object" => name = "inputs"
    BY <1>1, <1>5, <1>11, <2>3
  <2>5. Plugin!KeysIn(payload) = {bound.of[s] : s \in DOMAIN bound.of}
    <3>1. {n \in DOMAIN payload : payload[n].kind = "object"} = {"inputs"}
      BY <1>8, <2>1, <2>2, <2>4
    <3> QED
      BY <1>8, <2>1, <3>1 DEF Plugin!KeysIn
  <2> QED
    BY <1>1, <1>4, <1>5, <1>11, <2>1, <2>2, <2>3, <2>5
<1> QED
  BY <1>10, <1>11 DEF payload, schema

\* So does the reference plugin.
LEMMA EchoTakesConforming ==
  ASSUME NEW l, Plugin!IsLease(l)
  PROVE  /\ Plugin!EchoTakes(l) => Plugin!Conforms(Plugin!EchoSchema, l.payload)
         /\ l.version = 1 /\ Plugin!Conforms(Plugin!EchoSchema, l.payload) /\ ~Plugin!HasIntegralFloat(l)
            => Plugin!EchoTakes(l)
<1> DEFINE payload == l.payload  schema == Plugin!EchoSchema
<1>1. /\ DOMAIN schema.properties = {"seed", "label"} /\ schema.required = {} /\ schema.oneOf = {}
      /\ schema.properties["seed"].type = "integer" /\ schema.properties["seed"].least = {0}
      /\ schema.properties["seed"].most = {}
      /\ schema.properties["label"].type = "string" /\ schema.properties["label"].least = {}
      /\ schema.properties["label"].most = {MaxLabel}
  BY DEF Plugin!EchoSchema, Plugin!Property
<1> HIDE DEF schema
<1>2. \A v : Plugin!Fits(schema.properties["seed"], v) <=> v.kind \in {"int", "float"} /\ v.n % 2 = 0 /\ 0 <= v.n
  BY <1>1 DEF Plugin!Fits, Plugin!Numeric, Plugin!Within
<1>3. \A v : Plugin!Fits(schema.properties["label"], v) <=> v.kind = "string" /\ v.n <= MaxLabel
  BY <1>1 DEF Plugin!Fits, Plugin!Within
<1>4. Plugin!Conforms(schema, payload) <=>
        /\ DOMAIN payload \subseteq {"seed", "label"}
        /\ \A name \in DOMAIN payload : Plugin!Fits(schema.properties[name], payload[name])
  BY <1>1 DEF Plugin!Conforms
<1>5. \A name \in DOMAIN payload : payload[name].kind = "int" => payload[name].n % 2 = 0
  BY DEF Plugin!IsLease
<1>6. Plugin!HasIntegralFloat(l) <=> \E name \in DOMAIN payload : payload[name].kind = "float" /\ payload[name].n % 2 = 0
  BY DEF Plugin!HasIntegralFloat
<1>7. Plugin!EchoTakes(l) <=>
        /\ l.version = 1 /\ DOMAIN payload \subseteq {"seed", "label"}
        /\ "seed" \in DOMAIN payload => payload["seed"].kind = "int" /\ payload["seed"].n >= 0
        /\ "label" \in DOMAIN payload => payload["label"].kind = "string" /\ payload["label"].n <= MaxLabel
  BY DEF Plugin!EchoTakes
<1> HIDE DEF payload
<1>8. Plugin!EchoTakes(l) => Plugin!Conforms(schema, payload)
  BY <1>2, <1>3, <1>4, <1>5, <1>7
<1>9. l.version = 1 /\ Plugin!Conforms(schema, payload) /\ ~Plugin!HasIntegralFloat(l) => Plugin!EchoTakes(l)
  BY <1>2, <1>3, <1>4, <1>6, <1>7
<1> QED
  BY <1>8, <1>9 DEF payload, schema

-----------------------------------------------------------------------------
(* Graphs: what filling and binding make of a template's.                  *)

\* What the slots up to the n-th took out of the graph: those the job does not bind.
Gone(t, l, n) ==
  UNION {{Plugin!Slots(t)[i].node} \cup Plugin!Slots(t)[i].dependents :
           i \in {j \in 1..n : Plugin!KeyFor(t, l, Plugin!Slots(t)[j]) = {}}}

\* After n slots: the template's nodes but for what is gone, no link that the template does not
\* have or that leads to a node which is gone, and the file of each slot the job binds.
WholeAfter(t, l, g, n) ==
  /\ DOMAIN g = DOMAIN t.graph \ Gone(t, l, n)
  /\ \A node \in DOMAIN g :
       /\ g[node] = [class |-> g[node].class, inputs |-> g[node].inputs]
       /\ \A name \in DOMAIN g[node].inputs : g[node].inputs[name].kind = "link" =>
            /\ name \in DOMAIN t.graph[node].inputs /\ g[node].inputs[name] = t.graph[node].inputs[name]
            /\ g[node].inputs[name].node \notin Gone(t, l, n)
  /\ \A i \in 1..n : LET s == Plugin!Slots(t)[i] IN Plugin!KeyFor(t, l, s) # {} =>
       /\ s.node \in DOMAIN g /\ "file" \in DOMAIN g[s.node].inputs
       /\ g[s.node].inputs["file"] = Plugin!Upload(s)

\* What a job sets is a value, and so is every default: no link comes in with the inputs.
LEMMA InputsAreValues ==
  ASSUME NEW t, Plugin!IsDocument(t), Plugin!Usable(t), NEW l, Plugin!Takes(t, l),
         NEW name \in DOMAIN Plugin!Inputs(t, l)
  PROVE  Plugin!Inputs(t, l)[name].kind # "link"
<1>1. PICK e \in Plugin!ToSet(t.entries) : e.name = name /\ (name \in DOMAIN l.payload \/ e.default # {})
  BY DEF Plugin!Inputs
<1>2. CASE name \in DOMAIN l.payload
  <2>1. Plugin!Checked(e, l.payload[name]) /\ Plugin!Inputs(t, l)[name] = l.payload[name]
    BY <1>1, <1>2 DEF Plugin!Takes, Plugin!Inputs
  <2> QED
    BY <2>1, EntriesAreNamed, EntriesFit
<1>3. CASE name \notin DOMAIN l.payload
  <2>1. (CHOOSE f \in Plugin!ToSet(t.entries) : f.name = name) = e
    BY <1>1, EntriesAreNamed
  <2>2. Plugin!Inputs(t, l)[name] = CHOOSE v \in e.default : TRUE
    BY <1>3, <2>1 DEF Plugin!Inputs
  <2>3. (CHOOSE v \in e.default : TRUE) \in e.default
    BY <1>1, <1>3
  <2> QED
    BY <2>2, <2>3 DEF Plugin!IsDocument
<1> QED
  BY <1>2, <1>3

\* A filled graph has the template's nodes and links.
LEMMA FilledIsWhole ==
  ASSUME NEW t, Plugin!IsDocument(t), Plugin!Usable(t), NEW l, Plugin!Takes(t, l)
  PROVE  WholeAfter(t, l, Plugin!Fill(t.graph, t.entries, Plugin!Inputs(t, l)), 0)
<1> DEFINE ins == Plugin!Inputs(t, l)  entries == t.entries
           Given(node, name) == {i \in DOMAIN entries : /\ entries[i].node = node /\ entries[i].input = name
                                                       /\ entries[i].name \in DOMAIN ins}
           Winner(node, name) ==
             entries[CHOOSE i \in Given(node, name) : \A j \in Given(node, name) : j <= i]
           More(node) == {e.input : e \in {x \in Plugin!ToSet(entries) : Given(node, x.input) # {}}}
           Set(node, old) == [name \in DOMAIN old \cup More(node) |->
                                IF Given(node, name) = {} THEN old[name] ELSE ins[Winner(node, name).name]]
           g == Plugin!Fill(t.graph, entries, ins)
<1>1. g = [node \in DOMAIN t.graph |-> [t.graph[node] EXCEPT !.inputs = Set(node, @)]]
  BY DEF Plugin!Fill
<1>2. \A node \in DOMAIN t.graph :
        t.graph[node] = [class |-> t.graph[node].class, inputs |-> t.graph[node].inputs]
  BY DEF Plugin!IsDocument
<1>3. ASSUME NEW node, NEW name, Given(node, name) # {}
      PROVE  ins[Winner(node, name).name].kind # "link"
  <2>1. Given(node, name) \in SUBSET (1..Len(entries)) /\ Len(entries) \in Nat
    <3>1. entries \in Seq(Plugin!ToSet(entries))
      BY DEF Plugin!IsDocument
    <3> QED
      BY <3>1
  <2> DEFINE i == CHOOSE i \in Given(node, name) : \A j \in Given(node, name) : j <= i
  <2> HIDE DEF Given
  <2>2. i \in Given(node, name)
    BY <1>3, <2>1, LastOne
  <2> HIDE DEF i
  <2>3. entries[i].name \in DOMAIN ins
    BY <2>2 DEF Given
  <2> QED
    BY <2>3, InputsAreValues DEF i
<1>4. ASSUME NEW node, NEW old, NEW name \in DOMAIN Set(node, old), Set(node, old)[name].kind = "link"
      PROVE  name \in DOMAIN old /\ Set(node, old)[name] = old[name]
  <2>1. Given(node, name) = {}
    <3> SUFFICES ASSUME Given(node, name) # {} PROVE FALSE
      OBVIOUS
    <3>1. Set(node, old)[name] = ins[Winner(node, name).name]
      OBVIOUS
    <3> HIDE DEF Given, Winner, Set, ins
    <3> QED
      BY <1>3, <1>4, <3>1
  <2>2. name \notin More(node)
    BY <2>1
  <2> HIDE DEF Given, More
  <2> QED
    BY <2>1, <2>2
<1> HIDE DEF Set, ins, g
<1>5. /\ DOMAIN g = DOMAIN t.graph
      /\ \A node \in DOMAIN g : /\ g[node] = [class |-> g[node].class, inputs |-> g[node].inputs]
                               /\ g[node].inputs = Set(node, t.graph[node].inputs)
  <2>1. ASSUME NEW node \in DOMAIN t.graph
        PROVE  g[node] = [class |-> t.graph[node].class, inputs |-> Set(node, t.graph[node].inputs)]
    <3>1. g[node] = [t.graph[node] EXCEPT !.inputs = Set(node, @)]
      BY <1>1
    <3>2. t.graph[node] = [class |-> t.graph[node].class, inputs |-> t.graph[node].inputs]
      BY <1>2
    <3> QED
      BY <3>1, <3>2
  <2>2. DOMAIN g = DOMAIN t.graph
    BY <1>1
  <2>3. ASSUME NEW node \in DOMAIN t.graph
        PROVE  /\ g[node] = [class |-> g[node].class, inputs |-> g[node].inputs]
               /\ g[node].inputs = Set(node, t.graph[node].inputs)
    <3> DEFINE n == g[node]  c == t.graph[node].class  i == Set(node, t.graph[node].inputs)
    <3>1. n = [class |-> c, inputs |-> i]
      BY <2>1
    <3> HIDE DEF n, c, i
    <3>2. n = [class |-> n.class, inputs |-> n.inputs] /\ n.inputs = i
      BY <3>1
    <3> QED
      BY <3>2 DEF n, i
  <2> QED
    BY <2>2, <2>3
<1>6. Gone(t, l, 0) = {}
  BY DEF Gone
<1> QED
  BY <1>4, <1>5, <1>6 DEF WholeAfter, g, ins

LEMMA SlotsAreListed ==
  ASSUME NEW t, Plugin!IsDocument(t)
  PROVE  /\ Len(Plugin!Slots(t)) \in Nat /\ DOMAIN Plugin!Slots(t) = 1..Len(Plugin!Slots(t))
         /\ Plugin!ToSet(Plugin!Slots(t)) = {Plugin!Slots(t)[i] : i \in 1..Len(Plugin!Slots(t))}
<1>1. t.images \in Seq(Plugin!ToSet(t.images)) /\ t.audios \in Seq(Plugin!ToSet(t.audios))
  BY DEF Plugin!IsDocument
<1>2. Plugin!Slots(t) \in Seq(Plugin!ToSet(t.images) \cup Plugin!ToSet(t.audios))
  BY <1>1, JoinedLists DEF Plugin!Slots
<1>3. Len(Plugin!Slots(t)) \in Nat /\ DOMAIN Plugin!Slots(t) = 1..Len(Plugin!Slots(t))
  BY <1>2
<1> QED
  BY <1>3 DEF Plugin!ToSet

\* A slot that the job does not bind takes its node and its dependents.
LEMMA GoneGrows ==
  ASSUME NEW t, NEW l, NEW n \in Nat
  PROVE  LET s == Plugin!Slots(t)[n + 1] IN
         Gone(t, l, n + 1) =
           Gone(t, l, n) \cup (IF Plugin!KeyFor(t, l, s) = {} THEN {s.node} \cup s.dependents ELSE {})
<1> DEFINE Free(i) == Plugin!KeyFor(t, l, Plugin!Slots(t)[i]) = {}
           Of(i) == {Plugin!Slots(t)[i].node} \cup Plugin!Slots(t)[i].dependents
<1>1. \A m : Gone(t, l, m) = UNION {Of(i) : i \in {j \in 1..m : Free(j)}}
  BY DEF Gone
<1> HIDE DEF Free, Of
<1>2. Gone(t, l, n + 1) = Gone(t, l, n) \cup (IF Free(n + 1) THEN Of(n + 1) ELSE {})
  <2>1. 1..(n + 1) = (1..n) \cup {n + 1}
    OBVIOUS
  <2>2. {j \in 1..(n + 1) : Free(j)} = {j \in 1..n : Free(j)} \cup (IF Free(n + 1) THEN {n + 1} ELSE {})
    BY <2>1
  <2> QED
    BY <1>1, <2>2
<1> QED
  BY <1>2 DEF Free, Of

\* No other slot takes the node of a slot that is bound, nor the output.
LEMMA WhatIsBoundStays ==
  ASSUME NEW t, Plugin!IsDocument(t), Plugin!Usable(t), Plugin!SlotsAreApart(t), NEW l,
         NEW n \in 0..Len(Plugin!Slots(t))
  PROVE  /\ \A i \in DOMAIN Plugin!Slots(t) : Plugin!KeyFor(t, l, Plugin!Slots(t)[i]) # {} =>
              Plugin!Slots(t)[i].node \in DOMAIN t.graph \ Gone(t, l, n)
         /\ Plugin!OutputStays(t) => t.output \in DOMAIN t.graph \ Gone(t, l, n)
<1> DEFINE slots == Plugin!Slots(t)
<1>1. /\ Len(slots) \in Nat /\ DOMAIN slots = 1..Len(slots)
      /\ Plugin!ToSet(slots) = {slots[i] : i \in 1..Len(slots)}
  BY SlotsAreListed
<1>2. /\ \A s \in Plugin!ToSet(slots) : s.dependents \subseteq DOMAIN t.graph \ {x.node : x \in Plugin!ToSet(slots)}
      /\ \A e \in Plugin!ToSet(t.entries \o slots) : e.node \in DOMAIN t.graph
      /\ t.output \in DOMAIN t.graph
  BY Zenon DEF Plugin!Usable
<1>3. \A i \in DOMAIN slots : slots[i].node \in DOMAIN t.graph
  <2>1. /\ t.entries \in Seq(Plugin!ToSet(t.entries))
        /\ slots \in Seq(Plugin!ToSet(t.images) \cup Plugin!ToSet(t.audios))
    <3>1. /\ t.images \in Seq(Plugin!ToSet(t.images)) /\ t.audios \in Seq(Plugin!ToSet(t.audios))
          /\ t.entries \in Seq(Plugin!ToSet(t.entries))
      BY DEF Plugin!IsDocument
    <3> QED
      BY <3>1, JoinedLists DEF Plugin!Slots
  <2>2. \A i \in DOMAIN slots : slots[i] \in Plugin!ToSet(t.entries \o slots)
    <3>1. \A i \in DOMAIN slots : i + Len(t.entries) \in DOMAIN (t.entries \o slots)
                                  /\ (t.entries \o slots)[i + Len(t.entries)] = slots[i]
      <4> DEFINE entries == t.entries
      <4>1. entries \in Seq(Plugin!ToSet(t.entries))
            /\ slots \in Seq(Plugin!ToSet(t.images) \cup Plugin!ToSet(t.audios))
        BY <2>1
      <4> HIDE DEF slots, entries
      <4>2. \A i \in DOMAIN slots : i + Len(entries) \in DOMAIN (entries \o slots)
                                    /\ (entries \o slots)[i + Len(entries)] = slots[i]
        BY ONLY <4>1, SecondListFollows
      <4> QED
        BY <4>2, Zenon DEF entries
    <3> QED
      BY <3>1 DEF Plugin!ToSet
  <2> QED
    BY <1>2, <2>2
<1>4. \A i, j \in DOMAIN slots : i # j => slots[i].node # slots[j].node
  BY DEF Plugin!SlotsAreApart
<1>5. Plugin!OutputStays(t) => \A j \in DOMAIN slots : t.output # slots[j].node /\ t.output \notin slots[j].dependents
  BY <1>1 DEF Plugin!OutputStays
<1> HIDE DEF slots
<1>6. ASSUME NEW node, node \in Gone(t, l, n)
      PROVE  \E j \in DOMAIN slots : /\ Plugin!KeyFor(t, l, slots[j]) = {}
                                     /\ node = slots[j].node \/ node \in slots[j].dependents
  <2>1. PICK j \in 1..n : Plugin!KeyFor(t, l, slots[j]) = {} /\ node \in {slots[j].node} \cup slots[j].dependents
    BY <1>6 DEF Gone, slots
  <2>2. j \in DOMAIN slots
    BY <1>1 DEF slots
  <2> QED
    BY <2>1, <2>2
<1>7. ASSUME NEW i \in DOMAIN slots, Plugin!KeyFor(t, l, slots[i]) # {}
      PROVE  slots[i].node \notin Gone(t, l, n)
  <2> SUFFICES ASSUME slots[i].node \in Gone(t, l, n) PROVE FALSE
    OBVIOUS
  <2>1. PICK j \in DOMAIN slots : /\ Plugin!KeyFor(t, l, slots[j]) = {}
                                  /\ slots[i].node = slots[j].node \/ slots[i].node \in slots[j].dependents
    BY <1>6
  <2>2. slots[i].node \notin slots[j].dependents
    BY <1>1, <1>2
  <2> QED
    BY <1>4, <1>7, <2>1, <2>2
<1>8. Plugin!OutputStays(t) => t.output \notin Gone(t, l, n)
  BY <1>5, <1>6
<1> QED
  BY <1>2, <1>3, <1>7, <1>8 DEF slots

\* Dropping a slot takes its nodes and every link into them, and no other slot's file.
LEMMA DroppingKeepsWhole ==
  ASSUME NEW t, Plugin!IsDocument(t), Plugin!Usable(t), Plugin!SlotsAreApart(t), NEW l, NEW g,
         NEW n \in Nat, n < Len(Plugin!Slots(t)), WholeAfter(t, l, g, n),
         Plugin!KeyFor(t, l, Plugin!Slots(t)[n + 1]) = {}
  PROVE  WholeAfter(t, l, Plugin!DropSlot(g, Plugin!Slots(t)[n + 1]), n + 1)
<1> DEFINE slots == Plugin!Slots(t)  removed == {slots[n + 1].node} \cup slots[n + 1].dependents
           Left(node) == {name \in DOMAIN g[node].inputs : \A r \in removed : g[node].inputs[name] # Plugin!Link(r)}
           Kept(node) == [name \in Left(node) |-> g[node].inputs[name]]
           h == Plugin!DropSlot(g, slots[n + 1])
<1>1. h = [node \in DOMAIN g \ removed |-> [g[node] EXCEPT !.inputs = Kept(node)]]
  BY DEF Plugin!DropSlot
<1>2. Gone(t, l, n + 1) = Gone(t, l, n) \cup removed
  BY GoneGrows
<1>3. /\ DOMAIN g = DOMAIN t.graph \ Gone(t, l, n)
      /\ \A node \in DOMAIN g : g[node] = [class |-> g[node].class, inputs |-> g[node].inputs]
      /\ \A node \in DOMAIN g : \A name \in DOMAIN g[node].inputs : g[node].inputs[name].kind = "link" =>
           /\ name \in DOMAIN t.graph[node].inputs /\ g[node].inputs[name] = t.graph[node].inputs[name]
           /\ g[node].inputs[name].node \notin Gone(t, l, n)
      /\ \A i \in 1..n : Plugin!KeyFor(t, l, slots[i]) # {} =>
           /\ slots[i].node \in DOMAIN g /\ "file" \in DOMAIN g[slots[i].node].inputs
           /\ g[slots[i].node].inputs["file"] = Plugin!Upload(slots[i])
  BY DEF WholeAfter
<1> HIDE DEF h, Left
<1>4. DOMAIN h = DOMAIN t.graph \ Gone(t, l, n + 1) /\ DOMAIN h \subseteq DOMAIN g
  BY <1>1, <1>2, <1>3
<1>5. ASSUME NEW node \in DOMAIN h
      PROVE  h[node] = [class |-> h[node].class, inputs |-> h[node].inputs] /\ h[node].inputs = Kept(node)
  <2> DEFINE m == h[node]  c == g[node].class  k == Kept(node)
  <2>1. m = [g[node] EXCEPT !.inputs = k]
    BY <1>1
  <2>2. g[node] = [class |-> c, inputs |-> g[node].inputs]
    BY <1>3, <1>4
  <2>3. m = [class |-> c, inputs |-> k]
    <3> HIDE DEF m, k
    <3> QED
      BY <2>1, <2>2
  <2> HIDE DEF m, c, k
  <2>4. m = [class |-> m.class, inputs |-> m.inputs] /\ m.inputs = k
    BY <2>3
  <2> QED
    BY <2>4 DEF m, k
<1>6. ASSUME NEW node \in DOMAIN h, NEW name \in DOMAIN h[node].inputs, h[node].inputs[name].kind = "link"
      PROVE  /\ name \in DOMAIN t.graph[node].inputs /\ h[node].inputs[name] = t.graph[node].inputs[name]
             /\ h[node].inputs[name].node \notin Gone(t, l, n + 1)
  <2> DEFINE v == g[node].inputs[name]
  <2>1. name \in Left(node) /\ h[node].inputs[name] = v
    BY <1>5
  <2>2. name \in DOMAIN g[node].inputs /\ \A r \in removed : v # Plugin!Link(r)
    BY <2>1 DEF Left
  <2>3. /\ v.kind = "link" /\ node \in DOMAIN g /\ name \in DOMAIN t.graph[node].inputs
        /\ v = t.graph[node].inputs[name] /\ v.node \notin Gone(t, l, n)
    BY <1>3, <1>4, <1>6, <2>1, <2>2
  <2>4. v = Plugin!Link(v.node)
    <3>1. \A x \in DOMAIN t.graph : \A y \in DOMAIN t.graph[x].inputs :
            t.graph[x].inputs[y].kind = "link" =>
              t.graph[x].inputs[y] = Plugin!Link(t.graph[x].inputs[y].node)
      BY Zenon DEF Plugin!IsDocument
    <3>2. node \in DOMAIN t.graph
      BY <1>3, <2>3
    <3>3. t.graph[node].inputs[name].kind = "link" /\ name \in DOMAIN t.graph[node].inputs
      BY <2>3
    <3>4. t.graph[node].inputs[name] = Plugin!Link(t.graph[node].inputs[name].node)
      BY <3>1, <3>2, <3>3
    <3> HIDE DEF v
    <3> QED
      BY <2>3, <3>4
  <2> HIDE DEF v
  <2>5. v.node \notin removed
    BY <2>2, <2>4
  <2> QED
    BY <1>2, <2>1, <2>3, <2>5
<1>7. ASSUME NEW i \in 1..(n + 1), Plugin!KeyFor(t, l, slots[i]) # {}
      PROVE  /\ slots[i].node \in DOMAIN h /\ "file" \in DOMAIN h[slots[i].node].inputs
             /\ h[slots[i].node].inputs["file"] = Plugin!Upload(slots[i])
  <2>1. i \in 1..n /\ i \in DOMAIN slots /\ n + 1 \in 0..Len(slots)
    <3>1. i # n + 1
      BY <1>7
    <3>2. Len(slots) \in Nat /\ DOMAIN slots = 1..Len(slots)
      BY SlotsAreListed
    <3> HIDE DEF slots
    <3> QED
      BY <3>1, <3>2 DEF slots
  <2>2. slots[i].node \in DOMAIN h
    BY <1>4, <1>7, <2>1, WhatIsBoundStays
  <2>3. /\ "file" \in DOMAIN g[slots[i].node].inputs
        /\ g[slots[i].node].inputs["file"] = Plugin!Upload(slots[i])
    BY <1>3, <1>7, <2>1
  <2>4. \A r : Plugin!Upload(slots[i]) # Plugin!Link(r)
    <3>1. Plugin!Upload(slots[i]).kind = "upload"
      BY DEF Plugin!Upload
    <3>2. \A r : Plugin!Link(r).kind = "link"
      BY DEF Plugin!Link
    <3> QED
      BY <3>1, <3>2, Zenon
  <2>5. "file" \in Left(slots[i].node)
    BY <2>3, <2>4 DEF Left
  <2>6. /\ "file" \in DOMAIN h[slots[i].node].inputs
        /\ h[slots[i].node].inputs["file"] = g[slots[i].node].inputs["file"]
    <3> DEFINE x == slots[i].node
    <3>1. "file" \in DOMAIN Kept(x) /\ Kept(x)["file"] = g[x].inputs["file"]
      BY <2>5
    <3>2. x \in DOMAIN h
      BY <2>2
    <3> HIDE DEF x, Kept, slots
    <3>3. h[x].inputs = Kept(x)
      BY <1>5, <3>2
    <3>4. "file" \in DOMAIN h[x].inputs /\ h[x].inputs["file"] = g[x].inputs["file"]
      BY <3>1, <3>3
    <3> QED
      BY <3>4 DEF x
  <2> QED
    BY <2>2, <2>3, <2>6
<1> HIDE DEF slots
<1>8. WholeAfter(t, l, h, n + 1)
  BY <1>4, <1>5, <1>6, <1>7 DEF WholeAfter, slots
<1> QED
  BY <1>8 DEF h, slots

\* A bound slot's node is there, and is given the file.
LEMMA BindingKeepsWhole ==
  ASSUME NEW t, Plugin!IsDocument(t), Plugin!Usable(t), Plugin!SlotsAreApart(t), NEW l, NEW g,
         NEW n \in Nat, n < Len(Plugin!Slots(t)), WholeAfter(t, l, g, n),
         Plugin!KeyFor(t, l, Plugin!Slots(t)[n + 1]) # {}
  PROVE  LET s == Plugin!Slots(t)[n + 1] IN
         /\ s.node \in DOMAIN g
         /\ WholeAfter(t, l, Plugin!SetInput(g, s.node, "file", Plugin!Upload(s)), n + 1)
<1> DEFINE slots == Plugin!Slots(t)  s == slots[n + 1]
           ins == g[s.node].inputs
           filled == [x \in DOMAIN ins \cup {"file"} |-> IF x = "file" THEN Plugin!Upload(s) ELSE ins[x]]
           h == Plugin!SetInput(g, s.node, "file", Plugin!Upload(s))
<1>1. /\ DOMAIN g = DOMAIN t.graph \ Gone(t, l, n)
      /\ \A node \in DOMAIN g : g[node] = [class |-> g[node].class, inputs |-> g[node].inputs]
      /\ \A node \in DOMAIN g : \A name \in DOMAIN g[node].inputs : g[node].inputs[name].kind = "link" =>
           /\ name \in DOMAIN t.graph[node].inputs /\ g[node].inputs[name] = t.graph[node].inputs[name]
           /\ g[node].inputs[name].node \notin Gone(t, l, n)
      /\ \A i \in 1..n : Plugin!KeyFor(t, l, slots[i]) # {} =>
           /\ slots[i].node \in DOMAIN g /\ "file" \in DOMAIN g[slots[i].node].inputs
           /\ g[slots[i].node].inputs["file"] = Plugin!Upload(slots[i])
  BY DEF WholeAfter
<1>2. Gone(t, l, n + 1) = Gone(t, l, n)
  <2> DEFINE now == Gone(t, l, n)  next == Gone(t, l, n + 1)  free == Plugin!KeyFor(t, l, s) = {}
  <2>1. next = now \cup (IF free THEN {s.node} \cup s.dependents ELSE {})
    BY GoneGrows
  <2>2. ~free
    OBVIOUS
  <2> HIDE DEF now, next, free
  <2>3. next = now
    BY <2>1, <2>2
  <2> QED
    BY <2>3 DEF now, next
<1>3. Len(slots) \in Nat /\ DOMAIN slots = 1..Len(slots) /\ n + 1 \in DOMAIN slots /\ n \in 0..Len(slots)
  <2>1. Len(slots) \in Nat /\ DOMAIN slots = 1..Len(slots)
    BY SlotsAreListed
  <2>2. n < Len(slots)
    OBVIOUS
  <2> HIDE DEF slots
  <2> QED
    BY <2>1, <2>2
<1>4. s.node \in DOMAIN g
  BY <1>1, <1>3, WhatIsBoundStays
<1>5. \A i, j \in DOMAIN slots : i # j => slots[i].node # slots[j].node
  BY DEF Plugin!SlotsAreApart
<1>6. h = [g EXCEPT ![s.node].inputs = filled]
  BY DEF Plugin!SetInput
<1> HIDE DEF slots, s, h, filled
<1>7. /\ DOMAIN h = DOMAIN g
      /\ \A node \in DOMAIN g : node # s.node => h[node] = g[node]
      /\ h[s.node] = [class |-> g[s.node].class, inputs |-> filled]
  <2>1. DOMAIN h = DOMAIN g /\ \A node \in DOMAIN g : node # s.node => h[node] = g[node]
    BY <1>6
  <2>2. h[s.node] = [g[s.node] EXCEPT !.inputs = filled]
    BY <1>4, <1>6
  <2>3. g[s.node] = [class |-> g[s.node].class, inputs |-> g[s.node].inputs]
    BY <1>1, <1>4
  <2>4. h[s.node] = [class |-> g[s.node].class, inputs |-> filled]
    BY <2>2, <2>3
  <2> QED
    BY <2>1, <2>4
<1>8. /\ h[s.node] = [class |-> h[s.node].class, inputs |-> h[s.node].inputs] /\ h[s.node].inputs = filled
  <2> DEFINE m == h[s.node]  c == g[s.node].class
  <2>1. m = [class |-> c, inputs |-> filled]
    BY <1>7
  <2> HIDE DEF m, c
  <2>2. m = [class |-> m.class, inputs |-> m.inputs] /\ m.inputs = filled
    BY <2>1
  <2> QED
    BY <2>2 DEF m
<1>9. /\ "file" \in DOMAIN filled /\ filled["file"] = Plugin!Upload(s) /\ Plugin!Upload(s).kind = "upload"
      /\ \A x \in DOMAIN filled : x = "file" \/ (x \in DOMAIN ins /\ filled[x] = ins[x])
  BY DEF filled, Plugin!Upload
<1>10. ASSUME NEW node \in DOMAIN h, NEW name \in DOMAIN h[node].inputs, h[node].inputs[name].kind = "link"
       PROVE  /\ name \in DOMAIN t.graph[node].inputs /\ h[node].inputs[name] = t.graph[node].inputs[name]
              /\ h[node].inputs[name].node \notin Gone(t, l, n)
  <2>1. CASE node # s.node
    <3>1. h[node] = g[node] /\ node \in DOMAIN g
      BY <1>7, <2>1
    <3> QED
      BY <1>1, <1>10, <3>1
  <2>2. CASE node = s.node
    <3>1. name \in DOMAIN filled /\ filled[name].kind = "link" /\ h[node].inputs[name] = filled[name]
      BY <1>8, <1>10, <2>2
    <3>2. name \in DOMAIN ins /\ filled[name] = ins[name]
      BY <1>9, <3>1
    <3> QED
      BY <1>1, <1>4, <2>2, <3>1, <3>2
  <2> QED
    BY <2>1, <2>2
<1>11. ASSUME NEW i \in 1..(n + 1), Plugin!KeyFor(t, l, slots[i]) # {}
       PROVE  /\ slots[i].node \in DOMAIN h /\ "file" \in DOMAIN h[slots[i].node].inputs
              /\ h[slots[i].node].inputs["file"] = Plugin!Upload(slots[i])
  <2>1. CASE i = n + 1
    <3>1. slots[i] = s
      BY <2>1 DEF s
    <3> QED
      BY <1>4, <1>7, <1>8, <1>9, <3>1
  <2>2. CASE i # n + 1
    <3>1. i \in 1..n /\ i \in DOMAIN slots
      BY <1>3, <2>2
    <3>2. slots[i].node # s.node
      BY <1>3, <1>5, <2>2, <3>1 DEF s
    <3> QED
      BY <1>1, <1>7, <1>11, <3>1, <3>2
  <2> QED
    BY <2>1, <2>2
<1>12. \A node \in DOMAIN h : h[node] = [class |-> h[node].class, inputs |-> h[node].inputs]
  <2>1. ASSUME NEW node \in DOMAIN h, node # s.node
        PROVE  h[node] = [class |-> h[node].class, inputs |-> h[node].inputs]
    <3>1. h[node] = g[node] /\ node \in DOMAIN g
      BY <1>7, <2>1
    <3> QED
      BY <1>1, <3>1
  <2> QED
    BY <1>8, <2>1
<1>13. WholeAfter(t, l, h, n + 1)
  <2>1. DOMAIN h = DOMAIN t.graph \ Gone(t, l, n + 1)
    BY <1>1, <1>2, <1>7
  <2>2. \A node \in DOMAIN h : \A name \in DOMAIN h[node].inputs : h[node].inputs[name].kind = "link" =>
          /\ name \in DOMAIN t.graph[node].inputs /\ h[node].inputs[name] = t.graph[node].inputs[name]
          /\ h[node].inputs[name].node \notin Gone(t, l, n + 1)
    BY <1>2, <1>10
  <2>3. \A i \in 1..(n + 1) : Plugin!KeyFor(t, l, slots[i]) # {} =>
          /\ slots[i].node \in DOMAIN h /\ "file" \in DOMAIN h[slots[i].node].inputs
          /\ h[slots[i].node].inputs["file"] = Plugin!Upload(slots[i])
    BY <1>11
  <2> QED
    BY <1>12, <2>1, <2>2, <2>3, Zenon DEF WholeAfter, slots
<1> QED
  BY <1>4, <1>13 DEF h, s, slots

\* The output node is never a slot's: it is there at the end, and its prefix is no slot's file.
LEMMA PrefixKeepsWhole ==
  ASSUME NEW t, Plugin!IsDocument(t), Plugin!Usable(t), Plugin!SlotsAreApart(t), Plugin!OutputStays(t),
         NEW l, NEW g, NEW n \in 0..Len(Plugin!Slots(t)), WholeAfter(t, l, g, n)
  PROVE  /\ t.output \in DOMAIN g
         /\ WholeAfter(t, l, Plugin!SetInput(g, t.output, "prefix", Plugin!Scalar("string", 1)), n)
<1> DEFINE slots == Plugin!Slots(t)  out == t.output  ins == g[out].inputs
           filled == [x \in DOMAIN ins \cup {"prefix"} |->
                        IF x = "prefix" THEN Plugin!Scalar("string", 1) ELSE ins[x]]
           h == Plugin!SetInput(g, out, "prefix", Plugin!Scalar("string", 1))
<1>1. /\ DOMAIN g = DOMAIN t.graph \ Gone(t, l, n)
      /\ \A node \in DOMAIN g : g[node] = [class |-> g[node].class, inputs |-> g[node].inputs]
      /\ \A node \in DOMAIN g : \A name \in DOMAIN g[node].inputs : g[node].inputs[name].kind = "link" =>
           /\ name \in DOMAIN t.graph[node].inputs /\ g[node].inputs[name] = t.graph[node].inputs[name]
           /\ g[node].inputs[name].node \notin Gone(t, l, n)
      /\ \A i \in 1..n : Plugin!KeyFor(t, l, slots[i]) # {} =>
           /\ slots[i].node \in DOMAIN g /\ "file" \in DOMAIN g[slots[i].node].inputs
           /\ g[slots[i].node].inputs["file"] = Plugin!Upload(slots[i])
  BY DEF WholeAfter
<1>2. out \in DOMAIN g
  BY <1>1, WhatIsBoundStays
<1>3. \A i \in 1..n : slots[i].node # out
  <2>1. /\ Len(slots) \in Nat /\ Plugin!ToSet(slots) = {slots[i] : i \in 1..Len(slots)}
    BY SlotsAreListed
  <2>2. \A s \in Plugin!ToSet(slots) : out # s.node
    BY DEF Plugin!OutputStays
  <2>3. n \in 0..Len(slots)
    OBVIOUS
  <2> HIDE DEF slots, out
  <2> QED
    BY <2>1, <2>2, <2>3
<1>4. h = [g EXCEPT ![out].inputs = filled]
  BY DEF Plugin!SetInput
<1>5. /\ \A x \in DOMAIN filled : filled[x].kind = "link" => x \in DOMAIN ins /\ filled[x] = ins[x]
  <2>1. Plugin!Scalar("string", 1).kind = "string"
    BY DEF Plugin!Scalar
  <2> QED
    BY <2>1
<1> HIDE DEF slots, out, h, filled
<1>6. /\ DOMAIN h = DOMAIN g
      /\ \A node \in DOMAIN g : node # out => h[node] = g[node]
      /\ h[out] = [class |-> g[out].class, inputs |-> filled]
  <2>1. DOMAIN h = DOMAIN g /\ \A node \in DOMAIN g : node # out => h[node] = g[node]
    BY <1>4
  <2>2. h[out] = [g[out] EXCEPT !.inputs = filled]
    BY <1>2, <1>4
  <2>3. g[out] = [class |-> g[out].class, inputs |-> g[out].inputs]
    BY <1>1, <1>2
  <2>4. h[out] = [class |-> g[out].class, inputs |-> filled]
    BY <2>2, <2>3
  <2> QED
    BY <2>1, <2>4
<1>7. h[out] = [class |-> h[out].class, inputs |-> h[out].inputs] /\ h[out].inputs = filled
  <2> DEFINE m == h[out]  c == g[out].class
  <2>1. m = [class |-> c, inputs |-> filled]
    BY <1>6
  <2> HIDE DEF m, c
  <2>2. m = [class |-> m.class, inputs |-> m.inputs] /\ m.inputs = filled
    BY <2>1
  <2> QED
    BY <2>2 DEF m
<1>8. ASSUME NEW node \in DOMAIN h, NEW name \in DOMAIN h[node].inputs, h[node].inputs[name].kind = "link"
      PROVE  /\ name \in DOMAIN t.graph[node].inputs /\ h[node].inputs[name] = t.graph[node].inputs[name]
             /\ h[node].inputs[name].node \notin Gone(t, l, n)
  <2>1. CASE node # out
    <3>1. h[node] = g[node] /\ node \in DOMAIN g
      BY <1>6, <2>1
    <3> QED
      BY <1>1, <1>8, <3>1
  <2>2. CASE node = out
    <3>1. name \in DOMAIN filled /\ filled[name].kind = "link" /\ h[node].inputs[name] = filled[name]
      BY <1>7, <1>8, <2>2
    <3>2. name \in DOMAIN ins /\ filled[name] = ins[name]
      BY <1>5, <3>1
    <3> QED
      BY <1>1, <1>2, <2>2, <3>1, <3>2
  <2> QED
    BY <2>1, <2>2
<1>9. ASSUME NEW i \in 1..n, Plugin!KeyFor(t, l, slots[i]) # {}
      PROVE  /\ slots[i].node \in DOMAIN h /\ "file" \in DOMAIN h[slots[i].node].inputs
             /\ h[slots[i].node].inputs["file"] = Plugin!Upload(slots[i])
  BY <1>1, <1>3, <1>6, <1>9
<1>10. \A node \in DOMAIN h : h[node] = [class |-> h[node].class, inputs |-> h[node].inputs]
  <2>1. ASSUME NEW node \in DOMAIN h, node # out
        PROVE  h[node] = [class |-> h[node].class, inputs |-> h[node].inputs]
    <3>1. h[node] = g[node] /\ node \in DOMAIN g
      BY <1>6, <2>1
    <3> QED
      BY <1>1, <3>1
  <2> QED
    BY <1>7, <2>1
<1>11. WholeAfter(t, l, h, n)
  <2>1. DOMAIN h = DOMAIN t.graph \ Gone(t, l, n)
    BY <1>1, <1>6
  <2>2. \A node \in DOMAIN h : \A name \in DOMAIN h[node].inputs : h[node].inputs[name].kind = "link" =>
          /\ name \in DOMAIN t.graph[node].inputs /\ h[node].inputs[name] = t.graph[node].inputs[name]
          /\ h[node].inputs[name].node \notin Gone(t, l, n)
    BY <1>8
  <2>3. \A i \in 1..n : Plugin!KeyFor(t, l, slots[i]) # {} =>
          /\ slots[i].node \in DOMAIN h /\ "file" \in DOMAIN h[slots[i].node].inputs
          /\ h[slots[i].node].inputs["file"] = Plugin!Upload(slots[i])
    BY <1>9
  <2> QED
    BY <1>10, <2>1, <2>2, <2>3, Zenon DEF WholeAfter, slots
<1> QED
  BY <1>2, <1>11 DEF h, out

\* With every slot done, no link leads nowhere that led somewhere in the template.
LEMMA WholeIsWhole ==
  ASSUME NEW t, Plugin!IsDocument(t), NEW l, NEW g, WholeAfter(t, l, g, Len(Plugin!Slots(t)))
  PROVE  /\ Plugin!Dangling(g) \subseteq Plugin!Dangling(t.graph)
         /\ \A s \in Plugin!ToSet(Plugin!Slots(t)) :
              IF Plugin!KeyFor(t, l, s) = {} THEN s.node \notin DOMAIN g
              ELSE g[s.node].inputs["file"] = Plugin!Upload(s)
<1> DEFINE slots == Plugin!Slots(t)  n == Len(slots)
<1>1. /\ DOMAIN g = DOMAIN t.graph \ Gone(t, l, n)
      /\ \A node \in DOMAIN g : \A name \in DOMAIN g[node].inputs : g[node].inputs[name].kind = "link" =>
           /\ name \in DOMAIN t.graph[node].inputs /\ g[node].inputs[name] = t.graph[node].inputs[name]
           /\ g[node].inputs[name].node \notin Gone(t, l, n)
      /\ \A i \in 1..n : Plugin!KeyFor(t, l, slots[i]) # {} =>
           g[slots[i].node].inputs["file"] = Plugin!Upload(slots[i])
  BY DEF WholeAfter
<1>2. ASSUME NEW node \in Plugin!Dangling(g)
      PROVE  node \in Plugin!Dangling(t.graph)
  <2>1. PICK name \in DOMAIN g[node].inputs :
          node \in DOMAIN g /\ g[node].inputs[name].kind = "link" /\ g[node].inputs[name].node \notin DOMAIN g
    BY <1>2 DEF Plugin!Dangling
  <2>2. /\ name \in DOMAIN t.graph[node].inputs /\ g[node].inputs[name] = t.graph[node].inputs[name]
        /\ g[node].inputs[name].node \notin Gone(t, l, n)
    BY <1>1, <2>1
  <2>3. node \in DOMAIN t.graph /\ g[node].inputs[name].node \notin DOMAIN t.graph
    BY <1>1, <2>1, <2>2
  <2> QED
    BY <2>1, <2>2, <2>3 DEF Plugin!Dangling
<1>3. \A i \in 1..n : Plugin!KeyFor(t, l, slots[i]) = {} => slots[i].node \notin DOMAIN g
  <2>1. \A i \in 1..n : Plugin!KeyFor(t, l, slots[i]) = {} => slots[i].node \in Gone(t, l, n)
    BY DEF Gone
  <2> QED
    BY <1>1, <2>1
<1>4. \A s \in Plugin!ToSet(slots) : \E i \in 1..n : s = slots[i]
  BY SlotsAreListed
<1> HIDE DEF slots, n
<1>5. \A s \in Plugin!ToSet(slots) :
        IF Plugin!KeyFor(t, l, s) = {} THEN s.node \notin DOMAIN g
        ELSE g[s.node].inputs["file"] = Plugin!Upload(s)
  BY <1>1, <1>3, <1>4
<1> QED
  BY <1>2, <1>5 DEF slots

-----------------------------------------------------------------------------
(* The plugin: what each phase knows of the lease, and of the graph.       *)

Decided == {"accepted", "binding", "submitted", "broken", "failed"}
Executed == {"binding", "submitted", "broken", "failed"}

PluginInv ==
  /\ \/ serving.plugin = "comfy" /\ serving.of \in Documents
     \/ serving.plugin = "engine" /\ serving.of \in Stages
     \/ serving.plugin = "echo"
  /\ phase \in {"loading", "refused", "ready", "rejected"} \cup Decided
  /\ phase \notin {"loading", "refused"} /\ serving.plugin = "comfy" => Plugin!Usable(Plugin!Template)
  /\ phase \notin {"loading", "refused", "ready"} => lease \in Offered
  /\ phase = "rejected" => ~Plugin!Accepts(lease)
  /\ phase \in Decided => Plugin!Accepts(lease)
  /\ IF phase \in Executed THEN serving.plugin = "comfy" ELSE slot = 0
  /\ phase \in Executed \ {"failed"} /\ Plugin!SlotsAreApart(Plugin!Template) /\ Plugin!OutputStays(Plugin!Template) =>
       /\ phase # "broken"
       /\ slot \in 0..Len(Plugin!Slots(Plugin!Template))
       /\ phase = "submitted" => slot = Len(Plugin!Slots(Plugin!Template))
       /\ WholeAfter(Plugin!Template, lease, graph, slot)

\* What a step leaves alone says of the next state what it said of this one.
LEMMA PluginSame ==
  ASSUME serving' = serving
  PROVE  /\ Plugin!Template' = Plugin!Template
         /\ lease' = lease => (Plugin!Accepts(lease)' <=> Plugin!Accepts(lease))
  BY DEF Plugin!Template, Plugin!Accepts

LEMMA PluginInit ==
  ASSUME Plugin!Init
  PROVE  PluginInv
  BY DEF Plugin!Init, PluginInv, Decided, Executed

LEMMA LoadInv ==
  ASSUME PluginInv, Plugin!Load
  PROVE  PluginInv'
<1>1. /\ phase = "loading" /\ serving' = serving /\ lease' = lease /\ slot' = slot
      /\ phase' = IF serving.plugin = "comfy" /\ ~Plugin!Usable(Plugin!Template) THEN "refused" ELSE "ready"
  BY DEF Plugin!Load
<1>2. Plugin!Template' = Plugin!Template
  BY <1>1, PluginSame
<1> QED
  BY <1>1, <1>2 DEF PluginInv, Decided, Executed

LEMMA TakeOrRejectInv ==
  ASSUME PluginInv, Plugin!Validate
  PROVE  PluginInv'
<1>1. PICK l \in Offered : /\ phase = "ready" /\ serving' = serving /\ lease' = l /\ slot' = slot
                           /\ phase' = IF Plugin!Accepts(l) THEN "accepted" ELSE "rejected"
  BY DEF Plugin!Validate
<1>2. Plugin!Template' = Plugin!Template
  BY <1>1, PluginSame
<1>3. Plugin!Accepts(lease)' <=> Plugin!Accepts(l)
  BY <1>1, <1>2 DEF Plugin!Accepts
<1> QED
  BY <1>1, <1>2, <1>3 DEF PluginInv, Decided, Executed

\* What an execution knows of its template and its lease.
LEMMA WhatIsExecuted ==
  ASSUME PluginInv, serving.plugin = "comfy", phase \in Decided
  PROVE  LET t == Plugin!Template IN
         /\ t \in Documents /\ Plugin!IsDocument(t) /\ Plugin!Usable(t)
         /\ lease \in Offered /\ Plugin!IsLease(lease) /\ Plugin!Takes(t, lease)
<1>1. Plugin!Template \in Documents /\ Plugin!Usable(Plugin!Template) /\ lease \in Offered /\ Plugin!Accepts(lease)
  BY DEF PluginInv, Decided, Plugin!Template
<1>2. Plugin!Takes(Plugin!Template, lease)
  BY <1>1 DEF Plugin!Accepts
<1>3. Plugin!IsDocument(Plugin!Template) /\ Plugin!IsLease(lease)
  BY <1>1, ContentAssumption
<1> QED
  BY <1>1, <1>2, <1>3

LEMMA FillInputsInv ==
  ASSUME PluginInv, Plugin!FillInputs
  PROVE  PluginInv'
<1> DEFINE t == Plugin!Template
<1>1. /\ phase = "accepted" /\ serving.plugin = "comfy" /\ phase' = "binding"
      /\ serving' = serving /\ lease' = lease /\ slot' = slot
      /\ graph' = Plugin!Fill(t.graph, t.entries, Plugin!Inputs(t, lease))
  BY DEF Plugin!FillInputs
<1>2. t' = t /\ (Plugin!Accepts(lease)' <=> Plugin!Accepts(lease))
  BY <1>1, PluginSame
<1>3. t \in Documents /\ Plugin!IsDocument(t) /\ Plugin!Usable(t) /\ Plugin!Takes(t, lease)
  BY <1>1, WhatIsExecuted DEF Decided
<1>4. Len(Plugin!Slots(t)) \in Nat
  BY <1>3, SlotsAreListed
<1> HIDE DEF t
<1>5. WholeAfter(t, lease, graph', 0)
  BY <1>1, <1>3, FilledIsWhole
<1>6. slot = 0
  BY <1>1 DEF PluginInv, Executed
<1> USE DEF t
<1> QED
  BY <1>1, <1>2, <1>4, <1>5, <1>6 DEF PluginInv, Decided, Executed

\* A step of an execution keeps the invariant if it keeps the graph whole.
LEMMA ExecutionInv ==
  ASSUME PluginInv, phase = "binding", serving' = serving, lease' = lease, phase' \in Executed,
         phase' # "failed" /\ Plugin!SlotsAreApart(Plugin!Template) /\ Plugin!OutputStays(Plugin!Template) =>
           /\ phase' # "broken"
           /\ slot' \in 0..Len(Plugin!Slots(Plugin!Template))
           /\ phase' = "submitted" => slot' = Len(Plugin!Slots(Plugin!Template))
           /\ WholeAfter(Plugin!Template, lease, graph', slot')
  PROVE  PluginInv'
<1>1. Plugin!Template' = Plugin!Template /\ (Plugin!Accepts(lease)' <=> Plugin!Accepts(lease))
  BY PluginSame
<1> QED
  BY <1>1 DEF PluginInv, Decided, Executed

LEMMA SkipSlotInv ==
  ASSUME PluginInv, Plugin!SkipSlot
  PROVE  PluginInv'
<1> DEFINE t == Plugin!Template  s == Plugin!Slots(t)[slot + 1]
<1>1. /\ phase = "binding" /\ slot < Len(Plugin!Slots(t)) /\ Plugin!KeyFor(t, lease, s) = {}
      /\ graph' = Plugin!DropSlot(graph, s) /\ slot' = slot + 1
      /\ serving' = serving /\ lease' = lease /\ phase' = phase
  BY DEF Plugin!SkipSlot, Plugin!Binding, Plugin!Current
<1>2. serving.plugin = "comfy"
  BY <1>1 DEF PluginInv, Executed
<1>3. Plugin!IsDocument(t) /\ Plugin!Usable(t) /\ Len(Plugin!Slots(t)) \in Nat
  BY <1>1, <1>2, WhatIsExecuted, SlotsAreListed DEF Decided
<1>4. ASSUME Plugin!SlotsAreApart(t), Plugin!OutputStays(t)
      PROVE  slot' \in 0..Len(Plugin!Slots(t)) /\ WholeAfter(t, lease, graph', slot')
  <2>1. slot \in 0..Len(Plugin!Slots(t)) /\ WholeAfter(t, lease, graph, slot)
    BY <1>1, <1>4 DEF PluginInv, Executed
  <2>2. slot \in Nat /\ slot + 1 \in 0..Len(Plugin!Slots(t))
    BY <1>1, <1>3, <2>1
  <2> HIDE DEF t
  <2>3. WholeAfter(t, lease, Plugin!DropSlot(graph, s), slot + 1)
    BY <1>1, <1>3, <1>4, <2>1, <2>2, DroppingKeepsWhole
  <2> QED
    BY <1>1, <2>2, <2>3
<1> QED
  BY <1>1, <1>4, ExecutionInv DEF Executed

LEMMA BindSlotInv ==
  ASSUME PluginInv, Plugin!BindSlot
  PROVE  PluginInv'
<1> DEFINE t == Plugin!Template  s == Plugin!Slots(t)[slot + 1]
<1>1. /\ phase = "binding" /\ slot < Len(Plugin!Slots(t)) /\ Plugin!KeyFor(t, lease, s) # {}
      /\ serving' = serving /\ lease' = lease
      /\ IF s.node \in DOMAIN graph
           THEN /\ graph' = Plugin!SetInput(graph, s.node, "file", Plugin!Upload(s))
                /\ slot' = slot + 1 /\ phase' = phase
           ELSE phase' = "broken"
  BY DEF Plugin!BindSlot, Plugin!Binding, Plugin!Current
<1>2. serving.plugin = "comfy"
  BY <1>1 DEF PluginInv, Executed
<1>3. Plugin!IsDocument(t) /\ Plugin!Usable(t) /\ Len(Plugin!Slots(t)) \in Nat
  BY <1>1, <1>2, WhatIsExecuted, SlotsAreListed DEF Decided
<1>4. ASSUME Plugin!SlotsAreApart(t), Plugin!OutputStays(t)
      PROVE  phase' = "binding" /\ slot' \in 0..Len(Plugin!Slots(t)) /\ WholeAfter(t, lease, graph', slot')
  <2>1. slot \in 0..Len(Plugin!Slots(t)) /\ WholeAfter(t, lease, graph, slot)
    BY <1>1, <1>4 DEF PluginInv, Executed
  <2>2. slot \in Nat /\ slot + 1 \in 0..Len(Plugin!Slots(t))
    BY <1>1, <1>3, <2>1
  <2> HIDE DEF t
  <2>3. /\ s.node \in DOMAIN graph
        /\ WholeAfter(t, lease, Plugin!SetInput(graph, s.node, "file", Plugin!Upload(s)), slot + 1)
    BY <1>1, <1>3, <1>4, <2>1, <2>2, BindingKeepsWhole
  <2> QED
    BY <1>1, <2>2, <2>3
<1>5. phase' \in Executed
  BY <1>1 DEF Executed
<1> QED
  BY <1>1, <1>4, <1>5, ExecutionInv

LEMMA UploadFailsInv ==
  ASSUME PluginInv, Plugin!UploadFails
  PROVE  PluginInv'
<1>1. phase = "binding" /\ phase' = "failed" /\ serving' = serving /\ lease' = lease
  BY DEF Plugin!UploadFails, Plugin!Binding
<1> QED
  BY <1>1, ExecutionInv DEF Executed

LEMMA SubmitPromptInv ==
  ASSUME PluginInv, Plugin!SubmitPrompt
  PROVE  PluginInv'
<1> DEFINE t == Plugin!Template  n == Len(Plugin!Slots(t))
           prefixed == Plugin!SetInput(graph, t.output, "prefix", Plugin!Scalar("string", 1))
<1>1. /\ phase = "binding" /\ slot = n /\ serving' = serving /\ lease' = lease /\ slot' = slot
      /\ IF t.output \notin DOMAIN graph THEN phase' = "broken"
         ELSE phase' = "submitted" /\ graph' \in {prefixed, graph}
  BY DEF Plugin!SubmitPrompt
<1>2. serving.plugin = "comfy"
  BY <1>1 DEF PluginInv, Executed
<1>3. Plugin!IsDocument(t) /\ Plugin!Usable(t) /\ Len(Plugin!Slots(t)) \in Nat
  BY <1>1, <1>2, WhatIsExecuted, SlotsAreListed DEF Decided
<1>4. ASSUME Plugin!SlotsAreApart(t), Plugin!OutputStays(t)
      PROVE  phase' = "submitted" /\ slot' \in 0..n /\ slot' = n /\ WholeAfter(t, lease, graph', slot')
  <2>1. slot \in 0..n /\ WholeAfter(t, lease, graph, slot)
    BY <1>1, <1>4 DEF PluginInv, Executed
  <2> HIDE DEF t
  <2>2. t.output \in DOMAIN graph /\ WholeAfter(t, lease, prefixed, slot)
    BY <1>3, <1>4, <2>1, PrefixKeepsWhole
  <2> HIDE DEF n, prefixed
  <2> QED
    BY <1>1, <2>1, <2>2
<1>5. phase' \in Executed
  BY <1>1 DEF Executed
<1> QED
  BY <1>1, <1>4, <1>5, ExecutionInv

LEMMA PluginNextInv ==
  ASSUME PluginInv, Plugin!Next \/ UNCHANGED preparing
  PROVE  PluginInv'
<1>1. CASE UNCHANGED preparing
  <2>1. serving' = serving /\ lease' = lease /\ phase' = phase /\ graph' = graph /\ slot' = slot
    BY <1>1 DEF preparing
  <2>2. Plugin!Template' = Plugin!Template /\ (Plugin!Accepts(lease)' <=> Plugin!Accepts(lease))
    BY <2>1, PluginSame
  <2> QED
    BY <2>1, <2>2 DEF PluginInv
<1>2. CASE Plugin!Next
  BY <1>2, LoadInv, TakeOrRejectInv, FillInputsInv, SkipSlotInv, BindSlotInv, UploadFailsInv, SubmitPromptInv
     DEF Plugin!Next
<1> QED
  BY <1>1, <1>2

\* The gate among the others, where no lease is ever loaded.
GateInv == IF gate = "plugin" THEN PluginInv ELSE phase = "loading"

LEMMA GateInvariance ==
  ContentSpec => []GateInv
<1>1. ContentInit => GateInv
  BY PluginInit DEF ContentInit, NoPlugin, GateInv
<1>2. GateInv /\ [ContentNext]_content => GateInv'
  <2> SUFFICES ASSUME GateInv, [ContentNext]_content PROVE GateInv'
    OBVIOUS
  <2>1. gate' = gate /\ (gate = "plugin" => Plugin!Next \/ UNCHANGED preparing)
                     /\ (gate # "plugin" => UNCHANGED preparing)
    BY DEF ContentNext, SubmissionStep, PluginStep, RecipeStep, Through, content
  <2>2. CASE gate = "plugin"
    BY <2>1, <2>2, PluginNextInv DEF GateInv
  <2>3. CASE gate # "plugin"
    BY <2>1, <2>3 DEF GateInv, preparing
  <2> QED
    BY <2>2, <2>3
<1> QED
  BY <1>1, <1>2, PTL DEF ContentSpec

(* GraphIsWhole: a template that loads, whose slots share no node and take *)
(* no output with them, makes whole graphs of every lease it takes, and    *)
(* no execution breaks on a node that an unbound slot took away.           *)
THEOREM GraphsAreWhole == ContentSpec => []GraphIsWhole
<1>1. ASSUME GateInv PROVE GraphIsWhole
  <2> DEFINE t == Plugin!Template
  <2> SUFFICES ASSUME phase \in {"submitted", "broken"}, Plugin!SlotsAreApart(t), Plugin!OutputStays(t)
               PROVE  /\ phase = "submitted"
                      /\ Plugin!Dangling(graph) \subseteq Plugin!Dangling(t.graph)
                      /\ \A s \in Plugin!ToSet(Plugin!Slots(t)) :
                           IF Plugin!KeyFor(t, lease, s) = {} THEN s.node \notin DOMAIN graph
                           ELSE graph[s.node].inputs["file"] = Plugin!Upload(s)
    BY DEF GraphIsWhole, Plugin!GraphIsWhole
  <2>1. PluginInv
    BY <1>1 DEF GateInv
  <2>2. phase = "submitted" /\ WholeAfter(t, lease, graph, Len(Plugin!Slots(t)))
    BY <2>1 DEF PluginInv, Executed
  <2>3. Plugin!IsDocument(t)
    <3>1. serving.plugin = "comfy" /\ phase \in Decided
      BY <2>1 DEF PluginInv, Executed, Decided
    <3> QED
      BY <2>1, <3>1, WhatIsExecuted
  <2> HIDE DEF t
  <2> QED
    BY <2>2, <2>3, WholeIsWhole
<1>2. GateInv => GraphIsWhole
  BY <1>1
<1> QED
  BY <1>2, GateInvariance, PTL

\* What a plugin takes conforms to what it publishes.
LEMMA AcceptedConforms ==
  ASSUME PluginInv, phase \notin {"loading", "refused", "ready", "rejected"}
  PROVE  Plugin!Conforms(Plugin!Published, lease.payload)
<1>1. phase \in Decided /\ Plugin!Accepts(lease) /\ lease \in Offered
  BY DEF PluginInv
<1>2. Plugin!IsLease(lease)
  BY <1>1, ContentAssumption
<1>3. CASE serving.plugin = "comfy"
  <2>1. /\ Plugin!IsDocument(Plugin!Template) /\ Plugin!Usable(Plugin!Template)
        /\ Plugin!Takes(Plugin!Template, lease)
    BY <1>1, <1>3, WhatIsExecuted
  <2>2. Plugin!Published = Plugin!Schema(Plugin!Template)
    BY <1>3 DEF Plugin!Published
  <2> QED
    BY <1>2, <2>1, <2>2, TakenConforms
<1>4. CASE serving.plugin = "engine" /\ serving.of \in Stages
  <2>1. Plugin!IsStage(serving.of) /\ Plugin!StageTakes(serving.of, lease)
    BY <1>1, <1>4, ContentAssumption DEF Plugin!Accepts
  <2>2. Plugin!Published = Plugin!StageSchema(serving.of)
    BY <1>4 DEF Plugin!Published
  <2> QED
    BY <1>2, <2>1, <2>2, StageTakesConforming
<1>5. CASE serving.plugin = "echo"
  <2>1. Plugin!EchoTakes(lease) /\ Plugin!Published = Plugin!EchoSchema
    BY <1>1, <1>5 DEF Plugin!Accepts, Plugin!Published
  <2> QED
    BY <1>2, <2>1, EchoTakesConforming
<1> QED
  BY <1>3, <1>4, <1>5 DEF PluginInv

\* A lease that conforms and binds what it was granted is not rejected, but for a float.
LEMMA RejectedForAReason ==
  ASSUME PluginInv, phase = "rejected", lease.version = Plugin!VersionServed,
         Plugin!Conforms(Plugin!Published, lease.payload), Plugin!BindsWhatIsGranted(lease),
         ~Plugin!HasIntegralFloat(lease)
  PROVE  FALSE
<1>1. ~Plugin!Accepts(lease) /\ lease \in Offered
  BY DEF PluginInv
<1>2. Plugin!IsLease(lease)
  BY <1>1, ContentAssumption
<1>3. CASE serving.plugin = "comfy" /\ serving.of \in Documents
  <2>1. Plugin!IsDocument(Plugin!Template) /\ Plugin!Usable(Plugin!Template)
    BY <1>3, ContentAssumption DEF PluginInv, Plugin!Template
  <2>2. Plugin!Published = Plugin!Schema(Plugin!Template) /\ lease.version = Plugin!Template.version
    BY <1>3 DEF Plugin!Published, Plugin!VersionServed
  <2>3. Plugin!KeysIn(lease.payload) = lease.granted
    BY <1>3 DEF Plugin!BindsWhatIsGranted
  <2>4. Plugin!Takes(Plugin!Template, lease)
    BY <2>1, <2>2, <2>3, ConformingIsTaken
  <2> QED
    BY <1>1, <1>3, <2>4 DEF Plugin!Accepts
<1>4. CASE serving.plugin = "engine" /\ serving.of \in Stages
  <2>1. Plugin!IsStage(serving.of)
    BY <1>4, ContentAssumption
  <2>2. Plugin!Published = Plugin!StageSchema(serving.of) /\ lease.version = 1
    BY <1>4 DEF Plugin!Published, Plugin!VersionServed
  <2>3. Plugin!KeysIn(lease.payload) = lease.granted
    BY <1>4 DEF Plugin!BindsWhatIsGranted
  <2>4. Plugin!StageTakes(serving.of, lease)
    BY <1>2, <2>1, <2>2, <2>3, StageTakesConforming
  <2> QED
    BY <1>1, <1>4, <2>4 DEF Plugin!Accepts
<1>5. CASE serving.plugin = "echo"
  <2>1. Plugin!Published = Plugin!EchoSchema /\ lease.version = 1
    BY <1>5 DEF Plugin!Published, Plugin!VersionServed
  <2>2. Plugin!EchoTakes(lease)
    BY <1>2, <2>1, EchoTakesConforming
  <2> QED
    BY <1>1, <1>5, <2>2 DEF Plugin!Accepts
<1> QED
  BY <1>3, <1>4, <1>5 DEF PluginInv

(* SchemaIsWhatPluginTakes: a plugin accepts only what conforms to the     *)
(* schema it publishes, and rejects for good nothing that conforms and     *)
(* binds what it was granted, but for an integer written as a float.       *)
THEOREM SchemasAreWhatIsTaken == ContentSpec => []SchemaIsWhatPluginTakes
<1>1. ASSUME GateInv PROVE SchemaIsWhatPluginTakes
  <2>1. CASE gate = "plugin"
    <3>1. PluginInv
      BY <1>1, <2>1 DEF GateInv
    <3> QED
      BY <3>1, AcceptedConforms, RejectedForAReason
         DEF SchemaIsWhatPluginTakes, Plugin!SchemaIsWhatPluginTakes
  <2>2. CASE gate # "plugin"
    BY <1>1, <2>2 DEF GateInv, SchemaIsWhatPluginTakes, Plugin!SchemaIsWhatPluginTakes
  <2> QED
    BY <2>1, <2>2
<1>2. GateInv => SchemaIsWhatPluginTakes
  BY <1>1
<1> QED
  BY <1>2, GateInvariance, PTL

-----------------------------------------------------------------------------
(* The submission's gate: its walk follows the routes of the payload, each *)
(* of which is either followed to its end or on the stack.                 *)

Trails(h) == {r \in Seq(Host!Places(h)) : Host!IsRoute(h, r)}
Look(h, r) == [value |-> Host!End(h, r), depth |-> Len(r) + 1]
Looks(h) == {Look(h, r) : r \in Trails(h)}
Child(h, r, i) == Append(r, [of |-> Host!End(h, r), at |-> i])

Found(followed, ahead) == followed \cup {ahead[i] : i \in 1..Len(ahead)}

\* The routes that are followed, and those ahead in the order of the stack.
Walked(h, todo, opened, followed, ahead) ==
  /\ followed \in SUBSET Trails(h) /\ ahead \in Seq(Trails(h)) /\ todo \in Seq(Looks(h))
  /\ Len(todo) = Len(ahead) /\ \A i \in 1..Len(ahead) : todo[i] = Look(h, ahead[i])
  /\ \A i, j \in 1..Len(ahead) : i # j => ahead[i] # ahead[j]
  /\ \A i \in 1..Len(ahead) : ahead[i] \notin followed
  /\ <<>> \in Found(followed, ahead)
  /\ \A r \in Found(followed, ahead) : r = <<>> \/ Host!Front(r) \in followed
  /\ \A r \in followed :
       /\ Len(r) < MaxDepth
       /\ IF Host!End(h, r) \in DOMAIN h
            THEN /\ h[Host!End(h, r)].keys # "other" /\ Host!End(h, r) \in opened
                 /\ \A i \in DOMAIN h[Host!End(h, r)].items : Child(h, r, i) \in Found(followed, ahead)
            ELSE Host!End(h, r) = "plain"
  /\ \A r, q \in followed : r # q /\ Host!End(h, r) \in DOMAIN h => Host!End(h, r) # Host!End(h, q)
  /\ \A v \in opened : v \in DOMAIN h /\ \E r \in followed : Host!End(h, r) = v

LEMMA WayBack ==
  ASSUME NEW S, NEW s \in Seq(S), NEW e \in S
  PROVE  SubSeq(Append(s, e), 1, Len(s)) = s
<1> DEFINE t == SubSeq(Append(s, e), 1, Len(s))
<1>1. t \in Seq(S) /\ Len(t) = Len(s) /\ \A i \in 1..Len(s) : t[i] = s[i]
  OBVIOUS
<1> HIDE DEF t
<1>2. t = s
  BY <1>1, SeqEqual
<1> QED
  BY <1>2 DEF t

\* A route to a container goes on to what the container holds.
LEMMA RouteGoesOn ==
  ASSUME NEW h, NEW r \in Trails(h), Host!End(h, r) \in DOMAIN h,
         NEW i \in DOMAIN h[Host!End(h, r)].items
  PROVE  /\ [of |-> Host!End(h, r), at |-> i] \in Host!Places(h)
         /\ Child(h, r, i) \in Trails(h) /\ Len(Child(h, r, i)) = Len(r) + 1
         /\ Child(h, r, i) # <<>> /\ Host!Front(Child(h, r, i)) = r
         /\ Host!End(h, Child(h, r, i)) = h[Host!End(h, r)].items[i]
<1> DEFINE v == Host!End(h, r)  e == [of |-> v, at |-> i]  c == Append(r, e)  n == Len(r)
<1>1. e \in Host!Places(h)
  BY DEF Host!Places
<1>2. r \in Seq(Host!Places(h)) /\ Host!IsRoute(h, r)
  BY DEF Trails
<1>3. Host!Held(h, e) = h[v].items[i] /\ e.of = v
  BY DEF Host!Held
<1>4. v = IF n = 0 THEN "payload" ELSE Host!Held(h, r[n])
  BY <1>2 DEF Host!End
<1>5. \A k \in 1..n : r[k].of = IF k = 1 THEN "payload" ELSE Host!Held(h, r[k - 1])
  BY <1>2, LenProperties DEF Host!IsRoute
<1> HIDE DEF e, v
<1>6. /\ c \in Seq(Host!Places(h)) /\ c # <<>> /\ Len(c) = n + 1 /\ n \in Nat /\ DOMAIN c = 1..(n + 1)
      /\ \A k \in 1..n : c[k] = r[k]
      /\ c[n + 1] = e
  BY <1>1, <1>2, AppendProperties, LenProperties
<1> HIDE DEF c, n
<1>7. \A k \in 1..(n + 1) : c[k].of = IF k = 1 THEN "payload" ELSE Host!Held(h, c[k - 1])
  <2> SUFFICES ASSUME NEW k \in 1..(n + 1)
               PROVE  c[k].of = IF k = 1 THEN "payload" ELSE Host!Held(h, c[k - 1])
    OBVIOUS
  <2>1. CASE k \in 1..n
    <3>1. k # 1 => k - 1 \in 1..n
      BY <1>6, <2>1
    <3> QED
      BY <1>5, <1>6, <2>1, <3>1
  <2>2. CASE k = n + 1
    <3>1. c[k].of = v /\ (k # 1 => k - 1 = n /\ n \in 1..n /\ n # 0) /\ (k = 1 => n = 0)
      BY <1>3, <1>6, <2>2
    <3> QED
      BY <1>4, <1>6, <3>1
  <2> QED
    BY <1>6, <2>1, <2>2
<1>8. c \in Trails(h)
  BY <1>6, <1>7 DEF Trails, Host!IsRoute
<1>9. Host!End(h, c) = h[v].items[i]
  BY <1>3, <1>6 DEF Host!End
<1>10. Host!Front(c) = r
  <2>1. SubSeq(c, 1, n) = r
    BY <1>1, <1>2, WayBack DEF c, n
  <2>2. Len(c) - 1 = n
    BY <1>6
  <2> QED
    BY <2>1, <2>2 DEF Host!Front
<1> QED
  BY <1>1, <1>6, <1>8, <1>9, <1>10 DEF Child, c, e, v, n

\* And comes from where it was one place before.
LEMMA RouteCameFrom ==
  ASSUME NEW h, NEW r \in Trails(h), r # <<>>
  PROVE  \E p \in Trails(h) : /\ Len(r) = Len(p) + 1 /\ Host!End(h, p) \in DOMAIN h
                              /\ \E i \in DOMAIN h[Host!End(h, p)].items : r = Child(h, p, i)
<1>1. r \in Seq(Host!Places(h)) /\ Host!IsRoute(h, r)
  BY DEF Trails
<1>2. PICK p \in Seq(Host!Places(h)), e \in Host!Places(h) : r = Append(p, e)
  BY <1>1, SequenceEmptyOrAppend
<1> DEFINE n == Len(p)
<1>3. /\ n \in Nat /\ Len(r) = n + 1 /\ DOMAIN r = 1..(n + 1) /\ DOMAIN p = 1..n
      /\ \A k \in 1..n : r[k] = p[k]
      /\ r[n + 1] = e
  BY <1>1, <1>2, AppendProperties, LenProperties
<1>4. \A k \in 1..(n + 1) : r[k].of = IF k = 1 THEN "payload" ELSE Host!Held(h, r[k - 1])
  BY <1>1, <1>3 DEF Host!IsRoute
<1>5. p = <<>> <=> n = 0
  BY EmptySeq
<1> HIDE DEF n
<1>6. \A k \in 1..n : p[k].of = IF k = 1 THEN "payload" ELSE Host!Held(h, p[k - 1])
  <2> SUFFICES ASSUME NEW k \in 1..n
               PROVE  p[k].of = IF k = 1 THEN "payload" ELSE Host!Held(h, p[k - 1])
    OBVIOUS
  <2>1. k \in 1..(n + 1) /\ (k # 1 => k - 1 \in 1..n)
    BY <1>3
  <2> QED
    BY <1>3, <1>4, <2>1
<1>7. p \in Trails(h)
  BY <1>3, <1>6 DEF Trails, Host!IsRoute
<1>8. e.of = Host!End(h, p)
  <2>1. n + 1 \in 1..(n + 1) /\ (n # 0 => n + 1 # 1 /\ (n + 1) - 1 = n /\ n \in 1..n)
    BY <1>3
  <2>2. e.of = IF n = 0 THEN "payload" ELSE Host!Held(h, p[n])
    BY <1>3, <1>4, <2>1
  <2> QED
    BY <1>5, <2>2 DEF Host!End, n
<1>9. PICK of \in DOMAIN h : \E i \in DOMAIN h[of].items : e = [of |-> of, at |-> i]
  BY DEF Host!Places
<1>10. PICK i \in DOMAIN h[of].items : e = [of |-> of, at |-> i]
  BY <1>9
<1>11. of = Host!End(h, p)
  BY <1>8, <1>10
<1>12. r = Child(h, p, i)
  BY <1>2, <1>10, <1>11 DEF Child
<1> QED
  BY <1>3, <1>7, <1>10, <1>11, <1>12 DEF n

\* The last of a sequence gives way to others.
LEMMA TopIsReplaced ==
  ASSUME NEW S, NEW s \in Seq(S), NEW t \in Seq(S), NEW m \in Nat, Len(s) = m + 1
  PROVE  /\ SubSeq(s, 1, m) \o t \in Seq(S) /\ Len(SubSeq(s, 1, m) \o t) = m + Len(t)
         /\ \A i \in 1..(m + Len(t)) : (SubSeq(s, 1, m) \o t)[i] = IF i <= m THEN s[i] ELSE t[i - m]
<1> DEFINE left == SubSeq(s, 1, m)
<1>1. left \in Seq(S) /\ Len(left) = m /\ \A i \in 1..m : left[i] = s[i]
  OBVIOUS
<1> HIDE DEF left
<1>2. /\ left \o t \in Seq(S) /\ Len(left \o t) = m + Len(t)
      /\ \A i \in 1..(m + Len(t)) : (left \o t)[i] = IF i <= m THEN left[i] ELSE t[i - m]
  BY <1>1
<1>3. \A i \in 1..(m + Len(t)) : i <= m => i \in 1..m
  OBVIOUS
<1> QED
  BY <1>1, <1>2, <1>3 DEF left

\* Following the route on top of the stack, whose way on is put there in its place.
LEMMA FollowingKeepsWalked ==
  ASSUME NEW h, NEW todo, NEW opened, NEW followed, NEW ahead, Walked(h, todo, opened, followed, ahead),
         NEW n, n = Len(ahead), n # 0, NEW r, r = ahead[n], Len(r) < MaxDepth,
         NEW on \in Seq(Trails(h)), NEW looks \in Seq(Looks(h)), Len(looks) = Len(on),
         \A i \in 1..Len(on) : looks[i] = Look(h, on[i]),
         \A i \in 1..Len(on) : on[i] # <<>> /\ Host!Front(on[i]) = r,
         \A i, j \in 1..Len(on) : i # j => on[i] # on[j],
         NEW now,
         \/ /\ Host!End(h, r) \in DOMAIN h \ opened /\ h[Host!End(h, r)].keys # "other"
            /\ now = opened \cup {Host!End(h, r)}
            /\ \A i \in DOMAIN h[Host!End(h, r)].items : \E j \in 1..Len(on) : on[j] = Child(h, r, i)
         \/ Host!End(h, r) \notin DOMAIN h /\ Host!End(h, r) = "plain" /\ now = opened
  PROVE  Walked(h, SubSeq(todo, 1, n - 1) \o looks, now, followed \cup {r}, SubSeq(ahead, 1, n - 1) \o on)
<1> DEFINE m == n - 1  left == SubSeq(ahead, 1, m)  stay == SubSeq(todo, 1, m)
           then == left \o on  next == stay \o looks  done == followed \cup {r}
<1>1. /\ followed \in SUBSET Trails(h) /\ ahead \in Seq(Trails(h)) /\ todo \in Seq(Looks(h))
      /\ Len(todo) = Len(ahead) /\ \A i \in 1..Len(ahead) : todo[i] = Look(h, ahead[i])
      /\ \A i, j \in 1..Len(ahead) : i # j => ahead[i] # ahead[j]
      /\ \A i \in 1..Len(ahead) : ahead[i] \notin followed
      /\ <<>> \in Found(followed, ahead)
      /\ \A x \in Found(followed, ahead) : x = <<>> \/ Host!Front(x) \in followed
  BY DEF Walked
<1>2. /\ \A x \in followed :
           /\ Len(x) < MaxDepth
           /\ IF Host!End(h, x) \in DOMAIN h
                THEN /\ h[Host!End(h, x)].keys # "other" /\ Host!End(h, x) \in opened
                     /\ \A i \in DOMAIN h[Host!End(h, x)].items : Child(h, x, i) \in Found(followed, ahead)
                ELSE Host!End(h, x) = "plain"
      /\ \A x, q \in followed : x # q /\ Host!End(h, x) \in DOMAIN h => Host!End(h, x) # Host!End(h, q)
      /\ \A v \in opened : v \in DOMAIN h /\ \E x \in followed : Host!End(h, x) = v
  BY DEF Walked
<1>3. m \in Nat /\ n = m + 1 /\ n \in 1..n /\ n \in Nat
  <2>1. Len(ahead) \in Nat
    BY <1>1, LenProperties
  <2> QED
    BY <2>1
<1> DEFINE k == Len(on)
<1>4. k \in Nat
  BY LenProperties
<1>5. Len(ahead) = m + 1 /\ Len(todo) = m + 1
  BY <1>1, <1>3
<1>6. /\ then \in Seq(Trails(h)) /\ Len(then) = m + k
      /\ \A i \in 1..(m + k) : then[i] = IF i <= m THEN ahead[i] ELSE on[i - m]
      /\ next \in Seq(Looks(h)) /\ Len(next) = m + k
      /\ \A i \in 1..(m + k) : next[i] = IF i <= m THEN todo[i] ELSE looks[i - m]
  <2> HIDE DEF m, k
  <2>1. /\ then \in Seq(Trails(h)) /\ Len(then) = m + Len(on)
        /\ \A i \in 1..(m + Len(on)) : then[i] = IF i <= m THEN ahead[i] ELSE on[i - m]
    BY <1>1, <1>3, <1>5, TopIsReplaced
  <2>2. /\ next \in Seq(Looks(h)) /\ Len(next) = m + Len(looks)
        /\ \A i \in 1..(m + Len(looks)) : next[i] = IF i <= m THEN todo[i] ELSE looks[i - m]
    BY <1>1, <1>3, <1>5, TopIsReplaced
  <2> HIDE DEF then, next
  <2> QED
    BY <2>1, <2>2 DEF k
<1>7. r \in Trails(h) /\ r \in Found(followed, ahead) /\ r \notin followed
      /\ \A i \in 1..m : ahead[i] # r
  BY <1>1, <1>3, ElementOfSeq DEF Found
<1> HIDE DEF m, left, stay, then, next, k
\* The way on is new: what is found comes from what was followed before.
<1>8. \A i \in 1..k : on[i] \notin Found(followed, ahead) /\ on[i] # r
  <2>1. \A i \in 1..k : on[i] # <<>> /\ Host!Front(on[i]) = r
    BY DEF k
  <2>2. \A x \in Found(followed, ahead) \cup {r} : x = <<>> \/ Host!Front(x) \in followed
    BY <1>1, <1>7
  <2> QED
    BY <1>7, <2>1, <2>2
<1>9. /\ \A i \in 1..(m + k) : (i \in 1..m /\ then[i] = ahead[i] /\ next[i] = todo[i] /\ i \in 1..n)
                               \/ (i - m \in 1..k /\ then[i] = on[i - m] /\ next[i] = looks[i - m])
      /\ \A i \in 1..m : i \in 1..(m + k) /\ then[i] = ahead[i]
      /\ \A i \in 1..k : i + m \in 1..(m + k) /\ then[i + m] = on[i]
  <2>1. ASSUME NEW i \in 1..(m + k)
        PROVE (i \in 1..m /\ then[i] = ahead[i] /\ next[i] = todo[i] /\ i \in 1..n)
              \/ (i - m \in 1..k /\ then[i] = on[i - m] /\ next[i] = looks[i - m])
    <3>1. CASE i <= m
      <4>1. i \in 1..m /\ i \in 1..n
        BY <1>3, <1>4, <3>1
      <4> QED
        BY <1>6, <3>1, <4>1
    <3>2. CASE ~(i <= m)
      <4>1. i - m \in 1..k
        BY <1>3, <1>4, <3>2
      <4> QED
        BY <1>6, <3>2, <4>1
    <3> QED
      BY <3>1, <3>2
  <2>2. ASSUME NEW i \in 1..m PROVE i \in 1..(m + k) /\ then[i] = ahead[i]
    <3>1. i \in 1..(m + k) /\ i <= m
      BY <1>3, <1>4
    <3> QED
      BY <1>6, <3>1
  <2>3. ASSUME NEW i \in 1..k PROVE i + m \in 1..(m + k) /\ then[i + m] = on[i]
    <3>1. i + m \in 1..(m + k) /\ ~(i + m <= m) /\ (i + m) - m = i
      BY <1>3, <1>4
    <3> QED
      BY <1>6, <3>1
  <2> QED
    BY <2>1, <2>2, <2>3
<1>10. Found(done, then) = Found(followed, ahead) \cup {on[i] : i \in 1..k}
  <2>1. ASSUME NEW x \in Found(done, then) PROVE x \in Found(followed, ahead) \cup {on[i] : i \in 1..k}
    <3>1. CASE x \in done
      BY <1>7, <3>1 DEF Found
    <3>2. CASE \E i \in 1..(m + k) : x = then[i]
      <4>1. PICK i \in 1..(m + k) : x = then[i]
        BY <3>2
      <4>2. CASE i \in 1..m /\ then[i] = ahead[i] /\ i \in 1..n
        BY <4>1, <4>2 DEF Found
      <4>3. CASE i - m \in 1..k /\ then[i] = on[i - m]
        BY <4>1, <4>3
      <4> QED
        BY <1>9, <4>2, <4>3
    <3> QED
      BY <1>6, <3>1, <3>2 DEF Found
  <2>2. ASSUME NEW x \in Found(followed, ahead) PROVE x \in Found(done, then)
    <3>1. CASE x \in followed
      BY <3>1 DEF Found
    <3>2. CASE \E i \in 1..n : x = ahead[i]
      <4>1. PICK i \in 1..n : x = ahead[i]
        BY <3>2
      <4>2. CASE i = n
        BY <4>1, <4>2 DEF Found
      <4>3. CASE i # n
        <5>1. i \in 1..m
          BY <1>3, <4>3
        <5> QED
          BY <1>6, <1>9, <4>1, <5>1 DEF Found
      <4> QED
        BY <4>2, <4>3
    <3> QED
      BY <3>1, <3>2 DEF Found
  <2>3. ASSUME NEW i \in 1..k PROVE on[i] \in Found(done, then)
    <3>1. i + m \in 1..Len(then) /\ then[i + m] = on[i]
      BY <1>6, <1>9
    <3>2. \A j \in 1..Len(then) : then[j] \in Found(done, then)
      BY DEF Found
    <3> QED
      BY <3>1, <3>2
  <2> QED
    BY <2>1, <2>2, <2>3
<1>11. \A i \in 1..(m + k) : next[i] = Look(h, then[i]) /\ then[i] \notin done
  <2>1. ASSUME NEW i \in 1..m, i \in 1..n PROVE todo[i] = Look(h, ahead[i]) /\ ahead[i] \notin done
    BY <1>1, <1>7, <2>1
  <2>2. ASSUME NEW i \in 1..k PROVE looks[i] = Look(h, on[i]) /\ on[i] \notin done
    BY <1>8 DEF Found, k
  <2> QED
    BY <1>9, <2>1, <2>2
<1>12. ASSUME NEW i \in 1..(m + k), NEW j \in 1..(m + k), i # j
       PROVE  then[i] # then[j]
  <2>1. CASE i \in 1..m /\ then[i] = ahead[i] /\ i \in 1..n
    <3>1. CASE j \in 1..m /\ then[j] = ahead[j] /\ j \in 1..n
      BY <1>1, <1>12, <2>1, <3>1
    <3>2. CASE j - m \in 1..k /\ then[j] = on[j - m]
      BY <1>8, <2>1, <3>2 DEF Found
    <3> QED
      BY <1>9, <3>1, <3>2
  <2>2. CASE i - m \in 1..k /\ then[i] = on[i - m]
    <3>1. CASE j \in 1..m /\ then[j] = ahead[j] /\ j \in 1..n
      BY <1>8, <2>2, <3>1 DEF Found
    <3>2. CASE j - m \in 1..k /\ then[j] = on[j - m]
      <4>1. i - m # j - m
        BY <1>3, <1>12
      <4> QED
        BY <2>2, <3>2, <4>1 DEF k
    <3> QED
      BY <1>9, <3>1, <3>2
  <2> QED
    BY <1>9, <2>1, <2>2
<1>13. \A x \in Found(done, then) : x = <<>> \/ Host!Front(x) \in done
  BY <1>1, <1>10 DEF k
<1>14. /\ \A x \in done :
            /\ Len(x) < MaxDepth
            /\ IF Host!End(h, x) \in DOMAIN h
                 THEN /\ h[Host!End(h, x)].keys # "other" /\ Host!End(h, x) \in now
                      /\ \A i \in DOMAIN h[Host!End(h, x)].items : Child(h, x, i) \in Found(done, then)
                 ELSE Host!End(h, x) = "plain"
  <2>1. opened \subseteq now
    OBVIOUS
  <2>2. ASSUME NEW x \in followed
        PROVE  /\ Len(x) < MaxDepth
               /\ IF Host!End(h, x) \in DOMAIN h
                    THEN /\ h[Host!End(h, x)].keys # "other" /\ Host!End(h, x) \in now
                         /\ \A i \in DOMAIN h[Host!End(h, x)].items : Child(h, x, i) \in Found(done, then)
                    ELSE Host!End(h, x) = "plain"
    BY <1>2, <1>10, <2>1
  <2>3. /\ Len(r) < MaxDepth
        /\ IF Host!End(h, r) \in DOMAIN h
             THEN /\ h[Host!End(h, r)].keys # "other" /\ Host!End(h, r) \in now
                  /\ \A i \in DOMAIN h[Host!End(h, r)].items : Child(h, r, i) \in Found(done, then)
             ELSE Host!End(h, r) = "plain"
    BY <1>10 DEF k
  <2> QED
    BY <2>2, <2>3
<1>15. \A x, q \in done : x # q /\ Host!End(h, x) \in DOMAIN h => Host!End(h, x) # Host!End(h, q)
  <2>1. \A x \in followed : Host!End(h, x) \in DOMAIN h => Host!End(h, x) \in opened
    BY <1>2
  <2>2. \A x \in followed : Host!End(h, r) \in DOMAIN h => Host!End(h, r) # Host!End(h, x)
    BY <2>1
  <2>3. \A x \in followed : Host!End(h, x) \in DOMAIN h => Host!End(h, x) # Host!End(h, r)
    BY <2>1
  <2> QED
    BY <1>2, <2>2, <2>3
<1>16. \A v \in now : v \in DOMAIN h /\ \E x \in done : Host!End(h, x) = v
  BY <1>2
<1>17. done \in SUBSET Trails(h) /\ <<>> \in Found(done, then)
  BY <1>1, <1>7, <1>10
<1> HIDE DEF done
<1>18. Walked(h, next, now, done, then)
  BY <1>6, <1>11, <1>12, <1>13, <1>14, <1>15, <1>16, <1>17 DEF Walked
<1> QED
  BY <1>18 DEF next, done, then, left, stay, m

\* The routes that count are those of at most the greatest depth.
LEMMA RoutesAreTrails ==
  ASSUME NEW h
  PROVE  /\ \A r \in Host!Routes(h) : r \in Trails(h)
         /\ \A r \in Trails(h) : Len(r) <= MaxDepth => r \in Host!Routes(h)
<1>1. \A r : r \in Host!Routes(h) <=>
               (\E m \in 0..MaxDepth : r \in [1..m -> Host!Places(h)]) /\ Host!IsRoute(h, r)
  BY DEF Host!Routes, Host!BoundedSeq, Host!SeqOf
<1>2. MaxDepth \in Nat
  BY ContentAssumption
<1>3. ASSUME NEW r \in Host!Routes(h) PROVE r \in Trails(h)
  <2>1. PICK m \in 0..MaxDepth : r \in [1..m -> Host!Places(h)]
    BY <1>1, <1>3
  <2>2. m \in Nat
    BY <1>2
  <2>3. r \in Seq(Host!Places(h))
    BY <2>1, <2>2, SeqDef
  <2> QED
    BY <1>1, <2>3 DEF Trails
<1>4. ASSUME NEW r \in Trails(h), Len(r) <= MaxDepth PROVE r \in Host!Routes(h)
  <2>1. r \in Seq(Host!Places(h)) /\ Host!IsRoute(h, r)
    BY DEF Trails
  <2>2. Len(r) \in Nat /\ r \in [1..Len(r) -> Host!Places(h)]
    BY <2>1, LenProperties
  <2>3. Len(r) \in 0..MaxDepth
    BY <1>2, <1>4, <2>2
  <2> QED
    BY <1>1, <2>1, <2>2, <2>3
<1> QED
  BY <1>3, <1>4

LEMMA SameLast ==
  ASSUME NEW S, NEW s \in Seq(S), NEW e \in S, NEW f \in S, Append(s, e) = Append(s, f)
  PROVE  e = f
<1>1. Append(s, e)[Len(s) + 1] = e /\ Append(s, f)[Len(s) + 1] = f
  OBVIOUS
<1> QED
  BY <1>1

LEMMA FrontIsShorter ==
  ASSUME NEW S, NEW s \in Seq(S), s # <<>>
  PROVE  Len(Host!Front(s)) = Len(s) - 1
  BY DEF Host!Front

\* Some numbers have a least among them.
LEMMA LeastOne ==
  ASSUME NEW D \in SUBSET Nat, D # {}
  PROVE  \E x \in D : \A y \in D : x <= y
<1> DEFINE R == OpToRel(<, Nat)
<1>1. \A x, y \in Nat : x < y => <<x, y>> \in R
  BY DEF OpToRel
<1>2. PICK x \in D : \A y \in D : ~(<<y, x>> \in R)
  <2> HIDE DEF R
  <2> QED
    BY WFMin, NatLessThanWellFounded DEF R
<1> HIDE DEF R
<1>3. \A y \in D : x <= y
  <2> SUFFICES ASSUME NEW y \in D, ~(x <= y) PROVE FALSE
    OBVIOUS
  <2>1. x \in Nat /\ y \in Nat
    OBVIOUS
  <2>2. y < x
    BY <2>1
  <2> QED
    BY <1>1, <1>2, <2>1, <2>2
<1> QED
  BY <1>3

\* The end of a walk: every route was followed.
LEMMA WalkedIsTree ==
  ASSUME NEW h, NEW opened, NEW followed, Walked(h, <<>>, opened, followed, <<>>)
  PROVE  Host!IsTree(h)
<1>1. /\ followed \in SUBSET Trails(h) /\ <<>> \in followed
      /\ \A r \in followed :
           /\ Len(r) < MaxDepth
           /\ IF Host!End(h, r) \in DOMAIN h
                THEN /\ h[Host!End(h, r)].keys # "other"
                     /\ \A i \in DOMAIN h[Host!End(h, r)].items : Child(h, r, i) \in followed
                ELSE Host!End(h, r) = "plain"
      /\ \A r, q \in followed : r # q /\ Host!End(h, r) \in DOMAIN h => Host!End(h, r) # Host!End(h, q)
  <2>1. Found(followed, <<>>) = followed
    <3>1. 1..Len(<<>>) = {}
      BY EmptySeq
    <3> QED
      BY <3>1 DEF Found
  <2>2. Walked(h, <<>>, opened, followed, <<>>)
    OBVIOUS
  <2> QED
    BY <2>1, <2>2, Zenon DEF Walked
<1>2. Trails(h) \subseteq followed
  <2> DEFINE Missed == Trails(h) \ followed  Lengths == {Len(r) : r \in Missed}
  <2> SUFFICES ASSUME Missed # {} PROVE FALSE
    OBVIOUS
  <2>1. Lengths \subseteq Nat /\ Lengths # {}
    BY LenProperties DEF Trails
  <2>2. PICK r \in Missed : \A q \in Missed : Len(r) <= Len(q)
    <3>1. PICK least \in Lengths : \A other \in Lengths : least <= other
      <4> HIDE DEF Lengths
      <4> QED
        BY <2>1, LeastOne
    <3> QED
      BY <3>1
  <2>3. r \in Trails(h) /\ r \notin followed /\ r # <<>>
    BY <1>1
  <2>4. PICK p \in Trails(h) : /\ Len(r) = Len(p) + 1 /\ Host!End(h, p) \in DOMAIN h
                               /\ \E i \in DOMAIN h[Host!End(h, p)].items : r = Child(h, p, i)
    BY <2>3, RouteCameFrom
  <2>5. p \in followed
    <3>1. Len(p) \in Nat
      BY LenProperties DEF Trails
    <3>2. ~(Len(r) <= Len(p))
      BY <2>4, <3>1
    <3> QED
      BY <2>2, <3>2
  <2> QED
    BY <1>1, <2>3, <2>4, <2>5
<1>3. Host!Routes(h) \subseteq followed
  <2>1. \A r \in Host!Routes(h) : r \in Trails(h)
    BY RoutesAreTrails
  <2> QED
    BY <1>2, <2>1
<1> QED
  BY <1>1, <1>3 DEF Host!IsTree

\* What is refused on top of the stack is a route that no tree has.
LEMMA RefusedIsNoTree ==
  ASSUME NEW h, NEW todo, NEW opened, NEW followed, NEW ahead, Walked(h, todo, opened, followed, ahead),
         NEW n, n = Len(ahead), n # 0, NEW r, r = ahead[n],
         \/ Len(r) >= MaxDepth
         \/ Host!End(h, r) \in DOMAIN h /\ (Host!End(h, r) \in opened \/ h[Host!End(h, r)].keys = "other")
         \/ Host!End(h, r) \notin DOMAIN h /\ Host!End(h, r) # "plain"
  PROVE  ~Host!IsTree(h)
<1>1. /\ followed \in SUBSET Trails(h) /\ ahead \in Seq(Trails(h))
      /\ \A i \in 1..Len(ahead) : ahead[i] \notin followed
      /\ \A x \in Found(followed, ahead) : x = <<>> \/ Host!Front(x) \in followed
      /\ \A x \in followed : Len(x) < MaxDepth
      /\ \A v \in opened : \E x \in followed : Host!End(h, x) = v
  BY DEF Walked
<1>2. r \in Trails(h) /\ r \notin followed /\ r \in Found(followed, ahead)
  <2>1. n \in 1..Len(ahead)
    BY <1>1, LenProperties
  <2> QED
    BY <1>1, <2>1, ElementOfSeq DEF Found
<1>3. \A x \in followed : x \in Host!Routes(h)
  <2> SUFFICES ASSUME NEW x \in followed PROVE x \in Host!Routes(h)
    OBVIOUS
  <2>1. x \in Trails(h) /\ Len(x) < MaxDepth
    BY <1>1
  <2>2. Len(x) \in Nat
    BY <2>1, LenProperties DEF Trails
  <2>3. Len(x) <= MaxDepth
    BY <2>1, <2>2, ContentAssumption
  <2> QED
    BY <2>1, <2>3, RoutesAreTrails
<1>4. r \in Host!Routes(h)
  <2>1. Len(r) \in Nat /\ (r = <<>> => Len(r) = 0)
    BY <1>2, LenProperties, EmptySeq DEF Trails
  <2>2. Len(r) <= MaxDepth
    <3>1. CASE r = <<>>
      BY <2>1, <3>1, ContentAssumption
    <3>2. CASE r # <<>>
      <4>1. Host!Front(r) \in followed /\ Len(Host!Front(r)) = Len(r) - 1
        <5>1. Host!Front(r) \in followed
          BY <1>1, <1>2, <3>2
        <5>2. r \in Seq(Host!Places(h))
          BY <1>2 DEF Trails
        <5> QED
          BY <3>2, <5>1, <5>2, FrontIsShorter
      <4>2. Len(r) - 1 < MaxDepth
        BY <1>1, <4>1
      <4> QED
        BY <2>1, <4>2, ContentAssumption
    <3> QED
      BY <3>1, <3>2
  <2> QED
    BY <1>2, <2>2, RoutesAreTrails
<1>5. SUFFICES ASSUME Host!IsTree(h) PROVE FALSE
  OBVIOUS
<1>6. /\ \A x \in Host!Routes(h) : Len(x) < MaxDepth
      /\ \A x, q \in Host!Routes(h) : x # q /\ Host!End(h, x) \in DOMAIN h => Host!End(h, x) # Host!End(h, q)
      /\ \A x \in Host!Routes(h) :
           IF Host!End(h, x) \in DOMAIN h THEN h[Host!End(h, x)].keys # "other" ELSE Host!End(h, x) = "plain"
  BY <1>5 DEF Host!IsTree
<1>7. Len(r) < MaxDepth /\ ~(Len(r) >= MaxDepth)
  <2>1. Len(r) < MaxDepth /\ Len(r) \in Nat
    BY <1>2, <1>4, <1>6, LenProperties DEF Trails
  <2> QED
    BY <2>1, ContentAssumption
<1>8. \A x \in followed : Host!End(h, r) \in DOMAIN h => Host!End(h, r) # Host!End(h, x)
  BY <1>2, <1>3, <1>4, <1>6
<1> QED
  BY <1>1, <1>4, <1>6, <1>7, <1>8

WalkInv ==
  /\ heap \in Heaps
  /\ stage \in {"fields", "walking", "accepted", "refused"}
  /\ stage = "fields" => seen = {}
  /\ stage = "walking" => \E followed, ahead : Walked(heap, stack, seen, followed, ahead)
  /\ Host!WalkDecides

LEMMA WalkInit ==
  ASSUME Host!Init
  PROVE  WalkInv
  BY DEF Host!Init, WalkInv, Host!WalkDecides

\* The payload itself is ahead of everything.
LEMMA WalkStarts ==
  ASSUME NEW h
  PROVE  Walked(h, <<[value |-> "payload", depth |-> 1]>>, {}, {}, <<<<>>>>)
<1>1. <<>> \in Trails(h)
  <2>1. <<>> \in Seq(Host!Places(h)) /\ DOMAIN <<>> = {}
    BY EmptySeq
  <2> QED
    BY <2>1 DEF Trails, Host!IsRoute
<1>2. Look(h, <<>>) = [value |-> "payload", depth |-> 1]
  <2>1. Len(<<>>) + 1 = 1
    BY EmptySeq
  <2> QED
    BY <2>1 DEF Look, Host!End
<1> DEFINE top == [value |-> "payload", depth |-> 1]  first == <<>>
<1>3. top \in Looks(h)
  BY <1>1, <1>2 DEF Looks
<1> HIDE DEF top, first
<1>4. /\ <<top>> \in Seq(Looks(h)) /\ <<first>> \in Seq(Trails(h))
      /\ Len(<<top>>) = 1 /\ Len(<<first>>) = 1 /\ <<top>>[1] = top /\ <<first>>[1] = first
  BY <1>1, <1>3 DEF first
<1>5. 1..1 = {1}
  OBVIOUS
<1> DEFINE todo == <<top>>  ahead == <<first>>
<1>6. todo[1] = Look(h, ahead[1])
  BY <1>2, <1>4 DEF top, first
<1> HIDE DEF todo, ahead
<1>7. Found({}, ahead) = {first}
  BY <1>4, <1>5 DEF Found, ahead
<1>8. Walked(h, todo, {}, {}, ahead)
  BY <1>4, <1>5, <1>6, <1>7 DEF Walked, todo, ahead, first
<1> QED
  BY <1>8 DEF todo, ahead, top, first

LEMMA CheckFieldsInv ==
  ASSUME WalkInv, Host!CheckFields
  PROVE  WalkInv'
<1>1. stage = "fields" /\ heap' = heap /\ requirements' = requirements /\ inputs' = inputs /\ seen' = seen
  BY DEF Host!CheckFields
<1>2. CASE Host!InputsHold /\ Host!RequirementsHold
  <2>1. stage' = "walking" /\ stack' = <<[value |-> "payload", depth |-> 1]>> /\ seen' = {}
    BY <1>1, <1>2 DEF Host!CheckFields, WalkInv
  <2>2. Walked(heap', stack', seen', {}, <<<<>>>>)
    BY <2>1, WalkStarts
  <2> QED
    BY <1>1, <2>1, <2>2 DEF WalkInv, Host!WalkDecides
<1>3. CASE ~(Host!InputsHold /\ Host!RequirementsHold)
  <2>1. stage' = "refused"
    BY <1>3 DEF Host!CheckFields
  <2>2. Host!WalkDecides'
    BY <1>1, <1>3, <2>1 DEF Host!WalkDecides, Host!InputsHold, Host!RequirementsHold
  <2> QED
    BY <1>1, <2>1, <2>2 DEF WalkInv
<1> QED
  BY <1>2, <1>3

\* What the walk has on top of its stack.
LEMMA TopIsAhead ==
  ASSUME NEW h, NEW todo, NEW opened, NEW followed, NEW ahead, Walked(h, todo, opened, followed, ahead),
         todo # <<>>
  PROVE  /\ Len(ahead) # 0 /\ Len(todo) = Len(ahead) /\ Len(ahead) \in Nat
         /\ ahead[Len(ahead)] \in Trails(h)
         /\ Host!Last(todo).value = Host!End(h, ahead[Len(ahead)])
         /\ Host!Last(todo).depth = Len(ahead[Len(ahead)]) + 1
         /\ Host!Front(todo) = SubSeq(todo, 1, Len(ahead) - 1)
         /\ Host!Front(todo) \in Seq(Looks(h))
<1>1. /\ ahead \in Seq(Trails(h)) /\ todo \in Seq(Looks(h)) /\ Len(todo) = Len(ahead)
      /\ \A i \in 1..Len(ahead) : todo[i] = Look(h, ahead[i])
  BY DEF Walked
<1>2. Len(ahead) \in Nat /\ Len(todo) # 0
  BY <1>1, LenProperties, EmptySeq
<1>3. Len(ahead) \in 1..Len(ahead)
  BY <1>1, <1>2
<1>4. ahead[Len(ahead)] \in Trails(h)
  BY <1>1, <1>3, ElementOfSeq
<1>5. Host!Last(todo) = Look(h, ahead[Len(ahead)])
  BY <1>1, <1>3 DEF Host!Last
<1>6. Host!Front(todo) = SubSeq(todo, 1, Len(ahead) - 1) /\ Host!Front(todo) \in Seq(Looks(h))
  <2>1. Host!Front(todo) = SubSeq(todo, 1, Len(todo) - 1)
    BY DEF Host!Front
  <2>2. SubSeq(todo, 1, Len(todo) - 1) \in Seq(Looks(h))
    BY <1>1, <1>2
  <2> QED
    BY <1>1, <2>1, <2>2
<1> QED
  BY <1>1, <1>2, <1>4, <1>5, <1>6 DEF Look

LEMMA OpenContainerInv ==
  ASSUME WalkInv, Host!OpenContainer
  PROVE  WalkInv'
<1>1. PICK followed, ahead : Walked(heap, stack, seen, followed, ahead)
  BY DEF WalkInv, Host!OpenContainer
<1> DEFINE n == Len(ahead)  r == ahead[n]  v == Host!End(heap, r)
           on == [i \in DOMAIN heap[v].items |-> Child(heap, r, i)]
           looks == [i \in DOMAIN heap[v].items |-> [value |-> heap[v].items[i], depth |-> Len(r) + 2]]
<1>2. /\ n # 0 /\ n \in Nat /\ r \in Trails(heap) /\ Host!Top.value = v /\ Host!Top.depth = Len(r) + 1
      /\ Host!Front(stack) = SubSeq(stack, 1, n - 1)
  BY <1>1, TopIsAhead DEF Host!OpenContainer, Host!Top
<1>3. v = Host!End(heap, r) /\ n = Len(ahead) /\ r = ahead[n]
  OBVIOUS
<1> HIDE DEF n, r, v
<1>4. Len(r) \in Nat
  BY <1>2, LenProperties DEF Trails
<1>5. /\ stage = "walking" /\ Len(r) + 1 <= MaxDepth /\ v \in DOMAIN heap \ seen /\ heap[v].keys # "other"
      /\ seen' = seen \cup {v} /\ stage' = stage /\ heap' = heap
      /\ stack' = SubSeq(stack, 1, n - 1) \o Host!Children(v, Len(r) + 1 + 1)
  BY <1>2 DEF Host!OpenContainer, Host!IsContainer, Host!Remembers
<1>6. Len(r) < MaxDepth /\ Len(r) + 1 + 1 = Len(r) + 2
  BY <1>4, <1>5, ContentAssumption
<1>7. Host!Children(v, Len(r) + 1 + 1) = looks
  BY <1>6 DEF Host!Children
<1>8. heap[v].items \in Seq(Host!ToSet(heap[v].items))
  BY <1>5, ContentAssumption DEF WalkInv, Host!IsHeap
<1> DEFINE k == Len(heap[v].items)
<1>9. k \in Nat /\ DOMAIN heap[v].items = 1..k
  BY <1>8, LenProperties
<1>10. ASSUME NEW i \in 1..k
      PROVE  /\ [of |-> Host!End(heap, r), at |-> i] \in Host!Places(heap)
             /\ Child(heap, r, i) \in Trails(heap) /\ Len(Child(heap, r, i)) = Len(r) + 1
             /\ Child(heap, r, i) # <<>> /\ Host!Front(Child(heap, r, i)) = r
             /\ Host!End(heap, Child(heap, r, i)) = heap[v].items[i]
  <2>1. i \in DOMAIN heap[Host!End(heap, r)].items /\ Host!End(heap, r) \in DOMAIN heap /\ r \in Trails(heap)
    BY <1>2, <1>5, <1>9, <1>3
  <2>2. /\ [of |-> Host!End(heap, r), at |-> i] \in Host!Places(heap)
        /\ Child(heap, r, i) \in Trails(heap) /\ Len(Child(heap, r, i)) = Len(r) + 1
        /\ Child(heap, r, i) # <<>> /\ Host!Front(Child(heap, r, i)) = r
        /\ Host!End(heap, Child(heap, r, i)) = heap[Host!End(heap, r)].items[i]
    BY <2>1, RouteGoesOn
  <2> QED
    BY <1>3, <2>2
<1>11. \A i \in 1..k : /\ on[i] = Child(heap, r, i) /\ on[i] \in Trails(heap) /\ looks[i] = Look(heap, on[i])
                      /\ on[i] # <<>> /\ Host!Front(on[i]) = r
  <2> SUFFICES ASSUME NEW i \in 1..k
               PROVE  /\ on[i] = Child(heap, r, i) /\ on[i] \in Trails(heap) /\ looks[i] = Look(heap, on[i])
                      /\ on[i] # <<>> /\ Host!Front(on[i]) = r
    OBVIOUS
  <2>1. on[i] = Child(heap, r, i) /\ looks[i] = [value |-> heap[v].items[i], depth |-> Len(r) + 2]
    BY <1>9
  <2> HIDE DEF on, looks
  <2> QED
    BY <1>6, <1>10, <2>1 DEF Look
<1>12. \A i, j \in 1..k : i # j => on[i] # on[j]
  <2> DEFINE e(i) == [of |-> Host!End(heap, r), at |-> i]
  <2> SUFFICES ASSUME NEW i \in 1..k, NEW j \in 1..k, on[i] = on[j] PROVE i = j
    OBVIOUS
  <2>1. Child(heap, r, i) = Child(heap, r, j)
    BY <1>11
  <2>2. Append(r, e(i)) = Append(r, e(j))
    BY <2>1 DEF Child
  <2>3. r \in Seq(Host!Places(heap)) /\ e(i) \in Host!Places(heap) /\ e(j) \in Host!Places(heap)
    BY <1>2, <1>10 DEF Trails
  <2>4. e(i).at = i /\ e(j).at = j
    OBVIOUS
  <2> HIDE DEF e
  <2>5. e(i) = e(j)
    BY <2>2, <2>3, SameLast
  <2> QED
    BY <2>4, <2>5
<1>13. /\ on \in Seq(Trails(heap)) /\ Len(on) = k /\ looks \in Seq(Looks(heap)) /\ Len(looks) = k
  <2>1. DOMAIN on = 1..k /\ DOMAIN looks = 1..k /\ on = [i \in 1..k |-> on[i]] /\ looks = [i \in 1..k |-> looks[i]]
    BY <1>9
  <2>2. \A i \in 1..k : on[i] \in Trails(heap) /\ looks[i] \in Looks(heap)
    BY <1>11 DEF Looks
  <2> HIDE DEF on, looks, k
  <2>3. on \in [1..k -> Trails(heap)] /\ looks \in [1..k -> Looks(heap)]
    BY <2>1, <2>2
  <2>4. on \in Seq(Trails(heap)) /\ looks \in Seq(Looks(heap))
    BY <1>9, <2>3, SeqDef
  <2> QED
    BY <1>9, <2>1, <2>4, LenProperties
<1> HIDE DEF on, looks, k
<1>14. \A i \in DOMAIN heap[v].items : \E j \in 1..Len(on) : on[j] = Child(heap, r, i)
  BY <1>9, <1>11, <1>13
<1>15. Walked(heap, SubSeq(stack, 1, n - 1) \o looks, seen', followed \cup {r}, SubSeq(ahead, 1, n - 1) \o on)
  <2>1. /\ Len(looks) = Len(on)
        /\ \A i \in 1..Len(on) : looks[i] = Look(heap, on[i])
        /\ \A i \in 1..Len(on) : on[i] # <<>> /\ Host!Front(on[i]) = r
        /\ \A i, j \in 1..Len(on) : i # j => on[i] # on[j]
    BY <1>11, <1>12, <1>13
  <2>2. /\ Host!End(heap, r) \in DOMAIN heap \ seen /\ heap[Host!End(heap, r)].keys # "other"
        /\ seen' = seen \cup {Host!End(heap, r)}
        /\ \A i \in DOMAIN heap[Host!End(heap, r)].items : \E j \in 1..Len(on) : on[j] = Child(heap, r, i)
    BY <1>5, <1>14, <1>3
  <2>3. n = Len(ahead) /\ n # 0 /\ r = ahead[n] /\ Len(r) < MaxDepth
    BY <1>2, <1>6, <1>3
  <2> DEFINE now == seen'
  <2> HIDE DEF now
  <2>4. /\ Host!End(heap, r) \in DOMAIN heap \ seen /\ heap[Host!End(heap, r)].keys # "other"
        /\ now = seen \cup {Host!End(heap, r)}
        /\ \A i \in DOMAIN heap[Host!End(heap, r)].items : \E j \in 1..Len(on) : on[j] = Child(heap, r, i)
    BY <2>2 DEF now
  <2>5. Walked(heap, SubSeq(stack, 1, n - 1) \o looks, now, followed \cup {r}, SubSeq(ahead, 1, n - 1) \o on)
    BY <1>1, <1>13, <2>1, <2>3, <2>4, FollowingKeepsWalked
  <2> QED
    BY <2>5 DEF now
<1>16. Walked(heap', stack', seen', followed \cup {r}, SubSeq(ahead, 1, n - 1) \o on)
  BY <1>5, <1>7, <1>15
<1> QED
  BY <1>5, <1>16 DEF WalkInv, Host!WalkDecides

LEMMA PassScalarInv ==
  ASSUME WalkInv, Host!PassScalar
  PROVE  WalkInv'
<1>1. PICK followed, ahead : Walked(heap, stack, seen, followed, ahead)
  BY DEF WalkInv, Host!PassScalar
<1> DEFINE n == Len(ahead)  r == ahead[n]
<1>2. /\ n # 0 /\ n \in Nat /\ r \in Trails(heap) /\ Host!Top.value = Host!End(heap, r)
      /\ Host!Top.depth = Len(r) + 1
      /\ Host!Front(stack) = SubSeq(stack, 1, n - 1) /\ Host!Front(stack) \in Seq(Looks(heap))
  BY <1>1, TopIsAhead DEF Host!PassScalar, Host!Top
<1>3. Len(r) \in Nat
  BY <1>2, LenProperties DEF Trails
<1>4. /\ stage = "walking" /\ Len(r) + 1 <= MaxDepth /\ Host!End(heap, r) = "plain"
      /\ seen' = seen /\ stage' = stage /\ heap' = heap /\ stack' = SubSeq(stack, 1, n - 1)
  BY <1>2 DEF Host!PassScalar
<1>5. Len(r) < MaxDepth
  BY <1>3, <1>4, ContentAssumption
<1>6. "plain" \notin DOMAIN heap
  BY ContentAssumption DEF WalkInv, Host!IsHeap, Host!Scalars
<1>7. <<>> \in Seq(Trails(heap)) /\ <<>> \in Seq(Looks(heap)) /\ Len(<<>>) = 0 /\ 1..0 = {}
  BY EmptySeq
<1> HIDE DEF n, r
<1>8. Walked(heap, SubSeq(stack, 1, n - 1) \o <<>>, seen, followed \cup {r}, SubSeq(ahead, 1, n - 1) \o <<>>)
  <2>1. n = Len(ahead) /\ r = ahead[n]
    BY DEF n, r
  <2> DEFINE none == <<>>
  <2>2. none \in Seq(Trails(heap)) /\ none \in Seq(Looks(heap)) /\ Len(none) = 0 /\ 1..Len(none) = {}
    BY <1>7
  <2> HIDE DEF none
  <2>3. Walked(heap, SubSeq(stack, 1, n - 1) \o none, seen, followed \cup {r}, SubSeq(ahead, 1, n - 1) \o none)
    BY <1>1, <1>2, <1>4, <1>5, <1>6, <2>1, <2>2, FollowingKeepsWalked
  <2> QED
    BY <2>3 DEF none
<1>9. SubSeq(stack, 1, n - 1) \o <<>> = SubSeq(stack, 1, n - 1)
  BY <1>2, ConcatEmptySeq
<1>10. Walked(heap', stack', seen', followed \cup {r}, SubSeq(ahead, 1, n - 1) \o <<>>)
  BY <1>4, <1>8, <1>9
<1> QED
  BY <1>4, <1>10 DEF WalkInv, Host!WalkDecides

LEMMA RefuseInv ==
  ASSUME WalkInv, Host!Refuse
  PROVE  WalkInv'
<1>1. PICK followed, ahead : Walked(heap, stack, seen, followed, ahead)
  BY DEF WalkInv, Host!Refuse
<1> DEFINE n == Len(ahead)  r == ahead[n]
<1>2. /\ n # 0 /\ r \in Trails(heap) /\ Host!Top.value = Host!End(heap, r) /\ Host!Top.depth = Len(r) + 1
  BY <1>1, TopIsAhead DEF Host!Refuse, Host!Top
<1>3. Len(r) \in Nat
  BY <1>2, LenProperties DEF Trails
<1>4. /\ stage' = "refused" /\ heap' = heap
      /\ \/ Len(r) + 1 > MaxDepth
         \/ Host!End(heap, r) \in DOMAIN heap
            /\ (Host!End(heap, r) \in seen \/ heap[Host!End(heap, r)].keys = "other")
         \/ Host!End(heap, r) \notin DOMAIN heap /\ Host!End(heap, r) # "plain"
  BY <1>2 DEF Host!Refuse, Host!IsContainer
<1>5. Len(r) + 1 > MaxDepth => Len(r) >= MaxDepth
  BY <1>3, ContentAssumption
<1> HIDE DEF n, r
<1>6. ~Host!IsTree(heap)
  BY <1>1, <1>2, <1>4, <1>5, RefusedIsNoTree DEF n, r
<1> QED
  BY <1>4, <1>6 DEF WalkInv, Host!WalkDecides

LEMMA AcceptInv ==
  ASSUME WalkInv, Host!Accept
  PROVE  WalkInv'
<1>1. stage = "walking" /\ stack = <<>> /\ stage' = "accepted" /\ heap' = heap
  BY DEF Host!Accept
<1>2. PICK followed, ahead : Walked(heap, <<>>, seen, followed, ahead)
  BY <1>1 DEF WalkInv
<1>3. ahead = <<>>
  <2>1. ahead \in Seq(Trails(heap)) /\ Len(<<>>) = Len(ahead)
    BY <1>2 DEF Walked
  <2> QED
    BY <2>1, EmptySeq
<1>4. Host!IsTree(heap)
  BY <1>2, <1>3, WalkedIsTree
<1> QED
  BY <1>1, <1>4 DEF WalkInv, Host!WalkDecides

LEMMA WalkNextInv ==
  ASSUME WalkInv, Host!Next \/ UNCHANGED submitting
  PROVE  WalkInv'
<1>1. CASE UNCHANGED submitting
  <2>1. /\ heap' = heap /\ requirements' = requirements /\ inputs' = inputs
        /\ stack' = stack /\ seen' = seen /\ stage' = stage
    BY <1>1 DEF submitting
  <2>2. Host!WalkDecides'
    BY <2>1 DEF WalkInv, Host!WalkDecides, Host!InputsHold, Host!RequirementsHold
  <2> QED
    BY <2>1, <2>2 DEF WalkInv
<1>2. CASE Host!Next
  BY <1>2, CheckFieldsInv, OpenContainerInv, PassScalarInv, RefuseInv, AcceptInv DEF Host!Next
<1> QED
  BY <1>1, <1>2

\* The gate among the others, where no submission is walked.
HostInv == IF gate = "submission" THEN WalkInv ELSE stage = Aside

LEMMA HostInvariance ==
  ContentSpec => []HostInv
<1>1. ContentInit => HostInv
  BY WalkInit DEF ContentInit, NoSubmission, HostInv
<1>2. HostInv /\ [ContentNext]_content => HostInv'
  <2> SUFFICES ASSUME HostInv, [ContentNext]_content PROVE HostInv'
    OBVIOUS
  <2>1. gate' = gate /\ (gate = "submission" => Host!Next \/ UNCHANGED submitting)
                     /\ (gate # "submission" => UNCHANGED submitting)
    BY DEF ContentNext, SubmissionStep, PluginStep, RecipeStep, Through, content
  <2>2. CASE gate = "submission"
    BY <2>1, <2>2, WalkNextInv DEF HostInv
  <2>3. CASE gate # "submission"
    BY <2>1, <2>3 DEF HostInv, submitting
  <2> QED
    BY <2>2, <2>3
<1> QED
  BY <1>1, <1>2, PTL DEF ContentSpec

(* WalkDecides: whatever containers a payload shares, repeats or contains  *)
(* in themselves, what is accepted is a JSON tree of bounded depth, and    *)
(* what is refused for its payload is none.                                *)
THEOREM TreesAreDecided == ContentSpec => []WalkDecides
<1>1. HostInv => WalkDecides
  BY DEF HostInv, WalkInv, WalkDecides, Host!WalkDecides, Aside
<1> QED
  BY <1>1, HostInvariance, PTL
=============================================================================
