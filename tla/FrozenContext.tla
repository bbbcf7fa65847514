--------------------------- MODULE FrozenContext ---------------------------
(***************************************************************************)
(* ict plan resolves a request once: it asks for what is missing,          *)
(* normalizes and validates the rest, and writes a context file.  Review,  *)
(* apply and destroy later read that file and run Terraform with the       *)
(* values in it, so whatever plan writes must be readable and nothing else *)
(* may be.  Between the two the file is in the caller's hands.             *)
(*                                                                         *)
(* A text is what the code tells apart: which identifier it holds, 0 for   *)
(* none, and whether blanks surround it.  A pattern is the set of          *)
(* identifiers that match it; the patterns of zones, datacenters, flavors  *)
(* and VLANs are one.  A digest is the values it is the digest of.         *)
(***************************************************************************)
EXTENDS ClusterName, Integers, Sequences, FiniteSets
LOCAL INSTANCE SequencesExt

CONSTANTS
    Supplied,        \* the requests callers make
    Targets,         \* the targets the configuration has
    Offered,         \* the providers of each target
    Profile,         \* the endpoints of each target, "" for none
    DefaultRegion,   \* the region of each target
    Environments,    \* the endpoint variables of a process's environment
    StateIds, Backends,
    MaxId,           \* identifiers of texts are 0..MaxId
    Wellformed,      \* the identifiers that match the patterns
    RegionOf,        \* the region of each identifier that is a zone
    OfferedIds,      \* what IBM Cloud lists for a prompt
    OfferedZones,    \* the zones it lists
    OfferedKeys,     \* the public keys in ~/.ssh
    DefaultProfile   \* the host profile satelliteDefaults fills in

ASSUME ContextAssumption ==
    /\ MaxId \in Nat
    /\ Wellformed \cup OfferedIds \cup OfferedKeys \subseteq 1..MaxId
    /\ OfferedZones \cup {DefaultProfile} \subseteq Wellformed
    /\ Offered \in [Targets -> SUBSET {"vpc-gen2", "classic", "satellite"}]

VARIABLES
    supplied,    \* the Inputs plan was called with
    in,          \* the Inputs as resolve has completed them so far
    environ,     \* the endpoint variables of the plan process
    step,
    asked,       \* the last prompt of PromptOrder that discover has asked
    frozen,      \* the PlanResult plan wrote
    context,     \* the PlanResult in the context file
    terraform    \* what a later operation runs Terraform with

vars == <<supplied, in, environ, step, asked, frozen, context, terraform>>

-----------------------------------------------------------------------------
(* Texts and lists of identifiers *)

Text == [id : 0..MaxId, pad : BOOLEAN]
Empty == [id |-> 0, pad |-> FALSE]
Id(i) == [id |-> i, pad |-> FALSE]

TrimSpace(t) == Id(t.id)
IsBlank(t) == t # Empty /\ TrimSpace(t) = Empty
Matches(t) == ~t.pad /\ t.id \in Wellformed

\* Inputs, as far as plan reads it.
TextFields == {"group", "zone", "flavor", "vpc", "datacenter", "machineType", "vlan",
               "managedFrom", "location", "image", "profile", "keyPath", "key"}
ListFields == {"subnets", "gateways", "zones", "workers"}
NameFields == {"prefix", "name", "owner"}
OtherFields == {"target", "provider", "platform", "version", "headlamp", "privateOnly",
                "policy", "count", "vpcRegion", "os"}

IsRequest(r) ==
    /\ TextFields \cup ListFields \cup NameFields \cup OtherFields \subseteq DOMAIN r
    /\ \A f \in TextFields : r[f] \in Text
    /\ \A f \in ListFields : r[f] \in Seq(Text)
    /\ \A f \in NameFields : r[f] \in RawTexts
    /\ r.count \in Int

ASSUME RequestAssumption == \A r \in Supplied : IsRequest(r)

IdsOf(list) == {list[i].id : i \in DOMAIN list}

\* normalizeIDList refuses a blank entry and an entry twice; it trims and sorts.
GoodList(list) == 0 \notin IdsOf(list) /\ Cardinality(IdsOf(list)) = Len(list)

\* The identifiers in order: before the one at i there are i - 1.
Sorted(ids) ==
    [i \in 1..Cardinality(ids) |-> Id(CHOOSE x \in ids : Cardinality({y \in ids : y < x}) = i - 1)]

NormalizeIDList(list) == Sorted(IdsOf(list))

\* A version is its first two numbers and what follows them.
NoVersion == [minor |-> "", rest |-> ""]

\* A version keeps its two numbers and takes the suffix of the platform.
NormalizeVersion(platform, version) ==
    [minor |-> version.minor, rest |-> IF platform = "openshift" THEN "_openshift" ELSE ""]

NoKey == [blob |-> 0, comment |-> 0]
Key(i) == [blob |-> i, comment |-> i]

\* The fingerprint is of the key's blob: it does not see the comment.
Fingerprint(key) == key.blob

Mode(provider) == IF provider = "vpc-gen2" THEN "vpc" ELSE provider
Provider(mode) == IF mode = "vpc" THEN "vpc-gen2" ELSE mode

-----------------------------------------------------------------------------
(* Reuse of existing networks, locations, keys and workers: r is a request *)
(* or the values of a context.                                             *)

VPCReuseOK(provider, r) ==
    IF provider = "classic"
    THEN r.vpc = Empty /\ r.subnets = <<>> /\ r.gateways = <<>>
    ELSE LET counts == IF provider = "satellite" THEN {0, 3} ELSE {0, 1} IN
         /\ ~IsBlank(r.vpc)
         /\ \A list \in {r.subnets, r.gateways} : GoodList(list) /\ Len(list) \in counts

NormalizeVPCReuse(provider, r) ==
    IF provider = "classic" THEN r
    ELSE [r EXCEPT !.vpc = TrimSpace(@), !.subnets = NormalizeIDList(@),
                   !.gateways = NormalizeIDList(@)]

\* Mutant: a location may come with a place to manage one from.
SatelliteReuseUnchecked(provider, r) ==
    IF provider # "satellite"
    THEN r.location = Empty /\ r.key = Empty /\ r.workers = <<>>
    ELSE /\ ~IsBlank(r.location) /\ ~IsBlank(r.key) /\ GoodList(r.workers)
         /\ r.workers # <<>> => r.location # Empty /\ TrimSpace(r.key) = Empty

SatelliteReuseOK(provider, r) ==
    IF provider # "satellite"
    THEN r.location = Empty /\ r.key = Empty /\ r.workers = <<>>
    ELSE /\ ~IsBlank(r.location) /\ ~IsBlank(r.key) /\ GoodList(r.workers)
         /\ r.location # Empty => TrimSpace(r.managedFrom) = Empty
         /\ r.key # Empty => TrimSpace(r.keyPath) = Empty
         /\ r.workers # <<>> =>
              /\ r.location # Empty
              /\ r.vpc = Empty /\ r.subnets = <<>> /\ r.gateways = <<>>
              /\ \A t \in {r.key, r.keyPath, r.image, r.profile} : TrimSpace(t) = Empty

NormalizeSatelliteReuse(provider, r) ==
    IF provider # "satellite" THEN r
    ELSE [r EXCEPT !.location = TrimSpace(@), !.key = TrimSpace(@),
                   !.workers = NormalizeIDList(@)]

Normalize(provider, r) == NormalizeSatelliteReuse(provider, NormalizeVPCReuse(provider, r))

ReuseOK(provider, r) ==
    VPCReuseOK(provider, r) /\ SatelliteReuseOK(provider, NormalizeVPCReuse(provider, r))

\* satelliteRegion: three distinct zones of one region.
ZonesOK(zones) ==
    /\ Len(zones) = 3
    /\ \A i \in 1..3 : Matches(zones[i])
    /\ Cardinality(IdsOf(zones)) = 3
    /\ \A i \in 1..3 : RegionOf[zones[i].id] = RegionOf[zones[1].id]

-----------------------------------------------------------------------------
(* Endpoints: "iam" stands for the five every target needs *)

Services == {"iam", "vpc", "satellite"}
Unset == [s \in Services |-> ""]

Required(providers) ==
    {"iam"} \cup (IF providers \cap {"vpc-gen2", "satellite"} # {} THEN {"vpc"} ELSE {})
            \cup (IF "satellite" \in providers THEN {"satellite"} ELSE {})

ResolveTarget(target, env) ==
    [s \in Services |-> IF env[s] # "" THEN env[s] ELSE Profile[target][s]]

EndpointsOK(providers, endpoints) ==
    /\ \A s \in Required(providers) : endpoints[s] # ""
    /\ \A s \in Services : endpoints[s] # "malformed"

\* A subprocess gets the process's variables, overridden by the frozen ones.
Environment(env, endpoints) ==
    [s \in Services |-> IF endpoints[s] # "" THEN endpoints[s] ELSE env[s]]

-----------------------------------------------------------------------------
(* What a request lacks and what plan asks for *)

Common == {"platform", "version", "group"}

RequiredFields(provider) ==
    Common \cup (CASE provider = "vpc-gen2" -> {"zone", "flavor"}
                   [] provider = "classic" -> {"datacenter", "machineType", "vlan"}
                   [] provider = "satellite" -> {"image", "managedFrom", "keyPath", "zones"})

Absent(i, f) ==
    CASE f \in {"platform", "os"} -> i[f] = ""
      [] f = "version" -> i.version = NoVersion
      [] f = "zones" -> Len(i.zones) # 3
      [] f = "managedFrom" -> i.location = Empty /\ i.managedFrom = Empty
      [] f \in {"image", "profile"} -> i.workers = <<>> /\ i[f] = Empty
      [] f = "keyPath" -> i.workers = <<>> /\ i.key = Empty /\ i.keyPath = Empty
      [] OTHER -> i[f] = Empty

MissingFields(i) == {f \in RequiredFields(i.provider) : Absent(i, f)}

\* discover asks in this order; it has no prompt for a VLAN.
PromptOrder(provider) ==
    <<"platform", "group", "version">> \o
    (CASE provider = "vpc-gen2" -> <<"zone", "flavor">>
       [] provider = "classic" -> <<"datacenter", "machineType">>
       [] provider = "satellite" ->
            <<"managedFrom", "zones", "profile", "os", "image", "keyPath">>)

\* SelectMany returns the lines the user marks, in the order they are listed.
ZoneChoices ==
    LET InRegion(z) == {y \in OfferedZones : RegionOf[y] = RegionOf[z]}
        chosen == UNION {SUBSET InRegion(z) \ {{}} : z \in OfferedZones}
    IN {Sorted(c) : c \in chosen}

Answers(i, f) ==
    CASE f = "platform" -> IF i.provider = "satellite" THEN {"openshift"}
                           ELSE {"kubernetes", "openshift"}
      [] f = "version" -> {[minor |-> "1.31", rest |-> ".2"]}
      [] f = "os" -> {"RHCOS", "REDHAT_8_64"}
      [] f = "zone" -> {Id(z) : z \in OfferedZones}
      [] f = "zones" -> ZoneChoices
      [] f = "keyPath" -> IF OfferedKeys = {} THEN {Empty} ELSE {Id(k) : k \in OfferedKeys}
      [] OTHER -> {Id(k) : k \in OfferedIds}

-----------------------------------------------------------------------------
(* From a request to the frozen values *)

\* Mutant: the default operating system replaces the one given.
SatelliteDefaultsAlways(i) ==
    [i EXCEPT !.profile = IF i.workers = <<>> /\ @ = Empty THEN Id(DefaultProfile) ELSE @,
              !.os = "RHCOS"]

SatelliteDefaults(i) ==
    [i EXCEPT !.profile = IF i.workers = <<>> /\ @ = Empty THEN Id(DefaultProfile) ELSE @,
              !.os = IF @ = "" THEN "RHCOS" ELSE @]

MinimumWorkers(i) ==
    IF i.platform = "openshift" /\ i.provider # "satellite" THEN 2 ELSE 1

Workers(i) == IF i.count = 0 THEN MinimumWorkers(i) ELSE i.count

ResolvesVPC(i) ==
    /\ Matches(i.zone) /\ Matches(i.flavor)
    /\ i.vpcRegion \in {"", RegionOf[i.zone.id]}
    /\ i.policy # "invalid"
    /\ i.privateOnly => i.policy = "valid"

ResolvesClassic(i) == Matches(i.datacenter) /\ Matches(i.machineType) /\ Matches(i.vlan)

ResolvesSatellite(i) ==
    /\ Workers(i) \in {1, 3}
    /\ ZonesOK(i.zones)
    /\ IF i.workers # <<>> THEN Len(i.workers) = Workers(i) ELSE Matches(i.profile)
    /\ i.os \in {"RHCOS", "REDHAT_8_64"}
    /\ i.workers = <<>> /\ i.key = Empty => Matches(i.keyPath)

Resolves(i) ==
    /\ i.platform \in {"kubernetes", "openshift"}
    /\ i.headlamp => i.platform = "kubernetes" /\ i.provider # "satellite"
    /\ i.version.minor # "malformed"
    /\ TrimSpace(i.group) # Empty
    /\ i.privateOnly => i.provider = "vpc-gen2"
    /\ Workers(i) >= MinimumWorkers(i)
    /\ CASE i.provider = "vpc-gen2" -> ResolvesVPC(i)
         [] i.provider = "classic" -> ResolvesClassic(i)
         [] i.provider = "satellite" -> ResolvesSatellite(i)
    /\ EndpointsOK(Offered[i.target], ResolveTarget(i.target, environ))

ClusterNames(i) ==
    {n \in ResolveName(i.prefix, i.name, i.owner, Limits[Mode(i.provider)]) :
        MatchesCluster(Mode(i.provider), n)}

SatelliteFields == {"zones", "managedFrom", "location", "image", "profile",
                    "publicKey", "key", "workers", "os"}

\* The fields of Values that have the type of a request's field of the same name.
Zero == [platform |-> "", version |-> NoVersion, group |-> Empty, headlamp |-> FALSE,
         privateOnly |-> FALSE, policy |-> "none", count |-> 0,
         zone |-> Empty, flavor |-> Empty, vpcRegion |-> "",
         vpc |-> Empty, subnets |-> <<>>, gateways |-> <<>>,
         datacenter |-> Empty, machineType |-> Empty, vlan |-> Empty,
         zones |-> <<>>, managedFrom |-> Empty, location |-> Empty, image |-> Empty,
         profile |-> Empty, publicKey |-> NoKey, key |-> Empty, workers |-> <<>>, os |-> "",
         mode |-> "", region |-> "", name |-> [len |-> 0, lead |-> "other", clean |-> TRUE]]

\* The request's fields that resolve copies into the values of a mode.
Copied(mode) ==
    {"platform", "group"} \cup
    (CASE mode = "vpc" -> {"privateOnly", "headlamp", "policy", "zone", "flavor",
                           "vpcRegion", "vpc", "subnets", "gateways"}
       [] mode = "classic" -> {"headlamp", "datacenter", "machineType", "vlan"}
       [] mode = "satellite" -> {"vpc", "subnets", "gateways"}
                                \cup (SatelliteFields \ {"publicKey"}))

ValuesOf(i, name) ==
    LET mode == Mode(i.provider)
        copy == [f \in DOMAIN Zero |-> IF f \in Copied(mode) THEN i[f] ELSE Zero[f]]
    IN [copy EXCEPT
          !.mode = mode, !.name = name,
          !.version = NormalizeVersion(i.platform, i.version),
          !.count = Workers(i),
          !.region = CASE mode = "vpc" -> RegionOf[i.zone.id]
                       [] mode = "classic" -> DefaultRegion[i.target]
                       [] mode = "satellite" -> RegionOf[i.zones[1].id],
          !.publicKey = IF mode = "satellite" /\ i.workers = <<>> /\ i.key = Empty
                        THEN Key(i.keyPath.id) ELSE NoKey]

\* Mutant: the recovery values keep the public key.
PlanResultWithKey(id, backend, values, endpoints) ==
    [id |-> id, backend |-> backend, values |-> values, recovery |-> values,
     fingerprint |-> Fingerprint(values.publicKey),
     digest |-> values, endpoints |-> endpoints]

\* newRecoveryContext and the PlanResult around it.
PlanResult(id, backend, values, endpoints) ==
    [id |-> id, backend |-> backend, values |-> values,
     recovery |-> [values EXCEPT !.publicKey = NoKey],
     fingerprint |-> Fingerprint(values.publicKey),
     digest |-> values, endpoints |-> endpoints]

-----------------------------------------------------------------------------
(* Reading a context *)

\* emptyValues: the fields of the other modes.
Foreign(mode) ==
    CASE mode = "vpc" -> {"datacenter", "machineType", "vlan"} \cup SatelliteFields
      [] mode = "classic" -> {"policy", "zone", "flavor", "vpcRegion", "vpc", "subnets",
                              "gateways"} \cup SatelliteFields
      [] mode = "satellite" -> {"policy", "zone", "flavor", "vpcRegion", "datacenter",
                                "machineType", "vlan"}

\* What the reuse rules are given of the values; they have no path, image or profile.
AsReused(v) ==
    [f \in DOMAIN v \cup {"keyPath"} |->
        IF f \in {"image", "profile", "keyPath"} THEN Empty ELSE v[f]]

ValidReuse(mode, v) ==
    /\ ReuseOK(Provider(mode), AsReused(v))
    /\ Normalize(Provider(mode), AsReused(v)) = AsReused(v)

ValidVPC(v, fingerprint) ==
    /\ Matches(v.zone) /\ v.region = RegionOf[v.zone.id] /\ v.vpcRegion \in {"", v.region}
    /\ Matches(v.flavor)
    /\ VPCReuseOK("vpc-gen2", v) /\ NormalizeVPCReuse("vpc-gen2", v) = v
    /\ fingerprint = 0

ValidClassic(v, fingerprint) ==
    /\ ~v.privateOnly
    /\ Matches(v.datacenter) /\ Matches(v.machineType) /\ Matches(v.vlan)
    /\ fingerprint = 0

ValidSatellite(v, fingerprint) ==
    /\ ~v.privateOnly
    /\ ZonesOK(v.zones) /\ v.region = RegionOf[v.zones[1].id]
    /\ v.platform = "openshift"
    /\ IF v.location # Empty THEN v.managedFrom = Empty ELSE TrimSpace(v.managedFrom) # Empty
    /\ IF v.workers # <<>>
       THEN v.image = Empty /\ v.profile = Empty /\ v.key = Empty /\ fingerprint = 0
       ELSE /\ TrimSpace(v.image) # Empty /\ Matches(v.profile)
            /\ fingerprint = 0 <=> v.key # Empty
    /\ v.os \in {"RHCOS", "REDHAT_8_64"}
    /\ v.publicKey = NoKey
    /\ v.count \in {1, 3}
    /\ v.workers # <<>> => Len(v.workers) = v.count
    /\ ValidReuse("satellite", v)

\* validateRecoveryValues
ValidRecovery(v, fingerprint) ==
    /\ v.policy # "invalid"
    /\ TrimSpace(v.group) # Empty
    /\ v.count >= 1
    /\ v.platform \in {"kubernetes", "openshift"}
    /\ v.headlamp => v.platform = "kubernetes" /\ v.mode # "satellite"
    /\ v.version.minor # "malformed" /\ v.version = NormalizeVersion(v.platform, v.version)
    /\ CASE v.mode = "vpc" -> ValidVPC(v, fingerprint)
         [] v.mode = "classic" -> ValidClassic(v, fingerprint)
         [] v.mode = "satellite" -> ValidSatellite(v, fingerprint)
    /\ MatchesCluster(v.mode, v.name)
    /\ \A f \in Foreign(v.mode) : v[f] = Zero[f]

\* Mutant: the fingerprint is not that of the key.
DerivesAnyFingerprint(v, fingerprint) ==
    v.mode = "satellite" =>
        /\ VPCReuseOK("satellite", v)
        /\ v.workers = <<>> /\ v.key = Empty <=> v.publicKey # NoKey

\* recoveryValuesFromTFVars: what may be derived from the values, and what is.
DerivesRecovery(v, fingerprint) ==
    v.mode = "satellite" =>
        /\ VPCReuseOK("satellite", v)
        /\ IF v.workers = <<>> /\ v.key = Empty
           THEN v.publicKey # NoKey /\ Fingerprint(v.publicKey) = fingerprint
           ELSE v.publicKey = NoKey /\ fingerprint = 0

RecoveryValues(v) ==
    IF v.mode = "satellite"
    THEN [NormalizeVPCReuse("satellite", v) EXCEPT !.publicKey = NoKey]
    ELSE v

\* Mutant: the digest is not compared.
ReadableWithoutDigest(c) ==
    /\ ValidRecovery(c.recovery, c.fingerprint)
    /\ EndpointsOK({Provider(c.recovery.mode)}, c.endpoints)
    /\ DerivesRecovery(c.values, c.fingerprint)
    /\ RecoveryValues(c.values) = c.recovery

\* ReadPlanResult
Readable(c) ==
    /\ ValidRecovery(c.recovery, c.fingerprint)
    /\ EndpointsOK({Provider(c.recovery.mode)}, c.endpoints)
    /\ DerivesRecovery(c.values, c.fingerprint)
    /\ RecoveryValues(c.values) = c.recovery
    /\ c.digest = c.values

\* loadOperationContext
Loads(c, id, backend) == Readable(c) /\ c.id = id /\ c.backend = backend

-----------------------------------------------------------------------------
NoContext == [id |-> "none"]
NoTerraform == [id |-> "none"]

Init ==
    /\ supplied \in Supplied
    /\ in = supplied
    /\ environ \in Environments
    /\ step = "select" /\ asked = 0
    /\ frozen = NoContext /\ context = NoContext /\ terraform = NoTerraform

Refuse ==
    /\ step' = "refused"
    /\ UNCHANGED <<supplied, in, environ, asked, frozen, context, terraform>>

\* The user picks a target that offers the provider asked for, then a provider of it.
SelectTarget ==
    /\ step = "select" /\ in.target = ""
    /\ \E t \in Targets :
         /\ in.provider # "" => in.provider \in Offered[t]
         /\ in' = [in EXCEPT !.target = t]
    /\ UNCHANGED <<supplied, environ, step, asked, frozen, context, terraform>>

SelectProvider ==
    /\ step = "select" /\ in.target \in Targets /\ in.provider = ""
    /\ \E p \in Offered[in.target] : in' = [in EXCEPT !.provider = p]
    /\ UNCHANGED <<supplied, environ, step, asked, frozen, context, terraform>>

\* No terminal, no fzf, no candidate or no answer; or a target that does not exist.
SelectFails ==
    /\ step = "select"
    /\ in.target = "" \/ in.provider = "" \/ in.target \notin Targets
    /\ Refuse

Selected == step = "select" /\ in.target \in Targets /\ in.provider # ""

Acceptable(i) ==
    /\ i.provider \in Offered[i.target]
    /\ ReuseOK(i.provider, i)
    /\ i.provider = "satellite" => i.platform \in {"", "openshift"}

NormalizeInputs ==
    /\ Selected /\ Acceptable(in)
    /\ in' = Normalize(in.provider, in)
    /\ IF MissingFields(in') = {}
       THEN step' = "resolve" ELSE step' = "discover"
    /\ UNCHANGED <<supplied, environ, asked, frozen, context, terraform>>

NormalizeFails == Selected /\ ~Acceptable(in) /\ Refuse

\* discover resolves the target after the platform and before it asks IBM Cloud.
Discovers == EndpointsOK(Offered[in.target], ResolveTarget(in.target, environ))

\* What is still to be asked: each field is looked at when its turn comes.
Open == {k \in DOMAIN PromptOrder(in.provider) :
            asked < k /\ Absent(in, PromptOrder(in.provider)[k])}

Prompt ==
    /\ step = "discover"
    /\ \E k \in Open :
         LET f == PromptOrder(in.provider)[k] IN
         /\ \A j \in Open : k <= j
         /\ f # "platform" => Discovers
         /\ \E answer \in Answers(in, f) : in' = [in EXCEPT ![f] = answer]
         /\ asked' = k
    /\ UNCHANGED <<supplied, environ, step, frozen, context, terraform>>

\* Not a terminal, the listing fails, the user leaves, or the target does not resolve.
PromptFails == step = "discover" /\ Open # {} /\ Refuse

Discovered ==
    /\ step = "discover" /\ Open = {} /\ Discovers /\ MissingFields(in) = {}
    /\ step' = "resolve"
    /\ UNCHANGED <<supplied, in, environ, asked, frozen, context, terraform>>

StillMissing ==
    /\ step = "discover" /\ Open = {}
    /\ MissingFields(in) # {} \/ ~Discovers
    /\ Refuse

Completed == IF in.provider = "satellite" THEN SatelliteDefaults(in) ELSE in

\* Mutant: a failed write of the result is taken for a success.
FreezeUnwritten ==
    /\ step = "resolve" /\ Resolves(Completed)
    /\ \E name \in ClusterNames(Completed), id \in StateIds, backend \in Backends :
         frozen' = PlanResult(id, backend, ValuesOf(Completed, name),
                              ResolveTarget(in.target, environ))
    /\ in' = Completed
    /\ step' = "written"
    /\ UNCHANGED <<supplied, environ, asked, context, terraform>>

Freeze ==
    /\ step = "resolve" /\ Resolves(Completed)
    /\ \E name \in ClusterNames(Completed), id \in StateIds, backend \in Backends :
         frozen' = PlanResult(id, backend, ValuesOf(Completed, name),
                              ResolveTarget(in.target, environ))
    /\ in' = Completed
    /\ context' = frozen'
    /\ step' = "written"
    /\ UNCHANGED <<supplied, environ, asked, terraform>>

FreezeFails ==
    /\ step = "resolve"
    /\ ~Resolves(Completed) \/ ClusterNames(Completed) = {}
    /\ Refuse

\* The file changes in one part on its way: it is damaged, or put together from
\* two plans.  Altered are the values of plans that differ in one field.
Altered(v) ==
    ({[v EXCEPT !.count = n] : n \in 1..3} \cup {[v EXCEPT !.subnets = Reverse(@)]}
     \cup (IF v.publicKey = NoKey THEN {}
           ELSE {[v EXCEPT !.publicKey.comment = @ + 1], [v EXCEPT !.publicKey.blob = @ + 1]}))
    \ {v}

Change(changed) ==
    /\ step = "written" /\ step' = "changed"
    /\ context' = changed
    /\ UNCHANGED <<supplied, in, environ, asked, frozen, terraform>>

ChangeValues == \E v \in Altered(context.values) : Change([context EXCEPT !.values = v])
ChangeRecovery == \E v \in Altered(context.recovery) : Change([context EXCEPT !.recovery = v])
ChangeDigest == \E v \in Altered(context.digest) : Change([context EXCEPT !.digest = v])
ChangeFingerprint ==
    \E f \in {0, context.fingerprint + 1} \ {context.fingerprint} :
        Change([context EXCEPT !.fingerprint = f])

InFile == step \in {"written", "changed"}

\* review, apply or destroy: loadOperationContext, and the subprocess it leads to.
Load ==
    /\ InFile
    /\ \E id \in StateIds, backend \in Backends, env \in Environments :
         /\ Loads(context, id, backend)
         /\ terraform' = [id |-> id, backend |-> backend, values |-> context.values,
                          environ |-> Environment(env, context.endpoints)]
    /\ step' = "running"
    /\ UNCHANGED <<supplied, in, environ, asked, frozen, context>>

LoadFails ==
    /\ InFile
    /\ \E id \in StateIds, backend \in Backends : ~Loads(context, id, backend)
    /\ Refuse

Select == SelectTarget \/ SelectProvider \/ SelectFails
Discover == Prompt \/ PromptFails \/ Discovered \/ StillMissing
Resolve == NormalizeInputs \/ NormalizeFails \/ Discover \/ Freeze \/ FreezeFails
Handle == ChangeValues \/ ChangeRecovery \/ ChangeDigest \/ ChangeFingerprint
Operate == Load \/ LoadFails

Next == Select \/ Resolve \/ (InFile /\ Handle) \/ Operate

Spec == Init /\ [][Next]_vars

-----------------------------------------------------------------------------
(* Properties *)

\* The variables keep their types, and there is a context exactly once plan wrote one.
TypeOK ==
    /\ step \in {"select", "discover", "resolve", "refused", "written", "changed", "running"}
    /\ asked \in Nat
    /\ (InFile \/ step = "running") => /\ DOMAIN frozen = DOMAIN context
                                       /\ DOMAIN frozen.values = DOMAIN Zero
    /\ step \in {"select", "discover", "resolve"} => context = NoContext
    /\ terraform # NoTerraform => step = "running"

\* Texts resolve copies as they are and validateRecoveryValues wants trimmed away.
BlankLeft(v) ==
    v.mode = "satellite" /\ \E t \in {v.managedFrom, v.image, v.profile} : IsBlank(t)

\* The two validations agree: what plan accepts and freezes (resolve,
\* newRecoveryContext) the later commands can read (ReadPlanResult), except that a
\* Satellite text of only blanks passes the first and never the second.
WrittenIsReadable == step = "written" => (Readable(context) <=> ~BlankLeft(context.values))

\* Terraform runs only with the values, identifier and backend plan froze: a context
\* changed in one part, or brought to another operation or backend, is refused before
\* Terraform starts (ReadPlanResult, loadOperationContext).
OnlyFrozen ==
    step = "running" =>
        /\ terraform.values = frozen.values
        /\ terraform.id = frozen.id
        /\ terraform.backend = frozen.backend

\* A context is read whole or not at all: no part that validation looks at can differ
\* from what plan wrote, not even one that Terraform does not see, like the fingerprint
\* of the public key (ReadPlanResult, recoveryValuesFromTFVars).
OnlyWhole == step = "running" => context = frozen

\* Neither prompts nor defaults replace what the caller gave.  Of the fields the provider
\* reads, what the caller supplied is what is frozen, at most trimmed, sorted or cut to the
\* first two numbers of a version (discover, satelliteDefaults, normalizeIDList,
\* normalizeVersion, Provision).  The one exception is a list of zones that is not of three:
\* plan asks for the zones again and freezes what the user picks (workflow.go:1219-1230).
SuppliedIsKept ==
    frozen # NoContext =>
        LET v == frozen.values IN
        /\ supplied.provider # "" => v.mode = Mode(supplied.provider)
        /\ supplied.platform \in {"", v.platform}
        /\ supplied.version # NoVersion =>
             v.version = NormalizeVersion(v.platform, supplied.version)
        /\ supplied.count \in {0, v.count}
        /\ supplied.os # "" /\ v.mode = "satellite" => v.os = supplied.os
        /\ \A f \in {"headlamp", "privateOnly", "policy", "vpcRegion"} \cap Copied(v.mode) :
             v[f] = supplied[f]
        /\ \A f \in {"group", "zone", "flavor", "datacenter", "machineType", "vlan",
                     "managedFrom", "location", "image", "profile", "key", "vpc"}
                  \cap Copied(v.mode) :
             TrimSpace(supplied[f]) # Empty => TrimSpace(v[f]) = TrimSpace(supplied[f])
        /\ \A f \in {"subnets", "gateways", "workers"} \cap Copied(v.mode) :
             IdsOf(supplied[f]) = IdsOf(v[f]) /\ Len(supplied[f]) = Len(v[f])
        /\ v.mode = "satellite" =>
             /\ TrimSpace(supplied.keyPath) # Empty => v.publicKey = Key(supplied.keyPath.id)
             /\ Len(supplied.zones) = 3 => v.zones = supplied.zones
             /\ Len(supplied.zones) # 3 => v.zones \in ZoneChoices

\* A frozen Satellite plan has one source for each thing it needs, whether it was
\* supplied, prompted for or defaulted: a location reused or one to manage from, and
\* workers reused, a key reused or a key to create, with images, profiles and networks
\* only for workers that are created (normalizeSatelliteReuseInputs, discover).
OneSource ==
    frozen # NoContext /\ frozen.values.mode = "satellite" =>
        LET v == frozen.values
            Given(t) == TrimSpace(t) # Empty
        IN ~BlankLeft(v) =>
             /\ Given(v.location) # Given(v.managedFrom)
             /\ IF v.workers # <<>>
                THEN /\ Given(v.location) /\ Len(v.workers) = v.count
                     /\ \A t \in {v.image, v.profile, v.key, v.vpc} : ~Given(t)
                     /\ v.subnets = <<>> /\ v.gateways = <<>> /\ v.publicKey = NoKey
                ELSE /\ Given(v.image) /\ Given(v.profile)
                     /\ (v.publicKey = NoKey) <=> Given(v.key)

\* A name ict makes is one the provider takes: resolveName never makes a name from a
\* prefix that resolve then refuses, and from an owner only when the owner starts with a
\* digit (prefixedName, generatedName, clusterNameLimit).
MadeNamesFit ==
    step = "resolve" =>
        \A n \in ResolveName(in.prefix, in.name, in.owner, Limits[Mode(in.provider)]) :
            \/ MatchesCluster(Mode(in.provider), n)
            \/ in.prefix.len = 0 /\ (in.name.len > 0 \/ in.owner.first = "digit")

\* What README.md says of endpoint selection: it is resolved only by plan, so an
\* operation's Terraform gets the endpoints plan chose and no others.
EndpointsAreFrozen == step = "running" => terraform.environ = frozen.endpoints
=============================================================================
