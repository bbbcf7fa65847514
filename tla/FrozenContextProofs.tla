------------------------ MODULE FrozenContextProofs ------------------------
(***************************************************************************)
(* What holds of FrozenContext for every request, configuration and        *)
(* environment: later operations run Terraform with what plan froze; and   *)
(* what it freezes is what the caller gave, has one source for each thing, *)
(* and can be read by the later operations.                                *)
(***************************************************************************)
EXTENDS FrozenContext, FiniteSetTheorems, TLAPS

\* The shape of a context: a record of its parts.
IsResult(c) ==
    c = [id |-> c.id, backend |-> c.backend, values |-> c.values, recovery |-> c.recovery,
         fingerprint |-> c.fingerprint, digest |-> c.digest, endpoints |-> c.endpoints]

Written ==
    step = "written" => context = frozen /\ IsResult(frozen) /\ frozen.digest = frozen.values

\* One part at most has changed, so the values or the digest are still those plan froze.
Carried ==
    step = "changed" =>
        /\ context.id = frozen.id /\ context.backend = frozen.backend
        /\ context.values = frozen.values \/ context.digest = frozen.values

Inv == Written /\ Carried /\ OnlyFrozen

-----------------------------------------------------------------------------
\* A context that loads was written under the identifier and backend asked for, and its
\* values are those of its digest (ReadPlanResult, loadOperationContext).
LEMMA Loaded ==
    ASSUME NEW c, NEW id, NEW backend, Loads(c, id, backend)
    PROVE  c.id = id /\ c.backend = backend /\ c.digest = c.values
BY DEF Loads, Readable

\* What plan writes has the shape of a context, and its digest is of its values
\* (newRecoveryContext).
LEMMA Planned ==
    ASSUME NEW id, NEW backend, NEW values, NEW endpoints
    PROVE  LET c == PlanResult(id, backend, values, endpoints)
           IN IsResult(c) /\ c.digest = c.values
BY DEF PlanResult, IsResult

\* A step that neither writes nor carries a context nor runs Terraform keeps the invariant.
LEMMA Elsewhere ==
    ASSUME step' \notin {"written", "changed", "running"}
    PROVE  Inv'
BY DEF Inv, Written, Carried, OnlyFrozen

\* A name made of a prefix and a given name fits its limit and begins with a letter,
\* for every limit and every length of the two (prefixedName).
LEMMA PrefixedNameFits ==
    ASSUME NEW limit \in Nat, NEW prefix \in Names, NEW name \in Names,
           prefix.len > 0, prefix.lead = "letter", prefix.clean, name.len > 0,
           LeavesRoom(prefix, limit)
    PROVE  LET n == PrefixedName(prefix, name, limit)
           IN n.len \in prefix.len + 2..limit /\ n.lead = "letter" /\ n.clean
<1> DEFINE n == PrefixedName(prefix, name, limit)
           rest == IF name.len > limit - prefix.len - 1 THEN limit - prefix.len - 1 ELSE name.len
<1>1. prefix.len \in Nat /\ name.len \in Nat
  BY DEF Names
<1>2. Truncate(name, limit - prefix.len - 1).len = rest
  BY DEF Truncate, Names
<1>3. n.len = prefix.len + 1 + rest /\ n.lead = prefix.lead /\ n.clean = prefix.clean
  BY <1>2 DEF PrefixedName, Names
<1>4. prefix.len + 1 + rest \in prefix.len + 2..limit
  BY <1>1 DEF LeavesRoom
<1> QED
  BY <1>3, <1>4

\* There is no context at first.
LEMMA InitInv ==
    ASSUME Init
    PROVE  Inv
BY DEF Init, Inv, Written, Carried, OnlyFrozen

\* Freeze writes the context it has frozen.
LEMMA FreezeInv ==
    ASSUME Freeze
    PROVE  Inv'
<1>1. PICK name, id, backend :
        frozen' = PlanResult(id, backend, ValuesOf(Completed, name),
                             ResolveTarget(in.target, environ))
  BY DEF Freeze
<1>2. IsResult(frozen') /\ frozen'.digest = frozen'.values
  BY <1>1, Planned
<1>3. context' = frozen' /\ step' = "written"
  BY DEF Freeze
<1> QED
  BY <1>2, <1>3 DEF Inv, Written, Carried, OnlyFrozen, IsResult

\* A change of one part leaves the identifier and the backend, and the values or the
\* digest, as they were.
LEMMA ChangeInv ==
    ASSUME Inv, Handle
    PROVE  Inv'
<1>1. step = "written" /\ step' = "changed" /\ frozen' = frozen
  BY DEF Handle, ChangeValues, ChangeRecovery, ChangeDigest, ChangeFingerprint, Change
<1>2. context = frozen /\ IsResult(context) /\ context.digest = context.values
  BY <1>1 DEF Inv, Written
<1>3. /\ context'.id = context.id /\ context'.backend = context.backend
      /\ context'.values = context.values \/ context'.digest = context.digest
  <2>1. CASE ChangeValues
    BY <2>1, <1>2 DEF ChangeValues, Change, IsResult
  <2>2. CASE ChangeRecovery
    BY <2>2, <1>2 DEF ChangeRecovery, Change, IsResult
  <2>3. CASE ChangeDigest
    BY <2>3, <1>2 DEF ChangeDigest, Change, IsResult
  <2>4. CASE ChangeFingerprint
    BY <2>4, <1>2 DEF ChangeFingerprint, Change, IsResult
  <2> QED
    BY <2>1, <2>2, <2>3, <2>4 DEF Handle
<1> QED
  BY <1>1, <1>2, <1>3 DEF Inv, Written, Carried, OnlyFrozen

\* What Load runs Terraform with is what plan froze, whether the file came as it was
\* written or changed.
LEMMA LoadInv ==
    ASSUME Inv, Load
    PROVE  Inv'
<1>1. PICK id \in StateIds, backend \in Backends, env \in Environments :
        /\ Loads(context, id, backend)
        /\ terraform' = [id |-> id, backend |-> backend, values |-> context.values,
                         environ |-> Environment(env, context.endpoints)]
  BY DEF Load
<1>2. context.id = id /\ context.backend = backend /\ context.digest = context.values
  BY <1>1, Loaded
<1>3. /\ context.id = frozen.id /\ context.backend = frozen.backend
      /\ context.values = frozen.values
  <2>1. CASE step = "written"
    BY <2>1 DEF Inv, Written
  <2>2. CASE step = "changed"
    BY <2>2, <1>2 DEF Inv, Carried
  <2> QED
    BY <2>1, <2>2 DEF Load, InFile
<1>4. step' = "running" /\ frozen' = frozen
  BY DEF Load
<1> QED
  BY <1>1, <1>2, <1>3, <1>4 DEF Inv, Written, Carried, OnlyFrozen

\* Every step keeps the invariant.
LEMMA StepInv ==
    ASSUME Inv, [Next]_vars
    PROVE  Inv'
<1>1. CASE Select
  BY <1>1, Elsewhere DEF Select, SelectTarget, SelectProvider, SelectFails, Refuse
<1>2. CASE NormalizeInputs
  BY <1>2, Elsewhere DEF NormalizeInputs
<1>3. CASE NormalizeFails \/ FreezeFails \/ LoadFails
  BY <1>3, Elsewhere DEF NormalizeFails, FreezeFails, LoadFails, Refuse
<1>4. CASE Discover
  BY <1>4, Elsewhere DEF Discover, Prompt, PromptFails, Discovered, StillMissing, Refuse
<1>5. CASE Freeze
  BY <1>5, FreezeInv
<1>6. CASE Handle
  BY <1>6, ChangeInv
<1>7. CASE Load
  BY <1>7, LoadInv
<1>8. CASE UNCHANGED vars
  BY <1>8 DEF vars, Inv, Written, Carried, OnlyFrozen, IsResult
<1> QED
  BY <1>1, <1>2, <1>3, <1>4, <1>5, <1>6, <1>7, <1>8 DEF Next, Resolve, Operate

\* Terraform runs only with the values, identifier and backend plan froze, for every
\* configuration, request and one-part change of the file (ReadPlanResult,
\* loadOperationContext).
THEOREM FrozenOnly == Spec => []OnlyFrozen
<1>1. Init => Inv
  BY InitInv
<1>2. Inv /\ [Next]_vars => Inv'
  BY StepInv
<1>3. Inv => OnlyFrozen
  BY DEF Inv
<1> QED
  BY <1>1, <1>2, <1>3, PTL DEF Spec

-----------------------------------------------------------------------------
(* What plan does to a request *)

Modes == {"vpc", "classic", "satellite"}
Providers == {"vpc-gen2", "classic", "satellite"}

-----------------------------------------------------------------------------
(***************************************************************************)
(* Sorting keeps the identifiers of a list: each of a finite set of        *)
(* numbers has a rank of its own, so every rank is taken.                  *)
(***************************************************************************)
Below(ids, x) == {y \in ids : y < x}
Rank(ids, x) == Cardinality(Below(ids, x))

\* The identifiers of a list are finitely many.
LEMMA Finite ==
    ASSUME NEW ids \in SUBSET (0..MaxId)
    PROVE  IsFiniteSet(ids) /\ Cardinality(ids) \in Nat
<1>1. IsFiniteSet(0..MaxId)
  BY ContextAssumption, FS_Interval
<1> QED
  BY <1>1, FS_Subset, FS_CardinalityType

\* A set that lacks an element of a finite set is smaller.
LEMMA Smaller ==
    ASSUME NEW a, IsFiniteSet(a), NEW b \in SUBSET a, a # b
    PROVE  Cardinality(b) < Cardinality(a) /\ Cardinality(b) \in Nat
<1>1. Cardinality(a) \in Nat /\ Cardinality(b) \in Nat
  BY FS_Subset, FS_CardinalityType
<1>2. Cardinality(b) <= Cardinality(a)
  BY FS_Subset
<1>3. Cardinality(a) = Cardinality(b) => a = b
  BY FS_Subset
<1> QED
  BY <1>1, <1>2, <1>3

\* Ranks are below the number of identifiers, and no two are the same.
LEMMA Ranks ==
    ASSUME NEW ids \in SUBSET (0..MaxId), NEW x \in ids
    PROVE  /\ Rank(ids, x) \in 0..Cardinality(ids) - 1
           /\ \A y \in ids : y < x => Rank(ids, y) < Rank(ids, x)
<1>1. IsFiniteSet(ids) /\ Cardinality(ids) \in Nat /\ x \in Int
  BY Finite
<1>2. Below(ids, x) \in SUBSET ids /\ IsFiniteSet(Below(ids, x))
  BY <1>1, FS_Subset DEF Below
<1>3. Rank(ids, x) < Cardinality(ids) /\ Rank(ids, x) \in Nat
  <2>1. x \notin Below(ids, x)
    BY <1>1 DEF Below
  <2> QED
    BY <1>1, <1>2, <2>1, Smaller DEF Rank
<1>4. ASSUME NEW y \in ids, y < x
      PROVE  Rank(ids, y) < Rank(ids, x)
  <2>1. \A z \in ids : z \in Int
    OBVIOUS
  <2>2. Below(ids, y) \in SUBSET Below(ids, x)
    <3>1. \A z \in ids : z < y => z < x
      BY <1>1, <1>4, <2>1
    <3> QED
      BY <3>1 DEF Below
  <2>3. y \in Below(ids, x) /\ y \notin Below(ids, y)
    BY <1>4, <2>1 DEF Below
  <2> QED
    BY <1>2, <2>2, <2>3, Smaller DEF Rank
<1> QED
  BY <1>1, <1>3, <1>4

\* ... so that every rank is that of one identifier.
LEMMA Ranked ==
    ASSUME NEW ids \in SUBSET (0..MaxId), NEW i \in 1..Cardinality(ids)
    PROVE  \E x \in ids : Rank(ids, x) = i - 1
<1> DEFINE n == Cardinality(ids)
           f == [x \in ids |-> Rank(ids, x) + 1]
<1>1. IsFiniteSet(ids) /\ n \in Nat
  BY Finite
<1>2. IsFiniteSet(1..n) /\ Cardinality(1..n) = n
  BY <1>1, FS_Interval
<1>3. \A x \in ids : Rank(ids, x) \in Int /\ Rank(ids, x) + 1 \in 1..n
  BY <1>1, Ranks
<1>4. f \in [ids -> 1..n]
  BY <1>3
<1>5. \A x, y \in ids : f[x] = f[y] => x = y
  <2> SUFFICES ASSUME NEW x \in ids, NEW y \in ids, Rank(ids, x) = Rank(ids, y)
               PROVE  x = y
    <3>1. \A x, y \in ids : f[x] = f[y] => Rank(ids, x) = Rank(ids, y)
      BY <1>3
    <3> QED
      BY <3>1
  <2>1. x \in Int /\ y \in Int /\ Rank(ids, x) \in Int /\ Rank(ids, y) \in Int
    BY <1>1, Ranks
  <2>2. ~(x < y) /\ ~(y < x)
    BY <2>1, Ranks
  <2> QED
    BY <2>1, <2>2
<1> HIDE DEF f
<1>6. ASSUME \A x \in ids : f[x] # i
      PROVE  FALSE
  <2> DEFINE others == (1..n) \ {i}
  <2>1. IsFiniteSet(others) /\ Cardinality(others) = n - 1
    BY <1>2, FS_RemoveElement
  <2>2. f \in [ids -> others]
    BY <1>4, <1>6
  <2>3. Cardinality(others) < Cardinality(ids)
    BY <1>1, <2>1
  <2> HIDE DEF others, n
  <2>4. \E x, y \in ids : x # y /\ f[x] = f[y]
    BY <1>1, <2>1, <2>2, <2>3, FS_PigeonHole
  <2> QED
    BY <1>5, <2>4
<1>7. PICK x \in ids : f[x] = i
  BY <1>6
<1>8. Rank(ids, x) + 1 = i /\ Rank(ids, x) \in Int /\ i \in Int
  BY <1>3, <1>7 DEF f
<1> QED
  BY <1>8

At(ids, i) == CHOOSE x \in ids : Rank(ids, x) = i - 1

\* Sorting a set of identifiers lists each of them once, trimmed.
LEMMA SortedKeeps ==
    ASSUME NEW ids \in SUBSET (0..MaxId)
    PROVE  /\ Sorted(ids) \in Seq(Text) /\ Len(Sorted(ids)) = Cardinality(ids)
           /\ IdsOf(Sorted(ids)) = ids
           /\ \A i \in 1..Len(Sorted(ids)) : ~Sorted(ids)[i].pad
<1> DEFINE n == Cardinality(ids)
<1>1. n \in Nat
  BY Finite
<1>2. \A i \in 1..n : At(ids, i) \in ids /\ Rank(ids, At(ids, i)) = i - 1
  BY Ranked DEF At
<1>3. Sorted(ids) = [i \in 1..n |-> Id(At(ids, i))]
  BY DEF Sorted, At, Rank, Below
<1> HIDE DEF n
<1>4. \A i \in 1..n : /\ Sorted(ids)[i] = Id(At(ids, i)) /\ Id(At(ids, i)) \in Text
                      /\ Sorted(ids)[i].id = At(ids, i) /\ ~Sorted(ids)[i].pad
  <2>1. \A x \in ids : Id(x) \in Text /\ Id(x).id = x /\ ~Id(x).pad
    BY DEF Id, Text
  <2>2. \A i \in 1..n : Sorted(ids)[i] = Id(At(ids, i))
    BY <1>3
  <2> QED
    BY <1>2, <2>1, <2>2
<1>5. Sorted(ids) \in Seq(Text) /\ Len(Sorted(ids)) = n /\ DOMAIN Sorted(ids) = 1..n
  <2>1. Sorted(ids) \in [1..n -> Text]
    BY <1>3, <1>4
  <2> QED
    BY <1>1, <2>1
<1>6. ASSUME NEW x \in ids
      PROVE  \E i \in 1..n : At(ids, i) = x
  <2>1. Rank(ids, x) + 1 \in 1..n /\ (Rank(ids, x) + 1) - 1 = Rank(ids, x) /\ x \in Int
    BY <1>1, Ranks DEF n
  <2> DEFINE y == At(ids, Rank(ids, x) + 1)
  <2>2. y \in ids /\ Rank(ids, y) = Rank(ids, x)
    BY <1>2, <2>1
  <2> HIDE DEF y
  <2>3. y \in Int /\ Rank(ids, x) \in Int
    BY <2>1, <2>2, <1>1, Ranks DEF n
  <2>4. x = y
    BY <2>1, <2>2, <2>3, Ranks
  <2> QED
    BY <2>1, <2>4 DEF y
<1>7. IdsOf(Sorted(ids)) = ids
  <2>1. IdsOf(Sorted(ids)) = {At(ids, i) : i \in 1..n}
    BY <1>4, <1>5 DEF IdsOf
  <2> QED
    BY <1>2, <1>6, <2>1
<1> QED
  BY <1>4, <1>5, <1>7 DEF n

\* normalizeIDList keeps what it is given, and changes nothing when it is repeated.
LEMMA NormalizedList ==
    ASSUME NEW list \in Seq(Text)
    PROVE  /\ NormalizeIDList(list) \in Seq(Text)
           /\ IdsOf(NormalizeIDList(list)) = IdsOf(list)
           /\ Len(NormalizeIDList(list)) = Cardinality(IdsOf(list))
           /\ NormalizeIDList(NormalizeIDList(list)) = NormalizeIDList(list)
<1>1. IdsOf(list) \in SUBSET (0..MaxId)
  <2>1. \A i \in DOMAIN list : list[i] \in Text
    OBVIOUS
  <2> QED
    BY <2>1 DEF IdsOf, Text
<1> QED
  BY <1>1, SortedKeeps DEF NormalizeIDList

-----------------------------------------------------------------------------
(* The fields of the values *)

\* The fields that resolve computes; the others are copied or left zero.
Computed == {"mode", "name", "version", "count", "region", "publicKey"}

\* The fields of Values.
LEMMA Fields ==
    DOMAIN Zero =
      {"platform", "version", "group", "headlamp", "privateOnly", "policy", "count", "zone",
       "flavor", "vpcRegion", "vpc", "subnets", "gateways", "datacenter", "machineType",
       "vlan", "zones", "managedFrom", "location", "image", "profile", "publicKey", "key",
       "workers", "os", "mode", "region", "name"}
BY DEF Zero

\* What resolve makes of a request, field by field.
LEMMA Values ==
    ASSUME NEW i, NEW name
    PROVE  LET v == ValuesOf(i, name)
           IN /\ DOMAIN v = DOMAIN Zero
              /\ v.mode = Mode(i.provider) /\ v.name = name
              /\ v.version = NormalizeVersion(i.platform, i.version)
              /\ v.count = Workers(i)
              /\ v.region = CASE v.mode = "vpc" -> RegionOf[i.zone.id]
                              [] v.mode = "classic" -> DefaultRegion[i.target]
                              [] v.mode = "satellite" -> RegionOf[i.zones[1].id]
              /\ v.publicKey = IF v.mode = "satellite" /\ i.workers = <<>> /\ i.key = Empty
                               THEN Key(i.keyPath.id) ELSE NoKey
              /\ \A f \in DOMAIN Zero \ Computed :
                   v[f] = IF f \in Copied(v.mode) THEN i[f] ELSE Zero[f]
<1> DEFINE copy == [f \in DOMAIN Zero |->
                      IF f \in Copied(Mode(i.provider)) THEN i[f] ELSE Zero[f]]
<1>1. DOMAIN copy = DOMAIN Zero
  OBVIOUS
<1>2. Computed \subseteq DOMAIN copy
  BY <1>1, Fields DEF Computed
<1>3. \A f \in DOMAIN Zero : copy[f] = IF f \in Copied(Mode(i.provider)) THEN i[f] ELSE Zero[f]
  OBVIOUS
<1> HIDE DEF copy
<1> DEFINE v == ValuesOf(i, name)
<1>4. v = [copy EXCEPT
          !.mode = Mode(i.provider), !.name = name,
          !.version = NormalizeVersion(i.platform, i.version),
          !.count = Workers(i),
          !.region = CASE Mode(i.provider) = "vpc" -> RegionOf[i.zone.id]
                       [] Mode(i.provider) = "classic" -> DefaultRegion[i.target]
                       [] Mode(i.provider) = "satellite" -> RegionOf[i.zones[1].id],
          !.publicKey = IF Mode(i.provider) = "satellite" /\ i.workers = <<>> /\ i.key = Empty
                        THEN Key(i.keyPath.id) ELSE NoKey]
  BY DEF ValuesOf, copy
<1>5. DOMAIN v = DOMAIN Zero
  BY <1>1, <1>4
<1>6. v.mode = Mode(i.provider) /\ v.name = name
  BY <1>2, <1>4 DEF Computed
<1>7. /\ v.version = NormalizeVersion(i.platform, i.version)
      /\ v.count = Workers(i)
  BY <1>2, <1>4 DEF Computed
<1>8. v.region = CASE v.mode = "vpc" -> RegionOf[i.zone.id]
                   [] v.mode = "classic" -> DefaultRegion[i.target]
                   [] v.mode = "satellite" -> RegionOf[i.zones[1].id]
  BY <1>2, <1>4, <1>6 DEF Computed
<1>9. v.publicKey = IF v.mode = "satellite" /\ i.workers = <<>> /\ i.key = Empty
                    THEN Key(i.keyPath.id) ELSE NoKey
  BY <1>2, <1>4, <1>6 DEF Computed
<1>10. \A f \in DOMAIN Zero \ Computed : v[f] = copy[f]
  BY <1>1, <1>4 DEF Computed
<1> HIDE DEF v
<1> QED
  BY <1>3, <1>5, <1>6, <1>7, <1>8, <1>9, <1>10 DEF v

-----------------------------------------------------------------------------
(* Requests that have been normalized *)

\* What normalizeSatelliteReuseInputs and normalizeVPCReuse leave as it is.
Normal(provider, r) ==
    /\ provider # "classic" => /\ ~r.vpc.pad
                               /\ r.subnets = NormalizeIDList(r.subnets)
                               /\ r.gateways = NormalizeIDList(r.gateways)
    /\ provider = "satellite" => /\ ~r.location.pad /\ ~r.key.pad
                                 /\ r.workers = NormalizeIDList(r.workers)

\* A request from the time it is accepted to the time it is frozen.
Prepared(i) ==
    /\ IsRequest(i)
    /\ i.target \in Targets
    /\ Acceptable(i)
    /\ Normal(i.provider, i)

\* A provider that a target offers is one of the three (ContextAssumption).
LEMMA Offers ==
    ASSUME NEW i, i.target \in Targets, i.provider \in Offered[i.target]
    PROVE  i.provider \in Providers
BY ContextAssumption DEF Providers

\* Trimming changes nothing but the blanks.
LEMMA Trimmed ==
    ASSUME NEW t \in Text
    PROVE  /\ TrimSpace(t) \in Text /\ ~TrimSpace(t).pad /\ TrimSpace(t).id = t.id
           /\ TrimSpace(TrimSpace(t)) = TrimSpace(t)
           /\ TrimSpace(t) = Empty <=> t.id = 0
           /\ ~t.pad => TrimSpace(t) = t
           /\ t = Empty <=> t.id = 0 /\ ~t.pad
           /\ IsBlank(t) <=> t.id = 0 /\ t.pad
<1>1. t.id \in 0..MaxId /\ t.pad \in BOOLEAN /\ t = [id |-> t.id, pad |-> t.pad]
  BY DEF Text
<1>2. TrimSpace(t) = [id |-> t.id, pad |-> FALSE]
  BY DEF TrimSpace, Id
<1>3. TrimSpace(t) \in Text /\ ~TrimSpace(t).pad /\ TrimSpace(t).id = t.id
  BY <1>1, <1>2 DEF Text
<1>4. TrimSpace(TrimSpace(t)) = TrimSpace(t)
  BY <1>3 DEF TrimSpace
<1>5. TrimSpace(t) = Empty <=> t.id = 0
  <2>1. Empty.id = 0 /\ Empty = [id |-> 0, pad |-> FALSE]
    BY DEF Empty
  <2>2. TrimSpace(t) = Empty => t.id = 0
    BY <1>3, <2>1
  <2>3. t.id = 0 => TrimSpace(t) = Empty
    BY <1>2, <2>1
  <2> QED
    BY <2>2, <2>3
<1>6. ~t.pad => TrimSpace(t) = t
  <2> SUFFICES ASSUME ~t.pad PROVE TrimSpace(t) = t
    OBVIOUS
  <2>1. t.pad = FALSE
    BY <1>1
  <2> QED
    BY <1>1, <1>2, <2>1
<1>7. t = Empty <=> t.id = 0 /\ ~t.pad
  BY <1>1 DEF Empty
<1> QED
  BY <1>3, <1>4, <1>5, <1>6, <1>7 DEF IsBlank

\* A list that may be normalized keeps its length, and what is left of it may be again.
LEMMA NormalizedGood ==
    ASSUME NEW list \in Seq(Text)
    PROVE  /\ NormalizeIDList(list) \in Seq(Text)
           /\ IdsOf(NormalizeIDList(list)) = IdsOf(list)
           /\ NormalizeIDList(NormalizeIDList(list)) = NormalizeIDList(list)
           /\ GoodList(list) => /\ Len(NormalizeIDList(list)) = Len(list)
                                /\ GoodList(NormalizeIDList(list))
BY NormalizedList DEF GoodList

\* Only the empty list has no entries.
LEMMA EmptyList ==
    ASSUME NEW list \in Seq(Text)
    PROVE  list = <<>> <=> Len(list) = 0
OBVIOUS

\* The reuse rules read these fields of a request or of values, and no others.
VPCReads == {"vpc", "subnets", "gateways"}
SatelliteReads == {"location", "key", "workers", "managedFrom", "keyPath", "vpc", "subnets",
                   "gateways", "image", "profile"}
Normalized == {"vpc", "subnets", "gateways", "location", "key", "workers"}

\* Two that agree on those fields are accepted or refused together.
LEMMA SameVPC ==
    ASSUME NEW provider, NEW a, NEW b, \A f \in VPCReads : a[f] = b[f]
    PROVE  VPCReuseOK(provider, a) <=> VPCReuseOK(provider, b)
BY DEF VPCReuseOK, VPCReads

\* ... and so by the Satellite rules.
LEMMA SameSatellite ==
    ASSUME NEW provider, NEW a, NEW b, \A f \in SatelliteReads : a[f] = b[f]
    PROVE  SatelliteReuseOK(provider, a) <=> SatelliteReuseOK(provider, b)
BY DEF SatelliteReuseOK, SatelliteReads

\* normalizeVPCReuse, field by field.
LEMMA VPCNormalized ==
    ASSUME NEW provider, NEW r, VPCReads \subseteq DOMAIN r
    PROVE  LET n == NormalizeVPCReuse(provider, r)
           IN /\ DOMAIN n = DOMAIN r
              /\ \A f \in DOMAIN r \ VPCReads : n[f] = r[f]
              /\ provider = "classic" => n = r
              /\ provider # "classic" => /\ n.vpc = TrimSpace(r.vpc)
                                         /\ n.subnets = NormalizeIDList(r.subnets)
                                         /\ n.gateways = NormalizeIDList(r.gateways)
BY DEF NormalizeVPCReuse, VPCReads

\* normalizeSatelliteReuseInputs, field by field.
LEMMA SatelliteNormalized ==
    ASSUME NEW provider, NEW r, Normalized \subseteq DOMAIN r
    PROVE  LET n == NormalizeSatelliteReuse(provider, r)
           IN /\ DOMAIN n = DOMAIN r
              /\ \A f \in DOMAIN r \ {"location", "key", "workers"} : n[f] = r[f]
              /\ provider # "satellite" => n = r
              /\ provider = "satellite" => /\ n.location = TrimSpace(r.location)
                                           /\ n.key = TrimSpace(r.key)
                                           /\ n.workers = NormalizeIDList(r.workers)
BY DEF NormalizeSatelliteReuse, Normalized

\* A request has every field the rules read.
LEMMA RequestFields ==
    ASSUME NEW r, IsRequest(r)
    PROVE  Normalized \cup SatelliteReads \cup VPCReads \cup {"provider", "target", "platform"}
             \subseteq DOMAIN r
BY DEF IsRequest, TextFields, ListFields, NameFields, OtherFields, Normalized,
       SatelliteReads, VPCReads

\* Both together.
LEMMA NormalizedFields ==
    ASSUME NEW provider, NEW r, IsRequest(r)
    PROVE  LET n == Normalize(provider, r)
           IN /\ DOMAIN n = DOMAIN r
              /\ \A f \in DOMAIN r \ Normalized : n[f] = r[f]
              /\ provider = "classic" => \A f \in DOMAIN r : n[f] = r[f]
              /\ provider # "classic" => /\ n.vpc = TrimSpace(r.vpc)
                                         /\ n.subnets = NormalizeIDList(r.subnets)
                                         /\ n.gateways = NormalizeIDList(r.gateways)
              /\ provider # "satellite" => /\ n.location = r.location /\ n.key = r.key
                                           /\ n.workers = r.workers
              /\ provider = "satellite" => /\ n.location = TrimSpace(r.location)
                                           /\ n.key = TrimSpace(r.key)
                                           /\ n.workers = NormalizeIDList(r.workers)
<1> DEFINE m == NormalizeVPCReuse(provider, r)
           n == NormalizeSatelliteReuse(provider, m)
<1>1. VPCReads \subseteq DOMAIN r /\ Normalized \subseteq DOMAIN r
  BY RequestFields
<1>2. /\ DOMAIN m = DOMAIN r
      /\ \A f \in DOMAIN r \ VPCReads : m[f] = r[f]
      /\ provider = "classic" => m = r
      /\ provider # "classic" => /\ m.vpc = TrimSpace(r.vpc)
                                 /\ m.subnets = NormalizeIDList(r.subnets)
                                 /\ m.gateways = NormalizeIDList(r.gateways)
  BY <1>1, VPCNormalized
<1> HIDE DEF m
<1>3. /\ DOMAIN n = DOMAIN m
      /\ \A f \in DOMAIN m \ {"location", "key", "workers"} : n[f] = m[f]
      /\ provider # "satellite" => n = m
      /\ provider = "satellite" => /\ n.location = TrimSpace(m.location)
                                   /\ n.key = TrimSpace(m.key)
                                   /\ n.workers = NormalizeIDList(m.workers)
  BY <1>1, <1>2, SatelliteNormalized
<1> HIDE DEF n
<1>4. m.location = r.location /\ m.key = r.key /\ m.workers = r.workers
  BY <1>1, <1>2 DEF Normalized, VPCReads
<1>5. n.vpc = m.vpc /\ n.subnets = m.subnets /\ n.gateways = m.gateways
  BY <1>1, <1>2, <1>3 DEF Normalized, VPCReads
<1>6. \A f \in DOMAIN r \ Normalized : n[f] = r[f]
  BY <1>2, <1>3 DEF Normalized, VPCReads
<1>7. Normalize(provider, r) = n
  BY DEF Normalize, n, m
<1> QED
  BY <1>2, <1>3, <1>4, <1>5, <1>6, <1>7

\* The texts and lists of a request are texts and lists.
Typed(r) ==
    /\ r.vpc \in Text /\ r.location \in Text /\ r.key \in Text
    /\ r.managedFrom \in Text /\ r.keyPath \in Text
    /\ r.image \in Text /\ r.profile \in Text
    /\ r.subnets \in Seq(Text) /\ r.gateways \in Seq(Text) /\ r.workers \in Seq(Text)

\* A request is typed.
LEMMA RequestTypes ==
    ASSUME NEW r, IsRequest(r)
    PROVE  Typed(r)
BY DEF IsRequest, TextFields, ListFields, Typed

\* What the VPC rules accept they accept again when it has been normalized.
LEMMA VPCAgain ==
    ASSUME NEW provider, NEW r, NEW n, Typed(r), VPCReuseOK(provider, r),
           provider = "classic" => \A f \in VPCReads : n[f] = r[f],
           provider # "classic" => /\ n.vpc = TrimSpace(r.vpc)
                                   /\ n.subnets = NormalizeIDList(r.subnets)
                                   /\ n.gateways = NormalizeIDList(r.gateways)
    PROVE  VPCReuseOK(provider, n)
<1>1. CASE provider = "classic"
  BY <1>1, SameVPC
<1>2. CASE provider # "classic"
  <2>1. /\ ~IsBlank(r.vpc)
        /\ GoodList(r.subnets) /\ GoodList(r.gateways)
        /\ LET counts == IF provider = "satellite" THEN {0, 3} ELSE {0, 1}
           IN Len(r.subnets) \in counts /\ Len(r.gateways) \in counts
    BY <1>2 DEF VPCReuseOK
  <2>2. ~IsBlank(n.vpc)
    BY <1>2, Trimmed DEF Typed
  <2>3. /\ GoodList(n.subnets) /\ Len(n.subnets) = Len(r.subnets)
        /\ GoodList(n.gateways) /\ Len(n.gateways) = Len(r.gateways)
    BY <1>2, <2>1, NormalizedGood DEF Typed
  <2> QED
    BY <1>2, <2>1, <2>2, <2>3 DEF VPCReuseOK
<1> QED
  BY <1>1, <1>2

\* What the Satellite rules accept they accept again when it has been normalized.
LEMMA SatelliteAgain ==
    ASSUME NEW r, Typed(r), SatelliteReuseOK("satellite", r)
    PROVE  \A n : /\ n.location = TrimSpace(r.location)
                  /\ n.key = TrimSpace(r.key)
                  /\ n.workers = NormalizeIDList(r.workers)
                  /\ \A f \in SatelliteReads \ {"location", "key", "workers"} : n[f] = r[f]
                  => SatelliteReuseOK("satellite", n)
<1> SUFFICES ASSUME NEW n,
                    n.location = TrimSpace(r.location),
                    n.key = TrimSpace(r.key),
                    n.workers = NormalizeIDList(r.workers),
                    \A f \in SatelliteReads \ {"location", "key", "workers"} : n[f] = r[f]
             PROVE  SatelliteReuseOK("satellite", n)
  OBVIOUS
<1>1. /\ ~IsBlank(r.location) /\ ~IsBlank(r.key) /\ GoodList(r.workers)
      /\ r.location # Empty => TrimSpace(r.managedFrom) = Empty
      /\ r.key # Empty => TrimSpace(r.keyPath) = Empty
      /\ r.workers # <<>> =>
           /\ r.location # Empty
           /\ r.vpc = Empty /\ r.subnets = <<>> /\ r.gateways = <<>>
           /\ \A t \in {r.key, r.keyPath, r.image, r.profile} : TrimSpace(t) = Empty
  BY DEF SatelliteReuseOK
<1>2. /\ n.managedFrom = r.managedFrom /\ n.keyPath = r.keyPath
      /\ n.image = r.image /\ n.profile = r.profile
      /\ n.vpc = r.vpc /\ n.subnets = r.subnets /\ n.gateways = r.gateways
  BY DEF SatelliteReads
<1>3. /\ ~IsBlank(n.location) /\ ~IsBlank(n.key)
      /\ n.location = Empty <=> r.location = Empty
      /\ n.key = Empty <=> r.key = Empty
      /\ TrimSpace(n.key) = TrimSpace(r.key)
  BY <1>1, Trimmed DEF Typed
<1>4. GoodList(n.workers) /\ (n.workers = <<>> <=> r.workers = <<>>)
  <2>1. GoodList(n.workers) /\ Len(n.workers) = Len(r.workers) /\ n.workers \in Seq(Text)
    BY <1>1, NormalizedGood DEF Typed
  <2> QED
    BY <2>1, EmptyList DEF Typed
<1> QED
  BY <1>1, <1>2, <1>3, <1>4 DEF SatelliteReuseOK

\* What plan has accepted and normalized it could accept and normalize again.
LEMMA NormalizePrepares ==
    ASSUME NEW r, IsRequest(r), r.target \in Targets, Acceptable(r)
    PROVE  Prepared(Normalize(r.provider, r))
<1> DEFINE p == r.provider
           n == Normalize(p, r)
           m == NormalizeVPCReuse(p, r)
<1>1. /\ DOMAIN n = DOMAIN r
      /\ \A f \in DOMAIN r \ Normalized : n[f] = r[f]
      /\ p = "classic" => \A f \in DOMAIN r : n[f] = r[f]
      /\ p # "classic" => /\ n.vpc = TrimSpace(r.vpc)
                          /\ n.subnets = NormalizeIDList(r.subnets)
                          /\ n.gateways = NormalizeIDList(r.gateways)
      /\ p # "satellite" => /\ n.location = r.location /\ n.key = r.key
                            /\ n.workers = r.workers
      /\ p = "satellite" => /\ n.location = TrimSpace(r.location)
                            /\ n.key = TrimSpace(r.key)
                            /\ n.workers = NormalizeIDList(r.workers)
  BY NormalizedFields
<1>2. /\ p \in Offered[r.target] /\ p \in Providers
      /\ VPCReuseOK(p, r) /\ SatelliteReuseOK(p, m)
      /\ p = "satellite" => r.platform \in {"", "openshift"}
  BY Offers DEF Acceptable, ReuseOK
<1>3. /\ DOMAIN m = DOMAIN r
      /\ \A f \in DOMAIN r \ VPCReads : m[f] = r[f]
      /\ p = "classic" => m = r
      /\ p # "classic" => /\ m.vpc = TrimSpace(r.vpc)
                          /\ m.subnets = NormalizeIDList(r.subnets)
                          /\ m.gateways = NormalizeIDList(r.gateways)
  BY RequestFields, VPCNormalized
<1> HIDE DEF n, m
<1>4. n.provider = p /\ n.target = r.target /\ n.platform = r.platform
  BY <1>1, RequestFields DEF Normalized
<1>5. IsRequest(n)
  <2>1. \A f \in TextFields : n[f] \in Text
    <3>1. \A f \in TextFields : f \in DOMAIN r /\ r[f] \in Text
      BY DEF IsRequest
    <3>2. \A f \in TextFields \ Normalized : n[f] \in Text
      BY <1>1, <3>1
    <3>3. n.vpc \in Text /\ n.location \in Text /\ n.key \in Text
      BY <1>1, <3>1, RequestTypes, RequestFields, Trimmed DEF Normalized, Typed
    <3> QED
      BY <3>2, <3>3 DEF Normalized, TextFields
  <2>2. \A f \in ListFields : n[f] \in Seq(Text)
    <3>1. \A f \in ListFields : f \in DOMAIN r /\ r[f] \in Seq(Text)
      BY DEF IsRequest
    <3>2. \A f \in ListFields \ Normalized : n[f] \in Seq(Text)
      BY <1>1, <3>1
    <3>3. n.subnets \in Seq(Text) /\ n.gateways \in Seq(Text) /\ n.workers \in Seq(Text)
      BY <1>1, <3>1, RequestTypes, RequestFields, NormalizedGood DEF Normalized, Typed
    <3> QED
      BY <3>2, <3>3 DEF Normalized, ListFields
  <2>3. \A f \in NameFields : f \in DOMAIN r /\ n[f] = r[f]
    BY <1>1 DEF IsRequest, Normalized, NameFields
  <2>4. n.count = r.count
    BY <1>1 DEF IsRequest, Normalized, OtherFields
  <2> QED
    BY <1>1, <2>1, <2>2, <2>3, <2>4 DEF IsRequest
<1>6. Normal(p, n)
  <2>1. CASE p = "classic"
    BY <2>1 DEF Normal
  <2>2. CASE p # "classic"
    BY <1>1, <2>2, RequestTypes, Trimmed, NormalizedGood DEF Normal, Typed
  <2> QED
    BY <2>1, <2>2
<1>7. VPCReuseOK(p, n)
  BY <1>1, <1>2, VPCAgain, RequestTypes, RequestFields DEF VPCReads
<1>8. SatelliteReuseOK(p, NormalizeVPCReuse(p, n))
  <2> DEFINE a == NormalizeVPCReuse(p, n)
  <2>1. /\ DOMAIN a = DOMAIN n
        /\ \A f \in DOMAIN n \ VPCReads : a[f] = n[f]
        /\ p = "classic" => a = n
        /\ p # "classic" => /\ a.vpc = TrimSpace(n.vpc)
                            /\ a.subnets = NormalizeIDList(n.subnets)
                            /\ a.gateways = NormalizeIDList(n.gateways)
    BY <1>1, RequestFields, VPCNormalized
  <2> HIDE DEF a
  <2>2. a.location = n.location /\ a.key = n.key /\ a.workers = n.workers
    BY <1>1, <2>1, RequestFields DEF VPCReads, Normalized
  <2>3. m.location = r.location /\ m.key = r.key /\ m.workers = r.workers
    BY <1>3, RequestFields DEF VPCReads, Normalized
  <2>4. p # "satellite" => SatelliteReuseOK(p, a)
    BY <1>1, <1>2, <2>2, <2>3 DEF SatelliteReuseOK
  <2>5. ASSUME p = "satellite"
        PROVE  SatelliteReuseOK(p, a)
    <3>1. \A f \in {"managedFrom", "keyPath", "image", "profile"} : a[f] = r[f] /\ m[f] = r[f]
      BY <1>1, <1>3, <2>1, RequestFields DEF VPCReads, Normalized, SatelliteReads
    <3>2. a.vpc = m.vpc /\ a.subnets = m.subnets /\ a.gateways = m.gateways
      BY <1>1, <1>3, <2>1, <2>5, RequestTypes, Trimmed, NormalizedGood DEF Typed
    <3>3. Typed(m)
      BY <1>3, <2>3, <2>5, <3>1, RequestTypes, Trimmed, NormalizedGood DEF Typed
    <3>4. \A f \in SatelliteReads \ {"location", "key", "workers"} : a[f] = m[f]
      BY <3>1, <3>2 DEF SatelliteReads
    <3>5. /\ a.location = TrimSpace(m.location) /\ a.key = TrimSpace(m.key)
          /\ a.workers = NormalizeIDList(m.workers)
      BY <1>1, <2>2, <2>3, <2>5
    <3> QED
      BY <1>2, <2>5, <3>3, <3>4, <3>5, SatelliteAgain
  <2> QED
    BY <2>4, <2>5 DEF a
<1> QED
  BY <1>2, <1>4, <1>5, <1>6, <1>7, <1>8 DEF Prepared, Acceptable, ReuseOK, n

\* Of a normalized request the reuse rules can be read directly.
LEMMA ReuseNormal ==
    ASSUME NEW provider, NEW r, IsRequest(r), Normal(provider, r)
    PROVE  ReuseOK(provider, r) <=> VPCReuseOK(provider, r) /\ SatelliteReuseOK(provider, r)
<1> DEFINE n == NormalizeVPCReuse(provider, r)
<1>1. /\ DOMAIN n = DOMAIN r
      /\ \A f \in DOMAIN r \ VPCReads : n[f] = r[f]
      /\ provider = "classic" => n = r
      /\ provider # "classic" => /\ n.vpc = TrimSpace(r.vpc)
                                 /\ n.subnets = NormalizeIDList(r.subnets)
                                 /\ n.gateways = NormalizeIDList(r.gateways)
  BY RequestFields, VPCNormalized
<1> HIDE DEF n
<1>2. \A f \in VPCReads : n[f] = r[f]
  BY <1>1, RequestTypes, Trimmed DEF Normal, Typed, VPCReads
<1>3. \A f \in SatelliteReads : n[f] = r[f]
  BY <1>1, <1>2, RequestFields
<1>4. SatelliteReuseOK(provider, n) <=> SatelliteReuseOK(provider, r)
  BY <1>3, SameSatellite
<1> QED
  BY <1>4 DEF ReuseOK, n

-----------------------------------------------------------------------------
(* Prompting *)

AskedFields == {"platform", "group", "version", "zone", "flavor", "datacenter", "machineType",
                "managedFrom", "zones", "profile", "os", "image", "keyPath"}

\* discover never asks for a name, a target or a provider, nor for what is reused.
LEMMA AskedField ==
    ASSUME NEW provider \in Providers, NEW k \in DOMAIN PromptOrder(provider)
    PROVE  PromptOrder(provider)[k] \in AskedFields /\ k \in Nat
<1> DEFINE common == <<"platform", "group", "version">>
           own == CASE provider = "vpc-gen2" -> <<"zone", "flavor">>
                    [] provider = "classic" -> <<"datacenter", "machineType">>
                    [] provider = "satellite" ->
                         <<"managedFrom", "zones", "profile", "os", "image", "keyPath">>
<1>1. PromptOrder(provider) = common \o own
  BY DEF PromptOrder
<1>2. common \in Seq(AskedFields)
  BY DEF AskedFields
<1>3. own \in Seq(AskedFields)
  <2>1. CASE provider = "vpc-gen2"
    <3>1. own = <<"zone", "flavor">>
      BY <2>1
    <3> HIDE DEF own
    <3> QED
      BY <3>1 DEF AskedFields
  <2>2. CASE provider = "classic"
    <3>1. own = <<"datacenter", "machineType">>
      BY <2>2
    <3> HIDE DEF own
    <3> QED
      BY <3>1 DEF AskedFields
  <2>3. CASE provider = "satellite"
    <3>1. own = <<"managedFrom", "zones", "profile", "os", "image", "keyPath">>
      BY <2>3
    <3> HIDE DEF own
    <3> QED
      BY <3>1 DEF AskedFields
  <2> QED
    BY <2>1, <2>2, <2>3 DEF Providers
<1> HIDE DEF common, own
<1>4. PromptOrder(provider) \in Seq(AskedFields)
  BY <1>1, <1>2, <1>3
<1>5. k \in 1..Len(PromptOrder(provider)) /\ Len(PromptOrder(provider)) \in Nat
  BY <1>4
<1> QED
  BY <1>4, <1>5

\* What the user can answer is of the field's type (selectOne, selectMany).
LEMMA AnswerTypes ==
    ASSUME NEW i, NEW f \in AskedFields, NEW answer \in Answers(i, f)
    PROVE  /\ f \in TextFields => answer \in Text
           /\ f = "zones" => answer \in Seq(Text)
           /\ f = "platform" /\ i.provider = "satellite" => answer = "openshift"
<1>1. CASE f = "zones"
  <2>1. answer \in ZoneChoices
    BY <1>1 DEF Answers
  <2>2. PICK c : answer = Sorted(c) /\ c \in SUBSET OfferedZones
    BY <2>1 DEF ZoneChoices
  <2>3. c \in SUBSET (0..MaxId)
    BY <2>2, ContextAssumption
  <2>4. answer \in Seq(Text)
    BY <2>2, <2>3, SortedKeeps
  <2> QED
    BY <1>1, <2>4 DEF TextFields
<1>2. CASE f \in {"platform", "version", "os"}
  BY <1>2 DEF Answers, TextFields
<1>3. CASE f \in AskedFields \ {"platform", "version", "os", "zones"}
  <2>1. answer \in {Id(z) : z \in OfferedZones \cup OfferedKeys \cup OfferedIds} \cup {Empty}
    BY <1>3 DEF Answers, AskedFields
  <2>2. \A z \in OfferedZones \cup OfferedKeys \cup OfferedIds : z \in 0..MaxId
    BY ContextAssumption
  <2>3. \A z \in 0..MaxId : Id(z) \in Text
    BY DEF Id, Text
  <2>4. Empty \in Text
    BY ContextAssumption DEF Empty, Text
  <2> QED
    BY <1>3, <2>1, <2>2, <2>3, <2>4
<1> QED
  BY <1>1, <1>2, <1>3

\* What is still there of what the caller gave, but for blanks and the order of a list.
KeptTexts == {"group", "zone", "flavor", "datacenter", "machineType", "vlan", "managedFrom",
              "location", "image", "profile", "keyPath", "key", "vpc"}
KeptLists == {"subnets", "gateways", "workers"}
KeptSwitches == {"headlamp", "privateOnly", "policy", "vpcRegion"}

Kept(given, i) ==
    /\ given.provider # "" => i.provider = given.provider
    /\ given.platform \in {"", i.platform}
    /\ given.version # NoVersion => i.version = given.version
    /\ given.count = i.count
    /\ given.os # "" => i.os = given.os
    /\ \A f \in KeptSwitches : i[f] = given[f]
    /\ \A f \in KeptTexts :
         TrimSpace(given[f]) # Empty => TrimSpace(i[f]) = TrimSpace(given[f])
    /\ \A f \in KeptLists : IdsOf(given[f]) = IdsOf(i[f]) /\ Len(given[f]) = Len(i[f])
    /\ Len(given.zones) = 3 => i.zones = given.zones
    /\ Len(given.zones) # 3 => i.zones \in {given.zones} \cup ZoneChoices

\* An answer leaves a request prepared: only what is absent is asked for, and of what is
\* reused nothing is.
LEMMA PromptPrepares ==
    ASSUME NEW i, Prepared(i), NEW f \in AskedFields, Absent(i, f), NEW answer \in Answers(i, f)
    PROVE  Prepared([i EXCEPT ![f] = answer])
<1> DEFINE r == [i EXCEPT ![f] = answer]
           p == i.provider
<1>1. /\ IsRequest(i) /\ i.target \in Targets /\ p \in Offered[i.target] /\ p \in Providers
      /\ VPCReuseOK(p, i) /\ SatelliteReuseOK(p, i) /\ Normal(p, i)
      /\ p = "satellite" => i.platform \in {"", "openshift"}
  BY ReuseNormal, Offers DEF Prepared, Acceptable
<1>2. DOMAIN r = DOMAIN i /\ f \in DOMAIN i
  BY <1>1 DEF IsRequest, TextFields, ListFields, NameFields, OtherFields, AskedFields
<1>3. r[f] = answer /\ \A g \in DOMAIN i \ {f} : r[g] = i[g]
  BY <1>2
<1> HIDE DEF r
<1>4. r.provider = p /\ r.target = i.target /\ r.count = i.count
  BY <1>1, <1>3, RequestFields DEF AskedFields, IsRequest, OtherFields
<1>5. IsRequest(r)
  <2>1. \A g \in TextFields : r[g] \in Text
    BY <1>1, <1>3, AnswerTypes DEF IsRequest
  <2>2. \A g \in ListFields : r[g] \in Seq(Text)
    <3>1. f \in ListFields => f = "zones"
      BY DEF ListFields, AskedFields
    <3> QED
      BY <1>1, <1>3, <3>1, AnswerTypes DEF IsRequest
  <2>3. \A g \in NameFields : r[g] \in RawTexts
    BY <1>1, <1>3 DEF IsRequest, AskedFields, NameFields
  <2> QED
    BY <1>1, <1>2, <1>4, <2>1, <2>2, <2>3 DEF IsRequest
<1>6. \A g \in Normalized : r[g] = i[g]
  BY <1>1, <1>3, RequestFields DEF AskedFields, Normalized
<1>7. Normal(p, r) /\ VPCReuseOK(p, r)
  BY <1>1, <1>6, SameVPC DEF Normal, Normalized, VPCReads
<1>8. SatelliteReuseOK(p, r)
  <2>1. /\ r.location = i.location /\ r.key = i.key /\ r.workers = i.workers
        /\ r.vpc = i.vpc /\ r.subnets = i.subnets /\ r.gateways = i.gateways
    BY <1>6 DEF Normalized
  <2>2. CASE p # "satellite"
    BY <1>1, <2>1, <2>2 DEF SatelliteReuseOK
  <2>3. CASE p = "satellite"
    <3>1. f = "managedFrom" => i.location = Empty
      BY DEF Absent
    <3>2. f = "keyPath" => i.workers = <<>> /\ i.key = Empty
      BY DEF Absent
    <3>3. f \in {"image", "profile"} => i.workers = <<>>
      BY DEF Absent
    <3>4. \A g \in {"managedFrom", "keyPath", "image", "profile"} : g # f => r[g] = i[g]
      BY <1>1, <1>3, RequestFields DEF SatelliteReads
    <3> QED
      BY <1>1, <2>1, <2>3, <3>1, <3>2, <3>3, <3>4 DEF SatelliteReuseOK
  <2> QED
    BY <2>2, <2>3
<1>9. p = "satellite" => r.platform \in {"", "openshift"}
  <2>1. f # "platform" => r.platform = i.platform
    BY <1>1, <1>3, RequestFields
  <2> QED
    BY <1>1, <1>3, <2>1, AnswerTypes
<1>10. ReuseOK(p, r)
  BY <1>5, <1>7, <1>8, ReuseNormal
<1> QED
  BY <1>1, <1>4, <1>5, <1>7, <1>9, <1>10 DEF Prepared, Acceptable, r

\* An answer never replaces what the caller gave: what was given is not absent.
LEMMA PromptKeeps ==
    ASSUME NEW i, IsRequest(i), NEW f \in AskedFields, Absent(i, f),
           NEW answer \in Answers(i, f), NEW given, Kept(given, i)
    PROVE  Kept(given, [i EXCEPT ![f] = answer])
<1> DEFINE r == [i EXCEPT ![f] = answer]
<1>1. \A g \in KeptTexts \cup KeptLists \cup KeptSwitches
               \cup {"provider", "platform", "version", "count", "os", "zones", f} :
        g \in DOMAIN i
  BY DEF IsRequest, TextFields, ListFields, OtherFields, AskedFields, KeptTexts, KeptLists,
         KeptSwitches
<1>2. r[f] = answer /\ \A g \in DOMAIN i \ {f} : r[g] = i[g]
  BY <1>1
<1> HIDE DEF r
<1>3. \A g \in KeptTexts : TrimSpace(given[g]) # Empty => TrimSpace(r[g]) = TrimSpace(given[g])
  <2> SUFFICES ASSUME NEW g \in KeptTexts, TrimSpace(given[g]) # Empty
               PROVE  g # f
    BY <1>1, <1>2 DEF Kept
  <2>1. TrimSpace(i[g]) # Empty
    BY DEF Kept
  <2>2. TrimSpace(Empty) = Empty
    BY DEF TrimSpace, Empty, Id
  <2>3. Absent(i, g) => i[g] = Empty
    BY DEF Absent, KeptTexts
  <2> QED
    BY <2>1, <2>2, <2>3
<1>4. \A g \in KeptLists \cup KeptSwitches : r[g] = i[g]
  BY <1>1, <1>2 DEF KeptLists, KeptSwitches, AskedFields
<1>5. /\ r.count = i.count /\ r.provider = i.provider
      /\ f # "version" => r.version = i.version
      /\ f # "platform" => r.platform = i.platform
      /\ f # "os" => r.os = i.os
      /\ f # "zones" => r.zones = i.zones
  BY <1>1, <1>2 DEF AskedFields
<1>6. /\ f = "platform" => i.platform = ""
      /\ f = "version" => i.version = NoVersion
      /\ f = "os" => i.os = ""
      /\ f = "zones" => Len(i.zones) # 3
  BY DEF Absent
<1>7. /\ given.provider # "" => r.provider = given.provider
      /\ given.platform \in {"", r.platform}
      /\ given.version # NoVersion => r.version = given.version
      /\ given.os # "" => r.os = given.os
  BY <1>5, <1>6 DEF Kept
<1>8. /\ Len(given.zones) = 3 => r.zones = given.zones
      /\ Len(given.zones) # 3 => r.zones \in {given.zones} \cup ZoneChoices
  <2>1. CASE f = "zones"
    <3>1. r.zones \in ZoneChoices
      BY <1>2, <2>1 DEF Answers
    <3> QED
      BY <1>6, <2>1, <3>1 DEF Kept
  <2>2. CASE f # "zones"
    BY <1>5, <2>2 DEF Kept
  <2> QED
    BY <2>1, <2>2
<1> QED
  BY <1>3, <1>4, <1>5, <1>7, <1>8 DEF Kept, r

\* Normalizing keeps what was given: a list that is accepted has no entry twice.
LEMMA NormalizeKeeps ==
    ASSUME NEW r, IsRequest(r), r.target \in Targets, Acceptable(r), NEW given, Kept(given, r)
    PROVE  Kept(given, Normalize(r.provider, r))
<1> DEFINE p == r.provider
           n == Normalize(p, r)
           m == NormalizeVPCReuse(p, r)
<1>1. /\ DOMAIN n = DOMAIN r
      /\ \A f \in DOMAIN r \ Normalized : n[f] = r[f]
      /\ p = "classic" => \A f \in DOMAIN r : n[f] = r[f]
      /\ p # "classic" => /\ n.vpc = TrimSpace(r.vpc)
                          /\ n.subnets = NormalizeIDList(r.subnets)
                          /\ n.gateways = NormalizeIDList(r.gateways)
      /\ p # "satellite" => /\ n.location = r.location /\ n.key = r.key
                            /\ n.workers = r.workers
      /\ p = "satellite" => /\ n.location = TrimSpace(r.location)
                            /\ n.key = TrimSpace(r.key)
                            /\ n.workers = NormalizeIDList(r.workers)
  BY NormalizedFields
<1>2. VPCReuseOK(p, r) /\ SatelliteReuseOK(p, m)
  BY DEF Acceptable, ReuseOK
<1>3. m.workers = r.workers
  BY RequestFields, VPCNormalized DEF VPCReads, Normalized
<1> HIDE DEF n, m
<1>4. \A f \in KeptTexts \cup KeptLists \cup KeptSwitches
               \cup {"provider", "platform", "version", "count", "os", "zones"} : f \in DOMAIN r
  BY DEF IsRequest, TextFields, ListFields, OtherFields, KeptTexts, KeptLists, KeptSwitches
<1>5. \A f \in KeptTexts : TrimSpace(n[f]) = TrimSpace(r[f])
  <2>1. \A f \in KeptTexts \ {"vpc", "location", "key"} : n[f] = r[f]
    BY <1>1, <1>4 DEF KeptTexts, Normalized
  <2>2. /\ n.vpc \in {r.vpc, TrimSpace(r.vpc)}
        /\ n.location \in {r.location, TrimSpace(r.location)}
        /\ n.key \in {r.key, TrimSpace(r.key)}
    BY <1>1, <1>4 DEF KeptTexts
  <2>3. /\ TrimSpace(n.vpc) = TrimSpace(r.vpc)
        /\ TrimSpace(n.location) = TrimSpace(r.location)
        /\ TrimSpace(n.key) = TrimSpace(r.key)
    BY <2>2, RequestTypes, Trimmed DEF Typed
  <2> QED
    BY <2>1, <2>3
<1>6. \A f \in {"subnets", "gateways"} : IdsOf(n[f]) = IdsOf(r[f]) /\ Len(n[f]) = Len(r[f])
  <2>1. CASE p = "classic"
    BY <1>1, <1>4, <2>1 DEF KeptLists
  <2>2. CASE p # "classic"
    <3>1. GoodList(r.subnets) /\ GoodList(r.gateways)
      BY <1>2, <2>2 DEF VPCReuseOK
    <3> QED
      BY <1>1, <2>2, <3>1, RequestTypes, NormalizedGood DEF Typed
  <2> QED
    BY <2>1, <2>2
<1>7. IdsOf(n.workers) = IdsOf(r.workers) /\ Len(n.workers) = Len(r.workers)
  <2>1. p = "satellite" => GoodList(r.workers)
    BY <1>2, <1>3 DEF SatelliteReuseOK
  <2> QED
    BY <1>1, <2>1, RequestTypes, NormalizedGood DEF Typed
<1>8. /\ n.provider = r.provider /\ n.platform = r.platform /\ n.version = r.version
      /\ n.count = r.count /\ n.os = r.os /\ n.zones = r.zones
      /\ \A f \in KeptSwitches : n[f] = r[f]
  BY <1>1, <1>4 DEF Normalized, KeptSwitches
<1> QED
  BY <1>5, <1>6, <1>7, <1>8 DEF Kept, KeptLists, n

\* The defaults leave a Satellite request prepared, and keep what was given.
LEMMA DefaultsPrepare ==
    ASSUME NEW i, Prepared(i), i.provider = "satellite"
    PROVE  LET r == SatelliteDefaults(i)
           IN /\ Prepared(r)
              /\ r.provider = i.provider
              /\ \A f \in DOMAIN i \ {"profile", "os"} : r[f] = i[f]
              /\ i.workers # <<>> => r.profile = i.profile
              /\ i.profile # Empty => r.profile = i.profile
              /\ \A given : Kept(given, i) => Kept(given, r)
<1> DEFINE r == SatelliteDefaults(i)
<1>1. /\ IsRequest(i) /\ i.target \in Targets /\ i.provider \in Offered[i.target]
      /\ VPCReuseOK("satellite", i) /\ SatelliteReuseOK("satellite", i)
      /\ Normal("satellite", i) /\ i.platform \in {"", "openshift"}
  BY ReuseNormal DEF Prepared, Acceptable
<1>2. {"profile", "os"} \subseteq DOMAIN i
  BY <1>1 DEF IsRequest, TextFields, OtherFields
<1>3. /\ DOMAIN r = DOMAIN i
      /\ \A f \in DOMAIN i \ {"profile", "os"} : r[f] = i[f]
      /\ r.profile = IF i.workers = <<>> /\ i.profile = Empty THEN Id(DefaultProfile) ELSE i.profile
      /\ r.os = IF i.os = "" THEN "RHCOS" ELSE i.os
  BY <1>2 DEF SatelliteDefaults
<1> HIDE DEF r
<1>4. \A f \in Normalized \cup SatelliteReads \cup {"provider", "target", "platform", "count"} :
        f \in DOMAIN i
  BY <1>1, RequestFields DEF IsRequest, OtherFields
<1>5. /\ r.provider = i.provider /\ r.target = i.target /\ r.platform = i.platform
      /\ r.count = i.count
      /\ \A f \in Normalized : r[f] = i[f]
      /\ \A f \in SatelliteReads \ {"profile"} : r[f] = i[f]
  BY <1>3, <1>4 DEF Normalized, SatelliteReads
<1>6. IsRequest(r)
  <2>1. Id(DefaultProfile) \in Text
    BY ContextAssumption DEF Id, Text
  <2>2. r.profile \in Text
    BY <1>1, <1>3, <2>1, RequestTypes DEF Typed
  <2>3. \A f \in TextFields : r[f] \in Text
    BY <1>1, <1>3, <2>2 DEF IsRequest, TextFields
  <2>4. \A f \in ListFields : r[f] \in Seq(Text)
    BY <1>1, <1>3 DEF IsRequest, ListFields
  <2>5. \A f \in NameFields : r[f] \in RawTexts
    BY <1>1, <1>3 DEF IsRequest, NameFields
  <2> QED
    BY <1>1, <1>3, <1>5, <2>3, <2>4, <2>5 DEF IsRequest
<1>7. Normal("satellite", r) /\ VPCReuseOK("satellite", r)
  BY <1>1, <1>5, SameVPC DEF Normal, Normalized, VPCReads
<1>8. SatelliteReuseOK("satellite", r)
  <2>1. i.workers # <<>> => \A f \in SatelliteReads : r[f] = i[f]
    BY <1>3, <1>5
  <2>2. i.workers # <<>> => SatelliteReuseOK("satellite", r)
    BY <1>1, <2>1, SameSatellite
  <2>3. i.workers = <<>> => SatelliteReuseOK("satellite", r)
    BY <1>1, <1>5 DEF SatelliteReuseOK, SatelliteReads
  <2> QED
    BY <2>2, <2>3
<1>9. Prepared(r)
  BY <1>1, <1>5, <1>6, <1>7, <1>8, ReuseNormal DEF Prepared, Acceptable
<1>10. ASSUME NEW given, Kept(given, i)
       PROVE  Kept(given, r)
  <2>1. \A f \in KeptTexts \cup KeptLists \cup KeptSwitches \cup {"version", "zones"} :
          f \in DOMAIN i
    BY <1>1 DEF IsRequest, TextFields, ListFields, OtherFields, KeptTexts, KeptLists,
                KeptSwitches
  <2>2. \A f \in (KeptTexts \ {"profile"}) \cup KeptLists \cup KeptSwitches
                 \cup {"version", "zones"} : r[f] = i[f]
    BY <1>3, <2>1 DEF KeptTexts, KeptLists, KeptSwitches
  <2>3. TrimSpace(given.profile) # Empty => TrimSpace(r.profile) = TrimSpace(given.profile)
    <3>1. TrimSpace(Empty) = Empty
      BY DEF TrimSpace, Empty, Id
    <3>2. TrimSpace(given.profile) # Empty => TrimSpace(i.profile) = TrimSpace(given.profile)
      BY <1>10 DEF Kept, KeptTexts
    <3> QED
      BY <1>3, <3>1, <3>2
  <2>4. \A f \in KeptTexts :
          TrimSpace(given[f]) # Empty => TrimSpace(r[f]) = TrimSpace(given[f])
    BY <1>10, <2>2, <2>3 DEF Kept
  <2>5. given.os # "" => r.os = given.os
    BY <1>3, <1>10 DEF Kept
  <2> QED
    BY <1>5, <1>10, <2>2, <2>4, <2>5 DEF Kept
<1> QED
  BY <1>3, <1>5, <1>9, <1>10 DEF r

-----------------------------------------------------------------------------
(* What plan freezes *)

\* A request plan accepts, complete.
Complete(i) == Prepared(i) /\ MissingFields(i) = {} /\ Resolves(i)

\* The values are a record: they are equal when their fields are.
LEMMA ValuesFunction ==
    ASSUME NEW i, NEW name
    PROVE  LET v == ValuesOf(i, name) IN v = [f \in DOMAIN v |-> v[f]]
<1>1. ASSUME NEW w, NEW x
      PROVE  LET v == [w EXCEPT !.publicKey = x] IN v = [f \in DOMAIN v |-> v[f]]
  OBVIOUS
<1>2. \E w, x : ValuesOf(i, name) = [w EXCEPT !.publicKey = x]
  BY Zenon DEF ValuesOf
<1> QED
  BY <1>1, <1>2

\* Normalizing what is normalized changes nothing.
LEMMA VPCFixed ==
    ASSUME NEW provider, NEW r, r = [f \in DOMAIN r |-> r[f]], VPCReads \subseteq DOMAIN r,
           provider # "classic" => /\ r.vpc = TrimSpace(r.vpc)
                                   /\ r.subnets = NormalizeIDList(r.subnets)
                                   /\ r.gateways = NormalizeIDList(r.gateways)
    PROVE  NormalizeVPCReuse(provider, r) = r
BY DEF NormalizeVPCReuse, VPCReads

\* ... and so of the Satellite fields.
LEMMA SatelliteFixed ==
    ASSUME NEW provider, NEW r, r = [f \in DOMAIN r |-> r[f]], Normalized \subseteq DOMAIN r,
           provider = "satellite" => /\ r.location = TrimSpace(r.location)
                                     /\ r.key = TrimSpace(r.key)
                                     /\ r.workers = NormalizeIDList(r.workers)
    PROVE  NormalizeSatelliteReuse(provider, r) = r
BY DEF NormalizeSatelliteReuse, Normalized

\* The recovery values are the values but for the public key (newRecoveryContext).
LEMMA Recovered ==
    ASSUME NEW v, v = [f \in DOMAIN v |-> v[f]], "publicKey" \in DOMAIN v
    PROVE  LET r == [v EXCEPT !.publicKey = NoKey]
           IN /\ r = [f \in DOMAIN r |-> r[f]]
              /\ DOMAIN r = DOMAIN v
              /\ r.publicKey = NoKey
              /\ \A f \in DOMAIN v \ {"publicKey"} : r[f] = v[f]
              /\ v.publicKey = NoKey => r = v
OBVIOUS

\* The values of each provider, field by field.
Shared == {"platform", "group"}
OfVPC == Shared \cup {"privateOnly", "headlamp", "policy", "zone", "flavor", "vpcRegion",
                      "vpc", "subnets", "gateways"}
OfClassic == Shared \cup {"headlamp", "datacenter", "machineType", "vlan"}
OfSatellite == Shared \cup {"vpc", "subnets", "gateways", "zones", "managedFrom", "location",
                            "image", "profile", "key", "workers", "os"}

\* The values of a VPC plan: the fields of other providers are zero.
LEMMA VPCValues ==
    ASSUME NEW i, NEW name, i.provider = "vpc-gen2"
    PROVE  LET v == ValuesOf(i, name)
           IN /\ v.mode = "vpc" /\ v.publicKey = NoKey /\ v.region = RegionOf[i.zone.id]
              /\ \A f \in OfVPC : v[f] = i[f]
              /\ \A f \in DOMAIN Zero \ (OfVPC \cup Computed) : v[f] = Zero[f]
<1> DEFINE v == ValuesOf(i, name)
<1>1. v.mode = "vpc"
  BY Values DEF Mode
<1>2. \A f \in DOMAIN Zero \ Computed : v[f] = IF f \in Copied("vpc") THEN i[f] ELSE Zero[f]
  BY <1>1, Values
<1>3. v.publicKey = NoKey /\ v.region = RegionOf[i.zone.id]
  BY <1>1, Values
<1> HIDE DEF v
<1>4. Copied("vpc") = OfVPC
  BY DEF Copied, OfVPC, Shared
<1>5. OfVPC \subseteq DOMAIN Zero \ Computed
  BY Fields DEF OfVPC, Shared, Computed
<1> QED
  BY <1>1, <1>2, <1>3, <1>4, <1>5 DEF v

\* The values of a Classic plan.
LEMMA ClassicValues ==
    ASSUME NEW i, NEW name, i.provider = "classic"
    PROVE  LET v == ValuesOf(i, name)
           IN /\ v.mode = "classic" /\ v.publicKey = NoKey
              /\ \A f \in OfClassic : v[f] = i[f]
              /\ \A f \in DOMAIN Zero \ (OfClassic \cup Computed) : v[f] = Zero[f]
<1> DEFINE v == ValuesOf(i, name)
<1>1. v.mode = "classic"
  BY Values DEF Mode
<1>2. \A f \in DOMAIN Zero \ Computed : v[f] = IF f \in Copied("classic") THEN i[f] ELSE Zero[f]
  BY <1>1, Values
<1>3. v.publicKey = NoKey
  BY <1>1, Values
<1> HIDE DEF v
<1>4. Copied("classic") = OfClassic
  BY DEF Copied, OfClassic, Shared
<1>5. OfClassic \subseteq DOMAIN Zero \ Computed
  BY Fields DEF OfClassic, Shared, Computed
<1> QED
  BY <1>1, <1>2, <1>3, <1>4, <1>5 DEF v

\* The values of a Satellite plan.
LEMMA SatelliteValues ==
    ASSUME NEW i, NEW name, i.provider = "satellite"
    PROVE  LET v == ValuesOf(i, name)
           IN /\ v.mode = "satellite" /\ v.region = RegionOf[i.zones[1].id]
              /\ v.publicKey = IF i.workers = <<>> /\ i.key = Empty
                               THEN Key(i.keyPath.id) ELSE NoKey
              /\ \A f \in OfSatellite : v[f] = i[f]
              /\ \A f \in DOMAIN Zero \ (OfSatellite \cup Computed) : v[f] = Zero[f]
<1> DEFINE v == ValuesOf(i, name)
<1>1. v.mode = "satellite"
  BY Values DEF Mode
<1>2. \A f \in DOMAIN Zero \ Computed : v[f] = IF f \in Copied("satellite") THEN i[f] ELSE Zero[f]
  BY <1>1, Values
<1>3. /\ v.region = RegionOf[i.zones[1].id]
      /\ v.publicKey = IF i.workers = <<>> /\ i.key = Empty
                       THEN Key(i.keyPath.id) ELSE NoKey
  BY <1>1, Values
<1> HIDE DEF v
<1>4. Copied("satellite") = OfSatellite
  BY DEF Copied, OfSatellite, Shared, SatelliteFields
<1>5. OfSatellite \subseteq DOMAIN Zero \ Computed
  BY Fields DEF OfSatellite, Shared, Computed
<1> QED
  BY <1>1, <1>2, <1>3, <1>4, <1>5 DEF v

\* The endpoints of a target are enough for each of its providers (ValidateEndpoints).
LEMMA EndpointsEnough ==
    ASSUME NEW providers, NEW provider \in providers, NEW endpoints,
           EndpointsOK(providers, endpoints)
    PROVE  EndpointsOK({provider}, endpoints)
BY DEF EndpointsOK, Required

\* What resolve checks of every request.
LEMMA ResolvedCommon ==
    ASSUME NEW i, Complete(i)
    PROVE  /\ i.provider \in Providers
           /\ i.platform \in {"kubernetes", "openshift"}
           /\ i.headlamp => i.platform = "kubernetes" /\ i.provider # "satellite"
           /\ i.version.minor # "malformed"
           /\ TrimSpace(i.group) # Empty
           /\ i.privateOnly => i.provider = "vpc-gen2"
           /\ Workers(i) \in Int /\ Workers(i) >= 1
           /\ Provider(Mode(i.provider)) = i.provider
           /\ EndpointsOK({i.provider}, ResolveTarget(i.target, environ))
           /\ VPCReuseOK(i.provider, i) /\ SatelliteReuseOK(i.provider, i)
           /\ Normal(i.provider, i) /\ Typed(i)
<1>1. /\ i.provider \in Providers /\ i.provider \in Offered[i.target]
      /\ VPCReuseOK(i.provider, i) /\ SatelliteReuseOK(i.provider, i)
      /\ Normal(i.provider, i) /\ Typed(i) /\ i.count \in Int
  BY Offers, ReuseNormal, RequestTypes DEF Complete, Prepared, Acceptable, IsRequest
<1>2. /\ i.platform \in {"kubernetes", "openshift"}
      /\ i.headlamp => i.platform = "kubernetes" /\ i.provider # "satellite"
      /\ i.version.minor # "malformed"
      /\ TrimSpace(i.group) # Empty
      /\ i.privateOnly => i.provider = "vpc-gen2"
  BY DEF Complete, Resolves
<1>3. Workers(i) \in Int /\ Workers(i) >= 1
  BY <1>1 DEF Complete, Resolves, Workers, MinimumWorkers
<1>4. EndpointsOK({i.provider}, ResolveTarget(i.target, environ))
  BY <1>1, EndpointsEnough DEF Complete, Resolves
<1>5. Provider(Mode(i.provider)) = i.provider
  BY <1>1 DEF Providers, Provider, Mode
<1> QED
  BY <1>1, <1>2, <1>3, <1>4, <1>5

\* Normalizing a normalized version changes nothing (normalizeVersion).
LEMMA VersionFixed ==
    ASSUME NEW i, Complete(i)
    PROVE  LET version == NormalizeVersion(i.platform, i.version)
           IN /\ version.minor # "malformed"
              /\ version = NormalizeVersion(i.platform, version)
<1>1. i.version.minor # "malformed"
  BY ResolvedCommon
<1> QED
  BY <1>1 DEF NormalizeVersion

\* A VPC plan has valid recovery values.
LEMMA VPCValid ==
    ASSUME NEW i, Complete(i), i.provider = "vpc-gen2", NEW name \in ClusterNames(i)
    PROVE  LET v == ValuesOf(i, name) IN ValidRecovery(v, 0)
<1> DEFINE v == ValuesOf(i, name)
<1>1. /\ v.mode = "vpc" /\ v.publicKey = NoKey /\ v.region = RegionOf[i.zone.id]
      /\ \A f \in OfVPC : v[f] = i[f]
      /\ \A f \in DOMAIN Zero \ (OfVPC \cup Computed) : v[f] = Zero[f]
  BY VPCValues
<1>2. /\ v.name = name /\ v.version = NormalizeVersion(i.platform, i.version)
      /\ v.count = Workers(i) /\ DOMAIN v = DOMAIN Zero /\ v = [f \in DOMAIN v |-> v[f]]
  BY Values, ValuesFunction
<1> HIDE DEF v
<1>3. /\ v.platform = i.platform /\ v.group = i.group /\ v.headlamp = i.headlamp
      /\ v.policy = i.policy /\ v.zone = i.zone /\ v.flavor = i.flavor
      /\ v.vpcRegion = i.vpcRegion /\ v.vpc = i.vpc
      /\ v.subnets = i.subnets /\ v.gateways = i.gateways
  BY <1>1 DEF OfVPC, Shared
<1>4. VPCReuseOK("vpc-gen2", v)
  <2>1. VPCReuseOK("vpc-gen2", i)
    BY ResolvedCommon
  <2>2. \A f \in VPCReads : i[f] = v[f]
    BY <1>3 DEF VPCReads
  <2> QED
    BY <2>1, <2>2, SameVPC
<1>5. NormalizeVPCReuse("vpc-gen2", v) = v
  <2>1. VPCReads \subseteq DOMAIN v
    BY <1>2, Fields DEF VPCReads
  <2>2. /\ v.vpc = TrimSpace(v.vpc)
        /\ v.subnets = NormalizeIDList(v.subnets)
        /\ v.gateways = NormalizeIDList(v.gateways)
    <3>1. Normal("vpc-gen2", i) /\ i.vpc \in Text
      BY ResolvedCommon DEF Typed
    <3> QED
      BY <1>3, <3>1, Trimmed DEF Normal
  <2> QED
    BY <1>2, <2>1, <2>2, VPCFixed
<1>6. ResolvesVPC(i)
  BY DEF Complete, Resolves
<1>7. ValidVPC(v, 0)
  BY <1>1, <1>3, <1>4, <1>5, <1>6 DEF ValidVPC, ResolvesVPC
<1>8. MatchesCluster(v.mode, v.name)
  BY <1>1, <1>2 DEF ClusterNames, Mode
<1>9. \A f \in Foreign(v.mode) : v[f] = Zero[f]
  <2>1. Foreign(v.mode) = {"datacenter", "machineType", "vlan"} \cup SatelliteFields
    BY <1>1 DEF Foreign
  <2>2. v.publicKey = Zero.publicKey
    BY <1>1 DEF Zero
  <2>3. Foreign(v.mode) \ {"publicKey"} \subseteq DOMAIN Zero \ (OfVPC \cup Computed)
    BY <2>1, Fields DEF SatelliteFields, OfVPC, Shared, Computed
  <2> QED
    BY <1>1, <2>2, <2>3
<1>10. /\ v.policy # "invalid" /\ TrimSpace(v.group) # Empty /\ v.count >= 1
       /\ v.platform \in {"kubernetes", "openshift"}
       /\ v.headlamp => v.platform = "kubernetes" /\ v.mode # "satellite"
       /\ v.version.minor # "malformed"
       /\ v.version = NormalizeVersion(v.platform, v.version)
  <2>1. v.policy # "invalid"
    BY <1>3, <1>6 DEF ResolvesVPC
  <2>2. /\ TrimSpace(v.group) # Empty /\ v.count >= 1
        /\ v.platform \in {"kubernetes", "openshift"}
        /\ v.headlamp => v.platform = "kubernetes" /\ v.mode # "satellite"
    BY <1>1, <1>2, <1>3, ResolvedCommon
  <2>3. /\ v.version.minor # "malformed"
        /\ v.version = NormalizeVersion(v.platform, v.version)
    BY <1>2, <1>3, VersionFixed
  <2> QED
    BY <2>1, <2>2, <2>3
<1> QED
  BY <1>1, <1>7, <1>8, <1>9, <1>10 DEF ValidRecovery, v

\* A Classic plan has valid recovery values.
LEMMA ClassicValid ==
    ASSUME NEW i, Complete(i), i.provider = "classic", NEW name \in ClusterNames(i)
    PROVE  LET v == ValuesOf(i, name) IN ValidRecovery(v, 0)
<1> DEFINE v == ValuesOf(i, name)
<1>1. /\ v.mode = "classic" /\ v.publicKey = NoKey
      /\ \A f \in OfClassic : v[f] = i[f]
      /\ \A f \in DOMAIN Zero \ (OfClassic \cup Computed) : v[f] = Zero[f]
  BY ClassicValues
<1>2. /\ v.name = name /\ v.version = NormalizeVersion(i.platform, i.version)
      /\ v.count = Workers(i) /\ DOMAIN v = DOMAIN Zero
  BY Values
<1> HIDE DEF v
<1>3. /\ v.platform = i.platform /\ v.group = i.group /\ v.headlamp = i.headlamp
      /\ v.datacenter = i.datacenter /\ v.machineType = i.machineType /\ v.vlan = i.vlan
  BY <1>1 DEF OfClassic, Shared
<1>4. ~v.privateOnly /\ v.policy = "none"
  <2>1. {"privateOnly", "policy"} \subseteq DOMAIN Zero \ (OfClassic \cup Computed)
    BY Fields DEF OfClassic, Shared, Computed
  <2> QED
    BY <1>1, <2>1 DEF Zero
<1>5. ValidClassic(v, 0)
  BY <1>3, <1>4 DEF ValidClassic, Complete, Resolves, ResolvesClassic
<1>6. MatchesCluster(v.mode, v.name)
  BY <1>1, <1>2 DEF ClusterNames, Mode
<1>7. \A f \in Foreign(v.mode) : v[f] = Zero[f]
  <2>1. Foreign(v.mode) = {"policy", "zone", "flavor", "vpcRegion", "vpc", "subnets",
                           "gateways"} \cup SatelliteFields
    BY <1>1 DEF Foreign
  <2>2. v.publicKey = Zero.publicKey
    BY <1>1 DEF Zero
  <2>3. Foreign(v.mode) \ {"publicKey"} \subseteq DOMAIN Zero \ (OfClassic \cup Computed)
    BY <2>1, Fields DEF SatelliteFields, OfClassic, Shared, Computed
  <2> QED
    BY <1>1, <2>2, <2>3
<1>8. /\ v.policy # "invalid" /\ TrimSpace(v.group) # Empty /\ v.count >= 1
      /\ v.platform \in {"kubernetes", "openshift"}
      /\ v.headlamp => v.platform = "kubernetes" /\ v.mode # "satellite"
      /\ v.version.minor # "malformed"
      /\ v.version = NormalizeVersion(v.platform, v.version)
  BY <1>1, <1>2, <1>3, <1>4, ResolvedCommon, VersionFixed
<1> QED
  BY <1>1, <1>5, <1>6, <1>7, <1>8 DEF ValidRecovery, v

\* What a complete Satellite request holds (ResolvesSatellite and the reuse rules).
LEMMA SatelliteResolved ==
    ASSUME NEW i, Complete(i), i.provider = "satellite"
    PROVE  /\ i.platform = "openshift"
           /\ Workers(i) \in {1, 3} /\ ZonesOK(i.zones)
           /\ i.workers # <<>> => Len(i.workers) = Workers(i)
           /\ i.workers = <<>> => Matches(i.profile)
           /\ i.os \in {"RHCOS", "REDHAT_8_64"}
           /\ i.workers = <<>> /\ i.key = Empty => Matches(i.keyPath)
           /\ i.location # Empty \/ i.managedFrom # Empty
           /\ i.workers # <<>> \/ i.image # Empty
           /\ ~i.location.pad /\ ~i.key.pad /\ i.workers = NormalizeIDList(i.workers)
           /\ VPCReuseOK("satellite", i)
           /\ ~i.vpc.pad /\ i.subnets = NormalizeIDList(i.subnets)
           /\ i.gateways = NormalizeIDList(i.gateways)
           /\ ~IsBlank(i.location) /\ ~IsBlank(i.key) /\ GoodList(i.workers)
           /\ i.location # Empty => TrimSpace(i.managedFrom) = Empty
           /\ i.workers # <<>> =>
                /\ i.location # Empty /\ i.key = Empty
                /\ i.vpc = Empty /\ i.subnets = <<>> /\ i.gateways = <<>>
                /\ TrimSpace(i.image) = Empty /\ TrimSpace(i.profile) = Empty
<1>1. /\ SatelliteReuseOK("satellite", i) /\ VPCReuseOK("satellite", i)
      /\ Normal("satellite", i) /\ Typed(i) /\ i.platform \in {"kubernetes", "openshift"}
  BY ResolvedCommon
<1>2. /\ ~i.location.pad /\ ~i.key.pad /\ i.workers = NormalizeIDList(i.workers)
      /\ ~i.vpc.pad /\ i.subnets = NormalizeIDList(i.subnets)
      /\ i.gateways = NormalizeIDList(i.gateways)
  BY <1>1 DEF Normal
<1>3. ResolvesSatellite(i)
  BY DEF Complete, Resolves
<1>4. i.platform = "openshift"
  BY <1>1 DEF Complete, Prepared, Acceptable
<1>5. i.location # Empty \/ i.managedFrom # Empty
  BY DEF Complete, MissingFields, RequiredFields, Absent
<1>6. i.workers # <<>> \/ i.image # Empty
  BY DEF Complete, MissingFields, RequiredFields, Absent
<1>7. i.workers # <<>> =>
        /\ i.location # Empty
        /\ i.vpc = Empty /\ i.subnets = <<>> /\ i.gateways = <<>>
        /\ TrimSpace(i.key) = Empty
        /\ TrimSpace(i.image) = Empty /\ TrimSpace(i.profile) = Empty
  BY <1>1 DEF SatelliteReuseOK
<1>8. TrimSpace(i.key) = i.key
  BY <1>1, <1>2, Trimmed DEF Typed
<1>9. /\ ~IsBlank(i.location) /\ ~IsBlank(i.key) /\ GoodList(i.workers)
      /\ i.location # Empty => TrimSpace(i.managedFrom) = Empty
  BY <1>1 DEF SatelliteReuseOK
<1>10. /\ Workers(i) \in {1, 3} /\ ZonesOK(i.zones)
       /\ i.workers # <<>> => Len(i.workers) = Workers(i)
       /\ i.workers = <<>> => Matches(i.profile)
       /\ i.os \in {"RHCOS", "REDHAT_8_64"}
       /\ i.workers = <<>> /\ i.key = Empty => Matches(i.keyPath)
  BY <1>3 DEF ResolvesSatellite
<1> QED
  BY <1>1, <1>2, <1>4, <1>5, <1>6, <1>7, <1>8, <1>9, <1>10

\* The key of a Satellite plan has a fingerprint exactly when there is a key.
LEMMA Fingerprints ==
    ASSUME NEW i, Complete(i), i.provider = "satellite", NEW name
    PROVE  LET v == ValuesOf(i, name)
           IN /\ Fingerprint(v.publicKey) = 0 <=> v.publicKey = NoKey
              /\ v.publicKey = NoKey <=> i.workers # <<>> \/ i.key # Empty
<1> DEFINE v == ValuesOf(i, name)
<1>1. v.publicKey = IF i.workers = <<>> /\ i.key = Empty THEN Key(i.keyPath.id) ELSE NoKey
  BY SatelliteValues
<1>2. i.workers = <<>> /\ i.key = Empty => i.keyPath.id # 0
  BY SatelliteResolved, ContextAssumption DEF Matches
<1>3. NoKey.blob = 0 /\ \A n : Key(n).blob = n
  BY DEF NoKey, Key
<1> QED
  BY <1>1, <1>2, <1>3 DEF Fingerprint

\* The reuse rules accept the values of a Satellite plan.
LEMMA ReuseValid ==
    ASSUME NEW i, Complete(i), i.provider = "satellite",
           NEW w, w = [f \in DOMAIN w |-> w[f]], DOMAIN w = DOMAIN Zero,
           \A f \in OfSatellite : w[f] = i[f]
    PROVE  ValidReuse("satellite", w) /\ NormalizeVPCReuse("satellite", w) = w
<1> DEFINE a == AsReused(w)
<1>1. /\ DOMAIN a = DOMAIN w \cup {"keyPath"} /\ a = [f \in DOMAIN a |-> a[f]]
      /\ \A f \in {"image", "profile", "keyPath"} : a[f] = Empty
      /\ \A f \in DOMAIN w \ {"image", "profile", "keyPath"} : a[f] = w[f]
  <2> DEFINE D == DOMAIN w \cup {"keyPath"}
             e(f) == IF f \in {"image", "profile", "keyPath"} THEN Empty ELSE w[f]
  <2>1. a = [f \in D |-> e(f)]
    BY DEF AsReused
  <2>2. {"image", "profile", "keyPath"} \subseteq D
    BY Fields
  <2> HIDE DEF a, D
  <2>3. DOMAIN a = D /\ \A f \in D : a[f] = e(f)
    BY <2>1
  <2>4. a = [f \in DOMAIN a |-> a[f]]
    BY <2>1, <2>3
  <2> QED
    BY <2>2, <2>3, <2>4 DEF D
<1> HIDE DEF a
<1>2. VPCReads \subseteq DOMAIN w /\ VPCReads \subseteq DOMAIN a /\ Normalized \subseteq DOMAIN a
  BY <1>1, Fields DEF VPCReads, Normalized
<1>3. /\ w.vpc = i.vpc /\ w.subnets = i.subnets /\ w.gateways = i.gateways
      /\ w.location = i.location /\ w.key = i.key /\ w.workers = i.workers
      /\ w.managedFrom = i.managedFrom
  BY DEF OfSatellite, Shared
<1>4. /\ a.vpc = i.vpc /\ a.subnets = i.subnets /\ a.gateways = i.gateways
      /\ a.location = i.location /\ a.key = i.key /\ a.workers = i.workers
      /\ a.managedFrom = i.managedFrom
  BY <1>1, <1>3, Fields
<1>5. /\ i.vpc = TrimSpace(i.vpc) /\ i.location = TrimSpace(i.location)
      /\ i.key = TrimSpace(i.key)
  BY SatelliteResolved, ResolvedCommon, Trimmed DEF Typed
<1>6. NormalizeVPCReuse("satellite", w) = w
  BY <1>2, <1>3, <1>5, SatelliteResolved, VPCFixed
<1>7. NormalizeVPCReuse("satellite", a) = a
  BY <1>1, <1>2, <1>4, <1>5, SatelliteResolved, VPCFixed
<1>8. NormalizeSatelliteReuse("satellite", a) = a
  BY <1>1, <1>2, <1>4, <1>5, SatelliteResolved, SatelliteFixed
<1>9. VPCReuseOK("satellite", a)
  <2>1. \A f \in VPCReads : i[f] = a[f]
    BY <1>4 DEF VPCReads
  <2> QED
    BY <2>1, SatelliteResolved, SameVPC
<1>10. SatelliteReuseOK("satellite", a)
  <2>1. TrimSpace(Empty) = Empty
    BY DEF TrimSpace, Empty, Id
  <2> QED
    BY <1>1, <1>4, <1>5, <2>1, SatelliteResolved DEF SatelliteReuseOK
<1>11. Provider("satellite") = "satellite"
  BY DEF Provider
<1>12. ReuseOK("satellite", a) /\ Normalize("satellite", a) = a
  BY <1>7, <1>8, <1>9, <1>10 DEF ReuseOK, Normalize
<1> QED
  BY <1>6, <1>11, <1>12 DEF ValidReuse, a

\* The recovery values of a Satellite plan are valid unless a text of blanks was left.
LEMMA SatelliteValid ==
    ASSUME NEW i, Complete(i), i.provider = "satellite", NEW name \in ClusterNames(i)
    PROVE  LET v == ValuesOf(i, name)
           IN ValidRecovery([v EXCEPT !.publicKey = NoKey], Fingerprint(v.publicKey))
              <=> ~BlankLeft(v)
<1> DEFINE v == ValuesOf(i, name)
           w == [v EXCEPT !.publicKey = NoKey]
           print == Fingerprint(v.publicKey)
<1>1. /\ v.mode = "satellite" /\ v.region = RegionOf[i.zones[1].id]
      /\ \A f \in OfSatellite : v[f] = i[f]
      /\ \A f \in DOMAIN Zero \ (OfSatellite \cup Computed) : v[f] = Zero[f]
  BY SatelliteValues
<1>2. /\ v.name = name /\ v.version = NormalizeVersion(i.platform, i.version)
      /\ v.count = Workers(i) /\ DOMAIN v = DOMAIN Zero /\ v = [f \in DOMAIN v |-> v[f]]
  BY Values, ValuesFunction
<1>3. /\ print = 0 <=> v.publicKey = NoKey
      /\ v.publicKey = NoKey <=> i.workers # <<>> \/ i.key # Empty
  BY Fingerprints
<1> HIDE DEF v
<1>4. /\ w = [f \in DOMAIN w |-> w[f]] /\ DOMAIN w = DOMAIN v /\ w.publicKey = NoKey
      /\ \A f \in DOMAIN v \ {"publicKey"} : w[f] = v[f]
  BY <1>2, Recovered, Fields
<1> HIDE DEF w, print
<1>5. /\ w.mode = "satellite" /\ w.region = RegionOf[i.zones[1].id]
      /\ w.name = name /\ w.version = NormalizeVersion(i.platform, i.version)
      /\ w.count = Workers(i)
  BY <1>1, <1>2, <1>4, Fields
<1>6. \A f \in OfSatellite : w[f] = i[f]
  BY <1>1, <1>2, <1>4, Fields DEF OfSatellite, Shared
<1>7. /\ w.platform = i.platform /\ w.group = i.group /\ w.zones = i.zones
      /\ w.managedFrom = i.managedFrom /\ w.location = i.location
      /\ w.image = i.image /\ w.profile = i.profile /\ w.key = i.key
      /\ w.workers = i.workers /\ w.os = i.os
  BY <1>6 DEF OfSatellite, Shared
<1>8. \A f \in DOMAIN Zero \ (OfSatellite \cup Computed) : w[f] = Zero[f]
  BY <1>1, <1>2, <1>4 DEF Computed
<1>9. ~w.privateOnly /\ w.policy = "none" /\ ~w.headlamp
  <2>1. {"privateOnly", "policy", "headlamp"} \subseteq DOMAIN Zero \ (OfSatellite \cup Computed)
    BY Fields DEF OfSatellite, Shared, Computed
  <2> QED
    BY <1>8, <2>1 DEF Zero
<1>10. ValidReuse("satellite", w)
  BY <1>2, <1>4, <1>6, ReuseValid
<1>11. /\ MatchesCluster(w.mode, w.name)
       /\ \A f \in Foreign(w.mode) : w[f] = Zero[f]
       /\ w.policy # "invalid" /\ TrimSpace(w.group) # Empty /\ w.count >= 1
       /\ w.platform \in {"kubernetes", "openshift"}
       /\ w.headlamp => w.platform = "kubernetes" /\ w.mode # "satellite"
       /\ w.version.minor # "malformed"
       /\ w.version = NormalizeVersion(w.platform, w.version)
  <2>1. MatchesCluster(w.mode, w.name)
    BY <1>5 DEF ClusterNames, Mode
  <2>2. Foreign("satellite") \subseteq DOMAIN Zero \ (OfSatellite \cup Computed)
    BY Fields DEF Foreign, OfSatellite, Shared, Computed
  <2> QED
    BY <1>5, <1>7, <1>8, <1>9, <2>1, <2>2, ResolvedCommon, VersionFixed
<1>12. BlankLeft(v) <=> IsBlank(i.managedFrom) \/ IsBlank(i.image) \/ IsBlank(i.profile)
  <2>1. v.managedFrom = i.managedFrom /\ v.image = i.image /\ v.profile = i.profile
    BY <1>1 DEF OfSatellite, Shared
  <2> QED
    BY <1>1, <2>1 DEF BlankLeft
<1>13. ValidSatellite(w, print) <=> ~BlankLeft(v)
  <2>1. /\ ~w.privateOnly
        /\ ZonesOK(w.zones) /\ w.region = RegionOf[w.zones[1].id]
        /\ w.platform = "openshift"
        /\ w.os \in {"RHCOS", "REDHAT_8_64"}
        /\ w.publicKey = NoKey
        /\ w.count \in {1, 3}
        /\ w.workers # <<>> => Len(w.workers) = w.count
        /\ ValidReuse("satellite", w)
    BY <1>4, <1>5, <1>7, <1>9, <1>10, SatelliteResolved
  <2>2. (IF w.location # Empty THEN w.managedFrom = Empty ELSE TrimSpace(w.managedFrom) # Empty)
        <=> ~IsBlank(i.managedFrom)
    BY <1>7, SatelliteResolved DEF IsBlank
  <2>3. (IF w.workers # <<>>
         THEN w.image = Empty /\ w.profile = Empty /\ w.key = Empty /\ print = 0
         ELSE /\ TrimSpace(w.image) # Empty /\ Matches(w.profile)
              /\ print = 0 <=> w.key # Empty)
        <=> ~IsBlank(i.image) /\ ~IsBlank(i.profile)
    <3>1. CASE w.workers # <<>>
      BY <1>3, <1>7, <3>1, SatelliteResolved DEF IsBlank
    <3>2. CASE w.workers = <<>>
      <4>1. /\ Matches(i.profile) /\ i.image # Empty
            /\ print = 0 <=> i.key # Empty
        BY <1>3, <1>7, <3>2, SatelliteResolved
      <4>2. ~IsBlank(i.profile)
        BY <4>1, ResolvedCommon, Trimmed DEF Typed, Matches
      <4> QED
        BY <1>7, <3>2, <4>1, <4>2 DEF IsBlank
    <3> QED
      BY <3>1, <3>2
  <2> QED
    BY <1>12, <2>1, <2>2, <2>3 DEF ValidSatellite
<1> QED
  BY <1>5, <1>11, <1>13 DEF ValidRecovery, v, w, print

\* The parts of a plan's result.
LEMMA Parts ==
    ASSUME NEW id, NEW backend, NEW values, NEW endpoints
    PROVE  LET c == PlanResult(id, backend, values, endpoints)
           IN /\ IsResult(c)
              /\ c.id = id /\ c.backend = backend /\ c.values = values /\ c.digest = values
              /\ c.recovery = [values EXCEPT !.publicKey = NoKey]
              /\ c.fingerprint = Fingerprint(values.publicKey)
              /\ c.endpoints = endpoints
BY DEF PlanResult, IsResult

\* What is derived from the values when they are read is what plan wrote beside them.
Derived(c) ==
    /\ IsResult(c)
    /\ c.digest = c.values
    /\ c.recovery = RecoveryValues(c.values)
    /\ c.fingerprint = Fingerprint(c.values.publicKey)
    /\ c.values.mode = "satellite" \/ c.values.publicKey = NoKey
    /\ c.values.mode \in Modes
    /\ c.recovery.mode = c.values.mode
    /\ DOMAIN c.values = DOMAIN Zero

\* Everything plan writes beside the values is derived from them (newRecoveryContext).
LEMMA PlanDerived ==
    ASSUME NEW i, Complete(i), NEW name, NEW id, NEW backend, NEW endpoints
    PROVE  Derived(PlanResult(id, backend, ValuesOf(i, name), endpoints))
<1> DEFINE v == ValuesOf(i, name)
           w == [v EXCEPT !.publicKey = NoKey]
           c == PlanResult(id, backend, v, endpoints)
<1>1. /\ v = [f \in DOMAIN v |-> v[f]] /\ DOMAIN v = DOMAIN Zero
      /\ v.mode = Mode(i.provider)
  BY Values, ValuesFunction
<1>2. v.mode = "satellite" \/ v.publicKey = NoKey
  BY Values
<1>3. i.provider \in Providers
  BY ResolvedCommon
<1>4. v.mode \in Modes
  BY <1>1, <1>3 DEF Mode, Modes, Providers
<1>5. RecoveryValues(v) = w
  <2>1. CASE v.mode = "satellite"
    <3>1. i.provider = "satellite"
      BY <1>1, <1>3, <2>1 DEF Mode, Providers
    <3>2. \A f \in OfSatellite : v[f] = i[f]
      BY <3>1, SatelliteValues
    <3>3. NormalizeVPCReuse("satellite", v) = v
      BY <1>1, <3>1, <3>2, ReuseValid
    <3> QED
      BY <2>1, <3>3 DEF RecoveryValues
  <2>2. CASE v.mode # "satellite"
    <3>1. w = v
      BY <1>1, <1>2, <2>2, Recovered, Fields
    <3> QED
      BY <2>2, <3>1 DEF RecoveryValues
  <2> QED
    BY <2>1, <2>2
<1>6. w.mode = v.mode
  BY <1>1, Recovered, Fields
<1> HIDE DEF v, w
<1>7. /\ IsResult(c) /\ c.values = v /\ c.digest = v /\ c.recovery = w
      /\ c.fingerprint = Fingerprint(v.publicKey)
  BY Parts DEF w
<1> HIDE DEF c
<1> QED
  BY <1>1, <1>2, <1>4, <1>5, <1>6, <1>7 DEF Derived, c, v

\* Plan and the later commands agree on what is a context.
LEMMA PlanReadable ==
    ASSUME NEW i, Complete(i), NEW name \in ClusterNames(i), NEW id, NEW backend
    PROVE  LET v == ValuesOf(i, name)
           IN Readable(PlanResult(id, backend, v, ResolveTarget(i.target, environ)))
              <=> ~BlankLeft(v)
<1> DEFINE v == ValuesOf(i, name)
           e == ResolveTarget(i.target, environ)
           w == [v EXCEPT !.publicKey = NoKey]
           c == PlanResult(id, backend, v, e)
<1>1. /\ i.provider \in Providers /\ EndpointsOK({i.provider}, e)
      /\ Provider(Mode(i.provider)) = i.provider
  BY ResolvedCommon
<1>2. v.mode = Mode(i.provider) /\ v = [f \in DOMAIN v |-> v[f]] /\ DOMAIN v = DOMAIN Zero
  BY Values, ValuesFunction
<1>3. ValidRecovery(w, Fingerprint(v.publicKey)) <=> ~BlankLeft(v)
  <2>1. CASE i.provider = "satellite"
    BY <2>1, SatelliteValid
  <2>2. CASE i.provider # "satellite"
    <3>1. v.mode # "satellite" /\ v.publicKey = NoKey
      BY <1>1, <1>2, <2>2, Values DEF Mode, Providers
    <3>2. w = v
      BY <1>2, <3>1, Recovered, Fields
    <3>3. Fingerprint(v.publicKey) = 0
      BY <3>1 DEF Fingerprint, NoKey
    <3>4. ValidRecovery(v, 0)
      BY <1>1, <2>2, VPCValid, ClassicValid DEF Providers
    <3>5. ~BlankLeft(v)
      BY <3>1 DEF BlankLeft
    <3> QED
      BY <3>2, <3>3, <3>4, <3>5
  <2> QED
    BY <2>1, <2>2
<1>4. DerivesRecovery(v, Fingerprint(v.publicKey))
  <2>1. CASE i.provider = "satellite"
    <3>1. /\ Fingerprint(v.publicKey) = 0 <=> v.publicKey = NoKey
          /\ v.publicKey = NoKey <=> i.workers # <<>> \/ i.key # Empty
      BY <2>1, Fingerprints
    <3>2. \A f \in OfSatellite : v[f] = i[f]
      BY <2>1, SatelliteValues
    <3> HIDE DEF v
    <3>3. v.workers = i.workers /\ v.key = i.key /\ \A f \in VPCReads : i[f] = v[f]
      BY <3>2 DEF OfSatellite, Shared, VPCReads
    <3>4. VPCReuseOK("satellite", v)
      BY <2>1, <3>3, SatelliteResolved, SameVPC
    <3> QED
      BY <3>1, <3>3, <3>4 DEF DerivesRecovery
  <2>2. CASE i.provider # "satellite"
    BY <1>1, <1>2, <2>2 DEF DerivesRecovery, Mode, Providers
  <2> QED
    BY <2>1, <2>2
<1>5. Derived(c)
  BY PlanDerived
<1> HIDE DEF v, w, e
<1>6. /\ c.values = v /\ c.recovery = w /\ c.fingerprint = Fingerprint(v.publicKey)
      /\ c.endpoints = e
  BY Parts DEF w
<1> HIDE DEF c
<1> QED
  BY <1>1, <1>2, <1>3, <1>4, <1>5, <1>6 DEF Readable, Derived, c, v, e

\* Each thing a frozen Satellite plan needs has one source.
LEMMA PlanOneSource ==
    ASSUME NEW i, Complete(i), i.provider = "satellite", NEW name
    PROVE  LET v == ValuesOf(i, name)
               Given(t) == TrimSpace(t) # Empty
           IN ~BlankLeft(v) =>
                /\ Given(v.location) # Given(v.managedFrom)
                /\ IF v.workers # <<>>
                   THEN /\ Given(v.location) /\ Len(v.workers) = v.count
                        /\ \A t \in {v.image, v.profile, v.key, v.vpc} : ~Given(t)
                        /\ v.subnets = <<>> /\ v.gateways = <<>> /\ v.publicKey = NoKey
                   ELSE /\ Given(v.image) /\ Given(v.profile)
                        /\ (v.publicKey = NoKey) <=> Given(v.key)
<1> DEFINE v == ValuesOf(i, name)
           Given(t) == TrimSpace(t) # Empty
<1>1. /\ v.mode = "satellite" /\ v.count = Workers(i)
      /\ \A f \in OfSatellite : v[f] = i[f]
  BY SatelliteValues, Values
<1>2. v.publicKey = NoKey <=> i.workers # <<>> \/ i.key # Empty
  BY Fingerprints
<1> HIDE DEF v
<1>3. /\ v.managedFrom = i.managedFrom /\ v.location = i.location
      /\ v.image = i.image /\ v.profile = i.profile /\ v.key = i.key
      /\ v.workers = i.workers /\ v.vpc = i.vpc
      /\ v.subnets = i.subnets /\ v.gateways = i.gateways
  BY <1>1 DEF OfSatellite, Shared
<1> SUFFICES ASSUME ~BlankLeft(v)
             PROVE  /\ Given(v.location) # Given(v.managedFrom)
                    /\ IF v.workers # <<>>
                       THEN /\ Given(v.location) /\ Len(v.workers) = v.count
                            /\ \A t \in {v.image, v.profile, v.key, v.vpc} : ~Given(t)
                            /\ v.subnets = <<>> /\ v.gateways = <<>> /\ v.publicKey = NoKey
                       ELSE /\ Given(v.image) /\ Given(v.profile)
                            /\ (v.publicKey = NoKey) <=> Given(v.key)
  BY DEF v
<1>4. /\ ~IsBlank(i.managedFrom) /\ ~IsBlank(i.image) /\ ~IsBlank(i.profile)
  BY <1>1, <1>3 DEF BlankLeft
<1>5. TrimSpace(Empty) = Empty
  BY DEF TrimSpace, Empty, Id
<1>6. /\ Given(i.location) <=> i.location # Empty
      /\ Given(i.managedFrom) <=> i.managedFrom # Empty
      /\ Given(i.image) <=> i.image # Empty
      /\ Given(i.profile) <=> i.profile # Empty
      /\ Given(i.key) <=> i.key # Empty
  BY <1>4, <1>5, SatelliteResolved DEF IsBlank
<1>7. Given(v.location) # Given(v.managedFrom)
  BY <1>3, <1>6, SatelliteResolved
<1>8. CASE v.workers # <<>>
  BY <1>1, <1>2, <1>3, <1>5, <1>6, <1>7, <1>8, SatelliteResolved
<1>9. CASE v.workers = <<>>
  <2>1. i.profile.id # 0 /\ i.profile \in Text
    <3>1. Matches(i.profile)
      BY <1>3, <1>9, SatelliteResolved
    <3>2. i.profile \in Text
      BY ResolvedCommon DEF Typed
    <3> QED
      BY <3>1, <3>2, ContextAssumption DEF Matches
  <2>2. Given(i.profile)
    BY <2>1, Trimmed
  <2> QED
    BY <1>2, <1>3, <1>6, <1>7, <1>9, <2>2, SatelliteResolved
<1> QED
  BY <1>8, <1>9

\* What the values must hold of what the caller gave.
KeptIn(given, v) ==
    /\ given.provider # "" => v.mode = Mode(given.provider)
    /\ given.platform \in {"", v.platform}
    /\ given.version # NoVersion => v.version = NormalizeVersion(v.platform, given.version)
    /\ given.count \in {0, v.count}
    /\ given.os # "" /\ v.mode = "satellite" => v.os = given.os
    /\ \A f \in KeptSwitches \cap Copied(v.mode) : v[f] = given[f]
    /\ \A f \in (KeptTexts \ {"keyPath"}) \cap Copied(v.mode) :
         TrimSpace(given[f]) # Empty => TrimSpace(v[f]) = TrimSpace(given[f])
    /\ \A f \in KeptLists \cap Copied(v.mode) :
         IdsOf(given[f]) = IdsOf(v[f]) /\ Len(given[f]) = Len(v[f])
    /\ v.mode = "satellite" =>
         /\ TrimSpace(given.keyPath) # Empty => v.publicKey = Key(given.keyPath.id)
         /\ Len(given.zones) = 3 => v.zones = given.zones
         /\ Len(given.zones) # 3 => v.zones \in ZoneChoices

\* The key at the path the caller gave is the one frozen: a path excludes a key and workers
\* that are reused (normalizeSatelliteReuseInputs, Provision).
LEMMA PathKept ==
    ASSUME NEW i, Complete(i), i.provider = "satellite", NEW name, NEW given, Kept(given, i),
           TrimSpace(given.keyPath) # Empty
    PROVE  ValuesOf(i, name).publicKey = Key(given.keyPath.id)
<1>1. TrimSpace(i.keyPath) = TrimSpace(given.keyPath)
  BY DEF Kept, KeptTexts
<1>2. i.keyPath.id = given.keyPath.id
  BY <1>1 DEF TrimSpace, Id
<1>3. SatelliteReuseOK("satellite", i)
  BY ResolvedCommon
<1>4. i.workers = <<>> /\ i.key = Empty
  BY <1>1, <1>3 DEF SatelliteReuseOK
<1>5. ValuesOf(i, name).publicKey = Key(i.keyPath.id)
  BY <1>4, SatelliteValues
<1> QED
  BY <1>2, <1>5

\* What the caller gave is in the values plan makes of a request that kept it.
LEMMA PlanKeeps ==
    ASSUME NEW i, Complete(i), NEW name, NEW given, Kept(given, i)
    PROVE  KeptIn(given, ValuesOf(i, name))
<1> DEFINE v == ValuesOf(i, name)
<1>1. /\ v.mode = Mode(i.provider) /\ v.count = Workers(i)
      /\ v.version = NormalizeVersion(i.platform, i.version)
      /\ \A f \in DOMAIN Zero \ Computed :
           v[f] = IF f \in Copied(v.mode) THEN i[f] ELSE Zero[f]
  BY Values
<1>2. i.provider \in Providers
  BY ResolvedCommon
<1>3. v.mode = "satellite" /\ TrimSpace(given.keyPath) # Empty =>
        v.publicKey = Key(given.keyPath.id)
  BY <1>1, <1>2, PathKept DEF Mode, Providers
<1> HIDE DEF v
<1>4. v.mode \in Modes
  BY <1>1, <1>2 DEF Mode, Modes, Providers
<1>5. \A f \in (KeptTexts \ {"keyPath"}) \cup KeptLists \cup KeptSwitches
               \cup {"platform", "os", "zones"} : f \in DOMAIN Zero \ Computed
  BY Fields DEF KeptTexts, KeptLists, KeptSwitches, Computed
<1>6. /\ "platform" \in Copied(v.mode)
      /\ v.mode = "satellite" => "os" \in Copied(v.mode) /\ "zones" \in Copied(v.mode)
  BY <1>4 DEF Copied, Modes, SatelliteFields
<1>7. v.platform = i.platform
  BY <1>1, <1>5, <1>6
<1>8. v.mode = "satellite" => v.os = i.os /\ v.zones = i.zones
  BY <1>1, <1>5, <1>6
<1>9. given.count \in {0, v.count}
  BY <1>1 DEF Kept, Workers
<1>10. \A f \in ((KeptTexts \ {"keyPath"}) \cup KeptLists \cup KeptSwitches)
                \cap Copied(v.mode) : v[f] = i[f]
  BY <1>1, <1>5
<1>11. /\ \A f \in (KeptTexts \ {"keyPath"}) \cap Copied(v.mode) :
            TrimSpace(given[f]) # Empty => TrimSpace(v[f]) = TrimSpace(given[f])
       /\ \A f \in KeptLists \cap Copied(v.mode) :
            IdsOf(given[f]) = IdsOf(v[f]) /\ Len(given[f]) = Len(v[f])
       /\ \A f \in KeptSwitches \cap Copied(v.mode) : v[f] = given[f]
  BY <1>10 DEF Kept
<1>12. v.mode = "satellite" =>
         /\ Len(given.zones) = 3 => v.zones = given.zones
         /\ Len(given.zones) # 3 => v.zones \in ZoneChoices
  <2> SUFFICES ASSUME v.mode = "satellite"
               PROVE  /\ Len(given.zones) = 3 => v.zones = given.zones
                      /\ Len(given.zones) # 3 => v.zones \in ZoneChoices
    OBVIOUS
  <2>1. i.provider = "satellite"
    BY <1>1, <1>2 DEF Mode, Providers
  <2>2. ZonesOK(i.zones)
    BY <2>1, SatelliteResolved
  <2>3. Len(i.zones) = 3
    BY <2>2 DEF ZonesOK
  <2> QED
    BY <1>8, <2>3 DEF Kept
<1>13. /\ given.provider # "" => v.mode = Mode(given.provider)
       /\ given.version # NoVersion => v.version = NormalizeVersion(v.platform, given.version)
       /\ given.platform \in {"", v.platform}
       /\ given.os # "" /\ v.mode = "satellite" => v.os = given.os
  BY <1>1, <1>7, <1>8 DEF Kept
<1> QED
  BY <1>3, <1>9, <1>11, <1>12, <1>13 DEF KeptIn, v

-----------------------------------------------------------------------------
(* Names *)

\* A name ict makes fits the provider, whatever the lengths of prefix and owner
\* (prefixedName, generatedName, clusterNameLimit).
LEMMA NamesFit ==
    ASSUME NEW provider \in Providers, NEW prefix \in RawTexts, NEW name \in RawTexts,
           NEW owner \in RawTexts,
           NEW n \in ResolveName(prefix, name, owner, Limits[Mode(provider)])
    PROVE  \/ MatchesCluster(Mode(provider), n)
           \/ prefix.len = 0 /\ (name.len > 0 \/ owner.first = "digit")
<1> DEFINE limit == Limits[Mode(provider)]
           p == NormalizeOwner(prefix)
<1>1. limit \in Nat /\ limit >= 32
  BY DEF Providers, Mode, Limits
<1>2. \A t \in RawTexts : /\ NormalizeOwner(t) \in Names /\ NormalizeOwner(t).len = t.kept
                          /\ NormalizeOwner(t).lead = t.first /\ NormalizeOwner(t).clean
                          /\ t.len \in Nat /\ t.kept \in Nat /\ t.first \in {"letter", "digit"}
  BY DEF RawTexts, NormalizeOwner, Names, Leads
<1>3. MatchesCluster(Mode(provider), n)
        <=> n.len \in 1..limit /\ n.lead = "letter" /\ n.clean
  BY DEF MatchesCluster
<1> HIDE DEF limit
<1>4. CASE prefix.len > 0 /\ name.len > 0
  <2>1. /\ GoodPrefix(prefix) /\ name.kept > 0 /\ LeavesRoom(p, limit)
        /\ n = PrefixedName(p, NormalizeOwner(name), limit)
    BY <1>4 DEF ResolveName, limit
  <2>2. p \in Names /\ p.len > 0 /\ p.lead = "letter" /\ p.clean
    BY <1>2, <2>1 DEF GoodPrefix
  <2>3. NormalizeOwner(name) \in Names /\ NormalizeOwner(name).len > 0
    BY <1>2, <2>1
  <2> HIDE DEF p
  <2>4. n.len \in p.len + 2..limit /\ n.lead = "letter" /\ n.clean
    BY <1>1, <2>1, <2>2, <2>3, PrefixedNameFits
  <2>5. p.len \in Nat
    BY <2>2 DEF Names
  <2> QED
    BY <1>1, <1>3, <2>4, <2>5
<1>5. CASE prefix.len > 0 /\ ~(name.len > 0)
  <2>1. /\ GoodPrefix(prefix) /\ p.len + GeneratedNameSuffixLength <= limit
        /\ n = GeneratedPrefixedName(p)
    BY <1>5 DEF ResolveName, limit
  <2>2. p \in Names /\ p.len > 0 /\ p.lead = "letter" /\ p.clean /\ p.len \in Nat
    BY <1>2, <2>1 DEF GoodPrefix
  <2> HIDE DEF p
  <2>3. n.len = p.len + 22 /\ n.lead = p.lead /\ n.clean = p.clean
    BY <2>1, <2>2 DEF GeneratedPrefixedName, GeneratedNameSuffixLength, Names
  <2> QED
    BY <1>1, <1>3, <2>1, <2>2, <2>3 DEF GeneratedNameSuffixLength
<1>6. CASE ~(prefix.len > 0)
  <2>1. prefix.len = 0
    BY <1>2, <1>6
  <2>2. CASE name.len > 0
    BY <2>1, <2>2
  <2>3. CASE ~(name.len > 0)
    <3> DEFINE o == NormalizeOwner(owner)
               t == Truncate(o, OwnerLength)
    <3>1. owner.kept > 0 /\ n = GeneratedPrefixedName(t)
      BY <1>6, <2>3 DEF ResolveName, GeneratedName
    <3>2. o \in Names /\ o.len > 0 /\ o.lead = owner.first /\ o.clean /\ o.len \in Nat
      BY <1>2, <3>1
    <3> HIDE DEF o
    <3>3. t.len \in 1..10 /\ t.lead = o.lead /\ t.clean = o.clean /\ t \in Names
      <4> DEFINE length == IF o.len > 10 THEN 10 ELSE o.len
      <4>1. t = [o EXCEPT !.len = length]
        BY DEF Truncate, OwnerLength
      <4>2. length \in 1..10 /\ length \in Nat
        BY <3>2
      <4> HIDE DEF length, t
      <4>3. t.len = length /\ t.lead = o.lead /\ t.clean = o.clean
        BY <3>2, <4>1 DEF Names
      <4>4. t \in Names
        BY <3>2, <4>1, <4>2 DEF Names
      <4> QED
        BY <4>2, <4>3, <4>4
    <3> HIDE DEF t
    <3>4. n.len = t.len + 22 /\ n.lead = t.lead /\ n.clean = t.clean
      BY <3>1, <3>3 DEF GeneratedPrefixedName, GeneratedNameSuffixLength, Names
    <3>5. n.len \in 1..limit
      BY <1>1, <3>3, <3>4
    <3> QED
      BY <1>2, <1>3, <2>1, <3>2, <3>3, <3>4, <3>5
  <2> QED
    BY <2>2, <2>3
<1> QED
  BY <1>4, <1>5, <1>6

-----------------------------------------------------------------------------
(* The invariant *)

\* Steps before there is a plan, and while there is one.
Early == {"select", "discover", "resolve"}
Late == {"written", "changed", "running"}

\* A request keeps its type, and from when it is accepted it is prepared; nothing the
\* caller gave is lost.
Asking ==
    /\ step \in Early => /\ IsRequest(in) /\ Kept(supplied, in)
                         /\ frozen = NoContext /\ context = NoContext
    /\ step \in {"discover", "resolve"} => Prepared(in)
    /\ step = "resolve" => MissingFields(in) = {}

\* A context that differs from the frozen one in one part that reading looks at.
PartChanged ==
    \/ context.values # frozen.values /\ context.digest = frozen.digest
    \/ context.values = frozen.values /\ context.recovery # frozen.recovery
    \/ context.values = frozen.values /\ context.digest # frozen.digest
    \/ /\ context.values = frozen.values /\ context.recovery = frozen.recovery
       /\ context.fingerprint # frozen.fingerprint

Keeping ==
    /\ step \in Late => Derived(frozen) /\ DOMAIN context = DOMAIN frozen
    /\ step = "written" => context = frozen
    /\ step = "changed" => PartChanged

Typing ==
    /\ step \in Early \cup Late \cup {"refused"}
    /\ asked \in Nat
    /\ terraform # NoTerraform => step = "running"

PlanInv ==
    /\ Typing /\ Asking /\ Keeping
    /\ WrittenIsReadable /\ OnlyWhole /\ SuppliedIsKept /\ OneSource

\* A context changed in one part is not read (ReadPlanResult).
LEMMA ChangedUnreadable ==
    ASSUME Derived(frozen), PartChanged
    PROVE  ~Readable(context)
<1> SUFFICES ASSUME Readable(context) PROVE FALSE
  OBVIOUS
<1>1. /\ ValidRecovery(context.recovery, context.fingerprint)
      /\ DerivesRecovery(context.values, context.fingerprint)
      /\ RecoveryValues(context.values) = context.recovery
      /\ context.digest = context.values
  BY DEF Readable
<1>2. /\ frozen.digest = frozen.values /\ frozen.recovery = RecoveryValues(frozen.values)
      /\ frozen.fingerprint = Fingerprint(frozen.values.publicKey)
      /\ frozen.values.mode = "satellite" \/ frozen.values.publicKey = NoKey
      /\ frozen.values.mode \in Modes /\ frozen.recovery.mode = frozen.values.mode
  BY DEF Derived
<1>3. Fingerprint(NoKey) = 0
  BY DEF Fingerprint, NoKey
<1>4. /\ context.values = frozen.values /\ context.recovery = frozen.recovery
      /\ context.fingerprint # frozen.fingerprint
  BY <1>1, <1>2 DEF PartChanged
<1>5. CASE frozen.values.mode = "satellite"
  BY <1>1, <1>2, <1>3, <1>4, <1>5 DEF DerivesRecovery
<1>6. CASE frozen.values.mode # "satellite"
  <2>1. context.recovery.mode \in {"vpc", "classic"} /\ frozen.fingerprint = 0
    BY <1>2, <1>3, <1>4, <1>6 DEF Modes
  <2>2. context.fingerprint = 0
    BY <1>1, <2>1 DEF ValidRecovery, ValidVPC, ValidClassic
  <2> QED
    BY <1>4, <2>1, <2>2
<1> QED
  BY <1>5, <1>6

\* A request with its defaults is complete when resolve accepts it.
LEMMA CompletedComplete ==
    ASSUME Asking, step = "resolve", Resolves(Completed)
    PROVE  /\ Complete(Completed) /\ Kept(supplied, Completed)
           /\ Completed.target = in.target
<1>1. Prepared(in) /\ Kept(supplied, in) /\ MissingFields(in) = {}
  BY DEF Asking, Early
<1>2. CASE in.provider # "satellite"
  BY <1>1, <1>2 DEF Completed, Complete
<1>3. CASE in.provider = "satellite"
  <2> DEFINE r == SatelliteDefaults(in)
  <2>1. /\ Prepared(r) /\ r.provider = in.provider /\ Kept(supplied, r)
        /\ \A f \in DOMAIN in \ {"profile", "os"} : r[f] = in[f]
    BY <1>1, <1>3, DefaultsPrepare
  <2> HIDE DEF r
  <2>2. \A f \in {"platform", "version", "group", "image", "managedFrom", "keyPath", "zones",
                  "location", "workers", "key", "target"} : f \in DOMAIN in /\ r[f] = in[f]
    BY <1>1, <2>1 DEF Prepared, IsRequest, TextFields, ListFields, OtherFields
  <2>3. \A f \in RequiredFields("satellite") : Absent(r, f) <=> Absent(in, f)
    BY <2>2 DEF RequiredFields, Common, Absent
  <2>4. MissingFields(r) = {}
    BY <1>1, <1>3, <2>1, <2>3 DEF MissingFields
  <2> QED
    BY <1>3, <2>1, <2>2, <2>4 DEF Completed, Complete, r
<1> QED
  BY <1>2, <1>3

\* A plan that is there stays what it is.
LEMMA FrozenStays ==
    ASSUME SuppliedIsKept, OneSource, UNCHANGED <<supplied, frozen>>
    PROVE  SuppliedIsKept' /\ OneSource'
BY DEF SuppliedIsKept, OneSource

\* Before there is a plan it has nothing to be.
LEMMA EarlyStep ==
    ASSUME step' \in Early, frozen' = NoContext, context' = NoContext,
           IsRequest(in'), Kept(supplied', in'),
           step' \in {"discover", "resolve"} => Prepared(in'),
           step' = "resolve" => MissingFields(in') = {},
           asked' \in Nat, terraform' = NoTerraform
    PROVE  PlanInv'
BY DEF PlanInv, Typing, Asking, Keeping, Early, Late, WrittenIsReadable, OnlyWhole,
       SuppliedIsKept, OneSource

\* A refusal changes nothing but the step.
LEMMA RefusePlan ==
    ASSUME PlanInv, Refuse, step # "running"
    PROVE  PlanInv'
<1>1. SuppliedIsKept' /\ OneSource'
  BY FrozenStays DEF PlanInv, Refuse
<1> QED
  BY <1>1 DEF PlanInv, Refuse, Typing, Asking, Keeping, Early, Late, WrittenIsReadable, OnlyWhole

\* A request starts as the caller gave it.
LEMMA InitPlan ==
    ASSUME Init
    PROVE  PlanInv
<1>1. IsRequest(in) /\ Kept(supplied, in)
  BY RequestAssumption DEF Init, Kept
<1> QED
  BY <1>1 DEF Init, PlanInv, Typing, Asking, Keeping, Early, Late, WrittenIsReadable, OnlyWhole,
              SuppliedIsKept, OneSource

\* What the invariant says of a step before there is a plan.
LEMMA Asked ==
    ASSUME PlanInv, step \in Early
    PROVE  /\ IsRequest(in) /\ Kept(supplied, in)
           /\ frozen = NoContext /\ context = NoContext /\ terraform = NoTerraform
           /\ asked \in Nat
           /\ step \in {"discover", "resolve"} => Prepared(in)
BY DEF PlanInv, Typing, Asking, Early

\* Choosing a target or a provider changes nothing else of the request.
LEMMA ChosenKept ==
    ASSUME NEW i, IsRequest(i), NEW given, Kept(given, i), NEW f \in {"target", "provider"}, NEW x,
           f = "provider" => i.provider = ""
    PROVE  LET r == [i EXCEPT ![f] = x] IN IsRequest(r) /\ Kept(given, r)
<1> DEFINE r == [i EXCEPT ![f] = x]
<1>1. DOMAIN r = DOMAIN i /\ \A g \in DOMAIN i \ {f} : r[g] = i[g]
  OBVIOUS
<1> HIDE DEF r
<1>2. \A g \in TextFields \cup ListFields \cup NameFields \cup KeptSwitches
               \cup {"platform", "version", "count", "os"} : g \in DOMAIN i /\ r[g] = i[g]
  BY <1>1 DEF KeptSwitches, IsRequest, TextFields, ListFields, NameFields, OtherFields
<1>3. IsRequest(r)
  BY <1>1, <1>2 DEF IsRequest
<1>4. \A g \in KeptTexts \cup KeptLists \cup {"zones"} : r[g] = i[g]
  BY <1>2 DEF KeptTexts, KeptLists, TextFields, ListFields
<1>5. given.provider # "" => r.provider = given.provider
  <2>1. "provider" \in DOMAIN i
    BY DEF IsRequest, OtherFields
  <2>2. f # "provider" => r.provider = i.provider
    BY <1>1, <2>1
  <2> QED
    BY <2>2 DEF Kept
<1>6. Kept(given, r)
  BY <1>2, <1>4, <1>5 DEF Kept
<1> QED
  BY <1>3, <1>6 DEF r

\* The invariant when a target or a provider is selected.
LEMMA SelectPlan ==
    ASSUME PlanInv, SelectTarget \/ SelectProvider
    PROVE  PlanInv'
<1>1. /\ step = "select" /\ step' = step
      /\ UNCHANGED <<supplied, asked, frozen, context, terraform>>
  BY DEF SelectTarget, SelectProvider
<1>2. PICK f, x : /\ f \in {"target", "provider"} /\ in' = [in EXCEPT ![f] = x]
                  /\ f = "provider" => in.provider = ""
  <2>1. \/ \E x : in' = [in EXCEPT !["target"] = x]
        \/ in.provider = "" /\ \E x : in' = [in EXCEPT !["provider"] = x]
    BY DEF SelectTarget, SelectProvider
  <2> QED
    BY <2>1
<1>3. /\ IsRequest(in) /\ Kept(supplied, in)
      /\ frozen = NoContext /\ context = NoContext /\ terraform = NoTerraform
      /\ asked \in Nat
  BY <1>1, Asked DEF Early
<1>4. IsRequest(in') /\ Kept(supplied, in')
  BY <1>2, <1>3, ChosenKept
<1> QED
  BY <1>1, <1>3, <1>4, EarlyStep DEF Early

\* The invariant when the request is accepted and normalized.
LEMMA NormalizePlan ==
    ASSUME PlanInv, NormalizeInputs
    PROVE  PlanInv'
<1>1. /\ step = "select" /\ in.target \in Targets /\ Acceptable(in)
      /\ in' = Normalize(in.provider, in)
      /\ step' \in {"discover", "resolve"}
      /\ step' = "resolve" => MissingFields(in') = {}
      /\ UNCHANGED <<supplied, asked, frozen, context, terraform>>
  BY DEF NormalizeInputs, Selected
<1>2. /\ IsRequest(in) /\ Kept(supplied, in)
      /\ frozen = NoContext /\ context = NoContext /\ terraform = NoTerraform
      /\ asked \in Nat
  BY <1>1, Asked DEF Early
<1>3. Prepared(in') /\ Kept(supplied, in')
  BY <1>1, <1>2, NormalizePrepares, NormalizeKeeps
<1> QED
  BY <1>1, <1>2, <1>3, EarlyStep DEF Early, Prepared

\* The invariant when the user answers a prompt.
LEMMA PromptPlan ==
    ASSUME PlanInv, Prompt
    PROVE  PlanInv'
<1>1. PICK k, answer :
        /\ k \in Open
        /\ answer \in Answers(in, PromptOrder(in.provider)[k])
        /\ in' = [in EXCEPT ![PromptOrder(in.provider)[k]] = answer]
        /\ asked' = k
  BY DEF Prompt
<1> DEFINE f == PromptOrder(in.provider)[k]
<1>2. step = "discover" /\ step' = step /\ UNCHANGED <<supplied, frozen, context, terraform>>
  BY DEF Prompt
<1>3. /\ Prepared(in) /\ IsRequest(in) /\ Kept(supplied, in)
      /\ frozen = NoContext /\ context = NoContext /\ terraform = NoTerraform
  BY <1>2, Asked DEF Early
<1>4. in.provider \in Providers
  BY <1>3, Offers DEF Prepared, Acceptable
<1>5. f \in AskedFields /\ k \in Nat /\ Absent(in, f)
  BY <1>1, <1>4, AskedField DEF Open
<1>6. answer \in Answers(in, f) /\ in' = [in EXCEPT ![f] = answer] /\ asked' = k
  BY <1>1
<1> HIDE DEF f
<1>7. Prepared(in') /\ Kept(supplied, in')
  BY <1>3, <1>5, <1>6, PromptPrepares, PromptKeeps
<1> QED
  BY <1>2, <1>3, <1>5, <1>6, <1>7, EarlyStep DEF Early, Prepared

\* The invariant when there is nothing more to ask.
LEMMA DiscoveredPlan ==
    ASSUME PlanInv, Discovered
    PROVE  PlanInv'
<1>1. /\ step = "discover" /\ step' = "resolve" /\ MissingFields(in) = {}
      /\ UNCHANGED <<supplied, in, asked, frozen, context, terraform>>
  BY DEF Discovered
<1>2. /\ Prepared(in) /\ IsRequest(in) /\ Kept(supplied, in)
      /\ frozen = NoContext /\ context = NoContext /\ terraform = NoTerraform
      /\ asked \in Nat
  BY <1>1, Asked DEF Early
<1> QED
  BY <1>1, <1>2, EarlyStep DEF Early

\* What plan writes is derived from its values, is readable, has one source for each
\* thing, and holds what the caller gave.
LEMMA FreezePlan ==
    ASSUME PlanInv, Freeze
    PROVE  PlanInv'
<1>1. PICK name \in ClusterNames(Completed), id \in StateIds, backend \in Backends :
        frozen' = PlanResult(id, backend, ValuesOf(Completed, name),
                             ResolveTarget(in.target, environ))
  BY DEF Freeze
<1>2. /\ step = "resolve" /\ step' = "written" /\ context' = frozen'
      /\ Resolves(Completed) /\ UNCHANGED <<supplied, asked, terraform>>
  BY DEF Freeze
<1>3. Complete(Completed) /\ Kept(supplied, Completed) /\ Completed.target = in.target
  BY <1>2, CompletedComplete DEF PlanInv
<1> DEFINE i == Completed
           v == ValuesOf(i, name)
<1>4. frozen' = PlanResult(id, backend, v, ResolveTarget(i.target, environ))
  BY <1>1, <1>3
<1>5. frozen'.values = v
  <2> HIDE DEF v, i
  <2> QED
    BY <1>4 DEF PlanResult
<1>6. Derived(frozen')
  BY <1>3, <1>4, PlanDerived
<1>7. Readable(frozen') <=> ~BlankLeft(v)
  BY <1>1, <1>3, <1>4, PlanReadable
<1>8. v.mode = Mode(i.provider) /\ i.provider \in Providers
  BY <1>3, ResolvedCommon, Values
<1>9. v.mode = "satellite" => i.provider = "satellite"
  BY <1>8 DEF Mode, Providers
<1>10. OneSource'
  <2>1. v.mode = "satellite" =>
          LET Given(t) == TrimSpace(t) # Empty
          IN ~BlankLeft(v) =>
               /\ Given(v.location) # Given(v.managedFrom)
               /\ IF v.workers # <<>>
                  THEN /\ Given(v.location) /\ Len(v.workers) = v.count
                       /\ \A t \in {v.image, v.profile, v.key, v.vpc} : ~Given(t)
                       /\ v.subnets = <<>> /\ v.gateways = <<>> /\ v.publicKey = NoKey
                  ELSE /\ Given(v.image) /\ Given(v.profile)
                       /\ (v.publicKey = NoKey) <=> Given(v.key)
    BY <1>3, <1>9, PlanOneSource
  <2> HIDE DEF v, i
  <2> QED
    BY <1>5, <2>1 DEF OneSource
<1>11. SuppliedIsKept'
  <2>1. KeptIn(supplied, v)
    BY <1>3, PlanKeeps
  <2> HIDE DEF v, i
  <2> QED
    BY <1>2, <1>5, <2>1 DEF SuppliedIsKept, KeptIn, KeptTexts, KeptLists,
                                KeptSwitches
<1>12. WrittenIsReadable'
  BY <1>2, <1>5, <1>7 DEF WrittenIsReadable
<1> HIDE DEF v, i
<1> QED
  BY <1>2, <1>6, <1>10, <1>11, <1>12
     DEF PlanInv, Typing, Asking, Keeping, Early, Late, OnlyWhole

\* A change of the file is one that reading it looks at.
LEMMA HandlePlan ==
    ASSUME PlanInv, Handle
    PROVE  PlanInv'
<1>1. /\ step = "written" /\ step' = "changed" /\ UNCHANGED <<supplied, asked, frozen, terraform>>
  BY DEF Handle, ChangeValues, ChangeRecovery, ChangeDigest, ChangeFingerprint, Change
<1>2. context = frozen /\ Derived(frozen) /\ IsResult(context)
  BY <1>1 DEF PlanInv, Keeping, Late, Derived
<1>3. \A v : v \notin Altered(v)
  BY DEF Altered
<1>4. PartChanged' /\ DOMAIN context' = DOMAIN frozen'
  <2>1. CASE ChangeValues
    BY <1>1, <1>2, <1>3, <2>1 DEF ChangeValues, Change, IsResult, PartChanged
  <2>2. CASE ChangeRecovery
    BY <1>1, <1>2, <1>3, <2>2 DEF ChangeRecovery, Change, IsResult, PartChanged
  <2>3. CASE ChangeDigest
    BY <1>1, <1>2, <1>3, <2>3 DEF ChangeDigest, Change, IsResult, PartChanged
  <2>4. CASE ChangeFingerprint
    BY <1>1, <1>2, <2>4 DEF ChangeFingerprint, Change, IsResult, PartChanged
  <2> QED
    BY <2>1, <2>2, <2>3, <2>4 DEF Handle
<1>5. SuppliedIsKept' /\ OneSource'
  BY <1>1, FrozenStays DEF PlanInv
<1> QED
  BY <1>1, <1>2, <1>4, <1>5
     DEF PlanInv, Typing, Asking, Keeping, Early, Late, WrittenIsReadable, OnlyWhole

\* Only the context that plan wrote loads.
LEMMA LoadPlan ==
    ASSUME PlanInv, Load
    PROVE  PlanInv'
<1>1. /\ InFile /\ Readable(context) /\ step' = "running"
      /\ UNCHANGED <<supplied, asked, frozen, context>>
  BY DEF Load, Loads
<1>2. Derived(frozen) /\ DOMAIN context = DOMAIN frozen
  BY <1>1 DEF PlanInv, Keeping, InFile, Late
<1>3. step = "written"
  BY <1>1, <1>2, ChangedUnreadable DEF PlanInv, Keeping, InFile
<1>4. context = frozen
  BY <1>3 DEF PlanInv, Keeping
<1>5. SuppliedIsKept' /\ OneSource'
  BY <1>1, FrozenStays DEF PlanInv
<1> QED
  BY <1>1, <1>2, <1>4, <1>5
     DEF PlanInv, Typing, Asking, Keeping, Early, Late, WrittenIsReadable, OnlyWhole

\* Every step keeps the invariant.
LEMMA PlanStep ==
    ASSUME PlanInv, [Next]_vars
    PROVE  PlanInv'
<1>1. CASE SelectTarget \/ SelectProvider
  BY <1>1, SelectPlan
<1>2. CASE SelectFails \/ NormalizeFails \/ PromptFails \/ StillMissing \/ FreezeFails \/ LoadFails
  BY <1>2, RefusePlan
     DEF SelectFails, NormalizeFails, Selected, PromptFails, StillMissing, FreezeFails, LoadFails,
         InFile
<1>3. CASE NormalizeInputs
  BY <1>3, NormalizePlan
<1>4. CASE Prompt
  BY <1>4, PromptPlan
<1>5. CASE Discovered
  BY <1>5, DiscoveredPlan
<1>6. CASE Freeze
  BY <1>6, FreezePlan
<1>7. CASE Handle
  BY <1>7, HandlePlan
<1>8. CASE Load
  BY <1>8, LoadPlan
<1>9. CASE UNCHANGED vars
  <2>1. SuppliedIsKept' /\ OneSource'
    BY <1>9, FrozenStays DEF vars, PlanInv
  <2> QED
    BY <1>9, <2>1 DEF vars, PlanInv, Typing, Asking, Keeping, PartChanged, WrittenIsReadable,
                      OnlyWhole
<1> QED
  BY <1>1, <1>2, <1>3, <1>4, <1>5, <1>6, <1>7, <1>8, <1>9
     DEF Next, Select, Resolve, Discover, Operate

\* The invariant holds of every behaviour.
LEMMA PlanAlways == Spec => []PlanInv
BY InitPlan, PlanStep, PTL DEF Spec

-----------------------------------------------------------------------------
(* Theorems *)

\* The variables keep their types, for every request and configuration.
THEOREM Types == Spec => []TypeOK
<1>1. PlanInv => TypeOK
  BY DEF PlanInv, Typing, Asking, Keeping, Derived, Early, Late, InFile, TypeOK
<1> QED
  BY <1>1, PlanAlways, PTL

\* Whatever plan accepts and freezes the later commands can read, but for a Satellite text
\* of only blanks: the validation of the request (resolve) and that of the recovery values
\* (validateRecoveryValues) agree on every request, not only on those TLC tries.
THEOREM PlanIsReadable == Spec => []WrittenIsReadable
<1>1. PlanInv => WrittenIsReadable
  BY DEF PlanInv
<1> QED
  BY <1>1, PlanAlways, PTL

\* Terraform runs only with a context that no part of was changed since plan wrote it
\* (ReadPlanResult, recoveryValuesFromTFVars).
THEOREM ReadWhole == Spec => []OnlyWhole
<1>1. PlanInv => OnlyWhole
  BY DEF PlanInv
<1> QED
  BY <1>1, PlanAlways, PTL

\* Neither a prompt nor a default nor normalizing replaces what the caller gave of the
\* fields its provider reads, for requests with lists of any length; only a list of zones
\* that is not of three makes way for zones the user picks (discover, satelliteDefaults,
\* normalizeIDList, normalizeVersion).
THEOREM GivenIsFrozen == Spec => []SuppliedIsKept
<1>1. PlanInv => SuppliedIsKept
  BY DEF PlanInv
<1> QED
  BY <1>1, PlanAlways, PTL

\* Each thing a frozen Satellite plan needs comes from one place, in whatever order it was
\* supplied, prompted for or defaulted (normalizeSatelliteReuseInputs, discover).
THEOREM SourcesAreOne == Spec => []OneSource
<1>1. PlanInv => OneSource
  BY DEF PlanInv
<1> QED
  BY <1>1, PlanAlways, PTL

\* Every name ict makes of a prefix, and every one it makes of an owner that begins with a
\* letter, is within the provider's limit and begins with a letter (resolveName).
THEOREM NamesAreTaken == Spec => []MadeNamesFit
<1>1. ASSUME PlanInv, step = "resolve"
      PROVE  /\ in.provider \in Providers
             /\ in.prefix \in RawTexts /\ in.name \in RawTexts /\ in.owner \in RawTexts
  BY <1>1, Offers DEF PlanInv, Asking, Prepared, Acceptable, IsRequest, NameFields, Early
<1>2. PlanInv => MadeNamesFit
  BY <1>1, NamesFit DEF MadeNamesFit
<1> QED
  BY <1>2, PlanAlways, PTL
=============================================================================
