----------------------------- MODULE MCFrozen -----------------------------
(***************************************************************************)
(* Requests for FrozenContext: a few good ones, and every request that     *)
(* differs from one of them in at most two fields.                         *)
(***************************************************************************)
EXTENDS FrozenContext, TLC

raw(n, lead, kept, first) ==
    [len |-> n, lead |-> lead, clean |-> n = kept, kept |-> kept, first |-> first]

Padded(i) == [id |-> i, pad |-> TRUE]

Base ==
    [target |-> "t1", provider |-> "vpc-gen2", platform |-> "openshift",
     version |-> [minor |-> "1.31", rest |-> ""], group |-> Id(1), headlamp |-> FALSE,
     privateOnly |-> FALSE, policy |-> "none", count |-> 0, zone |-> Empty, flavor |-> Empty,
     vpcRegion |-> "", vpc |-> Empty, subnets |-> <<>>, gateways |-> <<>>,
     datacenter |-> Empty, machineType |-> Empty, vlan |-> Empty,
     zones |-> <<>>, managedFrom |-> Empty, location |-> Empty, image |-> Empty,
     profile |-> Empty, keyPath |-> Empty, key |-> Empty, workers |-> <<>>, os |-> "",
     prefix |-> NoText, name |-> NoText, owner |-> raw(4, "letter", 4, "letter")]

VPCBase == [Base EXCEPT !.zone = Id(1), !.flavor = Id(1)]
ClassicBase == [Base EXCEPT !.provider = "classic", !.datacenter = Id(1),
                            !.machineType = Id(1), !.vlan = Id(1)]
SatelliteBase == [Base EXCEPT !.provider = "satellite", !.zones = <<Id(1), Id(2), Id(3)>>,
                              !.managedFrom = Id(1), !.image = Id(1), !.keyPath = Id(1)]
ReuseBase == [Base EXCEPT !.provider = "satellite", !.zones = <<Id(2), Id(1), Id(3)>>,
                          !.location = Id(1), !.workers = <<Id(1)>>]

Ids3 == {<<>>, <<Id(2)>>, <<Padded(2), Id(1), Id(3)>>, <<Id(1), Padded(1), Id(2)>>}

CommonChanges ==
    [target |-> {"", "t2", "other"}, provider |-> {""}, platform |-> {"", "kubernetes"},
     version |-> {NoVersion, [minor |-> "malformed", rest |-> ""],
                  [minor |-> "1.30", rest |-> ".1"]}, group |-> {Empty, Padded(0)}, headlamp |-> {TRUE},
     privateOnly |-> {TRUE}, count |-> {1, 2, 3}, location |-> {Empty, Padded(0), Padded(2)},
     vpc |-> {Padded(0), Padded(1)}, subnets |-> Ids3, gateways |-> Ids3,
     prefix |-> {raw(3, "other", 0, "letter"), raw(5, "letter", 4, "letter"),
                 raw(3, "digit", 3, "digit"), raw(10, "letter", 10, "letter"),
                 raw(22, "letter", 22, "letter"), raw(31, "letter", 31, "letter")},
     name |-> {raw(5, "letter", 5, "letter"), raw(32, "letter", 32, "letter"),
               raw(44, "letter", 44, "letter"), raw(3, "other", 2, "digit")},
     owner |-> {raw(2, "other", 0, "letter"), raw(6, "digit", 6, "digit"),
                raw(20, "letter", 20, "letter")}]

VPCChanges ==
    [zone |-> {Empty, Id(4), Id(5)}, flavor |-> {Empty, Id(5)}, vpcRegion |-> {"south", "east"},
     policy |-> {"valid", "invalid"}] @@ CommonChanges
ClassicChanges ==
    [datacenter |-> {Empty, Id(5)}, machineType |-> {Empty}, vlan |-> {Empty, Id(5)}] @@ CommonChanges
SatelliteChanges ==
    [zones |-> {<<>>, <<Id(4)>>, <<Id(1), Id(2)>>, <<Id(1), Id(2), Id(3), Id(4)>>,
                <<Id(1), Id(2), Id(4)>>, <<Id(1), Id(2), Id(2)>>},
     managedFrom |-> {Empty, Id(2), Padded(0)}, image |-> {Empty, Id(2), Padded(0)},
     profile |-> {Id(2), Id(5), Padded(0)}, keyPath |-> {Empty, Id(5), Padded(0)},
     key |-> {Padded(0), Padded(2)}, workers |-> Ids3, os |-> {"REDHAT_8_64", "other"}]
    @@ CommonChanges

With(base, changes) ==
    {base} \cup
    UNION {{[base EXCEPT ![f] = x, ![g] = y] : x \in changes[f], y \in changes[g]} :
           f, g \in DOMAIN changes}

AllSupplied == With(VPCBase, VPCChanges) \cup With(ClassicBase, ClassicChanges)
               \cup With(SatelliteBase, SatelliteChanges) \cup With(ReuseBase, SatelliteChanges)

TwoTargets == {"t1", "t2"}
AllOffered == [t \in TwoTargets |-> IF t = "t1" THEN {"vpc-gen2", "classic", "satellite"}
                                    ELSE {"classic"}]
Profiles == [t \in TwoTargets |->
    IF t = "t1" THEN [iam |-> "u1", vpc |-> "u1", satellite |-> "u1"]
    ELSE [iam |-> "u1", vpc |-> "", satellite |-> ""]]
Regions == [t \in TwoTargets |-> "south"]
ZoneRegions == [i \in 0..5 |-> IF i = 4 THEN "east" ELSE "south"]
PlanEnvironments == {Unset, [Unset EXCEPT !["vpc"] = "malformed"]}
LaterEnvironments == {Unset, [Unset EXCEPT !["vpc"] = "u2"]}
ClassicOnly == {[ClassicBase EXCEPT !.target = "t2"]}
=============================================================================
