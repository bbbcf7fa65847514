---------------------------- MODULE ClusterName ----------------------------
(***************************************************************************)
(* How ict names a cluster: the name is given, made of a prefix and a      *)
(* given name, or generated from a prefix or an owner with a timestamp and *)
(* a random suffix.  A text is abstracted to what the rules read of it:    *)
(* its length, the class of its first character, whether it has only       *)
(* lower-case letters, digits and hyphens, and the length and the first    *)
(* character of what normalizeOwner keeps of it.                           *)
(***************************************************************************)
EXTENDS Naturals

Leads == {"letter", "digit", "other"}

\* A name as resolve matches it against the provider's pattern.
Names == [len : Nat, lead : Leads, clean : BOOLEAN]

\* A text the caller supplies for the owner, the prefix or the name.
RawTexts == {t \in [len : Nat, lead : Leads, clean : BOOLEAN,
                    kept : Nat, first : {"letter", "digit"}] : t.kept <= t.len}

NoText == [len |-> 0, lead |-> "other", clean |-> TRUE, kept |-> 0, first |-> "letter"]

\* What normalizeOwner leaves; it refuses a text of which it would keep nothing.
NormalizeOwner(t) == [len |-> t.kept, lead |-> t.first, clean |-> TRUE]

Truncate(name, length) ==
    [name EXCEPT !.len = IF name.len > length THEN length ELSE name.len]

\* A hyphen, twelve digits of time, a hyphen and eight hexadecimal digits.
GeneratedNameSuffixLength == 22
OwnerLength == 10

GeneratedPrefixedName(prefix) == [prefix EXCEPT !.len = @ + GeneratedNameSuffixLength]

GeneratedName(owner) == GeneratedPrefixedName(Truncate(owner, OwnerLength))

\* normalizePrefix accepts a prefix that keeps a character and begins with a letter.
GoodPrefix(t) == t.kept > 0 /\ t.first = "letter"

\* prefixedName leaves the name at least one character of the limit.
LeavesRoom(prefix, limit) == prefix.len + 2 <= limit

\* Mutant: the hyphen is not counted.
PrefixedNameLong(prefix, name, limit) ==
    [prefix EXCEPT !.len = @ + 1 + Truncate(name, limit - prefix.len).len]

PrefixedName(prefix, name, limit) ==
    [prefix EXCEPT !.len = @ + 1 + Truncate(name, limit - prefix.len - 1).len]

\* The set of names resolveName can return for a request: empty where it refuses.
ResolveName(prefix, name, owner, limit) ==
    LET p == NormalizeOwner(prefix) IN
    IF prefix.len > 0
    THEN IF ~GoodPrefix(prefix) THEN {}
         ELSE IF name.len > 0
              THEN IF name.kept > 0 /\ LeavesRoom(p, limit)
                   THEN {PrefixedName(p, NormalizeOwner(name), limit)}
                   ELSE {}
              ELSE IF p.len + GeneratedNameSuffixLength <= limit
                   THEN {GeneratedPrefixedName(p)}
                   ELSE {}
    ELSE IF name.len > 0
         THEN {[len |-> name.len, lead |-> name.lead, clean |-> name.clean]}
         ELSE IF owner.kept > 0 THEN {GeneratedName(NormalizeOwner(owner))} ELSE {}

Limits == [vpc |-> 32, classic |-> 35, satellite |-> 44]

\* The cluster-name pattern of a mode.
MatchesCluster(mode, name) ==
    /\ name.len \in 1..Limits[mode]
    /\ name.lead = "letter"
    /\ name.clean
=============================================================================
