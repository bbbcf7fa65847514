------------------------------ MODULE MCConfig ------------------------------
(***************************************************************************)
(* ConfigStore for TLC: two paths, one of them required.                   *)
(***************************************************************************)
EXTENDS ConfigStore, TLC

CONSTANTS region, zone, v1, v2

\* A whole configuration, one that does not validate, and no document.
MCInputs == {[p \in Paths |-> v1], [p \in Paths |-> Missing], Garbage}

\* Two paths, and a value that is refused.
MCChanges == {<<region, v2>>, <<zone, v2>>, <<zone, BadValue>>}

MCSymmetry == Permutations(Setters)
=============================================================================
