------------------------------- MODULE MCAuth -------------------------------
(***************************************************************************)
(* AuthExport for TLC.                                                     *)
(***************************************************************************)
EXTENDS AuthExport, TLC

CONSTANTS r1, r2, o1, d1, d2, k1, k2, A, t1, t2

MCDir == [r \in Runs |-> d1]
MCDirOwn == [r \in Runs |-> IF r = r1 THEN d1 ELSE d2]
MCOwner == (k1 :> [allocation |-> A, attempt |-> t1]) @@ (k2 :> [allocation |-> A, attempt |-> t2])
MCOwnerOne == k1 :> [allocation |-> A, attempt |-> t1]
MCCertOf == [r \in Runs |-> IF r = r1 THEN k1 ELSE k2]

Args(allocation, attempt, explicit) ==
    [allocation |-> allocation, attempt |-> attempt, explicit |-> explicit]
MCCalls ==
    {Args(A, Owner[id].attempt, explicit) : id \in Ids, explicit \in {<<>>} \cup {<<k>> : k \in Ids}}
\* Two attempts share a group: that of the run, and one elsewhere whose certificate
\* the owner names in an allocation-wide call.
MCGroupCalls ==
    {Args(A, t1, <<>>), Args(A, t1, <<k1>>), Args(A, NoAttempt, <<k2>>)}
MCOwnerCalls == MCCalls \cup {Args(A, NoAttempt, <<>>)}

\* A cluster with a VPN policy and one without share an output directory.
MCOffersShared ==
    [r \in Runs |-> IF r = r1 THEN {"vpn"} ELSE {"public", "unsupported", "satellite"}]
MCOffersPolicied == [r \in Runs |-> {"vpn", "public"}]
=============================================================================
