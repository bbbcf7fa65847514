------------------------- MODULE CertificateCustody -------------------------
(***************************************************************************)
(* What a caller of cleanupCertificates relies on, stated without requests,*)
(* pages or failures: a call holds a claim on the certificates of its      *)
(* scope, it may delete any of them and no other, and its verdict is       *)
(* "cleaned" only when every certificate it was told to delete is gone.    *)
(***************************************************************************)
CONSTANTS Cleaners, Ids

VARIABLES
    cert,     \* id -> "unissued", "live" or "deleted"
    claim,    \* cleaner -> the certificates of its scope
    named,    \* cleaner -> the certificates it was told to delete
    verdict   \* cleaner -> "none", "running", "cleaned", "pending" or "lost"

vars == <<cert, claim, named, verdict>>

Live == {id \in Ids : cert[id] = "live"}

Init ==
    /\ cert = [id \in Ids |-> "unissued"]
    /\ claim = [c \in Cleaners |-> {}]
    /\ named = [c \in Cleaners |-> {}]
    /\ verdict = [c \in Cleaners |-> "none"]

Issue(id) ==
    /\ cert[id] = "unissued"
    /\ cert' = [cert EXCEPT ![id] = "live"]
    /\ UNCHANGED <<claim, named, verdict>>

Begin(c, scope, ids) ==
    /\ verdict[c] = "none"
    /\ claim' = [claim EXCEPT ![c] = scope]
    /\ named' = [named EXCEPT ![c] = ids]
    /\ verdict' = [verdict EXCEPT ![c] = "running"]
    /\ UNCHANGED cert

Reclaims(c) ==
    \E id \in claim[c] : cert[id] # "unissued" /\ cert' = [cert EXCEPT ![id] = "deleted"]

Reclaim(c) ==
    /\ verdict[c] = "running"
    /\ Reclaims(c)
    /\ UNCHANGED <<claim, named, verdict>>

End(c, result) ==
    /\ verdict[c] = "running"
    /\ verdict' = [verdict EXCEPT ![c] = result]
    /\ UNCHANGED <<claim, named>>

EndCleaned(c) == named[c] \cap Live = {} /\ End(c, "cleaned") /\ UNCHANGED cert

\* A call that stops half-way may have carried out its last deletion.
EndPending(c) == End(c, "pending") /\ (UNCHANGED cert \/ Reclaims(c))

Lose(c) == End(c, "lost") /\ UNCHANGED cert

Next ==
    \/ \E id \in Ids : Issue(id)
    \/ \E c \in Cleaners :
        \/ \E scope \in SUBSET Ids, ids \in SUBSET Ids : Begin(c, scope, ids)
        \/ Reclaim(c) \/ EndCleaned(c) \/ EndPending(c) \/ Lose(c)

Spec == Init /\ [][Next]_vars
=============================================================================
