------------------------------ MODULE MCCleanup -----------------------------
(***************************************************************************)
(* CertificateCleanup for TLC: a group that holds two attempts of          *)
(* allocation A, one of allocation B, and a certificate of A that names no *)
(* attempt.                                                                *)
(***************************************************************************)
EXTENDS CertificateCleanup, TLC

CONSTANTS k1, k2, k3, k4, A, B, t1, t2

MCOwner ==
    (k1 :> [allocation |-> A, attempt |-> t1]) @@
    (k2 :> [allocation |-> B, attempt |-> t1]) @@
    (k3 :> [allocation |-> A, attempt |-> t2]) @@
    (k4 :> [allocation |-> A, attempt |-> NoAttempt])
MCOwnerRace == [id \in {k1, k2, k3} |-> MCOwner[id]]

Args(allocation, attempt, explicit) ==
    [allocation |-> allocation, attempt |-> attempt, explicit |-> explicit]

\* A failed attempt's own cleanup, given its own certificate or a foreign one
\* behind it, and the owner's allocation-wide cleanup.
MCCallsRace == {Args(A, t1, <<k1>>), Args(A, t1, <<k1, k2>>), Args(A, NoAttempt, <<>>)}

\* Allocation-wide cleanups given a certificate of their own or one without an
\* attempt, and the cleanup of a failed attempt that knows no certificate.
MCCallsPaged == {Args(A, NoAttempt, <<k1>>), Args(A, NoAttempt, <<k1, k4>>), Args(A, t2, <<>>)}
=============================================================================
