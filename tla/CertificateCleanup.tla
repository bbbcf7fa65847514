------------------------- MODULE CertificateCleanup -------------------------
(***************************************************************************)
(* Certificate reconciliation against one Secrets Manager secret group:    *)
(* Runner.cleanupCertificates and the store calls it makes                 *)
(* (src/internal/workflow/certificates.go), as started by the command      *)
(* `ict auth-cleanup` (Runner.AuthCleanup, src/internal/workflow/          *)
(* workflow.go).  Any number of calls, each a process of its own, run      *)
(* against the same group while other processes issue certificates into it.*)
(*                                                                         *)
(* The group is external.  A certificate's custom metadata (allocation and *)
(* attempt) is fixed when it is issued, its ID is never used again, and    *)
(* the listing follows issue and deletion with a delay.                    *)
(***************************************************************************)
EXTENDS Integers, Sequences, FiniteSets

CONSTANTS
    Cleaners,      \* calls of cleanupCertificates
    Ids,           \* certificate IDs
    Allocations,   \* values of the metadata ict_allocation_uid
    Attempts,      \* non-empty values of the metadata ict_auth_attempt_id
    NoAttempt,     \* the empty attempt ID, and a call without an attempt
    NoId,          \* the empty certificate ID
    NoReference,   \* a nil *AuthCertificateReference
    Owner,         \* the metadata a certificate is issued with
    Calls,         \* the arguments a call may have: allocation, attempt, explicit IDs
    PageSize,      \* the limit of one ListSecrets request
    MaxResults     \* maxCertificateCleanupResults

Ownership == [allocation : Allocations, attempt : Attempts \cup {NoAttempt}]

ASSUME ConstantsAssumption ==
    /\ Allocations # {}
    /\ NoAttempt \notin Attempts
    /\ NoId \notin Ids
    /\ NoReference \notin Ids \cup {NoId}
    /\ Owner \in [Ids -> Ownership]
    /\ Calls \subseteq [allocation : Allocations, attempt : Attempts \cup {NoAttempt},
                         explicit : Seq(Ids)]
    /\ PageSize \in Nat \ {0}
    /\ MaxResults \in Nat

VARIABLES
    cert,      \* id -> where the certificate is in its life, as Get and Delete see it
    index,     \* the listing order of the group, as List sees it
    stage,     \* cleaner -> cleanupStage, or a point between two requests
    call,      \* cleaner -> the arguments of its call (and the ghost `due`)
    progress,  \* cleaner -> the loop variables of its call
    outcome    \* cleaner -> certificateCleanupOutcome

store == <<cert, index>>
vars == <<cert, index, stage, call, progress, outcome>>

Stages == {"idle", "reconcile", "metadata-get", "delete", "metadata-list",
           "done", "crashed"}
Running == {"reconcile", "metadata-get", "delete", "metadata-list"}

Live == {id \in Ids : cert[id] = "live"}
Indexed == {index[i] : i \in 1..Len(index)}

\* sameCertificateCleanupScope, and the check of deleteOwnedCertificate on the
\* metadata it just read: both ask for the call's allocation, for a non-empty
\* attempt, and for the call's attempt when it has one.
InScope(scope, id) ==
    /\ Owner[id].allocation = scope.allocation
    /\ Owner[id].attempt # NoAttempt
    /\ scope.attempt # NoAttempt => Owner[id].attempt = scope.attempt

NoCall == [allocation |-> CHOOSE a \in Allocations : TRUE, attempt |-> NoAttempt,
           explicit |-> <<>>, due |-> {}]
NoProgress == [at |-> 1, listed |-> FALSE, found |-> {}, todo |-> {}, offset |-> 0,
               target |-> NoId]
NoOutcome == [status |-> "none", reason |-> "", certificate |-> NoReference]

Init ==
    /\ cert = [id \in Ids |-> "unissued"]
    /\ index = <<>>
    /\ stage = [c \in Cleaners |-> "idle"]
    /\ call = [c \in Cleaners |-> NoCall]
    /\ progress = [c \in Cleaners |-> NoProgress]
    /\ outcome = [c \in Cleaners |-> NoOutcome]

(***************************************************************************)
(* The secret group (external).                                            *)
(***************************************************************************)
Issue(id) ==
    /\ cert[id] = "unissued"
    /\ cert' = [cert EXCEPT ![id] = "live"]
    /\ UNCHANGED <<index, stage, call, progress, outcome>>

\* The listing catches up with an issue ...
Publish(id) ==
    /\ id \in Live \ Indexed
    /\ index' = Append(index, id)
    /\ UNCHANGED <<cert, stage, call, progress, outcome>>

\* ... and with a deletion: the entries after it move one place down.
Unpublish(i) ==
    /\ index[i] \notin Live
    /\ index' = [j \in 1..(Len(index) - 1) |-> IF j < i THEN index[j] ELSE index[j + 1]]
    /\ UNCHANGED <<cert, stage, call, progress, outcome>>

(***************************************************************************)
(* One call.                                                               *)
(***************************************************************************)
\* cleanupCertificates is entered: AuthCleanup has rejected an empty
\* allocation and an empty ID and dropped repeated IDs, so that every reference
\* carries the call's own allocation and attempt and the mismatch branch at the
\* head of the explicit loop is unreachable.  Only issued IDs are known.  Left out: the
\* AuthCleanup of a context without an auth policy or not of a VPC, which makes no call
\* and reports "cleaned" without a look at its references (workflow.go:495-497), and the
\* write of the result file, which only reports the outcome.
Call(c, args) ==
    /\ stage[c] = "idle"
    /\ \A i \in 1..Len(args.explicit) : cert[args.explicit[i]] # "unissued"
    /\ stage' = [stage EXCEPT ![c] = "reconcile"]
    /\ call' = [call EXCEPT ![c] =
           [allocation |-> args.allocation, attempt |-> args.attempt,
            explicit |-> args.explicit,
            due |-> {id \in Indexed \cap Live : InScope(args, id)}]]
    /\ UNCHANGED <<cert, index, progress, outcome>>

\* firstCertificateReference, then the reference pendingCertificateCleanup puts
\* in its place: the bare attempt when there is one, nil otherwise.
ReportedForList(c) ==
    IF call[c].explicit # <<>> THEN call[c].explicit[1]
    ELSE IF call[c].attempt # NoAttempt THEN NoId ELSE NoReference

\* The reference reported when the target cannot be reconciled: an explicit
\* reference itself, for a listed one the first explicit reference.
Reported(c) == IF progress[c].listed THEN ReportedForList(c) ELSE progress[c].target

EndPending(c, reason, certificate) ==
    /\ stage' = [stage EXCEPT ![c] = "done"]
    /\ outcome' = [outcome EXCEPT ![c] =
           [status |-> "pending", reason |-> reason, certificate |-> certificate]]
    /\ UNCHANGED <<call, progress>>

\* No client: no API key, IAM or endpoint discovery failed.
ClientFails(c) ==
    /\ stage[c] = "reconcile" /\ progress[c] = NoProgress
    /\ EndPending(c, "failed", ReportedForList(c))
    /\ UNCHANGED store

\* The next explicit reference is taken up.
TakeExplicit(c) ==
    /\ stage[c] = "reconcile"
    /\ progress[c].at <= Len(call[c].explicit)
    /\ stage' = [stage EXCEPT ![c] = "metadata-get"]
    /\ progress' = [progress EXCEPT ![c].target = call[c].explicit[progress[c].at]]
    /\ UNCHANGED <<cert, index, call, outcome>>

\* Mutant: the explicit references need not be done.
StartListEarly(c) ==
    /\ stage[c] = "reconcile" /\ ~progress[c].listed
    /\ stage' = [stage EXCEPT ![c] = "metadata-list"]
    /\ UNCHANGED <<cert, index, call, progress, outcome>>

\* The explicit references are done: the group is listed from its first page.
StartList(c) ==
    /\ stage[c] = "reconcile"
    /\ progress[c].at > Len(call[c].explicit) /\ ~progress[c].listed
    /\ stage' = [stage EXCEPT ![c] = "metadata-list"]
    /\ UNCHANGED <<cert, index, call, progress, outcome>>

\* One of the listed certificates in scope is taken up.  Their order is the
\* store's and nothing depends on it.
TakeListed(c, id) ==
    /\ stage[c] = "reconcile"
    /\ progress[c].listed /\ id \in progress[c].todo
    /\ stage' = [stage EXCEPT ![c] = "metadata-get"]
    /\ progress' = [progress EXCEPT ![c].target = id]
    /\ UNCHANGED <<cert, index, call, outcome>>

\* Mutant: the zero value of the outcome is returned.
FinishZeroOutcome(c) ==
    /\ stage[c] = "reconcile"
    /\ progress[c].listed /\ progress[c].todo = {}
    /\ stage' = [stage EXCEPT ![c] = "done"]
    /\ outcome' = [outcome EXCEPT ![c].status = ""]
    /\ UNCHANGED <<cert, index, call, progress>>

Finish(c) ==
    /\ stage[c] = "reconcile"
    /\ progress[c].listed /\ progress[c].todo = {}
    /\ stage' = [stage EXCEPT ![c] = "done"]
    /\ outcome' = [outcome EXCEPT ![c].status = "cleaned"]
    /\ UNCHANGED <<cert, index, call, progress>>

(***************************************************************************)
(* deleteOwnedCertificate on the target.                                   *)
(***************************************************************************)
\* The target is reconciled: the loop goes on.
Reconciled(c) ==
    /\ stage' = [stage EXCEPT ![c] = "reconcile"]
    /\ progress' = [progress EXCEPT
           ![c].at = IF progress[c].listed THEN @ ELSE @ + 1,
           ![c].todo = @ \ {progress[c].target}]
    /\ UNCHANGED <<call, outcome>>

\* Mutant: a 404 is not counted as success and the reference is tried again.
GetMissingAgain(c) ==
    /\ stage[c] = "metadata-get"
    /\ progress[c].target \notin Live
    /\ stage' = [stage EXCEPT ![c] = "reconcile"]
    /\ UNCHANGED <<cert, index, call, progress, outcome>>

\* A 404 is success.
GetMissing(c) ==
    /\ stage[c] = "metadata-get"
    /\ progress[c].target \notin Live
    /\ Reconciled(c)
    /\ UNCHANGED store

\* Mutant: the metadata is read and not compared.
GetAny(c) ==
    /\ stage[c] = "metadata-get"
    /\ progress[c].target \in Live
    /\ stage' = [stage EXCEPT ![c] = "delete"]
    /\ UNCHANGED <<cert, index, call, progress, outcome>>

\* The metadata must still name the scope of the call.
GetOwned(c) ==
    /\ stage[c] = "metadata-get"
    /\ progress[c].target \in Live /\ InScope(call[c], progress[c].target)
    /\ stage' = [stage EXCEPT ![c] = "delete"]
    /\ UNCHANGED <<cert, index, call, progress, outcome>>

\* Mutant: the empty metadata of a failed read is compared.
GetForeignOrMissing(c) ==
    /\ stage[c] = "metadata-get"
    /\ progress[c].target \notin Live \/ ~InScope(call[c], progress[c].target)
    /\ EndPending(c, "ownership-mismatch", Reported(c))
    /\ UNCHANGED store

GetForeign(c) ==
    /\ stage[c] = "metadata-get"
    /\ progress[c].target \in Live /\ ~InScope(call[c], progress[c].target)
    /\ EndPending(c, "ownership-mismatch", Reported(c))
    /\ UNCHANGED store

GetFails(c) ==
    /\ stage[c] = "metadata-get"
    /\ EndPending(c, "failed", Reported(c))
    /\ UNCHANGED store

\* Deleting what is already gone is a 404, and a 404 is success.
Gone(id) ==
    cert' = [cert EXCEPT ![id] = "deleted"]

Delete(c) ==
    /\ stage[c] = "delete"
    /\ Gone(progress[c].target)
    /\ Reconciled(c)
    /\ UNCHANGED index

\* A failed request may have been carried out before its answer was lost.
DeleteFails(c) ==
    /\ stage[c] = "delete"
    /\ Gone(progress[c].target) \/ UNCHANGED cert
    /\ EndPending(c, "failed", Reported(c))
    /\ UNCHANGED index

(***************************************************************************)
(* List: pages by offset until the service names no next page.             *)
(***************************************************************************)
Page(offset) == {index[i] : i \in {j \in 1..Len(index) : offset < j /\ j <= offset + PageSize}}
LastPage(offset) == offset + PageSize >= Len(index)
TooMany(found) == Cardinality(found) > MaxResults

ListMore(c) ==
    LET found == progress[c].found \cup Page(progress[c].offset)
    IN  /\ stage[c] = "metadata-list"
        /\ ~TooMany(found) /\ ~LastPage(progress[c].offset)
        /\ progress' = [progress EXCEPT ![c].found = found, ![c].offset = @ + PageSize]
        /\ UNCHANGED <<cert, index, stage, call, outcome>>

\* Mutant: only the last page is kept.
ListLastOnly(c) ==
    LET found == Page(progress[c].offset)
    IN  /\ stage[c] = "metadata-list"
        /\ ~TooMany(found) /\ LastPage(progress[c].offset)
        /\ progress' = [progress EXCEPT
               ![c].found = found, ![c].listed = TRUE,
               ![c].todo = {id \in found : InScope(call[c], id)}]
        /\ stage' = [stage EXCEPT ![c] = "reconcile"]
        /\ UNCHANGED <<cert, index, call, outcome>>

\* The last page: what is out of scope is skipped.
ListLast(c) ==
    LET found == progress[c].found \cup Page(progress[c].offset)
    IN  /\ stage[c] = "metadata-list"
        /\ ~TooMany(found) /\ LastPage(progress[c].offset)
        /\ progress' = [progress EXCEPT
               ![c].found = found, ![c].listed = TRUE,
               ![c].todo = {id \in found : InScope(call[c], id)}]
        /\ stage' = [stage EXCEPT ![c] = "reconcile"]
        /\ UNCHANGED <<cert, index, call, outcome>>

ListTooMany(c) ==
    /\ stage[c] = "metadata-list"
    /\ TooMany(progress[c].found \cup Page(progress[c].offset))
    /\ EndPending(c, "failed", ReportedForList(c))
    /\ UNCHANGED store

ListFails(c) ==
    /\ stage[c] = "metadata-list"
    /\ EndPending(c, "failed", ReportedForList(c))
    /\ UNCHANGED store

\* The process is killed between two requests: nothing is reported.
Crash(c) ==
    /\ stage[c] \in Running
    /\ stage' = [stage EXCEPT ![c] = "crashed"]
    /\ UNCHANGED <<cert, index, call, progress, outcome>>

Local(c) ==
    \/ TakeExplicit(c) \/ StartList(c) \/ Finish(c)
    \/ \E id \in Ids : TakeListed(c, id)

Answered(c) ==
    \/ GetMissing(c) \/ GetOwned(c) \/ GetForeign(c) \/ Delete(c)
    \/ ListMore(c) \/ ListLast(c) \/ ListTooMany(c)

Failed(c) == ClientFails(c) \/ GetFails(c) \/ DeleteFails(c) \/ ListFails(c)

Request(c) == Local(c) \/ Answered(c) \/ Failed(c)

Group ==
    \/ \E id \in Ids : Issue(id) \/ Publish(id)
    \/ \E i \in 1..Len(index) : Unpublish(i)

AuthCleanup(c) == \E args \in Calls : Call(c, args)

Next ==
    \/ Group
    \/ \E c \in Cleaners : AuthCleanup(c) \/ Request(c) \/ Crash(c)

\* Every request is answered or times out (certificateHTTPTimeout), so a running
\* call takes its next step unless the process is killed.
Spec == Init /\ [][Next]_vars /\ \A c \in Cleaners : WF_vars(Request(c))

-----------------------------------------------------------------------------
ArgsType == [allocation : Allocations, attempt : Attempts \cup {NoAttempt},
             explicit : Seq(Ids), due : SUBSET Ids]
ProgressType == [at : Nat \ {0}, listed : BOOLEAN, found : SUBSET Ids,
                 todo : SUBSET Ids, offset : Nat, target : Ids \cup {NoId}]
References == Ids \cup {NoId, NoReference}
OutcomeType == [status : {"none", "cleaned", "pending"},
                reason : {"", "failed", "ownership-mismatch"}, certificate : References]

TypeOK ==
    /\ cert \in [Ids -> {"unissued", "live", "deleted"}]
    /\ index \in Seq(Ids)
    /\ stage \in [Cleaners -> Stages]
    /\ call \in [Cleaners -> ArgsType]
    /\ progress \in [Cleaners -> ProgressType]
    /\ outcome \in [Cleaners -> OutcomeType]

\* certificates.go:385 - explicit references are reconciled before the group is
\* listed, so an incomplete listing cannot make the call forget one of them: a
\* call that has started to list, and one that reports "cleaned", leaves no
\* certificate it was given alive, whoever deleted it.
ExplicitBeforeList ==
    \A c \in Cleaners :
        stage[c] = "metadata-list" \/ progress[c].listed =>
            \A i \in 1..Len(call[c].explicit) : call[c].explicit[i] \notin Live

\* certificates.go:394-408 - "cleaned" means reconciled: no certificate in the
\* call's scope that the group already listed when the call began is alive.
CleanedDueGone ==
    \A c \in Cleaners : outcome[c].status = "cleaned" => call[c].due \cap Live = {}

\* certificates.go:252-277 - what the paged listing can miss: a certificate the
\* call should have found survives a "cleaned" outcome only when the group took
\* more than one page and an entry already read left the listing meanwhile.
MissedOnlyByShift ==
    \A c \in Cleaners :
        outcome[c].status = "cleaned" /\ call[c].due \cap Live # {} =>
            progress[c].offset > 0 /\ progress[c].found \ Indexed # {}

\* certificates.go:426-431 - an ownership mismatch is never the effect of a lost
\* race: it names an explicit certificate that really belongs to another scope,
\* and reconciling listed certificates never ends in one.
MismatchIsReal ==
    \A c \in Cleaners :
        outcome[c].reason = "ownership-mismatch" =>
            /\ ~progress[c].listed
            /\ \E i \in 1..Len(call[c].explicit) :
                   /\ call[c].explicit[i] = outcome[c].certificate
                   /\ ~InScope(call[c], call[c].explicit[i])

\* certificates.go:250-277,391-409 - every loop of a call ends, whatever other
\* processes issue, delete or list meanwhile.
Terminates ==
    \A c \in Cleaners : stage[c] = "reconcile" ~> stage[c] \in {"done", "crashed"}

\* What the owner of an allocation sees of the calls: the certificates in scope,
\* the certificates named, and the verdict.
claims == [c \in Cleaners |->
    IF stage[c] = "idle" THEN {} ELSE {id \in Ids : InScope(call[c], id)}]
names == [c \in Cleaners |-> {call[c].explicit[i] : i \in 1..Len(call[c].explicit)}]
verdicts == [c \in Cleaners |->
    IF stage[c] = "idle" THEN "none"
    ELSE IF stage[c] \in Running THEN "running"
    ELSE IF stage[c] = "crashed" THEN "lost" ELSE outcome[c].status]

Custody == INSTANCE CertificateCustody WITH
    claim <- claims, named <- names, verdict <- verdicts

\* certificates.go:375-377 - a call deletes only certificates of its scope, and
\* reports "cleaned" only when every certificate it was given is gone.
CustodySpec == Custody!Spec
=============================================================================
