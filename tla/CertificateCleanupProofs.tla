---------------------- MODULE CertificateCleanupProofs ----------------------
(***************************************************************************)
(* Proofs about CertificateCleanup, for any number of calls, certificates, *)
(* allocations and attempts, any page size and any limit of results.       *)
(***************************************************************************)
EXTENDS CertificateCleanup, TLAPS

\* Dropping one entry of the listing leaves a listing.
LEMMA DropIsSeq ==
    ASSUME NEW S, NEW s \in Seq(S), NEW i \in 1..Len(s)
    PROVE  [j \in 1..(Len(s) - 1) |-> IF j < i THEN s[j] ELSE s[j + 1]] \in Seq(S)
<1> DEFINE t == [j \in 1..(Len(s) - 1) |-> IF j < i THEN s[j] ELSE s[j + 1]]
<1>1. Len(s) \in Nat /\ Len(s) >= 1
    OBVIOUS
<1>2. \A j \in 1..(Len(s) - 1) : t[j] \in S
    BY <1>1
<1>3. t \in [1..(Len(s) - 1) -> S]
    BY <1>2
<1> QED
    BY <1>1, <1>3

LEMMA InitType == Init => TypeOK
<1>1. NoCall \in ArgsType
    BY ConstantsAssumption DEF NoCall, ArgsType
<1>2. NoProgress \in ProgressType
    BY DEF NoProgress, ProgressType
<1>3. NoOutcome \in OutcomeType
    BY DEF NoOutcome, OutcomeType, References
<1> QED
    BY <1>1, <1>2, <1>3 DEF Init, TypeOK, Stages

\* The two ways a call ends or goes on keep the types.
LEMMA PendingType ==
    ASSUME TypeOK, NEW c \in Cleaners, NEW reason \in {"failed", "ownership-mismatch"},
           NEW certificate \in References, EndPending(c, reason, certificate)
    PROVE  /\ stage' \in [Cleaners -> Stages] /\ outcome' \in [Cleaners -> OutcomeType]
           /\ call' = call /\ progress' = progress
<1>1. [status |-> "pending", reason |-> reason, certificate |-> certificate] \in OutcomeType
    BY DEF OutcomeType
<1> QED
    BY <1>1 DEF TypeOK, EndPending, Stages

LEMMA ReconciledType ==
    ASSUME TypeOK, NEW c \in Cleaners, Reconciled(c)
    PROVE  /\ stage' \in [Cleaners -> Stages] /\ progress' \in [Cleaners -> ProgressType]
           /\ call' = call /\ outcome' = outcome
<1> DEFINE a == IF progress[c].listed THEN progress[c].at ELSE progress[c].at + 1
           t == progress[c].todo \ {progress[c].target}
           p == [progress[c] EXCEPT !.at = a, !.todo = t]
<1>1. progress[c] \in ProgressType
    BY DEF TypeOK
<1>2. p \in ProgressType
    <2>1. a \in Nat \ {0} /\ t \in SUBSET Ids
        BY <1>1 DEF ProgressType
    <2> HIDE DEF a, t
    <2> QED
        BY <1>1, <2>1 DEF ProgressType
<1>3. progress' = [progress EXCEPT ![c] = p]
    BY DEF Reconciled, TypeOK
<1> QED
    BY <1>2, <1>3 DEF TypeOK, Reconciled, Stages

\* What a failing call may report.
LEMMA ReportedType ==
    ASSUME TypeOK, NEW c \in Cleaners
    PROVE  ReportedForList(c) \in References /\ Reported(c) \in References
<1>1. call[c] \in ArgsType /\ progress[c] \in ProgressType
    BY DEF TypeOK
<1>2. call[c].explicit \in Seq(Ids) /\ progress[c].target \in Ids \cup {NoId}
    BY <1>1 DEF ArgsType, ProgressType
<1>3. call[c].explicit # <<>> => call[c].explicit[1] \in Ids
    BY <1>2
<1> QED
    BY <1>2, <1>3 DEF ReportedForList, Reported, References

LEMMA NextType == TypeOK /\ [Next]_vars => TypeOK'
<1> SUFFICES ASSUME TypeOK, [Next]_vars PROVE TypeOK'
    OBVIOUS
<1>1. CASE Group
    <2>1. ASSUME NEW id \in Ids, Issue(id) PROVE TypeOK'
        BY <2>1 DEF Issue, TypeOK
    <2>2. ASSUME NEW id \in Ids, Publish(id) PROVE TypeOK'
        BY <2>2 DEF Publish, TypeOK
    <2>3. ASSUME NEW i \in 1..Len(index), Unpublish(i) PROVE TypeOK'
        BY <2>3, DropIsSeq DEF Unpublish, TypeOK
    <2> QED
        BY <1>1, <2>1, <2>2, <2>3 DEF Group
<1>2. ASSUME NEW c \in Cleaners, AuthCleanup(c) PROVE TypeOK'
    <2>1. PICK args \in Calls : Call(c, args)
        BY <1>2 DEF AuthCleanup
    <2> DEFINE due == {id \in Indexed \cap Live : InScope(args, id)}
               new == [allocation |-> args.allocation, attempt |-> args.attempt,
                       explicit |-> args.explicit, due |-> due]
    <2>2. due \in SUBSET Ids
        BY DEF Live
    <2>3. new \in ArgsType
        <3> HIDE DEF due
        <3> QED
            BY <2>2, ConstantsAssumption DEF ArgsType
    <2>4. call' = [call EXCEPT ![c] = new]
        BY <2>1 DEF Call
    <2> QED
        BY <2>1, <2>3, <2>4 DEF Call, TypeOK, Stages
<1>3. ASSUME NEW c \in Cleaners, Local(c) PROVE TypeOK'
    <2>1. progress[c] \in ProgressType /\ outcome[c] \in OutcomeType /\ call[c] \in ArgsType
        BY DEF TypeOK
    <2>2. CASE TakeExplicit(c)
        <3>1. call[c].explicit[progress[c].at] \in Ids
            BY <2>1, <2>2 DEF TakeExplicit, ArgsType, ProgressType
        <3>2. [progress[c] EXCEPT !.target = call[c].explicit[progress[c].at]] \in ProgressType
            BY <2>1, <3>1 DEF ProgressType
        <3> QED
            BY <2>2, <3>2 DEF TakeExplicit, TypeOK, Stages
    <2>3. CASE StartList(c)
        BY <2>3 DEF StartList, TypeOK, Stages
    <2>4. CASE Finish(c)
        <3>1. [outcome[c] EXCEPT !.status = "cleaned"] \in OutcomeType
            BY <2>1 DEF OutcomeType
        <3> QED
            BY <2>4, <3>1 DEF Finish, TypeOK, Stages
    <2>5. ASSUME NEW id \in Ids, TakeListed(c, id) PROVE TypeOK'
        <3>1. [progress[c] EXCEPT !.target = id] \in ProgressType
            BY <2>1 DEF ProgressType
        <3> QED
            BY <2>5, <3>1 DEF TakeListed, TypeOK, Stages
    <2> QED
        BY <1>3, <2>2, <2>3, <2>4, <2>5 DEF Local
<1>4. ASSUME NEW c \in Cleaners, Answered(c) PROVE TypeOK'
    <2>1. CASE GetMissing(c)
        BY <2>1, ReconciledType DEF GetMissing, store, TypeOK
    <2>2. CASE GetOwned(c)
        BY <2>2 DEF GetOwned, TypeOK, Stages
    <2>3. CASE GetForeign(c)
        BY <2>3, ReportedType, PendingType DEF GetForeign, store, TypeOK
    <2>4. CASE Delete(c)
        <3>1. cert' \in [Ids -> {"unissued", "live", "deleted"}]
            BY <2>4 DEF Delete, Gone, TypeOK
        <3> QED
            BY <2>4, <3>1, ReconciledType DEF Delete, TypeOK
    <2>5. progress[c] \in ProgressType /\ index \in Seq(Ids) /\ PageSize \in Nat
        BY ConstantsAssumption DEF TypeOK
    <2> DEFINE found == progress[c].found \cup Page(progress[c].offset)
               todo == {id \in found : InScope(call[c], id)}
    <2>6. found \in SUBSET Ids /\ todo \in SUBSET Ids /\ progress[c].offset + PageSize \in Nat
        BY <2>5 DEF Page, ProgressType
    <2>7. CASE ListMore(c)
        <3>1. [progress[c] EXCEPT !.found = found, !.offset = @ + PageSize] \in ProgressType
            <4> HIDE DEF found
            <4> QED
                BY <2>5, <2>6 DEF ProgressType
        <3> QED
            BY <2>7, <3>1 DEF ListMore, TypeOK
    <2>8. CASE ListLast(c)
        <3>1. [progress[c] EXCEPT !.found = found, !.listed = TRUE, !.todo = todo]
                  \in ProgressType
            <4> HIDE DEF found, todo
            <4> QED
                BY <2>5, <2>6 DEF ProgressType
        <3> QED
            BY <2>8, <3>1 DEF ListLast, TypeOK, Stages
    <2>9. CASE ListTooMany(c)
        BY <2>9, ReportedType, PendingType DEF ListTooMany, store, TypeOK
    <2> QED
        BY <1>4, <2>1, <2>2, <2>3, <2>4, <2>7, <2>8, <2>9 DEF Answered
<1>5. ASSUME NEW c \in Cleaners, Failed(c) PROVE TypeOK'
    <2>1. cert' \in [Ids -> {"unissued", "live", "deleted"}] /\ index' = index
        BY <1>5 DEF Failed, ClientFails, GetFails, DeleteFails, ListFails, store, Gone, TypeOK
    <2>2. \E certificate \in References : EndPending(c, "failed", certificate)
        BY <1>5, ReportedType DEF Failed, ClientFails, GetFails, DeleteFails, ListFails
    <2> QED
        BY <2>1, <2>2, PendingType DEF TypeOK
<1>6. ASSUME NEW c \in Cleaners, Crash(c) PROVE TypeOK'
    BY <1>6 DEF Crash, TypeOK, Stages
<1>7. CASE UNCHANGED vars
    BY <1>7 DEF vars, TypeOK
<1> QED
    BY <1>1, <1>2, <1>3, <1>4, <1>5, <1>6, <1>7 DEF Next, Request

\* Every variable keeps its type, in every execution: in particular an outcome
\* is never returned half-filled.
THEOREM TypeCorrect == Spec => []TypeOK
<1> QED
    BY InitType, NextType, PTL DEF Spec

-----------------------------------------------------------------------------
(***************************************************************************)
(* The invariant of one call.  ExplicitBeforeList and MismatchIsReal are   *)
(* not inductive: they need to know that the loop variable `at` has passed *)
(* only references whose certificate is gone for good, what the target of  *)
(* a request is, and that the listed certificates were filtered by scope.  *)
(***************************************************************************)
Unstarted(c) == stage[c] = "idle" => progress[c] = NoProgress /\ call[c].explicit = <<>>
Unreported(c) == stage[c] # "done" => outcome[c] = NoOutcome
Known(c) == \A i \in 1..Len(call[c].explicit) : cert[call[c].explicit[i]] # "unissued"
Past(c) ==
    \A i \in 1..Len(call[c].explicit) :
        i < progress[c].at => cert[call[c].explicit[i]] = "deleted"
Listing(c) ==
    stage[c] = "metadata-list" \/ progress[c].listed =>
        progress[c].at > Len(call[c].explicit)
Target(c) ==
    stage[c] \in {"metadata-get", "delete"} =>
        /\ progress[c].target \in Ids
        /\ progress[c].listed => InScope(call[c], progress[c].target)
        /\ ~progress[c].listed =>
               /\ progress[c].at \in 1..Len(call[c].explicit)
               /\ progress[c].target = call[c].explicit[progress[c].at]
Owned(c) ==
    stage[c] = "delete" =>
        InScope(call[c], progress[c].target) /\ cert[progress[c].target] # "unissued"
Listed(c) == \A id \in progress[c].todo : InScope(call[c], id)
Mismatch(c) ==
    outcome[c].reason = "ownership-mismatch" =>
        /\ ~progress[c].listed
        /\ \E i \in 1..Len(call[c].explicit) :
               /\ call[c].explicit[i] = outcome[c].certificate
               /\ ~InScope(call[c], call[c].explicit[i])
Verdict(c) == outcome[c].status = "cleaned" => progress[c].listed

CallInv(c) ==
    /\ Unstarted(c) /\ Unreported(c) /\ Known(c) /\ Past(c) /\ Listing(c)
    /\ Target(c) /\ Owned(c) /\ Listed(c) /\ Mismatch(c) /\ Verdict(c)

Inv == TypeOK /\ \A c \in Cleaners : CallInv(c)

\* A certificate that was issued stays issued, one that is deleted stays so.
Aged == \A id \in Ids :
    /\ cert[id] # "unissued" => cert'[id] # "unissued"
    /\ cert[id] = "deleted" => cert'[id] = "deleted"

\* The step leaves a call alone.
Same(c) ==
    /\ stage'[c] = stage[c] /\ call'[c] = call[c]
    /\ progress'[c] = progress[c] /\ outcome'[c] = outcome[c]

LEMMA InitInv == Init => Inv
<1> SUFFICES ASSUME Init, NEW c \in Cleaners PROVE CallInv(c)
    BY InitType DEF Inv
<1>1. stage[c] = "idle" /\ call[c] = NoCall /\ progress[c] = NoProgress /\ outcome[c] = NoOutcome
    BY DEF Init
<1>2. /\ NoCall.explicit = <<>> /\ NoProgress.at = 1 /\ ~NoProgress.listed
      /\ NoProgress.todo = {} /\ NoOutcome.reason = "" /\ NoOutcome.status = "none"
    BY DEF NoCall, NoProgress, NoOutcome
<1>3. \A i \in 1..Len(call[c].explicit) : FALSE
    <2>1. call[c].explicit = <<>>
        BY <1>1, <1>2
    <2>2. 1..Len(<<>>) = {}
        OBVIOUS
    <2> QED
        BY <2>1, <2>2
<1>4. Unstarted(c) /\ Unreported(c) /\ Known(c) /\ Past(c)
    BY <1>1, <1>2, <1>3 DEF Unstarted, Unreported, Known, Past
<1>5. Listing(c) /\ Target(c) /\ Owned(c) /\ Listed(c) /\ Mismatch(c) /\ Verdict(c)
    BY <1>1, <1>2 DEF Listing, Target, Owned, Listed, Mismatch, Verdict
<1> QED
    BY <1>4, <1>5 DEF CallInv

LEMMA NoOutcomeFields == NoOutcome.status = "none" /\ NoOutcome.reason = ""
<1> QED
    BY DEF NoOutcome

LEMMA AllAge == TypeOK /\ [Next]_vars => Aged
<1> SUFFICES ASSUME TypeOK, [Next]_vars PROVE Aged
    OBVIOUS
<1>1. ASSUME NEW id \in Ids, Issue(id) PROVE Aged
    BY <1>1 DEF Issue, Aged, TypeOK
<1>2. ASSUME NEW id, Gone(id) PROVE Aged
    BY <1>2 DEF Gone, Aged, TypeOK
<1>3. CASE cert' = cert
    BY <1>3 DEF Aged
<1>4. CASE Group
    BY <1>1, <1>3, <1>4 DEF Group, Publish, Unpublish
<1>5. ASSUME NEW c \in Cleaners, AuthCleanup(c) \/ Crash(c) PROVE Aged
    BY <1>3, <1>5 DEF AuthCleanup, Call, Crash
<1>6. ASSUME NEW c \in Cleaners, Local(c) PROVE Aged
    BY <1>3, <1>6 DEF Local, TakeExplicit, StartList, Finish, TakeListed
<1>7. ASSUME NEW c \in Cleaners, Answered(c) PROVE Aged
    BY <1>2, <1>3, <1>7 DEF Answered, GetMissing, GetOwned, GetForeign, Delete, ListMore,
        ListLast, ListTooMany, store
<1>8. ASSUME NEW c \in Cleaners, Failed(c) PROVE Aged
    BY <1>2, <1>3, <1>8 DEF Failed, ClientFails, GetFails, DeleteFails, ListFails, store
<1>9. CASE UNCHANGED vars
    BY <1>3, <1>9 DEF vars
<1> QED
    BY <1>4, <1>5, <1>6, <1>7, <1>8, <1>9 DEF Next, Request

\* What a step does not touch, it preserves.
LEMMA SameInv ==
    ASSUME TypeOK, Aged, NEW c \in Cleaners, CallInv(c), Same(c)
    PROVE  CallInv(c)'
<1>1. call[c].explicit \in Seq(Ids)
    BY DEF TypeOK, ArgsType
<1>2. \A i \in 1..Len(call[c].explicit) : call[c].explicit[i] \in Ids
    BY <1>1
<1>3. Known(c)' /\ Past(c)'
    BY <1>2 DEF CallInv, Known, Past, Same, Aged
<1>4. Owned(c)'
    BY DEF CallInv, Target, Owned, Same, Aged, InScope
<1>5. Unstarted(c)' /\ Unreported(c)' /\ Listing(c)' /\ Verdict(c)'
    BY DEF CallInv, Unstarted, Unreported, Listing, Verdict, Same
<1>6. Target(c)' /\ Listed(c)' /\ Mismatch(c)'
    BY DEF CallInv, Target, Listed, Mismatch, Same, InScope
<1> QED
    BY <1>3, <1>4, <1>5, <1>6 DEF CallInv

\* A call that ends pending keeps its invariant when what it reports is true.
LEMMA PendingInv ==
    ASSUME TypeOK, Aged, NEW c \in Cleaners, CallInv(c),
           NEW reason, NEW certificate, EndPending(c, reason, certificate),
           stage[c] \in Running,
           reason = "ownership-mismatch" =>
               /\ ~progress[c].listed
               /\ \E i \in 1..Len(call[c].explicit) :
                      call[c].explicit[i] = certificate /\ ~InScope(call[c], certificate)
    PROVE  CallInv(c)'
<1>1. /\ stage'[c] = "done" /\ call' = call /\ progress' = progress
      /\ outcome'[c] = [status |-> "pending", reason |-> reason, certificate |-> certificate]
    BY DEF EndPending, TypeOK
<1>2. \A i \in 1..Len(call[c].explicit) : call[c].explicit[i] \in Ids
    BY DEF TypeOK, ArgsType
<1>3. Known(c)' /\ Past(c)'
    BY <1>1, <1>2 DEF CallInv, Known, Past, Aged
<1>4. Unstarted(c)' /\ Unreported(c)' /\ Listing(c)' /\ Target(c)' /\ Owned(c)' /\ Verdict(c)'
    BY <1>1 DEF CallInv, Unstarted, Unreported, Listing, Target, Owned, Verdict, Running
<1>5. Listed(c)' /\ Mismatch(c)'
    BY <1>1 DEF CallInv, Listed, Mismatch, InScope
<1> QED
    BY <1>3, <1>4, <1>5 DEF CallInv

\* A call whose target is gone for good goes on with its loops.
LEMMA ReconciledInv ==
    ASSUME TypeOK, Aged, NEW c \in Cleaners, CallInv(c), Reconciled(c),
           stage[c] \in {"metadata-get", "delete"},
           ~progress[c].listed => cert'[progress[c].target] = "deleted"
    PROVE  CallInv(c)'
<1>1. call[c].explicit \in Seq(Ids) /\ progress[c].at \in Nat
    BY DEF TypeOK, ArgsType, ProgressType
<1>2. \A i \in 1..Len(call[c].explicit) : call[c].explicit[i] \in Ids
    BY <1>1
<1>3. stage'[c] = "reconcile" /\ call' = call /\ outcome' = outcome
    BY DEF Reconciled, TypeOK
<1>4. /\ progress'[c].at = IF progress[c].listed THEN progress[c].at ELSE progress[c].at + 1
      /\ progress'[c].listed = progress[c].listed
      /\ progress'[c].todo = progress[c].todo \ {progress[c].target}
    <2>1. progress[c] \in ProgressType
        BY DEF TypeOK
    <2> QED
        BY <2>1 DEF Reconciled, TypeOK, ProgressType
<1>5. Known(c)'
    BY <1>2, <1>3 DEF CallInv, Known, Aged
<1>6. Past(c)'
    <2>1. CASE progress[c].listed
        BY <1>2, <1>3, <1>4, <2>1 DEF CallInv, Past, Aged
    <2>2. CASE ~progress[c].listed
        <3> SUFFICES ASSUME NEW i \in 1..Len(call[c].explicit), i < progress[c].at + 1
                     PROVE  cert'[call[c].explicit[i]] = "deleted"
            BY <1>3, <1>4, <2>2 DEF Past
        <3>1. CASE i < progress[c].at
            BY <1>2, <3>1 DEF CallInv, Past, Aged
        <3>2. CASE i = progress[c].at
            BY <2>2, <3>2 DEF CallInv, Target
        <3> QED
            BY <1>1, <3>1, <3>2
    <2> QED
        BY <2>1, <2>2
<1>7. Unstarted(c)' /\ Unreported(c)' /\ Target(c)' /\ Owned(c)' /\ Verdict(c)'
    BY <1>3, <1>4 DEF CallInv, Unstarted, Unreported, Target, Owned, Verdict
<1>8. Listing(c)' /\ Listed(c)' /\ Mismatch(c)'
    BY <1>1, <1>3, <1>4 DEF CallInv, Listing, Listed, Mismatch, InScope
<1> QED
    BY <1>5, <1>6, <1>7, <1>8 DEF CallInv

\* Every step of a call keeps that call's invariant ...
LEMMA StepInv ==
    ASSUME TypeOK, Aged, NEW c \in Cleaners, CallInv(c),
           AuthCleanup(c) \/ Request(c) \/ Crash(c)
    PROVE  CallInv(c)'
<1>1. /\ call[c] \in ArgsType /\ progress[c] \in ProgressType /\ outcome[c] \in OutcomeType
      /\ call[c].explicit \in Seq(Ids)
      /\ \A i \in 1..Len(call[c].explicit) : call[c].explicit[i] \in Ids
    BY DEF TypeOK, ArgsType
<1>2. ASSUME call' = call, outcome' = outcome,
             progress'[c].at = progress[c].at
      PROVE  Known(c)' /\ Past(c)'
    BY <1>1, <1>2 DEF CallInv, Known, Past, Aged
<1>3. CASE AuthCleanup(c)
    <2>1. PICK args \in Calls : Call(c, args)
        BY <1>3 DEF AuthCleanup
    <2>2. args.explicit \in Seq(Ids)
        BY ConstantsAssumption
    <2>3. /\ stage[c] = "idle" /\ stage'[c] = "reconcile" /\ call'[c].explicit = args.explicit
          /\ progress' = progress /\ outcome' = outcome /\ cert' = cert
        BY <2>1 DEF Call, TypeOK
    <2>4. progress[c] = NoProgress /\ outcome[c] = NoOutcome
        BY <2>3 DEF CallInv, Unstarted, Unreported
    <2>5. /\ NoProgress.at = 1 /\ ~NoProgress.listed /\ NoProgress.todo = {}
          /\ NoOutcome.reason = "" /\ NoOutcome.status = "none"
        BY DEF NoProgress, NoOutcome
    <2>6. Known(c)' /\ Past(c)'
        <3>1. \A i \in 1..Len(args.explicit) : cert[args.explicit[i]] # "unissued"
            BY <2>1 DEF Call
        <3>2. \A i \in 1..Len(args.explicit) : ~(i < 1)
            BY <2>2
        <3> QED
            BY <2>3, <2>4, <2>5, <3>1, <3>2 DEF Known, Past
    <2>7. Unstarted(c)' /\ Unreported(c)' /\ Listing(c)' /\ Target(c)' /\ Owned(c)'
        BY <2>3, <2>4, <2>5 DEF Unstarted, Unreported, Listing, Target, Owned
    <2>8. Listed(c)' /\ Mismatch(c)' /\ Verdict(c)'
        BY <2>3, <2>4, <2>5 DEF Listed, Mismatch, Verdict
    <2> QED
        BY <2>6, <2>7, <2>8 DEF CallInv
<1>4. CASE TakeExplicit(c)
    <2>1. /\ stage[c] = "reconcile" /\ stage'[c] = "metadata-get"
          /\ call' = call /\ outcome' = outcome
          /\ progress'[c] = [progress[c] EXCEPT !.target = call[c].explicit[progress[c].at]]
        BY <1>4 DEF TakeExplicit, TypeOK
    <2>2. /\ progress'[c].at = progress[c].at /\ progress'[c].listed = progress[c].listed
          /\ progress'[c].todo = progress[c].todo
          /\ progress'[c].target = call[c].explicit[progress[c].at]
        BY <1>1, <2>1 DEF ProgressType
    <2>3. progress[c].at \in 1..Len(call[c].explicit) /\ ~progress[c].listed
        <3>1. progress[c].at <= Len(call[c].explicit) /\ progress[c].at \in Nat \ {0}
            BY <1>1, <1>4 DEF TakeExplicit, ProgressType
        <3> QED
            BY <1>1, <3>1 DEF CallInv, Listing
    <2>4. Target(c)'
        BY <1>1, <2>1, <2>2, <2>3 DEF Target
    <2>5. Unstarted(c)' /\ Unreported(c)' /\ Listing(c)' /\ Owned(c)' /\ Verdict(c)'
        BY <2>1, <2>2, <2>3 DEF CallInv, Unstarted, Unreported, Listing, Owned, Verdict
    <2>6. Listed(c)' /\ Mismatch(c)'
        BY <2>1, <2>2 DEF CallInv, Listed, Mismatch, InScope
    <2> QED
        BY <1>2, <2>1, <2>2, <2>4, <2>5, <2>6 DEF CallInv
<1>5. CASE StartList(c)
    <2>1. /\ stage[c] = "reconcile" /\ stage'[c] = "metadata-list" /\ call' = call
          /\ outcome' = outcome /\ progress' = progress
          /\ progress[c].at > Len(call[c].explicit)
        BY <1>5 DEF StartList, TypeOK
    <2>2. Unstarted(c)' /\ Unreported(c)' /\ Listing(c)' /\ Target(c)' /\ Owned(c)' /\ Verdict(c)'
        BY <2>1 DEF CallInv, Unstarted, Unreported, Listing, Target, Owned, Verdict
    <2>3. Listed(c)' /\ Mismatch(c)'
        BY <2>1 DEF CallInv, Listed, Mismatch, InScope
    <2> QED
        BY <1>2, <2>1, <2>2, <2>3 DEF CallInv
<1>6. CASE Finish(c)
    <2>1. /\ stage[c] = "reconcile" /\ stage'[c] = "done" /\ call' = call
          /\ progress' = progress /\ progress[c].listed
          /\ outcome'[c] = [outcome[c] EXCEPT !.status = "cleaned"]
        BY <1>6 DEF Finish, TypeOK
    <2>2. outcome'[c].reason = "" /\ outcome'[c].status = "cleaned"
        <3>1. outcome[c].reason = ""
            BY <2>1, NoOutcomeFields DEF CallInv, Unreported
        <3>2. outcome[c] \in OutcomeType
            BY DEF TypeOK
        <3> QED
            BY <2>1, <3>1, <3>2 DEF OutcomeType
    <2>3. Known(c)' /\ Past(c)'
        BY <1>1, <2>1 DEF CallInv, Known, Past, Aged
    <2>4. Unstarted(c)' /\ Unreported(c)' /\ Listing(c)' /\ Target(c)' /\ Owned(c)' /\ Verdict(c)'
        BY <2>1 DEF CallInv, Unstarted, Unreported, Listing, Target, Owned, Verdict
    <2>5. Listed(c)' /\ Mismatch(c)'
        BY <2>1, <2>2 DEF CallInv, Listed, Mismatch, InScope
    <2> QED
        BY <2>3, <2>4, <2>5 DEF CallInv
<1>7. ASSUME NEW id \in Ids, TakeListed(c, id) PROVE CallInv(c)'
    <2>1. /\ stage[c] = "reconcile" /\ stage'[c] = "metadata-get"
          /\ call' = call /\ outcome' = outcome
          /\ progress[c].listed /\ id \in progress[c].todo
          /\ progress'[c] = [progress[c] EXCEPT !.target = id]
        BY <1>7 DEF TakeListed, TypeOK
    <2>2. /\ progress'[c].at = progress[c].at /\ progress'[c].listed = progress[c].listed
          /\ progress'[c].todo = progress[c].todo /\ progress'[c].target = id
        BY <1>1, <2>1 DEF ProgressType
    <2>3. Target(c)'
        BY <2>1, <2>2 DEF CallInv, Target, Listed, InScope
    <2>4. Unstarted(c)' /\ Unreported(c)' /\ Listing(c)' /\ Owned(c)' /\ Verdict(c)'
        BY <2>1, <2>2 DEF CallInv, Unstarted, Unreported, Listing, Owned, Verdict
    <2>5. Listed(c)' /\ Mismatch(c)'
        BY <2>1, <2>2 DEF CallInv, Listed, Mismatch, InScope
    <2> QED
        BY <1>2, <2>1, <2>2, <2>3, <2>4, <2>5 DEF CallInv
<1>8. CASE GetMissing(c)
    <2>1. stage[c] = "metadata-get" /\ Reconciled(c) /\ cert' = cert
        BY <1>8 DEF GetMissing, store
    <2>2. progress[c].target \in Ids /\ cert[progress[c].target] # "live"
        BY <1>8, <2>1 DEF GetMissing, CallInv, Target, Live
    <2>3. ~progress[c].listed => cert[progress[c].target] = "deleted"
        BY <1>1, <2>1, <2>2 DEF CallInv, Target, Known, TypeOK
    <2> QED
        BY <2>1, <2>3, ReconciledInv
<1>9. CASE GetOwned(c)
    <2>1. /\ stage[c] = "metadata-get" /\ stage'[c] = "delete" /\ cert' = cert
          /\ call' = call /\ outcome' = outcome /\ progress' = progress
          /\ progress[c].target \in Live /\ InScope(call[c], progress[c].target)
        BY <1>9 DEF GetOwned, TypeOK
    <2>2. Target(c)' /\ Owned(c)'
        BY <2>1 DEF CallInv, Target, Owned, InScope, Live
    <2>3. Unstarted(c)' /\ Unreported(c)' /\ Listing(c)' /\ Verdict(c)'
        BY <2>1 DEF CallInv, Unstarted, Unreported, Listing, Verdict
    <2>4. Listed(c)' /\ Mismatch(c)'
        BY <2>1 DEF CallInv, Listed, Mismatch, InScope
    <2> QED
        BY <1>2, <2>1, <2>2, <2>3, <2>4 DEF CallInv
<1>10. CASE GetForeign(c)
    <2>1. /\ stage[c] = "metadata-get" /\ ~InScope(call[c], progress[c].target)
          /\ EndPending(c, "ownership-mismatch", Reported(c))
        BY <1>10 DEF GetForeign
    <2>2. ~progress[c].listed /\ Reported(c) = progress[c].target
        BY <1>1, <2>1 DEF CallInv, Target, Reported, ProgressType
    <2>3. \E i \in 1..Len(call[c].explicit) :
              call[c].explicit[i] = Reported(c) /\ ~InScope(call[c], Reported(c))
        BY <2>1, <2>2 DEF CallInv, Target
    <2> QED
        BY <2>1, <2>2, <2>3, PendingInv DEF Running
<1>11. CASE Delete(c)
    <2>1. stage[c] = "delete" /\ Gone(progress[c].target) /\ Reconciled(c)
        BY <1>11 DEF Delete
    <2>2. cert'[progress[c].target] = "deleted"
        BY <2>1 DEF CallInv, Target, Gone, TypeOK
    <2> QED
        BY <2>1, <2>2, ReconciledInv
<1>12. CASE ListMore(c)
    <2> DEFINE found == progress[c].found \cup Page(progress[c].offset)
    <2>1. /\ stage[c] = "metadata-list" /\ stage' = stage
          /\ call' = call /\ outcome' = outcome
          /\ progress'[c] = [progress[c] EXCEPT !.found = found, !.offset = @ + PageSize]
        BY <1>12 DEF ListMore, TypeOK
    <2>2. /\ progress'[c].at = progress[c].at /\ progress'[c].listed = progress[c].listed
          /\ progress'[c].todo = progress[c].todo
        <3> HIDE DEF found
        <3> QED
            BY <1>1, <2>1 DEF ProgressType
    <2>3. Unstarted(c)' /\ Unreported(c)' /\ Listing(c)' /\ Target(c)' /\ Owned(c)' /\ Verdict(c)'
        BY <2>1, <2>2 DEF CallInv, Unstarted, Unreported, Listing, Target, Owned, Verdict
    <2>4. Listed(c)' /\ Mismatch(c)'
        BY <2>1, <2>2 DEF CallInv, Listed, Mismatch, InScope
    <2> QED
        BY <1>2, <2>1, <2>2, <2>3, <2>4 DEF CallInv
<1>13. CASE ListLast(c)
    <2> DEFINE found == progress[c].found \cup Page(progress[c].offset)
               todo == {id \in found : InScope(call[c], id)}
    <2>1. /\ stage[c] = "metadata-list" /\ stage'[c] = "reconcile"
          /\ call' = call /\ outcome' = outcome
          /\ progress'[c] = [progress[c] EXCEPT !.found = found, !.listed = TRUE, !.todo = todo]
        BY <1>13 DEF ListLast, TypeOK
    <2>2. /\ progress'[c].at = progress[c].at /\ progress'[c].listed
          /\ progress'[c].todo = todo
        <3> HIDE DEF found, todo
        <3> QED
            BY <1>1, <2>1 DEF ProgressType
    <2>3. outcome[c].reason = "" /\ outcome[c].status = "none"
        BY <2>1, NoOutcomeFields DEF CallInv, Unreported
    <2>4. Unstarted(c)' /\ Unreported(c)' /\ Listing(c)' /\ Target(c)' /\ Owned(c)' /\ Verdict(c)'
        BY <2>1, <2>2 DEF CallInv, Unstarted, Unreported, Listing, Target, Owned, Verdict
    <2>5. Listed(c)' /\ Mismatch(c)'
        BY <2>1, <2>2, <2>3 DEF Listed, Mismatch, InScope
    <2> QED
        BY <1>2, <2>1, <2>2, <2>4, <2>5 DEF CallInv
<1>14. CASE ListTooMany(c) \/ Failed(c)
    <2>1. stage[c] \in Running
        BY <1>14 DEF ListTooMany, Failed, ClientFails, GetFails, DeleteFails, ListFails, Running
    <2>2. \E certificate : EndPending(c, "failed", certificate)
        BY <1>14 DEF ListTooMany, Failed, ClientFails, GetFails, DeleteFails, ListFails
    <2> QED
        BY <2>1, <2>2, PendingInv
<1>15. CASE Crash(c)
    <2>1. /\ stage[c] \in Running /\ stage'[c] = "crashed"
          /\ call' = call /\ outcome' = outcome /\ progress' = progress
        BY <1>15 DEF Crash, TypeOK
    <2>2. Unstarted(c)' /\ Unreported(c)' /\ Listing(c)' /\ Target(c)' /\ Owned(c)' /\ Verdict(c)'
        BY <2>1 DEF CallInv, Unstarted, Unreported, Listing, Target, Owned, Verdict, Running
    <2>3. Listed(c)' /\ Mismatch(c)'
        BY <2>1 DEF CallInv, Listed, Mismatch, InScope
    <2> QED
        BY <1>2, <2>1, <2>2, <2>3 DEF CallInv
<1> QED
    BY <1>3, <1>4, <1>5, <1>6, <1>7, <1>8, <1>9, <1>10, <1>11, <1>12, <1>13, <1>14, <1>15
    DEF Request, Local, Answered

\* ... and leaves the others alone.
LEMMA OthersSame ==
    ASSUME TypeOK, NEW c \in Cleaners, AuthCleanup(c) \/ Request(c) \/ Crash(c),
           NEW d \in Cleaners, d # c
    PROVE  Same(d)
<1>1. CASE AuthCleanup(c) \/ Crash(c)
    BY <1>1 DEF AuthCleanup, Call, Crash, Same, TypeOK
<1>2. CASE Local(c)
    BY <1>2 DEF Local, TakeExplicit, StartList, Finish, TakeListed, Same, TypeOK
<1>3. CASE Answered(c)
    BY <1>3 DEF Answered, GetMissing, GetOwned, GetForeign, Delete, ListMore, ListLast,
        ListTooMany, Reconciled, EndPending, Same, TypeOK
<1>4. CASE Failed(c)
    BY <1>4 DEF Failed, ClientFails, GetFails, DeleteFails, ListFails, EndPending, Same, TypeOK
<1> QED
    BY <1>1, <1>2, <1>3, <1>4 DEF Request

LEMMA NextInv == Inv /\ [Next]_vars => Inv'
<1> SUFFICES ASSUME Inv, [Next]_vars, NEW d \in Cleaners PROVE CallInv(d)'
    BY NextType DEF Inv
<1>1. TypeOK /\ Aged /\ CallInv(d)
    BY AllAge DEF Inv
<1>2. CASE Group \/ UNCHANGED vars
    <2>1. Same(d)
        BY <1>2 DEF Group, Issue, Publish, Unpublish, vars, Same
    <2> QED
        BY <1>1, <2>1, SameInv
<1>3. ASSUME NEW c \in Cleaners, AuthCleanup(c) \/ Request(c) \/ Crash(c) PROVE CallInv(d)'
    BY <1>1, <1>3, StepInv, OthersSame, SameInv
<1> QED
    BY <1>2, <1>3 DEF Next

\* The facts about one call that the properties rest on, in every execution.
THEOREM Invariance == Spec => []Inv
<1> QED
    BY InitInv, NextInv, PTL DEF Spec

LEMMA ExplicitGone == Inv => ExplicitBeforeList
<1> SUFFICES ASSUME Inv, NEW c \in Cleaners,
                    stage[c] = "metadata-list" \/ progress[c].listed,
                    NEW i \in 1..Len(call[c].explicit)
             PROVE  call[c].explicit[i] \notin Live
    BY DEF ExplicitBeforeList
<1>1. call[c] \in ArgsType /\ progress[c] \in ProgressType
    BY DEF Inv, TypeOK
<1>2. Len(call[c].explicit) \in Nat /\ progress[c].at \in Nat
    BY <1>1 DEF ArgsType, ProgressType
<1>3. progress[c].at > Len(call[c].explicit)
    BY DEF Inv, CallInv, Listing
<1>4. i < progress[c].at
    BY <1>2, <1>3
<1>5. cert[call[c].explicit[i]] = "deleted"
    BY <1>4 DEF Inv, CallInv, Past
<1> QED
    BY <1>5 DEF Live

\* However many calls run at once and whoever deletes what they were given, a
\* call lists the group only when all its explicit certificates are gone.
THEOREM ExplicitFirst == Spec => []ExplicitBeforeList
<1> QED
    BY ExplicitGone, Invariance, PTL

\* A reported ownership mismatch is a fact about an explicit certificate, never
\* the trace of a race with another deletion.
THEOREM MismatchTrue == Spec => []MismatchIsReal
<1>1. Inv => MismatchIsReal
    BY DEF Inv, CallInv, Mismatch, MismatchIsReal
<1> QED
    BY <1>1, Invariance, PTL

-----------------------------------------------------------------------------
(***************************************************************************)
(* What those who make calls rely on: whoever finds a certificate deleted  *)
(* can name the call that had it in its scope, and a call that ended has a *)
(* verdict.                                                                *)
(***************************************************************************)
Reclaimed ==
    \A id \in Ids : cert[id] = "deleted" =>
        \E c \in Cleaners : stage[c] # "idle" /\ InScope(call[c], id)
Ruled == \A c \in Cleaners : stage[c] = "done" => outcome[c].status \in {"cleaned", "pending"}
CallerInv == Inv /\ Reclaimed /\ Ruled

\* A call that has begun keeps its arguments and does not begin again.
LEMMA CallStays ==
    ASSUME TypeOK, [Next]_vars, NEW c \in Cleaners, stage[c] # "idle"
    PROVE  stage'[c] # "idle" /\ call'[c] = call[c]
<1>1. CASE Group \/ UNCHANGED vars
    BY <1>1 DEF Group, Issue, Publish, Unpublish, vars
<1>2. ASSUME NEW d \in Cleaners, AuthCleanup(d) \/ Request(d) \/ Crash(d), d # c
      PROVE  stage'[c] # "idle" /\ call'[c] = call[c]
    BY <1>2, OthersSame DEF Same
<1>3. CASE AuthCleanup(c) \/ Crash(c)
    BY <1>3 DEF AuthCleanup, Call, Crash, TypeOK
<1>4. CASE Local(c)
    BY <1>4 DEF Local, TakeExplicit, StartList, Finish, TakeListed, TypeOK
<1>5. CASE Answered(c)
    BY <1>5 DEF Answered, GetMissing, GetOwned, GetForeign, Delete, ListMore, ListLast,
        ListTooMany, Reconciled, EndPending, TypeOK
<1>6. CASE Failed(c)
    BY <1>6 DEF Failed, ClientFails, GetFails, DeleteFails, ListFails, EndPending, TypeOK
<1> QED
    BY <1>1, <1>2, <1>3, <1>4, <1>5, <1>6 DEF Next, Request

\* Only the target of a deletion is deleted.
LEMMA DeletedByCall ==
    ASSUME TypeOK, [Next]_vars, NEW id \in Ids, cert[id] # "deleted", cert'[id] = "deleted"
    PROVE  \E c \in Cleaners : stage[c] = "delete" /\ progress[c].target = id
<1>1. ASSUME NEW i \in Ids, Issue(i) PROVE FALSE
    BY <1>1 DEF Issue, TypeOK
<1>2. cert' # cert
    OBVIOUS
<1>3. ~Group /\ ~UNCHANGED vars
    BY <1>1, <1>2 DEF Group, Publish, Unpublish, vars
<1>4. PICK c \in Cleaners : AuthCleanup(c) \/ Request(c) \/ Crash(c)
    BY <1>3 DEF Next
<1>5. Delete(c) \/ DeleteFails(c)
    <2>1. ~AuthCleanup(c) /\ ~Crash(c) /\ ~Local(c)
        BY <1>2 DEF AuthCleanup, Call, Crash, Local, TakeExplicit, StartList, Finish, TakeListed
    <2>2. CASE Answered(c)
        BY <1>2, <2>2 DEF Answered, GetMissing, GetOwned, GetForeign, ListMore, ListLast,
            ListTooMany, store
    <2>3. CASE Failed(c)
        BY <1>2, <2>3 DEF Failed, ClientFails, GetFails, ListFails, store
    <2> QED
        BY <1>4, <2>1, <2>2, <2>3 DEF Request
<1>6. stage[c] = "delete" /\ Gone(progress[c].target)
    BY <1>2, <1>5 DEF Delete, DeleteFails
<1> QED
    BY <1>6 DEF Gone, TypeOK

\* A call leaves every certificate alone or deletes it.
LEMMA CallsOnlyDelete ==
    ASSUME TypeOK, NEW c \in Cleaners, AuthCleanup(c) \/ Request(c) \/ Crash(c), NEW id \in Ids
    PROVE  cert'[id] = cert[id] \/ cert'[id] = "deleted"
<1>1. CASE AuthCleanup(c) \/ Crash(c) \/ Local(c)
    BY <1>1 DEF AuthCleanup, Call, Crash, Local, TakeExplicit, StartList, Finish, TakeListed
<1>2. CASE Answered(c)
    BY <1>2 DEF Answered, GetMissing, GetOwned, GetForeign, Delete, ListMore, ListLast,
        ListTooMany, Gone, store, TypeOK
<1>3. CASE Failed(c)
    BY <1>3 DEF Failed, ClientFails, GetFails, DeleteFails, ListFails, Gone, store, TypeOK
<1> QED
    BY <1>1, <1>2, <1>3 DEF Request

\* A certificate that was not issued is not the target of a deletion.
LEMMA UnissuedStays ==
    ASSUME Inv, [Next]_vars, NEW id \in Ids, cert[id] = "unissued"
    PROVE  cert'[id] # "deleted"
<1>1. SUFFICES ASSUME cert'[id] = "deleted" PROVE FALSE
    OBVIOUS
<1>2. PICK c \in Cleaners : stage[c] = "delete" /\ progress[c].target = id
    BY <1>1, DeletedByCall DEF Inv
<1> QED
    BY <1>2 DEF Inv, CallInv, Owned

\* Every end of a call sets its verdict.
LEMMA EndRules ==
    ASSUME TypeOK, NEW c \in Cleaners, Ruled, Request(c), stage'[c] = "done"
    PROVE  outcome'[c].status \in {"cleaned", "pending"}
<1>1. outcome[c] \in OutcomeType /\ stage[c] \in Stages
    BY DEF TypeOK
<1>2. ASSUME NEW reason, NEW certificate, EndPending(c, reason, certificate)
      PROVE  outcome'[c].status = "pending"
    BY <1>2 DEF EndPending, TypeOK
<1>3. CASE Finish(c)
    <2>1. outcome'[c] = [outcome[c] EXCEPT !.status = "cleaned"]
        BY <1>3 DEF Finish, TypeOK
    <2> QED
        BY <1>1, <2>1 DEF OutcomeType
<1>4. CASE GetForeign(c) \/ ListTooMany(c) \/ Failed(c)
    BY <1>2, <1>4 DEF GetForeign, ListTooMany, Failed, ClientFails, GetFails, DeleteFails, ListFails
<1>5. CASE TakeExplicit(c) \/ StartList(c) \/ (\E id \in Ids : TakeListed(c, id))
    BY <1>5 DEF TakeExplicit, StartList, TakeListed, TypeOK
<1>6. CASE GetMissing(c) \/ GetOwned(c) \/ Delete(c) \/ ListMore(c) \/ ListLast(c)
    BY <1>6 DEF GetMissing, GetOwned, Delete, ListMore, ListLast, Reconciled, TypeOK
<1> QED
    BY <1>3, <1>4, <1>5, <1>6 DEF Request, Local, Answered

LEMMA InitCaller == Init => CallerInv
<1> SUFFICES ASSUME Init PROVE Reclaimed /\ Ruled
    BY InitInv DEF CallerInv
<1> QED
    BY DEF Init, Reclaimed, Ruled

LEMMA NextCaller == CallerInv /\ [Next]_vars => CallerInv'
<1> SUFFICES ASSUME CallerInv, [Next]_vars PROVE CallerInv'
    OBVIOUS
<1>1. Inv /\ TypeOK /\ Inv'
    BY NextInv DEF CallerInv, Inv
<1>2. ASSUME NEW id \in Ids, cert'[id] = "deleted"
      PROVE  \E c \in Cleaners : stage'[c] # "idle" /\ InScope(call'[c], id)
    <2>1. CASE cert[id] = "deleted"
        <3>1. PICK c \in Cleaners : stage[c] # "idle" /\ InScope(call[c], id)
            BY <2>1 DEF CallerInv, Reclaimed
        <3> QED
            BY <1>1, <3>1, CallStays
    <2>2. CASE cert[id] # "deleted"
        <3>1. PICK c \in Cleaners : stage[c] = "delete" /\ progress[c].target = id
            BY <1>1, <1>2, <2>2, DeletedByCall
        <3>2. InScope(call[c], id)
            BY <1>1, <3>1 DEF Inv, CallInv, Owned
        <3> QED
            BY <1>1, <3>1, <3>2, CallStays
    <2> QED
        BY <2>1, <2>2
<1>3. ASSUME NEW c \in Cleaners, stage'[c] = "done"
      PROVE  outcome'[c].status \in {"cleaned", "pending"}
    <2>1. CASE Same(c)
        BY <1>3, <2>1 DEF Same, CallerInv, Ruled
    <2>2. CASE Request(c)
        BY <1>1, <1>3, <2>2, EndRules DEF CallerInv
    <2>3. CASE AuthCleanup(c) \/ Crash(c)
        BY <1>1, <1>3, <2>3 DEF AuthCleanup, Call, Crash, TypeOK
    <2>4. CASE Group \/ UNCHANGED vars
        BY <2>1, <2>4 DEF Group, Issue, Publish, Unpublish, vars, Same
    <2> QED
        BY <1>1, <2>1, <2>2, <2>3, <2>4, OthersSame DEF Next
<1> QED
    BY <1>1, <1>2, <1>3 DEF CallerInv, Reclaimed, Ruled, InScope

-----------------------------------------------------------------------------
(***************************************************************************)
(* Every step of a call is a step of CertificateCustody, or none of it.    *)
(***************************************************************************)
\* A step of call c that has begun shows its owner only a change of verdict.
LEMMA Shown ==
    ASSUME TypeOK, NEW c \in Cleaners, stage[c] # "idle", call' = call,
           NEW s \in Stages \ {"idle"}, stage' = [stage EXCEPT ![c] = s],
           \A d \in Cleaners : d # c => outcome'[d] = outcome[d]
    PROVE  /\ claims' = claims /\ names' = names
           /\ s \in Running => verdicts' = [verdicts EXCEPT ![c] = "running"]
           /\ s = "crashed" => verdicts' = [verdicts EXCEPT ![c] = "lost"]
           /\ s = "done" => verdicts' = [verdicts EXCEPT ![c] = outcome'[c].status]
<1>1. \A d \in Cleaners : stage'[d] = IF d = c THEN s ELSE stage[d]
    BY DEF TypeOK
<1>2. claims' = claims
    BY <1>1 DEF claims, InScope
<1>3. names' = names
    BY DEF names
<1> QED
    BY <1>1, <1>2, <1>3 DEF verdicts, Running

LEMMA VerdictRunning ==
    ASSUME NEW c \in Cleaners, stage[c] \in Running
    PROVE  verdicts[c] = "running" /\ verdicts = [verdicts EXCEPT ![c] = "running"]
BY DEF verdicts, Running

\* A request that is answered, or a move between two requests, with the
\* certificates untouched, shows nothing.
LEMMA Quiet ==
    ASSUME TypeOK, NEW c \in Cleaners, stage[c] \in Running, call' = call,
           NEW s \in Running, stage' = [stage EXCEPT ![c] = s], outcome' = outcome
    PROVE  claims' = claims /\ names' = names /\ verdicts' = verdicts
BY Shown, VerdictRunning DEF Running, Stages

LEMMA ReclaimsTarget ==
    ASSUME Inv, NEW c \in Cleaners, stage[c] = "delete", Gone(progress[c].target)
    PROVE  Custody!Reclaims(c)
<1>1. /\ progress[c].target \in Ids /\ InScope(call[c], progress[c].target)
      /\ cert[progress[c].target] # "unissued"
    BY DEF Inv, CallInv, Target, Owned
<1>2. progress[c].target \in claims[c]
    BY <1>1 DEF claims
<1> QED
    BY <1>1, <1>2 DEF Custody!Reclaims, Gone

LEMMA PendingShown ==
    ASSUME Inv, NEW c \in Cleaners, stage[c] \in Running,
           NEW reason, NEW certificate, EndPending(c, reason, certificate),
           UNCHANGED cert \/ Custody!Reclaims(c)
    PROVE  Custody!EndPending(c)
<1>1. TypeOK
    BY DEF Inv
<1>2. /\ stage' = [stage EXCEPT ![c] = "done"] /\ call' = call
      /\ outcome'[c].status = "pending"
      /\ \A d \in Cleaners : d # c => outcome'[d] = outcome[d]
    BY <1>1 DEF EndPending, TypeOK
<1>3. claims' = claims /\ names' = names /\ verdicts' = [verdicts EXCEPT ![c] = "pending"]
    BY <1>1, <1>2, Shown DEF Running, Stages
<1> QED
    BY <1>3, VerdictRunning DEF Custody!EndPending, Custody!End

LEMMA InitShown == Init => Custody!Init
<1> SUFFICES ASSUME Init PROVE Custody!Init
    OBVIOUS
<1>1. \A c \in Cleaners : stage[c] = "idle" /\ call[c] = NoCall
    BY DEF Init
<1>2. claims = [c \in Cleaners |-> {}] /\ verdicts = [c \in Cleaners |-> "none"]
    BY <1>1 DEF claims, verdicts
<1>3. names = [c \in Cleaners |-> {}]
    <2>1. NoCall.explicit = <<>>
        BY DEF NoCall
    <2>2. 1..Len(<<>>) = {}
        OBVIOUS
    <2>3. ASSUME NEW c \in Cleaners
          PROVE  {call[c].explicit[i] : i \in 1..Len(call[c].explicit)} = {}
        BY <1>1, <2>1, <2>2
    <2> QED
        BY <2>3 DEF names
<1> QED
    BY <1>2, <1>3 DEF Custody!Init, Init

LEMMA StepShown == Inv /\ [Next]_vars => [Custody!Next]_(Custody!vars)
<1> SUFFICES ASSUME Inv, [Next]_vars PROVE [Custody!Next]_(Custody!vars)
    OBVIOUS
<1> USE DEF Custody!vars
<1>1. TypeOK
    BY DEF Inv
<1>2. ASSUME UNCHANGED <<stage, call, outcome>>
      PROVE  claims' = claims /\ names' = names /\ verdicts' = verdicts
    BY <1>2 DEF claims, names, verdicts, InScope
<1>3. CASE Group
    <2>1. UNCHANGED <<stage, call, outcome>>
        BY <1>3 DEF Group, Issue, Publish, Unpublish
    <2>2. ASSUME NEW id \in Ids, Issue(id) PROVE Custody!Issue(id)
        BY <1>2, <2>1, <2>2 DEF Issue, Custody!Issue
    <2> QED
        BY <1>2, <1>3, <2>1, <2>2 DEF Group, Publish, Unpublish, Custody!Next
<1>4. ASSUME NEW c \in Cleaners, AuthCleanup(c)
      PROVE  \E scope \in SUBSET Ids, ids \in SUBSET Ids : Custody!Begin(c, scope, ids)
    <2>1. PICK args \in Calls : Call(c, args)
        BY <1>4 DEF AuthCleanup
    <2>2. /\ stage[c] = "idle" /\ stage' = [stage EXCEPT ![c] = "reconcile"]
          /\ \A d \in Cleaners : d # c => call'[d] = call[d]
          /\ cert' = cert /\ outcome' = outcome
        BY <1>1, <2>1 DEF Call, TypeOK
    <2>3. \A d \in Cleaners : stage'[d] = IF d = c THEN "reconcile" ELSE stage[d]
        BY <1>1, <2>2 DEF TypeOK
    <2>4. claims' = [claims EXCEPT ![c] = claims'[c]] /\ claims'[c] \in SUBSET Ids
        BY <2>2, <2>3 DEF claims, InScope
    <2>5. call'[c].explicit \in Seq(Ids)
        BY <1>1, NextType DEF TypeOK, ArgsType
    <2>6. names' = [names EXCEPT ![c] = names'[c]] /\ names'[c] \in SUBSET Ids
        <3>1. names'[c] \in SUBSET Ids
            BY <2>5 DEF names
        <3>2. ASSUME NEW d \in Cleaners, d # c PROVE names'[d] = names[d]
            BY <2>2, <3>2 DEF names
        <3> QED
            BY <3>1, <3>2 DEF names
    <2>7. verdicts[c] = "none" /\ verdicts' = [verdicts EXCEPT ![c] = "running"]
        <3>1. verdicts[c] = "none" /\ verdicts'[c] = "running"
            BY <2>2, <2>3 DEF verdicts, Running
        <3>2. ASSUME NEW d \in Cleaners, d # c PROVE verdicts'[d] = verdicts[d]
            BY <2>2, <2>3, <3>2 DEF verdicts
        <3> QED
            BY <3>1, <3>2 DEF verdicts
    <2> QED
        BY <2>2, <2>4, <2>6, <2>7 DEF Custody!Begin
<1>5. ASSUME NEW c \in Cleaners, Local(c)
      PROVE  Custody!EndCleaned(c) \/ UNCHANGED Custody!vars
    <2>1. CASE Finish(c)
        <3>1. /\ stage[c] \in Running /\ call' = call /\ cert' = cert
              /\ stage' = [stage EXCEPT ![c] = "done"]
              /\ \A d \in Cleaners : d # c => outcome'[d] = outcome[d]
            BY <1>1, <2>1 DEF Finish, TypeOK, Running
        <3>2. outcome'[c].status = "cleaned"
            <4>1. outcome[c] \in OutcomeType
                BY <1>1 DEF TypeOK
            <4>2. outcome'[c] = [outcome[c] EXCEPT !.status = "cleaned"]
                BY <1>1, <2>1 DEF Finish, TypeOK
            <4> QED
                BY <4>1, <4>2 DEF OutcomeType
        <3>3. names[c] \cap Live = {}
            BY <2>1, ExplicitGone DEF Finish, ExplicitBeforeList, names
        <3> QED
            BY <1>1, <3>1, <3>2, <3>3, Shown, VerdictRunning
            DEF Custody!EndCleaned, Custody!End, Custody!Live, Live, Running, Stages
    <2>2. CASE TakeExplicit(c) \/ StartList(c) \/ \E id \in Ids : TakeListed(c, id)
        <3>1. /\ stage[c] \in Running /\ call' = call /\ cert' = cert /\ outcome' = outcome
              /\ \E s \in Running : stage' = [stage EXCEPT ![c] = s]
            BY <2>2 DEF TakeExplicit, StartList, TakeListed, Running
        <3> QED
            BY <1>1, <3>1, Quiet
    <2> QED
        BY <1>5, <2>1, <2>2 DEF Local
<1>6. ASSUME NEW c \in Cleaners, Answered(c)
      PROVE  Custody!Reclaim(c) \/ Custody!EndPending(c) \/ UNCHANGED Custody!vars
    <2>1. CASE GetMissing(c) \/ GetOwned(c) \/ ListMore(c) \/ ListLast(c)
        <3>1. /\ stage[c] \in Running /\ call' = call /\ cert' = cert /\ outcome' = outcome
              /\ \E s \in Running : stage' = [stage EXCEPT ![c] = s]
            BY <1>1, <2>1 DEF GetMissing, GetOwned, ListMore, ListLast, Reconciled, store,
                Running, TypeOK
        <3> QED
            BY <1>1, <3>1, Quiet
    <2>2. CASE GetForeign(c) \/ ListTooMany(c)
        BY <2>2, PendingShown DEF GetForeign, ListTooMany, store, Running
    <2>3. CASE Delete(c)
        <3>1. /\ stage[c] \in Running /\ call' = call /\ outcome' = outcome
              /\ \E s \in Running : stage' = [stage EXCEPT ![c] = s]
            BY <2>3 DEF Delete, Reconciled, Running
        <3>2. claims' = claims /\ names' = names /\ verdicts' = verdicts
            BY <1>1, <3>1, Quiet
        <3>3. Custody!Reclaims(c)
            BY <2>3, ReclaimsTarget DEF Delete
        <3> QED
            BY <3>1, <3>2, <3>3, VerdictRunning DEF Custody!Reclaim
    <2> QED
        BY <1>6, <2>1, <2>2, <2>3 DEF Answered
<1>7. ASSUME NEW c \in Cleaners, Failed(c) PROVE Custody!EndPending(c)
    <2>1. CASE DeleteFails(c)
        BY <2>1, PendingShown, ReclaimsTarget DEF DeleteFails, Running
    <2>2. CASE ClientFails(c) \/ GetFails(c) \/ ListFails(c)
        BY <2>2, PendingShown DEF ClientFails, GetFails, ListFails, store, Running
    <2> QED
        BY <1>7, <2>1, <2>2 DEF Failed
<1>8. ASSUME NEW c \in Cleaners, Crash(c) PROVE Custody!Lose(c)
    <2>1. /\ stage[c] \in Running /\ call' = call /\ cert' = cert /\ outcome' = outcome
          /\ stage' = [stage EXCEPT ![c] = "crashed"]
        BY <1>8 DEF Crash
    <2>2. claims' = claims /\ names' = names /\ verdicts' = [verdicts EXCEPT ![c] = "lost"]
        BY <1>1, <2>1, Shown DEF Running, Stages
    <2> QED
        BY <2>1, <2>2, VerdictRunning DEF Custody!Lose, Custody!End
<1>9. CASE UNCHANGED vars
    BY <1>2, <1>9 DEF vars
<1> QED
    BY <1>3, <1>4, <1>5, <1>6, <1>7, <1>8, <1>9 DEF Next, Request, Custody!Next

\* For any number of calls racing over one group: a call deletes only what is in
\* its scope, and says "cleaned" only when what it was given is gone.
THEOREM Refinement == Spec => CustodySpec
<1> QED
    BY InitShown, StepShown, Invariance, PTL DEF Spec, CustodySpec, Custody!Spec
-----------------------------------------------------------------------------
(***************************************************************************)
(* MissedOnlyByShift.  A listing by offset reads an entry twice or not at  *)
(* all when the entries before it move.  They move towards the front only  *)
(* when an entry leaves the listing, so the invariant of a call that lists *)
(* is: every entry in front of its offset was read (Scanned), or one that  *)
(* was read has left since (Shifted).  Entries leave for good (Seen), and  *)
(* none appears twice (Distinct).                                          *)
(***************************************************************************)
Distinct == \A i, j \in 1..Len(index) : index[i] = index[j] => i = j
Listable == \A i \in 1..Len(index) : cert[index[i]] # "unissued"
Unread(c) ==
    /\ stage[c] = "metadata-list" => ~progress[c].listed
    /\ ~progress[c].listed /\ stage[c] \in {"idle", "reconcile", "metadata-get", "delete"} =>
           progress[c].found = {} /\ progress[c].offset = 0
DueListed(c) ==
    \A id \in call[c].due :
        /\ cert[id] # "unissued" /\ InScope(call[c], id)
        /\ cert[id] = "live" => id \in Indexed
Seen(c) ==
    \A id \in progress[c].found : cert[id] # "unissued" /\ (id \notin Indexed => cert[id] = "deleted")
Shifted(c) == progress[c].offset > 0 /\ progress[c].found \ Indexed # {}
Scanned(c) ==
    stage[c] = "metadata-list" =>
        \/ Shifted(c)
        \/ /\ progress[c].offset <= Len(index)
           /\ \A i \in 1..Len(index) : i <= progress[c].offset => index[i] \in progress[c].found
Sorted(c) ==
    progress[c].listed =>
        Shifted(c) \/ \A id \in call[c].due : cert[id] = "live" => id \in progress[c].todo
Swept(c) == outcome[c].status = "cleaned" => progress[c].listed /\ progress[c].todo = {}

ScanInv(c) ==
    Unread(c) /\ DueListed(c) /\ Seen(c) /\ Scanned(c) /\ Sorted(c) /\ Swept(c)
ListingInv == Inv /\ Distinct /\ Listable /\ \A c \in Cleaners : ScanInv(c)

\* The listing changes only when it catches up with an issue or a deletion, and
\* then nothing else does.
LEMMA ListingSteps ==
    ASSUME [Next]_vars
    PROVE  \/ index' = index
           \/ /\ UNCHANGED <<cert, stage, call, progress, outcome>>
              /\ \/ \E id \in Ids : Publish(id)
                 \/ \E i \in 1..Len(index) : Unpublish(i)
<1>1. CASE Group
    BY <1>1 DEF Group, Issue, Publish, Unpublish
<1>2. ASSUME NEW c \in Cleaners, AuthCleanup(c) \/ Crash(c) PROVE index' = index
    BY <1>2 DEF AuthCleanup, Call, Crash
<1>3. ASSUME NEW c \in Cleaners, Local(c) PROVE index' = index
    BY <1>3 DEF Local, TakeExplicit, StartList, Finish, TakeListed
<1>4. ASSUME NEW c \in Cleaners, Answered(c) PROVE index' = index
    BY <1>4 DEF Answered, GetMissing, GetOwned, GetForeign, Delete, ListMore, ListLast,
        ListTooMany, store
<1>5. ASSUME NEW c \in Cleaners, Failed(c) PROVE index' = index
    BY <1>5 DEF Failed, ClientFails, GetFails, DeleteFails, ListFails, store
<1>6. CASE UNCHANGED vars
    BY <1>6 DEF vars
<1> QED
    BY <1>1, <1>2, <1>3, <1>4, <1>5, <1>6 DEF Next, Request

\* The listing after a publication and after the removal of an entry.
LEMMA Published ==
    ASSUME TypeOK, NEW id \in Ids, Publish(id)
    PROVE  /\ Len(index') = Len(index) + 1 /\ index'[Len(index) + 1] = id
           /\ \A i \in 1..Len(index) : index'[i] = index[i]
           /\ Indexed' = Indexed \cup {id}
<1>1. index \in Seq(Ids) /\ index' = Append(index, id)
    BY DEF TypeOK, Publish
<1>2. /\ Len(index') = Len(index) + 1 /\ index'[Len(index) + 1] = id
      /\ \A i \in 1..Len(index) : index'[i] = index[i]
    BY <1>1
<1>3. Len(index) \in Nat
    BY <1>1
<1> QED
    BY <1>2, <1>3 DEF Indexed

LEMMA Dropped ==
    ASSUME TypeOK, Distinct, NEW i \in 1..Len(index), Unpublish(i)
    PROVE  /\ Len(index') = Len(index) - 1 /\ Len(index) \in Nat
           /\ \A j \in 1..Len(index') : index'[j] = IF j < i THEN index[j] ELSE index[j + 1]
           /\ Indexed' = Indexed \ {index[i]}
           /\ cert[index[i]] # "live" /\ index[i] \in Indexed
<1>1. index \in Seq(Ids) /\ Len(index) \in Nat
    BY DEF TypeOK
<1>2. index' = [j \in 1..(Len(index) - 1) |-> IF j < i THEN index[j] ELSE index[j + 1]]
    BY DEF Unpublish
<1>3. Len(index') = Len(index) - 1
    BY <1>1, <1>2
<1>4. \A j \in 1..Len(index') : index'[j] = IF j < i THEN index[j] ELSE index[j + 1]
    BY <1>2, <1>3
<1>5. Indexed' \subseteq Indexed \ {index[i]}
    <2> SUFFICES ASSUME NEW j \in 1..Len(index')
                 PROVE  index'[j] \in Indexed /\ index'[j] # index[i]
        BY DEF Indexed
    <2>1. CASE j < i
        BY <1>1, <1>3, <1>4, <2>1 DEF Indexed, Distinct
    <2>2. CASE j >= i
        <3>1. j + 1 \in 1..Len(index) /\ j + 1 # i /\ index'[j] = index[j + 1]
            BY <1>1, <1>3, <1>4, <2>2
        <3> QED
            BY <3>1 DEF Indexed, Distinct
    <2> QED
        BY <1>1, <2>1, <2>2
<1>6. Indexed \ {index[i]} \subseteq Indexed'
    <2> SUFFICES ASSUME NEW j \in 1..Len(index), index[j] # index[i]
                 PROVE  \E k \in 1..Len(index') : index'[k] = index[j]
        BY DEF Indexed
    <2>1. CASE j < i
        <3>1. j \in 1..Len(index') /\ index'[j] = index[j]
            BY <1>1, <1>3, <1>4, <2>1
        <3> QED
            BY <3>1
    <2>2. CASE j > i
        <3>1. (j - 1) \in 1..Len(index') /\ index'[j - 1] = index[j]
            BY <1>1, <1>3, <1>4, <2>2
        <3> QED
            BY <3>1
    <2> QED
        BY <1>1, <2>1, <2>2
<1>7. cert[index[i]] # "live" /\ index[i] \in Indexed
    <2>1. index[i] \in Ids
        BY <1>1
    <2> QED
        BY <2>1 DEF Unpublish, Live, Indexed
<1>8. Indexed' = Indexed \ {index[i]}
    BY <1>5, <1>6
<1> QED
    BY <1>1, <1>3, <1>4, <1>7, <1>8

\* Once an entry was missed it stays missed.
LEMMA ShiftedStays ==
    ASSUME ListingInv, NEW c \in Cleaners, Aged, Indexed' \subseteq Indexed \cup Live,
           progress[c].found \subseteq progress'[c].found,
           progress'[c].offset \in Nat, progress'[c].offset >= progress[c].offset, Shifted(c)
    PROVE  Shifted(c)'
<1>1. PICK id \in progress[c].found : id \notin Indexed
    BY DEF Shifted
<1>2. cert[id] = "deleted"
    BY <1>1 DEF ListingInv, ScanInv, Seen
<1>3. id \notin Indexed'
    BY <1>1, <1>2 DEF Live
<1>4. progress[c].offset \in Nat
    BY DEF ListingInv, Inv, TypeOK, ProgressType
<1> QED
    BY <1>1, <1>3, <1>4 DEF Shifted

\* A call that does nothing, and a listing that does not change.
LEMMA ScanSame ==
    ASSUME ListingInv, Aged, NEW c \in Cleaners, Same(c), index' = index, TypeOK'
    PROVE  ScanInv(c)'
<1>1. /\ Unread(c) /\ DueListed(c) /\ Seen(c) /\ Scanned(c) /\ Sorted(c) /\ Swept(c)
      /\ call[c] \in ArgsType /\ progress[c] \in ProgressType
    BY DEF ListingInv, ScanInv, Inv, TypeOK
<1>2. Indexed' = Indexed
    BY DEF Indexed
<1>3. \A id \in Ids : cert[id] # "unissued" /\ cert'[id] = "live" => cert[id] = "live"
    BY DEF Aged, ListingInv, Inv, TypeOK
<1>4. Shifted(c)' <=> Shifted(c)
    BY <1>2 DEF Shifted, Same
<1>5. call[c].due \subseteq Ids /\ progress[c].found \subseteq Ids
    BY <1>1 DEF ArgsType, ProgressType
<1>6. Unread(c)' /\ Swept(c)'
    BY <1>1 DEF Unread, Swept, Same
<1>7. DueListed(c)' /\ Seen(c)'
    BY <1>1, <1>2, <1>3, <1>5 DEF DueListed, Seen, Same, Aged, InScope
<1>8. Scanned(c)'
    BY <1>1, <1>4 DEF Scanned, Same
<1>9. Sorted(c)'
    <2> SUFFICES ASSUME progress'[c].listed, ~Shifted(c)', NEW id \in call'[c].due, cert'[id] = "live"
                 PROVE  id \in progress'[c].todo
        BY DEF Sorted
    <2>1. id \in call[c].due /\ progress[c].listed /\ ~Shifted(c)
        BY <1>4 DEF Same
    <2>2. cert[id] = "live"
        BY <1>1, <1>3, <1>5, <2>1 DEF DueListed
    <2> QED
        BY <1>1, <2>1, <2>2 DEF Sorted, Same
<1> QED
    BY <1>6, <1>7, <1>8, <1>9 DEF ScanInv

\* A publication puts an entry behind every offset.
LEMMA ScanPublish ==
    ASSUME ListingInv, NEW id \in Ids, Publish(id), NEW c \in Cleaners
    PROVE  ScanInv(c)'
<1>1. /\ Unread(c) /\ DueListed(c) /\ Seen(c) /\ Scanned(c) /\ Sorted(c) /\ Swept(c)
      /\ TypeOK /\ progress[c] \in ProgressType
    BY DEF ListingInv, ScanInv, Inv, TypeOK
<1>2. /\ Len(index') = Len(index) + 1 /\ index'[Len(index) + 1] = id
      /\ \A i \in 1..Len(index) : index'[i] = index[i]
      /\ Indexed' = Indexed \cup {id} /\ id \in Live /\ Len(index) \in Nat
    BY <1>1, Published DEF Publish, TypeOK
<1>3. UNCHANGED <<cert, stage, call, progress, outcome>>
    BY DEF Publish
<1>4. Shifted(c) => Shifted(c)'
    <2>1. progress[c].offset \in Nat
        BY <1>1 DEF ProgressType
    <2>2. Aged
        BY <1>3 DEF Aged
    <2> QED
        BY <1>2, <1>3, <2>1, <2>2, ShiftedStays
<1>5. Unread(c)' /\ Swept(c)'
    BY <1>1, <1>3 DEF Unread, Swept
<1>6. DueListed(c)' /\ Seen(c)' /\ Sorted(c)'
    BY <1>1, <1>2, <1>3, <1>4 DEF DueListed, Seen, Sorted, InScope
<1>7. Scanned(c)'
    <2> SUFFICES ASSUME stage[c] = "metadata-list", ~Shifted(c)
                 PROVE  /\ progress[c].offset <= Len(index')
                        /\ \A i \in 1..Len(index') :
                               i <= progress[c].offset => index'[i] \in progress[c].found
        BY <1>3, <1>4 DEF Scanned
    <2>1. /\ progress[c].offset <= Len(index) /\ progress[c].offset \in Nat
          /\ \A i \in 1..Len(index) : i <= progress[c].offset => index[i] \in progress[c].found
        BY <1>1 DEF Scanned, ProgressType
    <2>2. \A i \in 1..Len(index') : i <= progress[c].offset => i \in 1..Len(index)
        BY <1>2, <2>1
    <2> QED
        BY <1>2, <2>1, <2>2
<1> QED
    BY <1>5, <1>6, <1>7 DEF ScanInv

\* A removal in front of the offset shifts; one behind it does not matter.
LEMMA ScanUnpublish ==
    ASSUME ListingInv, NEW i \in 1..Len(index), Unpublish(i), NEW c \in Cleaners
    PROVE  ScanInv(c)'
<1>1. /\ Unread(c) /\ DueListed(c) /\ Seen(c) /\ Scanned(c) /\ Sorted(c) /\ Swept(c)
      /\ TypeOK /\ Distinct /\ Listable /\ progress[c] \in ProgressType
    BY DEF ListingInv, ScanInv, Inv, TypeOK
<1>2. /\ Len(index') = Len(index) - 1 /\ Len(index) \in Nat
      /\ \A j \in 1..Len(index') : index'[j] = IF j < i THEN index[j] ELSE index[j + 1]
      /\ Indexed' = Indexed \ {index[i]}
      /\ cert[index[i]] # "live" /\ index[i] \in Indexed
    BY <1>1, Dropped
<1>3. UNCHANGED <<cert, stage, call, progress, outcome>>
    BY DEF Unpublish
<1>4. Shifted(c) => Shifted(c)'
    BY <1>2, <1>3 DEF Shifted
<1>5. Unread(c)' /\ Swept(c)' /\ Sorted(c)'
    BY <1>1, <1>3, <1>4 DEF Unread, Swept, Sorted
<1>6. cert[index[i]] = "deleted"
    <2>1. index[i] \in Ids /\ cert[index[i]] # "unissued"
        BY <1>1 DEF TypeOK, Listable
    <2> QED
        BY <1>1, <1>2, <2>1 DEF TypeOK
<1>7. DueListed(c)' /\ Seen(c)'
    BY <1>1, <1>2, <1>3, <1>6 DEF DueListed, Seen, InScope
<1>8. Scanned(c)'
    <2> SUFFICES ASSUME stage[c] = "metadata-list", ~Shifted(c)'
                 PROVE  /\ progress[c].offset <= Len(index')
                        /\ \A j \in 1..Len(index') :
                               j <= progress[c].offset => index'[j] \in progress[c].found
        BY <1>3 DEF Scanned
    <2>1. /\ progress[c].offset <= Len(index) /\ progress[c].offset \in Nat
          /\ \A j \in 1..Len(index) : j <= progress[c].offset => index[j] \in progress[c].found
        BY <1>1, <1>4 DEF Scanned, ProgressType
    <2>2. i > progress[c].offset
        <3> SUFFICES ASSUME i <= progress[c].offset PROVE FALSE
            BY <2>1
        <3>1. index[i] \in progress[c].found /\ progress[c].offset > 0
            BY <2>1
        <3> QED
            BY <1>2, <1>3, <3>1 DEF Shifted
    <2>3. \A j \in 1..Len(index') : j <= progress[c].offset => j < i /\ j \in 1..Len(index)
        BY <1>2, <2>1, <2>2
    <2> QED
        BY <1>2, <2>1, <2>2, <2>3
<1> QED
    BY <1>5, <1>7, <1>8 DEF ScanInv

\* A step of a call that reads no page.
LEMMA ScanQuiet ==
    ASSUME ListingInv, TypeOK', Aged, NEW c \in Cleaners, index' = index, call'[c] = call[c],
           progress'[c].found = progress[c].found, progress'[c].offset = progress[c].offset,
           progress'[c].listed = progress[c].listed,
           \A id \in Ids : id \in progress[c].todo /\ cert'[id] = "live" => id \in progress'[c].todo,
           stage'[c] \in {"done", "crashed"} \/ stage[c] \in {"reconcile", "metadata-get", "delete"},
           stage'[c] = "metadata-list" => ~progress'[c].listed, Scanned(c)', Swept(c)'
    PROVE  ScanInv(c)'
<1>1. /\ Unread(c) /\ DueListed(c) /\ Seen(c) /\ Sorted(c)
      /\ call[c] \in ArgsType /\ progress[c] \in ProgressType /\ stage[c] \in Stages
    BY DEF ListingInv, ScanInv, Inv, TypeOK
<1>2. Indexed' = Indexed
    BY DEF Indexed
<1>3. \A id \in Ids : cert[id] # "unissued" /\ cert'[id] = "live" => cert[id] = "live"
    BY DEF Aged, ListingInv, Inv, TypeOK
<1>4. Shifted(c)' <=> Shifted(c)
    BY <1>2 DEF Shifted
<1>5. call[c].due \subseteq Ids /\ progress[c].found \subseteq Ids
    BY <1>1 DEF ArgsType, ProgressType
<1>6. Unread(c)'
    BY <1>1 DEF Unread, Stages
<1>7. DueListed(c)' /\ Seen(c)'
    BY <1>1, <1>2, <1>3, <1>5 DEF DueListed, Seen, Aged, InScope
<1>8. Sorted(c)'
    <2> SUFFICES ASSUME progress'[c].listed, ~Shifted(c)', NEW id \in call[c].due, cert'[id] = "live"
                 PROVE  id \in progress'[c].todo
        BY DEF Sorted
    <2>1. cert[id] = "live"
        BY <1>1, <1>3, <1>5 DEF DueListed
    <2> QED
        BY <1>1, <1>4, <1>5, <2>1 DEF Sorted
<1> QED
    BY <1>6, <1>7, <1>8 DEF ScanInv

\* A call that begins has read nothing, and what it is due is listed.
LEMMA ScanBegin ==
    ASSUME ListingInv, NEW c \in Cleaners, AuthCleanup(c)
    PROVE  ScanInv(c)'
<1>1. PICK args \in Calls : Call(c, args)
    BY DEF AuthCleanup
<1>2. /\ TypeOK /\ stage[c] = "idle" /\ progress[c] = NoProgress /\ outcome[c] = NoOutcome
    BY <1>1 DEF ListingInv, Inv, CallInv, Unstarted, Unreported, Call
<1>3. /\ stage'[c] = "reconcile" /\ progress'[c] = NoProgress /\ outcome'[c] = NoOutcome
      /\ call'[c] = [allocation |-> args.allocation, attempt |-> args.attempt,
                     explicit |-> args.explicit,
                     due |-> {id \in Indexed \cap Live : InScope(args, id)}]
      /\ cert' = cert /\ Indexed' = Indexed
    BY <1>1, <1>2 DEF Call, TypeOK, Indexed
<1>4. /\ NoProgress.found = {} /\ NoProgress.offset = 0 /\ ~NoProgress.listed
      /\ NoOutcome.status # "cleaned"
    BY DEF NoProgress, NoOutcome
<1>5. DueListed(c)'
    BY <1>3 DEF DueListed, InScope, Live
<1> QED
    BY <1>3, <1>4, <1>5 DEF ScanInv, Unread, Seen, Scanned, Sorted, Swept

\* What a call has read after one more page, if no entry was missed.
LEMMA PageRead ==
    ASSUME ListingInv, NEW c \in Cleaners, stage[c] = "metadata-list", ~Shifted(c)
    PROVE  \A i \in 1..Len(index) :
               i <= progress[c].offset + PageSize =>
                   index[i] \in progress[c].found \cup Page(progress[c].offset)
<1>1. \A i \in 1..Len(index) : i <= progress[c].offset => index[i] \in progress[c].found
    BY DEF ListingInv, ScanInv, Scanned
<1>2. progress[c].offset \in Nat /\ PageSize \in Nat
    BY ConstantsAssumption DEF ListingInv, Inv, TypeOK, ProgressType
<1> QED
    BY <1>1, <1>2 DEF Page

\* ... which are certificates that were issued.
LEMMA PageSeen ==
    ASSUME ListingInv, NEW c \in Cleaners, NEW id \in progress[c].found \cup Page(progress[c].offset)
    PROVE  id \in Ids /\ cert[id] # "unissued" /\ (id \notin Indexed => cert[id] = "deleted")
<1>1. CASE id \in progress[c].found
    BY <1>1 DEF ListingInv, ScanInv, Seen, Inv, TypeOK, ProgressType
<1>2. CASE id \in Page(progress[c].offset)
    <2>1. PICK i \in 1..Len(index) : id = index[i]
        BY <1>2 DEF Page
    <2> QED
        BY <2>1 DEF ListingInv, Listable, Inv, TypeOK, Indexed
<1> QED
    BY <1>1, <1>2

LEMMA ScanMore ==
    ASSUME ListingInv, TypeOK', Aged, NEW c \in Cleaners, ListMore(c)
    PROVE  ScanInv(c)'
<1> DEFINE found == progress[c].found \cup Page(progress[c].offset)
<1>1. /\ DueListed(c) /\ Swept(c) /\ TypeOK /\ progress[c] \in ProgressType
      /\ outcome[c] = NoOutcome /\ stage[c] = "metadata-list"
    BY DEF ListingInv, ScanInv, Inv, TypeOK, CallInv, Unreported, ListMore
<1>2. /\ progress'[c].found = found /\ progress'[c].offset = progress[c].offset + PageSize
      /\ progress'[c].listed = progress[c].listed
    <2>1. progress' = [progress EXCEPT ![c] =
                          [progress[c] EXCEPT !.found = found, !.offset = progress[c].offset + PageSize]]
        BY <1>1 DEF ListMore, TypeOK
    <2> HIDE DEF found
    <2> QED
        BY <1>1, <2>1 DEF TypeOK, ProgressType
<1>3. UNCHANGED <<cert, index, stage, call, outcome>> /\ Indexed' = Indexed
    BY DEF ListMore, Indexed
<1>4. progress[c].offset \in Nat /\ PageSize \in Nat \ {0} /\ Len(index) \in Nat
    BY <1>1, ConstantsAssumption DEF ProgressType, TypeOK
<1>5. Shifted(c) => Shifted(c)'
    <2>1. progress[c].found \subseteq progress'[c].found
        BY <1>2
    <2> QED
        BY <1>2, <1>3, <1>4, <2>1, ShiftedStays
<1>6. progress[c].offset + PageSize <= Len(index)
    BY <1>4 DEF ListMore, LastPage
<1>7. Scanned(c)'
    BY <1>1, <1>2, <1>3, <1>5, <1>6, PageRead DEF Scanned
<1>8. Seen(c)'
    BY <1>2, <1>3, PageSeen DEF Seen
<1>9. NoOutcome.status # "cleaned"
    BY DEF NoOutcome
<1>10. ~progress[c].listed
    BY <1>1 DEF ListingInv, ScanInv, Unread
<1> QED
    BY <1>1, <1>2, <1>3, <1>7, <1>8, <1>9, <1>10 DEF ScanInv, Unread, DueListed, Sorted, Swept, InScope

\* The last page: what the group still lists was read, unless an entry was missed.
LEMMA ScanLast ==
    ASSUME ListingInv, TypeOK', Aged, NEW c \in Cleaners, ListLast(c)
    PROVE  ScanInv(c)'
<1> DEFINE found == progress[c].found \cup Page(progress[c].offset)
<1>1. /\ DueListed(c) /\ TypeOK /\ progress[c] \in ProgressType /\ call[c] \in ArgsType
      /\ outcome[c] = NoOutcome /\ stage[c] = "metadata-list"
    BY DEF ListingInv, ScanInv, Inv, TypeOK, CallInv, Unreported, ListLast
<1>2. /\ progress'[c].found = found /\ progress'[c].offset = progress[c].offset
      /\ progress'[c].listed /\ progress'[c].todo = {id \in found : InScope(call[c], id)}
    <2> DEFINE todo == {id \in found : InScope(call[c], id)}
    <2>1. progress' = [progress EXCEPT ![c] =
                          [progress[c] EXCEPT !.found = found, !.listed = TRUE, !.todo = todo]]
        BY <1>1 DEF ListLast, TypeOK
    <2> HIDE DEF found, todo
    <2>2. progress'[c].todo = todo /\ progress'[c].found = found
          /\ progress'[c].offset = progress[c].offset /\ progress'[c].listed
        BY <1>1, <2>1 DEF TypeOK, ProgressType
    <2> QED
        BY <2>2 DEF todo
<1>3. /\ UNCHANGED <<cert, index, call, outcome>> /\ Indexed' = Indexed
      /\ stage'[c] = "reconcile"
    BY <1>1 DEF ListLast, Indexed, TypeOK
<1>4. progress[c].offset \in Nat /\ PageSize \in Nat /\ Len(index) \in Nat
    BY <1>1, ConstantsAssumption DEF ProgressType, TypeOK
<1>5. Shifted(c) => Shifted(c)'
    <2>1. progress[c].found \subseteq progress'[c].found
        BY <1>2
    <2> QED
        BY <1>2, <1>3, <1>4, <2>1, ShiftedStays
<1>6. Sorted(c)'
    <2> SUFFICES ASSUME ~Shifted(c), NEW id \in call[c].due, cert[id] = "live"
                 PROVE  id \in progress'[c].todo
        BY <1>3, <1>5 DEF Sorted
    <2>1. PICK i \in 1..Len(index) : index[i] = id
        BY <1>1 DEF DueListed, Indexed
    <2>2. i <= progress[c].offset + PageSize
        BY <1>4 DEF ListLast, LastPage
    <2>3. id \in found
        BY <1>1, <2>1, <2>2, PageRead
    <2>4. InScope(call[c], id)
        BY <1>1 DEF DueListed
    <2> QED
        BY <1>2, <2>3, <2>4
<1>7. Seen(c)'
    BY <1>2, <1>3, PageSeen DEF Seen
<1>8. NoOutcome.status # "cleaned"
    BY DEF NoOutcome
<1> QED
    BY <1>1, <1>2, <1>3, <1>6, <1>7, <1>8 DEF ScanInv, Unread, DueListed, Scanned, Swept, InScope

\* What the steps of a call that read no page leave alone: what was read, and
\* what is still to be done of it as long as it lives.
QuietStep(c) ==
    /\ index' = index /\ call' = call
    /\ progress'[c].found = progress[c].found /\ progress'[c].offset = progress[c].offset
    /\ progress'[c].listed = progress[c].listed
    /\ \A id \in Ids : id \in progress[c].todo /\ cert'[id] = "live" => id \in progress'[c].todo
    /\ stage'[c] \in {"done", "crashed"} \/ stage[c] \in {"reconcile", "metadata-get", "delete"}
    /\ stage'[c] = "metadata-list" => stage[c] = "reconcile" /\ ~progress[c].listed
    /\ outcome'[c].status = "cleaned" => progress[c].listed /\ progress'[c].todo = {}

LEMMA QuietSteps ==
    ASSUME TypeOK, NEW c \in Cleaners, CallInv(c), Request(c) \/ Crash(c),
           ~ListMore(c), ~ListLast(c)
    PROVE  QuietStep(c)
<1>1. progress[c] \in ProgressType /\ outcome[c] \in OutcomeType
    BY DEF TypeOK
<1>2. stage[c] # "done" => outcome[c].status # "cleaned"
    BY NoOutcomeFields DEF CallInv, Unreported
<1>3. CASE Crash(c)
    BY <1>1, <1>2, <1>3 DEF Crash, Running, QuietStep, TypeOK
<1>4. CASE StartList(c)
    BY <1>1, <1>2, <1>4 DEF StartList, QuietStep, TypeOK
<1>5. CASE GetOwned(c)
    BY <1>1, <1>2, <1>5 DEF GetOwned, QuietStep, TypeOK
<1>6. CASE Finish(c)
    <2>1. /\ stage[c] = "reconcile" /\ stage'[c] = "done" /\ progress' = progress
          /\ index' = index /\ call' = call /\ progress[c].listed /\ progress[c].todo = {}
        BY <1>6 DEF Finish, TypeOK
    <2> QED
        BY <2>1 DEF QuietStep
<1>7. ASSUME NEW target, progress' = [progress EXCEPT ![c] = [progress[c] EXCEPT !.target = target]],
             stage[c] = "reconcile", stage'[c] = "metadata-get", UNCHANGED <<cert, index, call, outcome>>
      PROVE  QuietStep(c)
    <2>1. /\ progress'[c].found = progress[c].found /\ progress'[c].offset = progress[c].offset
          /\ progress'[c].listed = progress[c].listed /\ progress'[c].todo = progress[c].todo
        BY <1>1, <1>7 DEF TypeOK, ProgressType
    <2> QED
        BY <1>2, <1>7, <2>1 DEF QuietStep
<1>8. CASE TakeExplicit(c)
    BY <1>7, <1>8 DEF TakeExplicit, TypeOK
<1>9. ASSUME NEW id \in Ids, TakeListed(c, id) PROVE QuietStep(c)
    BY <1>7, <1>9 DEF TakeListed, TypeOK
<1>10. CASE GetMissing(c) \/ Delete(c)
    <2>1. /\ stage[c] \in {"metadata-get", "delete"} /\ stage'[c] = "reconcile"
          /\ index' = index /\ call' = call /\ outcome' = outcome
        BY <1>10 DEF GetMissing, Delete, Reconciled, TypeOK, store
    <2>2. /\ progress'[c].found = progress[c].found /\ progress'[c].offset = progress[c].offset
          /\ progress'[c].listed = progress[c].listed
          /\ progress'[c].todo = progress[c].todo \ {progress[c].target}
        BY <1>1, <1>10 DEF GetMissing, Delete, Reconciled, TypeOK, ProgressType
    <2>3. progress[c].target \in Ids
        BY <2>1 DEF CallInv, Target
    <2>4. cert'[progress[c].target] # "live"
        BY <1>10, <2>3 DEF GetMissing, Delete, Gone, Live, TypeOK, store
    <2>5. stage[c] # "done"
        BY <2>1
    <2> QED
        BY <1>2, <2>1, <2>2, <2>4, <2>5 DEF QuietStep
<1>11. ASSUME NEW reason, NEW certificate, EndPending(c, reason, certificate), index' = index
       PROVE  QuietStep(c)
    <2>1. stage'[c] = "done" /\ progress' = progress /\ call' = call
        BY <1>11 DEF EndPending, TypeOK
    <2>2. outcome'[c] = [status |-> "pending", reason |-> reason, certificate |-> certificate]
        BY <1>11 DEF EndPending, TypeOK
    <2> QED
        BY <1>11, <2>1, <2>2 DEF QuietStep
<1>12. CASE GetForeign(c) \/ ListTooMany(c)
    BY <1>11, <1>12 DEF GetForeign, ListTooMany, store
<1>13. CASE Failed(c)
    BY <1>11, <1>13 DEF Failed, ClientFails, GetFails, DeleteFails, ListFails, store
<1> QED
    BY <1>3, <1>4, <1>5, <1>6, <1>8, <1>9, <1>10, <1>12, <1>13 DEF Request, Local, Answered

\* One step of one call keeps what is known of its listing.
LEMMA ScanOwn ==
    ASSUME ListingInv, TypeOK', Aged, NEW c \in Cleaners, AuthCleanup(c) \/ Request(c) \/ Crash(c)
    PROVE  ScanInv(c)'
<1>1. CASE AuthCleanup(c)
    BY <1>1, ScanBegin
<1>2. CASE ListMore(c)
    BY <1>2, ScanMore
<1>3. CASE ListLast(c)
    BY <1>3, ScanLast
<1>4. CASE (Request(c) \/ Crash(c)) /\ ~ListMore(c) /\ ~ListLast(c)
    <2>1. QuietStep(c)
        BY <1>4, QuietSteps DEF ListingInv, Inv
    <2>2. Scanned(c)'
        <3>1. stage'[c] = "metadata-list" => progress'[c].offset = 0
            BY <2>1 DEF QuietStep, ListingInv, ScanInv, Unread
        <3>2. Len(index') \in Nat
            BY DEF TypeOK
        <3> QED
            BY <3>1, <3>2 DEF Scanned
    <2>3. Swept(c)' /\ (stage'[c] = "metadata-list" => ~progress'[c].listed)
        BY <2>1 DEF Swept, QuietStep
    <2> QED
        BY <2>1, <2>2, <2>3, ScanQuiet DEF QuietStep
<1> QED
    BY <1>1, <1>2, <1>3, <1>4

\* No entry appears twice in the listing, and only what was issued appears.
LEMMA NextListing ==
    ASSUME ListingInv, [Next]_vars
    PROVE  Distinct' /\ Listable'
<1>1. TypeOK /\ Distinct /\ Listable /\ Aged /\ Len(index) \in Nat
      /\ \A i \in 1..Len(index) : index[i] \in Ids
    BY AllAge DEF ListingInv, Inv, TypeOK
<1>2. CASE index' = index
    BY <1>1, <1>2 DEF Distinct, Listable, Aged
<1>3. ASSUME NEW id \in Ids, Publish(id) PROVE Distinct' /\ Listable'
    <2>1. /\ Len(index') = Len(index) + 1 /\ index'[Len(index) + 1] = id
          /\ \A i \in 1..Len(index) : index'[i] = index[i]
        BY <1>1, <1>3, Published
    <2>2. /\ cert' = cert /\ cert[id] = "live"
          /\ \A i \in 1..Len(index) : index[i] # id
        BY <1>3 DEF Publish, Live, Indexed
    <2>3. \A i \in 1..Len(index') : i \in 1..Len(index) \/ i = Len(index) + 1
        BY <1>1, <2>1
    <2>4. Listable'
        BY <1>1, <2>1, <2>2, <2>3 DEF Listable
    <2>5. Distinct'
        BY <1>1, <2>1, <2>2, <2>3 DEF Distinct
    <2> QED
        BY <2>4, <2>5
<1>4. ASSUME NEW i \in 1..Len(index), Unpublish(i) PROVE Distinct' /\ Listable'
    <2>1. /\ Len(index') = Len(index) - 1
          /\ \A j \in 1..Len(index') : index'[j] = IF j < i THEN index[j] ELSE index[j + 1]
        BY <1>1, <1>4, Dropped
    <2>2. cert' = cert
        BY <1>4 DEF Unpublish
    <2> DEFINE old(j) == IF j < i THEN j ELSE j + 1
    <2>3. \A j \in 1..Len(index') : old(j) \in 1..Len(index) /\ index'[j] = index[old(j)]
        BY <1>1, <2>1
    <2>4. \A j, k \in 1..Len(index') : old(j) = old(k) => j = k
        BY <1>1, <2>1
    <2> HIDE DEF old
    <2>5. Listable'
        BY <1>1, <2>2, <2>3 DEF Listable
    <2>6. Distinct'
        BY <1>1, <2>3, <2>4 DEF Distinct
    <2> QED
        BY <2>5, <2>6
<1> QED
    BY <1>2, <1>3, <1>4, ListingSteps

LEMMA InitScan == Init => ListingInv
<1> SUFFICES ASSUME Init PROVE ListingInv
    OBVIOUS
<1>1. Inv /\ index = <<>> /\ Len(index) = 0
    BY InitInv DEF Init
<1>2. ASSUME NEW c \in Cleaners PROVE ScanInv(c)
    <2>1. /\ stage[c] = "idle" /\ call[c] = NoCall /\ progress[c] = NoProgress
          /\ outcome[c] = NoOutcome
        BY DEF Init
    <2>2. /\ NoCall.due = {} /\ NoProgress.found = {} /\ NoProgress.offset = 0
          /\ ~NoProgress.listed /\ NoOutcome.status # "cleaned"
        BY DEF NoCall, NoProgress, NoOutcome
    <2> QED
        BY <2>1, <2>2 DEF ScanInv, Unread, DueListed, Seen, Scanned, Sorted, Swept
<1>3. Distinct /\ Listable
    BY <1>1 DEF Distinct, Listable
<1> QED
    BY <1>1, <1>2, <1>3 DEF ListingInv

LEMMA NextScan == ListingInv /\ [Next]_vars => ListingInv'
<1> SUFFICES ASSUME ListingInv, [Next]_vars PROVE ListingInv'
    OBVIOUS
<1>1. Inv /\ Inv' /\ TypeOK' /\ Aged
    BY NextInv, AllAge DEF ListingInv, Inv
<1>2. ASSUME NEW d \in Cleaners PROVE ScanInv(d)'
    <2>1. CASE index' = index /\ (Group \/ UNCHANGED vars)
        <3>1. Same(d)
            BY <2>1 DEF Group, Issue, Publish, Unpublish, vars, Same
        <3> QED
            BY <1>1, <2>1, <3>1, ScanSame
    <2>2. ASSUME index' = index, NEW c \in Cleaners, AuthCleanup(c) \/ Request(c) \/ Crash(c)
          PROVE  ScanInv(d)'
        <3>1. CASE d = c
            BY <1>1, <2>2, <3>1, ScanOwn
        <3>2. CASE d # c
            BY <1>1, <2>2, <3>2, OthersSame, ScanSame DEF Inv
        <3> QED
            BY <3>1, <3>2
    <2> QED
        BY <2>1, <2>2, ListingSteps, ScanPublish, ScanUnpublish DEF Next
<1> QED
    BY <1>1, <1>2, NextListing DEF ListingInv

LEMMA OnlyShifted == ListingInv => MissedOnlyByShift
<1> SUFFICES ASSUME ListingInv, NEW c \in Cleaners, outcome[c].status = "cleaned",
                    call[c].due \cap Live # {}
             PROVE  Shifted(c)
    BY DEF MissedOnlyByShift, Shifted
<1>1. PICK id \in call[c].due : cert[id] = "live"
    BY DEF Live
<1> QED
    BY <1>1 DEF ListingInv, ScanInv, Swept, Sorted

\* certificates.go:252-277 - whatever the page size and the number of calls, a
\* "cleaned" outcome leaves a certificate it was due to find only when an entry
\* already read left the listing between two of its pages.
THEOREM MissedOnlyShifted == Spec => []MissedOnlyByShift
<1> QED
    BY InitScan, NextScan, OnlyShifted, PTL DEF Spec

-----------------------------------------------------------------------------
(***************************************************************************)
(* What the verdict tells the caller.                                      *)
(***************************************************************************)
\* certificates.go:411-446 - a reference that may stand in a pending outcome: one of
\* the explicit ones, and without any the bare attempt, or nothing.
Reference(c, certificate) ==
    IF call[c].explicit = <<>>
    THEN certificate = IF call[c].attempt # NoAttempt THEN NoId ELSE NoReference
    ELSE \E i \in 1..Len(call[c].explicit) : certificate = call[c].explicit[i]
Named(c) == outcome[c].status = "pending" => Reference(c, outcome[c].certificate)
VerdictInv == ListingInv /\ \A c \in Cleaners : Named(c)

\* Both references a call reports are of that kind.
LEMMA ReportedReference ==
    ASSUME Inv, NEW c \in Cleaners
    PROVE  /\ Reference(c, ReportedForList(c))
           /\ stage[c] \in {"metadata-get", "delete"} => Reference(c, Reported(c))
<1>1. call[c].explicit \in Seq(Ids)
    BY DEF Inv, TypeOK, ArgsType
<1>2. Reference(c, ReportedForList(c))
    <2>1. CASE call[c].explicit = <<>>
        BY <2>1 DEF Reference, ReportedForList
    <2>2. CASE call[c].explicit # <<>>
        <3>1. 1 \in 1..Len(call[c].explicit)
            BY <1>1, <2>2
        <3> QED
            BY <2>2, <3>1 DEF Reference, ReportedForList
    <2> QED
        BY <2>1, <2>2
<1>3. ASSUME stage[c] \in {"metadata-get", "delete"}, ~progress[c].listed
      PROVE  Reference(c, progress[c].target)
    <2>1. progress[c].at \in 1..Len(call[c].explicit)
          /\ progress[c].target = call[c].explicit[progress[c].at]
        BY <1>3 DEF Inv, CallInv, Target
    <2>2. call[c].explicit # <<>>
        BY <2>1
    <2> QED
        BY <2>1, <2>2 DEF Reference
<1> QED
    BY <1>2, <1>3 DEF Reported

\* A request that ends its call pending names such a reference; no other sets one.
LEMMA RequestNames ==
    ASSUME Inv, NEW c \in Cleaners, Request(c), outcome'[c].status = "pending"
    PROVE  outcome'[c] = outcome[c] \/ Reference(c, outcome'[c].certificate)
<1> USE ReportedReference
<1>1. TypeOK
    BY DEF Inv
<1>2. ASSUME NEW reason, NEW certificate, EndPending(c, reason, certificate)
      PROVE  outcome'[c].certificate = certificate
    BY <1>1, <1>2 DEF EndPending, TypeOK
<1>3. CASE Local(c)
    <2>1. ~Finish(c)
        <3>1. outcome[c] \in OutcomeType
            BY <1>1 DEF TypeOK
        <3>2. Finish(c) => outcome'[c] = [outcome[c] EXCEPT !.status = "cleaned"]
            BY <1>1 DEF Finish, TypeOK
        <3> QED
            BY <3>1, <3>2 DEF OutcomeType
    <2> QED
        BY <1>3, <2>1 DEF Local, TakeExplicit, StartList, TakeListed
<1>4. CASE GetForeign(c) \/ ListTooMany(c)
    BY <1>2, <1>4 DEF GetForeign, ListTooMany
<1>5. CASE Failed(c)
    BY <1>2, <1>5 DEF Failed, ClientFails, GetFails, DeleteFails, ListFails
<1>6. CASE GetMissing(c) \/ GetOwned(c) \/ Delete(c) \/ ListMore(c) \/ ListLast(c)
    BY <1>6 DEF GetMissing, GetOwned, Delete, ListMore, ListLast, Reconciled
<1> QED
    BY <1>3, <1>4, <1>5, <1>6 DEF Request, Answered

LEMMA InitVerdict == Init => VerdictInv
<1> SUFFICES ASSUME Init, NEW c \in Cleaners PROVE Named(c)
    BY InitScan DEF VerdictInv
<1> QED
    BY NoOutcomeFields DEF Init, Named

LEMMA NextVerdict == VerdictInv /\ [Next]_vars => VerdictInv'
<1> SUFFICES ASSUME VerdictInv, [Next]_vars, NEW d \in Cleaners PROVE Named(d)'
    BY NextScan DEF VerdictInv
<1>1. Inv /\ TypeOK /\ CallInv(d) /\ Named(d)
    BY DEF VerdictInv, ListingInv, Inv
<1>2. CASE Same(d)
    BY <1>1, <1>2 DEF Same, Named, Reference
<1>3. CASE Group \/ UNCHANGED vars
    <2>1. Same(d)
        BY <1>3 DEF Group, Issue, Publish, Unpublish, vars, Same
    <2> QED
        BY <1>2, <2>1
<1>4. CASE AuthCleanup(d) \/ Crash(d)
    <2>1. stage[d] # "done" /\ outcome'[d] = outcome[d]
        BY <1>4 DEF AuthCleanup, Call, Crash, Running
    <2> QED
        BY <1>1, <2>1, NoOutcomeFields DEF CallInv, Unreported, Named
<1>5. CASE Request(d)
    <2>1. stage[d] # "idle"
        BY <1>5 DEF Request, Local, Answered, Failed, TakeExplicit, StartList, Finish,
            TakeListed, GetMissing, GetOwned, GetForeign, Delete, ListMore, ListLast,
            ListTooMany, ClientFails, GetFails, DeleteFails, ListFails
    <2>2. call'[d] = call[d]
        BY <1>1, <2>1, CallStays
    <2> QED
        BY <1>1, <1>5, <2>2, RequestNames DEF Named, Reference
<1>6. ASSUME NEW c \in Cleaners, c # d, AuthCleanup(c) \/ Request(c) \/ Crash(c)
      PROVE  Named(d)'
    BY <1>1, <1>2, <1>6, OthersSame
<1> QED
    BY <1>3, <1>4, <1>5, <1>6 DEF Next

\* certificates.go:375-409 - what a caller that reads "cleaned" can rely on: what it
\* named is deleted, and what was due as well unless the listing shifted.
LEMMA CleanedMeans ==
    ASSUME VerdictInv, NEW c \in Cleaners, outcome[c].status = "cleaned"
    PROVE  /\ \A i \in 1..Len(call[c].explicit) : cert[call[c].explicit[i]] = "deleted"
           /\ \A id \in call[c].due : cert[id] = "live" => Shifted(c)
<1>1. CallInv(c) /\ ScanInv(c) /\ TypeOK
    BY DEF VerdictInv, ListingInv, Inv
<1>2. progress[c].listed /\ progress[c].todo = {}
    BY <1>1 DEF ScanInv, Swept
<1>3. progress[c].at > Len(call[c].explicit) /\ progress[c].at \in Nat
    BY <1>1, <1>2 DEF CallInv, Listing, TypeOK, ProgressType
<1>4. call[c].explicit \in Seq(Ids)
    BY <1>1 DEF TypeOK, ArgsType
<1>5. \A i \in 1..Len(call[c].explicit) : i < progress[c].at
    BY <1>3, <1>4
<1> QED
    BY <1>1, <1>2, <1>5 DEF CallInv, Past, ScanInv, Sorted

\* What a pending outcome tells the caller to look for.
PendingIsNamed == \A c \in Cleaners : Named(c)

\* certificates.go:411-446 - a pending outcome never names a certificate the call was
\* not given, also when it was a listed one that could not be reconciled: it names an
\* explicit reference, or the attempt when there is none.
THEOREM PendingNamed == Spec => []PendingIsNamed
<1>1. VerdictInv => PendingIsNamed
    BY DEF VerdictInv, PendingIsNamed
<1> QED
    BY <1>1, InitVerdict, NextVerdict, PTL DEF Spec

-----------------------------------------------------------------------------
(***************************************************************************)
(* A group that fits one page cannot shift.                                *)
(***************************************************************************)
OnePage == Len(index) <= PageSize
FirstPage == TypeOK /\ \A c \in Cleaners : progress[c].offset = 0

\* Only a listing that is not at its last page moves on.
LEMMA OffsetMoves ==
    ASSUME TypeOK, [Next]_vars, NEW d \in Cleaners, progress'[d].offset # progress[d].offset
    PROVE  ListMore(d)
<1>1. progress[d] \in ProgressType
    BY DEF TypeOK
<1>2. ~Group /\ ~UNCHANGED vars
    BY DEF Group, Issue, Publish, Unpublish, vars
<1>3. PICK c \in Cleaners : AuthCleanup(c) \/ Request(c) \/ Crash(c)
    BY <1>2 DEF Next
<1>4. c = d
    BY <1>3, OthersSame DEF Same
<1>5. ~AuthCleanup(d) /\ ~Crash(d) /\ ~Failed(d)
    BY DEF AuthCleanup, Call, Crash, Failed, ClientFails, GetFails, DeleteFails, ListFails, EndPending
<1>6. ~TakeExplicit(d) /\ ~StartList(d) /\ ~Finish(d) /\ \A id \in Ids : ~TakeListed(d, id)
    BY <1>1 DEF TypeOK, ProgressType, TakeExplicit, StartList, Finish, TakeListed
<1>7. ~GetMissing(d) /\ ~GetOwned(d) /\ ~GetForeign(d) /\ ~Delete(d) /\ ~ListTooMany(d)
    BY <1>1 DEF TypeOK, ProgressType, GetMissing, GetOwned, GetForeign, Delete, ListTooMany,
        Reconciled, EndPending
<1>8. ~ListLast(d)
    BY <1>1 DEF TypeOK, ProgressType, ListLast
<1> QED
    BY <1>3, <1>4, <1>5, <1>6, <1>7, <1>8 DEF Request, Local, Answered

LEMMA StaysFirst == FirstPage /\ OnePage /\ [Next]_vars => FirstPage'
<1> SUFFICES ASSUME FirstPage, OnePage, [Next]_vars, NEW d \in Cleaners
             PROVE  progress'[d].offset = 0
    BY NextType DEF FirstPage
<1>1. PageSize \in Nat /\ index \in Seq(Ids) /\ progress[d].offset = 0
    BY ConstantsAssumption DEF FirstPage, TypeOK
<1>2. ~ListMore(d)
    BY <1>1 DEF ListMore, LastPage, OnePage
<1> QED
    BY <1>1, <1>2, OffsetMoves DEF FirstPage

\* certificates.go:394-408 - finding 1 needs a listing of several pages: as long as the
\* group fits one, "cleaned" means that nothing that was due is alive, whatever is
\* issued, deleted or published meanwhile.
THEOREM OnePageCleaned == Spec /\ []OnePage => []CleanedDueGone
<1>1. Init => FirstPage
    BY InitType DEF Init, FirstPage, NoProgress
<1>2. FirstPage /\ MissedOnlyByShift => CleanedDueGone
    BY DEF FirstPage, MissedOnlyByShift, CleanedDueGone
<1> QED
    BY <1>1, <1>2, StaysFirst, MissedOnlyShifted, PTL DEF Spec
=============================================================================
