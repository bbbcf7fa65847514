-------------------------- MODULE AuthExportProofs --------------------------
(***************************************************************************)
(* Proofs about AuthExport, for any number of runs, owners, directories    *)
(* and certificates.  What the calls of the cleanup do to each other's     *)
(* certificates is not proved again: every step of a run is shown to be    *)
(* one of CertificateCleanup's, or none, and its theorems are used.        *)
(***************************************************************************)
EXTENDS AuthExport, TLAPS

Proved == INSTANCE CertificateCleanupProofs

-----------------------------------------------------------------------------
(***************************************************************************)
(* The instance of the cleanup in AuthExport is the one the theorems are   *)
(* about.                                                                  *)
(***************************************************************************)
\* What CertificateCleanup assumes of its constants holds here.
LEMMA SameConstants == Proved!ConstantsAssumption
BY GroupAssumption DEF Cleanup!ConstantsAssumption, Proved!ConstantsAssumption,
    Cleanup!Ownership, Proved!Ownership

\* Both begin in the same state.
LEMMA SameInit == Cleanup!Init <=> Proved!Init
BY DEF Cleanup!Init, Proved!Init, Cleanup!NoCall, Proved!NoCall, Cleanup!NoProgress,
    Proved!NoProgress, Cleanup!NoOutcome, Proved!NoOutcome

\* Their types are the same ...
LEMMA SameType == Cleanup!TypeOK <=> Proved!TypeOK
BY DEF Cleanup!TypeOK, Proved!TypeOK, Cleanup!Stages, Proved!Stages, Cleanup!ArgsType,
    Proved!ArgsType, Cleanup!ProgressType, Proved!ProgressType, Cleanup!OutcomeType,
    Proved!OutcomeType, Cleanup!References, Proved!References

\* ... before a step and after it.
LEMMA SameTypeNext == Cleanup!TypeOK' <=> Proved!TypeOK'
BY SameType, PTL

\* What is in the scope of a call.
LEMMA SameScope ==
    ASSUME NEW scope, NEW id
    PROVE  Cleanup!InScope(scope, id) <=> Proved!InScope(scope, id)
BY DEF Cleanup!InScope, Proved!InScope

\* The steps of the secret group.
LEMMA SameGroup == Cleanup!Group <=> Proved!Group
BY DEF Cleanup!Group, Proved!Group, Cleanup!Issue, Proved!Issue, Cleanup!Publish,
    Proved!Publish, Cleanup!Unpublish, Proved!Unpublish, Cleanup!Live, Proved!Live,
    Cleanup!Indexed, Proved!Indexed

\* The beginning of a call.
LEMMA SameCall == ASSUME NEW c PROVE Cleanup!AuthCleanup(c) <=> Proved!AuthCleanup(c)
BY DEF Cleanup!AuthCleanup, Proved!AuthCleanup, Cleanup!Call, Proved!Call, Cleanup!Live,
    Proved!Live, Cleanup!Indexed, Proved!Indexed, Cleanup!InScope, Proved!InScope

\* The kill of a call.
LEMMA SameCrash == ASSUME NEW c PROVE Cleanup!Crash(c) <=> Proved!Crash(c)
BY DEF Cleanup!Crash, Proved!Crash, Cleanup!Running, Proved!Running

\* The steps of a call between two requests.
LEMMA SameLocal == ASSUME NEW c PROVE Cleanup!Local(c) <=> Proved!Local(c)
BY DEF Cleanup!Local, Proved!Local, Cleanup!TakeExplicit, Proved!TakeExplicit,
    Cleanup!StartList, Proved!StartList, Cleanup!Finish, Proved!Finish,
    Cleanup!TakeListed, Proved!TakeListed

\* The requests that fail.
LEMMA SameFailed == ASSUME NEW c PROVE Cleanup!Failed(c) <=> Proved!Failed(c)
BY DEF Cleanup!Failed, Proved!Failed, Cleanup!ClientFails, Proved!ClientFails,
    Cleanup!GetFails, Proved!GetFails, Cleanup!DeleteFails, Proved!DeleteFails,
    Cleanup!ListFails, Proved!ListFails, Cleanup!EndPending, Proved!EndPending,
    Cleanup!Gone, Proved!Gone, Cleanup!Reported, Proved!Reported,
    Cleanup!ReportedForList, Proved!ReportedForList, Cleanup!NoProgress,
    Proved!NoProgress, Cleanup!store, Proved!store

\* What a page holds, and whether it is the last or one too many.
LEMMA SamePage ==
    /\ \A offset : Cleanup!Page(offset) = Proved!Page(offset)
    /\ \A offset : Cleanup!LastPage(offset) <=> Proved!LastPage(offset)
    /\ \A found : Cleanup!TooMany(found) <=> Proved!TooMany(found)
<1>1. \A offset : Cleanup!Page(offset) = Proved!Page(offset)
    BY Zenon DEF Cleanup!Page, Proved!Page
<1>2. \A offset : Cleanup!LastPage(offset) <=> Proved!LastPage(offset)
    BY Zenon DEF Cleanup!LastPage, Proved!LastPage
<1>3. \A found : Cleanup!TooMany(found) <=> Proved!TooMany(found)
    BY Zenon DEF Cleanup!TooMany, Proved!TooMany, Cleanup!Cardinality, Proved!Cardinality
<1> QED
    BY <1>1, <1>2, <1>3

\* The requests that are answered.
LEMMA SameAnswered == ASSUME NEW c PROVE Cleanup!Answered(c) <=> Proved!Answered(c)
<1>1. \A scope, id : Cleanup!InScope(scope, id) <=> Proved!InScope(scope, id)
    BY SameScope
<1>2. /\ Cleanup!GetMissing(c) <=> Proved!GetMissing(c)
      /\ Cleanup!GetOwned(c) <=> Proved!GetOwned(c)
      /\ Cleanup!Delete(c) <=> Proved!Delete(c)
    BY <1>1 DEF Cleanup!GetMissing, Proved!GetMissing, Cleanup!GetOwned, Proved!GetOwned,
        Cleanup!Delete, Proved!Delete, Cleanup!Live, Proved!Live, Cleanup!Gone, Proved!Gone,
        Cleanup!Reconciled, Proved!Reconciled, Cleanup!store, Proved!store
<1>3. Cleanup!GetForeign(c) <=> Proved!GetForeign(c)
    BY <1>1 DEF Cleanup!GetForeign, Proved!GetForeign, Cleanup!Live, Proved!Live,
        Cleanup!EndPending, Proved!EndPending, Cleanup!Reported, Proved!Reported,
        Cleanup!ReportedForList, Proved!ReportedForList, Cleanup!store, Proved!store
<1>4. Cleanup!ListMore(c) <=> Proved!ListMore(c)
    BY SamePage DEF Cleanup!ListMore, Proved!ListMore
<1>5. Cleanup!ListLast(c) <=> Proved!ListLast(c)
    BY <1>1, SamePage DEF Cleanup!ListLast, Proved!ListLast
<1>6. Cleanup!ListTooMany(c) <=> Proved!ListTooMany(c)
    BY SamePage DEF Cleanup!ListTooMany, Proved!ListTooMany, Cleanup!EndPending,
        Proved!EndPending, Cleanup!ReportedForList, Proved!ReportedForList,
        Cleanup!store, Proved!store
<1> QED
    BY <1>2, <1>3, <1>4, <1>5, <1>6 DEF Cleanup!Answered, Proved!Answered

\* All steps of a call.
LEMMA SameRequest == ASSUME NEW c PROVE Cleanup!Request(c) <=> Proved!Request(c)
BY SameLocal, SameAnswered, SameFailed DEF Cleanup!Request, Proved!Request

\* All steps of the cleanup.
LEMMA SameNext == Cleanup!Next <=> Proved!Next
BY SameGroup, SameCall, SameRequest, SameCrash DEF Cleanup!Next, Proved!Next
-----------------------------------------------------------------------------
(***************************************************************************)
(* What a step does to the group is a step of CertificateCleanup.          *)
(***************************************************************************)
\* auth.go:486-508 - a failed export begins a call of the cleanup, or needs none.
LEMMA ReconcileStore ==
    ASSUME NEW r \in Runs, NEW explicit \in {<<>>, <<CertOf[r]>>}, Reconcile(r, explicit)
    PROVE  Cleanup!AuthCleanup(r) \/ UNCHANGED storeVars
<1>1. CASE r \in Policied
    <2>1. AttemptCall(r, explicit) \in Calls
        BY <1>1, ExportAssumption
    <2> QED
        BY <1>1, <2>1 DEF Reconcile, Cleanup!AuthCleanup
<1> QED
    BY <1>1 DEF Reconcile

\* A step of a run is one step of its call of the cleanup at most.
LEMMA RunStore ==
    ASSUME NEW r \in Runs, RunStep(r) \/ Expire(r) \/ Crash(r)
    PROVE  \/ UNCHANGED storeVars
           \/ Cleanup!AuthCleanup(r) \/ Cleanup!Request(r) \/ Cleanup!Crash(r)
<1>1. CASE \/ Lock(r) \/ LockHeld(r) \/ Clear(r) \/ ClearFails(r) \/ InitDone(r) \/ InitFails(r)
           \/ ApplyDone(r) \/ ReadMode(r) \/ ReadPublic(r) \/ ReadPublicFails(r)
           \/ ReadPrivate(r) \/ Validate(r) \/ WriteKubeconfig(r) \/ WriteProfile(r)
           \/ WriteProfileFails(r) \/ Reconciled(r) \/ Expire(r)
    BY <1>1 DEF Lock, LockHeld, Clear, ClearFails, InitDone, InitFails, ApplyDone, ReadMode,
        ReadPublic, ReadPublicFails, ReadPrivate, Validate, WriteKubeconfig, WriteProfile,
        WriteProfileFails, Reconciled, Expire
<1>2. CASE \/ PersistAvailable(r) \/ PersistAvailableFails(r) \/ PersistUnavailable(r)
           \/ PersistUnavailableFails(r) \/ PersistUnsupported(r) \/ PersistUnsupportedFails(r)
           \/ WriteResult(r)
    BY <1>2 DEF PersistAvailable, PersistAvailableFails, PersistUnavailable,
        PersistUnavailableFails, PersistUnsupported, PersistUnsupportedFails, WriteResult
<1>3. CASE \/ ApplyFails(r) \/ ReadModeFails(r) \/ ReadPrivateFails(r) \/ ValidateFails(r)
           \/ WriteKubeconfigFails(r) \/ Discard(r) \/ Compensate(r)
    BY <1>3, ReconcileStore DEF ApplyFails, ReadModeFails, ReadPrivateFails, ValidateFails,
        WriteKubeconfigFails, Discard, Compensate
<1>4. CASE ReconcileStep(r)
    BY <1>4 DEF ReconcileStep, Cleanup!Request
<1>5. CASE Crash(r)
    BY <1>5 DEF Crash
<1> QED
    BY <1>1, <1>2, <1>3, <1>4, <1>5 DEF RunStep

\* The steps that are not a run's own are the group's and the owners'.
LEMMA WhoSteps ==
    ASSUME [Next]_vars
    PROVE  \/ \E r \in Runs : RunStep(r) \/ Expire(r) \/ Crash(r)
           \/ /\ UNCHANGED exportVars
              /\ \/ Cleanup!Group
                 \/ \E o \in Owners : Cleanup!AuthCleanup(o) \/ Cleanup!Request(o) \/ Cleanup!Crash(o)
           \/ UNCHANGED vars
<1>1. CASE \E r \in Runs : RunStep(r) \/ Expire(r) \/ Crash(r)
    BY <1>1
<1>2. ASSUME NEW r \in Runs, IssueCertificate(r) PROVE UNCHANGED exportVars /\ Cleanup!Group
    BY <1>2, ExportAssumption DEF IssueCertificate, Cleanup!Group
<1>3. /\ \A id \in Elsewhere : Cleanup!Issue(id) => Cleanup!Group
      /\ \A id \in Ids : Cleanup!Publish(id) => Cleanup!Group
      /\ \A i \in 1..Len(index) : Cleanup!Unpublish(i) => Cleanup!Group
    BY DEF Cleanup!Group, Elsewhere
<1>4. CASE \E o \in Owners : OwnerStep(o)
    BY <1>4 DEF OwnerStep
<1>5. CASE Environment
    BY <1>1, <1>2, <1>3, <1>5 DEF Environment
<1>6. CASE UNCHANGED vars
    BY <1>6
<1> QED
    BY <1>1, <1>4, <1>5, <1>6 DEF Next

\* Each step is one of the cleanup, or none.
LEMMA StoreNext == [Next]_vars => [Cleanup!Next]_storeVars
<1> SUFFICES ASSUME [Next]_vars PROVE [Cleanup!Next]_storeVars
    OBVIOUS
<1>1. ASSUME NEW r \in Runs, RunStep(r) \/ Expire(r) \/ Crash(r) PROVE [Cleanup!Next]_storeVars
    <2>1. r \in Cleaners
        BY DEF Cleaners
    <2> QED
        BY <1>1, <2>1, RunStore DEF Cleanup!Next
<1>2. CASE Cleanup!Group
    BY <1>2 DEF Cleanup!Next
<1>3. ASSUME NEW o \in Owners, Cleanup!AuthCleanup(o) \/ Cleanup!Request(o) \/ Cleanup!Crash(o)
      PROVE  Cleanup!Next
    <2>1. o \in Cleaners
        BY DEF Cleaners
    <2> QED
        BY <1>3, <2>1 DEF Cleanup!Next
<1>4. CASE UNCHANGED vars
    BY <1>4 DEF vars, storeVars
<1> QED
    BY <1>1, <1>2, <1>3, <1>4, WhoSteps

\* What is proved about the calls, of the calls of runs and owners.
LEMMA StoreInit == Init => Proved!CallerInv
BY SameInit, SameConstants, Proved!InitCaller DEF Init

\* ... and after every step ...
LEMMA StoreInv == Proved!CallerInv /\ [Next]_vars => Proved!CallerInv'
<1>1. [Next]_vars => [Proved!Next]_(Proved!vars)
    BY StoreNext, SameNext DEF storeVars, Proved!vars
<1> QED
    BY <1>1, SameConstants, Proved!NextCaller

\* ... which gives the type of what the calls keep.
LEMMA StoreType == ASSUME Proved!CallerInv' PROVE Cleanup!TypeOK'
BY SameTypeNext DEF Proved!CallerInv, Proved!Inv

\* A step of a run leaves the calls of others alone, and a step of the group
\* or of an owner those of the runs.
Alone(c) == stage'[c] = stage[c] /\ call'[c] = call[c] /\ outcome'[c] = outcome[c]

\* A step of one call is none of another.
LEMMA OthersAlone ==
    ASSUME Proved!CallerInv, NEW c \in Cleaners, NEW d \in Cleaners, d # c,
           Cleanup!AuthCleanup(c) \/ Cleanup!Request(c) \/ Cleanup!Crash(c)
    PROVE  Alone(d)
<1>1. Proved!AuthCleanup(c) \/ Proved!Request(c) \/ Proved!Crash(c)
    BY SameCall, SameRequest, SameCrash
<1>2. Proved!TypeOK
    BY DEF Proved!CallerInv, Proved!Inv
<1>3. Proved!Same(d)
    BY <1>1, <1>2, SameConstants, Proved!OthersSame
<1> QED
    BY <1>3 DEF Proved!Same, Alone

\* A step of a run is none of another run's call.
LEMMA RunAlone ==
    ASSUME Proved!CallerInv, NEW r \in Runs, RunStep(r) \/ Expire(r) \/ Crash(r),
           NEW q \in Runs, q # r
    PROVE  Alone(q)
<1>1. r \in Cleaners /\ q \in Cleaners
    BY DEF Cleaners
<1>2. CASE UNCHANGED storeVars
    BY <1>2 DEF storeVars, Alone
<1> QED
    BY <1>1, <1>2, RunStore, OthersAlone

\* The group and the owners' calls leave the calls of runs alone.
LEMMA RestAlone ==
    ASSUME Proved!CallerInv, NEW q \in Runs,
           \/ Cleanup!Group
           \/ \E o \in Owners : Cleanup!AuthCleanup(o) \/ Cleanup!Request(o) \/ Cleanup!Crash(o)
           \/ UNCHANGED vars
    PROVE  Alone(q)
<1>1. CASE Cleanup!Group \/ UNCHANGED vars
    BY <1>1 DEF Cleanup!Group, Cleanup!Issue, Cleanup!Publish, Cleanup!Unpublish, vars, Alone
<1>2. ASSUME NEW o \in Owners, Cleanup!AuthCleanup(o) \/ Cleanup!Request(o) \/ Cleanup!Crash(o)
      PROVE  Alone(q)
    <2>1. o \in Cleaners /\ q \in Cleaners /\ q # o
        BY ExportAssumption DEF Cleaners
    <2> QED
        BY <1>2, <2>1, OthersAlone
<1> QED
    BY <1>1, <1>2

-----------------------------------------------------------------------------
(***************************************************************************)
(* The invariant of a run.  NoMixedBundle and AvailableIsComplete are about*)
(* directories and rest on the lock file: a run inside owns it (Holds), so *)
(* that what it knows of the artifacts stays true (Written).               *)
(* AvailableCertificateLives rests on custody: a certificate that is gone  *)
(* was in the scope of a call (Proved!Reclaimed), every run calls with its *)
(* own attempt (Called), and one that offers a bundle has not (Kept).      *)
(***************************************************************************)
Holds(r) == step[r] \in Inside => lock[Dir[r]] = r
Written(r) ==
    /\ step[r] \in {"init", "apply", "mode", "public-outputs", "private-outputs",
                    "validate", "kubeconfig"} => files[Dir[r]] = NoFiles
    /\ step[r] = "profile" =>
           /\ mode[r] = "vpn"
           /\ files[Dir[r]] = [a \in Artifacts |-> IF a = "client.ovpn" THEN NoRun ELSE r]
    /\ step[r] = "available" => files[Dir[r]] = Bundle(r)
Called(r) ==
    /\ stage[r] \in Cleanup!Running => step[r] = "cleanup"
    /\ step[r] = "cleanup" => stage[r] # "idle"
    /\ stage[r] # "idle" =>
           /\ step[r] \in {"cleanup", "unavailable", "result"} \cup Ended
           /\ call[r].allocation = Owner[CertOf[r]].allocation
           /\ call[r].attempt = Owner[CertOf[r]].attempt
           /\ call[r].explicit \in {<<>>, <<CertOf[r]>>}
    /\ step[r] = "unavailable" => stage[r] \in {"idle", "done"}
Past == {"mode", "private-outputs", "validate", "kubeconfig", "profile", "available"}
Issued(r) ==
    /\ mode[r] \in Offers[r]
    /\ mode[r] = "vpn" /\ step[r] \in Past => cert[CertOf[r]] # "unissued"
    /\ step[r] = "public-outputs" => mode[r] = "public"
Offering(r) ==
    /\ step[r] \in {"result", "ok"} /\ mode[r] = "vpn"
    /\ manifest[Dir[r]] # NoManifest /\ manifest[Dir[r]].by = r
    /\ manifest[Dir[r]].availability = "available"
Kept(r) == Offering(r) => stage[r] = "idle" /\ cert[CertOf[r]] # "unissued"
RunInv(r) == Holds(r) /\ Written(r) /\ Called(r) /\ Issued(r) /\ Kept(r)

\* Whoever got into the directory has left it with its manifest written.
Calm == {"start", "rejected", "result", "ok"}
Complete(d) ==
    (\A r \in RunsOf(d) : step[r] \in Calm) =>
        \A r \in Runs :
            /\ manifest[d] # NoManifest /\ manifest[d].by = r
            /\ manifest[d].availability = "available"
            => files[d] = Bundle(r)

IInv ==
    /\ TypeOK /\ NoMixedBundle
    /\ \A r \in Runs : RunInv(r)
    /\ \A d \in Dirs : Complete(d)

\* What a run's step may touch: its own step and its own directory.
Frame(r) ==
    /\ mode' = mode
    /\ \E s \in Steps : step' = [step EXCEPT ![r] = s]
    /\ \E l \in {lock[Dir[r]], r, NoRun} : lock' = [lock EXCEPT ![Dir[r]] = l]
    /\ \E f \in [Artifacts -> Runs \cup {NoRun}] : files' = [files EXCEPT ![Dir[r]] = f]
    /\ \E m \in Manifests \cup {NoManifest} : manifest' = [manifest EXCEPT ![Dir[r]] = m]
    /\ expired' \in [Runs -> BOOLEAN]
    /\ learned' \in [Runs -> BOOLEAN]
    /\ refused' \in [Runs -> BOOLEAN]

\* The types of what belongs to one run.
LEMMA Types ==
    ASSUME TypeOK, NEW r \in Runs
    PROVE  /\ Dir[r] \in Dirs /\ CertOf[r] \in Ids
           /\ step[r] \in Steps /\ step = [step EXCEPT ![r] = step[r]]
           /\ lock[Dir[r]] \in Runs \cup {NoRun} /\ lock = [lock EXCEPT ![Dir[r]] = lock[Dir[r]]]
           /\ files[Dir[r]] \in [Artifacts -> Runs \cup {NoRun}]
           /\ files = [files EXCEPT ![Dir[r]] = files[Dir[r]]]
           /\ manifest[Dir[r]] \in Manifests \cup {NoManifest}
           /\ manifest = [manifest EXCEPT ![Dir[r]] = manifest[Dir[r]]]
BY ExportAssumption DEF TypeOK

\* What the helpers on the artifacts, the lock and the manifest do.
LEMMA RemoveFrame ==
    ASSUME TypeOK, NEW r \in Runs, NEW kept, Remove(r, kept)
    PROVE  \E f \in [Artifacts -> Runs \cup {NoRun}] :
               /\ files' = [files EXCEPT ![Dir[r]] = f]
               /\ \A a \in Artifacts : f[a] \in {files[Dir[r]][a], NoRun}
               /\ kept = {} => f = NoFiles
<1> DEFINE f == [a \in Artifacts |-> IF a \in kept THEN files[Dir[r]][a] ELSE NoRun]
<1>1. f \in [Artifacts -> Runs \cup {NoRun}]
    BY Types
<1>2. files' = [files EXCEPT ![Dir[r]] = f]
    BY Types DEF Remove, TypeOK
<1> QED
    BY <1>1, <1>2 DEF NoFiles

LEMMA WriteFrame ==
    ASSUME TypeOK, NEW r \in Runs, NEW artifact \in Artifacts, Write(r, artifact)
    PROVE  \E f \in [Artifacts -> Runs \cup {NoRun}] :
               /\ files' = [files EXCEPT ![Dir[r]] = f]
               /\ f = [files[Dir[r]] EXCEPT ![artifact] = r]
<1> DEFINE f == [files[Dir[r]] EXCEPT ![artifact] = r]
<1>1. f \in [Artifacts -> Runs \cup {NoRun}]
    BY Types
<1>2. files' = [files EXCEPT ![Dir[r]] = f]
    BY Types DEF Write, TypeOK
<1> QED
    BY <1>1, <1>2

LEMMA ManifestFrame ==
    ASSUME TypeOK, NEW r \in Runs, NEW availability \in {"available", "unavailable", "unsupported"},
           NEW status \in Statuses, NEW certificate \in Ids \cup {NoId, NoReference},
           WriteManifest(r, availability, status, certificate)
    PROVE  \E m \in Manifests :
               /\ manifest' = [manifest EXCEPT ![Dir[r]] = m]
               /\ m.by = r /\ m.availability = availability
               /\ m.cleanup = status /\ m.certificate = certificate
<1> DEFINE m == [by |-> r, availability |-> availability, cleanup |-> status,
                 certificate |-> certificate]
<1>1. m \in Manifests
    BY DEF Manifests
<1>2. manifest' = [manifest EXCEPT ![Dir[r]] = m]
    BY Types DEF WriteManifest, TypeOK
<1>3. m.by = r /\ m.availability = availability /\ m.cleanup = status /\ m.certificate = certificate
    OBVIOUS
<1> HIDE DEF m
<1> QED
    BY <1>1, <1>2, <1>3

\* The manifest of a failure has a verdict: the run's cleanup has ended.
LEMMA UnavailableFrame ==
    ASSUME TypeOK, Proved!CallerInv, NEW r \in Runs, Called(r), step[r] = "unavailable",
           WriteUnavailable(r)
    PROVE  \E m \in Manifests :
               /\ manifest' = [manifest EXCEPT ![Dir[r]] = m]
               /\ m.by = r /\ m.availability = "unavailable"
               /\ stage[r] # "idle" =>
                      m.cleanup = outcome[r].status /\ m.certificate = outcome[r].certificate
<1> DEFINE status == IF stage[r] = "idle" THEN "not-required" ELSE outcome[r].status
<1>1. r \in Cleaners
    BY DEF Cleaners
<1>2. stage[r] \in {"idle", "done"}
    BY DEF Called
<1>3. status \in Statuses
    BY <1>1, <1>2 DEF Proved!CallerInv, Proved!Ruled, Statuses
<1>4. outcome[r].certificate \in Ids \cup {NoId, NoReference}
    BY <1>1 DEF TypeOK, Cleanup!TypeOK, Cleanup!OutcomeType, Cleanup!References
<1>5. WriteManifest(r, "unavailable", status, outcome[r].certificate)
    BY DEF WriteUnavailable
<1> QED
    BY <1>3, <1>4, <1>5, ManifestFrame

LEMMA AvailableFrame ==
    ASSUME TypeOK, NEW r \in Runs, WriteAvailable(r)
    PROVE  \E m \in Manifests :
               /\ manifest' = [manifest EXCEPT ![Dir[r]] = m]
               /\ m.by = r /\ m.availability = "available"
<1>1. (IF mode[r] = "vpn" THEN CertOf[r] ELSE NoReference) \in Ids \cup {NoId, NoReference}
    BY Types
<1> QED
    BY <1>1, ManifestFrame DEF WriteAvailable, Statuses

\* Every step of a run stays within its frame.
LEMMA RunFrame ==
    ASSUME TypeOK, Proved!CallerInv, NEW r \in Runs, Called(r),
           RunStep(r) \/ Expire(r) \/ Crash(r)
    PROVE  Frame(r)
<1>1. ASSUME NEW s \in Steps, Goto(r, s) PROVE \E t \in Steps : step' = [step EXCEPT ![r] = t]
    BY <1>1 DEF Goto
<1>2. ASSUME NEW s \in Steps, Release(r, s)
      PROVE  /\ \E t \in Steps : step' = [step EXCEPT ![r] = t]
             /\ \E l \in {lock[Dir[r]], r, NoRun} : lock' = [lock EXCEPT ![Dir[r]] = l]
    BY <1>2, Types DEF Release, Goto, Steps, Ended
<1>3. ASSUME NEW explicit, Reconcile(r, explicit)
      PROVE  \E t \in Steps : step' = [step EXCEPT ![r] = t]
    BY <1>3 DEF Reconcile, Goto, Steps, Inside
<1>4. ASSUME NEW kept, Remove(r, kept)
      PROVE  \E f \in [Artifacts -> Runs \cup {NoRun}] : files' = [files EXCEPT ![Dir[r]] = f]
    BY <1>4, RemoveFrame
<1>5. ASSUME NEW artifact \in Artifacts, Write(r, artifact)
      PROVE  \E f \in [Artifacts -> Runs \cup {NoRun}] : files' = [files EXCEPT ![Dir[r]] = f]
    BY <1>5, WriteFrame
<1>6. /\ UNCHANGED files => \E f \in [Artifacts -> Runs \cup {NoRun}] : files' = [files EXCEPT ![Dir[r]] = f]
      /\ UNCHANGED lock => \E l \in {lock[Dir[r]], r, NoRun} : lock' = [lock EXCEPT ![Dir[r]] = l]
      /\ UNCHANGED manifest =>
             \E m \in Manifests \cup {NoManifest} : manifest' = [manifest EXCEPT ![Dir[r]] = m]
      /\ UNCHANGED step => \E t \in Steps : step' = [step EXCEPT ![r] = t]
    BY Types
<1>7. /\ UNCHANGED expired => expired' \in [Runs -> BOOLEAN]
      /\ UNCHANGED learned => learned' \in [Runs -> BOOLEAN]
      /\ UNCHANGED refused => refused' \in [Runs -> BOOLEAN]
    BY DEF TypeOK
<1> USE <1>6, <1>7
<1>8. CASE Lock(r) \/ LockHeld(r)
    BY <1>8 DEF Lock, LockHeld, Frame, Goto, Steps, Inside, Ended
<1>9. CASE Clear(r) \/ ClearFails(r)
    BY <1>1, <1>2, <1>4, <1>9 DEF Clear, ClearFails, Frame, Steps, Inside, Ended
<1>10. CASE \/ InitDone(r) \/ InitFails(r) \/ ApplyDone(r) \/ ReadMode(r) \/ ReadPublic(r)
            \/ ReadPublicFails(r) \/ Validate(r) \/ WriteResult(r)
    BY <1>1, <1>10 DEF InitDone, InitFails, ApplyDone, ReadMode, ReadPublic, ReadPublicFails,
        Validate, WriteResult, Frame, Steps, Inside, Ended
<1>11. CASE ApplyFails(r) \/ ReadModeFails(r) \/ ValidateFails(r)
    BY <1>3, <1>11 DEF ApplyFails, ReadModeFails, ValidateFails, Frame
<1>12. CASE ReadPrivate(r) \/ ReadPrivateFails(r)
    <2>1. learned' \in [Runs -> BOOLEAN]
        BY <1>12 DEF ReadPrivate, ReadPrivateFails, TypeOK
    <2> QED
        BY <1>1, <1>3, <1>12, <2>1 DEF ReadPrivate, ReadPrivateFails, Frame, Steps, Inside
<1>13. CASE WriteKubeconfig(r) \/ WriteProfile(r) \/ WriteProfileFails(r)
    BY <1>1, <1>5, <1>13 DEF WriteKubeconfig, WriteProfile, WriteProfileFails, Frame,
        Steps, Inside, Artifacts
<1>14. CASE WriteKubeconfigFails(r)
    BY <1>1, <1>3, <1>5, <1>14 DEF WriteKubeconfigFails, Frame, Steps, Inside, Artifacts
<1>15. CASE Discard(r) \/ Compensate(r)
    BY <1>1, <1>3, <1>4, <1>15 DEF Discard, Compensate, Frame, Steps, Inside
<1>16. CASE PersistAvailable(r) \/ PersistAvailableFails(r)
    <2>1. refused' \in [Runs -> BOOLEAN]
        BY <1>16 DEF PersistAvailable, PersistAvailableFails, TypeOK
    <2>2. \E m \in Manifests \cup {NoManifest} : manifest' = [manifest EXCEPT ![Dir[r]] = m]
        BY <1>16, AvailableFrame DEF PersistAvailable, PersistAvailableFails
    <2> QED
        BY <1>1, <1>2, <1>16, <2>1, <2>2 DEF PersistAvailable, PersistAvailableFails, Frame,
            Steps, Inside
<1>17. CASE PersistUnavailable(r) \/ PersistUnavailableFails(r)
    <2>1. \E m \in Manifests \cup {NoManifest} : manifest' = [manifest EXCEPT ![Dir[r]] = m]
        BY <1>17, UnavailableFrame DEF PersistUnavailable, PersistUnavailableFails
    <2> QED
        BY <1>2, <1>17, <2>1 DEF PersistUnavailable, PersistUnavailableFails, Frame,
            Steps, Ended
<1>18. CASE PersistUnsupported(r) \/ PersistUnsupportedFails(r)
    <2>1. \E m \in Manifests \cup {NoManifest} : manifest' = [manifest EXCEPT ![Dir[r]] = m]
        BY <1>18, ManifestFrame DEF PersistUnsupported, PersistUnsupportedFails, Statuses
    <2> QED
        BY <1>2, <1>18, <2>1 DEF PersistUnsupported, PersistUnsupportedFails, Frame,
            Steps, Ended
<1>19. CASE ReconcileStep(r) \/ Reconciled(r)
    BY <1>1, <1>19 DEF ReconcileStep, Reconciled, exportVars, Frame, Steps, Inside
<1>20. CASE Expire(r)
    <2>1. expired' \in [Runs -> BOOLEAN]
        BY <1>20 DEF Expire, TypeOK
    <2> QED
        BY <1>20, <2>1 DEF Expire, Frame
<1>21. CASE Crash(r)
    BY <1>1, <1>21 DEF Crash, Frame, Steps, Ended
<1> QED
    BY <1>8, <1>9, <1>10, <1>11, <1>12, <1>13, <1>14, <1>15, <1>16, <1>17, <1>18, <1>19,
       <1>20, <1>21 DEF RunStep

\* Where the helpers lead a run.
LEMMA Leads ==
    ASSUME TypeOK, NEW r \in Runs
    PROVE  /\ \A s : Goto(r, s) => step'[r] = s
           /\ \A s : Release(r, s) => step'[r] \in {s, "error"}
           /\ \A explicit : Reconcile(r, explicit) => step'[r] \in {"cleanup", "unavailable"}
BY DEF TypeOK, Goto, Release, Reconcile

\* How a run gets into its directory and out of it.
Turn(r) ==
    /\ step[r] \notin Inside =>
           /\ UNCHANGED <<files, manifest, storeVars>>
           /\ step'[r] \in Inside => lock[Dir[r]] = NoRun /\ lock'[Dir[r]] = r
           /\ step'[r] \notin Inside => lock' = lock
           /\ step'[r] \in Calm => step[r] \in Calm
           /\ step'[r] \in {"result", "ok"} => step[r] \in {"result", "ok"}
    /\ step[r] \in Inside /\ step'[r] \in Inside => lock' = lock
    /\ step[r] \in Inside /\ step'[r] \in Calm =>
           \/ /\ step[r] = "available" /\ manifest'[Dir[r]].by = r
              /\ UNCHANGED <<files, storeVars>>
           \/ manifest'[Dir[r]].availability # "available"
    /\ manifest'[Dir[r]] = manifest[Dir[r]] \/ manifest'[Dir[r]].by = r

LEMMA RunTurn ==
    ASSUME TypeOK, Proved!CallerInv, NEW r \in Runs, Called(r),
           RunStep(r) \/ Expire(r) \/ Crash(r)
    PROVE  Turn(r)
<1> USE DEF Turn, Inside, Calm
<1>4. CASE Lock(r) \/ LockHeld(r)
    BY <1>4, Types DEF Lock, LockHeld, Goto, TypeOK
<1>5. CASE Clear(r) \/ ClearFails(r)
    BY Leads, <1>5 DEF Clear, ClearFails
<1>6. CASE \/ InitDone(r) \/ InitFails(r) \/ ApplyDone(r) \/ ReadMode(r) \/ ReadPublic(r)
           \/ ReadPublicFails(r) \/ ReadPrivate(r) \/ Validate(r) \/ WriteKubeconfig(r)
           \/ WriteProfile(r) \/ WriteProfileFails(r) \/ Reconciled(r)
    BY Leads, <1>6 DEF InitDone, InitFails, ApplyDone, ReadMode, ReadPublic, ReadPublicFails,
        ReadPrivate, Validate, WriteKubeconfig, WriteProfile, WriteProfileFails, Reconciled
<1>7. CASE \/ ApplyFails(r) \/ ReadModeFails(r) \/ ReadPrivateFails(r) \/ ValidateFails(r)
           \/ WriteKubeconfigFails(r) \/ Discard(r) \/ Compensate(r)
    BY Leads, <1>7 DEF ApplyFails, ReadModeFails, ReadPrivateFails, ValidateFails,
        WriteKubeconfigFails, Discard, Compensate
<1>8. ASSUME NEW m \in Manifests \cup {NoManifest}, manifest' = [manifest EXCEPT ![Dir[r]] = m]
      PROVE  manifest'[Dir[r]] = m
    BY <1>8, Types DEF TypeOK
<1>9. CASE PersistAvailable(r) \/ PersistAvailableFails(r)
    BY Leads, <1>8, <1>9, AvailableFrame DEF PersistAvailable, PersistAvailableFails
<1>10. CASE PersistUnavailable(r) \/ PersistUnavailableFails(r)
    <2>1. WriteUnavailable(r) =>
              manifest'[Dir[r]].by = r /\ manifest'[Dir[r]].availability = "unavailable"
        BY <1>8, <1>10, UnavailableFrame DEF PersistUnavailable, PersistUnavailableFails
    <2> QED
        BY Leads, <1>10, <2>1 DEF PersistUnavailable, PersistUnavailableFails
<1>11. CASE PersistUnsupported(r) \/ PersistUnsupportedFails(r)
    <2>1. WriteManifest(r, "unsupported", "not-required", NoReference) =>
              manifest'[Dir[r]].by = r /\ manifest'[Dir[r]].availability = "unsupported"
        BY <1>8, ManifestFrame DEF Statuses
    <2> QED
        BY Leads, <1>11, <2>1 DEF PersistUnsupported, PersistUnsupportedFails
<1>12. CASE WriteResult(r)
    BY Leads, <1>12 DEF WriteResult
<1>13. CASE ReconcileStep(r) \/ Expire(r)
    BY <1>13 DEF ReconcileStep, Expire, exportVars
<1>14. CASE Crash(r)
    BY Leads, <1>14 DEF Crash
<1> QED
    BY <1>4, <1>5, <1>6, <1>7, <1>9, <1>10, <1>11, <1>12, <1>13, <1>14 DEF RunStep

\* What a run knows of the artifacts while it is inside.
Knowing == {"init", "apply", "mode", "public-outputs", "private-outputs", "validate",
            "kubeconfig", "profile", "available"}

LEMMA RunWritten ==
    ASSUME TypeOK, NEW r \in Runs, Written(r), Frame(r), RunStep(r) \/ Expire(r) \/ Crash(r)
    PROVE  Written(r)'
<1>4. mode' = mode /\ Bundle(r)' = Bundle(r)
    BY DEF Frame, Bundle
<1>5. CASE step'[r] \notin Knowing
    BY <1>5 DEF Written, Knowing
<1>6. CASE files' = files /\ step'[r] = step[r]
    BY <1>4, <1>6 DEF Written
<1>7. CASE Clear(r)
    <2>1. files'[Dir[r]] = NoFiles
        BY <1>7, RemoveFrame, Types DEF Clear, TypeOK
    <2>2. step'[r] \in {"unsupported", "init"}
        BY Leads, <1>7 DEF Clear
    <2> QED
        BY <2>1, <2>2 DEF Written
<1>8. CASE InitDone(r) \/ ApplyDone(r) \/ ReadMode(r) \/ ReadPublic(r) \/ ReadPrivate(r) \/ Validate(r)
    <2>1. files' = files /\ step[r] \in Knowing \ {"kubeconfig", "profile", "available"}
        BY <1>8 DEF InitDone, ApplyDone, ReadMode, ReadPublic, ReadPrivate, Validate, Knowing
    <2>2. step'[r] \in (Knowing \ {"profile", "available"}) \cup {"unsupported"}
        BY Leads, <1>8 DEF InitDone, ApplyDone, ReadMode, ReadPublic, ReadPrivate, Validate, Knowing
    <2> QED
        BY <2>1, <2>2 DEF Written, Knowing
<1>9. CASE WriteKubeconfig(r)
    <2>1. files[Dir[r]] = NoFiles
        BY <1>9 DEF WriteKubeconfig, Written
    <2>2. files'[Dir[r]] = [NoFiles EXCEPT !["kubeconfig.yaml"] = r]
        BY <1>9, <2>1, WriteFrame, Types DEF WriteKubeconfig, Artifacts, TypeOK
    <2>3. [NoFiles EXCEPT !["kubeconfig.yaml"] = r]
              = [a \in Artifacts |-> IF a = "client.ovpn" THEN NoRun ELSE r]
        BY DEF NoFiles, Artifacts
    <2>4. mode[r] # "vpn" => Bundle(r) = [a \in Artifacts |-> IF a = "client.ovpn" THEN NoRun ELSE r]
        BY DEF Bundle
    <2>5. step'[r] = IF mode[r] = "vpn" THEN "profile" ELSE "available"
        BY Leads, <1>9 DEF WriteKubeconfig
    <2> QED
        BY <1>4, <2>2, <2>3, <2>4, <2>5 DEF Written
<1>10. CASE WriteProfile(r)
    <2>1. mode[r] = "vpn" /\ files[Dir[r]] = [a \in Artifacts |-> IF a = "client.ovpn" THEN NoRun ELSE r]
        BY <1>10 DEF WriteProfile, Written
    <2>2. files'[Dir[r]] = [files[Dir[r]] EXCEPT !["client.ovpn"] = r]
        BY <1>10, WriteFrame, Types DEF WriteProfile, Artifacts, TypeOK
    <2>3. files'[Dir[r]] = Bundle(r)
        BY <2>1, <2>2 DEF Bundle, Artifacts
    <2>4. step'[r] = "available"
        BY Leads, <1>10 DEF WriteProfile
    <2> QED
        BY <1>4, <2>3, <2>4 DEF Written
<1>11. CASE Expire(r) \/ ReconcileStep(r)
    BY <1>6, <1>11 DEF Expire, ReconcileStep, exportVars
<1>12. CASE \/ Lock(r) \/ LockHeld(r) \/ ClearFails(r) \/ InitFails(r) \/ ApplyFails(r)
            \/ ReadModeFails(r) \/ ReadPublicFails(r) \/ ReadPrivateFails(r) \/ ValidateFails(r)
            \/ WriteKubeconfigFails(r) \/ WriteProfileFails(r) \/ Discard(r) \/ Compensate(r)
    BY Leads, <1>5, <1>12 DEF Lock, LockHeld, ClearFails, InitFails, ApplyFails,
        ReadModeFails, ReadPublicFails, ReadPrivateFails, ValidateFails, WriteKubeconfigFails,
        WriteProfileFails, Discard, Compensate, Knowing
<1>13. CASE \/ PersistAvailable(r) \/ PersistAvailableFails(r) \/ PersistUnavailable(r)
            \/ PersistUnavailableFails(r) \/ PersistUnsupported(r) \/ PersistUnsupportedFails(r)
            \/ WriteResult(r) \/ Reconciled(r) \/ Crash(r)
    BY Leads, <1>5, <1>13 DEF PersistAvailable, PersistAvailableFails, PersistUnavailable,
        PersistUnavailableFails, PersistUnsupported, PersistUnsupportedFails, WriteResult,
        Reconciled, Crash, Knowing
<1> QED
    BY <1>7, <1>8, <1>9, <1>10, <1>11, <1>12, <1>13 DEF RunStep

\* The only artifacts a run writes into a directory are its own, next to none of
\* another run.
LEMMA RunUnmixed ==
    ASSUME TypeOK, NEW r \in Runs, Written(r), RunStep(r) \/ Expire(r) \/ Crash(r)
    PROVE  \/ \A a \in Artifacts : files'[Dir[r]][a] \in {files[Dir[r]][a], NoRun}
           \/ \A a \in Artifacts : files'[Dir[r]][a] \in {r, NoRun}
<1>1. ASSUME NEW kept, Remove(r, kept)
      PROVE  \A a \in Artifacts : files'[Dir[r]][a] \in {files[Dir[r]][a], NoRun}
    BY <1>1, RemoveFrame, Types DEF TypeOK
<1>2. ASSUME NEW artifact \in Artifacts, Write(r, artifact), step[r] \in {"kubeconfig", "profile"}
      PROVE  \A a \in Artifacts : files'[Dir[r]][a] \in {r, NoRun}
    <2>1. \A a \in Artifacts : files[Dir[r]][a] \in {r, NoRun}
        BY <1>2 DEF Written, NoFiles
    <2>2. files'[Dir[r]] = [files[Dir[r]] EXCEPT ![artifact] = r]
        BY <1>2, WriteFrame, Types DEF TypeOK
    <2> QED
        BY <2>1, <2>2, Types
<1>3. CASE files' = files
    BY <1>3
<1>4. CASE Clear(r) \/ ClearFails(r) \/ Discard(r) \/ Compensate(r)
    BY <1>1, <1>4 DEF Clear, ClearFails, Discard, Compensate
<1>5. CASE WriteKubeconfig(r) \/ WriteKubeconfigFails(r) \/ WriteProfile(r) \/ WriteProfileFails(r)
    BY <1>2, <1>3, <1>5 DEF WriteKubeconfig, WriteKubeconfigFails, WriteProfile,
        WriteProfileFails, Artifacts
<1>6. CASE \/ Lock(r) \/ LockHeld(r) \/ InitDone(r) \/ InitFails(r) \/ ApplyDone(r) \/ ApplyFails(r)
           \/ ReadMode(r) \/ ReadModeFails(r) \/ ReadPublic(r) \/ ReadPublicFails(r)
           \/ ReadPrivate(r) \/ ReadPrivateFails(r) \/ Validate(r) \/ ValidateFails(r)
    BY <1>3, <1>6 DEF Lock, LockHeld, InitDone, InitFails, ApplyDone, ApplyFails, ReadMode,
        ReadModeFails, ReadPublic, ReadPublicFails, ReadPrivate, ReadPrivateFails, Validate,
        ValidateFails
<1>7. CASE \/ PersistAvailable(r) \/ PersistAvailableFails(r) \/ PersistUnavailable(r)
           \/ PersistUnavailableFails(r) \/ PersistUnsupported(r) \/ PersistUnsupportedFails(r)
           \/ WriteResult(r) \/ ReconcileStep(r) \/ Reconciled(r) \/ Expire(r) \/ Crash(r)
    BY <1>3, <1>7 DEF PersistAvailable, PersistAvailableFails, PersistUnavailable,
        PersistUnavailableFails, PersistUnsupported, PersistUnsupportedFails, WriteResult,
        ReconcileStep, Reconciled, Expire, Crash, exportVars
<1> QED
    BY <1>4, <1>5, <1>6, <1>7 DEF RunStep

\* A call that has begun keeps its arguments, a certificate that was issued stays
\* issued.
LEMMA StoreKeeps ==
    ASSUME Proved!CallerInv, [Next]_vars
    PROVE  /\ \A c \in Cleaners : stage[c] # "idle" => stage'[c] # "idle" /\ call'[c] = call[c]
           /\ \A id \in Ids : cert[id] # "unissued" => cert'[id] # "unissued"
<1>1. Proved!TypeOK /\ [Proved!Next]_(Proved!vars)
    BY StoreNext, SameNext DEF storeVars, Proved!vars, Proved!CallerInv, Proved!Inv
<1> QED
    BY <1>1, SameConstants, Proved!CallStays, Proved!AllAge DEF Proved!Aged

\* A run calls the cleanup once, with its own attempt, and waits for its end.
LEMMA RunCalled ==
    ASSUME TypeOK, Proved!CallerInv, [Next]_vars, NEW r \in Runs, Called(r), Frame(r),
           RunStep(r) \/ Expire(r) \/ Crash(r)
    PROVE  Called(r)'
<1>3. r \in Cleaners /\ stage \in [Cleaners -> Cleanup!Stages] /\ r \in DOMAIN call
    BY DEF Cleaners, TypeOK, Cleanup!TypeOK
<1>4. stage[r] # "idle" => stage'[r] # "idle" /\ call'[r] = call[r]
    BY <1>3, StoreKeeps
<1>5. ASSUME UNCHANGED storeVars, stage[r] = "idle", step'[r] # "cleanup" PROVE Called(r)'
    BY <1>5 DEF Called, storeVars, Cleanup!Running
<1>6. ASSUME NEW explicit \in {<<>>, <<CertOf[r]>>}, Reconcile(r, explicit), stage[r] = "idle"
      PROVE  Called(r)'
    <2>1. CASE r \in Policied
        <3>1. step'[r] = "cleanup" /\ stage'[r] = "reconcile"
            BY Leads, <1>3, <1>6, <2>1 DEF Reconcile, Cleanup!Call
        <3>2. /\ call'[r].allocation = Owner[CertOf[r]].allocation
              /\ call'[r].attempt = Owner[CertOf[r]].attempt
              /\ call'[r].explicit = explicit
            BY <1>3, <1>6, <2>1 DEF Reconcile, Cleanup!Call, AttemptCall
        <3> QED
            BY <3>1, <3>2 DEF Called
    <2>2. CASE r \notin Policied
        BY Leads, <1>5, <1>6, <2>2 DEF Reconcile
    <2> QED
        BY <2>1, <2>2
<1>7. CASE \/ ApplyFails(r) \/ ReadModeFails(r) \/ ReadPrivateFails(r) \/ ValidateFails(r)
           \/ WriteKubeconfigFails(r) \/ Discard(r) \/ Compensate(r)
    <2>1. stage[r] = "idle"
        BY <1>7 DEF ApplyFails, ReadModeFails, ReadPrivateFails, ValidateFails,
            WriteKubeconfigFails, Discard, Compensate, Called, Ended
    <2> QED
        BY Leads, <1>5, <1>6, <1>7, <2>1 DEF ApplyFails, ReadModeFails, ReadPrivateFails,
            ValidateFails, WriteKubeconfigFails, Discard, Compensate
<1>8. CASE \/ Lock(r) \/ LockHeld(r) \/ Clear(r) \/ ClearFails(r) \/ InitDone(r) \/ InitFails(r)
           \/ ApplyDone(r) \/ ReadMode(r) \/ ReadPublic(r) \/ ReadPublicFails(r)
           \/ ReadPrivate(r) \/ Validate(r) \/ WriteKubeconfig(r) \/ WriteProfile(r)
           \/ WriteProfileFails(r)
    <2>1. UNCHANGED storeVars
        BY <1>8 DEF Lock, LockHeld, Clear, ClearFails, InitDone, InitFails, ApplyDone,
            ReadMode, ReadPublic, ReadPublicFails, ReadPrivate, Validate, WriteKubeconfig,
            WriteProfile, WriteProfileFails
    <2>2. stage[r] = "idle"
        BY <1>8 DEF Lock, LockHeld, Clear, ClearFails, InitDone, InitFails, ApplyDone,
            ReadMode, ReadPublic, ReadPublicFails, ReadPrivate, Validate, WriteKubeconfig,
            WriteProfile, WriteProfileFails, Called, Ended
    <2>3. step'[r] # "cleanup"
        BY Leads, <1>8 DEF Lock, LockHeld, Clear, ClearFails, InitDone, InitFails,
            ApplyDone, ReadMode, ReadPublic, ReadPublicFails, ReadPrivate, Validate,
            WriteKubeconfig, WriteProfile, WriteProfileFails
    <2> QED
        BY <1>5, <2>1, <2>2, <2>3
<1>9. CASE \/ PersistAvailable(r) \/ PersistAvailableFails(r)
           \/ PersistUnsupported(r) \/ PersistUnsupportedFails(r)
    <2>1. UNCHANGED storeVars /\ stage[r] = "idle"
        BY <1>9 DEF PersistAvailable, PersistAvailableFails, PersistUnsupported,
            PersistUnsupportedFails, Called, Ended
    <2>2. step'[r] \in {"result", "error", "compensate"}
        BY Leads, <1>9 DEF PersistAvailable, PersistAvailableFails, PersistUnsupported,
            PersistUnsupportedFails
    <2> QED
        BY <1>5, <2>1, <2>2
<1>10. CASE \/ PersistUnavailable(r) \/ PersistUnavailableFails(r) \/ WriteResult(r)
    <2>1. step[r] \in {"unavailable", "result"} /\ stage' = stage /\ call' = call
        BY <1>10 DEF PersistUnavailable, PersistUnavailableFails, WriteResult, storeVars
    <2>2. step'[r] \in {"result", "error", "ok"}
        BY Leads, <1>10 DEF PersistUnavailable, PersistUnavailableFails, WriteResult
    <2> QED
        BY <2>1, <2>2 DEF Called, Ended
<1>11. CASE ReconcileStep(r)
    <2>1. step[r] = "cleanup" /\ step' = step
        BY <1>11 DEF ReconcileStep, exportVars
    <2> QED
        BY <1>4, <2>1 DEF Called
<1>12. CASE Reconciled(r)
    <2>1. stage[r] = "done" /\ stage' = stage /\ call' = call /\ step'[r] = "unavailable"
        BY Leads, <1>12 DEF Reconciled, storeVars
    <2> QED
        BY <2>1 DEF Called, Cleanup!Running
<1>13. CASE Expire(r)
    <2>1. step' = step /\ stage' = stage /\ call' = call
        BY <1>13 DEF Expire, storeVars
    <2> QED
        BY <2>1 DEF Called
<1>14. CASE Crash(r)
    <2>1. step'[r] = "crashed" /\ stage'[r] \notin Cleanup!Running
        BY Leads, <1>3, <1>14 DEF Crash, Cleanup!Crash, Cleanup!Running, storeVars
    <2>2. stage[r] = "idle" => stage'[r] = "idle"
        BY <1>14 DEF Crash, Cleanup!Crash, Cleanup!Running, storeVars
    <2> QED
        BY <1>4, <2>1, <2>2 DEF Called, Ended
<1> QED
    BY <1>7, <1>8, <1>9, <1>10, <1>11, <1>12, <1>13, <1>14 DEF RunStep

\* A VPN run is past its apply only with its certificate issued.
LEMMA RunIssued ==
    ASSUME TypeOK, Proved!CallerInv, [Next]_vars, NEW r \in Runs, Issued(r), Frame(r),
           RunStep(r) \/ Expire(r) \/ Crash(r)
    PROVE  Issued(r)'
<1>4. mode' = mode /\ (cert[CertOf[r]] # "unissued" => cert'[CertOf[r]] # "unissued")
    BY Types, StoreKeeps DEF Frame
<1>5. ASSUME step'[r] \in Past, step[r] \notin Past, mode[r] = "vpn"
      PROVE  cert'[CertOf[r]] # "unissued"
    <2>0. ~ReadPublic(r)
        BY <1>5 DEF ReadPublic, Issued
    <2>1. ApplyDone(r)
        <3>1. CASE \/ Lock(r) \/ LockHeld(r) \/ Clear(r) \/ ClearFails(r) \/ InitDone(r)
                   \/ InitFails(r) \/ ApplyFails(r) \/ ReadMode(r) \/ ReadModeFails(r)
                   \/ ReadPublicFails(r) \/ ReadPrivate(r)
                   \/ ReadPrivateFails(r) \/ Validate(r) \/ ValidateFails(r)
            BY Leads, <1>5, <3>1 DEF Past, Lock, LockHeld, Clear, ClearFails,
                InitDone, InitFails, ApplyFails, ReadMode, ReadModeFails, ReadPublicFails, ReadPrivate, ReadPrivateFails, Validate, ValidateFails
        <3>2. CASE \/ WriteKubeconfig(r) \/ WriteKubeconfigFails(r) \/ WriteProfile(r)
                   \/ WriteProfileFails(r) \/ Discard(r) \/ Compensate(r) \/ ReconcileStep(r)
                   \/ Reconciled(r) \/ Expire(r) \/ Crash(r)
            BY Leads, <1>5, <3>2 DEF Past, WriteKubeconfig, WriteKubeconfigFails,
                WriteProfile, WriteProfileFails, Discard, Compensate, ReconcileStep,
                Reconciled, Expire, Crash, exportVars
        <3>3. CASE \/ PersistAvailable(r) \/ PersistAvailableFails(r) \/ PersistUnavailable(r)
                   \/ PersistUnavailableFails(r) \/ PersistUnsupported(r)
                   \/ PersistUnsupportedFails(r) \/ WriteResult(r)
            BY Leads, <1>5, <3>3 DEF Past, PersistAvailable, PersistAvailableFails,
                PersistUnavailable, PersistUnavailableFails, PersistUnsupported,
                PersistUnsupportedFails, WriteResult
        <3> QED
            BY <2>0, <3>1, <3>2, <3>3 DEF RunStep
    <2> QED
        BY <1>4, <1>5, <2>1 DEF ApplyDone
<1>6. mode[r] = "vpn" /\ step'[r] \in Past => cert'[CertOf[r]] # "unissued"
    BY <1>4, <1>5 DEF Issued
<1>7. step'[r] = "public-outputs" => mode[r] = "public"
    <2>1. CASE ReadMode(r)
        BY Leads, <2>1 DEF ReadMode
    <2>2. CASE step'[r] = step[r]
        BY <2>2 DEF Issued
    <2>3. CASE \/ Lock(r) \/ LockHeld(r) \/ Clear(r) \/ ClearFails(r) \/ InitDone(r)
               \/ InitFails(r) \/ ApplyDone(r) \/ ApplyFails(r) \/ ReadModeFails(r)
               \/ ReadPublic(r) \/ ReadPublicFails(r) \/ ReadPrivate(r)
               \/ ReadPrivateFails(r) \/ Validate(r) \/ ValidateFails(r)
        BY Leads, <2>3 DEF Lock, LockHeld, Clear, ClearFails, InitDone, InitFails,
            ApplyDone, ApplyFails, ReadModeFails, ReadPublic, ReadPublicFails, ReadPrivate,
            ReadPrivateFails, Validate, ValidateFails
    <2>4. CASE \/ WriteKubeconfig(r) \/ WriteKubeconfigFails(r) \/ WriteProfile(r)
               \/ WriteProfileFails(r) \/ Discard(r) \/ Compensate(r) \/ ReconcileStep(r)
               \/ Reconciled(r) \/ Expire(r) \/ Crash(r)
        BY Leads, <2>2, <2>4 DEF WriteKubeconfig, WriteKubeconfigFails, WriteProfile,
            WriteProfileFails, Discard, Compensate, ReconcileStep, Reconciled, Expire, Crash,
            exportVars
    <2>5. CASE \/ PersistAvailable(r) \/ PersistAvailableFails(r) \/ PersistUnavailable(r)
               \/ PersistUnavailableFails(r) \/ PersistUnsupported(r)
               \/ PersistUnsupportedFails(r) \/ WriteResult(r)
        BY Leads, <2>5 DEF PersistAvailable, PersistAvailableFails, PersistUnavailable,
            PersistUnavailableFails, PersistUnsupported, PersistUnsupportedFails, WriteResult
    <2> QED
        BY <2>1, <2>3, <2>4, <2>5 DEF RunStep
<1> QED
    BY <1>4, <1>6, <1>7 DEF Issued

\* A bundle that is offered was written by a run that asked for no cleanup.
LEMMA RunKept ==
    ASSUME TypeOK, Proved!CallerInv, [Next]_vars, NEW r \in Runs, RunInv(r), Frame(r), Turn(r)
    PROVE  Kept(r)'
<1> SUFFICES ASSUME Offering(r)'
             PROVE  stage'[r] = "idle" /\ cert'[CertOf[r]] # "unissued"
    BY DEF Kept
<1>1. mode' = mode /\ (cert[CertOf[r]] # "unissued" => cert'[CertOf[r]] # "unissued")
    BY Types, StoreKeeps DEF Frame
<1>2. CASE step[r] \notin Inside
    <2>1. UNCHANGED <<manifest, storeVars>> /\ step[r] \in {"result", "ok"}
        BY <1>2 DEF Turn, Offering
    <2>2. Offering(r)
        BY <1>1, <2>1 DEF Offering
    <2> QED
        BY <1>1, <2>1, <2>2 DEF RunInv, Kept, storeVars
<1>3. CASE step[r] \in Inside
    <2>1. step[r] = "available" /\ UNCHANGED storeVars /\ mode[r] = "vpn"
        BY <1>1, <1>3 DEF Turn, Offering, Calm
    <2>2. stage[r] = "idle" /\ cert[CertOf[r]] # "unissued"
        BY <2>1 DEF RunInv, Called, Issued, Past, Ended
    <2> QED
        BY <1>1, <2>1, <2>2 DEF storeVars
<1> QED
    BY <1>2, <1>3

\* A run inside owns the lock file.
LEMMA RunHolds ==
    ASSUME TypeOK, NEW r \in Runs, Holds(r), Turn(r)
    PROVE  Holds(r)'
BY DEF Holds, Turn

\* The step of another run leaves what a run relies on in place: in its own
\* directory the other run is not inside.
LEMMA OtherRun ==
    ASSUME TypeOK, Proved!CallerInv, [Next]_vars, NEW r \in Runs, RunInv(r), Frame(r), Turn(r),
           NEW q \in Runs, q # r, RunInv(q), Alone(q)
    PROVE  RunInv(q)'
<1>1. /\ mode' = mode /\ step'[q] = step[q] /\ Bundle(q)' = Bundle(q)
      /\ stage'[q] = stage[q] /\ call'[q] = call[q]
      /\ cert[CertOf[q]] # "unissued" => cert'[CertOf[q]] # "unissued"
    BY Types, StoreKeeps DEF Frame, Bundle, Alone, TypeOK
<1>2. Dir[q] # Dir[r] => /\ lock'[Dir[q]] = lock[Dir[q]] /\ files'[Dir[q]] = files[Dir[q]]
                         /\ manifest'[Dir[q]] = manifest[Dir[q]]
    BY Types DEF Frame, TypeOK
<1>3. Dir[q] = Dir[r] /\ step[q] \in Inside => lock' = lock /\ files' = files
    <2> SUFFICES ASSUME Dir[q] = Dir[r], step[q] \in Inside PROVE lock' = lock /\ files' = files
        OBVIOUS
    <2>1. lock[Dir[r]] = q /\ q # NoRun /\ step[r] \notin Inside
        BY ExportAssumption DEF RunInv, Holds
    <2> QED
        BY <2>1 DEF Turn
<1>4. Holds(q)'
    BY <1>1, <1>2, <1>3 DEF RunInv, Holds
<1>5. Written(q)'
    BY <1>1, <1>2, <1>3 DEF RunInv, Written, Inside
<1>6. Called(q)' /\ Issued(q)'
    BY <1>1 DEF RunInv, Called, Issued
<1>7. Kept(q)'
    <2>1. Offering(q)' => Offering(q)
        BY <1>1, <1>2 DEF Offering, Turn
    <2> QED
        BY <1>1, <2>1 DEF RunInv, Kept
<1> QED
    BY <1>4, <1>5, <1>6, <1>7 DEF RunInv

\* The directories after a run's step.
LEMMA RunComplete ==
    ASSUME TypeOK, NEW r \in Runs, Written(r), Frame(r), Turn(r), NEW d \in Dirs, Complete(d)
    PROVE  Complete(d)'
<1>1. /\ \A q \in Runs : Bundle(q)' = Bundle(q)
      /\ \A q \in Runs : q # r => step'[q] = step[q]
    BY DEF Frame, Bundle, TypeOK
<1> SUFFICES ASSUME \A q \in RunsOf(d) : step'[q] \in Calm, NEW p \in Runs,
                    manifest'[d] # NoManifest, manifest'[d].by = p,
                    manifest'[d].availability = "available"
             PROVE  files'[d] = Bundle(p)
    BY <1>1 DEF Complete, RunsOf
<1>2. CASE files'[d] = files[d] /\ manifest'[d] = manifest[d] /\ \A q \in RunsOf(d) : step[q] \in Calm
    BY <1>2 DEF Complete
<1>3. CASE Dir[r] # d
    <2>1. files'[d] = files[d] /\ manifest'[d] = manifest[d]
        BY <1>3, Types DEF Frame, TypeOK
    <2>2. \A q \in RunsOf(d) : q # r
        BY <1>3 DEF RunsOf
    <2> QED
        BY <1>1, <1>2, <2>1, <2>2 DEF RunsOf
<1>4. CASE Dir[r] = d /\ step[r] \notin Inside
    <2>1. files' = files /\ manifest' = manifest
        BY <1>4 DEF Turn
    <2>2. step[r] \in Calm
        BY <1>4 DEF Turn, RunsOf
    <2> QED
        BY <1>1, <1>2, <2>1, <2>2 DEF RunsOf
<1>5. CASE Dir[r] = d /\ step[r] \in Inside
    <2>1. step[r] = "available" /\ files' = files /\ manifest'[d].by = r
        BY <1>5 DEF Turn, RunsOf
    <2> QED
        BY <1>5, <2>1 DEF Written
<1> QED
    BY <1>3, <1>4, <1>5

\* TypeOK, in the order of its conjuncts.
LEMMA FrameType ==
    ASSUME TypeOK, NEW r \in Runs, Frame(r), Proved!CallerInv'
    PROVE  TypeOK'
<1>1. mode' \in [Runs -> Modes] /\ step' \in [Runs -> Steps]
    BY DEF TypeOK, Frame
<1>2. lock' \in [Dirs -> Runs \cup {NoRun}]
    BY Types DEF TypeOK, Frame
<1>3. /\ files' \in [Dirs -> [Artifacts -> Runs \cup {NoRun}]]
      /\ manifest' \in [Dirs -> Manifests \cup {NoManifest}]
    BY DEF TypeOK, Frame
<1>4. Cleanup!TypeOK'
    BY StoreType
<1> QED
    BY <1>1, <1>2, <1>3, <1>4 DEF TypeOK, Frame

\* The invariant through the step of a run, and through every other step.
LEMMA RunStepInv ==
    ASSUME IInv, Proved!CallerInv, Proved!CallerInv', [Next]_vars, NEW r \in Runs,
           RunStep(r) \/ Expire(r) \/ Crash(r)
    PROVE  IInv'
<1>1. TypeOK /\ RunInv(r) /\ Called(r) /\ Written(r) /\ Issued(r) /\ Holds(r)
    BY DEF IInv, RunInv
<1>2. Frame(r) /\ Turn(r)
    BY <1>1, RunFrame, RunTurn
<1>3. TypeOK'
    BY <1>1, <1>2, FrameType
<1>4. RunInv(r)'
    BY <1>1, <1>2, RunHolds, RunWritten, RunCalled, RunIssued, RunKept DEF RunInv
<1>5. ASSUME NEW q \in Runs, q # r PROVE RunInv(q)'
    <2>1. RunInv(q) /\ Alone(q)
        BY <1>5, RunAlone DEF IInv
    <2> QED
        BY <1>1, <1>2, <1>5, <2>1, OtherRun
<1>6. ASSUME NEW d \in Dirs PROVE Complete(d)'
    BY <1>1, <1>2, RunComplete DEF IInv
<1>7. NoMixedBundle'
    <2> SUFFICES ASSUME NEW d \in Dirs, NEW a \in Artifacts, NEW b \in Artifacts,
                        files'[d][a] # NoRun, files'[d][b] # NoRun
                 PROVE  files'[d][a] = files'[d][b]
        BY DEF NoMixedBundle
    <2>1. CASE d # Dir[r]
        <3>1. files'[d] = files[d]
            BY <1>1, <1>2, <2>1, Types DEF Frame, TypeOK
        <3> QED
            BY <3>1 DEF IInv, NoMixedBundle
    <2>2. CASE d = Dir[r]
        BY <1>1, <2>2, RunUnmixed DEF IInv, NoMixedBundle
    <2> QED
        BY <2>1, <2>2
<1> QED
    BY <1>3, <1>4, <1>5, <1>6, <1>7 DEF IInv

LEMMA RestStepInv ==
    ASSUME IInv, Proved!CallerInv, Proved!CallerInv', [Next]_vars, UNCHANGED exportVars,
           \A r \in Runs : Alone(r)
    PROVE  IInv'
<1>1. TypeOK'
    BY StoreType DEF IInv, TypeOK, exportVars
<1>2. ASSUME NEW r \in Runs PROVE RunInv(r)'
    <2>1. RunInv(r) /\ TypeOK /\ Alone(r)
        BY DEF IInv
    <2>2. cert[CertOf[r]] # "unissued" => cert'[CertOf[r]] # "unissued"
        BY <2>1, Types, StoreKeeps
    <2>3. Holds(r)' /\ Written(r)'
        BY <2>1 DEF RunInv, Holds, Written, Bundle, exportVars
    <2>4. Called(r)' /\ Issued(r)' /\ Kept(r)'
        BY <2>1, <2>2 DEF RunInv, Called, Issued, Kept, Offering, Alone, exportVars
    <2> QED
        BY <2>3, <2>4 DEF RunInv
<1>3. NoMixedBundle'
    BY DEF IInv, NoMixedBundle, exportVars
<1>4. ASSUME NEW d \in Dirs PROVE Complete(d)'
    BY DEF IInv, Complete, Bundle, exportVars
<1> QED
    BY <1>1, <1>2, <1>3, <1>4 DEF IInv

LEMMA InitIInv == Init => IInv
<1> SUFFICES ASSUME Init PROVE IInv
    OBVIOUS
<1>1. TypeOK
    <2>1. Cleanup!TypeOK
        BY StoreInit, SameType DEF Proved!CallerInv, Proved!Inv
    <2>2. mode \in [Runs -> Modes]
        BY DEF Init
    <2> QED
        BY <2>1, <2>2 DEF Init, TypeOK, NoFiles, Steps
<1>2. ASSUME NEW r \in Runs PROVE RunInv(r)
    <2>1. step[r] = "start" /\ stage[r] = "idle"
        BY DEF Init, Cleanup!Init, Cleaners
    <2> QED
        BY <2>1 DEF Init, RunInv, Holds, Written, Called, Issued, Kept, Offering, Inside, Past,
            Cleanup!Running
<1>3. NoMixedBundle
    BY DEF Init, NoMixedBundle, NoFiles
<1>4. ASSUME NEW d \in Dirs PROVE Complete(d)
    BY DEF Init, Complete
<1> QED
    BY <1>1, <1>2, <1>3, <1>4 DEF IInv

LEMMA NextIInv == IInv /\ Proved!CallerInv /\ [Next]_vars => IInv'
<1> SUFFICES ASSUME IInv, Proved!CallerInv, [Next]_vars PROVE IInv'
    OBVIOUS
<1>1. Proved!CallerInv'
    BY StoreInv
<1>2. CASE \E r \in Runs : RunStep(r) \/ Expire(r) \/ Crash(r)
    BY <1>1, <1>2, RunStepInv
<1>3. CASE ~\E r \in Runs : RunStep(r) \/ Expire(r) \/ Crash(r)
    <2>1. UNCHANGED exportVars
        BY <1>3, WhoSteps DEF vars, exportVars
    <2>2. \A r \in Runs : Alone(r)
        BY <1>3, WhoSteps, RestAlone
    <2> QED
        BY <1>1, <2>1, <2>2, RestStepInv
<1> QED
    BY <1>2, <1>3

\* The inductive invariant holds of every execution.
THEOREM Invariance == Spec => [](IInv /\ Proved!CallerInv)
<1> QED
    BY InitIInv, StoreInit, NextIInv, StoreInv, PTL DEF Spec

\* The variables keep their types, for any number of runs and owners: a manifest
\* always holds a verdict that the cleanup gave (auth.go:419-508).
THEOREM TypeCorrect == Spec => []TypeOK
<1> QED
    BY Invariance, PTL DEF IInv

\* auth.go:269-306 - the artifacts of one directory never come from two runs, for
\* any number of runs that fail, are killed or keep their lock file.
THEOREM NeverMixed == Spec => []NoMixedBundle
<1> QED
    BY Invariance, PTL DEF IInv

\* auth.go:397-406,454-466 - "available" means complete, in every directory whose
\* runs ended with success.
THEOREM AvailableComplete == Spec => []AvailableIsComplete
<1>1. IInv => AvailableIsComplete
    <2> SUFFICES ASSUME IInv, NEW d \in Dirs, Settled(d), manifest[d] # NoManifest,
                        manifest[d].availability = "available"
                 PROVE  files[d] = Bundle(manifest[d].by)
        BY DEF AvailableIsComplete
    <2>1. manifest[d].by \in Runs
        BY DEF IInv, TypeOK, Manifests
    <2>2. \A r \in RunsOf(d) : step[r] \in Calm
        BY DEF Settled, Calm
    <2>3. Complete(d)
        BY DEF IInv
    <2> QED
        BY <2>1, <2>2, <2>3 DEF Complete
<1> QED
    BY <1>1, Invariance, PTL

\* Two runs do not clean up the certificates of each other.
LEMMA OwnScope ==
    ASSUME IInv, NEW r \in Runs, NEW q \in Runs, stage[q] # "idle",
           Cleanup!InScope(call[q], CertOf[r])
    PROVE  q = r
<1>1. /\ call[q].allocation = Owner[CertOf[q]].allocation
      /\ call[q].attempt = Owner[CertOf[q]].attempt
    BY DEF IInv, RunInv, Called
<1>2. /\ Owner[CertOf[r]].allocation = Owner[CertOf[q]].allocation
      /\ Owner[CertOf[r]].attempt = Owner[CertOf[q]].attempt
    BY <1>1, ExportAssumption DEF Cleanup!InScope
<1>3. Owner[CertOf[r]] \in Cleanup!Ownership /\ Owner[CertOf[q]] \in Cleanup!Ownership
    BY ExportAssumption, GroupAssumption DEF Cleanup!ConstantsAssumption
<1>4. Owner[CertOf[r]] = Owner[CertOf[q]]
    BY <1>2, <1>3 DEF Cleanup!Ownership
<1> QED
    BY <1>4, ExportAssumption

\* auth.go:419-508 - the certificate of a bundle offered as available is alive or
\* was in the scope of an owner's call, for any number of runs that fail and
\* clean up beside it.
THEOREM CertificateLives == Spec => []AvailableCertificateLives
<1>1. IInv /\ Proved!CallerInv => AvailableCertificateLives
    <2> SUFFICES ASSUME IInv, Proved!CallerInv, NEW r \in Runs, Offering(r),
                        cert[CertOf[r]] # "live"
                 PROVE  \E o \in Owners : stage[o] # "idle" /\ Cleanup!InScope(call[o], CertOf[r])
        BY DEF AvailableCertificateLives, Offering
    <2>1. stage[r] = "idle" /\ cert[CertOf[r]] # "unissued" /\ CertOf[r] \in Ids
        BY ExportAssumption DEF IInv, RunInv, Kept
    <2>2. cert[CertOf[r]] = "deleted"
        BY <2>1 DEF IInv, TypeOK, Cleanup!TypeOK
    <2>3. PICK c \in Cleaners : stage[c] # "idle" /\ Proved!InScope(call[c], CertOf[r])
        BY <2>1, <2>2 DEF Proved!CallerInv, Proved!Reclaimed
    <2>4. Cleanup!InScope(call[c], CertOf[r])
        BY <2>3, SameScope
    <2>5. c \notin Runs
        BY <2>1, <2>3, <2>4, OwnScope
    <2> QED
        BY <2>3, <2>4, <2>5 DEF Cleaners
<1> QED
    BY <1>1, Invariance, PTL

-----------------------------------------------------------------------------
(***************************************************************************)
(* NoSilentLeak.  The manifest of a run that reached its result is the last*)
(* one it wrote (Declared): it offers the bundle, or no certificate was    *)
(* ever issued (Unspent), or it repeats the verdict of the run's cleanup.  *)
(* What a verdict means is proved in CertificateCleanupProofs: a pending   *)
(* one names what the run asked for or its attempt (Proved!Named), after a *)
(* "cleaned" one the named certificate is deleted and what was due is, too,*)
(* unless the listing shifted (Proved!CleanedMeans).                       *)
(***************************************************************************)
\* Where a run is when no certificate can have been issued for it.
Early(r) ==
    \/ mode[r] # "vpn"
    \/ step[r] \in {"start", "clear", "init", "unsupported"}
    \/ step[r] = "unavailable" /\ stage[r] = "idle"
Unspent(r) == Early(r) => cert[CertOf[r]] = "unissued"

Told(r) ==
    \/ manifest[Dir[r]].availability = "available"
    \/ stage[r] = "idle" /\ cert[CertOf[r]] = "unissued"
    \/ /\ stage[r] = "done"
       /\ manifest[Dir[r]].cleanup = outcome[r].status
       /\ manifest[Dir[r]].certificate = outcome[r].certificate
Declared(r) ==
    step[r] \in {"result", "ok"} =>
        /\ manifest[Dir[r]] \in Manifests
        /\ manifest[Dir[r]].by = r => Told(r)

Ledger == \A r \in Runs : Unspent(r) /\ Declared(r)
LedgerInv == IInv /\ Proved!CallerInv /\ Proved!VerdictInv /\ Ledger

\* The verdicts of the calls, through every step.
LEMMA VerdictInit == Init => Proved!VerdictInv
BY SameInit, SameConstants, Proved!InitVerdict DEF Init

LEMMA VerdictNext == Proved!VerdictInv /\ [Next]_vars => Proved!VerdictInv'
<1>1. [Next]_vars => [Proved!Next]_(Proved!vars)
    BY StoreNext, SameNext DEF storeVars, Proved!vars
<1> QED
    BY <1>1, SameConstants, Proved!NextVerdict

\* ibm_sm_private_certificate - the certificate of a run is issued by its own apply.
LEMMA OwnIssue ==
    ASSUME TypeOK, Proved!CallerInv, [Next]_vars, NEW r \in Runs,
           cert[CertOf[r]] = "unissued", cert'[CertOf[r]] # "unissued"
    PROVE  step[r] = "apply" /\ mode[r] = "vpn"
<1>1. CertOf[r] \in Ids /\ Proved!Inv /\ Proved!TypeOK
    BY Types DEF Proved!CallerInv, Proved!Inv
<1>2. cert'[CertOf[r]] # "deleted"
    <2>1. [Proved!Next]_(Proved!vars)
        BY StoreNext, SameNext DEF storeVars, Proved!vars
    <2> QED
        BY <1>1, <2>1, SameConstants, Proved!UnissuedStays
<1>3. ASSUME NEW c \in Cleaners, Cleanup!AuthCleanup(c) \/ Cleanup!Request(c) \/ Cleanup!Crash(c)
      PROVE  FALSE
    <2>1. Proved!AuthCleanup(c) \/ Proved!Request(c) \/ Proved!Crash(c)
        BY <1>3, SameCall, SameRequest, SameCrash
    <2> QED
        BY <1>1, <1>2, <2>1, SameConstants, Proved!CallsOnlyDelete
<1>4. ASSUME NEW q \in Runs, RunStep(q) \/ Expire(q) \/ Crash(q) PROVE FALSE
    <2>1. q \in Cleaners
        BY DEF Cleaners
    <2> QED
        BY <1>3, <1>4, <2>1, RunStore DEF storeVars
<1>5. ASSUME NEW o \in Owners, OwnerStep(o) \/ Cleanup!AuthCleanup(o) \/ Cleanup!Crash(o)
      PROVE  FALSE
    <2>1. o \in Cleaners
        BY DEF Cleaners
    <2> QED
        BY <1>3, <1>5, <2>1 DEF OwnerStep
<1>6. ASSUME NEW id \in Ids, Cleanup!Issue(id) PROVE id = CertOf[r]
    BY <1>1, <1>6 DEF Cleanup!Issue, TypeOK, Cleanup!TypeOK
<1>7. ASSUME NEW q \in Runs, IssueCertificate(q) PROVE q = r /\ step[r] = "apply" /\ mode[r] = "vpn"
    <2>1. CertOf[q] \in Ids /\ Cleanup!Issue(CertOf[q])
        BY <1>7, Types DEF IssueCertificate
    <2>2. q = r
        BY <1>6, <2>1, ExportAssumption
    <2> QED
        BY <1>7, <2>2 DEF IssueCertificate
<1>8. \A id \in Elsewhere : ~Cleanup!Issue(id)
    BY <1>6 DEF Elsewhere
<1>9. /\ \A id \in Ids : ~Cleanup!Publish(id)
      /\ \A i \in 1..Len(index) : ~Cleanup!Unpublish(i)
      /\ ~UNCHANGED vars
    BY DEF Cleanup!Publish, Cleanup!Unpublish, vars
<1> QED
    BY <1>4, <1>5, <1>7, <1>8, <1>9 DEF Next, Environment

\* No step leads a run back to where nothing was issued.
LEMMA EarlyBefore ==
    ASSUME TypeOK, Proved!CallerInv, NEW r \in Runs, RunInv(r), Frame(r),
           RunStep(r) \/ Expire(r) \/ Crash(r), Early(r)'
    PROVE  Early(r)
<1> SUFFICES ASSUME mode[r] = "vpn" PROVE Early(r)
    BY DEF Early
<1>1. r \in Policied /\ mode' = mode /\ r \in Cleaners /\ r \in DOMAIN stage
    BY ExportAssumption DEF RunInv, Issued, Frame, Cleaners, TypeOK, Cleanup!TypeOK
<1>2. step'[r] \in {"start", "clear", "init", "unsupported"} \/ (step'[r] = "unavailable" /\ stage'[r] = "idle")
    BY <1>1 DEF Early
<1>3. ASSUME NEW explicit, Reconcile(r, explicit) PROVE FALSE
    BY <1>1, <1>2, <1>3, Leads DEF Reconcile
<1>4. CASE \/ ApplyFails(r) \/ ReadModeFails(r) \/ ReadPrivateFails(r) \/ ValidateFails(r)
           \/ WriteKubeconfigFails(r) \/ Discard(r) \/ Compensate(r)
    BY <1>3, <1>4 DEF ApplyFails, ReadModeFails, ReadPrivateFails, ValidateFails,
        WriteKubeconfigFails, Discard, Compensate
<1>5. CASE \/ Lock(r) \/ Clear(r) \/ InitDone(r) \/ InitFails(r)
    BY <1>5 DEF Lock, Clear, InitDone, InitFails, Early
<1>6. CASE \/ LockHeld(r) \/ ClearFails(r) \/ ApplyDone(r) \/ ReadMode(r) \/ ReadPrivate(r)
           \/ Validate(r) \/ WriteKubeconfig(r) \/ WriteProfile(r) \/ WriteProfileFails(r)
    BY <1>2, <1>6, Leads DEF LockHeld, ClearFails, ApplyDone, ReadMode, ReadPrivate, Validate,
        WriteKubeconfig, WriteProfile, WriteProfileFails
<1>7. CASE ReadPublic(r) \/ ReadPublicFails(r)
    BY <1>7 DEF ReadPublic, ReadPublicFails, RunInv, Issued
<1>8. CASE \/ PersistAvailable(r) \/ PersistAvailableFails(r) \/ PersistUnavailable(r)
           \/ PersistUnavailableFails(r) \/ PersistUnsupported(r) \/ PersistUnsupportedFails(r)
           \/ WriteResult(r) \/ Crash(r)
    BY <1>2, <1>8, Leads DEF PersistAvailable, PersistAvailableFails, PersistUnavailable,
        PersistUnavailableFails, PersistUnsupported, PersistUnsupportedFails, WriteResult, Crash
<1>9. CASE ReconcileStep(r) \/ Reconciled(r)
    BY <1>2, <1>9, Leads DEF ReconcileStep, Reconciled, exportVars, storeVars
<1>10. CASE Expire(r)
    BY <1>2, <1>10 DEF Expire, storeVars, Early
<1> QED
    BY <1>4, <1>5, <1>6, <1>7, <1>8, <1>9, <1>10 DEF RunStep

\* A run that reaches its result has just written its manifest.
LEMMA ResultDeclares ==
    ASSUME TypeOK, Proved!CallerInv, NEW r \in Runs, RunInv(r), Unspent(r),
           RunStep(r) \/ Expire(r) \/ Crash(r), step[r] \in Inside, step'[r] \in {"result", "ok"}
    PROVE  manifest'[Dir[r]] \in Manifests /\ Told(r)'
<1>1. Called(r)
    BY DEF RunInv
<1>2. ASSUME NEW m \in Manifests, manifest' = [manifest EXCEPT ![Dir[r]] = m]
      PROVE  manifest'[Dir[r]] = m
    BY <1>2, Types DEF TypeOK
<1>3. CASE PersistAvailable(r)
    <2>1. PICK m \in Manifests :
              manifest' = [manifest EXCEPT ![Dir[r]] = m] /\ m.availability = "available"
        BY <1>3, AvailableFrame DEF PersistAvailable
    <2> QED
        BY <1>2, <2>1 DEF Told
<1>4. CASE PersistUnavailable(r)
    <2>1. PICK m \in Manifests :
              /\ manifest' = [manifest EXCEPT ![Dir[r]] = m]
              /\ stage[r] # "idle" =>
                     m.cleanup = outcome[r].status /\ m.certificate = outcome[r].certificate
        BY <1>1, <1>4, UnavailableFrame DEF PersistUnavailable
    <2>2. UNCHANGED storeVars /\ stage[r] \in {"idle", "done"}
        BY <1>1, <1>4 DEF PersistUnavailable, Called
    <2>3. stage[r] = "idle" => cert[CertOf[r]] = "unissued"
        BY <1>4 DEF PersistUnavailable, Unspent, Early
    <2> QED
        BY <1>2, <2>1, <2>2, <2>3 DEF Told, storeVars
<1>5. CASE PersistUnsupported(r)
    <2>1. PICK m \in Manifests : manifest' = [manifest EXCEPT ![Dir[r]] = m]
        BY <1>5, ManifestFrame DEF PersistUnsupported, Statuses
    <2>2. UNCHANGED storeVars /\ stage[r] = "idle"
        BY <1>1, <1>5 DEF PersistUnsupported, Called, Ended
    <2>3. cert[CertOf[r]] = "unissued"
        BY <1>5 DEF PersistUnsupported, Unspent, Early
    <2> QED
        BY <1>2, <2>1, <2>2, <2>3 DEF Told, storeVars
<1>6. CASE \/ Lock(r) \/ LockHeld(r) \/ Clear(r) \/ ClearFails(r) \/ InitDone(r) \/ InitFails(r)
           \/ ApplyDone(r) \/ ApplyFails(r) \/ ReadMode(r) \/ ReadModeFails(r) \/ ReadPublic(r)
           \/ ReadPublicFails(r) \/ ReadPrivate(r) \/ ReadPrivateFails(r) \/ Validate(r)
           \/ ValidateFails(r)
    BY <1>6, Leads DEF Lock, LockHeld, Clear, ClearFails, InitDone, InitFails, ApplyDone,
        ApplyFails, ReadMode, ReadModeFails, ReadPublic, ReadPublicFails, ReadPrivate,
        ReadPrivateFails, Validate, ValidateFails
<1>7. CASE \/ WriteKubeconfig(r) \/ WriteKubeconfigFails(r) \/ WriteProfile(r)
           \/ WriteProfileFails(r) \/ Discard(r) \/ Compensate(r) \/ ReconcileStep(r)
           \/ Reconciled(r) \/ Expire(r) \/ Crash(r)
    BY <1>7, Leads DEF WriteKubeconfig, WriteKubeconfigFails, WriteProfile, WriteProfileFails,
        Discard, Compensate, ReconcileStep, Reconciled, Expire, Crash, exportVars, Inside
<1>8. CASE \/ PersistAvailableFails(r) \/ PersistUnavailableFails(r)
           \/ PersistUnsupportedFails(r) \/ WriteResult(r)
    BY <1>8, Leads DEF PersistAvailableFails, PersistUnavailableFails, PersistUnsupportedFails,
        WriteResult, Inside
<1> QED
    BY <1>3, <1>4, <1>5, <1>6, <1>7, <1>8 DEF RunStep

\* A manifest that changes is one the run has written.
LEMMA ManifestWritten ==
    ASSUME TypeOK, Proved!CallerInv, NEW r \in Runs, Called(r),
           RunStep(r) \/ Expire(r) \/ Crash(r)
    PROVE  \/ manifest' = manifest
           \/ manifest'[Dir[r]] \in Manifests /\ manifest'[Dir[r]].by = r
<1>1. ASSUME NEW m \in Manifests, manifest' = [manifest EXCEPT ![Dir[r]] = m]
      PROVE  manifest'[Dir[r]] = m
    BY <1>1, Types DEF TypeOK
<1>2. CASE PersistAvailable(r) \/ PersistAvailableFails(r)
    BY <1>1, <1>2, AvailableFrame DEF PersistAvailable, PersistAvailableFails
<1>3. CASE PersistUnavailable(r) \/ PersistUnavailableFails(r)
    BY <1>1, <1>3, UnavailableFrame DEF PersistUnavailable, PersistUnavailableFails
<1>4. CASE PersistUnsupported(r) \/ PersistUnsupportedFails(r)
    BY <1>1, <1>4, ManifestFrame DEF PersistUnsupported, PersistUnsupportedFails, Statuses
<1>5. CASE \/ Lock(r) \/ LockHeld(r) \/ Clear(r) \/ ClearFails(r) \/ InitDone(r) \/ InitFails(r)
           \/ ApplyDone(r) \/ ApplyFails(r) \/ ReadMode(r) \/ ReadModeFails(r) \/ ReadPublic(r)
           \/ ReadPublicFails(r) \/ ReadPrivate(r) \/ ReadPrivateFails(r) \/ Validate(r)
           \/ ValidateFails(r)
    BY <1>5 DEF Lock, LockHeld, Clear, ClearFails, InitDone, InitFails, ApplyDone,
        ApplyFails, ReadMode, ReadModeFails, ReadPublic, ReadPublicFails, ReadPrivate,
        ReadPrivateFails, Validate, ValidateFails
<1>6. CASE \/ WriteKubeconfig(r) \/ WriteKubeconfigFails(r) \/ WriteProfile(r)
           \/ WriteProfileFails(r) \/ Discard(r) \/ Compensate(r) \/ ReconcileStep(r)
           \/ Reconciled(r) \/ Expire(r) \/ Crash(r) \/ WriteResult(r)
    BY <1>6 DEF WriteKubeconfig, WriteKubeconfigFails, WriteProfile, WriteProfileFails,
        Discard, Compensate, ReconcileStep, Reconciled, Expire, Crash, exportVars, WriteResult
<1> QED
    BY <1>2, <1>3, <1>4, <1>5, <1>6 DEF RunStep

\* What the manifest of a run tells stays true while the run's call stands still.
LEMMA ToldStays ==
    ASSUME TypeOK, Proved!CallerInv, [Next]_vars, NEW r \in Runs, Alone(r),
           step[r] \in {"result", "ok"}, Told(r), manifest'[Dir[r]] = manifest[Dir[r]]
    PROVE  Told(r)'
<1>1. cert[CertOf[r]] = "unissued" => cert'[CertOf[r]] = "unissued"
    BY OwnIssue
<1> QED
    BY <1>1 DEF Told, Alone

\* The ledger through the step of a run ...
LEMMA RunLedger ==
    ASSUME LedgerInv, [Next]_vars, NEW r \in Runs, RunStep(r) \/ Expire(r) \/ Crash(r)
    PROVE  Ledger'
<1>1. TypeOK /\ Proved!CallerInv /\ RunInv(r) /\ Called(r) /\ Unspent(r) /\ Declared(r)
    BY DEF LedgerInv, IInv, RunInv, Ledger
<1>2. Frame(r) /\ Turn(r)
    BY <1>1, RunFrame, RunTurn
<1>3. \A q \in Runs : cert[CertOf[q]] = "unissued" /\ Early(q) => cert'[CertOf[q]] = "unissued"
    BY <1>1, OwnIssue DEF Early
<1>4. Unspent(r)'
    BY <1>1, <1>2, <1>3, EarlyBefore DEF Unspent
<1>5. Declared(r)'
    <2> SUFFICES ASSUME step'[r] \in {"result", "ok"}
                 PROVE  manifest'[Dir[r]] \in Manifests /\ (manifest'[Dir[r]].by = r => Told(r)')
        BY DEF Declared
    <2>1. CASE step[r] \in Inside
        BY <1>1, <2>1, ResultDeclares
    <2>2. CASE step[r] \notin Inside
        <3>1. step[r] \in {"result", "ok"} /\ manifest' = manifest /\ UNCHANGED storeVars
            BY <1>2, <2>2 DEF Turn
        <3> QED
            BY <1>1, <3>1 DEF Declared, Told, storeVars
    <2> QED
        BY <2>1, <2>2
<1>6. ASSUME NEW q \in Runs, q # r PROVE Unspent(q)' /\ Declared(q)'
    <2>1. Alone(q) /\ Unspent(q) /\ Declared(q)
        BY <1>1, <1>6, RunAlone DEF LedgerInv, Ledger
    <2>2. mode' = mode /\ step'[q] = step[q]
        BY <1>1, <1>2, <1>6 DEF Frame, TypeOK
    <2>3. Unspent(q)'
        BY <1>3, <2>1, <2>2 DEF Unspent, Early, Alone
    <2>4. CASE manifest'[Dir[q]] = manifest[Dir[q]]
        <3>1. step[q] \in {"result", "ok"} /\ Told(q) => Told(q)'
            BY <1>1, <2>1, <2>4, ToldStays
        <3>2. Declared(q)'
            BY <2>1, <2>2, <2>4, <3>1 DEF Declared
        <3> QED
            BY <2>3, <3>2
    <2>5. CASE manifest'[Dir[q]] # manifest[Dir[q]]
        <3>1. Dir[q] = Dir[r]
            BY <1>1, <1>2, <2>5, Types DEF Frame, TypeOK
        <3>2. manifest'[Dir[r]] \in Manifests /\ manifest'[Dir[r]].by = r
            BY <1>1, <2>5, ManifestWritten
        <3> QED
            BY <1>6, <2>3, <3>1, <3>2 DEF Declared
    <2> QED
        BY <2>3, <2>4, <2>5
<1> QED
    BY <1>4, <1>5, <1>6 DEF Ledger

\* ... and through every other step.
LEMMA RestLedger ==
    ASSUME LedgerInv, [Next]_vars, UNCHANGED exportVars, \A r \in Runs : Alone(r)
    PROVE  Ledger'
<1> SUFFICES ASSUME NEW r \in Runs PROVE Unspent(r)' /\ Declared(r)'
    BY DEF Ledger
<1>1. TypeOK /\ Proved!CallerInv /\ Unspent(r) /\ Declared(r) /\ Alone(r)
    BY DEF LedgerInv, IInv, Ledger
<1>2. mode' = mode /\ step' = step /\ manifest' = manifest
    BY DEF exportVars
<1>3. Unspent(r)'
    <2>1. cert[CertOf[r]] = "unissued" /\ Early(r) => cert'[CertOf[r]] = "unissued"
        BY <1>1, OwnIssue DEF Early
    <2> QED
        BY <1>1, <1>2, <2>1 DEF Unspent, Early, Alone
<1>4. Declared(r)'
    BY <1>1, <1>2, ToldStays DEF Declared
<1> QED
    BY <1>3, <1>4

LEMMA InitLedger == Init => LedgerInv
<1> SUFFICES ASSUME Init, NEW r \in Runs PROVE Unspent(r) /\ Declared(r)
    BY InitIInv, StoreInit, VerdictInit DEF LedgerInv, Ledger
<1>1. step[r] = "start" /\ cert[CertOf[r]] = "unissued"
    BY ExportAssumption DEF Init, Cleanup!Init
<1> QED
    BY <1>1 DEF Unspent, Declared

LEMMA NextLedger == LedgerInv /\ [Next]_vars => LedgerInv'
<1> SUFFICES ASSUME LedgerInv, [Next]_vars PROVE LedgerInv'
    OBVIOUS
<1>1. IInv' /\ Proved!CallerInv' /\ Proved!VerdictInv'
    BY NextIInv, StoreInv, VerdictNext DEF LedgerInv
<1>2. CASE \E r \in Runs : RunStep(r) \/ Expire(r) \/ Crash(r)
    BY <1>1, <1>2, RunLedger DEF LedgerInv
<1>3. CASE ~\E r \in Runs : RunStep(r) \/ Expire(r) \/ Crash(r)
    <2>1. UNCHANGED exportVars
        BY <1>3, WhoSteps DEF vars, exportVars
    <2>2. \A r \in Runs : Alone(r)
        BY <1>3, WhoSteps, RestAlone DEF LedgerInv
    <2> QED
        BY <1>1, <2>1, <2>2, RestLedger DEF LedgerInv
<1> QED
    BY <1>1, <1>2, <1>3 DEF LedgerInv

\* What a run's ended cleanup says of the run's certificate.
LEMMA VerdictOfRun ==
    ASSUME LedgerInv, NEW r \in Runs, stage[r] = "done", cert[CertOf[r]] = "live"
    PROVE  \/ outcome[r].status = "pending" /\ outcome[r].certificate \in {CertOf[r], NoId}
           \/ /\ outcome[r].status = "cleaned" /\ call[r].explicit = <<>>
              /\ CertOf[r] \notin call[r].due \/ Shifted(r)
<1>1. r \in Cleaners /\ Proved!VerdictInv
    BY DEF LedgerInv, Cleaners
<1>2. outcome[r].status \in {"cleaned", "pending"}
    BY <1>1 DEF LedgerInv, Proved!CallerInv, Proved!Ruled
<1>3. /\ call[r].attempt # NoAttempt
      /\ call[r].explicit \in {<<>>, <<CertOf[r]>>}
    BY ExportAssumption DEF LedgerInv, IInv, RunInv, Called
<1>4. /\ Len(<<CertOf[r]>>) = 1 /\ <<CertOf[r]>>[1] = CertOf[r] /\ <<CertOf[r]>> # <<>>
    OBVIOUS
<1>5. CASE outcome[r].status = "pending"
    <2>1. Proved!Reference(r, outcome[r].certificate)
        BY <1>1, <1>5 DEF Proved!VerdictInv, Proved!Named
    <2>2. CASE call[r].explicit = <<>>
        BY <1>3, <1>5, <2>1, <2>2 DEF Proved!Reference
    <2>3. CASE call[r].explicit = <<CertOf[r]>>
        <3>1. PICK i \in 1..Len(call[r].explicit) : outcome[r].certificate = call[r].explicit[i]
            BY <1>4, <2>1, <2>3 DEF Proved!Reference
        <3>2. i = 1
            BY <1>4, <2>3, <3>1
        <3> QED
            BY <1>4, <1>5, <2>3, <3>1, <3>2
    <2> QED
        BY <1>3, <2>2, <2>3
<1>6. CASE outcome[r].status = "cleaned"
    <2>1. /\ \A i \in 1..Len(call[r].explicit) : cert[call[r].explicit[i]] = "deleted"
          /\ \A id \in call[r].due : cert[id] = "live" => Proved!Shifted(r)
        BY <1>1, <1>6, SameConstants, Proved!CleanedMeans
    <2>2. call[r].explicit # <<CertOf[r]>>
        <3>1. 1 \in 1..Len(<<CertOf[r]>>)
            BY <1>4
        <3> QED
            BY <1>4, <2>1, <3>1
    <2>3. Proved!Shifted(r) => Shifted(r)
        BY DEF Proved!Shifted, Shifted, Proved!Indexed, Cleanup!Indexed
    <2> QED
        BY <1>3, <1>6, <2>1, <2>2, <2>3
<1> QED
    BY <1>2, <1>5, <1>6

\* auth.go:308-508 - a run that ends with success and leaves its certificate alive
\* says so in its manifest, for any number of runs, failures, kills and cleanups of
\* others, every page size and every delay of the listing: only a cleanup that had
\* nothing but the listing to go by, and was not shown the certificate, misses it.
THEOREM NothingLeaks == Spec => []NoSilentLeak
<1>1. LedgerInv => NoSilentLeak
    <2> SUFFICES ASSUME LedgerInv, NEW r \in Runs, step[r] = "ok", manifest[Dir[r]].by = r,
                        cert[CertOf[r]] = "live"
                 PROVE  \/ Accounted(r)
                        \/ /\ manifest[Dir[r]].cleanup = "cleaned"
                           /\ call[r].explicit = <<>>
                           /\ CertOf[r] \notin call[r].due \/ Shifted(r)
        BY DEF NoSilentLeak
    <2>1. Told(r)
        BY DEF LedgerInv, Ledger, Declared
    <2>2. CASE manifest[Dir[r]].availability = "available"
        BY <2>2 DEF Accounted
    <2>3. CASE /\ stage[r] = "done"
               /\ manifest[Dir[r]].cleanup = outcome[r].status
               /\ manifest[Dir[r]].certificate = outcome[r].certificate
        BY <2>3, VerdictOfRun DEF Accounted
    <2> QED
        BY <2>1, <2>2, <2>3 DEF Told
<1> QED
    BY <1>1, InitLedger, NextLedger, PTL DEF Spec
=============================================================================
