----------------------------- MODULE AuthExport -----------------------------
(***************************************************************************)
(* `ict auth`: Runner.exportAuth and exportVPNAuth (src/internal/workflow/ *)
(* auth.go).  A run takes the output directory's lock file, clears the     *)
(* artifacts of earlier runs, lets Terraform acquire the credentials (for  *)
(* a private cluster it issues a certificate), writes the artifacts and    *)
(* then a manifest that says what the directory holds.  A run that fails   *)
(* where a certificate may exist first reconciles its own attempt          *)
(* (CertificateCleanup) and reports the outcome in the manifest.           *)
(*                                                                         *)
(* Runs share output directories and the secret group with each other and  *)
(* with the owners' allocation-wide `ict auth-cleanup` calls; a run may    *)
(* time out, be cancelled or be killed at any point.                       *)
(***************************************************************************)
EXTENDS Integers, Sequences, FiniteSets

CONSTANTS
    Runs,          \* calls of `ict auth`, each with an attempt of its own
    Owners,        \* calls of `ict auth-cleanup`
    Dirs,          \* output directories, each with its manifest file
    Dir,           \* run -> its output directory
    Offers,        \* run -> what its cluster may turn out to offer
    Policied,      \* the runs whose frozen values hold an AuthPolicy
    CertOf,        \* run -> the ID its certificate gets if it is issued
    NoRun,         \* no lock file, no artifact
    NoManifest,
    Ids, Allocations, Attempts, NoAttempt, NoId, NoReference, Owner, Calls,
    PageSize, MaxResults

Modes == {"satellite", "public", "vpn", "unsupported"}
Artifacts == {"kubeconfig.yaml", "client.ovpn"}

\* What a run's cleanup asks for: the ownership its certificate is issued with.
AttemptCall(r, explicit) ==
    [allocation |-> Owner[CertOf[r]].allocation, attempt |-> Owner[CertOf[r]].attempt,
     explicit |-> explicit]

ASSUME ExportAssumption ==
    /\ Runs \cap Owners = {}
    /\ NoRun \notin Runs
    /\ Dir \in [Runs -> Dirs]
    /\ Offers \in [Runs -> SUBSET Modes]
    /\ Policied \subseteq Runs
    /\ CertOf \in [Runs -> Ids]
    \* auth-assets/main.tf offers a VPN only when every auth_* value is set
    /\ \A r \in Runs : "vpn" \in Offers[r] => r \in Policied
    \* validateAuthAttempt; the caller gives every run an attempt of its own
    /\ \A r \in Runs : Owner[CertOf[r]].attempt # NoAttempt
    /\ \A r, q \in Runs : Owner[CertOf[r]] = Owner[CertOf[q]] => r = q
    /\ \A r \in Policied : {AttemptCall(r, <<>>), AttemptCall(r, <<CertOf[r]>>)} \subseteq Calls

VARIABLES
    mode,      \* run -> what its cluster offers
    lock,      \* directory -> the run whose lock file is there
    files,     \* directory -> artifact -> the run that wrote it
    manifest,  \* directory -> the manifest file
    step,      \* run -> where its call is
    expired,   \* run -> its context is done: timeout or cancellation
    learned,   \* run -> it has read vpn_certificate_id (ghost)
    refused,   \* run -> the error of writing the available manifest, if any
    cert, index, stage, call, progress, outcome  \* of CertificateCleanup

exportVars == <<mode, lock, files, manifest, step, expired, learned, refused>>
storeVars == <<cert, index, stage, call, progress, outcome>>
vars == <<mode, lock, files, manifest, step, expired, learned, refused,
          cert, index, stage, call, progress, outcome>>

Cleaners == Runs \cup Owners
Cleanup == INSTANCE CertificateCleanup

ASSUME GroupAssumption == Cleanup!ConstantsAssumption

Inside == {"clear", "init", "apply", "mode", "public-outputs", "private-outputs",
           "validate", "kubeconfig", "profile", "discard", "available", "compensate",
           "cleanup", "unavailable", "unsupported"}
\* The steps that wait for a Terraform process.
Subprocess == {"init", "apply", "mode", "public-outputs", "private-outputs"}
Ended == {"rejected", "ok", "error", "crashed"}
Steps == {"start", "result"} \cup Inside \cup Ended

NoFiles == [a \in Artifacts |-> NoRun]

Init ==
    /\ mode \in {m \in [Runs -> Modes] : \A r \in Runs : m[r] \in Offers[r]}
    /\ lock = [d \in Dirs |-> NoRun]
    /\ files = [d \in Dirs |-> NoFiles]
    /\ manifest = [d \in Dirs |-> NoManifest]
    /\ step = [r \in Runs |-> "start"]
    /\ expired = [r \in Runs |-> FALSE]
    /\ learned = [r \in Runs |-> FALSE]
    /\ refused = [r \in Runs |-> FALSE]
    /\ Cleanup!Init

Goto(r, s) == step' = [step EXCEPT ![r] = s]

(***************************************************************************)
(* prepareAuthOutput: lock, then clear.                                    *)
(***************************************************************************)
\* Mutant: the lock file is opened without O_EXCL.
LockShared(r) ==
    /\ step[r] = "start"
    /\ lock' = [lock EXCEPT ![Dir[r]] = r]
    /\ Goto(r, "clear")
    /\ UNCHANGED <<mode, files, manifest, expired, learned, refused, storeVars>>

Lock(r) ==
    /\ step[r] = "start" /\ lock[Dir[r]] = NoRun
    /\ lock' = [lock EXCEPT ![Dir[r]] = r]
    /\ Goto(r, "clear")
    /\ UNCHANGED <<mode, files, manifest, expired, learned, refused, storeVars>>

\* errAuthOutputLocked, also for the lock file of a run that was killed.
LockHeld(r) ==
    /\ step[r] = "start" /\ lock[Dir[r]] # NoRun
    /\ Goto(r, "rejected")
    /\ UNCHANGED <<mode, lock, files, manifest, expired, learned, refused, storeVars>>

\* The deferred release removes the lock file; when that fails the file stays
\* and the call returns an error.
Release(r, result) ==
    \/ lock' = [lock EXCEPT ![Dir[r]] = NoRun] /\ Goto(r, result)
    \/ UNCHANGED lock /\ Goto(r, "error")

\* removeAuthArtifacts stops at the first artifact it cannot remove.
Remove(r, kept) ==
    files' = [files EXCEPT ![Dir[r]] =
                 [a \in Artifacts |-> IF a \in kept THEN @[a] ELSE NoRun]]

\* Mutant: only the artifact every bundle has is removed.
ClearKubeconfig(r) ==
    /\ step[r] = "clear"
    /\ Remove(r, {"client.ovpn"})
    /\ Goto(r, IF mode[r] = "satellite" THEN "unsupported" ELSE "init")
    /\ UNCHANGED <<mode, lock, manifest, expired, learned, refused, storeVars>>

Clear(r) ==
    /\ step[r] = "clear"
    /\ Remove(r, {})
    /\ Goto(r, IF mode[r] = "satellite" THEN "unsupported" ELSE "init")
    /\ UNCHANGED <<mode, lock, manifest, expired, learned, refused, storeVars>>

ClearFails(r) ==
    /\ step[r] = "clear"
    /\ \E kept \in {Artifacts, {"client.ovpn"}} : Remove(r, kept)
    /\ Release(r, "error")
    /\ UNCHANGED <<mode, manifest, expired, learned, refused, storeVars>>

(***************************************************************************)
(* Terraform.                                                              *)
(***************************************************************************)
\* Workspace, assets, tfvars and `terraform init`.
InitDone(r) ==
    /\ step[r] = "init" /\ ~expired[r]
    /\ Goto(r, "apply")
    /\ UNCHANGED <<mode, lock, files, manifest, expired, learned, refused, storeVars>>

InitFails(r) ==
    /\ step[r] = "init"
    /\ Goto(r, "unavailable")
    /\ UNCHANGED <<mode, lock, files, manifest, expired, learned, refused, storeVars>>

\* ibm_sm_private_certificate, while `terraform apply` runs.
IssueCertificate(r) ==
    /\ step[r] = "apply" /\ mode[r] = "vpn"
    /\ Cleanup!Issue(CertOf[r])
    /\ UNCHANGED exportVars

\* unavailableAfterVPNFailure: the run's own attempt is reconciled, with the
\* certificate it hands over as the explicit reference.
Reconcile(r, explicit) ==
    IF r \in Policied
    THEN /\ Cleanup!Call(r, AttemptCall(r, explicit))
         /\ Goto(r, "cleanup")
    ELSE /\ Goto(r, "unavailable")
         /\ UNCHANGED storeVars

ApplyDone(r) ==
    /\ step[r] = "apply" /\ ~expired[r]
    /\ mode[r] = "vpn" => cert[CertOf[r]] # "unissued"
    /\ Goto(r, "mode")
    /\ UNCHANGED <<mode, lock, files, manifest, expired, learned, refused, storeVars>>

\* Mutant: a failed apply is taken to have issued nothing.
ApplyFailsPlainly(r) ==
    /\ step[r] = "apply"
    /\ Goto(r, "unavailable")
    /\ UNCHANGED <<mode, lock, files, manifest, expired, learned, refused, storeVars>>

\* Before or after the certificate was issued.
ApplyFails(r) ==
    /\ step[r] = "apply"
    /\ Reconcile(r, <<>>)
    /\ UNCHANGED <<mode, lock, files, manifest, expired, learned, refused>>

ReadMode(r) ==
    /\ step[r] = "mode" /\ ~expired[r]
    /\ Goto(r, CASE mode[r] = "public" -> "public-outputs"
                 [] mode[r] = "vpn" -> "private-outputs"
                 [] OTHER -> "unsupported")
    /\ UNCHANGED <<mode, lock, files, manifest, expired, learned, refused, storeVars>>

ReadModeFails(r) ==
    /\ step[r] = "mode"
    /\ Reconcile(r, <<>>)
    /\ UNCHANGED <<mode, lock, files, manifest, expired, learned, refused>>

ReadPublic(r) ==
    /\ step[r] = "public-outputs" /\ ~expired[r]
    /\ Goto(r, "kubeconfig")
    /\ UNCHANGED <<mode, lock, files, manifest, expired, learned, refused, storeVars>>

\* An output cannot be read or the kubeconfig does not validate.
ReadPublicFails(r) ==
    /\ step[r] = "public-outputs"
    /\ Goto(r, "unavailable")
    /\ UNCHANGED <<mode, lock, files, manifest, expired, learned, refused, storeVars>>

ReadPrivate(r) ==
    /\ step[r] = "private-outputs" /\ ~expired[r]
    /\ learned' = [learned EXCEPT ![r] = TRUE]
    /\ Goto(r, "validate")
    /\ UNCHANGED <<mode, lock, files, manifest, expired, refused, storeVars>>

\* Mutant: unreadable outputs are reported as on the public path.
ReadPrivateFailsPlainly(r) ==
    /\ step[r] = "private-outputs"
    /\ \E read \in BOOLEAN : learned' = [learned EXCEPT ![r] = read]
    /\ Goto(r, "unavailable")
    /\ UNCHANGED <<mode, lock, files, manifest, expired, refused, storeVars>>

\* private-endpoint, private-material: the certificate ID is the first of ten
\* outputs, and no reference is handed over even when it was read.
ReadPrivateFails(r) ==
    /\ step[r] = "private-outputs"
    /\ \E read \in BOOLEAN : learned' = [learned EXCEPT ![r] = read]
    /\ Reconcile(r, <<>>)
    /\ UNCHANGED <<mode, lock, files, manifest, expired, refused>>

\* Kubeconfig, certificate, issuer and VPN profile are valid.
Validate(r) ==
    /\ step[r] = "validate"
    /\ Goto(r, "kubeconfig")
    /\ UNCHANGED <<mode, lock, files, manifest, expired, learned, refused, storeVars>>

ValidateFails(r) ==
    /\ step[r] = "validate"
    /\ Reconcile(r, <<CertOf[r]>>)
    /\ UNCHANGED <<mode, lock, files, manifest, expired, learned, refused>>

(***************************************************************************)
(* The bundle.  AtomicWrite may fail before it renames, and after: then    *)
(* the file has been replaced all the same (terraform.go:92).              *)
(***************************************************************************)
Write(r, artifact) == files' = [files EXCEPT ![Dir[r]][artifact] = r]

WriteKubeconfig(r) ==
    /\ step[r] = "kubeconfig"
    /\ Write(r, "kubeconfig.yaml")
    /\ Goto(r, IF mode[r] = "vpn" THEN "profile" ELSE "available")
    /\ UNCHANGED <<mode, lock, manifest, expired, learned, refused, storeVars>>

WriteKubeconfigFails(r) ==
    /\ step[r] = "kubeconfig"
    /\ Write(r, "kubeconfig.yaml") \/ UNCHANGED files
    /\ IF mode[r] = "vpn" THEN Reconcile(r, <<CertOf[r]>>)
       ELSE Goto(r, "unavailable") /\ UNCHANGED storeVars
    /\ UNCHANGED <<mode, lock, manifest, expired, learned, refused>>

WriteProfile(r) ==
    /\ step[r] = "profile"
    /\ Write(r, "client.ovpn")
    /\ Goto(r, "available")
    /\ UNCHANGED <<mode, lock, manifest, expired, learned, refused, storeVars>>

WriteProfileFails(r) ==
    /\ step[r] = "profile"
    /\ Write(r, "client.ovpn") \/ UNCHANGED files
    /\ Goto(r, "discard")
    /\ UNCHANGED <<mode, lock, manifest, expired, learned, refused, storeVars>>

\* The half-written bundle is removed; an error of the removal is dropped.
Discard(r) ==
    /\ step[r] = "discard"
    /\ \E kept \in {{}, {"client.ovpn"}, Artifacts} : Remove(r, kept)
    /\ Reconcile(r, <<CertOf[r]>>)
    /\ UNCHANGED <<mode, lock, manifest, expired, learned, refused>>

(***************************************************************************)
(* The manifest.                                                           *)
(***************************************************************************)
WriteManifest(r, availability, status, certificate) ==
    manifest' = [manifest EXCEPT ![Dir[r]] =
        [by |-> r, availability |-> availability, cleanup |-> status,
         certificate |-> certificate]]

\* The manifest of an available VPN bundle names its certificate.
WriteAvailable(r) ==
    WriteManifest(r, "available", "not-required",
                  IF mode[r] = "vpn" THEN CertOf[r] ELSE NoReference)

PersistAvailable(r) ==
    /\ step[r] = "available"
    /\ WriteAvailable(r)
    /\ Release(r, "result")
    /\ UNCHANGED <<mode, files, expired, learned, refused, storeVars>>

PersistAvailableFails(r) ==
    /\ step[r] = "available"
    /\ WriteAvailable(r) \/ UNCHANGED manifest
    /\ refused' = [refused EXCEPT ![r] = TRUE]
    /\ Goto(r, "compensate")
    /\ UNCHANGED <<mode, lock, files, expired, learned, storeVars>>

\* compensateAvailable{Public,VPN}ManifestFailure: the bundle is removed and a
\* VPN attempt reconciled before the manifest is overwritten.
Compensate(r) ==
    /\ step[r] = "compensate"
    /\ \E kept \in {{}, {"client.ovpn"}, Artifacts} : Remove(r, kept)
    /\ IF mode[r] = "vpn" THEN Reconcile(r, <<CertOf[r]>>)
       ELSE Goto(r, "unavailable") /\ UNCHANGED storeVars
    /\ UNCHANGED <<mode, lock, manifest, expired, learned, refused>>

\* Mutant: a request whose context is done waits for its answer.
ReconcileStepWaits(r) ==
    /\ step[r] = "cleanup"
    /\ Cleanup!Local(r) \/ (~expired[r] /\ (Cleanup!Answered(r) \/ Cleanup!Failed(r)))
    /\ UNCHANGED exportVars

\* The run's own cleanup: once its context is done no request is answered.
ReconcileStep(r) ==
    /\ step[r] = "cleanup"
    /\ Cleanup!Local(r) \/ Cleanup!Failed(r) \/ (~expired[r] /\ Cleanup!Answered(r))
    /\ UNCHANGED exportVars

Reconciled(r) ==
    /\ step[r] = "cleanup" /\ stage[r] = "done"
    /\ Goto(r, "unavailable")
    /\ UNCHANGED <<mode, lock, files, manifest, expired, learned, refused, storeVars>>

\* Mutant: without a cleanup the status is left as it was.
WriteUnavailableNoDefault(r) ==
    WriteManifest(r, "unavailable", outcome[r].status, outcome[r].certificate)

\* unavailableAuth with the outcome of the cleanup, if there was one.
WriteUnavailable(r) ==
    WriteManifest(r, "unavailable",
        IF stage[r] = "idle" THEN "not-required" ELSE outcome[r].status,
        outcome[r].certificate)

\* After a refused available manifest the call returns that error in any case.
PersistUnavailable(r) ==
    /\ step[r] = "unavailable"
    /\ WriteUnavailable(r)
    /\ Release(r, IF refused[r] THEN "error" ELSE "result")
    /\ UNCHANGED <<mode, files, expired, learned, refused, storeVars>>

\* Mutant: the error of the write is dropped.
PersistUnavailableDropped(r) ==
    /\ step[r] = "unavailable"
    /\ WriteUnavailable(r) \/ UNCHANGED manifest
    /\ Release(r, "result")
    /\ UNCHANGED <<mode, files, expired, learned, refused, storeVars>>

PersistUnavailableFails(r) ==
    /\ step[r] = "unavailable"
    /\ WriteUnavailable(r) \/ UNCHANGED manifest
    /\ Release(r, "error")
    /\ UNCHANGED <<mode, files, expired, learned, refused, storeVars>>

PersistUnsupported(r) ==
    /\ step[r] = "unsupported"
    /\ WriteManifest(r, "unsupported", "not-required", NoReference)
    /\ Release(r, "result")
    /\ UNCHANGED <<mode, files, expired, learned, refused, storeVars>>

PersistUnsupportedFails(r) ==
    /\ step[r] = "unsupported"
    /\ WriteManifest(r, "unsupported", "not-required", NoReference) \/ UNCHANGED manifest
    /\ Release(r, "error")
    /\ UNCHANGED <<mode, files, expired, learned, refused, storeVars>>

\* AuthWithAttempt: the operation result, after the lock is released.
WriteResult(r) ==
    /\ step[r] = "result"
    /\ Goto(r, "ok") \/ Goto(r, "error")
    /\ UNCHANGED <<mode, lock, files, manifest, expired, learned, refused, storeVars>>

-----------------------------------------------------------------------------
\* The five-minute timeout or a signal.
Expire(r) ==
    /\ step[r] \in Inside /\ ~expired[r]
    /\ expired' = [expired EXCEPT ![r] = TRUE]
    /\ UNCHANGED <<mode, lock, files, manifest, step, learned, refused, storeVars>>

\* The process is killed: its lock file and what it wrote stay.
Crash(r) ==
    /\ step[r] \in Inside
    /\ Goto(r, "crashed")
    /\ IF stage[r] \in Cleanup!Running THEN Cleanup!Crash(r) ELSE UNCHANGED storeVars
    /\ UNCHANGED <<mode, lock, files, manifest, expired, learned, refused>>

RunStep(r) ==
    \/ Lock(r) \/ LockHeld(r) \/ Clear(r) \/ ClearFails(r)
    \/ InitDone(r) \/ InitFails(r) \/ ApplyDone(r) \/ ApplyFails(r)
    \/ ReadMode(r) \/ ReadModeFails(r) \/ ReadPublic(r) \/ ReadPublicFails(r)
    \/ ReadPrivate(r) \/ ReadPrivateFails(r) \/ Validate(r) \/ ValidateFails(r)
    \/ WriteKubeconfig(r) \/ WriteKubeconfigFails(r)
    \/ WriteProfile(r) \/ WriteProfileFails(r) \/ Discard(r)
    \/ PersistAvailable(r) \/ PersistAvailableFails(r) \/ Compensate(r)
    \/ ReconcileStep(r) \/ Reconciled(r)
    \/ PersistUnavailable(r) \/ PersistUnavailableFails(r)
    \/ PersistUnsupported(r) \/ PersistUnsupportedFails(r) \/ WriteResult(r)

\* An owner's allocation-wide `ict auth-cleanup`.
OwnerStep(o) == Cleanup!Request(o) /\ UNCHANGED exportVars

\* The certificates of `ict auth` on other machines, into other directories.
Elsewhere == Ids \ {CertOf[r] : r \in Runs}

Environment ==
    \/ \E r \in Runs : IssueCertificate(r) \/ Expire(r) \/ Crash(r)
    \/ \E id \in Elsewhere : Cleanup!Issue(id) /\ UNCHANGED exportVars
    \/ \E id \in Ids : Cleanup!Publish(id) /\ UNCHANGED exportVars
    \/ \E i \in 1..Len(index) : Cleanup!Unpublish(i) /\ UNCHANGED exportVars
    \/ \E o \in Owners : (Cleanup!AuthCleanup(o) \/ Cleanup!Crash(o)) /\ UNCHANGED exportVars

Next ==
    \/ \E r \in Runs : RunStep(r)
    \/ \E o \in Owners : OwnerStep(o)
    \/ Environment

\* A file operation returns, and a request is answered or times out; the timer of a run
\* goes off, but that does not make Terraform end (terraformCommand sets no WaitDelay).
Spec ==
    /\ Init /\ [][Next]_vars
    /\ \A r \in Runs : WF_vars(step[r] \notin Subprocess /\ RunStep(r)) /\ WF_vars(Expire(r))
    /\ \A o \in Owners : WF_vars(OwnerStep(o))

-----------------------------------------------------------------------------
Statuses == {"not-required", "cleaned", "pending"}
Manifests == [by : Runs, availability : {"available", "unavailable", "unsupported"},
              cleanup : Statuses, certificate : Ids \cup {NoId, NoReference}]

TypeOK ==
    /\ mode \in [Runs -> Modes]
    /\ lock \in [Dirs -> Runs \cup {NoRun}]
    /\ files \in [Dirs -> [Artifacts -> Runs \cup {NoRun}]]
    /\ manifest \in [Dirs -> Manifests \cup {NoManifest}]
    /\ step \in [Runs -> Steps]
    /\ expired \in [Runs -> BOOLEAN]
    /\ learned \in [Runs -> BOOLEAN]
    /\ refused \in [Runs -> BOOLEAN]
    /\ Cleanup!TypeOK

RunsOf(d) == {r \in Runs : Dir[r] = d}

\* Every run that ever got into the directory has ended with success.
Settled(d) == \A r \in RunsOf(d) : step[r] \in {"start", "rejected", "ok"}

Bundle(r) ==
    [a \in Artifacts |-> IF a = "client.ovpn" /\ mode[r] # "vpn" THEN NoRun ELSE r]

\* auth.go:269-306 - the artifacts of one directory never come from two runs,
\* whatever runs failed, were killed or could not remove their lock before.
NoMixedBundle ==
    \A d \in Dirs : \A a, b \in Artifacts :
        files[d][a] # NoRun /\ files[d][b] # NoRun => files[d][a] = files[d][b]

\* auth.go:397-406,454-466 - when the runs of a directory ended with success,
\* a manifest that says "available" stands next to the complete bundle of the
\* run that wrote it.
AvailableIsComplete ==
    \A d \in Dirs :
        Settled(d) /\ manifest[d] # NoManifest =>
            (manifest[d].availability = "available" => files[d] = Bundle(manifest[d].by))

\* README.md:125 "partial bundles are removed" - when the runs of a directory
\* ended with success, a manifest that does not say "available" stands alone.
NoPartialBundle ==
    \A d \in Dirs :
        Settled(d) /\ manifest[d] # NoManifest =>
            (manifest[d].availability # "available" => files[d] = NoFiles)

\* auth.go:419-508 - the certificate of a bundle offered as available is alive,
\* unless an owner's allocation-wide cleanup reclaimed it: no failure of the
\* run's own and no cleanup of another attempt costs it.
AvailableCertificateLives ==
    \A r \in Runs :
        /\ step[r] = "ok" /\ mode[r] = "vpn"
        /\ manifest[Dir[r]] # NoManifest /\ manifest[Dir[r]].by = r
        /\ manifest[Dir[r]].availability = "available"
        => \/ cert[CertOf[r]] = "live"
           \/ \E o \in Owners : stage[o] # "idle" /\ Cleanup!InScope(call[o], CertOf[r])

\* The manifest run r left behind owns up to the certificate it leaves behind.
Accounted(r) ==
    \/ manifest[Dir[r]].availability = "available"
    \/ /\ manifest[Dir[r]].cleanup = "pending"
       /\ manifest[Dir[r]].certificate \in {CertOf[r], NoId}

\* The listing moved under the pages of r's cleanup (certificates.go:252-277).
Shifted(r) == progress[r].offset > 0 /\ progress[r].found \ Cleanup!Indexed # {}

\* auth.go:308-508 - a run that ends with success and leaves its certificate
\* alive says so in its manifest.  The one exception is a cleanup without a
\* reference whose certificate the group did not list yet when it began, or no
\* longer at the place the next page was read from.
NoSilentLeak ==
    \A r \in Runs :
        /\ step[r] = "ok" /\ manifest[Dir[r]].by = r /\ cert[CertOf[r]] = "live"
        => \/ Accounted(r)
           \/ /\ manifest[Dir[r]].cleanup = "cleaned"
              /\ call[r].explicit = <<>>
              /\ CertOf[r] \notin call[r].due \/ Shifted(r)

\* README.md:125 "deletes by explicit certificate ID" - a run that has read its
\* certificate's ID and ends with success leaves it alive only if the manifest
\* says so.
LearnedIsReconciled ==
    \A r \in Runs :
        /\ step[r] = "ok" /\ manifest[Dir[r]].by = r
        /\ learned[r] /\ cert[CertOf[r]] = "live"
        => Accounted(r)

\* auth.go:308-508 - a run that got its lock ends, or waits for a Terraform that its timeout
\* has interrupted (nothing kills one that does not end); whatever fails, a run that ends
\* with success has given its lock up.
Ends ==
    \A r \in Runs :
        step[r] = "clear" ~>
            \/ step[r] \in {"error", "crashed"}
            \/ step[r] = "ok" /\ lock[Dir[r]] # r
            \/ step[r] \in Subprocess /\ expired[r]
=============================================================================
