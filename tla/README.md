# ict in TLA+

A verification development for ict, the Go command-line tool that plans, applies
and destroys one short-lived IBM Cloud cluster through Terraform and exports
credentials for it. It models the parts of ict where several processes, services
and failures meet, checks them with TLC on small instances, and proves with TLAPS, for every
instance, all safety properties that hold: what the certificate cleanup deletes and
misses, that no credential bundle is mixed or loses its certificate, that later operations use
only what `plan` froze, that interrupted operations leave nothing the Terraform state does not
record, that a configuration file is never torn or silently changed, and that
OpenVPN acts on no line of a rendered profile that ict took for the content of a block. Each of
these has exceptions, which are named below. Line numbers refer to the files under `src/`.

## The system

| Component | Source | State it keeps | Operations | What is hard | What makes it correct |
|---|---|---|---|---|---|
| Certificate cleanup | `internal/workflow/certificates.go`, `Runner.AuthCleanup` | none of its own; certificates and listing of a Secrets Manager group | reconcile explicit references, list by pages, reconcile what is in scope | requests of many processes interleave, the listing lags and moves under the offset, answers are lost | deletes only its scope; "cleaned" is true; ends |
| Auth export | `internal/workflow/auth.go`, `Runner.AuthWithAttempt` | output directory (lock file, `kubeconfig.yaml`, `client.ovpn`), manifest, local Terraform state | lock, clear, acquire, validate, write, report, compensate | any step fails, times out or is killed after a certificate exists | no bundle of two runs; "available" means complete and usable; no certificate is left behind silently |
| Interactive selection | `internal/prompt/prompt.go` | two goroutines, two channels, the fzf process | load and offer choices, select | three parties finish in any order | returns, releases the terminal, keeps the selection, leaks nothing |
| Lifecycle operations | `internal/workflow/workflow.go` (Plan, Review, Apply, Destroy) | frozen context file, remote Terraform state, result file | plan, review, apply, destroy | kill or timeout around Terraform, stale result files, no backend lock | the state records what exists; a retry makes no second cluster; a result file is true |
| Plan resolution | `workflow.go` 657-1500, 1555-1850 | none | complete inputs, freeze values, validate frozen values | two validations written separately, prompts and defaults after the checks, a file in the caller's hands | what plan freezes the later operations accept, and nothing else |
| Runtime files | `internal/terraform/terraform.go` 59-96 | files | replace atomically | kill or error between two steps | a reader sees the old or the new content |
| Configuration commands | `internal/config/command.go`, `config.go` | one YAML file | show, get, set, edit | concurrent set and edit without a lock, kills and a power failure between write and rename, editors that write in place | each call sees one whole text and replaces it once; the file loads; a set is lost only to an overlapping one |
| VPN profile and certificate checks | `auth.go` 510-933 | none | validate, render | two scanners of one text, and OpenVPN as the third | the scanners see the same blocks; OpenVPN acts on nothing they took for content of a block |
| Backend configuration | `internal/terraform/backend.go` | none | decode, validate | - | - |
| Discovery, command line, tmpfs check | `internal/ibmcloud`, `internal/cli`, `main.go`, `tmpfs_*.go` | none | subprocess calls, dispatch | - | - |

How they interact: the command line dispatches to one `Runner` method per process.
`plan` resolves its inputs (asking through the prompt, which loads its choices
through discovery) and writes a context file. `review`, `apply` and `destroy` read
it. `auth` works from a separate, backend-free context; it calls the certificate
cleanup with its own attempt when a private export fails. `auth-cleanup` calls the
same cleanup for an allocation. Two ict processes share the output directory, the
manifest file, the configuration file, the remote Terraform state and, above all,
the secret group; within one process only the prompt runs goroutines. SIGINT and
SIGTERM cancel the context of a process (`main.go:16`); SIGKILL ends it anywhere.

## Modules

| Module | Models |
|---|---|
| `CertificateCustody` | What an owner relies on, without requests, pages or failures: calls hold claims, delete within them, and end with a verdict. |
| `CertificateCleanup` | `cleanupCertificates` as any number of processes over one secret group. |
| `CertificateCleanupProofs` | The TLAPS proofs about it. |
| `AuthExport` | `exportAuth` and `exportVPNAuth`; it instantiates `CertificateCleanup` for the cleanups of its runs and of the owners. |
| `AuthExportProofs` | The TLAPS proofs about it, which use those of `CertificateCleanupProofs`. |
| `PromptSelect` | `selectLoadedValues`, its two goroutines, fzf and the user. |
| `PromptSelectProofs` | The TLAPS proofs about it. |
| `ClusterName` | How a cluster name is given, prefixed or generated, and the limits it must fit. |
| `FrozenContext` | From a request to what Terraform runs with: `resolve`, its prompts, the frozen context, and the reading of it. |
| `FrozenContextProofs` | The TLAPS proofs about it: that operations run with what was frozen, and about the request, the plan and its reading. |
| `Allocation` | What the owner of clusters relies on, without processes: one operation at a time changes a cluster, its end records it, and only what was done in full is reported. |
| `AllocationProofs` | The TLAPS proofs about it. |
| `Lifecycle` | `plan`, `review`, `apply` and `destroy` as processes with their Terraform subprocesses over remote state, cloud and files. |
| `LifecycleProofs` | The TLAPS proofs about it. |
| `ConfigRegister` | What the configuration file promises: one text at a time, replaced whole, once per call. |
| `ConfigStore` | `config show`, `get`, `set` and `edit` step by step over inodes, a path and a disk. |
| `ConfigStoreProofs` | The TLAPS proofs about it. |
| `VPNProfile` | `parseVPNInlineBlocks`, `validateVPNDirectives`, the trust chain and OpenVPN's own reading of the profile. |
| `VPNProfileProofs` | The TLAPS proofs about it. |
| `MCCleanup`, `MCAuth`, `MCPrompt`, `MCFrozen`, `MCLifecycle`, `MCConfig`, `MCVPN` | Constants for TLC. |

**CertificateCleanup.** `cert` and `index` are the group (external): what Get and
Delete see, and the order in which List returns entries. They differ because the
listing follows an issue or a deletion with a delay; metadata never changes and an
ID is never used again. `stage` is the code's `cleanupStage` with a point between two
requests; `call` holds the arguments, `progress` the loop variables, `outcome` the
`certificateCleanupOutcome`. Each answered request is one action: `GetMissing`
(404), `GetOwned`, `GetForeign` (mismatch), `Delete`, `ListMore`, `ListLast`,
`ListTooMany`; each may fail instead, and a failed deletion may have happened.
Failure reasons are one value, "failed"; only the mismatch is kept apart. An
attempt is `NoAttempt` for the allocation-wide call, as in `InScope`. The mutual
check at the head of the explicit loop (line 388) is unreachable from both callers
and left out, and so is an `AuthCleanup` whose frozen context has no auth policy or is not of a
VPC: it reports "cleaned" without a call and without a look at its references
(`workflow.go:495-497`). The result file only repeats the outcome. `call.due` is a ghost: what the group already listed, in scope and
alive, when the call began.

**AuthExport.** One record of steps per run; `lock`, `files` and `manifest` per
output directory. `files` remembers which run wrote an artifact. `mode` is what the
cluster will turn out to offer, chosen at the start within `Offers`. Every file
operation may fail; a write may fail before or after it replaced the file, because
`atomicWrite` changes the mode after the rename (`terraform.go:92`). `Expire` is the
five-minute timeout or a signal: from then on no Terraform step and no request of
the run succeeds, but files can still be written. `Crash` may happen at every step
and leaves the lock file. A VPN run issues its certificate inside `terraform apply`,
before it succeeds or fails. The deferred release of the lock is part of the action
that ends a run, because no other run can get in between. `learned` is a ghost.
Two things are the caller's duty and assumed: every run is an attempt of its own, because
the attempt ID names its certificate, and a policied run's cleanup asks for the ownership
its certificate is issued with (`AttemptCall`). Certificates that belong to no run here
(`Elsewhere`) are those of `ict auth` on other machines; they are issued into the same group,
and the listing gains and loses entries of either kind at any moment, under the pages of a cleanup.

**PromptSelect.** `loaded` and `done` are the two channels; `fed` is how much of the
choices the pipe has taken, so a selection is possible before the write has ended.
`Reap` is `cmd.Wait`: it closes the pipe and may turn a success into an error when
the context is done. The interrupt is SIGINT, then SIGKILL after `WaitDelay`.

**FrozenContext.** One request from `plan` to the operation that uses it. `in` is the
`Inputs` as `resolve` completes it: `Select` is `selectTargetAndProvider`,
`NormalizeInputs` the two reuse normalizations, `Prompt` one question of `discover`, and
`Freeze` the rest of `resolve` with `newRecoveryContext` and the write. `context` is the
file. Between the commands it is the caller's: `Handle` changes one part of it (external).
`Load` is `loadOperationContext` followed by the subprocess environment. A text is an
identifier and whether blanks surround it, because the code differs in where it trims; a
pattern is the set of identifiers that match it, one set for zones, datacenters, flavors
and VLANs; a digest is the values it was computed from. `"iam"` stands for the five
endpoints every target needs and `vlan` for both VLANs. Left out: the account ID, JSON
decoding (`decodeFile`) and the context of `auth`, which has its own reader.
`ClusterName` keeps of a name its length and the class of its first character.

**Lifecycle.** `op` is the ict process, `child` its Terraform, `remote` the state of each
backend in object storage, `cloud` what exists, `file` the contexts and results. A context
is its backend and plan; which contexts are read is FrozenContext's matter. `Setup` is the
workspace, `terraform init` and the start of the second subprocess, with the state it reads
then (nothing else can see these steps apart); `Interrupt` is the end of the context, which
signals a running Terraform (`terraformCommand`), and `Timeout` the one that only `apply`
starts. `Reap` and `ReapFails` are `cmd.Wait`, which reports an error for a Terraform that
succeeded after it was interrupted. `Kill` is SIGKILL of ict alone: its Terraform goes on,
so the next operation may overlap with it. Terraform itself is external: it creates, deletes
and replaces parts one at a time, saves its memory when it ends, and may die without saving
at any moment. The result path is chosen at the write; nothing depends on it before.
`contested`, `lost` and `later` are ghosts. The map to `Allocation` reads the resources of a sound
backend as its cluster, the remote state as what is recorded of it, the Terraforms that change
something as the jobs, and the result files as the reports; the ict processes themselves,
their interrupts and their kills are not seen. A backend that is contested or lost is uncertain there.

**ConfigStore.** `path` is the inode the configuration path names and `data` what each
inode holds, so a call that has an old file open still reads the old text. A replacement
is `persistConfig` one step at a time: `Create` (CreateTemp, Chmod), `Write`, `Written`,
`Sync`, `Rename`; each may fail (`PersistFails`) or be killed, and between `Write` and
`Written` the temporary file is torn. The inode of a temporary file is named after its
call. `Open` and `Read` are apart because a rename may come between them. An editor
truncates and writes the file in place (external), after `PreparePath` has created it if it
was missing. `dirty` are the inodes whose text is not on the disk and `entries` what the
directory may hold after a power failure: nothing syncs the directory, so a failure may
take the path back to an earlier file, but not to one that was not synced. `before` and
`older` are ghosts: the sets that had ended well when a call opened the file and when it
replaced it. A document gives each path a value; comments, layout and the YAML grammar are
left out, and so is the resolving of endpoints from the environment. The map to
`ConfigRegister` reads the text under the path as the file, a call's source as its view,
and what a power failure may bring back as the texts kept; steps before the rename are
stutters, the rename is the one `Replace`.

**VPNProfile.** The lines of the profile are chosen when the parser gets to them, so every
profile up to the bound is covered and those with a common beginning are one behavior.
`current`, `content` and `blocks` are the parser's variables, `at`, `block` and `remote`
the checker's, `reader` the block OpenVPN is in at each line (external). A line is a tag, a
certificate or one of five kinds; certificates are model values with an issuer. The two
scanners are written differently and stay so: the parser accepts only the closing tag of its
own block, the checker takes any closing tag. A tag has a name and a spelling: both scanners
fold the letter case (`auth.go:778`, `828`) and look at the name alone, while OpenVPN takes
all lines as they are up to a closing tag written exactly as the opening one (`After`), so
`<ca>` closed by `</CA>` ends a block for ict only. OpenVPN also reads a tag in quotes
(`Mask`), which is an unknown directive to ict. Blanks around a tag and the stripping of
comments are not told apart. `Refused` is what the list of `auth.go:835-855` refuses,
in the form it is written there; it does not stand for what is dangerous.

## Runs

| Run | Instance | Shows |
|---|---|---|
| `cleanup_race` | 2 calls of different scopes, 3 certificates, 2 allocations, 2 attempts, pages of 2, limit 2; a call is given a certificate of its own, one behind it a foreign one, or none | `ExplicitBeforeList`, `MismatchIsReal`, `MissedOnlyByShift` (a certificate is missed only when an entry already read left the listing), that the calls implement `CertificateCustody`, and `Terminates` |
| `cleanup_shift` | 1 call, 4 certificates, pages of 1 | finding: `CleanedDueGone` fails when the listing has several pages |
| `auth_shared` | a VPN run and a public, unsupported or Satellite run in one directory | `NoMixedBundle`, `AvailableIsComplete`, `NoSilentLeak`, `Ends` |
| `auth_group` | a run with a VPN policy, an allocation-wide owner cleanup, a certificate of another machine, pages of one entry | `AvailableCertificateLives` and `NoSilentLeak` against an owner's cleanup, a lagging listing and one that moves between two pages |
| `auth_partial` | as `auth_group` | finding: `NoPartialBundle` fails |
| `auth_learned` | as `auth_group` | finding: `LearnedIsReconciled` fails |
| `frozen` | every request at most two fields away from a VPC, a Classic and two Satellite plans, prompts included; lists of up to four zones; the file as written or with one part changed | `WrittenIsReadable`, `OnlyFrozen`, `OnlyWhole`, `SuppliedIsKept`, `OneSource`, `MadeNamesFit` |
| `frozen_endpoints` | a Classic target, operated later with another environment | finding: `EndpointsAreFrozen` fails |
| `lifecycle` | any two operations on one backend after any past, two plans of two parts, two paths | `Recorded`, `OnlyOnce`, `ResultIsTrue`, that the processes implement `Allocation` (`AllocationSpec`), and `Ends` |
| `config` | any 3 of two sets, a show, an edit from standard input and an editor; two paths, one required; one power failure | `StaysLoadable`, `LostOnlyByOverlap`, `RegisterSpec` |
| `vpn_profile` | every profile of up to 7 lines over the tags of three names (two allowed) in two spellings, a tag in quotes, two certificates, a remote and a refused directive | `ScannersAgree`, `ReaderAgrees`, `RenderedIsChecked` |
| `prompt` | no parameters | `TerminalReleased`, `OwnInterruptHidden`, `SelectionKept`, `Returns`, `LoaderEnds` |

Why the bounds are enough. The cleanup's decisions look at one certificate at a time
and compare it with one scope: three certificates give one in the call's attempt,
one of another attempt and one of another allocation, and two calls give every race
between Get and Delete. A call with one reference of its own gets through its references to
the listing, and one with a foreign reference behind it ends in the mismatch. With pages of two, three entries take two pages, so that the
listing moves under an offset, and a limit of two is reached. The two runs
of `auth_shared` are the smallest number that can mix artifacts; every property is
about one directory. In `auth_group` two certificates and pages of one entry are the smallest
listing that can move between two pages of a run's own cleanup. The prompt is checked in full. The rules of
`resolve` relate two fields at a time (a key with its path, workers with their count, a
location with the place to manage it from), so two departures from a good request reach
each of them, whether supplied or prompted for. Two IDs and two backends give every
mismatch; three identifiers that are well formed, one in another region and one
malformed give every outcome of a pattern and of the zone check. `lifecycle` starts from
every state that earlier operations can have left on a sound backend (some, all or none of
the parts, of either plan), so two operations give what a longer sequence would: each
property relates an operation to what it finds, or to one other. Backends do not interact
(`OwnBackend`, proved), so one is enough. In `config` a lost update takes two calls and a
third to lose against or to observe it; two paths, one of them required, give a change that
validates and one that does not, and one that leaves the other path alone. In `vpn_profile`
seven lines hold two blocks with content and a remote, or any nesting of two, and the tags of
one block in both spellings; a root and an authority whose issuer nobody has are a certificate
that verifies and one that does not. Blank lines, text and PEM of other kinds
are left to the proofs, which cover all kinds of lines and longer chains.
What these bounds leave out, the theorems below cover. Runs end, so deadlock is not
checked: a finished or killed process takes no more steps, which is what these
programs are meant to do. `Ends`, `Terminates` and `Returns` state that they do not stop earlier.

What the properties leave open, on purpose:

- `AvailableCertificateLives` excepts an owner's allocation-wide cleanup, which is
  meant to reclaim the certificates of a running attempt too.
- `NoSilentLeak` excepts a certificate that the group did not list when a cleanup
  without a reference began: an attempt that failed inside `terraform apply` knows no
  ID, and nothing but the listing could tell it. The owner's cleanup is the backstop.
  The other exception is a listing that moved under the offset between two pages of that
  cleanup (`Shifted`), which is finding 1 again; a group that fits one page rules it out.
- `StaysLoadable` and `LostOnlyByOverlap` except executions with an `edit`, which validates
  nothing: neither the standard input nor what an editor leaves. `LostOnlyByOverlap` excepts
  sets that overlap, because there is no lock and the later rename wins, later sets of the
  same path, and a power failure, after which an older file may be back.
- `RegisterSpec` lets an editor leave a part of a text, in place, and nothing else.
- `SelectionKept` excepts an fzf that ended before it had taken all choices: if the
  loader's write error is received first the selection is lost (`prompt.go:130`).
- `AvailableIsComplete` speaks of directories whose runs all ended with success. After
  a kill, or when a run returns an error, an older manifest may still say available.
- `WrittenIsReadable` states exactly when a written context cannot be read: a Satellite
  image, profile or place to manage from that is only blanks passes `resolve`, which
  compares it with the empty text, and fails `validateRecoveryValues`, which trims it.
  (A profile of blanks is refused by its
  pattern, unless workers are reused.)
- `SuppliedIsKept` speaks of the fields the provider of the plan reads; others are
  refused or dropped without a word, and the target and the name are not in it. A supplied list of
  zones that is not of three is replaced by what the user picks (`workflow.go:1219-1230`),
  although `README.md:10` says that fzf selects only what was omitted and
  `cli.go:47` that the flag is repeated exactly three times; without a terminal `plan` fails.
- `MadeNamesFit` excepts generated names whose owner starts with a digit: `resolve`
  refuses them by the provider's pattern.
- The properties of `Lifecycle` except a backend two Terraforms changed at the same time
  (`contested`) and one a Terraform died on before it saved (`lost`). The S3 backend is used
  without a lock and no document promises that operations may overlap; after SIGKILL of ict
  the Terraform it started may still be running, and a retry then contests the backend.
- A result file is true but may be old: a failed operation leaves the result of an earlier
  one at its path, and a write that fails after its rename leaves a true result of an
  operation that returned an error.
- `ReaderAgrees` and `RenderedIsChecked` except tags in quotes, which OpenVPN unquotes and ict
  does not. Where the tags of a block differ in letter case OpenVPN may be left in a block that
  never ends; it then rejects the profile, and they say only that it acted on nothing that ict took
  for content. Neither says that the list of refused directives is complete: directives it does
  not name, and those in a form it does not see through, such as a leading `--` or quotes, pass as
  text, so what `README.md:125` says of credentials and scripts is not claimed here.
- `Ends` of `AuthExport` and of `Lifecycle` allow a process to wait for a Terraform that was
  interrupted and does not end: `terraformCommand` sets no `WaitDelay` (`workflow.go:231-239`),
  and nothing bounds that wait.

## Findings

1. **A certificate skipped by paging** (`cleanup_shift`). With more than one page,
   the call's own deletion of an explicit certificate moves the rest of the listing
   down while the offset stays: an entry is never read and the outcome is "cleaned".
   The page size is 1000, so a group of that size is needed: `OnePageCleaned` proves that it
   cannot happen while the group fits one page, and `NothingLeaks` that this and a
   listing that lags are the only ways an `ict auth` loses a certificate silently.
2. **An ID that is read and not used** (`auth_learned`). When an output after
   `vpn_certificate_id` cannot be read, the cleanup starts without the ID
   (`auth.go:431`) and depends on the listing, although the README promises deletion
   by explicit certificate ID.
3. **Artifacts beside an unavailable manifest** (`auth_partial`). A write that fails
   after its rename, and a removal whose error is dropped (`auth.go:458`), leave
   artifacts in place in a run that ends with success.
4. **Endpoints taken from a later environment** (`frozen_endpoints`). An endpoint the
   target did not need is frozen empty, and an empty endpoint overlays nothing
   (`workflow.go:278`): a later operation passes its own variable on to Terraform,
   although the README says endpoints are resolved only by `plan`. Only endpoints that
   the mode of the cluster does not require are concerned.

## Fairness

`CertificateCleanup`: a running call takes its next step, because every request is
bounded by `certificateHTTPTimeout`. Nothing is assumed of the group: listings need not
catch up. `AuthExport`: a run and an owner's call take their next step, because file
operations return and requests are bounded, and the timer of a run goes off. That a Terraform
subprocess ends is not assumed, also when it was interrupted: `terraformCommand` sets no
`WaitDelay`. `Ends` therefore says that a run ends or waits for a Terraform that was interrupted,
and that a run that ended with success has given its lock up. Nothing is assumed of
kills, and a run whose lock file is held is refused rather than kept waiting.
`PromptSelect`: goroutines run, `cmd.Wait` returns after the process ended, a signal
ends fzf, and a load ends once its context is done. Nothing is assumed of the user, nor
of a load whose context is live. `FrozenContext`, `ConfigStore` and `VPNProfile` have no
liveness property and assume none: their calls are sequential code without a wait.
`Lifecycle`: a process goes on when its Terraform has ended, and the apply timer fires. Again no
Terraform need end, interrupted or not, `terraform init` included. `Ends` says that an operation
ends or waits for a Terraform that was told to stop; only `apply` has a timeout, so the others may
also wait for one as long as nobody interrupts them.

## Proofs

`CertificateCleanupProofs` proves, for any number of calls, certificates, allocations
and attempts and for every page size and limit, from `ConstantsAssumption` alone (the
empty ID, the empty attempt and the nil reference are not values; a page is not empty):

- `TypeCorrect`: `Spec => []TypeOK`.
- `Invariance`: `Spec => []Inv`, the inductive invariant.
- `ExplicitFirst`, `MismatchTrue` and `MissedOnlyShifted`: the three invariants that the
  run `cleanup_race` checks.
- `Refinement`: `Spec => CustodySpec`.
- `PendingNamed`: a pending outcome never names a certificate the call was not given: it names an
  explicit reference, or only the attempt when there is none.
- `OnePageCleaned`: `Spec /\ []OnePage => []CleanedDueGone`. What `cleanup_shift` refutes
  holds of every execution whose group always fits one page.

None of the properties is inductive. `ExplicitBeforeList` needs `Past`: the references
the loop variable has passed are *deleted*, not only absent, which no later step of
anyone undoes (`AllAge`), and which in turn needs `Known`: a call is only given IDs that
were issued. `MismatchIsReal` needs `Listed`: what is left to do was filtered by scope,
and metadata does not change, so `GetForeign` cannot happen on a listed certificate. The
refinement needs `Owned`: a deletion is only requested for a target in scope; it maps a
call to its claim, the certificates named and its verdict, and every action to one
action of `CertificateCustody` or to none. A step of one call leaves the invariant of the
others in place (`OthersSame`, `SameInv`); the proof therefore considers one call.

`MissedOnlyByShift` has an invariant of its own, `ListingInv`. While a call lists, every entry
in front of its offset was read (`Scanned`), or an entry that was read has left the listing
(`Shifted`). Publishing appends behind every offset; a removal in front of the offset
removes an entry that was read and thereby makes `Shifted` true, which it stays because what
was read and left is deleted (`Seen`) and never listed again. What was due when the call began
stays listed while it lives (`DueListed`), so after the last page it is to be done
(`Sorted`), unless the listing shifted. No entry appears twice (`Distinct`). `OnePageCleaned` follows
because a listing on one page leaves the offset at its start (`FirstPage`), where nothing can shift.

`FrozenContextProofs` proves `FrozenOnly`: `Spec => []OnlyFrozen`, for every
configuration, request, answer and environment. The invariant says of
a context on its way that its identifier and backend are those `plan` wrote, and that its
values *or* its digest still are (`Carried`); one of the two together with the digest
check of `ReadPlanResult` gives the other. It needs none of the assumptions.

It also proves the other properties of the run `frozen`: `Types`,
`PlanIsReadable`, `ReadWhole`, `GivenIsFrozen`, `SourcesAreOne` and `NamesAreTaken`, for texts,
lists and names of any number and length, from `ContextAssumption` (what a process finds
matches the patterns) and `RequestAssumption` (a request has the types of `Inputs`). The
argument follows the request:

- Sorting a list keeps its identifiers, and sorting it again changes nothing (`SortedKeeps`,
  `NormalizedList`: ranks in a finite set are all taken).
- What is accepted and normalized would be accepted again and normalizes to itself
  (`NormalizePrepares`). That is `Prepared`, the heart of the invariant: an answer keeps it
  because only what is absent is asked for and nothing that is reused is (`PromptPrepares`), and
  so do the defaults (`DefaultsPrepare`). `Kept` says beside it that nothing given was lost, but
  for a list of zones that is not of three.
- The values of a complete, prepared request pass `validateRecoveryValues` (`VPCValid`,
  `ClassicValid`), and those of Satellite do exactly when no text of blanks is left
  (`SatelliteValid`); what else is in the context is derived from them (`PlanDerived`). Hence
  `PlanReadable`: the two validations, written separately in the code, agree.
- A context changed in one part contradicts one of those derivations (`ChangedUnreadable`).
- A name made of a prefix and a name fits every limit (`PrefixedNameFits`, `NamesFit`).

`LifecycleProofs` proves `TypeCorrect`, `RecordedAlways`, `OnceAlways` and `ResultsAlways`:
`Spec => []Recorded`, `[]OnlyOnce` and `[]ResultIsTrue`, for any
number of operations, backends, plans and parts, from `LifecycleAssumption` (the name of the
past is not an operation, and what lies at the paths in the beginning is a context or
nothing). `Recorded` speaks of a backend at rest; the invariant adds what holds while a
Terraform works: on a sound backend it is the only one, its memory is what exists
(`InMemory`), and it knows only resources of its own backend (`OwnBackend`). `Untouched`
disposes of the steps that leave working Terraforms alone. `ResultIsTrue` needs `RInv`: what a
Terraform did when it succeeded stays true until a later operation changes the backend
(`Truth`, with `Followed`: whatever changes it is later), a process that writes a result has a
Terraform that succeeded (`Finished`), and so had the writer of a result that lies at a path
(`Written`).

`Implements` (in `LifecycleProofs`) proves `Spec => AllocationSpec`. Processes, interrupts and kills
are stutters (`StartUnseen`, `StageUnseen`, `InterruptUnseen`). The other steps need what the
invariants say: a part that Terraform does not remember is not in the cluster, because it remembers
what exists (`CreateSeen`, from `InMemory`); what is seen of a deleted resource goes with it, because
each part exists once (`DeleteSeen`, from `OnlyOnce`); what is saved is the cluster, and complete
when Terraform succeeds (`EndSeen`); and what is written is a report of a job that is done
(`WriteSeen`, from `Finished`). A second Terraform on a backend makes it uncertain in the same
step in which it becomes contested (`SetupSeen`).

`AllocationProofs` proves what that is worth to an owner, `OwnerGets`: in every execution of
`Allocation` a certain backend with no operation at work is recorded as it is, each part exists
once, only operations that are done are reported, and what they did is there as long as no other
operation has come to the backend. The invariant adds that one operation at a time works on a
certain backend (`OneAtATime`).

`AuthExportProofs` proves `TypeCorrect`, `NeverMixed`, `AvailableComplete`, `NothingLeaks` and
`CertificateLives`: `Spec => []TypeOK`, `[]NoMixedBundle`, `[]AvailableIsComplete`, `[]NoSilentLeak` and
`[]AvailableCertificateLives`. They hold for any
number of runs, owners, directories and certificates and every page size, from
`ExportAssumption` (the caller's duty above; a VPN is offered only to runs with a policy) and
`GroupAssumption`. The bundle properties rest on the lock file: a run inside a directory owns
its lock (`Holds`), so what it found and wrote there stays (`Written`), and when nobody is
inside the manifest matches the artifacts (`Complete`). The custody property rests on the proofs
about the cleanup: because every step is one of `CertificateCleanup` or none (`StoreNext`), a
certificate that is gone was in the scope of a call (`CallerInv`, proved in
`CertificateCleanupProofs`); every run calls with its own attempt (`Called`), which is
the scope of no other run's certificate, and a run that offers a bundle has not called (`Kept`).
`NoSilentLeak` has an invariant of its own, `LedgerInv`. No certificate exists for a run that has
not got to its `terraform apply` (`Unspent`), because only its own apply issues it (`OwnIssue`).
When a run has written its manifest, that is available, or repeats the verdict of the run's
cleanup word for word, or the run called no cleanup because nothing was issued (`Declared`); a
manifest that a later run has replaced is not asked about. What the verdict means is taken from
`CertificateCleanupProofs`: a pending one names the run's certificate or none (`PendingNamed`'s
invariant), a cleaned one leaves nothing that was named or due, unless the listing shifted
(`CleanedMeans`).

`ConfigStoreProofs` proves `TypeCorrect`, `SetsKeepLoadable`, `NoSilentLoss` and `Implements`:
all four properties of `config`, for any number of calls, paths, values and changes, from
`ConfigAssumption`. `OwnTemporary` says that the inode of a call is no entry of the path before
its rename, and `Holds` what the inode and the call hold at each step; hence everything the path
may name is a whole, synced text (`AllLoad`). For lost updates, `SeenKept` says that what a call
has read lacks the value of no set that had ended when it opened the file, except for an overlap
of two earlier ones; `Overlaps` says the same of the file itself.

`VPNProfileProofs` proves `TypeCorrect`, `Agreement`, `ReaderAgreement` and `CheckedProfile`:
`Spec => []ScannersAgree`, `[]ReaderAgrees` and `[]RenderedIsChecked` for profiles of any length and
any names, spellings and certificates, from `ProfileAssumption`. The invariant says that the
profile is well formed as far as the parser got (`WellFormed`, `Once`), what it has
collected (`Collected`), and what the checker has established of the lines behind it (`Checked`).
The checker's laxer rule for closing tags is harmless because it only runs on what the
parser accepted. Of OpenVPN it says (`Reading`) that it is where the parser is, or in a block
that the parser has closed and will not open again (`Lost`), because no block is accepted twice: no
tag that the parser accepts gets OpenVPN out of it, so it acts on nothing more. In lower case it is
never lost.

`PromptSelectProofs` proves `TypeCorrect`, `Released`, `InterruptHidden` and `Kept`, all safety
properties of `prompt`. The invariant relates what the loader, the caller and the waiter know of
each other's channels (`LoaderInv`, `CallerInv`) to the result (`ResultInv`).

Only model-checked: liveness (`Terminates`, two times `Ends`, `Returns`, `LoaderEnds`), which is out
of the prover's reach. Every other property of a run that passes is a theorem.

## Not modelled

Text formats, JSON and YAML decoding, X.509 and HCL content, HTTP details, file modes
and logging. Of the components with status `not_modelled` or `partly` in `PROJECT.json`:

- Discovery, command line and tmpfs check are sequential, keep no state and have nothing to
  interleave: subprocess calls, a dispatch on flags, and one system call.
- `atomicWrite` (`terraform.go:59-96`) is a write that fails before or after its rename
  (`AuthExport`, `Lifecycle`). Its single steps are those of `persistConfig` without the Sync;
  they are modelled where a reader depends on them, in `ConfigStore`.
- The checks of one leaf certificate, its key and its presentation chain (`auth.go` 529-632,
  685-730) are conjunctions over one X.509 object. `AuthExport` has them as one step
  (`validate`) that succeeds or fails.
- The backend's fields are validated one by one (`backend.go`); only that two backends are
  the same or not matters to the properties, in `FrozenContext` and `Lifecycle`.
- What Terraform's providers do inside an operation, beyond creating, replacing and deleting
  parts one at a time and issuing the certificate.

## Open work

An abstract specification of the output directory, which `AuthExport` implements: a bundle that
appears and goes as a whole.
