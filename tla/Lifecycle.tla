------------------------------ MODULE Lifecycle ------------------------------
(***************************************************************************)
(* The operations on infrastructure: plan, review, apply and destroy.      *)
(* Each is a process that prepares a fresh workspace, runs Terraform on a  *)
(* remote backend that has no lock, and writes one file after Terraform    *)
(* succeeded.  A process may be interrupted, or killed while its Terraform *)
(* goes on; the caller may start the next one at any time.                 *)
(*                                                                         *)
(* What a context holds, and which are read, is the matter of              *)
(* FrozenContext: here a context is its backend and the plan it froze.     *)
(***************************************************************************)
EXTENDS Naturals

CONSTANTS
    Ops,        \* the processes
    Backends,   \* the states in object storage
    Plans,      \* what plan may freeze: one value per set of tfvars
    Parts,      \* the resources a plan consists of
    Paths,      \* where contexts and results are
    Earlier,    \* what is at each path in the beginning
    Before      \* stands for the operations of the past

Kinds == {"plan", "review", "apply", "destroy"}

Nothing == [type |-> "nothing"]
Contexts == [type : {"context"}, backend : Backends, plan : Plans]
Results == [type : {"result"}, operation : {"apply", "destroy"}, by : Ops]

\* A part in the cloud, made by an operation on a backend.
Resources == [backend : Backends, plan : Plans, part : Parts, by : Ops \cup {Before}]

ASSUME LifecycleAssumption ==
    /\ Before \notin Ops
    /\ Earlier \in [Paths -> {Nothing} \cup Contexts]

VARIABLES
    file,       \* what is at each path
    op,         \* the ict processes
    child,      \* their Terraform subprocesses
    remote,     \* the Terraform state of each backend
    cloud,      \* the resources that exist
    contested,  \* ghost: backends two Terraforms changed at the same time
    lost,       \* ghost: backends a Terraform died on before it could save
    later       \* ghost: the operations whose Terraform started after one's own

vars == <<file, op, child, remote, cloud, contested, lost, later>>

-----------------------------------------------------------------------------
Active == {"setup", "running", "writing"}
Ended == {"succeeded", "failed", "killed"}

Idle == [stage |-> "idle"]
Processes == [stage : Active \cup Ended, kind : Kinds, frozen : Contexts, live : BOOLEAN]

\* record is the state as Terraform has it in memory.
NoChild == [stage |-> "none"]
Children == [stage : {"working", "ended"}, record : SUBSET Resources,
             ok : BOOLEAN, signalled : BOOLEAN]

Kind(p) == op[p].kind
Backend(p) == op[p].frozen.backend
Changes(p) == Kind(p) \in {"apply", "destroy"}

Working(p) == child[p].stage = "working"
Changing(b) == {p \in Ops : Working(p) /\ Changes(p) /\ Backend(p) = b}
In(b) == {r \in cloud : r.backend = b}

Init ==
    \E made \in [Backends -> SUBSET Parts], plan \in Plans :
        LET past == {[backend |-> b, plan |-> plan, part |-> x, by |-> Before] :
                        b \in Backends, x \in Parts}
        IN /\ file = Earlier
           /\ op = [p \in Ops |-> Idle]
           /\ child = [p \in Ops |-> NoChild]
           \* Earlier operations left some, all or none of the parts of a plan.
           /\ cloud = {r \in past : r.part \in made[r.backend]}
           /\ remote = [b \in Backends |-> {r \in cloud : r.backend = b}]
           /\ contested = {} /\ lost = {}
           /\ later = [p \in Ops |-> {}]

Unwanted(p) ==
    {r \in child[p].record : Kind(p) = "destroy" \/ r.plan # op[p].frozen.plan}
Present(p) == {r.part : r \in child[p].record}

\* Terraform has made what its command asks for.
Complete(p) ==
    CASE Kind(p) = "apply" -> Unwanted(p) = {} /\ Present(p) = Parts
      [] Kind(p) = "destroy" -> child[p].record = {}
      [] OTHER -> TRUE

-----------------------------------------------------------------------------
(* The ict process p *)

\* Plan freezes a context of its own; the others load one.
Start(p) ==
    /\ op[p].stage = "idle"
    /\ \E kind \in Kinds, frozen \in Contexts :
         /\ kind # "plan" => \E source \in Paths : file[source] = frozen
         /\ op' = [op EXCEPT ![p] = [stage |-> "setup", kind |-> kind, frozen |-> frozen,
                                     live |-> TRUE]]
    /\ UNCHANGED <<file, child, remote, cloud, contested, lost, later>>

\* Mutant: the workspace declares no remote backend, so that Terraform keeps a local state.
SetupLocal(p) ==
    /\ op[p].stage = "setup" /\ op[p].live
    /\ child' = [child EXCEPT ![p] = [stage |-> "working", record |-> {}, ok |-> FALSE,
                                      signalled |-> FALSE]]
    /\ op' = [op EXCEPT ![p].stage = "running"]
    /\ UNCHANGED <<file, remote, cloud, contested, lost, later>>

\* A fresh workspace is filled, Terraform is initialized on the backend and started.  It
\* reads the state, and drops from it what no longer exists.
Setup(p) ==
    /\ op[p].stage = "setup" /\ op[p].live
    /\ child' = [child EXCEPT ![p] = [stage |-> "working",
                                      record |-> remote[Backend(p)] \cap cloud,
                                      ok |-> FALSE, signalled |-> FALSE]]
    /\ op' = [op EXCEPT ![p].stage = "running"]
    /\ contested' = IF Changes(p) /\ Changing(Backend(p)) # {}
                    THEN contested \cup {Backend(p)} ELSE contested
    /\ later' = [q \in Ops |->
                   IF q # p /\ child[q].stage # "none" /\ Backend(q) = Backend(p)
                   THEN later[q] \cup {p} ELSE later[q]]
    /\ UNCHANGED <<file, remote, cloud, lost>>

\* A file cannot be written, a credential is missing, init fails, or there is no time left.
SetupFails(p) ==
    /\ op[p].stage = "setup"
    /\ op' = [op EXCEPT ![p].stage = "failed"]
    /\ UNCHANGED <<file, child, remote, cloud, contested, lost, later>>

\* Mutant: the subprocess is killed, as exec does unless told otherwise.
InterruptKills(p) ==
    /\ op[p].stage \in {"setup", "running"} /\ op[p].live
    /\ op' = [op EXCEPT ![p].live = FALSE]
    /\ child' = IF Working(p)
                THEN [child EXCEPT ![p].stage = "ended", ![p].signalled = TRUE,
                                   ![p].record = {}] ELSE child
    /\ UNCHANGED <<file, remote, cloud, contested, lost, later>>

\* Mutant: the subprocess is not told.
InterruptSilent(p) ==
    /\ op[p].stage \in {"setup", "running"} /\ op[p].live
    /\ op' = [op EXCEPT ![p].live = FALSE]
    /\ UNCHANGED <<file, child, remote, cloud, contested, lost, later>>

\* The context of the process ends: Terraform, if it runs, is interrupted.
Interrupt(p) ==
    /\ op[p].stage \in {"setup", "running"} /\ op[p].live
    /\ op' = [op EXCEPT ![p].live = FALSE]
    /\ child' = IF Working(p) THEN [child EXCEPT ![p].signalled = TRUE] ELSE child
    /\ UNCHANGED <<file, remote, cloud, contested, lost, later>>

\* The infrastructure timeout, which only apply has.
Timeout(p) == op[p].stage # "idle" /\ Kind(p) = "apply" /\ Interrupt(p)

\* Mutant: the exit status is not looked at.
ReapAny(p) ==
    /\ op[p].stage = "running" /\ child[p].stage = "ended"
    /\ op' = [op EXCEPT ![p].stage = "writing"]
    /\ UNCHANGED <<file, child, remote, cloud, contested, lost, later>>

\* cmd.Wait returns no error: Terraform succeeded and was not interrupted.
Reap(p) ==
    /\ op[p].stage = "running" /\ child[p].stage = "ended"
    /\ child[p].ok /\ ~child[p].signalled
    /\ op' = [op EXCEPT ![p].stage = "writing"]
    /\ UNCHANGED <<file, child, remote, cloud, contested, lost, later>>

\* It returns an error, also for a Terraform that succeeded after it was interrupted.
ReapFails(p) ==
    /\ op[p].stage = "running" /\ child[p].stage = "ended"
    /\ ~child[p].ok \/ ~op[p].live
    /\ op' = [op EXCEPT ![p].stage = "failed"]
    /\ UNCHANGED <<file, child, remote, cloud, contested, lost, later>>

\* Mutant: every operation writes a result.
OutputResult(p) == [type |-> "result", operation |-> Kind(p), by |-> p]

\* Mutant: destroy passes on the operation of apply.
OutputApply(p) ==
    IF Changes(p) THEN [type |-> "result", operation |-> "apply", by |-> p] ELSE op[p].frozen

\* What the file says: a context after plan and review, a result after the others.
Output(p) ==
    IF Changes(p) THEN [type |-> "result", operation |-> Kind(p), by |-> p] ELSE op[p].frozen

\* The path is an argument of the command; nothing depends on it before.
WriteResult(p) ==
    /\ op[p].stage = "writing"
    /\ op' = [op EXCEPT ![p].stage = "succeeded"]
    /\ \E path \in Paths : file' = [file EXCEPT ![path] = Output(p)]
    /\ UNCHANGED <<child, remote, cloud, contested, lost, later>>

\* The write fails before the file is replaced, or after.
WriteFails(p) ==
    /\ op[p].stage = "writing"
    /\ op' = [op EXCEPT ![p].stage = "failed"]
    /\ \/ UNCHANGED file
       \/ \E path \in Paths : file' = [file EXCEPT ![path] = Output(p)]
    /\ UNCHANGED <<child, remote, cloud, contested, lost, later>>

\* The process is killed; its Terraform is not.
Kill(p) ==
    /\ op[p].stage \in Active
    /\ op' = [op EXCEPT ![p].stage = "killed"]
    /\ UNCHANGED <<file, child, remote, cloud, contested, lost, later>>

-----------------------------------------------------------------------------
(* The Terraform of p, which is not part of this repository.  Interrupted, it may *)
(* still finish what it is doing.                                                 *)

Create(p) ==
    /\ Working(p) /\ Kind(p) = "apply"
    /\ \E x \in Parts \ Present(p) :
         LET r == [backend |-> Backend(p), plan |-> op[p].frozen.plan, part |-> x, by |-> p]
         IN /\ cloud' = cloud \cup {r}
            /\ child' = [child EXCEPT ![p].record = @ \cup {r}]
    /\ UNCHANGED <<file, op, remote, contested, lost, later>>

\* What destroy finds in the state, or what apply has to replace.
Delete(p) ==
    /\ Working(p) /\ Changes(p)
    /\ \E r \in Unwanted(p) :
         /\ cloud' = cloud \ {r}
         /\ child' = [child EXCEPT ![p].record = @ \ {r}]
    /\ UNCHANGED <<file, op, remote, contested, lost, later>>

Save(p) == remote' = IF Changes(p) THEN [remote EXCEPT ![Backend(p)] = child[p].record]
                     ELSE remote

Succeed(p) ==
    /\ Working(p) /\ Complete(p)
    /\ Save(p)
    /\ child' = [child EXCEPT ![p] = [@ EXCEPT !.stage = "ended", !.ok = TRUE, !.record = {}]]
    /\ UNCHANGED <<file, op, cloud, contested, lost, later>>

\* A provider refuses something, or the interrupt arrives: the state is saved all the same.
Fail(p) ==
    /\ Working(p)
    /\ Save(p)
    /\ child' = [child EXCEPT ![p] = [@ EXCEPT !.stage = "ended", !.record = {}]]
    /\ UNCHANGED <<file, op, cloud, contested, lost, later>>

\* Terraform is killed or cannot reach the backend any more.
Die(p) ==
    /\ Working(p)
    /\ child' = [child EXCEPT ![p] = [@ EXCEPT !.stage = "ended", !.record = {}]]
    /\ lost' = IF Changes(p) THEN lost \cup {Backend(p)} ELSE lost
    /\ UNCHANGED <<file, op, remote, cloud, contested, later>>

-----------------------------------------------------------------------------
Work(p) == Setup(p) \/ SetupFails(p) \/ Reap(p) \/ ReapFails(p) \/ WriteResult(p) \/ WriteFails(p)
Terraform(p) == Create(p) \/ Delete(p) \/ Succeed(p) \/ Fail(p) \/ Die(p)

Next ==
    \E p \in Ops : Start(p) \/ Work(p) \/ Interrupt(p) \/ Timeout(p) \/ Kill(p) \/ Terraform(p)

\* The timer fires, and a process goes on when Terraform has ended.  That Terraform ends is
\* not assumed, also of one that was interrupted: terraformCommand sets no WaitDelay, and
\* cmd.Wait waits.  Setup waits for terraform init.
Fairness ==
    \A p \in Ops : WF_vars(op[p].stage # "setup" /\ Work(p)) /\ WF_vars(Timeout(p))

Spec == Init /\ [][Next]_vars /\ Fairness

-----------------------------------------------------------------------------
(* Properties *)

\* The variables keep their types, and a subprocess exists from the end of setup on.
TypeOK ==
    /\ file \in [Paths -> {Nothing} \cup Contexts \cup Results]
    /\ op \in [Ops -> {Idle} \cup Processes]
    /\ child \in [Ops -> {NoChild} \cup Children]
    /\ \A p \in Ops : op[p].stage \in {"idle", "setup"} => child[p] = NoChild
    /\ \A p \in Ops : op[p].stage \in {"running", "writing", "succeeded"} => child[p] # NoChild
    /\ cloud \subseteq Resources
    /\ remote \in [Backends -> SUBSET Resources]
    /\ contested \subseteq Backends /\ lost \subseteq Backends
    /\ later \in [Ops -> SUBSET Ops]

\* Two Terraforms on one backend, or one that died, are the only ways to lose track.
Sound(b) == b \notin contested /\ b \notin lost

\* Whatever happens to the ict processes, a backend at rest records what exists, all of it
\* and nothing else: an interrupted or killed operation leaves nothing that the next one
\* would not find (terraformCommand interrupts Terraform; MaterializeBackend).
Recorded ==
    \A b \in Backends : Sound(b) /\ Changing(b) = {} => In(b) = remote[b]

\* A retry does not make a second cluster: of each part of a backend at most one exists,
\* after any sequence of failed, repeated and interrupted operations (runOperation).
OnlyOnce ==
    \A b \in Backends : Sound(b) => \A r, s \in In(b) : r.part = s.part => r = s

\* A result file is true.  After a result of destroy only what was applied later exists;
\* after one of apply everything of its plan exists until a later operation changes it
\* (runOperation, writeOperationResult).
ResultIsTrue ==
    \A path \in Paths : file[path].type = "result" =>
        LET p == file[path].by
            b == Backend(p)
        IN Sound(b) =>
             IF file[path].operation = "destroy"
             THEN \A r \in In(b) : r.by \in later[p]
             ELSE later[p] = {} =>
                    /\ {r.part : r \in In(b)} = Parts
                    /\ \A r \in In(b) : r.plan = op[p].frozen.plan

\* Terraform has been interrupted, or is one that nothing interrupts.
Waits(p) ==
    \/ op[p].stage = "setup" /\ (~op[p].live \/ Kind(p) # "apply")
    \/ Working(p) /\ (child[p].signalled \/ (op[p].live /\ Kind(p) # "apply"))

\* workflow.go:231-239,595-632 - an operation ends or waits for its Terraform; an apply, and
\* any operation whose context has ended, only for a Terraform that has been told to stop.
Ends == \A p \in Ops : op[p].stage \in Active ~> op[p].stage \in Ended \/ Waits(p)

-----------------------------------------------------------------------------
(* The promise of Allocation, and what of it is seen here *)

Seen(resources) == {[part |-> r.part, plan |-> r.plan] : r \in resources}
clusters == [b \in Backends |-> IF Sound(b) THEN Seen(In(b)) ELSE {}]
records == [b \in Backends |-> IF Sound(b) THEN Seen(remote[b]) ELSE {}]

\* How far the Terraform of p is that changes something.
Progress(p) ==
    IF Working(p) THEN "working" ELSE IF child[p].ok THEN "done" ELSE "stopped"
jobs == [p \in Ops |->
    IF child[p] = NoChild \/ ~Changes(p) THEN [state |-> "none"]
    ELSE [state |-> Progress(p), kind |-> Kind(p), backend |-> Backend(p),
          plan |-> op[p].frozen.plan]]
reports == [path \in Paths |->
    IF file[path].type = "result" THEN [of |-> file[path].operation, by |-> file[path].by]
    ELSE [of |-> "nothing"]]

Promise == INSTANCE Allocation WITH
    cluster <- clusters, record <- records, uncertain <- contested \cup lost,
    job <- jobs, report <- reports

\* workflow.go:352-437,595-655 - processes that are killed, time out and are retried, with a
\* Terraform that may outlive them, change a cluster only as one operation at a time would:
\* it is built and taken down part by part, is recorded as it is when an operation ends, and
\* only what was done in full is reported.
AllocationSpec == Promise!Spec
=============================================================================
