--------------------------- MODULE LifecycleProofs ---------------------------
(***************************************************************************)
(* What holds of Lifecycle for any number of operations, backends, plans   *)
(* and parts: the types, and that a backend at rest records what exists.   *)
(***************************************************************************)
EXTENDS Lifecycle, TLAPS

\* On a sound backend one Terraform at most makes changes, and until it saves it is its
\* memory that agrees with the cloud.
InMemory ==
    \A b \in Backends : Sound(b) =>
        \A p \in Changing(b) : Changing(b) = {p} /\ child[p].record = In(b)

\* A state and a Terraform know only resources of their own backend.
OwnBackend ==
    /\ \A b \in Backends : \A r \in remote[b] : r.backend = b
    /\ \A p \in Ops : Working(p) => \A r \in child[p].record : r.backend = Backend(p)

Kept == Recorded /\ InMemory /\ OwnBackend
Inv == TypeOK /\ Kept

Step(p) == Start(p) \/ Work(p) \/ Interrupt(p) \/ Timeout(p) \/ Kill(p) \/ Terraform(p)

-----------------------------------------------------------------------------
LEMMA InitType ==
    ASSUME Init
    PROVE  TypeOK
<1>1. file \in [Paths -> {Nothing} \cup Contexts \cup Results]
  BY LifecycleAssumption DEF Init
<1>2. cloud \subseteq Resources /\ remote \in [Backends -> SUBSET Resources]
  BY DEF Init, Resources
<1>3. /\ op \in [Ops -> {Idle} \cup Processes] /\ child \in [Ops -> {NoChild} \cup Children]
      /\ contested \subseteq Backends /\ lost \subseteq Backends
      /\ later \in [Ops -> SUBSET Ops]
      /\ \A p \in Ops : op[p].stage = "idle" /\ child[p] = NoChild
  BY DEF Init, Idle
<1> QED
  BY <1>1, <1>2, <1>3 DEF TypeOK

\* What is started is a process of some kind with some context.
LEMMA StartType ==
    ASSUME TypeOK, NEW p \in Ops, Start(p)
    PROVE  TypeOK'
<1>1. PICK kind \in Kinds, frozen \in Contexts :
        op' = [op EXCEPT ![p] = [stage |-> "setup", kind |-> kind, frozen |-> frozen,
                                 live |-> TRUE]]
  BY DEF Start
<1>2. [stage |-> "setup", kind |-> kind, frozen |-> frozen, live |-> TRUE] \in Processes
  BY DEF Processes, Active
<1> QED
  BY <1>1, <1>2 DEF TypeOK, Start

\* A process goes to another stage and keeps the rest.
LEMMA StageType ==
    ASSUME TypeOK, NEW p \in Ops, op[p].stage # "idle",
           NEW stage \in Active \cup Ended, op' = [op EXCEPT ![p].stage = stage]
    PROVE  /\ op' \in [Ops -> {Idle} \cup Processes]
           /\ op'[p].stage = stage /\ op'[p].kind = op[p].kind /\ op'[p].frozen = op[p].frozen
           /\ \A q \in Ops \ {p} : op'[q] = op[q]
<1>1. op[p] \in Processes
  BY DEF TypeOK, Idle
<1>2. [op[p] EXCEPT !.stage = stage] \in Processes
  BY <1>1 DEF Processes
<1> QED
  BY <1>1, <1>2 DEF TypeOK, Processes

\* What SetupFails, Reap, ReapFails, WriteResult, WriteFails and Kill have in common.
LEMMA OnlyStage ==
    ASSUME TypeOK, NEW p \in Ops, op[p].stage \in Active, NEW stage \in Active \cup Ended,
           op' = [op EXCEPT ![p].stage = stage],
           stage \in {"running", "writing", "succeeded"} => child[p] # NoChild,
           stage # "setup",
           file' \in [Paths -> {Nothing} \cup Contexts \cup Results],
           UNCHANGED <<child, remote, cloud, contested, lost, later>>
    PROVE  TypeOK'
<1>1. /\ op' \in [Ops -> {Idle} \cup Processes]
      /\ op'[p].stage = stage
      /\ \A q \in Ops \ {p} : op'[q] = op[q]
  BY StageType DEF Active
<1>2. stage \notin {"idle", "setup"}
  BY DEF Active, Ended
<1> QED
  BY <1>1, <1>2 DEF TypeOK

\* The subprocess of p changes, and stays one.
LEMMA ChildType ==
    ASSUME TypeOK, NEW p \in Ops, child[p].stage # "none", NEW c \in Children,
           child' = [child EXCEPT ![p] = c],
           cloud' \subseteq Resources, remote' \in [Backends -> SUBSET Resources],
           lost' \subseteq Backends, UNCHANGED <<file, op, contested, later>>
    PROVE  TypeOK'
<1>1. child[p] # NoChild /\ c # NoChild
  BY DEF NoChild, Children
<1> QED
  BY <1>1 DEF TypeOK

LEMMA OutputType ==
    ASSUME TypeOK, NEW p \in Ops, op[p].stage # "idle"
    PROVE  Output(p) \in Contexts \cup Results
<1>1. op[p].kind \in Kinds /\ op[p].frozen \in Contexts
  BY DEF TypeOK, Processes, Idle
<1> QED
  BY <1>1 DEF Output, Changes, Kind, Results

LEMMA SetupType ==
    ASSUME TypeOK, NEW p \in Ops, Setup(p)
    PROVE  TypeOK'
<1>1. op' = [op EXCEPT ![p].stage = "running"] /\ op[p].stage = "setup" /\ op[p] \in Processes
  BY DEF Setup, TypeOK, Idle
<1>2. /\ op' \in [Ops -> {Idle} \cup Processes] /\ op'[p].stage = "running"
      /\ \A q \in Ops \ {p} : op'[q] = op[q]
  BY <1>1, StageType DEF Active
<1>3. Backend(p) \in Backends
  BY <1>1 DEF Backend, Processes, Contexts
<1>4. [stage |-> "working", record |-> remote[Backend(p)] \cap cloud,
       ok |-> FALSE, signalled |-> FALSE] \in Children \ {NoChild}
  BY <1>3 DEF Children, TypeOK, NoChild
<1>5. /\ child' \in [Ops -> {NoChild} \cup Children] /\ child'[p] # NoChild
      /\ \A q \in Ops \ {p} : child'[q] = child[q]
  BY <1>4 DEF Setup, TypeOK
<1>6. contested' \subseteq Backends
  BY <1>3 DEF Setup, TypeOK
<1>7. later' \in [Ops -> SUBSET Ops]
  BY DEF Setup, TypeOK
<1> QED
  BY <1>2, <1>5, <1>6, <1>7 DEF TypeOK, Setup

LEMMA InterruptType ==
    ASSUME TypeOK, NEW p \in Ops, Interrupt(p)
    PROVE  TypeOK'
<1>1. op[p] \in Processes /\ op' = [op EXCEPT ![p].live = FALSE]
  BY DEF Interrupt, TypeOK, Idle
<1>2. [op[p] EXCEPT !.live = FALSE] \in Processes
  BY <1>1 DEF Processes
<1>3. /\ op' \in [Ops -> {Idle} \cup Processes]
      /\ \A q \in Ops : op'[q].stage = op[q].stage
  BY <1>1, <1>2 DEF TypeOK, Processes
<1>4. /\ child' \in [Ops -> {NoChild} \cup Children]
      /\ \A q \in Ops : child'[q] = NoChild <=> child[q] = NoChild
  <2>1. CASE Working(p)
    <3>1. child[p] \in Children /\ child' = [child EXCEPT ![p].signalled = TRUE]
      BY <2>1 DEF Working, TypeOK, NoChild, Interrupt
    <3>2. [child[p] EXCEPT !.signalled = TRUE] \in Children
      BY <3>1 DEF Children
    <3>3. \A c \in Children : c # NoChild
      BY DEF Children, NoChild
    <3> QED
      BY <3>1, <3>2, <3>3 DEF TypeOK
  <2>2. CASE ~Working(p)
    BY <2>2 DEF Interrupt, TypeOK
  <2> QED
    BY <2>1, <2>2
<1> QED
  BY <1>3, <1>4 DEF TypeOK, Interrupt

\* What a working Terraform is, and what it becomes when it ends.
LEMMA WorkingType ==
    ASSUME TypeOK, NEW p \in Ops, Working(p)
    PROVE  /\ child[p] \in Children
           /\ op[p] \in Processes /\ Backend(p) \in Backends /\ Kind(p) \in Kinds
           /\ op[p].frozen.plan \in Plans
<1>1. child[p] \in Children /\ child[p] # NoChild
  BY DEF Working, TypeOK, NoChild
<1>2. op[p] \in Processes
  BY <1>1 DEF TypeOK, Idle
<1> QED
  BY <1>1, <1>2 DEF Processes, Backend, Kind, Contexts

LEMMA CreateStep ==
    ASSUME TypeOK, NEW p \in Ops, Create(p)
    PROVE  \E r \in Resources :
             /\ r.backend = Backend(p)
             /\ cloud' = cloud \cup {r}
             /\ [child[p] EXCEPT !.record = @ \cup {r}] \in Children
             /\ child' = [child EXCEPT ![p] = [child[p] EXCEPT !.record = @ \cup {r}]]
<1>1. PICK x \in Parts :
        LET r == [backend |-> Backend(p), plan |-> op[p].frozen.plan, part |-> x, by |-> p]
        IN /\ cloud' = cloud \cup {r}
           /\ child' = [child EXCEPT ![p].record = @ \cup {r}]
  BY DEF Create
<1> DEFINE r == [backend |-> Backend(p), plan |-> op[p].frozen.plan, part |-> x, by |-> p]
<1>2. r \in Resources
  BY WorkingType DEF Create, Resources
<1>3. child[p] \in Children
  BY WorkingType DEF Create
<1>4. [child[p] EXCEPT !.record = @ \cup {r}] \in Children
  BY <1>2, <1>3 DEF Children
<1> QED
  BY <1>1, <1>2, <1>4

LEMMA DeleteStep ==
    ASSUME TypeOK, NEW p \in Ops, Delete(p)
    PROVE  \E r \in child[p].record :
             /\ cloud' = cloud \ {r}
             /\ [child[p] EXCEPT !.record = @ \ {r}] \in Children
             /\ child' = [child EXCEPT ![p] = [child[p] EXCEPT !.record = @ \ {r}]]
<1>1. PICK r \in Unwanted(p) :
        /\ cloud' = cloud \ {r}
        /\ child' = [child EXCEPT ![p].record = @ \ {r}]
  BY DEF Delete
<1>2. child[p] \in Children /\ r \in child[p].record
  BY WorkingType DEF Delete, Unwanted
<1>3. [child[p] EXCEPT !.record = @ \ {r}] \in Children
  BY <1>2 DEF Children
<1> QED
  BY <1>1, <1>2, <1>3

\* Succeed, Fail and Die end the subprocess of p.
LEMMA EndStep ==
    ASSUME TypeOK, NEW p \in Ops, Succeed(p) \/ Fail(p) \/ Die(p)
    PROVE  \E c \in Children : c.stage = "ended" /\ child' = [child EXCEPT ![p] = c]
<1>1. child[p] \in Children
  BY WorkingType DEF Succeed, Fail, Die
<1>2. CASE Succeed(p)
  <2> DEFINE c == [child[p] EXCEPT !.stage = "ended", !.ok = TRUE, !.record = {}]
  <2>1. c \in Children
    BY <1>1 DEF Children
  <2>2. child' = [child EXCEPT ![p] = c]
    BY <1>2 DEF Succeed
  <2> QED
    BY <1>1, <2>1, <2>2 DEF Children
<1>3. CASE Fail(p) \/ Die(p)
  <2> DEFINE c == [child[p] EXCEPT !.stage = "ended", !.record = {}]
  <2>1. c \in Children
    BY <1>1 DEF Children
  <2>2. child' = [child EXCEPT ![p] = c]
    BY <1>3 DEF Fail, Die
  <2> QED
    BY <1>1, <2>1, <2>2 DEF Children
<1> QED
  BY <1>2, <1>3

LEMMA SaveType ==
    ASSUME TypeOK, NEW p \in Ops, Working(p), Save(p)
    PROVE  remote' \in [Backends -> SUBSET Resources]
<1>1. child[p].record \subseteq Resources
  BY WorkingType DEF Children
<1> QED
  BY <1>1 DEF Save, TypeOK

LEMMA TerraformType ==
    ASSUME TypeOK, NEW p \in Ops, Terraform(p)
    PROVE  TypeOK'
<1>1. Working(p) /\ child[p].stage # "none"
  BY DEF Terraform, Create, Delete, Succeed, Fail, Die, Working
<1>2. CASE Create(p)
  <2>1. PICK r \in Resources :
          /\ cloud' = cloud \cup {r}
          /\ [child[p] EXCEPT !.record = @ \cup {r}] \in Children
          /\ child' = [child EXCEPT ![p] = [child[p] EXCEPT !.record = @ \cup {r}]]
    BY <1>2, CreateStep
  <2>2. cloud' \subseteq Resources
    BY <2>1 DEF TypeOK
  <2>3. UNCHANGED <<file, op, remote, contested, lost, later>>
    BY <1>2 DEF Create
  <2> QED
    BY <1>1, <2>1, <2>2, <2>3, ChildType DEF TypeOK
<1>3. CASE Delete(p)
  <2>1. PICK r \in child[p].record :
          /\ cloud' = cloud \ {r}
          /\ [child[p] EXCEPT !.record = @ \ {r}] \in Children
          /\ child' = [child EXCEPT ![p] = [child[p] EXCEPT !.record = @ \ {r}]]
    BY <1>3, DeleteStep
  <2>2. cloud' \subseteq Resources
    BY <2>1 DEF TypeOK
  <2>3. UNCHANGED <<file, op, remote, contested, lost, later>>
    BY <1>3 DEF Delete
  <2> QED
    BY <1>1, <2>1, <2>2, <2>3, ChildType DEF TypeOK
<1>4. CASE Succeed(p) \/ Fail(p) \/ Die(p)
  <2>1. PICK c \in Children : child' = [child EXCEPT ![p] = c]
    BY <1>4, EndStep
  <2>2. cloud' \subseteq Resources /\ UNCHANGED <<file, op, contested, later>>
    BY <1>4 DEF Succeed, Fail, Die, TypeOK
  <2>3. remote' \in [Backends -> SUBSET Resources]
    BY <1>1, <1>4, SaveType DEF Succeed, Fail, Die, TypeOK
  <2>4. lost' \subseteq Backends
    BY <1>1, <1>4, WorkingType DEF Succeed, Fail, Die, TypeOK
  <2> QED
    BY <1>1, <2>1, <2>2, <2>3, <2>4, ChildType
<1> QED
  BY <1>2, <1>3, <1>4 DEF Terraform

LEMMA StepType ==
    ASSUME TypeOK, [Next]_vars
    PROVE  TypeOK'
<1>1. CASE UNCHANGED vars
  BY <1>1 DEF vars, TypeOK
<1>2. ASSUME NEW p \in Ops, Step(p) PROVE TypeOK'
  <2>1. CASE Start(p)
    BY <2>1, StartType
  <2>2. CASE Setup(p)
    BY <2>2, SetupType
  <2>3. CASE SetupFails(p) \/ Reap(p) \/ ReapFails(p) \/ Kill(p)
    <3>1. UNCHANGED <<file, child, remote, cloud, contested, lost, later>>
      BY <2>3 DEF SetupFails, Reap, ReapFails, Kill
    <3>2. op[p].stage \in Active
      BY <2>3 DEF SetupFails, Reap, ReapFails, Kill, Active
    <3>3. \E stage \in {"writing", "failed", "killed"} :
            /\ op' = [op EXCEPT ![p].stage = stage]
            /\ stage = "writing" => op[p].stage = "running"
      BY <2>3 DEF SetupFails, Reap, ReapFails, Kill
    <3>4. op[p].stage = "running" => child[p] # NoChild
      BY DEF TypeOK
    <3> QED
      BY <3>1, <3>2, <3>3, <3>4, OnlyStage DEF Active, Ended, TypeOK
  <2>4. CASE WriteResult(p) \/ WriteFails(p)
    <3>1. UNCHANGED <<child, remote, cloud, contested, lost, later>>
      BY <2>4 DEF WriteResult, WriteFails
    <3>2. op[p].stage = "writing" /\ op[p].stage \in Active /\ child[p] # NoChild
      BY <2>4 DEF WriteResult, WriteFails, Active, TypeOK
    <3>3. \E stage \in {"succeeded", "failed"} : op' = [op EXCEPT ![p].stage = stage]
      BY <2>4 DEF WriteResult, WriteFails
    <3>4. Output(p) \in Contexts \cup Results
      BY <3>2, OutputType
    <3>5. file' \in [Paths -> {Nothing} \cup Contexts \cup Results]
      BY <2>4, <3>4 DEF WriteResult, WriteFails, TypeOK
    <3> QED
      BY <3>1, <3>2, <3>3, <3>5, OnlyStage DEF Active, Ended
  <2>5. CASE Interrupt(p) \/ Timeout(p)
    BY <2>5, InterruptType DEF Timeout
  <2>6. CASE Terraform(p)
    BY <2>6, TerraformType
  <2> QED
    BY <1>2, <2>1, <2>2, <2>3, <2>4, <2>5, <2>6 DEF Step, Work
<1> QED
  BY <1>1, <1>2 DEF Next, Step

\* Every variable keeps its type, whatever happens to the processes.
THEOREM TypeCorrect == Spec => []TypeOK
<1>1. Init => TypeOK
  BY InitType
<1>2. TypeOK /\ [Next]_vars => TypeOK'
  BY StepType
<1> QED
  BY <1>1, <1>2, PTL DEF Spec

-----------------------------------------------------------------------------
\* A step that leaves the backends and every working Terraform alone keeps what holds of
\* them.
LEMMA Untouched ==
    ASSUME Kept, UNCHANGED <<remote, cloud, contested, lost>>,
           \A q \in Ops :
             /\ Working(q)' <=> Working(q)
             /\ Working(q) => /\ Changes(q)' = Changes(q) /\ Backend(q)' = Backend(q)
                              /\ child'[q].record = child[q].record
    PROVE  Kept'
<1>1. \A b \in Backends : Changing(b)' = Changing(b) /\ In(b)' = In(b) /\ Sound(b)' = Sound(b)
  BY DEF Changing, In, Sound
<1>2. Recorded'
  BY <1>1 DEF Recorded, Kept
<1>3. InMemory'
  BY <1>1 DEF InMemory, Changing, Kept
<1>4. OwnBackend'
  BY DEF OwnBackend, Kept
<1> QED
  BY <1>2, <1>3, <1>4 DEF Kept

\* The steps of a process that only go to another stage.
LEMMA StageInv ==
    ASSUME Inv, NEW p \in Ops, op[p].stage # "idle", NEW stage \in Active \cup Ended,
           op' = [op EXCEPT ![p].stage = stage],
           UNCHANGED <<child, remote, cloud, contested, lost>>
    PROVE  Kept'
<1>1. \A q \in Ops : op'[q].kind = op[q].kind /\ op'[q].frozen = op[q].frozen
  BY StageType DEF Inv
<1>2. \A q \in Ops :
        /\ Working(q)' <=> Working(q)
        /\ Changes(q)' = Changes(q) /\ Backend(q)' = Backend(q)
  BY <1>1 DEF Working, Changes, Kind, Backend
<1> QED
  BY <1>2, Untouched DEF Inv

\* A process that has not started has no Terraform.
LEMMA StartInv ==
    ASSUME Inv, NEW p \in Ops, Start(p)
    PROVE  Kept'
<1>1. ~Working(p) /\ UNCHANGED <<child, remote, cloud, contested, lost>>
  BY DEF Start, Inv, TypeOK, Working, NoChild
<1>2. \A q \in Ops \ {p} : op'[q] = op[q]
  BY DEF Start, Inv, TypeOK
<1>3. \A q \in Ops :
        /\ Working(q)' <=> Working(q)
        /\ Working(q) => Changes(q)' = Changes(q) /\ Backend(q)' = Backend(q)
  BY <1>1, <1>2 DEF Working, Changes, Kind, Backend
<1> QED
  BY <1>1, <1>3, Untouched DEF Inv

\* The interrupt reaches Terraform, which goes on with what it has in memory.
LEMMA InterruptInv ==
    ASSUME Inv, NEW p \in Ops, Interrupt(p)
    PROVE  Kept'
<1>1. op[p] \in Processes /\ op' = [op EXCEPT ![p].live = FALSE]
  BY DEF Interrupt, Inv, TypeOK, Idle
<1>2. \A q \in Ops : op'[q].kind = op[q].kind /\ op'[q].frozen = op[q].frozen
  BY <1>1 DEF Processes, Inv, TypeOK
<1>3. \A q \in Ops : child'[q].stage = child[q].stage /\ child'[q].record = child[q].record
  <2>1. CASE Working(p)
    <3>1. child[p] \in Children /\ child' = [child EXCEPT ![p].signalled = TRUE]
      BY <2>1 DEF Working, Inv, TypeOK, NoChild, Interrupt
    <3> QED
      BY <3>1 DEF Children, Inv, TypeOK
  <2>2. CASE ~Working(p)
    BY <2>2 DEF Interrupt
  <2> QED
    BY <2>1, <2>2
<1>4. \A q \in Ops :
        /\ Working(q)' <=> Working(q)
        /\ Changes(q)' = Changes(q) /\ Backend(q)' = Backend(q)
  BY <1>2, <1>3 DEF Working, Changes, Kind, Backend
<1>5. UNCHANGED <<remote, cloud, contested, lost>>
  BY DEF Interrupt
<1> QED
  BY <1>3, <1>4, <1>5, Untouched DEF Inv

\* Terraform starts with what the state has of what exists: on a sound backend at rest
\* that is all of it, and a backend that is not at rest is contested from now on.
LEMMA SetupInv ==
    ASSUME Inv, NEW p \in Ops, Setup(p)
    PROVE  Kept'
<1>1. op[p].stage = "setup" /\ child[p] = NoChild /\ ~Working(p)
  BY DEF Setup, Inv, TypeOK, Working, NoChild
<1>2. \A q \in Ops : op'[q].kind = op[q].kind /\ op'[q].frozen = op[q].frozen
  BY <1>1, StageType DEF Setup, Inv, Active
<1>3. /\ child'[p].stage = "working" /\ child'[p].record = remote[Backend(p)] \cap cloud
      /\ \A q \in Ops \ {p} : child'[q] = child[q]
  BY DEF Setup, Inv, TypeOK
<1>4. \A q \in Ops : Changes(q)' = Changes(q) /\ Backend(q)' = Backend(q)
  BY <1>2 DEF Changes, Kind, Backend
<1>5. UNCHANGED <<remote, cloud, lost>> /\ \A b \in Backends : In(b)' = In(b)
  BY DEF Setup, In
<1>6. ASSUME NEW b \in Backends, ~(Changes(p) /\ b = Backend(p))
      PROVE  Changing(b)' = Changing(b) /\ p \notin Changing(b) /\ (Sound(b)' => Sound(b))
  <2>1. Changing(b)' = Changing(b) /\ p \notin Changing(b)
    BY <1>1, <1>3, <1>4, <1>6 DEF Changing, Working
  <2>2. Sound(b)' => Sound(b)
    BY <1>5 DEF Setup, Sound
  <2> QED
    BY <2>1, <2>2
<1>7. ASSUME NEW b \in Backends, Changes(p), b = Backend(p), Sound(b)'
      PROVE  Changing(b)' = {p} /\ child'[p].record = In(b)' /\ Sound(b)
  <2>1. Changing(b) = {} /\ Sound(b)
    BY <1>5, <1>7 DEF Setup, Sound
  <2>2. Changing(b)' = {p}
    BY <2>1, <1>3, <1>4, <1>7 DEF Changing, Working
  <2>3. remote[b] = In(b)
    BY <2>1 DEF Inv, Kept, Recorded
  <2>4. remote[b] \cap cloud = In(b)
    BY <2>3 DEF In
  <2> QED
    BY <2>1, <2>2, <2>4, <1>3, <1>5, <1>7
<1>8. Recorded'
  BY <1>5, <1>6, <1>7 DEF Recorded, Inv, Kept
<1>9. InMemory'
  <2> SUFFICES ASSUME NEW b \in Backends, Sound(b)', NEW q \in Changing(b)'
               PROVE  Changing(b)' = {q} /\ child'[q].record = In(b)'
    BY DEF InMemory
  <2>1. CASE Changes(p) /\ b = Backend(p)
    BY <2>1, <1>7
  <2>2. CASE ~(Changes(p) /\ b = Backend(p))
    <3>1. q \in Changing(b) /\ q # p /\ q \in Ops /\ Sound(b)
      BY <2>2, <1>6 DEF Changing
    <3> QED
      BY <3>1, <2>2, <1>3, <1>5, <1>6 DEF Inv, Kept, InMemory
  <2> QED
    BY <2>1, <2>2
<1>10. Backend(p) \in Backends
  BY <1>1 DEF Inv, TypeOK, Idle, Processes, Contexts, Backend
<1>11. OwnBackend'
  BY <1>3, <1>4, <1>5, <1>10 DEF OwnBackend, Inv, Kept, Working
<1> QED
  BY <1>8, <1>9, <1>11 DEF Kept

\* A working Terraform makes a change and remembers it: r comes into being or goes.
LEMMA ChangeInv ==
    ASSUME Inv, NEW p \in Ops, Working(p), Changes(p), NEW c \in Children,
           child' = [child EXCEPT ![p] = c], c.stage = "working",
           UNCHANGED <<op, remote, contested, lost>>,
           \A b \in Backends \ {Backend(p)} : In(b)' = In(b),
           child[p].record = In(Backend(p)) => c.record = In(Backend(p))',
           \A r \in c.record : r.backend = Backend(p)
    PROVE  Kept'
<1>1. \A q \in Ops : Changes(q)' = Changes(q) /\ Backend(q)' = Backend(q)
  BY DEF Changes, Kind, Backend
<1>2. child'[p] = c /\ \A q \in Ops \ {p} : child'[q] = child[q]
  BY DEF Inv, TypeOK
<1>3. \A b \in Backends : Changing(b)' = Changing(b) /\ Sound(b)' = Sound(b)
  BY <1>1, <1>2 DEF Changing, Working, Sound
<1>4. p \in Changing(Backend(p))
  BY DEF Changing
<1>5. Recorded'
  BY <1>3, <1>4 DEF Recorded, Inv, Kept
<1>6. InMemory'
  <2> SUFFICES ASSUME NEW b \in Backends, Sound(b), NEW q \in Changing(b)
               PROVE  Changing(b) = {q} /\ child'[q].record = In(b)'
    BY <1>3 DEF InMemory
  <2>1. Changing(b) = {q} /\ child[q].record = In(b) /\ q \in Ops
    BY DEF Inv, Kept, InMemory, Changing
  <2>2. CASE b = Backend(p)
    <3>1. p = q
      BY <2>1, <2>2, <1>4
    <3>2. In(b)' = In(Backend(p))'
      BY <2>2, <1>1
    <3> QED
      BY <2>1, <2>2, <3>1, <3>2, <1>2
  <2>3. CASE b # Backend(p)
    BY <2>1, <2>3, <1>2 DEF Changing
  <2> QED
    BY <2>2, <2>3
<1>7. OwnBackend'
  BY <1>1, <1>2 DEF OwnBackend, Inv, Kept, Working
<1> QED
  BY <1>5, <1>6, <1>7 DEF Kept

LEMMA CreateInv ==
    ASSUME Inv, NEW p \in Ops, Create(p)
    PROVE  Kept'
<1>1. PICK r \in Resources :
        /\ r.backend = Backend(p)
        /\ cloud' = cloud \cup {r}
        /\ [child[p] EXCEPT !.record = @ \cup {r}] \in Children
        /\ child' = [child EXCEPT ![p] = [child[p] EXCEPT !.record = @ \cup {r}]]
  BY CreateStep DEF Inv
<1> DEFINE c == [child[p] EXCEPT !.record = @ \cup {r}]
<1>2. Working(p) /\ Changes(p) /\ child[p] \in Children
  BY WorkingType DEF Create, Changes, Inv
<1>3. c.stage = "working" /\ c.record = child[p].record \cup {r}
  BY <1>2 DEF Children, Working
<1>4. In(Backend(p))' = In(Backend(p)) \cup {r}
  <2>1. Backend(p)' = Backend(p)
    BY DEF Create, Backend
  <2> QED
    BY <1>1, <2>1 DEF In
<1>5. \A b \in Backends \ {Backend(p)} : In(b)' = In(b)
  BY <1>1 DEF In
<1>6. UNCHANGED <<op, remote, contested, lost>>
  BY DEF Create
<1>7. \A x \in c.record : x.backend = Backend(p)
  BY <1>1, <1>2, <1>3 DEF Inv, Kept, OwnBackend
<1> QED
  BY <1>1, <1>2, <1>3, <1>4, <1>5, <1>6, <1>7, ChangeInv

LEMMA DeleteInv ==
    ASSUME Inv, NEW p \in Ops, Delete(p)
    PROVE  Kept'
<1>1. PICK r \in child[p].record :
        /\ cloud' = cloud \ {r}
        /\ [child[p] EXCEPT !.record = @ \ {r}] \in Children
        /\ child' = [child EXCEPT ![p] = [child[p] EXCEPT !.record = @ \ {r}]]
  BY DeleteStep DEF Inv
<1> DEFINE c == [child[p] EXCEPT !.record = @ \ {r}]
<1>2. Working(p) /\ Changes(p) /\ child[p] \in Children
  BY WorkingType DEF Delete, Inv
<1>3. c.stage = "working" /\ c.record = child[p].record \ {r}
  BY <1>2 DEF Children, Working
<1>4. r.backend = Backend(p) /\ \A x \in c.record : x.backend = Backend(p)
  BY <1>1, <1>2, <1>3 DEF Inv, Kept, OwnBackend
<1>5. In(Backend(p))' = In(Backend(p)) \ {r}
  <2>1. Backend(p)' = Backend(p)
    BY DEF Delete, Backend
  <2> QED
    BY <1>1, <2>1 DEF In
<1>6. \A b \in Backends \ {Backend(p)} : In(b)' = In(b)
  BY <1>1, <1>4 DEF In
<1>7. UNCHANGED <<op, remote, contested, lost>>
  BY DEF Delete
<1> QED
  BY <1>1, <1>2, <1>3, <1>4, <1>5, <1>6, <1>7, ChangeInv

\* Terraform ends and saves what it knows; or it dies, and its backend is sound no more.
LEMMA EndInv ==
    ASSUME Inv, NEW p \in Ops, Succeed(p) \/ Fail(p) \/ Die(p)
    PROVE  Kept'
<1>1. Working(p) /\ Backend(p) \in Backends
  BY WorkingType DEF Succeed, Fail, Die, Inv
<1>2. /\ child'[p].stage = "ended"
      /\ \A q \in Ops \ {p} : child'[q] = child[q]
  BY EndStep DEF Inv, TypeOK
<1>3. UNCHANGED <<op, cloud, contested>>
  BY DEF Succeed, Fail, Die
<1>4. \A q \in Ops : Changes(q)' = Changes(q) /\ Backend(q)' = Backend(q)
  BY <1>3 DEF Changes, Kind, Backend
<1>5. \A b \in Backends : In(b)' = In(b)
  BY <1>3 DEF In
<1>6. \A b \in Backends : Changing(b)' = Changing(b) \ {p}
  BY <1>2, <1>4 DEF Changing, Working
<1>7. \A b \in Backends : Sound(b)' => Sound(b)
  BY <1>3 DEF Succeed, Fail, Die, Sound
<1>8. ASSUME NEW b \in Backends, ~(Changes(p) /\ b = Backend(p))
      PROVE  p \notin Changing(b) /\ remote'[b] = remote[b]
  BY <1>8 DEF Succeed, Fail, Die, Save, Changing, Inv, TypeOK
<1>9. ASSUME NEW b \in Backends, Changes(p), b = Backend(p), Sound(b)'
      PROVE  Changing(b) = {p} /\ remote'[b] = In(b)
  <2>1. p \in Changing(b) /\ Sound(b)
    BY <1>1, <1>7, <1>9 DEF Changing
  <2>2. Changing(b) = {p} /\ child[p].record = In(b)
    BY <2>1 DEF Inv, Kept, InMemory
  <2>3. Succeed(p) \/ Fail(p)
    BY <1>9 DEF Die, Sound
  <2>4. remote' = [remote EXCEPT ![b] = child[p].record]
    BY <1>9, <2>3 DEF Succeed, Fail, Save
  <2> QED
    BY <2>2, <2>4 DEF Inv, TypeOK
<1>10. Recorded'
  <2> SUFFICES ASSUME NEW b \in Backends, Sound(b)', Changing(b)' = {}
               PROVE  In(b)' = remote'[b]
    BY DEF Recorded
  <2>1. CASE Changes(p) /\ b = Backend(p)
    BY <2>1, <1>5, <1>9
  <2>2. CASE ~(Changes(p) /\ b = Backend(p))
    BY <2>2, <1>5, <1>6, <1>7, <1>8 DEF Inv, Kept, Recorded
  <2> QED
    BY <2>1, <2>2
<1>11. InMemory'
  <2> SUFFICES ASSUME NEW b \in Backends, Sound(b)', NEW q \in Changing(b)'
               PROVE  Changing(b)' = {q} /\ child'[q].record = In(b)'
    BY DEF InMemory
  <2>1. Sound(b) /\ q \in Changing(b) /\ q # p /\ q \in Ops
    BY <1>6, <1>7 DEF Changing
  <2>2. Changing(b) = {q} /\ child[q].record = In(b)
    BY <2>1 DEF Inv, Kept, InMemory
  <2> QED
    BY <2>1, <2>2, <1>2, <1>5, <1>6
<1>12. OwnBackend'
  <2>1. remote' = remote \/ remote' = [remote EXCEPT ![Backend(p)] = child[p].record]
    BY DEF Succeed, Fail, Die, Save
  <2>2. \A b \in Backends : \/ remote'[b] = remote[b]
                            \/ (b = Backend(p) /\ remote'[b] = child[p].record)
    BY <2>1 DEF Inv, TypeOK
  <2> QED
    BY <2>2, <1>1, <1>2, <1>4 DEF OwnBackend, Inv, Kept, Working
<1> QED
  BY <1>10, <1>11, <1>12 DEF Kept

LEMMA InitInv ==
    ASSUME Init
    PROVE  Inv
<1>1. TypeOK
  BY InitType
<1>2. \A p \in Ops : ~Working(p)
  <2>1. child = [p \in Ops |-> NoChild]
    BY DEF Init
  <2>2. \A p \in Ops : child[p].stage = "none"
    BY <2>1 DEF NoChild
  <2> QED
    BY <2>2 DEF Working
<1>3. \A b \in Backends : remote[b] = In(b)
  <2>1. remote = [b \in Backends |-> {r \in cloud : r.backend = b}]
    BY DEF Init
  <2> QED
    BY <2>1 DEF In
<1>4. Recorded
  BY <1>3 DEF Recorded
<1>5. InMemory /\ OwnBackend
  BY <1>2, <1>3 DEF InMemory, OwnBackend, Changing, In
<1> QED
  BY <1>1, <1>4, <1>5 DEF Inv, Kept

LEMMA StepInv ==
    ASSUME Inv, [Next]_vars
    PROVE  Inv'
<1>1. TypeOK'
  BY StepType DEF Inv
<1>2. CASE UNCHANGED vars
  <2>1. \A q \in Ops :
          /\ Working(q)' <=> Working(q)
          /\ Changes(q)' = Changes(q) /\ Backend(q)' = Backend(q)
    BY <1>2 DEF vars, Working, Changes, Kind, Backend
  <2> QED
    BY <1>1, <1>2, <2>1, Untouched DEF vars, Inv
<1>3. ASSUME NEW p \in Ops, Step(p) PROVE Kept'
  <2>1. CASE Start(p)
    BY <2>1, StartInv
  <2>2. CASE Setup(p)
    BY <2>2, SetupInv
  <2>3. CASE SetupFails(p) \/ Reap(p) \/ ReapFails(p) \/ WriteResult(p) \/ WriteFails(p) \/ Kill(p)
    <3>1. \E stage \in Active \cup Ended : op' = [op EXCEPT ![p].stage = stage]
      BY <2>3 DEF SetupFails, Reap, ReapFails, WriteResult, WriteFails, Kill, Active, Ended
    <3>2. op[p].stage # "idle" /\ UNCHANGED <<child, remote, cloud, contested, lost>>
      BY <2>3 DEF SetupFails, Reap, ReapFails, WriteResult, WriteFails, Kill, Active
    <3> QED
      BY <3>1, <3>2, StageInv
  <2>4. CASE Interrupt(p) \/ Timeout(p)
    BY <2>4, InterruptInv DEF Timeout
  <2>5. CASE Create(p)
    BY <2>5, CreateInv
  <2>6. CASE Delete(p)
    BY <2>6, DeleteInv
  <2>7. CASE Succeed(p) \/ Fail(p) \/ Die(p)
    BY <2>7, EndInv
  <2> QED
    BY <1>3, <2>1, <2>2, <2>3, <2>4, <2>5, <2>6, <2>7 DEF Step, Work, Terraform
<1> QED
  BY <1>1, <1>2, <1>3 DEF Next, Step, Inv

\* A sound backend at rest records exactly what exists, for any number of operations that
\* are interrupted, killed, repeated or overlap on other backends (terraformCommand,
\* MaterializeBackend, runOperation).
THEOREM RecordedAlways == Spec => []Recorded
<1>1. Init => Inv
  BY InitInv
<1>2. Inv /\ [Next]_vars => Inv'
  BY StepInv
<1>3. Inv => Recorded
  BY DEF Inv, Kept
<1> QED
  BY <1>1, <1>2, <1>3, PTL DEF Spec

-----------------------------------------------------------------------------
\* A backend that is not sound stays so, and only Create adds to the cloud.
LEMMA SoundBefore ==
    ASSUME [Next]_vars
    PROVE  /\ \A b \in Backends : Sound(b)' => Sound(b)
           /\ cloud' \subseteq cloud \/ \E p \in Ops : Create(p)
<1>1. CASE UNCHANGED vars
  BY <1>1 DEF vars, Sound
<1>2. ASSUME NEW p \in Ops, Step(p)
      PROVE  /\ contested \subseteq contested' /\ lost \subseteq lost'
             /\ cloud' \subseteq cloud \/ Create(p)
  BY <1>2 DEF Step, Start, Work, Setup, SetupFails, Reap, ReapFails, WriteResult, WriteFails,
              Interrupt, Timeout, Kill, Terraform, Create, Delete, Succeed, Fail, Die
<1> QED
  BY <1>1, <1>2 DEF Next, Step, Sound

\* On a sound backend Terraform creates what it does not remember, and it remembers what
\* exists.
LEMMA OnceStep ==
    ASSUME Inv, OnlyOnce, [Next]_vars
    PROVE  OnlyOnce'
<1>1. CASE cloud' \subseteq cloud
  BY <1>1, SoundBefore DEF OnlyOnce, In
<1>2. ASSUME NEW p \in Ops, Create(p) PROVE OnlyOnce'
  <2>1. PICK x \in Parts \ Present(p) :
          cloud' = cloud \cup {[backend |-> Backend(p), plan |-> op[p].frozen.plan,
                                part |-> x, by |-> p]}
    BY <1>2 DEF Create
  <2> DEFINE r == [backend |-> Backend(p), plan |-> op[p].frozen.plan, part |-> x, by |-> p]
  <2>2. Working(p) /\ Changes(p)
    BY <1>2 DEF Create, Changes
  <2>3. ASSUME NEW b \in Backends, Sound(b)', b = Backend(p)
        PROVE  \A s \in In(b) : s.part # x
    <3>1. Sound(b) /\ p \in Changing(b)
      BY <2>2, <2>3, SoundBefore DEF Changing
    <3>2. child[p].record = In(b)
      BY <3>1 DEF Inv, Kept, InMemory
    <3> QED
      BY <2>1, <3>2 DEF Present
  <2>4. \A b \in Backends : In(b)' \subseteq In(b) \cup (IF b = Backend(p) THEN {r} ELSE {})
    BY <2>1 DEF In
  <2>5. r.part = x
    OBVIOUS
  <2> QED
    BY <2>3, <2>4, <2>5, SoundBefore DEF OnlyOnce
<1> QED
  BY <1>1, <1>2, SoundBefore

\* Earlier operations left of each part one.
LEMMA InitOnce ==
    ASSUME Init
    PROVE  OnlyOnce
BY DEF Init, OnlyOnce, In

\* A retry does not make a second cluster, for any number of failed, repeated and
\* interrupted operations on any number of backends (runOperation).
THEOREM OnceAlways == Spec => []OnlyOnce
<1>1. Init => OnlyOnce
  BY InitOnce
<1>2. Init => Inv
  BY InitInv
<1>3. Inv /\ OnlyOnce /\ [Next]_vars => Inv' /\ OnlyOnce'
  BY StepInv, OnceStep
<1> QED
  BY <1>1, <1>2, <1>3, PTL DEF Spec

-----------------------------------------------------------------------------
\* What succeeded, and what is then true of its backend until a later operation.
Succeeded(p) == child[p].stage = "ended" /\ child[p].ok /\ Changes(p)
TrueSince(p) ==
    Sound(Backend(p)) =>
        /\ Kind(p) = "destroy" => \A r \in In(Backend(p)) : r.by \in later[p]
        /\ Kind(p) = "apply" /\ later[p] = {} =>
             /\ {r.part : r \in In(Backend(p))} = Parts
             /\ \A r \in In(Backend(p)) : r.plan = op[p].frozen.plan
Truth == \A p \in Ops : Succeeded(p) => TrueSince(p)

\* On a sound backend whoever is at work while another has started is the later of them.
Followed ==
    \A p, q \in Ops :
        /\ p # q /\ child[p].stage # "none" /\ Changes(p)
        /\ Working(q) /\ Changes(q)
        /\ Backend(q) = Backend(p) /\ Sound(Backend(p))
        => q \in later[p]

NotYet == \A p \in Ops : Working(p) => ~child[p].ok
Lasting == Truth /\ Followed /\ NotYet

\* Only a Terraform that succeeded leads to a result.
Finished == \A p \in Ops : op[p].stage = "writing" => child[p].stage = "ended" /\ child[p].ok
Written ==
    \A path \in Paths : file[path].type = "result" =>
        Succeeded(file[path].by) /\ file[path].operation = Kind(file[path].by)

RInv == Inv /\ Lasting /\ Finished /\ Written

\* Steps of a process that leave its Terraform, if it has one, where it is.
LEMMA SameRuns ==
    ASSUME Inv, Lasting, UNCHANGED <<cloud, contested, lost, later>>,
           \A q \in Ops :
             /\ child'[q].stage = child[q].stage /\ child'[q].ok = child[q].ok
             /\ child[q].stage # "none" =>
                  op'[q].kind = op[q].kind /\ op'[q].frozen = op[q].frozen
    PROVE  Lasting'
<1>1. \A q \in Ops : child[q].stage # "none" =>
        /\ Changes(q)' = Changes(q) /\ Backend(q)' = Backend(q) /\ Kind(q)' = Kind(q)
        /\ Succeeded(q)' = Succeeded(q) /\ Working(q)' = Working(q)
        /\ Sound(Backend(q))' = Sound(Backend(q)) /\ In(Backend(q))' = In(Backend(q))
  BY DEF Changes, Backend, Kind, Succeeded, Working, Sound, In
<1>2. \A q \in Ops : (Succeeded(q)' => child[q].stage # "none") /\ (Working(q)' => child[q].stage # "none")
  BY DEF Succeeded, Working
<1>3. \A q \in Ops : child[q].stage # "none" => TrueSince(q)' = TrueSince(q)
  BY <1>1 DEF TrueSince
<1>4. Truth'
  BY <1>1, <1>2, <1>3 DEF Lasting, Truth
<1>5. Followed'
  <2> SUFFICES ASSUME NEW p \in Ops, NEW q \in Ops,
                      p # q, child'[p].stage # "none", Changes(p)', Working(q)', Changes(q)',
                      Backend(q)' = Backend(p)', Sound(Backend(p))'
               PROVE  q \in later'[p]
    BY DEF Followed
  <2>1. child[p].stage # "none" /\ child[q].stage # "none"
    BY <1>2
  <2> QED
    BY <1>1, <2>1 DEF Lasting, Followed
<1>6. NotYet'
  BY DEF NotYet, Working, Lasting
<1> QED
  BY <1>4, <1>5, <1>6 DEF Lasting

\* Terraform starts on a sound backend that nobody is changing, and is the later of all
\* that started on it.
LEMMA SetupLasts ==
    ASSUME Inv, Lasting, NEW p \in Ops, Setup(p)
    PROVE  Lasting'
<1>1. op[p].stage = "setup" /\ child[p].stage = "none" /\ op[p] \in Processes
  BY DEF Setup, Inv, TypeOK, NoChild, Idle
<1>2. \A q \in Ops : op'[q].kind = op[q].kind /\ op'[q].frozen = op[q].frozen
  BY <1>1, StageType DEF Setup, Inv, Active
<1>3. /\ child'[p].stage = "working" /\ ~child'[p].ok
      /\ \A q \in Ops \ {p} : child'[q] = child[q]
  BY DEF Setup, Inv, TypeOK
<1>4. \A q \in Ops :
        /\ Changes(q)' = Changes(q) /\ Backend(q)' = Backend(q) /\ Kind(q)' = Kind(q)
        /\ In(Backend(q))' = In(Backend(q)) /\ (Sound(Backend(q))' => Sound(Backend(q)))
  BY <1>2 DEF Setup, Changes, Kind, Backend, In, Sound
<1>5. Backend(p) \in Backends
  BY <1>1 DEF Backend, Processes, Contexts
<1>6. /\ \A q \in Ops : later[q] \subseteq later'[q]
      /\ \A q \in Ops \ {p} :
           child[q].stage # "none" /\ Backend(q) = Backend(p) => p \in later'[q]
  BY DEF Setup
<1>7. ASSUME NEW q \in Ops, Succeeded(q)' PROVE TrueSince(q)'
  <2>1. q # p /\ Succeeded(q)
    BY <1>3, <1>4, <1>7 DEF Succeeded
  <2>2. TrueSince(q)
    BY <2>1 DEF Lasting, Truth
  <2>3. later'[q] = {} => later[q] = {}
    BY <1>6
  <2> QED
    BY <2>2, <2>3, <1>2, <1>4, <1>6 DEF TrueSince
<1>8. Followed'
  <2> SUFFICES ASSUME NEW r \in Ops, NEW q \in Ops,
                      r # q, child'[r].stage # "none", Changes(r), Working(q)', Changes(q),
                      Backend(q) = Backend(r), Sound(Backend(r))'
               PROVE  q \in later'[r]
    BY <1>4 DEF Followed
  <2>1. CASE q = p
    BY <2>1, <1>3, <1>6
  <2>2. CASE r = p
    <3>1. q \in Changing(Backend(p))
      BY <2>2, <1>3 DEF Changing, Working
    <3>2. Backend(p) \in contested'
      BY <2>2, <3>1 DEF Setup
    <3> QED
      BY <2>2, <3>2, <1>4 DEF Sound
  <2>3. CASE q # p /\ r # p
    BY <2>3, <1>3, <1>4, <1>6 DEF Lasting, Followed, Working
  <2> QED
    BY <2>1, <2>2, <2>3
<1>9. NotYet'
  BY <1>3 DEF NotYet, Working, Lasting
<1> QED
  BY <1>7, <1>8, <1>9 DEF Lasting, Truth

\* What a Terraform changes on a sound backend it changes after all that succeeded there.
LEMMA ChangeLasts ==
    ASSUME Inv, Lasting, NEW p \in Ops, Create(p) \/ Delete(p)
    PROVE  Lasting'
<1>1. Working(p) /\ Changes(p) /\ UNCHANGED <<op, contested, lost, later>>
  BY DEF Create, Delete, Changes
<1>2. \A q \in Ops : child'[q].stage = child[q].stage /\ child'[q].ok = child[q].ok
  <2>1. child[p] \in Children
    BY <1>1, WorkingType DEF Inv
  <2>2. \E record : child' = [child EXCEPT ![p].record = record]
    BY DEF Create, Delete
  <2> QED
    BY <2>1, <2>2 DEF Children, Inv, TypeOK
<1>3. \A q \in Ops :
        /\ Changes(q)' = Changes(q) /\ Backend(q)' = Backend(q) /\ Kind(q)' = Kind(q)
        /\ Succeeded(q)' = Succeeded(q) /\ Working(q)' = Working(q)
        /\ Sound(Backend(q))' = Sound(Backend(q))
  BY <1>1, <1>2 DEF Changes, Backend, Kind, Succeeded, Working, Sound
<1>4. \A r \in cloud' : r \in cloud \/ (r.by = p /\ r.backend = Backend(p))
  BY DEF Create, Delete
<1>5. \A r \in cloud : r \in cloud' \/ r.backend = Backend(p)
  <2>1. \A r \in Unwanted(p) : r.backend = Backend(p)
    BY <1>1 DEF Unwanted, Inv, Kept, OwnBackend
  <2> QED
    BY <2>1 DEF Create, Delete
<1>6. ASSUME NEW q \in Ops, Succeeded(q) PROVE TrueSince(q)'
  <2>1. q # p /\ TrueSince(q) /\ child[q].stage # "none" /\ Changes(q)
    BY <1>1, <1>6 DEF Lasting, Truth, Succeeded, Working
  <2>2. CASE Backend(q) = Backend(p)
    <3>1. Sound(Backend(q)) => p \in later[q]
      BY <1>1, <2>1, <2>2 DEF Lasting, Followed
    <3>2. \A r \in In(Backend(q))' : r \in In(Backend(q)) \/ r.by = p
      BY <1>3, <1>4 DEF In
    <3> QED
      BY <1>1, <1>3, <2>1, <3>1, <3>2 DEF TrueSince
  <2>3. CASE Backend(q) # Backend(p)
    <3>1. In(Backend(q))' = In(Backend(q))
      BY <1>3, <1>4, <1>5, <2>3 DEF In
    <3> QED
      BY <1>1, <1>3, <2>1, <3>1 DEF TrueSince
  <2> QED
    BY <2>2, <2>3
<1>7. Truth'
  BY <1>3, <1>6 DEF Truth
<1>8. Followed'
  BY <1>1, <1>2, <1>3 DEF Lasting, Followed
<1>9. NotYet'
  BY <1>2, <1>3 DEF Lasting, NotYet
<1> QED
  BY <1>7, <1>8, <1>9 DEF Lasting

\* A Terraform that succeeds on a sound backend remembers what exists, and that is what
\* its command asks for.
LEMMA EndLasts ==
    ASSUME Inv, Lasting, NEW p \in Ops, Succeed(p) \/ Fail(p) \/ Die(p)
    PROVE  Lasting'
<1>1. /\ Working(p) /\ child[p] \in Children /\ ~child[p].ok /\ Kind(p) \in Kinds
      /\ Backend(p) \in Backends
  BY WorkingType DEF Succeed, Fail, Die, Inv, Lasting, NotYet
<1>2. /\ child'[p].stage = "ended" /\ (child'[p].ok => Succeed(p))
      /\ \A q \in Ops \ {p} : child'[q] = child[q]
  <2>1. ASSUME Fail(p) \/ Die(p) PROVE ~child'[p].ok
    <3>1. child' = [child EXCEPT ![p] = [child[p] EXCEPT !.stage = "ended", !.record = {}]]
      BY <2>1 DEF Fail, Die
    <3>2. [child[p] EXCEPT !.stage = "ended", !.record = {}].ok = child[p].ok
      BY <1>1 DEF Children
    <3> QED
      BY <1>1, <3>1, <3>2 DEF Inv, TypeOK
  <2> QED
    BY <2>1, EndStep DEF Inv, TypeOK
<1>3. UNCHANGED <<op, cloud, contested, later>>
  BY DEF Succeed, Fail, Die
<1>4. \A q \in Ops :
        /\ Changes(q)' = Changes(q) /\ Backend(q)' = Backend(q) /\ Kind(q)' = Kind(q)
        /\ In(Backend(q))' = In(Backend(q)) /\ (Sound(Backend(q))' => Sound(Backend(q)))
  BY <1>3 DEF Succeed, Fail, Die, Changes, Kind, Backend, In, Sound
<1>5. ASSUME NEW q \in Ops \ {p}, Succeeded(q)' PROVE TrueSince(q)'
  <2>1. TrueSince(q)
    BY <1>2, <1>4, <1>5 DEF Lasting, Truth, Succeeded
  <2> QED
    BY <2>1, <1>3, <1>4 DEF TrueSince
<1>6. ASSUME Succeeded(p)' PROVE TrueSince(p)'
  <2>1. Succeed(p) /\ Changes(p)
    BY <1>2, <1>4, <1>6 DEF Succeeded
  <2>2. SUFFICES ASSUME Sound(Backend(p)) PROVE TrueSince(p)
    BY <1>3, <1>4 DEF TrueSince
  <2>3. child[p].record = In(Backend(p))
    BY <1>1, <2>1, <2>2 DEF Changing, Inv, Kept, InMemory
  <2>4. Complete(p)
    BY <2>1 DEF Succeed
  <2>5. CASE Kind(p) = "destroy"
    BY <2>3, <2>4, <2>5 DEF Complete, TrueSince
  <2>6. CASE Kind(p) = "apply"
    <3>1. Unwanted(p) = {} /\ Present(p) = Parts
      BY <2>4, <2>6 DEF Complete
    <3> QED
      BY <2>3, <2>6, <3>1 DEF Unwanted, Present, TrueSince
  <2> QED
    BY <2>1, <2>5, <2>6 DEF Changes
<1>7. Followed'
  BY <1>1, <1>2, <1>3, <1>4 DEF Lasting, Followed, Working
<1>8. NotYet'
  BY <1>2 DEF Lasting, NotYet, Working
<1> QED
  BY <1>5, <1>6, <1>7, <1>8 DEF Lasting, Truth

\* A Terraform that ended stays as it is, and so does what its process is about.
LEMMA EndedStays ==
    ASSUME Inv, NEW p \in Ops, Step(p), NEW q \in Ops, child[q].stage = "ended"
    PROVE  /\ child'[q].stage = "ended" /\ child'[q].ok = child[q].ok
           /\ Kind(q)' = Kind(q)
<1>1. op[q].stage \notin {"idle", "setup"} /\ op[q] \in Processes
  BY DEF Inv, TypeOK, NoChild, Idle
<1>2. Kind(q)' = Kind(q)
  <2>1. CASE Start(p)
    BY <2>1, <1>1 DEF Start, Inv, TypeOK, Kind
  <2>2. CASE UNCHANGED op
    BY <2>2 DEF Kind
  <2>3. CASE \E stage : op' = [op EXCEPT ![p].stage = stage]
    BY <2>3, <1>1 DEF Kind, Processes, Inv, TypeOK
  <2>4. CASE op' = [op EXCEPT ![p].live = FALSE]
    BY <2>4, <1>1 DEF Kind, Processes, Inv, TypeOK
  <2> QED
    BY <2>1, <2>2, <2>3, <2>4 DEF Step, Work, Setup, SetupFails, Reap, ReapFails, WriteResult,
       WriteFails, Interrupt, Timeout, Kill, Terraform, Create, Delete, Succeed, Fail, Die
<1>3. child'[q] = child[q]
  <2>1. CASE Setup(p) \/ Interrupt(p) \/ Timeout(p)
    BY <2>1, <1>1 DEF Setup, Interrupt, Timeout, Working, Inv, TypeOK
  <2>2. CASE Terraform(p)
    BY <2>2 DEF Terraform, Create, Delete, Succeed, Fail, Die, Working, Inv, TypeOK
  <2>3. CASE UNCHANGED child
    BY <2>3
  <2> QED
    BY <2>1, <2>2, <2>3 DEF Step, Start, Work, SetupFails, Reap, ReapFails, WriteResult,
       WriteFails, Kill
<1> QED
  BY <1>2, <1>3

\* A process comes to the writing by the end of a Terraform that succeeded, and writes
\* that it did.
LEMMA WriteLasts ==
    ASSUME RInv, Lasting', NEW p \in Ops, Step(p)
    PROVE  Finished' /\ Written'
<1>1. \A q \in Ops : child[q].stage = "ended" =>
        /\ child'[q].stage = "ended" /\ child'[q].ok = child[q].ok
        /\ Kind(q)' = Kind(q) /\ (Succeeded(q) => Succeeded(q)')
  BY EndedStays DEF RInv, Succeeded, Changes
<1>2. \A q \in Ops : op'[q].stage = "writing" => op[q].stage = "writing" \/ (q = p /\ Reap(p))
  <2>1. CASE Start(p) \/ Reap(p)
    BY <2>1 DEF Start, Reap, RInv, Inv, TypeOK
  <2>2. CASE Setup(p) \/ SetupFails(p) \/ ReapFails(p) \/ WriteResult(p) \/ WriteFails(p) \/ Kill(p)
    <3>1. PICK stage \in Active \cup Ended :
            op' = [op EXCEPT ![p].stage = stage] /\ stage # "writing"
      BY <2>2 DEF Setup, SetupFails, ReapFails, WriteResult, WriteFails, Kill, Active, Ended
    <3>2. op[p].stage # "idle"
      BY <2>2 DEF Setup, SetupFails, ReapFails, WriteResult, WriteFails, Kill, Active
    <3> QED
      BY <3>1, <3>2, StageType DEF RInv, Inv
  <2>3. CASE Interrupt(p) \/ Timeout(p)
    <3>1. op[p] \in Processes /\ op' = [op EXCEPT ![p].live = FALSE]
      BY <2>3 DEF Interrupt, Timeout, RInv, Inv, TypeOK, Idle
    <3> QED
      BY <3>1 DEF Processes, RInv, Inv, TypeOK
  <2>4. CASE Terraform(p)
    BY <2>4 DEF Terraform, Create, Delete, Succeed, Fail, Die
  <2> QED
    BY <2>1, <2>2, <2>3, <2>4 DEF Step, Work
<1>3. Finished'
  BY <1>1, <1>2 DEF Reap, RInv, Finished
<1>4. ASSUME NEW path \in Paths, file'[path].type = "result"
      PROVE  \E q \in Ops : /\ file'[path].by = q /\ Succeeded(q)'
                           /\ file'[path].operation = Kind(q)'
  <2>1. CASE file'[path] = file[path]
    <3>1. Succeeded(file[path].by) /\ file[path].operation = Kind(file[path].by)
      BY <2>1, <1>4 DEF RInv, Written
    <3>2. file[path].by \in Ops
      BY <2>1, <1>4 DEF RInv, Inv, TypeOK, Nothing, Contexts, Results
    <3>3. PICK q \in Ops : q = file[path].by
      BY <3>2
    <3>4. Succeeded(q) /\ child[q].stage = "ended" /\ file[path].operation = Kind(q)
      BY <3>1, <3>3 DEF Succeeded
    <3> QED
      BY <2>1, <3>3, <3>4, <1>1
  <2>2. CASE file'[path] = Output(p) /\ op[p].stage = "writing"
    <3>1. child[p].stage = "ended" /\ child[p].ok
      BY <2>2 DEF RInv, Finished
    <3>2. op[p].frozen.type = "context"
      BY <2>2 DEF RInv, Inv, TypeOK, Idle, Processes, Contexts
    <3>3. Changes(p) /\ file'[path] = [type |-> "result", operation |-> Kind(p), by |-> p]
      BY <1>4, <2>2, <3>2 DEF Output
    <3>4. Succeeded(p) /\ file'[path].by = p /\ file'[path].operation = Kind(p)
      BY <3>1, <3>3 DEF Succeeded
    <3> QED
      BY <1>1, <3>1, <3>4
  <2>3. CASE WriteResult(p) \/ WriteFails(p)
    <3>1. op[p].stage = "writing" /\ file'[path] \in {file[path], Output(p)}
      BY <2>3 DEF WriteResult, WriteFails, RInv, Inv, TypeOK
    <3> QED
      BY <3>1, <2>1, <2>2
  <2>4. CASE UNCHANGED file
    BY <2>4, <2>1
  <2> QED
    BY <2>3, <2>4 DEF Step, Start, Work, Setup, SetupFails, Reap, ReapFails, Interrupt, Timeout,
       Kill, Terraform, Create, Delete, Succeed, Fail, Die
<1>5. Written'
  BY <1>4 DEF Written, Succeeded, Changes, Kind
<1> QED
  BY <1>3, <1>5

LEMMA StepLasts ==
    ASSUME RInv, NEW p \in Ops, Step(p)
    PROVE  Lasting'
<1>1. CASE Start(p)
  <2>1. child[p].stage = "none" /\ UNCHANGED <<child, cloud, contested, lost, later>>
    BY <1>1 DEF Start, RInv, Inv, TypeOK, NoChild
  <2>2. \A q \in Ops \ {p} : op'[q] = op[q]
    BY <1>1 DEF Start, RInv, Inv, TypeOK
  <2> QED
    BY <2>1, <2>2, SameRuns DEF RInv
<1>2. CASE Setup(p)
  BY <1>2, SetupLasts DEF RInv
<1>3. CASE SetupFails(p) \/ Reap(p) \/ ReapFails(p) \/ WriteResult(p) \/ WriteFails(p) \/ Kill(p)
  <2>1. \E stage \in Active \cup Ended : op' = [op EXCEPT ![p].stage = stage]
    BY <1>3 DEF SetupFails, Reap, ReapFails, WriteResult, WriteFails, Kill, Active, Ended
  <2>2. op[p].stage # "idle" /\ UNCHANGED <<child, cloud, contested, lost, later>>
    BY <1>3 DEF SetupFails, Reap, ReapFails, WriteResult, WriteFails, Kill, Active
  <2>3. \A q \in Ops : op'[q].kind = op[q].kind /\ op'[q].frozen = op[q].frozen
    BY <2>1, <2>2, StageType DEF RInv, Inv
  <2> QED
    BY <2>2, <2>3, SameRuns DEF RInv
<1>4. CASE Interrupt(p) \/ Timeout(p)
  <2>1. op[p] \in Processes /\ op' = [op EXCEPT ![p].live = FALSE]
    BY <1>4 DEF Interrupt, Timeout, RInv, Inv, TypeOK, Idle
  <2>2. \A q \in Ops : op'[q].kind = op[q].kind /\ op'[q].frozen = op[q].frozen
    BY <2>1 DEF Processes, RInv, Inv, TypeOK
  <2>3. \A q \in Ops : child'[q].stage = child[q].stage /\ child'[q].ok = child[q].ok
    <3>1. CASE Working(p)
      <4>1. child[p] \in Children /\ child' = [child EXCEPT ![p].signalled = TRUE]
        BY <1>4, <3>1, WorkingType DEF Interrupt, Timeout, RInv, Inv
      <4> QED
        BY <4>1 DEF Children, RInv, Inv, TypeOK
    <3>2. CASE ~Working(p)
      BY <1>4, <3>2 DEF Interrupt, Timeout
    <3> QED
      BY <3>1, <3>2
  <2>4. UNCHANGED <<cloud, contested, lost, later>>
    BY <1>4 DEF Interrupt, Timeout
  <2> QED
    BY <2>2, <2>3, <2>4, SameRuns DEF RInv
<1>5. CASE Create(p) \/ Delete(p)
  BY <1>5, ChangeLasts DEF RInv
<1>6. CASE Succeed(p) \/ Fail(p) \/ Die(p)
  BY <1>6, EndLasts DEF RInv
<1> QED
  BY <1>1, <1>2, <1>3, <1>4, <1>5, <1>6 DEF Step, Work, Terraform

LEMMA InitResults ==
    ASSUME Init
    PROVE  RInv
<1>1. \A p \in Ops : op[p].stage = "idle" /\ child[p].stage = "none"
  <2>1. op = [p \in Ops |-> Idle] /\ child = [p \in Ops |-> NoChild]
    BY DEF Init
  <2> QED
    BY <2>1 DEF Idle, NoChild
<1>2. \A path \in Paths : file[path].type # "result"
  BY LifecycleAssumption DEF Init, Nothing, Contexts
<1>3. Lasting /\ Finished /\ Written
  BY <1>1, <1>2 DEF Lasting, Truth, Succeeded, Followed, NotYet, Working, Finished, Written
<1> QED
  BY <1>3, InitInv DEF RInv

LEMMA StepResults ==
    ASSUME RInv, [Next]_vars
    PROVE  RInv'
<1>1. Inv'
  BY StepInv DEF RInv
<1>2. ASSUME UNCHANGED vars PROVE RInv'
  <2>1. Lasting'
    BY <1>2, SameRuns DEF RInv, vars
  <2> QED
    BY <1>1, <1>2, <2>1 DEF RInv, vars, Finished, Written, Succeeded, Changes, Kind
<1>3. ASSUME NEW p \in Ops, Step(p) PROVE Lasting' /\ Finished' /\ Written'
  BY <1>3, StepLasts, WriteLasts
<1>4. ASSUME Next PROVE RInv'
  <2>1. PICK p \in Ops : Step(p)
    BY <1>4 DEF Next, Step
  <2> QED
    BY <1>1, <2>1, <1>3 DEF RInv
<1> QED
  BY <1>2, <1>4

\* A result file is true, however many operations there are, on however many backends and
\* paths, and whatever becomes of them (runOperation, writeOperationResult).
THEOREM ResultsAlways == Spec => []ResultIsTrue
<1>1. Init => RInv
  BY InitResults
<1>2. RInv /\ [Next]_vars => RInv'
  BY StepResults
<1>3. RInv => ResultIsTrue
  <2> SUFFICES ASSUME RInv, NEW path \in Paths, file[path].type = "result",
                      Sound(Backend(file[path].by))
               PROVE  LET p == file[path].by
                          b == Backend(p)
                      IN IF file[path].operation = "destroy"
                         THEN \A r \in In(b) : r.by \in later[p]
                         ELSE later[p] = {} =>
                                /\ {r.part : r \in In(b)} = Parts
                                /\ \A r \in In(b) : r.plan = op[p].frozen.plan
    BY DEF ResultIsTrue
  <2>1. file[path].by \in Ops
    BY DEF RInv, Inv, TypeOK, Nothing, Contexts, Results
  <2>2. /\ Succeeded(file[path].by) /\ file[path].operation = Kind(file[path].by)
        /\ TrueSince(file[path].by)
    BY <2>1 DEF RInv, Written, Lasting, Truth
  <2> QED
    BY <2>2 DEF TrueSince, Succeeded, Changes
<1> QED
  BY <1>1, <1>2, <1>3, PTL DEF Spec

-----------------------------------------------------------------------------
(* Lifecycle implements Allocation.  The promise is looked at through what a working *)
(* Terraform remembers (InMemory), that each part exists once (OnlyOnce), and that only *)
(* what succeeded is written (Finished).                                             *)

PInv == RInv /\ OnlyOnce

\* A Terraform belongs to a process that was started on some context.
LEMMA ChildOfProcess ==
    ASSUME TypeOK, NEW p \in Ops, child[p] # NoChild
    PROVE  /\ child[p] \in Children /\ op[p] \in Processes
           /\ Kind(p) \in Kinds /\ Backend(p) \in Backends /\ op[p].frozen.plan \in Plans
<1>1. child[p] \in Children /\ op[p] \in Processes
  BY DEF TypeOK, Idle
<1> QED
  BY <1>1 DEF Processes, Kind, Backend, Contexts

\* The job of an operation, by what its Terraform is doing.
Record(p) == [state |-> Progress(p), kind |-> Kind(p), backend |-> Backend(p),
              plan |-> op[p].frozen.plan]

LEMMA JobIs ==
    ASSUME TypeOK, NEW p \in Ops
    PROVE  /\ child[p] = NoChild => jobs[p] = Promise!NoJob
           /\ ~Changes(p) => jobs[p] = Promise!NoJob
           /\ child[p] # NoChild /\ Changes(p) =>
                /\ jobs[p] = Record(p)
                /\ jobs[p].state = Progress(p) /\ jobs[p].kind = Kind(p)
                /\ jobs[p].backend = Backend(p) /\ jobs[p].plan = op[p].frozen.plan
           /\ jobs[p].state = "working" <=> Working(p) /\ Changes(p)
           /\ Working(p) => child[p] # NoChild
<1>1. child[p] = NoChild => jobs[p] = Promise!NoJob
  BY DEF jobs, Promise!NoJob
<1>2. ~Changes(p) => jobs[p] = Promise!NoJob
  BY DEF jobs, Promise!NoJob
<1>3. child[p] # NoChild /\ Changes(p) => jobs[p] = Record(p)
  BY DEF jobs, Record
<1>4. /\ Record(p).state = Progress(p) /\ Record(p).kind = Kind(p)
      /\ Record(p).backend = Backend(p) /\ Record(p).plan = op[p].frozen.plan
  BY DEF Record
<1>5. Working(p) => child[p] # NoChild
  BY DEF Working, NoChild
<1>6. Promise!NoJob.state # "working" /\ (Progress(p) = "working" <=> Working(p))
  BY DEF Promise!NoJob, Progress
<1>7. CASE child[p] # NoChild /\ Changes(p)
  BY <1>3, <1>4, <1>5, <1>6, <1>7
<1>8. CASE child[p] = NoChild
  BY <1>1, <1>5, <1>6, <1>8
<1>9. CASE ~Changes(p)
  BY <1>2, <1>5, <1>6, <1>9
<1> QED
  BY <1>1, <1>2, <1>3, <1>4, <1>5, <1>7, <1>8, <1>9

\* Who works on a backend.
LEMMA AtIsChanging ==
    ASSUME TypeOK, NEW b \in Backends
    PROVE  Promise!At(b) = Changing(b)
<1>1. ASSUME NEW p \in Ops
      PROVE  (jobs[p].state = "working" /\ jobs[p].backend = b) <=> p \in Changing(b)
  <2>1. jobs[p].state = "working" <=> Working(p) /\ Changes(p)
    BY JobIs
  <2>2. Working(p) /\ Changes(p) => jobs[p].backend = Backend(p)
    BY JobIs
  <2> QED
    BY <2>1, <2>2 DEF Changing
<1> QED
  BY <1>1 DEF Promise!At, Changing

\* A process that goes on as before has the job it had.
LEMMA JobKept ==
    ASSUME NEW q \in Ops, child'[q].stage = child[q].stage, child'[q].ok = child[q].ok,
           child'[q] = NoChild <=> child[q] = NoChild,
           child[q] # NoChild => op'[q].kind = op[q].kind /\ op'[q].frozen = op[q].frozen
    PROVE  jobs'[q] = jobs[q]
<1>1. CASE child[q] = NoChild
  BY <1>1 DEF jobs
<1>2. CASE child[q] # NoChild
  <2>1. Changes(q)' = Changes(q) /\ Kind(q)' = Kind(q) /\ Backend(q)' = Backend(q)
    BY <1>2 DEF Changes, Kind, Backend
  <2>2. Progress(q)' = Progress(q)
    BY DEF Progress, Working
  <2> QED
    BY <1>2, <2>1, <2>2 DEF jobs
<1> QED
  BY <1>1, <1>2

\* What is seen of the backends changes with the cloud, the states and what was lost.
LEMMA SameBackends ==
    ASSUME UNCHANGED <<remote, cloud, contested, lost>>
    PROVE  UNCHANGED <<clusters, records, contested \cup lost>>
<1>1. \A b \in Backends : Sound(b)' = Sound(b) /\ In(b)' = In(b)
  BY DEF Sound, In
<1> QED
  BY <1>1 DEF clusters, records, Seen

LEMMA SameJobs ==
    ASSUME \A q \in Ops : jobs'[q] = jobs[q]
    PROVE  UNCHANGED jobs
BY DEF jobs

LEMMA SameReports ==
    ASSUME UNCHANGED file
    PROVE  UNCHANGED reports
BY DEF reports

\* The backends of an operation as they are seen.
LEMMA SeenSound ==
    ASSUME NEW b \in Backends
    PROVE  /\ b \notin contested \cup lost <=> Sound(b)
           /\ clusters[b] = IF Sound(b) THEN Seen(In(b)) ELSE {}
           /\ records[b] = IF Sound(b) THEN Seen(remote[b]) ELSE {}
BY DEF Sound, clusters, records

\* A step that leaves the backends, the jobs and the files is not seen.
LEMMA Unseen ==
    ASSUME UNCHANGED <<file, remote, cloud, contested, lost>>,
           \A q \in Ops : jobs'[q] = jobs[q]
    PROVE  UNCHANGED Promise!vars
BY SameBackends, SameJobs, SameReports DEF Promise!vars

\* A process that goes to another stage or is interrupted keeps its job.
LEMMA StageUnseen ==
    ASSUME PInv, NEW p \in Ops,
           \/ SetupFails(p) \/ Reap(p) \/ ReapFails(p) \/ Kill(p)
           \/ WriteResult(p) \/ WriteFails(p)
    PROVE  \A q \in Ops : jobs'[q] = jobs[q]
<1>1. \E stage \in Active \cup Ended : op' = [op EXCEPT ![p].stage = stage]
  BY DEF SetupFails, Reap, ReapFails, WriteResult, WriteFails, Kill, Active, Ended
<1>2. op[p].stage # "idle" /\ UNCHANGED child
  BY DEF SetupFails, Reap, ReapFails, WriteResult, WriteFails, Kill, Active
<1>3. \A q \in Ops : op'[q].kind = op[q].kind /\ op'[q].frozen = op[q].frozen
  BY <1>1, <1>2, StageType DEF PInv, RInv, Inv
<1> QED
  BY <1>2, <1>3, JobKept

LEMMA InterruptUnseen ==
    ASSUME PInv, NEW p \in Ops, Interrupt(p)
    PROVE  UNCHANGED Promise!vars
<1>1. op[p] \in Processes /\ op' = [op EXCEPT ![p].live = FALSE]
  BY DEF Interrupt, PInv, RInv, Inv, TypeOK, Idle
<1>2. \A q \in Ops : op'[q].kind = op[q].kind /\ op'[q].frozen = op[q].frozen
  BY <1>1 DEF Processes, PInv, RInv, Inv, TypeOK
<1>3. \A q \in Ops : /\ child'[q].stage = child[q].stage /\ child'[q].ok = child[q].ok
                     /\ child'[q] = NoChild <=> child[q] = NoChild
  <2>1. CASE Working(p)
    <3>1. child[p] \in Children /\ child' = [child EXCEPT ![p].signalled = TRUE]
      BY <2>1, WorkingType DEF Interrupt, PInv, RInv, Inv
    <3>2. /\ [child[p] EXCEPT !.signalled = TRUE] \in Children
          /\ [child[p] EXCEPT !.signalled = TRUE].stage = child[p].stage
          /\ [child[p] EXCEPT !.signalled = TRUE].ok = child[p].ok
      BY <3>1 DEF Children
    <3>3. \A c \in Children : c # NoChild
      BY DEF Children, NoChild
    <3> QED
      BY <3>1, <3>2, <3>3 DEF PInv, RInv, Inv, TypeOK
  <2>2. CASE ~Working(p)
    BY <2>2 DEF Interrupt
  <2> QED
    BY <2>1, <2>2
<1>4. UNCHANGED <<file, remote, cloud, contested, lost>>
  BY DEF Interrupt
<1> QED
  BY <1>2, <1>3, <1>4, JobKept, Unseen

LEMMA StartUnseen ==
    ASSUME PInv, NEW p \in Ops, Start(p)
    PROVE  UNCHANGED Promise!vars
<1>1. child[p] = NoChild /\ UNCHANGED <<file, child, remote, cloud, contested, lost>>
  BY DEF Start, PInv, RInv, Inv, TypeOK
<1>2. \A q \in Ops \ {p} : op'[q] = op[q]
  BY DEF Start, PInv, RInv, Inv, TypeOK
<1>3. \A q \in Ops : jobs'[q] = jobs[q]
  BY <1>1, <1>2, JobKept
<1> QED
  BY <1>1, <1>3, Unseen

\* What is written is a context, or says of an operation that succeeded what it was.
LEMMA WriteSeen ==
    ASSUME PInv, NEW p \in Ops, WriteResult(p) \/ WriteFails(p)
    PROVE  Promise!Next \/ UNCHANGED Promise!vars
<1>1. \A q \in Ops : jobs'[q] = jobs[q]
  BY StageUnseen
<1>2. UNCHANGED <<remote, cloud, contested, lost>> /\ op[p].stage = "writing"
  BY DEF WriteResult, WriteFails
<1>3. UNCHANGED <<clusters, records, contested \cup lost, jobs>>
  BY <1>1, <1>2, SameBackends, SameJobs
<1>4. CASE UNCHANGED file
  BY <1>1, <1>2, <1>4, Unseen
<1>5. ASSUME NEW path \in Paths, file' = [file EXCEPT ![path] = Output(p)]
      PROVE  Promise!Next
  <2>1. child[p].stage = "ended" /\ child[p].ok /\ child[p] # NoChild
    BY <1>2 DEF PInv, RInv, Finished, NoChild
  <2>2. op[p].frozen.type = "context"
    BY <2>1, ChildOfProcess DEF PInv, RInv, Inv, Processes, Contexts
  <2>3. file'[path] = Output(p) /\ \A other \in Paths \ {path} : file'[other] = file[other]
    BY <1>5 DEF PInv, RInv, Inv, TypeOK
  <2>4. CASE Changes(p)
    <3>1. jobs[p].state = "done" /\ jobs[p].kind = Kind(p)
      BY <2>1, <2>4, JobIs DEF PInv, RInv, Inv, Progress, Working
    <3>2. reports' = [reports EXCEPT ![path] = [of |-> jobs[p].kind, by |-> p]]
      <4>1. Output(p) = [type |-> "result", operation |-> Kind(p), by |-> p]
        BY <2>4 DEF Output
      <4> DEFINE new == [of |-> Kind(p), by |-> p]
      <4>2. reports'[path] = new
        BY <2>3, <4>1 DEF reports
      <4>3. \A other \in Paths \ {path} : reports'[other] = reports[other]
        BY <2>3 DEF reports
      <4>4. reports' = [reports EXCEPT ![path] = new]
        BY <4>2, <4>3 DEF reports
      <4> QED
        BY <3>1, <4>4
    <3> QED
      BY <1>3, <3>1, <3>2 DEF Promise!Tell, Promise!Next
  <2>5. CASE ~Changes(p)
    <3>1. reports' = [reports EXCEPT ![path] = Promise!NoReport]
      BY <2>2, <2>3, <2>5 DEF reports, Output, Promise!NoReport
    <3> QED
      BY <1>3, <3>1 DEF Promise!Overwrite, Promise!Next
  <2> QED
    BY <2>4, <2>5
<1> QED
  BY <1>4, <1>5 DEF WriteResult, WriteFails

\* The job of p begins with its Terraform; where another one is at work, nothing is
\* promised from then on.
LEMMA SetupSeen ==
    ASSUME PInv, NEW p \in Ops, Setup(p)
    PROVE  Promise!Next \/ UNCHANGED Promise!vars
<1>1. TypeOK /\ TypeOK' /\ op[p].stage = "setup" /\ child[p] = NoChild
  BY SetupType DEF Setup, PInv, RInv, Inv, TypeOK
<1>2. op[p] \in Processes /\ op' = [op EXCEPT ![p].stage = "running"]
  BY <1>1 DEF Setup, TypeOK, Idle
<1>3. \A q \in Ops : op'[q].kind = op[q].kind /\ op'[q].frozen = op[q].frozen
  BY <1>1, <1>2, StageType DEF Active
<1>4. /\ child'[p].stage = "working" /\ child'[p] # NoChild
      /\ \A q \in Ops \ {p} : child'[q] = child[q]
  <2>1. child'[p].stage = "working" /\ \A q \in Ops \ {p} : child'[q] = child[q]
    BY <1>1 DEF Setup, TypeOK
  <2> QED
    BY <2>1 DEF NoChild
<1>5. \A q \in Ops \ {p} : jobs'[q] = jobs[q]
  BY <1>3, <1>4, JobKept
<1>6. UNCHANGED <<file, remote, cloud, lost>>
  BY DEF Setup
<1>7. CASE ~Changes(p)
  <2>1. jobs[p] = Promise!NoJob
    BY <1>1, JobIs
  <2>2. jobs'[p] = Promise!NoJob
    <3>1. ~Changes(p)'
      BY <1>3, <1>7 DEF Changes, Kind
    <3> QED
      BY <3>1 DEF jobs, Promise!NoJob
  <2>3. contested' = contested
    BY <1>7 DEF Setup
  <2> QED
    BY <1>5, <1>6, <2>1, <2>2, <2>3, Unseen
<1>8. CASE Changes(p)
  <2> DEFINE b == Backend(p)
             r == [state |-> "working", kind |-> Kind(p), backend |-> Backend(p),
                   plan |-> op[p].frozen.plan]
  <2>1. b \in Backends /\ op[p].frozen.plan \in Plans /\ Kind(p) \in {"apply", "destroy"}
    BY <1>2, <1>8 DEF Processes, Contexts, Backend, Changes
  <2>2. jobs[p] = Promise!NoJob
    BY <1>1, JobIs
  <2>3. jobs'[p] = r
    <3>1. Changes(p)' /\ Kind(p)' = Kind(p) /\ Backend(p)' = Backend(p)
      BY <1>3, <1>8 DEF Changes, Kind, Backend
    <3>2. Progress(p)' = "working"
      BY <1>4 DEF Progress, Working
    <3> QED
      BY <1>3, <1>4, <3>1, <3>2 DEF jobs
  <2>4. jobs' = [jobs EXCEPT ![p] = r]
    BY <1>5, <2>3 DEF jobs
  <2>5. UNCHANGED reports
    BY <1>6, SameReports
  <2>6. Promise!At(b) = Changing(b)
    BY <1>1, <2>1, AtIsChanging
  <2>7. CASE Changing(b) = {}
    <3>1. UNCHANGED contested
      BY <2>7 DEF Setup
    <3>2. UNCHANGED <<clusters, records, contested \cup lost>>
      BY <1>6, <3>1, SameBackends
    <3> QED
      BY <2>1, <2>2, <2>4, <2>5, <2>6, <2>7, <3>2 DEF Promise!Begin, Promise!Next
  <2>8. CASE Changing(b) # {}
    <3>1. contested' = contested \cup {b}
      BY <1>8, <2>8 DEF Setup
    <3>2. Promise!Lose(b)
      <4>1. \A a \in Backends : /\ In(a)' = In(a) /\ remote'[a] = remote[a]
                                /\ Sound(a)' <=> Sound(a) /\ a # b
        BY <1>6, <3>1 DEF In, Sound
      <4>2. clusters' = [clusters EXCEPT ![b] = {}]
        BY <4>1 DEF clusters
      <4>3. records' = [records EXCEPT ![b] = {}]
        BY <4>1 DEF records
      <4>4. (contested \cup lost)' = (contested \cup lost) \cup {b}
        BY <1>6, <3>1
      <4> QED
        BY <4>2, <4>3, <4>4 DEF Promise!Lose
    <3> QED
      BY <2>1, <2>2, <2>4, <2>5, <2>6, <2>8, <3>2 DEF Promise!Begin, Promise!Next
  <2> QED
    BY <2>7, <2>8
<1> QED
  BY <1>7, <1>8

\* A Terraform changes parts of its own backend; on one that is not sound this is not seen.
LEMMA ChangeFrame ==
    ASSUME PInv, NEW p \in Ops, Create(p) \/ Delete(p)
    PROVE  /\ Working(p) /\ Changes(p) /\ Backend(p) \in Backends
           /\ UNCHANGED <<records, contested \cup lost, jobs, reports>>
           /\ \A b \in Backends \ {Backend(p)} : clusters'[b] = clusters[b]
           /\ \A b \in Backends : Sound(b)' = Sound(b)
           /\ ~Sound(Backend(p)) => UNCHANGED Promise!vars
           /\ clusters'[Backend(p)] = IF Sound(Backend(p)) THEN Seen(In(Backend(p))')
                                      ELSE {}
<1>1. Working(p) /\ Changes(p) /\ UNCHANGED <<file, op, remote, contested, lost>>
  BY DEF Create, Delete, Changes
<1>2. child[p] \in Children /\ Backend(p) \in Backends
  BY <1>1, WorkingType DEF PInv, RInv, Inv
<1>3. \A q \in Ops : /\ child'[q].stage = child[q].stage /\ child'[q].ok = child[q].ok
                     /\ child'[q] = NoChild <=> child[q] = NoChild
  <2>1. PICK c : child' = [child EXCEPT ![p] = [child[p] EXCEPT !.record = c]]
    BY DEF Create, Delete
  <2>2. /\ [child[p] EXCEPT !.record = c].stage = child[p].stage
        /\ [child[p] EXCEPT !.record = c].ok = child[p].ok
    BY <1>2 DEF Children
  <2>3. [child[p] EXCEPT !.record = c] # NoChild /\ child[p] # NoChild
    BY <1>1, <2>2 DEF Working, NoChild
  <2> QED
    BY <2>1, <2>2, <2>3 DEF PInv, RInv, Inv, TypeOK
<1>4. \A q \in Ops : jobs'[q] = jobs[q]
  BY <1>1, <1>3, JobKept
<1>5. \A b \in Backends \ {Backend(p)} : In(b)' = In(b)
  <2>1. CASE Create(p)
    <3>1. PICK r : r.backend = Backend(p) /\ cloud' = cloud \cup {r}
      BY <2>1, CreateStep DEF PInv, RInv, Inv
    <3> QED
      BY <3>1 DEF In
  <2>2. CASE Delete(p)
    <3>1. PICK r \in child[p].record : cloud' = cloud \ {r}
      BY <2>2, DeleteStep DEF PInv, RInv, Inv
    <3>2. r.backend = Backend(p)
      BY <1>1, <3>1 DEF PInv, RInv, Inv, Kept, OwnBackend
    <3> QED
      BY <3>1, <3>2 DEF In
  <2> QED
    BY <2>1, <2>2
<1>6. \A b \in Backends : Sound(b)' = Sound(b)
  BY <1>1 DEF Sound
<1>7. \A b \in Backends \ {Backend(p)} : clusters'[b] = clusters[b]
  BY <1>5, <1>6 DEF clusters, Seen
<1>8. UNCHANGED records
  BY <1>1, <1>6 DEF records, Seen
<1>9. UNCHANGED jobs /\ UNCHANGED reports
  BY <1>1, <1>4, SameJobs, SameReports
<1>10. clusters'[Backend(p)] = IF Sound(Backend(p)) THEN Seen(In(Backend(p))') ELSE {}
  <2>1. Backend(p)' = Backend(p)
    BY <1>1 DEF Backend
  <2> QED
    BY <1>2, <1>6, <2>1 DEF clusters, Seen
<1>11. ASSUME ~Sound(Backend(p)) PROVE UNCHANGED clusters
  BY <1>2, <1>6, <1>7, <1>11 DEF clusters
<1> QED
  BY <1>1, <1>2, <1>6, <1>7, <1>8, <1>9, <1>10, <1>11 DEF Promise!vars

\* What the job of a Terraform at work on a sound backend is, and that it remembers what is
\* there.
LEMMA AtWork ==
    ASSUME PInv, NEW p \in Ops, Working(p), Changes(p)
    PROVE  /\ jobs[p].state = "working" /\ jobs[p].kind = Kind(p)
           /\ jobs[p].backend = Backend(p) /\ jobs[p].plan = op[p].frozen.plan
           /\ Backend(p) \in Backends
           /\ Backend(p) \notin contested \cup lost <=> Sound(Backend(p))
           /\ Sound(Backend(p)) =>
                /\ child[p].record = In(Backend(p))
                /\ clusters[Backend(p)] = Seen(In(Backend(p)))
<1>1. TypeOK /\ child[p] # NoChild
  BY DEF PInv, RInv, Inv, Working, NoChild
<1>2. Progress(p) = "working"
  BY DEF Progress
<1>3. Backend(p) \in Backends
  BY <1>1, ChildOfProcess
<1>4. Sound(Backend(p)) => child[p].record = In(Backend(p))
  BY <1>3 DEF PInv, RInv, Inv, Kept, InMemory, Changing
<1> QED
  BY <1>1, <1>2, <1>3, <1>4, JobIs, SeenSound

LEMMA CreateSeen ==
    ASSUME PInv, NEW p \in Ops, Create(p)
    PROVE  Promise!Next \/ UNCHANGED Promise!vars
<1> DEFINE b == Backend(p)
<1>1. /\ Working(p) /\ Changes(p) /\ b \in Backends
      /\ UNCHANGED <<records, contested \cup lost, jobs, reports>>
      /\ \A other \in Backends \ {b} : clusters'[other] = clusters[other]
  BY ChangeFrame
<1>2. CASE ~Sound(b)
  BY <1>2, ChangeFrame
<1>3. CASE Sound(b)
  <2>1. PICK x \in Parts \ Present(p) :
          cloud' = cloud \cup {[backend |-> b, plan |-> op[p].frozen.plan,
                                part |-> x, by |-> p]}
    BY DEF Create
  <2> DEFINE r == [backend |-> b, plan |-> op[p].frozen.plan, part |-> x, by |-> p]
             y == [part |-> x, plan |-> op[p].frozen.plan]
  <2>2. In(b)' = In(b) \cup {r}
    <3>1. b' = b
      BY DEF Create, Backend
    <3> QED
      BY <2>1, <3>1 DEF In
  <2>3. clusters'[b] = Seen(In(b)) \cup {y}
    <3>1. clusters'[b] = Seen(In(b) \cup {r})
      BY <1>3, <2>2, ChangeFrame
    <3>2. r.part = x /\ r.plan = op[p].frozen.plan
      OBVIOUS
    <3> HIDE DEF r
    <3>3. Seen(In(b) \cup {r}) = Seen(In(b)) \cup {y}
      BY <3>2 DEF Seen
    <3> QED
      BY <3>1, <3>3
  <2>4. /\ jobs[p].state = "working" /\ jobs[p].kind = "apply" /\ jobs[p].backend = b
        /\ jobs[p].plan = op[p].frozen.plan /\ b \notin contested \cup lost
        /\ child[p].record = In(b) /\ clusters[b] = Seen(In(b))
    BY <1>1, <1>3, AtWork DEF Create
  <2>5. x \in Parts \ {z.part : z \in clusters[b]}
    <3>1. \A z \in Seen(In(b)) : \E s \in In(b) : z.part = s.part
      BY DEF Seen
    <3> QED
      BY <2>1, <2>4, <3>1 DEF Present
  <2>6. clusters' = [clusters EXCEPT ![b] = clusters[b] \cup {y}]
    BY <1>1, <2>3, <2>4 DEF clusters
  <2>7. Promise!Build(p)
    BY <1>1, <2>4, <2>5, <2>6 DEF Promise!Build
  <2> QED
    BY <2>7 DEF Promise!Next
<1> QED
  BY <1>2, <1>3

\* Because each part exists once, what is seen of a deleted resource goes with it.
LEMMA DeleteSeen ==
    ASSUME PInv, NEW p \in Ops, Delete(p)
    PROVE  Promise!Next \/ UNCHANGED Promise!vars
<1> DEFINE b == Backend(p)
<1>1. /\ Working(p) /\ Changes(p) /\ b \in Backends
      /\ UNCHANGED <<records, contested \cup lost, jobs, reports>>
      /\ \A other \in Backends \ {b} : clusters'[other] = clusters[other]
  BY ChangeFrame
<1>2. CASE ~Sound(b)
  BY <1>2, ChangeFrame
<1>3. CASE Sound(b)
  <2>1. PICK r \in Unwanted(p) : cloud' = cloud \ {r}
    BY DEF Delete
  <2> DEFINE y == [part |-> r.part, plan |-> r.plan]
  <2>2. In(b)' = In(b) \ {r}
    <3>1. b' = b
      BY DEF Delete, Backend
    <3> QED
      BY <2>1, <3>1 DEF In
  <2>3. /\ jobs[p].state = "working" /\ jobs[p].kind = Kind(p) /\ jobs[p].backend = b
        /\ jobs[p].plan = op[p].frozen.plan /\ b \notin contested \cup lost
        /\ child[p].record = In(b) /\ clusters[b] = Seen(In(b))
    BY <1>1, <1>3, AtWork
  <2>4. r \in In(b) /\ (Kind(p) = "destroy" \/ r.plan # op[p].frozen.plan)
    BY <2>3 DEF Unwanted
  <2>5. \A s \in In(b) \ {r} : s.part # r.part
    BY <1>1, <1>3, <2>4 DEF PInv, OnlyOnce
  <2>6. clusters'[b] = Seen(In(b)) \ {y}
    <3>1. clusters'[b] = Seen(In(b) \ {r})
      BY <1>3, <2>2, ChangeFrame
    <3>2. \A s \in In(b) : [part |-> s.part, plan |-> s.plan] = y <=> s = r
      BY <2>5
    <3>3. Seen(In(b) \ {r}) = Seen(In(b)) \ {y}
      BY <3>2 DEF Seen
    <3> QED
      BY <3>1, <3>3
  <2>7. y \in clusters[b] /\ y.plan = r.plan
    BY <2>3, <2>4 DEF Seen
  <2>8. clusters' = [clusters EXCEPT ![b] = clusters[b] \ {y}]
    BY <1>1, <2>3, <2>6 DEF clusters
  <2> HIDE DEF y
  <2>9. Promise!Remove(p)
    BY <1>1, <2>3, <2>4, <2>7, <2>8 DEF Promise!Remove
  <2> QED
    BY <2>9 DEF Promise!Next
<1> QED
  BY <1>2, <1>3

\* The job of p ends with its Terraform, and is done when that succeeded.
LEMMA EndFrame ==
    ASSUME PInv, NEW p \in Ops, Succeed(p) \/ Fail(p) \/ Die(p)
    PROVE  /\ Working(p) /\ UNCHANGED <<file, op, cloud, contested>>
           /\ \A q \in Ops \ {p} : jobs'[q] = jobs[q]
           /\ ~Changes(p) => jobs'[p] = jobs[p]
           /\ Changes(p) => jobs' = [jobs EXCEPT ![p].state =
                                       IF child'[p].ok THEN "done" ELSE "stopped"]
           /\ child'[p].ok => Succeed(p)
           /\ ~child'[p].ok => Fail(p) \/ Die(p)
<1>1. /\ Working(p) /\ child[p] \in Children /\ ~child[p].ok /\ child[p] # NoChild
      /\ TypeOK
  BY WorkingType DEF Succeed, Fail, Die, PInv, RInv, Inv, Lasting, NotYet, Working, NoChild
<1>2. UNCHANGED <<file, op, cloud, contested>>
  BY DEF Succeed, Fail, Die
<1>3. /\ child'[p].stage = "ended" /\ child'[p] # NoChild
      /\ \A q \in Ops \ {p} : child'[q] = child[q]
  <2>1. PICK c \in Children : c.stage = "ended" /\ child' = [child EXCEPT ![p] = c]
    BY <1>1, EndStep
  <2> QED
    BY <1>1, <2>1 DEF TypeOK, NoChild
<1>4. (child'[p].ok => Succeed(p)) /\ (~child'[p].ok => Fail(p) \/ Die(p))
  <2>1. ASSUME Fail(p) \/ Die(p) PROVE ~child'[p].ok
    <3>1. child' = [child EXCEPT ![p] = [child[p] EXCEPT !.stage = "ended", !.record = {}]]
      BY <2>1 DEF Fail, Die
    <3>2. [child[p] EXCEPT !.stage = "ended", !.record = {}].ok = child[p].ok
      BY <1>1 DEF Children
    <3> QED
      BY <1>1, <3>1, <3>2 DEF TypeOK
  <2>2. ASSUME Succeed(p) PROVE child'[p].ok
    <3>1. child' = [child EXCEPT ![p] =
                      [child[p] EXCEPT !.stage = "ended", !.ok = TRUE, !.record = {}]]
      BY <2>2 DEF Succeed
    <3>2. [child[p] EXCEPT !.stage = "ended", !.ok = TRUE, !.record = {}].ok = TRUE
      BY <1>1 DEF Children
    <3> QED
      BY <1>1, <3>1, <3>2 DEF TypeOK
  <2> QED
    BY <2>1, <2>2
<1>5. \A q \in Ops \ {p} : jobs'[q] = jobs[q]
  BY <1>2, <1>3, JobKept
<1>6. Changes(p)' = Changes(p) /\ Kind(p)' = Kind(p) /\ Backend(p)' = Backend(p)
  BY <1>2 DEF Changes, Kind, Backend
<1>7. ASSUME ~Changes(p) PROVE jobs'[p] = jobs[p]
  BY <1>6, <1>7 DEF jobs
<1>8. ASSUME Changes(p)
      PROVE  jobs' = [jobs EXCEPT ![p].state = IF child'[p].ok THEN "done" ELSE "stopped"]
  <2> DEFINE state == IF child'[p].ok THEN "done" ELSE "stopped"
             r == [state |-> state, kind |-> Kind(p), backend |-> Backend(p),
                   plan |-> op[p].frozen.plan]
  <2>1. Progress(p)' = state
    BY <1>3 DEF Progress, Working
  <2> HIDE DEF state
  <2>2. jobs'[p] = r
    BY <1>2, <1>3, <1>6, <1>8, <2>1 DEF jobs
  <2>3. jobs[p] = Record(p)
    BY <1>1, <1>8, JobIs
  <2>4. [jobs[p] EXCEPT !.state = state] = r
    BY <2>3 DEF Record
  <2>5. jobs' = [jobs EXCEPT ![p] = r]
    BY <1>5, <2>2 DEF jobs
  <2>6. jobs' = [jobs EXCEPT ![p].state = state]
    BY <2>4, <2>5
  <2> QED
    BY <2>6 DEF state
<1> QED
  BY <1>1, <1>2, <1>4, <1>5, <1>7, <1>8

\* What Terraform saves on a sound backend is what is there.
LEMMA SaveSeen ==
    ASSUME PInv, NEW p \in Ops, Changes(p), Succeed(p) \/ Fail(p)
    PROVE  /\ records' = [records EXCEPT ![Backend(p)] = clusters[Backend(p)]]
           /\ UNCHANGED <<clusters, contested \cup lost, reports>>
<1> DEFINE b == Backend(p)
<1>1. Working(p) /\ UNCHANGED <<file, op, cloud, contested, lost>>
  BY DEF Succeed, Fail
<1>2. /\ b \in Backends
      /\ Sound(b) => child[p].record = In(b) /\ clusters[b] = Seen(In(b))
      /\ ~Sound(b) => clusters[b] = {}
  BY <1>1, AtWork DEF clusters
<1>3. remote' = [remote EXCEPT ![b] = child[p].record]
  BY DEF Succeed, Fail, Save
<1>4. \A a \in Backends : /\ In(a)' = In(a) /\ Sound(a)' = Sound(a)
                          /\ remote'[a] = IF a = b THEN child[p].record ELSE remote[a]
  BY <1>1, <1>2, <1>3 DEF In, Sound, PInv, RInv, Inv, TypeOK
<1>5. UNCHANGED clusters
  BY <1>4 DEF clusters, Seen
<1>6. records'[b] = clusters[b]
  BY <1>2, <1>4 DEF records
<1>7. \A a \in Backends \ {b} : records'[a] = records[a]
  BY <1>4 DEF records
<1>8. records' = [records EXCEPT ![b] = clusters[b]]
  BY <1>2, <1>6, <1>7 DEF records
<1>9. UNCHANGED <<contested \cup lost, reports>>
  BY <1>1, SameReports
<1> QED
  BY <1>5, <1>8, <1>9

LEMMA EndSeen ==
    ASSUME PInv, NEW p \in Ops, Succeed(p) \/ Fail(p) \/ Die(p)
    PROVE  Promise!Next \/ UNCHANGED Promise!vars
<1> DEFINE b == Backend(p)
<1>1. /\ Working(p) /\ UNCHANGED <<file, op, cloud, contested>>
      /\ \A q \in Ops \ {p} : jobs'[q] = jobs[q]
  BY EndFrame
<1>2. CASE ~Changes(p)
  <2>1. \A q \in Ops : jobs'[q] = jobs[q]
    BY <1>1, <1>2, EndFrame
  <2>2. UNCHANGED <<remote, lost>>
    BY <1>2 DEF Succeed, Fail, Die, Save
  <2> QED
    BY <1>1, <2>1, <2>2, Unseen
<1>3. CASE Changes(p)
  <2>1. /\ jobs[p].state = "working" /\ jobs[p].kind = Kind(p) /\ jobs[p].backend = b
        /\ jobs[p].plan = op[p].frozen.plan /\ b \in Backends
        /\ b \notin contested \cup lost <=> Sound(b)
        /\ Sound(b) => child[p].record = In(b) /\ clusters[b] = Seen(In(b))
    BY <1>1, <1>3, AtWork
  <2>2. UNCHANGED reports
    BY <1>1, SameReports
  <2>3. CASE child'[p].ok
    <3>1. Succeed(p) /\ jobs' = [jobs EXCEPT ![p].state = "done"]
      BY <1>3, <2>3, EndFrame
    <3>2. Promise!Recorded(p)
      BY <1>3, <2>1, <3>1, SaveSeen DEF Promise!Recorded
    <3>3. ASSUME Sound(b) PROVE Promise!Done(p)
      <4>1. Complete(p) /\ child[p].record = In(b) /\ clusters[b] = Seen(In(b))
        BY <2>1, <3>1, <3>3 DEF Succeed
      <4>2. CASE Kind(p) = "destroy"
        BY <2>1, <4>1, <4>2 DEF Complete, Seen, Promise!Done
      <4>3. CASE Kind(p) = "apply"
        <5>1. Unwanted(p) = {} /\ Present(p) = Parts
          BY <4>1, <4>3 DEF Complete
        <5>2. \A r \in In(b) : r.plan = op[p].frozen.plan
          BY <4>1, <5>1 DEF Unwanted
        <5>3. {r.part : r \in In(b)} = Parts
          BY <4>1, <5>1 DEF Present
        <5>4. Seen(In(b)) = {[part |-> r.part, plan |-> op[p].frozen.plan] : r \in In(b)}
          BY <5>2 DEF Seen
        <5>5. Seen(In(b)) = Promise!Whole(op[p].frozen.plan)
          BY <5>3, <5>4 DEF Promise!Whole
        <5> QED
          BY <2>1, <4>1, <4>3, <5>5 DEF Promise!Done
      <4> QED
        BY <1>3, <4>2, <4>3 DEF Changes
    <3>4. Promise!Finish(p)
      BY <2>1, <2>2, <3>1, <3>2, <3>3 DEF Promise!Finish, Promise!End
    <3> QED
      BY <3>4 DEF Promise!Next
  <2>4. CASE ~child'[p].ok /\ Fail(p)
    <3>1. jobs' = [jobs EXCEPT ![p].state = "stopped"]
      BY <1>3, <2>4, EndFrame
    <3>2. Promise!Recorded(p)
      BY <1>3, <2>1, <2>4, SaveSeen DEF Promise!Recorded
    <3>3. Promise!Stop(p)
      BY <2>1, <2>2, <3>1, <3>2 DEF Promise!Stop, Promise!End
    <3> QED
      BY <3>3 DEF Promise!Next
  <2>5. CASE ~child'[p].ok /\ Die(p)
    <3>1. jobs' = [jobs EXCEPT ![p].state = "stopped"]
      BY <1>3, <2>5, EndFrame
    <3>2. lost' = lost \cup {b} /\ UNCHANGED remote
      BY <1>3, <2>5 DEF Die
    <3>3. \A a \in Backends : /\ In(a)' = In(a) /\ remote'[a] = remote[a]
                              /\ Sound(a)' <=> Sound(a) /\ a # b
      BY <1>1, <3>2 DEF In, Sound
    <3>4. clusters' = [clusters EXCEPT ![b] = {}]
      BY <3>3 DEF clusters
    <3>5. records' = [records EXCEPT ![b] = {}]
      BY <3>3 DEF records
    <3>6. (contested \cup lost)' = (contested \cup lost) \cup {b}
      BY <1>1, <3>2
    <3>7. Promise!Lose(b)
      BY <3>4, <3>5, <3>6 DEF Promise!Lose
    <3>8. Promise!Vanish(p)
      BY <2>1, <2>2, <3>1, <3>7 DEF Promise!Vanish, Promise!End
    <3> QED
      BY <3>8 DEF Promise!Next
  <2> QED
    BY <2>3, <2>4, <2>5, EndFrame
<1> QED
  BY <1>2, <1>3

\* What earlier operations left is a cluster at rest.
LEMMA InitSeen ==
    ASSUME Init
    PROVE  Promise!Init
<1>1. TypeOK /\ RInv /\ OnlyOnce
  BY InitResults, InitOnce DEF RInv, Inv
<1>2. \A b \in Backends : Sound(b) /\ remote[b] = In(b)
  <2>1. remote = [b \in Backends |-> {r \in cloud : r.backend = b}]
    BY DEF Init
  <2>2. contested = {} /\ lost = {}
    BY DEF Init
  <2> QED
    BY <2>1, <2>2 DEF In, Sound
<1>3. clusters = [b \in Backends |-> Seen(In(b))] /\ records = clusters
  BY <1>2 DEF clusters, records
<1>4. \A b \in Backends : Seen(In(b)) \subseteq Promise!Built
  <2>1. cloud \subseteq Resources
    BY <1>1 DEF TypeOK
  <2>2. \A r \in cloud : [part |-> r.part, plan |-> r.plan] \in Promise!Built
    BY <2>1 DEF Resources, Promise!Built
  <2> QED
    BY <2>2 DEF Seen, In
<1>5. ASSUME NEW b \in Backends, NEW x \in clusters[b], NEW y \in clusters[b], x.part = y.part
      PROVE  x = y
  <2>1. PICK r \in In(b) : x = [part |-> r.part, plan |-> r.plan]
    BY <1>3 DEF Seen
  <2>2. PICK s \in In(b) : y = [part |-> s.part, plan |-> s.plan]
    BY <1>3 DEF Seen
  <2>3. r.part = s.part
    BY <1>5, <2>1, <2>2
  <2>4. r = s
    BY <1>1, <1>2, <2>3 DEF OnlyOnce
  <2> QED
    BY <2>1, <2>2, <2>4
<1>6. clusters \in [Backends -> SUBSET Promise!Built]
  BY <1>3, <1>4
<1>7. contested \cup lost = {}
  BY DEF Init
<1>8. jobs = [p \in Ops |-> Promise!NoJob]
  <2>1. child = [p \in Ops |-> NoChild]
    BY DEF Init
  <2>2. \A p \in Ops : jobs[p] = Promise!NoJob
    BY <2>1, <1>1, JobIs
  <2> QED
    BY <2>2 DEF jobs
<1>9. reports = [path \in Paths |-> Promise!NoReport]
  <2>1. \A path \in Paths : file[path].type # "result"
    BY LifecycleAssumption DEF Init, Nothing, Contexts
  <2> QED
    BY <2>1 DEF reports, Promise!NoReport
<1> QED
  BY <1>3, <1>5, <1>6, <1>7, <1>8, <1>9 DEF Promise!Init

LEMMA StepSeen ==
    ASSUME PInv, [Next]_vars
    PROVE  [Promise!Next]_(Promise!vars)
<1>1. ASSUME UNCHANGED vars PROVE UNCHANGED Promise!vars
  BY <1>1, JobKept, Unseen DEF vars
<1>2. ASSUME NEW p \in Ops, Step(p)
      PROVE  Promise!Next \/ UNCHANGED Promise!vars
  <2>1. CASE Start(p)
    BY <2>1, StartUnseen
  <2>2. CASE Setup(p)
    BY <2>2, SetupSeen
  <2>3. CASE SetupFails(p) \/ Reap(p) \/ ReapFails(p) \/ Kill(p)
    <3>1. UNCHANGED <<file, remote, cloud, contested, lost>>
      BY <2>3 DEF SetupFails, Reap, ReapFails, Kill
    <3> QED
      BY <2>3, <3>1, StageUnseen, Unseen
  <2>4. CASE WriteResult(p) \/ WriteFails(p)
    BY <2>4, WriteSeen
  <2>5. CASE Interrupt(p) \/ Timeout(p)
    BY <2>5, InterruptUnseen DEF Timeout
  <2>6. CASE Create(p)
    BY <2>6, CreateSeen
  <2>7. CASE Delete(p)
    BY <2>7, DeleteSeen
  <2>8. CASE Succeed(p) \/ Fail(p) \/ Die(p)
    BY <2>8, EndSeen
  <2> QED
    BY <1>2, <2>1, <2>2, <2>3, <2>4, <2>5, <2>6, <2>7, <2>8 DEF Step, Work, Terraform
<1> QED
  BY <1>1, <1>2 DEF Next, Step

\* For any number of operations, backends, plans, parts and paths, killed, interrupted and
\* overlapping processes and the Terraforms they leave behind change clusters as the
\* operations of Allocation do, one at a time or with nothing promised (runOperation,
\* terraformCommand, writeOperationResult).
THEOREM Implements == Spec => AllocationSpec
<1>1. Init => PInv /\ Promise!Init
  BY InitResults, InitOnce, InitSeen DEF PInv
<1>2. PInv /\ [Next]_vars => PInv'
  BY StepResults, OnceStep DEF PInv, RInv
<1>3. PInv /\ [Next]_vars => [Promise!Next]_(Promise!vars)
  BY StepSeen
<1> QED
  BY <1>1, <1>2, <1>3, PTL DEF Spec, AllocationSpec, Promise!Spec
=============================================================================
