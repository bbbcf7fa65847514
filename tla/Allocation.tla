------------------------------ MODULE Allocation ------------------------------
(***************************************************************************)
(* What the owner of clusters relies on, stated without processes,         *)
(* subprocesses, interrupts or memory: a cluster changes only while one    *)
(* operation works on it; when that ends, however it ends, what is         *)
(* recorded is what there is; each part exists once; and a result is       *)
(* reported only of an operation that did all it was asked for.  When two  *)
(* operations work on one backend, or one vanishes, nothing is promised of *)
(* that backend any more.                                                  *)
(***************************************************************************)
CONSTANTS Backends, Plans, Parts, Ops, Paths

VARIABLES
    cluster,    \* backend -> the parts that exist
    record,     \* backend -> the parts that the next operation will find
    uncertain,  \* the backends nothing is promised of
    job,        \* operation -> what it is to change, and how far it is
    report      \* path -> the result that is there

vars == <<cluster, record, uncertain, job, report>>

Built == [part : Parts, plan : Plans]
NoJob == [state |-> "none"]
NoReport == [of |-> "nothing"]

Whole(plan) == {[part |-> x, plan |-> plan] : x \in Parts}
At(b) == {p \in Ops : job[p].state = "working" /\ job[p].backend = b}

Init ==
    /\ cluster \in [Backends -> SUBSET Built]
    /\ \A b \in Backends : \A x, y \in cluster[b] : x.part = y.part => x = y
    /\ record = cluster
    /\ uncertain = {}
    /\ job = [p \in Ops |-> NoJob]
    /\ report = [path \in Paths |-> NoReport]

\* From now on nothing is said of b.
Lose(b) ==
    /\ uncertain' = uncertain \cup {b}
    /\ cluster' = [cluster EXCEPT ![b] = {}]
    /\ record' = [record EXCEPT ![b] = {}]

Begin(p, kind, b, plan) ==
    /\ job[p] = NoJob
    /\ job' = [job EXCEPT ![p] = [state |-> "working", kind |-> kind, backend |-> b,
                                  plan |-> plan]]
    /\ IF At(b) = {} THEN UNCHANGED <<cluster, record, uncertain>> ELSE Lose(b)
    /\ UNCHANGED report

\* A part that is not there yet.
Build(p) ==
    /\ job[p].state = "working" /\ job[p].kind = "apply" /\ job[p].backend \notin uncertain
    /\ \E x \in Parts \ {y.part : y \in cluster[job[p].backend]} :
         cluster' = [cluster EXCEPT ![job[p].backend] =
                        @ \cup {[part |-> x, plan |-> job[p].plan]}]
    /\ UNCHANGED <<record, uncertain, job, report>>

\* What destroy is for, or what apply has to replace.
Remove(p) ==
    /\ job[p].state = "working" /\ job[p].backend \notin uncertain
    /\ \E y \in cluster[job[p].backend] :
         /\ job[p].kind = "destroy" \/ y.plan # job[p].plan
         /\ cluster' = [cluster EXCEPT ![job[p].backend] = @ \ {y}]
    /\ UNCHANGED <<record, uncertain, job, report>>

Done(p) ==
    cluster[job[p].backend] = IF job[p].kind = "destroy" THEN {} ELSE Whole(job[p].plan)

End(p, state) ==
    /\ job[p].state = "working"
    /\ job' = [job EXCEPT ![p].state = state]
    /\ UNCHANGED report

Recorded(p) ==
    /\ record' = [record EXCEPT ![job[p].backend] = cluster[job[p].backend]]
    /\ UNCHANGED <<cluster, uncertain>>

Finish(p) == End(p, "done") /\ Recorded(p) /\ (job[p].backend \in uncertain \/ Done(p))
Stop(p) == End(p, "stopped") /\ Recorded(p)
Vanish(p) == End(p, "stopped") /\ Lose(job[p].backend)

Tell(p, path) ==
    /\ job[p].state = "done"
    /\ report' = [report EXCEPT ![path] = [of |-> job[p].kind, by |-> p]]
    /\ UNCHANGED <<cluster, record, uncertain, job>>

\* A context takes the place of a result.
Overwrite(path) ==
    /\ report' = [report EXCEPT ![path] = NoReport]
    /\ UNCHANGED <<cluster, record, uncertain, job>>

Next ==
    \/ \E p \in Ops :
         \/ \E kind \in {"apply", "destroy"}, b \in Backends, plan \in Plans :
              Begin(p, kind, b, plan)
         \/ Build(p) \/ Remove(p) \/ Finish(p) \/ Stop(p) \/ Vanish(p)
         \/ \E path \in Paths : Tell(p, path)
    \/ \E path \in Paths : Overwrite(path)

Spec == Init /\ [][Next]_vars
=============================================================================
