--------------------------- MODULE AllocationProofs ---------------------------
(***************************************************************************)
(* What the owner of clusters gets from Allocation, for any number of      *)
(* operations, backends, plans, parts and paths.                           *)
(***************************************************************************)
EXTENDS Allocation, TLAPS

Certain(b) == b \in Backends \ uncertain

\* What the next operation will find is what there is, whenever no operation is at work.
AtRest == \A b \in Backends : Certain(b) /\ At(b) = {} => record[b] = cluster[b]

\* Of each part there is one.
Single == \A b \in Backends : \A x, y \in cluster[b] : x.part = y.part => x = y

\* Only what was done is reported, and as what it was.
Honest ==
    \A path \in Paths : report[path] # NoReport =>
        \E p \in Ops : /\ job[p].state = "done"
                       /\ report[path] = [of |-> job[p].kind, by |-> p]

\* What was done is there until another operation comes to the backend.
Alone(p) == \A q \in Ops \ {p} : job[q] = NoJob \/ job[q].backend # job[p].backend
Stays ==
    \A p \in Ops :
        job[p].state = "done" /\ Certain(job[p].backend) /\ Alone(p) => Done(p)

Jobs == [state : {"working", "done", "stopped"}, kind : {"apply", "destroy"},
         backend : Backends, plan : Plans]

Typed ==
    /\ cluster \in [Backends -> SUBSET Built]
    /\ record \in [Backends -> SUBSET Built]
    /\ job \in [Ops -> {NoJob} \cup Jobs]
    /\ report \in [Paths -> {NoReport} \cup [of : {"apply", "destroy"}, by : Ops]]

\* On a certain backend one operation works at a time.
OneAtATime == \A b \in Backends : Certain(b) => \A p, q \in At(b) : p = q

Inv == Typed /\ OneAtATime /\ AtRest /\ Single /\ Honest /\ Stays

\* A job that is at work and what it is about.
LEMMA AtWork ==
    ASSUME Typed, NEW p \in Ops, job[p].state = "working"
    PROVE  /\ job[p] \in Jobs /\ job[p].backend \in Backends /\ job[p].plan \in Plans
           /\ p \in At(job[p].backend)
<1>1. job[p] \in Jobs
  BY DEF Typed, NoJob
<1> QED
  BY <1>1 DEF Jobs, At

LEMMA InitInv ==
    ASSUME Init
    PROVE  Inv
<1>1. \A p \in Ops : job[p].state # "working"
  BY DEF Init, NoJob
<1>2. Stays
  BY DEF Init, NoJob, Stays
<1> QED
  BY <1>1, <1>2 DEF Init, Inv, Typed, OneAtATime, AtRest, Single, Honest, At

\* A backend that is lost is certain no more, and the others are as they were.
LEMMA LoseInv ==
    ASSUME Inv, NEW b \in Backends, Lose(b), NEW p \in Ops, UNCHANGED report,
           job' \in [Ops -> {NoJob} \cup Jobs],
           \A q \in Ops \ {p} : job'[q] = job[q],
           job[p].state # "done", job'[p] # NoJob, job'[p].backend = b,
           job[p] = NoJob \/ job[p].backend = b
    PROVE  Inv'
<1>1. \A a \in Backends : Certain(a)' <=> Certain(a) /\ a # b
  BY DEF Lose, Certain
<1>2. \A a \in Backends \ {b} : /\ cluster'[a] = cluster[a] /\ record'[a] = record[a]
                                /\ At(a)' = At(a)
  BY DEF Lose, At, Inv, Typed, NoJob
<1>3. cluster'[b] = {} /\ record'[b] = {}
  BY DEF Lose, Inv, Typed
<1>4. Typed'
  BY DEF Lose, Inv, Typed
<1>5. OneAtATime' /\ AtRest'
  BY <1>1, <1>2 DEF OneAtATime, AtRest, Inv
<1>6. Single'
  BY <1>2, <1>3 DEF Single, Inv
<1>7. Honest'
  BY DEF Honest, Inv
<1>8. Stays'
  <2> SUFFICES ASSUME NEW q \in Ops, job'[q].state = "done", Certain(job[q].backend)',
                      Alone(q)'
               PROVE  Done(q)'
    BY DEF Stays
  <2>1. job'[q].backend \in Backends \ {b} /\ q # p
    BY <1>1 DEF Certain
  <2>2. job'[q] = job[q] /\ cluster'[job[q].backend] = cluster[job[q].backend]
    BY <1>2, <2>1
  <2>3. Alone(q)
    BY <2>1, <2>2 DEF Alone
  <2>4. Certain(job[q].backend)
    BY <1>1, <2>1, <2>2 DEF Certain, Lose
  <2> QED
    BY <2>2, <2>3, <2>4 DEF Inv, Stays, Done
<1> QED
  BY <1>4, <1>5, <1>6, <1>7, <1>8 DEF Inv

LEMMA BeginInv ==
    ASSUME Inv, NEW p \in Ops, NEW kind \in {"apply", "destroy"}, NEW b \in Backends,
           NEW plan \in Plans, Begin(p, kind, b, plan)
    PROVE  Inv'
<1> DEFINE new == [state |-> "working", kind |-> kind, backend |-> b, plan |-> plan]
<1>1. new \in Jobs /\ new.state = "working" /\ new.backend = b
  BY DEF Jobs
<1>2. job' = [job EXCEPT ![p] = new] /\ job[p] = NoJob /\ UNCHANGED report
  BY DEF Begin
<1> HIDE DEF new
<1>3. /\ job' \in [Ops -> {NoJob} \cup Jobs] /\ job'[p] = new
      /\ \A q \in Ops \ {p} : job'[q] = job[q]
  BY <1>1, <1>2 DEF Inv, Typed
<1>4. job[p].state \notin {"working", "done"}
  BY <1>2 DEF NoJob
<1>7. new # NoJob
  BY <1>1 DEF NoJob
<1>5. CASE At(b) # {}
  <2>1. Lose(b)
    BY <1>5 DEF Begin
  <2> QED
    BY <1>1, <1>2, <1>3, <1>4, <1>7, <2>1, LoseInv
<1>6. CASE At(b) = {}
  <2>1. UNCHANGED <<cluster, record, uncertain>>
    BY <1>6 DEF Begin
  <2>2. At(b)' = {p} /\ \A a \in Backends \ {b} : At(a)' = At(a)
    BY <1>1, <1>3, <1>4, <1>6 DEF At
  <2>3. Typed' /\ Single'
    BY <1>2, <1>3, <2>1 DEF Inv, Typed, Single
  <2>4. OneAtATime' /\ AtRest'
    BY <2>1, <2>2 DEF Inv, OneAtATime, AtRest, Certain
  <2>5. Honest'
    BY <1>2, <1>3, <1>4 DEF Inv, Honest
  <2>6. Stays'
    <3> SUFFICES ASSUME NEW q \in Ops, job'[q].state = "done", Certain(job[q].backend)',
                        Alone(q)'
                 PROVE  Done(q)'
      BY DEF Stays
    <3>1. q # p /\ job'[q] = job[q]
      BY <1>1, <1>3
    <3>2. Alone(q)
      BY <1>2, <1>3, <3>1 DEF Alone
    <3> QED
      BY <2>1, <3>1, <3>2 DEF Inv, Stays, Done, Certain
  <2> QED
    BY <2>3, <2>4, <2>5, <2>6 DEF Inv
<1> QED
  BY <1>5, <1>6

\* A cluster changes under the one job that is at work on it.
LEMMA ChangeInv ==
    ASSUME Inv, NEW p \in Ops, Build(p) \/ Remove(p)
    PROVE  Inv'
<1> DEFINE b == job[p].backend
<1>1. job[p].state = "working" /\ UNCHANGED <<record, uncertain, job, report>>
  BY DEF Build, Remove
<1>2. job[p] \in Jobs /\ b \in Backends /\ job[p].plan \in Plans /\ p \in At(b)
  BY <1>1, AtWork DEF Inv
<1>3. \A a \in Backends : At(a)' = At(a) /\ (Certain(a)' <=> Certain(a))
  BY <1>1 DEF At, Certain
<1>4. /\ cluster' \in [Backends -> SUBSET Built]
      /\ \A a \in Backends \ {b} : cluster'[a] = cluster[a]
      /\ \A x, y \in cluster'[b] : x.part = y.part => x = y
  <2>1. CASE Build(p)
    <3>1. PICK x \in Parts \ {y.part : y \in cluster[b]} :
            cluster' = [cluster EXCEPT ![b] = @ \cup {[part |-> x, plan |-> job[p].plan]}]
      BY <2>1 DEF Build
    <3> DEFINE new == [part |-> x, plan |-> job[p].plan]
    <3>2. new \in Built /\ new.part = x
      BY <1>2 DEF Built
    <3>3. cluster'[b] = cluster[b] \cup {new}
      BY <1>2, <3>1 DEF Inv, Typed
    <3>4. \A y \in cluster[b] : y.part # x
      BY <3>1
    <3> HIDE DEF new
    <3>5. \A y, z \in cluster[b] \cup {new} : y.part = z.part => y = z
      BY <1>2, <3>2, <3>4 DEF Inv, Single
    <3>6. cluster' = [cluster EXCEPT ![b] = cluster[b] \cup {new}]
      BY <3>1 DEF new
    <3> QED
      BY <1>2, <3>2, <3>3, <3>5, <3>6 DEF Inv, Typed
  <2>2. CASE Remove(p)
    <3>1. PICK y \in cluster[b] : cluster' = [cluster EXCEPT ![b] = cluster[b] \ {y}]
      BY <2>2 DEF Remove
    <3> QED
      BY <1>2, <3>1 DEF Inv, Typed, Single
  <2> QED
    BY <2>1, <2>2
<1>5. Typed' /\ Single'
  BY <1>1, <1>4 DEF Inv, Typed, Single
<1>6. OneAtATime'
  BY <1>3 DEF Inv, OneAtATime
<1>7. AtRest'
  BY <1>1, <1>2, <1>3, <1>4 DEF Inv, AtRest
<1>8. Honest'
  BY <1>1 DEF Inv, Honest
<1>9. Stays'
  <2> SUFFICES ASSUME NEW q \in Ops, job[q].state = "done", Certain(job[q].backend), Alone(q)
               PROVE  Done(q)'
    BY <1>1 DEF Stays, Certain, Alone
  <2>1. q # p /\ job[p] # NoJob
    BY <1>1 DEF NoJob
  <2>2. job[q].backend \in Backends \ {b}
    BY <2>1 DEF Alone, Certain
  <2> QED
    BY <1>1, <1>4, <2>2 DEF Inv, Stays, Done
<1> QED
  BY <1>5, <1>6, <1>7, <1>8, <1>9 DEF Inv

\* A job that ends is at work no more; what it leaves is recorded or lost.
LEMMA EndInv ==
    ASSUME Inv, NEW p \in Ops, Finish(p) \/ Stop(p) \/ Vanish(p)
    PROVE  Inv'
<1> DEFINE b == job[p].backend
<1>1. PICK state \in {"done", "stopped"} :
        job' = [job EXCEPT ![p].state = state] /\ UNCHANGED report
  BY DEF Finish, Stop, Vanish, End
<1>2. job[p].state = "working" /\ job[p] \in Jobs /\ b \in Backends /\ p \in At(b)
  BY AtWork DEF Finish, Stop, Vanish, End, Inv
<1>3. [job[p] EXCEPT !.state = state] \in Jobs /\ [job[p] EXCEPT !.state = state].state = state
  BY <1>2 DEF Jobs
<1>4. /\ job' \in [Ops -> {NoJob} \cup Jobs] /\ job'[p].state = state
      /\ \A q \in Ops \ {p} : job'[q] = job[q]
  BY <1>1, <1>3 DEF Inv, Typed
<1>5. CASE Vanish(p)
  <2>1. job'[p].backend = b /\ job'[p] # NoJob
    BY <1>1, <1>2, <1>3 DEF Inv, Typed, Jobs, NoJob
  <2> QED
    BY <1>1, <1>2, <1>4, <1>5, <2>1, LoseInv DEF Vanish
<1>6. CASE Finish(p) \/ Stop(p)
  <2>1. /\ record' = [record EXCEPT ![b] = cluster[b]]
        /\ UNCHANGED <<cluster, uncertain>>
    BY <1>6 DEF Finish, Stop, Recorded
  <2>2. \A a \in Backends : /\ At(a)' = At(a) \ {p}
                            /\ (a # b => p \notin At(a) /\ record'[a] = record[a])
    BY <1>2, <1>4, <2>1 DEF At, Inv, Typed
  <2>3. record'[b] = cluster[b]
    BY <1>2, <2>1 DEF Inv, Typed
  <2>4. Typed' /\ Single'
    BY <1>1, <1>4, <2>1, <1>2 DEF Inv, Typed, Single
  <2>5. OneAtATime' /\ AtRest'
    BY <2>1, <2>2, <2>3 DEF Inv, OneAtATime, AtRest, Certain
  <2>6. Honest'
    BY <1>1, <1>2, <1>4 DEF Inv, Honest
  <2>7. Stays'
    <3> SUFFICES ASSUME NEW q \in Ops, job'[q].state = "done", Certain(job[q].backend)',
                        Alone(q)'
                 PROVE  Done(q)'
      BY DEF Stays
    <3>1. /\ job'[p].backend = b /\ job'[p].kind = job[p].kind /\ job'[p].plan = job[p].plan
          /\ job'[p] # NoJob /\ job[p] # NoJob
      BY <1>1, <1>2, <1>3 DEF Inv, Typed, Jobs, NoJob
    <3>2. CASE q = p
      <4>1. Finish(p)
        <5>1. ASSUME Stop(p) PROVE job'[p].state = "stopped"
          BY <5>1, <1>2 DEF Stop, End, Inv, Typed, Jobs
        <5> QED
          BY <1>6, <3>2, <5>1
      <4>2. Done(p)
        BY <2>1, <3>1, <3>2, <4>1 DEF Finish, Certain
      <4> QED
        BY <2>1, <3>1, <3>2, <4>2 DEF Done
    <3>3. CASE q # p
      <4>1. job'[q] = job[q] /\ Alone(q)
        BY <1>4, <3>1, <3>3 DEF Alone
      <4> QED
        BY <2>1, <4>1 DEF Inv, Stays, Done, Certain
    <3> QED
      BY <3>2, <3>3
  <2> QED
    BY <2>4, <2>5, <2>6, <2>7 DEF Inv
<1> QED
  BY <1>5, <1>6

LEMMA ReportInv ==
    ASSUME Inv, NEW path \in Paths, Overwrite(path) \/ \E p \in Ops : Tell(p, path)
    PROVE  Inv'
<1>1. UNCHANGED <<cluster, record, uncertain, job>>
  BY DEF Overwrite, Tell
<1>2. \A b \in Backends : At(b)' = At(b) /\ (Certain(b)' <=> Certain(b))
  BY <1>1 DEF At, Certain
<1>3. OneAtATime' /\ AtRest' /\ Single' /\ Stays'
  BY <1>1, <1>2 DEF Inv, OneAtATime, AtRest, Single, Stays, Alone, Done, Certain
<1>4. /\ report' \in [Paths -> {NoReport} \cup [of : {"apply", "destroy"}, by : Ops]]
      /\ Honest'
  <2>1. CASE Overwrite(path)
    BY <1>1, <2>1 DEF Overwrite, Inv, Typed, Honest
  <2>2. ASSUME NEW p \in Ops, Tell(p, path)
        PROVE  /\ report' \in [Paths -> {NoReport} \cup [of : {"apply", "destroy"}, by : Ops]]
               /\ Honest'
    <3>1. /\ job[p].state = "done"
          /\ report' = [report EXCEPT ![path] = [of |-> job[p].kind, by |-> p]]
      BY <2>2 DEF Tell
    <3>2. job[p].kind \in {"apply", "destroy"}
      BY <3>1 DEF Inv, Typed, NoJob, Jobs
    <3> QED
      BY <1>1, <3>1, <3>2 DEF Inv, Typed, Honest
  <2> QED
    BY <2>1, <2>2
<1> QED
  BY <1>1, <1>3, <1>4 DEF Inv, Typed

LEMMA NextInv ==
    ASSUME Inv, [Next]_vars
    PROVE  Inv'
<1>1. CASE UNCHANGED vars
  BY <1>1 DEF vars, Inv, Typed, OneAtATime, AtRest, Single, Honest, Stays, Alone, Done, At,
              Certain
<1>2. CASE Next
  BY <1>2, BeginInv, ChangeInv, EndInv, ReportInv DEF Next
<1> QED
  BY <1>1, <1>2

\* A cluster at rest is recorded as it is, each part exists once, only what was done is
\* reported, and it stays until another operation comes: this is what an owner gets from the
\* operations of ict while no two work on one backend and no Terraform is lost
\* (runOperation, writeOperationResult).
THEOREM OwnerGets == Spec => [](AtRest /\ Single /\ Honest /\ Stays)
<1>1. Init => Inv
  BY InitInv
<1>2. Inv /\ [Next]_vars => Inv'
  BY NextInv
<1>3. Inv => AtRest /\ Single /\ Honest /\ Stays
  BY DEF Inv
<1> QED
  BY <1>1, <1>2, <1>3, PTL DEF Spec
=============================================================================
