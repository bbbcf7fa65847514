------------------------- MODULE PromptSelectProofs -------------------------
(***************************************************************************)
(* The safety of PromptSelect, for every interleaving of the caller, its   *)
(* two goroutines, fzf and its user.                                       *)
(***************************************************************************)
EXTENDS PromptSelect, TLAPS

\* The loader's progress, its report, and what the pipe has taken.
LoaderInv ==
    /\ loader \in {"absent", "loading", "writing"} => report = "none" /\ fed # "all"
    /\ loader \in {"absent", "loading", "writing", "report"} => loaded = "none"
    /\ loader \in {"absent", "loading"} => fed = "none"
    /\ loaded \notin {"none", "taken"} => loaded = report
    /\ report = "load-error" => fed = "none"
    /\ report = "write-error" => fed # "all"
    /\ fzf = "picked" => fed # "none"

\* The caller: whose error it has, and why fzf is gone.
CallerInv ==
    /\ main = "start" => fzf = "absent" /\ loader = "absent" /\ result = "none"
    /\ fzf = "absent" => main = "start" \/ result = "start-error"
    /\ main # "returned" => result = "none"
    /\ done # "none" => fzf \in Exited
    /\ main \in {"poll", "finish"} => done = "taken" /\ command # "none"
    /\ cancelled => parent \/ main \in {"stop", "returned"}
    /\ main \notin {"stop", "returned"} =>
           ("error" \in {done, command} \/ fzf = "interrupted" => fzf = "aborted" \/ parent)
    /\ main = "stop" => report = "load-error"
    /\ main \in {"poll", "finish"} /\ command = "ok" => fzf \in {"picked", "blank"}
    /\ done = "ok" => fzf \in {"picked", "blank"}

ResultInv ==
    /\ main = "returned" => result # "none"
    /\ result = "start-error" => fzf = "absent"
    /\ result = "load-error" => report = "load-error" /\ fzf \in Exited
    /\ result = "write-error" => report = "write-error" /\ fzf \in Exited
    /\ result = "command-error" => fzf \in Exited /\ (fzf = "aborted" \/ parent)
    /\ result = "nothing" => fzf = "blank"
    /\ result = "selected" => fzf \in Exited

IInv == TypeOK /\ LoaderInv /\ CallerInv /\ ResultInv

\* Every step of every party keeps the invariant.
LEMMA StepInv == IInv /\ [Next]_vars => IInv'
<1> SUFFICES ASSUME IInv, [Next]_vars PROVE IInv'
  OBVIOUS
<1> USE DEF IInv, TypeOK, LoaderInv, CallerInv, ResultInv, Exited
<1>1. CASE StartFails
  BY <1>1 DEF StartFails, Return
<1>2. CASE Start
  BY <1>2 DEF Start
<1>3. CASE TakeLoaded
  <2>1. CASE loaded = "load-error"
    BY <1>3, <2>1 DEF TakeLoaded
  <2>2. CASE loaded # "load-error"
    BY <1>3, <2>2 DEF TakeLoaded
  <2> QED
    BY <2>1, <2>2
<1>4. CASE Stopped
  BY <1>4 DEF Stopped, Return
<1>5. CASE WaitDone
  <2>1. CASE report = "write-error" /\ done = "ok"
    BY <1>5, <2>1 DEF WaitDone, Return
  <2>2. CASE ~(report = "write-error" /\ done = "ok")
    BY <1>5, <2>2 DEF WaitDone
  <2> QED
    BY <2>1, <2>2
<1>6. CASE TakeDone
  BY <1>6 DEF TakeDone
<1>7. CASE Poll
  <2>1. CASE loaded = "load-error"
    BY <1>7, <2>1 DEF Poll, Return
  <2>2. CASE loaded # "load-error"
    BY <1>7, <2>2 DEF Poll
  <2> QED
    BY <2>1, <2>2
<1>8. CASE Finish
  BY <1>8 DEF Finish, Return
<1>9. CASE WriteSome
  BY <1>9 DEF WriteSome
<1>10. CASE WriteDone
  BY <1>10 DEF WriteDone
<1>11. CASE WriteFails
  BY <1>11 DEF WriteFails
<1>12. CASE Report
  BY <1>12 DEF Report
<1>13. CASE CloseStdin
  BY <1>13 DEF CloseStdin
<1>14. CASE LoadDone
  BY <1>14 DEF LoadDone
<1>15. CASE LoadFails
  BY <1>15 DEF LoadFails
<1>16. CASE Decide
  BY <1>16 DEF Decide
<1>17. CASE Interrupt
  BY <1>17 DEF Interrupt
<1>18. CASE Reap
  BY <1>18 DEF Reap
<1>19. CASE CancelParent
  BY <1>19 DEF CancelParent
<1>20. CASE UNCHANGED vars
  BY <1>20 DEF vars
<1> QED
  BY <1>1, <1>2, <1>3, <1>4, <1>5, <1>6, <1>7, <1>8, <1>9, <1>10, <1>11, <1>12, <1>13, <1>14, <1>15, <1>16, <1>17, <1>18, <1>19, <1>20 DEF Next, Caller, Loader

\* The inductive invariant: the report follows the loader, and whoever has an
\* error of fzf that is not its own knows of the caller's cancellation.
THEOREM Invariance == Spec => []IInv
<1>1. Init => IInv
  BY DEF Init, IInv, TypeOK, LoaderInv, CallerInv, ResultInv, Exited
<1> QED
  BY <1>1, StepInv, PTL DEF Spec

\* The types of the variables.
THEOREM TypeCorrect == Spec => []TypeOK
<1>1. IInv => TypeOK
  BY DEF IInv
<1> QED
  BY <1>1, Invariance, PTL

\* prompt.go:123-140 - the call never returns while fzf holds the terminal.
THEOREM Released == Spec => []TerminalReleased
<1>1. IInv => TerminalReleased
  BY DEF IInv, TypeOK, ResultInv, TerminalReleased
<1> QED
  BY <1>1, Invariance, PTL

\* prompt.go:123-128 - the call's own interrupt is never reported.
THEOREM InterruptHidden == Spec => []OwnInterruptHidden
<1>1. IInv => OwnInterruptHidden
  BY DEF IInv, ResultInv, OwnInterruptHidden
<1> QED
  BY <1>1, Invariance, PTL

\* prompt.go:129-154 - a selection is returned unless the caller cancelled or fzf
\* ended before it had all choices.
THEOREM Kept == Spec => []SelectionKept
<1>1. IInv => SelectionKept
  BY DEF IInv, TypeOK, LoaderInv, ResultInv, SelectionKept
<1> QED
  BY <1>1, Invariance, PTL
=============================================================================
