---------------------------- MODULE PromptSelect ----------------------------
(***************************************************************************)
(* One interactive selection: selectLoadedValues (src/internal/prompt/     *)
(* prompt.go).  The caller starts fzf, then waits for the first of two     *)
(* goroutines: the loader, which fetches the choices and writes them into  *)
(* fzf's standard input, and the waiter, which is in cmd.Wait.  fzf, its   *)
(* user and the caller's context are external.                             *)
(***************************************************************************)

VARIABLES
    main,       \* where the caller is
    result,     \* what it returned
    loader,     \* where the loader is
    report,     \* what the loader has to report: loadResult
    loaded,     \* the channel of the loader, of capacity one
    done,       \* the channel of the waiter, of capacity one
    command,    \* commandErr
    stdin,      \* the write end of fzf's standard input
    fed,        \* how much of the choices the pipe has taken
    fzf,        \* the process
    cancelled,  \* loadCtx is done
    parent      \* the caller's context is done

vars == <<main, result, loader, report, loaded, done, command, stdin, fed, fzf,
          cancelled, parent>>

Exited == {"picked", "blank", "aborted", "interrupted"}

Init ==
    /\ main = "start" /\ result = "none"
    /\ loader = "absent" /\ report = "none" /\ loaded = "none"
    /\ done = "none" /\ command = "none"
    /\ stdin = "open" /\ fed = "none" /\ fzf = "absent"
    /\ cancelled = FALSE /\ parent = FALSE

\* Every return runs the deferred cancel.
Return(value) ==
    /\ main' = "returned"
    /\ result' = value
    /\ cancelled' = TRUE

(***************************************************************************)
(* The caller.                                                             *)
(***************************************************************************)
\* fzf is not found or does not start: a context that is already done is enough.
StartFails ==
    /\ main = "start"
    /\ Return("start-error")
    /\ UNCHANGED <<loader, report, loaded, done, command, stdin, fed, fzf, parent>>

Start ==
    /\ main = "start" /\ ~cancelled
    /\ main' = "select" /\ loader' = "loading" /\ fzf' = "running"
    /\ UNCHANGED <<result, report, loaded, done, command, stdin, fed, cancelled, parent>>

\* Mutant: fzf is left to its user.
TakeLoadedNoCancel ==
    /\ main = "select" /\ loaded \notin {"none", "taken"}
    /\ loaded' = "taken"
    /\ main' = IF loaded = "load-error" THEN "stop" ELSE "wait"
    /\ stdin' = IF loaded = "load-error" THEN "closed" ELSE stdin
    /\ UNCHANGED <<result, loader, report, done, command, fed, fzf, cancelled, parent>>

\* The loader was first: when it failed fzf is interrupted.
TakeLoaded ==
    /\ main = "select" /\ loaded \notin {"none", "taken"}
    /\ loaded' = "taken"
    /\ IF loaded = "load-error"
       THEN main' = "stop" /\ cancelled' = TRUE /\ stdin' = "closed"
       ELSE main' = "wait" /\ UNCHANGED <<cancelled, stdin>>
    /\ UNCHANGED <<result, loader, report, done, command, fed, fzf, parent>>

\* Mutant: the error of the command is returned.
StoppedByCommand ==
    /\ main = "stop" /\ done \in {"ok", "error"}
    /\ done' = "taken"
    /\ Return("command-error")
    /\ UNCHANGED <<loader, report, loaded, command, stdin, fed, fzf, parent>>

\* Mutant: the end of fzf is not awaited.
StoppedEarly ==
    /\ main = "stop"
    /\ Return("load-error")
    /\ UNCHANGED <<loader, report, loaded, done, command, stdin, fed, fzf, parent>>

Stopped ==
    /\ main = "stop" /\ done \in {"ok", "error"}
    /\ done' = "taken"
    /\ Return("load-error")
    /\ UNCHANGED <<loader, report, loaded, command, stdin, fed, fzf, parent>>

\* The choices were written, or could not be: fzf decides.
WaitDone ==
    /\ main = "wait" /\ done \in {"ok", "error"}
    /\ done' = "taken" /\ command' = done
    /\ IF report = "write-error" /\ done = "ok"
       THEN Return("write-error")
       ELSE main' = "finish" /\ UNCHANGED <<result, cancelled>>
    /\ UNCHANGED <<loader, report, loaded, stdin, fed, fzf, parent>>

\* fzf was first ...
TakeDone ==
    /\ main = "select" /\ done \in {"ok", "error"}
    /\ done' = "taken" /\ command' = done
    /\ main' = "poll"
    /\ UNCHANGED <<result, loader, report, loaded, stdin, fed, fzf, cancelled, parent>>

\* ... and the loader is asked without waiting for it.
Poll ==
    /\ main = "poll"
    /\ loaded' = IF loaded = "none" THEN "none" ELSE "taken"
    /\ IF loaded = "load-error"
       THEN Return("load-error")
       ELSE main' = "finish" /\ UNCHANGED <<result, cancelled>>
    /\ UNCHANGED <<loader, report, done, command, stdin, fed, fzf, parent>>

\* Mutant: the context, done by now, is taken for the command's error.
FinishByContext ==
    /\ main = "finish"
    /\ stdin' = "closed"
    /\ Return("command-error")
    /\ UNCHANGED <<loader, report, loaded, done, command, fed, fzf, parent>>

\* Mutant: an empty output is split into one empty value.
FinishEmpty ==
    /\ main = "finish"
    /\ stdin' = "closed"
    /\ Return(IF command = "error" THEN "command-error"
              ELSE IF fzf = "blank" THEN "" ELSE "selected")
    /\ UNCHANGED <<loader, report, loaded, done, command, fed, fzf, parent>>

Finish ==
    /\ main = "finish"
    /\ stdin' = "closed"
    /\ Return(IF command = "error" THEN "command-error"
              ELSE IF fzf = "blank" THEN "nothing" ELSE "selected")
    /\ UNCHANGED <<loader, report, loaded, done, command, fed, fzf, parent>>

(***************************************************************************)
(* The loader.                                                             *)
(***************************************************************************)
LoadDone ==
    /\ loader = "loading"
    /\ loader' = "writing"
    /\ UNCHANGED <<main, result, report, loaded, done, command, stdin, fed, fzf,
                   cancelled, parent>>

\* An error, no choices, or a context that is done.
LoadFails ==
    /\ loader = "loading"
    /\ loader' = "report" /\ report' = "load-error"
    /\ UNCHANGED <<main, result, loaded, done, command, stdin, fed, fzf, cancelled, parent>>

\* The choices are more than the pipe takes at once.
WriteSome ==
    /\ loader = "writing" /\ fed = "none" /\ fzf = "running" /\ stdin = "open"
    /\ fed' = "some"
    /\ UNCHANGED <<main, result, loader, report, loaded, done, command, stdin, fzf,
                   cancelled, parent>>

WriteDone ==
    /\ loader = "writing" /\ fzf = "running" /\ stdin = "open"
    /\ fed' = "all"
    /\ loader' = "report" /\ report' = "written"
    /\ UNCHANGED <<main, result, loaded, done, command, stdin, fzf, cancelled, parent>>

\* fzf is gone, or the pipe was closed meanwhile.
WriteFails ==
    /\ loader = "writing" /\ (fzf # "running" \/ stdin = "closed")
    /\ loader' = "report" /\ report' = "write-error"
    /\ UNCHANGED <<main, result, loaded, done, command, stdin, fed, fzf, cancelled, parent>>

\* Mutant: the channel has no buffer and needs a receiver.
ReportUnbuffered ==
    /\ loader = "report" /\ main = "select"
    /\ loaded' = report /\ loader' = "close"
    /\ UNCHANGED <<main, result, report, done, command, stdin, fed, fzf, cancelled, parent>>

Report ==
    /\ loader = "report" /\ loaded = "none"
    /\ loaded' = report /\ loader' = "close"
    /\ UNCHANGED <<main, result, report, done, command, stdin, fed, fzf, cancelled, parent>>

CloseStdin ==
    /\ loader = "close"
    /\ stdin' = "closed" /\ loader' = "done"
    /\ UNCHANGED <<main, result, report, loaded, done, command, fed, fzf, cancelled, parent>>

(***************************************************************************)
(* fzf and the waiter.                                                     *)
(***************************************************************************)
\* Its user: a selection (only of a choice that was read), an exit without
\* one, an abort.
Decide ==
    /\ fzf = "running"
    /\ fzf' \in {"blank", "aborted"} \cup (IF fed = "none" THEN {} ELSE {"picked"})
    /\ UNCHANGED <<main, result, loader, report, loaded, done, command, stdin, fed,
                   cancelled, parent>>

\* SIGINT when loadCtx is done, SIGKILL a second later (WaitDelay).
Interrupt ==
    /\ fzf = "running" /\ cancelled
    /\ fzf' = "interrupted"
    /\ UNCHANGED <<main, result, loader, report, loaded, done, command, stdin, fed,
                   cancelled, parent>>

\* cmd.Wait returns.  It closes the pipe, and it turns a success into an error
\* when it interrupted the process before it had waited for it.
Reap ==
    /\ fzf \in Exited /\ done = "none"
    /\ done' \in IF fzf \in {"aborted", "interrupted"} THEN {"error"}
                 ELSE IF cancelled THEN {"ok", "error"} ELSE {"ok"}
    /\ stdin' = "closed"
    /\ UNCHANGED <<main, result, loader, report, loaded, command, fed, fzf, cancelled, parent>>

CancelParent ==
    /\ main # "returned" /\ ~parent
    /\ parent' = TRUE /\ cancelled' = TRUE
    /\ UNCHANGED <<main, result, loader, report, loaded, done, command, stdin, fed, fzf>>

Caller ==
    \/ StartFails \/ Start \/ TakeLoaded \/ Stopped \/ WaitDone
    \/ TakeDone \/ Poll \/ Finish
Loader == WriteSome \/ WriteDone \/ WriteFails \/ Report \/ CloseStdin

Next ==
    \/ Caller \/ Loader \/ LoadDone \/ LoadFails
    \/ Decide \/ Interrupt \/ Reap \/ CancelParent

\* Goroutines run, a signal ends fzf, and a load ends when its context is done.
\* Nobody can be relied on to select, and no load to end by itself.
Spec ==
    /\ Init /\ [][Next]_vars
    /\ WF_vars(Caller) /\ WF_vars(Loader) /\ WF_vars(cancelled /\ LoadFails)
    /\ WF_vars(Interrupt) /\ WF_vars(Reap)

-----------------------------------------------------------------------------
TypeOK ==
    /\ main \in {"start", "select", "stop", "wait", "poll", "finish", "returned"}
    /\ result \in {"none", "start-error", "load-error", "write-error", "command-error",
                   "nothing", "selected"}
    /\ loader \in {"absent", "loading", "writing", "report", "close", "done"}
    /\ report \in {"none", "load-error", "write-error", "written"}
    /\ loaded \in {"none", "load-error", "write-error", "written", "taken"}
    /\ done \in {"none", "ok", "error", "taken"}
    /\ command \in {"none", "ok", "error"}
    /\ stdin \in {"open", "closed"} /\ fed \in {"none", "some", "all"}
    /\ fzf \in {"absent", "running"} \cup Exited
    /\ cancelled \in BOOLEAN /\ parent \in BOOLEAN

\* prompt.go:123-140 - the call never returns while fzf still holds the
\* terminal, whichever goroutine was first: the next prompt starts alone.
TerminalReleased == main = "returned" => fzf \in Exited \cup {"absent"}

\* prompt.go:123-128 - an fzf error that is returned is the user's abort or the
\* caller's cancellation: the interrupt that follows a failed load is never
\* reported in place of the load's error.
OwnInterruptHidden == result = "command-error" => fzf = "aborted" \/ parent

\* prompt.go:129-154 - what the user selected is returned, unless the caller
\* cancelled: it is lost only when fzf ended before it had taken all choices.
SelectionKept ==
    main = "returned" /\ fzf = "picked" /\ ~parent =>
        result = "selected" \/ (result = "write-error" /\ fed = "some")

\* prompt.go:121-141 - the call returns as soon as the load failed, fzf ended or
\* the caller cancelled, even if nobody touches the keyboard.
Returns ==
    (report = "load-error" \/ fzf \in Exited \/ parent) ~> main = "returned"

\* prompt.go:101-115 - the loader outlives a call only until it sees its context
\* done; it is never left blocked on its channel or on the pipe.
LoaderEnds == (main = "returned" /\ loader # "absent") ~> loader = "done"
=============================================================================
