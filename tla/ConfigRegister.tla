--------------------------- MODULE ConfigRegister ---------------------------
(***************************************************************************)
(* What the configuration file promises to the calls of `ict config`: the  *)
(* file holds one text at a time.  A call looks at the whole text of one   *)
(* moment, may replace the file once, by a text made from what it saw, and *)
(* replaces nothing when it fails or is killed.  A power failure may take  *)
(* the file back to a text it held before, never to a part of one.  Only   *)
(* an editor, which writes the file in place, is outside of the promise.   *)
(***************************************************************************)
CONSTANTS
    Callers,
    Editors,        \* the calls that hand the file to an editor
    Texts,          \* what the file may hold
    NoFile,         \* there is no file
    NoView,         \* the call has not looked yet
    Requests,       \* what a call may be asked to do
    Updates(_, _)   \* request, the text its call saw -> what it may replace it by

VARIABLES
    file,     \* the text
    kept,     \* the texts a power failure may bring back
    view,     \* call -> the text it saw, while it runs
    request,  \* call -> what it was asked to do
    phase     \* call -> "idle", "active", "ok" or "error"

vars == <<file, kept, view, request, phase>>

Init ==
    /\ file \in Texts \cup {NoFile}
    /\ kept = {file}
    /\ view = [c \in Callers |-> NoView]
    /\ request \in [Callers -> Requests]
    /\ phase = [c \in Callers |-> "idle"]

\* The call sees the file of this moment.
Look(c) ==
    /\ phase[c] = "idle" /\ file # NoFile
    /\ view' = [view EXCEPT ![c] = file]
    /\ phase' = [phase EXCEPT ![c] = "active"]
    /\ UNCHANGED <<file, kept, request>>

\* A call that replaces the file without looking at it.
Begin(c) ==
    /\ phase[c] = "idle"
    /\ phase' = [phase EXCEPT ![c] = "active"]
    /\ UNCHANGED <<file, kept, view, request>>

Replace(c) ==
    /\ phase[c] = "active"
    /\ file' \in Updates(request[c], view[c])
    /\ kept' = kept \cup {file'}
    /\ phase' = [phase EXCEPT ![c] = "ok"]
    /\ view' = [view EXCEPT ![c] = NoView]
    /\ UNCHANGED request

Return(c) ==
    /\ phase[c] = "active"
    /\ phase' = [phase EXCEPT ![c] = "ok"]
    /\ view' = [view EXCEPT ![c] = NoView]
    /\ UNCHANGED <<file, kept, request>>

Fail(c) ==
    /\ phase[c] \in {"idle", "active"}
    /\ phase' = [phase EXCEPT ![c] = "error"]
    /\ view' = [view EXCEPT ![c] = NoView]
    /\ UNCHANGED <<file, kept, request>>

\* An editor writes behind the back of the calls that are looking.
Edit(e) ==
    /\ phase[e] \in {"idle", "active"}
    /\ file' \in Texts /\ kept' \subseteq Texts \cup {NoFile}
    /\ view' \in [Callers -> Texts \cup {NoView}]
    /\ \A c \in Callers : view[c] = NoView <=> view'[c] = NoView
    /\ phase' \in {[phase EXCEPT ![e] = p] : p \in {"active", "ok"}}
    /\ UNCHANGED request

\* What the file holds reaches the disk.
Settle ==
    /\ kept' = {file}
    /\ UNCHANGED <<file, view, request, phase>>

PowerFails ==
    /\ file' \in kept
    /\ kept' = {file'}
    /\ phase' = [c \in Callers |-> IF phase[c] = "active" THEN "error" ELSE phase[c]]
    /\ view' = [c \in Callers |-> NoView]
    /\ UNCHANGED request

Next ==
    \/ \E c \in Callers : Look(c) \/ Begin(c) \/ Replace(c) \/ Return(c) \/ Fail(c)
    \/ \E e \in Editors : Edit(e)
    \/ Settle \/ PowerFails

Spec == Init /\ [][Next]_vars
=============================================================================
