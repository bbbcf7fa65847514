----------------------------- MODULE ConfigStore ----------------------------
(***************************************************************************)
(* The configuration file and the `ict config` calls that share it (src/   *)
(* internal/config/command.go): show and get read and validate it, set     *)
(* reads it, changes one value and replaces it if the result validates,    *)
(* edit replaces it by its standard input, or hands its path to an editor. *)
(* There is no lock.  A replacement is a temporary file that is written,   *)
(* synced and renamed over the path; a call may fail at any of its steps   *)
(* or be killed between two, and the power may fail under all of them.     *)
(*                                                                         *)
(* A file is an inode: renaming makes the path name another one, and a     *)
(* call that has the old one open still reads that.  A document gives each *)
(* of its paths a value.                                                   *)
(***************************************************************************)
EXTENDS Integers, FiniteSets

CONSTANTS
    Readers,    \* calls of `config show`, `config get` and of LoadDiscovered
    Setters,    \* calls of `config set`
    Replacers,  \* calls of `config edit` that read their standard input
    Editors,    \* calls of `config edit` on a terminal
    Original,   \* the inode of a file that is there at first
    Paths,      \* the paths of values, none below another
    Required,   \* the paths without which a document does not validate
    Values, BadValue, Missing,
    Scribbles,  \* texts that are no document: Garbage is what a user wrote,
    Garbage,    \* Torn what is left of a write that was cut off, and Empty
    Torn, Empty,
    Inputs,     \* what users put into a text of their own
    Changes,    \* the paths and values given to `config set`
    MaxCalls,   \* a bound: how many of the calls are made
    NoInode, NoText

Callers == Readers \cup Setters \cup Replacers \cup Editors
Inodes == Callers \cup {Original}
Documents == [Paths -> Values \cup {BadValue, Missing}]
Texts == Documents \cup Scribbles

ASSUME ConfigAssumption ==
    /\ Readers \cap (Setters \cup Replacers \cup Editors) = {}
    /\ Setters \cap (Replacers \cup Editors) = {} /\ Replacers \cap Editors = {}
    /\ Original \notin Callers /\ NoInode \notin Inodes
    /\ Required \subseteq Paths
    /\ Values \cap {BadValue, Missing} = {} /\ BadValue # Missing
    /\ Scribbles = {Garbage, Torn, Empty} /\ Scribbles \cap Documents = {}
    /\ Garbage # Torn /\ Garbage # Empty /\ Torn # Empty
    /\ Inputs \subseteq Documents \cup {Garbage}
    /\ Changes \subseteq Paths \X (Values \cup {BadValue})
    /\ NoText \notin Texts /\ MaxCalls \in Nat

VARIABLES
    path,     \* the inode the configuration path names
    data,     \* inode -> its text; NoText when there is no such file
    dirty,    \* the inodes whose text is not on the disk
    entries,  \* the inodes a power failure may leave the path with
    step,     \* call -> where it is
    arg,      \* setter -> the path and the value it was given
    fd,       \* call -> the inode it has open
    source,   \* call -> the text it has read
    text,     \* call -> the text it wants the file to hold
    before,   \* call -> the setters that had ended well when it opened (ghost)
    older,    \* call -> the setters that had ended well when it did (ghost)
    failed    \* the power has failed (ghost, a bound: once)

vars == <<path, data, dirty, entries, step, arg, fd, source, text, before, older, failed>>

Persisting == {"create", "write", "writing", "sync", "rename"}
Active == {"opened", "value", "edit", "save"} \cup Persisting
Steps == {"start", "ok", "error", "killed"} \cup Active

\* Decode: one document, every required path there, every value allowed.
Loads(t) ==
    /\ t \in Documents
    /\ \A p \in Paths : t[p] # BadValue
    /\ \A p \in Required : t[p] # Missing

Init ==
    /\ path \in {Original, NoInode}
    /\ \E t \in Inputs :
           /\ Loads(t)
           /\ data = [i \in Inodes |-> IF i = path THEN t ELSE NoText]
    /\ dirty = {} /\ entries = {path}
    /\ step = [c \in Callers |-> "start"]
    /\ arg \in [Setters -> Changes]
    /\ fd = [c \in Callers |-> NoInode]
    /\ source = [c \in Callers |-> NoText]
    /\ text = [c \in Callers |-> NoText]
    /\ before = [c \in Callers |-> {}] /\ older = [c \in Callers |-> {}]
    /\ failed = FALSE

Calling == Cardinality({c \in Callers : step[c] # "start"})
EndedWell == {c \in Setters : step[c] = "ok"}

disk == <<path, data, dirty, entries>>
mind == <<fd, source, text>>
ghosts == <<before, older, failed>>

Goto(c, s) == step' = [step EXCEPT ![c] = s]

\* The process is gone, and what it knew with it.
End(c, s) ==
    /\ Goto(c, s)
    /\ fd' = [fd EXCEPT ![c] = NoInode]
    /\ source' = [source EXCEPT ![c] = NoText]
    /\ text' = [text EXCEPT ![c] = NoText]

(***************************************************************************)
(* Reading: Load and os.ReadFile.                                          *)
(***************************************************************************)
Open(c) ==
    /\ c \in Readers \cup Setters /\ step[c] = "start" /\ Calling < MaxCalls
    /\ path # NoInode
    /\ fd' = [fd EXCEPT ![c] = path]
    /\ before' = [before EXCEPT ![c] = EndedWell]
    /\ Goto(c, "opened")
    /\ UNCHANGED <<disk, arg, source, text, older, failed>>

\* The path is not found, there is no file or no input, or it cannot be read.
StartFails(c) ==
    /\ step[c] = "start" /\ Calling < MaxCalls
    /\ End(c, "error")
    /\ UNCHANGED <<disk, arg, ghosts>>

Read(c) ==
    /\ c \in Setters /\ step[c] = "opened"
    /\ source' = [source EXCEPT ![c] = data[fd[c]]]
    /\ fd' = [fd EXCEPT ![c] = NoInode]
    /\ Goto(c, "value")
    /\ UNCHANGED <<disk, arg, text, ghosts>>

\* show and get: what is read is decoded, resolved and printed.
Show(c) ==
    /\ c \in Readers /\ step[c] = "opened" /\ Loads(data[fd[c]])
    /\ End(c, "ok")
    /\ UNCHANGED <<disk, arg, ghosts>>

\* It cannot be read, does not decode or resolve, the path of the value is not
\* there, or the output fails.
ReadFails(c) ==
    /\ step[c] = "opened"
    /\ End(c, "error")
    /\ UNCHANGED <<disk, arg, ghosts>>

(***************************************************************************)
(* Set.                                                                    *)
(***************************************************************************)
\* Mutant: optional values next to the path are dropped.
ChangedBare(d, p, v) ==
    [q \in Paths |-> IF q = p THEN v ELSE IF q \in Required THEN d[q] ELSE Missing]

\* replaceOrInsert.
Changed(d, p, v) == [d EXCEPT ![p] = v]

\* Mutant: the candidate is not decoded.
ChangeUnchecked(c) ==
    LET candidate == Changed(source[c], arg[c][1], arg[c][2])
    IN  /\ step[c] = "value" /\ source[c] \in Documents
        /\ text' = [text EXCEPT ![c] = candidate]
        /\ Goto(c, "create")
        /\ UNCHANGED <<disk, arg, fd, source, ghosts>>

\* The value was given, or read from standard input, and the result validates.
Change(c) ==
    LET candidate == Changed(source[c], arg[c][1], arg[c][2])
    IN  /\ step[c] = "value" /\ source[c] \in Documents
        /\ Loads(candidate)
        /\ text' = [text EXCEPT ![c] = candidate]
        /\ Goto(c, "create")
        /\ UNCHANGED <<disk, arg, fd, source, ghosts>>

\* No value, no such path, a source that is no document, or an invalid result.
ChangeFails(c) ==
    /\ step[c] = "value"
    /\ End(c, "error")
    /\ UNCHANGED <<disk, arg, ghosts>>

(***************************************************************************)
(* Edit.                                                                   *)
(***************************************************************************)
\* replaceFromStdin: an empty input is refused, nothing is validated.
TakeInput(c) ==
    /\ c \in Replacers /\ step[c] = "start" /\ Calling < MaxCalls
    /\ \E t \in Inputs : text' = [text EXCEPT ![c] = t]
    /\ Goto(c, "create")
    /\ UNCHANGED <<disk, arg, fd, source, ghosts>>

\* Mutant: the editor is started on a path that may name no file.
PrepareParent(c) ==
    /\ c \in Editors /\ step[c] = "start" /\ Calling < MaxCalls
    /\ Goto(c, "edit")
    /\ UNCHANGED <<disk, arg, mind, ghosts>>

\* prepareConfigPath creates an empty file before EDITOR is looked up.
PreparePath(c) ==
    /\ c \in Editors /\ step[c] = "start" /\ Calling < MaxCalls
    /\ IF path = NoInode
       THEN /\ path' = c /\ data' = [data EXCEPT ![c] = Empty]
            /\ entries' = entries \cup {c}
       ELSE UNCHANGED <<path, data, entries>>
    /\ Goto(c, "edit")
    /\ UNCHANGED <<dirty, arg, mind, ghosts>>

\* External: the editor opens the file the path names by now and truncates it ...
SaveStarts(c) ==
    /\ step[c] = "edit"
    /\ fd' = [fd EXCEPT ![c] = path]
    /\ data' = [data EXCEPT ![path] = Torn]
    /\ dirty' = dirty \cup {path}
    /\ Goto(c, "save")
    /\ UNCHANGED <<path, entries, arg, source, text, ghosts>>

\* ... and writes it.
SaveEnds(c) ==
    /\ step[c] = "save"
    /\ \E t \in Inputs \cup {Empty} : data' = [data EXCEPT ![fd[c]] = t]
    /\ dirty' = dirty \cup {fd[c]}
    /\ End(c, "ok")
    /\ UNCHANGED <<path, entries, arg, ghosts>>

\* EDITOR is not set, or the editor ends early: nothing is rolled back.
EditFails(c) ==
    /\ step[c] \in {"edit", "save"}
    /\ End(c, "error")
    /\ UNCHANGED <<disk, arg, ghosts>>

EditNothing(c) ==
    /\ step[c] = "edit"
    /\ End(c, "ok")
    /\ UNCHANGED <<disk, arg, ghosts>>

(***************************************************************************)
(* persistConfig.                                                          *)
(***************************************************************************)
\* CreateTemp, Chmod.
Create(c) ==
    /\ step[c] = "create"
    /\ data' = [data EXCEPT ![c] = Empty]
    /\ dirty' = dirty \cup {c}
    /\ Goto(c, "write")
    /\ UNCHANGED <<path, entries, arg, mind, ghosts>>

Write(c) ==
    /\ step[c] = "write"
    /\ data' = [data EXCEPT ![c] = Torn]
    /\ Goto(c, "writing")
    /\ UNCHANGED <<path, dirty, entries, arg, mind, ghosts>>

Written(c) ==
    /\ step[c] = "writing"
    /\ data' = [data EXCEPT ![c] = text[c]]
    /\ Goto(c, "sync")
    /\ UNCHANGED <<path, dirty, entries, arg, mind, ghosts>>

\* Mutant: the temporary file is closed without Sync.
CloseOnly(c) ==
    /\ step[c] = "sync"
    /\ Goto(c, "rename")
    /\ UNCHANGED <<disk, arg, mind, ghosts>>

\* Sync, Close.
Sync(c) ==
    /\ step[c] = "sync"
    /\ dirty' = dirty \ {c}
    /\ Goto(c, "rename")
    /\ UNCHANGED <<path, data, entries, arg, mind, ghosts>>

Rename(c) ==
    /\ step[c] = "rename"
    /\ path' = c
    /\ entries' = entries \cup {c}
    /\ older' = [older EXCEPT ![c] = EndedWell]
    /\ End(c, "ok")
    /\ UNCHANGED <<data, dirty, arg, before, failed>>

\* The temporary file is closed and removed; the error of removing it is
\* dropped, and what is left then is as good as after a kill.
PersistFails(c) ==
    /\ step[c] \in Persisting
    /\ data' = [data EXCEPT ![c] = NoText]
    /\ dirty' = dirty \ {c}
    /\ End(c, "error")
    /\ UNCHANGED <<path, entries, arg, ghosts>>

-----------------------------------------------------------------------------
\* The process is killed.  Nobody reads what it leaves under a temporary name:
\* the model does not tell how much of it was written.
Kill(c) ==
    /\ step[c] \in Active
    /\ IF step[c] \in Persisting \ {"create"}
       THEN data' = [data EXCEPT ![c] = Torn] /\ dirty' = dirty \ {c}
       ELSE UNCHANGED <<data, dirty>>
    /\ End(c, "killed")
    /\ UNCHANGED <<path, entries, arg, ghosts>>

\* The kernel writes back what it holds.
Flush ==
    /\ dirty' = {} /\ entries' = {path}
    /\ UNCHANGED <<path, data, step, arg, mind, ghosts>>

\* Every call is gone.  The path is left with one of its last entries (none of
\* the code syncs the directory), and a text that was not synced may be torn.
PowerFails ==
    /\ ~failed /\ failed' = TRUE
    /\ path' \in entries /\ entries' = {path'}
    /\ \E lost \in SUBSET dirty :
           data' = [i \in Inodes |-> IF i \in lost THEN Torn ELSE data[i]]
    /\ dirty' = {}
    /\ step' = [c \in Callers |-> IF step[c] \in Active THEN "killed" ELSE step[c]]
    /\ fd' = [c \in Callers |-> NoInode]
    /\ source' = [c \in Callers |-> NoText] /\ text' = [c \in Callers |-> NoText]
    /\ UNCHANGED <<arg, before, older>>

CallerStep(c) ==
    \/ Open(c) \/ StartFails(c) \/ Read(c) \/ Show(c) \/ ReadFails(c)
    \/ Change(c) \/ ChangeFails(c)
    \/ TakeInput(c) \/ PreparePath(c) \/ SaveStarts(c) \/ SaveEnds(c)
    \/ EditFails(c) \/ EditNothing(c)
    \/ Create(c) \/ Write(c) \/ Written(c) \/ Sync(c) \/ Rename(c) \/ PersistFails(c)
    \/ Kill(c)

Next == (\E c \in Callers : CallerStep(c)) \/ Flush \/ PowerFails

Spec == Init /\ [][Next]_vars

-----------------------------------------------------------------------------
TypeOK ==
    /\ path \in Inodes \cup {NoInode}
    /\ data \in [Inodes -> Texts \cup {NoText}]
    /\ dirty \subseteq Inodes /\ entries \subseteq Inodes \cup {NoInode}
    /\ step \in [Callers -> Steps]
    /\ arg \in [Setters -> Changes]
    /\ fd \in [Callers -> Inodes \cup {NoInode}]
    /\ source \in [Callers -> Texts \cup {NoText}]
    /\ text \in [Callers -> Texts \cup {NoText}]
    /\ before \in [Callers -> SUBSET Setters] /\ older \in [Callers -> SUBSET Setters]
    /\ failed \in BOOLEAN

\* The text under inode i of the path, NoText for no file.
Text(i) == IF i = NoInode THEN NoText ELSE data[i]

\* command.go:164,199 - as long as nobody edits, the file loads: no order of
\* sets, failures, kills and a power failure leaves a configuration that does
\* not validate or a part of one.
StaysLoadable ==
    (\A e \in Editors \cup Replacers : step[e] = "start") =>
        path = NoInode \/ Loads(data[path])

\* What setter c stored is in t, or a setter of "done" stored over it after c had
\* ended: one that had opened the file before (there is no lock), or one of the
\* same path.
Kept(c, t, done) ==
    \/ t[arg[c][1]] = arg[c][2]
    \/ \E d \in done : c \in older[d] /\ (c \notin before[d] \/ arg[d][1] = arg[c][1])

\* command.go:164-206 - a set that ended well is undone only by a set that
\* overlapped with it or changed the same path: no failed, killed or refused
\* call and no set of another path that began later costs its value.
LostOnlyByOverlap ==
    ~failed /\ (\A e \in Editors \cup Replacers : step[e] = "start") =>
        \A c \in EndedWell : Kept(c, data[path], EndedWell)

\* What ConfigRegister knows of the calls.
phases == [c \in Callers |->
    IF step[c] = "start" THEN "idle"
    ELSE IF step[c] \in Active THEN "active"
    ELSE IF step[c] = "ok" THEN "ok" ELSE "error"]
views == [c \in Callers |-> IF step[c] = "opened" THEN data[fd[c]] ELSE source[c]]
keptTexts ==
    {Text(i) : i \in entries}
    \cup (IF entries \cap dirty = {} THEN {} ELSE {Torn})
asked == [c \in Callers |->
    IF c \in Setters THEN <<"set", arg[c][1], arg[c][2]>>
    ELSE IF c \in Replacers THEN <<"replace">> ELSE <<"other">>]
Requests ==
    {<<"set", change[1], change[2]>> : change \in Changes} \cup {<<"replace">>, <<"other">>}
Results(request, t) ==
    CASE request[1] = "set" ->
             IF t \in Documents
             THEN {d \in {Changed(t, request[2], request[3])} : Loads(d)} ELSE {}
      [] request[1] = "replace" -> Inputs
      [] OTHER -> {}

Register == INSTANCE ConfigRegister WITH
    NoFile <- NoText, NoView <- NoText, Updates <- Results,
    file <- Text(path), kept <- keptTexts, view <- views, request <- asked, phase <- phases

\* command.go:164-206,326-356 - every call sees the whole file of one moment and
\* replaces it at most once, by its own change to what it saw; nothing else but
\* an editor and a power failure changes the file, and no power failure leaves
\* a text that was never whole.
RegisterSpec == Register!Spec
=============================================================================
