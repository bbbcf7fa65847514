-------------------------- MODULE ConfigStoreProofs -------------------------
(***************************************************************************)
(* What holds of ConfigStore for any calls, paths and texts: the types,    *)
(* that sets alone never break the file nor lose a value but by overlap,   *)
(* and that the calls implement ConfigRegister.                            *)
(***************************************************************************)
EXTENDS ConfigStore, TLAPS

\* Nobody can reach inode c: it is neither the file nor open.
Unlinked(c) ==
    /\ path # c /\ c \notin entries
    /\ \A x \in Callers : fd[x] # c

\* A temporary file is its call's own until it is renamed.
OwnTemporary ==
    \A c \in Callers :
        step[c] = "start" \/ (c \notin Editors /\ step[c] # "ok") => Unlinked(c)

\* What a call holds at each of its steps.
Holds(c) ==
    /\ step[c] = "opened" => c \in Readers \cup Setters /\ fd[c] # NoInode
    /\ step[c] = "value" => c \in Setters /\ source[c] \in Texts
    /\ step[c] \in {"edit", "save"} => c \in Editors /\ path # NoInode
    /\ step[c] = "save" => fd[c] # NoInode
    /\ fd[c] # NoInode => step[c] \in {"opened", "save"}
    /\ step[c] \notin {"value"} \cup Persisting => source[c] = NoText
    /\ step[c] \in Persisting =>
           \/ /\ c \in Setters /\ source[c] \in Documents /\ Loads(text[c])
              /\ text[c] = Changed(source[c], arg[c][1], arg[c][2])
           \/ c \in Replacers /\ source[c] = NoText /\ text[c] \in Inputs
    /\ step[c] \in {"sync", "rename"} => data[c] = text[c]
    /\ step[c] = "rename" => c \notin dirty

\* A file that is linked or open has a text.
Present ==
    /\ path \in entries
    /\ \A i \in Inodes : i \in entries \/ (\E x \in Callers : fd[x] = i) => data[i] # NoText

Sound == OwnTemporary /\ (\A c \in Callers : Holds(c)) /\ Present

Unedited == \A e \in Editors \cup Replacers : step[e] = "start"

\* As long as nobody edits, every text the path may be left with loads.
AllLoad == Unedited => \A i \in entries \ {NoInode} : Loads(data[i]) /\ i \notin dirty

\* What a set in progress has seen lacks no value but for an overlap.
SeenKept(x) ==
    /\ before[x] \subseteq EndedWell
    /\ step[x] = "opened" => \A c \in before[x] : Kept(c, data[fd[x]], before[x])
    /\ step[x] \in {"value"} \cup Persisting => \A c \in before[x] : Kept(c, source[x], before[x])

Overlaps ==
    ~failed /\ Unedited =>
        /\ EndedWell # {} => path # NoInode
        /\ \A c \in EndedWell : Kept(c, data[path], EndedWell)
        /\ \A x \in Setters : SeenKept(x)

-----------------------------------------------------------------------------
\* A text that loads is a document.
LEMMA LoadsDocument ==
    ASSUME NEW t, Loads(t)
    PROVE  t \in Documents
BY DEF Loads

\* A change of a document sets the value of its path and keeps all others.
LEMMA ChangedDocument ==
    ASSUME NEW d \in Documents, NEW change \in Changes
    PROVE  /\ change[1] \in Paths
           /\ Changed(d, change[1], change[2]) \in Documents
           /\ Changed(d, change[1], change[2])[change[1]] = change[2]
           /\ \A p \in Paths \ {change[1]} : Changed(d, change[1], change[2])[p] = d[p]
<1>1. change[1] \in Paths /\ change[2] \in Values \cup {BadValue}
  BY ConfigAssumption
<1> QED
  BY <1>1 DEF Changed, Documents

\* The first states are of their types.
LEMMA InitType ==
    ASSUME Init
    PROVE  TypeOK
<1>1. PICK t \in Inputs : data = [i \in Inodes |-> IF i = path THEN t ELSE NoText]
  BY DEF Init
<1>2. t \in Texts
  BY ConfigAssumption DEF Texts
<1>3. data \in [Inodes -> Texts \cup {NoText}]
  BY <1>1, <1>2
<1> QED
  BY <1>3 DEF Init, TypeOK, Steps, Inodes

\* A call that ends keeps the types of what it knew.
LEMMA EndType ==
    ASSUME TypeOK, NEW c \in Callers, NEW s \in Steps, End(c, s)
    PROVE  /\ step' \in [Callers -> Steps] /\ fd' \in [Callers -> Inodes \cup {NoInode}]
           /\ source' \in [Callers -> Texts \cup {NoText}]
           /\ text' \in [Callers -> Texts \cup {NoText}]
BY DEF TypeOK, End, Goto

\* So are those a step of a call leads to.
LEMMA StepType ==
    ASSUME TypeOK, Sound, NEW c \in Callers, CallerStep(c)
    PROVE  TypeOK'
<1> USE DEF TypeOK, Steps, Active, Persisting
<1>0. c \in Inodes /\ EndedWell \in SUBSET Setters /\ {Torn, Empty} \subseteq Texts
      /\ Inputs \subseteq Texts /\ Holds(c)
  BY ConfigAssumption DEF Inodes, EndedWell, Texts, Sound
<1>1. CASE Open(c)
  BY <1>0, <1>1 DEF Open, Goto, disk, mind, ghosts
<1>2. CASE StartFails(c)
  BY <1>0, <1>2, EndType DEF StartFails, disk, mind, ghosts
<1>3. CASE Read(c)
  <2>1. fd[c] \in Inodes
    BY <1>0, <1>3 DEF Holds, Read
  <2> QED
    BY <1>0, <1>3, <2>1 DEF Read, Goto, disk, mind, ghosts
<1>4. CASE Show(c)
  BY <1>0, <1>4, EndType DEF Show, disk, mind, ghosts
<1>5. CASE ReadFails(c)
  BY <1>0, <1>5, EndType DEF ReadFails, disk, mind, ghosts
<1>6. CASE Change(c)
  <2>1. text' = [text EXCEPT ![c] = Changed(source[c], arg[c][1], arg[c][2])]
        /\ Changed(source[c], arg[c][1], arg[c][2]) \in Texts
    BY <1>6, LoadsDocument DEF Change, Texts
  <2> QED
    BY <1>6, <2>1 DEF Change, Goto, disk, mind, ghosts
<1>7. CASE ChangeFails(c)
  BY <1>0, <1>7, EndType DEF ChangeFails, disk, mind, ghosts
<1>8. CASE TakeInput(c)
  BY <1>0, <1>8 DEF TakeInput, Goto, disk, mind, ghosts
<1>9. CASE PreparePath(c)
  <2>1. data' \in [Inodes -> Texts \cup {NoText}] /\ entries' \subseteq Inodes \cup {NoInode}
        /\ path' \in Inodes \cup {NoInode}
    BY <1>0, <1>9 DEF PreparePath
  <2> QED
    BY <1>9, <2>1 DEF PreparePath, Goto, disk, mind, ghosts
<1>10. CASE SaveStarts(c)
  <2>1. path \in Inodes
    BY <1>0, <1>10 DEF Holds, SaveStarts
  <2> QED
    BY <1>0, <1>10, <2>1 DEF SaveStarts, Goto, disk, mind, ghosts
<1>11. CASE SaveEnds(c)
  <2>1. fd[c] \in Inodes
    BY <1>0, <1>11 DEF Holds, SaveEnds
  <2> QED
    BY <1>0, <1>11, <2>1, EndType DEF SaveEnds, disk, mind, ghosts
<1>12. CASE EditFails(c)
  BY <1>0, <1>12, EndType DEF EditFails, disk, mind, ghosts
<1>13. CASE EditNothing(c)
  BY <1>0, <1>13, EndType DEF EditNothing, disk, mind, ghosts
<1>14. CASE Create(c)
  BY <1>0, <1>14 DEF Create, Goto, disk, mind, ghosts
<1>15. CASE Write(c)
  BY <1>0, <1>15 DEF Write, Goto, disk, mind, ghosts
<1>16. CASE Written(c)
  BY <1>0, <1>16 DEF Written, Goto, disk, mind, ghosts
<1>17. CASE Sync(c)
  BY <1>0, <1>17 DEF Sync, Goto, disk, mind, ghosts
<1>18. CASE Rename(c)
  BY <1>0, <1>18, EndType DEF Rename, disk, mind, ghosts
<1>19. CASE PersistFails(c)
  BY <1>0, <1>19, EndType DEF PersistFails, disk, mind, ghosts
<1>20. CASE Kill(c)
  BY <1>0, <1>20, EndType DEF Kill, disk, mind, ghosts
<1> QED
  BY <1>1, <1>2, <1>3, <1>4, <1>5, <1>6, <1>7, <1>8, <1>9, <1>10, <1>11, <1>12, <1>13, <1>14, <1>15, <1>16, <1>17, <1>18, <1>19, <1>20 DEF CallerStep

-----------------------------------------------------------------------------
\* What a step of call c may touch: its own step, its own inode, the path when it
\* replaces it, and, for an editor, the file that the path names or it has open.
Frame(c) ==
    /\ step[c] \in {"start"} \cup Active /\ step'[c] \in Steps \ {"start"}
    /\ step' = [step EXCEPT ![c] = step'[c]]
    /\ \A x \in Callers \ {c} : fd'[x] = fd[x] /\ source'[x] = source[x] /\ text'[x] = text[x]
    /\ \/ fd'[c] \in {fd[c], NoInode}
       \/ fd'[c] = path /\ path # NoInode
    /\ \/ path' = path /\ entries' = entries
       \/ /\ path' = c /\ entries' = entries \cup {c} /\ data'[c] \in Texts
          /\ \/ step'[c] = "ok" /\ step[c] = "rename"
             \/ c \in Editors /\ step[c] = "start"
    /\ \A i \in Inodes \ {c} :
           \/ data'[i] = data[i] /\ (i \in dirty' <=> i \in dirty)
           \/ /\ c \in Editors /\ step[c] \in {"edit", "save"}
              /\ i \in {path, fd[c]} /\ data'[i] \in Texts
    /\ \/ data'[c] \in Texts \cup {data[c]}
       \/ step[c] \in Persisting /\ path' = path /\ entries' = entries
    /\ arg' = arg /\ failed' = failed
    /\ \/ before' = before /\ step'[c] # "opened"
       \/ /\ step[c] = "start" /\ step'[c] = "opened" /\ fd'[c] = path
          /\ before' = [before EXCEPT ![c] = EndedWell]
    /\ step'[c] \in {"value"} \cup Persisting =>
           \/ c \in Replacers
           \/ step[c] = "opened" /\ source'[c] = data[fd[c]]
           \/ step[c] \in {"value"} \cup Persisting /\ source'[c] = source[c]
    /\ \/ older' = older
       \/ /\ step[c] = "rename" /\ older' = [older EXCEPT ![c] = EndedWell]

\* A call touches nothing else.
LEMMA StepFrame ==
    ASSUME TypeOK, Sound, NEW c \in Callers, CallerStep(c)
    PROVE  Frame(c)
<1> USE DEF TypeOK, Steps, Active, Persisting, Frame
<1>0. c \in Inodes /\ {Torn, Empty} \subseteq Texts /\ NoInode \notin Inodes
      /\ Inputs \subseteq Texts /\ Holds(c)
  BY ConfigAssumption DEF Inodes, Texts, Sound
<1>1. CASE Open(c)
  BY <1>0, <1>1 DEF Open, Goto, disk, mind, ghosts
<1>2. CASE StartFails(c)
  BY <1>0, <1>2 DEF StartFails, End, Goto, disk, mind, ghosts
<1>3. CASE Read(c)
  BY <1>0, <1>3 DEF Read, Goto, disk, mind, ghosts
<1>4. CASE Show(c)
  BY <1>0, <1>4 DEF Show, End, Goto, disk, mind, ghosts
<1>5. CASE ReadFails(c)
  BY <1>0, <1>5 DEF ReadFails, End, Goto, disk, mind, ghosts
<1>6. CASE Change(c)
  BY <1>0, <1>6 DEF Change, Goto, disk, mind, ghosts
<1>7. CASE ChangeFails(c)
  BY <1>0, <1>7 DEF ChangeFails, End, Goto, disk, mind, ghosts
<1>8. CASE TakeInput(c)
  BY <1>0, <1>8 DEF TakeInput, Goto, disk, mind, ghosts
<1>9. CASE PreparePath(c)
  BY <1>0, <1>9 DEF PreparePath, Goto, Holds, disk, mind, ghosts
<1>10. CASE SaveStarts(c)
  BY <1>0, <1>10 DEF SaveStarts, Goto, Holds, disk, mind, ghosts
<1>11. CASE SaveEnds(c)
  BY <1>0, <1>11 DEF SaveEnds, End, Goto, Holds, disk, mind, ghosts
<1>12. CASE EditFails(c)
  BY <1>0, <1>12 DEF EditFails, End, Goto, Holds, disk, mind, ghosts
<1>13. CASE EditNothing(c)
  BY <1>0, <1>13 DEF EditNothing, End, Goto, Holds, disk, mind, ghosts
<1>14. CASE Create(c)
  BY <1>0, <1>14 DEF Create, Goto, disk, mind, ghosts
<1>15. CASE Write(c)
  BY <1>0, <1>15 DEF Write, Goto, disk, mind, ghosts
<1>16. CASE Written(c)
  BY <1>0, <1>16, LoadsDocument DEF Written, Goto, Holds, disk, mind, ghosts, Texts
<1>17. CASE Sync(c)
  BY <1>0, <1>17 DEF Sync, Goto, disk, mind, ghosts
<1>18. CASE Rename(c)
  BY <1>0, <1>18, LoadsDocument DEF Rename, End, Goto, Holds, disk, mind, ghosts, Texts
<1>19. CASE PersistFails(c)
  BY <1>0, <1>19 DEF PersistFails, End, Goto, disk, mind, ghosts
<1>20. CASE Kill(c)
  BY <1>0, <1>20 DEF Kill, End, Goto, disk, mind, ghosts
<1> QED
  BY <1>1, <1>2, <1>3, <1>4, <1>5, <1>6, <1>7, <1>8, <1>9, <1>10, <1>11, <1>12, <1>13, <1>14, <1>15, <1>16, <1>17, <1>18, <1>19, <1>20 DEF CallerStep

-----------------------------------------------------------------------------
\* A temporary file stays out of reach until the rename.
LEMMA StepOwnTemporary ==
    ASSUME TypeOK, Sound, NEW c \in Callers, CallerStep(c)
    PROVE  OwnTemporary'
<1>1. Frame(c)
  BY StepFrame
<1> SUFFICES ASSUME NEW d \in Callers,
                    step'[d] = "start" \/ (d \notin Editors /\ step'[d] # "ok")
             PROVE  path' # d /\ d \notin entries' /\ \A x \in Callers : fd'[x] # d
  BY DEF OwnTemporary, Unlinked
<1>2. d # NoInode
  BY ConfigAssumption DEF Inodes
<1>3. step[d] = "start" \/ (d \notin Editors /\ step[d] # "ok")
  BY <1>1 DEF Frame, TypeOK, Active, Persisting
<1>4. Unlinked(d)
  BY <1>3 DEF Sound, OwnTemporary
<1>5. path' # d /\ d \notin entries'
  BY <1>1, <1>4 DEF Frame, Unlinked, TypeOK
<1>6. ASSUME NEW x \in Callers PROVE fd'[x] # d
  BY <1>1, <1>2, <1>4 DEF Frame, Unlinked
<1> QED
  BY <1>5, <1>6

\* What the other calls hold is not disturbed.
LEMMA OthersHold ==
    ASSUME TypeOK, Sound, NEW c \in Callers, CallerStep(c), NEW x \in Callers, x # c
    PROVE  Holds(x)'
<1>1. Frame(c) /\ Holds(x) /\ x \in Inodes
  BY StepFrame DEF Sound, Inodes
<1>2. /\ step'[x] = step[x] /\ fd'[x] = fd[x] /\ source'[x] = source[x] /\ text'[x] = text[x]
      /\ arg' = arg /\ (path # NoInode => path' # NoInode)
  BY <1>1, ConfigAssumption DEF Frame, TypeOK, Inodes
<1>3. step[x] \in {"sync", "rename"} => data'[x] = data[x] /\ (x \in dirty' <=> x \in dirty)
  <2> SUFFICES ASSUME step[x] \in {"sync", "rename"}
               PROVE  x # path /\ x # fd[c]
    BY <1>1 DEF Frame
  <2>1. x \notin Editors
    BY <1>1, ConfigAssumption DEF Holds, Persisting
  <2> QED
    BY <2>1 DEF Sound, OwnTemporary, Unlinked
<1> QED
  BY <1>1, <1>2, <1>3 DEF Holds, Persisting

\* The call holds what its next step needs.
LEMMA StepHolds ==
    ASSUME TypeOK, Sound, NEW c \in Callers, CallerStep(c)
    PROVE  Holds(c)'
<1> USE DEF TypeOK, Holds, Persisting
<1>0. Holds(c) /\ Present /\ c \in Inodes /\ NoInode \notin Inodes
  BY ConfigAssumption DEF Sound, Inodes
<1>1. CASE Open(c)
  BY <1>0, <1>1 DEF Open, Goto, disk, mind, ghosts
<1>2. CASE StartFails(c)
  BY <1>0, <1>2 DEF StartFails, End, Goto, disk, mind, ghosts
<1>3. CASE Read(c)
  <2>1. fd[c] \in Inodes /\ data[fd[c]] # NoText
    BY <1>0, <1>3 DEF Read, Present
  <2> QED
    BY <1>0, <1>3, <2>1 DEF Read, Goto, disk, mind, ghosts
<1>4. CASE Show(c)
  BY <1>0, <1>4 DEF Show, End, Goto, disk, mind, ghosts
<1>5. CASE ReadFails(c)
  BY <1>0, <1>5 DEF ReadFails, End, Goto, disk, mind, ghosts
<1>6. CASE Change(c)
  BY <1>0, <1>6 DEF Change, Goto, disk, mind, ghosts
<1>7. CASE ChangeFails(c)
  BY <1>0, <1>7 DEF ChangeFails, End, Goto, disk, mind, ghosts
<1>8. CASE TakeInput(c)
  BY <1>0, <1>8 DEF TakeInput, Goto, disk, mind, ghosts
<1>9. CASE PreparePath(c)
  BY <1>0, <1>9 DEF PreparePath, Goto, disk, mind, ghosts
<1>10. CASE SaveStarts(c)
  BY <1>0, <1>10 DEF SaveStarts, Goto, disk, mind, ghosts
<1>11. CASE SaveEnds(c)
  BY <1>0, <1>11 DEF SaveEnds, End, Goto, disk, mind, ghosts
<1>12. CASE EditFails(c)
  BY <1>0, <1>12 DEF EditFails, End, Goto, disk, mind, ghosts
<1>13. CASE EditNothing(c)
  BY <1>0, <1>13 DEF EditNothing, End, Goto, disk, mind, ghosts
<1>14. CASE Create(c)
  BY <1>0, <1>14 DEF Create, Goto, disk, mind, ghosts
<1>15. CASE Write(c)
  BY <1>0, <1>15 DEF Write, Goto, disk, mind, ghosts
<1>16. CASE Written(c)
  BY <1>0, <1>16, LoadsDocument DEF Written, Goto, disk, mind, ghosts, Texts
<1>17. CASE Sync(c)
  BY <1>0, <1>17 DEF Sync, Goto, disk, mind, ghosts
<1>18. CASE Rename(c)
  BY <1>0, <1>18, LoadsDocument DEF Rename, End, Goto, disk, mind, ghosts, Texts
<1>19. CASE PersistFails(c)
  BY <1>0, <1>19 DEF PersistFails, End, Goto, disk, mind, ghosts
<1>20. CASE Kill(c)
  BY <1>0, <1>20 DEF Kill, End, Goto, disk, mind, ghosts
<1> QED
  BY <1>1, <1>2, <1>3, <1>4, <1>5, <1>6, <1>7, <1>8, <1>9, <1>10, <1>11, <1>12, <1>13, <1>14, <1>15, <1>16, <1>17, <1>18, <1>19, <1>20 DEF CallerStep

\* What is linked or open still has a text.
LEMMA StepPresent ==
    ASSUME TypeOK, Sound, NEW c \in Callers, CallerStep(c)
    PROVE  Present'
<1>1. Frame(c) /\ Present /\ NoText \notin Texts /\ c \in Inodes
  BY StepFrame, ConfigAssumption DEF Sound, Inodes
<1>2. path' \in entries'
  BY <1>1 DEF Frame, Present
<1> SUFFICES ASSUME NEW i \in Inodes, i \in entries' \/ (\E x \in Callers : fd'[x] = i)
             PROVE  data'[i] # NoText
  BY <1>2 DEF Present
<1>3. CASE i = c /\ (path' # path \/ entries' # entries)
  BY <1>1, <1>3 DEF Frame
<1>4. CASE i # c \/ (path' = path /\ entries' = entries)
  <2>1. i \in entries \/ \E x \in Callers : fd[x] = i
    BY <1>1, <1>4, ConfigAssumption DEF Frame, Present
  <2>2. data[i] # NoText
    BY <1>1, <2>1 DEF Present
  <2>3. CASE i # c
    BY <1>1, <2>2, <2>3 DEF Frame
  <2>4. CASE i = c /\ data'[c] \in Texts \cup {data[c]}
    BY <1>1, <2>2, <2>4
  <2>5. CASE i = c /\ step[c] \in Persisting
    <3>1. c \notin Editors /\ step[c] # "ok"
      BY <2>5, ConfigAssumption DEF Sound, Holds, Persisting
    <3> QED
      BY <2>1, <2>5, <3>1 DEF Sound, OwnTemporary, Unlinked
  <2> QED
    BY <1>1, <2>3, <2>4, <2>5 DEF Frame
<1> QED
  BY <1>3, <1>4

\* Writing back changes nothing a call knows, ...
LEMMA FlushSound ==
    ASSUME TypeOK, Sound, Flush
    PROVE  TypeOK' /\ Sound'
<1>1. TypeOK'
  BY DEF TypeOK, Flush, mind, ghosts
<1>2. OwnTemporary'
  BY DEF Sound, OwnTemporary, Unlinked, Flush, mind, ghosts
<1>3. ASSUME NEW x \in Callers PROVE Holds(x)'
  BY DEF Sound, Holds, Flush, mind, ghosts
<1>4. Present'
  BY DEF Sound, Present, Flush, mind, ghosts
<1> QED
  BY <1>1, <1>2, <1>3, <1>4 DEF Sound

\* ... and after a power failure nobody knows anything.
LEMMA PowerSound ==
    ASSUME TypeOK, Sound, PowerFails
    PROVE  TypeOK' /\ Sound'
<1>0. NoInode \notin Inodes /\ NoText \notin Texts /\ Torn \in Texts /\ Callers \subseteq Inodes
  BY ConfigAssumption DEF Texts, Inodes
<1>1. PICK lost \in SUBSET dirty :
          data' = [i \in Inodes |-> IF i \in lost THEN Torn ELSE data[i]]
  BY DEF PowerFails
<1>2. TypeOK'
  <2>1. data' \in [Inodes -> Texts \cup {NoText}]
    BY <1>0, <1>1 DEF TypeOK
  <2>2. step' \in [Callers -> Steps] /\ fd' \in [Callers -> Inodes \cup {NoInode}]
        /\ source' \in [Callers -> Texts \cup {NoText}] /\ text' \in [Callers -> Texts \cup {NoText}]
    BY DEF TypeOK, PowerFails, Steps
  <2> QED
    BY <2>1, <2>2 DEF TypeOK, PowerFails
<1>3. OwnTemporary'
  BY <1>0 DEF TypeOK, Sound, OwnTemporary, Unlinked, PowerFails, Active, Persisting
<1>4. ASSUME NEW x \in Callers PROVE Holds(x)'
  BY DEF TypeOK, Holds, PowerFails, Active, Persisting
<1>5. Present'
  BY <1>0, <1>1 DEF Sound, TypeOK, Present, PowerFails
<1> QED
  BY <1>2, <1>3, <1>4, <1>5 DEF Sound

\* The first states.
LEMMA InitSound ==
    ASSUME Init
    PROVE  Sound
<1>0. NoInode \notin Inodes /\ NoText \notin Texts /\ Original \notin Callers /\ Callers \subseteq Inodes
  BY ConfigAssumption DEF Inodes
<1>1. PICK t \in Inputs :
          Loads(t) /\ data = [i \in Inodes |-> IF i = path THEN t ELSE NoText]
  BY DEF Init
<1>2. t \in Texts
  BY <1>1, LoadsDocument DEF Texts
<1>3. OwnTemporary
  BY <1>0 DEF Init, OwnTemporary, Unlinked
<1>4. ASSUME NEW x \in Callers PROVE Holds(x)
  BY DEF Init, Holds, Persisting
<1>5. Present
  BY <1>0, <1>1, <1>2 DEF Init, Present
<1> QED
  BY <1>3, <1>4, <1>5 DEF Sound

\* The types, and what the calls rely on, hold after every step.
LEMMA SoundStep ==
    ASSUME TypeOK, Sound, [Next]_vars
    PROVE  TypeOK' /\ Sound'
<1>1. ASSUME NEW c \in Callers, CallerStep(c) PROVE TypeOK' /\ Sound'
  <2>1. ASSUME NEW x \in Callers PROVE Holds(x)'
    BY <1>1, StepHolds, OthersHold
  <2> QED
    BY <1>1, <2>1, StepType, StepOwnTemporary, StepPresent DEF Sound
<1>2. CASE UNCHANGED vars
  BY <1>2 DEF vars, TypeOK, Sound, OwnTemporary, Unlinked, Holds, Present
<1> QED
  BY <1>1, <1>2, FlushSound, PowerSound DEF Next

\* The types of the variables, and the inductive invariant of everything below:
\* a temporary file is its own call's, and a call holds what its step needs.
THEOREM TypeCorrect == Spec => [](TypeOK /\ Sound)
<1>1. Init => TypeOK /\ Sound
  BY InitType, InitSound
<1>2. TypeOK /\ Sound /\ [Next]_vars => TypeOK' /\ Sound'
  BY SoundStep
<1> QED
  BY <1>1, <1>2, PTL DEF Spec

-----------------------------------------------------------------------------
\* Only edits put a text that was not validated under the path.
LEMMA StepAllLoad ==
    ASSUME TypeOK, Sound, AllLoad, [Next]_vars
    PROVE  AllLoad'
<1> SUFFICES ASSUME Unedited', NEW i \in entries' \ {NoInode}
             PROVE  Loads(data'[i]) /\ i \notin dirty'
  BY DEF AllLoad, Loads
<1>1. ASSUME NEW c \in Callers, CallerStep(c) PROVE Loads(data'[i]) /\ i \notin dirty'
  <2>1. Frame(c)
    BY <1>1, StepFrame
  <2>2. c \notin Editors \cup Replacers /\ Unedited
    <3>1. step'[c] # "start" /\ \A x \in Callers \ {c} : step'[x] = step[x]
      BY <2>1 DEF Frame, TypeOK
    <3> QED
      BY <3>1 DEF Unedited, Callers
  <2>3. CASE i = c
    <3>1. step[c] # "ok" /\ c \notin entries
      BY <2>1, <2>2 DEF Frame, Active, Persisting, Sound, OwnTemporary, Unlinked
    <3>2. step[c] = "rename"
      BY <2>1, <2>2, <2>3, <3>1 DEF Frame
    <3>3. Loads(data[c]) /\ c \notin dirty
      BY <2>2, <3>2 DEF Sound, Holds, Persisting
    <3>4. entries' # entries
      BY <2>3, <3>1
    <3>5. Rename(c)
      BY <1>1, <2>2, <3>2, <3>4 DEF CallerStep, Open, StartFails, Read, Show, ReadFails, Change,
         ChangeFails, TakeInput, PreparePath, SaveStarts, SaveEnds, EditFails, EditNothing,
         Create, Write, Written, Sync, PersistFails, Kill, disk
    <3> QED
      BY <2>3, <3>3, <3>5 DEF Rename
  <2>4. CASE i # c
    <3>1. i \in Inodes /\ i \in entries
      BY <2>1, <2>4 DEF Frame, TypeOK
    <3> QED
      BY <2>1, <2>2, <2>4, <3>1 DEF Frame, AllLoad
  <2> QED
    BY <2>3, <2>4
<1>2. CASE Flush
  BY <1>2 DEF Flush, AllLoad, Unedited, Sound, Present, TypeOK
<1>3. CASE PowerFails
  <2>1. Unedited
    <3>1. \A e \in Callers : step'[e] = "start" => step[e] = "start"
      BY <1>3 DEF PowerFails, TypeOK
    <3> QED
      BY <3>1 DEF Unedited, Callers
  <2>2. i \in entries \ {NoInode} /\ i \in Inodes /\ i \notin dirty'
    BY <1>3 DEF PowerFails, TypeOK
  <2>3. data'[i] = data[i]
    BY <1>3, <2>1, <2>2 DEF PowerFails, AllLoad
  <2> QED
    BY <2>1, <2>2, <2>3 DEF AllLoad
<1>4. CASE UNCHANGED vars
  BY <1>4 DEF vars, AllLoad, Unedited
<1> QED
  BY <1>1, <1>2, <1>3, <1>4 DEF Next

\* command.go:164,199 - however sets, failures, kills and a power failure are
\* ordered, a configuration nobody edits by hand keeps loading.
THEOREM SetsKeepLoadable == Spec => []StaysLoadable
<1>1. ASSUME Init PROVE AllLoad
  <2>1. PICK t \in Inputs :
            Loads(t) /\ data = [i \in Inodes |-> IF i = path THEN t ELSE NoText]
    BY <1>1 DEF Init
  <2> SUFFICES ASSUME NEW i \in entries \ {NoInode} PROVE Loads(data[i]) /\ i \notin dirty
    BY DEF AllLoad
  <2>2. i \in Inodes /\ i = path /\ dirty = {}
    BY <1>1 DEF Init, Inodes
  <2> QED
    BY <2>1, <2>2
<1>2. TypeOK /\ Sound /\ AllLoad /\ [Next]_vars => AllLoad'
  BY StepAllLoad
<1>3. Sound /\ AllLoad => StaysLoadable
  BY DEF Sound, Present, AllLoad, Unedited, StaysLoadable
<1> QED
  BY <1>1, <1>2, <1>3, TypeCorrect, PTL DEF Spec

-----------------------------------------------------------------------------
\* What a call other than an editor leaves alone: all files but its own, and with
\* them the file under the path unless it renames, and what the others have open.
LEMMA NoEditorFrame ==
    ASSUME TypeOK, Sound, NEW c \in Callers \ Editors, CallerStep(c)
    PROVE  /\ Frame(c) /\ c \notin entries /\ path # c /\ \A x \in Callers : fd[x] # c
           /\ \A i \in Inodes \ {c} : data'[i] = data[i] /\ (i \in dirty' <=> i \in dirty)
           /\ step[c] # "rename" => path' = path /\ entries' = entries
<1>1. Frame(c)
  BY StepFrame
<1>2. step[c] # "ok"
  BY <1>1 DEF Frame, Active, Persisting
<1>3. Unlinked(c)
  BY <1>2 DEF Sound, OwnTemporary
<1> QED
  BY <1>1, <1>3 DEF Frame, Unlinked

\* The steps of setters and readers before the rename.
LEMMA QuietOverlaps ==
    ASSUME TypeOK, Sound, Overlaps, ~failed, Unedited,
           NEW c \in Readers \cup Setters, CallerStep(c), EndedWell' = EndedWell, path' = path, older' = older
    PROVE  Overlaps'
<1>1. c \in Callers \ Editors
  BY ConfigAssumption DEF Callers
<1>2. /\ Frame(c) /\ arg' = arg /\ path # c /\ \A x \in Callers : fd[x] # c
      /\ \A i \in Inodes \ {c} : data'[i] = data[i]
  BY <1>1, NoEditorFrame DEF Frame
<1>3. \A d \in EndedWell : before'[d] = before[d] /\ older'[d] = older[d] /\ d # c
  <2> SUFFICES ASSUME NEW d \in EndedWell
               PROVE  before'[d] = before[d] /\ older'[d] = older[d] /\ d # c
    OBVIOUS
  <2>1. d # c /\ d \in Callers
    BY <1>2 DEF Frame, EndedWell, Callers, Active, Persisting
  <2> QED
    BY <1>2, <2>1 DEF Frame, TypeOK
<1>4. EndedWell \subseteq Setters
  BY DEF EndedWell
<1>5. EndedWell' # {} => path' # NoInode
  BY DEF Overlaps
<1>6. ASSUME NEW k \in EndedWell PROVE Kept(k, data[path], EndedWell)'
  <2>1. data'[path'] = data[path]
    BY <1>2, <1>5, <1>6 DEF TypeOK
  <2>2. Kept(k, data[path], EndedWell) /\ k \in Setters
    BY <1>4, <1>6 DEF Overlaps
  <2> QED
    BY <1>2, <1>3, <1>4, <2>1, <2>2 DEF Kept
<1>7. ASSUME NEW x \in Setters PROVE SeenKept(x)'
  <2>0. SeenKept(x) /\ x \in Callers
    BY DEF Overlaps, Callers
  <2>1. CASE x = c /\ step'[c] = "opened"
    <3>1. step'[x] = "opened" /\ fd'[x] = path /\ before'[x] = EndedWell
      BY <1>2, <2>0, <2>1 DEF Frame, TypeOK
    <3>2. ASSUME NEW k \in EndedWell PROVE Kept(k, data[fd[x]], before[x])'
      BY <1>6, <3>1, <3>2 DEF Kept
    <3> QED
      BY <3>1, <3>2 DEF SeenKept, Persisting
  <2>2. CASE x # c \/ step'[c] # "opened"
    <3>1. before'[x] = before[x] /\ before[x] \subseteq EndedWell
      BY <1>2, <2>0, <2>2 DEF Frame, TypeOK, SeenKept
    <3>2. ASSUME NEW k \in before[x], NEW t, Kept(k, t, before[x])
          PROVE  \/ t[arg'[k][1]] = arg'[k][2]
                 \/ \E d \in before'[x] : k \in older'[d] /\ (k \notin before'[d] \/ arg'[d][1] = arg'[k][1])
      BY <1>2, <1>3, <3>1, <3>2 DEF Kept
    <3>3. step'[x] = "opened" =>
              step[x] = "opened" /\ fd'[x] = fd[x] /\ data'[fd[x]] = data[fd[x]]
      <4> SUFFICES ASSUME step'[x] = "opened" PROVE step[x] = "opened" /\ fd'[x] = fd[x] /\ data'[fd[x]] = data[fd[x]]
        OBVIOUS
      <4>1. x # c
        BY <2>2
      <4>2. step[x] = "opened" /\ fd'[x] = fd[x]
        BY <1>2, <2>0, <4>1 DEF Frame, TypeOK
      <4> QED
        BY <1>2, <2>0, <4>2 DEF Sound, Holds, TypeOK
    <3>4. step'[x] \in {"value"} \cup Persisting =>
              \/ step[x] = "opened" /\ source'[x] = data[fd[x]]
              \/ step[x] \in {"value"} \cup Persisting /\ source'[x] = source[x]
      BY <1>2, <2>0, ConfigAssumption DEF Frame, TypeOK
    <3>5. step'[x] = "opened" => \A k \in before'[x] : Kept(k, data[fd[x]], before[x])'
      <4> SUFFICES ASSUME step'[x] = "opened", NEW k \in before[x] PROVE Kept(k, data[fd[x]], before[x])'
        BY <3>1
      <4>1. Kept(k, data[fd[x]], before[x])
        BY <2>0, <3>3 DEF SeenKept
      <4> QED
        BY <3>2, <3>3, <4>1 DEF Kept
    <3>6. step'[x] \in {"value"} \cup Persisting => \A k \in before'[x] : Kept(k, source[x], before[x])'
      <4> SUFFICES ASSUME step'[x] \in {"value"} \cup Persisting, NEW k \in before[x]
                   PROVE  Kept(k, source[x], before[x])'
        BY <3>1
      <4>1. Kept(k, source'[x], before[x])
        BY <2>0, <3>4 DEF SeenKept
      <4> QED
        BY <3>2, <4>1 DEF Kept
    <3> QED
      BY <3>1, <3>5, <3>6 DEF SeenKept
  <2> QED
    BY <2>1, <2>2
<1> QED
  BY <1>5, <1>6, <1>7 DEF Overlaps

\* A reader or a setter that does not rename leaves the path and the ended alone.
LEMMA OnlyRename ==
    ASSUME TypeOK, Sound, NEW c \in Readers \cup Setters, CallerStep(c)
    PROVE  \/ Rename(c) /\ c \in Setters
           \/ EndedWell' = EndedWell /\ path' = path /\ older' = older
<1>1. c \in Callers \ Editors /\ Holds(c)
  BY ConfigAssumption DEF Callers, Sound
<1>2. Frame(c) /\ (step[c] # "rename" => path' = path)
  BY <1>1, NoEditorFrame
<1>3. step[c] \in {"edit", "save"} => c \in Editors
  BY <1>1 DEF Holds
<1>4. Rename(c) => c \in Setters
  BY <1>1, ConfigAssumption DEF Holds, Rename, Persisting
<1>5. CASE ~Rename(c)
  <2>1. path' = path /\ older' = older /\ (c \in Setters => step'[c] # "ok")
    BY <1>1, <1>2, <1>3, <1>5, ConfigAssumption DEF Frame, TypeOK, CallerStep, Open, StartFails, Read, Show, ReadFails, Change,
       ChangeFails, TakeInput, PreparePath, SaveStarts, SaveEnds, EditFails, EditNothing,
       Create, Write, Written, Sync, PersistFails, Kill, End, Goto, disk, mind, ghosts
  <2>2. step[c] # "ok" /\ \A x \in Callers \ {c} : step'[x] = step[x]
    BY <1>2 DEF Frame, TypeOK, Active, Persisting
  <2> QED
    BY <2>1, <2>2 DEF EndedWell, Callers
<1> QED
  BY <1>4, <1>5

\* The rename of a set is the moment it stores its value over the others'.
LEMMA RenameOverlaps ==
    ASSUME TypeOK, Sound, Overlaps, ~failed, Unedited, NEW s \in Setters, Rename(s)
    PROVE  Overlaps'
<1>1. /\ s \in Callers \ Editors /\ s \in Inodes /\ step[s] = "rename" /\ NoInode \notin Inodes
      /\ s \notin EndedWell /\ EndedWell \subseteq Setters /\ CallerStep(s)
  BY ConfigAssumption DEF Callers, Inodes, Rename, EndedWell, CallerStep
<1>2. /\ path' = s /\ data' = data /\ before' = before /\ arg' = arg
      /\ older' = [older EXCEPT ![s] = EndedWell] /\ step' = [step EXCEPT ![s] = "ok"]
  BY DEF Rename, End, Goto
<1>3. EndedWell' = EndedWell \cup {s}
  BY <1>1, <1>2 DEF EndedWell, TypeOK, Callers
<1>4. /\ source[s] \in Documents /\ data[s] = Changed(source[s], arg[s][1], arg[s][2])
      /\ arg[s] \in Changes
  BY <1>1, ConfigAssumption DEF Sound, Holds, Persisting, TypeOK
<1>5. /\ data[s][arg[s][1]] = arg[s][2]
      /\ \A p \in Paths \ {arg[s][1]} : data[s][p] = source[s][p]
  BY <1>4, ChangedDocument
<1>6. \A d \in EndedWell : older'[d] = older[d] /\ before'[d] = before[d]
  BY <1>1, <1>2 DEF TypeOK, Callers
<1>7. older'[s] = EndedWell
  BY <1>1, <1>2 DEF TypeOK
<1>8. SeenKept(s)
  BY DEF Overlaps
<1>9. ASSUME NEW k \in EndedWell' PROVE Kept(k, data[path], EndedWell)'
  <2>1. CASE k = s
    BY <1>2, <1>5, <2>1 DEF Kept
  <2>2. CASE k \in EndedWell /\ (k \notin before[s] \/ arg[s][1] = arg[k][1])
    BY <1>2, <1>3, <1>7, <2>2 DEF Kept
  <2>3. CASE k \in before[s] /\ arg[s][1] # arg[k][1]
    <3>1. Kept(k, source[s], before[s]) /\ before[s] \subseteq EndedWell /\ k \in Setters
      BY <1>1, <1>8, <2>3 DEF SeenKept, Persisting
    <3>2. arg[k][1] \in Paths
      BY <3>1, ChangedDocument, <1>4 DEF TypeOK
    <3>3. CASE source[s][arg[k][1]] = arg[k][2]
      <4>1. data[s][arg[k][1]] = arg[k][2]
        BY <1>5, <2>3, <3>2, <3>3
      <4> QED
        BY <1>2, <4>1 DEF Kept
    <3>4. CASE \E d \in before[s] : k \in older[d] /\ (k \notin before[d] \/ arg[d][1] = arg[k][1])
      BY <1>2, <1>3, <1>6, <3>1, <3>4 DEF Kept
    <3> QED
      BY <3>1, <3>3, <3>4 DEF Kept
  <2> QED
    BY <1>3, <2>1, <2>2, <2>3
<1>10. ASSUME NEW x \in Setters PROVE SeenKept(x)'
  <2>0. SeenKept(x) /\ x \in Callers
    BY DEF Overlaps, Callers
  <2>1. before'[x] = before[x] /\ before[x] \subseteq EndedWell /\ before[x] \subseteq EndedWell'
    BY <1>2, <1>3, <2>0 DEF SeenKept
  <2>2. CASE x = s
    BY <1>1, <1>2, <2>1, <2>2 DEF SeenKept, Persisting, TypeOK
  <2>3. CASE x # s
    <3>1. step'[x] = step[x] /\ fd'[x] = fd[x] /\ source'[x] = source[x]
      BY <2>0, <2>3 DEF Rename, End, Goto, TypeOK
    <3>2. ASSUME NEW k \in before[x], NEW t, Kept(k, t, before[x])
          PROVE  \/ t[arg'[k][1]] = arg'[k][2]
                 \/ \E d \in before'[x] : k \in older'[d] /\ (k \notin before'[d] \/ arg'[d][1] = arg'[k][1])
      BY <1>2, <1>6, <2>1, <3>2 DEF Kept
    <3> QED
      BY <1>2, <2>0, <2>1, <3>1, <3>2 DEF SeenKept, Kept
  <2> QED
    BY <2>2, <2>3
<1> QED
  BY <1>1, <1>2, <1>9, <1>10 DEF Overlaps

\* Overlaps is inductive.
LEMMA StepOverlaps ==
    ASSUME TypeOK, Sound, Overlaps, [Next]_vars
    PROVE  Overlaps'
<1>1. ASSUME NEW c \in Callers, CallerStep(c) PROVE Overlaps'
  <2> SUFFICES ASSUME ~failed', Unedited' PROVE Overlaps'
    BY DEF Overlaps
  <2>1. Frame(c)
    BY <1>1, StepFrame
  <2>2. step'[c] # "start" /\ \A x \in Callers \ {c} : step'[x] = step[x]
    BY <2>1 DEF Frame, TypeOK
  <2>3. c \notin Editors \cup Replacers /\ Unedited /\ ~failed
    BY <2>1, <2>2 DEF Frame, Unedited, Callers
  <2> QED
    BY <1>1, <2>3, OnlyRename, RenameOverlaps, QuietOverlaps DEF Callers
<1>2. CASE Flush
  BY <1>2 DEF Flush, mind, ghosts, Overlaps, Unedited, EndedWell, Kept, SeenKept
<1>3. CASE PowerFails
  BY <1>3 DEF PowerFails, Overlaps
<1>4. CASE UNCHANGED vars
  BY <1>4 DEF vars, Overlaps, Unedited, EndedWell, Kept, SeenKept
<1> QED
  BY <1>1, <1>2, <1>3, <1>4 DEF Next

\* command.go:164-206 - for any setters, paths and values: a set that ended well
\* is undone only by a set that overlapped with it or changed the same path.
THEOREM NoSilentLoss == Spec => []LostOnlyByOverlap
<1>1. Init => Overlaps
  <2>1. Init => EndedWell = {} /\ \A x \in Setters : before[x] = {}
    BY DEF Init, EndedWell, Callers
  <2> QED
    BY <2>1 DEF Overlaps, SeenKept
<1>2. TypeOK /\ Sound /\ Overlaps /\ [Next]_vars => Overlaps'
  BY StepOverlaps
<1>3. Overlaps => LostOnlyByOverlap
  BY DEF Overlaps, Unedited, LostOnlyByOverlap
<1> QED
  BY <1>1, <1>2, <1>3, TypeCorrect, PTL DEF Spec

-----------------------------------------------------------------------------
(***************************************************************************)
(* Every step is a step of ConfigRegister, or none of it.                  *)
(***************************************************************************)
\* No file that is linked or open is touched.
Untouched ==
    /\ path' = path /\ entries' = entries
    /\ \A i \in Inodes : i \in entries \/ (\E x \in Callers : fd[x] = i) =>
           data'[i] = data[i] /\ (i \in dirty' <=> i \in dirty)

\* A step of call c changes what the register shows of c alone.
LEMMA FrameShown ==
    ASSUME TypeOK, NEW c \in Callers, Frame(c)
    PROVE  asked' = asked /\ phases' = [phases EXCEPT ![c] = phases'[c]]
<1>1. \A x \in Callers \ {c} : step'[x] = step[x]
  BY DEF Frame, TypeOK
<1>2. asked' = asked
  BY DEF Frame, asked
<1>3. phases' = [phases EXCEPT ![c] = phases'[c]]
  BY <1>1 DEF phases
<1> QED
  BY <1>2, <1>3

\* Such a step leaves the register's file, and what the others saw, alone.
LEMMA UntouchedShown ==
    ASSUME TypeOK, TypeOK', Sound, NEW c \in Callers, Frame(c), Untouched
    PROVE  /\ Text(path)' = Text(path) /\ keptTexts' = keptTexts
           /\ views' = [views EXCEPT ![c] = views'[c]]
<1>1. path \in entries /\ entries \subseteq Inodes \cup {NoInode}
  BY DEF Sound, Present, TypeOK
<1>2. Text(path)' = Text(path)
  BY <1>1 DEF Untouched, Text
<1>3. keptTexts' = keptTexts
  <2>1. \A i \in entries : i # NoInode => data'[i] = data[i]
    BY <1>1 DEF Untouched
  <2>2. entries \cap dirty' = entries \cap dirty
    BY <1>1, ConfigAssumption DEF Untouched, TypeOK
  <2> QED
    BY <2>1, <2>2 DEF Untouched, keptTexts, Text
<1>4. ASSUME NEW x \in Callers \ {c} PROVE views'[x] = views[x]
  <2>1. step'[x] = step[x] /\ fd'[x] = fd[x] /\ source'[x] = source[x]
    BY DEF Frame, TypeOK
  <2>2. step[x] = "opened" => fd[x] \in Inodes
    BY DEF Sound, Holds, TypeOK
  <2> QED
    BY <2>1, <2>2 DEF Untouched, views
<1> QED
  BY <1>2, <1>3, <1>4 DEF views

\* A call that fails or is killed.
LEMMA FailShown ==
    ASSUME TypeOK, TypeOK', Sound, NEW c \in Callers, Frame(c), Untouched, Holds(c)',
           step'[c] \in {"error", "killed"}
    PROVE  Register!Fail(c)
<1>1. phases[c] \in {"idle", "active"} /\ phases'[c] = "error" /\ views'[c] = NoText
  BY DEF Frame, phases, views, Holds, Active, Persisting
<1> QED
  BY <1>1, FrameShown, UntouchedShown DEF Register!Fail

\* A call that ends well and replaces nothing.
LEMMA ReturnShown ==
    ASSUME TypeOK, TypeOK', Sound, NEW c \in Callers, Frame(c), Untouched, Holds(c)',
           step[c] # "start", step'[c] = "ok"
    PROVE  Register!Return(c)
<1>1. phases[c] = "active" /\ phases'[c] = "ok" /\ views'[c] = NoText
  BY DEF Frame, phases, views, Holds, Active, Persisting
<1> QED
  BY <1>1, FrameShown, UntouchedShown DEF Register!Return

\* A step inside of a call.
LEMMA QuietShown ==
    ASSUME TypeOK, TypeOK', Sound, NEW c \in Callers, Frame(c), Untouched,
           step[c] \in Active, step'[c] \in Active, views'[c] = views[c]
    PROVE  UNCHANGED Register!vars
<1>1. phases'[c] = phases[c]
  BY DEF phases, Active, Persisting
<1>2. phases = [phases EXCEPT ![c] = phases[c]] /\ views = [views EXCEPT ![c] = views[c]]
  BY DEF phases, views
<1> QED
  BY <1>1, <1>2, FrameShown, UntouchedShown DEF Register!vars

\* A call other than an editor touches only the file it makes.
LEMMA NoEditorUntouched ==
    ASSUME TypeOK, Sound, NEW c \in Callers \ Editors, CallerStep(c), path' = path, entries' = entries
    PROVE  Untouched
BY NoEditorFrame DEF Untouched

\* An editor that makes or writes the file.
LEMMA EditShown ==
    ASSUME TypeOK, TypeOK', Sound, Sound', NEW e \in Editors, Frame(e), path' # NoInode,
           step[e] \in {"start", "edit", "save"}, step'[e] \in {"edit", "save", "ok"}
    PROVE  Register!Edit(e)
<1>0. e \in Callers /\ NoText \notin Texts /\ Torn \in Texts /\ NoInode \notin Inodes
  BY ConfigAssumption DEF Callers, Texts
<1>1. phases[e] \in {"idle", "active"} /\ phases'[e] \in {"active", "ok"}
  BY <1>0 DEF phases, Active, Persisting
<1>2. phases' = [phases EXCEPT ![e] = phases'[e]] /\ asked' = asked
  BY <1>0, FrameShown
<1>3. Text(path)' \in Texts
  BY DEF Text, TypeOK, Sound, Present
<1>4. keptTexts' \subseteq Texts \cup {NoText}
  BY <1>0 DEF keptTexts, Text, TypeOK
<1>5. views' \in [Callers -> Texts \cup {NoText}]
  BY <1>0 DEF views, TypeOK, Sound, Holds
<1>6. ASSUME NEW x \in Callers PROVE views[x] = NoText <=> views'[x] = NoText
  <2>1. CASE x = e
    <3>1. step[e] # "opened" /\ step'[e] # "opened" /\ source[e] = NoText /\ source'[e] = NoText
      BY <1>0 DEF Sound, Holds, Persisting
    <3> QED
      BY <1>0, <2>1, <3>1 DEF views
  <2>2. CASE x # e
    <3>1. step'[x] = step[x] /\ source'[x] = source[x] /\ fd'[x] = fd[x]
      BY <1>0, <2>2 DEF Frame, TypeOK
    <3>2. step[x] = "opened" => data[fd[x]] # NoText /\ data'[fd[x]] # NoText
      BY <3>1 DEF TypeOK, Sound, Holds, Present
    <3> QED
      BY <3>1, <3>2 DEF views
  <2> QED
    BY <2>1, <2>2
<1> QED
  BY <1>1, <1>2, <1>3, <1>4, <1>5, <1>6 DEF Register!Edit

\* The rename replaces the file by what was made of what the call saw.
LEMMA RenameShown ==
    ASSUME TypeOK, TypeOK', Sound, Sound', NEW c \in Callers, Rename(c)
    PROVE  Register!Replace(c)
<1>0. CallerStep(c) /\ Holds(c) /\ Holds(c)' /\ c \in Inodes /\ NoInode \notin Inodes
  BY ConfigAssumption DEF CallerStep, Sound, Inodes
<1>1. Frame(c) /\ step[c] = "rename" /\ c \notin Editors
  BY <1>0, StepFrame, ConfigAssumption DEF Rename, Holds, Persisting
<1>2. /\ path' = c /\ entries' = entries \cup {c} /\ data' = data /\ dirty' = dirty
      /\ fd'[c] = NoInode /\ step'[c] = "ok"
  BY DEF Rename, End, Goto, TypeOK
<1>3. data[c] = text[c] /\ c \notin dirty
  BY <1>0, <1>1 DEF Holds
<1>4. Text(path)' = text[c]
  BY <1>0, <1>2, <1>3 DEF Text
<1>5. text[c] \in Results(asked[c], views[c])
  <2>1. views[c] = source[c]
    BY <1>1 DEF views
  <2>2. CASE c \in Setters
    BY <1>0, <1>1, <2>1, <2>2, ConfigAssumption DEF Holds, Persisting, Results, asked
  <2>3. CASE c \in Replacers
    BY <1>0, <1>1, <2>1, <2>3, ConfigAssumption DEF Holds, Persisting, Results, asked
  <2> QED
    BY <1>0, <1>1, <2>2, <2>3 DEF Holds, Persisting
<1>6. keptTexts' = keptTexts \cup {text[c]}
  <2>1. {Text(i) : i \in entries}' = {Text(i) : i \in entries} \cup {text[c]}
    BY <1>0, <1>2, <1>3 DEF Text
  <2>2. entries' \cap dirty' = entries \cap dirty
    BY <1>2, <1>3
  <2> QED
    BY <2>1, <2>2 DEF keptTexts
<1>7. phases[c] = "active" /\ phases'[c] = "ok" /\ views'[c] = NoText
  BY <1>0, <1>1, <1>2 DEF phases, views, Holds, Active, Persisting
<1>8. views' = [views EXCEPT ![c] = views'[c]]
  <2>1. \A x \in Callers \ {c} : step'[x] = step[x] /\ fd'[x] = fd[x] /\ source'[x] = source[x]
    BY <1>1 DEF Frame, TypeOK
  <2> QED
    BY <1>2, <2>1 DEF views
<1> QED
  BY <1>1, <1>4, <1>5, <1>6, <1>7, <1>8, FrameShown DEF Register!Replace

\* The other steps of a call.
LEMMA CallShown ==
    ASSUME TypeOK, TypeOK', Sound, Sound', NEW c \in Callers, CallerStep(c)
    PROVE  Register!Next \/ UNCHANGED Register!vars
<1>0. Frame(c) /\ Holds(c) /\ Holds(c)'
  BY StepFrame DEF Sound
<1>1. CASE Open(c)
  <2>1. Untouched
    BY <1>1 DEF Open, Untouched, disk
  <2>2. path \in Inodes /\ data[path] # NoText
    BY <1>1 DEF Open, TypeOK, Sound, Present
  <2>3. phases[c] = "idle" /\ phases'[c] = "active" /\ views'[c] = Text(path) /\ Text(path) # NoText
    BY <1>1, <2>2, ConfigAssumption DEF Open, Goto, disk, phases, views, Text, Active, TypeOK
  <2> QED
    BY <1>0, <2>1, <2>3, FrameShown, UntouchedShown DEF Register!Look, Register!Next
<1>2. CASE StartFails(c) \/ ReadFails(c) \/ ChangeFails(c) \/ EditFails(c)
  <2>1. Untouched /\ step'[c] = "error"
    BY <1>2 DEF StartFails, ReadFails, ChangeFails, EditFails, End, Goto, Untouched, disk, TypeOK
  <2> QED
    BY <1>0, <2>1, FailShown DEF Register!Next
<1>3. CASE PersistFails(c) \/ Kill(c)
  <2>1. path' = path /\ entries' = entries /\ step'[c] \in {"error", "killed"}
    BY <1>3 DEF PersistFails, Kill, End, Goto, TypeOK
  <2>2. CASE c \notin Editors
    BY <1>0, <2>1, <2>2, FailShown, NoEditorUntouched DEF Register!Next
  <2>3. CASE c \in Editors
    <3>1. step[c] \notin Persisting
      BY <1>0, <2>3, ConfigAssumption DEF Holds
    <3>2. Untouched
      BY <1>3, <2>1, <3>1 DEF PersistFails, Kill, Untouched
    <3> QED
      BY <1>0, <2>1, <3>2, FailShown DEF Register!Next
  <2> QED
    BY <2>2, <2>3
<1>4. CASE Show(c) \/ EditNothing(c)
  <2>1. Untouched /\ step'[c] = "ok" /\ step[c] # "start"
    BY <1>4 DEF Show, EditNothing, End, Goto, Untouched, disk, TypeOK
  <2> QED
    BY <1>0, <2>1, ReturnShown DEF Register!Next
<1>5. CASE Read(c)
  <2>1. Untouched /\ step[c] = "opened" /\ step'[c] = "value" /\ views'[c] = views[c]
    BY <1>5 DEF Read, Goto, Untouched, disk, TypeOK, views
  <2> QED
    BY <1>0, <2>1, QuietShown DEF Active
<1>6. CASE Change(c)
  <2>1. Untouched /\ step[c] = "value" /\ step'[c] = "create" /\ views'[c] = views[c]
    BY <1>6 DEF Change, Goto, Untouched, disk, TypeOK, views
  <2> QED
    BY <1>0, <2>1, QuietShown DEF Active, Persisting
<1>7. CASE TakeInput(c)
  <2>1. Untouched /\ phases[c] = "idle" /\ phases'[c] = "active" /\ views'[c] = views[c]
    BY <1>7 DEF TakeInput, Goto, Untouched, disk, TypeOK, views, phases, Active, Persisting
  <2>2. views = [views EXCEPT ![c] = views[c]]
    BY DEF views
  <2> QED
    BY <1>0, <2>1, <2>2, FrameShown, UntouchedShown DEF Register!Begin, Register!Next
<1>8. CASE PreparePath(c) \/ SaveStarts(c) \/ SaveEnds(c)
  <2>1. c \in Editors /\ path' # NoInode
    BY <1>0, <1>8, ConfigAssumption DEF PreparePath, SaveStarts, SaveEnds, Holds, Inodes
  <2>2. step[c] \in {"start", "edit", "save"} /\ step'[c] \in {"edit", "save", "ok"}
    BY <1>8 DEF PreparePath, SaveStarts, SaveEnds, End, Goto, TypeOK
  <2> QED
    BY <1>0, <2>1, <2>2, EditShown DEF Register!Next
<1>9. CASE Create(c) \/ Write(c) \/ Written(c) \/ Sync(c)
  <2>1. /\ path' = path /\ entries' = entries /\ step[c] \in Persisting /\ step'[c] \in Persisting
        /\ source' = source
    BY <1>9 DEF Create, Write, Written, Sync, Goto, TypeOK, Persisting, mind
  <2>2. c \notin Editors
    BY <1>0, <2>1, ConfigAssumption DEF Holds
  <2>3. Untouched
    BY <2>1, <2>2, NoEditorUntouched
  <2>4. views'[c] = views[c]
    BY <2>1 DEF views, Persisting
  <2> QED
    BY <1>0, <2>1, <2>3, <2>4, QuietShown DEF Active
<1> QED
  BY <1>1, <1>2, <1>3, <1>4, <1>5, <1>6, <1>7, <1>8, <1>9, RenameShown DEF CallerStep, Register!Next

\* The kernel's writing back settles the register.
LEMMA FlushShown ==
    ASSUME Flush
    PROVE  Register!Settle
<1>1. UNCHANGED <<path, data, step, arg, fd, source, text>> /\ dirty' = {} /\ entries' = {path}
  BY DEF Flush, mind, ghosts
<1>2. views' = views /\ phases' = phases /\ asked' = asked /\ Text(path)' = Text(path)
  BY <1>1 DEF views, phases, asked, Text
<1>3. keptTexts' = {Text(path)}
  BY <1>1 DEF keptTexts, Text
<1> QED
  BY <1>2, <1>3 DEF Register!Settle

\* After a power failure the file is one of the texts that were kept.
LEMMA PowerShown ==
    ASSUME TypeOK, Sound, PowerFails
    PROVE  Register!PowerFails
<1>0. NoInode \notin Inodes
  BY ConfigAssumption
<1>1. PICK lost \in SUBSET dirty :
          data' = [i \in Inodes |-> IF i \in lost THEN Torn ELSE data[i]]
  BY DEF PowerFails
<1>2. path' \in entries /\ entries' = {path'} /\ dirty' = {} /\ path' \in Inodes \cup {NoInode}
  BY DEF PowerFails, TypeOK
<1>3. Text(path)' \in keptTexts
  <2>1. CASE path' \in lost
    BY <1>0, <1>1, <1>2, <2>1 DEF Text, keptTexts, TypeOK
  <2>2. CASE path' \notin lost
    <3>1. Text(path)' = Text(path')
      BY <1>1, <1>2, <2>2 DEF Text
    <3> QED
      BY <1>2, <3>1 DEF keptTexts
  <2> QED
    BY <2>1, <2>2
<1>4. keptTexts' = {Text(path)'}
  BY <1>2 DEF keptTexts, Text
<1>5. phases' = [x \in Callers |-> IF phases[x] = "active" THEN "error" ELSE phases[x]]
  BY DEF phases, PowerFails, Active, Persisting
<1>6. views' = [x \in Callers |-> NoText] /\ asked' = asked
  BY DEF views, asked, PowerFails, TypeOK, Active, Persisting
<1> QED
  BY <1>3, <1>4, <1>5, <1>6 DEF Register!PowerFails

\* The first states are first states of the register.
LEMMA InitShown == Init => Register!Init
<1> SUFFICES ASSUME Init PROVE Register!Init
  OBVIOUS
<1>1. PICK t \in Inputs :
          Loads(t) /\ data = [i \in Inodes |-> IF i = path THEN t ELSE NoText]
  BY DEF Init
<1>2. Text(path) \in Texts \cup {NoText}
  <2>1. t \in Texts /\ path \in Inodes \cup {NoInode}
    BY <1>1, LoadsDocument DEF Init, Texts, Inodes
  <2> QED
    BY <1>1, <2>1 DEF Text
<1>3. keptTexts = {Text(path)}
  BY DEF Init, keptTexts
<1>4. views = [c \in Callers |-> NoText] /\ phases = [c \in Callers |-> "idle"]
  BY DEF Init, views, phases
<1>5. asked \in [Callers -> Requests]
  BY DEF Init, asked, Requests
<1> QED
  BY <1>2, <1>3, <1>4, <1>5 DEF Register!Init

\* Every step is one of the register, or stutters.
LEMMA StepShown ==
    ASSUME TypeOK, Sound, [Next]_vars
    PROVE  [Register!Next]_(Register!vars)
<1>1. TypeOK' /\ Sound'
  BY SoundStep
<1>2. CASE UNCHANGED vars
  BY <1>2 DEF vars, Register!vars, Text, keptTexts, views, phases, asked
<1>3. CASE Next
  BY <1>1, <1>3, CallShown, FlushShown, PowerShown DEF Next, Register!Next
<1> QED
  BY <1>2, <1>3

\* command.go:164-206,326-356 - for any calls, paths, values and inodes: every
\* call sees the whole file of one moment and replaces it at most once.
THEOREM Implements == Spec => RegisterSpec
<1>1. TypeOK /\ Sound /\ [Next]_vars => [Register!Next]_(Register!vars)
  BY StepShown
<1> QED
  BY <1>1, InitShown, TypeCorrect, PTL DEF Spec, RegisterSpec, Register!Spec
=============================================================================
