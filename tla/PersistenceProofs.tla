------------------------- MODULE PersistenceProofs -------------------------
(***************************************************************************)
(* Proofs about Persistence, for any number of saves that may overlap:     *)
(* types; the state file implements StateStore; and a cleanup whose save   *)
(* met no other loses nothing.                                             *)
(***************************************************************************)
EXTENDS Persistence, TLAPS

\* The files a call of forceSaveState has open.
OpenFiles ==
    \A s \in Savers :
        /\ save[s].at \in {"copying", "writing"} => save[s].inode # None
        /\ save[s].at = "copying" => save[s].from # None
        /\ InProgress(s) => save[s].data # Nothing

\* Nothing newer than the process map is on its way or in a file.
Bounded ==
    /\ \A i \in Inodes : content[i] <= state
    /\ \A s \in Savers : save[s].data <= state

\* Two names never share an inode.
Distinct == \A f, g \in Names : f # g /\ Exists(f) => name[f] # name[g]

\* A save that has met no other one.
Unshared(s) == InProgress(s) /\ ~save[s].shared

Alone == \A r, s \in Savers : Unshared(s) /\ InProgress(r) => r = s

\* What it writes is the backup and the temporary file, under their names; what
\* it renames is its own data, which is no older than what it replaces.
SafeSave(s) ==
    /\ save[s].at = "copying" => save[s].inode = name["bak"]
    /\ save[s].at = "writing" => save[s].inode = name["tmp"] /\ content[name["tmp"]] = Torn
    /\ save[s].at = "rename" /\ Exists("tmp") => content[name["tmp"]] = save[s].data
    /\ Stored <= save[s].data

SavesSafe == \A s \in Savers : Unshared(s) => SafeSave(s)

\* What a cleanup has set out to save is being saved, or was; then nothing else
\* runs any more.  Otherwise its save failed or has met another one.
CleanupServed ==
    /\ cleanup.least <= state
    /\ \A r, s \in cleanup.by : r = s
    /\ \A s \in cleanup.by :
        /\ InProgress(s) => initialized /\ (save[s].shared \/ cleanup.least <= save[s].data)
        /\ ~InProgress(s) => \/ save[s].error \/ save[s].shared
                             \/ cleanup.least <= Stored /\ \A r \in Savers : ~InProgress(r)

-----------------------------------------------------------------------------
(***************************************************************************)
(* Types.                                                                  *)
(***************************************************************************)
LEMMA IdleTyped ==
    ASSUME NEW a \in BOOLEAN, NEW b \in BOOLEAN
    PROVE  /\ Idle(a, b) \in Save /\ Idle(a, b).at = "idle" /\ Idle(a, b).data = Nothing
           /\ Idle(a, b).shared = a /\ Idle(a, b).error = b
BY DEF Idle, Save, Places

LEMMA IdleSaveTyped ==
    IdleSave \in Save /\ IdleSave.at = "idle" /\ IdleSave.data = Nothing /\ ~IdleSave.shared
BY IdleTyped DEF IdleSave

LEMMA InitTyped == Init => TypeOK /\ OpenFiles
<1> SUFFICES ASSUME Init PROVE TypeOK /\ OpenFiles
    OBVIOUS
<1>1. state \in States /\ loaded \in [state : States \cup {Nothing}, error : BOOLEAN]
    BY PersistenceAssumption DEF Init, States, Result
<1>2. save \in [Savers -> Save] /\ OpenFiles
    BY IdleSaveTyped DEF Init, OpenFiles, InProgress
<1>3. cleanup \in Cleanup
    BY DEF Init, Cleanup, NoCleanup
<1>4. name \in [Names -> Inodes \cup {None}] /\ content \in [Inodes -> Contents]
    BY DEF Init, Contents
<1>5. debounced \in BOOLEAN /\ initialized \in BOOLEAN
    BY DEF Init
<1> QED
    BY <1>1, <1>2, <1>3, <1>4, <1>5 DEF TypeOK

\* The contents of an inode that has a name stay, the others may be gone.
LEMMA Kept ==
    ASSUME NEW contents \in [Inodes -> Contents], Keep(contents)
    PROVE  /\ content' \in [Inodes -> Contents]
           /\ \A i \in Inodes : content'[i] \in {contents[i], Torn}
           /\ \A f \in Names : name'[f] \in Inodes => content'[name'[f]] = contents[name'[f]]
BY DEF Keep, Free, Contents

\* Opening a file for writing gives the call an inode.
LEMMA OpenTyped ==
    ASSUME TypeOK, NEW s \in Savers, NEW f \in Names, NEW place \in Places,
           NEW from \in Inodes \cup {None}, Open(s, f, place, from)
    PROVE  /\ name' \in [Names -> Inodes \cup {None}]
           /\ content' \in [Inodes -> Contents]
           /\ save' \in [Savers -> Save]
           /\ save'[s].at = place /\ save'[s].data = save[s].data
           /\ save'[s].inode \in Inodes /\ save'[s].from = from
           /\ save'[s].shared = save[s].shared
           /\ \A r \in Savers \ {s} : save'[r] = save[r]
<1>1. PICK i \in Inodes :
        /\ name' = [name EXCEPT ![f] = i]
        /\ Advance(s, place, from, i)
        /\ content' = [content EXCEPT ![i] = Torn]
    BY DEF Open
<1>2. save[s] \in Save /\ save' = [save EXCEPT ![s] = [save[s] EXCEPT !.at = place, !.from = from, !.inode = i]]
    BY <1>1 DEF TypeOK, Advance
<1>3. [save[s] EXCEPT !.at = place, !.from = from, !.inode = i] \in Save
    BY <1>2 DEF Save
<1>4. save' \in [Savers -> Save] /\ \A r \in Savers \ {s} : save'[r] = save[r]
    BY <1>2, <1>3 DEF TypeOK
<1>5. /\ save'[s].at = place /\ save'[s].data = save[s].data
      /\ save'[s].inode = i /\ save'[s].from = from
      /\ save'[s].shared = save[s].shared
    BY <1>2 DEF TypeOK, Save
<1>6. /\ name' \in [Names -> Inodes \cup {None}]
      /\ content' \in [Inodes -> Contents]
    BY <1>1 DEF TypeOK, Contents
<1> QED
    BY <1>4, <1>5, <1>6

\* Going on to another place closes the files.
LEMMA GoTyped ==
    ASSUME TypeOK, NEW s \in Savers, NEW place \in Places, Go(s, place)
    PROVE  /\ save' \in [Savers -> Save]
           /\ save'[s].at = place /\ save'[s].data = save[s].data
           /\ save'[s].shared = save[s].shared
           /\ \A r \in Savers \ {s} : save'[r] = save[r]
BY DEF TypeOK, Go, Advance, Save

\* Filling an inode changes no other that has a name.
LEMMA FillTyped ==
    ASSUME TypeOK, NEW s \in Savers, NEW c \in Contents, NEW place \in Places,
           Fill(s, c, place)
    PROVE  /\ content' \in [Inodes -> Contents]
           /\ \A i \in Inodes : content'[i] \in {content[i], c, Torn}
           /\ \A f \in Names :
                /\ name'[f] \in Inodes /\ name'[f] # save[s].inode
                      => content'[name'[f]] = content[name'[f]]
                /\ name'[f] \in Inodes /\ name'[f] = save[s].inode
                      => (content[save[s].inode] = Torn => content'[name'[f]] = c)
<1>1. PICK d \in {c, Torn} :
        /\ d # c => content[save[s].inode] \notin {c, Torn}
        /\ Keep([content EXCEPT ![save[s].inode] = d])
    BY DEF Fill
<1> DEFINE contents == [content EXCEPT ![save[s].inode] = d]
<1>2. contents \in [Inodes -> Contents]
    BY DEF TypeOK, Contents
<1>3. /\ content' \in [Inodes -> Contents]
      /\ \A i \in Inodes : content'[i] \in {contents[i], Torn}
      /\ \A f \in Names : name'[f] \in Inodes => content'[name'[f]] = contents[name'[f]]
    <2> HIDE DEF contents
    <2> QED
        BY <1>1, <1>2, Kept DEF contents
<1>4. \A i \in Inodes :
         /\ i # save[s].inode => contents[i] = content[i]
         /\ i = save[s].inode => contents[i] = d
    BY DEF TypeOK
<1>5. content[save[s].inode] = Torn => d = c
    BY <1>1
<1> HIDE DEF contents
<1>6. \A i \in Inodes : content'[i] \in {content[i], c, Torn}
    BY <1>1, <1>3, <1>4
<1>7. ASSUME NEW f \in Names, name'[f] \in Inodes
      PROVE  content'[name'[f]] = contents[name'[f]]
    BY <1>3, <1>7
<1>8. ASSUME NEW f \in Names, name'[f] \in Inodes, name'[f] # save[s].inode
      PROVE  content'[name'[f]] = content[name'[f]]
    BY <1>4, <1>7, <1>8
<1>9. ASSUME NEW f \in Names, name'[f] \in Inodes, name'[f] = save[s].inode,
             content[save[s].inode] = Torn
      PROVE  content'[name'[f]] = c
    BY <1>4, <1>5, <1>7, <1>9
<1> QED
    BY <1>3, <1>6, <1>8, <1>9

LEMMA EndTyped ==
    ASSUME TypeOK, NEW s \in Savers, NEW e \in BOOLEAN,
           save' = [save EXCEPT ![s] = Idle(@.shared, e)]
    PROVE  /\ save' \in [Savers -> Save]
           /\ save'[s].at = "idle" /\ save'[s].data = Nothing
           /\ save'[s].shared = save[s].shared /\ save'[s].error = e
           /\ \A r \in Savers \ {s} : save'[r] = save[r]
<1>1. save[s].shared \in BOOLEAN
    BY DEF TypeOK, Save
<1> QED
    BY <1>1, IdleTyped DEF TypeOK

LEMMA StepTyped ==
    ASSUME TypeOK, OpenFiles, NEW s \in Savers, Step(s)
    PROVE  /\ TypeOK' /\ OpenFiles'
           /\ UNCHANGED <<state, initialized, cleanup, loaded>>
           /\ \A r \in Savers \ {s} : save'[r] = save[r]
           /\ save'[s].shared = save[s].shared
           /\ InProgress(s) /\ (InProgress(s)' => save'[s].data = save[s].data)
           /\ save'[s].data \in {save[s].data, Nothing}
<1> USE DEF InProgress
<1>1. CASE NoBackup(s)
    BY <1>1, GoTyped DEF NoBackup, TypeOK, OpenFiles, Places
<1>2. CASE CopyBegin(s)
    <2>1. Open(s, "bak", "copying", name["file"]) /\ name["file"] \in Inodes
        BY <1>2 DEF CopyBegin, Exists, TypeOK, Names
    <2> HIDE DEF Open
    <2> QED
        BY <1>2, <2>1, OpenTyped, PersistenceAssumption
           DEF CopyBegin, TypeOK, OpenFiles, Names, Places
<1>3. CASE CopyEnd(s)
    <2>1. content[save[s].from] \in Contents
        BY <1>3 DEF CopyEnd, TypeOK, OpenFiles, Save
    <2>2. Go(s, "write") /\ Fill(s, content[save[s].from], "write")
        BY <1>3 DEF CopyEnd, Fill
    <2> QED
        BY <1>3, <2>1, <2>2, FillTyped, GoTyped DEF CopyEnd, TypeOK, OpenFiles, Places
<1>4. CASE CopyFails(s)
    <2>1. name' \in [Names -> Inodes \cup {None}] /\ content' \in [Inodes -> Contents]
        BY <1>4, Kept DEF CopyFails, TypeOK, Names
    <2> QED
        BY <1>4, <2>1, GoTyped DEF CopyFails, TypeOK, OpenFiles, Places
<1>5. CASE WriteBegin(s)
    BY <1>5, OpenTyped, PersistenceAssumption
       DEF WriteBegin, TypeOK, OpenFiles, Names, Places
<1>6. CASE WriteEnd(s)
    <2>1. save[s].data \in Contents
        BY <1>6 DEF WriteEnd, TypeOK, OpenFiles, Save, Contents
    <2>2. Go(s, "rename") /\ Fill(s, save[s].data, "rename")
        BY <1>6 DEF WriteEnd, Fill
    <2> QED
        BY <1>6, <2>1, <2>2, FillTyped, GoTyped DEF WriteEnd, TypeOK, OpenFiles, Places
<1>7. CASE Rename(s)
    BY <1>7, Kept, EndTyped DEF Rename, TypeOK, OpenFiles, Names
<1>8. CASE Fail(s)
    BY <1>8, Kept, EndTyped DEF Fail, TypeOK, OpenFiles
<1> QED
    BY <1>1, <1>2, <1>3, <1>4, <1>5, <1>6, <1>7, <1>8 DEF Step

LEMMA FreshTyped ==
    ASSUME NEW d \in States, NEW b \in BOOLEAN
    PROVE  /\ Fresh(d, b) \in Save /\ Fresh(d, b).at = "backup" /\ Fresh(d, b).data = d
           /\ Fresh(d, b).shared = b
BY DEF Fresh, Save, Places

\* A call begins with the current state; those that run have met another then.
LEMMA BeginTyped ==
    ASSUME TypeOK, OpenFiles, NEW s \in Savers, Begin(s)
    PROVE  /\ save' \in [Savers -> Save] /\ OpenFiles'
           /\ ~InProgress(s) /\ InProgress(s)' /\ save'[s].data = state
           /\ save'[s].at = "backup"
           /\ save'[s].shared <=> \E r \in Savers : InProgress(r)
           /\ \A r \in Savers \ {s} :
                 /\ InProgress(r)' <=> InProgress(r)
                 /\ InProgress(r) => save'[r].shared
                 /\ save'[r].data \in {save[r].data, Nothing}
                 /\ InProgress(r) => save'[r].data = save[r].data
<1> USE DEF InProgress
<1> DEFINE others == {r \in Savers : InProgress(r)}
<1>1. /\ Fresh(state, others # {}) \in Save /\ Fresh(state, others # {}).at = "backup"
      /\ Fresh(state, others # {}).data = state /\ state # Nothing
      /\ Fresh(state, others # {}).shared <=> (others # {})
    <2>1. (others # {}) \in BOOLEAN /\ state \in States
        BY DEF TypeOK
    <2> HIDE DEF others
    <2>2. \A b \in BOOLEAN : Fresh(state, b) \in Save
        BY <2>1, FreshTyped
    <2>3. Fresh(state, others # {}) \in Save
        BY <2>1, <2>2
    <2>4. /\ Fresh(state, others # {}).at = "backup"
          /\ Fresh(state, others # {}).data = state
        BY DEF Fresh
    <2>5. Fresh(state, others # {}).shared <=> (others # {})
        BY DEF Fresh
    <2>6. state # Nothing
        BY <2>1 DEF States, Nothing
    <2> QED
        BY <2>3, <2>4, <2>5, <2>6
<1>2. ~InProgress(s)
    BY DEF Begin
<1>3. \A r \in Savers : save[r] \in Save
    BY DEF TypeOK
<1>4. \A r \in Savers \ {s} :
         IF r \in others THEN save'[r] = [save[r] EXCEPT !.shared = TRUE]
                         ELSE save'[r] = IdleSave
    BY DEF Begin
<1>5. save'[s] = Fresh(state, others # {}) /\ save' = [r \in Savers |-> save'[r]]
    BY DEF Begin
<1>6. \A r \in Savers \ {s} :
         IF r \in others
            THEN /\ save'[r] \in Save /\ save'[r].shared /\ save'[r].at = save[r].at
                 /\ save'[r].data = save[r].data /\ save'[r].inode = save[r].inode
                 /\ save'[r].from = save[r].from
            ELSE save'[r] \in Save /\ save'[r].at = "idle" /\ save'[r].data = Nothing
    <2> TAKE r \in Savers \ {s}
    <2>1. [save[r] EXCEPT !.shared = TRUE] \in Save
        BY <1>3 DEF Save
    <2>2. CASE r \in others
        <3>1. save'[r] = [save[r] EXCEPT !.shared = TRUE] /\ save[r] \in Save
            BY <1>3, <1>4, <2>2
        <3> QED
            BY <2>1, <2>2, <3>1 DEF Save
    <2>3. CASE r \notin others
        BY <1>4, <2>3, IdleSaveTyped
    <2> QED
        BY <2>2, <2>3
<1>7. save' \in [Savers -> Save]
    BY <1>1, <1>5, <1>6
<1>8. OpenFiles'
    BY <1>1, <1>5, <1>6 DEF OpenFiles
<1> QED
    BY <1>1, <1>2, <1>5, <1>6, <1>7, <1>8

LEMMA ReadTyped ==
    ASSUME TypeOK
    PROVE  /\ ReadState \in [state : States \cup {Nothing}, error : BOOLEAN]
           /\ LoadError \in [state : States \cup {Nothing}, error : BOOLEAN]
BY DEF TypeOK, ReadState, LoadFromBackup, LoadError, Result, Whole, Exists, Contents, Names

LEMMA NextTyped == TypeOK /\ OpenFiles /\ [Next]_vars => TypeOK' /\ OpenFiles'
<1> SUFFICES ASSUME TypeOK, OpenFiles, [Next]_vars PROVE TypeOK' /\ OpenFiles'
    OBVIOUS
<1> USE DEF InProgress
<1>1. ASSUME NEW s \in Savers, ForceSave(s) PROVE TypeOK' /\ OpenFiles'
    BY <1>1, BeginTyped DEF ForceSave, TypeOK
<1>2. ASSUME NEW s \in Savers, DebouncedSave(s) PROVE TypeOK' /\ OpenFiles'
    BY <1>2, BeginTyped DEF DebouncedSave, TypeOK
<1>3. ASSUME NEW s \in Savers, CleanupBegin(s) PROVE TypeOK' /\ OpenFiles'
    BY <1>3, BeginTyped DEF CleanupBegin, TypeOK, Cleanup
<1>4. ASSUME NEW s \in Savers, Step(s) PROVE TypeOK' /\ OpenFiles'
    BY <1>4, StepTyped
<1>5. CASE Change
    BY <1>5, PersistenceAssumption DEF Change, TypeOK, OpenFiles, States
<1>6. CASE SaveState
    BY <1>6 DEF SaveState, TypeOK, OpenFiles
<1>7. CASE CleanupEnd
    BY <1>7 DEF CleanupEnd, TypeOK, OpenFiles
<1>8. CASE Crash
    BY <1>8, Kept, IdleSaveTyped DEF Crash, TypeOK, OpenFiles, Cleanup, NoCleanup
<1>9. CASE Restart
    <2>1. state' \in States
        BY <1>9, PersistenceAssumption DEF Restart, TypeOK, States
    <2>2. save' \in [Savers -> Save] /\ OpenFiles'
        BY <1>9, IdleSaveTyped DEF Restart, OpenFiles
    <2>3. cleanup' \in Cleanup /\ initialized' \in BOOLEAN
        BY <1>9 DEF Restart, Cleanup, NoCleanup
    <2>4. loaded' \in [state : States \cup {Nothing}, error : BOOLEAN]
        BY <1>9, ReadTyped DEF Restart
    <2> QED
        BY <1>9, <2>1, <2>2, <2>3, <2>4 DEF Restart, TypeOK
<1>10. CASE UNCHANGED vars
    BY <1>10 DEF vars, TypeOK, OpenFiles
<1> QED
    BY <1>1, <1>2, <1>3, <1>4, <1>5, <1>6, <1>7, <1>8, <1>9, <1>10 DEF Next

\* Whatever number of saves overlap, the variables keep their types: what a
\* load returns has been parsed, and a save has data and open files.
THEOREM TypeCorrect == SafeSpec => []TypeOK
<1>1. SafeSpec => [](TypeOK /\ OpenFiles)
    BY InitTyped, NextTyped, PTL DEF SafeSpec
<1> QED
    BY <1>1, PTL
-----------------------------------------------------------------------------
(***************************************************************************)
(* The inductive invariant.                                                *)
(***************************************************************************)
IInv == TypeOK /\ OpenFiles /\ Bounded /\ Distinct /\ Alone /\ SavesSafe /\ CleanupServed

LEMMA InitHolds == Init => IInv
<1> SUFFICES ASSUME Init PROVE IInv
    OBVIOUS
<1>1. \A s \in Savers : ~InProgress(s) /\ save[s].data = 0
    BY IdleSaveTyped DEF Init, InProgress, Nothing
<1>2. Bounded
    BY <1>1 DEF Init, Bounded, Torn
<1>3. Distinct
    BY DEF Init, Distinct, Exists
<1>4. Alone /\ SavesSafe
    BY <1>1 DEF Alone, SavesSafe, Unshared
<1>5. CleanupServed
    BY DEF Init, CleanupServed, NoCleanup, Nothing
<1> QED
    BY <1>2, <1>3, <1>4, <1>5, InitTyped DEF IInv

LEMMA Numbers ==
    ASSUME TypeOK
    PROVE  /\ state \in Nat /\ cleanup.least \in Nat
           /\ \A s \in Savers : save[s].data \in Nat /\ save[s].shared \in BOOLEAN
           /\ \A i \in Inodes : content[i] \in Int /\ content[i] >= -1
           /\ Stored \in Int /\ Stored >= -1 /\ (Stored # Torn => Stored \in Nat)
<1>1. States \cup {Nothing} \subseteq Nat /\ Contents \subseteq Int
    BY PersistenceAssumption DEF States, Nothing, Contents, Torn
<1>2. state \in Nat /\ cleanup.least \in Nat
    BY <1>1 DEF TypeOK, Cleanup
<1>3. \A s \in Savers : save[s].data \in Nat /\ save[s].shared \in BOOLEAN
    BY <1>1 DEF TypeOK, Save
<1>4. \A i \in Inodes : content[i] \in Int /\ content[i] >= -1 /\ (content[i] # Torn => content[i] \in Nat)
    BY <1>1 DEF TypeOK, Contents, Torn, States
<1>5. Stored \in Int /\ Stored >= -1 /\ (Stored # Torn => Stored \in Nat)
    BY <1>4 DEF TypeOK, Stored, Exists, Nothing, Names
<1> QED
    BY <1>2, <1>3, <1>4, <1>5

-----------------------------------------------------------------------------
(***************************************************************************)
(* The steps of a save.                                                    *)
(***************************************************************************)

\* The backup and the temporary file are opened under their own names.
LEMMA OpenElsewhere ==
    ASSUME TypeOK, Distinct, NEW s \in Savers, NEW f \in {"tmp", "bak"}, NEW place \in Places,
           NEW from \in Inodes \cup {None}, Open(s, f, place, from)
    PROVE  /\ Distinct' /\ Stored' = Stored
           /\ save'[s].inode = name'[f] /\ content'[name'[f]] = Torn
           /\ \A i \in Inodes : content'[i] \in {content[i], Torn}
<1>1. PICK i \in Inodes :
        /\ IF Exists(f) THEN i = name[f] ELSE Free(i)
        /\ name' = [name EXCEPT ![f] = i]
        /\ Advance(s, place, from, i)
        /\ content' = [content EXCEPT ![i] = Torn]
    BY DEF Open
<1>2. f \in Names /\ name'[f] = i /\ \A g \in Names \ {f} : name'[g] = name[g] /\ name[g] # i
    BY <1>1, PersistenceAssumption DEF TypeOK, Distinct, Exists, Free, Names
<1>3. Distinct'
    BY <1>2, PersistenceAssumption DEF Distinct, Exists
<1>4. Stored' = Stored
    BY <1>1, <1>2 DEF Stored, Exists, TypeOK, Names
<1>5. save'[s].inode = i
    BY <1>1 DEF Advance, TypeOK, Save
<1> QED
    BY <1>1, <1>2, <1>3, <1>4, <1>5 DEF TypeOK

\* A step of a save: what it does to the files.  If it meets no other save, it
\* replaces the stored state by its own when it renames, and never else.
LEMMA StepFiles ==
    ASSUME TypeOK, OpenFiles, Bounded, Distinct, NEW s \in Savers, Step(s)
    PROVE  /\ Bounded' /\ Distinct'
           /\ Unshared(s) /\ SafeSave(s)
                => /\ Stored' \in {Stored, save[s].data} /\ Stored <= Stored'
                   /\ Unshared(s)' => SafeSave(s)'
                   /\ ~InProgress(s)' => save'[s].error \/ Stored' = save[s].data
<1>0. /\ TypeOK' /\ OpenFiles' /\ state' = state
      /\ state \in Nat /\ save[s].data \in Nat /\ save[s].data <= state
      /\ save[s].data \in Contents \cup {Nothing}
      /\ \A i \in Inodes : content[i] <= state /\ content[i] \in Contents
      /\ Torn <= state /\ Stored \in Int
      /\ \A r \in Savers : save'[r].data <= state
    <2>1. /\ TypeOK' /\ OpenFiles' /\ state' = state
          /\ \A r \in Savers \ {s} : save'[r] = save[r]
          /\ save'[s].data \in {save[s].data, Nothing}
        BY StepTyped
    <2>2. state \in Nat /\ Stored \in Int /\ \A r \in Savers : save[r].data \in Nat
        BY Numbers
    <2>3. Torn <= state /\ Nothing <= state
        BY <2>2 DEF Torn, Nothing
    <2>4. \A r \in Savers : save'[r].data <= state
        BY <2>1, <2>3 DEF Bounded
    <2> QED
        BY <2>1, <2>2, <2>3, <2>4 DEF Bounded, TypeOK, Save, Contents
<1> SUFFICES /\ \A i \in Inodes : content'[i] <= state
             /\ Distinct'
             /\ Unshared(s) /\ SafeSave(s)
                  => /\ Stored' \in {Stored, save[s].data} /\ Stored <= Stored'
                     /\ Unshared(s)' => SafeSave(s)'
                     /\ ~InProgress(s)' => save'[s].error \/ Stored' = save[s].data
    BY <1>0 DEF Bounded
<1> USE <1>0 DEF Unshared, InProgress
<1>1. CASE NoBackup(s)
    <2>1. save'[s].at = "write" /\ save'[s].data = save[s].data /\ Stored' = Stored
        BY <1>1, GoTyped DEF NoBackup, Places, Stored, Exists
    <2> QED
        BY <1>1, <2>1 DEF NoBackup, Distinct, Exists, SafeSave
<1>2. CASE CopyBegin(s)
    <2>1. /\ save'[s].at = "copying" /\ save'[s].data = save[s].data
          /\ Open(s, "bak", "copying", name["file"]) /\ name["file"] \in Inodes \cup {None}
        BY <1>2, OpenTyped DEF CopyBegin, TypeOK, Names, Places
    <2>2. /\ Distinct' /\ Stored' = Stored /\ save'[s].inode = name'["bak"]
          /\ \A i \in Inodes : content'[i] \in {content[i], Torn}
        BY <2>1, OpenElsewhere DEF Places
    <2> QED
        BY <1>2, <2>1, <2>2 DEF SafeSave, Exists
<1>3. CASE CopyEnd(s)
    <2>1. /\ name' = name /\ save'[s].at = "write" /\ save'[s].data = save[s].data
          /\ save[s].at = "copying" /\ save[s].inode # None
          /\ content[save[s].from] \in Contents /\ content[save[s].from] <= state
          /\ Fill(s, content[save[s].from], "write")
        BY <1>3, GoTyped DEF CopyEnd, Fill, Places, OpenFiles, TypeOK, Save
    <2>2. /\ \A i \in Inodes : content'[i] <= state
          /\ Exists("file") /\ save[s].inode = name["bak"]
                => content'[name["file"]] = content[name["file"]]
        BY <2>1, FillTyped DEF Distinct, Exists, TypeOK, Names, Places
    <2>3. Unshared(s) /\ SafeSave(s) => Stored' = Stored
        BY <2>1, <2>2 DEF SafeSave, Stored, Exists
    <2> QED
        BY <2>1, <2>2, <2>3 DEF SafeSave, Distinct, Exists
<1>4. CASE CopyFails(s)
    <2>1. /\ save'[s].at = "write" /\ save'[s].data = save[s].data
          /\ name' = [name EXCEPT !["bak"] = None] /\ Keep(content)
        BY <1>4, GoTyped DEF CopyFails, Places
    <2>2. /\ \A i \in Inodes : content'[i] \in {content[i], Torn}
          /\ name'["file"] = name["file"]
          /\ Exists("file") => content'[name["file"]] = content[name["file"]]
        BY <2>1, Kept DEF TypeOK, Names, Exists
    <2>3. Stored' = Stored /\ Distinct'
        BY <2>1, <2>2 DEF Stored, Distinct, Exists, TypeOK, Names
    <2> QED
        BY <2>1, <2>2, <2>3 DEF SafeSave
<1>5. CASE WriteBegin(s)
    <2>1. /\ save'[s].at = "writing" /\ save'[s].data = save[s].data
          /\ Open(s, "tmp", "writing", None)
        BY <1>5, OpenTyped DEF WriteBegin, Names, Places
    <2>2. /\ Distinct' /\ Stored' = Stored /\ save'[s].inode = name'["tmp"]
          /\ content'[name'["tmp"]] = Torn
          /\ \A i \in Inodes : content'[i] \in {content[i], Torn}
        BY <2>1, OpenElsewhere DEF Places
    <2> QED
        BY <2>1, <2>2 DEF SafeSave
<1>6. CASE WriteEnd(s)
    <2>1. /\ name' = name /\ save'[s].at = "rename" /\ save'[s].data = save[s].data
          /\ save[s].at = "writing" /\ save[s].inode \in Inodes
          /\ save[s].data \in Contents
          /\ Fill(s, save[s].data, "rename")
        BY <1>6, GoTyped DEF WriteEnd, Fill, Places, OpenFiles, TypeOK, Save, Contents
    <2>2. /\ \A i \in Inodes : content'[i] <= state
          /\ Exists("file") /\ save[s].inode = name["tmp"]
                => content'[name["file"]] = content[name["file"]]
          /\ save[s].inode = name["tmp"] /\ content[name["tmp"]] = Torn
                => content'[name["tmp"]] = save[s].data
        BY <2>1, FillTyped DEF Distinct, Exists, TypeOK, Names, Places
    <2>3. Unshared(s) /\ SafeSave(s) => Stored' = Stored
        BY <2>1, <2>2 DEF SafeSave, Stored, Exists
    <2> QED
        BY <2>1, <2>2, <2>3 DEF SafeSave, Distinct, Exists
<1>7. CASE Rename(s)
    <2>1. /\ save[s].at = "rename" /\ Exists("tmp") /\ save'[s].at = "idle"
          /\ name' = [name EXCEPT !["file"] = name["tmp"], !["tmp"] = None]
          /\ Keep(content)
        BY <1>7, EndTyped DEF Rename
    <2>2. /\ \A i \in Inodes : content'[i] \in {content[i], Torn}
          /\ name'["file"] = name["tmp"] /\ name["tmp"] \in Inodes
          /\ content'[name["tmp"]] = content[name["tmp"]]
        BY <2>1, Kept DEF TypeOK, Names, Exists
    <2>3. Distinct'
        BY <2>1 DEF Distinct, Exists, TypeOK, Names
    <2>4. SafeSave(s) => Stored' = save[s].data
        BY <2>1, <2>2, PersistenceAssumption DEF SafeSave, Stored, Exists
    <2> QED
        BY <2>1, <2>2, <2>3, <2>4 DEF SafeSave
<1>8. CASE Fail(s)
    <2>1. /\ save'[s].at = "idle" /\ save'[s].error /\ name' = name /\ Keep(content)
        BY <1>8, EndTyped DEF Fail
    <2>2. /\ \A i \in Inodes : content'[i] \in {content[i], Torn}
          /\ Exists("file") => content'[name["file"]] = content[name["file"]]
        BY <2>1, Kept DEF TypeOK, Names, Exists
    <2>3. Stored' = Stored /\ Distinct'
        BY <2>1, <2>2 DEF Stored, Distinct, Exists
    <2> QED
        BY <2>1, <2>2, <2>3
<1> QED
    BY <1>1, <1>2, <1>3, <1>4, <1>5, <1>6, <1>7, <1>8 DEF Step

\* A step of a save preserves the invariant: an unshared one is alone, and the
\* save of a cleanup is served or no longer alone.
LEMMA StepInv ==
    ASSUME IInv, NEW s \in Savers, Step(s)
    PROVE  IInv' /\ (~Overlap => Stored' \in {Stored, save[s].data} /\ Stored <= Stored')
<1>0. /\ TypeOK /\ OpenFiles /\ Bounded /\ Distinct /\ Alone /\ SavesSafe /\ CleanupServed
      /\ TypeOK' /\ OpenFiles' /\ UNCHANGED <<state, initialized, cleanup>>
      /\ \A r \in Savers \ {s} : save'[r] = save[r]
      /\ save'[s].shared = save[s].shared
      /\ InProgress(s) /\ (InProgress(s)' => save'[s].data = save[s].data)
      /\ Bounded' /\ Distinct'
    BY StepTyped, StepFiles DEF IInv
<1>1. Unshared(s)
         => /\ Stored' \in {Stored, save[s].data} /\ Stored <= Stored'
            /\ Unshared(s)' => SafeSave(s)'
            /\ ~InProgress(s)' => save'[s].error \/ Stored' = save[s].data
            /\ \A r \in Savers \ {s} : ~InProgress(r) /\ ~InProgress(r)'
    BY <1>0, StepFiles DEF SavesSafe, Alone, InProgress
<1>2. \A r \in Savers : Unshared(r) => r = s
    BY <1>0 DEF Alone
<1>3. Alone'
    BY <1>0 DEF Alone, Unshared, InProgress
<1>4. SavesSafe'
    BY <1>0, <1>1, <1>2 DEF SavesSafe, Unshared, InProgress
<1>5. CleanupServed'
    <2>1. ASSUME NEW r \in cleanup.by
          PROVE  /\ InProgress(r)' => initialized /\ (save'[r].shared \/ cleanup.least <= save'[r].data)
                 /\ ~InProgress(r)' => \/ save'[r].error \/ save'[r].shared
                                      \/ /\ cleanup.least <= Stored'
                                         /\ \A q \in Savers : ~InProgress(q)'
        <3>0. r \in Savers
            BY <1>0 DEF TypeOK, Cleanup
        <3>1. CASE r # s
            BY <1>0, <2>1, <3>0, <3>1 DEF CleanupServed, InProgress
        <3>2. CASE r = s
            BY <1>0, <1>1, <2>1, <3>0, <3>2 DEF CleanupServed, Unshared
        <3> QED
            BY <3>1, <3>2
    <2> QED
        BY <1>0, <2>1 DEF CleanupServed
<1>6. ~Overlap => Unshared(s)
    BY <1>0 DEF Overlap, Unshared
<1> QED
    BY <1>0, <1>1, <1>3, <1>4, <1>5, <1>6 DEF IInv

\* A save begins with the current state; where it is not alone, all are shared.
LEMMA BeginInv ==
    ASSUME IInv, NEW s \in Savers, Begin(s),
           UNCHANGED <<state, name, content, initialized>>,
           \/ cleanup' = cleanup
           \/ cleanup.by = {} /\ cleanup' = [by |-> {s}, least |-> state],
           TypeOK'
    PROVE  IInv' /\ Stored' = Stored
<1>0. /\ TypeOK /\ OpenFiles /\ Bounded /\ Distinct /\ Alone /\ SavesSafe /\ CleanupServed
      /\ OpenFiles'
      /\ ~InProgress(s) /\ InProgress(s)' /\ save'[s].data = state
      /\ save'[s].at = "backup"
      /\ save'[s].shared <=> \E r \in Savers : InProgress(r)
      /\ \A r \in Savers \ {s} :
            /\ InProgress(r)' <=> InProgress(r)
            /\ InProgress(r) => save'[r].shared
            /\ save'[r].data \in {save[r].data, Nothing}
            /\ InProgress(r) => save'[r].data = save[r].data
    BY BeginTyped DEF IInv
<1>1. state \in Nat /\ initialized /\ ~Closing
    BY <1>0, Numbers DEF Begin
<1>2. Stored' = Stored /\ Stored <= state
    <2>1. Stored' = Stored
        BY DEF Stored, Exists
    <2>2. Stored <= state
        BY <1>0, <1>1 DEF Stored, Exists, TypeOK, Bounded, Names, Nothing
    <2> QED
        BY <2>1, <2>2
<1>3. Bounded'
    BY <1>0, <1>1 DEF Bounded, Nothing
<1>4. Distinct'
    BY <1>0 DEF Distinct, Exists
<1>5. Alone'
    BY <1>0 DEF Alone, Unshared
<1>6. SavesSafe'
    <2>1. SafeSave(s)'
        BY <1>0, <1>2 DEF SafeSave
    <2> QED
        BY <1>0, <2>1 DEF SavesSafe, Unshared
<1>7. CleanupServed'
    <2>1. CASE cleanup' = cleanup
        <3>1. cleanup.by # {} => \E r \in cleanup.by : InProgress(r)
            BY <1>1 DEF Closing
        <3>2. \A r \in cleanup.by : InProgress(r) /\ r \in Savers /\ r # s
            BY <1>0, <3>1 DEF CleanupServed, TypeOK, Cleanup
        <3> QED
            BY <1>0, <1>1, <2>1, <3>2 DEF CleanupServed
    <2>2. CASE cleanup' = [by |-> {s}, least |-> state]
        <3>1. cleanup'.by = {s} /\ cleanup'.least = state /\ state <= state
            BY <1>1, <2>2
        <3> QED
            BY <1>0, <1>1, <3>1 DEF CleanupServed
    <2> QED
        BY <2>1, <2>2
<1> QED
    BY <1>0, <1>2, <1>3, <1>4, <1>5, <1>6, <1>7 DEF IInv

-----------------------------------------------------------------------------
(***************************************************************************)
(* The other steps, and all of them.                                       *)
(***************************************************************************)
\* Where no save runs, the invariant says little.
LEMMA QuietInv ==
    ASSUME IInv, TypeOK', OpenFiles',
           \A s \in Savers : save'[s] = IdleSave,
           state <= state',
           name' = name, \A i \in Inodes : content'[i] \in {content[i], Torn},
           cleanup' = NoCleanup
    PROVE  IInv'
<1>0. /\ Bounded /\ Distinct /\ state \in Nat /\ state' \in Nat
      /\ \A i \in Inodes : content[i] \in Int
    <2>1. (TypeOK => state \in Nat)'
        BY Numbers, PTL
    <2> QED
        BY <2>1, Numbers DEF IInv
<1>1. \A s \in Savers : ~InProgress(s)' /\ save'[s].data = 0
    BY IdleSaveTyped DEF InProgress, Nothing
<1>2. Bounded'
    BY <1>0, <1>1 DEF Bounded, Torn
<1>3. Distinct'
    BY <1>0 DEF Distinct, Exists
<1>4. Alone' /\ SavesSafe'
    BY <1>1 DEF Alone, SavesSafe, Unshared
<1>5. CleanupServed'
    BY <1>0 DEF CleanupServed, NoCleanup, Nothing
<1> QED
    BY <1>2, <1>3, <1>4, <1>5 DEF IInv

\* In every step the invariant is preserved, and the stored state only grows
\* where saves do not overlap.
LEMMA NextInv ==
    ASSUME IInv, [Next]_vars
    PROVE  IInv' /\ (~Overlap => Stored' = Stored \/ (Stored' \in Nat /\ Stored <= Stored'))
<1>0. /\ TypeOK /\ OpenFiles /\ Bounded /\ Distinct /\ Alone /\ SavesSafe /\ CleanupServed
      /\ TypeOK' /\ OpenFiles'
      /\ state \in Nat /\ Stored \in Int /\ cleanup.least \in Nat
      /\ \A s \in Savers : save[s].data \in Nat
      /\ \A i \in Inodes : content[i] \in Int
    BY NextTyped, Numbers DEF IInv
<1> DEFINE Goal == IInv' /\ (~Overlap => Stored' = Stored \/ (Stored' \in Nat /\ Stored <= Stored'))
<1>1. ASSUME NEW s \in Savers, ForceSave(s) PROVE Goal
    BY <1>0, <1>1, BeginInv DEF ForceSave
<1>2. ASSUME NEW s \in Savers, DebouncedSave(s) PROVE Goal
    BY <1>0, <1>2, BeginInv DEF DebouncedSave
<1>3. ASSUME NEW s \in Savers, CleanupBegin(s) PROVE Goal
    BY <1>0, <1>3, BeginInv DEF CleanupBegin
<1>4. ASSUME NEW s \in Savers, Step(s) PROVE Goal
    BY <1>0, <1>4, StepInv
<1>5. CASE Change
    <2>1. Stored' = Stored /\ state' = state + 1 /\ UNCHANGED <<name, content, save, initialized, cleanup>>
        BY <1>5 DEF Change, Stored, Exists
    <2>2. Bounded' /\ Distinct'
        BY <1>0, <2>1 DEF Bounded, Distinct, Exists
    <2>3. Alone' /\ SavesSafe'
        BY <1>0, <2>1 DEF Alone, SavesSafe, SafeSave, Unshared, InProgress, Exists
    <2>4. CleanupServed'
        BY <1>0, <2>1 DEF CleanupServed, InProgress
    <2> QED
        BY <1>0, <2>1, <2>2, <2>3, <2>4 DEF IInv
<1>6. CASE SaveState \/ UNCHANGED vars
    <2>1. UNCHANGED <<state, name, content, save, initialized, cleanup>> /\ Stored' = Stored
        BY <1>6 DEF SaveState, vars, Stored, Exists
    <2>2. Bounded' /\ Distinct' /\ Alone' /\ SavesSafe'
        BY <1>0, <2>1
           DEF Bounded, Distinct, Alone, SavesSafe, SafeSave, Unshared, InProgress, Exists
    <2>3. CleanupServed'
        BY <1>0, <2>1 DEF CleanupServed, InProgress
    <2> QED
        BY <1>0, <2>1, <2>2, <2>3 DEF IInv
<1>7. CASE CleanupEnd
    <2>1. /\ UNCHANGED <<state, name, content, save, cleanup>> /\ Stored' = Stored
          /\ \A s \in cleanup.by : ~InProgress(s)
        BY <1>7 DEF CleanupEnd, Closing, Stored, Exists
    <2>2. Bounded' /\ Distinct' /\ Alone' /\ SavesSafe'
        BY <1>0, <2>1
           DEF Bounded, Distinct, Alone, SavesSafe, SafeSave, Unshared, InProgress, Exists
    <2>3. CleanupServed'
        BY <1>0, <2>1 DEF CleanupServed, InProgress
    <2> QED
        BY <1>0, <2>1, <2>2, <2>3 DEF IInv
<1>8. CASE Crash
    <2>1. /\ name' = name /\ \A i \in Inodes : content'[i] \in {content[i], Torn}
          /\ Exists("file") => content'[name["file"]] = content[name["file"]]
        BY <1>0, <1>8, Kept DEF Crash, TypeOK, Exists, Names
    <2>2. Stored' = Stored
        BY <2>1 DEF Stored, Exists
    <2>3. IInv'
        BY <1>0, <1>8, <2>1, QuietInv DEF Crash
    <2> QED
        BY <1>0, <2>2, <2>3
<1>9. CASE Restart
    <2>1. Stored' = Stored /\ state <= state'
        BY <1>0, <1>9 DEF Restart, Stored, Exists
    <2>2. IInv'
        BY <1>0, <1>9, <2>1, QuietInv DEF Restart
    <2> QED
        BY <1>0, <2>1, <2>2
<1> QED
    BY <1>1, <1>2, <1>3, <1>4, <1>5, <1>6, <1>7, <1>8, <1>9 DEF Next

LEMMA Invariance == SafeSpec => []IInv
<1>1. IInv /\ [Next]_vars => IInv'
    BY NextInv
<1> QED
    BY InitHolds, <1>1, PTL DEF SafeSpec

-----------------------------------------------------------------------------
(***************************************************************************)
(* The theorems.                                                           *)
(***************************************************************************)

\* What a load returns: the file if it is whole, and the backup only if not.
LEMMA ReadIsStored ==
    ASSUME TypeOK
    PROVE  /\ ReadState.error => ReadState.state = Nothing
           /\ ~ReadState.error => ReadState.state \in Nat
           /\ ~ReadState.error /\ Stored # Torn => ReadState.state = Stored
<1>1. ReadState.state \in Nat
    BY ReadTyped, PersistenceAssumption DEF States, Nothing
<1> QED
    BY <1>1 DEF ReadState, LoadFromBackup, LoadError, Result, Stored, Whole, Exists, Nothing, Torn

\* The next-state action of StateStore.
LEMMA StepImplements ==
    ASSUME IInv, [Next]_vars
    PROVE  [Store!Next]_(Store!vars)
<1>0. TypeOK /\ TypeOK'
    BY NextInv DEF IInv
<1>1. CASE Restart
    <2>1. Stored' = Stored /\ Overlap' = Overlap
        BY <1>1, IdleSaveTyped DEF Restart, Stored, Exists, Overlap, InProgress
    <2>2. loaded' \in {ReadState, LoadError}
        BY <1>1 DEF Restart
    <2> QED
        BY <1>0, <2>1, <2>2, ReadIsStored DEF LoadError, Result, Store!Next, Store!Load
<1>2. CASE UNCHANGED loaded
    <2>1. (TypeOK => Stored \in Int /\ Stored >= -1 /\ (Stored # Torn => Stored \in Nat))'
        BY Numbers, PTL
    <2>2. Overlap' \in BOOLEAN
        BY DEF Overlap
    <2>3. ~Overlap => Stored' = Stored \/ (Stored' \in Nat /\ Stored <= Stored')
        BY NextInv
    <2>4. Stored \in Int
        BY <1>0, Numbers
    <2> QED
        BY <1>0, <1>2, <2>1, <2>2, <2>3, <2>4 DEF Store!Next, Store!Save
<1>3. Restart \/ UNCHANGED loaded
    BY DEF Next, Step, ForceSave, DebouncedSave, CleanupBegin, NoBackup, CopyBegin,
           CopyEnd, CopyFails, WriteBegin, WriteEnd, Rename, Fail, Change, SaveState,
           CleanupEnd, Crash, vars
<1> QED
    BY <1>1, <1>2, <1>3

\* Whatever number of saves run: while they do not overlap, crashes, failures and
\* backups show the state file whole, and never step back to an older state; a
\* load returns it or reports an error.  After an overlap the next save that
\* meets no other leaves a whole and newer file again.
THEOREM Implements == SafeSpec => ImplementsStore
<1>1. Init => Store!Init
    BY IdleSaveTyped
       DEF Init, Store!Init, Stored, Exists, Names, Overlap, InProgress, Result
<1>2. IInv /\ [Next]_vars => [Store!Next]_(Store!vars)
    BY StepImplements
<1> QED
    BY Invariance, <1>1, <1>2, PTL DEF SafeSpec, ImplementsStore, Store!Spec

\* A cleanup that closed persistence has stored the state it set out to save, or
\* a later one, unless its save reported an error or met another save.
THEOREM CleanupIsSafe == SafeSpec => []CleanupKeepsState
<1>1. IInv => CleanupKeepsState
    <2> SUFFICES ASSUME IInv, ~initialized, NEW s \in cleanup.by
                 PROVE  save[s].error \/ save[s].shared \/ Stored >= cleanup.least
        BY DEF CleanupKeepsState
    <2>1. Stored \in Int /\ cleanup.least \in Nat
        BY Numbers DEF IInv
    <2> QED
        BY <2>1 DEF IInv, CleanupServed
<1> QED
    BY Invariance, <1>1, PTL
=============================================================================
