---------------------------- MODULE Persistence ----------------------------
(***************************************************************************)
(* The state file of the process manager,                                  *)
(* src/process-manager/process-persistence.ts, as process-manager.ts uses  *)
(* it: saves, debounced or forced, that copy the file to a backup, write a *)
(* temporary file and rename it; loads that fall back to the backup; and   *)
(* the crash of the daemon between any two of these steps.                 *)
(*                                                                         *)
(* A file is an inode: a writer holds on to the inode it opened, whatever  *)
(* name it gets later.  Contents are the version of the process map that   *)
(* was saved, or torn: truncated or mixed, which JSON.parse refuses.       *)
(*                                                                         *)
(* All saves use the same temporary file and backup, and nothing keeps two *)
(* of them from running at once.  The field `shared' of a save is there to *)
(* observe this: only properties read it.                                  *)
(***************************************************************************)
EXTENDS Integers

CONSTANTS
    Savers,         \* slots for concurrent calls of forceSaveState
    Inodes,         \* enough that a new file finds a free one
    None,           \* no inode
    MaxState        \* bound: states of the process map

ASSUME PersistenceAssumption ==
    /\ Savers # {}
    /\ None \notin Inodes
    /\ MaxState \in Nat \ {0}

VARIABLES
    state,          \* the version of the process map, counted over restarts
    name,           \* file name -> inode or None
    content,        \* Inodes -> contents
    save,           \* Savers -> a call of forceSaveState
    debounced,      \* is the timer of the debounced save set?
    initialized,    \* isInitialized, FALSE also while the daemon is down
    cleanup,        \* progress of ProcessManager.cleanup
    loaded          \* the result of the last loadState

vars == <<state, name, content, save, debounced, initialized, cleanup,
          loaded>>

-----------------------------------------------------------------------------
States == 1..MaxState

\* The empty array: the result of a load that finds nothing.
Nothing == 0

Torn == -1

Names == {"file", "tmp", "bak"}

Contents == States \cup {Torn}

\* Where a save is suspended: before the backup; in copyFile; before and in
\* writeFile; before rename.
Places == {"idle", "backup", "copying", "write", "writing", "rename"}

\* `from' and `inode' are the open files it copies from and writes to; `shared'
\* says that another save ran at the same time, `error' that it has emitted
\* 'save-error'.  Both stay until another save begins.
Save == [at : Places, data : States \cup {Nothing},
         from : Inodes \cup {None}, inode : Inodes \cup {None},
         shared : BOOLEAN, error : BOOLEAN]

Idle(shared, error) ==
    [at |-> "idle", data |-> Nothing, from |-> None, inode |-> None,
     shared |-> shared, error |-> error]

IdleSave == Idle(FALSE, FALSE)

\* A call that is about to save d.
Fresh(d, shared) ==
    [at |-> "backup", data |-> d, from |-> None, inode |-> None,
     shared |-> shared, error |-> FALSE]

\* `by' is the save the last cleanup awaits, or has awaited; `least' the state
\* it has set out to save.
Cleanup == [by : SUBSET Savers, least : States \cup {Nothing}]

NoCleanup == [by |-> {}, least |-> Nothing]

TypeOK ==
    /\ state \in States
    /\ name \in [Names -> Inodes \cup {None}]
    /\ content \in [Inodes -> Contents]
    /\ save \in [Savers -> Save]
    /\ debounced \in BOOLEAN /\ initialized \in BOOLEAN
    /\ cleanup \in Cleanup
    /\ loaded \in [state : States \cup {Nothing}, error : BOOLEAN]

Exists(f) == name[f] # None

Whole(f) == Exists(f) /\ content[name[f]] # Torn

\* An inode no name and no open file refers to.
Free(i) ==
    /\ \A f \in Names : name[f] # i
    /\ \A s \in Savers : i \notin {save[s].from, save[s].inode}

\* These are the contents after the step.  An inode it frees is gone.
Keep(contents) ==
    content' = [i \in Inodes |-> IF Free(i)' THEN Torn ELSE contents[i]]

\* Call s goes on to a place, with these files open.
Advance(s, place, from, inode) ==
    save' = [save EXCEPT ![s] = [@ EXCEPT !.at = place, !.from = from,
                                         !.inode = inode]]

Go(s, place) == Advance(s, place, None, None)

-----------------------------------------------------------------------------
(***************************************************************************)
(* Requests.                                                               *)
(***************************************************************************)

\* The processes change.
Change ==
    /\ initialized /\ state < MaxState
    /\ state' = state + 1
    /\ UNCHANGED <<name, content, save, debounced, initialized, cleanup, loaded>>

\* saveState: (re)start the timer of the debounced save.
SaveState ==
    /\ initialized /\ debounced' = TRUE
    /\ UNCHANGED <<state, name, content, save, initialized, cleanup, loaded>>

InProgress(s) == save[s].at # "idle"

\* The save of a cleanup is over: its `await' returns in the same turn.
Closing == cleanup.by # {} /\ \A s \in cleanup.by : ~InProgress(s)

\* forceSaveState up to its first await: the data is collected now.
Begin(s) ==
    LET others == {r \in Savers : InProgress(r)} IN
    /\ initialized /\ ~Closing /\ ~InProgress(s)
    /\ save' = [r \in Savers |->
                  IF r = s THEN Fresh(state, others # {})
                  ELSE IF r \in others THEN [save[r] EXCEPT !.shared = TRUE]
                  ELSE IdleSave]

ForceSave(s) ==
    /\ Begin(s)
    /\ UNCHANGED <<state, name, content, debounced, initialized, cleanup, loaded>>

DebouncedSave(s) ==
    /\ debounced /\ debounced' = FALSE
    /\ Begin(s)
    /\ UNCHANGED <<state, name, content, initialized, cleanup, loaded>>

-----------------------------------------------------------------------------
(***************************************************************************)
(* The steps of forceSaveState.                                            *)
(***************************************************************************)

\* Open a file for writing: its contents are gone, a missing file is made.
Open(s, f, place, from) ==
    \E i \in Inodes :
        /\ IF Exists(f) THEN i = name[f]
                        ELSE Free(i) /\ i = CHOOSE j \in Inodes : Free(j)
        /\ name' = [name EXCEPT ![f] = i]
        /\ Advance(s, place, from, i)
        /\ content' = [content EXCEPT ![i] = Torn]

\* Write c into the open inode from its start, and go on.  What another writer
\* has put there meanwhile is overwritten, or its end stays behind.
Fill(s, c, place) ==
    /\ Go(s, place)
    /\ \E d \in {c, Torn} :
          /\ d # c => content[save[s].inode] \notin {c, Torn}
          /\ Keep([content EXCEPT ![save[s].inode] = d])

\* Nothing to copy, or copyFile cannot open its files: go on to the write.
NoBackup(s) ==
    /\ save[s].at = "backup"
    /\ Go(s, "write")
    /\ UNCHANGED <<state, name, content, debounced, initialized, cleanup, loaded>>

CopyBegin(s) ==
    /\ save[s].at = "backup" /\ Exists("file")
    /\ Open(s, "bak", "copying", name["file"])
    /\ UNCHANGED <<state, debounced, initialized, cleanup, loaded>>

CopyEnd(s) ==
    /\ save[s].at = "copying"
    /\ name' = name /\ Fill(s, content[save[s].from], "write")
    /\ UNCHANGED <<state, debounced, initialized, cleanup, loaded>>

\* copyFile fails and removes its destination.
CopyFails(s) ==
    /\ save[s].at = "copying"
    /\ name' = [name EXCEPT !["bak"] = None]
    /\ Go(s, "write") /\ Keep(content)
    /\ UNCHANGED <<state, debounced, initialized, cleanup, loaded>>

\* Mutant of WriteBegin: the state is written in place.
WriteBeginInPlace(s) ==
    /\ save[s].at = "write"
    /\ Open(s, "file", "writing", None)
    /\ UNCHANGED <<state, debounced, initialized, cleanup, loaded>>

WriteBegin(s) ==
    /\ save[s].at = "write"
    /\ Open(s, "tmp", "writing", None)
    /\ UNCHANGED <<state, debounced, initialized, cleanup, loaded>>

WriteEnd(s) ==
    /\ save[s].at = "writing"
    /\ name' = name /\ Fill(s, save[s].data, "rename")
    /\ UNCHANGED <<state, debounced, initialized, cleanup, loaded>>

\* The atomic step of a save.
Rename(s) ==
    /\ save[s].at = "rename" /\ Exists("tmp")
    /\ name' = [name EXCEPT !["file"] = name["tmp"], !["tmp"] = None]
    /\ save' = [save EXCEPT ![s] = Idle(@.shared, FALSE)]
    /\ Keep(content)
    /\ UNCHANGED <<state, debounced, initialized, cleanup, loaded>>

\* mkdir, writeFile or rename fails; rename always does without a source.
Fail(s) ==
    /\ save[s].at \in {"backup", "write", "writing", "rename"}
    /\ name' = name
    /\ save' = [save EXCEPT ![s] = Idle(@.shared, TRUE)]
    /\ Keep(content)
    /\ UNCHANGED <<state, debounced, initialized, cleanup, loaded>>

-----------------------------------------------------------------------------
(***************************************************************************)
(* Loading, cleanup, crash.                                                *)
(***************************************************************************)

\* What a load returns, and whether it has emitted 'load-error'.
Result(d, error) == [state |-> d, error |-> error]

\* A file that cannot be read, or is not a state file: an empty result.
LoadError == Result(Nothing, TRUE)

LoadFromBackup == IF Whole("bak") THEN Result(content[name["bak"]], FALSE) ELSE LoadError

\* A missing file is a first run; a corrupt one sends the load to the backup.
ReadState ==
    IF ~Exists("file") THEN Result(Nothing, FALSE)
    ELSE IF Whole("file") THEN Result(content[name["file"]], FALSE)
    ELSE LoadFromBackup

\* ProcessManager.cleanup awaits a forced save ...
CleanupBegin(s) ==
    /\ cleanup.by = {} /\ Begin(s)
    /\ cleanup' = [by |-> {s}, least |-> state]
    /\ UNCHANGED <<state, name, content, debounced, initialized, loaded>>

\* Mutant of CleanupEnd: the forced save is not awaited.
CleanupEndAtOnce ==
    /\ initialized /\ cleanup.by # {}
    /\ debounced' = FALSE /\ initialized' = FALSE
    /\ UNCHANGED <<state, name, content, save, cleanup, loaded>>

\* ... and then closes persistence, dropping a debounced save.
CleanupEnd ==
    /\ initialized /\ Closing
    /\ debounced' = FALSE /\ initialized' = FALSE
    /\ UNCHANGED <<state, name, content, save, cleanup, loaded>>

\* The daemon dies: its files stay as they are.
Crash ==
    /\ name' = name
    /\ save' = [s \in Savers |-> IdleSave]
    /\ Keep(content)
    /\ debounced' = FALSE /\ initialized' = FALSE
    /\ cleanup' = NoCleanup
    /\ UNCHANGED <<state, loaded>>

\* The next daemon has a process map of its own.  Before anything else it loads.
Restart ==
    /\ ~initialized /\ (\A s \in Savers : ~InProgress(s)) /\ state < MaxState
    /\ state' = state + 1
    /\ initialized' = TRUE
    /\ save' = [s \in Savers |-> IdleSave]
    /\ cleanup' = NoCleanup
    /\ loaded' \in {ReadState, LoadError}
    /\ UNCHANGED <<name, content, debounced>>

-----------------------------------------------------------------------------
Init ==
    /\ state = 1
    /\ name = [f \in Names |-> None]
    /\ content = [i \in Inodes |-> Torn]
    /\ save = [s \in Savers |-> IdleSave]
    /\ debounced = FALSE /\ initialized = TRUE
    /\ cleanup = NoCleanup
    /\ loaded = Result(Nothing, FALSE)

Step(s) ==
    \/ NoBackup(s) \/ CopyBegin(s) \/ CopyEnd(s) \/ CopyFails(s)
    \/ WriteBegin(s) \/ WriteEnd(s) \/ Rename(s) \/ Fail(s)

Next ==
    \/ \E s \in Savers : ForceSave(s) \/ DebouncedSave(s) \/ CleanupBegin(s) \/ Step(s)
    \/ Change \/ SaveState \/ CleanupEnd \/ Crash \/ Restart

SafeSpec == Init /\ [][Next]_vars

-----------------------------------------------------------------------------
(***************************************************************************)
(* Correctness.                                                            *)
(***************************************************************************)
Stored == IF Exists("file") THEN content[name["file"]] ELSE Nothing

\* A save runs that has met another one.
Overlap == \E s \in Savers : InProgress(s) /\ save[s].shared

Store == INSTANCE StateStore
            WITH stored <- Stored, loaded <- loaded, overlap <- Overlap

\* While saves do not overlap, the file is replaced as a whole and only by a
\* later state; a load returns what is stored or reports an error; through
\* crashes and failed saves.  Overlapping saves may leave anything behind, and
\* the next save that meets no other repairs it.
ImplementsStore == Store!Spec

\* Once a cleanup has closed persistence, the state it set out to save is
\* stored, unless its save reported an error or has met another one.
CleanupKeepsState ==
    ~initialized => \A s \in cleanup.by :
        save[s].error \/ save[s].shared \/ Stored >= cleanup.least
=============================================================================
