----------------------------- MODULE KeyedMutex -----------------------------
(***************************************************************************)
(* The keyed FIFO lock of src/process-manager/utils/mutex.ts, used by the  *)
(* process lifecycle manager to serialise the operations on one process.   *)
(*                                                                         *)
(* An asynchronous caller runs withKeyedLock(mutex, key, operation): it    *)
(* acquires the key, runs the operation, releases the key.  A release      *)
(* hands the lock over to the oldest waiter without ever unlocking it; the *)
(* waiter runs on in a later microtask.                                    *)
(*                                                                         *)
(* A key without an entry in the map and a key whose entry is a fresh      *)
(* Mutex behave alike (`get(key)' or else `new Mutex()'), so deleting an   *)
(* entry is modelled as putting a fresh Mutex in its place.                *)
(***************************************************************************)
EXTENDS Naturals, Sequences

CONSTANTS
    Keys,       \* the names that are locked
    Callers     \* the asynchronous calls of withKeyedLock

VARIABLES
    mutexes,    \* Keys -> Mutex: the Map of KeyedMutex
    at,         \* Callers -> where a call of withKeyedLock is suspended
    key         \* Callers -> the key a call is (or was last) about

vars == <<mutexes, at, key>>

Mutex == [locked : BOOLEAN, queue : Seq(Callers)]

FreshMutex == [locked |-> FALSE, queue |-> <<>>]

Places == {"out", "waiting", "entering", "inside"}

TypeOK ==
    /\ mutexes \in [Keys -> Mutex]
    /\ at \in [Callers -> Places]
    /\ key \in [Callers -> Keys]

-----------------------------------------------------------------------------
(***************************************************************************)
(* The class Mutex as functions of its state.                              *)
(***************************************************************************)

\* Mutant of AfterAcquire: the newest waiter is served first.
AfterAcquireInFront(m, c) ==
    IF m.locked THEN [m EXCEPT !.queue = <<c>> \o @]
                ELSE [m EXCEPT !.locked = TRUE]

\* acquire(): take a free lock, or join the end of the queue.
AfterAcquire(m, c) ==
    IF m.locked THEN [m EXCEPT !.queue = Append(@, c)]
                ELSE [m EXCEPT !.locked = TRUE]

\* Mutant of AfterRelease: the lock is free while it is handed over.
AfterReleaseUnlocks(m) ==
    [m EXCEPT !.queue = IF @ # <<>> THEN Tail(@) ELSE @, !.locked = FALSE]

\* release(): stay locked for the next waiter, or unlock.
AfterRelease(m) ==
    IF m.queue # <<>> THEN [m EXCEPT !.queue = Tail(@)]
                      ELSE [m EXCEPT !.locked = FALSE]

\* KeyedMutex.release() also forgets a mutex nobody holds or waits for.
Forget(m) == IF ~m.locked /\ m.queue = <<>> THEN FreshMutex ELSE m

\* The caller a release resumes, as a set: none or one.
Resumed(m) == IF m.queue # <<>> THEN {Head(m.queue)} ELSE {}

-----------------------------------------------------------------------------
Init ==
    /\ mutexes = [k \in Keys |-> FreshMutex]
    /\ at = [c \in Callers |-> "out"]
    /\ key \in [Callers -> Keys]

Acquire(c, k) ==
    /\ at[c] = "out"
    /\ mutexes' = [mutexes EXCEPT ![k] = AfterAcquire(@, c)]
    /\ at' = [at EXCEPT ![c] = IF mutexes[k].locked THEN "waiting" ELSE "entering"]
    /\ key' = [key EXCEPT ![c] = k]

\* The continuation of `await keyedMutex.acquire(key)': the operation begins.
Enter(c) ==
    /\ at[c] = "entering"
    /\ at' = [at EXCEPT ![c] = "inside"]
    /\ UNCHANGED <<mutexes, key>>

\* The `finally' of withKeyedLock.
Release(c) ==
    /\ at[c] = "inside"
    /\ mutexes' = [mutexes EXCEPT ![key[c]] = Forget(AfterRelease(@))]
    /\ at' = [d \in Callers |->
                CASE d = c -> "out"
                  [] d # c /\ d \in Resumed(mutexes[key[c]]) -> "entering"
                  [] OTHER -> at[d]]
    /\ UNCHANGED key

Next ==
    \E c \in Callers :
        \/ \E k \in Keys : Acquire(c, k)
        \/ Enter(c)
        \/ Release(c)

\* Continuations always run; that an operation ends is its own business, so
\* Release is fair only on the assumption that every operation terminates.
Fairness == \A c \in Callers : WF_vars(Enter(c)) /\ WF_vars(Release(c))

SafeSpec == Init /\ [][Next]_vars

Spec == SafeSpec /\ Fairness

-----------------------------------------------------------------------------
Holds(c, k) == key[c] = k /\ at[c] \in {"entering", "inside"}

Waits(c, k) == key[c] = k /\ at[c] = "waiting"

\* Two operations on one key never overlap, the hand-over included: from the
\* moment a release resumes a waiter, that waiter is the only holder.
MutualExclusion ==
    \A c, d \in Callers : \A k \in Keys : Holds(c, k) /\ Holds(d, k) => c = d

Members(q) == {q[i] : i \in 1..Len(q)}

Distinct(q) == \A i, j \in 1..Len(q) : q[i] = q[j] => i = j

\* The queue of a key is exactly the calls suspended in acquire(), each once:
\* no waiter is lost when entries are deleted, and none is resumed twice.
QueueIsWaiters ==
    \A k \in Keys :
        /\ Members(mutexes[k].queue) = {c \in Callers : Waits(c, k)}
        /\ Distinct(mutexes[k].queue)

\* A key is locked exactly while some call holds it; with a free lock nobody
\* is left waiting for a release that will never come.
LockedIffHeld ==
    \A k \in Keys :
        /\ mutexes[k].locked <=> \E c \in Callers : Holds(c, k)
        /\ ~mutexes[k].locked => mutexes[k].queue = <<>>

\* The three together are inductive.
IInv == TypeOK /\ MutualExclusion /\ QueueIsWaiters /\ LockedIffHeld

-----------------------------------------------------------------------------
(***************************************************************************)
(* What the lock promises: one line per key, served in order of arrival.   *)
(* The line is the holder followed by the queue.                           *)
(***************************************************************************)
Line(k) ==
    LET holder == {c \in Callers : Holds(c, k)}
    IN  (IF holder = {} THEN <<>> ELSE <<CHOOSE c \in holder : TRUE>>)
          \o mutexes[k].queue

Served == {c \in Callers : at[c] = "inside"}

Abstract == INSTANCE FifoLock WITH line   <- [k \in Keys |-> Line(k)],
                                   served <- Served

\* The lock implements the FIFO line, fairness included.
ImplementsFifoLock == Abstract!Spec
=============================================================================
