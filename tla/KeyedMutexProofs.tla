--------------------------- MODULE KeyedMutexProofs ---------------------------
(***************************************************************************)
(* The keyed lock for any keys and any number of callers: the invariant    *)
(* IInv of KeyedMutex is inductive.                                        *)
(***************************************************************************)
EXTENDS KeyedMutex, TLAPS

\* A queue that is not empty has a first element, and one less behind it.
LEMMA TailOfQueue ==
    ASSUME NEW q \in Seq(Callers), q # <<>>
    PROVE  /\ Tail(q) \in Seq(Callers)
           /\ Len(q) \in Nat \ {0}
           /\ Len(Tail(q)) = Len(q) - 1
           /\ \A i \in 1..Len(Tail(q)) : Tail(q)[i] = q[i + 1]
           /\ Head(q) = q[1] /\ Head(q) \in Callers
  OBVIOUS

\* Joining a queue adds one member; it stays without duplicates if the
\* newcomer was not in it.
LEMMA AppendMembers ==
    ASSUME NEW q \in Seq(Callers), NEW c \in Callers, c \notin Members(q), Distinct(q)
    PROVE  Members(Append(q, c)) = Members(q) \cup {c} /\ Distinct(Append(q, c))
  <1> DEFINE r == Append(q, c)
  <1>1. /\ Len(q) \in Nat /\ Len(r) = Len(q) + 1
        /\ r[Len(q) + 1] = c /\ \A i \in 1..Len(q) : r[i] = q[i]
    OBVIOUS
  <1>2. Members(r) = Members(q) \cup {c}
    BY <1>1 DEF Members
  <1>3. Distinct(r)
    BY <1>1 DEF Distinct, Members
  <1> QED
    BY <1>2, <1>3

\* Serving the head of a queue removes just that member.
LEMMA TailMembers ==
    ASSUME NEW q \in Seq(Callers), q # <<>>, Distinct(q)
    PROVE  /\ Head(q) \in Members(q)
           /\ Members(Tail(q)) = Members(q) \ {Head(q)}
           /\ Distinct(Tail(q))
  <1> DEFINE r == Tail(q)
  <1>1. /\ Len(q) \in Nat \ {0} /\ Len(r) = Len(q) - 1
        /\ \A i \in 1..Len(r) : r[i] = q[i + 1]
        /\ Head(q) = q[1]
    BY TailOfQueue
  <1>2. Head(q) \in Members(q)
    BY <1>1 DEF Members
  <1>3. ASSUME NEW d \in Members(r) PROVE d \in Members(q) \ {Head(q)}
    <2>1. PICK i \in 1..Len(r) : r[i] = d
      BY DEF Members
    <2>2. i + 1 \in 1..Len(q) /\ i + 1 # 1 /\ q[i + 1] = d
      BY <1>1, <2>1
    <2> QED
      BY <1>1, <2>2 DEF Members, Distinct
  <1>4. ASSUME NEW d \in Members(q) \ {Head(q)} PROVE d \in Members(r)
    <2>1. PICK i \in 1..Len(q) : q[i] = d
      BY DEF Members
    <2>2. i - 1 \in 1..Len(r) /\ r[i - 1] = d
      BY <1>1, <2>1
    <2> QED
      BY <2>2 DEF Members
  <1>5. Distinct(r)
    BY <1>1 DEF Distinct
  <1> QED
    BY <1>2, <1>3, <1>4, <1>5

\* What acquire() makes of a Mutex: it is locked, and c queues if it was.
LEMMA AcquireMutex ==
    ASSUME NEW m \in Mutex, NEW c \in Callers
    PROVE  LET n == AfterAcquire(m, c) IN
           /\ n \in Mutex
           /\ n.locked
           /\ m.locked => n.queue = Append(m.queue, c)
           /\ ~m.locked => n.queue = m.queue
  <1>1. Append(m.queue, c) \in Seq(Callers)
    BY DEF Mutex
  <1>2. CASE m.locked
    BY <1>1, <1>2 DEF AfterAcquire, Mutex
  <1>3. CASE ~m.locked
    BY <1>3 DEF AfterAcquire, Mutex
  <1> QED
    BY <1>2, <1>3

\* What release() makes of a locked Mutex: it is locked for the next waiter,
\* or as good as new.
LEMMA ReleaseMutex ==
    ASSUME NEW m \in Mutex, m.locked
    PROVE  LET n == Forget(AfterRelease(m)) IN
           /\ n \in Mutex
           /\ m.queue # <<>> => n.locked /\ n.queue = Tail(m.queue)
           /\ m.queue = <<>> => ~n.locked /\ n.queue = <<>>
  <1>1. CASE m.queue # <<>>
    <2>1. Tail(m.queue) \in Seq(Callers)
      BY <1>1, TailOfQueue DEF Mutex
    <2> QED
      BY <1>1, <2>1 DEF AfterRelease, Forget, Mutex
  <1>2. CASE m.queue = <<>>
    BY <1>2 DEF AfterRelease, Forget, FreshMutex, Mutex
  <1> QED
    BY <1>1, <1>2

\* The lock starts free, with nobody waiting.
LEMMA InitIInv == Init => IInv
  <1> SUFFICES ASSUME Init PROVE IInv
    OBVIOUS
  <1>1. TypeOK
    BY DEF Init, TypeOK, Mutex, FreshMutex, Places
  <1>2. \A c \in Callers : at[c] = "out"
    BY DEF Init
  <1>3. \A k \in Keys : ~mutexes[k].locked /\ mutexes[k].queue = <<>>
    BY DEF Init, FreshMutex
  <1>4. MutualExclusion
    BY <1>2 DEF MutualExclusion, Holds
  <1>5. QueueIsWaiters
    <2>1. Members(<<>>) = {} /\ Distinct(<<>>)
      BY DEF Members, Distinct
    <2> QED
      BY <1>2, <1>3, <2>1 DEF QueueIsWaiters, Waits
  <1>6. LockedIffHeld
    BY <1>2, <1>3 DEF LockedIffHeld, Holds
  <1> QED
    BY <1>1, <1>4, <1>5, <1>6 DEF IInv

\* A call joins: the lock is taken, or the queue grows at its end.
LEMMA AcquireIInv ==
    ASSUME IInv, NEW c \in Callers, NEW k \in Keys, Acquire(c, k)
    PROVE  IInv'
  <1> DEFINE m == mutexes[k]
             n == mutexes'[k]
             q == m.queue
             r == n.queue
  <1>1. TypeOK /\ MutualExclusion /\ QueueIsWaiters /\ LockedIffHeld
    BY DEF IInv
  <1>2. /\ at[c] = "out"
        /\ at' = [at EXCEPT ![c] = IF m.locked THEN "waiting" ELSE "entering"]
        /\ key' = [key EXCEPT ![c] = k]
        /\ mutexes' = [mutexes EXCEPT ![k] = AfterAcquire(m, c)]
    BY DEF Acquire
  <1>3. m \in Mutex /\ q \in Seq(Callers) /\ m.locked \in BOOLEAN
    BY <1>1 DEF TypeOK, Mutex
  <1>4. /\ n \in Mutex /\ n.locked
        /\ m.locked => r = Append(q, c)
        /\ ~m.locked => r = q
    BY <1>1, <1>2, <1>3, AcquireMutex DEF TypeOK
  <1>5. TypeOK'
    BY <1>1, <1>2, <1>4 DEF TypeOK, Places
  <1>6. \A j \in Keys : ~Holds(c, j) /\ ~Waits(c, j)
    BY <1>2 DEF Holds, Waits
  <1>7. \A d \in Callers \ {c}, j \in Keys :
           (Holds(d, j)' <=> Holds(d, j)) /\ (Waits(d, j)' <=> Waits(d, j))
    BY <1>1, <1>2 DEF Holds, Waits, TypeOK
  <1>8. \A j \in Keys \ {k} :
           mutexes'[j] = mutexes[j] /\ ~Holds(c, j)' /\ ~Waits(c, j)'
    BY <1>1, <1>2 DEF Holds, Waits, TypeOK
  <1>9. (Holds(c, k)' <=> ~m.locked) /\ (Waits(c, k)' <=> m.locked)
    BY <1>1, <1>2 DEF Holds, Waits, TypeOK
  <1>10. ~m.locked => q = <<>> /\ \A d \in Callers : ~Holds(d, k)
    BY <1>1, <1>3 DEF LockedIffHeld
  <1>11. MutualExclusion'
    BY <1>1, <1>7, <1>8, <1>9, <1>10 DEF MutualExclusion
  <1>12. ASSUME NEW j \in Keys
         PROVE  /\ mutexes'[j].locked <=> \E d \in Callers : Holds(d, j)'
                /\ ~mutexes'[j].locked => mutexes'[j].queue = <<>>
    <2>1. CASE j = k
      <3>1. \E d \in Callers : Holds(d, k)'
        BY <1>1, <1>3, <1>6, <1>7, <1>9 DEF LockedIffHeld
      <3> QED
        BY <1>4, <2>1, <3>1
    <2>2. CASE j # k
      BY <1>1, <1>6, <1>7, <1>8, <2>2 DEF LockedIffHeld
    <2> QED
      BY <2>1, <2>2
  <1>13. LockedIffHeld'
    BY <1>12 DEF LockedIffHeld
  <1>14. /\ Members(r) = {d \in Callers : Waits(d, k)'}
         /\ Distinct(r)
    <2>1. Members(q) = {d \in Callers : Waits(d, k)} /\ Distinct(q)
      BY <1>1 DEF QueueIsWaiters
    <2>2. CASE m.locked
      <3>1. c \notin Members(q) /\ Waits(c, k)'
        BY <1>6, <1>9, <2>1, <2>2
      <3>2. Members(r) = Members(q) \cup {c} /\ Distinct(r)
        BY <1>3, <1>4, <2>1, <2>2, <3>1, AppendMembers
      <3> QED
        BY <1>7, <2>1, <3>1, <3>2
    <2>3. CASE ~m.locked
      BY <1>4, <1>6, <1>7, <1>9, <2>1, <2>3
    <2> QED
      BY <2>2, <2>3
  <1>15. ASSUME NEW j \in Keys, j # k
         PROVE  /\ Members(mutexes'[j].queue) = {d \in Callers : Waits(d, j)'}
                /\ Distinct(mutexes'[j].queue)
    <2>1. \A d \in Callers : Waits(d, j)' <=> Waits(d, j)
      BY <1>6, <1>7, <1>8, <1>15
    <2> QED
      BY <1>1, <1>8, <1>15, <2>1 DEF QueueIsWaiters
  <1>16. QueueIsWaiters'
    BY <1>14, <1>15 DEF QueueIsWaiters, Members, Distinct
  <1> QED
    BY <1>5, <1>11, <1>13, <1>16 DEF IInv

\* The operation begins: nothing changes hands.
LEMMA EnterIInv ==
    ASSUME IInv, NEW c \in Callers, Enter(c)
    PROVE  IInv'
  <1> USE DEF IInv, TypeOK, Places
  <1>1. TypeOK'
    BY DEF Enter
  <1>2. \A d \in Callers, k \in Keys :
           (Holds(d, k)' <=> Holds(d, k)) /\ (Waits(d, k)' <=> Waits(d, k))
    BY DEF Enter, Holds, Waits
  <1>3. mutexes' = mutexes
    BY DEF Enter
  <1> QED
    BY <1>1, <1>2, <1>3 DEF MutualExclusion, QueueIsWaiters, LockedIffHeld

\* The lock goes to the first waiter, who leaves the queue, or is set free.
LEMMA ReleaseIInv ==
    ASSUME IInv, NEW c \in Callers, Release(c)
    PROVE  IInv'
  <1>1. TypeOK /\ MutualExclusion /\ QueueIsWaiters /\ LockedIffHeld
    BY DEF IInv
  <1>2. PICK k \in Keys : key[c] = k
    BY <1>1 DEF TypeOK
  <1> DEFINE m == mutexes[k]
             n == mutexes'[k]
             q == m.queue
             r == n.queue
  <1>3. /\ at[c] = "inside"
        /\ mutexes' = [mutexes EXCEPT ![k] = Forget(AfterRelease(m))]
        /\ at' = [d \in Callers |->
                    CASE d = c -> "out"
                      [] d # c /\ d \in Resumed(m) -> "entering"
                      [] OTHER -> at[d]]
        /\ key' = key
    BY <1>2 DEF Release
  <1>4. m \in Mutex /\ q \in Seq(Callers) /\ m.locked \in BOOLEAN
    BY <1>1 DEF TypeOK, Mutex
  <1>5. Holds(c, k) /\ m.locked /\ \A d \in Callers \ {c} : ~Holds(d, k)
    BY <1>1, <1>2, <1>3 DEF Holds, LockedIffHeld, MutualExclusion
  <1>6. /\ n \in Mutex
        /\ q # <<>> => n.locked /\ r = Tail(q)
        /\ q = <<>> => ~n.locked /\ r = <<>>
    BY <1>1, <1>3, <1>4, <1>5, ReleaseMutex DEF TypeOK
  <1>7. Members(q) = {d \in Callers : Waits(d, k)} /\ Distinct(q)
    BY <1>1 DEF QueueIsWaiters
  <1>8. at'[c] = "out" /\ at' \in [Callers -> Places]
    BY <1>1, <1>3 DEF TypeOK, Places
  <1>9. TypeOK'
    BY <1>1, <1>3, <1>6, <1>8 DEF TypeOK
  <1>10. \A j \in Keys : ~Holds(c, j)' /\ ~Waits(c, j)' /\ ~Waits(c, j)
    BY <1>3, <1>8 DEF Holds, Waits
  <1>11. \A j \in Keys \ {k} : mutexes'[j] = mutexes[j] /\ ~Holds(c, j)
    BY <1>1, <1>2, <1>3 DEF Holds, TypeOK
  <1>12. CASE q # <<>>
    <2>1. PICK h \in Callers : h = Head(q)
      BY <1>4, <1>12, TailOfQueue
    <2>2. /\ h \in Members(q) /\ Distinct(r)
          /\ Members(r) = Members(q) \ {h}
      BY <1>4, <1>6, <1>7, <1>12, <2>1, TailMembers
    <2>3. Waits(h, k) /\ h # c
      BY <1>7, <1>10, <2>2
    <2>4. at'[h] = "entering" /\ \A d \in Callers \ {c, h} : at'[d] = at[d]
      BY <1>3, <1>12, <2>1, <2>3 DEF Resumed
    <2>5. /\ Holds(h, k)' /\ ~Waits(h, k)' /\ ~Holds(h, k)
          /\ \A j \in Keys \ {k} :
                ~Holds(h, j)' /\ ~Waits(h, j)' /\ ~Holds(h, j) /\ ~Waits(h, j)
      BY <1>3, <2>3, <2>4 DEF Holds, Waits
    <2>6. \A d \in Callers \ {c, h}, j \in Keys :
             (Holds(d, j)' <=> Holds(d, j)) /\ (Waits(d, j)' <=> Waits(d, j))
      BY <1>3, <2>4 DEF Holds, Waits
    <2>7. MutualExclusion'
      BY <1>1, <1>5, <1>10, <2>5, <2>6 DEF MutualExclusion
    <2>8. ASSUME NEW j \in Keys
          PROVE  /\ mutexes'[j].locked <=> \E d \in Callers : Holds(d, j)'
                 /\ ~mutexes'[j].locked => mutexes'[j].queue = <<>>
      <3>1. CASE j = k
        BY <1>6, <1>12, <2>5, <3>1
      <3>2. CASE j # k
        BY <1>1, <1>10, <1>11, <2>5, <2>6, <3>2 DEF LockedIffHeld
      <3> QED
        BY <3>1, <3>2
    <2>9. LockedIffHeld'
      BY <2>8 DEF LockedIffHeld
    <2>10. Members(r) = {d \in Callers : Waits(d, k)'}
      BY <1>7, <1>10, <2>2, <2>5, <2>6
    <2>11. ASSUME NEW j \in Keys, j # k
           PROVE  /\ Members(mutexes'[j].queue) = {d \in Callers : Waits(d, j)'}
                  /\ Distinct(mutexes'[j].queue)
      <3>1. \A d \in Callers : Waits(d, j)' <=> Waits(d, j)
        BY <1>10, <2>5, <2>6, <2>11
      <3> QED
        BY <1>1, <1>11, <2>11, <3>1 DEF QueueIsWaiters
    <2>12. QueueIsWaiters'
      BY <2>2, <2>10, <2>11 DEF QueueIsWaiters, Members, Distinct
    <2> QED
      BY <1>9, <2>7, <2>9, <2>12 DEF IInv
  <1>13. CASE q = <<>>
    <2>1. \A d \in Callers \ {c} : at'[d] = at[d]
      BY <1>3, <1>13 DEF Resumed
    <2>2. \A d \in Callers \ {c}, j \in Keys :
             (Holds(d, j)' <=> Holds(d, j)) /\ (Waits(d, j)' <=> Waits(d, j))
      BY <1>3, <2>1 DEF Holds, Waits
    <2>3. r = q /\ ~n.locked
      BY <1>6, <1>13
    <2>4. Members(q) = {}
      BY <1>13 DEF Members
    <2>5. \A d \in Callers : ~Holds(d, k)' /\ ~Waits(d, k)'
      BY <1>5, <1>7, <1>10, <2>2, <2>4
    <2>6. MutualExclusion'
      BY <1>1, <1>10, <2>2 DEF MutualExclusion
    <2>7. ASSUME NEW j \in Keys
          PROVE  /\ mutexes'[j].locked <=> \E d \in Callers : Holds(d, j)'
                 /\ ~mutexes'[j].locked => mutexes'[j].queue = <<>>
      <3>1. CASE j = k
        BY <1>13, <2>3, <2>5, <3>1
      <3>2. CASE j # k
        BY <1>1, <1>10, <1>11, <2>2, <3>2 DEF LockedIffHeld
      <3> QED
        BY <3>1, <3>2
    <2>8. LockedIffHeld'
      BY <2>7 DEF LockedIffHeld
    <2>9. Members(r) = {d \in Callers : Waits(d, k)'} /\ Distinct(r)
      BY <1>7, <2>3, <2>4, <2>5
    <2>10. ASSUME NEW j \in Keys, j # k
           PROVE  /\ Members(mutexes'[j].queue) = {d \in Callers : Waits(d, j)'}
                  /\ Distinct(mutexes'[j].queue)
      <3>1. \A d \in Callers : Waits(d, j)' <=> Waits(d, j)
        BY <1>10, <2>2, <2>10
      <3> QED
        BY <1>1, <1>11, <2>10, <3>1 DEF QueueIsWaiters
    <2>11. QueueIsWaiters'
      BY <2>9, <2>10 DEF QueueIsWaiters, Members, Distinct
    <2> QED
      BY <1>9, <2>6, <2>8, <2>11 DEF IInv
  <1> QED
    BY <1>12, <1>13

\* The invariant survives every step of the lock.
LEMMA NextIInv == IInv /\ [Next]_vars => IInv'
  <1> SUFFICES ASSUME IInv, [Next]_vars PROVE IInv'
    OBVIOUS
  <1>1. ASSUME NEW c \in Callers, NEW k \in Keys, Acquire(c, k) PROVE IInv'
    BY <1>1, AcquireIInv
  <1>2. ASSUME NEW c \in Callers, Enter(c) PROVE IInv'
    BY <1>2, EnterIInv
  <1>3. ASSUME NEW c \in Callers, Release(c) PROVE IInv'
    BY <1>3, ReleaseIInv
  <1>4. CASE UNCHANGED vars
    BY <1>4 DEF vars, IInv, TypeOK, MutualExclusion, QueueIsWaiters, LockedIffHeld,
                Holds, Waits
  <1> QED
    BY <1>1, <1>2, <1>3, <1>4 DEF Next

\* The lock is mutually exclusive for any keys and callers, its queue is the
\* set of its waiters, and it is locked exactly while it is held.
THEOREM Safety == SafeSpec => []IInv
  BY InitIInv, NextIInv, PTL DEF SafeSpec

\* Operations on one key never overlap (MutualExclusion), whoever calls.
THEOREM MutexExcludes == SafeSpec => []MutualExclusion
  <1>1. IInv => MutualExclusion
    BY DEF IInv
  <1> QED
    BY Safety, <1>1, PTL

\* No waiter is lost or queued twice, whichever entries are deleted.
THEOREM NoWaiterLost == SafeSpec => []QueueIsWaiters
  <1>1. IInv => QueueIsWaiters
    BY DEF IInv
  <1> QED
    BY Safety, <1>1, PTL

\* A key is locked exactly while a call holds it: a hand-over leaves no gap,
\* and no lock stays taken that nobody will release.
THEOREM LockedOnlyWhileHeld == SafeSpec => []LockedIffHeld
  <1>1. IInv => LockedIffHeld
    BY DEF IInv
  <1> QED
    BY Safety, <1>1, PTL

-----------------------------------------------------------------------------
(***************************************************************************)
(* The lock implements FifoLock (its safety part).                         *)
(***************************************************************************)

\* Facts about putting a holder in front of a queue.
LEMMA FrontOfQueue ==
    ASSUME NEW h \in Callers, NEW c \in Callers, NEW q \in Seq(Callers)
    PROVE  LET l == <<h>> \o q IN
           /\ l \in Seq(Callers) /\ l # <<>> /\ Head(l) = h /\ Tail(l) = q
           /\ <<h>> \o Append(q, c) = Append(l, c)
           /\ Members(l) = {h} \cup Members(q)
  <1> DEFINE l == <<h>> \o q
  <1>1. /\ l \in Seq(Callers) /\ l # <<>> /\ Head(l) = h /\ Tail(l) = q
        /\ <<h>> \o Append(q, c) = Append(l, c)
    OBVIOUS
  <1>2. /\ Len(q) \in Nat /\ Len(l) = Len(q) + 1 /\ l[1] = h
        /\ \A i \in 1..Len(q) : l[i + 1] = q[i]
    OBVIOUS
  <1>3. ASSUME NEW d \in Members(l) PROVE d \in {h} \cup Members(q)
    <2>1. PICK i \in 1..Len(l) : l[i] = d
      BY DEF Members
    <2>2. CASE i = 1
      BY <1>2, <2>1, <2>2
    <2>3. CASE i # 1
      <3>1. i - 1 \in 1..Len(q) /\ q[i - 1] = d
        BY <1>2, <2>1, <2>3
      <3> QED
        BY <3>1 DEF Members
    <2> QED
      BY <2>2, <2>3
  <1>4. ASSUME NEW d \in {h} \cup Members(q) PROVE d \in Members(l)
    <2>1. CASE d = h
      <3>1. 1 \in 1..Len(l) /\ l[1] = d
        BY <1>2, <2>1
      <3> QED
        BY <3>1 DEF Members
    <2>2. CASE d \in Members(q)
      <3>1. PICK i \in 1..Len(q) : q[i] = d
        BY <2>2 DEF Members
      <3>2. i + 1 \in 1..Len(l) /\ l[i + 1] = d
        BY <1>2, <3>1
      <3> QED
        BY <3>2 DEF Members
    <2> QED
      BY <2>1, <2>2
  <1>5. Members(l) = {h} \cup Members(q)
    BY <1>3, <1>4
  <1> QED
    BY <1>1, <1>5

\* The line of a key that is held, and of one that is not.
LEMMA LineIs ==
    ASSUME IInv, NEW k \in Keys
    PROVE  /\ \A h \in Callers : Holds(h, k) => Line(k) = <<h>> \o mutexes[k].queue
           /\ (\A h \in Callers : ~Holds(h, k)) => Line(k) = <<>>
  <1>1. ASSUME NEW h \in Callers, Holds(h, k)
        PROVE  Line(k) = <<h>> \o mutexes[k].queue
    <2>1. {c \in Callers : Holds(c, k)} = {h}
      BY <1>1 DEF IInv, MutualExclusion
    <2> QED
      BY <2>1 DEF Line
  <1>2. ASSUME \A h \in Callers : ~Holds(h, k)
        PROVE  Line(k) = <<>>
    <2>1. {c \in Callers : Holds(c, k)} = {}
      BY <1>2
    <2>2. mutexes[k].queue = <<>>
      BY <1>2 DEF IInv, LockedIffHeld
    <2> QED
      BY <2>1, <2>2 DEF Line
  <1> QED
    BY <1>1, <1>2

\* The same of the next state.
LEMMA LineIsPrime ==
    ASSUME IInv', NEW k \in Keys
    PROVE  /\ \A h \in Callers :
                Holds(h, k)' => Line(k)' = <<h>> \o mutexes'[k].queue
           /\ (\A h \in Callers : ~Holds(h, k)') => Line(k)' = <<>>
  <1>1. ASSUME NEW h \in Callers, Holds(h, k)'
        PROVE  Line(k)' = <<h>> \o mutexes'[k].queue
    <2>1. {c \in Callers : Holds(c, k)'} = {h}
      BY <1>1 DEF IInv, MutualExclusion
    <2> QED
      BY <2>1 DEF Line
  <1>2. ASSUME \A h \in Callers : ~Holds(h, k)'
        PROVE  Line(k)' = <<>>
    <2>1. {c \in Callers : Holds(c, k)'} = {}
      BY <1>2
    <2>2. mutexes'[k].queue = <<>>
      BY <1>2 DEF IInv, LockedIffHeld
    <2> QED
      BY <2>1, <2>2 DEF Line
  <1> QED
    BY <1>1, <1>2

\* A line changes only with its mutex or its holder.
LEMMA SameLine ==
    ASSUME IInv, IInv', NEW k \in Keys, mutexes'[k] = mutexes[k],
           \A d \in Callers : Holds(d, k)' <=> Holds(d, k)
    PROVE  Line(k)' = Line(k)
  <1>1. CASE \E h \in Callers : Holds(h, k)
    <2>1. PICK h \in Callers : Holds(h, k)
      BY <1>1
    <2>2. Line(k) = <<h>> \o mutexes[k].queue
      BY <2>1, LineIs
    <2>3. Line(k)' = <<h>> \o mutexes'[k].queue
      BY <2>1, LineIsPrime
    <2> QED
      BY <2>2, <2>3
  <1>2. CASE \A h \in Callers : ~Holds(h, k)
    BY <1>2, LineIs, LineIsPrime
  <1> QED
    BY <1>1, <1>2

\* Who is in a line: its holder and its waiters.
LEMMA LineMembers ==
    ASSUME IInv, NEW k \in Keys
    PROVE  /\ Line(k) \in Seq(Callers)
           /\ Members(Line(k)) = {c \in Callers : Holds(c, k) \/ Waits(c, k)}
  <1>1. /\ mutexes[k].queue \in Seq(Callers)
        /\ Members(mutexes[k].queue) = {c \in Callers : Waits(c, k)}
    BY DEF IInv, TypeOK, Mutex, QueueIsWaiters
  <1>2. CASE \E h \in Callers : Holds(h, k)
    <2>1. PICK h \in Callers : Holds(h, k)
      BY <1>2
    <2>2. Line(k) = <<h>> \o mutexes[k].queue
      BY <2>1, LineIs
    <2>3. /\ Line(k) \in Seq(Callers)
          /\ Members(Line(k)) = {h} \cup Members(mutexes[k].queue)
      BY <1>1, <2>2, FrontOfQueue
    <2>4. \A c \in Callers : Holds(c, k) => c = h
      BY <2>1 DEF IInv, MutualExclusion
    <2> QED
      BY <1>1, <2>1, <2>3, <2>4
  <1>3. CASE \A h \in Callers : ~Holds(h, k)
    <2>1. Line(k) = <<>> /\ mutexes[k].queue = <<>>
      BY <1>3, LineIs DEF IInv, LockedIffHeld
    <2> QED
      BY <1>1, <1>3, <2>1
  <1> QED
    BY <1>2, <1>3

\* Before any call, every line is empty.
LEMMA InitFifo == Init => Abstract!Init
  <1> SUFFICES ASSUME Init PROVE Abstract!Init
    OBVIOUS
  <1>1. IInv
    BY InitIInv
  <1>2. \A k \in Keys, c \in Callers : ~Holds(c, k)
    BY DEF Init, Holds
  <1>3. \A k \in Keys : Line(k) = <<>>
    BY <1>1, <1>2, LineIs
  <1>4. Served = {}
    BY DEF Init, Served
  <1> QED
    BY <1>3, <1>4 DEF Abstract!Init

\* An acquire joins the line, at its head if the lock is free.
LEMMA AcquireJoins ==
    ASSUME IInv, IInv', NEW c \in Callers, NEW k \in Keys, Acquire(c, k)
    PROVE  Abstract!Join(c, k)
  <1> DEFINE q == mutexes[k].queue
             r == mutexes'[k].queue
  <1>1. TypeOK /\ QueueIsWaiters /\ LockedIffHeld
    BY DEF IInv
  <1>2. /\ at[c] = "out"
        /\ at' = [at EXCEPT ![c] = IF mutexes[k].locked THEN "waiting" ELSE "entering"]
        /\ key' = [key EXCEPT ![c] = k]
        /\ mutexes' = [mutexes EXCEPT ![k] = AfterAcquire(mutexes[k], c)]
    BY DEF Acquire
  <1>3. mutexes[k] \in Mutex /\ q \in Seq(Callers) /\ mutexes[k].locked \in BOOLEAN
    BY <1>1 DEF TypeOK, Mutex
  <1>4. /\ mutexes[k].locked => r = Append(q, c)
        /\ ~mutexes[k].locked => r = q
    BY <1>1, <1>2, <1>3, AcquireMutex DEF TypeOK
  <1>5. \A j \in Keys : ~Holds(c, j) /\ ~Waits(c, j)
    BY <1>2 DEF Holds, Waits
  <1>6. \A d \in Callers \ {c}, j \in Keys : Holds(d, j)' <=> Holds(d, j)
    BY <1>1, <1>2 DEF Holds, TypeOK
  <1>7. \A j \in Keys \ {k} : mutexes'[j] = mutexes[j] /\ ~Holds(c, j)'
    BY <1>1, <1>2 DEF Holds, TypeOK
  <1>8. Holds(c, k)' <=> ~mutexes[k].locked
    BY <1>1, <1>2 DEF Holds, TypeOK
  <1>9. \A j \in Keys : c \notin Members(Line(j))
    BY <1>5, LineMembers
  <1>10. ~Abstract!InLine(c)
    BY <1>9 DEF Abstract!InLine, Members
  <1>11. Line(k)' = Append(Line(k), c)
    <2>1. CASE mutexes[k].locked
      <3>1. PICK h \in Callers : Holds(h, k)
        BY <1>1, <2>1 DEF LockedIffHeld
      <3>2. Holds(h, k)'
        BY <1>5, <1>6, <3>1
      <3>3. Line(k) = <<h>> \o q /\ Line(k)' = <<h>> \o r
        BY <3>1, <3>2, LineIs, LineIsPrime
      <3>4. <<h>> \o Append(q, c) = Append(<<h>> \o q, c)
        BY <1>3, FrontOfQueue
      <3> QED
        BY <1>4, <2>1, <3>3, <3>4
    <2>2. CASE ~mutexes[k].locked
      <3>1. q = <<>> /\ \A h \in Callers : ~Holds(h, k)
        BY <1>1, <2>2 DEF LockedIffHeld
      <3>2. Line(k) = <<>> /\ Line(k)' = <<c>> \o r
        BY <1>8, <2>2, <3>1, LineIs, LineIsPrime
      <3>3. <<c>> \o <<>> = Append(<<>>, c)
        OBVIOUS
      <3> QED
        BY <1>4, <2>2, <3>1, <3>2, <3>3
    <2> QED
      BY <2>1, <2>2
  <1>12. ASSUME NEW j \in Keys, j # k PROVE Line(j)' = Line(j)
    <2>1. \A d \in Callers : Holds(d, j)' <=> Holds(d, j)
      BY <1>5, <1>6, <1>7, <1>12
    <2> QED
      BY <1>7, <1>12, <2>1, SameLine
  <1>13. [j \in Keys |-> Line(j)]'
            = [[j \in Keys |-> Line(j)] EXCEPT ![k] = Append(@, c)]
    BY <1>11, <1>12
  <1>14. Served' = Served
    BY <1>1, <1>2 DEF Served, TypeOK
  <1> QED
    BY <1>10, <1>13, <1>14 DEF Abstract!Join

\* An operation that begins is served: it holds its key, at the head.
LEMMA EnterServes ==
    ASSUME IInv, IInv', NEW c \in Callers, Enter(c)
    PROVE  \E k \in Keys : Abstract!Serve(c, k)
  <1>1. TypeOK
    BY DEF IInv
  <1>2. PICK k \in Keys : key[c] = k
    BY <1>1 DEF TypeOK
  <1>3. /\ at[c] = "entering" /\ at' = [at EXCEPT ![c] = "inside"]
        /\ mutexes' = mutexes /\ key' = key
    BY DEF Enter
  <1>4. mutexes[k].queue \in Seq(Callers)
    BY <1>1 DEF TypeOK, Mutex
  <1>5. Line(k) = <<c>> \o mutexes[k].queue
    BY <1>2, <1>3, LineIs DEF Holds
  <1>6. Line(k) # <<>> /\ Head(Line(k)) = c
    BY <1>4, <1>5, FrontOfQueue
  <1>7. c \notin Served /\ Served' = Served \cup {c}
    BY <1>1, <1>3 DEF Served, TypeOK
  <1>8. ASSUME NEW j \in Keys PROVE Line(j)' = Line(j)
    <2>1. \A d \in Callers : Holds(d, j)' <=> Holds(d, j)
      BY <1>1, <1>3 DEF Holds, TypeOK
    <2> QED
      BY <1>3, <2>1, SameLine
  <1>9. [j \in Keys |-> Line(j)]' = [j \in Keys |-> Line(j)]
    BY <1>8
  <1> QED
    BY <1>6, <1>7, <1>9 DEF Abstract!Serve

\* A release leaves the line, whose next member is then its holder.
LEMMA ReleaseLeaves ==
    ASSUME IInv, IInv', NEW c \in Callers, Release(c)
    PROVE  \E k \in Keys : Abstract!Leave(c, k)
  <1>1. TypeOK /\ MutualExclusion /\ QueueIsWaiters /\ LockedIffHeld
    BY DEF IInv
  <1>2. PICK k \in Keys : key[c] = k
    BY <1>1 DEF TypeOK
  <1> DEFINE m == mutexes[k]
             q == m.queue
             r == mutexes'[k].queue
  <1>3. /\ at[c] = "inside"
        /\ mutexes' = [mutexes EXCEPT ![k] = Forget(AfterRelease(m))]
        /\ at' = [d \in Callers |->
                    CASE d = c -> "out"
                      [] d # c /\ d \in Resumed(m) -> "entering"
                      [] OTHER -> at[d]]
        /\ key' = key
    BY <1>2 DEF Release
  <1>4. m \in Mutex /\ q \in Seq(Callers)
    BY <1>1 DEF TypeOK, Mutex
  <1>5. Holds(c, k) /\ m.locked /\ \A d \in Callers \ {c} : ~Holds(d, k)
    BY <1>1, <1>2, <1>3 DEF Holds, LockedIffHeld, MutualExclusion
  <1>6. /\ q # <<>> => r = Tail(q)
        /\ q = <<>> => r = <<>>
    BY <1>1, <1>3, <1>4, <1>5, ReleaseMutex DEF TypeOK
  <1>7. Line(k) = <<c>> \o q
    BY <1>5, LineIs
  <1>8. Line(k) # <<>> /\ Head(Line(k)) = c /\ Tail(Line(k)) = q
    BY <1>4, <1>7, FrontOfQueue
  <1>9. Members(q) = {d \in Callers : Waits(d, k)}
    BY <1>1 DEF QueueIsWaiters
  <1>10. ASSUME NEW d \in Resumed(m)
         PROVE  d \in Callers /\ d # c /\ Waits(d, k) /\ q # <<>> /\ d = Head(q)
    <2>1. q # <<>> /\ d = Head(q)
      BY DEF Resumed
    <2>2. d \in Members(q)
      BY <1>1, <1>4, <2>1, TailMembers DEF QueueIsWaiters
    <2> QED
      BY <1>3, <1>9, <2>1, <2>2 DEF Waits
  <1>11. Line(k)' = q
    <2>1. CASE q # <<>>
      <3>1. PICK h \in Callers : h = Head(q)
        BY <1>4, <2>1, TailOfQueue
      <3>2. h \in Resumed(m)
        BY <2>1, <3>1 DEF Resumed
      <3>3. Waits(h, k) /\ h # c
        BY <1>10, <3>2
      <3>4. Holds(h, k)'
        BY <1>3, <3>2, <3>3 DEF Holds, Waits
      <3>5. Line(k)' = <<h>> \o Tail(q)
        BY <1>6, <2>1, <3>4, LineIsPrime
      <3> QED
        BY <1>4, <2>1, <3>1, <3>5
    <2>2. CASE q = <<>>
      <3>1. \A d \in Callers \ {c} : at'[d] = at[d]
        BY <1>3, <2>2 DEF Resumed
      <3>2. \A d \in Callers : ~Holds(d, k)'
        BY <1>3, <1>5, <3>1 DEF Holds
      <3> QED
        BY <2>2, <3>2, LineIsPrime
    <2> QED
      BY <2>1, <2>2
  <1>12. ASSUME NEW j \in Keys, j # k PROVE Line(j)' = Line(j)
    <2>1. \A d \in Callers : Holds(d, j)' <=> Holds(d, j)
      BY <1>2, <1>3, <1>10, <1>12 DEF Holds, Waits
    <2>2. mutexes'[j] = mutexes[j]
      BY <1>1, <1>3, <1>12 DEF TypeOK
    <2> QED
      BY <2>1, <2>2, SameLine
  <1>13. [j \in Keys |-> Line(j)]'
            = [[j \in Keys |-> Line(j)] EXCEPT ![k] = Tail(@)]
    BY <1>8, <1>11, <1>12
  <1>14. c \in Served /\ Served' = Served \ {c}
    <2>1. \A d \in Callers \ {c} : at'[d] = "inside" <=> at[d] = "inside"
      BY <1>3, <1>10 DEF Waits
    <2>2. at'[c] = "out"
      BY <1>3
    <2> QED
      BY <1>3, <2>1, <2>2 DEF Served
  <1> QED
    BY <1>8, <1>13, <1>14 DEF Abstract!Leave

\* Every behaviour of the lock is one of the line: first come, first served,
\* one at a time.  (Fairness is left to the model checker.)
THEOREM ImplementsFifo == SafeSpec => Abstract!Init /\ [][Abstract!Next]_(Abstract!vars)
  <1>1. ASSUME IInv, IInv', [Next]_vars
        PROVE  [Abstract!Next]_(Abstract!vars)
    <2>1. ASSUME NEW c \in Callers, NEW k \in Keys, Acquire(c, k)
          PROVE  Abstract!Next
      BY <1>1, <2>1, AcquireJoins DEF Abstract!Next
    <2>2. ASSUME NEW c \in Callers, Enter(c)
          PROVE  Abstract!Next
      BY <1>1, <2>2, EnterServes DEF Abstract!Next
    <2>3. ASSUME NEW c \in Callers, Release(c)
          PROVE  Abstract!Next
      BY <1>1, <2>3, ReleaseLeaves DEF Abstract!Next
    <2>4. CASE UNCHANGED vars
      BY <2>4 DEF vars, Abstract!vars, Line, Served, Holds
    <2> QED
      BY <1>1, <2>1, <2>2, <2>3, <2>4 DEF Next
  <1> QED
    BY <1>1, InitFifo, Safety, PTL DEF SafeSpec
=============================================================================
