----------------------------- MODULE LogsProofs -----------------------------
(***************************************************************************)
(* What is proved of Logs, for every number of loggers, lines and retries: *)
(* the flush timer, the close that waits for what it flushed, one copy for *)
(* each attempt, and the promise of the log for each line, its liveness    *)
(* left aside.                                                             *)
(*                                                                         *)
(* The invariant says where a line can be: in one buffer, or in one append *)
(* under way, whose earlier attempts may have left copies in a file, or in *)
(* neither.  What a turn of the event loop does to a logger is treated as  *)
(* one relation, which every entry added and every flush keeps.            *)
(*                                                                         *)
(* At the end, what the reader of log files gives of any log: each turn of *)
(* its loops keeps what has been collected of the lines from some line on. *)
(***************************************************************************)
EXTENDS LogProperties, FiniteSetTheorems, WellFoundedInduction, TLAPS

-----------------------------------------------------------------------------
(***************************************************************************)
(* Induction over a sequence.                                              *)
(***************************************************************************)

\* A set of naturals has a least element.
LEMMA Least ==
    ASSUME NEW T \in SUBSET Nat, T # {}
    PROVE  \E x \in T : \A y \in T : x <= y
<1>1. PICK R : R = OpToRel(<, Nat)
  OBVIOUS
<1>2. \A x, y \in Nat : y < x => <<y, x>> \in R
  BY <1>1 DEF OpToRel
<1>3. IsWellFoundedOn(R, Nat)
  BY <1>1, NatLessThanWellFounded
<1>4. PICK x \in T : \A y \in T : ~(<<y, x>> \in R)
  BY <1>3, WFMin
<1>5. \A y \in T : x \in Nat /\ y \in Nat /\ ~(y < x)
  BY <1>2, <1>4
<1> QED
  BY <1>5

\* A set that holds 0 and the successor of each of its naturals holds them all.
LEMMA Inducts ==
    ASSUME NEW T, 0 \in T, \A n \in Nat : n \in T => n + 1 \in T
    PROVE  Nat \subseteq T
<1> SUFFICES ASSUME NEW m \in Nat \ T
             PROVE  FALSE
  OBVIOUS
<1>1. PICK x \in Nat \ T : \A y \in Nat \ T : x <= y
  BY Least
<1>2. x # 0 /\ x - 1 \in Nat
  BY <1>1
<1>3. x - 1 \in T
  BY <1>1, <1>2
<1> QED
  BY <1>1, <1>2, <1>3

-----------------------------------------------------------------------------
(***************************************************************************)
(* The entries of a buffer that go to one file.                            *)
(***************************************************************************)

\* The entries for f among the first i, as EntriesFor counts them.
SelectedIn(g, f, upTo, i) ==
    IF i = 0 THEN <<>>
    ELSE IF Target(g, g.buffer[i]) = f THEN Append(upTo[i - 1], g.buffer[i])
    ELSE upTo[i - 1]

Selects(g, f, upTo, k) == upTo = [i \in 0..k |-> SelectedIn(g, f, upTo, i)]

\* The function EntriesFor defines exists: it is built one entry at a time.
LEMMA SelectExists ==
    ASSUME NEW g, NEW f
    PROVE  \A k \in Nat : \E upTo : Selects(g, f, upTo, k)
<1> DEFINE T == {k \in Nat : \E upTo : Selects(g, f, upTo, k)}
<1>1. 0 \in T
  <2>1. Selects(g, f, [i \in 0..0 |-> <<>>], 0)
    BY DEF Selects, SelectedIn
  <2> QED
    BY <2>1
<1>2. ASSUME NEW n \in Nat, n \in T
      PROVE  n + 1 \in T
  <2>1. PICK u : Selects(g, f, u, n)
    BY <1>2
  <2> DEFINE v == [i \in 0..(n + 1) |->
                      IF i = n + 1 THEN SelectedIn(g, f, u, n + 1) ELSE u[i]]
  <2>2. \A i \in 0..n : v[i] = u[i] /\ u[i] = SelectedIn(g, f, u, i)
    BY <2>1 DEF Selects
  <2>3. v[n + 1] = SelectedIn(g, f, u, n + 1)
    OBVIOUS
  <2>4. v = [i \in 0..(n + 1) |-> v[i]]
    OBVIOUS
  <2> HIDE DEF v
  <2>5. ASSUME NEW i \in 0..(n + 1)
        PROVE  v[i] = SelectedIn(g, f, v, i)
    <3>1. SelectedIn(g, f, v, i) = SelectedIn(g, f, u, i)
      <4>1. i # 0 => i - 1 \in 0..n
        OBVIOUS
      <4> QED
        BY <4>1, <2>2 DEF SelectedIn
    <3>2. i = n + 1 \/ i \in 0..n
      OBVIOUS
    <3> QED
      BY <3>1, <3>2, <2>2, <2>3
  <2> QED
    BY <2>4, <2>5 DEF Selects
<1>3. Nat \subseteq T
  <2> HIDE DEF T
  <2> QED
    BY <1>1, <1>2, Inducts
<1> QED
  BY <1>3

\* No line twice.
Distinct(s) == \A i, j \in 1..Len(s) : s[i].id = s[j].id => i = j

\* What the entries for f are among the first k.
Selection(g, f, r, k) ==
    /\ r \in Seq(Line)
    /\ IdsOf(r) = {g.buffer[i].id : i \in {j \in 1..k : Target(g, g.buffer[j]) = f}}
    /\ Distinct(r)

LEMMA AppendSeq ==
    ASSUME NEW s \in Seq(Line), NEW x \in Line
    PROVE  /\ Append(s, x) \in Seq(Line)
           /\ IdsOf(Append(s, x)) = IdsOf(s) \cup {x.id}
           /\ Distinct(s) /\ x.id \notin IdsOf(s) => Distinct(Append(s, x))
<1>1. PICK r : r = Append(s, x)
  OBVIOUS
<1>2. /\ r \in Seq(Line) /\ Len(s) \in Nat /\ Len(r) = Len(s) + 1
      /\ \A i \in 1..Len(s) : r[i] = s[i]
      /\ r[Len(s) + 1] = x
  BY <1>1
<1>3. \A i : i \in 1..Len(r) <=> i \in 1..Len(s) \/ i = Len(s) + 1
  BY <1>2
<1>4. IdsOf(r) = IdsOf(s) \cup {x.id}
  BY <1>2, <1>3 DEF IdsOf
<1>5. ASSUME Distinct(s), x.id \notin IdsOf(s)
      PROVE  Distinct(r)
  <2>1. \A i \in 1..Len(s) : s[i].id # x.id
    BY <1>5 DEF IdsOf
  <2> QED
    BY <1>2, <1>3, <1>5, <2>1 DEF Distinct
<1> QED
  BY <1>1, <1>2, <1>4, <1>5

\* What EntriesFor returns.
LEMMA EntriesSelected ==
    ASSUME NEW g, g.buffer \in Seq(Line), Distinct(g.buffer), NEW f
    PROVE  Selection(g, f, EntriesFor(g, f), Len(g.buffer))
<1>1. PICK u : u = CHOOSE v : Selects(g, f, v, Len(g.buffer))
  OBVIOUS
<1>2. Len(g.buffer) \in Nat
  OBVIOUS
<1>3. Selects(g, f, u, Len(g.buffer))
  BY <1>1, <1>2, SelectExists
<1>4. EntriesFor(g, f) = u[Len(g.buffer)]
  BY <1>1 DEF EntriesFor, Selects, SelectedIn
<1>5. \A i \in 0..Len(g.buffer) : u[i] = SelectedIn(g, f, u, i)
  BY <1>3 DEF Selects
<1> DEFINE T == {i \in Nat : i <= Len(g.buffer) => Selection(g, f, u[i], i)}
<1>6. 0 \in T
  <2>1. 0 \in 0..Len(g.buffer)
    BY <1>2
  <2>2. u[0] = <<>>
    BY <1>5, <2>1 DEF SelectedIn
  <2>3. <<>> \in Seq(Line) /\ Len(<<>>) = 0
    OBVIOUS
  <2>4. IdsOf(<<>>) = {} /\ Distinct(<<>>)
    BY <2>3 DEF IdsOf, Distinct
  <2>5. {g.buffer[i].id : i \in {j \in 1..0 : Target(g, g.buffer[j]) = f}} = {}
    OBVIOUS
  <2> QED
    BY <2>2, <2>3, <2>4, <2>5 DEF Selection
<1>7. ASSUME NEW n \in Nat, n \in T
      PROVE  n + 1 \in T
  <2> SUFFICES ASSUME n + 1 <= Len(g.buffer)
               PROVE  Selection(g, f, u[n + 1], n + 1)
    OBVIOUS
  <2>1. Selection(g, f, u[n], n)
    BY <1>2, <1>7
  <2>2. n + 1 \in 1..Len(g.buffer) /\ n + 1 \in 0..Len(g.buffer)
    BY <1>2
  <2>3. PICK x : x = g.buffer[n + 1]
    OBVIOUS
  <2>4. x \in Line
    BY <2>2, <2>3
  <2>5. u[n + 1] = SelectedIn(g, f, u, n + 1)
    BY <1>5, <2>2
  <2>6. n + 1 # 0 /\ (n + 1) - 1 = n
    OBVIOUS
  <2>7. u[n + 1] = IF Target(g, x) = f THEN Append(u[n], x) ELSE u[n]
    BY <2>3, <2>5, <2>6 DEF SelectedIn
  <2>8. \A i : i \in 1..(n + 1) <=> i \in 1..n \/ i = n + 1
    OBVIOUS
  <2>9. CASE Target(g, x) = f
    <3>1. \A i \in 1..n : i \in 1..Len(g.buffer) /\ i # n + 1
      BY <2>2
    <3>2. \A i \in 1..n : g.buffer[i].id # x.id
      BY <2>2, <2>3, <3>1 DEF Distinct
    <3>3. x.id \notin IdsOf(u[n])
      BY <2>1, <3>2 DEF Selection
    <3>4. {g.buffer[i].id : i \in {j \in 1..(n + 1) : Target(g, g.buffer[j]) = f}}
             = {g.buffer[i].id : i \in {j \in 1..n : Target(g, g.buffer[j]) = f}} \cup {x.id}
      BY <2>3, <2>8, <2>9
    <3> QED
      BY <2>1, <2>4, <2>7, <2>9, <3>3, <3>4, AppendSeq DEF Selection
  <2>10. CASE Target(g, x) # f
    <3>1. {j \in 1..(n + 1) : Target(g, g.buffer[j]) = f}
             = {j \in 1..n : Target(g, g.buffer[j]) = f}
      BY <2>3, <2>8, <2>10
    <3> QED
      BY <2>1, <2>7, <2>10, <3>1 DEF Selection
  <2> QED
    BY <2>9, <2>10
<1>8. Nat \subseteq T
  <2> HIDE DEF T
  <2> QED
    BY <1>6, <1>7, Inducts
<1> QED
  BY <1>2, <1>4, <1>8

-----------------------------------------------------------------------------
(***************************************************************************)
(* The appends of a flush.                                                 *)
(***************************************************************************)

\* The ids of some appends.
LinesOf(batches) == UNION {IdsOf(b.lines) : b \in batches}

\* New appends that share no line.
Apart(batches) ==
    /\ \A b \in batches : b \in Appends /\ b.try = 1 /\ Distinct(b.lines)
    /\ \A a, b \in batches : a # b => IdsOf(a.lines) \cap IdsOf(b.lines) = {}

LEMMA TargetFile ==
    ASSUME NEW g, NEW x \in Line
    PROVE  Target(g, x) \in Files
  BY DEF Target, Files, Line

LEMMA TryOne == 1 \in 1..MaxRetries
  BY LogAssumption DEF ValidLogManagerConfig

\* A flush hands over every line of the buffer, each to one file.
LEMMA BatchesApart ==
    ASSUME NEW g, g.buffer \in Seq(Line), Distinct(g.buffer)
    PROVE  Apart(Batches(g)) /\ LinesOf(Batches(g)) = IdsOf(g.buffer)
<1> DEFINE b(f) == [file |-> f, lines |-> EntriesFor(g, f), try |-> 1]
           D == 1..Len(g.buffer)
           F == {Target(g, g.buffer[i]) : i \in D}
<1>1. Batches(g) = {b(f) : f \in F}
  BY DEF Batches
<1>2. \A i \in D : g.buffer[i] \in Line
  OBVIOUS
<1>3. F \subseteq Files
  BY <1>2, TargetFile
<1>4. \A f \in F : Selection(g, f, EntriesFor(g, f), Len(g.buffer))
  BY EntriesSelected
<1>5. \A f \in F : b(f).file = f /\ b(f).lines = EntriesFor(g, f) /\ b(f).try = 1
  OBVIOUS
<1>6. \A f \in F : b(f) \in Appends /\ Distinct(b(f).lines)
  BY <1>3, <1>4, TryOne DEF Appends, Selection
<1>7. ASSUME NEW f \in F, NEW h \in F, f # h
      PROVE  IdsOf(b(f).lines) \cap IdsOf(b(h).lines) = {}
  <2> SUFFICES ASSUME NEW n, n \in IdsOf(b(f).lines), n \in IdsOf(b(h).lines)
               PROVE  FALSE
    OBVIOUS
  <2>1. PICK i \in D : n = g.buffer[i].id /\ Target(g, g.buffer[i]) = f
    BY <1>4, <1>5 DEF Selection
  <2>2. PICK j \in D : n = g.buffer[j].id /\ Target(g, g.buffer[j]) = h
    BY <1>4, <1>5 DEF Selection
  <2>3. i = j
    BY <2>1, <2>2 DEF Distinct
  <2> QED
    BY <1>7, <2>1, <2>2, <2>3
<1>8. ASSUME NEW x \in Batches(g), NEW y \in Batches(g), x # y
      PROVE  IdsOf(x.lines) \cap IdsOf(y.lines) = {}
  <2>1. PICK f \in F, h \in F : x = b(f) /\ y = b(h)
    BY <1>1
  <2>2. f # h
    BY <1>8, <2>1
  <2> HIDE DEF b, F
  <2> QED
    BY <1>7, <2>1, <2>2
<1>9. Apart(Batches(g))
  <2>1. ASSUME NEW x \in Batches(g)
        PROVE  x \in Appends /\ x.try = 1 /\ Distinct(x.lines)
    <3>1. PICK f \in F : x = b(f)
      BY <1>1
    <3> HIDE DEF b, F
    <3> QED
      BY <1>5, <1>6, <3>1
  <2> QED
    BY <1>8, <2>1 DEF Apart
<1>10. ASSUME NEW n
       PROVE  n \in LinesOf(Batches(g)) <=> n \in IdsOf(g.buffer)
  <2>1. n \in LinesOf(Batches(g)) <=> \E f \in F : n \in IdsOf(EntriesFor(g, f))
    <3>1. n \in LinesOf(Batches(g)) <=> \E x \in Batches(g) : n \in IdsOf(x.lines)
      BY DEF LinesOf
    <3>2. \A x : x \in Batches(g) <=> \E f \in F : x = b(f)
      BY <1>1
    <3>3. \A f \in F : b(f).lines = EntriesFor(g, f)
      BY <1>5
    <3> HIDE DEF b, F
    <3> QED
      BY <3>1, <3>2, <3>3
  <2>2. \A f \in F : n \in IdsOf(EntriesFor(g, f)) <=>
                        \E i \in D : n = g.buffer[i].id /\ Target(g, g.buffer[i]) = f
    BY <1>4 DEF Selection
  <2>3. n \in IdsOf(g.buffer) <=> \E i \in D : n = g.buffer[i].id
    BY DEF IdsOf
  <2> QED
    BY <2>1, <2>2, <2>3
<1> QED
  BY <1>9, <1>10

-----------------------------------------------------------------------------
(***************************************************************************)
(* Turns.                                                                  *)
(***************************************************************************)

\* What a turn has in hand: still buffered, or in the appends it began.
Holds(t) == IdsOf(t.g.buffer) \cup LinesOf(t.batches)

\* The timer runs exactly while there is something to flush.
Armed(g) == g.timer <=> g.buffer # <<>>

\* The new lines of a turn: k of them after the first n.
New(n, k) == {i \in Ids : n < i /\ i <= n + k}

\* What a turn that began with g may have come to, with k lines after the first
\* n: it holds what g held and the new lines, but for those it refused, and each
\* of them once.
TurnOf(g, t, n, k) ==
    /\ t = [g |-> t.g, batches |-> t.batches, refused |-> t.refused]
    /\ t.g \in Logger /\ t.g.used = g.used /\ t.g.split = g.split
    /\ Distinct(t.g.buffer)
    /\ Apart(t.batches)
    /\ IdsOf(t.g.buffer) \cap LinesOf(t.batches) = {}
    /\ IdsOf(g.buffer) \subseteq Holds(t)
    /\ Holds(t) \subseteq IdsOf(g.buffer) \cup New(n, k)
    /\ t.refused \subseteq New(n, k) /\ New(n, k) \subseteq Holds(t) \cup t.refused
    /\ Armed(g) => Armed(t.g)

\* A logger as a turn finds it.
Ready(g, n) == g \in Logger /\ Distinct(g.buffer) /\ IdsOf(g.buffer) \subseteq 1..n

LEMMA TurnBegins ==
    ASSUME NEW g, NEW n \in Nat, Ready(g, n), NEW p \in SUBSET Streams
    PROVE  /\ TurnOf(g, Turn([g EXCEPT !.partial = p]), n, 0)
           /\ Turn([g EXCEPT !.partial = p]).g.partial = p
<1>1. PICK h : h = [g EXCEPT !.partial = p]
  OBVIOUS
<1>2. /\ h \in Logger /\ h.used = g.used /\ h.split = g.split
      /\ h.buffer = g.buffer /\ h.timer = g.timer /\ h.partial = p
  BY <1>1 DEF Ready, Logger
<1>3. PICK t : t = Turn(h)
  OBVIOUS
<1>4. /\ t.g = h /\ t.batches = {} /\ t.refused = {}
      /\ t = [g |-> t.g, batches |-> t.batches, refused |-> t.refused]
  BY <1>3 DEF Turn
<1>5. LinesOf({}) = {} /\ Apart({})
  BY DEF LinesOf, Apart
<1>6. New(n, 0) = {}
  BY DEF New, Ids
<1> QED
  BY <1>1, <1>2, <1>3, <1>4, <1>5, <1>6 DEF TurnOf, Ready, Holds, Armed

LEMMA EmptiedFields ==
    ASSUME NEW g \in Logger
    PROVE  /\ Emptied(g) \in Logger /\ Emptied(g).used = g.used
           /\ Emptied(g).split = g.split /\ Emptied(g).partial = g.partial
           /\ Emptied(g).buffer = <<>> /\ (Armed(g) => ~Emptied(g).timer)
<1>1. CASE g.buffer = <<>>
  BY <1>1 DEF Emptied, Armed, Logger
<1>2. CASE g.buffer # <<>>
  <2>1. PICK h : h = [g EXCEPT !.buffer = <<>>, !.pressed = FALSE, !.timer = FALSE]
    OBVIOUS
  <2>2. <<>> \in Seq(Line)
    OBVIOUS
  <2>3. /\ h \in Logger /\ h.used = g.used /\ h.split = g.split
        /\ h.partial = g.partial /\ h.buffer = <<>> /\ ~h.timer
    BY <2>1, <2>2 DEF Logger
  <2> QED
    BY <1>2, <2>1, <2>3 DEF Emptied
<1> QED
  BY <1>1, <1>2

\* The lines of two sets of appends.
LEMMA LinesOfUnion ==
    ASSUME NEW A, NEW B
    PROVE  LinesOf(A \cup B) = LinesOf(A) \cup LinesOf(B)
  BY DEF LinesOf

LEMMA ApartUnion ==
    ASSUME NEW A, NEW B, Apart(A), Apart(B), LinesOf(A) \cap LinesOf(B) = {}
    PROVE  Apart(A \cup B)
  BY DEF Apart, LinesOf

LEMMA EmptyIds == IdsOf(<<>>) = {} /\ Distinct(<<>>) /\ <<>> \in Seq(Line)
<1>1. Len(<<>>) = 0
  OBVIOUS
<1> QED
  BY <1>1 DEF IdsOf, Distinct

\* A flush hands the buffer over, and stops the timer.
LEMMA FlushTurn ==
    ASSUME NEW g, NEW t, NEW n \in Nat, NEW k \in Nat, TurnOf(g, t, n, k)
    PROVE  /\ TurnOf(g, Flush(t), n, k) /\ Flush(t).g.buffer = <<>>
           /\ Flush(t).g.partial = t.g.partial /\ Flush(t).refused = t.refused
           /\ LinesOf(Flush(t).batches) = LinesOf(t.batches) \cup IdsOf(t.g.buffer)
<1>1. PICK h : h = Emptied(t.g)
  OBVIOUS
<1>2. PICK c : c = t.batches \cup Batches(t.g)
  OBVIOUS
<1>3. PICK u : u = Flush(t)
  OBVIOUS
<1>4. /\ u.g = h /\ u.batches = c /\ u.refused = t.refused
      /\ u = [g |-> u.g, batches |-> u.batches, refused |-> u.refused]
  <2>1. t = [g |-> t.g, batches |-> t.batches, refused |-> t.refused]
    BY DEF TurnOf
  <2> QED
    BY <1>1, <1>2, <1>3, <2>1 DEF Flush
<1>5. /\ h \in Logger /\ h.used = t.g.used /\ h.split = t.g.split
      /\ h.partial = t.g.partial /\ h.buffer = <<>> /\ (Armed(t.g) => ~h.timer)
  BY <1>1, EmptiedFields DEF TurnOf
<1>6. Apart(Batches(t.g)) /\ LinesOf(Batches(t.g)) = IdsOf(t.g.buffer)
  BY BatchesApart DEF TurnOf, Logger
<1>7. Apart(c) /\ LinesOf(c) = LinesOf(t.batches) \cup IdsOf(t.g.buffer)
  BY <1>2, <1>6, LinesOfUnion, ApartUnion DEF TurnOf
<1>8. Holds(u) = Holds(t)
  BY <1>4, <1>5, <1>7, EmptyIds DEF Holds
<1>9. Armed(g) => Armed(h)
  BY <1>5 DEF TurnOf, Armed
<1> QED
  BY <1>3, <1>4, <1>5, <1>7, <1>8, <1>9, EmptyIds DEF TurnOf

\* An entry that is not refused is buffered, after a flush if the buffer is full.
LEMMA BufferedFields ==
    ASSUME NEW g \in Logger, NEW x \in Line, NEW h, h \in {g, Emptied(g)},
           h = IF BufferSize(g.buffer) + x.size > MaxSize THEN Emptied(g) ELSE g
    PROVE  /\ Buffered(g, x) \in Logger /\ Buffered(g, x).used = g.used
           /\ Buffered(g, x).split = g.split /\ Buffered(g, x).partial = g.partial
           /\ Buffered(g, x).buffer = Append(h.buffer, x) /\ Buffered(g, x).timer
<1>1. /\ h \in Logger /\ h.used = g.used /\ h.split = g.split
      /\ h.partial = g.partial /\ h.buffer \in Seq(Line)
  BY EmptiedFields DEF Logger
<1>2. PICK b : b = Append(h.buffer, x)
  OBVIOUS
<1>3. b \in Seq(Line)
  BY <1>1, <1>2, AppendSeq
<1>4. PICK p : p = (BufferSize(b) > Threshold)
  OBVIOUS
<1>5. p \in BOOLEAN
  BY <1>4
<1>6. PICK n : n = [h EXCEPT !.buffer = b, !.pressed = p, !.timer = TRUE]
  OBVIOUS
<1>7. Buffered(g, x) = n
  BY <1>2, <1>4, <1>6 DEF Buffered
<1>8. n \in Logger
  BY <1>1, <1>3, <1>5, <1>6 DEF Logger
<1>9. /\ n.used = h.used /\ n.split = h.split /\ n.partial = h.partial
      /\ n.buffer = b /\ n.timer = TRUE
  BY <1>1, <1>6 DEF Logger
<1> QED
  BY <1>1, <1>2, <1>7, <1>8, <1>9

LEMMA NewLine ==
    ASSUME NEW n \in Nat, NEW k \in Nat, NEW m \in Ids, m = n + k + 1
    PROVE  New(n, k + 1) = New(n, k) \cup {m} /\ m \notin 1..n /\ m \notin New(n, k)
<1>1. \A i \in Nat : n < i /\ i <= n + (k + 1) <=> (n < i /\ i <= n + k) \/ i = m
  OBVIOUS
<1>2. Ids \subseteq Nat
  BY LogAssumption DEF Ids
<1>3. m \notin 1..n /\ ~(m <= n + k)
  OBVIOUS
<1> QED
  BY <1>1, <1>2, <1>3 DEF New

\* The next line is refused, or held.
LEMMA AddTurn ==
    ASSUME NEW g, NEW t, NEW n \in Nat, NEW k \in Nat, TurnOf(g, t, n, k),
           Ready(g, n), NEW m \in Nat, m = k + 1, NEW x \in Line, x.id = n + m
    PROVE  /\ TurnOf(g, AddEntry(t, x), n, m)
           /\ AddEntry(t, x).g.partial = t.g.partial
<1>0. t = [g |-> t.g, batches |-> t.batches, refused |-> t.refused]
  BY DEF TurnOf
<1>1. PICK u : u = AddEntry(t, x)
  OBVIOUS
<1>2. x.id \in Ids
  BY DEF Line
<1>3. /\ New(n, m) = New(n, k) \cup {x.id}
      /\ x.id \notin 1..n /\ x.id \notin New(n, k)
  <2>1. x.id = n + k + 1
    OBVIOUS
  <2> QED
    BY <1>2, <2>1, NewLine
<1>4. x.id \notin Holds(t)
  BY <1>3 DEF TurnOf, Ready
<1>5. CASE t.g.pressed
  <2>1. /\ u.g = t.g /\ u.batches = t.batches /\ u.refused = t.refused \cup {x.id}
        /\ u = [g |-> u.g, batches |-> u.batches, refused |-> u.refused]
    BY <1>0, <1>1, <1>5 DEF AddEntry
  <2>2. Holds(u) = Holds(t)
    BY <2>1 DEF Holds
  <2>3. TurnOf(g, u, n, m)
    BY <1>3, <2>1, <2>2 DEF TurnOf
  <2> QED
    BY <1>1, <2>1, <2>3
<1>6. CASE ~t.g.pressed
  <2>1. PICK full : full = (BufferSize(t.g.buffer) + x.size > MaxSize)
    OBVIOUS
  <2>2. PICK h : h = IF full THEN Emptied(t.g) ELSE t.g
    OBVIOUS
  <2>3. PICK c : c = IF full THEN t.batches \cup Batches(t.g) ELSE t.batches
    OBVIOUS
  <2>4. PICK v : v = Buffered(t.g, x)
    OBVIOUS
  <2>5. /\ u.g = v /\ u.batches = c /\ u.refused = t.refused
        /\ u = [g |-> u.g, batches |-> u.batches, refused |-> u.refused]
    BY <1>0, <1>1, <1>6, <2>1, <2>3, <2>4 DEF AddEntry
  <2>6. t.g \in Logger
    BY DEF TurnOf
  <2>7. /\ v \in Logger /\ v.used = t.g.used /\ v.split = t.g.split
        /\ v.partial = t.g.partial /\ v.buffer = Append(h.buffer, x) /\ v.timer
    BY <2>1, <2>2, <2>4, <2>6, BufferedFields
  <2>8. Apart(Batches(t.g)) /\ LinesOf(Batches(t.g)) = IdsOf(t.g.buffer)
    BY BatchesApart DEF TurnOf, Logger
  <2>9. /\ h.buffer \in Seq(Line) /\ Distinct(h.buffer) /\ Apart(c)
        /\ IdsOf(h.buffer) \cap LinesOf(c) = {}
        /\ IdsOf(h.buffer) \cup LinesOf(c) = Holds(t)
    <3>1. CASE full
      <4>1. h.buffer = <<>>
        BY <2>2, <2>6, <3>1, EmptiedFields
      <4>2. LinesOf(c) = LinesOf(t.batches) \cup IdsOf(t.g.buffer) /\ Apart(c)
        BY <2>3, <2>8, <3>1, LinesOfUnion, ApartUnion DEF TurnOf
      <4> QED
        BY <4>1, <4>2, EmptyIds DEF Holds
    <3>2. CASE ~full
      <4>1. h = t.g /\ c = t.batches
        BY <2>2, <2>3, <3>2
      <4>2. h.buffer \in Seq(Line)
        BY <2>6, <4>1 DEF Logger
      <4> QED
        BY <4>1, <4>2 DEF TurnOf, Holds
    <3> QED
      BY <3>1, <3>2
  <2>10. /\ IdsOf(v.buffer) = IdsOf(h.buffer) \cup {x.id}
         /\ Distinct(v.buffer)
    BY <1>4, <2>7, <2>9, AppendSeq
  <2>11. v.buffer # <<>>
    BY <2>10, EmptyIds
  <2>12. Holds(u) = Holds(t) \cup {x.id}
    BY <2>5, <2>9, <2>10 DEF Holds
  <2>13. IdsOf(v.buffer) \cap LinesOf(c) = {}
    BY <1>4, <2>9, <2>10
  <2>14. Armed(v)
    BY <2>7, <2>11 DEF Armed, Logger
  <2>15. TurnOf(g, u, n, m)
    BY <1>3, <2>5, <2>7, <2>9, <2>10, <2>12, <2>13, <2>14 DEF TurnOf
  <2> QED
    BY <1>1, <2>5, <2>7, <2>15
<1> QED
  BY <1>5, <1>6

LEMMA SecondTurn ==
    ASSUME NEW g, NEW t, NEW n \in Nat, TurnOf(g, t, n, 1), Ready(g, n),
           NEW x \in Line, x.id = n + 2
    PROVE  /\ TurnOf(g, AddEntry(t, x), n, 2)
           /\ AddEntry(t, x).g.partial = t.g.partial
<1>1. PICK k, m \in Nat : k = 1 /\ m = 2
  OBVIOUS
<1>2. m = k + 1 /\ x.id = n + m /\ TurnOf(g, t, n, k)
  BY <1>1
<1>3. TurnOf(g, AddEntry(t, x), n, m) /\ AddEntry(t, x).g.partial = t.g.partial
  BY <1>1, <1>2, AddTurn
<1> QED
  BY <1>1, <1>3

\* The next lines are added one by one.
LEMMA EntriesTurn ==
    ASSUME NEW g, lines \in Nat, Ready(g, lines),
           NEW types \in Seq(Streams), Len(types) \in 0..2,
           lines + Len(types) <= MaxLines,
           NEW s \in NextLines(types),
           NEW t, TurnOf(g, t, lines, 0)
    PROVE  /\ TurnOf(g, AddEntries(t, s), lines, Len(types))
           /\ AddEntries(t, s).g.partial = t.g.partial
<1>1. PICK w : w = AddEntries(t, s)
  OBVIOUS
<1>3. PICK size \in [1..Len(types) -> Sizes] :
          s = [i \in 1..Len(types) |->
                  [id |-> lines + i, type |-> types[i], size |-> size[i]]]
  BY DEF NextLines
<1>4. Len(s) = Len(types)
  BY <1>3
<1>5. \A i \in 1..Len(types) : s[i] \in Line /\ s[i].id = lines + i
  <2> TAKE i \in 1..Len(types)
  <2>1. s[i] = [id |-> lines + i, type |-> types[i], size |-> size[i]]
    BY <1>3
  <2>2. lines + i \in Ids
    BY LogAssumption DEF Ids
  <2>3. types[i] \in Streams
    OBVIOUS
  <2>4. size[i] \in Sizes
    BY <1>3
  <2> QED
    BY <2>1, <2>2, <2>3, <2>4 DEF Line
<1>6. CASE Len(types) = 0
  BY <1>1, <1>4, <1>6 DEF AddEntries
<1>7. PICK u : u = AddEntry(t, s[1])
  OBVIOUS
<1>8. ASSUME Len(types) # 0
      PROVE  TurnOf(g, u, lines, 1) /\ u.g.partial = t.g.partial
  <2>1. 1 \in 1..Len(types) /\ 1 = 0 + 1
    BY <1>8
  <2>2. PICK x : x = s[1]
    OBVIOUS
  <2>3. x \in Line /\ x.id = lines + 1
    BY <1>5, <2>1, <2>2
  <2>4. TurnOf(g, AddEntry(t, x), lines, 1) /\ AddEntry(t, x).g.partial = t.g.partial
    BY <2>1, <2>3, AddTurn
  <2> QED
    BY <1>7, <2>2, <2>4
<1>9. CASE Len(types) = 1
  BY <1>1, <1>4, <1>7, <1>8, <1>9 DEF AddEntries
<1>10. CASE Len(types) = 2
  <2>1. PICK x : x = s[2]
    OBVIOUS
  <2>2. 2 \in 1..Len(types) /\ 2 = 1 + 1
    BY <1>10
  <2>3. x \in Line /\ x.id = lines + 2
    BY <1>5, <2>1, <2>2
  <2>4. w = AddEntry(u, x)
    BY <1>1, <1>4, <1>7, <1>10, <2>1 DEF AddEntries
  <2>5. TurnOf(g, u, lines, 1) /\ u.g.partial = t.g.partial
    BY <1>8, <1>10
  <2>6. /\ TurnOf(g, AddEntry(u, x), lines, 2)
        /\ AddEntry(u, x).g.partial = u.g.partial
    BY <2>3, <2>5, SecondTurn
  <2> QED
    BY <1>1, <1>10, <2>2, <2>4, <2>5, <2>6
<1>11. Len(types) \in {0, 1, 2}
  OBVIOUS
<1> QED
  BY <1>6, <1>9, <1>10, <1>11

\* Sets of streams are small.
LEMMA StreamCards ==
    ASSUME NEW p \in SUBSET Streams
    PROVE  /\ Cardinality(p) \in 0..2 /\ (p = {} <=> Cardinality(p) = 0)
           /\ \A type \in Streams : Cardinality(p \cup {type}) <= Cardinality(p) + 1
<1>1. Streams = {"stdout", "stderr"} /\ "stdout" # "stderr"
  BY DEF Streams
<1>2. IsFiniteSet({}) /\ Cardinality({}) = 0
  BY FS_EmptySet
<1>3. \A a : IsFiniteSet({a}) /\ Cardinality({a}) = 1
  BY FS_Singleton
<1>4. IsFiniteSet(Streams) /\ Cardinality(Streams) = 2
  <2>1. Streams = {"stdout"} \cup {"stderr"} /\ "stderr" \notin {"stdout"}
    BY <1>1
  <2>2. IsFiniteSet({"stdout"}) /\ Cardinality({"stdout"}) = 1
    BY <1>3
  <2> QED
    BY <2>1, <2>2, FS_AddElement
<1>7. p = {} \/ p = {"stdout"} \/ p = {"stderr"} \/ p = Streams
  BY <1>1
<1>5. IsFiniteSet(p) /\ Cardinality(p) \in 0..2 /\ (p = {} <=> Cardinality(p) = 0)
  <2>1. {"stdout"} # {} /\ {"stderr"} # {} /\ Streams # {}
    BY <1>1
  <2>2. CASE p = {}
    BY <1>2, <2>2
  <2>3. ASSUME NEW a, p = {a}
        PROVE  IsFiniteSet(p) /\ Cardinality(p) \in 0..2 /\ (p = {} <=> Cardinality(p) = 0)
    <3>1. IsFiniteSet(p) /\ Cardinality(p) = 1
      BY <1>3, <2>3
    <3>2. p # {}
      BY <2>3
    <3> QED
      BY <3>1, <3>2
  <2>4. CASE p = Streams
    BY <1>4, <2>1, <2>4
  <2> QED
    BY <1>7, <2>2, <2>3, <2>4
<1>6. ASSUME NEW type \in Streams
      PROVE  Cardinality(p \cup {type}) <= Cardinality(p) + 1
  <2>1. CASE type \in p
    <3>1. p \cup {type} = p
      BY <2>1
    <3> QED
      BY <1>5, <3>1
  <2>2. CASE type \notin p
    <3>1. Cardinality(p \cup {type}) = Cardinality(p) + 1
      BY <1>5, <2>2, FS_AddElement
    <3> QED
      BY <1>5, <3>1
  <2> QED
    BY <2>1, <2>2
<1> QED
  BY <1>5, <1>6

\* The rest of the text becomes lines, as many as there are streams that have it.
LEMMA PartialTurn ==
    ASSUME NEW g, lines \in Nat, Ready(g, lines),
           lines + Cardinality(g.partial) <= MaxLines,
           NEW t \in PartialLines(g)
    PROVE  TurnOf(g, t, lines, Cardinality(g.partial)) /\ t.g.partial = {}
<1>1. g.partial \in SUBSET Streams
  BY DEF Ready, Logger
<1>2. Cardinality(g.partial) \in 0..2
  BY <1>1, StreamCards
<1>3. PICK types \in SetToSeqs(g.partial) : \E s \in NextLines(types) :
          t = AddEntries(Turn([g EXCEPT !.partial = {}]), s)
  BY DEF PartialLines
<1>4. types \in [1..Cardinality(g.partial) -> g.partial]
  BY <1>3 DEF SetToSeqs
<1>5. types \in Seq(Streams) /\ Len(types) = Cardinality(g.partial)
  BY <1>1, <1>2, <1>4
<1>6. {} \in SUBSET Streams
  OBVIOUS
<1>7. PICK s \in NextLines(types) : t = AddEntries(Turn([g EXCEPT !.partial = {}]), s)
  BY <1>3
<1>8. Len(types) \in 0..2 /\ lines + Len(types) <= MaxLines
  BY <1>2, <1>5
<1>9. PICK b : b = Turn([g EXCEPT !.partial = {}])
  OBVIOUS
<1>10. TurnOf(g, b, lines, 0) /\ b.g.partial = {}
  BY <1>6, <1>9, TurnBegins
<1>11. t = AddEntries(b, s)
  BY <1>7, <1>9
<1>12. /\ TurnOf(g, AddEntries(b, s), lines, Len(types))
       /\ AddEntries(b, s).g.partial = b.g.partial
  <2>1. types \in Seq(Streams) /\ Len(types) \in 0..2 /\ lines + Len(types) <= MaxLines
    BY <1>5, <1>8
  <2>2. s \in NextLines(types) /\ TurnOf(g, b, lines, 0)
    BY <1>7, <1>10
  <2> QED
    BY <2>1, <2>2, EntriesTurn
<1> QED
  BY <1>5, <1>10, <1>11, <1>12

-----------------------------------------------------------------------------
(***************************************************************************)
(* The invariant.                                                          *)
(***************************************************************************)

\* There is room for the lines that partial lines become: the text after the
\* last newline is kept by one logger, which is the current one until all are
\* closed.
RoomInv ==
    /\ \A l \in Loggers : lines + Cardinality(logger[l].partial) <= MaxLines
    /\ \A k, l \in Loggers :
        logger[k].partial # {} /\ logger[l].partial # {} => k = l
    /\ phase # "closed" =>
        \A l \in Loggers : l # current => logger[l].partial = {}

\* Calls are made of loggers in use, and close() is called on those shut.
UseInv ==
    /\ \A l \in Loggers : ~logger[l].used => logger[l] = Unused
    /\ current # NoLogger => logger[current].used
    /\ \A c \in calls : logger[c.of].used
    /\ \A c \in calls : c.kind = "close" => Shut(c.of)
    /\ phase = "closed" => current = NoLogger

\* The lines in the buffer of a logger.
Held(l) == IdsOf(logger[l].buffer)

\* A buffered line is in no other buffer, in no append and in no file.
BuffersInv ==
    \A l \in Loggers :
        /\ Ready(logger[l], lines)
        /\ Held(l) \cap OnFile = {}
        /\ Held(l) \cap InFlight = {}
        /\ \A k \in Loggers : k # l => Held(k) \cap Held(l) = {}

\* A line is in one append; what is in a file of it comes from earlier attempts.
AppendsInv ==
    /\ \A a \in appends :
        /\ Distinct(a.lines)
        /\ \A f \in Files : \A i \in DOMAIN file[f] :
              file[f][i].id \in IdsOf(a.lines) => file[f][i].try < a.try
    /\ \A a, b \in appends : a # b => IdsOf(a.lines) \cap IdsOf(b.lines) = {}

KnownInv == InFlight \subseteq 1..lines /\ OnFile \subseteq 1..lines

\* Of what close() has flushed nothing is in a buffer, and until it resolves it
\* waits for what is not yet written.
CloseInv ==
    /\ phase = "open" => owed = {}
    /\ owed \subseteq 1..lines
    /\ \A l \in Loggers : owed \cap Held(l) = {}
    /\ phase = "closing" =>
        \/ owed \cap InFlight = {}
        \/ \E c \in calls : c.kind = "close" /\ c.of = current /\ c.due = owed
    /\ CloseFlushes

\* No line is lost.
AccountInv ==
    \A n \in 1..lines :
        \/ n \in warned \cup InFlight \cup failed \cup OnFile \cup cleared
        \/ \E l \in Loggers : n \in Held(l)

LogsInv ==
    /\ TypeOK /\ RoomInv /\ UseInv /\ TimerArmed
    /\ BuffersInv /\ AppendsInv /\ KnownInv /\ NotRepeated
    /\ CloseInv /\ AccountInv

-----------------------------------------------------------------------------
(***************************************************************************)
(* What a turn does to the state.                                          *)
(***************************************************************************)

\* A turn of logger l, which came to t with k new lines, has ended.
Turns(l, t, k) ==
    /\ TurnOf(logger[l], t, lines, k) /\ lines' = lines + k
    /\ logger' \in [Loggers -> Logger] /\ logger'[l] = t.g
    /\ \A m \in Loggers : m # l => logger'[m].buffer = logger[m].buffer
    /\ appends' = appends \cup t.batches
    /\ warned' = warned \cup t.refused
    /\ UNCHANGED <<file, failed, cleared>>

LEMMA InFlightLines == InFlight = LinesOf(appends)
  BY DEF InFlight, LinesOf

LEMMA NewRange ==
    ASSUME NEW n \in Nat, NEW k \in Nat, n + k <= MaxLines
    PROVE  New(n, k) \subseteq 1..(n + k) /\ New(n, k) \cap 1..n = {}
           /\ 1..(n + k) \subseteq 1..n \cup New(n, k)
  BY LogAssumption DEF New, Ids

\* The lines of a turn: where they were, and where they are.
LEMMA TurnPlaces ==
    ASSUME TypeOK, BuffersInv, KnownInv, NEW l \in Loggers, NEW t, NEW k \in Nat,
           lines + k <= MaxLines, Turns(l, t, k)
    PROVE  /\ Held(l)' = IdsOf(t.g.buffer)
           /\ \A m \in Loggers : m # l => Held(m)' = Held(m)
           /\ InFlight' = InFlight \cup LinesOf(t.batches) /\ OnFile' = OnFile
           /\ Held(l)' \cup LinesOf(t.batches) \subseteq Held(l) \cup New(lines, k)
           /\ Held(l) \subseteq Held(l)' \cup LinesOf(t.batches)
           /\ Held(l)' \cap LinesOf(t.batches) = {}
           /\ New(lines, k) \subseteq Held(l)' \cup LinesOf(t.batches) \cup t.refused
           /\ t.refused \subseteq New(lines, k)
           /\ New(lines, k) \cap (1..lines) = {} /\ New(lines, k) \subseteq 1..lines'
           /\ 1..lines' \subseteq (1..lines) \cup New(lines, k)
           /\ 1..lines \subseteq 1..lines'
           /\ lines \in Nat /\ lines' \in 0..MaxLines
<1>1. lines \in Nat /\ lines' = lines + k /\ lines' \in 0..MaxLines
  BY LogAssumption DEF TypeOK, Turns
<1>2. /\ New(lines, k) \cap (1..lines) = {} /\ New(lines, k) \subseteq 1..lines'
      /\ 1..lines' \subseteq (1..lines) \cup New(lines, k)
  BY <1>1, NewRange
<1>3. Held(l)' = IdsOf(t.g.buffer)
  BY DEF Held, Turns
<1>4. \A m \in Loggers : m # l => Held(m)' = Held(m)
  BY DEF Held, Turns
<1>5. InFlight' = InFlight \cup LinesOf(t.batches)
  <2>1. InFlight' = LinesOf(appends')
    BY DEF InFlight, LinesOf
  <2> QED
    BY <2>1, InFlightLines, LinesOfUnion DEF Turns
<1>6. OnFile' = OnFile
  BY DEF OnFile, Turns
<1>7. /\ IdsOf(t.g.buffer) \cap LinesOf(t.batches) = {}
      /\ Held(l) \subseteq Holds(t) /\ Holds(t) \subseteq Held(l) \cup New(lines, k)
      /\ t.refused \subseteq New(lines, k)
      /\ New(lines, k) \subseteq Holds(t) \cup t.refused
  BY DEF Turns, TurnOf, Held
<1>8. Holds(t) = Held(l)' \cup LinesOf(t.batches)
  BY <1>3 DEF Holds
<1>9. 1..lines \subseteq 1..lines'
  BY <1>1
<1> QED
  BY <1>1, <1>2, <1>3, <1>4, <1>5, <1>6, <1>7, <1>8, <1>9

LEMMA TurnBuffers ==
    ASSUME TypeOK, BuffersInv, KnownInv, NEW l \in Loggers, NEW t, NEW k \in Nat,
           lines + k <= MaxLines, Turns(l, t, k)
    PROVE  BuffersInv' /\ KnownInv'
<1>1. Held(l) \subseteq 1..lines /\ Held(l) \cap OnFile = {} /\ Held(l) \cap InFlight = {}
  BY DEF BuffersInv, Ready, Held
<1>2. Held(l)' \subseteq 1..lines'
  BY <1>1, TurnPlaces
<1>3. Ready(logger'[l], lines')
  <2>1. t.g \in Logger /\ Distinct(t.g.buffer) /\ logger'[l] = t.g
    BY DEF Turns, TurnOf
  <2> QED
    BY <1>2, <2>1 DEF Ready, Held
<1>4. ASSUME NEW m \in Loggers, m # l
      PROVE  Ready(logger'[m], lines')
  <2>1. logger'[m] \in Logger /\ logger'[m].buffer = logger[m].buffer
    BY <1>4 DEF Turns
  <2>2. Ready(logger[m], lines)
    BY DEF BuffersInv
  <2>3. 1..lines \subseteq 1..lines'
    BY TurnPlaces
  <2> QED
    BY <2>1, <2>2, <2>3 DEF Ready
<1>5. Held(l)' \cap OnFile' = {} /\ Held(l)' \cap InFlight' = {}
  BY <1>1, TurnPlaces DEF KnownInv
<1>6. ASSUME NEW m \in Loggers, m # l
      PROVE  /\ Held(m)' \cap OnFile' = {} /\ Held(m)' \cap InFlight' = {}
             /\ Held(m)' \cap Held(l)' = {}
  <2>1. /\ Held(m) \subseteq 1..lines /\ Held(m) \cap OnFile = {}
        /\ Held(m) \cap InFlight = {} /\ Held(m) \cap Held(l) = {}
    BY <1>6 DEF BuffersInv, Ready, Held
  <2> QED
    BY <1>6, <2>1, TurnPlaces
<1>7. ASSUME NEW m \in Loggers, NEW o \in Loggers, m # o
      PROVE  Held(m)' \cap Held(o)' = {}
  <2>1. CASE m # l /\ o # l
    <3>1. Held(m) \cap Held(o) = {}
      BY <1>7 DEF BuffersInv
    <3> QED
      BY <2>1, <3>1, TurnPlaces
  <2>2. CASE m = l
    BY <1>6, <1>7, <2>2
  <2>3. CASE o = l
    BY <1>6, <1>7, <2>3
  <2> QED
    BY <2>1, <2>2, <2>3
<1>8. BuffersInv'
  BY <1>3, <1>4, <1>5, <1>6, <1>7 DEF BuffersInv
<1>9. KnownInv'
  <2>1. InFlight' \subseteq InFlight \cup Held(l) \cup New(lines, k)
    BY TurnPlaces
  <2>2. InFlight' \subseteq 1..lines'
    BY <1>1, <2>1, TurnPlaces DEF KnownInv
  <2>3. OnFile' \subseteq 1..lines'
    BY TurnPlaces DEF KnownInv
  <2> QED
    BY <2>2, <2>3 DEF KnownInv
<1> QED
  BY <1>8, <1>9

LEMMA TurnAppends ==
    ASSUME TypeOK, BuffersInv, AppendsInv, KnownInv, NEW l \in Loggers, NEW t,
           NEW k \in Nat, lines + k <= MaxLines, Turns(l, t, k)
    PROVE  AppendsInv' /\ appends' \subseteq Appends
<1>1. /\ appends' = appends \cup t.batches /\ Apart(t.batches) /\ file' = file
  BY DEF Turns, TurnOf
<1>2. \A b \in t.batches : IdsOf(b.lines) \subseteq Held(l) \cup New(lines, k)
  <2>1. \A b \in t.batches : IdsOf(b.lines) \subseteq LinesOf(t.batches)
    BY DEF LinesOf
  <2> QED
    BY <2>1, TurnPlaces
<1>3. /\ Held(l) \cap InFlight = {} /\ Held(l) \cap OnFile = {}
      /\ New(lines, k) \cap InFlight = {} /\ New(lines, k) \cap OnFile = {}
  BY TurnPlaces DEF BuffersInv, KnownInv
<1>4. \A a \in appends : IdsOf(a.lines) \subseteq InFlight
  BY DEF InFlight
<1>5. \A f \in Files : \A i \in DOMAIN file[f] : file[f][i].id \in OnFile
  BY DEF OnFile
<1>6. ASSUME NEW b \in t.batches
      PROVE  /\ Distinct(b.lines)
             /\ \A f \in Files : \A i \in DOMAIN file[f] :
                   file[f][i].id \notin IdsOf(b.lines)
             /\ \A a \in appends : IdsOf(a.lines) \cap IdsOf(b.lines) = {}
  <2>1. Distinct(b.lines)
    BY <1>1 DEF Apart
  <2>2. IdsOf(b.lines) \cap OnFile = {} /\ IdsOf(b.lines) \cap InFlight = {}
    BY <1>2, <1>3
  <2> QED
    BY <1>4, <1>5, <2>1, <2>2
<1>7. ASSUME NEW a \in appends'
      PROVE  /\ Distinct(a.lines)
             /\ \A f \in Files : \A i \in DOMAIN file[f] :
                   file[f][i].id \in IdsOf(a.lines) => file[f][i].try < a.try
  <2>1. CASE a \in appends
    BY <2>1 DEF AppendsInv
  <2>2. CASE a \in t.batches
    BY <1>6, <2>2
  <2> QED
    BY <1>1, <2>1, <2>2
<1>8. ASSUME NEW a \in appends', NEW b \in appends', a # b
      PROVE  IdsOf(a.lines) \cap IdsOf(b.lines) = {}
  <2>1. CASE a \in appends /\ b \in appends
    BY <1>8, <2>1 DEF AppendsInv
  <2>2. CASE a \in t.batches /\ b \in t.batches
    BY <1>1, <1>8, <2>2 DEF Apart
  <2>3. CASE a \in appends /\ b \in t.batches
    BY <1>6, <2>3
  <2>4. CASE a \in t.batches /\ b \in appends
    BY <1>6, <2>4
  <2> QED
    BY <1>1, <2>1, <2>2, <2>3, <2>4
<1>9. appends' \subseteq Appends
  BY <1>1 DEF TypeOK, Apart
<1>10. AppendsInv'
  BY <1>1, <1>7, <1>8 DEF AppendsInv
<1> QED
  BY <1>9, <1>10

\* Every line is still somewhere.
LEMMA TurnAccount ==
    ASSUME TypeOK, BuffersInv, KnownInv, AccountInv, NEW l \in Loggers, NEW t,
           NEW k \in Nat, lines + k <= MaxLines, Turns(l, t, k)
    PROVE  AccountInv'
<1>1. warned' = warned \cup t.refused /\ failed' = failed /\ cleared' = cleared
  BY DEF Turns
<1>2. ASSUME NEW n \in 1..lines'
      PROVE  \/ n \in warned' \cup InFlight' \cup failed' \cup OnFile' \cup cleared'
             \/ \E m \in Loggers : n \in Held(m)'
  <2>1. CASE n \in New(lines, k)
    BY <1>1, <2>1, TurnPlaces
  <2>2. CASE n \in 1..lines
    <3>1. CASE n \in warned \cup InFlight \cup failed \cup OnFile \cup cleared
      BY <1>1, <3>1, TurnPlaces
    <3>2. ASSUME NEW m \in Loggers, n \in Held(m)
          PROVE  \/ n \in InFlight' \/ \E o \in Loggers : n \in Held(o)'
      <4>1. CASE m = l
        BY <3>2, <4>1, TurnPlaces
      <4>2. CASE m # l
        BY <3>2, <4>2, TurnPlaces
      <4> QED
        BY <4>1, <4>2
    <3> QED
      BY <2>2, <3>1, <3>2 DEF AccountInv
  <2> QED
    BY <1>2, <2>1, <2>2, TurnPlaces
<1> QED
  BY <1>2 DEF AccountInv

\* What every turn keeps.
LEMMA TurnKept ==
    ASSUME LogsInv, NEW l \in Loggers, NEW t, NEW k \in Nat,
           lines + k <= MaxLines, Turns(l, t, k)
    PROVE  /\ BuffersInv' /\ AppendsInv' /\ KnownInv' /\ NotRepeated' /\ AccountInv'
           /\ appends' \subseteq Appends /\ lines' \in 0..MaxLines /\ warned' \subseteq Ids
           /\ owed \subseteq 1..lines' /\ \A m \in Loggers : owed \cap Held(m)' = {}
           /\ owed \cap InFlight = {} => owed \cap InFlight' = {}
<1>1. TypeOK /\ BuffersInv /\ AppendsInv /\ KnownInv /\ NotRepeated /\ CloseInv /\ AccountInv
  BY DEF LogsInv
<1>2. BuffersInv' /\ KnownInv' /\ AppendsInv' /\ appends' \subseteq Appends /\ AccountInv'
  BY <1>1, TurnBuffers, TurnAppends, TurnAccount
<1>3. NotRepeated'
  BY <1>1 DEF NotRepeated, Turns
<1>4. lines' \in 0..MaxLines
  BY <1>1, TurnPlaces
<1>5. warned' \subseteq Ids
  BY <1>1 DEF Turns, TurnOf, New, TypeOK
<1>6. owed \subseteq 1..lines /\ \A m \in Loggers : owed \cap Held(m) = {}
  BY <1>1 DEF CloseInv
<1>7. owed \subseteq 1..lines'
  BY <1>1, <1>6, TurnPlaces
<1>8. owed \cap New(lines, k) = {}
  BY <1>1, <1>6, TurnPlaces
<1>9. owed \cap Held(l)' = {} /\ owed \cap LinesOf(t.batches) = {}
  BY <1>1, <1>6, <1>8, TurnPlaces
<1>10. \A m \in Loggers : owed \cap Held(m)' = {}
  <2> TAKE m \in Loggers
  <2>1. CASE m = l
    BY <1>9, <2>1
  <2>2. CASE m # l
    BY <1>1, <1>6, <2>2, TurnPlaces
  <2> QED
    BY <2>1, <2>2
<1>11. owed \cap InFlight = {} => owed \cap InFlight' = {}
  BY <1>1, <1>9, TurnPlaces
<1> QED
  BY <1>2, <1>3, <1>4, <1>5, <1>7, <1>10, <1>11

\* A turn that ends with the call of nothing but flushBuffer(), or the end of one.
TurnStep(l, t, k) ==
    /\ lines + k <= MaxLines /\ lines' = lines + k
    /\ TurnOf(logger[l], t, lines, k) /\ logger[l].used
    /\ logger' = [logger EXCEPT ![l] = t.g]
    /\ appends' = appends \cup t.batches /\ warned' = warned \cup t.refused
    /\ UNCHANGED <<current, phase, file, failed, cleared, owed>>
    /\ calls' \subseteq [kind : {"flush", "close"}, of : Loggers, due : SUBSET Ids]
    /\ \A c \in calls' : c \in calls \/ (c.kind = "flush" /\ c.of = l)
    /\ \A c \in calls : c.kind = "close" => c \in calls'

LEMMA TurnInv ==
    ASSUME LogsInv, NEW l \in Loggers, NEW t, NEW k \in Nat, TurnStep(l, t, k),
           RoomInv'
    PROVE  LogsInv'
<1> USE DEF TurnStep
<1>1. TypeOK /\ UseInv /\ TimerArmed /\ CloseInv
  BY DEF LogsInv
<1>2. logger \in [Loggers -> Logger] /\ t.g \in Logger /\ t.g.used = logger[l].used
  BY <1>1 DEF TypeOK, TurnOf
<1>3. /\ logger' \in [Loggers -> Logger] /\ logger'[l] = t.g
      /\ \A m \in Loggers : m # l => logger'[m] = logger[m]
      /\ \A m \in Loggers : logger'[m].used = logger[m].used
  BY <1>2
<1>4. Turns(l, t, k)
  BY <1>3 DEF Turns
<1>5. /\ BuffersInv' /\ AppendsInv' /\ KnownInv' /\ NotRepeated' /\ AccountInv'
      /\ appends' \subseteq Appends /\ lines' \in 0..MaxLines /\ warned' \subseteq Ids
      /\ owed \subseteq 1..lines' /\ \A m \in Loggers : owed \cap Held(m)' = {}
      /\ owed \cap InFlight = {} => owed \cap InFlight' = {}
  BY <1>4, TurnKept
<1>6. TypeOK'
  BY <1>1, <1>3, <1>5 DEF TypeOK
<1>7. \A m \in Loggers : Shut(m)' <=> Shut(m)
  BY <1>3 DEF Shut
<1>8. UseInv'
  <2>1. \A m \in Loggers : ~logger'[m].used => logger'[m] = Unused
    BY <1>1, <1>3 DEF UseInv
  <2>2. current' # NoLogger => logger'[current'].used
    BY <1>1, <1>3 DEF UseInv, TypeOK
  <2>3. \A c \in calls' : logger'[c.of].used
    BY <1>1, <1>3 DEF UseInv, TypeOK
  <2>4. \A c \in calls' : c.kind = "close" => Shut(c.of)'
    <3>1. \A c \in calls' : c.of \in Loggers
      OBVIOUS
    <3>2. \A c \in calls' : c.kind = "close" => c \in calls
      OBVIOUS
    <3> QED
      BY <1>1, <1>7, <3>1, <3>2 DEF UseInv
  <2>5. phase' = "closed" => current' = NoLogger
    BY <1>1 DEF UseInv
  <2> QED
    BY <2>1, <2>2, <2>3, <2>4, <2>5 DEF UseInv
<1>9. TimerArmed'
  <2>1. Armed(logger[l]) => Armed(t.g)
    BY DEF TurnOf
  <2>2. \A m \in Loggers : ~Shut(m) => Armed(logger[m])
    BY <1>1 DEF TimerArmed, Armed
  <2>3. \A m \in Loggers : ~Shut(m)' => Armed(logger'[m])
    BY <1>3, <1>7, <2>1, <2>2
  <2> QED
    BY <2>3 DEF TimerArmed, Armed
<1>10. CloseInv'
  <2>1. phase' = "open" => owed' = {}
    BY <1>1 DEF CloseInv
  <2>2. phase' = "closing" =>
            \/ owed' \cap InFlight' = {}
            \/ \E c \in calls' : c.kind = "close" /\ c.of = current' /\ c.due = owed'
    BY <1>1, <1>5 DEF CloseInv
  <2>3. CloseFlushes'
    BY <1>1, <1>5 DEF CloseInv, CloseFlushes
  <2> QED
    BY <1>5, <2>1, <2>2, <2>3 DEF CloseInv
<1> QED
  BY <1>5, <1>6, <1>8, <1>9, <1>10 DEF LogsInv

\* A step that leaves every line where it is.
LEMMA QuietKept ==
    ASSUME LogsInv, logger' \in [Loggers -> Logger],
           \A m \in Loggers : logger'[m].buffer = logger[m].buffer,
           UNCHANGED <<appends, file, lines, warned, failed, cleared>>
    PROVE  /\ BuffersInv' /\ AppendsInv' /\ KnownInv' /\ NotRepeated' /\ AccountInv'
           /\ \A m \in Loggers : Held(m)' = Held(m)
           /\ InFlight' = InFlight
<1>1. \A m \in Loggers : Held(m)' = Held(m)
  BY DEF Held
<1>2. InFlight' = InFlight /\ OnFile' = OnFile
  BY DEF InFlight, OnFile
<1>3. BuffersInv'
  <2>1. \A m \in Loggers : Ready(logger'[m], lines')
    BY DEF LogsInv, BuffersInv, Ready
  <2> QED
    BY <1>1, <1>2, <2>1 DEF LogsInv, BuffersInv
<1>4. AppendsInv' /\ KnownInv' /\ NotRepeated'
  BY <1>2 DEF LogsInv, AppendsInv, KnownInv, NotRepeated
<1>5. AccountInv'
  BY <1>1, <1>2 DEF LogsInv, AccountInv
<1> QED
  BY <1>1, <1>2, <1>3, <1>4, <1>5

-----------------------------------------------------------------------------
(***************************************************************************)
(* The steps of the loggers.                                               *)
(***************************************************************************)

\* What is known of a logger.
LEMMA LoggerReady ==
    ASSUME LogsInv, NEW l \in Loggers
    PROVE  /\ Ready(logger[l], lines) /\ logger[l].partial \in SUBSET Streams
           /\ Cardinality(logger[l].partial) \in Nat
           /\ lines \in Nat /\ lines <= MaxLines
           /\ lines + Cardinality(logger[l].partial) <= MaxLines
           /\ logger[l].buffer # <<>> \/ logger[l].timer \/ logger[l].partial # {}
                => logger[l].used
<1>1. Ready(logger[l], lines) /\ lines + Cardinality(logger[l].partial) <= MaxLines
  BY DEF LogsInv, BuffersInv, RoomInv
<1>2. logger[l].partial \in SUBSET Streams
  BY <1>1 DEF Ready, Logger
<1>3. Cardinality(logger[l].partial) \in Nat
  BY <1>2, StreamCards
<1>4. lines \in Nat /\ lines <= MaxLines
  BY LogAssumption DEF LogsInv, TypeOK
<1>5. ~logger[l].used => logger[l] = Unused
  BY DEF LogsInv, UseInv
<1>6. Unused.buffer = <<>> /\ ~Unused.timer /\ Unused.partial = {}
  BY DEF Unused
<1> QED
  BY <1>1, <1>2, <1>3, <1>4, <1>5, <1>6

\* A chunk of output.
LEMMA OutputTurn ==
    ASSUME LogsInv, NEW type \in Streams, Output(type)
    PROVE  \E l \in Loggers : \E t : \E k \in Nat : TurnStep(l, t, k) /\ RoomInv'
<1>1. PICK ends \in BOOLEAN, rest \in BOOLEAN : Capture(current, type, ends, rest)
  BY DEF Output
<1>2. current \in Loggers /\ current # NoLogger
  BY DEF Output, LogsInv, TypeOK
<1>3. PICK l \in Loggers : l = current
  BY <1>2
<1>4. PICK p : p = IF rest THEN logger[l].partial \cup {type}
                   ELSE IF ends THEN logger[l].partial \ {type} ELSE logger[l].partial
  OBVIOUS
<1>5. PICK new : new = IF ends THEN <<type>> ELSE <<>>
  OBVIOUS
<1>6. PICK h : h = [logger[l] EXCEPT !.partial = p]
  OBVIOUS
<1>7. Ready(logger[l], lines) /\ lines \in Nat /\ logger[l].partial \in SUBSET Streams
  BY LoggerReady
<1>8. p \in SUBSET Streams
  BY <1>4, <1>7
<1>9. h.partial = p
  BY <1>6, <1>7, <1>8 DEF Ready, Logger
<1>10. new \in Seq(Streams) /\ Len(new) \in 0..2
  <2>1. <<type>> \in Seq(Streams) /\ Len(<<type>>) = 1
    OBVIOUS
  <2>2. <<>> \in Seq(Streams) /\ Len(<<>>) = 0
    OBVIOUS
  <2> QED
    BY <1>5, <2>1, <2>2
<1>11. /\ lines + Len(new) + Cardinality(p) <= MaxLines
       /\ \E s \in NextLines(new) : Done(l, AddEntries(Turn(h), s))
       /\ lines' = lines + Len(new)
       /\ UNCHANGED <<current, phase, calls, file, failed, cleared, owed>>
  BY <1>1, <1>3, <1>4, <1>5, <1>6, <1>9 DEF Capture
<1>12. PICK s \in NextLines(new) : Done(l, AddEntries(Turn(h), s))
  BY <1>11
<1>13. PICK b : b = Turn(h)
  OBVIOUS
<1>14. TurnOf(logger[l], b, lines, 0) /\ b.g.partial = p
  BY <1>6, <1>7, <1>8, <1>13, TurnBegins
<1>15. PICK t : t = AddEntries(b, s)
  OBVIOUS
<1>16. Cardinality(p) \in Nat /\ Len(new) \in Nat /\ lines + Len(new) <= MaxLines
  <2>1. Cardinality(p) \in Nat
    BY <1>8, StreamCards
  <2> QED
    BY <1>7, <1>10, <1>11, <2>1, LogAssumption
<1>17. TurnOf(logger[l], t, lines, Len(new)) /\ t.g.partial = p
  <2>1. s \in NextLines(new) /\ TurnOf(logger[l], b, lines, 0)
    BY <1>12, <1>14
  <2>2. /\ TurnOf(logger[l], AddEntries(b, s), lines, Len(new))
        /\ AddEntries(b, s).g.partial = b.g.partial
    BY <1>7, <1>10, <1>16, <2>1, EntriesTurn
  <2> QED
    BY <1>14, <1>15, <2>2
<1>18. /\ logger' = [logger EXCEPT ![l] = t.g]
       /\ appends' = appends \cup t.batches /\ warned' = warned \cup t.refused
  BY <1>12, <1>13, <1>15 DEF Done
<1>19. logger[l].used
  BY <1>2, <1>3 DEF LogsInv, UseInv
<1>20. RoomInv'
  <2>1. \A m \in Loggers : logger'[m].partial = IF m = l THEN p ELSE logger[m].partial
    BY <1>17, <1>18 DEF LogsInv, TypeOK
  <2>2. phase # "closed"
    BY <1>2 DEF LogsInv, UseInv
  <2>3. \A m \in Loggers : m # l => logger[m].partial = {}
    BY <1>3, <2>2 DEF LogsInv, RoomInv
  <2>4. ASSUME NEW m \in Loggers
        PROVE  lines' + Cardinality(logger'[m].partial) <= MaxLines
    <3>1. CASE m = l
      BY <1>11, <2>1, <3>1
    <3>2. CASE m # l
      <4>1. logger'[m].partial = {} /\ Cardinality({}) = 0
        BY <2>1, <2>3, <3>2, FS_EmptySet
      <4>2. lines' + 0 <= MaxLines
        BY <1>7, <1>11, <1>16
      <4> QED
        BY <4>1, <4>2
    <3> QED
      BY <3>1, <3>2
  <2> QED
    BY <1>3, <1>11, <2>1, <2>3, <2>4 DEF RoomInv
<1>21. calls' = calls /\ calls \subseteq [kind : {"flush", "close"}, of : Loggers, due : SUBSET Ids]
  BY <1>11 DEF LogsInv, TypeOK
<1>22. TurnStep(l, t, Len(new))
  BY <1>11, <1>16, <1>17, <1>18, <1>19, <1>21 DEF TurnStep
<1> QED
  BY <1>3, <1>16, <1>20, <1>22

\* A flush leaves the text after the last newline where it is.
LEMMA FlushedRoom ==
    ASSUME LogsInv, NEW l \in Loggers, NEW g, g.partial = logger[l].partial,
           logger' = [logger EXCEPT ![l] = g], UNCHANGED <<lines, phase, current>>
    PROVE  RoomInv'
<1>1. \A m \in Loggers : logger'[m].partial = logger[m].partial
  BY DEF LogsInv, TypeOK
<1> QED
  BY <1>1 DEF LogsInv, RoomInv

\* A flush of a logger by itself.
LEMMA FlushOnly ==
    ASSUME LogsInv, NEW l \in Loggers
    PROVE  /\ TurnOf(logger[l], Flush(Turn(logger[l])), lines, 0)
           /\ Flush(Turn(logger[l])).g.partial = logger[l].partial
<1>1. PICK g : g = logger[l]
  OBVIOUS
<1>2. Ready(g, lines) /\ g.partial \in SUBSET Streams /\ lines \in Nat
  BY <1>1, LoggerReady
<1>3. g = [g EXCEPT !.partial = g.partial]
  BY <1>2 DEF Ready, Logger
<1>4. PICK t : t = Turn(g)
  OBVIOUS
<1>5. TurnOf(g, t, lines, 0) /\ t.g.partial = g.partial
  BY <1>2, <1>3, <1>4, TurnBegins
<1>6. TurnOf(g, Flush(t), lines, 0) /\ Flush(t).g.partial = t.g.partial
  BY <1>2, <1>5, FlushTurn
<1> QED
  BY <1>1, <1>4, <1>5, <1>6

LEMMA FlushTimerTurn ==
    ASSUME LogsInv, NEW l \in Loggers, FlushTimer(l)
    PROVE  \E t : \E k \in Nat : TurnStep(l, t, k) /\ RoomInv'
<1>1. PICK t : t = Flush(Turn(logger[l]))
  OBVIOUS
<1>2. TurnOf(logger[l], t, lines, 0) /\ t.g.partial = logger[l].partial
  BY <1>1, FlushOnly
<1>3. /\ logger' = [logger EXCEPT ![l] = t.g]
      /\ appends' = appends \cup t.batches /\ warned' = warned \cup t.refused
      /\ UNCHANGED <<current, phase, calls, file, lines, failed, cleared, owed>>
      /\ logger[l].timer
  BY <1>1 DEF FlushTimer, Done
<1>4. logger[l].used /\ lines + 0 = lines /\ lines + 0 <= MaxLines
  BY <1>3, LoggerReady
<1>5. RoomInv'
  BY <1>2, <1>3, FlushedRoom
<1>6. calls' \subseteq [kind : {"flush", "close"}, of : Loggers, due : SUBSET Ids]
  BY <1>3 DEF LogsInv, TypeOK
<1>7. lines' = lines + 0
  BY <1>3, <1>4
<1>8. PICK k \in Nat : k = 0
  OBVIOUS
<1>9. TurnStep(l, t, k)
  BY <1>2, <1>3, <1>4, <1>6, <1>7, <1>8 DEF TurnStep
<1> QED
  BY <1>5, <1>8, <1>9

LEMMA FlushBufferTurn ==
    ASSUME LogsInv, FlushBuffer
    PROVE  \E l \in Loggers : \E t : \E k \in Nat : TurnStep(l, t, k) /\ RoomInv'
<1>1. PICK l \in Loggers : l = current /\ current # NoLogger
  BY DEF FlushBuffer, LogsInv, TypeOK
<1>2. PICK t : t = Flush(Turn(logger[l]))
  OBVIOUS
<1>3. TurnOf(logger[l], t, lines, 0) /\ t.g.partial = logger[l].partial
  BY <1>2, FlushOnly
<1>4. PICK c : c = [kind |-> "flush", of |-> l, due |-> Held(l)]
  OBVIOUS
<1>5. /\ logger' = [logger EXCEPT ![l] = t.g]
      /\ appends' = appends \cup t.batches /\ warned' = warned \cup t.refused
      /\ UNCHANGED <<current, phase, file, lines, failed, cleared, owed>>
      /\ calls' = calls \cup {c}
  BY <1>1, <1>2, <1>4 DEF FlushBuffer, Done, Held
<1>6. logger[l].used /\ lines + 0 = lines /\ lines + 0 <= MaxLines
  BY <1>1, LoggerReady DEF LogsInv, UseInv
<1>7. RoomInv'
  BY <1>3, <1>5, FlushedRoom
<1>8. Held(l) \subseteq Ids
  <2>1. 1..lines \subseteq Ids
    BY LoggerReady, LogAssumption DEF Ids
  <2>2. Held(l) \subseteq 1..lines
    BY LoggerReady DEF Ready, Held
  <2> QED
    BY <2>1, <2>2
<1>9. calls' \subseteq [kind : {"flush", "close"}, of : Loggers, due : SUBSET Ids]
  BY <1>4, <1>5, <1>8 DEF LogsInv, TypeOK
<1>10. lines' = lines + 0
  BY <1>5, <1>6
<1>11. \A d \in calls' : d \in calls \/ (d.kind = "flush" /\ d.of = l)
  <2>1. c.kind = "flush" /\ c.of = l
    BY <1>4
  <2>2. \A d \in calls' : d \in calls \/ d = c
    BY <1>5
  <2> QED
    BY <2>1, <2>2
<1>12. \A d \in calls : d.kind = "close" => d \in calls'
  BY <1>5
<1>13. PICK k \in Nat : k = 0
  OBVIOUS
<1>14. TurnStep(l, t, k)
  BY <1>3, <1>5, <1>6, <1>9, <1>10, <1>11, <1>12, <1>13 DEF TurnStep
<1> QED
  BY <1>1, <1>7, <1>13, <1>14

\* The partial lines of a logger come up: the others have none, or it has none.
LEMMA PartialRoom ==
    ASSUME LogsInv, NEW l \in Loggers, NEW k \in Nat, k = Cardinality(logger[l].partial),
           lines' = lines + k,
           \A m \in Loggers : logger'[m].partial = IF m = l THEN {} ELSE logger[m].partial
    PROVE  /\ \A m \in Loggers : lines' + Cardinality(logger'[m].partial) <= MaxLines
           /\ \A m, o \in Loggers :
                logger'[m].partial # {} /\ logger'[o].partial # {} => m = o
<1>1. Cardinality({}) = 0
  BY FS_EmptySet
<1>2. lines \in Nat /\ lines + k <= MaxLines /\ (logger[l].partial = {} <=> k = 0)
  BY LoggerReady, StreamCards
<1>3. ASSUME NEW m \in Loggers
      PROVE  lines' + Cardinality(logger'[m].partial) <= MaxLines
  <2>1. CASE m = l \/ logger[m].partial = {}
    BY <1>1, <1>2, <2>1
  <2>2. CASE m # l /\ logger[m].partial # {}
    <3>1. k = 0
      BY <1>2, <2>2 DEF LogsInv, RoomInv
    <3> QED
      BY <2>2, <3>1, LoggerReady
  <2> QED
    BY <2>1, <2>2
<1>4. \A m, o \in Loggers : logger'[m].partial # {} /\ logger'[o].partial # {} => m = o
  BY DEF LogsInv, RoomInv
<1> QED
  BY <1>3, <1>4

LEMMA FlushBufferEndTurn ==
    ASSUME LogsInv, NEW c \in calls, FlushBufferEnd(c)
    PROVE  \E l \in Loggers : \E t : \E k \in Nat : TurnStep(l, t, k) /\ RoomInv'
<1>1. PICK l \in Loggers : l = c.of
  BY DEF LogsInv, TypeOK
<1>2. PICK t \in PartialLines(logger[l]) : Done(l, t)
  BY <1>1 DEF FlushBufferEnd
<1>3. PICK k : k = Cardinality(logger[l].partial)
  OBVIOUS
<1>4. k \in Nat /\ lines + k <= MaxLines /\ Ready(logger[l], lines) /\ lines \in Nat
  BY <1>3, LoggerReady
<1>5. TurnOf(logger[l], t, lines, k) /\ t.g.partial = {}
  BY <1>3, <1>4, PartialTurn
<1>6. /\ logger' = [logger EXCEPT ![l] = t.g]
      /\ appends' = appends \cup t.batches /\ warned' = warned \cup t.refused
      /\ UNCHANGED <<current, phase, file, failed, cleared, owed>>
      /\ lines' = lines + k /\ calls' = calls \ {c} /\ c.kind = "flush"
  BY <1>1, <1>2, <1>3 DEF FlushBufferEnd, Done
<1>7. logger[l].used
  BY <1>1 DEF LogsInv, UseInv
<1>8. RoomInv'
  <2>1. \A m \in Loggers : logger'[m].partial = IF m = l THEN {} ELSE logger[m].partial
    BY <1>5, <1>6 DEF LogsInv, TypeOK
  <2>2. phase' # "closed" => \A m \in Loggers : m # current' => logger'[m].partial = {}
    BY <1>6, <2>1 DEF LogsInv, RoomInv
  <2> QED
    BY <1>3, <1>4, <1>6, <2>1, <2>2, PartialRoom DEF RoomInv
<1>9. calls' \subseteq [kind : {"flush", "close"}, of : Loggers, due : SUBSET Ids]
  BY <1>6 DEF LogsInv, TypeOK
<1>10. \A d \in calls : d.kind = "close" => d \in calls'
  BY <1>6
<1>11. \A d \in calls' : d \in calls
  BY <1>6
<1>12. TurnStep(l, t, k)
  BY <1>4, <1>5, <1>6, <1>7, <1>9, <1>10, <1>11 DEF TurnStep
<1> QED
  BY <1>1, <1>4, <1>8, <1>12

\* The steps that are a turn of one logger and leave all of them open or shut.
TurnOnly ==
    \/ \E type \in Streams : Output(type)
    \/ \E l \in Loggers : FlushTimer(l)
    \/ FlushBuffer
    \/ \E c \in calls : FlushBufferEnd(c)

LEMMA TurnOnlyIs ==
    ASSUME LogsInv, TurnOnly
    PROVE  \E l \in Loggers : \E t : \E k \in Nat : TurnStep(l, t, k) /\ RoomInv'
<1>1. CASE \E type \in Streams : Output(type)
  BY <1>1, OutputTurn
<1>2. CASE \E l \in Loggers : FlushTimer(l)
  BY <1>2, FlushTimerTurn
<1>3. CASE FlushBuffer
  BY <1>3, FlushBufferTurn
<1>4. CASE \E c \in calls : FlushBufferEnd(c)
  BY <1>4, FlushBufferEndTurn
<1> QED
  BY <1>1, <1>2, <1>3, <1>4 DEF TurnOnly

LEMMA TurnOnlyInv ==
    ASSUME LogsInv, TurnOnly
    PROVE  LogsInv'
<1>1. PICK l \in Loggers : \E t : \E k \in Nat : TurnStep(l, t, k) /\ RoomInv'
  BY TurnOnlyIs
<1>2. PICK t : \E k \in Nat : TurnStep(l, t, k) /\ RoomInv'
  BY <1>1
<1>3. PICK k \in Nat : TurnStep(l, t, k) /\ RoomInv'
  BY <1>2
<1> QED
  BY <1>3, TurnInv

-----------------------------------------------------------------------------
(***************************************************************************)
(* A close, and the loggers that come and go.                              *)
(***************************************************************************)

\* Logger l, whose partial lines and flush came to u with k new lines, is being
\* closed by a call that waits for `due'.  The others are as in rest.
Closes(l, rest, u, k, due) ==
    /\ Turns(l, u, k) /\ k = Cardinality(logger[l].partial) /\ lines + k <= MaxLines
    /\ u.g.partial = {} /\ u.g.buffer = <<>> /\ u.g.used = logger[l].used
    /\ due \in SUBSET Ids /\ due \subseteq LinesOf(u.batches)
    /\ logger' = [rest EXCEPT ![l] = u.g]
    /\ calls' = calls \cup {[kind |-> "close", of |-> l, due |-> due]}

LEMMA CloseTurn ==
    ASSUME LogsInv, NEW l \in Loggers, NEW rest \in [Loggers -> Logger],
           \A m \in Loggers : rest[m].buffer = logger[m].buffer,
           Close(l, rest), UNCHANGED <<file, failed, cleared>>
    PROVE  \E u : \E k \in Nat : \E due : Closes(l, rest, u, k, due)
<1>1. PICK t \in PartialLines(logger[l]) :
        /\ logger' = [rest EXCEPT ![l] = Flush(t).g]
        /\ appends' = appends \cup Flush(t).batches
        /\ warned' = warned \cup t.refused
        /\ calls' = calls \cup {[kind |-> "close", of |-> l, due |-> IdsOf(t.g.buffer)]}
  BY DEF Close
<1>2. PICK u : u = Flush(t)
  OBVIOUS
<1>3. PICK k : k = Cardinality(logger[l].partial)
  OBVIOUS
<1>4. PICK due : due = IdsOf(t.g.buffer)
  OBVIOUS
<1>5. k \in Nat /\ lines + k <= MaxLines /\ Ready(logger[l], lines) /\ lines \in Nat
  BY <1>3, LoggerReady
<1>6. TurnOf(logger[l], t, lines, k) /\ t.g.partial = {}
  BY <1>3, <1>5, PartialTurn
<1>7. /\ TurnOf(logger[l], u, lines, k) /\ u.g.buffer = <<>>
      /\ u.g.partial = t.g.partial /\ u.refused = t.refused
      /\ LinesOf(u.batches) = LinesOf(t.batches) \cup IdsOf(t.g.buffer)
  BY <1>2, <1>5, <1>6, FlushTurn
<1>8. u.g \in Logger /\ u.g.used = logger[l].used
  BY <1>7 DEF TurnOf
<1>9. due \in SUBSET Ids
  <2>1. t.g \in Logger
    BY <1>6 DEF TurnOf
  <2>2. t.g.buffer \in Seq(Line)
    BY <2>1 DEF Logger
  <2>3. \A i \in 1..Len(t.g.buffer) : t.g.buffer[i] \in Line
    BY <2>2
  <2>4. \A i \in 1..Len(t.g.buffer) : t.g.buffer[i].id \in Ids
    BY <2>3 DEF Line
  <2> QED
    BY <1>4, <2>4 DEF IdsOf
<1>10. lines' = lines + k
  BY <1>3 DEF Close
<1>11. /\ logger' = [rest EXCEPT ![l] = u.g] /\ appends' = appends \cup u.batches
       /\ warned' = warned \cup u.refused
       /\ calls' = calls \cup {[kind |-> "close", of |-> l, due |-> due]}
  BY <1>1, <1>2, <1>4, <1>7
<1>12. /\ logger' \in [Loggers -> Logger] /\ logger'[l] = u.g
       /\ \A m \in Loggers : m # l => logger'[m].buffer = logger[m].buffer
  BY <1>8, <1>11
<1>13. Turns(l, u, k)
  BY <1>7, <1>10, <1>11, <1>12 DEF Turns
<1>14. Closes(l, rest, u, k, due)
  BY <1>3, <1>4, <1>5, <1>6, <1>7, <1>8, <1>9, <1>11, <1>13 DEF Closes
<1> QED
  BY <1>5, <1>14

\* What a close keeps, and what becomes of the lines it waits for.
Closed(l, rest, due) ==
    /\ BuffersInv' /\ AppendsInv' /\ KnownInv' /\ NotRepeated' /\ AccountInv'
    /\ appends' \subseteq Appends /\ lines' \in 0..MaxLines /\ warned' \subseteq Ids
    /\ owed \subseteq 1..lines' /\ \A m \in Loggers : owed \cap Held(m)' = {}
    /\ owed \cap InFlight = {} => owed \cap InFlight' = {}
    /\ due \subseteq 1..lines' /\ \A m \in Loggers : due \cap Held(m)' = {}
    /\ logger' \in [Loggers -> Logger] /\ logger'[l].used
    /\ \A m \in Loggers : m # l => logger'[m] = rest[m]
    /\ calls' \subseteq [kind : {"flush", "close"}, of : Loggers, due : SUBSET Ids]
    /\ \A c \in calls' : c \in calls \/ (c.kind = "close" /\ c.of = l /\ c.due = due)
    /\ \A m \in Loggers : lines' + Cardinality(logger'[m].partial) <= MaxLines
    /\ \A m, o \in Loggers :
        logger'[m].partial # {} /\ logger'[o].partial # {} => m = o
    /\ \A m \in Loggers : logger'[m].partial = IF m = l THEN {} ELSE logger[m].partial

LEMMA CloseKept ==
    ASSUME LogsInv, NEW l \in Loggers, NEW rest \in [Loggers -> Logger],
           NEW u, NEW k \in Nat, NEW due, Closes(l, rest, u, k, due),
           \A m \in Loggers : m # l => rest[m].partial = logger[m].partial,
           logger[l].used
    PROVE  Closed(l, rest, due)
<1>1. Turns(l, u, k) /\ lines + k <= MaxLines
  BY DEF Closes
<1>2. TypeOK /\ BuffersInv /\ KnownInv
  BY DEF LogsInv
<1>3. /\ BuffersInv' /\ AppendsInv' /\ KnownInv' /\ NotRepeated' /\ AccountInv'
      /\ appends' \subseteq Appends /\ lines' \in 0..MaxLines /\ warned' \subseteq Ids
      /\ owed \subseteq 1..lines' /\ \A m \in Loggers : owed \cap Held(m)' = {}
      /\ owed \cap InFlight = {} => owed \cap InFlight' = {}
  BY <1>1, TurnKept
<1>4. due \subseteq InFlight'
  BY <1>1, <1>2, TurnPlaces DEF Closes
<1>5. due \subseteq 1..lines' /\ \A m \in Loggers : due \cap Held(m)' = {}
  BY <1>3, <1>4 DEF KnownInv, BuffersInv
<1>6. /\ logger' = [rest EXCEPT ![l] = u.g] /\ u.g \in Logger
      /\ u.g.used = logger[l].used /\ u.g.partial = {}
  BY DEF Closes, Turns, TurnOf
<1>7. /\ logger' \in [Loggers -> Logger] /\ logger'[l].used
      /\ \A m \in Loggers : m # l => logger'[m] = rest[m]
      /\ \A m \in Loggers : logger'[m].partial = IF m = l THEN {} ELSE logger[m].partial
  BY <1>6
<1>8. /\ calls' \subseteq [kind : {"flush", "close"}, of : Loggers, due : SUBSET Ids]
      /\ \A c \in calls' : c \in calls \/ (c.kind = "close" /\ c.of = l /\ c.due = due)
  <2>1. PICK c : c = [kind |-> "close", of |-> l, due |-> due]
    OBVIOUS
  <2>2. calls' = calls \cup {c} /\ due \in SUBSET Ids
    BY <2>1 DEF Closes
  <2>3. c \in [kind : {"flush", "close"}, of : Loggers, due : SUBSET Ids]
    BY <2>1, <2>2
  <2>4. c.kind = "close" /\ c.of = l /\ c.due = due
    BY <2>1
  <2> QED
    BY <1>2, <2>2, <2>3, <2>4 DEF TypeOK
<1>9. k = Cardinality(logger[l].partial) /\ lines' = lines + k
  BY DEF Closes, Turns
<1>10. /\ \A m \in Loggers : lines' + Cardinality(logger'[m].partial) <= MaxLines
       /\ \A m, o \in Loggers :
            logger'[m].partial # {} /\ logger'[o].partial # {} => m = o
  BY <1>7, <1>9, PartialRoom
<1> QED
  BY <1>3, <1>5, <1>7, <1>8, <1>10 DEF Closed

\* A logger that nobody has used holds nothing.
LEMMA UnusedIdle ==
    ASSUME LogsInv
    PROVE  \A m \in Loggers : ~logger[m].used =>
              ~logger[m].timer /\ logger[m].buffer = <<>> /\ logger[m].partial = {}
<1>1. ~Unused.timer /\ Unused.buffer = <<>> /\ Unused.partial = {}
  BY DEF Unused
<1> QED
  BY <1>1 DEF LogsInv, UseInv

\* The loggers, when a new one is in use.
WithNew(l, split) == [logger EXCEPT ![l].used = TRUE, ![l].split = split]

LEMMA SetupRest ==
    ASSUME LogsInv, NEW l \in Loggers, NEW split \in BOOLEAN, ~logger[l].used,
           NEW rest, rest = WithNew(l, split)
    PROVE  /\ rest \in [Loggers -> Logger]
           /\ \A m \in Loggers : m # l => rest[m] = logger[m]
           /\ \A m \in Loggers : rest[m].buffer = logger[m].buffer
           /\ \A m \in Loggers : rest[m].partial = logger[m].partial
           /\ rest[l].used /\ ~rest[l].timer /\ rest[l].buffer = <<>>
<1>1. logger \in [Loggers -> Logger]
  BY DEF LogsInv, TypeOK
<1>2. ~logger[l].timer /\ logger[l].buffer = <<>> /\ logger[l].partial = {}
  BY UnusedIdle
<1>3. PICK r : r = [logger[l] EXCEPT !.used = TRUE, !.split = split]
  OBVIOUS
<1>4. /\ r \in Logger /\ r.used /\ ~r.timer /\ r.buffer = <<>> /\ r.partial = {}
      /\ rest = [logger EXCEPT ![l] = r]
  <2>1. PICK q : q = [logger[l] EXCEPT !.used = TRUE]
    OBVIOUS
  <2>2. r = [q EXCEPT !.split = split]
    BY <1>3, <2>1
  <2>3. q \in Logger /\ q.used /\ ~q.timer /\ q.buffer = <<>> /\ q.partial = {}
    BY <1>1, <1>2, <2>1 DEF Logger
  <2>4. r \in Logger /\ r.used /\ ~r.timer /\ r.buffer = <<>> /\ r.partial = {}
    BY <2>2, <2>3 DEF Logger
  <2>5. rest = [logger EXCEPT ![l] = r]
    BY <1>1, <1>3 DEF WithNew
  <2> QED
    BY <2>4, <2>5
<1>5. rest[l] = r /\ \A m \in Loggers : m # l => rest[m] = logger[m]
  BY <1>1, <1>4
<1>6. /\ rest \in [Loggers -> Logger]
      /\ \A m \in Loggers : rest[m].buffer = logger[m].buffer
      /\ \A m \in Loggers : rest[m].partial = logger[m].partial
      /\ rest[l].used /\ ~rest[l].timer /\ rest[l].buffer = <<>>
  BY <1>1, <1>2, <1>4, <1>5
<1> QED
  BY <1>5, <1>6

\* The logger that is replaced is closed.
LEMMA SetupClose ==
    ASSUME LogsInv, NEW l \in Loggers, NEW split \in BOOLEAN, SetupAppLogs(l, split),
           NEW p \in Loggers, p = current, NEW rest \in [Loggers -> Logger],
           rest = WithNew(l, split)
    PROVE  \E u : \E k \in Nat : \E due : Closes(p, rest, u, k, due)
<1>1. Close(p, rest) /\ ~logger[l].used /\ UNCHANGED <<file, failed, cleared>>
  BY LogAssumption DEF SetupAppLogs, WithNew
<1>2. \A m \in Loggers : rest[m].buffer = logger[m].buffer
  BY <1>1, SetupRest
<1> QED
  BY <1>1, <1>2, CloseTurn

\* A logger that takes the place of the one before, if any.
LEMMA SetupInv ==
    ASSUME LogsInv, NEW l \in Loggers, NEW split \in BOOLEAN, SetupAppLogs(l, split)
    PROVE  LogsInv'
<1>1. PICK rest : rest = WithNew(l, split)
  OBVIOUS
<1>2. /\ phase = "open" /\ ~logger[l].used /\ current' = l
      /\ UNCHANGED <<phase, file, failed, cleared, owed>>
  BY DEF SetupAppLogs
<1>3. /\ logger \in [Loggers -> Logger] /\ NoLogger \notin Loggers
      /\ calls \subseteq [kind : {"flush", "close"}, of : Loggers, due : SUBSET Ids]
  BY LogAssumption DEF LogsInv, TypeOK
<1>4. /\ rest \in [Loggers -> Logger]
      /\ \A m \in Loggers : m # l => rest[m] = logger[m]
      /\ \A m \in Loggers : rest[m].buffer = logger[m].buffer
      /\ \A m \in Loggers : rest[m].partial = logger[m].partial
      /\ rest[l].used /\ ~rest[l].timer /\ rest[l].buffer = <<>>
  <2>1. ~logger[l].used
    BY <1>2
  <2> QED
    BY <1>1, <2>1, SetupRest
<1>5. ASSUME \A m \in Loggers : m # current => logger'[m] = rest[m],
             current \in Loggers => logger'[current].used,
             calls' \subseteq [kind : {"flush", "close"}, of : Loggers, due : SUBSET Ids],
             \A c \in calls' : c \in calls \/ (c.of = current /\ current \in Loggers)
      PROVE  UseInv' /\ TimerArmed'
  <2>1. l # current /\ (current \in Loggers => logger[current].used)
    BY <1>2, <1>3 DEF LogsInv, UseInv
  <2>2. logger'[l] = rest[l]
    BY <1>5, <2>1
  <2>3. \A m \in Loggers : m # l => (logger'[m].used <=> logger[m].used)
    <3> TAKE m \in Loggers
    <3>1. CASE m = current
      BY <1>5, <2>1, <3>1
    <3>2. CASE m # current
      BY <1>4, <1>5, <3>2
    <3> QED
      BY <3>1, <3>2
  <2>4. \A m \in Loggers : ~logger'[m].used => logger'[m] = Unused
    <3> SUFFICES ASSUME NEW m \in Loggers, ~logger'[m].used
                 PROVE  logger'[m] = Unused
      OBVIOUS
    <3>1. m # l /\ m # current /\ ~logger[m].used
      BY <1>4, <1>5, <2>2, <2>3
    <3>2. logger'[m] = logger[m]
      BY <1>4, <1>5, <3>1
    <3> QED
      BY <3>1, <3>2 DEF LogsInv, UseInv
  <2>5. \A m \in Loggers : Shut(m)' <=> (logger'[m].used /\ m # l)
    BY <1>2 DEF Shut
  <2>6. \A c \in calls' : logger'[c.of].used /\ c.of # l
    <3> SUFFICES ASSUME NEW c \in calls'
                 PROVE  logger'[c.of].used /\ c.of # l
      OBVIOUS
    <3>1. CASE c \in calls
      <4>1. c.of \in Loggers /\ logger[c.of].used
        BY <1>3, <3>1 DEF LogsInv, UseInv
      <4>2. c.of # l
        BY <1>2, <4>1
      <4> QED
        BY <2>3, <4>1, <4>2
    <3>2. CASE c.of = current /\ current \in Loggers
      BY <1>5, <2>1, <3>2
    <3> QED
      BY <1>5, <3>1, <3>2
  <2>7. \A c \in calls' : Shut(c.of)'
    <3>1. \A c \in calls' : c.of \in Loggers
      BY <1>5
    <3> QED
      BY <2>5, <2>6, <3>1
  <2>8. UseInv'
    BY <1>2, <1>4, <2>2, <2>4, <2>6, <2>7 DEF UseInv
  <2>9. TimerArmed'
    <3> SUFFICES ASSUME NEW m \in Loggers, ~Shut(m)'
                 PROVE  logger'[m].timer <=> logger'[m].buffer # <<>>
      BY DEF TimerArmed
    <3>1. CASE m = l
      BY <1>4, <2>2, <3>1
    <3>2. CASE m # l
      <4>1. logger'[m] = Unused
        BY <2>4, <2>5, <3>2
      <4>2. ~Unused.timer /\ Unused.buffer = <<>>
        BY DEF Unused
      <4> QED
        BY <4>1, <4>2
    <3> QED
      BY <3>1, <3>2
  <2> QED
    BY <2>8, <2>9
<1>6. phase' = "open" /\ owed' = {}
  BY <1>2 DEF LogsInv, CloseInv
<1>7. CloseInv'
  BY <1>6 DEF CloseInv, CloseFlushes
<1>8. CASE current = NoLogger
  <2>1. logger' = rest /\ UNCHANGED <<calls, appends, lines, warned>>
    BY <1>1, <1>8 DEF SetupAppLogs, WithNew
  <2>2. BuffersInv' /\ AppendsInv' /\ KnownInv' /\ NotRepeated' /\ AccountInv'
    <3>1. logger' \in [Loggers -> Logger] /\ \A m \in Loggers : logger'[m].buffer = logger[m].buffer
      BY <1>4, <2>1
    <3>2. UNCHANGED <<appends, file, lines, warned, failed, cleared>>
      BY <1>2, <2>1
    <3> QED
      BY <3>1, <3>2, QuietKept
  <2>3. TypeOK'
    BY <1>2, <1>4, <2>1 DEF LogsInv, TypeOK
  <2>4. UseInv' /\ TimerArmed'
    BY <1>3, <1>5, <1>8, <2>1
  <2>5. RoomInv'
    <3>1. \A m \in Loggers : logger'[m].partial = logger[m].partial
      BY <1>4, <2>1
    <3>2. \A m \in Loggers : logger[m].partial = {}
      BY <1>2, <1>3, <1>8 DEF LogsInv, RoomInv
    <3> QED
      BY <2>1, <3>1, <3>2 DEF LogsInv, RoomInv
  <2> QED
    BY <1>7, <2>2, <2>3, <2>4, <2>5 DEF LogsInv
<1>9. CASE current # NoLogger
  <2>1. PICK p \in Loggers : p = current
    BY <1>9 DEF LogsInv, TypeOK
  <2>2. PICK u : \E k \in Nat : \E due : Closes(p, rest, u, k, due)
    BY <1>1, <1>4, <2>1, SetupClose
  <2>3. PICK k \in Nat : \E due : Closes(p, rest, u, k, due)
    BY <2>2
  <2>4. PICK due : Closes(p, rest, u, k, due)
    BY <2>3
  <2>5. logger[p].used
    BY <1>9, <2>1 DEF LogsInv, UseInv
  <2>6. \A m \in Loggers : m # p => rest[m].partial = logger[m].partial
    BY <1>4
  <2>7. /\ BuffersInv' /\ AppendsInv' /\ KnownInv' /\ NotRepeated' /\ AccountInv'
        /\ appends' \subseteq Appends /\ lines' \in 0..MaxLines /\ warned' \subseteq Ids
        /\ logger' \in [Loggers -> Logger] /\ logger'[p].used
        /\ \A m \in Loggers : m # p => logger'[m] = rest[m]
        /\ calls' \subseteq [kind : {"flush", "close"}, of : Loggers, due : SUBSET Ids]
        /\ \A c \in calls' : c \in calls \/ (c.kind = "close" /\ c.of = p /\ c.due = due)
        /\ \A m \in Loggers : lines' + Cardinality(logger'[m].partial) <= MaxLines
        /\ \A m, o \in Loggers :
             logger'[m].partial # {} /\ logger'[o].partial # {} => m = o
        /\ \A m \in Loggers : logger'[m].partial = IF m = p THEN {} ELSE logger[m].partial
    <3>1. Closed(p, rest, due)
      <4>1. rest \in [Loggers -> Logger]
        BY <1>4
      <4> QED
        BY <2>3, <2>4, <2>5, <2>6, <4>1, CloseKept
    <3> QED
      BY <3>1 DEF Closed
  <2>8. UseInv' /\ TimerArmed'
    BY <1>5, <2>1, <2>7
  <2>9. RoomInv'
    <3>1. \A m \in Loggers : m # p => logger[m].partial = {}
      BY <1>2, <2>1 DEF LogsInv, RoomInv
    <3> QED
      BY <2>7, <3>1 DEF RoomInv
  <2>10. TypeOK'
    BY <1>2, <2>7 DEF LogsInv, TypeOK
  <2> QED
    BY <1>7, <2>7, <2>8, <2>9, <2>10 DEF LogsInv
<1> QED
  BY <1>8, <1>9

\* The end of a close.
LEMMA CloseEndInv ==
    ASSUME LogsInv, NEW c \in calls, CloseEnd(c)
    PROVE  LogsInv'
<1>1. /\ c.kind = "close" /\ c.due \cap InFlight = {} /\ calls' = calls \ {c}
      /\ UNCHANGED <<current, phase, appends, file, lines, warned, failed, cleared, owed>>
  BY DEF CloseEnd
<1>2. PICK l \in Loggers : l = c.of
  BY DEF LogsInv, TypeOK
<1>3. PICK g : g = [logger[l] EXCEPT !.timer = FALSE]
  OBVIOUS
<1>4. /\ logger \in [Loggers -> Logger] /\ logger' = [logger EXCEPT ![l] = g]
      /\ calls \subseteq [kind : {"flush", "close"}, of : Loggers, due : SUBSET Ids]
  BY <1>2, <1>3 DEF CloseEnd, LogsInv, TypeOK
<1>5. /\ g \in Logger /\ g.buffer = logger[l].buffer /\ g.used = logger[l].used
      /\ g.partial = logger[l].partial
  BY <1>3, <1>4 DEF Logger
<1>6. /\ logger' \in [Loggers -> Logger]
      /\ \A m \in Loggers : m # l => logger'[m] = logger[m]
      /\ \A m \in Loggers : logger'[m].buffer = logger[m].buffer
      /\ \A m \in Loggers : logger'[m].used = logger[m].used
      /\ \A m \in Loggers : logger'[m].partial = logger[m].partial
  BY <1>4, <1>5
<1>7. /\ BuffersInv' /\ AppendsInv' /\ KnownInv' /\ NotRepeated' /\ AccountInv'
      /\ \A m \in Loggers : Held(m)' = Held(m)
      /\ InFlight' = InFlight
  BY <1>1, <1>6, QuietKept
<1>8. \A m \in Loggers : Shut(m)' <=> Shut(m)
  BY <1>1, <1>6 DEF Shut
<1>9. Shut(l) /\ logger[l].used
  BY <1>1, <1>2 DEF LogsInv, UseInv
<1>10. TypeOK'
  BY <1>1, <1>4, <1>6 DEF LogsInv, TypeOK
<1>11. RoomInv'
  BY <1>1, <1>6 DEF LogsInv, RoomInv
<1>12. UseInv'
  <2>1. \A m \in Loggers : ~logger'[m].used => logger'[m] = Unused
    BY <1>6, <1>9 DEF LogsInv, UseInv
  <2>2. current' # NoLogger => logger'[current'].used
    BY <1>1, <1>6 DEF LogsInv, UseInv, TypeOK
  <2>3. \A d \in calls' : d \in calls /\ d.of \in Loggers
    BY <1>1, <1>4
  <2>4. \A d \in calls' : logger'[d.of].used /\ (d.kind = "close" => Shut(d.of)')
    BY <1>6, <1>8, <2>3 DEF LogsInv, UseInv
  <2> QED
    BY <1>1, <2>1, <2>2, <2>4 DEF LogsInv, UseInv
<1>13. TimerArmed'
  <2> SUFFICES ASSUME NEW m \in Loggers, ~Shut(m)'
               PROVE  logger'[m].timer <=> logger'[m].buffer # <<>>
    BY DEF TimerArmed
  <2>1. m # l /\ ~Shut(m)
    BY <1>8, <1>9
  <2> QED
    BY <1>6, <2>1 DEF LogsInv, TimerArmed
<1>14. CloseInv'
  <2>1. phase = "closing" =>
            \/ owed \cap InFlight = {}
            \/ \E d \in calls' : d.kind = "close" /\ d.of = current /\ d.due = owed
    BY <1>1 DEF LogsInv, CloseInv
  <2>2. \A m \in Loggers : owed' \cap Held(m)' = {}
    BY <1>1, <1>7 DEF LogsInv, CloseInv
  <2> QED
    BY <1>1, <1>7, <2>1, <2>2 DEF LogsInv, CloseInv, CloseFlushes
<1> QED
  BY <1>7, <1>10, <1>11, <1>12, <1>13, <1>14 DEF LogsInv

\* LogManager.close() closes the current logger.
LEMMA CloseAllInv ==
    ASSUME LogsInv, CloseAll
    PROVE  LogsInv'
<1>1. phase = "open" /\ phase' = "closing" /\ UNCHANGED <<current, file, failed, cleared>>
  BY DEF CloseAll
<1>2. /\ logger \in [Loggers -> Logger] /\ NoLogger \notin Loggers
      /\ calls \subseteq [kind : {"flush", "close"}, of : Loggers, due : SUBSET Ids]
  BY LogAssumption DEF LogsInv, TypeOK
<1>3. owed = {}
  BY <1>1 DEF LogsInv, CloseInv
<1>4. ASSUME \A m \in Loggers : m # current => logger'[m] = logger[m],
             current \in Loggers => logger'[current].used,
             calls' \subseteq [kind : {"flush", "close"}, of : Loggers, due : SUBSET Ids],
             \A c \in calls' : c \in calls \/ (c.of = current /\ current \in Loggers)
      PROVE  UseInv' /\ TimerArmed'
  <2>1. \A m \in Loggers : Shut(m)' <=> logger'[m].used
    BY <1>1 DEF Shut
  <2>2. \A m \in Loggers : ~logger'[m].used => logger'[m] = Unused
    BY <1>4 DEF LogsInv, UseInv
  <2>3. \A c \in calls' : logger'[c.of].used /\ c.of \in Loggers
    <3> SUFFICES ASSUME NEW c \in calls'
                 PROVE  logger'[c.of].used /\ c.of \in Loggers
      OBVIOUS
    <3>1. c.of \in Loggers
      BY <1>4
    <3>2. CASE c.of = current
      BY <1>4, <3>1, <3>2
    <3>3. CASE c.of # current
      <4>1. c \in calls
        BY <1>4, <3>3
      <4> QED
        BY <1>4, <3>1, <3>3, <4>1 DEF LogsInv, UseInv
    <3> QED
      BY <3>1, <3>2, <3>3
  <2>4. current' # NoLogger => logger'[current'].used
    BY <1>1, <1>2, <1>4 DEF LogsInv, TypeOK
  <2>5. UseInv'
    BY <1>1, <2>1, <2>2, <2>3, <2>4 DEF UseInv
  <2>6. TimerArmed'
    BY <2>1, <2>2 DEF TimerArmed, Unused
  <2> QED
    BY <2>5, <2>6
<1>5. CASE current = NoLogger
  <2>1. UNCHANGED <<logger, calls, appends, lines, warned, owed>>
    BY <1>5 DEF CloseAll
  <2>2. UseInv' /\ TimerArmed'
    BY <1>2, <1>4, <1>5, <2>1
  <2>3. BuffersInv' /\ AppendsInv' /\ KnownInv' /\ NotRepeated' /\ AccountInv'
    BY <1>1, <1>2, <2>1, QuietKept
  <2>4. TypeOK'
    BY <1>1, <2>1 DEF LogsInv, TypeOK
  <2>5. RoomInv'
    BY <1>1, <2>1 DEF LogsInv, RoomInv
  <2>6. CloseInv'
    BY <1>1, <1>3, <2>1 DEF CloseInv, CloseFlushes
  <2> QED
    BY <2>2, <2>3, <2>4, <2>5, <2>6 DEF LogsInv
<1>6. CASE current # NoLogger
  <2>1. PICK p \in Loggers : p = current
    BY <1>6 DEF LogsInv, TypeOK
  <2>2. Close(p, logger) /\ owed' = UNION {c.due : c \in calls' \ calls}
    BY <1>6, <2>1 DEF CloseAll
  <2>3. PICK rest \in [Loggers -> Logger] : rest = logger
    BY <1>2
  <2>4. PICK u : \E k \in Nat : \E due : Closes(p, rest, u, k, due)
    <3>1. Close(p, rest) /\ UNCHANGED <<file, failed, cleared>>
      BY <1>1, <2>2, <2>3
    <3>2. \A m \in Loggers : rest[m].buffer = logger[m].buffer
      BY <2>3
    <3> QED
      BY <3>1, <3>2, CloseTurn
  <2>5. PICK k \in Nat : \E due : Closes(p, rest, u, k, due)
    BY <2>4
  <2>6. PICK due : Closes(p, rest, u, k, due)
    BY <2>5
  <2>7. logger[p].used
    BY <1>6, <2>1 DEF LogsInv, UseInv
  <2>8. Closed(p, rest, due)
    <3>1. \A m \in Loggers : m # p => rest[m].partial = logger[m].partial
      BY <2>3
    <3> QED
      BY <2>3, <2>5, <2>6, <2>7, <3>1, CloseKept
  <2>9. UseInv' /\ TimerArmed'
    BY <1>4, <2>1, <2>3, <2>8 DEF Closed
  <2>10. RoomInv'
    <3>1. \A m \in Loggers : m # p => logger[m].partial = {}
      BY <1>1, <2>1 DEF LogsInv, RoomInv
    <3> QED
      BY <2>1, <2>8, <3>1 DEF RoomInv, Closed
  <2>11. owed' = {} \/ (owed' = due /\ \E c \in calls' : c.kind = "close" /\ c.of = p /\ c.due = due)
    <3>1. PICK d : d = [kind |-> "close", of |-> p, due |-> due]
      OBVIOUS
    <3>2. calls' = calls \cup {d} /\ d.kind = "close" /\ d.of = p /\ d.due = due
      BY <2>6, <3>1 DEF Closes
    <3>3. CASE d \in calls
      BY <2>2, <3>2, <3>3
    <3>4. CASE d \notin calls
      <4>1. calls' \ calls = {d}
        BY <3>2, <3>4
      <4> QED
        BY <2>2, <3>2, <4>1
    <3> QED
      BY <3>3, <3>4
  <2>12. owed' \subseteq 1..lines' /\ \A m \in Loggers : owed' \cap Held(m)' = {}
    BY <2>8, <2>11 DEF Closed
  <2>13. TypeOK'
    <3>1. owed' \subseteq Ids
      BY <2>6, <2>11 DEF Closes
    <3> QED
      BY <1>1, <2>8, <3>1 DEF LogsInv, TypeOK, Closed
  <2>14. CloseInv'
    BY <1>1, <2>1, <2>11, <2>12 DEF CloseInv, CloseFlushes
  <2> QED
    BY <2>8, <2>9, <2>10, <2>13, <2>14 DEF LogsInv, Closed
<1> QED
  BY <1>5, <1>6

\* LogManager.close() resolves.
LEMMA CloseAllEndInv ==
    ASSUME LogsInv, CloseAllEnd
    PROVE  LogsInv'
<1>1. /\ phase = "closing" /\ phase' = "closed" /\ current' = NoLogger
      /\ \A c \in calls : c.kind = "close" => c.of # current
      /\ UNCHANGED <<logger, calls, appends, file, lines, warned, failed, cleared, owed>>
  BY DEF CloseAllEnd
<1>2. BuffersInv' /\ AppendsInv' /\ KnownInv' /\ NotRepeated' /\ AccountInv'
      /\ (\A m \in Loggers : Held(m)' = Held(m)) /\ InFlight' = InFlight
  <2>1. logger \in [Loggers -> Logger]
    BY DEF LogsInv, TypeOK
  <2> QED
    BY <1>1, <2>1, QuietKept
<1>3. \A m \in Loggers : Shut(m)' <=> Shut(m)
  BY <1>1 DEF Shut
<1>4. TypeOK' /\ RoomInv'
  BY <1>1 DEF LogsInv, TypeOK, RoomInv
<1>5. UseInv'
  <2>1. \A c \in calls : c.of \in Loggers
    BY DEF LogsInv, TypeOK
  <2> QED
    BY <1>1, <1>3, <2>1 DEF LogsInv, UseInv
<1>6. TimerArmed'
  BY <1>1, <1>3 DEF LogsInv, TimerArmed
<1>7. CloseInv'
  BY <1>1, <1>2 DEF LogsInv, CloseInv, CloseFlushes
<1> QED
  BY <1>2, <1>4, <1>5, <1>6, <1>7 DEF LogsInv

-----------------------------------------------------------------------------
(***************************************************************************)
(* The files.                                                              *)
(***************************************************************************)

Copy == [id : Ids, try : 1..MaxRetries]

\* An attempt of append a has put w, its first lines or all of them, into its file.
Writes(a, w) ==
    /\ w \in Seq(Copy) /\ Len(w) <= Len(a.lines)
    /\ \A i \in 1..Len(w) : w[i] = [id |-> a.lines[i].id, try |-> a.try]
    /\ file' = [file EXCEPT ![a.file] = file[a.file] \o w]

\* What an append is.
LEMMA AppendIs ==
    ASSUME LogsInv, NEW a \in appends
    PROVE  /\ a.file \in Files /\ a.lines \in Seq(Line) /\ a.try \in 1..MaxRetries
           /\ a.try \in Nat /\ MaxRetries \in Nat /\ Len(a.lines) \in Nat
           /\ \A i \in 1..Len(a.lines) : a.lines[i].id \in Ids
           /\ Distinct(a.lines) /\ IdsOf(a.lines) \subseteq InFlight
           /\ IdsOf(a.lines) \subseteq Ids
<1>1. a \in Appends
  BY DEF LogsInv, TypeOK
<1>2. a.file \in Files /\ a.lines \in Seq(Line) /\ a.try \in 1..MaxRetries
  BY <1>1 DEF Appends
<1>3. MaxRetries \in Nat /\ a.try \in Nat
  BY <1>2, LogAssumption DEF ValidLogManagerConfig
<1>4. \A i \in 1..Len(a.lines) : a.lines[i].id \in Ids
  <2>1. \A i \in 1..Len(a.lines) : a.lines[i] \in Line
    BY <1>2
  <2> QED
    BY <2>1 DEF Line
<1>5. Distinct(a.lines) /\ IdsOf(a.lines) \subseteq InFlight
  BY DEF LogsInv, AppendsInv, InFlight
<1> QED
  BY <1>2, <1>3, <1>4, <1>5 DEF IdsOf

\* The copies of an append.
LEMMA CopiesOf ==
    ASSUME LogsInv, NEW a \in appends
    PROVE  /\ Copies(a) \in Seq(Copy) /\ Len(Copies(a)) = Len(a.lines)
           /\ \A i \in 1..Len(a.lines) :
                Copies(a)[i] = [id |-> a.lines[i].id, try |-> a.try]
<1>1. Len(a.lines) \in Nat
  BY AppendIs
<1>2. \A i \in 1..Len(a.lines) : [id |-> a.lines[i].id, try |-> a.try] \in Copy
  BY AppendIs DEF Copy
<1> QED
  BY <1>1, <1>2 DEF Copies

\* A file after an attempt: what it held, and the lines of the append.
LEMMA FileGrows ==
    ASSUME LogsInv, NEW a \in appends, NEW w, Writes(a, w)
    PROVE  /\ file' \in [Files -> Seq(Copy)] /\ NotRepeated'
           /\ \A f \in Files : \A i \in DOMAIN file'[f] :
                \/ i \in DOMAIN file[f] /\ file'[f][i] = file[f][i]
                \/ file'[f][i].id \in IdsOf(a.lines) /\ file'[f][i].try = a.try
           /\ OnFile \subseteq OnFile' /\ OnFile' \subseteq OnFile \cup IdsOf(a.lines)
           /\ Len(w) = Len(a.lines) => IdsOf(a.lines) \subseteq OnFile'
<1>1. /\ file \in [Files -> Seq(Copy)] /\ NotRepeated
      /\ \A f \in Files : \A i \in DOMAIN file[f] :
            file[f][i].id \in IdsOf(a.lines) => file[f][i].try < a.try
  BY DEF LogsInv, TypeOK, Copy, AppendsInv
<1>2. PICK e \in Files : e = a.file
  BY AppendIs
<1>3. PICK s \in Seq(Copy) : s = file[e]
  BY <1>1
<1>4. PICK r : r = s \o w
  OBVIOUS
<1>5. w \in Seq(Copy) /\ Len(w) \in Nat /\ Len(s) \in Nat /\ Len(w) <= Len(a.lines)
  BY DEF Writes
<1>6. /\ r \in Seq(Copy) /\ Len(r) = Len(s) + Len(w)
      /\ \A i \in 1..Len(s) : r[i] = s[i]
      /\ \A i \in 1..Len(r) : i \notin 1..Len(s) =>
            i - Len(s) \in 1..Len(w) /\ r[i] = w[i - Len(s)]
      /\ \A j \in 1..Len(w) : Len(s) + j \in 1..Len(r) /\ r[Len(s) + j] = w[j]
  BY <1>4, <1>5
<1>7. /\ file' = [file EXCEPT ![e] = r] /\ file'[e] = r
      /\ \A f \in Files : f # e => file'[f] = file[f]
      /\ file' \in [Files -> Seq(Copy)]
  BY <1>1, <1>2, <1>3, <1>4, <1>6 DEF Writes
<1>8. \A j \in 1..Len(w) :
        j \in 1..Len(a.lines) /\ w[j].id = a.lines[j].id /\ w[j].try = a.try
  <2> TAKE j \in 1..Len(w)
  <2>1. w[j] = [id |-> a.lines[j].id, try |-> a.try]
    BY DEF Writes
  <2>2. j \in 1..Len(a.lines)
    BY <1>5, AppendIs
  <2> QED
    BY <2>1, <2>2
<1>9. \A f \in Files : DOMAIN file[f] = 1..Len(file[f]) /\ DOMAIN file'[f] = 1..Len(file'[f])
  BY <1>1, <1>7
<1>10. ASSUME NEW f \in Files, NEW i \in DOMAIN file'[f]
       PROVE  \/ i \in DOMAIN file[f] /\ file'[f][i] = file[f][i]
              \/ /\ f = e /\ i \in 1..Len(r) /\ i \notin 1..Len(s)
                 /\ file'[f][i].id \in IdsOf(a.lines) /\ file'[f][i].try = a.try
  <2>1. CASE f = e /\ i \notin 1..Len(s)
    <3>1. i \in 1..Len(r) /\ file'[f][i] = r[i]
      BY <1>7, <1>9, <2>1
    <3>2. PICK j \in 1..Len(w) : r[i] = w[j]
      BY <1>6, <2>1, <3>1
    <3> QED
      BY <1>8, <2>1, <3>1, <3>2 DEF IdsOf
  <2>2. CASE f = e /\ i \in 1..Len(s)
    BY <1>3, <1>6, <1>7, <1>9, <2>2
  <2>3. CASE f # e
    BY <1>7, <2>3
  <2> QED
    BY <2>1, <2>2, <2>3
<1>11. \A f \in Files : \A i \in DOMAIN file[f] :
            i \in DOMAIN file'[f] /\ file'[f][i] = file[f][i]
  <2> TAKE f \in Files
  <2> TAKE i \in DOMAIN file[f]
  <2>1. CASE f = e
    <3>1. i \in 1..Len(s) /\ i \in 1..Len(r)
      BY <1>3, <1>5, <1>6, <1>9, <2>1
    <3> QED
      BY <1>3, <1>6, <1>7, <1>9, <2>1, <3>1
  <2>2. CASE f # e
    BY <1>7, <2>2
  <2> QED
    BY <2>1, <2>2
<1>12. NotRepeated'
  <2> SUFFICES ASSUME NEW f \in Files, NEW g \in Files,
                      NEW i \in DOMAIN file'[f], NEW j \in DOMAIN file'[g],
                      file'[f][i] = file'[g][j]
               PROVE  f = g /\ i = j
    BY DEF NotRepeated
  <2>1. CASE /\ i \in DOMAIN file[f] /\ file'[f][i] = file[f][i]
             /\ j \in DOMAIN file[g] /\ file'[g][j] = file[g][j]
    <3>1. i \in DOMAIN file[f] /\ j \in DOMAIN file[g] /\ file[f][i] = file[g][j]
      BY <2>1
    <3> QED
      BY <1>1, <3>1 DEF NotRepeated
  <2>2. ASSUME NEW x, NEW y, x = file'[f][i], y = file'[g][j],
               x.id \in IdsOf(a.lines) => x.try < a.try, y.id \in IdsOf(a.lines), y.try = a.try
        PROVE  FALSE
    <3>1. x.try < a.try /\ x.try = a.try /\ a.try \in Nat
      BY <2>2, AppendIs
    <3> QED
      BY <3>1
  <2>3. ASSUME NEW x, NEW y, x = file'[f][i], y = file'[g][j],
               y.id \in IdsOf(a.lines) => y.try < a.try, x.id \in IdsOf(a.lines), x.try = a.try
        PROVE  FALSE
    <3>1. y.try < a.try /\ y.try = a.try /\ a.try \in Nat
      BY <2>3, AppendIs
    <3> QED
      BY <3>1
  <2>4. CASE /\ f = e /\ i \in 1..Len(r) /\ i \notin 1..Len(s)
             /\ g = e /\ j \in 1..Len(r) /\ j \notin 1..Len(s)
    <3>1. PICK m \in 1..Len(w) : m = i - Len(s) /\ r[i] = w[m]
      BY <1>6, <2>4
    <3>2. PICK n \in 1..Len(w) : n = j - Len(s) /\ r[j] = w[n]
      BY <1>6, <2>4
    <3>3. r[i] = r[j]
      BY <1>7, <2>4
    <3>4. m \in 1..Len(a.lines) /\ n \in 1..Len(a.lines) /\ a.lines[m].id = a.lines[n].id
      BY <1>8, <3>1, <3>2, <3>3
    <3>5. m = n
      BY <3>4, AppendIs DEF Distinct
    <3> QED
      BY <1>5, <2>4, <3>1, <3>2, <3>5
  <2>5. \/ i \in DOMAIN file[f] /\ file'[f][i] = file[f][i]
        \/ /\ f = e /\ i \in 1..Len(r) /\ i \notin 1..Len(s)
           /\ file'[f][i].id \in IdsOf(a.lines) /\ file'[f][i].try = a.try
    BY <1>10
  <2>6. \/ j \in DOMAIN file[g] /\ file'[g][j] = file[g][j]
        \/ /\ g = e /\ j \in 1..Len(r) /\ j \notin 1..Len(s)
           /\ file'[g][j].id \in IdsOf(a.lines) /\ file'[g][j].try = a.try
    BY <1>10
  <2>7. /\ i \in DOMAIN file[f] => (file[f][i].id \in IdsOf(a.lines) => file[f][i].try < a.try)
        /\ j \in DOMAIN file[g] => (file[g][j].id \in IdsOf(a.lines) => file[g][j].try < a.try)
    BY <1>1
  <2> QED
    BY <2>1, <2>2, <2>3, <2>4, <2>5, <2>6, <2>7
<1>13. OnFile \subseteq OnFile'
  <2> SUFFICES ASSUME NEW f \in Files, NEW i \in DOMAIN file[f]
               PROVE  file[f][i].id \in OnFile'
    BY DEF OnFile
  <2>1. i \in DOMAIN file'[f] /\ file'[f][i] = file[f][i]
    BY <1>11
  <2> QED
    BY <2>1 DEF OnFile
<1>14. OnFile' \subseteq OnFile \cup IdsOf(a.lines)
  <2> SUFFICES ASSUME NEW f \in Files, NEW i \in DOMAIN file'[f]
               PROVE  file'[f][i].id \in OnFile \cup IdsOf(a.lines)
    BY DEF OnFile
  <2> QED
    BY <1>10 DEF OnFile
<1>15. ASSUME Len(w) = Len(a.lines)
       PROVE  IdsOf(a.lines) \subseteq OnFile'
  <2> SUFFICES ASSUME NEW j \in 1..Len(a.lines)
               PROVE  a.lines[j].id \in OnFile'
    BY DEF IdsOf
  <2>1. j \in 1..Len(w) /\ w[j].id = a.lines[j].id
    BY <1>8, <1>15
  <2>2. PICK i \in 1..Len(r) : r[i] = w[j]
    BY <1>6, <2>1
  <2>3. i \in DOMAIN file'[e] /\ file'[e][i].id = a.lines[j].id
    BY <1>7, <1>9, <2>1, <2>2
  <2> QED
    BY <2>3 DEF OnFile
<1> QED
  BY <1>7, <1>10, <1>12, <1>13, <1>14, <1>15

\* The ids in flight when an append has ended.
LEMMA AppendGone ==
    ASSUME LogsInv, NEW a \in appends, NEW A, A = appends \ {a}
    PROVE  LinesOf(A) = InFlight \ IdsOf(a.lines)
<1>1. \A b \in A : b \in appends /\ IdsOf(b.lines) \cap IdsOf(a.lines) = {}
  BY DEF LogsInv, AppendsInv
<1>2. \A b \in appends : b = a \/ b \in A
  OBVIOUS
<1> QED
  BY <1>1, <1>2 DEF LinesOf, InFlight

\* What the file system does leaves the loggers and the calls alone.
LEMMA FilesKept ==
    ASSUME LogsInv, UNCHANGED <<logger, current, phase, calls, lines, warned, owed>>,
           InFlight' \subseteq InFlight, OnFile' \subseteq OnFile \cup InFlight,
           OnFile' \cap {n \in Ids : \E l \in Loggers : n \in Held(l)} = {}
    PROVE  RoomInv' /\ UseInv' /\ TimerArmed' /\ BuffersInv' /\ KnownInv' /\ CloseInv'
           /\ \A l \in Loggers : Held(l)' = Held(l)
<1>1. RoomInv' /\ TimerArmed'
  BY DEF LogsInv, RoomInv, TimerArmed, Shut
<1>2. UseInv'
  BY DEF LogsInv, UseInv, Shut
<1>3. \A l \in Loggers : Held(l)' = Held(l)
  BY DEF Held
<1>4. InFlight \subseteq 1..lines /\ OnFile \subseteq 1..lines
  BY DEF LogsInv, KnownInv
<1>5. KnownInv'
  BY <1>4 DEF KnownInv
<1>6. \A l \in Loggers : Held(l) \subseteq Ids
  <2>1. 1..lines \subseteq Ids
    BY LogAssumption DEF LogsInv, TypeOK, Ids
  <2> QED
    BY <2>1 DEF LogsInv, BuffersInv, Ready, Held
<1>7. BuffersInv'
  <2>1. \A l \in Loggers : Held(l) \cap OnFile' = {}
    BY <1>6
  <2>2. \A l \in Loggers : Held(l) \cap InFlight' = {}
    BY DEF LogsInv, BuffersInv
  <2>3. \A l \in Loggers : Ready(logger'[l], lines')
    BY DEF LogsInv, BuffersInv
  <2>4. \A l, k \in Loggers : k # l => Held(k)' \cap Held(l)' = {}
    BY <1>3 DEF LogsInv, BuffersInv
  <2> QED
    BY <1>3, <2>1, <2>2, <2>3, <2>4 DEF BuffersInv
<1>8. CloseInv'
  <2>1. \A l \in Loggers : owed' \cap Held(l)' = {}
    BY <1>3 DEF LogsInv, CloseInv
  <2> QED
    BY <2>1 DEF LogsInv, CloseInv, CloseFlushes
<1> QED
  BY <1>1, <1>2, <1>3, <1>5, <1>7, <1>8

\* The lines of an append are in no buffer.
LEMMA AppendHeld ==
    ASSUME LogsInv, NEW a \in appends, OnFile' \subseteq OnFile \cup IdsOf(a.lines)
    PROVE  /\ OnFile' \subseteq OnFile \cup InFlight
           /\ OnFile' \cap {n \in Ids : \E l \in Loggers : n \in Held(l)} = {}
<1>1. OnFile' \subseteq OnFile \cup InFlight
  BY AppendIs
<1>2. \A l \in Loggers : Held(l) \cap OnFile = {} /\ Held(l) \cap InFlight = {}
  BY DEF LogsInv, BuffersInv
<1> QED
  BY <1>1, <1>2

\* What the outcomes of an append do to its file, and to the lines in flight.
LEMMA DoneWrites ==
    ASSUME LogsInv, NEW a \in appends,
           file' = [file EXCEPT ![a.file] = file[a.file] \o Copies(a)]
    PROVE  \E w : Writes(a, w) /\ Len(w) = Len(a.lines)
<1>1. PICK w : w = Copies(a)
  OBVIOUS
<1>2. /\ w \in Seq(Copy) /\ Len(w) = Len(a.lines) /\ Len(a.lines) \in Nat
      /\ \A i \in 1..Len(a.lines) : w[i] = [id |-> a.lines[i].id, try |-> a.try]
  BY <1>1, AppendIs, CopiesOf
<1>3. Writes(a, w)
  BY <1>1, <1>2 DEF Writes
<1> QED
  BY <1>2, <1>3

LEMMA FailWrites ==
    ASSUME LogsInv, NEW a \in appends, AppendFails(a)
    PROVE  \E w : Writes(a, w)
<1>1. PICK n \in 0..(Len(a.lines) - 1) :
        file' = [file EXCEPT ![a.file] = file[a.file] \o SubSeq(Copies(a), 1, n)]
  BY DEF AppendFails
<1>2. PICK c \in Seq(Copy) :
        /\ c = Copies(a) /\ Len(c) = Len(a.lines)
        /\ \A i \in 1..Len(c) : c[i] = [id |-> a.lines[i].id, try |-> a.try]
  BY CopiesOf
<1>3. PICK w : w = SubSeq(c, 1, n)
  OBVIOUS
<1>4. w \in Seq(Copy) /\ Len(w) = n /\ n <= Len(c) /\ \A i \in 1..n : w[i] = c[i] /\ i \in 1..Len(c)
  BY <1>1, <1>2, <1>3, AppendIs
<1>5. Writes(a, w)
  BY <1>1, <1>2, <1>3, <1>4 DEF Writes
<1> QED
  BY <1>5

LEMMA RetryInFlight ==
    ASSUME LogsInv, NEW a \in appends, AppendFails(a), a.try < MaxRetries
    PROVE  /\ InFlight' = InFlight /\ UNCHANGED failed
           /\ \E b \in Appends :
                /\ b.lines = a.lines /\ b.try = a.try + 1 /\ a.try < b.try
                /\ appends' = (appends \ {a}) \cup {b}
<1>1. appends' = (appends \ {a}) \cup {[a EXCEPT !.try = a.try + 1]} /\ UNCHANGED failed
  BY AppendIs DEF AppendFails
<1>2. PICK b : b = [a EXCEPT !.try = a.try + 1]
  OBVIOUS
<1>3. b \in Appends /\ b.lines = a.lines /\ b.try = a.try + 1 /\ a.try < b.try
  <2>1. a \in Appends /\ a.try + 1 \in 1..MaxRetries
    <3>1. a \in Appends
      BY DEF LogsInv, TypeOK
    <3> QED
      BY <3>1, AppendIs
  <2>2. b \in Appends /\ b.lines = a.lines /\ b.try = a.try + 1
    BY <1>2, <2>1 DEF Appends
  <2> QED
    BY <2>2, AppendIs
<1>4. appends' = (appends \ {a}) \cup {b}
  BY <1>1, <1>2
<1>5. InFlight' = InFlight
  <2>1. PICK A : A = appends \ {a}
    OBVIOUS
  <2>2. InFlight' = LinesOf(A \cup {b})
    BY <1>4, <2>1 DEF InFlight, LinesOf
  <2>3. LinesOf({b}) = IdsOf(a.lines)
    BY <1>3 DEF LinesOf
  <2>4. LinesOf(A) = InFlight \ IdsOf(a.lines)
    BY <2>1, AppendGone
  <2> QED
    <3>1. LinesOf(A \cup {b}) = LinesOf(A) \cup LinesOf({b})
      BY LinesOfUnion
    <3>2. IdsOf(a.lines) \subseteq InFlight
      BY AppendIs
    <3> QED
      BY <2>2, <2>3, <2>4, <3>1, <3>2
<1> QED
  BY <1>1, <1>3, <1>4, <1>5
LEMMA AppendDoneInv ==
    ASSUME LogsInv, NEW a \in appends, AppendDone(a)
    PROVE  LogsInv'
<1>1. /\ file' = [file EXCEPT ![a.file] = file[a.file] \o Copies(a)]
      /\ appends' = appends \ {a}
      /\ UNCHANGED <<logger, current, phase, calls, lines, warned, failed, cleared, owed>>
  BY DEF AppendDone
<1>2. file' = [file EXCEPT ![a.file] = file[a.file] \o Copies(a)]
  BY <1>1
<1>3. PICK w : Writes(a, w) /\ Len(w) = Len(a.lines)
  BY <1>2, DoneWrites
<1>4. /\ file' \in [Files -> Seq(Copy)] /\ NotRepeated'
      /\ \A f \in Files : \A i \in DOMAIN file'[f] :
            \/ i \in DOMAIN file[f] /\ file'[f][i] = file[f][i]
            \/ file'[f][i].id \in IdsOf(a.lines) /\ file'[f][i].try = a.try
      /\ OnFile \subseteq OnFile' /\ OnFile' \subseteq OnFile \cup IdsOf(a.lines)
      /\ IdsOf(a.lines) \subseteq OnFile'
  BY <1>3, FileGrows
<1>5. InFlight' = InFlight \ IdsOf(a.lines)
  <2>1. InFlight' = LinesOf(appends')
    BY DEF InFlight, LinesOf
  <2> QED
    BY <1>1, <2>1, AppendGone
<1>6. RoomInv' /\ UseInv' /\ TimerArmed' /\ BuffersInv' /\ KnownInv' /\ CloseInv'
      /\ \A l \in Loggers : Held(l)' = Held(l)
  BY <1>1, <1>4, <1>5, AppendHeld, FilesKept
<1>7. AppendsInv'
  <2>1. \A b \in appends' : b \in appends /\ IdsOf(b.lines) \cap IdsOf(a.lines) = {}
    BY <1>1 DEF LogsInv, AppendsInv
  <2>2. ASSUME NEW b \in appends', NEW f \in Files, NEW i \in DOMAIN file'[f],
               file'[f][i].id \in IdsOf(b.lines)
        PROVE  file'[f][i].try < b.try
    <3>1. i \in DOMAIN file[f] /\ file'[f][i] = file[f][i]
      BY <1>4, <2>1, <2>2
    <3> QED
      BY <2>1, <2>2, <3>1 DEF LogsInv, AppendsInv
  <2> QED
    BY <2>1, <2>2 DEF LogsInv, AppendsInv
<1>8. AccountInv'
  BY <1>1, <1>4, <1>5, <1>6 DEF LogsInv, AccountInv
<1>9. TypeOK'
  BY <1>1, <1>4 DEF LogsInv, TypeOK, Copy
<1> QED
  BY <1>4, <1>6, <1>7, <1>8, <1>9 DEF LogsInv

LEMMA AppendFailsInv ==
    ASSUME LogsInv, NEW a \in appends, AppendFails(a)
    PROVE  LogsInv'
<1>1. UNCHANGED <<logger, current, phase, calls, lines, warned, cleared, owed>>
  BY DEF AppendFails
<1>2. PICK w : Writes(a, w)
  BY FailWrites
<1>3. /\ file' \in [Files -> Seq(Copy)] /\ NotRepeated'
      /\ \A f \in Files : \A i \in DOMAIN file'[f] :
            \/ i \in DOMAIN file[f] /\ file'[f][i] = file[f][i]
            \/ file'[f][i].id \in IdsOf(a.lines) /\ file'[f][i].try = a.try
      /\ OnFile \subseteq OnFile' /\ OnFile' \subseteq OnFile \cup IdsOf(a.lines)
  BY <1>2, FileGrows
<1>4. \A b \in appends \ {a} : IdsOf(b.lines) \cap IdsOf(a.lines) = {}
  BY DEF LogsInv, AppendsInv
<1>5. ASSUME NEW b \in appends \ {a}, NEW f \in Files, NEW i \in DOMAIN file'[f],
             file'[f][i].id \in IdsOf(b.lines)
      PROVE  file'[f][i].try < b.try
  <2>1. i \in DOMAIN file[f] /\ file'[f][i] = file[f][i]
    BY <1>3, <1>4, <1>5
  <2> QED
    BY <1>5, <2>1 DEF LogsInv, AppendsInv
<1>6. CASE a.try < MaxRetries
  <2>1. InFlight' = InFlight /\ UNCHANGED failed
    BY <1>6, RetryInFlight
  <2>2. PICK b \in Appends :
            /\ b.lines = a.lines /\ b.try = a.try + 1 /\ a.try < b.try
            /\ appends' = (appends \ {a}) \cup {b}
    BY <1>6, RetryInFlight
  <2>3. b \in Appends /\ b.lines = a.lines /\ b.try = a.try + 1 /\ a.try < b.try
    BY <2>2
  <2>4. appends' = (appends \ {a}) \cup {b}
    BY <2>2
  <2>5. InFlight' = InFlight
    BY <2>1
  <2>6. RoomInv' /\ UseInv' /\ TimerArmed' /\ BuffersInv' /\ KnownInv' /\ CloseInv'
        /\ \A l \in Loggers : Held(l)' = Held(l)
    BY <1>1, <1>3, <2>5, AppendHeld, FilesKept
  <2>7. AppendsInv'
    <3>1. ASSUME NEW f \in Files, NEW i \in DOMAIN file'[f],
                 file'[f][i].id \in IdsOf(b.lines)
          PROVE  file'[f][i].try < b.try
      <4>1. CASE file'[f][i].try = a.try
        BY <2>3, <4>1
      <4>2. CASE i \in DOMAIN file[f] /\ file'[f][i] = file[f][i]
        <5>1. file[f][i].try < a.try
          BY <2>3, <3>1, <4>2 DEF LogsInv, AppendsInv
        <5>2. file[f][i].try \in Nat
          <6>1. file[f] \in Seq(Copy)
            BY DEF LogsInv, TypeOK, Copy
          <6>2. file[f][i] \in Copy
            BY <4>2, <6>1
          <6>3. file[f][i].try \in 1..MaxRetries
            BY <6>2 DEF Copy
          <6> QED
            BY <6>3, AppendIs
        <5> QED
          BY <2>3, <4>2, <5>1, <5>2, AppendIs
      <4> QED
        BY <1>3, <4>1, <4>2
    <3>2. \A d \in appends' : d = b \/ d \in appends \ {a}
      BY <2>4
    <3>3. Distinct(b.lines)
      BY <2>3, AppendIs
    <3>4. \A d \in appends' : Distinct(d.lines)
      BY <3>2, <3>3, AppendIs
    <3>5. \A d, e \in appends' : d # e => IdsOf(d.lines) \cap IdsOf(e.lines) = {}
      BY <1>4, <2>3, <3>2 DEF LogsInv, AppendsInv
    <3>6. ASSUME NEW d \in appends', NEW f \in Files, NEW i \in DOMAIN file'[f],
                 file'[f][i].id \in IdsOf(d.lines)
          PROVE  file'[f][i].try < d.try
      BY <1>5, <3>1, <3>2, <3>6
    <3> QED
      BY <3>4, <3>5, <3>6 DEF AppendsInv
  <2>8. AccountInv'
    BY <1>1, <1>3, <2>1, <2>5, <2>6 DEF LogsInv, AccountInv
  <2>9. TypeOK'
    BY <1>1, <1>3, <2>1, <2>3, <2>4 DEF LogsInv, TypeOK, Copy
  <2> QED
    BY <1>3, <2>6, <2>7, <2>8, <2>9 DEF LogsInv
<1>7. CASE a.try = MaxRetries
  <2>1. appends' = appends \ {a} /\ failed' = failed \cup IdsOf(a.lines)
    BY <1>7, AppendIs DEF AppendFails
  <2>2. InFlight' = InFlight \ IdsOf(a.lines)
    <3>1. InFlight' = LinesOf(appends')
      BY DEF InFlight, LinesOf
    <3> QED
      BY <2>1, <3>1, AppendGone
  <2>3. RoomInv' /\ UseInv' /\ TimerArmed' /\ BuffersInv' /\ KnownInv' /\ CloseInv'
        /\ \A l \in Loggers : Held(l)' = Held(l)
    BY <1>1, <1>3, <2>2, AppendHeld, FilesKept
  <2>4. AppendsInv'
    BY <1>5, <2>1 DEF LogsInv, AppendsInv
  <2>5. AccountInv'
    BY <1>1, <1>3, <2>1, <2>2, <2>3 DEF LogsInv, AccountInv
  <2>6. TypeOK'
    BY <1>1, <1>3, <2>1, AppendIs DEF LogsInv, TypeOK, Copy
  <2> QED
    BY <1>3, <2>3, <2>4, <2>5, <2>6 DEF LogsInv
<1>8. a.try < MaxRetries \/ a.try = MaxRetries
  BY AppendIs
<1> QED
  BY <1>6, <1>7, <1>8

\* Files that are emptied.
LEMMA ClearedFiles ==
    ASSUME LogsInv, ClearLogs
    PROVE  /\ file' \in [Files -> Seq(Copy)]
           /\ \A f \in Files : \A i \in DOMAIN file'[f] :
                 i \in DOMAIN file[f] /\ file'[f][i] = file[f][i]
           /\ OnFile' \subseteq OnFile /\ OnFile \subseteq OnFile' \cup cleared'
           /\ cleared \subseteq cleared' /\ cleared' \subseteq cleared \cup OnFile
           /\ cleared' \subseteq Ids
<1>1. PICK mine \in SUBSET Files :
        /\ file' = [f \in Files |-> IF f \in mine THEN <<>> ELSE file[f]]
        /\ cleared' = cleared \cup UNION {IdsOf(file[f]) : f \in mine}
  <2>1. Streams \subseteq Files /\ {"log"} \subseteq Files
    BY DEF Files
  <2> QED
    BY <2>1 DEF ClearLogs
<1>2. UNCHANGED <<logger, current, phase, calls, appends, lines, warned, failed, owed>>
  BY DEF ClearLogs
<1>3. file \in [Files -> Seq(Copy)]
  BY DEF LogsInv, TypeOK, Copy
<1>4. \A f \in Files : DOMAIN file[f] = 1..Len(file[f])
  BY <1>3
<1>5. DOMAIN <<>> = {} /\ <<>> \in Seq(Copy)
  OBVIOUS
<1>6. /\ file' \in [Files -> Seq(Copy)]
      /\ \A f \in Files : \A i \in DOMAIN file'[f] :
            f \notin mine /\ i \in DOMAIN file[f] /\ file'[f] = file[f]
  BY <1>1, <1>3, <1>5
<1>7. OnFile' \subseteq OnFile
  BY <1>6 DEF OnFile
<1>8. OnFile \subseteq OnFile' \cup cleared'
  <2> SUFFICES ASSUME NEW f \in Files, NEW i \in DOMAIN file[f]
               PROVE  file[f][i].id \in OnFile' \cup cleared'
    BY DEF OnFile
  <2>1. CASE f \in mine
    BY <1>1, <1>4, <2>1 DEF IdsOf
  <2>2. CASE f \notin mine
    <3>1. file'[f] = file[f]
      BY <1>1, <2>2
    <3> QED
      BY <3>1 DEF OnFile
  <2> QED
    BY <2>1, <2>2
<1>9. cleared \subseteq cleared' /\ cleared' \subseteq Ids
  <2>1. \A f \in Files : \A i \in 1..Len(file[f]) : file[f][i].id \in Ids
    <3>1. \A f \in Files : \A i \in 1..Len(file[f]) : file[f][i] \in Copy
      BY <1>3
    <3> QED
      BY <3>1 DEF Copy
  <2>2. \A f \in mine : IdsOf(file[f]) \subseteq Ids
    BY <2>1 DEF IdsOf
  <2> QED
    BY <1>1, <2>2 DEF LogsInv, TypeOK
<1>10. cleared' \subseteq cleared \cup OnFile
  <2>1. \A f \in Files : IdsOf(file[f]) \subseteq OnFile
    BY <1>4 DEF IdsOf, OnFile
  <2> QED
    BY <1>1, <2>1
<1> QED
  BY <1>6, <1>7, <1>8, <1>9, <1>10

LEMMA ClearLogsInv ==
    ASSUME LogsInv, ClearLogs
    PROVE  LogsInv'
<1>1. UNCHANGED <<logger, current, phase, calls, appends, lines, warned, failed, owed>>
  BY DEF ClearLogs
<1>2. /\ file' \in [Files -> Seq(Copy)]
      /\ \A f \in Files : \A i \in DOMAIN file'[f] :
            i \in DOMAIN file[f] /\ file'[f][i] = file[f][i]
      /\ OnFile' \subseteq OnFile /\ OnFile \subseteq OnFile' \cup cleared'
      /\ cleared \subseteq cleared' /\ cleared' \subseteq Ids
  BY ClearedFiles
<1>3. InFlight' = InFlight
  BY <1>1 DEF InFlight
<1>4. RoomInv' /\ UseInv' /\ TimerArmed' /\ BuffersInv' /\ KnownInv' /\ CloseInv'
       /\ \A l \in Loggers : Held(l)' = Held(l)
  <2>1. \A l \in Loggers : Held(l) \cap OnFile = {}
    BY DEF LogsInv, BuffersInv
  <2>2. OnFile' \cap {n \in Ids : \E l \in Loggers : n \in Held(l)} = {}
    BY <1>2, <2>1
  <2>3. InFlight' \subseteq InFlight /\ OnFile' \subseteq OnFile \cup InFlight
    BY <1>2, <1>3
  <2> QED
    BY <1>1, <2>2, <2>3, FilesKept
<1>5. AppendsInv' /\ NotRepeated'
  <2>1. \A f \in Files : \A i \in DOMAIN file'[f] :
            i \in DOMAIN file[f] /\ file'[f][i] = file[f][i]
    BY <1>2
  <2>2. AppendsInv'
    BY <1>1, <2>1 DEF LogsInv, AppendsInv
  <2>3. NotRepeated
    BY DEF LogsInv
  <2>4. NotRepeated'
    <3> SUFFICES ASSUME NEW f \in Files, NEW g \in Files,
                        NEW i \in DOMAIN file'[f], NEW j \in DOMAIN file'[g],
                        file'[f][i] = file'[g][j]
                 PROVE  f = g /\ i = j
      BY DEF NotRepeated
    <3>1. i \in DOMAIN file[f] /\ j \in DOMAIN file[g] /\ file[f][i] = file[g][j]
      BY <2>1
    <3> QED
      BY <2>3, <3>1 DEF NotRepeated
  <2> QED
    BY <2>2, <2>4
<1>6. AccountInv'
  BY <1>1, <1>2, <1>3, <1>4 DEF LogsInv, AccountInv
<1>7. TypeOK'
  BY <1>1, <1>2 DEF LogsInv, TypeOK, Copy
<1> QED
  BY <1>4, <1>5, <1>6, <1>7 DEF LogsInv

-----------------------------------------------------------------------------
(***************************************************************************)
(* The invariant holds.                                                    *)
(***************************************************************************)

LEMMA InitLogsInv ==
    ASSUME Init
    PROVE  LogsInv
<1>1. /\ logger = [l \in Loggers |-> Unused] /\ current = NoLogger /\ phase = "open"
      /\ calls = {} /\ appends = {} /\ file = [f \in Files |-> <<>>] /\ lines = 0
      /\ warned = {} /\ failed = {} /\ cleared = {} /\ owed = {}
  BY DEF Init
<1>2. /\ Unused \in Logger /\ ~Unused.used /\ ~Unused.timer /\ Unused.partial = {}
      /\ Unused.buffer = <<>> /\ IdsOf(<<>>) = {} /\ Distinct(<<>>)
  BY EmptyIds DEF Unused, Logger
<1>3. 0 \in 0..MaxLines /\ Cardinality({}) = 0 /\ MaxLines \in Nat
  BY FS_EmptySet, LogAssumption
<1>4. \A l \in Loggers : logger[l] = Unused
  BY <1>1
<1>5. TypeOK
  <2>1. <<>> \in Seq([id : Ids, try : 1..MaxRetries])
    OBVIOUS
  <2> QED
    BY <1>1, <1>2, <1>3, <2>1 DEF TypeOK
<1>6. RoomInv
  <2>1. 0 + Cardinality({}) <= MaxLines
    BY <1>3
  <2> QED
    BY <1>1, <1>2, <1>4, <2>1 DEF RoomInv
<1>7. UseInv /\ TimerArmed
  BY <1>1, <1>2, <1>4 DEF UseInv, TimerArmed
<1>8. \A f \in Files : file[f] = <<>> /\ DOMAIN file[f] = {}
  BY <1>1
<1>9. InFlight = {} /\ OnFile = {} /\ \A l \in Loggers : Held(l) = {}
  BY <1>1, <1>2, <1>4, <1>8 DEF InFlight, OnFile, Held
<1>10. BuffersInv
  BY <1>1, <1>2, <1>4, <1>9 DEF BuffersInv, Ready
<1>11. AppendsInv /\ KnownInv /\ NotRepeated
  BY <1>1, <1>8, <1>9 DEF AppendsInv, KnownInv, NotRepeated
<1>12. CloseInv /\ AccountInv
  BY <1>1, <1>9 DEF CloseInv, CloseFlushes, AccountInv
<1> QED
  BY <1>5, <1>6, <1>7, <1>10, <1>11, <1>12 DEF LogsInv

LEMMA StutterLogsInv ==
    ASSUME LogsInv, UNCHANGED vars
    PROVE  LogsInv'
<1>1. UNCHANGED <<logger, current, phase, calls, appends, file, lines, warned,
                  failed, cleared, owed>>
  BY DEF vars
<1>2. logger \in [Loggers -> Logger]
  BY DEF LogsInv, TypeOK
<1>3. BuffersInv' /\ AppendsInv' /\ KnownInv' /\ NotRepeated' /\ AccountInv'
      /\ (\A m \in Loggers : Held(m)' = Held(m)) /\ InFlight' = InFlight
  BY <1>1, <1>2, QuietKept
<1>4. TypeOK' /\ RoomInv' /\ UseInv' /\ TimerArmed'
  BY <1>1 DEF LogsInv, TypeOK, RoomInv, UseInv, TimerArmed, Shut
<1>5. CloseInv'
  BY <1>1, <1>3 DEF LogsInv, CloseInv, CloseFlushes
<1> QED
  BY <1>3, <1>4, <1>5 DEF LogsInv

LEMMA NextLogsInv ==
    ASSUME LogsInv, [Next]_vars
    PROVE  LogsInv'
<1>1. CASE TurnOnly
  BY <1>1, TurnOnlyInv
<1>2. CASE \E l \in Loggers : Started(l) \/ Load(l)
  <2>1. PICK l \in Loggers : \E split \in BOOLEAN : SetupAppLogs(l, split)
    BY <1>2 DEF Started, Load
  <2> QED
    BY <2>1, SetupInv
<1>3. CASE \E c \in calls : CloseEnd(c)
  BY <1>3, CloseEndInv
<1>4. CASE \E a \in appends : AppendDone(a)
  BY <1>4, AppendDoneInv
<1>5. CASE \E a \in appends : AppendFails(a)
  BY <1>5, AppendFailsInv
<1>6. CASE ClearLogs
  BY <1>6, ClearLogsInv
<1>7. CASE CloseAll
  BY <1>7, CloseAllInv
<1>8. CASE CloseAllEnd
  BY <1>8, CloseAllEndInv
<1>9. CASE UNCHANGED vars
  BY <1>9, StutterLogsInv
<1> QED
  BY <1>1, <1>2, <1>3, <1>4, <1>5, <1>6, <1>7, <1>8, <1>9 DEF Next, TurnOnly

LEMMA LogsInvariant == SafeSpec => []LogsInv
<1>1. Init => LogsInv
  BY InitLogsInv
<1>2. LogsInv /\ [Next]_vars => LogsInv'
  BY NextLogsInv
<1> QED
  BY <1>1, <1>2, PTL DEF SafeSpec

\* The state of the loggers, the calls, the appends and the files is what the
\* code can hold, and the numbers of the lines stay within those of the output.
THEOREM TypeCorrect == Spec => []TypeOK
<1>1. LogsInv => TypeOK
  BY DEF LogsInv
<1> QED
  BY <1>1, LogsInvariant, PTL DEF Spec

\* An open logger has a flush timer exactly while it has something to flush,
\* whichever of addEntry, flush and a replacement of the logger came last: no
\* line waits in a buffer that nobody is going to flush.
THEOREM TimerIsArmed == Spec => []TimerArmed
<1>1. LogsInv => TimerArmed
  BY DEF LogsInv
<1> QED
  BY <1>1, LogsInvariant, PTL DEF Spec

\* No attempt puts a line into the files twice, however flushes overlap: the
\* buffer is emptied before the first await of flush().
THEOREM NoneRepeated == Spec => []NotRepeated
<1>1. LogsInv => NotRepeated
  BY DEF LogsInv
<1> QED
  BY <1>1, LogsInvariant, PTL DEF Spec

\* When LogManager.close() resolves, nothing that it found in the buffer is on
\* its way to a file any more.
THEOREM FlushesOnClose == Spec => []CloseFlushes
<1>1. LogsInv => CloseFlushes
  BY DEF LogsInv, CloseInv
<1> QED
  BY <1>1, LogsInvariant, PTL DEF Spec

-----------------------------------------------------------------------------
(***************************************************************************)
(* The promise for each line.                                              *)
(***************************************************************************)

\* In a buffer, and in that of a logger that is shut.
Waits(n) == \E l \in Loggers : n \in Held(l)

Late(n) == \E l \in Loggers : n \in Held(l) /\ Shut(l)

\* The fate of a line now, and after a step.
LEMMA FateIs ==
    ASSUME NEW n
    PROVE  /\ n > lines => Fate(n) = "none"
           /\ ~(n > lines) =>
              /\ n \in warned => Fate(n) = "refused"
              /\ n \notin warned =>
                 /\ Late(n) => Fate(n) = "late"
                 /\ ~Late(n) =>
                    /\ n \in InFlight \/ Waits(n) => Fate(n) = "accepted"
                    /\ n \notin InFlight /\ ~Waits(n) =>
                       Fate(n) = IF n \in failed THEN "failed"
                                 ELSE IF n \in OnFile THEN "written"
                                 ELSE IF n \in cleared THEN "cleared" ELSE "lost"
<1>1. n \in Buffers({l \in Loggers : Shut(l)}) <=> Late(n)
  BY DEF Buffers, Late, Held
<1>2. n \in Buffers(Loggers) <=> Waits(n)
  BY DEF Buffers, Waits, Held
<1> QED
  BY <1>1, <1>2 DEF Fate

LEMMA FateWillBe ==
    ASSUME NEW CONSTANT n
    PROVE  /\ n > lines' => Fate(n)' = "none"
           /\ ~(n > lines') =>
              /\ n \in warned' => Fate(n)' = "refused"
              /\ n \notin warned' =>
                 /\ Late(n)' => Fate(n)' = "late"
                 /\ ~Late(n)' =>
                    /\ n \in InFlight' \/ Waits(n)' => Fate(n)' = "accepted"
                    /\ n \notin InFlight' /\ ~Waits(n)' =>
                       Fate(n)' = IF n \in failed' THEN "failed"
                                  ELSE IF n \in OnFile' THEN "written"
                                  ELSE IF n \in cleared' THEN "cleared" ELSE "lost"
<1>1. n \in Buffers({l \in Loggers : Shut(l)})' <=> Late(n)'
  BY DEF Buffers, Late, Held
<1>2. n \in Buffers(Loggers)' <=> Waits(n)'
  BY DEF Buffers, Waits, Held
<1> QED
  BY <1>1, <1>2 DEF Fate

\* The steps that a line may make.
Moves(a, b) == a = b \/ <<a, b>> \in Sink!Moves

Moved == \A n \in Ids : Moves(Fate(n), Fate(n)')

\* The steps of the loggers and of the files in detail.
LEMMA MovesAre ==
    /\ \A a : Moves(a, a)
    /\ \A b \in {"refused", "late", "accepted"} : Moves("none", b)
    /\ Moves("late", "accepted") /\ Moves("accepted", "written")
    /\ Moves("accepted", "failed") /\ Moves("written", "cleared")
  BY DEF Moves, Sink!Moves

\* Nobody else holds what a logger, or an append, has.
LEMMA HeldOnce ==
    ASSUME LogsInv, NEW n
    PROVE  /\ \A l, m \in Loggers : n \in Held(l) /\ n \in Held(m) => l = m
           /\ n \in InFlight => ~Waits(n)
  BY DEF LogsInv, BuffersInv, Waits

LEMMA WillBeHeldOnce ==
    ASSUME BuffersInv', NEW CONSTANT n
    PROVE  /\ \A l, m \in Loggers : n \in Held(l)' /\ n \in Held(m)' => l = m
           /\ n \in InFlight' => ~Waits(n)'
  BY DEF BuffersInv, Waits

\* A turn of a logger that is as open or shut as before, or holds nothing now.
LEMMA TurnMoves ==
    ASSUME LogsInv, NEW l \in Loggers, NEW t, NEW k \in Nat,
           lines + k <= MaxLines, Turns(l, t, k),
           \A m \in Loggers : m # l /\ Held(m) # {} => (Shut(m)' <=> Shut(m)),
           Held(l)' = {} \/ (Shut(l)' <=> Shut(l))
    PROVE  Moved
<1> SUFFICES ASSUME NEW n \in Ids
             PROVE  Moves(Fate(n), Fate(n)')
  BY DEF Moved
<1>1. TypeOK /\ BuffersInv /\ KnownInv /\ n \in Nat
  BY DEF LogsInv, Ids
<1>2. /\ \A m \in Loggers : m # l => Held(m)' = Held(m)
      /\ InFlight' = InFlight \cup LinesOf(t.batches) /\ OnFile' = OnFile
      /\ Held(l)' \cup LinesOf(t.batches) \subseteq Held(l) \cup New(lines, k)
      /\ Held(l) \subseteq Held(l)' \cup LinesOf(t.batches)
      /\ New(lines, k) \subseteq Held(l)' \cup LinesOf(t.batches) \cup t.refused
      /\ t.refused \subseteq New(lines, k)
      /\ New(lines, k) \cap (1..lines) = {} /\ New(lines, k) \subseteq 1..lines'
      /\ 1..lines' \subseteq (1..lines) \cup New(lines, k)
      /\ 1..lines \subseteq 1..lines'
      /\ lines \in Nat /\ lines' \in 0..MaxLines
  BY <1>1, TurnPlaces
<1>3. BuffersInv'
  BY <1>1, TurnBuffers
<1>4. warned' = warned \cup t.refused /\ failed' = failed /\ cleared' = cleared
  BY DEF Turns
<1>5. (n > lines <=> n \notin 1..lines) /\ (n > lines' <=> n \notin 1..lines')
  BY <1>1, <1>2, LogAssumption DEF Ids
<1>6. CASE n > lines
  <2>1. Fate(n) = "none"
    BY <1>6, FateIs
  <2>2. CASE n > lines'
    BY <2>1, <2>2, FateWillBe, MovesAre
  <2>3. CASE ~(n > lines')
    <3>1. n \in New(lines, k)
      BY <1>2, <1>5, <1>6, <2>3
    <3>2. n \in warned' \/ n \in InFlight' \/ Waits(n)'
      BY <1>2, <1>4, <3>1 DEF Waits
    <3>3. Fate(n)' \in {"refused", "late", "accepted"}
      BY <2>3, <3>2, FateWillBe
    <3> QED
      BY <2>1, <3>3, MovesAre
  <2> QED
    BY <2>2, <2>3
<1>7. CASE ~(n > lines)
  <2>1. ~(n > lines') /\ n \notin New(lines, k) /\ (n \in warned' <=> n \in warned)
    BY <1>2, <1>4, <1>5, <1>7
  <2>2. CASE n \in warned
    BY <1>7, <2>1, <2>2, FateIs, FateWillBe, MovesAre
  <2>3. CASE n \notin warned /\ Late(n)
    <3>1. PICK m \in Loggers : n \in Held(m) /\ Shut(m)
      BY <2>3 DEF Late
    <3>2. Waits(n)' \/ n \in InFlight'
      BY <1>2, <3>1 DEF Waits
    <3>3. Fate(n) = "late" /\ Fate(n)' \in {"late", "accepted"}
      BY <1>7, <2>1, <2>3, <3>2, FateIs, FateWillBe
    <3> QED
      BY <3>3, MovesAre
  <2>4. CASE n \notin warned /\ ~Late(n) /\ (n \in InFlight \/ Waits(n))
    <3>1. Fate(n) = "accepted"
      BY <1>7, <2>4, FateIs
    <3>2. CASE n \in InFlight'
      <4>1. ~Late(n)'
        BY <1>3, <3>2, WillBeHeldOnce DEF Late, Waits
      <4> QED
        BY <2>1, <2>4, <3>1, <3>2, <4>1, FateWillBe, MovesAre
    <3>3. CASE n \notin InFlight'
      <4>1. PICK m \in Loggers : n \in Held(m) /\ ~Shut(m)
        BY <1>2, <2>4, <3>3 DEF Waits, Late
      <4>2. n \in Held(m)' /\ ~Shut(m)'
        BY <1>2, <3>3, <4>1
      <4>3. Waits(n)' /\ ~Late(n)'
        BY <1>3, <4>2, WillBeHeldOnce DEF Waits, Late
      <4> QED
        BY <2>1, <2>4, <3>1, <4>3, FateWillBe, MovesAre
    <3> QED
      BY <3>2, <3>3
  <2>5. CASE n \notin warned /\ n \notin InFlight /\ ~Waits(n)
    <3>1. ~Late(n) /\ n \notin Held(l)
      BY <2>5 DEF Late, Waits
    <3>2. n \notin InFlight' /\ \A m \in Loggers : n \notin Held(m)'
      BY <1>2, <2>1, <2>5, <3>1 DEF Waits
    <3>3. ~Waits(n)' /\ ~Late(n)'
      BY <3>2 DEF Waits, Late
    <3>4. Fate(n)' = Fate(n)
      BY <1>2, <1>4, <1>7, <2>1, <2>5, <3>1, <3>2, <3>3, FateIs, FateWillBe
    <3> QED
      BY <3>4, MovesAre
  <2>6. Late(n) => Waits(n)
    BY DEF Late, Waits
  <2> QED
    BY <2>2, <2>3, <2>4, <2>5, <2>6
<1> QED
  BY <1>6, <1>7

\* A step that leaves every line where it is, or shuts loggers that hold none.
LEMMA QuietMoves ==
    ASSUME LogsInv, \A m \in Loggers : Held(m)' = Held(m), InFlight' = InFlight,
           UNCHANGED <<file, lines, warned, failed, cleared>>,
           \A m \in Loggers : Held(m) # {} => (Shut(m)' <=> Shut(m))
    PROVE  Moved
<1> SUFFICES ASSUME NEW n \in Ids
             PROVE  Moves(Fate(n), Fate(n)')
  BY DEF Moved
<1>1. Waits(n)' <=> Waits(n)
  BY DEF Waits
<1>2. Late(n)' <=> Late(n)
  BY DEF Late
<1>3. OnFile' = OnFile
  BY DEF OnFile
<1>4. Fate(n)' = Fate(n)
  BY <1>1, <1>2, <1>3, FateIs, FateWillBe
<1> QED
  BY <1>4, MovesAre

\* A step of the files: a line of the append may be out of it.
LEMMA FileMoves ==
    ASSUME LogsInv, UNCHANGED <<logger, current, phase, lines, warned>>,
           \A n \in Ids :
              \/ (n \in InFlight' <=> n \in InFlight)
              \/ n \in InFlight /\ (n \in failed' \/ n \in OnFile'),
           \A n \in Ids : n \notin InFlight =>
              /\ n \notin InFlight' /\ (n \in failed' <=> n \in failed)
              /\ n \in OnFile' => n \in OnFile
              /\ n \in OnFile => n \in OnFile' \/ n \in cleared'
              /\ n \in cleared => n \in cleared',
           \A n \in Ids : n \in cleared' => n \in cleared \/ n \in OnFile
    PROVE  Moved
<1> SUFFICES ASSUME NEW n \in Ids
             PROVE  Moves(Fate(n), Fate(n)')
  BY DEF Moved
<1>1. \A m \in Loggers : Held(m)' = Held(m) /\ (Shut(m)' <=> Shut(m))
  BY DEF Held, Shut
<1>2. (Waits(n)' <=> Waits(n)) /\ (Late(n)' <=> Late(n))
  BY <1>1 DEF Waits, Late
<1>3. CASE n > lines \/ n \in warned \/ Waits(n)
  <2>1. Late(n) => Waits(n)
    BY DEF Late, Waits
  <2>2. Fate(n)' = Fate(n)
    BY <1>2, <1>3, <2>1, FateIs, FateWillBe
  <2> QED
    BY <2>2, MovesAre
<1>4. CASE ~(n > lines) /\ n \notin warned /\ ~Waits(n)
  <2>1. ~Late(n) /\ ~Late(n)' /\ ~Waits(n)'
    BY <1>2, <1>4 DEF Late, Waits
  <2>2. CASE n \in InFlight
    <3>1. Fate(n) = "accepted"
      BY <1>4, <2>1, <2>2, FateIs
    <3>2. Fate(n)' \in {"accepted", "failed", "written"}
      BY <1>4, <2>1, <2>2, FateWillBe
    <3> QED
      BY <3>1, <3>2, MovesAre
  <2>3. CASE n \notin InFlight
    <3>1. Fate(n) = IF n \in failed THEN "failed" ELSE IF n \in OnFile THEN "written"
                    ELSE IF n \in cleared THEN "cleared" ELSE "lost"
      BY <1>4, <2>1, <2>3, FateIs
    <3>2. Fate(n)' = IF n \in failed' THEN "failed" ELSE IF n \in OnFile' THEN "written"
                     ELSE IF n \in cleared' THEN "cleared" ELSE "lost"
      BY <1>4, <2>1, <2>3, FateWillBe
    <3>3. \/ Fate(n)' = Fate(n) \/ (Fate(n) = "written" /\ Fate(n)' = "cleared")
      BY <2>3, <3>1, <3>2
    <3> QED
      BY <3>3, MovesAre
  <2> QED
    BY <2>2, <2>3
<1> QED
  BY <1>3, <1>4

LEMMA TurnOnlyMoves ==
    ASSUME LogsInv, TurnOnly
    PROVE  Moved
<1>1. PICK l \in Loggers : \E t : \E k \in Nat : TurnStep(l, t, k) /\ RoomInv'
  BY TurnOnlyIs
<1>2. PICK t : \E k \in Nat : TurnStep(l, t, k) /\ RoomInv'
  BY <1>1
<1>3. PICK k \in Nat : TurnStep(l, t, k)
  BY <1>2
<1>4. /\ logger \in [Loggers -> Logger] /\ logger' = [logger EXCEPT ![l] = t.g]
      /\ t.g \in Logger /\ t.g.used = logger[l].used
  BY <1>3 DEF TurnStep, TurnOf, LogsInv, TypeOK
<1>5. Turns(l, t, k) /\ lines + k <= MaxLines
  BY <1>3, <1>4 DEF TurnStep, Turns
<1>6. \A m \in Loggers : Shut(m)' <=> Shut(m)
  <2>1. \A m \in Loggers : logger'[m].used <=> logger[m].used
    BY <1>4
  <2> QED
    BY <1>3, <2>1 DEF TurnStep, Shut
<1> QED
  BY <1>3, <1>5, <1>6, TurnMoves

\* A close empties the buffer of the logger it shuts.
LEMMA ClosesMoves ==
    ASSUME LogsInv, NEW l \in Loggers, NEW rest, NEW u, NEW k \in Nat, NEW due,
           Closes(l, rest, u, k, due),
           \A m \in Loggers : m # l /\ Held(m) # {} => (Shut(m)' <=> Shut(m))
    PROVE  Moved
<1>1. Turns(l, u, k) /\ lines + k <= MaxLines /\ u.g.buffer = <<>>
  BY DEF Closes
<1>2. Held(l)' = {}
  BY <1>1, EmptyIds DEF Turns, Held
<1> QED
  BY <1>1, <1>2, TurnMoves

LEMMA SetupMoves ==
    ASSUME LogsInv, NEW l \in Loggers, NEW split \in BOOLEAN, SetupAppLogs(l, split)
    PROVE  Moved
<1>1. PICK rest : rest = WithNew(l, split)
  OBVIOUS
<1>2. /\ phase = "open" /\ phase' = "open" /\ ~logger[l].used /\ current' = l
      /\ UNCHANGED <<file, failed, cleared>>
  BY DEF SetupAppLogs
<1>3. /\ rest \in [Loggers -> Logger]
      /\ \A m \in Loggers : m # l => rest[m] = logger[m]
      /\ \A m \in Loggers : rest[m].buffer = logger[m].buffer
  <2>1. ~logger[l].used
    BY <1>2
  <2> QED
    BY <1>1, <2>1, SetupRest
<1>4. ASSUME NEW m \in Loggers, Held(m) # {}, m # current, logger'[m] = rest[m]
      PROVE  Shut(m)' <=> Shut(m)
  <2>1. logger[m].used
    BY <1>4, UnusedIdle, EmptyIds DEF Held
  <2>2. m # l /\ logger'[m].used
    BY <1>2, <1>3, <1>4, <2>1
  <2> QED
    BY <1>2, <1>4, <2>1, <2>2 DEF Shut
<1>5. CASE current = NoLogger
  <2>1. logger' = rest /\ UNCHANGED <<calls, appends, lines, warned>>
    BY <1>1, <1>5 DEF SetupAppLogs, WithNew
  <2>2. (\A m \in Loggers : Held(m)' = Held(m)) /\ InFlight' = InFlight
    BY <1>3, <2>1 DEF Held, InFlight
  <2>3. \A m \in Loggers : Held(m) # {} => (Shut(m)' <=> Shut(m))
    BY <1>4, <1>5, <2>1, LogAssumption
  <2> QED
    BY <1>2, <2>1, <2>2, <2>3, QuietMoves
<1>6. CASE current # NoLogger
  <2>1. PICK p \in Loggers : p = current
    BY <1>6 DEF LogsInv, TypeOK
  <2>2. PICK u : \E k \in Nat : \E due : Closes(p, rest, u, k, due)
    BY <1>1, <1>3, <2>1, SetupClose
  <2>3. PICK k \in Nat : \E due : Closes(p, rest, u, k, due)
    BY <2>2
  <2>4. PICK due : Closes(p, rest, u, k, due)
    BY <2>3
  <2>5. \A m \in Loggers : m # p => logger'[m] = rest[m]
    BY <1>3, <2>4 DEF Closes
  <2>6. \A m \in Loggers : m # p /\ Held(m) # {} => (Shut(m)' <=> Shut(m))
    BY <1>4, <2>1, <2>5
  <2> QED
    BY <2>3, <2>4, <2>6, ClosesMoves
<1> QED
  BY <1>5, <1>6

LEMMA CloseAllMoves ==
    ASSUME LogsInv, CloseAll
    PROVE  Moved
<1>1. phase = "open" /\ phase' = "closing" /\ UNCHANGED <<current, file, failed, cleared>>
  BY DEF CloseAll
<1>2. logger \in [Loggers -> Logger]
  BY DEF LogsInv, TypeOK
<1>3. ASSUME NEW m \in Loggers, Held(m) # {}, m # current, logger'[m] = logger[m]
      PROVE  Shut(m)' <=> Shut(m)
  BY <1>1, <1>3 DEF Shut
<1>4. CASE current = NoLogger
  <2>1. UNCHANGED <<logger, calls, appends, lines, warned, owed>>
    BY <1>4 DEF CloseAll
  <2>2. (\A m \in Loggers : Held(m)' = Held(m)) /\ InFlight' = InFlight
    BY <2>1 DEF Held, InFlight
  <2>3. \A m \in Loggers : Held(m) # {} => (Shut(m)' <=> Shut(m))
    BY <1>3, <1>4, <2>1, LogAssumption
  <2> QED
    BY <1>1, <2>1, <2>2, <2>3, QuietMoves
<1>5. CASE current # NoLogger
  <2>1. PICK p \in Loggers : p = current
    BY <1>5 DEF LogsInv, TypeOK
  <2>2. PICK rest \in [Loggers -> Logger] : rest = logger
    BY <1>2
  <2>3. PICK u : \E k \in Nat : \E due : Closes(p, rest, u, k, due)
    <3>1. Close(p, rest) /\ UNCHANGED <<file, failed, cleared>>
      BY <1>1, <1>5, <2>1, <2>2 DEF CloseAll
    <3>2. \A m \in Loggers : rest[m].buffer = logger[m].buffer
      BY <2>2
    <3> QED
      BY <3>1, <3>2, CloseTurn
  <2>4. PICK k \in Nat : \E due : Closes(p, rest, u, k, due)
    BY <2>3
  <2>5. PICK due : Closes(p, rest, u, k, due)
    BY <2>4
  <2>6. \A m \in Loggers : m # p => logger'[m] = rest[m]
    BY <2>2, <2>5 DEF Closes
  <2>7. \A m \in Loggers : m # p /\ Held(m) # {} => (Shut(m)' <=> Shut(m))
    BY <1>3, <2>1, <2>2, <2>6
  <2> QED
    BY <2>4, <2>5, <2>7, ClosesMoves
<1> QED
  BY <1>4, <1>5

LEMMA CloseEndMoves ==
    ASSUME LogsInv, NEW c \in calls, CloseEnd(c)
    PROVE  Moved
<1>1. PICK l \in Loggers : l = c.of
  BY DEF LogsInv, TypeOK
<1>2. PICK g : g = [logger[l] EXCEPT !.timer = FALSE]
  OBVIOUS
<1>3. /\ logger \in [Loggers -> Logger] /\ logger' = [logger EXCEPT ![l] = g]
      /\ UNCHANGED <<current, phase, appends, file, lines, warned, failed, cleared>>
  BY <1>1, <1>2 DEF CloseEnd, LogsInv, TypeOK
<1>4. g.buffer = logger[l].buffer /\ g.used = logger[l].used
  BY <1>2, <1>3 DEF Logger
<1>5. /\ \A m \in Loggers : logger'[m].buffer = logger[m].buffer
      /\ \A m \in Loggers : logger'[m].used = logger[m].used
  BY <1>3, <1>4
<1>6. \A m \in Loggers : Held(m)' = Held(m) /\ (Shut(m)' <=> Shut(m))
  BY <1>3, <1>5 DEF Held, Shut
<1>7. InFlight' = InFlight
  BY <1>3 DEF InFlight
<1> QED
  BY <1>3, <1>6, <1>7, QuietMoves

LEMMA CloseAllEndMoves ==
    ASSUME LogsInv, CloseAllEnd
    PROVE  Moved
<1>1. /\ phase = "closing" /\ phase' = "closed"
      /\ UNCHANGED <<logger, appends, file, lines, warned, failed, cleared>>
  BY DEF CloseAllEnd
<1>2. \A m \in Loggers : Held(m)' = Held(m) /\ (Shut(m)' <=> Shut(m))
  BY <1>1 DEF Held, Shut
<1>3. InFlight' = InFlight
  BY <1>1 DEF InFlight
<1> QED
  BY <1>1, <1>2, <1>3, QuietMoves

LEMMA AppendDoneMoves ==
    ASSUME LogsInv, NEW a \in appends, AppendDone(a)
    PROVE  Moved
<1>1. /\ file' = [file EXCEPT ![a.file] = file[a.file] \o Copies(a)]
      /\ appends' = appends \ {a}
      /\ UNCHANGED <<logger, current, phase, calls, lines, warned, failed, cleared, owed>>
  BY DEF AppendDone
<1>2. PICK w : Writes(a, w) /\ Len(w) = Len(a.lines)
  BY <1>1, DoneWrites
<1>3. /\ OnFile \subseteq OnFile' /\ OnFile' \subseteq OnFile \cup IdsOf(a.lines)
      /\ IdsOf(a.lines) \subseteq OnFile' /\ IdsOf(a.lines) \subseteq InFlight
  BY <1>2, FileGrows, AppendIs
<1>4. InFlight' = InFlight \ IdsOf(a.lines)
  <2>1. InFlight' = LinesOf(appends')
    BY DEF InFlight, LinesOf
  <2> QED
    BY <1>1, <2>1, AppendGone
<1> QED
  BY <1>1, <1>3, <1>4, FileMoves

LEMMA AppendFailsMoves ==
    ASSUME LogsInv, NEW a \in appends, AppendFails(a)
    PROVE  Moved
<1>1. UNCHANGED <<logger, current, phase, calls, lines, warned, cleared, owed>>
  BY DEF AppendFails
<1>2. PICK w : Writes(a, w)
  BY FailWrites
<1>3. OnFile \subseteq OnFile' /\ OnFile' \subseteq OnFile \cup IdsOf(a.lines)
      /\ IdsOf(a.lines) \subseteq InFlight
  BY <1>2, FileGrows, AppendIs
<1>4. CASE a.try < MaxRetries
  <2>1. InFlight' = InFlight /\ failed' = failed
    BY <1>4, RetryInFlight
  <2> QED
    BY <1>1, <1>3, <2>1, FileMoves
<1>5. CASE a.try = MaxRetries
  <2>1. appends' = appends \ {a} /\ failed' = failed \cup IdsOf(a.lines)
    BY <1>5, AppendIs DEF AppendFails
  <2>2. InFlight' = InFlight \ IdsOf(a.lines)
    <3>1. InFlight' = LinesOf(appends')
      BY DEF InFlight, LinesOf
    <3> QED
      BY <2>1, <3>1, AppendGone
  <2> QED
    BY <1>1, <1>3, <2>1, <2>2, FileMoves
<1>6. a.try < MaxRetries \/ a.try = MaxRetries
  BY AppendIs
<1> QED
  BY <1>4, <1>5, <1>6

LEMMA ClearLogsMoves ==
    ASSUME LogsInv, ClearLogs
    PROVE  Moved
<1>1. /\ OnFile' \subseteq OnFile /\ OnFile \subseteq OnFile' \cup cleared'
      /\ cleared \subseteq cleared' /\ cleared' \subseteq cleared \cup OnFile
  BY ClearedFiles
<1>2. UNCHANGED <<logger, current, phase, calls, appends, lines, warned, failed, owed>>
  BY DEF ClearLogs
<1>3. InFlight' = InFlight
  BY <1>2 DEF InFlight
<1> QED
  BY <1>1, <1>2, <1>3, FileMoves

LEMMA NextMoves ==
    ASSUME LogsInv, [Next]_vars
    PROVE  Moved
<1>1. CASE TurnOnly
  BY <1>1, TurnOnlyMoves
<1>2. CASE \E l \in Loggers : Started(l) \/ Load(l)
  <2>1. PICK l \in Loggers : \E split \in BOOLEAN : SetupAppLogs(l, split)
    BY <1>2 DEF Started, Load
  <2> QED
    BY <2>1, SetupMoves
<1>3. CASE \E c \in calls : CloseEnd(c)
  BY <1>3, CloseEndMoves
<1>4. CASE \E a \in appends : AppendDone(a)
  BY <1>4, AppendDoneMoves
<1>5. CASE \E a \in appends : AppendFails(a)
  BY <1>5, AppendFailsMoves
<1>6. CASE ClearLogs
  BY <1>6, ClearLogsMoves
<1>7. CASE CloseAll
  BY <1>7, CloseAllMoves
<1>8. CASE CloseAllEnd
  BY <1>8, CloseAllEndMoves
<1>9. CASE UNCHANGED vars
  <2>1. UNCHANGED <<logger, current, phase, appends, file, lines, warned, failed, cleared>>
    BY <1>9 DEF vars
  <2>2. (\A m \in Loggers : Held(m)' = Held(m) /\ (Shut(m)' <=> Shut(m))) /\ InFlight' = InFlight
    BY <2>1 DEF Held, Shut, InFlight
  <2> QED
    BY <2>1, <2>2, QuietMoves
<1> QED
  BY <1>1, <1>2, <1>3, <1>4, <1>5, <1>6, <1>7, <1>8, <1>9 DEF Next, TurnOnly

\* Every line has one of the fates of the promise.
LEMMA FatesKnown ==
    ASSUME LogsInv, NEW n \in Ids
    PROVE  Fate(n) \in Sink!Fates
<1>1. CASE n > lines
  BY <1>1, FateIs DEF Sink!Fates
<1>2. CASE ~(n > lines)
  <2>1. n \in 1..lines
    BY <1>2, LogAssumption DEF Ids, LogsInv, TypeOK
  <2>2. n \in warned \cup InFlight \cup failed \cup OnFile \cup cleared \/ Waits(n)
    BY <2>1 DEF LogsInv, AccountInv, Waits
  <2>3. Fate(n) \in {"refused", "late", "accepted", "failed", "written", "cleared"}
    BY <1>2, <2>2, FateIs
  <2> QED
    BY <2>3 DEF Sink!Fates
<1> QED
  BY <1>1, <1>2

FatesFine == \A n \in Ids : Fate(n) \in Sink!Fates

\* No line of output is lost, and none comes back: it is refused with a warning,
\* or accepted, and an accepted line is written, or its loss is reported, and
\* leaves the files only when they are cleared.  (That an accepted line is
\* settled at all is for the fairness of Spec.)
THEOREM KeepsLines == Spec => Sink!SafeSpec
<1>1. Init => Sink!Init
  <2> SUFFICES ASSUME Init
               PROVE  Sink!Init
    OBVIOUS
  <2>1. \A n \in Ids : n > lines
    BY LogAssumption DEF Init, Ids
  <2>2. \A n \in Ids : Fate(n) = "none"
    BY <2>1, FateIs
  <2> QED
    BY <2>2 DEF Sink!Init
<1>2. LogsInv => FatesFine
  BY FatesKnown DEF FatesFine
<1>3. LogsInv /\ FatesFine' /\ [Next]_vars => [Sink!Next]_([n \in Ids |-> Fate(n)])
  <2> SUFFICES ASSUME LogsInv, FatesFine', [Next]_vars
               PROVE  Sink!Next
    OBVIOUS
  <2>1. \A n \in Ids : Fate(n)' \in Sink!Fates
    BY DEF FatesFine
  <2>2. \A n \in Ids : Fate(n) # Fate(n)' => <<Fate(n), Fate(n)'>> \in Sink!Moves
    BY NextMoves DEF Moved, Moves
  <2> QED
    BY <2>1, <2>2 DEF Sink!Next
<1> QED
  BY <1>1, <1>2, <1>3, LogsInvariant, PTL DEF Spec, SafeSpec, Sink!SafeSpec

-----------------------------------------------------------------------------
(***************************************************************************)
(* The loops of the reader of log files: what each of them has after a     *)
(* turn follows from what it had before it.                                *)
(***************************************************************************)

\* g is a chain of length n in which each member is made from the one before.
Repeats(g, n, first, step) ==
    g[1] = first /\ \A k \in 2..n : g[k] = step[k - 1][g[k - 1]]

LEMMA Iterates ==
    ASSUME NEW X, NEW first \in X, NEW step \in [Nat -> [X -> X]], NEW n \in Nat \ {0}
    PROVE  \E g \in [1..n -> X] : Repeats(g, n, first, step)
<1> USE DEF Repeats
<1>1. PICK bad : bad = {m \in Nat \ {0} :
                            ~ \E g \in [1..m -> X] : Repeats(g, m, first, step)}
  OBVIOUS
<1>2. SUFFICES ASSUME bad # {} PROVE FALSE
  BY <1>1
<1>3. PICK m \in bad : \A k \in bad : m <= k
  BY <1>1, <1>2, Least
<1>4. m # 1
  <2>1. /\ [k \in 1..1 |-> first] \in [1..1 -> X]
        /\ Repeats([k \in 1..1 |-> first], 1, first, step)
    OBVIOUS
  <2> QED
    BY <1>1, <2>1
<1>5. m \in Nat \ {0, 1} /\ m - 1 \in Nat \ {0} /\ m - 1 \notin bad
  <2>1. m \in Nat \ {0, 1} /\ bad \subseteq Nat
    BY <1>1, <1>4
  <2>2. m - 1 \in Nat \ {0} /\ ~(m <= m - 1)
    BY <2>1
  <2> QED
    BY <1>3, <2>1, <2>2
<1>6. PICK g \in [1..(m - 1) -> X] : Repeats(g, m - 1, first, step)
  BY <1>1, <1>5
<1>7. PICK h : h = [k \in 1..m |-> IF k = m THEN step[m - 1][g[m - 1]] ELSE g[k]]
  OBVIOUS
<1>8. h \in [1..m -> X]
  <2>1. step[m - 1] \in [X -> X] /\ g[m - 1] \in X
    BY <1>5, <1>6
  <2>2. step[m - 1][g[m - 1]] \in X
    BY <2>1
  <2> QED
    BY <1>5, <1>6, <1>7, <2>2
<1>9. Repeats(h, m, first, step)
  <2>1. h[1] = first
    BY <1>5, <1>6, <1>7
  <2>2. ASSUME NEW k \in 2..m PROVE h[k] = step[k - 1][h[k - 1]]
    <3>1. CASE k = m
      BY <1>5, <1>7, <3>1
    <3>2. CASE k # m
      <4>1. /\ k \in 2..(m - 1) /\ k - 1 \in 1..(m - 1) /\ k - 1 # m
            /\ k \in 1..m /\ k - 1 \in 1..m
        BY <1>5, <3>2
      <4>2. g[k] = step[k - 1][g[k - 1]]
        BY <1>6, <4>1
      <4> QED
        BY <1>7, <3>2, <4>1, <4>2
    <3> QED
      BY <3>1, <3>2
  <2> QED
    BY <2>1, <2>2
<1> QED
  BY <1>1, <1>8, <1>9

\* h is one too, if its members are in X.
Follows(h, X, n, first, step) ==
    /\ h = [k \in 1..n |-> h[k]]
    /\ h[1] = first
    /\ \A k \in 2..n : h[k - 1] \in X => h[k] = step[k - 1][h[k - 1]]

\* There is no other such chain.
LEMMA OnlyChain ==
    ASSUME NEW X, NEW first \in X, NEW step \in [Nat -> [X -> X]], NEW n \in Nat \ {0},
           NEW g \in [1..n -> X], Repeats(g, n, first, step),
           NEW h, Follows(h, X, n, first, step)
    PROVE  h = g
<1> USE DEF Follows
<1>1. PICK bad : bad = {k \in 1..n : h[k] # g[k]}
  OBVIOUS
<1>2. SUFFICES bad = {}
  BY <1>1
<1>3. SUFFICES ASSUME bad # {} PROVE FALSE
  OBVIOUS
<1>4. PICK k \in bad : \A j \in bad : k <= j
  <2>1. bad \in SUBSET Nat
    BY <1>1
  <2> QED
    BY <1>3, <2>1, Least
<1>5. k \in 2..n /\ k - 1 \in 1..n /\ ~(k <= k - 1)
  BY <1>1 DEF Repeats
<1>6. h[k - 1] = g[k - 1]
  BY <1>1, <1>4, <1>5
<1> QED
  BY <1>1, <1>5, <1>6 DEF Repeats

\* The parts of a text.
PartLists == {s \in Seq(Seq(Nat)) : Len(s) > 0}

LEMMA LongerTyped ==
    ASSUME NEW parts \in PartLists, NEW c \in Nat
    PROVE  Longer(parts, c) \in PartLists
<1>1. Len(parts) \in Nat \ {0}
  BY DEF PartLists
<1>2. CASE c = Newline
  <2>1. PICK new : new = Append(parts, <<>>)
    OBVIOUS
  <2>2. new \in Seq(Seq(Nat)) /\ Len(new) = Len(parts) + 1
    BY <2>1 DEF PartLists
  <2> QED
    BY <1>1, <1>2, <2>1, <2>2 DEF Longer, PartLists
<1>3. CASE c # Newline
  <2>1. PICK part : part = Append(parts[Len(parts)], c)
    OBVIOUS
  <2>2. part \in Seq(Nat)
    BY <1>1, <2>1 DEF PartLists
  <2>3. PICK new : new = [parts EXCEPT ![Len(parts)] = part]
    OBVIOUS
  <2>4. new \in Seq(Seq(Nat)) /\ Len(new) = Len(parts)
    BY <1>1, <2>2, <2>3 DEF PartLists
  <2>5. Longer(parts, c) = [parts EXCEPT ![Len(parts)] = Append(parts[Len(parts)], c)]
    BY <1>3 DEF Longer
  <2> QED
    BY <2>1, <2>3, <2>4, <2>5 DEF PartLists
<1> QED
  BY <1>2, <1>3

LEMMA SplitSteps ==
    ASSUME NEW text \in Seq(Nat)
    PROVE  \E g \in [1..Len(text) + 1 -> PartLists] :
                /\ g[1] = << <<>> >>
                /\ \A k \in 2..Len(text) + 1 : g[k] = Longer(g[k - 1], text[k - 1])
                /\ Split(text) = g[Len(text) + 1]
<1>1. PICK n : n = Len(text) + 1
  OBVIOUS
<1>2. n \in Nat \ {0} /\ \A k \in 2..n :
          k - 1 \in 1..Len(text) /\ k - 1 \in 1..n /\ k - 1 \in Nat
  BY <1>1
<1>3. PICK first : first = << <<>> >>
  OBVIOUS
<1>4. first \in PartLists
  BY <1>3 DEF PartLists
<1>5. PICK step : step = [k \in Nat |-> [parts \in PartLists |->
                IF k \in 1..Len(text) THEN Longer(parts, text[k]) ELSE parts]]
  OBVIOUS
<1>6. step \in [Nat -> [PartLists -> PartLists]]
  <2>1. \A k \in 1..Len(text) : text[k] \in Nat
    OBVIOUS
  <2> QED
    BY <1>5, <2>1, LongerTyped
<1>7. PICK g \in [1..n -> PartLists] : Repeats(g, n, first, step)
  BY <1>2, <1>4, <1>6, Iterates
<1>8. \A k \in 2..n : \A parts \in PartLists :
          step[k - 1][parts] = Longer(parts, text[k - 1])
  BY <1>2, <1>5
<1>9. g[1] = first /\ \A k \in 2..n : g[k] = Longer(g[k - 1], text[k - 1])
  <2>1. \A k \in 2..n : g[k - 1] \in PartLists
    BY <1>2, <1>7
  <2> QED
    BY <1>7, <1>8, <2>1 DEF Repeats
<1> DEFINE Is(h) == h = [k \in 1..n |->
              IF k = 1 THEN first ELSE Longer(h[k - 1], text[k - 1])]
<1>10. Is(g)
  <2>1. \A k \in 1..n : k = 1 \/ k \in 2..n
    BY <1>2
  <2> QED
    BY <1>7, <1>9, <2>1
<1>11. ASSUME NEW h, Is(h) PROVE h = g
  <2>1. h = [k \in 1..n |-> h[k]]
    BY <1>11
  <2>2. 1 \in 1..n /\ \A k \in 2..n : k \in 1..n /\ k # 1
    BY <1>2
  <2>3. \A k \in 1..n : h[k] = IF k = 1 THEN first ELSE Longer(h[k - 1], text[k - 1])
    BY <1>11, Zenon
  <2>4. h[1] = first /\ \A k \in 2..n : h[k] = Longer(h[k - 1], text[k - 1])
    BY <2>2, <2>3
  <2>5. Follows(h, PartLists, n, first, step)
    BY <1>8, <2>1, <2>4 DEF Follows
  <2> HIDE DEF Is
  <2> QED
    BY <1>2, <1>4, <1>6, <1>7, <2>5, OnlyChain
<1>12. Split(text) = (CHOOSE h : Is(h))[n]
  BY <1>1, <1>3 DEF Split
<1>13. (CHOOSE h : Is(h)) = g
  <2> HIDE DEF Is
  <2> QED
    BY <1>10, <1>11, Zenon
<1> QED
  BY <1>1, <1>3, <1>9, <1>12, <1>13
\* How TextBefore computes.
LEMMA TextSteps ==
    ASSUME NEW log, Len(log) \in Nat, \A k \in 1..Len(log) : log[k].length \in Nat
    PROVE  \E g \in [1..Len(log) + 1 -> Seq(Nat)] :
                /\ g[1] = <<>>
                /\ \A k \in 2..Len(log) + 1 : g[k] =
                       g[k - 1] \o Append([j \in 1..log[k - 1].length |-> k - 1], Newline)
                /\ TextBefore(log) = g
<1>1. PICK n : n = Len(log) + 1
  OBVIOUS
<1>2. n \in Nat \ {0} /\ \A k \in 2..n :
          k - 1 \in 1..Len(log) /\ k - 1 \in 1..n /\ k - 1 \in Nat
  BY <1>1
<1>3. PICK first : first = <<>>
  OBVIOUS
<1>4. first \in Seq(Nat)
  BY <1>3
<1>5. PICK step : step = [k \in Nat |-> [x \in Seq(Nat) |->
                IF k \in 1..Len(log) THEN x \o Append([j \in 1..log[k].length |-> k],
                    Newline) ELSE x]]
  OBVIOUS
<1>6. step \in [Nat -> [Seq(Nat) -> Seq(Nat)]]
  <2>1. \A k \in 1..Len(log) : \A x \in Seq(Nat) :
            x \o Append([j \in 1..log[k].length |-> k], Newline) \in Seq(Nat)
    <3>1. ASSUME NEW k \in 1..Len(log), NEW x \in Seq(Nat)
          PROVE  x \o Append([j \in 1..log[k].length |-> k], Newline) \in Seq(Nat)
      <4>1. PICK line : line = [j \in 1..log[k].length |-> k]
        OBVIOUS
      <4>2. line \in Seq(Nat)
        BY <4>1
      <4>3. Append(line, Newline) \in Seq(Nat)
        BY <4>2 DEF Newline
      <4> QED
        BY <4>1, <4>3
    <3> QED
      BY <3>1
  <2> QED
    BY <1>5, <2>1
<1>7. PICK g \in [1..n -> Seq(Nat)] : Repeats(g, n, first, step)
  BY <1>2, <1>4, <1>6, Iterates
<1>8. \A k \in 2..n : \A x \in Seq(Nat) : step[k - 1][x] =
          x \o Append([j \in 1..log[k - 1].length |-> k - 1], Newline)
  BY <1>2, <1>5
<1>9. g[1] = first /\ \A k \in 2..n : g[k] =
          g[k - 1] \o Append([j \in 1..log[k - 1].length |-> k - 1], Newline)
  <2>1. \A k \in 2..n : g[k - 1] \in Seq(Nat)
    BY <1>2, <1>7
  <2> QED
    BY <1>7, <1>8, <2>1 DEF Repeats
<1> DEFINE Is(h) == h = [k \in 1..n |->
              IF k = 1 THEN first
                  ELSE h[k - 1] \o Append([j \in 1..log[k - 1].length |-> k - 1],
                      Newline)]
<1>10. Is(g)
  <2>1. \A k \in 1..n : k = 1 \/ k \in 2..n
    BY <1>2
  <2> QED
    BY <1>7, <1>9, <2>1
<1>11. ASSUME NEW h, Is(h) PROVE h = g
  <2>1. h = [k \in 1..n |-> h[k]]
    BY <1>11
  <2>2. 1 \in 1..n /\ \A k \in 2..n : k \in 1..n /\ k # 1
    BY <1>2
  <2>3. \A k \in 1..n : h[k] = IF k = 1 THEN first
            ELSE h[k - 1] \o Append([j \in 1..log[k - 1].length |-> k - 1], Newline)
    BY <1>11, Zenon
  <2>4. h[1] = first /\ \A k \in 2..n : h[k] =
            h[k - 1] \o Append([j \in 1..log[k - 1].length |-> k - 1], Newline)
    BY <2>2, <2>3
  <2>5. Follows(h, Seq(Nat), n, first, step)
    BY <1>8, <2>1, <2>4 DEF Follows
  <2> HIDE DEF Is
  <2> QED
    BY <1>2, <1>4, <1>6, <1>7, <2>5, OnlyChain
<1>12. TextBefore(log) = (CHOOSE h : Is(h))
  BY <1>1, <1>3 DEF TextBefore
<1>13. (CHOOSE h : Is(h)) = g
  <2> HIDE DEF Is
  <2> QED
    BY <1>10, <1>11, Zenon
<1> QED
  BY <1>1, <1>3, <1>9, <1>12, <1>13

-----------------------------------------------------------------------------
(***************************************************************************)
(* The text of a file of c lines: line n begins after off[n] characters.   *)
(***************************************************************************)

Laid(text, off, c) ==
    /\ c \in Nat /\ off \in [1..c + 1 -> Nat] /\ text \in Seq(Nat)
    /\ off[1] = 0 /\ off[c + 1] = Len(text)
    /\ \A n \in 1..c : /\ off[n] + 1 < off[n + 1]
                       /\ text[off[n + 1]] = Newline
                       /\ \A i \in off[n] + 1..off[n + 1] - 1 : text[i] = n

\* The character after the first x is in line n, or they are all of the text.
LineAt(off, c, n, x) ==
    \/ n \in 1..c /\ off[n] <= x /\ x < off[n + 1]
    \/ n = c + 1 /\ x = off[c + 1]

\* Where the characters of line n end.
EndOf(off, c, n) == IF n <= c THEN off[n + 1] - 1 ELSE off[c + 1]

\* What two texts make.
LEMMA Joined ==
    ASSUME NEW s \in Seq(Nat), NEW t \in Seq(Nat)
    PROVE  /\ s \o t \in Seq(Nat) /\ Len(s \o t) = Len(s) + Len(t)
           /\ \A i \in 1..Len(s) : (s \o t)[i] = s[i]
           /\ \A j \in 1..Len(t) : (s \o t)[Len(s) + j] = t[j]
<1>1. ASSUME NEW j \in 1..Len(t) PROVE (s \o t)[Len(s) + j] = t[j]
  <2>1. PICK i : i = Len(s) + j
    OBVIOUS
  <2>2. i \in 1..Len(s) + Len(t) /\ ~(i <= Len(s)) /\ i - Len(s) = j
    BY <2>1
  <2>3. (s \o t)[i] = t[i - Len(s)]
    BY <2>2
  <2> QED
    BY <2>1, <2>2, <2>3
<1> QED
  BY <1>1

\* Where the lines of a log begin.
LEMMA LaidText ==
    ASSUME NEW log, Len(log) \in Nat,
           \A n \in 1..Len(log) : log[n].length \in Nat \ {0}
    PROVE  \E off : /\ Laid(Text(log), off, Len(log))
                    /\ \A n \in 1..Len(log) + 1 : off[n] = Len(TextBefore(log)[n])
                    /\ \A n \in 1..Len(log) : off[n + 1] = off[n] + log[n].length + 1
<1>1. PICK c : c = Len(log)
  OBVIOUS
<1>2. PICK g \in [1..c + 1 -> Seq(Nat)] :
        /\ g[1] = <<>>
        /\ \A k \in 2..c + 1 : g[k] = g[k - 1] \o
                Append([j \in 1..log[k - 1].length |-> k - 1], Newline)
        /\ TextBefore(log) = g
  BY <1>1, TextSteps
<1>3. PICK off : off = [n \in 1..c + 1 |-> Len(g[n])]
  OBVIOUS
<1>4. c \in Nat /\ off \in [1..c + 1 -> Nat] /\ off[1] = 0
  BY <1>1, <1>2, <1>3
<1>5. ASSUME NEW n \in 1..c
      PROVE  /\ off[n + 1] = off[n] + log[n].length + 1
             /\ g[n + 1][off[n + 1]] = Newline
             /\ \A i \in off[n] + 1..off[n + 1] - 1 : g[n + 1][i] = n
             /\ \A i \in 1..off[n] : g[n + 1][i] = g[n][i]
  <2>1. PICK len : len = log[n].length
    OBVIOUS
  <2>2. len \in Nat \ {0} /\ n \in Nat /\ n + 1 \in 2..c + 1 /\ (n + 1) - 1 = n
        /\ n \in 1..c + 1 /\ n + 1 \in 1..c + 1
    BY <1>1, <1>4, <2>1
  <2>3. PICK line : line = [j \in 1..len |-> n]
    OBVIOUS
  <2>4. line \in Seq(Nat) /\ Len(line) = len /\ \A j \in 1..len : line[j] = n
    BY <2>2, <2>3
  <2>5. PICK more : more = Append(line, Newline)
    OBVIOUS
  <2>6. /\ more \in Seq(Nat) /\ Len(more) = len + 1 /\ more[len + 1] = Newline
        /\ \A j \in 1..len : more[j] = n
    BY <2>2, <2>4, <2>5 DEF Newline
  <2>7. g[n + 1] = g[n] \o more
    BY <1>2, <2>1, <2>2, <2>3, <2>5
  <2>8. g[n] \in Seq(Nat) /\ off[n] = Len(g[n]) /\ off[n + 1] = Len(g[n + 1])
    BY <1>2, <1>3, <2>2
  <2>9. PICK new : new = g[n + 1]
    OBVIOUS
  <2>10. PICK old : old = g[n]
    OBVIOUS
  <2>11. /\ Len(new) = Len(old) + (len + 1)
         /\ \A i \in 1..Len(old) : new[i] = old[i]
         /\ \A j \in 1..len + 1 : new[Len(old) + j] = more[j]
    <3>1. new = old \o more /\ old \in Seq(Nat) /\ more \in Seq(Nat)
      BY <2>6, <2>7, <2>8, <2>9, <2>10
    <3>2. /\ Len(old \o more) = Len(old) + Len(more)
          /\ \A i \in 1..Len(old) : (old \o more)[i] = old[i]
          /\ \A j \in 1..Len(more) : (old \o more)[Len(old) + j] = more[j]
      BY <3>1, Joined
    <3> QED
      BY <2>6, <3>1, <3>2
  <2>12. off[n] = Len(old) /\ off[n + 1] = Len(new) /\ Len(old) \in Nat
    BY <2>8, <2>9, <2>10
  <2>13. new[Len(old) + (len + 1)] = Newline
    BY <2>2, <2>6, <2>11
  <2>14. ASSUME NEW i \in off[n] + 1..off[n + 1] - 1 PROVE new[i] = n
    <3>1. i - Len(old) \in 1..len /\ i - Len(old) \in 1..len + 1
          /\ Len(old) + (i - Len(old)) = i
      BY <2>2, <2>11, <2>12
    <3> QED
      BY <2>6, <2>11, <3>1
  <2>15. off[n + 1] = off[n] + len + 1
    BY <2>2, <2>11, <2>12
  <2>16. new[off[n + 1]] = Newline
    BY <2>2, <2>11, <2>12, <2>13
  <2>17. \A i \in 1..off[n] : new[i] = old[i]
    BY <2>11, <2>12
  <2> QED
    BY <2>1, <2>9, <2>10, <2>14, <2>15, <2>16, <2>17
<1>6. \A k \in 1..c + 1 : \A n \in 1..k - 1 :
        /\ off[n + 1] <= off[k]
        /\ g[k][off[n + 1]] = Newline
        /\ \A i \in off[n] + 1..off[n + 1] - 1 : g[k][i] = n
  <2> DEFINE P(k) == \A n \in 1..k - 1 :
                /\ off[n + 1] <= off[k]
                /\ g[k][off[n + 1]] = Newline
                /\ \A i \in off[n] + 1..off[n + 1] - 1 : g[k][i] = n
  <2>1. PICK bad : bad = {k \in 1..c + 1 : ~P(k)}
    OBVIOUS
  <2>2. SUFFICES ASSUME bad # {} PROVE FALSE
    BY <2>1
  <2>3. PICK k \in bad : \A j \in bad : k <= j
    <3>1. bad \in SUBSET Nat
      BY <1>4, <2>1
    <3> QED
      BY <2>2, <3>1, Least
  <2>4. k # 1 /\ k \in 1..c + 1
    BY <2>1
  <2>5. PICK m : m = k - 1
    OBVIOUS
  <2>6. m \in 1..c /\ m \in 1..c + 1 /\ k = m + 1 /\ ~(k <= m) /\ m \in Nat
    BY <1>4, <2>4, <2>5
  <2>7. P(m)
    BY <2>1, <2>3, <2>6
  <2>8. ASSUME NEW n \in 1..k - 1
        PROVE  /\ off[n + 1] <= off[k]
               /\ g[k][off[n + 1]] = Newline
               /\ \A i \in off[n] + 1..off[n + 1] - 1 : g[k][i] = n
    <3>1. CASE n = m
      <4>1. off[m + 1] \in Nat /\ m + 1 \in 1..c + 1
        BY <1>4, <2>4, <2>6
      <4>2. k = n + 1
        BY <2>6, <3>1
      <4>3. off[n + 1] <= off[k]
        BY <3>1, <4>1, <4>2
      <4> QED
        BY <1>5, <2>6, <3>1, <4>2, <4>3
    <3>2. CASE n # m
      <4>1. n \in 1..m - 1 /\ n \in 1..c /\ n + 1 \in 1..c + 1 /\ n \in 1..c + 1
        BY <1>4, <2>6, <3>2
      <4>2. off[n] \in Nat /\ off[n + 1] \in Nat /\ off[m] \in Nat /\ off[m + 1] \in Nat
        BY <1>4, <2>6, <4>1
      <4>3. off[n + 1] \in 1..off[m]
        <5>1. off[n + 1] = off[n] + log[n].length + 1 /\ log[n].length \in Nat
          BY <1>1, <1>5, <4>1
        <5> QED
          BY <2>7, <4>1, <4>2, <5>1
      <4>4. \A i \in off[n] + 1..off[n + 1] - 1 : i \in 1..off[m]
        BY <4>2, <4>3
      <4>5. off[m] <= off[m + 1]
        <5>1. off[m + 1] = off[m] + log[m].length + 1 /\ log[m].length \in Nat
          BY <1>1, <1>5, <2>6
        <5> QED
          BY <4>2, <5>1
      <4>6. \A i \in 1..off[m] : g[k][i] = g[m][i]
        BY <1>5, <2>6
      <4>7. /\ off[n + 1] <= off[m]
            /\ g[m][off[n + 1]] = Newline
            /\ \A i \in off[n] + 1..off[n + 1] - 1 : g[m][i] = n
        BY <2>7, <4>1
      <4>8. off[n + 1] <= off[k]
        BY <2>6, <4>2, <4>5, <4>7
      <4> QED
        BY <4>3, <4>4, <4>6, <4>7, <4>8
    <3> QED
      BY <3>1, <3>2
  <2> QED
    BY <2>1, <2>8
<1>7. c + 1 \in 1..c + 1 /\ (c + 1) - 1 = c
  BY <1>4
<1>8. Text(log) = g[c + 1]
  BY <1>1, <1>2 DEF Text
<1>9. \A n \in 1..c : off[n] + 1 < off[n + 1]
  <2>1. ASSUME NEW n \in 1..c PROVE off[n] + 1 < off[n + 1]
    <3>1. off[n] \in Nat /\ log[n].length \in Nat \ {0}
      BY <1>1, <1>4
    <3> QED
      BY <1>5, <3>1
  <2> QED
    BY <2>1
<1>10. Laid(Text(log), off, c)
  <2>1. off[c + 1] = Len(g[c + 1]) /\ g[c + 1] \in Seq(Nat)
    BY <1>2, <1>3, <1>7
  <2>2. PICK text : text = g[c + 1]
    OBVIOUS
  <2>3. \A n \in 1..c : /\ text[off[n + 1]] = Newline
                       /\ \A i \in off[n] + 1..off[n + 1] - 1 : text[i] = n
    BY <1>6, <1>7, <2>2
  <2>4. Laid(text, off, c)
    BY <1>4, <1>9, <2>1, <2>2, <2>3 DEF Laid
  <2> QED
    BY <1>8, <2>2, <2>4
<1>11. \A n \in 1..c + 1 : off[n] = Len(TextBefore(log)[n])
  BY <1>2, <1>3
<1>12. \A n \in 1..c : off[n + 1] = off[n] + log[n].length + 1
  BY <1>5
<1> QED
  BY <1>1, <1>10, <1>11, <1>12

\* Lines come one after the other.
LEMMA LinesInOrder ==
    ASSUME NEW text, NEW off, NEW c, Laid(text, off, c)
    PROVE  \A i, j \in 1..c + 1 : i < j => off[i] < off[j] /\ off[i + 1] <= off[j]
<1>1. SUFFICES ASSUME NEW i \in 1..c + 1, NEW bad,
                      bad = {j \in 1..c + 1 :
                          i < j /\ ~(off[i] < off[j] /\ off[i + 1] <= off[j])},
                      bad # {}
               PROVE  FALSE
  OBVIOUS
<1>2. c \in Nat /\ off \in [1..c + 1 -> Nat] /\ \A n \in 1..c : off[n] + 1 < off[n + 1]
  BY DEF Laid
<1>3. PICK j \in bad : \A k \in bad : j <= k
  <2>1. bad \in SUBSET Nat
    BY <1>1, <1>2
  <2> QED
    BY <1>1, <2>1, Least
<1>4. j - 1 \in 1..c /\ j - 1 \in 1..c + 1 /\ (j - 1) + 1 = j /\ ~(j <= j - 1)
      /\ i \in 1..c /\ i + 1 \in 1..c + 1 /\ j \in 1..c + 1
  BY <1>1, <1>2
<1>5. j - 1 = i \/ i < j - 1
  BY <1>1, <1>2, <1>4
<1>6. off[i] \in Nat /\ off[i + 1] \in Nat /\ off[j] \in Nat /\ off[j - 1] \in Nat
  BY <1>2, <1>4
<1>7. CASE j - 1 = i
  <2>1. off[i] < off[j] /\ off[i + 1] <= off[j]
    BY <1>2, <1>4, <1>6, <1>7
  <2> QED
    BY <1>1, <2>1
<1>8. CASE i < j - 1
  <2>1. off[i] < off[j - 1] /\ off[i + 1] <= off[j - 1]
    BY <1>1, <1>3, <1>4, <1>8
  <2>2. off[j - 1] + 1 < off[j]
    BY <1>2, <1>4
  <2>3. off[i] < off[j] /\ off[i + 1] <= off[j]
    BY <1>6, <2>1, <2>2
  <2> QED
    BY <1>1, <2>3
<1> QED
  BY <1>5, <1>7, <1>8

\* Every place is in one line.
LEMMA LineFound ==
    ASSUME NEW text, NEW off, NEW c, Laid(text, off, c)
    PROVE  \A x \in 0..Len(text) : \E n \in 1..c + 1 : LineAt(off, c, n, x)
<1>1. PICK bad : bad = {x \in 0..Len(text) : ~\E n \in 1..c + 1 : LineAt(off, c, n, x)}
  OBVIOUS
<1>2. SUFFICES ASSUME bad # {} PROVE FALSE
  BY <1>1
<1>3. /\ c \in Nat /\ off \in [1..c + 1 -> Nat] /\ off[1] = 0 /\ off[c + 1] = Len(text)
      /\ \A n \in 1..c : off[n] + 1 < off[n + 1]
  BY DEF Laid
<1>4. PICK x \in bad : \A y \in bad : x <= y
  <2>1. bad \in SUBSET Nat
    BY <1>1, <1>3
  <2> QED
    BY <1>2, <2>1, Least
<1>5. x \in 0..Len(text) /\ x \in Nat /\ Len(text) \in Nat
  BY <1>1, <1>3
<1>6. CASE x = 0
  <2>1. 1 \in 1..c + 1 /\ (c = 0 \/ 1 \in 1..c)
    BY <1>3
  <2>2. LineAt(off, c, 1, 0)
    BY <1>3, <2>1 DEF LineAt
  <2> QED
    BY <1>1, <1>6, <2>1, <2>2
<1>7. CASE x # 0
  <2>1. x - 1 \in 0..Len(text) /\ ~(x <= x - 1)
    BY <1>5, <1>7
  <2>2. PICK n \in 1..c + 1 : LineAt(off, c, n, x - 1)
    BY <1>1, <1>4, <2>1
  <2>3. n \in 1..c /\ off[n] <= x - 1 /\ x - 1 < off[n + 1]
    BY <1>3, <1>5, <2>2 DEF LineAt
  <2>4. off[n] \in Nat /\ off[n + 1] \in Nat /\ n + 1 \in 1..c + 1
    BY <1>3, <2>3
  <2>5. CASE x < off[n + 1]
    <3>1. LineAt(off, c, n, x)
      BY <1>5, <2>3, <2>4, <2>5 DEF LineAt
    <3> QED
      BY <1>1, <2>2, <3>1
  <2>6. CASE x = off[n + 1]
    <3>1. n + 1 = c + 1 \/ (n + 1 \in 1..c /\ off[n + 1] < off[n + 1 + 1])
      <4>1. n + 1 = c + 1 \/ n + 1 \in 1..c
        BY <1>3, <2>3
      <4>2. n + 1 \in 1..c => off[(n + 1) + 1] \in Nat
                /\ off[n + 1] + 1 < off[(n + 1) + 1]
        BY <1>3, <2>4
      <4> QED
        BY <2>4, <4>1, <4>2
    <3>2. LineAt(off, c, n + 1, x)
      BY <2>4, <2>6, <3>1 DEF LineAt
    <3> QED
      BY <1>1, <2>4, <3>2
  <2> QED
    BY <1>5, <2>3, <2>4, <2>5, <2>6
<1> QED
  BY <1>6, <1>7

LEMMA LineIsOne ==
    ASSUME NEW text, NEW off, NEW c, Laid(text, off, c),
           NEW a, NEW x \in Nat, LineAt(off, c, a, x),
           NEW b, NEW y \in Nat, LineAt(off, c, b, y), x <= y
    PROVE  /\ a \in 1..c + 1 /\ b \in 1..c + 1 /\ a <= b
           /\ x = y => a = b
           /\ x < off[c + 1] => a \in 1..c
<1>1. c \in Nat /\ off \in [1..c + 1 -> Nat]
  BY DEF Laid
<1>2. a \in 1..c + 1 /\ b \in 1..c + 1
  BY <1>1 DEF LineAt
<1>3. \A i, j \in 1..c + 1 : i < j => off[i] < off[j] /\ off[i + 1] <= off[j]
  BY LinesInOrder
<1>4. off[a] <= x /\ (a \in 1..c => x < off[a + 1] /\ a + 1 \in 1..c + 1)
  BY <1>1, <1>2 DEF LineAt
<1>5. off[b] <= y /\ (b \in 1..c => y < off[b + 1] /\ b + 1 \in 1..c + 1)
  BY <1>1, <1>2 DEF LineAt
<1>6. off[a] \in Nat /\ off[b] \in Nat
  BY <1>1, <1>2
<1>7. ~(b < a)
  <2>1. SUFFICES ASSUME b < a PROVE FALSE
    OBVIOUS
  <2>2. b \in 1..c /\ off[b + 1] <= off[a] /\ off[b + 1] \in Nat
    BY <1>1, <1>2, <1>3, <2>1
  <2> QED
    BY <1>4, <1>5, <1>6, <2>2
<1>8. x = y => ~(a < b)
  <2>1. SUFFICES ASSUME x = y, a < b PROVE FALSE
    OBVIOUS
  <2>2. a \in 1..c /\ off[a + 1] <= off[b] /\ off[a + 1] \in Nat
    BY <1>1, <1>2, <1>3, <2>1
  <2> QED
    BY <1>4, <1>5, <1>6, <2>1, <2>2
<1>9. x < off[c + 1] => a \in 1..c
  BY <1>1 DEF LineAt
<1> QED
  BY <1>1, <1>2, <1>7, <1>8, <1>9

\* What one more member makes of a sequence, and what another one does.
LEMMA Appended ==
    ASSUME NEW S, NEW s \in Seq(S), NEW x \in S, NEW t, t = Append(s, x)
    PROVE  /\ t \in Seq(S) /\ Len(t) = Len(s) + 1 /\ t[Len(s) + 1] = x
           /\ \A k \in 1..Len(s) : t[k] = s[k]
  OBVIOUS

LEMMA Replaced ==
    ASSUME NEW S, NEW s \in Seq(S), NEW x \in S, NEW n \in 1..Len(s),
           NEW t, t = [s EXCEPT ![n] = x]
    PROVE  /\ t \in Seq(S) /\ Len(t) = Len(s) /\ t[n] = x
           /\ \A k \in 1..Len(s) : k # n => t[k] = s[k]
  OBVIOUS

\* b is the text after the first q characters, up to the first e.
Segment(b, text, q, e) ==
    /\ b \in Seq(Nat) /\ q \in Nat /\ e \in Nat /\ q <= e /\ e <= Len(text)
    /\ Len(b) = e - q
    /\ \A i \in 1..Len(b) : b[i] = text[q + i]

\* The parts of the text from q, in line a, to x, in line n.
PartsOf(parts, off, c, q, a, x, n) ==
    /\ parts \in PartLists /\ Len(parts) = n - a + 1
    /\ \A k \in 1..Len(parts) :
        /\ parts[k] \in Seq({a + k - 1})
        /\ Len(parts[k]) =
                (IF k = Len(parts) THEN x ELSE EndOf(off, c, a + k - 1))
                - (IF k = 1 THEN q ELSE off[a + k - 1])

LEMMA LongerParts ==
    ASSUME NEW text, NEW off, NEW c, Laid(text, off, c),
           NEW q \in Nat, NEW a, LineAt(off, c, a, q),
           NEW x \in Nat, x < Len(text), q <= x, NEW n, LineAt(off, c, n, x),
           NEW parts, PartsOf(parts, off, c, q, a, x, n)
    PROVE  \E m : /\ LineAt(off, c, m, x + 1)
                  /\ PartsOf(Longer(parts, text[x + 1]), off, c, q, a, x + 1, m)
<1>1. /\ c \in Nat /\ off \in [1..c + 1 -> Nat] /\ off[c + 1] =
             Len(text) /\ Len(text) \in Nat
      /\ text \in Seq(Nat)
  BY DEF Laid
<1>2. a \in 1..c + 1 /\ a <= n /\ n \in 1..c
  BY <1>1, LineIsOne
<1>3. /\ off[n] \in Nat /\ off[n + 1] \in Nat /\ n + 1 \in 1..c + 1 /\ n \in Nat \ {0}
      /\ off[n] <= x /\ x < off[n + 1] /\ a \in Nat \ {0}
  BY <1>1, <1>2 DEF LineAt
<1>4. /\ off[n] + 1 < off[n + 1] /\ text[off[n + 1]] = Newline
      /\ \A i \in off[n] + 1..off[n + 1] - 1 : text[i] = n
  BY <1>2 DEF Laid
<1>5. PICK len : len = Len(parts)
  OBVIOUS
<1>6. /\ parts \in Seq(Seq(Nat)) /\ len \in Nat \ {0} /\ len =
             n - a + 1 /\ a + len - 1 = n
      /\ parts \in PartLists
  BY <1>3, <1>5 DEF PartsOf, PartLists
<1>7. /\ \A k \in 1..len : parts[k] \in Seq({a + k - 1})
      /\ \A k \in 1..len - 1 : Len(parts[k]) = EndOf(off, c, a + k - 1)
                                            - (IF k = 1 THEN q ELSE off[a + k - 1])
      /\ Len(parts[len]) = x - (IF len = 1 THEN q ELSE off[n])
  <2>1. \A k \in 1..len :
            /\ parts[k] \in Seq({a + k - 1})
            /\ Len(parts[k]) = (IF k = len THEN x ELSE EndOf(off, c, a + k - 1))
                               - (IF k = 1 THEN q ELSE off[a + k - 1])
    BY <1>5 DEF PartsOf
  <2>2. len \in 1..len /\ \A k \in 1..len - 1 : k \in 1..len /\ k # len
    BY <1>6
  <2>3. Len(parts[len]) = x - (IF len = 1 THEN q ELSE off[n])
    BY <1>6, <2>1, <2>2
  <2>4. \A k \in 1..len - 1 : Len(parts[k]) = EndOf(off, c, a + k - 1)
                                            - (IF k = 1 THEN q ELSE off[a + k - 1])
    BY <2>1, <2>2
  <2> QED
    BY <2>1, <2>3, <2>4
<1>8. PICK new : new = Longer(parts, text[x + 1])
  OBVIOUS
<1>9. CASE x + 1 = off[n + 1]
  <2>1. LineAt(off, c, n + 1, x + 1)
    <3>1. n + 1 = c + 1 \/ n + 1 \in 1..c
      BY <1>1, <1>2
    <3>2. n + 1 \in 1..c => off[(n + 1) + 1] \in Nat /\ off[n + 1] + 1 < off[(n + 1) + 1]
      <4>1. n + 1 \in 1..c => (n + 1) + 1 \in 1..c + 1
        BY <1>1
      <4>2. \A m \in 1..c : off[m] + 1 < off[m + 1]
        BY DEF Laid
      <4> QED
        BY <1>1, <4>1, <4>2
    <3> QED
      BY <1>3, <1>9, <3>1, <3>2 DEF LineAt
  <2>2. new = Append(parts, <<>>)
    BY <1>4, <1>8, <1>9 DEF Longer
  <2>3. /\ new \in PartLists /\ Len(new) = len + 1 /\ new[len + 1] = <<>>
        /\ \A k \in 1..len : new[k] = parts[k]
    <3>1. <<>> \in Seq(Nat)
      OBVIOUS
    <3>2. PICK S : S = Seq(Nat)
      OBVIOUS
    <3>3. parts \in Seq(S) /\ <<>> \in S
      BY <1>6, <3>1, <3>2
    <3>4. /\ new \in Seq(S) /\ Len(new) = Len(parts) + 1 /\ new[Len(parts) + 1] = <<>>
          /\ \A k \in 1..Len(parts) : new[k] = parts[k]
      BY <2>2, <3>3, Appended
    <3>5. /\ new \in Seq(Seq(Nat)) /\ Len(new) = len + 1 /\ new[len + 1] = <<>>
          /\ \A k \in 1..len : new[k] = parts[k]
      BY <1>5, <3>2, <3>4, Zenon
    <3> QED
      BY <1>6, <3>5 DEF PartLists
  <2>4. EndOf(off, c, n) = x
    BY <1>1, <1>2, <1>3, <1>9 DEF EndOf
  <2>5. ASSUME NEW k \in 1..Len(new)
        PROVE  /\ new[k] \in Seq({a + k - 1})
               /\ Len(new[k]) =
                    (IF k = Len(new) THEN x + 1 ELSE EndOf(off, c, a + k - 1))
                    - (IF k = 1 THEN q ELSE off[a + k - 1])
    <3>1. k \in 1..len - 1 \/ k = len \/ k = len + 1
      <4>1. k \in 1..len + 1
        BY <2>3
      <4> QED
        BY <1>6, <4>1
    <3>2. CASE k \in 1..len - 1
      <4>1. k # Len(new) /\ k \in 1..len
        BY <1>6, <2>3, <3>2
      <4> QED
        BY <1>7, <2>3, <3>2, <4>1
    <3>3. CASE k = len
      <4>1. a + k - 1 = n /\ k # Len(new) /\ k \in 1..len
        BY <1>3, <1>6, <2>3, <3>3
      <4> QED
        BY <1>7, <2>3, <2>4, <3>3, <4>1
    <3>4. CASE k = len + 1
      <4>1. a + k - 1 = n + 1 /\ k # 1 /\ k = Len(new)
        BY <1>3, <1>6, <2>3, <3>4
      <4>2. new[k] = <<>>
        BY <2>3, <3>4
      <4>3. Len(new[k]) = 0 /\ new[k] \in Seq({a + k - 1})
        BY <4>2
      <4>5. PICK u : u = IF k = Len(new) THEN x + 1 ELSE EndOf(off, c, a + k - 1)
        OBVIOUS
      <4>6. PICK v : v = IF k = 1 THEN q ELSE off[a + k - 1]
        OBVIOUS
      <4>7. u = x + 1 /\ v = off[a + k - 1]
        BY <4>1, <4>5, <4>6, Zenon
      <4>8. Len(new[k]) = u - v
        BY <1>3, <1>9, <4>1, <4>3, <4>7
      <4> QED
        BY <4>3, <4>5, <4>6, <4>8, Zenon
    <3> QED
      BY <3>1, <3>2, <3>3, <3>4
  <2>6. Len(new) = (n + 1) - a + 1
    BY <1>3, <1>6, <2>3
  <2>7. PartsOf(new, off, c, q, a, x + 1, n + 1)
    BY <2>3, <2>5, <2>6 DEF PartsOf
  <2> QED
    BY <1>8, <2>1, <2>7
<1>10. CASE x + 1 # off[n + 1]
  <2>1. x + 1 < off[n + 1] /\ x + 1 \in off[n] + 1..off[n + 1] - 1
    BY <1>3, <1>10
  <2>2. LineAt(off, c, n, x + 1)
    BY <1>2, <1>3, <2>1 DEF LineAt
  <2>3. text[x + 1] = n /\ n # Newline
    BY <1>3, <1>4, <2>1 DEF Newline
  <2>4. PICK last : last = Append(parts[len], n)
    OBVIOUS
  <2>5. /\ last \in Seq({n}) /\ last \in Seq(Nat)
        /\ Len(last) = x + 1 - (IF len = 1 THEN q ELSE off[n])
    <3>1. PICK old : old = parts[len]
      OBVIOUS
    <3>2. len \in 1..len /\ a + len - 1 = n
      BY <1>6
    <3>3. old \in Seq({n})
      BY <1>7, <3>1, <3>2
    <3>4. old \in Seq(Nat)
      BY <1>6, <1>5, <3>1, <3>2
    <3>5. Len(old) = x - (IF len = 1 THEN q ELSE off[n])
      BY <1>7, <3>1
    <3>6. last = Append(old, n) /\ n \in {n} /\ n \in Nat
      BY <1>3, <2>4, <3>1
    <3>7. last \in Seq({n}) /\ Len(last) = Len(old) + 1
      BY <3>3, <3>6, Appended
    <3>8. last \in Seq(Nat)
      BY <3>4, <3>6, Appended
    <3> QED
      BY <1>3, <3>5, <3>7, <3>8
  <2>6. new = [parts EXCEPT ![len] = last]
    BY <1>5, <1>8, <2>3, <2>4 DEF Longer
  <2>7. /\ new \in PartLists /\ Len(new) = len /\ new[len] = last
        /\ \A k \in 1..len - 1 : new[k] = parts[k]
    <3>1. len \in 1..len /\ \A k \in 1..len - 1 : k \in 1..len /\ k # len
      BY <1>6
    <3>2. PICK S : S = Seq(Nat)
      OBVIOUS
    <3>3. parts \in Seq(S) /\ last \in S /\ len \in 1..Len(parts)
      BY <1>5, <1>6, <2>5, <3>1, <3>2
    <3>4. /\ new \in Seq(S) /\ Len(new) = Len(parts) /\ new[len] = last
          /\ \A k \in 1..Len(parts) : k # len => new[k] = parts[k]
      BY <2>6, <3>3, Replaced
    <3>5. /\ new \in Seq(Seq(Nat)) /\ Len(new) = len /\ new[len] = last
          /\ \A k \in 1..len : k # len => new[k] = parts[k]
      BY <1>5, <3>2, <3>4, Zenon
    <3> QED
      BY <1>6, <3>1, <3>5 DEF PartLists
  <2>8. ASSUME NEW k \in 1..Len(new)
        PROVE  /\ new[k] \in Seq({a + k - 1})
               /\ Len(new[k]) =
                    (IF k = Len(new) THEN x + 1 ELSE EndOf(off, c, a + k - 1))
                    - (IF k = 1 THEN q ELSE off[a + k - 1])
    <3>1. k \in 1..len - 1 \/ k = len
      BY <1>6, <2>7
    <3>2. CASE k \in 1..len - 1
      <4>1. k # Len(new) /\ k \in 1..len
        BY <1>6, <2>7, <3>2
      <4> QED
        BY <1>7, <2>7, <3>2, <4>1
    <3>3. CASE k = len
      <4>1. a + k - 1 = n /\ k = Len(new) /\ new[k] = last
        BY <1>3, <1>6, <2>7, <3>3
      <4>2. new[k] \in Seq({a + k - 1})
        BY <2>5, <4>1
      <4>3. Len(new[k]) = x + 1 - (IF k = 1 THEN q ELSE off[a + k - 1])
        BY <2>5, <3>3, <4>1
      <4>4. PICK u : u = IF k = Len(new) THEN x + 1 ELSE EndOf(off, c, a + k - 1)
        OBVIOUS
      <4>5. PICK v : v = IF k = 1 THEN q ELSE off[a + k - 1]
        OBVIOUS
      <4>6. u = x + 1
        BY <4>1, <4>4, Zenon
      <4>7. Len(new[k]) = u - v
        <5>1. v \in Nat
          BY <1>3, <4>1, <4>5
        <5>2. Len(new[k]) = x + 1 - v
          BY <4>3, <4>5
        <5> QED
          BY <4>6, <5>1, <5>2
      <4> QED
        BY <4>2, <4>4, <4>5, <4>7, Zenon
    <3> QED
      BY <3>1, <3>2, <3>3
  <2>9. PartsOf(new, off, c, q, a, x + 1, n)
    BY <1>6, <2>7, <2>8 DEF PartsOf
  <2> QED
    BY <1>8, <2>2, <2>9
<1> QED
  BY <1>9, <1>10

\* Split gives what is in each line.
LEMMA SplitSegment ==
    ASSUME NEW text, NEW off, NEW c, Laid(text, off, c),
           NEW b, NEW q, NEW e, Segment(b, text, q, e),
           NEW a, LineAt(off, c, a, q), NEW m, LineAt(off, c, m, e)
    PROVE  PartsOf(Split(b), off, c, q, a, e, m)
<1>1. /\ b \in Seq(Nat) /\ q \in Nat /\ e \in Nat /\ q <= e /\ e <= Len(text)
      /\ Len(b) = e - q /\ \A i \in 1..Len(b) : b[i] = text[q + i]
      /\ Len(text) \in Nat
  BY DEF Segment, Laid
<1>2. PICK g \in [1..Len(b) + 1 -> PartLists] :
        /\ g[1] = << <<>> >>
        /\ \A k \in 2..Len(b) + 1 : g[k] = Longer(g[k - 1], b[k - 1])
        /\ Split(b) = g[Len(b) + 1]
  BY <1>1, SplitSteps
<1> DEFINE P(i) == \E n : /\ LineAt(off, c, n, q + i - 1)
                          /\ PartsOf(g[i], off, c, q, a, q + i - 1, n)
<1>3. PICK bad : bad = {i \in 1..Len(b) + 1 : ~P(i)}
  OBVIOUS
<1>4. bad = {}
  <2>1. SUFFICES ASSUME bad # {} PROVE FALSE
    OBVIOUS
  <2>2. PICK i \in bad : \A j \in bad : i <= j
    <3>1. bad \in SUBSET Nat
      BY <1>1, <1>3
    <3> QED
      BY <2>1, <3>1, Least
  <2>3. i \in 1..Len(b) + 1 /\ ~P(i)
    BY <1>3
  <2>4. P(1)
    <3>1. PICK parts : parts = g[1]
      OBVIOUS
    <3>2. parts = << <<>> >> /\ parts \in PartLists
      <4>1. 1 \in 1..Len(b) + 1
        BY <1>1
      <4> QED
        BY <1>2, <3>1, <4>1, Zenon
    <3>3. Len(parts) = 1 /\ parts[1] = <<>>
      BY <3>2
    <3>4. a \in Nat /\ a - a + 1 = 1 /\ q + 1 - 1 = q
      <4>1. c \in Nat
        BY DEF Laid
      <4> QED
        BY <1>1, <4>1 DEF LineAt
    <3>5. parts[1] \in Seq({a + 1 - 1}) /\ Len(parts[1]) = q - q
      BY <1>1, <3>3
    <3>6. \A k \in 1..Len(parts) : k = 1 /\ k = Len(parts)
      BY <3>3
    <3>7. PartsOf(parts, off, c, q, a, q, a)
      <4> HIDE DEF P
      <4> QED
        BY <3>2, <3>3, <3>4, <3>5, <3>6 DEF PartsOf
    <3>8. LineAt(off, c, a, q + 1 - 1) /\ PartsOf(g[1], off, c, q, a, q + 1 - 1, a)
      BY <3>1, <3>4, <3>7
    <3> QED
      BY <3>8
  <2> HIDE DEF P
  <2>5. i # 1
    BY <2>3, <2>4
  <2>6. PICK k : k = i - 1
    OBVIOUS
  <2>7. /\ k \in 1..Len(b) + 1 /\ k \in 1..Len(b) /\ i = k + 1 /\ ~(i <= k) /\ k \in Nat
        /\ i \in 2..Len(b) + 1 /\ i - 1 = k
    BY <1>1, <2>3, <2>5, <2>6
  <2>8. P(k)
    BY <1>3, <2>2, <2>7
  <2> USE DEF P
  <2>9. PICK x : x = q + k - 1
    OBVIOUS
  <2>10. x \in Nat /\ x < Len(text) /\ q <= x /\ x + 1 = q + k /\ x + 1 = q + i - 1
    BY <1>1, <2>7, <2>9
  <2>11. PICK n : LineAt(off, c, n, x) /\ PartsOf(g[k], off, c, q, a, x, n)
    BY <2>8, <2>9
  <2>12. g[i] = Longer(g[k], text[x + 1])
    <3>1. b[k] = text[q + k]
      BY <1>1, <2>7
    <3> QED
      BY <1>2, <2>7, <2>10, <3>1
  <2>13. \E l : /\ LineAt(off, c, l, x + 1)
                /\ PartsOf(Longer(g[k], text[x + 1]), off, c, q, a, x + 1, l)
    BY <1>1, <2>10, <2>11, LongerParts
  <2>14. P(i)
    BY <2>10, <2>12, <2>13
  <2> QED
    BY <2>3, <2>14
<1>5. Len(b) + 1 \in 1..Len(b) + 1 /\ q + (Len(b) + 1) - 1 = e
  BY <1>1
<1>6. PICK n : LineAt(off, c, n, e) /\ PartsOf(Split(b), off, c, q, a, e, n)
  <2>1. P(Len(b) + 1)
    <3> HIDE DEF P
    <3> QED
      BY <1>3, <1>4, <1>5
  <2> QED
    BY <1>2, <1>5, <2>1
<1>7. n = m
  BY <1>1, <1>6, LineIsOne
<1> QED
  BY <1>6, <1>7

\* How TakeAll computes.
TakenBy(g, parts, pieces, maxLines) ==
    /\ g \in [1..Len(parts) + 1 -> Seq(Seq(Nat))]
    /\ g[1] = pieces
    /\ \A k \in 2..Len(parts) + 1 : g[k] =
           Take(parts[Len(parts) - k + 2], g[k - 1], maxLines)
    /\ TakeAll(parts, pieces, maxLines) = g[Len(parts) + 1]

LEMMA TakeSteps ==
    ASSUME NEW parts \in Seq(Seq(Nat)), NEW pieces \in Seq(Seq(Nat)), NEW maxLines \in Nat
    PROVE  \E g : TakenBy(g, parts, pieces, maxLines)
<1>1. PICK n : n = Len(parts) + 1
  OBVIOUS
<1>2. n \in Nat \ {0} /\ \A k \in 2..n :
          k - 1 \in 1..Len(parts) /\ k - 1 \in 1..n /\ k - 1 \in Nat
  BY <1>1
<1>3. PICK first : first = pieces
  OBVIOUS
<1>4. first \in Seq(Seq(Nat))
  BY <1>3
<1>5. PICK step : step = [k \in Nat |-> [x \in Seq(Seq(Nat)) |->
                IF k \in 1..Len(parts) THEN Take(parts[Len(parts) - k + 1], x,
                    maxLines) ELSE x]]
  OBVIOUS
<1>6. step \in [Nat -> [Seq(Seq(Nat)) -> Seq(Seq(Nat))]]
  <2>1. \A k \in 1..Len(parts) : \A x \in Seq(Seq(Nat)) :
            Take(parts[Len(parts) - k + 1], x, maxLines) \in Seq(Seq(Nat))
    BY DEF Take
  <2> QED
    BY <1>5, <2>1
<1>7. PICK g \in [1..n -> Seq(Seq(Nat))] : Repeats(g, n, first, step)
  BY <1>2, <1>4, <1>6, Iterates
<1>8. \A k \in 2..n : \A x \in Seq(Seq(Nat)) : step[k - 1][x] =
          Take(parts[Len(parts) - k + 2], x, maxLines)
  BY <1>2, <1>5
<1>9. g[1] = first /\ \A k \in 2..n : g[k] =
          Take(parts[Len(parts) - k + 2], g[k - 1], maxLines)
  <2>1. \A k \in 2..n : g[k - 1] \in Seq(Seq(Nat))
    BY <1>2, <1>7
  <2> QED
    BY <1>7, <1>8, <2>1 DEF Repeats
<1> DEFINE Is(h) == h = [k \in 1..n |->
              IF k = 1 THEN first
                  ELSE Take(parts[Len(parts) - k + 2], h[k - 1], maxLines)]
<1>10. Is(g)
  <2>1. \A k \in 1..n : k = 1 \/ k \in 2..n
    BY <1>2
  <2> QED
    BY <1>7, <1>9, <2>1
<1>11. ASSUME NEW h, Is(h) PROVE h = g
  <2>1. h = [k \in 1..n |-> h[k]]
    BY <1>11
  <2>2. 1 \in 1..n /\ \A k \in 2..n : k \in 1..n /\ k # 1
    BY <1>2
  <2>3. \A k \in 1..n : h[k] = IF k = 1 THEN first
            ELSE Take(parts[Len(parts) - k + 2], h[k - 1], maxLines)
    BY <1>11, Zenon
  <2>4. h[1] = first /\ \A k \in 2..n : h[k] =
            Take(parts[Len(parts) - k + 2], h[k - 1], maxLines)
    BY <2>2, <2>3
  <2>5. Follows(h, Seq(Seq(Nat)), n, first, step)
    BY <1>8, <2>1, <2>4 DEF Follows
  <2> HIDE DEF Is
  <2> QED
    BY <1>2, <1>4, <1>6, <1>7, <2>5, OnlyChain
<1>12. TakeAll(parts, pieces, maxLines) = (CHOOSE h : Is(h))[n]
  BY <1>1, <1>3 DEF TakeAll
<1>13. (CHOOSE h : Is(h)) = g
  <2> HIDE DEF Is
  <2> QED
    BY <1>10, <1>11, Zenon
<1>14. TakenBy(g, parts, pieces, maxLines)
  BY <1>1, <1>3, <1>7, <1>9, <1>12, <1>13 DEF TakenBy
<1> QED
  BY <1>14

-----------------------------------------------------------------------------
(***************************************************************************)
(* What is collected of the lines from line m on.                          *)
(***************************************************************************)

\* The part is all of line n, unless that line is lost.
Whole(part, off, c, lost, n) ==
    IF n <= c
    THEN part \in Seq({n}) /\ (n \in lost \/ Len(part) = off[n + 1] - off[n] - 1)
    ELSE part = <<>>

\* Pieces of lines from m on, each of another line, in their order.
Ordered(pieces, c, m) ==
    /\ pieces \in Seq(Seq(Nat))
    /\ \A i \in 1..Len(pieces) : pieces[i] # <<>> /\ pieces[i][1] \in m..c
    /\ \A i, j \in 1..Len(pieces) : i < j => pieces[i][1] < pieces[j][1]

\* Line n is there as a whole.
Found(pieces, off, n) ==
    \E i \in 1..Len(pieces) : pieces[i][1] = n /\ Len(pieces[i]) = off[n + 1] - off[n] - 1

Collected(pieces, off, c, max, lost, m) ==
    /\ Ordered(pieces, c, m)
    /\ Len(pieces) <= max
    /\ \A n \in m..c : n + max > c => n \in lost \/ Found(pieces, off, n)

\* There are no more pieces than lines.
LEMMA Counts ==
    ASSUME NEW c \in Nat, NEW m \in Nat \ {0}, NEW pieces, Ordered(pieces, c, m),
               Len(pieces) > 0
    PROVE  m + Len(pieces) <= c + 1
<1>1. /\ pieces \in Seq(Seq(Nat)) /\ Len(pieces) \in Nat \ {0}
      /\ \A i \in 1..Len(pieces) : pieces[i][1] \in m..c
      /\ \A i, j \in 1..Len(pieces) : i < j => pieces[i][1] < pieces[j][1]
  BY DEF Ordered
<1>2. PICK bad : bad = {i \in 1..Len(pieces) : ~(m + i - 1 <= pieces[i][1])}
  OBVIOUS
<1>3. bad = {}
  <2>1. SUFFICES ASSUME bad # {} PROVE FALSE
    OBVIOUS
  <2>2. PICK i \in bad : \A j \in bad : i <= j
    <3>1. bad \in SUBSET Nat
      BY <1>1, <1>2
    <3> QED
      BY <2>1, <3>1, Least
  <2>3. i \in 1..Len(pieces) /\ ~(m + i - 1 <= pieces[i][1]) /\ pieces[i][1] \in m..c
    BY <1>1, <1>2
  <2>4. i # 1
    BY <2>3
  <2>5. i - 1 \in 1..Len(pieces) /\ i - 1 < i /\ ~(i <= i - 1) /\ i \in Nat
    <3>1. Len(pieces) \in Nat /\ i \in 1..Len(pieces)
      BY <1>1, <2>3
    <3> QED
      BY <2>4, <3>1
  <2>6. m + (i - 1) - 1 <= pieces[i - 1][1] /\ pieces[i - 1][1] < pieces[i][1]
        /\ pieces[i - 1][1] \in m..c
    BY <1>1, <1>2, <2>2, <2>3, <2>5
  <2>7. PICK x : x = pieces[i][1]
    OBVIOUS
  <2>8. PICK y : y = pieces[i - 1][1]
    OBVIOUS
  <2>9. x \in Nat /\ y \in Nat /\ ~(m + i - 1 <= x) /\ m + (i - 1) - 1 <= y /\ y < x
    BY <2>3, <2>6, <2>7, <2>8
  <2> QED
    BY <2>5, <2>9
<1>4. Len(pieces) \in 1..Len(pieces)
  BY <1>1
<1>5. m + Len(pieces) - 1 <= pieces[Len(pieces)][1] /\ pieces[Len(pieces)][1] \in m..c
  BY <1>1, <1>2, <1>3, <1>4
<1> QED
  BY <1>1, <1>5

\* A line more.
LEMMA TakeKeeps ==
    ASSUME NEW c \in Nat, NEW off \in [1..c + 1 -> Nat], NEW max \in Nat, NEW lost,
           NEW m \in 1..c + 1, NEW part, Whole(part, off, c, lost, m),
           m <= c => off[m] + 1 < off[m + 1],
           NEW pieces, Collected(pieces, off, c, max, lost, m + 1)
    PROVE  Collected(Take(part, pieces, max), off, c, max, lost, m)
<1>1. /\ m \in Nat \ {0} /\ pieces \in Seq(Seq(Nat)) /\ Len(pieces) \in Nat
             /\ Len(pieces) <= max
      /\ \A i \in 1..Len(pieces) : pieces[i] # <<>> /\ pieces[i][1] \in m + 1..c
      /\ \A i, j \in 1..Len(pieces) : i < j => pieces[i][1] < pieces[j][1]
      /\ \A n \in m + 1..c : n + max > c => n \in lost \/ Found(pieces, off, n)
  BY DEF Collected, Ordered
<1>2. Ordered(pieces, c, m)
  BY <1>1 DEF Ordered
<1>3. CASE ~(m <= c)
  <2>1. part = <<>> /\ \A n : n \notin m..c
    BY <1>1, <1>3 DEF Whole
  <2>2. Take(part, pieces, max) = pieces
    BY <2>1 DEF Take
  <2> QED
    BY <1>1, <1>2, <2>1, <2>2 DEF Collected
<1>4. CASE m <= c /\ (part = <<>> \/ ~(Len(pieces) < max))
  <2>1. Take(part, pieces, max) = pieces
    BY <1>4 DEF Take
  <2>2. m + max > c => m \in lost
    <3>1. CASE part = <<>>
      <4>1. m + 1 \in 1..c + 1 /\ m \in 1..c + 1
        BY <1>1, <1>4
      <4>2. off[m] \in Nat /\ off[m + 1] \in Nat /\ off[m] + 1 < off[m + 1]
        BY <1>4, <4>1
      <4>3. Len(part) = 0
        BY <3>1
      <4> QED
        BY <1>4, <4>2, <4>3 DEF Whole
    <3>2. CASE ~(Len(pieces) < max) /\ max = 0
      BY <1>1, <1>4, <3>2
    <3>3. CASE ~(Len(pieces) < max) /\ max # 0
      <4>1. Ordered(pieces, c, m + 1)
        BY DEF Collected
      <4>2. m + 1 \in Nat \ {0} /\ Len(pieces) > 0 /\ Len(pieces) = max
        BY <1>1, <3>3
      <4>3. (m + 1) + Len(pieces) <= c + 1
        BY <4>1, <4>2, Counts
      <4> QED
        BY <1>1, <4>2, <4>3
    <3> QED
      BY <1>4, <3>1, <3>2, <3>3
  <2>3. ASSUME NEW n \in m..c, n + max > c PROVE n \in lost \/ Found(pieces, off, n)
    <3>1. n = m \/ n \in m + 1..c
      BY <1>1
    <3> QED
      BY <1>1, <2>2, <2>3, <3>1
  <2> QED
    BY <1>1, <1>2, <2>1, <2>3 DEF Collected
<1>5. CASE m <= c /\ part # <<>> /\ Len(pieces) < max
  <2>1. PICK new : new = <<part>> \o pieces
    OBVIOUS
  <2>2. Take(part, pieces, max) = new
    BY <1>5, <2>1 DEF Take
  <2>3. part \in Seq({m}) /\ part \in Seq(Nat) /\ part[1] = m
    <3>1. part \in Seq({m})
      BY <1>5 DEF Whole
    <3>2. part \in Seq(Nat)
      BY <1>1, <3>1
    <3>3. Len(part) \in Nat \ {0}
      BY <1>5, <3>2
    <3>4. 1 \in 1..Len(part)
      BY <3>3
    <3> QED
      BY <3>1, <3>2, <3>4
  <2>4. /\ new \in Seq(Seq(Nat)) /\ Len(new) = Len(pieces) + 1 /\ new[1] = part
        /\ \A i \in 1..Len(pieces) : new[i + 1] = pieces[i]
    <3>1. PICK S : S = Seq(Nat)
      OBVIOUS
    <3>2. part \in S /\ pieces \in Seq(S)
      BY <1>1, <2>3, <3>1
    <3>3. new \in Seq(S) /\ Len(new) = Len(pieces) + 1 /\ new[1] = part
      BY <2>1, <3>2
    <3>4. \A i \in 1..Len(pieces) : new[i + 1] = pieces[i]
      <4>1. ASSUME NEW i \in 1..Len(pieces) PROVE new[i + 1] = pieces[i]
        <5>1. PICK j : j = i + 1
          OBVIOUS
        <5>2. j \in 1..Len(pieces) + 1 /\ ~(j <= 1) /\ j - 1 = i
          BY <1>1, <5>1
        <5>3. new[j] = pieces[j - 1]
          BY <2>1, <3>2, <5>2
        <5> QED
          BY <5>1, <5>2, <5>3
      <4> QED
        BY <4>1
    <3> QED
      BY <3>1, <3>3, <3>4
  <2>5. \A i \in 1..Len(new) :
            \/ i = 1
            \/ i - 1 \in 1..Len(pieces) /\ new[i] = pieces[i - 1] /\ i # 1
    <3>1. ASSUME NEW i \in 1..Len(new), i # 1
          PROVE  i - 1 \in 1..Len(pieces) /\ new[i] = pieces[i - 1]
      <4>1. i - 1 \in 1..Len(pieces) /\ (i - 1) + 1 = i
        BY <1>1, <2>4, <3>1
      <4> QED
        BY <2>4, <4>1
    <3> QED
      BY <3>1
  <2>6. \A i \in 1..Len(new) : new[i] # <<>> /\ new[i][1] \in m..c
    <3>1. ASSUME NEW i \in 1..Len(new) PROVE new[i] # <<>> /\ new[i][1] \in m..c
      <4>1. CASE i = 1
        <5>1. new[i] = part /\ part[1] = m /\ m \in m..c
          BY <1>1, <1>5, <2>3, <2>4, <4>1
        <5> QED
          BY <1>5, <5>1, Zenon
      <4>2. CASE i # 1
        <5>1. new[i] # <<>> /\ new[i][1] \in m + 1..c
          BY <1>1, <2>5, <4>2
        <5>2. \A x \in m + 1..c : x \in m..c
          BY <1>1
        <5> QED
          BY <5>1, <5>2, Zenon
      <4> QED
        BY <4>1, <4>2
    <3> QED
      BY <3>1
  <2>7. ASSUME NEW i \in 1..Len(new), NEW j \in 1..Len(new), i < j
        PROVE  new[i][1] < new[j][1]
    <3>1. i \in Nat /\ j \in Nat /\ i >= 1 /\ j >= 1 /\ j # 1
      BY <1>1, <2>4, <2>7
    <3>2. j - 1 \in 1..Len(pieces) /\ new[j] = pieces[j - 1]
      BY <2>5, <3>1
    <3>3. CASE i = 1
      <4>1. new[i][1] = m
        BY <2>3, <2>4, <3>3
      <4>2. new[j][1] \in m + 1..c
        BY <1>1, <3>2
      <4> QED
        BY <1>1, <4>1, <4>2
    <3>4. CASE i # 1
      <4>1. i - 1 \in 1..Len(pieces) /\ new[i] = pieces[i - 1] /\ i - 1 < j - 1
        BY <2>5, <2>7, <3>1, <3>4
      <4>2. pieces[i - 1][1] < pieces[j - 1][1]
        BY <1>1, <3>2, <4>1
      <4> QED
        BY <3>2, <4>1, <4>2
    <3> QED
      BY <3>3, <3>4
  <2>8. Ordered(new, c, m)
    BY <2>4, <2>6, <2>7 DEF Ordered
  <2>9. ASSUME NEW n \in m..c, n + max > c PROVE n \in lost \/ Found(new, off, n)
    <3>1. n = m \/ n \in m + 1..c
      BY <1>1
    <3>2. CASE n = m
      <4>1. 1 \in 1..Len(new)
        BY <1>1, <2>4
      <4>2. m \in lost \/ Len(new[1]) = off[m + 1] - off[m] - 1
        BY <1>5, <2>4 DEF Whole
      <4> QED
        BY <2>3, <2>4, <3>2, <4>1, <4>2 DEF Found
    <3>3. CASE n \in m + 1..c
      <4>1. SUFFICES ASSUME n \notin lost PROVE Found(new, off, n)
        OBVIOUS
      <4>2. Found(pieces, off, n)
        BY <1>1, <2>9, <3>3, <4>1
      <4>3. PICK i \in 1..Len(pieces) :
                pieces[i][1] = n /\ Len(pieces[i]) = off[n + 1] - off[n] - 1
        BY <4>2 DEF Found
      <4>4. i + 1 \in 1..Len(new) /\ new[i + 1] = pieces[i]
        BY <1>1, <2>4
      <4> QED
        BY <4>3, <4>4 DEF Found
    <3> QED
      BY <3>1, <3>2, <3>3
  <2>10. Len(new) <= max
    BY <1>1, <1>5, <2>4
  <2>11. Collected(new, off, c, max, lost, m)
    BY <2>8, <2>9, <2>10 DEF Collected
  <2> QED
    BY <2>2, <2>11
<1> QED
  BY <1>3, <1>4, <1>5

\* All the parts of lines a, a + 1 and so on.
LEMMA TakeAllKeeps ==
    ASSUME NEW text, NEW off, NEW c, Laid(text, off, c), NEW max \in Nat, NEW lost,
           NEW a \in Nat \ {0}, NEW parts \in Seq(Seq(Nat)), a + Len(parts) <= c + 2,
           \A k \in 1..Len(parts) : Whole(parts[k], off, c, lost, a + k - 1),
           NEW pieces, Collected(pieces, off, c, max, lost, a + Len(parts))
    PROVE  Collected(TakeAll(parts, pieces, max), off, c, max, lost, a)
<1>1. PICK len : len = Len(parts)
  OBVIOUS
<1>2. len \in Nat /\ pieces \in Seq(Seq(Nat))
  BY <1>1 DEF Collected, Ordered
<1>3. PICK g \in [1..len + 1 -> Seq(Seq(Nat))] :
        /\ g[1] = pieces
        /\ \A k \in 2..len + 1 : g[k] = Take(parts[len - k + 2], g[k - 1], max)
        /\ TakeAll(parts, pieces, max) = g[len + 1]
  <2>1. PICK g : TakenBy(g, parts, pieces, max)
    BY <1>2, TakeSteps
  <2> QED
    BY <1>1, <2>1, Zenon DEF TakenBy
<1> DEFINE P(i) == Collected(g[i], off, c, max, lost, a + len - i + 1)
<1>4. PICK bad : bad = {i \in 1..len + 1 : ~P(i)}
  OBVIOUS
<1>5. bad = {}
  <2>1. SUFFICES ASSUME bad # {} PROVE FALSE
    OBVIOUS
  <2>2. PICK i \in bad : \A j \in bad : i <= j
    <3>1. bad \in SUBSET Nat
      BY <1>2, <1>4
    <3> QED
      BY <2>1, <3>1, Least
  <2>3. i \in 1..len + 1 /\ ~P(i)
    BY <1>4
  <2>4. P(1)
    <3>1. a + len - 1 + 1 = a + len
      BY <1>2
    <3> QED
      BY <1>1, <1>3, <3>1
  <2>5. i # 1
    BY <2>3, <2>4
  <2>6. PICK k : k = len - i + 2
    OBVIOUS
  <2>7. /\ i \in 2..len + 1 /\ i - 1 \in 1..len + 1 /\ ~(i <= i - 1)
        /\ k \in 1..len /\ a + len - i + 1 = a + k - 1 /\ a + k - 1 \in 1..c + 1
        /\ a + len - (i - 1) + 1 = (a + k - 1) + 1
    <3>1. i \in 2..len + 1 /\ i - 1 \in 1..len + 1 /\ ~(i <= i - 1)
      BY <1>2, <2>3, <2>5
    <3>2. c \in Nat /\ a + len <= c + 2
      BY <1>1 DEF Laid
    <3> QED
      BY <1>2, <2>6, <3>1, <3>2
  <2>8. P(i - 1)
    BY <1>4, <2>2, <2>7
  <2>9. g[i] = Take(parts[k], g[i - 1], max)
    BY <1>3, <2>6, <2>7
  <2>10. PICK m : m = a + k - 1
    OBVIOUS
  <2>11. /\ m \in 1..c + 1 /\ Whole(parts[k], off, c, lost, m)
         /\ Collected(g[i - 1], off, c, max, lost, m + 1)
    BY <1>1, <2>7, <2>8, <2>10
  <2>12. /\ c \in Nat /\ off \in [1..c + 1 -> Nat]
         /\ m <= c => off[m] + 1 < off[m + 1]
    <3>1. /\ c \in Nat /\ off \in [1..c + 1 -> Nat]
          /\ \A n \in 1..c : off[n] + 1 < off[n + 1]
      BY DEF Laid
    <3>2. m <= c => m \in 1..c
      BY <2>11, <3>1
    <3> QED
      BY <3>1, <3>2
  <2>13. Collected(g[i], off, c, max, lost, m)
    <3>1. PICK part : part = parts[k]
      OBVIOUS
    <3>2. PICK old : old = g[i - 1]
      OBVIOUS
    <3>3. Whole(part, off, c, lost, m) /\ Collected(old, off, c, max, lost, m + 1)
      BY <2>11, <3>1, <3>2
    <3>4. Collected(Take(part, old, max), off, c, max, lost, m)
      BY <2>11, <2>12, <3>3, TakeKeeps
    <3> QED
      BY <2>9, <3>1, <3>2, <3>4
  <2> QED
    BY <2>3, <2>7, <2>10, <2>13
<1>6. len + 1 \in 1..len + 1 /\ a + len - (len + 1) + 1 = a
  BY <1>2
<1> HIDE DEF P
<1>7. P(len + 1)
  BY <1>4, <1>5, <1>6
<1> USE DEF P
<1> QED
  BY <1>3, <1>6, <1>7

-----------------------------------------------------------------------------
(***************************************************************************)
(* The chunks of a large file.                                             *)
(***************************************************************************)

LEMMA MinOfTwo ==
    ASSUME NEW x \in Nat, NEW y \in Nat
    PROVE  Min({x, y}) = IF x <= y THEN x ELSE y
<1>1. PICK m : m = IF x <= y THEN x ELSE y
  OBVIOUS
<1>2. m \in {x, y} /\ \A z \in {x, y} : m <= z
  BY <1>1
<1>3. ASSUME NEW n \in {x, y}, \A z \in {x, y} : n <= z PROVE n = m
  <2>1. n \in Nat /\ m \in Nat /\ n <= m /\ m <= n
    BY <1>2, <1>3
  <2> QED
    BY <2>1
<1>4. Min({x, y}) = m
  BY <1>2, <1>3, Zenon DEF Min
<1> QED
  BY <1>1, <1>4

\* A chunk is what comes before a place, and not nothing.
ChunkAt(chunk, text, position, chunkSize) ==
    /\ chunk \in Seq(Nat) /\ Len(chunk) \in 1..position
    /\ Len(chunk) = chunkSize \/ Len(chunk) = position
    /\ \A i \in 1..Len(chunk) : chunk[i] = text[position - Len(chunk) + i]

LEMMA ChunkRead ==
    ASSUME NEW text \in Seq(Nat), NEW position \in 1..Len(text),
               NEW chunkSize \in Nat \ {0},
           NEW chunk, chunk = ReadChunkBackward(text, position, chunkSize)
    PROVE  ChunkAt(chunk, text, position, chunkSize)
<1>1. position \in Nat \ {0} /\ Len(text) \in Nat /\ position <= Len(text)
  OBVIOUS
<1>2. PICK d : d = Min({chunkSize, position})
  OBVIOUS
<1>3. d \in 1..position /\ (d = chunkSize \/ d = position)
  BY <1>1, <1>2, MinOfTwo
<1>4. PICK first : first = position - d + 1
  OBVIOUS
<1>5. /\ first \in 1..Len(text) /\ position - first + 1 = d /\ first <= position
      /\ d \in Nat /\ first \in Nat
  BY <1>1, <1>3, <1>4
<1>6. chunk = SubSeq(text, first, position)
  BY <1>2, <1>4 DEF ReadChunkBackward
<1>7. chunk \in Seq(Nat) /\ Len(chunk) = d
  BY <1>1, <1>5, <1>6
<1>8. ASSUME NEW i \in 1..d PROVE chunk[i] = text[position - d + i]
  <2>1. position - d + i = first + i - 1
    BY <1>1, <1>4, <1>5
  <2>2. chunk[i] = text[first + i - 1]
    BY <1>1, <1>5, <1>6
  <2> QED
    BY <2>1, <2>2
<1> QED
  BY <1>3, <1>7, <1>8 DEF ChunkAt

\* The parts but the last.
LEMMA FrontParts ==
    ASSUME NEW parts \in PartLists
    PROVE  /\ Front(parts) \in Seq(Seq(Nat)) /\ Len(Front(parts)) = Len(parts) - 1
           /\ \A k \in 1..Len(parts) - 1 : Front(parts)[k] = parts[k]
           /\ Head(parts) = parts[1] /\ parts[1] \in Seq(Nat)
<1>1. parts \in Seq(Seq(Nat)) /\ Len(parts) \in Nat \ {0}
  BY DEF PartLists
<1>2. PICK front : front = SubSeq(parts, 1, Len(parts) - 1)
  OBVIOUS
<1>3. PICK S : S = Seq(Nat)
  OBVIOUS
<1>4. PICK n : n = Len(parts) - 1
  OBVIOUS
<1>5. n \in Nat /\ n <= Len(parts) /\ parts \in Seq(S)
  BY <1>1, <1>3, <1>4
<1>6. front \in Seq(S) /\ Len(front) = n /\ \A k \in 1..n : front[k] = parts[k]
  BY <1>2, <1>4, <1>5
<1>7. Front(parts) = front
  BY <1>2 DEF Front
<1>8. Head(parts) = parts[1] /\ parts[1] \in Seq(Nat)
  BY <1>1
<1> QED
  BY <1>3, <1>4, <1>6, <1>7, <1>8

LEMMA SplitTyped ==
    ASSUME NEW text \in Seq(Nat)
    PROVE  Split(text) \in PartLists
<1>1. PICK g \in [1..Len(text) + 1 -> PartLists] : Split(text) = g[Len(text) + 1]
  BY SplitSteps
<1>2. Len(text) + 1 \in 1..Len(text) + 1
  OBVIOUS
<1> QED
  BY <1>1, <1>2

LEMMA TakeAllTyped ==
    ASSUME NEW parts \in Seq(Seq(Nat)), NEW pieces \in Seq(Seq(Nat)), NEW maxLines \in Nat
    PROVE  TakeAll(parts, pieces, maxLines) \in Seq(Seq(Nat))
<1>1. PICK g : TakenBy(g, parts, pieces, maxLines)
  BY TakeSteps
<1>2. Len(parts) + 1 \in 1..Len(parts) + 1
  OBVIOUS
<1> QED
  BY <1>1, <1>2 DEF TakenBy

\* What the loop keeps.
Readings(text) == [position : 0..Len(text), lines : Seq(Seq(Nat)), buffer : Seq(Nat)]

\* One turn of the loop, in its parts.
BackOneChunk(text, maxLines, chunkSize, s, t, chunk, q, buffer, parts) ==
    /\ chunk \in Seq(Nat) /\ Len(chunk) \in 1..s.position
    /\ Len(chunk) = chunkSize \/ Len(chunk) = s.position
    /\ q = s.position - Len(chunk) /\ q \in 0..Len(text) /\ q < s.position
    /\ \A i \in 1..Len(chunk) : chunk[i] = text[q + i]
    /\ buffer = chunk \o s.buffer /\ buffer \in Seq(Nat)
    /\ parts = Split(buffer) /\ parts \in PartLists
    /\ t \in Readings(text) /\ t.position = q /\ t.buffer = parts[1]
    /\ t.lines = TakeAll(Front(parts), s.lines, maxLines)

LEMMA ReadTurn ==
    ASSUME NEW text \in Seq(Nat), NEW maxLines \in Nat, NEW chunkSize \in Nat \ {0},
           NEW s \in Readings(text), ~(s.position = 0 \/ Len(s.lines) >= maxLines)
    PROVE  \E chunk, q, buffer, parts :
              BackOneChunk(text, maxLines, chunkSize, s,
                   ReadBackward(text, s, maxLines, chunkSize), chunk, q, buffer, parts)
<1>1. /\ s.position \in 1..Len(text) /\ s.lines \in Seq(Seq(Nat)) /\ s.buffer \in Seq(Nat)
      /\ Len(text) \in Nat /\ s.position \in Nat
  BY DEF Readings
<1>2. PICK chunk : chunk = ReadChunkBackward(text, s.position, chunkSize)
  OBVIOUS
<1>3. /\ chunk \in Seq(Nat) /\ Len(chunk) \in 1..s.position
      /\ Len(chunk) = chunkSize \/ Len(chunk) = s.position
      /\ \A i \in 1..Len(chunk) : chunk[i] = text[s.position - Len(chunk) + i]
  <2>1. PICK p : p = s.position
    OBVIOUS
  <2>2. p \in 1..Len(text) /\ chunk = ReadChunkBackward(text, p, chunkSize)
    BY <1>1, <1>2, <2>1
  <2>3. ChunkAt(chunk, text, p, chunkSize)
    BY <2>2, ChunkRead
  <2> QED
    BY <2>1, <2>3, Zenon DEF ChunkAt
<1>4. PICK q : q = s.position - Len(chunk)
  OBVIOUS
<1>5. /\ q \in 0..Len(text) /\ q < s.position
      /\ \A i \in 1..Len(chunk) : chunk[i] = text[q + i]
  <2>1. PICK p, n : p = s.position /\ n = Len(chunk)
    OBVIOUS
  <2>2. p \in 1..Len(text) /\ n \in 1..p /\ q = p - n /\ Len(text) \in Nat
    BY <1>1, <1>3, <1>4, <2>1
  <2>3. q \in 0..Len(text) /\ q < p
    BY <2>2
  <2> QED
    BY <1>3, <1>4, <2>1, <2>3, Zenon
<1>6. PICK buffer : buffer = chunk \o s.buffer
  OBVIOUS
<1>7. buffer \in Seq(Nat)
  BY <1>1, <1>3, <1>6
<1>8. PICK parts : parts = Split(buffer)
  OBVIOUS
<1>9. parts \in PartLists
  BY <1>7, <1>8, SplitTyped
<1>10. PICK pieces : pieces = TakeAll(Front(parts), s.lines, maxLines)
  OBVIOUS
<1>11. pieces \in Seq(Seq(Nat))
  BY <1>1, <1>9, <1>10, FrontParts, TakeAllTyped
<1>12. Head(parts) = parts[1] /\ parts[1] \in Seq(Nat)
  BY <1>9, FrontParts
<1>13. PICK t : t = [position |-> q, lines |-> pieces, buffer |-> parts[1]]
  OBVIOUS
<1>14. /\ t \in Readings(text)
       /\ t.position = q /\ t.lines = pieces /\ t.buffer = parts[1]
  BY <1>5, <1>11, <1>12, <1>13 DEF Readings
<1>15. ReadBackward(text, s, maxLines, chunkSize) = t
  BY <1>2, <1>4, <1>6, <1>8, <1>10, <1>12, <1>13, Zenon
     DEF ReadBackward, ProcessBufferLines, ExtractPartialLine
<1>16. BackOneChunk(text, maxLines, chunkSize, s, t, chunk, q, buffer, parts)
  BY <1>3, <1>4, <1>5, <1>6, <1>7, <1>8, <1>9, <1>10, <1>14 DEF BackOneChunk
<1> QED
  BY <1>15, <1>16, Zenon

LEMMA ReadTyped ==
    ASSUME NEW text \in Seq(Nat), NEW maxLines \in Nat, NEW chunkSize \in Nat \ {0},
           NEW s \in Readings(text)
    PROVE  ReadBackward(text, s, maxLines, chunkSize) \in Readings(text)
<1>1. CASE s.position = 0 \/ Len(s.lines) >= maxLines
  BY <1>1 DEF ReadBackward
<1>2. CASE ~(s.position = 0 \/ Len(s.lines) >= maxLines)
  BY <1>2, ReadTurn DEF BackOneChunk
<1> QED
  BY <1>1, <1>2

\* How ReadLinesBackward computes.
ReadBy(g, text, maxLines, chunkSize) ==
    /\ g \in [1..Len(text) + 1 -> Readings(text)]
    /\ g[1] = [position |-> Len(text), lines |-> <<>>, buffer |-> <<>>]
    /\ \A k \in 2..Len(text) + 1 : g[k] =
           ReadBackward(text, g[k - 1], maxLines, chunkSize)
    /\ ReadLinesBackward(text, maxLines, chunkSize) = g[Len(text) + 1].lines

LEMMA ReadSteps ==
    ASSUME NEW text \in Seq(Nat), NEW maxLines \in Nat, NEW chunkSize \in Nat \ {0}
    PROVE  \E g : ReadBy(g, text, maxLines, chunkSize)
<1>1. PICK n : n = Len(text) + 1
  OBVIOUS
<1>2. n \in Nat \ {0} /\ \A k \in 2..n :
          k - 1 \in 1..Len(text) /\ k - 1 \in 1..n /\ k - 1 \in Nat
  BY <1>1
<1>3. PICK first : first = [position |-> Len(text), lines |-> <<>>, buffer |-> <<>>]
  OBVIOUS
<1>4. first \in Readings(text)
  BY <1>3 DEF Readings
<1>5. PICK step : step = [k \in Nat |-> [x \in Readings(text) |->
                IF k \in 1..Len(text) THEN ReadBackward(text, x, maxLines,
                    chunkSize) ELSE x]]
  OBVIOUS
<1>6. step \in [Nat -> [Readings(text) -> Readings(text)]]
  <2>1. \A k \in 1..Len(text) : \A x \in Readings(text) :
            ReadBackward(text, x, maxLines, chunkSize) \in Readings(text)
    BY ReadTyped
  <2> QED
    BY <1>5, <2>1
<1>7. PICK g \in [1..n -> Readings(text)] : Repeats(g, n, first, step)
  BY <1>2, <1>4, <1>6, Iterates
<1>8. \A k \in 2..n : \A x \in Readings(text) : step[k - 1][x] =
          ReadBackward(text, x, maxLines, chunkSize)
  BY <1>2, <1>5
<1>9. g[1] = first /\ \A k \in 2..n : g[k] =
          ReadBackward(text, g[k - 1], maxLines, chunkSize)
  <2>1. \A k \in 2..n : g[k - 1] \in Readings(text)
    BY <1>2, <1>7
  <2> QED
    BY <1>7, <1>8, <2>1 DEF Repeats
<1> DEFINE Is(h) == h = [k \in 1..n |->
              IF k = 1 THEN first ELSE ReadBackward(text, h[k - 1], maxLines, chunkSize)]
<1>10. Is(g)
  <2>1. \A k \in 1..n : k = 1 \/ k \in 2..n
    BY <1>2
  <2> QED
    BY <1>7, <1>9, <2>1
<1>11. ASSUME NEW h, Is(h) PROVE h = g
  <2>1. h = [k \in 1..n |-> h[k]]
    BY <1>11
  <2>2. 1 \in 1..n /\ \A k \in 2..n : k \in 1..n /\ k # 1
    BY <1>2
  <2>3. \A k \in 1..n : h[k] = IF k = 1 THEN first
            ELSE ReadBackward(text, h[k - 1], maxLines, chunkSize)
    BY <1>11, Zenon
  <2>4. h[1] = first /\ \A k \in 2..n : h[k] =
            ReadBackward(text, h[k - 1], maxLines, chunkSize)
    BY <2>2, <2>3
  <2>5. Follows(h, Readings(text), n, first, step)
    BY <1>8, <2>1, <2>4 DEF Follows
  <2> HIDE DEF Is
  <2> QED
    BY <1>2, <1>4, <1>6, <1>7, <2>5, OnlyChain
<1>12. ReadLinesBackward(text, maxLines, chunkSize) = (CHOOSE h : Is(h))[n].lines
  BY <1>1, <1>3 DEF ReadLinesBackward
<1>13. (CHOOSE h : Is(h)) = g
  <2> HIDE DEF Is
  <2> QED
    BY <1>10, <1>11, Zenon
<1>14. ReadBy(g, text, maxLines, chunkSize)
  BY <1>1, <1>3, <1>7, <1>9, <1>12, <1>13 DEF ReadBy
<1> QED
  BY <1>14

\* The lines that a chunk of d characters cuts in two.
Cuts(text, off, c, d) ==
    {n \in 1..c : \E b \in off[n] + 1..off[n + 1] - 1 : (Len(text) - b) % d = 0}

\* The lines collected are those from line a on, where the next chunk ends; the
\* text between that place and the end of line a is carried over.
Reading(s, text, off, c, max, d) ==
    /\ s \in Readings(text)
    /\ s.position # 0 => (Len(text) - s.position) % d = 0
    /\ \E a : /\ LineAt(off, c, a, s.position)
              /\ Segment(s.buffer, text, s.position, EndOf(off, c, a))
              /\ Collected(s.lines, off, c, max, Cuts(text, off, c, d), a)

\* A chunk more.
LEMMA OneChunkMore ==
    ASSUME NEW x \in Nat, NEW d \in Nat \ {0}, x % d = 0
    PROVE  (x + d) % d = 0
<1>1. x = d * (x \div d) + (x % d) /\ x \div d \in Int
  OBVIOUS
<1>2. x + d = d * (x \div d + 1)
  BY <1>1
<1>3. \A k \in Int : (d * k) % d = 0
  OBVIOUS
<1> QED
  BY <1>1, <1>2, <1>3

\* Where a line ends is in that line.
LEMMA LineEnds ==
    ASSUME NEW text, NEW off, NEW c, Laid(text, off, c),
           NEW x \in Nat, NEW a, LineAt(off, c, a, x)
    PROVE  /\ a \in 1..c + 1
           /\ EndOf(off, c, a) \in Nat /\ EndOf(off, c, a) <= Len(text)
                  /\ x <= EndOf(off, c, a)
           /\ LineAt(off, c, a, EndOf(off, c, a))
<1>1. /\ c \in Nat /\ off \in [1..c + 1 -> Nat] /\ off[c + 1] =
             Len(text) /\ Len(text) \in Nat
      /\ \A n \in 1..c : off[n] + 1 < off[n + 1]
  BY DEF Laid
<1>2. CASE a = c + 1 /\ x = off[c + 1]
  <2>1. EndOf(off, c, a) = off[c + 1]
    BY <1>1, <1>2 DEF EndOf
  <2> QED
    BY <1>1, <1>2, <2>1 DEF LineAt
<1>3. CASE a \in 1..c /\ off[a] <= x /\ x < off[a + 1]
  <2>1. /\ a + 1 \in 1..c + 1 /\ a \in 1..c + 1 /\ c + 1 \in 1..c + 1
        /\ off[a] \in Nat /\ off[a + 1] \in Nat /\ off[a] + 1 < off[a + 1]
    BY <1>1, <1>3
  <2>2. EndOf(off, c, a) = off[a + 1] - 1
    BY <1>1, <1>3 DEF EndOf
  <2>3. off[a + 1] <= off[c + 1]
    <3>1. a < c + 1
      BY <1>1, <1>3
    <3> QED
      BY <2>1, <3>1, LinesInOrder
  <2>4. /\ EndOf(off, c, a) \in Nat /\ EndOf(off, c, a) <= Len(text)
               /\ x <= EndOf(off, c, a)
        /\ off[a] <= EndOf(off, c, a) /\ EndOf(off, c, a) < off[a + 1]
    BY <1>1, <1>3, <2>1, <2>2, <2>3
  <2>5. LineAt(off, c, a, EndOf(off, c, a))
    BY <1>3, <2>4 DEF LineAt
  <2> QED
    BY <2>1, <2>4, <2>5
<1> QED
  BY <1>2, <1>3 DEF LineAt

\* A part that begins with its line and ends with it is the whole of it.
LEMMA PartIsWhole ==
    ASSUME NEW text, NEW off, NEW c, Laid(text, off, c),
           NEW parts, NEW q \in Nat, NEW a, LineAt(off, c, a, q), NEW x, NEW n,
           PartsOf(parts, off, c, q, a, x, n), NEW lost,
           off[a] < q => a \in lost,
           NEW k \in 1..Len(parts), k = Len(parts) => x = EndOf(off, c, a + k - 1),
           a + k - 1 <= c
    PROVE  Whole(parts[k], off, c, lost, a + k - 1)
<1>1. /\ c \in Nat /\ off \in [1..c + 1 -> Nat]
      /\ parts[k] \in Seq({a + k - 1})
      /\ Len(parts[k]) = (IF k = Len(parts) THEN x ELSE EndOf(off, c, a + k - 1))
                         - (IF k = 1 THEN q ELSE off[a + k - 1])
  BY DEF Laid, PartsOf
<1>2. a \in 1..c + 1 /\ off[a] <= q
  BY <1>1 DEF LineAt
<1>3. PICK m : m = a + k - 1
  OBVIOUS
<1>4. Len(parts) \in Nat
  BY DEF PartsOf, PartLists
<1>5. m \in 1..c /\ (k = 1 => m = a) /\ m \in 1..c + 1 /\ m + 1 \in 1..c + 1
  BY <1>1, <1>2, <1>3, <1>4
<1>6. PICK from : from = IF k = 1 THEN q ELSE off[m]
  OBVIOUS
<1>7. EndOf(off, c, m) = off[m + 1] - 1
  BY <1>1, <1>5 DEF EndOf
<1>8. Len(parts[k]) = (off[m + 1] - 1) - from
  BY <1>1, <1>3, <1>6, <1>7, Zenon
<1>9. m \in lost \/ from = off[m]
  <2>1. k = 1 => (off[m] < q => m \in lost) /\ off[m] <= q
    BY <1>2, <1>5
  <2>2. off[m] \in Nat
    BY <1>1, <1>5
  <2> QED
    BY <1>6, <2>1, <2>2
<1>10. off[m] \in Nat /\ off[m + 1] \in Nat
  BY <1>1, <1>5
<1>11. m \in lost \/ Len(parts[k]) = off[m + 1] - off[m] - 1
  BY <1>8, <1>9, <1>10
<1>12. m <= c /\ parts[k] \in Seq({m})
  BY <1>1, <1>3, <1>5
<1> QED
  BY <1>3, <1>11, <1>12 DEF Whole

\* One turn of the loop goes on with the chunk before.
LEMMA ReadKeeps ==
    ASSUME NEW text, NEW off, NEW c, Laid(text, off, c), NEW max \in Nat,
               NEW d \in Nat \ {0},
           NEW s, Reading(s, text, off, c, max, d)
    PROVE  /\ Reading(ReadBackward(text, s, max, d), text, off, c, max, d)
           /\ \/ s.position = 0 \/ Len(s.lines) >= max
              \/ ReadBackward(text, s, max, d).position < s.position
<1>1. CASE s.position = 0 \/ Len(s.lines) >= max
  BY <1>1 DEF ReadBackward
<1>2. CASE ~(s.position = 0 \/ Len(s.lines) >= max)
  <2>1. PICK t : t = ReadBackward(text, s, max, d)
    OBVIOUS
  <2>2. /\ s \in Readings(text) /\ text \in Seq(Nat) /\ Len(text) \in Nat /\ c \in Nat
        /\ off \in [1..c + 1 -> Nat] /\ off[1] = 0 /\ off[c + 1] = Len(text)
    BY DEF Reading, Laid
  <2>3. PICK chunk, q, buffer, parts :
            BackOneChunk(text, max, d, s, t, chunk, q, buffer, parts)
    BY <1>2, <2>1, <2>2, ReadTurn
  <2>4. PICK p : p = s.position
    OBVIOUS
  <2>5. p \in 1..Len(text) /\ p \in Nat /\ (Len(text) - p) % d =
            0 /\ s.buffer \in Seq(Nat)
    BY <1>2, <2>2, <2>4 DEF Reading, Readings
  <2>6. PICK lost : lost = Cuts(text, off, c, d)
    OBVIOUS
  <2>7. PICK a : /\ LineAt(off, c, a, p)
                 /\ Segment(s.buffer, text, p, EndOf(off, c, a))
                 /\ Collected(s.lines, off, c, max, lost, a)
    BY <2>4, <2>6 DEF Reading
  <2>8. PICK e : e = EndOf(off, c, a)
    OBVIOUS
  <2>9. a \in 1..c + 1 /\ e \in Nat /\ e <= Len(text) /\ p <= e /\ LineAt(off, c, a, e)
    BY <2>5, <2>7, <2>8, LineEnds
  <2>10. /\ Len(chunk) \in 1..p /\ q =
                p - Len(chunk) /\ q \in 0..Len(text) /\ q < p /\ q \in Nat
         /\ q < Len(text) /\ q <= p /\ q <= e /\ Len(chunk) \in Nat
         /\ chunk \in Seq(Nat) /\ (Len(chunk) = d \/ Len(chunk) = p)
    <3>1. /\ Len(chunk) \in 1..p /\ q = p - Len(chunk) /\ q \in 0..Len(text) /\ q < p
          /\ chunk \in Seq(Nat) /\ (Len(chunk) = d \/ Len(chunk) = p)
      BY <2>3, <2>4 DEF BackOneChunk
    <3>2. Len(chunk) \in Nat /\ q \in Nat /\ p \in Nat /\ p <= Len(text)
      BY <2>2, <2>5, <3>1
    <3>3. PICK n : n = Len(text)
      OBVIOUS
    <3>4. n \in Nat /\ p <= n /\ q < p /\ e \in Nat /\ p <= e
      BY <2>2, <2>9, <3>1, <3>2, <3>3
    <3>5. q < n /\ q <= p /\ q <= e
      BY <3>2, <3>4
    <3>6. q < Len(text)
      BY <3>3, <3>5
    <3> QED
      BY <3>1, <3>2, <3>5, <3>6, Zenon
  <2>11. q # 0 => (Len(text) - q) % d = 0
    <3>1. SUFFICES ASSUME q # 0 PROVE (Len(text) - q) % d = 0
      OBVIOUS
    <3>2. Len(text) - p \in Nat /\ Len(text) - q = (Len(text) - p) + d
      <4>1. q = p - d
        <5>1. p \in Nat /\ q = p - Len(chunk) /\ (Len(chunk) = d \/ Len(chunk) = p)
          BY <2>5, <2>10
        <5>2. Len(chunk) # p
          BY <3>1, <5>1
        <5> QED
          BY <5>1, <5>2, Zenon
      <4>2. PICK n : n = Len(text)
        OBVIOUS
      <4>3. n \in Nat /\ p \in 1..n
        BY <2>2, <2>5, <4>2
      <4>4. n - p \in Nat /\ n - q = (n - p) + d
        BY <4>1, <4>3
      <4> QED
        BY <4>2, <4>4
    <3> QED
      BY <2>5, <3>2, OneChunkMore
  <2>12. Segment(buffer, text, q, e)
    <3>1. /\ Len(s.buffer) = e - p /\ Len(s.buffer) \in Nat
          /\ \A i \in 1..Len(s.buffer) : s.buffer[i] = text[p + i]
      BY <2>5, <2>7, <2>8 DEF Segment
    <3>2. PICK rest : rest = s.buffer
      OBVIOUS
    <3>3. /\ chunk \in Seq(Nat) /\ rest \in Seq(Nat) /\ buffer = chunk \o rest
          /\ \A i \in 1..Len(chunk) : chunk[i] = text[q + i]
      BY <2>3, <2>5, <3>2 DEF BackOneChunk
    <3>4. /\ buffer \in Seq(Nat) /\ Len(buffer) = Len(chunk) + Len(rest)
          /\ \A i \in 1..Len(chunk) : buffer[i] = chunk[i]
          /\ \A j \in 1..Len(rest) : buffer[Len(chunk) + j] = rest[j]
      BY <3>3, Joined
    <3>5. Len(buffer) = e - q
      BY <2>5, <2>9, <2>10, <3>1, <3>2, <3>4
    <3>6. ASSUME NEW i \in 1..Len(buffer) PROVE buffer[i] = text[q + i]
      <4>1. Len(rest) \in Nat /\ i \in Nat /\ i >= 1 /\ i <= Len(chunk) + Len(rest)
        BY <2>10, <3>1, <3>2, <3>4
      <4>2. CASE i <= Len(chunk)
        <5>1. i \in 1..Len(chunk)
          BY <2>10, <4>1, <4>2
        <5> QED
          BY <3>3, <3>4, <5>1
      <4>3. CASE ~(i <= Len(chunk))
        <5>1. PICK j : j = i - Len(chunk)
          OBVIOUS
        <5>2. j \in 1..Len(rest) /\ Len(chunk) + j = i /\ p + j = q + i
          BY <2>5, <2>10, <4>1, <4>3, <5>1
        <5>3. buffer[Len(chunk) + j] = rest[j] /\ rest[j] = text[p + j]
          BY <3>1, <3>2, <3>4, <5>2
        <5> QED
          BY <5>2, <5>3
      <4> QED
        BY <4>2, <4>3
    <3> QED
      BY <2>9, <2>10, <3>4, <3>5, <3>6 DEF Segment
  <2>13. PICK b \in 1..c + 1 : LineAt(off, c, b, q)
    BY <2>10, LineFound
  <2>14. b <= a /\ b \in 1..c
    <3>1. p \in Nat /\ LineAt(off, c, a, p) /\ q \in Nat /\ LineAt(off, c, b, q)
      BY <2>5, <2>7, <2>10, <2>13
    <3>2. q <= p /\ q < off[c + 1]
      BY <2>2, <2>10
    <3> QED
      BY <3>1, <3>2, LineIsOne
  <2>15. /\ PartsOf(parts, off, c, q, b, e, a)
         /\ parts \in PartLists /\ Len(parts) = a - b + 1
    <3>1. parts = Split(buffer)
      BY <2>3 DEF BackOneChunk
    <3>2. PartsOf(Split(buffer), off, c, q, b, e, a)
      BY <2>9, <2>12, <2>13, SplitSegment
    <3> QED
      BY <3>1, <3>2 DEF PartsOf
  <2>16. off[b] < q => b \in lost
    <3>1. SUFFICES ASSUME off[b] < q PROVE b \in lost
      OBVIOUS
    <3>2. off[b] \in Nat /\ b + 1 \in 1..c + 1 /\ off[b + 1] \in Nat /\ q < off[b + 1]
      BY <2>2, <2>13, <2>14 DEF LineAt
    <3>3. q \in off[b] + 1..off[b + 1] - 1 /\ (Len(text) - q) % d = 0
      BY <2>10, <2>11, <3>1, <3>2
    <3> QED
      BY <2>6, <2>14, <3>3 DEF Cuts
  <2>17. Collected(t.lines, off, c, max, lost, b)
    <3>1. PICK front : front = Front(parts)
      OBVIOUS
    <3>2. /\ front \in Seq(Seq(Nat)) /\ Len(front) = a - b
          /\ \A k \in 1..a - b : front[k] = parts[k]
      <4>1. Len(parts) - 1 = a - b
        BY <2>9, <2>14, <2>15
      <4>2. /\ front \in Seq(Seq(Nat)) /\ Len(front) = Len(parts) - 1
            /\ \A k \in 1..Len(parts) - 1 : front[k] = parts[k]
        BY <2>15, <3>1, FrontParts
      <4> QED
        BY <4>1, <4>2, Zenon
    <3>3. ASSUME NEW k \in 1..Len(front) PROVE Whole(front[k], off, c, lost, b + k - 1)
      <4>1. k \in 1..a - b
        BY <3>2
      <4>2. k \in 1..Len(parts) /\ k # Len(parts) /\ b + k - 1 <= c
        BY <2>9, <2>14, <2>15, <4>1, <2>2
      <4>3. Whole(parts[k], off, c, lost, b + k - 1)
        BY <2>10, <2>13, <2>15, <2>16, <4>2, PartIsWhole
      <4> QED
        BY <3>2, <4>1, <4>3
    <3>4. PICK pieces : pieces = s.lines
      OBVIOUS
    <3>5. /\ b \in Nat \ {0} /\ b + Len(front) = a /\ b + Len(front) <= c + 2
          /\ Collected(pieces, off, c, max, lost, b + Len(front))
      <4>1. a \in 1..c + 1 /\ b \in 1..c /\ Len(front) = a - b /\ c \in Nat
        BY <2>2, <2>9, <2>14, <3>2
      <4>2. b \in Nat \ {0} /\ b + Len(front) = a /\ a <= c + 2
        BY <4>1
      <4>3. Collected(pieces, off, c, max, lost, a)
        BY <2>7, <3>4
      <4> QED
        BY <4>2, <4>3
    <3>6. Collected(TakeAll(front, pieces, max), off, c, max, lost, b)
      BY <3>2, <3>3, <3>5, TakeAllKeeps
    <3> QED
      BY <2>3, <3>1, <3>4, <3>6 DEF BackOneChunk
  <2>18. Segment(t.buffer, text, q, EndOf(off, c, b))
    <3>1. PICK part : part = parts[1]
      OBVIOUS
    <3>2. 1 \in 1..Len(parts) /\ b + 1 - 1 = b /\ (1 = Len(parts) => a = b)
      BY <2>2, <2>9, <2>14, <2>15
    <3>3. /\ part \in Seq({b}) /\ part \in Seq(Nat)
          /\ Len(part) = (IF 1 = Len(parts) THEN e ELSE EndOf(off, c, b)) - q
      <4>1. part \in Seq({b})
        BY <2>15, <3>1, <3>2 DEF PartsOf
      <4>2. Len(part) = (IF 1 = Len(parts) THEN e ELSE EndOf(off, c, b)) - q
        BY <2>15, <3>1, <3>2 DEF PartsOf
      <4> QED
        BY <2>15, <3>1, <4>1, <4>2, FrontParts
    <3>4. Len(part) = EndOf(off, c, b) - q
      <4>1. (IF 1 = Len(parts) THEN e ELSE EndOf(off, c, b)) = EndOf(off, c, b)
        BY <2>8, <3>2, Zenon
      <4> QED
        BY <3>3, <4>1, Zenon
    <3>5. EndOf(off, c, b) \in Nat /\ EndOf(off, c, b) <= Len(text)
              /\ q <= EndOf(off, c, b)
      BY <2>10, <2>13, LineEnds
    <3>6. EndOf(off, c, b) =
              off[b + 1] - 1 /\ off[b] <= q /\ off[b] \in Nat /\ off[b + 1] \in Nat
      <4>1. b \in 1..c + 1 /\ b + 1 \in 1..c + 1
        BY <2>2, <2>14
      <4> QED
        BY <2>2, <2>13, <2>14, <4>1 DEF EndOf, LineAt
    <3>7. ASSUME NEW i \in 1..Len(part) PROVE part[i] = text[q + i]
      <4>1. part[i] = b
        BY <3>3
      <4>2. q + i \in off[b] + 1..off[b + 1] - 1
        <5>1. Len(part) = (off[b + 1] - 1) - q /\ i \in 1..Len(part)
          BY <3>4, <3>6
        <5>2. i \in 1..(off[b + 1] - 1) - q
          BY <5>1
        <5>3. PICK y, z : y = off[b] /\ z = off[b + 1]
          OBVIOUS
        <5>4. y \in Nat /\ z \in Nat /\ y <= q /\ q \in Nat /\ i \in 1..(z - 1) - q
          BY <2>10, <3>6, <5>2, <5>3
        <5>5. q + i \in y + 1..z - 1
          BY <5>4
        <5> QED
          BY <5>3, <5>5
      <4>3. text[q + i] = b
        BY <2>14, <4>2 DEF Laid
      <4> QED
        BY <4>1, <4>3
    <3>8. Segment(part, text, q, EndOf(off, c, b))
      BY <2>10, <3>3, <3>4, <3>5, <3>7 DEF Segment
    <3> QED
      BY <2>3, <3>1, <3>8 DEF BackOneChunk
  <2>19. t \in Readings(text) /\ t.position = q
    BY <2>3 DEF BackOneChunk
  <2>20. Reading(t, text, off, c, max, d)
    BY <2>6, <2>11, <2>13, <2>17, <2>18, <2>19 DEF Reading
  <2> QED
    BY <2>1, <2>4, <2>10, <2>19, <2>20
<1> QED
  BY <1>1, <1>2

\* What a large file gives.
LEMMA BackwardCollects ==
    ASSUME NEW text, NEW off, NEW c, Laid(text, off, c), NEW max \in Nat,
               NEW d \in Nat \ {0}
    PROVE  Collected(ReadLinesBackward(text, max, d), off, c, max, Cuts(text, off, c,
               d), 1)
<1>1. /\ text \in Seq(Nat) /\ Len(text) \in Nat /\ c \in Nat
      /\ off \in [1..c + 1 -> Nat] /\ off[1] = 0 /\ off[c + 1] = Len(text)
  BY DEF Laid
<1>2. PICK g : ReadBy(g, text, max, d)
  BY <1>1, ReadSteps
<1>3. PICK n : n = Len(text) + 1
  OBVIOUS
<1>4. /\ n \in Nat \ {0} /\ n - 1 = Len(text)
      /\ g[1] = [position |-> Len(text), lines |-> <<>>, buffer |-> <<>>]
      /\ \A k \in 2..n : g[k] = ReadBackward(text, g[k - 1], max, d)
      /\ ReadLinesBackward(text, max, d) = g[n].lines
  BY <1>1, <1>2, <1>3 DEF ReadBy
<1> DEFINE Ends(s) == s.position = 0 \/ Len(s.lines) >= max
           P(k) == Reading(g[k], text, off, c, max, d)
               /\ (Ends(g[k]) \/ g[k].position + k <= n)
<1>5. PICK bad : bad = {k \in 1..n : ~P(k)}
  OBVIOUS
<1>6. bad = {}
  <2>1. SUFFICES ASSUME bad # {} PROVE FALSE
    OBVIOUS
  <2>2. PICK k \in bad : \A j \in bad : k <= j
    <3>1. bad \in SUBSET Nat
      BY <1>4, <1>5
    <3> QED
      BY <2>1, <3>1, Least
  <2>3. k \in 1..n /\ ~P(k)
    BY <1>5
  <2>4. P(1)
    <3>1. PICK s : s = g[1]
      OBVIOUS
    <3>2. /\ s.position = Len(text) /\ s.lines = <<>> /\ s.buffer = <<>>
          /\ s \in Readings(text)
      BY <1>1, <1>4, <3>1 DEF Readings
    <3>3. (Len(text) - Len(text)) % d = 0
      <4>1. Len(text) - Len(text) = 0 /\ 0 % d = 0
        BY <1>1
      <4> QED
        BY <4>1
    <3>4. PICK a : a = c + 1
      OBVIOUS
    <3>5. LineAt(off, c, a, Len(text)) /\ EndOf(off, c, a) = Len(text)
      BY <1>1, <3>4 DEF LineAt, EndOf
    <3>6. Segment(<<>>, text, Len(text), Len(text))
      BY <1>1 DEF Segment
    <3>7. Collected(<<>>, off, c, max, Cuts(text, off, c, d), a)
      <4>1. PICK none : none = <<>>
        OBVIOUS
      <4>2. none \in Seq(Seq(Nat)) /\ Len(none) = 0
        BY <4>1
      <4>3. Ordered(none, c, a)
        BY <4>2 DEF Ordered
      <4>4. \A m : m \notin a..c
        BY <1>1, <3>4
      <4>5. Collected(none, off, c, max, Cuts(text, off, c, d), a)
        BY <4>2, <4>3, <4>4 DEF Collected
      <4> QED
        BY <4>1, <4>5
    <3>8. Reading(s, text, off, c, max, d)
      BY <3>2, <3>3, <3>5, <3>6, <3>7 DEF Reading
    <3>9. s.position + 1 <= n
      BY <1>3, <3>2
    <3> QED
      BY <3>1, <3>8, <3>9
  <2>5. k # 1
    <3> HIDE DEF P
    <3> QED
      BY <2>3, <2>4
  <2>6. PICK j : j = k - 1
    OBVIOUS
  <2>7. k \in 2..n /\ j \in 1..n /\ k = j + 1 /\ ~(k <= j) /\ k - 1 = j
    BY <1>4, <2>3, <2>5, <2>6
  <2>8. P(j)
    <3> HIDE DEF P
    <3> QED
      BY <1>5, <2>2, <2>7
  <2>9. PICK s : s = g[j]
    OBVIOUS
  <2>10. PICK t : t = ReadBackward(text, s, max, d)
    OBVIOUS
  <2>11. g[k] = t
    BY <1>4, <2>7, <2>9, <2>10
  <2>12. Reading(s, text, off, c, max, d) /\ (Ends(s) \/ s.position + j <= n)
    BY <2>8, <2>9
  <2>13. /\ Reading(t, text, off, c, max, d)
         /\ s.position = 0 \/ Len(s.lines) >= max \/ t.position < s.position
    BY <2>10, <2>12, ReadKeeps
  <2>14. Ends(t) \/ t.position + k <= n
    <3>1. CASE Ends(s)
      <4>1. t = s
        BY <2>10, <3>1 DEF ReadBackward
      <4> QED
        BY <3>1, <4>1
    <3>2. CASE ~Ends(s)
      <4>1. s.position \in Nat /\ t.position \in Nat
        BY <1>1, <2>12, <2>13 DEF Reading, Readings
      <4>2. t.position < s.position /\ s.position + j <= n
        BY <2>12, <2>13, <3>2
      <4>3. PICK x, y : x = s.position /\ y = t.position
        OBVIOUS
      <4>4. x \in Nat /\ y \in Nat /\ y < x /\ x + j <= n
        BY <4>1, <4>2, <4>3
      <4>5. y + k <= n
        BY <1>4, <2>7, <4>4
      <4> QED
        BY <4>3, <4>5
    <3> QED
      BY <3>1, <3>2
  <2> HIDE DEF Ends
  <2> QED
    BY <2>3, <2>11, <2>13, <2>14
<1>7. P(n)
  <2>1. n \in 1..n
    BY <1>4
  <2> HIDE DEF P
  <2> QED
    BY <1>5, <1>6, <2>1
<1>8. PICK s : s = g[n]
  OBVIOUS
<1>9. s \in Readings(text) /\ s.position \in Nat /\ Ends(s)
  <2>1. s \in Readings(text) /\ s.position \in Nat
    BY <1>1, <1>7, <1>8 DEF Reading, Readings
  <2>2. Ends(s) \/ s.position + n <= n
    BY <1>7, <1>8
  <2>3. PICK x : x = s.position
    OBVIOUS
  <2>4. x + n <= n => x = 0
    BY <1>4, <2>1, <2>3
  <2> QED
    BY <2>1, <2>2, <2>3, <2>4
<1>10. PICK lost : lost = Cuts(text, off, c, d)
  OBVIOUS
<1>11. PICK a : LineAt(off, c, a, s.position) /\ Collected(s.lines, off, c, max, lost, a)
  BY <1>7, <1>8, <1>10 DEF Reading
<1>12. PICK pieces : pieces = s.lines
  OBVIOUS
<1>13. a \in 1..c + 1 /\ a \in Nat \ {0}
  BY <1>1, <1>9, <1>11 DEF LineAt
<1>14. CASE s.position = 0
  <2>1. LineAt(off, c, 1, 0)
    <3>1. c = 0 \/ (1 \in 1..c /\ 1 + 1 \in 1..c + 1)
      BY <1>1
    <3>2. 1 \in 1..c => off[1] + 1 < off[1 + 1]
      BY DEF Laid
    <3> QED
      BY <1>1, <3>1, <3>2 DEF LineAt
  <2>2. LineAt(off, c, a, 0) /\ 0 \in Nat /\ 0 <= 0
    BY <1>11, <1>14
  <2>3. a = 1
    BY <2>1, <2>2, LineIsOne
  <2> QED
    BY <1>4, <1>8, <1>10, <1>11, <2>3
<1>15. CASE Len(s.lines) >= max
  <2>1. /\ pieces \in Seq(Seq(Nat)) /\ Len(pieces) \in Nat /\ Len(pieces) <= max
               /\ Len(pieces) >= max
        /\ \A i \in 1..Len(pieces) : pieces[i] # <<>> /\ pieces[i][1] \in a..c
        /\ \A i, j \in 1..Len(pieces) : i < j => pieces[i][1] < pieces[j][1]
        /\ Ordered(pieces, c, a)
        /\ \A m \in a..c : m + max > c => m \in lost \/ Found(pieces, off, m)
    BY <1>11, <1>12, <1>15 DEF Collected, Ordered
  <2>2. \A x \in a..c : x \in 1..c
    BY <1>1, <1>13
  <2>3. Ordered(pieces, c, 1)
    <3>1. \A i \in 1..Len(pieces) : pieces[i] # <<>> /\ pieces[i][1] \in 1..c
      BY <2>1, <2>2, Zenon
    <3> QED
      BY <2>1, <3>1 DEF Ordered
  <2>4. ASSUME NEW m \in 1..c, m + max > c PROVE m \in lost \/ Found(pieces, off, m)
    <3>1. Len(pieces) = max
      BY <2>1
    <3>2. max > 0
      BY <1>1, <2>4
    <3>3. a + max <= c + 1
      BY <1>1, <1>13, <2>1, <3>1, <3>2, Counts
    <3>4. m \in a..c
      BY <1>1, <1>13, <2>4, <3>3
    <3> QED
      BY <2>1, <2>4, <3>4
  <2>5. Collected(pieces, off, c, max, lost, 1)
    BY <2>1, <2>3, <2>4 DEF Collected
  <2> QED
    BY <1>4, <1>8, <1>10, <1>12, <2>5
<1> QED
  BY <1>9, <1>14, <1>15

\* What a small file gives.
LEMMA AllCollected ==
    ASSUME NEW text, NEW off, NEW c, Laid(text, off, c), NEW max \in Nat
    PROVE  Collected(TakeAll(Split(text), <<>>, max), off, c, max, {}, 1)
<1>1. /\ text \in Seq(Nat) /\ Len(text) \in Nat /\ c \in Nat
      /\ off \in [1..c + 1 -> Nat] /\ off[1] = 0 /\ off[c + 1] = Len(text)
  BY DEF Laid
<1>2. PICK parts : parts = Split(text)
  OBVIOUS
<1>3. PartsOf(parts, off, c, 0, 1, Len(text), c + 1)
  <2>1. Segment(text, text, 0, Len(text))
    BY <1>1 DEF Segment
  <2>2. LineAt(off, c, 1, 0)
    <3>1. c = 0 \/ (1 \in 1..c /\ 1 + 1 \in 1..c + 1)
      BY <1>1
    <3>2. 1 \in 1..c => off[1] + 1 < off[1 + 1]
      BY DEF Laid
    <3> QED
      BY <1>1, <3>1, <3>2 DEF LineAt
  <2>3. LineAt(off, c, c + 1, Len(text))
    BY <1>1 DEF LineAt
  <2> QED
    BY <1>2, <2>1, <2>2, <2>3, SplitSegment
<1>4. parts \in PartLists /\ parts \in Seq(Seq(Nat)) /\ Len(parts) = c + 1
  <2>1. parts \in PartLists /\ Len(parts) = (c + 1) - 1 + 1
    BY <1>3 DEF PartsOf
  <2> QED
    BY <1>1, <2>1 DEF PartLists
<1>5. LineAt(off, c, 1, 0)
  <2>1. c = 0 \/ (1 \in 1..c /\ 1 + 1 \in 1..c + 1)
    BY <1>1
  <2>2. 1 \in 1..c => off[1] + 1 < off[1 + 1]
    BY DEF Laid
  <2> QED
    BY <1>1, <2>1, <2>2 DEF LineAt
<1>6. ASSUME NEW k \in 1..Len(parts) PROVE Whole(parts[k], off, c, {}, 1 + k - 1)
  <2>1. k \in 1..c + 1 /\ 1 + k - 1 = k
    BY <1>1, <1>4
  <2>2. CASE k <= c
    <3>1. k # Len(parts) /\ 1 + k - 1 <= c
      BY <1>1, <1>4, <2>1, <2>2
    <3>2. ~(off[1] < 0) /\ 0 \in Nat
      BY <1>1
    <3> QED
      BY <1>3, <1>5, <3>1, <3>2, PartIsWhole
  <2>3. CASE ~(k <= c)
    <3>1. k = c + 1 /\ k = Len(parts)
      BY <1>1, <1>4, <2>1, <2>3
    <3>2. PICK part : part = parts[k]
      OBVIOUS
    <3>3. part \in Seq(Nat)
      BY <1>4, <3>2
    <3>4. Len(part) = Len(text) - (IF k = 1 THEN 0 ELSE off[k])
      <4>1. Len(parts[k]) = (IF k = Len(parts) THEN Len(text)
                ELSE EndOf(off, c, 1 + k - 1))
                            - (IF k = 1 THEN 0 ELSE off[1 + k - 1])
        BY <1>3 DEF PartsOf
      <4> QED
        BY <2>1, <3>1, <3>2, <4>1, Zenon
    <3>5. (IF k = 1 THEN 0 ELSE off[k]) = Len(text)
      BY <1>1, <3>1
    <3>6. Len(part) = 0
      <4>1. Len(part) = Len(text) - Len(text)
        BY <3>4, <3>5, Zenon
      <4> QED
        BY <1>1, <4>1
    <3>7. part = <<>>
      BY <3>3, <3>6
    <3> QED
      BY <2>1, <2>3, <3>2, <3>7 DEF Whole
  <2> QED
    BY <2>2, <2>3
<1>7. PICK none : none = <<>>
  OBVIOUS
<1>8. Collected(none, off, c, max, {}, c + 2)
  <2>1. none \in Seq(Seq(Nat)) /\ Len(none) = 0
    BY <1>7
  <2>2. Ordered(none, c, c + 2)
    BY <2>1 DEF Ordered
  <2>3. \A m : m \notin c + 2..c
    BY <1>1
  <2> QED
    BY <2>1, <2>2, <2>3 DEF Collected
<1>9. /\ 1 \in Nat \ {0} /\ 1 + Len(parts) = c + 2 /\ 1 + Len(parts) <= c + 2
      /\ Collected(none, off, c, max, {}, 1 + Len(parts))
  <2>1. 1 + Len(parts) = c + 2 /\ c + 2 <= c + 2
    BY <1>1, <1>4
  <2> QED
    BY <1>8, <2>1
<1>10. Collected(TakeAll(parts, none, max), off, c, max, {}, 1)
  BY <1>4, <1>6, <1>9, TakeAllKeeps
<1> QED
  BY <1>2, <1>7, <1>10

\* How ParseLogLines computes.
ParsedBy(g, log, parts, wanted) ==
    /\ g \in [1..Len(parts) + 1 -> Seq(Nat)]
    /\ g[1] = <<>>
    /\ \A k \in 2..Len(parts) + 1 : g[k] = Parse(log, g[k - 1], parts[k - 1], wanted)
    /\ ParseLogLines(log, parts, wanted) = g[Len(parts) + 1]

LEMMA ParseSteps ==
    ASSUME NEW log, NEW wanted, NEW parts \in Seq(Seq(Nat)), \A k \in 1..Len(parts) :
               parts[k] # <<>>
    PROVE  \E g : ParsedBy(g, log, parts, wanted)
<1>1. PICK n : n = Len(parts) + 1
  OBVIOUS
<1>2. n \in Nat \ {0} /\ \A k \in 2..n :
          k - 1 \in 1..Len(parts) /\ k - 1 \in 1..n /\ k - 1 \in Nat
  BY <1>1
<1>3. PICK first : first = <<>>
  OBVIOUS
<1>4. first \in Seq(Nat)
  BY <1>3
<1>5. PICK step : step = [k \in Nat |-> [x \in Seq(Nat) |->
                IF k \in 1..Len(parts) THEN Parse(log, x, parts[k], wanted) ELSE x]]
  OBVIOUS
<1>6. step \in [Nat -> [Seq(Nat) -> Seq(Nat)]]
  <2>1. \A k \in 1..Len(parts) : \A x \in Seq(Nat) :
            Parse(log, x, parts[k], wanted) \in Seq(Nat)
    BY DEF Parse
  <2> QED
    BY <1>5, <2>1
<1>7. PICK g \in [1..n -> Seq(Nat)] : Repeats(g, n, first, step)
  BY <1>2, <1>4, <1>6, Iterates
<1>8. \A k \in 2..n : \A x \in Seq(Nat) : step[k - 1][x] =
          Parse(log, x, parts[k - 1], wanted)
  BY <1>2, <1>5
<1>9. g[1] = first /\ \A k \in 2..n : g[k] = Parse(log, g[k - 1], parts[k - 1], wanted)
  <2>1. \A k \in 2..n : g[k - 1] \in Seq(Nat)
    BY <1>2, <1>7
  <2> QED
    BY <1>7, <1>8, <2>1 DEF Repeats
<1> DEFINE Is(h) == h = [k \in 1..n |->
              IF k = 1 THEN first ELSE Parse(log, h[k - 1], parts[k - 1], wanted)]
<1>10. Is(g)
  <2>1. \A k \in 1..n : k = 1 \/ k \in 2..n
    BY <1>2
  <2> QED
    BY <1>7, <1>9, <2>1
<1>11. ASSUME NEW h, Is(h) PROVE h = g
  <2>1. h = [k \in 1..n |-> h[k]]
    BY <1>11
  <2>2. 1 \in 1..n /\ \A k \in 2..n : k \in 1..n /\ k # 1
    BY <1>2
  <2>3. \A k \in 1..n : h[k] = IF k = 1 THEN first
            ELSE Parse(log, h[k - 1], parts[k - 1], wanted)
    BY <1>11, Zenon
  <2>4. h[1] = first /\ \A k \in 2..n : h[k] = Parse(log, h[k - 1], parts[k - 1], wanted)
    BY <2>2, <2>3
  <2>5. Follows(h, Seq(Nat), n, first, step)
    BY <1>8, <2>1, <2>4 DEF Follows
  <2> HIDE DEF Is
  <2> QED
    BY <1>2, <1>4, <1>6, <1>7, <2>5, OnlyChain
<1>12. ParseLogLines(log, parts, wanted) = (CHOOSE h : Is(h))[n]
  BY <1>1, <1>3 DEF ParseLogLines
<1>13. (CHOOSE h : Is(h)) = g
  <2> HIDE DEF Is
  <2> QED
    BY <1>10, <1>11, Zenon
<1>14. ParsedBy(g, log, parts, wanted)
  BY <1>1, <1>3, <1>7, <1>9, <1>12, <1>13 DEF ParsedBy
<1> QED
  BY <1>14

-----------------------------------------------------------------------------
(***************************************************************************)
(* The entries found in the lines.                                         *)
(***************************************************************************)

\* What is found in the first n parts.
Parsed(found, log, parts, wanted, n) ==
    /\ found \in Seq(Nat)
    /\ \A i, j \in 1..Len(found) : i < j => found[i] < found[j]
    /\ \A i \in 1..Len(found) : \E k \in 1..n : found[i] = parts[k][1]
    /\ \A i \in 1..Len(found) : log[found[i]].type \in wanted
    /\ \A k \in 1..n : Entry(log, parts[k]) /\ log[parts[k][1]].type \in wanted =>
           \E i \in 1..Len(found) : found[i] = parts[k][1]

\* A part more.
LEMMA ParseKeeps ==
    ASSUME NEW c, NEW parts, Ordered(parts, c, 1), NEW log, NEW wanted,
           NEW n \in Nat, n + 1 \in 1..Len(parts),
           NEW found, Parsed(found, log, parts, wanted, n)
    PROVE  Parsed(Parse(log, found, parts[n + 1], wanted), log, parts, wanted, n + 1)
<1>1. /\ found \in Seq(Nat) /\ Len(found) \in Nat
      /\ \A i, j \in 1..Len(found) : i < j => found[i] < found[j]
      /\ \A i \in 1..Len(found) : \E k \in 1..n : found[i] = parts[k][1]
      /\ \A i \in 1..Len(found) : log[found[i]].type \in wanted
      /\ \A k \in 1..n : Entry(log, parts[k]) /\ log[parts[k][1]].type \in wanted =>
             \E i \in 1..Len(found) : found[i] = parts[k][1]
  BY DEF Parsed
<1>2. PICK part : part = parts[n + 1]
  OBVIOUS
<1>3. PICK x : x = part[1]
  OBVIOUS
<1>4. /\ parts \in Seq(Seq(Nat)) /\ Len(parts) \in Nat
      /\ \A i \in 1..Len(parts) : parts[i] # <<>>
      /\ \A i, j \in 1..Len(parts) : i < j => parts[i][1] < parts[j][1]
  BY DEF Ordered
<1>5. x \in Nat
  <2>1. part \in Seq(Nat) /\ part # <<>>
    BY <1>2, <1>4
  <2>2. 1 \in 1..Len(part)
    BY <2>1
  <2> QED
    BY <1>3, <2>1, <2>2
<1>6. \A k \in 1..n : k \in 1..Len(parts) /\ parts[k][1] < x /\ k \in 1..n + 1
  <2>1. ASSUME NEW k \in 1..n PROVE k \in 1..Len(parts) /\ k < n + 1 /\ k \in 1..n + 1
    BY <1>4
  <2> QED
    BY <1>2, <1>3, <1>4, <2>1
<1>7. \A k \in 1..n + 1 : k \in 1..n \/ k = n + 1
  OBVIOUS
<1>8. n + 1 \in 1..n + 1
  OBVIOUS
<1>9. CASE Entry(log, part) /\ log[x].type \in wanted
  <2>1. PICK new : new = Append(found, x)
    OBVIOUS
  <2>2. Parse(log, found, part, wanted) = new
    BY <1>3, <1>9, <2>1 DEF Parse
  <2>3. PICK len : len = Len(found)
    OBVIOUS
  <2>4. /\ new \in Seq(Nat) /\ Len(new) = len + 1 /\ new[len + 1] = x
        /\ \A i \in 1..len : new[i] = found[i]
    BY <1>1, <1>5, <2>1, <2>3, Appended
  <2>5. len \in Nat /\ \A i \in 1..len + 1 : i \in 1..len \/ i = len + 1
    BY <1>1, <2>3
  <2>6. ASSUME NEW i \in 1..Len(new), NEW j \in 1..Len(new), i < j PROVE new[i] < new[j]
    <3>1. i \in 1..len
      BY <2>4, <2>5, <2>6
    <3>2. CASE j \in 1..len
      BY <1>1, <2>3, <2>4, <2>6, <3>1, <3>2
    <3>3. CASE j = len + 1
      <4>1. PICK k \in 1..n : found[i] = parts[k][1]
        BY <1>1, <2>3, <3>1
      <4> QED
        BY <1>6, <2>4, <3>1, <3>3, <4>1
    <3> QED
      BY <2>4, <2>5, <3>2, <3>3
  <2>7. ASSUME NEW i \in 1..Len(new) PROVE \E k \in 1..n + 1 : new[i] = parts[k][1]
    <3>1. CASE i \in 1..len
      <4>1. PICK k \in 1..n : found[i] = parts[k][1]
        BY <1>1, <2>3, <3>1
      <4>2. k \in 1..n + 1 /\ new[i] = found[i]
        BY <1>6, <2>4, <3>1
      <4> QED
        BY <4>1, <4>2
    <3>2. CASE i = len + 1
      BY <1>2, <1>3, <1>8, <2>4, <3>2
    <3> QED
      BY <2>4, <2>5, <3>1, <3>2
  <2>8. ASSUME NEW i \in 1..Len(new) PROVE log[new[i]].type \in wanted
    <3>1. CASE i \in 1..len
      BY <1>1, <2>3, <2>4, <3>1
    <3>2. CASE i = len + 1
      BY <1>9, <2>4, <3>2
    <3> QED
      BY <2>4, <2>5, <3>1, <3>2
  <2>9. ASSUME NEW k \in 1..n + 1, Entry(log, parts[k]), log[parts[k][1]].type \in wanted
        PROVE  \E i \in 1..Len(new) : new[i] = parts[k][1]
    <3>1. CASE k \in 1..n
      <4>1. PICK i \in 1..Len(found) : found[i] = parts[k][1]
        BY <1>1, <2>9, <3>1
      <4>2. i \in 1..len /\ i \in 1..Len(new)
        BY <2>3, <2>4, <2>5
      <4> QED
        BY <2>4, <4>1, <4>2
    <3>2. CASE k = n + 1
      <4>1. len + 1 \in 1..Len(new)
        BY <2>4, <2>5
      <4> QED
        BY <1>2, <1>3, <2>4, <3>2, <4>1
    <3> QED
      BY <1>7, <3>1, <3>2
  <2>10. Parsed(new, log, parts, wanted, n + 1)
    BY <2>4, <2>6, <2>7, <2>8, <2>9 DEF Parsed
  <2> QED
    BY <1>2, <2>2, <2>10
<1>10. CASE ~(Entry(log, part) /\ log[x].type \in wanted)
  <2>1. Parse(log, found, part, wanted) = found
    BY <1>3, <1>10 DEF Parse
  <2>2. \A k \in 1..n + 1 : Entry(log, parts[k]) /\ log[parts[k][1]].type \in wanted =>
             \E i \in 1..Len(found) : found[i] = parts[k][1]
    BY <1>1, <1>2, <1>3, <1>7, <1>10
  <2>3. \A i \in 1..Len(found) : \E k \in 1..n + 1 : found[i] = parts[k][1]
    BY <1>1, <1>6
  <2>4. Parsed(found, log, parts, wanted, n + 1)
    BY <1>1, <2>2, <2>3 DEF Parsed
  <2> QED
    BY <1>2, <2>1, <2>4
<1> QED
  BY <1>9, <1>10

\* All the parts.
LEMMA ParsesAll ==
    ASSUME NEW c, NEW parts, Ordered(parts, c, 1), NEW log, NEW wanted
    PROVE  Parsed(ParseLogLines(log, parts, wanted), log, parts, wanted, Len(parts))
<1>1. /\ parts \in Seq(Seq(Nat)) /\ Len(parts) \in Nat
      /\ \A i \in 1..Len(parts) : parts[i] # <<>>
  BY DEF Ordered
<1>2. PICK g : ParsedBy(g, log, parts, wanted)
  BY <1>1, ParseSteps
<1>3. PICK n : n = Len(parts) + 1
  OBVIOUS
<1>4. /\ n \in Nat \ {0} /\ n - 1 = Len(parts) /\ g[1] = <<>>
      /\ \A k \in 2..n : g[k] = Parse(log, g[k - 1], parts[k - 1], wanted)
      /\ ParseLogLines(log, parts, wanted) = g[n]
  BY <1>1, <1>2, <1>3 DEF ParsedBy
<1> DEFINE P(k) == Parsed(g[k], log, parts, wanted, k - 1)
<1>5. PICK bad : bad = {k \in 1..n : ~P(k)}
  OBVIOUS
<1>6. bad = {}
  <2>1. SUFFICES ASSUME bad # {} PROVE FALSE
    OBVIOUS
  <2>2. PICK k \in bad : \A j \in bad : k <= j
    <3>1. bad \in SUBSET Nat
      BY <1>4, <1>5
    <3> QED
      BY <2>1, <3>1, Least
  <2>3. k \in 1..n /\ ~P(k)
    BY <1>5
  <2>4. P(1)
    <3>1. PICK none : none = g[1]
      OBVIOUS
    <3>2. none \in Seq(Nat) /\ Len(none) = 0 /\ 1 - 1 = 0
      BY <1>4, <3>1
    <3>3. Parsed(none, log, parts, wanted, 0)
      BY <3>2 DEF Parsed
    <3> QED
      BY <3>1, <3>2, <3>3
  <2>5. k # 1
    <3> HIDE DEF P
    <3> QED
      BY <2>3, <2>4
  <2>6. PICK m : m = k - 2
    OBVIOUS
  <2>7. /\ m \in Nat /\ m + 1 \in 1..Len(parts) /\ k - 1 = m + 1 /\ k \in 2..n
        /\ k - 1 \in 1..n /\ ~(k <= k - 1) /\ (k - 1) - 1 = m
    BY <1>1, <1>4, <2>3, <2>5, <2>6
  <2>8. P(k - 1)
    <3> HIDE DEF P
    <3> QED
      BY <1>5, <2>2, <2>7
  <2>9. PICK found : found = g[k - 1]
    OBVIOUS
  <2>10. Parsed(found, log, parts, wanted, m)
    BY <2>7, <2>8, <2>9
  <2>11. Parsed(Parse(log, found, parts[m + 1], wanted), log, parts, wanted, m + 1)
    BY <2>7, <2>10, ParseKeeps
  <2>12. g[k] = Parse(log, found, parts[m + 1], wanted)
    <3>1. g[k] = Parse(log, g[k - 1], parts[k - 1], wanted)
      BY <1>4, <2>7
    <3> QED
      BY <2>7, <2>9, <3>1
  <2> QED
    BY <2>3, <2>7, <2>11, <2>12
<1>7. P(n)
  <2>1. n \in 1..n
    BY <1>4
  <2> HIDE DEF P
  <2> QED
    BY <1>5, <1>6, <2>1
<1> QED
  BY <1>4, <1>7

\* What the reader of log files gives of any log, of any number and length of
\* lines, for any limit and chunk size: the entries of the last lines of the types
\* asked for, in their order, but for those that a chunk of a large file cuts in
\* two (readTailLines, parseLogLines).
THEOREM TailOfAnyLog ==
    ASSUME NEW log \in Seq([type : Types, length : Nat \ {0}]),
           NEW maxLines \in Nat \ {0}, NEW chunkSize \in Nat \ {0}, NEW wanted
    PROVE  LosesOnlyCutLines(log, maxLines, wanted, chunkSize)
<1>1. PICK c : c = Len(log)
  OBVIOUS
<1>2. c \in Nat /\ \A n \in 1..c : log[n].length \in Nat \ {0}
  <2>1. PICK Lines : Lines = [type : Types, length : Nat \ {0}]
    OBVIOUS
  <2>2. log \in Seq(Lines)
    BY <2>1
  <2>3. c \in Nat /\ \A n \in 1..c : log[n] \in Lines
    BY <1>1, <2>2
  <2> QED
    BY <2>1, <2>3
<1>3. PICK text : text = Text(log)
  OBVIOUS
<1>4. PICK off : /\ Laid(text, off, c)
                 /\ \A n \in 1..c + 1 : off[n] = Offset(log, n)
                 /\ \A n \in 1..c : off[n + 1] = off[n] + log[n].length + 1
  BY <1>1, <1>2, <1>3, LaidText DEF Offset
<1>5. SmallFile \in Nat /\ Len(text) \in Nat
  BY <1>4, ReaderAssumption DEF Laid
<1> DEFINE large == Len(text) >= SmallFile
<1>6. PICK lost : lost = IF large THEN Cuts(text, off, c, chunkSize) ELSE {}
  OBVIOUS
<1>7. PICK parts : parts = ReadTailLines(text, maxLines, chunkSize)
  OBVIOUS
<1>8. Collected(parts, off, c, maxLines, lost, 1)
  <2>1. CASE large
    <3>1. parts = ReadLinesBackward(text, maxLines, chunkSize)
      <4>1. ~(Len(text) < SmallFile)
        BY <1>5, <2>1
      <4> QED
        BY <1>7, <4>1 DEF ReadTailLines
    <3> QED
      BY <1>4, <1>6, <2>1, <3>1, BackwardCollects
  <2>2. CASE ~large
    <3>1. parts = TakeAll(Split(text), <<>>, maxLines)
      <4>1. Len(text) < SmallFile
        BY <1>5, <2>2
      <4> QED
        BY <1>7, <4>1 DEF ReadTailLines
    <3> QED
      BY <1>4, <1>6, <2>2, <3>1, AllCollected
  <2> QED
    BY <2>1, <2>2
<1>9. PICK got : got = ReadLogs(log, maxLines, wanted, chunkSize)
  OBVIOUS
<1>10. Parsed(got, log, parts, wanted, Len(parts))
  <2>1. Ordered(parts, c, 1)
    BY <1>8 DEF Collected
  <2>2. got = ParseLogLines(log, parts, wanted)
    BY <1>3, <1>7, <1>9 DEF ReadLogs
  <2> QED
    BY <2>1, <2>2, ParsesAll
<1>11. ASSUME NEW n \in 1..c, n + maxLines > c, log[n].type \in wanted
       PROVE  n \in ToSet(got) \/ (large /\ Cut(log, n, chunkSize))
  <2>1. n \in lost \/ Found(parts, off, n)
    BY <1>8, <1>11 DEF Collected
  <2>2. ASSUME n \in lost PROVE large /\ Cut(log, n, chunkSize)
    <3>1. large /\ n \in Cuts(text, off, c, chunkSize)
      BY <1>6, <2>2
    <3>2. PICK b \in off[n] + 1..off[n + 1] - 1 : (Len(text) - b) % chunkSize = 0
      BY <3>1 DEF Cuts
    <3>3. off[n + 1] - 1 = off[n] + log[n].length /\ off[n] = Offset(log, n)
      <4>1. n \in 1..c + 1 /\ off[n] \in Nat /\ log[n].length \in Nat
        BY <1>2, <1>4 DEF Laid
      <4>2. off[n + 1] = off[n] + log[n].length + 1
        BY <1>4
      <4> QED
        BY <1>4, <4>1, <4>2
    <3>4. b \in (Offset(log, n) + 1)..(Offset(log, n) + log[n].length)
      BY <3>2, <3>3, Zenon
    <3> QED
      BY <1>3, <3>1, <3>2, <3>4 DEF Cut
  <2>3. ASSUME Found(parts, off, n) PROVE n \in ToSet(got)
    <3>1. PICK k \in 1..Len(parts) :
              parts[k][1] = n /\ Len(parts[k]) = off[n + 1] - off[n] - 1
      BY <2>3 DEF Found
    <3>2. off[n + 1] - off[n] - 1 = log[n].length
      <4>1. n \in 1..c + 1 /\ off[n] \in Nat /\ log[n].length \in Nat
        BY <1>2, <1>4 DEF Laid
      <4>2. off[n + 1] = off[n] + log[n].length + 1
        BY <1>4
      <4> QED
        BY <4>1, <4>2
    <3>3. Entry(log, parts[k])
      BY <3>1, <3>2 DEF Entry
    <3>4. PICK i \in 1..Len(got) : got[i] = n
      BY <1>10, <1>11, <3>1, <3>3 DEF Parsed
    <3>5. got \in Seq(Nat)
      BY <1>10 DEF Parsed
    <3> QED
      BY <3>4, <3>5 DEF ToSet
  <2> QED
    BY <2>1, <2>2, <2>3
<1>12. /\ \A i, j \in 1..Len(got) : i < j => got[i] < got[j]
       /\ \A i \in 1..Len(got) : log[got[i]].type \in wanted
  BY <1>10 DEF Parsed
<1> QED
  BY <1>1, <1>3, <1>9, <1>11, <1>12 DEF LosesOnlyCutLines

\* It does so for the logs of the run.
LEMMA TailOfBoundedLogs == TailLosesOnlyCutLines
<1>1. SUFFICES ASSUME NEW log \in BoundedLogs, NEW maxLines \in 1..(FileLines + 1),
                      NEW chunkSize \in 1..(FileLines + 1), NEW wanted
               PROVE  LosesOnlyCutLines(log, maxLines, wanted, chunkSize)
  BY DEF TailLosesOnlyCutLines
<1>2. FileLines \in Nat /\ LineLength \in Nat
  BY ReaderAssumption
<1>3. maxLines \in Nat \ {0} /\ chunkSize \in Nat \ {0}
  BY <1>2
<1>4. log \in Seq([type : Types, length : Nat \ {0}])
  <2>1. PICK n \in 0..FileLines : log \in [1..n -> [type : Types, length : 1..LineLength]]
    BY DEF BoundedLogs
  <2>2. [type : Types, length : 1..LineLength] \subseteq [type : Types, length :
            Nat \ {0}]
    BY <1>2
  <2>3. n \in Nat
    BY <1>2
  <2>4. PICK Lines : Lines = [type : Types, length : Nat \ {0}]
    OBVIOUS
  <2>5. log \in [1..n -> Lines]
    BY <2>1, <2>2, <2>4
  <2>6. log \in Seq(Lines)
    BY <2>3, <2>5
  <2> QED
    BY <2>4, <2>6
<1> QED
  BY <1>3, <1>4, TailOfAnyLog

\* So TLC finds nothing on the logs of the run: readTailLines loses no line but
\* those that a chunk cuts in two.
THEOREM LosesOnlyCuts == Spec => []ReaderLosesOnlyCutLines
<1>1. ReaderLosesOnlyCutLines
  BY TailOfBoundedLogs DEF ReaderLosesOnlyCutLines
<1> QED
  BY <1>1, PTL
=============================================================================
