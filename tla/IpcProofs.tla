----------------------------- MODULE IpcProofs ------------------------------
(***************************************************************************)
(* What is proved of Ipc, for every number of sockets, requests and        *)
(* launches: the map of pending requests, the count of connections, and    *)
(* the promise to the caller of sendCommand(), its liveness left aside.    *)
(*                                                                         *)
(* The invariant follows a request over the wire: what travels up, and     *)
(* what the daemon handles, are requests that were sent; a success that    *)
(* travels down is of a command that was run.                              *)
(***************************************************************************)
EXTENDS Ipc, FiniteSetTheorems, WellFoundedInduction, TLAPS

(***************************************************************************)
(* Induction over a sequence, and the messages of a chunk.                 *)
(***************************************************************************)

\* A set of naturals has a least element.
LEMMA Least ==
    ASSUME NEW T \in SUBSET Nat, T # {}
    PROVE  \E x \in T : \A y \in T : x <= y
<1>1. PICK R : R = OpToRel(<, Nat)
  OBVIOUS
<1>2. \A x, y \in Nat : y < x => <<y, x>> \in R
  BY <1>1 DEF OpToRel
<1>3. IsWellFoundedOn(R, Nat)
  BY <1>1, NatLessThanWellFounded
<1>4. PICK x \in T : \A y \in T : ~(<<y, x>> \in R)
  BY <1>3, WFMin
<1>5. \A y \in T : x \in Nat /\ y \in Nat /\ ~(y < x)
  BY <1>2, <1>4
<1> QED
  BY <1>5

\* A set that holds 0 and the successor of each of its naturals holds them all.
LEMMA Inducts ==
    ASSUME NEW T, 0 \in T, \A n \in Nat : n \in T => n + 1 \in T
    PROVE  Nat \subseteq T
<1> SUFFICES ASSUME NEW m \in Nat \ T
             PROVE  FALSE
  OBVIOUS
<1>1. PICK x \in Nat \ T : \A y \in Nat \ T : x <= y
  BY Least
<1>2. x # 0 /\ x - 1 \in Nat
  BY <1>1
<1>3. x - 1 \in T
  BY <1>1, <1>2
<1> QED
  BY <1>1, <1>2, <1>3

\* The messages that end in the first i pieces, as Ended counts them.
EndedIn(pieces, f, i) ==
    IF i = 0 THEN <<>>
    ELSE IF pieces[i].part = "head" THEN f[i - 1]
    ELSE Append(f[i - 1], pieces[i].msg)

Counts(pieces, f, k) == f = [i \in 0..k |-> EndedIn(pieces, f, i)]

\* The function Ended defines exists: it is built one piece at a time.
LEMMA CountExists ==
    ASSUME NEW pieces
    PROVE  \A k \in Nat : \E f : Counts(pieces, f, k)
<1> DEFINE T == {k \in Nat : \E f : Counts(pieces, f, k)}
<1>1. 0 \in T
  <2>1. Counts(pieces, [i \in 0..0 |-> <<>>], 0)
    BY DEF Counts, EndedIn
  <2> QED
    BY <2>1
<1>2. ASSUME NEW n \in Nat, n \in T
      PROVE  n + 1 \in T
  <2>1. PICK f : Counts(pieces, f, n)
    BY <1>2
  <2> DEFINE g == [i \in 0..(n + 1) |->
                      IF i = n + 1 THEN EndedIn(pieces, f, n + 1) ELSE f[i]]
  <2>2. \A i \in 0..n : g[i] = f[i] /\ f[i] = EndedIn(pieces, f, i)
    BY <2>1 DEF Counts
  <2>3. g[n + 1] = EndedIn(pieces, f, n + 1)
    OBVIOUS
  <2>4. g = [i \in 0..(n + 1) |-> g[i]]
    OBVIOUS
  <2> HIDE DEF g
  <2>5. ASSUME NEW i \in 0..(n + 1)
        PROVE  g[i] = EndedIn(pieces, g, i)
    <3>1. EndedIn(pieces, g, i) = EndedIn(pieces, f, i)
      <4>1. i # 0 => i - 1 \in 0..n
        OBVIOUS
      <4> QED
        BY <4>1, <2>2 DEF EndedIn
    <3>2. i = n + 1 \/ i \in 0..n
      OBVIOUS
    <3> QED
      BY <3>1, <3>2, <2>2, <2>3
  <2> QED
    BY <2>4, <2>5 DEF Counts
<1>3. Nat \subseteq T
  <2> HIDE DEF T
  <2> QED
    BY <1>1, <1>2, Inducts
<1> QED
  BY <1>3

\* The messages that end in some pieces are messages of these pieces.
LEMMA EndedType ==
    ASSUME NEW M, NEW pieces \in Seq(Pieces(M))
    PROVE  Ended(pieces) \in Seq(M)
<1>1. PICK f : f = CHOOSE g : Counts(pieces, g, Len(pieces))
  OBVIOUS
<1>2. Counts(pieces, f, Len(pieces))
  BY <1>1, CountExists
<1>3. Ended(pieces) = f[Len(pieces)]
  BY <1>1 DEF Ended, Counts, EndedIn
<1>4. \A i \in 0..Len(pieces) : f[i] = EndedIn(pieces, f, i)
  BY <1>2 DEF Counts
<1> DEFINE T == {i \in Nat : i <= Len(pieces) => f[i] \in Seq(M)}
<1>8. Len(pieces) \in Nat
  OBVIOUS
<1>5. 0 \in T
  <2>1. 0 \in 0..Len(pieces)
    BY <1>8
  <2>2. f[0] = <<>>
    BY <1>4, <2>1 DEF EndedIn
  <2>3. <<>> \in Seq(M)
    OBVIOUS
  <2> QED
    BY <2>2, <2>3
<1>6. ASSUME NEW n \in Nat, n \in T
      PROVE  n + 1 \in T
  <2> SUFFICES ASSUME n + 1 <= Len(pieces)
               PROVE  f[n + 1] \in Seq(M)
    OBVIOUS
  <2>1. f[n] \in Seq(M)
    BY <1>6, <1>8
  <2>2. n + 1 \in 1..Len(pieces) /\ n + 1 \in 0..Len(pieces)
    BY <1>8
  <2>3. pieces[n + 1] \in Pieces(M)
    BY <2>2
  <2>4. pieces[n + 1].msg \in M
    BY <2>3 DEF Pieces
  <2>5. f[n + 1] = EndedIn(pieces, f, n + 1)
    BY <1>4, <2>2
  <2>6. n + 1 # 0 /\ (n + 1) - 1 = n
    OBVIOUS
  <2>7. f[n + 1] = f[n] \/ f[n + 1] = Append(f[n], pieces[n + 1].msg)
    BY <2>5, <2>6 DEF EndedIn
  <2>8. \A q \in Seq(M) : Append(q, pieces[n + 1].msg) \in Seq(M)
    BY <2>4
  <2> QED
    BY <2>1, <2>7, <2>8
<1>7. Nat \subseteq T
  <2> HIDE DEF T
  <2> QED
    BY <1>5, <1>6, Inducts
<1> QED
  BY <1>3, <1>7

\* What a chunk of messages of M parses to are messages of M.
LEMMA ParsedType ==
    ASSUME NEW M, NEW chunk \in Seq(Pieces(M))
    PROVE  ParseMessages(chunk) \in Seq(M)
<1>1. chunk # <<>> => Tail(chunk) \in Seq(Pieces(M))
  OBVIOUS
<1> QED
  BY <1>1, EndedType DEF ParseMessages

\* A chunk of a stream, and what is left of the stream, are pieces of it.
LEMMA ChunkType ==
    ASSUME NEW M, NEW bytes \in Seq(Pieces(M)), NEW chunk \in Chunks(bytes)
    PROVE  chunk \in Seq(Pieces(M)) /\ After(chunk, bytes) \in Seq(Pieces(M))
<1>1. PICK n \in 1..Len(bytes) : chunk = SubSeq(bytes, 1, n)
  BY DEF Chunks
<1>2. chunk \in Seq(Pieces(M)) /\ Len(chunk) = n
  BY <1>1
<1>3. SubSeq(bytes, n + 1, Len(bytes)) \in Seq(Pieces(M))
  BY <1>1
<1> QED
  BY <1>2, <1>3 DEF After

\* A message of M is encoded by pieces of messages of M.
LEMMA EncodeType ==
    ASSUME NEW M, NEW m \in M, NEW large
    PROVE  Encode(m, large) \in Seq(Pieces(M))
<1>1. [msg |-> m, part |-> "head"] \in Pieces(M)
  BY DEF Pieces, Parts
<1>2. [msg |-> m, part |-> "tail"] \in Pieces(M)
  BY DEF Pieces, Parts
<1>3. [msg |-> m, part |-> "whole"] \in Pieces(M)
  BY DEF Pieces, Parts
<1> QED
  BY <1>1, <1>2, <1>3 DEF Encode

-----------------------------------------------------------------------------
(***************************************************************************)
(* The invariant.                                                          *)
(***************************************************************************)

\* The requests whose messages may be under way.
Sent == {r \in Requests : call[r] # "unsent"}

\* The messages the daemon may have sent: no success before the command ran.
Told == {m \in Down : m.ok => m.of \in ran}

\* A connection that carries messages of S to the daemon and of T back.
Conn(S, T) ==
    [cl : {"free", "dialing", "open", "ended", "closing", "closed"},
     sv : {"none", "backlog", "open", "ended", "closing", "closed"},
     up : Seq(Pieces(S)), down : Seq(Pieces(T)), reset : BOOLEAN]

FlowInv == sock \in [Sockets -> Conn(Sent, Told)]

\* A chunk that is being handled holds requests that were sent, one at least,
\* and the first of them was run if its handler has been.
WorkInv ==
    \A w \in work : /\ w.left \in Seq(Sent) /\ w.left # <<>>
                    /\ w.begun => Head(w.left) \in ran

Serves(s) == sock[s].sv \in {"open", "ended"}

ServedInv ==
    /\ IsFiniteSet(listed) /\ Cardinality(listed) <= MaxConnections
    /\ Accepting => \A s \in Sockets : Serves(s) => s \in listed
    /\ phase = "down" => listed = {} /\ \A s \in Sockets : ~Serves(s)

IpcInv ==
    /\ ClientTypeOK /\ ServerTypeOK
    /\ PendingIsWaiting
    /\ FlowInv /\ WorkInv /\ ServedInv

-----------------------------------------------------------------------------
(***************************************************************************)
(* Connections.                                                            *)
(***************************************************************************)

\* A sequence over a set is one over every larger set.
LEMMA SeqGrows ==
    ASSUME NEW S, NEW T, S \subseteq T, NEW q \in Seq(S)
    PROVE  q \in Seq(T)
  OBVIOUS

\* A connection may carry more messages than it does.
LEMMA ConnGrows ==
    ASSUME NEW S, NEW T, NEW S1, NEW T1, S \subseteq S1, T \subseteq T1,
           NEW x \in Conn(S, T)
    PROVE  x \in Conn(S1, T1)
<1>1. Pieces(S) \subseteq Pieces(S1) /\ Pieces(T) \subseteq Pieces(T1)
  BY DEF Pieces
<1>2. x.up \in Seq(Pieces(S1)) /\ x.down \in Seq(Pieces(T1))
  BY <1>1, SeqGrows DEF Conn
<1> QED
  BY <1>2 DEF Conn

\* So may each of them.
LEMMA FlowGrows ==
    ASSUME NEW S, NEW T, NEW S1, NEW T1, S \subseteq S1, T \subseteq T1,
           NEW f \in [Sockets -> Conn(S, T)]
    PROVE  f \in [Sockets -> Conn(S1, T1)]
  BY ConnGrows

\* One connection changes; there is none to change at NoSocket.
LEMMA SetKeeps ==
    ASSUME NEW C, NEW f \in [Sockets -> C], NEW s, NEW x, s \in Sockets => x \in C
    PROVE  /\ [f EXCEPT ![s] = x] \in [Sockets -> C]
           /\ \A q \in Sockets : [f EXCEPT ![s] = x][q] = IF q = s THEN x ELSE f[q]
  OBVIOUS

\* A client that destroys its end leaves the daemon's as it is.
LEMMA ClientDestroysKeeps ==
    ASSUME NEW S, NEW T, NEW x \in Conn(S, T), NEW end \in {"closing", "closed"}
    PROVE  /\ ClientDestroys(x, end) \in Conn(S, T)
           /\ ClientDestroys(x, end).sv = x.sv
           /\ ClientDestroys(x, end).cl = end
<1>1. <<>> \in Seq(Pieces(T))
  OBVIOUS
<1>2. (~Left(x.sv) /\ (x.reset \/ x.down # <<>>)) \in BOOLEAN
  OBVIOUS
<1> QED
  BY <1>1, <1>2 DEF ClientDestroys, Conn

\* A daemon that destroys its end leaves the client's as it is.
LEMMA ServerDestroysKeeps ==
    ASSUME NEW S, NEW T, NEW x \in Conn(S, T), NEW end \in {"closing", "closed"}
    PROVE  /\ ServerDestroys(x, end) \in Conn(S, T)
           /\ ServerDestroys(x, end).sv = end
           /\ ServerDestroys(x, end).cl = x.cl
<1>1. <<>> \in Seq(Pieces(S))
  OBVIOUS
<1>2. (~Left(x.cl) /\ (x.reset \/ x.up # <<>> \/ x.sv = "backlog")) \in BOOLEAN
  OBVIOUS
<1> QED
  BY <1>1, <1>2 DEF ServerDestroys, Conn

\* Neither does the end of the client's process touch the daemon's end.
LEMMA ClientGoneKeeps ==
    ASSUME NEW S, NEW T, NEW x \in Conn(S, T)
    PROVE  ClientGone(x) \in Conn(S, T) /\ ClientGone(x).sv = x.sv
  BY ClientDestroysKeeps DEF ClientGone

\* The end of the daemon's process leaves no connection served.
LEMMA ServerGoneKeeps ==
    ASSUME NEW S, NEW T, NEW x \in Conn(S, T)
    PROVE  ServerGone(x) \in Conn(S, T) /\ ServerGone(x).sv \in {"none", "closed"}
  BY ServerDestroysKeeps DEF ServerGone

\* What an ordinary event changes of a connection.
LEMMA ConnParts ==
    ASSUME NEW S, NEW T, NEW x \in Conn(S, T)
    PROVE  /\ \A e \in {"free", "dialing", "open", "ended", "closing", "closed"} :
                  [x EXCEPT !.cl = e] \in Conn(S, T)
           /\ \A e \in {"none", "backlog", "open", "ended", "closing", "closed"} :
                  [x EXCEPT !.sv = e] \in Conn(S, T)
           /\ \A q \in Seq(Pieces(S)) : [x EXCEPT !.up = q] \in Conn(S, T)
           /\ \A q \in Seq(Pieces(T)) : [x EXCEPT !.down = q] \in Conn(S, T)
           /\ [x EXCEPT !.reset = FALSE] \in Conn(S, T)
  BY DEF Conn

\* A connection that has carried nothing.
LEMMA UnusedConn ==
    ASSUME NEW S, NEW T
    PROVE  /\ Unused \in Conn(S, T)
           /\ [Unused EXCEPT !.cl = "dialing", !.sv = "backlog"] \in Conn(S, T)
           /\ [Unused EXCEPT !.cl = "closing"] \in Conn(S, T)
<1>1. <<>> \in Seq(Pieces(S)) /\ <<>> \in Seq(Pieces(T))
  OBVIOUS
<1> QED
  BY <1>1 DEF Unused, Conn

-----------------------------------------------------------------------------
(***************************************************************************)
(* The steps of the client.                                                *)
(***************************************************************************)

\* x may follow the connections: it carries no other messages, and the end of
\* the daemon is as it was, or has not been accepted.
Follows(x) ==
    /\ x \in [Sockets -> Conn(Sent, Told)]
    /\ \A s \in Sockets : x[s].sv \in {sock[s].sv, "none", "backlog"}

\* What a step does to the promises and to the map of requests.
CallsGood ==
    /\ call' \in [Requests -> {"unsent", "waiting", "answered", "refused",
                               "failed"}]
    /\ pending' \subseteq Requests
    /\ PendingIsWaiting'
    /\ Sent \subseteq Sent'
    /\ [Calls!Next]_(Calls!vars)

ClientGood ==
    /\ ClientTypeOK'
    /\ CallsGood
    /\ sock' \in [Sockets -> Conn(Sent', Told)]
    /\ \A s \in Sockets : sock'[s].sv \in {sock[s].sv, "none", "backlog"}

\* A step that leaves the promises and the map alone.
LEMMA CallsKept ==
    ASSUME IpcInv, call' = call, pending' = pending, UNCHANGED serverVars
    PROVE  CallsGood /\ Sent' = Sent
<1>1. Sent' = Sent /\ PendingIsWaiting'
  BY DEF IpcInv, PendingIsWaiting, Sent
<1>2. UNCHANGED Calls!vars
  BY DEF serverVars, Calls!vars
<1>3. /\ call' \in [Requests -> {"unsent", "waiting", "answered", "refused",
                                 "failed"}]
      /\ pending' \subseteq Requests
  BY DEF IpcInv, ClientTypeOK
<1> QED
  BY <1>1, <1>2, <1>3 DEF CallsGood

\* Settling some promises: those that are answered were run.
LEMMA CallsSettled ==
    ASSUME IpcInv, UNCHANGED serverVars,
           NEW done \in SUBSET pending,
           pending' = pending \ done,
           call' \in [Requests -> {"unsent", "waiting", "answered", "refused",
                                   "failed"}],
           \A r \in Requests \ done : call'[r] = call[r],
           \A r \in done : /\ call'[r] \in {"answered", "refused", "failed"}
                           /\ call'[r] = "answered" => r \in ran
    PROVE  CallsGood /\ Sent' = Sent
<1>1. call \in [Requests -> {"unsent", "waiting", "answered", "refused",
                             "failed"}]
      /\ pending = {r \in Requests : call[r] = "waiting"}
  BY DEF IpcInv, ClientTypeOK, PendingIsWaiting
<1>2. done \in SUBSET {r \in Requests : call[r] = "waiting"}
  BY <1>1
<1>3. PendingIsWaiting'
  BY <1>1 DEF PendingIsWaiting
<1>4. Sent' = Sent
  BY <1>1 DEF Sent
<1>5. CASE done = {}
  <2>1. call' = call
    BY <1>1, <1>5
  <2>2. UNCHANGED Calls!vars
    BY <2>1 DEF serverVars, Calls!vars
  <2> QED
    BY <1>1, <1>3, <1>4, <2>2 DEF CallsGood
<1>6. CASE done # {}
  <2> DEFINE c == [r \in done |-> call'[r]]
  <2>1. c \in [done -> {"answered", "refused", "failed"}]
    OBVIOUS
  <2>2. \A r \in done : c[r] = "answered" => r \in ran
    OBVIOUS
  <2>3. call' = [r \in Requests |-> IF r \in done THEN c[r] ELSE call[r]]
    OBVIOUS
  <2>4. ran' = ran
    BY DEF serverVars
  <2> HIDE DEF c
  <2>5. Calls!Settle
    BY <1>2, <1>6, <2>1, <2>2, <2>3, <2>4 DEF Calls!Settle
  <2> QED
    BY <1>1, <1>3, <1>4, <2>5 DEF CallsGood, Calls!Next
<1> QED
  BY <1>5, <1>6

\* Rejecting every pending request settles them as failed.
LEMMA CallsRejected ==
    ASSUME IpcInv, UNCHANGED serverVars, call' = AllRejected, pending' = {}
    PROVE  CallsGood /\ Sent' = Sent
<1>1. pending \subseteq Requests
      /\ call \in [Requests -> {"unsent", "waiting", "answered", "refused",
                                "failed"}]
  BY DEF IpcInv, ClientTypeOK
<1>2. call' \in [Requests -> {"unsent", "waiting", "answered", "refused",
                              "failed"}]
  BY <1>1 DEF AllRejected
<1>3. \A r \in Requests \ pending : call'[r] = call[r]
  BY DEF AllRejected
<1>4. \A r \in pending : call'[r] = "failed"
  BY <1>1 DEF AllRejected
<1>5. pending' = pending \ pending
  OBVIOUS
<1> QED
  BY <1>2, <1>3, <1>4, <1>5, CallsSettled

\* A request that fails on the spot.
LEMMA CallRefused ==
    ASSUME IpcInv, UNCHANGED serverVars, NEW r \in Requests, call[r] = "unsent",
           NEW c \in {"waiting", "failed"},
           call' = [call EXCEPT ![r] = c],
           pending' = IF c = "waiting" THEN pending \cup {r} ELSE pending
    PROVE  CallsGood /\ Sent' = Sent \cup {r}
<1>1. call \in [Requests -> {"unsent", "waiting", "answered", "refused",
                             "failed"}]
      /\ pending = {q \in Requests : call[q] = "waiting"}
  BY DEF IpcInv, ClientTypeOK, PendingIsWaiting
<1>2. call' \in [Requests -> {"unsent", "waiting", "answered", "refused",
                              "failed"}]
      /\ \A q \in Requests : call'[q] = IF q = r THEN c ELSE call[q]
  BY <1>1
<1>3. pending' \subseteq Requests /\ PendingIsWaiting'
  BY <1>1, <1>2 DEF PendingIsWaiting
<1>4. Sent' = Sent \cup {r}
  BY <1>2 DEF Sent
<1>5. ran' = ran
  BY DEF serverVars
<1>6. Calls!Next
  BY <1>5 DEF Calls!Next, Calls!Send
<1> QED
  BY <1>2, <1>3, <1>4, <1>6 DEF CallsGood

\* The connections as they are.
LEMMA SameFollows ==
    ASSUME IpcInv
    PROVE  Follows(sock)
  BY DEF IpcInv, FlowInv, Follows

\* A step that leaves the requests alone is good if its connections follow.
LEMMA FollowsGood ==
    ASSUME ClientTypeOK', CallsGood, Sent' = Sent, Follows(sock')
    PROVE  ClientGood
  BY DEF ClientGood, Follows

Beats == [on : BOOLEAN, ping : BOOLEAN, silence : Silences]

\* A heartbeat that is off.
LEMMA NoHeartBeats == NoHeart \in Beats
  BY DEF NoHeart, Beats, Silences

\* The end of the client, from connections that follow.
LEMMA ClientExitGood ==
    ASSUME IpcInv, UNCHANGED serverVars, NEW x, Follows(x), ClientExit(x)
    PROVE  ClientGood
<1>1. CallsGood /\ Sent' = Sent
  BY CallsRejected DEF ClientExit
<1>5. alive' \in BOOLEAN /\ {dialTimer', retry', closing'} \subseteq BOOLEAN
  BY DEF ClientExit
<1>6. heart' \in Beats
  BY NoHeartBeats DEF ClientExit
<1>7. /\ mode' \in {"cli", "library"} /\ status' = "disconnected"
      /\ socket' = NoSocket /\ dialing' = NoSocket /\ handled' = {}
  BY DEF ClientExit, ClientTypeOK, IpcInv
<1>2. ClientTypeOK'
  BY <1>1, <1>5, <1>6, <1>7 DEF CallsGood, ClientTypeOK, Beats
<1>3. \A s \in Sockets : /\ ClientGone(x[s]) \in Conn(Sent, Told)
                         /\ ClientGone(x[s]).sv = x[s].sv
  BY ClientGoneKeeps DEF Follows
<1>4. Follows(sock')
  BY <1>3 DEF ClientExit, Follows
<1> QED
  BY <1>1, <1>2, <1>4, FollowsGood

\* handleConnectionError, from connections that follow.
LEMMA ConnectionErrorGood ==
    ASSUME IpcInv, UNCHANGED serverVars, NEW x, Follows(x), NEW beat \in Beats,
           ConnectionError(x, beat)
    PROVE  ClientGood
<1>1. CASE ClientExit(x)
  BY <1>1, ClientExitGood
<1>2. CASE /\ sock' = x /\ heart' = beat /\ status' = "error" /\ retry' = TRUE
           /\ UNCHANGED <<mode, alive, socket, handled, dialing, dialTimer,
                          closing, call, pending>>
  <2>1. CallsGood /\ Sent' = Sent
    BY <1>2, CallsKept
  <2>2. ClientTypeOK'
    BY <1>2 DEF ClientTypeOK, IpcInv, Beats
  <2> QED
    BY <1>2, <2>1, <2>2, FollowsGood
<1> QED
  BY <1>1, <1>2 DEF ConnectionError

\* A connection whose client end changes.
LEMMA SetFollows ==
    ASSUME IpcInv, NEW s, NEW y,
           s \in Sockets => /\ y \in Conn(Sent, Told)
                            /\ y.sv \in {sock[s].sv, "none", "backlog"}
    PROVE  Follows(Set(s, y))
<1>1. sock \in [Sockets -> Conn(Sent, Told)]
  BY DEF IpcInv, FlowInv
<1>2. Set(s, y) \in [Sockets -> Conn(Sent, Told)]
  BY <1>1, SetKeeps DEF Set
<1>3. \A q \in Sockets : Set(s, y)[q] = IF q = s THEN y ELSE sock[q]
  BY <1>1, SetKeeps DEF Set
<1> QED
  BY <1>2, <1>3 DEF Follows

\* A write that found the other end gone.
LEMMA BrokenFollows ==
    ASSUME IpcInv, NEW s
    PROVE  Follows(Broken(s))
<1>1. s \in Sockets => sock[s] \in Conn(Sent, Told)
  BY DEF IpcInv, FlowInv
<1>2. s \in Sockets => /\ ClientDestroys(sock[s], "closing") \in Conn(Sent, Told)
                       /\ ClientDestroys(sock[s], "closing").sv = sock[s].sv
  BY <1>1, ClientDestroysKeeps
<1> QED
  BY <1>2, SetFollows DEF Broken

Ends == {"free", "dialing", "open", "ended", "closing", "closed"}

\* A connection of which an event changes the client's end.
LEMMA EndFollows ==
    ASSUME IpcInv, NEW s, NEW e \in Ends
    PROVE  Follows([sock EXCEPT ![s].cl = e])
<1>1. s \in Sockets => sock[s] \in Conn(Sent, Told)
  BY DEF IpcInv, FlowInv
<1>2. PICK y : y = [sock[s] EXCEPT !.cl = e]
  OBVIOUS
<1>3. s \in Sockets => y \in Conn(Sent, Told)
  BY <1>1, <1>2, ConnParts DEF Ends
<1>4. s \in Sockets => y.sv = sock[s].sv
  BY <1>1, <1>2 DEF Conn
<1>5. Follows(Set(s, y))
  BY <1>3, <1>4, SetFollows
<1>6. Set(s, y) = [sock EXCEPT ![s].cl = e]
  BY <1>2 DEF Set
<1> QED
  BY <1>5, <1>6 DEF Follows

\* connect(), by the user or by the timer.
LEMMA DialsGood ==
    ASSUME IpcInv, UNCHANGED serverVars, NEW listening \in BOOLEAN,
           NEW timer \in BOOLEAN, Dials(listening, timer)
    PROVE  ClientGood
<1>1. PICK s \in Fresh : /\ listening => Dial(s) /\ retry' = timer
                         /\ ~listening => DialNoFile \/ DialRefused(s)
  <2>1. Fresh # {}
    BY DEF Dials, MayDial
  <2>2. (CHOOSE f \in Fresh : TRUE) \in Fresh
    BY <2>1
  <2> QED
    BY <2>2 DEF Dials
<1>2. s \in Sockets
  BY DEF Fresh
<1>3. CASE Dial(s) /\ retry' = timer
  <2>1. CallsGood /\ Sent' = Sent
    BY <1>3, CallsKept DEF Dial
  <2>2. ClientTypeOK'
    BY <1>2, <1>3 DEF Dial, ClientTypeOK, IpcInv
  <2>3. Follows(sock')
    <3>1. sock' = Set(s, [Unused EXCEPT !.cl = "dialing", !.sv = "backlog"])
      BY <1>3 DEF Dial
    <3>2. [Unused EXCEPT !.cl = "dialing", !.sv = "backlog"].sv = "backlog"
      BY DEF Unused
    <3> QED
      BY <3>1, <3>2, UnusedConn, SetFollows
  <2> QED
    BY <2>1, <2>2, <2>3, FollowsGood
<1>4. CASE DialNoFile
  <2>1. CallsGood /\ Sent' = Sent
    BY <1>4, CallsKept DEF DialNoFile
  <2>2. retry' \in BOOLEAN
    BY <1>4 DEF DialNoFile
  <2>3. ClientTypeOK'
    BY <1>4, <2>2 DEF DialNoFile, ClientTypeOK, IpcInv
  <2>4. Follows(sock')
    BY <1>4, SameFollows DEF DialNoFile
  <2> QED
    BY <2>1, <2>3, <2>4, FollowsGood
<1>5. CASE DialRefused(s)
  <2> DEFINE x == Set(s, [Unused EXCEPT !.cl = "closing"])
  <2>1. Follows(x)
    <3>1. [Unused EXCEPT !.cl = "closing"].sv = "none"
      BY DEF Unused
    <3> QED
      BY <3>1, UnusedConn, SetFollows
  <2> HIDE DEF x
  <2>2. CASE ClientExit(x)
    BY <2>1, <2>2, ClientExitGood
  <2>3. CASE /\ sock' = x /\ status' = "error" /\ socket' = s
             /\ handled' = handled \cup {s} /\ retry' = TRUE
             /\ UNCHANGED <<mode, alive, dialing, dialTimer, heart, closing, call,
                            pending>>
    <3>1. CallsGood /\ Sent' = Sent
      BY <2>3, CallsKept
    <3>2. ClientTypeOK'
      BY <1>2, <2>3 DEF ClientTypeOK, IpcInv
    <3> QED
      BY <2>1, <2>3, <3>1, <3>2, FollowsGood
  <2> QED
    BY <1>5, <2>2, <2>3 DEF DialRefused, x
<1> QED
  BY <1>1, <1>3, <1>4, <1>5

\* The reconnect timer.
LEMMA RetryTimerGood ==
    ASSUME IpcInv, UNCHANGED serverVars, NEW listening \in BOOLEAN,
           RetryTimer(listening)
    PROVE  ClientGood
<1>1. CASE Dials(listening, FALSE)
  BY <1>1, DialsGood
<1>2. CASE /\ retry' = FALSE
           /\ UNCHANGED <<mode, alive, status, socket, handled, dialing,
                          dialTimer, heart, closing, call, pending, sock>>
  <2>1. CallsGood /\ Sent' = Sent
    BY <1>2, CallsKept
  <2>2. ClientTypeOK'
    BY <1>2 DEF ClientTypeOK, IpcInv
  <2>3. Follows(sock')
    BY <1>2, SameFollows
  <2> QED
    BY <2>1, <2>2, <2>3, FollowsGood
<1> QED
  BY <1>1, <1>2 DEF RetryTimer

\* The 'connect' event.
LEMMA ConnectedGood ==
    ASSUME IpcInv, UNCHANGED serverVars, Connected
    PROVE  ClientGood
<1>1. CallsGood /\ Sent' = Sent
  BY CallsKept DEF Connected
<1>2. heart \in Beats
  BY DEF IpcInv, ClientTypeOK, Beats
<1>7. ASSUME NEW b \in Beats
      PROVE  [b EXCEPT !.on = TRUE, !.silence = 0] \in Beats
  <2>1. [b EXCEPT !.on = TRUE] \in Beats
    BY DEF Beats
  <2>2. \A o \in Beats : [o EXCEPT !.silence = 0] \in Beats
    BY DEF Beats, Silences
  <2> QED
    BY <2>1, <2>2
<1>3. heart' \in Beats
  BY <1>2, <1>7 DEF Connected, Beating
<1>4. ClientTypeOK'
  BY <1>3 DEF Connected, ClientTypeOK, IpcInv, Beats
<1>5. PICK e \in Ends : sock' = [sock EXCEPT ![dialing].cl = e]
  BY DEF Connected, Ends
<1>6. Follows(sock')
  BY <1>5, EndFollows
<1> QED
  BY <1>1, <1>4, <1>6, FollowsGood

\* The timer of connect().
LEMMA DialTimeoutGood ==
    ASSUME IpcInv, UNCHANGED serverVars, DialTimeout
    PROVE  ClientGood
<1>1. CallsGood /\ Sent' = Sent
  BY CallsKept DEF DialTimeout
<1>2. retry' \in BOOLEAN
  BY DEF DialTimeout
<1>3. ClientTypeOK'
  BY <1>2 DEF DialTimeout, ClientTypeOK, IpcInv
<1>4. Follows(sock')
  BY BrokenFollows DEF DialTimeout
<1> QED
  BY <1>1, <1>3, <1>4, FollowsGood

\* The timer of a request.
LEMMA RequestTimeoutGood ==
    ASSUME IpcInv, UNCHANGED serverVars, NEW r \in Requests, RequestTimeout(r)
    PROVE  ClientGood
<1>1. call \in [Requests -> {"unsent", "waiting", "answered", "refused",
                             "failed"}]
  BY DEF IpcInv, ClientTypeOK
<1>2. {r} \in SUBSET pending /\ pending' = pending \ {r}
  BY DEF RequestTimeout
<1>3. /\ call' \in [Requests -> {"unsent", "waiting", "answered", "refused",
                                 "failed"}]
      /\ call'[r] = "failed" /\ \A q \in Requests \ {r} : call'[q] = call[q]
  BY <1>1 DEF RequestTimeout
<1>4. CallsGood /\ Sent' = Sent
  BY <1>2, <1>3, CallsSettled
<1>5. ClientTypeOK'
  BY <1>4 DEF CallsGood, RequestTimeout, ClientTypeOK, IpcInv
<1>6. Follows(sock')
  BY SameFollows DEF RequestTimeout
<1> QED
  BY <1>4, <1>5, <1>6, FollowsGood

\* sendCommand().
LEMMA SendGood ==
    ASSUME IpcInv, UNCHANGED serverVars, NEW r \in Requests, Send(r)
    PROVE  ClientGood
<1>1. call[r] = "unsent" /\ heart' = heart /\ mode' = mode /\ alive' = alive
      /\ UNCHANGED <<socket, handled, dialing, dialTimer, retry, closing>>
  BY DEF Send
<1>2. CASE SendRejected(r) \/ SendBroken(r)
  <2>1. CallsGood /\ Sent' = Sent \cup {r}
    BY <1>1, <1>2, CallRefused DEF SendRejected, SendBroken
  <2>2. status' \in {status, "disconnected"}
    BY <1>2 DEF SendRejected, SendBroken
  <2>3. ClientTypeOK'
    BY <1>1, <2>1, <2>2 DEF CallsGood, ClientTypeOK, IpcInv
  <2>4. Follows(sock')
    BY <1>2, SameFollows, BrokenFollows DEF SendRejected, SendBroken
  <2>5. sock' \in [Sockets -> Conn(Sent', Told)]
    BY <2>1, <2>4, FlowGrows DEF Follows
  <2> QED
    BY <2>1, <2>3, <2>4, <2>5 DEF ClientGood, Follows
<1>3. CASE SendWritten(r)
  <2>1. CallsGood /\ Sent' = Sent \cup {r}
    BY <1>1, <1>3, CallRefused DEF SendWritten
  <2>2. ClientTypeOK'
    BY <1>1, <1>3, <2>1 DEF SendWritten, CallsGood, ClientTypeOK, IpcInv
  <2>3. socket \in Sockets
    BY <1>3 DEF SendWritten, Writable, ClientTypeOK, IpcInv
  <2>4. sock \in [Sockets -> Conn(Sent', Told)]
    BY <2>1, FlowGrows DEF IpcInv, FlowInv
  <2>5. Encode(r, r \in LargeRequests) \in Seq(Pieces(Sent'))
    BY <2>1, EncodeType
  <2>6. PICK S : S = Sent'
    OBVIOUS
  <2>7. sock' = [sock EXCEPT ![socket].up = @ \o Encode(r, r \in LargeRequests)]
    BY <1>3 DEF SendWritten
  <2>8. PICK x : x = [sock[socket] EXCEPT !.up = @ \o Encode(r, r \in LargeRequests)]
    OBVIOUS
  <2>9. sock[socket] \in Conn(S, Told)
    BY <2>3, <2>4, <2>6
  <2>10. sock[socket].up \o Encode(r, r \in LargeRequests) \in Seq(Pieces(S))
    BY <2>5, <2>6, <2>9 DEF Conn
  <2>11. x \in Conn(S, Told)
    BY <2>8, <2>9, <2>10, ConnParts
  <2>12. x.sv = sock[socket].sv
    BY <2>8, <2>9 DEF Conn
  <2>13. sock' = [sock EXCEPT ![socket] = x]
    BY <2>7, <2>8
  <2>14. sock' \in [Sockets -> Conn(S, Told)]
    BY <2>4, <2>6, <2>11, <2>13
  <2>15. \A t \in Sockets : sock'[t].sv = sock[t].sv
    BY <2>4, <2>12, <2>13
  <2> QED
    BY <2>1, <2>2, <2>6, <2>14, <2>15 DEF ClientGood
<1> QED
  BY <1>2, <1>3 DEF Send

\* The 'data' event of the client: only what was told is answered.
LEMMA DataGood ==
    ASSUME IpcInv, UNCHANGED serverVars, NEW s \in Sockets, Data(s)
    PROVE  ClientGood
<1>1. PICK chunk, got :
          /\ chunk \in Chunks(sock[s].down)
          /\ got = IF s \in handled THEN Answers(ParseMessages(chunk)) ELSE {}
          /\ sock' = [sock EXCEPT ![s].down = After(chunk, @)]
          /\ pending' = pending \ {a.of : a \in got}
          /\ call' = [r \in Requests |->
                  IF [of |-> r, ok |-> TRUE] \in got THEN "answered"
                  ELSE IF [of |-> r, ok |-> FALSE] \in got THEN "refused"
                  ELSE call[r]]
  BY DEF Data
<1>2. sock[s] \in Conn(Sent, Told) /\ sock \in [Sockets -> Conn(Sent, Told)]
  BY DEF IpcInv, FlowInv
<1>3. sock[s].down \in Seq(Pieces(Told))
  BY <1>2 DEF Conn
<1>4. chunk \in Seq(Pieces(Told)) /\ After(chunk, sock[s].down) \in Seq(Pieces(Told))
  BY <1>1, <1>3, ChunkType
<1>5. ParseMessages(chunk) \in Seq(Told)
  BY <1>4, ParsedType
<1>6. got \subseteq Told /\ \A a \in got : a.of \in pending
  BY <1>1, <1>5 DEF Answers, Contains
<1>7. PICK done : done = {a.of : a \in got}
  OBVIOUS
<1>8. done \in SUBSET pending /\ pending' = pending \ done
  BY <1>1, <1>6, <1>7
<1>9. ASSUME NEW r \in Requests
      PROVE  r \in done <=> [of |-> r, ok |-> TRUE] \in got
                            \/ [of |-> r, ok |-> FALSE] \in got
  <2>1. ASSUME NEW a \in got, a.of = r
        PROVE  a = [of |-> r, ok |-> TRUE] \/ a = [of |-> r, ok |-> FALSE]
    <3>1. a \in [of : Requests \cup {Entry}, ok : BOOLEAN]
      BY <1>6 DEF Told, Down
    <3>2. a.ok \in BOOLEAN /\ a = [of |-> r, ok |-> a.ok]
      BY <2>1, <3>1
    <3> QED
      BY <3>2
  <2>2. ASSUME NEW b, [of |-> r, ok |-> b] \in got
        PROVE  r \in done
    <3>1. [of |-> r, ok |-> b].of = r
      OBVIOUS
    <3> QED
      BY <1>7, <2>2, <3>1
  <2>3. r \in done => \E a \in got : a.of = r
    BY <1>7
  <2> QED
    BY <2>1, <2>2, <2>3
<1>10. call \in [Requests -> {"unsent", "waiting", "answered", "refused",
                              "failed"}]
  BY DEF IpcInv, ClientTypeOK
<1>11. /\ call' \in [Requests -> {"unsent", "waiting", "answered", "refused",
                                  "failed"}]
       /\ \A r \in Requests \ done : call'[r] = call[r]
  BY <1>1, <1>9, <1>10
<1>12. pending \subseteq Requests
  BY DEF IpcInv, ClientTypeOK
<1>13. ASSUME NEW r \in done
       PROVE  /\ call'[r] \in {"answered", "refused", "failed"}
              /\ call'[r] = "answered" => r \in ran
  <2>1. r \in Requests
    BY <1>8, <1>12
  <2>2. [of |-> r, ok |-> TRUE] \in got => r \in ran
    BY <1>6 DEF Told
  <2> QED
    BY <1>1, <1>9, <2>1, <2>2
<1>14. CallsGood /\ Sent' = Sent
  BY <1>8, <1>11, <1>13, CallsSettled
<1>15. ClientTypeOK'
  BY <1>14 DEF CallsGood, Data, ClientTypeOK, IpcInv
<1>16. Follows(sock')
  <2>1. PICK y : y = [sock[s] EXCEPT !.down = After(chunk, @)]
    OBVIOUS
  <2>2. y \in Conn(Sent, Told)
    BY <1>2, <1>4, <2>1, ConnParts
  <2>3. y.sv = sock[s].sv
    BY <1>2, <2>1 DEF Conn
  <2>4. Follows(Set(s, y))
    BY <2>2, <2>3, SetFollows
  <2>5. sock' = Set(s, y)
    BY <1>1, <2>1 DEF Set
  <2> QED
    BY <2>4, <2>5
<1> QED
  BY <1>14, <1>15, <1>16, FollowsGood

\* The interval of the heartbeat.
LEMMA HeartbeatTickGood ==
    ASSUME IpcInv, UNCHANGED serverVars, HeartbeatTick
    PROVE  ClientGood
<1>1. heart \in Beats
  BY DEF IpcInv, ClientTypeOK, Beats
<1>2. Later(heart.silence) \in Silences
  BY <1>1 DEF Beats, Later, Silences
<1>3. Silent \in Beats
  BY <1>1, <1>2 DEF Silent, Beats
<1>4. Pinged \in Beats
  BY <1>3 DEF Pinged, Beats
<1>5. CASE /\ heart' \in Beats
           /\ UNCHANGED <<mode, alive, status, socket, handled, dialing,
                          dialTimer, retry, closing, call, pending, sock>>
  <2>1. CallsGood /\ Sent' = Sent
    BY <1>5, CallsKept
  <2>2. ClientTypeOK'
    BY <1>5 DEF ClientTypeOK, IpcInv, Beats
  <2>3. Follows(sock')
    BY <1>5, SameFollows
  <2> QED
    BY <2>1, <2>2, <2>3, FollowsGood
<1>6. CASE ConnectionError(sock, Silent) \/ ConnectionError(sock, Pinged)
  BY <1>3, <1>4, <1>6, SameFollows, ConnectionErrorGood
<1>7. CASE ConnectionError(Broken(socket), Pinged)
  BY <1>4, <1>7, BrokenFollows, ConnectionErrorGood
<1> QED
  BY <1>3, <1>4, <1>5, <1>6, <1>7 DEF HeartbeatTick, PingWritten

\* disconnect().
LEMMA DisconnectGood ==
    ASSUME IpcInv, UNCHANGED serverVars, Disconnect
    PROVE  ClientGood
<1>1. CallsGood /\ Sent' = Sent
  BY CallsRejected DEF Disconnect
<1>2. {dialTimer', retry', closing'} \subseteq BOOLEAN
  BY DEF Disconnect, ClientTypeOK, IpcInv
<1>3. heart' \in Beats
  BY NoHeartBeats DEF Disconnect
<1>4. status' \in {status, "disconnected"} /\ handled' \subseteq handled
  BY DEF Disconnect
<1>5. ClientTypeOK'
  BY <1>1, <1>2, <1>3, <1>4 DEF CallsGood, Disconnect, ClientTypeOK, IpcInv, Beats
<1>6. Follows(sock')
  <2>1. CASE socket = NoSocket
    BY <2>1, SameFollows DEF Disconnect
  <2>2. CASE socket # NoSocket
    <3>1. socket \in Sockets
      BY <2>2 DEF IpcInv, ClientTypeOK
    <3>2. sock[socket] \in Conn(Sent, Told)
      BY <3>1 DEF IpcInv, FlowInv
    <3>3. PICK e \in Ends : e = IF sock[socket].cl = "open" THEN "ended"
                                                            ELSE sock[socket].cl
      BY <3>2 DEF Conn, Ends
    <3>4. sock' = [sock EXCEPT ![socket].cl = IF @ = "open" THEN "ended" ELSE @]
      BY <2>2 DEF Disconnect
    <3>5. sock' = [sock EXCEPT ![socket].cl = e]
      BY <3>3, <3>4
    <3> QED
      BY <3>5, EndFollows
  <2> QED
    BY <2>1, <2>2
<1> QED
  BY <1>1, <1>5, <1>6, FollowsGood

\* The timer of disconnect().
LEMMA CloseTimeoutGood ==
    ASSUME IpcInv, UNCHANGED serverVars, CloseTimeout
    PROVE  ClientGood
<1>1. CallsGood /\ Sent' = Sent
  BY CallsKept DEF CloseTimeout
<1>2. ClientTypeOK'
  BY DEF CloseTimeout, Disconnected, ClientTypeOK, IpcInv
<1>3. socket \in Sockets =>
          /\ ClientDestroys(sock[socket], "closed") \in Conn(Sent, Told)
          /\ ClientDestroys(sock[socket], "closed").sv = sock[socket].sv
  BY ClientDestroysKeeps DEF IpcInv, FlowInv
<1>4. Follows(Set(socket, ClientDestroys(sock[socket], "closed")))
  BY <1>3, SetFollows
<1>5. Follows(sock')
  BY <1>4, SameFollows DEF CloseTimeout
<1> QED
  BY <1>1, <1>2, <1>5, FollowsGood

\* The 'close' event of the client.
LEMMA CloseEventGood ==
    ASSUME IpcInv, UNCHANGED serverVars, NEW s \in Sockets, CloseEvent(s)
    PROVE  ClientGood
<1>1. CallsGood /\ Sent' = Sent
  BY CallsKept DEF CloseEvent
<1>2. closing' \in BOOLEAN
  BY DEF CloseEvent, Disconnected, ClientTypeOK, IpcInv
<1>3. /\ status' \in {status, "disconnected"} /\ socket' \in {socket, NoSocket}
      /\ handled' \subseteq handled
  BY DEF CloseEvent, Disconnected
<1>4. ClientTypeOK'
  BY <1>2, <1>3 DEF CloseEvent, ClientTypeOK, IpcInv
<1>5. Follows(sock')
  BY EndFollows DEF CloseEvent, Ends
<1> QED
  BY <1>1, <1>4, <1>5, FollowsGood

\* The 'end' event of the client.
LEMMA EndEventGood ==
    ASSUME IpcInv, UNCHANGED serverVars, NEW s \in Sockets, EndEvent(s)
    PROVE  ClientGood
<1>1. CallsGood /\ Sent' = Sent
  BY CallsKept DEF EndEvent
<1>2. status' \in {status, "disconnected"}
  BY DEF EndEvent
<1>3. ClientTypeOK'
  BY <1>2 DEF EndEvent, ClientTypeOK, IpcInv
<1>4. Follows(sock')
  BY EndFollows DEF EndEvent, Ends
<1> QED
  BY <1>1, <1>3, <1>4, FollowsGood

\* The 'error' event of the client.
LEMMA ResetEventGood ==
    ASSUME IpcInv, UNCHANGED serverVars, NEW s \in Sockets, ResetEvent(s)
    PROVE  ClientGood
<1> DEFINE x == [sock EXCEPT ![s].cl = "closing", ![s].reset = FALSE]
<1>1. sock[s] \in Conn(Sent, Told)
  BY DEF IpcInv, FlowInv
<1>2. PICK y : y = [sock[s] EXCEPT !.cl = "closing", !.reset = FALSE]
  OBVIOUS
<1>3. y \in Conn(Sent, Told) /\ y.sv = sock[s].sv
  BY <1>1, <1>2 DEF Conn
<1>4. Follows(Set(s, y))
  BY <1>3, SetFollows
<1>5. x = Set(s, y)
  BY <1>2 DEF Set
<1> HIDE DEF x
<1>6. Follows(x)
  BY <1>4, <1>5
<1>7. heart \in Beats
  BY DEF IpcInv, ClientTypeOK, Beats
<1>8. ConnectionError(x, heart) \/ ClientExit(x)
  BY DEF ResetEvent, x
<1> QED
  BY <1>6, <1>7, <1>8, ConnectionErrorGood, ClientExitGood

\* Every step of the client.
LEMMA ClientStep ==
    ASSUME IpcInv, UNCHANGED serverVars, NEW listening \in BOOLEAN,
           ClientNext(listening)
    PROVE  ClientGood
<1>1. CASE Connect(listening)
  <2>1. retry \in BOOLEAN
    BY DEF IpcInv, ClientTypeOK
  <2> QED
    BY <1>1, <2>1, DialsGood DEF Connect
<1>2. CASE RetryTimer(listening) \/ Connected \/ DialTimeout
  BY <1>2, RetryTimerGood, ConnectedGood, DialTimeoutGood
<1>3. CASE \E r \in Requests : Send(r) \/ RequestTimeout(r)
  BY <1>3, SendGood, RequestTimeoutGood
<1>4. CASE HeartbeatTick \/ Disconnect \/ CloseTimeout
  BY <1>4, HeartbeatTickGood, DisconnectGood, CloseTimeoutGood
<1>5. CASE \E s \in Sockets :
               Data(s) \/ EndEvent(s) \/ ResetEvent(s) \/ CloseEvent(s)
  BY <1>5, DataGood, EndEventGood, ResetEventGood, CloseEventGood
<1>6. CASE ClientKilled
  BY <1>6, SameFollows, ClientExitGood DEF ClientKilled
<1> QED
  BY <1>1, <1>2, <1>3, <1>4, <1>5, <1>6 DEF ClientNext

-----------------------------------------------------------------------------
(***************************************************************************)
(* The steps of the daemon.                                                *)
(***************************************************************************)

Statuses == {"none", "connected", "disconnected", "error"}

ServerGood ==
    /\ ServerTypeOK'
    /\ sock' \in [Sockets -> Conn(Sent, Told')]
    /\ WorkInv' /\ ServedInv'
    /\ [Calls!Next]_(Calls!vars)

\* Running a command adds to what may be told.
LEMMA ToldGrows ==
    ASSUME ran \subseteq ran'
    PROVE  Told \subseteq Told'
  BY DEF Told

\* A step of the daemon sends no request.
LEMMA SentSame ==
    ASSUME UNCHANGED clientVars
    PROVE  Sent' = Sent /\ call' = call
  BY DEF clientVars, Sent

\* A step that runs no command.
LEMMA RunsNothing ==
    ASSUME UNCHANGED clientVars, ran' = ran
    PROVE  Told' = Told /\ [Calls!Next]_(Calls!vars)
<1>1. Told' = Told
  BY DEF Told
<1>2. UNCHANGED Calls!vars
  BY SentSame DEF Calls!vars
<1> QED
  BY <1>1, <1>2

\* Chunks that are no longer handled.
LEMMA WorkKept ==
    ASSUME IpcInv, UNCHANGED clientVars, work' \subseteq work, ran' = ran
    PROVE  WorkInv'
<1>1. Sent' = Sent
  BY SentSame
<1> QED
  BY <1>1 DEF IpcInv, WorkInv

\* The map of connections stays right when connections leave it that are no
\* longer served, and none is served that was not.
LEMMA ServedKept ==
    ASSUME IpcInv, listed' \subseteq listed,
           Accepting' => Accepting, phase' = "down" => phase = "down",
           \A s \in Sockets :
               Serves(s)' => Serves(s) /\ (s \in listed => s \in listed')
    PROVE  ServedInv'
<1>1. IsFiniteSet(listed) /\ Cardinality(listed) <= MaxConnections
      /\ Cardinality(listed) \in Nat
  BY FS_CardinalityType DEF IpcInv, ServedInv
<1>2. IsFiniteSet(listed') /\ Cardinality(listed') <= Cardinality(listed)
      /\ Cardinality(listed') \in Nat
  <2>1. PICK L : L = listed'
    OBVIOUS
  <2>2. IsFiniteSet(L) /\ Cardinality(L) <= Cardinality(listed)
    BY <1>1, <2>1, FS_Subset
  <2>3. Cardinality(L) \in Nat
    BY <2>2, FS_CardinalityType
  <2> QED
    BY <2>1, <2>2, <2>3
<1>3. MaxConnections \in Nat
  BY ServerAssumption
<1>4. Accepting' => \A s \in Sockets : Serves(s)' => s \in listed'
  BY DEF IpcInv, ServedInv
<1>5. phase' = "down" => listed' = {} /\ \A s \in Sockets : ~Serves(s)'
  BY DEF IpcInv, ServedInv
<1> QED
  BY <1>1, <1>2, <1>3, <1>4, <1>5 DEF ServedInv

\* One connection changes at the daemon's end.
LEMMA ServerSets ==
    ASSUME IpcInv, NEW s \in Sockets, NEW y \in Conn(Sent, Told), sock' = Set(s, y)
    PROVE  /\ sock' \in [Sockets -> Conn(Sent, Told)]
           /\ \A q \in Sockets : sock'[q] = IF q = s THEN y ELSE sock[q]
  BY DEF IpcInv, FlowInv, Set

\* The 'connection' event: the limit is checked before the map grows.
LEMMA AcceptGood ==
    ASSUME IpcInv, UNCHANGED clientVars, NEW s \in Sockets, Accept(s)
    PROVE  ServerGood
<1>1. Told' = Told /\ [Calls!Next]_(Calls!vars) /\ WorkInv'
  BY RunsNothing, WorkKept DEF Accept
<1>2. sock[s] \in Conn(Sent, Told)
  BY DEF IpcInv, FlowInv
<1>3. Accepting' <=> Accepting
  BY DEF Accept, Accepting
<1>4. CASE Full /\ sock' = Set(s, ServerDestroys(sock[s], "closed"))
           /\ UNCHANGED <<conn, listed>>
  <2>1. PICK y : y = ServerDestroys(sock[s], "closed")
    OBVIOUS
  <2>2. y \in Conn(Sent, Told) /\ y.sv = "closed"
    BY <1>2, <2>1, ServerDestroysKeeps
  <2>3. /\ sock' \in [Sockets -> Conn(Sent, Told)]
        /\ \A q \in Sockets : sock'[q] = IF q = s THEN y ELSE sock[q]
    BY <1>4, <2>1, <2>2, ServerSets
  <2>4. ServerTypeOK'
    BY <1>4 DEF Accept, ServerTypeOK, IpcInv
  <2>5. ServedInv'
    BY <1>3, <1>4, <2>2, <2>3, ServedKept DEF Accept, Serves
  <2> QED
    BY <1>1, <2>3, <2>4, <2>5 DEF ServerGood
<1>5. CASE /\ ~Full
           /\ sock' = [sock EXCEPT ![s].sv = "open"]
           /\ conn' = [conn EXCEPT ![s] = "connected"]
           /\ listed' = listed \cup {s}
  <2>1. PICK y : y = [sock[s] EXCEPT !.sv = "open"]
    OBVIOUS
  <2>2. y \in Conn(Sent, Told) /\ sock' = Set(s, y)
    BY <1>2, <1>5, <2>1, ConnParts DEF Set
  <2>3. /\ sock' \in [Sockets -> Conn(Sent, Told)]
        /\ \A q \in Sockets : sock'[q] = IF q = s THEN y ELSE sock[q]
    BY <2>2, ServerSets
  <2>4. ServerTypeOK'
    BY <1>5 DEF Accept, ServerTypeOK, IpcInv
  <2>5. IsFiniteSet(listed) /\ Cardinality(listed) \in Nat
        /\ MaxConnections \in Nat /\ Cardinality(listed) < MaxConnections
    BY <1>5, FS_CardinalityType, ServerAssumption DEF IpcInv, ServedInv, Full
  <2>6. PICK L : L = listed \cup {s}
    OBVIOUS
  <2>7. IsFiniteSet(L) /\ Cardinality(L) <= MaxConnections
    BY <2>5, <2>6, FS_AddElement
  <2>8. \A q \in Sockets : Serves(q)' => q = s \/ Serves(q)
    BY <2>3 DEF Serves
  <2>9. \A q \in Sockets : Serves(q)' => q \in listed'
    BY <1>5, <2>8 DEF Accept, IpcInv, ServedInv
  <2>10. phase' # "down"
    BY DEF Accept, Accepting
  <2>11. ServedInv'
    BY <1>5, <2>6, <2>7, <2>9, <2>10 DEF ServedInv
  <2> QED
    BY <1>1, <2>3, <2>4, <2>11 DEF ServerGood
<1> QED
  BY <1>4, <1>5 DEF Accept

\* The 'data' event of the daemon.
LEMMA ReadGood ==
    ASSUME IpcInv, UNCHANGED clientVars, NEW s \in Sockets, Read(s)
    PROVE  ServerGood
<1>1. Told' = Told /\ [Calls!Next]_(Calls!vars)
  BY RunsNothing DEF Read
<1>2. sock[s] \in Conn(Sent, Told)
  BY DEF IpcInv, FlowInv
<1>3. PICK chunk, messages :
          /\ chunk \in Chunks(sock[s].up)
          /\ messages = ParseMessages(chunk)
          /\ sock' = [sock EXCEPT ![s].up = After(chunk, @)]
          /\ work' = IF messages = <<>> THEN work
                     ELSE work \cup {[s |-> s, left |-> messages,
                                      begun |-> FALSE]}
  BY DEF Read
<1>4. sock[s].up \in Seq(Pieces(Sent))
  BY <1>2 DEF Conn
<1>5. chunk \in Seq(Pieces(Sent)) /\ After(chunk, sock[s].up) \in Seq(Pieces(Sent))
  BY <1>3, <1>4, ChunkType
<1>6. messages \in Seq(Sent)
  BY <1>3, <1>5, ParsedType
<1>7. PICK y : y = [sock[s] EXCEPT !.up = After(chunk, @)]
  OBVIOUS
<1>8. y \in Conn(Sent, Told) /\ sock' = Set(s, y)
  BY <1>2, <1>3, <1>5, <1>7, ConnParts DEF Set
<1>9. y.sv = sock[s].sv
  BY <1>2, <1>7 DEF Conn
<1>10. /\ sock' \in [Sockets -> Conn(Sent, Told)]
       /\ \A q \in Sockets : sock'[q] = IF q = s THEN y ELSE sock[q]
  BY <1>8, ServerSets
<1>11. Sent \subseteq Requests
  BY DEF Sent
<1>12. messages \in Seq(Requests)
  BY <1>6, <1>11, SeqGrows
<1>13. PICK n : n = [s |-> s, left |-> messages, begun |-> FALSE]
  OBVIOUS
<1>14. n \in Work
  BY <1>12, <1>13 DEF Work
<1>15. work' \subseteq work \cup {n} /\ (messages = <<>> => work' = work)
  BY <1>3, <1>13
<1>16. ServerTypeOK'
  BY <1>14, <1>15 DEF Read, ServerTypeOK, IpcInv
<1>17. WorkInv'
  <2>1. messages # <<>> => n.left \in Seq(Sent) /\ n.left # <<>> /\ ~n.begun
    BY <1>6, <1>13
  <2>2. Sent' = Sent /\ ran' = ran
    BY SentSame DEF Read
  <2> QED
    BY <1>15, <2>1, <2>2 DEF IpcInv, WorkInv
<1>18. ServedInv'
  BY <1>9, <1>10, ServedKept DEF Read, Serves, Accepting
<1> QED
  BY <1>1, <1>10, <1>16, <1>17, <1>18 DEF ServerGood

\* An event that ends the daemon's side of a connection.
LEMMA EndsGood ==
    ASSUME IpcInv, UNCHANGED clientVars, NEW s \in Sockets,
           NEW y \in Conn(Sent, Told), y.sv \in {"closing", "closed"},
           sock' = Set(s, y),
           NEW status1 \in Statuses, conn' \in {conn, [conn EXCEPT ![s] = status1]},
           listed' \in {listed, listed \ {s}},
           UNCHANGED <<phase, launches, closes, work, ran, sessions>>
    PROVE  ServerGood
<1>1. Told' = Told /\ [Calls!Next]_(Calls!vars) /\ WorkInv'
  BY RunsNothing, WorkKept
<1>2. /\ sock' \in [Sockets -> Conn(Sent, Told)]
      /\ \A q \in Sockets : sock'[q] = IF q = s THEN y ELSE sock[q]
  BY ServerSets
<1>3. ServerTypeOK'
  BY DEF ServerTypeOK, IpcInv, Statuses
<1>4. ServedInv'
  BY <1>2, ServedKept DEF Serves, Accepting
<1> QED
  BY <1>1, <1>2, <1>3, <1>4 DEF ServerGood

\* The 'end', 'error' and 'close' events, and the forced close.
LEMMA ServerEventGood ==
    ASSUME IpcInv, UNCHANGED clientVars, NEW s \in Sockets,
           ServerEnd(s) \/ ServerReset(s) \/ ServerClose(s) \/ ForceClose(s)
    PROVE  ServerGood
<1>1. sock[s] \in Conn(Sent, Told)
  BY DEF IpcInv, FlowInv
<1>2. CASE ServerEnd(s)
  <2>1. PICK y : y = [sock[s] EXCEPT !.sv = "closing"]
    OBVIOUS
  <2>2. y \in Conn(Sent, Told) /\ sock' = Set(s, y)
    BY <1>1, <1>2, <2>1, ConnParts DEF Set, ServerEnd
  <2>3. y.sv = "closing"
    BY <1>1, <2>1 DEF Conn
  <2> QED
    BY <1>2, <2>2, <2>3, EndsGood DEF ServerEnd, Statuses
<1>3. CASE ServerReset(s)
  <2>1. PICK y : y = [sock[s] EXCEPT !.sv = "closing", !.reset = FALSE]
    OBVIOUS
  <2>2. y \in Conn(Sent, Told) /\ y.sv = "closing"
    BY <1>1, <2>1 DEF Conn
  <2>3. sock' = Set(s, y)
    BY <1>3, <2>1 DEF Set, ServerReset
  <2> QED
    BY <1>3, <2>2, <2>3, EndsGood DEF ServerReset, Statuses
<1>4. CASE ServerClose(s)
  <2>1. PICK y : y = [sock[s] EXCEPT !.sv = "closed"]
    OBVIOUS
  <2>2. y \in Conn(Sent, Told) /\ sock' = Set(s, y)
    BY <1>1, <1>4, <2>1, ConnParts DEF Set, ServerClose
  <2>3. y.sv = "closed"
    BY <1>1, <2>1 DEF Conn
  <2> QED
    BY <1>4, <2>2, <2>3, EndsGood DEF ServerClose, Statuses
<1>5. CASE ForceClose(s)
  <2>1. ServerDestroys(sock[s], "closing") \in Conn(Sent, Told)
        /\ ServerDestroys(sock[s], "closing").sv = "closing"
    BY <1>1, ServerDestroysKeeps
  <2> QED
    BY <1>5, <2>1, EndsGood DEF ForceClose, Statuses
<1> QED
  BY <1>2, <1>3, <1>4, <1>5

\* What a write to some connections leaves of them.
LEMMA SentToKeeps ==
    ASSUME IpcInv, NEW to, NEW bytes \in Seq(Pieces(Told)), SentTo(to, bytes)
    PROVE  /\ sock' \in [Sockets -> Conn(Sent, Told)]
           /\ conn' \in [Sockets -> Statuses]
           /\ listed' \subseteq listed
           /\ \A s \in Sockets :
                  Serves(s)' => Serves(s) /\ (s \in listed => s \in listed')
<1>1. /\ sock \in [Sockets -> Conn(Sent, Told)]
      /\ conn \in [Sockets -> Statuses]
  BY DEF IpcInv, FlowInv, ServerTypeOK, Statuses
<1>2. PICK failing, reached :
          /\ sock' = [s \in Sockets |->
                IF s \in failing THEN ServerDestroys(sock[s], "closing")
                ELSE IF s \in reached THEN [sock[s] EXCEPT !.down = @ \o bytes]
                ELSE sock[s]]
          /\ conn' = [s \in Sockets |->
                IF s \in failing THEN "disconnected" ELSE conn[s]]
          /\ listed' = listed \ failing
  BY DEF SentTo
<1>3. ASSUME NEW s \in Sockets
      PROVE  /\ sock'[s] \in Conn(Sent, Told)
             /\ IF s \in failing THEN sock'[s].sv = "closing"
                                 ELSE sock'[s].sv = sock[s].sv
  <2>1. sock[s] \in Conn(Sent, Told)
    BY <1>1
  <2>2. CASE s \in failing
    BY <1>2, <2>1, <2>2, ServerDestroysKeeps
  <2>3. CASE s \notin failing /\ s \in reached
    <3>1. PICK y : y = [sock[s] EXCEPT !.down = @ \o bytes]
      OBVIOUS
    <3>2. sock[s].down \o bytes \in Seq(Pieces(Told))
      BY <2>1 DEF Conn
    <3>3. y \in Conn(Sent, Told)
      BY <2>1, <3>1, <3>2, ConnParts
    <3>4. y.sv = sock[s].sv
      BY <2>1, <3>1 DEF Conn
    <3>5. sock'[s] = y
      BY <1>2, <2>3, <3>1
    <3> QED
      BY <2>3, <3>3, <3>4, <3>5
  <2>4. CASE s \notin failing /\ s \notin reached
    BY <1>2, <2>1, <2>4
  <2> QED
    BY <2>2, <2>3, <2>4
<1>4. sock' \in [Sockets -> Conn(Sent, Told)]
  BY <1>2, <1>3
<1>5. conn' \in [Sockets -> Statuses]
  BY <1>1, <1>2 DEF Statuses
<1>6. ASSUME NEW s \in Sockets, Serves(s)'
      PROVE  Serves(s) /\ s \notin failing
  BY <1>3, <1>6 DEF Serves
<1> QED
  BY <1>2, <1>4, <1>5, <1>6

\* The handler of a command runs.
LEMMA RunGood ==
    ASSUME IpcInv, UNCHANGED clientVars, NEW w \in work, Run(w)
    PROVE  ServerGood
<1>1. w \in Work /\ w.left \in Seq(Sent) /\ w.left # <<>>
  BY DEF IpcInv, WorkInv, ServerTypeOK
<1>2. PICK r : r = Head(w.left)
  OBVIOUS
<1>3. r \in Sent
  BY <1>1, <1>2
<1>4. ran' = ran \cup {r}
  BY <1>2 DEF Run
<1>5. r \in Requests
  BY <1>3 DEF Sent
<1>6. PICK n : n = [w EXCEPT !.begun = TRUE]
  OBVIOUS
<1>7. n \in Work /\ n.left = w.left
  BY <1>1, <1>6 DEF Work
<1>8. work' = (work \ {w}) \cup {n}
  BY <1>6 DEF Run
<1>9. sessions' \subseteq sessions \cup {w.s} /\ w.s \in Sockets
  BY <1>1 DEF Run, Work
<1>10. ServerTypeOK'
  BY <1>4, <1>5, <1>7, <1>8, <1>9 DEF Run, ServerTypeOK, IpcInv
<1>11. sock' \in [Sockets -> Conn(Sent, Told')]
  BY <1>4, ToldGrows, FlowGrows DEF Run, IpcInv, FlowInv
<1>12. Sent' = Sent
  BY SentSame
<1>13. WorkInv'
  <2>1. ASSUME NEW v \in work'
        PROVE  /\ v.left \in Seq(Sent) /\ v.left # <<>>
               /\ v.begun => Head(v.left) \in ran'
    <3>1. CASE v \in work
      BY <1>4, <3>1 DEF IpcInv, WorkInv
    <3>2. CASE v = n
      BY <1>1, <1>2, <1>4, <1>7, <3>2
    <3> QED
      BY <1>8, <3>1, <3>2
  <2> QED
    BY <1>12, <2>1 DEF WorkInv
<1>14. ServedInv'
  BY DEF Run, IpcInv, ServedInv, Serves, Accepting
<1>15. [Calls!Next]_(Calls!vars)
  <2>1. call' = call
    BY SentSame
  <2>2. CASE r \in ran
    BY <1>4, <2>1, <2>2 DEF Calls!vars
  <2>3. CASE r \notin ran
    <3>1. Calls!Run(r)
      BY <1>3, <1>4, <2>1, <2>3 DEF Calls!Run, Sent
    <3> QED
      BY <1>5, <3>1 DEF Calls!Next
  <2> QED
    BY <2>2, <2>3
<1> QED
  BY <1>10, <1>11, <1>13, <1>14, <1>15 DEF ServerGood

\* The answer to a command, which reports success only once it ran.
LEMMA ReplyGood ==
    ASSUME IpcInv, UNCHANGED clientVars, NEW w \in work, Reply(w)
    PROVE  ServerGood
<1>1. /\ w \in Work /\ w.left \in Seq(Sent) /\ w.left # <<>>
      /\ w.begun => Head(w.left) \in ran
  BY DEF IpcInv, WorkInv, ServerTypeOK
<1>2. PICK r : r = Head(w.left)
  OBVIOUS
<1>3. r \in Requests
  BY <1>1, <1>2 DEF Sent
<1>4. PICK ok \in BOOLEAN :
          /\ ok => w.begun
          /\ SentTo({w.s}, Encode([of |-> r, ok |-> ok], r \in LargeAnswers))
  BY <1>2 DEF Reply
<1>5. [of |-> r, ok |-> ok] \in Told
  <2>1. ok => r \in ran
    BY <1>1, <1>2, <1>4
  <2> QED
    BY <1>3, <2>1 DEF Told, Down
<1>6. Encode([of |-> r, ok |-> ok], r \in LargeAnswers) \in Seq(Pieces(Told))
  BY <1>5, EncodeType
<1>7. /\ sock' \in [Sockets -> Conn(Sent, Told)]
      /\ conn' \in [Sockets -> Statuses]
      /\ listed' \subseteq listed
      /\ \A s \in Sockets :
             Serves(s)' => Serves(s) /\ (s \in listed => s \in listed')
  BY <1>4, <1>6, SentToKeeps
<1>8. Told' = Told /\ [Calls!Next]_(Calls!vars)
  BY RunsNothing DEF Reply
<1>9. PICK n : n = [s |-> w.s, left |-> Tail(w.left), begun |-> FALSE]
  OBVIOUS
<1>10. work' \subseteq (work \ {w}) \cup {n} /\ (n \in work' => n \in work \/ Len(w.left) # 1)
  BY <1>9 DEF Reply, Answered
<1>11. Tail(w.left) \in Seq(Sent) /\ (Len(w.left) # 1 => Tail(w.left) # <<>>)
  <2>1. PICK q \in Seq(Sent) : q = w.left
    BY <1>1
  <2>2. q # <<>>
    BY <1>1, <2>1
  <2>3. Tail(q) \in Seq(Sent)
    BY <2>2
  <2>4. Len(q) \in Nat /\ Len(q) # 0
    BY <2>2
  <2>5. Len(Tail(q)) = Len(q) - 1
    BY <2>2
  <2>6. Len(q) # 1 => Tail(q) # <<>>
    <3>1. \A t \in Seq(Sent) : Len(t) # 0 => t # <<>>
      OBVIOUS
    <3>2. Len(q) # 1 => Len(Tail(q)) # 0
      BY <2>4, <2>5
    <3>3. PICK t \in Seq(Sent) : t = Tail(q)
      BY <2>3
    <3> QED
      BY <3>1, <3>2, <3>3
  <2> QED
    BY <2>1, <2>3, <2>6
<1>12. n \in Work
  <2>1. Sent \subseteq Requests
    BY DEF Sent
  <2>2. Tail(w.left) \in Seq(Requests)
    BY <1>11, <2>1, SeqGrows
  <2> QED
    BY <1>1, <1>9, <2>2 DEF Work
<1>13. ServerTypeOK'
  BY <1>7, <1>10, <1>12 DEF Reply, ServerTypeOK, IpcInv, Statuses
<1>14. WorkInv'
  <2>1. Sent' = Sent /\ ran' = ran
    BY SentSame DEF Reply
  <2>2. ASSUME NEW v \in work'
        PROVE  /\ v.left \in Seq(Sent) /\ v.left # <<>>
               /\ v.begun => Head(v.left) \in ran
    <3>1. CASE v \in work
      BY <3>1 DEF IpcInv, WorkInv
    <3>2. CASE v \notin work /\ v = n
      BY <1>9, <1>10, <1>11, <3>2
    <3> QED
      BY <1>10, <3>1, <3>2
  <2> QED
    BY <2>1, <2>2 DEF WorkInv
<1>15. ServedInv'
  BY <1>7, ServedKept DEF Reply, Accepting
<1> QED
  BY <1>7, <1>8, <1>13, <1>14, <1>15 DEF ServerGood

\* stop() begins, from the connections as a failed write may have left them.
LEMMA ClosedGood ==
    ASSUME IpcInv, UNCHANGED clientVars, Accepting,
           NEW x \in [Sockets -> Conn(Sent, Told)], NEW c \in [Sockets -> Statuses],
           NEW l \in SUBSET listed,
           \A s \in Sockets : x[s].sv \in {"open", "ended"} =>
                                  Serves(s) /\ (s \in listed => s \in l),
           Closed(x, c, l), UNCHANGED <<launches, work, ran>>
    PROVE  ServerGood
<1>1. Told' = Told /\ [Calls!Next]_(Calls!vars) /\ WorkInv'
  BY RunsNothing, WorkKept
<1>2. PICK open \in SUBSET l :
          /\ closes' = open
          /\ conn' = [s \in Sockets |-> IF s \in open THEN "disconnected" ELSE c[s]]
          /\ sock' = [s \in Sockets |->
                         IF s \in open /\ x[s].sv = "open"
                         THEN [x[s] EXCEPT !.sv = "ended"] ELSE x[s]]
  BY DEF Closed
<1>3. phase' = "closing" /\ sessions' = {} /\ listed' = l
  BY DEF Closed
<1>4. ASSUME NEW s \in Sockets
      PROVE  /\ sock'[s] \in Conn(Sent, Told)
             /\ sock'[s].sv \in {"open", "ended"} => x[s].sv \in {"open", "ended"}
  <2>1. x[s] \in Conn(Sent, Told)
    OBVIOUS
  <2>2. CASE s \in open /\ x[s].sv = "open"
    <3>1. PICK y : y = [x[s] EXCEPT !.sv = "ended"]
      OBVIOUS
    <3>2. y \in Conn(Sent, Told)
      BY <2>1, <3>1, ConnParts
    <3>3. sock'[s] = y
      BY <1>2, <2>2, <3>1
    <3> QED
      BY <2>2, <3>2, <3>3
  <2>3. CASE ~(s \in open /\ x[s].sv = "open")
    BY <1>2, <2>1, <2>3
  <2> QED
    BY <2>2, <2>3
<1>5. sock' \in [Sockets -> Conn(Sent, Told)]
  BY <1>2, <1>4
<1>6. conn' \in [Sockets -> Statuses]
  BY <1>2 DEF Statuses
<1>7. ServerTypeOK'
  BY <1>2, <1>3, <1>6 DEF ServerTypeOK, IpcInv, Statuses
<1>8. ServedInv'
  BY <1>3, <1>4, ServedKept DEF Serves, Accepting
<1> QED
  BY <1>1, <1>5, <1>7, <1>8 DEF ServerGood

\* The map is cleared.
LEMMA StopClosedGood ==
    ASSUME IpcInv, UNCHANGED clientVars, StopClosed
    PROVE  ServerGood
<1>1. Told' = Told /\ [Calls!Next]_(Calls!vars) /\ WorkInv'
  BY RunsNothing, WorkKept DEF StopClosed
<1>2. ASSUME NEW s \in Sockets
      PROVE  sock'[s] \in Conn(Sent, Told)
  <2>1. sock[s] \in Conn(Sent, Told)
    BY DEF IpcInv, FlowInv
  <2>2. sock'[s] \in {sock[s], ServerDestroys(sock[s], "closed")}
    BY DEF StopClosed
  <2> QED
    BY <2>1, <2>2, ServerDestroysKeeps
<1>3. sock' \in [Sockets -> Conn(Sent, Told)]
  BY <1>2 DEF StopClosed
<1>4. ServerTypeOK'
  BY DEF StopClosed, ServerTypeOK, IpcInv
<1>5. ServedInv'
  <2>1. IsFiniteSet({}) /\ Cardinality({}) = 0 /\ MaxConnections \in Nat
    BY FS_EmptySet, ServerAssumption
  <2>2. phase' = "draining" /\ listed' = {}
    BY DEF StopClosed
  <2> QED
    BY <2>1, <2>2 DEF ServedInv, Accepting
<1> QED
  BY <1>1, <1>3, <1>4, <1>5 DEF ServerGood

\* The process of the daemon is gone.
LEMMA ServerExitGood ==
    ASSUME IpcInv, UNCHANGED clientVars, ServerExit
    PROVE  ServerGood
<1>1. Told' = Told /\ [Calls!Next]_(Calls!vars)
  BY RunsNothing DEF ServerExit
<1>2. WorkInv'
  BY DEF ServerExit, WorkInv
<1>3. \A s \in Sockets : /\ ServerGone(sock[s]) \in Conn(Sent, Told)
                         /\ ServerGone(sock[s]).sv \in {"none", "closed"}
  BY ServerGoneKeeps DEF IpcInv, FlowInv
<1>4. sock' \in [Sockets -> Conn(Sent, Told)] /\ \A s \in Sockets : ~Serves(s)'
  BY <1>3 DEF ServerExit, Serves
<1>5. ServerTypeOK'
  BY DEF ServerExit, ServerTypeOK, IpcInv
<1>6. ServedInv'
  <2>1. IsFiniteSet({}) /\ Cardinality({}) = 0 /\ MaxConnections \in Nat
    BY FS_EmptySet, ServerAssumption
  <2>2. phase' = "down" /\ listed' = {}
    BY DEF ServerExit
  <2> QED
    BY <1>4, <2>1, <2>2 DEF ServedInv, Accepting
<1> QED
  BY <1>1, <1>2, <1>4, <1>5, <1>6 DEF ServerGood

\* A daemon is launched.
LEMMA LaunchGood ==
    ASSUME IpcInv, UNCHANGED clientVars, Launch
    PROVE  ServerGood
<1>1. Told' = Told /\ [Calls!Next]_(Calls!vars) /\ WorkInv'
  BY RunsNothing, WorkKept DEF Launch
<1>2. sock' \in [Sockets -> Conn(Sent, Told)]
  BY DEF Launch, IpcInv, FlowInv
<1>3. launches' \in 0..Launches
  BY ServerAssumption DEF Launch, IpcInv, ServerTypeOK
<1>4. ServerTypeOK'
  BY <1>3 DEF Launch, ServerTypeOK, IpcInv
<1>5. ServedInv'
  <2>1. \A s \in Sockets : ~Serves(s)'
    BY DEF Launch, IpcInv, ServedInv, Serves
  <2>2. phase' = "listening" /\ listed' = listed
    BY DEF Launch
  <2> QED
    BY <2>1, <2>2 DEF IpcInv, ServedInv
<1> QED
  BY <1>1, <1>2, <1>4, <1>5 DEF ServerGood

\* A line of a log that is followed.
LEMMA LogEntryGood ==
    ASSUME IpcInv, UNCHANGED clientVars, LogEntry
    PROVE  ServerGood
<1>1. CASE SentTo(sessions, EntryMessage) /\ UNCHANGED <<phase, closes, sessions>>
  <2>1. [of |-> Entry, ok |-> FALSE] \in Told
    BY DEF Told, Down
  <2>2. EntryMessage \in Seq(Pieces(Told))
    BY <2>1, EncodeType DEF EntryMessage
  <2>3. /\ sock' \in [Sockets -> Conn(Sent, Told)]
        /\ conn' \in [Sockets -> Statuses]
        /\ listed' \subseteq listed
        /\ \A s \in Sockets :
               Serves(s)' => Serves(s) /\ (s \in listed => s \in listed')
    BY <1>1, <2>2, SentToKeeps
  <2>4. Told' = Told /\ [Calls!Next]_(Calls!vars) /\ WorkInv'
    BY RunsNothing, WorkKept DEF LogEntry
  <2>5. ServerTypeOK'
    BY <1>1, <2>3 DEF LogEntry, ServerTypeOK, IpcInv, Statuses
  <2>6. ServedInv'
    BY <1>1, <2>3, ServedKept DEF Accepting
  <2> QED
    BY <2>3, <2>4, <2>5, <2>6 DEF ServerGood
<1>2. CASE ~(SentTo(sessions, EntryMessage) /\ UNCHANGED <<phase, closes, sessions>>)
  <2>1. PICK failing : failing = Failing(sessions)
    OBVIOUS
  <2>2. PICK x : x = [s \in Sockets |->
                         IF s \in failing
                         THEN ServerDestroys(sock[s], "closing") ELSE sock[s]]
    OBVIOUS
  <2>3. PICK c : c = [s \in Sockets |->
                         IF s \in failing THEN "disconnected" ELSE conn[s]]
    OBVIOUS
  <2>4. Closed(x, c, listed \ failing)
    BY <1>2, <2>1, <2>2, <2>3 DEF LogEntry
  <2>5. ASSUME NEW s \in Sockets
        PROVE  /\ x[s] \in Conn(Sent, Told)
               /\ IF s \in failing THEN x[s].sv = "closing"
                                   ELSE x[s].sv = sock[s].sv
    <3>1. sock[s] \in Conn(Sent, Told)
      BY DEF IpcInv, FlowInv
    <3> QED
      BY <2>2, <3>1, ServerDestroysKeeps
  <2>6. x \in [Sockets -> Conn(Sent, Told)]
    BY <2>2, <2>5
  <2>7. c \in [Sockets -> Statuses]
    BY <2>3 DEF IpcInv, ServerTypeOK, Statuses
  <2>8. \A s \in Sockets : x[s].sv \in {"open", "ended"} =>
            Serves(s) /\ (s \in listed => s \in listed \ failing)
    BY <2>5 DEF Serves
  <2>9. PICK l \in SUBSET listed : l = listed \ failing
    OBVIOUS
  <2>10. Accepting /\ UNCHANGED <<launches, work, ran>>
    BY DEF LogEntry
  <2> QED
    BY <2>4, <2>6, <2>7, <2>8, <2>9, <2>10, ClosedGood
<1> QED
  BY <1>1, <1>2

\* stop() begins.
LEMMA StopBeginGood ==
    ASSUME IpcInv, UNCHANGED clientVars, StopBegin
    PROVE  ServerGood
<1>1. sock \in [Sockets -> Conn(Sent, Told)] /\ conn \in [Sockets -> Statuses]
  BY DEF IpcInv, FlowInv, ServerTypeOK, Statuses
<1>2. \A s \in Sockets : sock[s].sv \in {"open", "ended"} =>
          Serves(s) /\ (s \in listed => s \in listed)
  BY DEF Serves
<1>3. Accepting /\ Closed(sock, conn, listed) /\ UNCHANGED <<launches, work, ran>>
  BY DEF StopBegin, Accepting
<1> QED
  BY <1>1, <1>2, <1>3, ClosedGood

\* Every step of the daemon.
LEMMA ServerStep ==
    ASSUME IpcInv, UNCHANGED clientVars, ServerNext
    PROVE  ServerGood
<1>1. CASE \E s \in Sockets :
               \/ Accept(s) \/ Read(s)
               \/ ServerEnd(s) \/ ServerReset(s) \/ ServerClose(s) \/ ForceClose(s)
  BY <1>1, AcceptGood, ReadGood, ServerEventGood
<1>2. CASE \E w \in work : Run(w) \/ Reply(w)
  BY <1>2, RunGood, ReplyGood
<1>3. CASE StopBegin \/ StopClosed \/ Launch \/ LogEntry
  BY <1>3, StopBeginGood, StopClosedGood, LaunchGood, LogEntryGood
<1>4. CASE StopDone \/ ServerKilled
  BY <1>4, ServerExitGood DEF StopDone, ServerKilled
<1> QED
  BY <1>1, <1>2, <1>3, <1>4 DEF ServerNext

-----------------------------------------------------------------------------
(***************************************************************************)
(* The theorems.                                                           *)
(***************************************************************************)

\* The invariant holds at first.
LEMMA InitInv ==
    ASSUME Init
    PROVE  IpcInv
<1>1. ClientTypeOK
  <2>1. heart \in Beats
    BY NoHeartBeats DEF Init, ClientInit
  <2>2. {dialTimer, retry, closing} \subseteq BOOLEAN /\ alive \in BOOLEAN
    BY DEF Init, ClientInit
  <2> QED
    BY <2>1, <2>2 DEF Init, ClientInit, ClientTypeOK, Beats
<1>2. ServerTypeOK
  BY ServerAssumption DEF Init, ServerInit, ServerTypeOK
<1>3. PendingIsWaiting
  BY DEF Init, ClientInit, PendingIsWaiting
<1>4. FlowInv
  BY UnusedConn DEF Init, FlowInv
<1>5. WorkInv
  BY DEF Init, ServerInit, WorkInv
<1>6. ServedInv
  <2>1. IsFiniteSet({}) /\ Cardinality({}) = 0 /\ MaxConnections \in Nat
    BY FS_EmptySet, ServerAssumption
  <2>2. \A s \in Sockets : ~Serves(s)
    BY DEF Init, Serves, Unused
  <2>3. listed = {} /\ phase = "down"
    BY DEF Init, ServerInit
  <2> QED
    BY <2>1, <2>2, <2>3 DEF ServedInv, Accepting
<1> QED
  BY <1>1, <1>2, <1>3, <1>4, <1>5, <1>6 DEF IpcInv

\* Every step keeps the invariant, and is one of Call or none.
LEMMA StepInv ==
    ASSUME IpcInv, [Next]_vars
    PROVE  IpcInv' /\ [Calls!Next]_(Calls!vars)
<1>1. CASE ClientNext(Accepting) /\ UNCHANGED serverVars
  <2>1. Accepting \in BOOLEAN
    BY DEF Accepting
  <2>2. ClientGood
    BY <1>1, <2>1, ClientStep
  <2>3. Told' = Told
    BY <1>1 DEF serverVars, Told
  <2>4. FlowInv'
    BY <2>2, <2>3 DEF ClientGood, FlowInv
  <2>5. ServerTypeOK'
    BY <1>1 DEF serverVars, ServerTypeOK, IpcInv
  <2>6. WorkInv'
    <3>1. Sent \subseteq Sent' /\ work' = work /\ ran' = ran
      BY <1>1, <2>2 DEF ClientGood, CallsGood, serverVars
    <3>2. \A w \in work : w.left \in Seq(Sent')
      BY <3>1, SeqGrows DEF IpcInv, WorkInv
    <3> QED
      BY <3>1, <3>2 DEF IpcInv, WorkInv
  <2>7. ServedInv'
    <3>1. \A s \in Sockets : Serves(s)' => Serves(s)
      BY <2>2 DEF ClientGood, Serves
    <3> QED
      BY <1>1, <3>1 DEF serverVars, IpcInv, ServedInv, Accepting
  <2> QED
    BY <2>2, <2>4, <2>5, <2>6, <2>7 DEF ClientGood, CallsGood, IpcInv
<1>2. CASE ServerNext /\ UNCHANGED clientVars
  <2>1. ServerGood
    BY <1>2, ServerStep
  <2>2. Sent' = Sent
    BY <1>2, SentSame
  <2>3. ClientTypeOK' /\ PendingIsWaiting'
    BY <1>2 DEF clientVars, ClientTypeOK, PendingIsWaiting, IpcInv
  <2> QED
    BY <2>1, <2>2, <2>3 DEF ServerGood, FlowInv, IpcInv
<1>3. CASE UNCHANGED vars
  <2>1. UNCHANGED clientVars /\ UNCHANGED serverVars /\ sock' = sock
    BY <1>3 DEF vars
  <2>2. ClientTypeOK' /\ PendingIsWaiting' /\ ServerTypeOK'
    BY <2>1 DEF clientVars, serverVars, ClientTypeOK, PendingIsWaiting,
                ServerTypeOK, IpcInv
  <2>3. Sent' = Sent /\ Told' = Told /\ [Calls!Next]_(Calls!vars)
    BY <2>1, SentSame, RunsNothing DEF serverVars
  <2>4. FlowInv' /\ WorkInv' /\ ServedInv'
    BY <2>1, <2>3 DEF serverVars, FlowInv, WorkInv, ServedInv, Serves,
                      Accepting, IpcInv
  <2> QED
    BY <2>2, <2>3, <2>4 DEF IpcInv
<1> QED
  BY <1>1, <1>2, <1>3 DEF Next

\* The invariant holds.
THEOREM Invariance == Spec => []IpcInv
<1>1. Init => IpcInv
  BY InitInv
<1>2. IpcInv /\ [Next]_vars => IpcInv'
  BY StepInv
<1> QED
  BY <1>1, <1>2, PTL DEF Spec

\* The client, the daemon and the sockets between them keep their types.
THEOREM TypeCorrect == Spec => []TypeOK
<1>1. IpcInv => TypeOK
  <2> SUFFICES ASSUME IpcInv
               PROVE  sock \in [Sockets -> Connection]
    BY DEF IpcInv, TypeOK
  <2>1. Sent \subseteq Requests /\ Told \subseteq Down
    BY DEF Sent, Told
  <2>2. sock \in [Sockets -> Conn(Requests, Down)]
    BY <2>1, FlowGrows DEF IpcInv, FlowInv
  <2> QED
    BY <2>2 DEF Conn, Connection
<1> QED
  BY <1>1, Invariance, PTL

\* The map of pending requests holds exactly those whose promise is still to be
\* settled: none is kept that is over, and none is lost before it is.
THEOREM PendingTruly == Spec => []PendingIsWaiting
<1>1. IpcInv => PendingIsWaiting
  BY DEF IpcInv
<1> QED
  BY <1>1, Invariance, PTL

\* While the daemon accepts, it serves only what it lists, within its limit:
\* no order of 'close', 'error', failed writes and stop() breaks the count.
THEOREM CountsConnections == Spec => []ConnectionsCounted
<1>1. IpcInv => ConnectionsCounted
  <2> SUFFICES ASSUME IpcInv, Accepting
               PROVE  LET served == {s \in Sockets : sock[s].sv \in {"open", "ended"}}
                      IN  served \subseteq listed /\ Cardinality(served) <= MaxConnections
    BY DEF ConnectionsCounted
  <2>1. PICK served : served = {s \in Sockets : sock[s].sv \in {"open", "ended"}}
    OBVIOUS
  <2>2. served \subseteq listed
    BY <2>1 DEF IpcInv, ServedInv, Serves
  <2>3. IsFiniteSet(listed) /\ Cardinality(listed) <= MaxConnections
        /\ MaxConnections \in Nat
    BY ServerAssumption DEF IpcInv, ServedInv
  <2>4. IsFiniteSet(served) /\ Cardinality(served) <= Cardinality(listed)
    BY <2>2, <2>3, FS_Subset
  <2>5. Cardinality(served) \in Nat /\ Cardinality(listed) \in Nat
    BY <2>3, <2>4, FS_CardinalityType
  <2>6. Cardinality(served) <= MaxConnections
    BY <2>3, <2>4, <2>5
  <2> QED
    BY <2>1, <2>2, <2>6
<1> QED
  BY <1>1, Invariance, PTL

\* The safety of ImplementsCalls: client and daemon start as Call does, and
\* each of their steps is one of Call or changes nothing of it, whatever is
\* lost, cut, delayed or killed between them.  An answer settles its own
\* request, once; a command is run at most once, and no response reports
\* success for one that was not run.
THEOREM KeepsCalls == Spec => Calls!SafeSpec
<1>1. Init => Calls!Init
  BY DEF Init, ClientInit, ServerInit, Calls!Init
<1>2. IpcInv /\ [Next]_vars => [Calls!Next]_(Calls!vars)
  BY StepInv
<1> QED
  BY <1>1, <1>2, Invariance, PTL DEF Spec, Calls!SafeSpec
=============================================================================
