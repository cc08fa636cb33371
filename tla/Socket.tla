------------------------------- MODULE Socket -------------------------------
(***************************************************************************)
(* The connections between the client and the daemon, as the kernel and    *)
(* Node's net.Socket keep them: code that is not in the repository,        *)
(* modelled from how ipc-client-base.ts, unix-socket-client.ts,            *)
(* ipc-server-base.ts and base-socket-connection.ts use it.                *)
(*                                                                         *)
(* One end of a connection is                                              *)
(*    "dialing"  connect() was called (at the server: "backlog")           *)
(*    "open"     and may be written to                                     *)
(*    "ended"    after end(): it still reads                               *)
(*    "closing"  destroyed, and its 'close' event is due                   *)
(*    "closed".                                                            *)
(* Bytes that are on their way in either direction are pieces of messages. *)
(***************************************************************************)
EXTENDS Naturals, Sequences, FiniteSets, Wire

CONSTANTS
    Sockets,        \* bound: the connections one client opens
    NoSocket,
    Requests,       \* the commands one client sends
    Entry           \* a line of a streamed log

ASSUME SocketAssumption ==
    /\ NoSocket \notin Sockets
    /\ Entry \notin Requests

VARIABLE sock       \* Sockets -> a connection

\* What the daemon sends: an answer to a request, or an entry, which is none.
Down == [of : Requests \cup {Entry}, ok : BOOLEAN]

Connection ==
    [cl : {"free", "dialing", "open", "ended", "closing", "closed"},
     sv : {"none", "backlog", "open", "ended", "closing", "closed"},
     up : Seq(Pieces(Requests)), down : Seq(Pieces(Down)),
     reset : BOOLEAN]       \* closed with unread bytes: ECONNRESET is due

Unused == [cl |-> "free", sv |-> "none", up |-> <<>>, down |-> <<>>,
           reset |-> FALSE]

Left(end) == end \in {"closing", "closed"}

\* The other side has sent its FIN.
Finished(end) == end \in {"ended", "closing", "closed"}

\* The prefixes of a stream that one read may return.
Chunks(bytes) == {SubSeq(bytes, 1, n) : n \in 1..Len(bytes)}

After(chunk, bytes) == SubSeq(bytes, Len(chunk) + 1, Len(bytes))

\* destroy() at the client, and the end of its process: what it has not read
\* resets the other side.
ClientDestroys(x, end) ==
    [cl |-> end, sv |-> x.sv, up |-> x.up, down |-> <<>>,
     reset |-> ~Left(x.sv) /\ (x.reset \/ x.down # <<>>)]

ServerDestroys(x, end) ==
    [cl |-> x.cl, sv |-> end, up |-> <<>>, down |-> x.down,
     reset |-> ~Left(x.cl) /\ (x.reset \/ x.up # <<>> \/ x.sv = "backlog")]

\* The end of a process closes its side of every connection.
ClientGone(x) ==
    IF x.cl \in {"free", "closed"} THEN x ELSE ClientDestroys(x, "closed")

ServerGone(x) ==
    IF x.sv \in {"none", "closed"} THEN x ELSE ServerDestroys(x, "closed")

Set(s, x) == [sock EXCEPT ![s] = x]
=============================================================================
