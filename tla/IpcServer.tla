----------------------------- MODULE IpcServer -----------------------------
(***************************************************************************)
(* The daemon's end of its connections: ipc-server-base.ts,                *)
(* unix-socket-server.ts, base-socket-connection.ts, the command handlers  *)
(* behind them, and component-streaming.ts, which sends the lines of a log *)
(* to the clients that follow it.                                          *)
(*                                                                         *)
(* The handler of 'data' is asynchronous and nobody awaits it: the         *)
(* messages of one chunk are handled one after the other, those of several *)
(* chunks at the same time.                                                *)
(***************************************************************************)
EXTENDS Socket, SequencesExt

CONSTANTS
    LargeAnswers,   \* the commands whose answer may not fit into one chunk
    Following,      \* log commands with the option `follow'
    MaxConnections, \* config.maxConnections
    Launches        \* bound: how often a daemon is launched

ASSUME ServerAssumption ==
    /\ LargeAnswers \cup Following \subseteq Requests
    /\ MaxConnections \in Nat \ {0} /\ Launches \in Nat \ {0}

VARIABLES
    phase,          \* of the server
    launches,
    conn,           \* Sockets -> the status of its BaseSocketConnection
    listed,         \* the map `connections'
    closes,         \* the connections stop() waits for
    work,           \* the chunks that are being handled
    ran,            \* the commands whose handler was run
    sessions        \* streamingSessions, by the connection they send to

serverVars == <<phase, launches, conn, listed, closes, work, ran, sessions>>

\* The handler of one chunk: the connection it came from, the messages that
\* are left of it, and whether the handler of the first has been run.
Work == [s : Sockets, left : Seq(Requests), begun : BOOLEAN]

ServerTypeOK ==
    /\ phase \in {"listening", "closing", "draining", "down"}
    /\ launches \in 0..Launches
    /\ conn \in [Sockets -> {"none", "connected", "disconnected", "error"}]
    /\ listed \cup closes \cup sessions \subseteq Sockets
    /\ work \subseteq Work
    /\ ran \subseteq Requests

ServerInit ==
    /\ phase = "down" /\ launches = 0
    /\ conn = [s \in Sockets |-> "none"]
    /\ listed = {} /\ closes = {} /\ work = {} /\ sessions = {}
    /\ ran = {}

Accepting == phase \in {"listening", "closing"}

-----------------------------------------------------------------------------
(***************************************************************************)
(* Connections.                                                            *)
(***************************************************************************)

\* Mutant of Full: the limit is off by one.
FullOver == Cardinality(listed) > MaxConnections

Full == Cardinality(listed) >= MaxConnections

\* The 'connection' event of the server.
Accept(s) ==
    /\ Accepting
    /\ sock[s].sv = "backlog"
    /\ \/ /\ Full
          /\ sock' = Set(s, ServerDestroys(sock[s], "closed"))
          /\ UNCHANGED <<conn, listed>>
       \/ /\ ~Full
          /\ sock' = [sock EXCEPT ![s].sv = "open"]
          /\ conn' = [conn EXCEPT ![s] = "connected"]
          /\ listed' = listed \cup {s}
    /\ UNCHANGED <<phase, launches, closes, work, ran, sessions>>

\* The 'data' event: handleMessage parses the chunk; a connection that stop()
\* is closing still reads.
Read(s) ==
    /\ sock[s].sv \in {"open", "ended"}
    /\ \E chunk \in Chunks(sock[s].up) :
        LET messages == ParseMessages(chunk)
        IN  /\ sock' = [sock EXCEPT ![s].up = After(chunk, @)]
            /\ work' = IF messages = <<>> THEN work
                       ELSE work \cup {[s |-> s, left |-> messages,
                                        begun |-> FALSE]}
    /\ UNCHANGED <<phase, launches, conn, listed, closes, ran, sessions>>

\* The 'end' event: the client has ended its side, and Node ends ours.  The
\* connection is listed until its 'close' event.
ServerEnd(s) ==
    /\ sock[s].sv \in {"open", "ended"}
    /\ Finished(sock[s].cl) /\ ~sock[s].reset /\ sock[s].up = <<>>
    /\ sock' = [sock EXCEPT ![s].sv = "closing"]
    /\ conn' = [conn EXCEPT ![s] = "disconnected"]
    /\ UNCHANGED <<phase, launches, listed, closes, work, ran, sessions>>

\* The 'error' event, ECONNRESET, and the cleanup of the server base.
ServerReset(s) ==
    /\ sock[s].sv \in {"open", "ended"}
    /\ sock[s].reset /\ Left(sock[s].cl) /\ sock[s].up = <<>>
    /\ sock' = [sock EXCEPT ![s].sv = "closing", ![s].reset = FALSE]
    /\ conn' = [conn EXCEPT ![s] = "error"]
    /\ listed' = listed \ {s}
    /\ UNCHANGED <<phase, launches, closes, work, ran, sessions>>

\* Mutant of ServerClose: nobody hears the 'close' event.
ServerCloseUnheard(s) ==
    /\ sock[s].sv = "closing"
    /\ sock' = [sock EXCEPT ![s].sv = "closed"]
    /\ conn' = [conn EXCEPT ![s] = "disconnected"]
    /\ UNCHANGED <<phase, launches, listed, closes, work, ran, sessions>>

\* The 'close' event.  The sessions of the connection stay: their clean-up
\* waits for an event "disconnect", and the server emits "disconnection".
ServerClose(s) ==
    /\ sock[s].sv = "closing"
    /\ sock' = [sock EXCEPT ![s].sv = "closed"]
    /\ conn' = [conn EXCEPT ![s] = "disconnected"]
    /\ listed' = listed \ {s}
    /\ UNCHANGED <<phase, launches, closes, work, ran, sessions>>

-----------------------------------------------------------------------------
(***************************************************************************)
(* Messages.                                                               *)
(***************************************************************************)

\* send() of each connection in `to', which gets the bytes if it is active.
\* The write that finds the client gone, EPIPE, ends the connection.
Active(s) == conn[s] = "connected" /\ sock[s].sv = "open"

Failing(to) == {s \in to : Active(s) /\ Left(sock[s].cl)}

SentTo(to, bytes) ==
    LET failing == Failing(to)
        reached == {s \in to : Active(s)} \ failing
    IN  /\ sock' = [s \in Sockets |->
                IF s \in failing THEN ServerDestroys(sock[s], "closing")
                ELSE IF s \in reached THEN [sock[s] EXCEPT !.down = @ \o bytes]
                ELSE sock[s]]
        /\ conn' = [s \in Sockets |->
                IF s \in failing THEN "disconnected" ELSE conn[s]]
        /\ listed' = listed \ failing

\* The handler of a command runs: what it does to the managers, and the
\* session of a log that is followed, if its connection is still listed.
Run(w) ==
    LET r == Head(w.left) IN
    /\ ~w.begun
    /\ ran' = ran \cup {r}
    /\ sessions' = IF r \in Following /\ w.s \in listed THEN sessions \cup {w.s}
                                                        ELSE sessions
    /\ work' = (work \ {w}) \cup {[w EXCEPT !.begun = TRUE]}
    /\ UNCHANGED <<phase, launches, conn, listed, closes, sock>>

\* What is left of a chunk when its first message has been answered.
Answered(w) ==
    (work \ {w}) \cup
        (IF Len(w.left) = 1 THEN {}
         ELSE {[s |-> w.s, left |-> Tail(w.left), begun |-> FALSE]})

\* Mutant of Reply: a command is answered before its handler was run.
ReplyEarly(w) ==
    LET r == Head(w.left) IN
    /\ \E ok \in BOOLEAN :
        SentTo({w.s}, Encode([of |-> r, ok |-> ok], r \in LargeAnswers))
    /\ work' = Answered(w)
    /\ UNCHANGED <<phase, launches, closes, ran, sessions>>

\* The answer of the first message: the response of its handler, or an error
\* response, for a handler that threw, and for a command of a type that none
\* is registered for.  What cannot be sent is reported and forgotten.
Reply(w) ==
    LET r == Head(w.left) IN
    /\ \E ok \in BOOLEAN :
        /\ ok => w.begun
        /\ SentTo({w.s}, Encode([of |-> r, ok |-> ok], r \in LargeAnswers))
    /\ work' = Answered(w)
    /\ UNCHANGED <<phase, launches, closes, ran, sessions>>

-----------------------------------------------------------------------------
(***************************************************************************)
(* stop(), and the end of the process, which the daemon's shutdown brings. *)
(***************************************************************************)

\* cleanupAllStreamingSessions, and close() of every listed connection, from a
\* state in which the log has been sent: x, c and l are the connections then.
Closed(x, c, l) ==
    LET open == {s \in l : c[s] # "disconnected"} IN
    /\ phase' = "closing"
    /\ sessions' = {}
    /\ closes' = open
    /\ conn' = [s \in Sockets |-> IF s \in open THEN "disconnected" ELSE c[s]]
    /\ sock' = [s \in Sockets |->
                    IF s \in open /\ x[s].sv = "open"
                    THEN [x[s] EXCEPT !.sv = "ended"] ELSE x[s]]
    /\ listed' = l

StopBegin ==
    /\ phase = "listening"
    /\ Closed(sock, conn, listed)
    /\ UNCHANGED <<launches, work, ran>>

\* close() destroys the socket a second after it ended it.
ForceClose(s) ==
    /\ s \in closes /\ sock[s].sv = "ended"
    /\ sock' = Set(s, ServerDestroys(sock[s], "closing"))
    /\ UNCHANGED <<phase, launches, conn, listed, closes, work, ran, sessions>>

\* All of them are closed: the map is cleared, whoever was accepted meanwhile,
\* and the server stops listening.
StopClosed ==
    /\ phase = "closing"
    /\ \A s \in closes : sock[s].sv = "closed"
    /\ phase' = "draining"
    /\ listed' = {} /\ closes' = {}
    /\ sock' = [s \in Sockets |-> IF sock[s].sv = "backlog"
                                  THEN ServerDestroys(sock[s], "closed")
                                  ELSE sock[s]]
    /\ UNCHANGED <<launches, conn, work, ran, sessions>>

\* The process is gone.
ServerExit ==
    /\ phase' = "down"
    /\ conn' = [s \in Sockets |-> "none"]
    /\ listed' = {} /\ closes' = {} /\ work' = {} /\ sessions' = {}
    /\ sock' = [s \in Sockets |-> ServerGone(sock[s])]
    /\ UNCHANGED <<launches, ran>>

\* server.close() has waited for the connections that are left, or given up
\* after 5 seconds, and the daemon ends.
StopDone == phase = "draining" /\ ServerExit

ServerKilled == phase # "down" /\ ServerExit

Launch ==
    /\ phase = "down" /\ launches < Launches
    /\ phase' = "listening"
    /\ launches' = launches + 1
    /\ UNCHANGED <<conn, listed, closes, work, ran, sessions, sock>>

-----------------------------------------------------------------------------
(***************************************************************************)
(* Streaming.                                                              *)
(***************************************************************************)

EntryMessage == Encode([of |-> Entry, ok |-> FALSE], FALSE)

\* Bound: one entry on its way to a client, where there may be any number.
Unread(s) == Contains(ParseMessages(sock[s].down), [of |-> Entry, ok |-> FALSE])

\* A line is written to a log that is followed.  Every session sends it, and
\* nobody awaits that: a send() that fails is an unhandled rejection, and that
\* shuts the daemon down, unless it is shutting down.
LogEntry ==
    /\ sessions # {} /\ Accepting
    /\ \A s \in sessions : ~Unread(s)
    /\ IF phase = "closing" \/ \A s \in sessions : Active(s) /\ ~Left(sock[s].cl)
       THEN SentTo(sessions, EntryMessage) /\ UNCHANGED <<phase, closes, sessions>>
       ELSE LET failing == Failing(sessions)
            IN  Closed([s \in Sockets |->
                            IF s \in failing
                            THEN ServerDestroys(sock[s], "closing") ELSE sock[s]],
                       [s \in Sockets |->
                            IF s \in failing THEN "disconnected" ELSE conn[s]],
                       listed \ failing)
    /\ UNCHANGED <<launches, work, ran>>

ServerNext ==
    \/ \E s \in Sockets :
        \/ Accept(s) \/ Read(s)
        \/ ServerEnd(s) \/ ServerReset(s) \/ ServerClose(s) \/ ForceClose(s)
    \/ \E w \in work : Run(w) \/ Reply(w)
    \/ StopBegin \/ StopClosed \/ StopDone \/ ServerKilled \/ Launch
    \/ LogEntry
=============================================================================
