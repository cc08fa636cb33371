----------------------------- MODULE IpcClient -----------------------------
(***************************************************************************)
(* The client of the daemon, src/daemon/ipc-client-base.ts and             *)
(* unix-socket-client.ts: one connection at a time, a map of the requests  *)
(* that await their response, a heartbeat, and a timer that reconnects.    *)
(*                                                                         *)
(* Every action is one turn of the event loop.  Handlers hang on a socket, *)
(* not on the client's current socket: a socket the client has replaced    *)
(* goes on changing the status.                                            *)
(*                                                                         *)
(* The command line (mode "cli") turns reconnection off and listens to no  *)
(* 'error' event, so that emitting one throws; as a library the client     *)
(* reconnects, and its user listens.                                       *)
(***************************************************************************)
EXTENDS Socket, SequencesExt

CONSTANT
    LargeRequests   \* the commands that may not fit into one chunk

ASSUME ClientAssumption == LargeRequests \subseteq Requests

VARIABLES
    mode,           \* "cli" or "library"
    alive,          \* does the process of the client run?
    status,         \* connectionStatus
    socket,         \* the current socket
    handled,        \* the sockets our event handlers hang on
    dialing,        \* the socket a call of connect() waits for
    dialTimer,      \* is connectionTimeout set?
    retry,          \* is reconnectTimer set?
    heart,          \* heartbeatTimer, pendingPingId, lastPongReceived
    closing,        \* is a call of disconnect() waiting for 'close'?
    call,           \* Requests -> the promise of sendCommand
    pending         \* pendingRequests

clientVars == <<mode, alive, status, socket, handled, dialing, dialTimer,
                retry, heart, closing, call, pending>>

\* Intervals since the last pong, as far as the code tells them apart.
Silences == 0..2

NoHeart == [on |-> FALSE, ping |-> FALSE, silence |-> 0]

ClientTypeOK ==
    /\ mode \in {"cli", "library"}
    /\ alive \in BOOLEAN
    /\ status \in {"disconnected", "connecting", "connected", "error"}
    /\ {socket, dialing} \subseteq Sockets \cup {NoSocket}
    /\ handled \subseteq Sockets
    /\ {dialTimer, retry, closing} \subseteq BOOLEAN
    /\ heart \in [on : BOOLEAN, ping : BOOLEAN, silence : Silences]
    /\ call \in [Requests -> {"unsent", "waiting", "answered", "refused",
                              "failed"}]
    /\ pending \subseteq Requests

ClientInit ==
    /\ mode \in {"cli", "library"}
    /\ alive = TRUE
    /\ status = "disconnected"
    /\ socket = NoSocket /\ dialing = NoSocket /\ handled = {}
    /\ dialTimer = FALSE /\ retry = FALSE /\ closing = FALSE
    /\ heart = NoHeart
    /\ call = [r \in Requests |-> "unsent"]
    /\ pending = {}

\* Reject every pending request.
AllRejected ==
    [r \in Requests |-> IF r \in pending THEN "failed" ELSE call[r]]

\* The process of the client ends, for a signal or for an exception nobody
\* catches; x is the state of the connections when it does.
ClientExit(x) ==
    /\ alive' = FALSE
    /\ sock' = [s \in Sockets |-> ClientGone(x[s])]
    /\ status' = "disconnected"
    /\ socket' = NoSocket /\ dialing' = NoSocket /\ handled' = {}
    /\ dialTimer' = FALSE /\ retry' = FALSE /\ closing' = FALSE
    /\ heart' = NoHeart
    /\ call' = AllRejected
    /\ pending' = {}
    /\ UNCHANGED mode

\* handleConnectionError, and the 'error' event nobody listens to.
ConnectionError(x, beat) ==
    \/ /\ mode = "cli"
       /\ ClientExit(x)
    \/ /\ mode = "library"
       /\ sock' = x
       /\ heart' = beat
       /\ status' = "error"
       /\ retry' = TRUE
       /\ UNCHANGED <<mode, alive, socket, handled, dialing, dialTimer, closing,
                      call, pending>>

Writable(s) == s # NoSocket /\ sock[s].cl = "open"

\* The write that finds the other end gone: EPIPE destroys the socket.
Broken(s) == Set(s, ClientDestroys(sock[s], "closing"))

-----------------------------------------------------------------------------
(***************************************************************************)
(* connect()                                                               *)
(***************************************************************************)

Fresh == {s \in Sockets : sock[s].cl = "free"}

\* connectToServer against a server that listens.
Dial(s) ==
    /\ status' = "connecting"
    /\ socket' = s
    /\ dialing' = s
    /\ dialTimer' = TRUE
    /\ handled' = handled \cup {s}
    /\ sock' = Set(s, [Unused EXCEPT !.cl = "dialing", !.sv = "backlog"])
    /\ UNCHANGED <<mode, alive, heart, closing, call, pending>>

\* No socket file: the exception of connectToServer.  Without a listener the
\* 'error' event throws before the reconnection is scheduled.
DialNoFile ==
    /\ status' = "error"
    /\ retry' = (mode = "library")
    /\ UNCHANGED <<mode, alive, socket, handled, dialing, dialTimer, heart,
                   closing, call, pending, sock>>

\* A socket file nobody listens on: ECONNREFUSED reaches the error handler of
\* the socket before that of the call.
DialRefused(s) ==
    LET x == Set(s, [Unused EXCEPT !.cl = "closing"]) IN
    \/ mode = "cli" /\ ClientExit(x)
    \/ /\ mode = "library"
       /\ sock' = x
       /\ status' = "error"
       /\ socket' = s
       /\ handled' = handled \cup {s}
       /\ retry' = TRUE
       /\ UNCHANGED <<mode, alive, dialing, dialTimer, heart, closing, call,
                      pending>>

\* A bound as much as a guard: one dial, or one disconnect(), is over before
\* the next connect().  A command line connects once.
MayDial ==
    /\ alive
    /\ mode = "cli" => Fresh = Sockets
    /\ status \notin {"connected", "connecting"}
    /\ dialing = NoSocket /\ ~closing
    /\ Fresh # {}

\* connect(), called by the user or by the timer.
Dials(listening, timer) ==
    LET s == CHOOSE f \in Fresh : TRUE IN
    /\ MayDial
    /\ \/ listening /\ Dial(s) /\ retry' = timer
       \/ ~listening /\ (DialNoFile \/ DialRefused(s))

Connect(listening) == Dials(listening, retry)

\* The reconnect timer: connect(), unless the client is connected.
RetryTimer(listening) ==
    /\ retry
    /\ \/ Dials(listening, FALSE)
       \/ /\ alive /\ status \in {"connected", "connecting"}
          /\ retry' = FALSE
          /\ UNCHANGED <<mode, alive, status, socket, handled, dialing,
                         dialTimer, heart, closing, call, pending, sock>>

\* startHeartbeat: nothing is reset while the timer of an earlier connection
\* still runs.
Beating == IF heart.on THEN heart ELSE [heart EXCEPT !.on = TRUE, !.silence = 0]

\* The 'connect' event.  A client that was told to disconnect meanwhile is
\* connected none the less, on a socket that has ended.
Connected ==
    LET s == dialing IN
    /\ s # NoSocket
    /\ sock[s].cl = "dialing"
    /\ dialing' = NoSocket
    /\ dialTimer' = FALSE
    /\ status' = "connected"
    /\ heart' = Beating
    /\ sock' = [sock EXCEPT ![s].cl = IF closing THEN "ended" ELSE "open"]
    /\ UNCHANGED <<mode, alive, socket, handled, retry, closing, call, pending>>

\* connectionTimeout: connect() fails and the socket is destroyed.
DialTimeout ==
    /\ dialTimer
    /\ dialTimer' = FALSE
    /\ dialing' = NoSocket
    /\ status' = "error"
    /\ retry' = (retry \/ mode = "library")
    /\ sock' = Broken(dialing)
    /\ UNCHANGED <<mode, alive, socket, handled, heart, closing, call, pending>>

-----------------------------------------------------------------------------
(***************************************************************************)
(* Requests, sendMessage() and handleData()                                *)
(***************************************************************************)

\* The promise is rejected before anybody sees it pending: the client is not
\* connected, or its socket cannot be written to.
SendRejected(r) ==
    /\ status # "connected" \/ ~Writable(socket)
    /\ call' = [call EXCEPT ![r] = "failed"]
    /\ UNCHANGED <<status, pending, sock>>

SendBroken(r) ==
    /\ status = "connected" /\ Writable(socket) /\ Left(sock[socket].sv)
    /\ call' = [call EXCEPT ![r] = "failed"]
    /\ status' = "disconnected"
    /\ sock' = Broken(socket)
    /\ UNCHANGED pending

SendWritten(r) ==
    /\ status = "connected" /\ Writable(socket) /\ ~Left(sock[socket].sv)
    /\ call' = [call EXCEPT ![r] = "waiting"]
    /\ pending' = pending \cup {r}
    /\ sock' = [sock EXCEPT ![socket].up = @ \o Encode(r, r \in LargeRequests)]
    /\ UNCHANGED status

\* sendCommand(): the request, its timer, and the write.
Send(r) ==
    /\ alive
    /\ call[r] = "unsent"
    /\ SendRejected(r) \/ SendBroken(r) \/ SendWritten(r)
    /\ UNCHANGED <<mode, alive, socket, handled, dialing, dialTimer, retry,
                   heart, closing>>

\* Mutant of RequestTimeout: the request stays in the map.
RequestTimeoutLeaks(r) ==
    /\ call[r] = "waiting"
    /\ call' = [call EXCEPT ![r] = "failed"]
    /\ UNCHANGED <<mode, alive, status, socket, handled, dialing, dialTimer,
                   retry, heart, closing, pending, sock>>

\* The timer of sendMessage.
RequestTimeout(r) ==
    /\ r \in pending
    /\ pending' = pending \ {r}
    /\ call' = [call EXCEPT ![r] = "failed"]
    /\ UNCHANGED <<mode, alive, status, socket, handled, dialing, dialTimer,
                   retry, heart, closing, sock>>

\* processMessage and handleResponse: what is no response, or not the response
\* to a pending request, changes nothing.  The heartbeat waits for a message of
\* type "pong", which the daemon does not send.
Answers(messages) ==
    {a \in Down : a.of \in pending /\ Contains(messages, a)}

\* The 'data' event: one read.  Without handlers the bytes are dropped.
Data(s) ==
    /\ alive
    /\ sock[s].cl \in {"open", "ended"}
    /\ \E chunk \in Chunks(sock[s].down) :
        LET got == IF s \in handled THEN Answers(ParseMessages(chunk)) ELSE {}
        IN  /\ sock' = [sock EXCEPT ![s].down = After(chunk, @)]
            /\ pending' = pending \ {a.of : a \in got}
            /\ call' = [r \in Requests |->
                    IF [of |-> r, ok |-> TRUE] \in got THEN "answered"
                    ELSE IF [of |-> r, ok |-> FALSE] \in got THEN "refused"
                    ELSE call[r]]
    /\ UNCHANGED <<mode, alive, status, socket, handled, dialing, dialTimer,
                   retry, heart, closing>>

-----------------------------------------------------------------------------
(***************************************************************************)
(* The heartbeat.                                                          *)
(***************************************************************************)

Later(n) == IF n = 2 THEN 2 ELSE n + 1

Silent == [heart EXCEPT !.silence = Later(@)]

\* More than two intervals since the last pong: certain at the third tick, and
\* at the second if the clock says so.
MayBeDead == heart.ping /\ heart.silence >= 1
MustBeDead == heart.ping /\ heart.silence = 2

Pinged == [Silent EXCEPT !.ping = TRUE]

\* A ping that could be written.  It is left off the wire: the daemon answers
\* it with a message of type "response", where handleResponse waits for "pong",
\* and no pending request has its id, so that the answer changes nothing.
PingWritten ==
    /\ Writable(socket) /\ ~Left(sock[socket].sv)
    /\ heart' = Pinged
    /\ UNCHANGED <<mode, alive, status, socket, handled, dialing, dialTimer,
                   retry, closing, call, pending, sock>>

\* The callback of the interval.
HeartbeatTick ==
    /\ alive /\ heart.on
    /\ \/ /\ status # "connected"
          /\ heart.silence < 2
          /\ heart' = Silent
          /\ UNCHANGED <<mode, alive, status, socket, handled, dialing,
                         dialTimer, retry, closing, call, pending, sock>>
       \/ status = "connected" /\ MayBeDead /\ ConnectionError(sock, Silent)
       \/ status = "connected" /\ ~MustBeDead /\ PingWritten
       \/ status = "connected" /\ ~MustBeDead /\ ~Writable(socket)
          /\ ConnectionError(sock, Pinged)
       \/ status = "connected" /\ ~MustBeDead /\ Writable(socket)
          /\ Left(sock[socket].sv) /\ ConnectionError(Broken(socket), Pinged)

-----------------------------------------------------------------------------
(***************************************************************************)
(* disconnect(), and the events of a socket that ends.                     *)
(***************************************************************************)

\* disconnect(): it returns at once if the status says so, leaving the timers.
\* Otherwise the handlers go from the current socket and it is told to end.
Disconnect ==
    /\ alive /\ ~closing
    /\ status # "disconnected"
    /\ retry' = FALSE /\ heart' = NoHeart
    /\ call' = AllRejected
    /\ pending' = {}
    /\ \/ /\ socket = NoSocket
          /\ status' = "disconnected"
          /\ UNCHANGED <<closing, dialTimer, handled, sock>>
       \/ /\ socket # NoSocket
          /\ closing' = TRUE
          /\ dialTimer' = FALSE
          /\ handled' = handled \ {socket}
          /\ sock' = [sock EXCEPT ![socket].cl =
                        IF @ = "open" THEN "ended" ELSE @]
          /\ UNCHANGED status
    /\ UNCHANGED <<mode, alive, socket, dialing>>

Disconnected ==
    /\ status' = "disconnected"
    /\ socket' = NoSocket
    /\ closing' = FALSE

\* The second a graceful close may take is over.  A dial that this destroys
\* never settles.
CloseTimeout ==
    /\ closing
    /\ Disconnected
    /\ sock' = IF sock[socket].cl = "closed" THEN sock
               ELSE Set(socket, ClientDestroys(sock[socket], "closed"))
    /\ dialing' = NoSocket
    /\ UNCHANGED <<mode, alive, handled, dialTimer, retry, heart, call, pending>>

\* The 'close' event, the last of a socket.
CloseEvent(s) ==
    /\ alive
    /\ sock[s].cl = "closing"
    /\ sock' = [sock EXCEPT ![s].cl = "closed"]
    /\ IF closing /\ s = socket THEN Disconnected
       ELSE /\ status' = IF s \in handled THEN "disconnected" ELSE status
            /\ UNCHANGED <<socket, closing>>
    /\ handled' = handled \ {s}
    /\ UNCHANGED <<mode, alive, dialing, dialTimer, retry, heart, call, pending>>

\* The 'end' event: the daemon has ended its side, and Node ends ours.
EndEvent(s) ==
    /\ alive
    /\ sock[s].cl \in {"open", "ended"}
    /\ Finished(sock[s].sv) /\ ~sock[s].reset /\ sock[s].down = <<>>
    /\ sock' = [sock EXCEPT ![s].cl = "closing"]
    /\ status' = IF s \in handled THEN "disconnected" ELSE status
    /\ UNCHANGED <<mode, alive, socket, handled, dialing, dialTimer, retry,
                   heart, closing, call, pending>>

\* The 'error' event, ECONNRESET.  disconnect() has removed the handler that
\* would catch it.
ResetEvent(s) ==
    LET x == [sock EXCEPT ![s].cl = "closing", ![s].reset = FALSE] IN
    /\ alive
    /\ sock[s].cl \in {"open", "ended"}
    /\ sock[s].reset /\ Left(sock[s].sv) /\ sock[s].down = <<>>
    /\ \/ s \in handled /\ ConnectionError(x, heart)
       \/ s \notin handled /\ ClientExit(x)

\* The process of the client is killed.
ClientKilled == alive /\ ClientExit(sock)

ClientNext(listening) ==
    \/ Connect(listening) \/ RetryTimer(listening)
    \/ Connected \/ DialTimeout
    \/ \E r \in Requests : Send(r) \/ RequestTimeout(r)
    \/ HeartbeatTick
    \/ Disconnect \/ CloseTimeout
    \/ \E s \in Sockets : Data(s) \/ EndEvent(s) \/ ResetEvent(s) \/ CloseEvent(s)
    \/ ClientKilled
=============================================================================
