-------------------------------- MODULE Ipc ---------------------------------
(***************************************************************************)
(* One client and the daemon, over the sockets between them.               *)
(*                                                                         *)
(* The client finds the daemon listening or not; everything else passes    *)
(* through the sockets.  Either process may be killed at any moment, and   *)
(* the daemon launched again.                                              *)
(***************************************************************************)
EXTENDS IpcClient, IpcServer

vars == <<sock, clientVars, serverVars>>

TypeOK ==
    /\ sock \in [Sockets -> Connection]
    /\ ClientTypeOK
    /\ ServerTypeOK

Init ==
    /\ sock = [s \in Sockets |-> Unused]
    /\ ClientInit
    /\ ServerInit

Next ==
    \/ ClientNext(Accepting) /\ UNCHANGED serverVars
    \/ ServerNext /\ UNCHANGED clientVars

\* Steps of one side leave the other alone.
ClientTimeout(r) == RequestTimeout(r) /\ UNCHANGED serverVars

ServerEvent(s) ==
    /\ \/ Accept(s) \/ ServerEnd(s) \/ ServerReset(s)
       \/ ServerClose(s) \/ ForceClose(s)
    /\ UNCHANGED clientVars

ServerReads(s) == Read(s) /\ UNCHANGED clientVars

StopStep == (StopClosed \/ StopDone) /\ UNCHANGED clientVars

\* Node turns: events of sockets are delivered and timers fire.  Requests, the
\* user of the client, handlers of commands and kills come or do not.
Fairness ==
    /\ \A r \in Requests : WF_vars(ClientTimeout(r))
    /\ \A s \in Sockets : WF_vars(ServerEvent(s)) /\ WF_vars(ServerReads(s))
    /\ WF_vars(StopStep)

Spec == Init /\ [][Next]_vars /\ Fairness

-----------------------------------------------------------------------------
(***************************************************************************)
(* Properties.                                                             *)
(***************************************************************************)

\* The map of pending requests holds the requests whose promise is still to be
\* settled, so that each of them can be settled and none is kept for ever:
\* sendMessage, its timeout, handleResponse, disconnect and the failed write
\* each keep the two together.
PendingIsWaiting == pending = {r \in Requests : call[r] = "waiting"}

\* The daemon serves the connections it lists and no other until it clears its
\* map, and no more than maxConnections: the check at accept counts the map,
\* so a connection that left the map early or stayed behind would break it.
ConnectionsCounted ==
    Accepting =>
        LET served == {s \in Sockets : sock[s].sv \in {"open", "ended"}}
        IN  served \subseteq listed /\ Cardinality(served) <= MaxConnections

\* A connection its client has closed leaves the map, and makes room for
\* another, however the client ended: the 'end', 'error' and 'close' events of
\* base-socket-connection.ts all lead to the cleanup of the server.
ConnectionsLeave ==
    \A s \in Sockets : Left(sock[s].cl) ~> s \notin listed

Calls == INSTANCE Call

\* Client and daemon keep the promise of Call to the caller of sendCommand():
\* answers meet their own request, a command is run at most once, a response
\* that reports success comes from a command that was run, and every request
\* ends in an answer or an error, by its timer at the latest.
ImplementsCalls == Calls!Spec
=============================================================================
