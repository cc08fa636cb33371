-------------------------------- MODULE Call --------------------------------
(***************************************************************************)
(* What the client and the daemon promise the caller of sendCommand():     *)
(* the promise of every request is settled, once; the command was run, and *)
(* only once, if the response says so.  A request that failed may have     *)
(* been run, or may still be run.                                          *)
(***************************************************************************)
EXTENDS Naturals

CONSTANT Requests

VARIABLES
    call,           \* Requests -> the promise
    ran             \* the commands that were run

vars == <<call, ran>>

Init ==
    /\ call = [r \in Requests |-> "unsent"]
    /\ ran = {}

\* A request is sent, or refused on the spot.
Send(r) ==
    /\ call[r] = "unsent"
    /\ \E c \in {"waiting", "failed"} : call' = [call EXCEPT ![r] = c]
    /\ UNCHANGED ran

Run(r) ==
    /\ call[r] # "unsent" /\ r \notin ran
    /\ ran' = ran \cup {r}
    /\ UNCHANGED call

\* Some promises are settled in one step: by one chunk of the stream, or by the
\* end of the client.
Settle ==
    /\ \E settled \in SUBSET {r \in Requests : call[r] = "waiting"} :
        /\ settled # {}
        /\ \E c \in [settled -> {"answered", "refused", "failed"}] :
            /\ \A r \in settled : c[r] = "answered" => r \in ran
            /\ call' = [r \in Requests |-> IF r \in settled THEN c[r] ELSE call[r]]
    /\ UNCHANGED ran

Settled(r) == call[r] \in {"answered", "refused", "failed"}

Next == Settle \/ \E r \in Requests : Send(r) \/ Run(r)

SafeSpec == Init /\ [][Next]_vars

Spec ==
    /\ SafeSpec
    /\ \A r \in Requests : WF_vars(Settle /\ call[r] = "waiting" /\ Settled(r)')
=============================================================================
