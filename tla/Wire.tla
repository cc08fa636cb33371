-------------------------------- MODULE Wire --------------------------------
(***************************************************************************)
(* How messages become bytes and bytes messages: the serializer of         *)
(* src/daemon/message-protocol.ts, and the parsers of ipc-client-base.ts   *)
(* and ipc-server-base.ts.  MessageBuffer, which keeps the text after the  *)
(* last delimiter, is used by neither.                                     *)
(*                                                                         *)
(* A message is one line of JSON.  What a property can tell apart in it is *)
(* where a chunk of the stream may cut it: a small message is one piece, a *)
(* large one a head and a tail, and its newline comes with its last piece. *)
(***************************************************************************)
EXTENDS Naturals, Sequences

Parts == {"whole", "head", "tail"}

Pieces(Messages) == [msg : Messages, part : Parts]

\* MessageSerializer.serialize
Encode(m, large) ==
    IF large THEN <<[msg |-> m, part |-> "head"], [msg |-> m, part |-> "tail"]>>
             ELSE <<[msg |-> m, part |-> "whole"]>>

\* The messages whose last piece ends a line: every head but a last one is
\* followed by its tail.
Ended(pieces) ==
    LET upTo[i \in 0..Len(pieces)] ==
            IF i = 0 THEN <<>>
            ELSE IF pieces[i].part = "head" THEN upTo[i - 1]
            ELSE Append(upTo[i - 1], pieces[i].msg)
    IN  upTo[Len(pieces)]

\* parseMessages: a chunk is taken by itself.  The tail of a message whose
\* head came with an earlier chunk is no JSON, and neither is a head alone;
\* what handleConcatenatedJSON finds inside of one is an inner object, which
\* no type guard accepts.
ParseMessages(chunk) ==
    IF chunk # <<>> /\ Head(chunk).part = "tail" THEN Ended(Tail(chunk))
                                                 ELSE Ended(chunk)
=============================================================================
