----------------------------- MODULE JetStream ------------------------------
(***************************************************************************)
(* A NATS JetStream stream as the eventbus package uses it: an append-only *)
(* log of messages that drops a message whose Nats-Msg-Id it has stored    *)
(* within its duplicate window, and reports success all the same.  The     *)
(* server is not in the repository; ensureStreams and Publish              *)
(* (internal/platform/eventbus/streams.go and bus.go) fix what is relied   *)
(* upon.                                                                   *)
(***************************************************************************)
EXTENDS Naturals, Sequences

CONSTANT NoMsgId    \* the message carries no Nats-Msg-Id

EmptyStream == [log |-> <<>>, window |-> {}]

\* Publish returned nil: stored, or dropped as a duplicate.  A message without
\* an id is never taken for one.
Store(stream, msg) ==
    IF msg.id \in stream.window THEN stream
    ELSE [log    |-> Append(stream.log, msg),
          window |-> stream.window \union ({msg.id} \ {NoMsgId})]

\* The Duplicates window (2 minutes) has passed for this id.
ForgetId(stream, id) == [stream EXCEPT !.window = @ \ {id}]
=============================================================================
