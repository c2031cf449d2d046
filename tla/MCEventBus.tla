----------------------------- MODULE MCEventBus -----------------------------
(***************************************************************************)
(* EventBus for TLC: an event that comes from an outbox (it has an id) and *)
(* one that is published directly (it has none); or two that are published *)
(* directly, to two streams.                                               *)
(***************************************************************************)
EXTENDS EventBus, TLC

CONSTANTS relayed, direct, elsewhere, S1, S2, D1, D2

OneStreamIdOf == relayed :> relayed @@ direct :> NoMsgId
OneStream == [x \in {relayed, direct, D1} |-> S1]

NoIds == [e \in {direct, elsewhere} |-> NoMsgId]
TwoStreams == [x \in {direct, D1} |-> S1] @@ [x \in {elsewhere, D2} |-> S2]
=============================================================================
