------------------------------ MODULE EventBus ------------------------------
(***************************************************************************)
(* Consumption in JetStream mode (internal/platform/eventbus): durable     *)
(* consumers with explicit acknowledgement, at most MaxDeliver attempts,   *)
(* the dead-letter stream and Redeliver, and the idempotency.Guard that    *)
(* the consumers of order.placed and promotion.entry_requested put around  *)
(* their handlers.                                                         *)
(*                                                                         *)
(* A durable is shared by the replicas of its service.  The server pushes  *)
(* a message to one of them and again, to any, when it is negatively       *)
(* acknowledged or when the ack wait (the first BackOff, 1 s) runs out;    *)
(* that can happen while the earlier delivery is still being handled, so   *)
(* attempts overlap.  Delays are left out: a redelivery may come at once.  *)
(* A subscription of one replica runs its callbacks one after another.     *)
(***************************************************************************)
EXTENDS JetStream, FiniteSets

CONSTANTS
    Events,     \* what services and relays publish
    IdOf,       \* event -> its envelope id, or NoMsgId (publishers without outbox);
                \* an Idempotency-Key is the client's: two events may have the same
    Streams,
    Durables,
    StreamOf,   \* event or durable -> its stream
    Replicas,   \* processes of the consuming services
    MaxDeliver, \* retryPolicy.maxDeliver (5)
    MaxLog,     \* bound: messages per stream
    MaxFaults,  \* bound: crashes and failed dead-letter publications together
    MaxLapses   \* bound: ids the duplicate windows forget

ASSUME EventBusAssumption ==
    /\ StreamOf \in [Events \union Durables -> Streams]
    /\ NoMsgId \notin Nat
    /\ IsFiniteSet(Replicas)
    /\ MaxDeliver \in Nat \ {0}
    /\ MaxLog \in Nat /\ MaxFaults \in Nat /\ MaxLapses \in Nat

VARIABLES
    streams,    \* stream -> log and duplicate window
    dlq,        \* the DLQ stream
    tries,      \* durable -> seq -> deliveries so far
    acked,      \* durable -> seqs acknowledged
    flights,    \* deliveries some replica has not answered yet
    seen,       \* replica -> durable -> ids its Guard remembers
    done,       \* durable -> seqs some handler returned nil for (history)
    effects,    \* durable -> id -> how often the guarded function succeeded (history)
    cut,        \* <<durable, seq>> whose last delivery was broken off: its replica died,
                \* or its letter could not be published (history)
    crashes,
    dlqDowns,
    lapses

server == <<streams, dlq, tries, acked>>
history == <<done, effects>>
faults == <<cut, crashes, dlqDowns>>
vars == <<server, flights, seen, history, faults, lapses>>

Seqs == 1..MaxLog

\* An envelope that arrives without an id is given "js-<seq>", here the number:
\* the ids of different streams may then coincide.
Ids == ({IdOf[e] : e \in Events} \ {NoMsgId}) \union Seqs
EnvelopeId(d, seq) ==
    LET msg == streams[StreamOf[d]].log[seq]
    IN  IF msg.id = NoMsgId THEN seq ELSE msg.id
EventAt(d, seq) == streams[StreamOf[d]].log[seq].event

Stored(d) == 1..Len(streams[StreamOf[d]].log)

Message == [id : Ids \union {NoMsgId}, event : Events]

\* st: in the client's buffer; the handler returned an error; what is left to do
\* is the Ack.
Flight == [d : Durables, to : Replicas, seq : Seqs, n : 1..MaxDeliver,
           st : {"queued", "failed", "settled"}]
Letter == [id : Ids, d : Durables, seq : Seqs, event : Events]

TypeOK ==
    /\ streams \in [Streams -> [log : Seq(Message), window : SUBSET Ids]]
    /\ \A s \in Streams : Len(streams[s].log) <= MaxLog
    /\ dlq \in [log : Seq(Letter), window : SUBSET Ids]
    /\ tries \in [Durables -> [Seqs -> 0..MaxDeliver]]
    /\ acked \in [Durables -> SUBSET Seqs]
    /\ flights \subseteq Flight
    /\ seen \in [Replicas -> [Durables -> SUBSET Ids]]
    /\ done \in [Durables -> SUBSET Seqs]
    /\ effects \in [Durables -> [Ids -> Nat]]
    /\ cut \subseteq Durables \X Seqs
    /\ crashes \in Nat /\ dlqDowns \in Nat /\ crashes + dlqDowns <= MaxFaults
    /\ lapses \in 0..MaxLapses

Init ==
    /\ streams = [s \in Streams |-> EmptyStream]
    /\ dlq = EmptyStream
    /\ tries = [d \in Durables |-> [seq \in Seqs |-> 0]]
    /\ acked = [d \in Durables |-> {}]
    /\ flights = {}
    /\ seen = [p \in Replicas |-> [d \in Durables |-> {}]]
    /\ done = [d \in Durables |-> {}]
    /\ effects = [d \in Durables |-> [i \in Ids |-> 0]]
    /\ cut = {}
    /\ crashes = 0
    /\ dlqDowns = 0
    /\ lapses = 0

-----------------------------------------------------------------------------
\* Publishing

Send(s, msg) ==
    /\ Len(streams[s].log) < MaxLog
    /\ streams' = [streams EXCEPT ![s] = Store(@, msg)]
    /\ UNCHANGED <<dlq, tries, acked, flights, seen, history, faults, lapses>>

\* A direct publisher publishes its event once, a relay possibly again.
Publish(e) ==
    /\ IdOf[e] = NoMsgId =>
         \A i \in 1..Len(streams[StreamOf[e]].log) : streams[StreamOf[e]].log[i].event # e
    /\ Send(StreamOf[e], [id |-> IdOf[e], event |-> e])

\* Redeliver publishes the buried envelope, its id filled in, to its subject.
Redeliver(i) ==
    LET letter == dlq.log[i]
    IN  Send(StreamOf[letter.d], [id |-> letter.id, event |-> letter.event])

\* A duplicate window lapses.
Forget(s, id) ==
    /\ lapses < MaxLapses
    /\ id \in streams[s].window
    /\ streams' = [streams EXCEPT ![s] = ForgetId(@, id)]
    /\ lapses' = lapses + 1
    /\ UNCHANGED <<dlq, tries, acked, flights, seen, history, faults>>

-----------------------------------------------------------------------------
\* The server

\* Mutants: one attempt more than configured; no redelivery.
MayDeliverOneMore(d, seq) == seq \notin acked[d] /\ tries[d][seq] <= MaxDeliver
MayDeliverOnce(d, seq) == seq \notin acked[d] /\ tries[d][seq] = 0
MayDeliver(d, seq) == seq \notin acked[d] /\ tries[d][seq] < MaxDeliver

\* The first delivery, a redelivery after a Nak or after the ack wait.
Deliver(d, seq, p) ==
    /\ seq \in Stored(d)
    /\ MayDeliver(d, seq)
    /\ tries' = [tries EXCEPT ![d][seq] = @ + 1]
    /\ flights' = flights \union
         {[d |-> d, to |-> p, seq |-> seq, n |-> tries[d][seq] + 1, st |-> "queued"]}
    /\ UNCHANGED <<streams, dlq, acked, seen, history, faults, lapses>>

-----------------------------------------------------------------------------
\* The callback of Subscribe

Move(f, st) == flights' = (flights \ {f}) \union {[f EXCEPT !.st = st]}
Land(f) == flights' = flights \ {f}

\* One callback of a subscription at a time.
CallbackFree(f) ==
    \A g \in flights : g.to = f.to /\ g.d = f.d => g.st = "queued"

\* Guard.Do: a known id is a success without running the handler's function.
Known(f) == EnvelopeId(f.d, f.seq) \in seen[f.to][f.d]

\* Mutant: the Guard forgets to record what it ran.
RecordNothing(f) == UNCHANGED seen
Record(f) == seen' = [seen EXCEPT ![f.to][f.d] = @ \union {EnvelopeId(f.d, f.seq)}]

HandleKnown(f) ==
    /\ f.st = "queued"
    /\ CallbackFree(f)
    /\ Known(f)
    /\ done' = [done EXCEPT ![f.d] = @ \union {f.seq}]
    /\ Move(f, "settled")
    /\ UNCHANGED <<server, seen, effects, faults, lapses>>

HandleOk(f) ==
    /\ f.st = "queued"
    /\ CallbackFree(f)
    /\ ~Known(f)
    /\ effects' = [effects EXCEPT ![f.d][EnvelopeId(f.d, f.seq)] = @ + 1]
    /\ Record(f)
    /\ done' = [done EXCEPT ![f.d] = @ \union {f.seq}]
    /\ Move(f, "settled")
    /\ UNCHANGED <<server, faults, lapses>>

\* An error is not recorded by the Guard: the next attempt runs again.
HandleFails(f) ==
    /\ f.st = "queued"
    /\ CallbackFree(f)
    /\ ~Known(f)
    /\ Move(f, "failed")
    /\ UNCHANGED <<server, seen, history, faults, lapses>>

Ack(f) ==
    /\ f.st = "settled"
    /\ acked' = [acked EXCEPT ![f.d] = @ \union {f.seq}]
    /\ Land(f)
    /\ UNCHANGED <<streams, dlq, tries, seen, history, faults, lapses>>

\* Mutant: the last attempt is never recognised.
LastAttemptNever(f) == f.n > MaxDeliver
LastAttempt(f) == f.n >= MaxDeliver

Nak(f) ==
    /\ f.st = "failed"
    /\ ~LastAttempt(f)
    /\ Land(f)
    /\ UNCHANGED <<server, seen, history, faults, lapses>>

LetterOf(f) ==
    [id |-> EnvelopeId(f.d, f.seq), d |-> f.d, seq |-> f.seq,
     event |-> EventAt(f.d, f.seq)]

\* Mutant: the Ack does not wait for the dead letter.
BuryNothing(f) ==
    /\ f.st = "failed"
    /\ LastAttempt(f)
    /\ Move(f, "settled")
    /\ UNCHANGED <<server, seen, history, faults, lapses>>

\* publishDeadLetter succeeds, the Ack is next.
Bury(f) ==
    /\ f.st = "failed"
    /\ LastAttempt(f)
    /\ dlq' = Store(dlq, LetterOf(f))
    /\ Move(f, "settled")
    /\ UNCHANGED <<streams, tries, acked, seen, history, faults, lapses>>

\* publishDeadLetter fails: a Nak.  The server has no attempt left to make.
BuryFails(f) ==
    /\ f.st = "failed"
    /\ LastAttempt(f)
    /\ crashes + dlqDowns < MaxFaults
    /\ dlqDowns' = dlqDowns + 1
    /\ cut' = cut \union {<<f.d, f.seq>>}
    /\ Land(f)
    /\ UNCHANGED <<server, seen, history, crashes, lapses>>

\* A replica dies and comes back: its callbacks and its Guards are gone.
Crash(p) ==
    /\ crashes + dlqDowns < MaxFaults
    /\ crashes' = crashes + 1
    /\ flights' = {f \in flights : f.to # p}
    /\ cut' = cut \union {<<f.d, f.seq>> : f \in {g \in flights : g.to = p /\ LastAttempt(g)}}
    /\ seen' = [seen EXCEPT ![p] = [d \in Durables |-> {}]]
    /\ UNCHANGED <<server, history, dlqDowns, lapses>>

Callback(f) ==
    \/ HandleKnown(f)
    \/ HandleOk(f)
    \/ HandleFails(f)
    \/ Ack(f)
    \/ Nak(f)
    \/ Bury(f)
    \/ BuryFails(f)

Next ==
    \/ \E e \in Events : Publish(e)
    \/ \E i \in 1..Len(dlq.log) : Redeliver(i)
    \/ \E s \in Streams : \E id \in streams[s].window : Forget(s, id)
    \/ \E d \in Durables, seq \in Seqs, p \in Replicas : Deliver(d, seq, p)
    \/ \E f \in flights : Callback(f)
    \/ \E p \in Replicas : Crash(p)

Spec == Init /\ [][Next]_vars

\* The server delivers what it may deliver; a replica answers what it was sent.
Fairness ==
    /\ \A d \in Durables, seq \in Seqs : WF_vars(\E p \in Replicas : Deliver(d, seq, p))
    /\ \A f \in Flight : WF_vars(f \in flights /\ Callback(f))

FairSpec == Spec /\ Fairness

-----------------------------------------------------------------------------
\* Properties

\* The server will not deliver the message to this durable again, and nobody
\* holds a delivery of it.
Settled(d, seq) ==
    /\ seq \in acked[d] \/ tries[d][seq] = MaxDeliver
    /\ \A f \in flights : ~(f.d = d /\ f.seq = seq)

\* A letter of this very event is in the DLQ, from this durable or from another:
\* the same event is buried once.
Buried(d, seq) ==
    \E i \in 1..Len(dlq.log) :
        /\ dlq.log[i].id = EnvelopeId(d, seq)
        /\ dlq.log[i].event = EventAt(d, seq)

\* A publisher gave one of the events the id of the other.
Clash(e1, e2) ==
    \/ IdOf[e1] # NoMsgId /\ IdOf[e1] = IdOf[e2]
    \/ {IdOf[e1], IdOf[e2]} \intersect Seqs # {}

\* The DLQ takes the letter of this event for one it has of another event: both are
\* js-<seq> in two streams, or their publishers' ids clash.
Shadowed(d, seq) ==
    \E i \in 1..Len(dlq.log) :
        LET l == dlq.log[i]
        IN  /\ l.id = EnvelopeId(d, seq)
            /\ l.event # EventAt(d, seq)
            /\ StreamOf[l.d] # StreamOf[d] \/ Clash(l.event, EventAt(d, seq))

\* An acknowledgement is never given away: the message was handled, or its letter was
\* in the DLQ before ("publish to the DLQ, then Ack") - or was dropped there, under
\* another event's id.  And a letter is written only when every attempt has been
\* used, by a durable that really was sent that message.
AcksAreEarned ==
    /\ \A d \in Durables : \A seq \in acked[d] :
         seq \in done[d] \/ Buried(d, seq) \/ Shadowed(d, seq)
    /\ \A i \in 1..Len(dlq.log) :
         LET l == dlq.log[i]
         IN  /\ l.seq \in Stored(l.d)
             /\ tries[l.d][l.seq] = MaxDeliver
             /\ l.event = EventAt(l.d, l.seq)

\* Nobody works on the message any more, and it was neither handled nor buried.
Lost(d, seq) == Settled(d, seq) /\ seq \notin done[d] /\ ~Buried(d, seq)

\* What a message is lost by: its own last delivery was broken off, by a crash or by a
\* letter that could not be published, or its letter was taken for another event's.
\* Whatever else fails, a message with an attempt left is not lost.
LossNeedsFault ==
    \A d \in Durables : \A seq \in Stored(d) :
        Lost(d, seq) => <<d, seq>> \in cut \/ Shadowed(d, seq)

\* What bus.go says of a letter that can not be published: "no Ack but a Nak - try
\* again rather than lose it".
RetriedRatherThanLost ==
    crashes = 0 => \A d \in Durables : \A seq \in Stored(d) : ~Lost(d, seq)

\* What bus.go says of a durable: it remembers its position, so nothing is missed
\* when a consumer is restarted.
RestartMissesNothing ==
    dlqDowns = 0 => \A d \in Durables : \A seq \in Stored(d) : ~Lost(d, seq)

\* What streams.go says of the DLQ: what could not be handled is kept, not lost.
EveryLetterIsKept ==
    crashes + dlqDowns = 0 => \A d \in Durables : \A seq \in Stored(d) : ~Lost(d, seq)

\* "Handled twice is the same as handled once" (idempotency package), as far as a
\* Guard in memory can keep it: attempts overlap, messages are sent twice or
\* redelivered from the DLQ, but an id takes effect at most once in the life of
\* each replica.
EffectsNeedALife ==
    \A d \in Durables, id \in Ids : effects[d][id] <= Cardinality(Replicas) + crashes

\* No message is left hanging: each is handled, buried or given up.
EverythingSettles ==
    \A d \in Durables, seq \in Seqs : seq \in Stored(d) ~> Settled(d, seq)
=============================================================================
