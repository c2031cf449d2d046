--------------------------- MODULE EventBusProofs ---------------------------
(***************************************************************************)
(* The safety of consumption for any events, streams, durables, replicas,  *)
(* attempts, faults and lapses of the duplicate windows.                   *)
(*                                                                         *)
(* AcksAreEarned is kept by what is about to be acknowledged: a settled    *)
(* flight was handled, or a letter under its id is in the DLQ - which may  *)
(* have dropped its own as the duplicate of that one (DlqWindowIsStored).  *)
(* LossNeedsFault is kept by the last attempt: it is in flight until its   *)
(* message is handled or buried, or is broken off.  Which event an id      *)
(* names in a stream (Names) says whose letter it can be.  The effects of  *)
(* an id are at most the Guards that know it and those that forgot it in a *)
(* crash.                                                                  *)
(***************************************************************************)
EXTENDS EventBus, FiniteSetTheorems, SequenceTheorems, TLAPS

\* A letter under the message's id is in the DLQ: its own, or another event's.
Named(d, seq) == \E i \in 1..Len(dlq.log) : dlq.log[i].id = EnvelopeId(d, seq)

TriedIsStored ==
    /\ \A d \in Durables : \A seq \in Seqs : tries[d][seq] # 0 => seq \in Stored(d)
    /\ \A d \in Durables : acked[d] \subseteq Stored(d)
    /\ \A f \in flights : f.n <= tries[f.d][f.seq]

DlqWindowIsStored ==
    \A id \in dlq.window : \E i \in 1..Len(dlq.log) : dlq.log[i].id = id

SettledIsEarned ==
    \A f \in flights : f.st = "settled" => f.seq \in done[f.d] \/ Named(f.d, f.seq)

AcksAreNamed ==
    /\ \A d \in Durables : \A seq \in acked[d] : seq \in done[d] \/ Named(d, seq)
    /\ \A i \in 1..Len(dlq.log) :
         LET l == dlq.log[i]
         IN  /\ l.seq \in Stored(l.d)
             /\ tries[l.d][l.seq] = MaxDeliver
             /\ l.event = EventAt(l.d, l.seq)

LastIsInFlight ==
    \A d \in Durables : \A seq \in Seqs : tries[d][seq] = MaxDeliver =>
        \/ seq \in done[d] \/ Named(d, seq) \/ <<d, seq>> \in cut
        \/ \E f \in flights : f.d = d /\ f.seq = seq /\ f.n = MaxDeliver

\* The replicas whose Guard knows the id.
Knowing(d, id) == {p \in Replicas : id \in seen[p][d]}

EffectsAreKnown ==
    \A d \in Durables, id \in Ids : effects[d][id] <= Cardinality(Knowing(d, id)) + crashes

IInv ==
    /\ TypeOK
    /\ TriedIsStored
    /\ DlqWindowIsStored
    /\ SettledIsEarned
    /\ AcksAreNamed
    /\ LastIsInFlight
    /\ EffectsAreKnown

-----------------------------------------------------------------------------
\* What Store does to a stream of messages M.
LEMMA StoreAdds ==
  ASSUME NEW M, NEW stream, stream \in [log : Seq(M), window : SUBSET Ids],
         NEW msg, msg \in M, msg.id \in Ids \union {NoMsgId},
         NEW new, new = Store(stream, msg)
  PROVE  /\ new \in [log : Seq(M), window : SUBSET Ids]
         /\ Len(stream.log) \in Nat /\ Len(new.log) \in {Len(stream.log), Len(stream.log) + 1}
         /\ \A i \in 1..Len(stream.log) : i \in 1..Len(new.log) /\ new.log[i] = stream.log[i]
         /\ \A i \in 1..Len(new.log) : i \in 1..Len(stream.log) \/ new.log[i] = msg
         /\ \A id \in new.window : id \in stream.window \/ id = msg.id
         /\ msg.id \notin stream.window => \E i \in 1..Len(new.log) : new.log[i] = msg
  <1>0. stream.log \in Seq(M) /\ stream.window \in SUBSET Ids /\ Len(stream.log) \in Nat
    BY LenProperties
  <1>1. CASE msg.id \in stream.window
    BY <1>0, <1>1 DEF Store
  <1>2. CASE msg.id \notin stream.window
    <2> DEFINE log == Append(stream.log, msg)
    <2>1. new = [log |-> log, window |-> stream.window \union ({msg.id} \ {NoMsgId})]
      BY <1>2 DEF Store
    <2>2. /\ log \in Seq(M) /\ Len(log) = Len(stream.log) + 1
          /\ \A i \in 1..Len(stream.log) : log[i] = stream.log[i]
          /\ log[Len(stream.log) + 1] = msg
      BY <1>0, AppendProperties
    <2> HIDE DEF log
    <2>3. new.log = log /\ new.window = stream.window \union ({msg.id} \ {NoMsgId})
      BY <2>1
    <2>4. new \in [log : Seq(M), window : SUBSET Ids]
      BY <1>0, <2>1, <2>2
    <2>5. /\ Len(stream.log) + 1 \in 1..Len(new.log)
          /\ \A i \in 1..Len(new.log) : i \in 1..Len(stream.log) \/ new.log[i] = msg
          /\ \A i \in 1..Len(stream.log) : i \in 1..Len(new.log)
      BY <1>0, <2>2, <2>3
    <2> QED
      BY <1>0, <2>2, <2>3, <2>4, <2>5
  <1> QED
    BY <1>1, <1>2

LEMMA Shapes ==
  ASSUME TypeOK
  PROVE  /\ \A s \in Streams : /\ streams[s] \in [log : Seq(Message), window : SUBSET Ids]
                               /\ Len(streams[s].log) \in Nat
                               /\ Len(streams[s].log) <= MaxLog
         /\ \A d \in Durables : StreamOf[d] \in Streams /\ Stored(d) \subseteq Seqs
         /\ \A d \in Durables : \A seq \in Stored(d) :
              EnvelopeId(d, seq) \in Ids /\ EventAt(d, seq) \in Events
         /\ Len(dlq.log) \in Nat
         /\ \A i \in 1..Len(dlq.log) : dlq.log[i] \in Letter
  <1>1. \A s \in Streams : /\ streams[s] \in [log : Seq(Message), window : SUBSET Ids]
                           /\ streams[s].log \in Seq(Message)
                           /\ Len(streams[s].log) <= MaxLog
    BY DEF TypeOK
  <1>2. \A s \in Streams : /\ Len(streams[s].log) \in Nat
                           /\ \A i \in 1..Len(streams[s].log) : streams[s].log[i] \in Message
    BY <1>1, LenProperties, ElementOfSeq
  <1>3. \A d \in Durables : StreamOf[d] \in Streams
    BY EventBusAssumption
  <1>4. \A d \in Durables : Stored(d) \subseteq Seqs
    BY <1>1, <1>2, <1>3, EventBusAssumption DEF Stored, Seqs
  <1>5. ASSUME NEW d \in Durables, NEW seq \in Stored(d)
        PROVE  EnvelopeId(d, seq) \in Ids /\ EventAt(d, seq) \in Events
    <2>1. streams[StreamOf[d]].log[seq] \in Message
      BY <1>2, <1>3 DEF Stored
    <2>2. seq \in Seqs
      BY <1>4
    <2> QED
      BY <2>1, <2>2 DEF EnvelopeId, EventAt, Message, Ids
  <1>6. dlq.log \in Seq(Letter)
    BY DEF TypeOK
  <1>7. Len(dlq.log) \in Nat /\ \A i \in 1..Len(dlq.log) : dlq.log[i] \in Letter
    BY <1>6, LenProperties, ElementOfSeq
  <1> QED
    BY <1>1, <1>2, <1>3, <1>4, <1>5, <1>7

\* While the logs stay, so does all that is read in them.
LEMMA LogsKept ==
  ASSUME \A s \in Streams : streams'[s].log = streams[s].log, dlq' = dlq
  PROVE  /\ \A d \in Durables : Stored(d)' = Stored(d)
         /\ \A d \in Durables : \A seq : /\ EnvelopeId(d, seq)' = EnvelopeId(d, seq)
                                         /\ EventAt(d, seq)' = EventAt(d, seq)
                                         /\ Named(d, seq)' <=> Named(d, seq)
  BY EventBusAssumption DEF Stored, EnvelopeId, EventAt, Named

LEMMA InitInv == Init => IInv
  <1> SUFFICES ASSUME Init PROVE IInv
    OBVIOUS
  <1>1. \A M : <<>> \in Seq(M) /\ Len(<<>>) = 0
    BY EmptySeq
  <1>2. /\ \A s \in Streams : streams[s] = EmptyStream
        /\ dlq = EmptyStream
        /\ EmptyStream.log = <<>> /\ EmptyStream.window = {}
    BY DEF Init, EmptyStream
  <1>3. TypeOK
    <2>1. streams \in [Streams -> [log : Seq(Message), window : SUBSET Ids]]
          /\ dlq \in [log : Seq(Letter), window : SUBSET Ids]
      BY <1>1 DEF Init, EmptyStream
    <2>2. \A s \in Streams : Len(streams[s].log) <= MaxLog
      BY <1>1, <1>2, EventBusAssumption
    <2>3. /\ tries \in [Durables -> [Seqs -> 0..MaxDeliver]]
          /\ effects \in [Durables -> [Ids -> Nat]]
          /\ crashes \in Nat /\ dlqDowns \in Nat /\ crashes + dlqDowns <= MaxFaults
          /\ lapses \in 0..MaxLapses
      BY EventBusAssumption DEF Init
    <2>4. /\ cut \subseteq Durables \X Seqs
          /\ acked \in [Durables -> SUBSET Seqs] /\ done \in [Durables -> SUBSET Seqs]
          /\ seen \in [Replicas -> [Durables -> SUBSET Ids]] /\ flights \subseteq Flight
      BY DEF Init
    <2> QED
      BY <2>1, <2>2, <2>3, <2>4 DEF TypeOK
  <1>4. TriedIsStored /\ SettledIsEarned
    BY DEF Init, TriedIsStored, SettledIsEarned
  <1>5. DlqWindowIsStored
    BY <1>2 DEF DlqWindowIsStored
  <1>6. AcksAreNamed
    BY <1>1, <1>2 DEF Init, AcksAreNamed
  <1>7. LastIsInFlight
    BY EventBusAssumption DEF Init, LastIsInFlight
  <1>8. EffectsAreKnown
    <2>1. \A d \in Durables, id \in Ids : Knowing(d, id) = {}
      BY DEF Init, Knowing
    <2>2. Cardinality({}) = 0
      BY FS_EmptySet
    <2>3. \A d \in Durables, id \in Ids : effects[d][id] = 0 /\ crashes = 0
      BY DEF Init
    <2> QED
      BY <2>1, <2>2, <2>3 DEF EffectsAreKnown
  <1> QED
    BY <1>3, <1>4, <1>5, <1>6, <1>7, <1>8 DEF IInv

-----------------------------------------------------------------------------
\* Publishing

LEMMA SendStep ==
  ASSUME IInv, NEW s \in Streams, NEW msg \in Message, Send(s, msg)
  PROVE  IInv'
  <1>1. /\ streams' = [streams EXCEPT ![s] = Store(@, msg)] /\ Len(streams[s].log) < MaxLog
        /\ UNCHANGED <<dlq, tries, acked, flights, seen, done, effects, cut, crashes, dlqDowns, lapses>>
    BY DEF Send, history, faults
  <1>2. TypeOK
    BY DEF IInv
  <1>3. /\ streams'[s] = Store(streams[s], msg)
        /\ \A t \in Streams \ {s} : streams'[t] = streams[t]
    BY <1>1 DEF IInv, TypeOK
  <1>4. msg.id \in Ids \union {NoMsgId}
    BY DEF Message
  <1>5. streams[s] \in [log : Seq(Message), window : SUBSET Ids] /\ Len(streams[s].log) \in Nat
    BY <1>2, Shapes
  <1>6. /\ streams'[s] \in [log : Seq(Message), window : SUBSET Ids]
        /\ Len(streams'[s].log) \in {Len(streams[s].log), Len(streams[s].log) + 1}
        /\ \A i \in 1..Len(streams[s].log) :
             i \in 1..Len(streams'[s].log) /\ streams'[s].log[i] = streams[s].log[i]
    <2> DEFINE old == streams[s]
               new == streams'[s]
    <2>1. old \in [log : Seq(Message), window : SUBSET Ids] /\ new = Store(old, msg)
      BY <1>3, <1>5
    <2> HIDE DEF old, new
    <2>2. /\ new \in [log : Seq(Message), window : SUBSET Ids]
          /\ Len(new.log) \in {Len(old.log), Len(old.log) + 1}
          /\ \A i \in 1..Len(old.log) : i \in 1..Len(new.log) /\ new.log[i] = old.log[i]
      BY <1>4, <2>1, StoreAdds
    <2> QED
      BY <2>2 DEF old, new
  <1>7. TypeOK'
    <2>1. streams' \in [Streams -> [log : Seq(Message), window : SUBSET Ids]]
      BY <1>1, <1>2, <1>6 DEF TypeOK
    <2>2. \A t \in Streams : Len(streams'[t].log) <= MaxLog
      BY <1>1, <1>2, <1>3, <1>5, <1>6, EventBusAssumption DEF TypeOK
    <2> QED
      BY <1>1, <1>2, <2>1, <2>2 DEF TypeOK
  <1>8. \A d \in Durables : \A seq \in Stored(d) :
          /\ seq \in Stored(d)' /\ EnvelopeId(d, seq)' = EnvelopeId(d, seq)
          /\ EventAt(d, seq)' = EventAt(d, seq)
    <2> SUFFICES ASSUME NEW d \in Durables, NEW seq \in 1..Len(streams[StreamOf[d]].log)
                 PROVE  /\ seq \in 1..Len(streams'[StreamOf[d]].log)
                        /\ streams'[StreamOf[d]].log[seq] = streams[StreamOf[d]].log[seq]
      BY DEF Stored, EnvelopeId, EventAt
    <2> QED
      BY <1>3, <1>6, EventBusAssumption
  <1>9. \A d \in Durables : \A seq \in Stored(d) : Named(d, seq)' <=> Named(d, seq)
    BY <1>1, <1>8 DEF Named
  <1>10. TriedIsStored'
    BY <1>1, <1>8 DEF IInv, TriedIsStored
  <1>11. \A f \in flights : f.d \in Durables /\ f.seq \in Stored(f.d)
    <2> SUFFICES ASSUME NEW f \in flights PROVE f.d \in Durables /\ f.seq \in Stored(f.d)
      OBVIOUS
    <2>1. f.d \in Durables /\ f.seq \in Seqs /\ f.n \in 1..MaxDeliver
      BY <1>2 DEF TypeOK, Flight
    <2>2. tries[f.d][f.seq] \in 0..MaxDeliver /\ f.n <= tries[f.d][f.seq]
      BY <1>2, <2>1 DEF IInv, TypeOK, TriedIsStored
    <2>3. tries[f.d][f.seq] # 0
      BY <2>1, <2>2, EventBusAssumption
    <2> QED
      BY <2>1, <2>3 DEF IInv, TriedIsStored
  <1>12. DlqWindowIsStored' /\ SettledIsEarned'
    BY <1>1, <1>9, <1>11 DEF IInv, DlqWindowIsStored, SettledIsEarned
  <1>13. AcksAreNamed'
    <2>1. \A d \in Durables : \A seq \in acked[d] : seq \in done[d] \/ Named(d, seq)'
      BY <1>9 DEF IInv, AcksAreNamed, TriedIsStored
    <2>2. \A i \in 1..Len(dlq.log) : dlq.log[i].d \in Durables
      BY <1>2, Shapes DEF Letter
    <2> QED
      BY <1>1, <1>8, <2>1, <2>2 DEF IInv, AcksAreNamed
  <1>14. LastIsInFlight'
    <2>1. \A d \in Durables : \A seq \in Seqs : tries[d][seq] = MaxDeliver => seq \in Stored(d)
      BY EventBusAssumption DEF IInv, TriedIsStored
    <2> QED
      BY <1>1, <1>9, <2>1 DEF IInv, LastIsInFlight
  <1>15. EffectsAreKnown'
    BY <1>1 DEF IInv, EffectsAreKnown, Knowing
  <1> QED
    BY <1>7, <1>10, <1>12, <1>13, <1>14, <1>15 DEF IInv

LEMMA PublishStep ==
  ASSUME IInv, NEW e \in Events, Publish(e)
  PROVE  IInv'
  <1>1. [id |-> IdOf[e], event |-> e] \in Message
    BY DEF Message, Ids
  <1>2. StreamOf[e] \in Streams
    BY EventBusAssumption
  <1> QED
    BY <1>1, <1>2, SendStep DEF Publish

LEMMA RedeliverStep ==
  ASSUME IInv, NEW i \in 1..Len(dlq.log), Redeliver(i)
  PROVE  IInv'
  <1>1. dlq.log[i] \in Letter
    BY Shapes DEF IInv
  <1>2. [id |-> dlq.log[i].id, event |-> dlq.log[i].event] \in Message
    BY <1>1 DEF Message, Letter
  <1>3. StreamOf[dlq.log[i].d] \in Streams
    BY <1>1, EventBusAssumption DEF Letter
  <1> QED
    BY <1>2, <1>3, SendStep DEF Redeliver

LEMMA ForgetStep ==
  ASSUME IInv, NEW s \in Streams, NEW id \in streams[s].window, Forget(s, id)
  PROVE  IInv'
  <1>1. /\ streams' = [streams EXCEPT ![s] = ForgetId(@, id)]
        /\ lapses < MaxLapses /\ lapses' = lapses + 1
        /\ UNCHANGED <<dlq, tries, acked, flights, seen, done, effects, cut, crashes, dlqDowns>>
    BY DEF Forget, history, faults
  <1>2. /\ streams[s] \in [log : Seq(Message), window : SUBSET Ids]
        /\ ForgetId(streams[s], id) \in [log : Seq(Message), window : SUBSET Ids]
        /\ ForgetId(streams[s], id).log = streams[s].log
    BY DEF IInv, TypeOK, ForgetId
  <1>3. /\ streams' \in [Streams -> [log : Seq(Message), window : SUBSET Ids]]
        /\ \A t \in Streams : streams'[t].log = streams[t].log
    BY <1>1, <1>2 DEF IInv, TypeOK
  <1>4. lapses' \in 0..MaxLapses
    BY <1>1, EventBusAssumption DEF IInv, TypeOK
  <1>5. TypeOK'
    BY <1>1, <1>3, <1>4 DEF IInv, TypeOK
  <1>6. /\ \A d \in Durables : Stored(d)' = Stored(d)
        /\ \A d \in Durables : \A seq : /\ EventAt(d, seq)' = EventAt(d, seq)
                                        /\ Named(d, seq)' <=> Named(d, seq)
    BY <1>1, <1>3, LogsKept
  <1>7. \A i \in 1..Len(dlq.log) : dlq.log[i].d \in Durables
    BY Shapes DEF IInv, Letter
  <1>8. \A f \in flights : f.d \in Durables
    BY DEF IInv, TypeOK, Flight
  <1>9. TriedIsStored' /\ DlqWindowIsStored' /\ SettledIsEarned'
    BY <1>1, <1>6, <1>8 DEF IInv, TriedIsStored, DlqWindowIsStored, SettledIsEarned
  <1>10. AcksAreNamed'
    BY <1>1, <1>6, <1>7 DEF IInv, AcksAreNamed
  <1>11. LastIsInFlight' /\ EffectsAreKnown'
    BY <1>1, <1>6 DEF IInv, LastIsInFlight, EffectsAreKnown, Knowing
  <1> QED
    BY <1>5, <1>9, <1>10, <1>11 DEF IInv

-----------------------------------------------------------------------------
\* Deliveries

LEMMA FlightFacts ==
  ASSUME IInv, NEW f \in flights
  PROVE  /\ f \in Flight /\ f.d \in Durables /\ f.to \in Replicas /\ f.seq \in Seqs
         /\ f.n \in 1..MaxDeliver /\ f.n <= tries[f.d][f.seq]
         /\ f.seq \in Stored(f.d) /\ EnvelopeId(f.d, f.seq) \in Ids
         /\ f.n = MaxDeliver => tries[f.d][f.seq] = MaxDeliver
  <1>1. f \in Flight /\ f.d \in Durables /\ f.to \in Replicas /\ f.seq \in Seqs
        /\ f.n \in 1..MaxDeliver
    BY DEF IInv, TypeOK, Flight
  <1>2. tries[f.d][f.seq] \in 0..MaxDeliver /\ f.n <= tries[f.d][f.seq]
    BY <1>1 DEF IInv, TypeOK, TriedIsStored
  <1>3. tries[f.d][f.seq] # 0 /\ (f.n = MaxDeliver => tries[f.d][f.seq] = MaxDeliver)
    BY <1>1, <1>2, EventBusAssumption
  <1>4. f.seq \in Stored(f.d)
    BY <1>1, <1>3 DEF IInv, TriedIsStored
  <1>5. EnvelopeId(f.d, f.seq) \in Ids
    BY <1>1, <1>4, Shapes DEF IInv
  <1> QED
    BY <1>1, <1>2, <1>3, <1>4, <1>5

LEMMA DeliverStep ==
  ASSUME IInv, NEW d \in Durables, NEW seq \in Seqs, NEW p \in Replicas, Deliver(d, seq, p)
  PROVE  IInv'
  <1> DEFINE f == [d |-> d, to |-> p, seq |-> seq, n |-> tries[d][seq] + 1, st |-> "queued"]
  <1>1. /\ seq \in Stored(d) /\ tries[d][seq] < MaxDeliver
        /\ tries' = [tries EXCEPT ![d][seq] = @ + 1]
        /\ flights' = flights \union {f}
        /\ UNCHANGED <<streams, dlq, acked, seen, done, effects, cut, crashes, dlqDowns, lapses>>
    BY DEF Deliver, MayDeliver, history, faults
  <1>2. tries \in [Durables -> [Seqs -> 0..MaxDeliver]] /\ tries[d][seq] \in 0..MaxDeliver
    BY DEF IInv, TypeOK
  <1>3. /\ tries'[d][seq] = tries[d][seq] + 1
        /\ \A c \in Durables, q \in Seqs : c # d \/ q # seq => tries'[c][q] = tries[c][q]
    BY <1>1, <1>2
  <1>4. tries[d][seq] + 1 \in 1..MaxDeliver
    BY <1>1, <1>2, EventBusAssumption
  <1>5. f \in Flight /\ f.d = d /\ f.seq = seq /\ f.n = tries[d][seq] + 1 /\ f.st = "queued"
    BY <1>4 DEF Flight
  <1> HIDE DEF f
  <1>6. TypeOK'
    <2>1. tries' \in [Durables -> [Seqs -> 0..MaxDeliver]]
      BY <1>1, <1>2, <1>4
    <2>2. flights' \subseteq Flight
      BY <1>1, <1>5 DEF IInv, TypeOK
    <2> QED
      BY <1>1, <2>1, <2>2 DEF IInv, TypeOK
  <1>7. /\ \A c \in Durables : Stored(c)' = Stored(c)
        /\ \A c \in Durables : \A q : EventAt(c, q)' = EventAt(c, q)
                                      /\ (Named(c, q)' <=> Named(c, q))
    BY <1>1, LogsKept
  <1>8. TriedIsStored'
    <2>1. \A c \in Durables : \A q \in Seqs : tries'[c][q] # 0 => q \in Stored(c)
      BY <1>1, <1>3 DEF IInv, TriedIsStored
    <2>2. ASSUME NEW g \in flights PROVE g.n <= tries'[g.d][g.seq]
      <3>1. g.d \in Durables /\ g.seq \in Seqs /\ g.n \in 1..MaxDeliver
            /\ g.n <= tries[g.d][g.seq]
        BY FlightFacts
      <3> QED
        BY <1>2, <1>3, <3>1, EventBusAssumption
    <2>3. f.n <= tries'[f.d][f.seq]
      BY <1>3, <1>4, <1>5
    <2> QED
      BY <1>1, <1>7, <2>1, <2>2, <2>3 DEF IInv, TriedIsStored
  <1>9. DlqWindowIsStored' /\ EffectsAreKnown'
    BY <1>1 DEF IInv, DlqWindowIsStored, EffectsAreKnown, Knowing
  <1>10. SettledIsEarned'
    <2>1. \A g \in flights : g.d \in Durables
      BY FlightFacts
    <2> QED
      BY <1>1, <1>5, <1>7, <2>1 DEF IInv, SettledIsEarned
  <1>11. AcksAreNamed'
    <2>1. \A c \in Durables : \A q \in acked[c] : q \in done[c] \/ Named(c, q)'
      BY <1>7 DEF IInv, AcksAreNamed
    <2>2. ASSUME NEW i \in 1..Len(dlq.log)
          PROVE  /\ dlq.log[i].seq \in Stored(dlq.log[i].d)'
                 /\ tries'[dlq.log[i].d][dlq.log[i].seq] = MaxDeliver
                 /\ dlq.log[i].event = EventAt(dlq.log[i].d, dlq.log[i].seq)'
      <3>1. PICK l \in Letter : l = dlq.log[i]
        BY Shapes DEF IInv
      <3>2. l.d \in Durables /\ l.seq \in Seqs
        BY DEF Letter
      <3>3. l.seq \in Stored(l.d) /\ tries[l.d][l.seq] = MaxDeliver /\ l.event = EventAt(l.d, l.seq)
        BY <3>1 DEF IInv, AcksAreNamed
      <3>4. l.d # d \/ l.seq # seq
        BY <1>1, <3>3, EventBusAssumption
      <3>5. l.seq \in Stored(l.d)' /\ tries'[l.d][l.seq] = MaxDeliver
            /\ l.event = EventAt(l.d, l.seq)'
        BY <1>3, <1>7, <3>2, <3>3, <3>4
      <3> QED
        BY <1>1, <3>1, <3>5
    <2> QED
      BY <1>1, <2>1, <2>2 DEF AcksAreNamed
  <1>12. LastIsInFlight'
    <2> SUFFICES ASSUME NEW c \in Durables, NEW q \in Seqs,
                        tries'[c][q] = MaxDeliver
                 PROVE  \/ q \in done[c] \/ Named(c, q) \/ <<c, q>> \in cut
                        \/ \E g \in flights \union {f} : g.d = c /\ g.seq = q /\ g.n = MaxDeliver
      BY <1>1, <1>7 DEF LastIsInFlight
    <2>1. CASE c = d /\ q = seq
      BY <1>3, <1>5, <2>1
    <2>2. CASE c # d \/ q # seq
      BY <1>3, <2>2 DEF IInv, LastIsInFlight
    <2> QED
      BY <2>1, <2>2
  <1> QED
    BY <1>6, <1>8, <1>9, <1>10, <1>11, <1>12 DEF IInv

-----------------------------------------------------------------------------
\* The callback

\* A flight that moves stays the same delivery.
LEMMA Moved ==
  ASSUME IInv, NEW f \in flights, NEW st \in {"queued", "failed", "settled"}, Move(f, st)
  PROVE  /\ flights' \subseteq Flight
         /\ \A g \in flights' : g \in flights \/ (g.d = f.d /\ g.seq = f.seq /\ g.n = f.n /\ g.st = st)
         /\ \A g \in flights : \E h \in flights' : h.d = g.d /\ h.seq = g.seq /\ h.n = g.n
  <1> DEFINE m == [f EXCEPT !.st = st]
  <1>1. flights' = (flights \ {f}) \union {m}
    BY DEF Move
  <1>2. f \in Flight
    BY FlightFacts
  <1>3. m \in Flight /\ m.d = f.d /\ m.seq = f.seq /\ m.n = f.n /\ m.st = st
    BY <1>2 DEF Flight
  <1> HIDE DEF m
  <1> QED
    BY <1>1, <1>3 DEF IInv, TypeOK

LEMMA HandleKeeps ==
  ASSUME IInv, NEW f \in flights, NEW st \in {"failed", "settled"}, Move(f, st),
         UNCHANGED <<streams, dlq, tries, acked, cut, crashes, dlqDowns>>,
         \A d \in Durables : done[d] \subseteq done'[d],
         st = "settled" => f.seq \in done'[f.d]
  PROVE  /\ flights' \subseteq Flight /\ TriedIsStored' /\ DlqWindowIsStored'
         /\ SettledIsEarned' /\ AcksAreNamed' /\ LastIsInFlight'
  <1>1. /\ flights' \subseteq Flight
        /\ \A g \in flights' : g \in flights \/ (g.d = f.d /\ g.seq = f.seq /\ g.n = f.n /\ g.st = st)
        /\ \A g \in flights : \E h \in flights' : h.d = g.d /\ h.seq = g.seq /\ h.n = g.n
    BY Moved
  <1>2. /\ \A d \in Durables : Stored(d)' = Stored(d)
        /\ \A d \in Durables : \A q : EventAt(d, q)' = EventAt(d, q)
                                      /\ (Named(d, q)' <=> Named(d, q))
    BY LogsKept
  <1>3. \A g \in flights : g.d \in Durables
    BY FlightFacts
  <1>4. TriedIsStored' /\ DlqWindowIsStored'
    BY <1>1, <1>2 DEF IInv, TriedIsStored, DlqWindowIsStored
  <1>5. SettledIsEarned'
    BY <1>1, <1>2, <1>3 DEF IInv, SettledIsEarned
  <1>6. AcksAreNamed'
    <2>1. \A i \in 1..Len(dlq.log) : dlq.log[i].d \in Durables
      BY Shapes DEF IInv, Letter
    <2> QED
      BY <1>2, <2>1 DEF IInv, AcksAreNamed
  <1>7. LastIsInFlight'
    <2> SUFFICES ASSUME NEW c \in Durables, NEW q \in Seqs,
                        tries[c][q] = MaxDeliver, q \notin done'[c], ~Named(c, q), <<c, q>> \notin cut
                 PROVE  \E g \in flights' : g.d = c /\ g.seq = q /\ g.n = MaxDeliver
      BY <1>2 DEF LastIsInFlight
    <2>1. PICK g \in flights : g.d = c /\ g.seq = q /\ g.n = MaxDeliver
      BY DEF IInv, LastIsInFlight
    <2> QED
      BY <1>1, <2>1
  <1> QED
    BY <1>1, <1>4, <1>5, <1>6, <1>7

LEMMA HandleKnownStep ==
  ASSUME IInv, NEW f \in flights, HandleKnown(f)
  PROVE  IInv'
  <1>1. /\ done' = [done EXCEPT ![f.d] = @ \union {f.seq}] /\ Move(f, "settled")
        /\ UNCHANGED <<streams, dlq, tries, acked, seen, effects, cut, crashes, dlqDowns, lapses>>
    BY DEF HandleKnown, server, faults
  <1>2. f.d \in Durables /\ f.seq \in Seqs
    BY FlightFacts
  <1>3. /\ done' \in [Durables -> SUBSET Seqs] /\ f.seq \in done'[f.d]
        /\ \A d \in Durables : done[d] \subseteq done'[d]
    BY <1>1, <1>2 DEF IInv, TypeOK
  <1>4. /\ flights' \subseteq Flight /\ TriedIsStored' /\ DlqWindowIsStored'
        /\ SettledIsEarned' /\ AcksAreNamed' /\ LastIsInFlight'
    BY <1>1, <1>3, HandleKeeps
  <1>5. TypeOK'
    BY <1>1, <1>3, <1>4 DEF IInv, TypeOK
  <1>6. EffectsAreKnown'
    BY <1>1 DEF IInv, EffectsAreKnown, Knowing
  <1> QED
    BY <1>4, <1>5, <1>6 DEF IInv

\* One more effect, and one more Guard that knows the id.
LEMMA HandleOkStep ==
  ASSUME IInv, NEW f \in flights, HandleOk(f)
  PROVE  IInv'
  <1> DEFINE id == EnvelopeId(f.d, f.seq)
  <1>1. /\ done' = [done EXCEPT ![f.d] = @ \union {f.seq}] /\ Move(f, "settled")
        /\ effects' = [effects EXCEPT ![f.d][id] = @ + 1]
        /\ seen' = [seen EXCEPT ![f.to][f.d] = @ \union {id}]
        /\ id \notin seen[f.to][f.d]
        /\ UNCHANGED <<streams, dlq, tries, acked, cut, crashes, dlqDowns, lapses>>
    BY DEF HandleOk, Record, Known, server, faults
  <1>2. f.d \in Durables /\ f.seq \in Seqs /\ f.to \in Replicas /\ id \in Ids
    BY FlightFacts
  <1> HIDE DEF id
  <1>3. /\ done' \in [Durables -> SUBSET Seqs] /\ f.seq \in done'[f.d]
        /\ \A d \in Durables : done[d] \subseteq done'[d]
    BY <1>1, <1>2 DEF IInv, TypeOK
  <1>4. /\ flights' \subseteq Flight /\ TriedIsStored' /\ DlqWindowIsStored'
        /\ SettledIsEarned' /\ AcksAreNamed' /\ LastIsInFlight'
    BY <1>1, <1>3, HandleKeeps
  <1>5. /\ effects \in [Durables -> [Ids -> Nat]]
        /\ seen \in [Replicas -> [Durables -> SUBSET Ids]] /\ crashes \in Nat
    BY DEF IInv, TypeOK
  <1>6. /\ effects' \in [Durables -> [Ids -> Nat]]
        /\ effects'[f.d][id] = effects[f.d][id] + 1
        /\ \A d \in Durables, i \in Ids : d # f.d \/ i # id => effects'[d][i] = effects[d][i]
    BY <1>1, <1>2, <1>5
  <1>7. /\ seen' \in [Replicas -> [Durables -> SUBSET Ids]]
        /\ seen'[f.to][f.d] = seen[f.to][f.d] \union {id}
        /\ \A p \in Replicas, d \in Durables : p # f.to \/ d # f.d => seen'[p][d] = seen[p][d]
    BY <1>1, <1>2, <1>5
  <1>8. TypeOK'
    BY <1>1, <1>3, <1>4, <1>6, <1>7 DEF IInv, TypeOK
  <1>9. EffectsAreKnown'
    <2> SUFFICES ASSUME NEW d \in Durables, NEW i \in Ids
                 PROVE  effects'[d][i] <= Cardinality(Knowing(d, i)') + crashes
      BY <1>1 DEF EffectsAreKnown
    <2>1. effects[d][i] <= Cardinality(Knowing(d, i)) + crashes
      BY DEF IInv, EffectsAreKnown
    <2>2. CASE d = f.d /\ i = id
      <3>1. Knowing(d, i)' = Knowing(d, i) \union {f.to} /\ f.to \notin Knowing(d, i)
        BY <1>1, <1>2, <1>7, <2>2 DEF Knowing
      <3>2. Knowing(d, i) \in SUBSET Replicas
        BY DEF Knowing
      <3>3. IsFiniteSet(Knowing(d, i))
        BY <3>2, FS_Subset, EventBusAssumption
      <3>4. Cardinality(Knowing(d, i)') = Cardinality(Knowing(d, i)) + 1
            /\ Cardinality(Knowing(d, i)) \in Nat
        BY <3>1, <3>3, FS_AddElement, FS_CardinalityType
      <3>5. effects'[d][i] = effects[d][i] + 1 /\ effects[d][i] \in Nat
        BY <1>5, <1>6, <2>2
      <3> QED
        BY <1>5, <2>1, <3>4, <3>5
    <2>3. CASE d # f.d \/ i # id
      <3>1. Knowing(d, i)' = Knowing(d, i)
        BY <1>2, <1>7, <2>3 DEF Knowing
      <3> QED
        BY <1>6, <2>1, <2>3, <3>1
    <2> QED
      BY <2>2, <2>3
  <1> QED
    BY <1>4, <1>8, <1>9 DEF IInv

LEMMA HandleFailsStep ==
  ASSUME IInv, NEW f \in flights, HandleFails(f)
  PROVE  IInv'
  <1>1. /\ Move(f, "failed")
        /\ UNCHANGED <<streams, dlq, tries, acked, seen, done, effects, cut, crashes, dlqDowns, lapses>>
    BY DEF HandleFails, server, history, faults
  <1>2. /\ flights' \subseteq Flight /\ TriedIsStored' /\ DlqWindowIsStored'
        /\ SettledIsEarned' /\ AcksAreNamed' /\ LastIsInFlight'
    BY <1>1, HandleKeeps
  <1>3. TypeOK' /\ EffectsAreKnown'
    BY <1>1, <1>2 DEF IInv, TypeOK, EffectsAreKnown, Knowing
  <1> QED
    BY <1>2, <1>3 DEF IInv

\* Flights land, and only what was handled or buried is acknowledged.
LEMMA LandingKeeps ==
  ASSUME IInv, flights' \subseteq flights, UNCHANGED <<streams, dlq, tries, done>>,
         \A d \in Durables : \A q \in acked'[d] :
            q \in acked[d] \/ (q \in Stored(d) /\ (q \in done[d] \/ Named(d, q)))
  PROVE  TriedIsStored' /\ DlqWindowIsStored' /\ SettledIsEarned' /\ AcksAreNamed'
  <1>1. /\ \A d \in Durables : Stored(d)' = Stored(d)
        /\ \A d \in Durables : \A q : EventAt(d, q)' = EventAt(d, q)
                                      /\ (Named(d, q)' <=> Named(d, q))
    BY LogsKept
  <1>2. \A g \in flights : g.d \in Durables
    BY FlightFacts
  <1>3. TriedIsStored' /\ DlqWindowIsStored' /\ SettledIsEarned'
    BY <1>1, <1>2 DEF IInv, TriedIsStored, DlqWindowIsStored, SettledIsEarned
  <1>4. AcksAreNamed'
    <2>1. \A i \in 1..Len(dlq.log) : dlq.log[i].d \in Durables
      BY Shapes DEF IInv, Letter
    <2> QED
      BY <1>1, <2>1 DEF IInv, AcksAreNamed
  <1> QED
    BY <1>3, <1>4

LEMMA AckStep ==
  ASSUME IInv, NEW f \in flights, Ack(f)
  PROVE  IInv'
  <1>1. /\ f.st = "settled" /\ acked' = [acked EXCEPT ![f.d] = @ \union {f.seq}]
        /\ flights' = flights \ {f}
        /\ UNCHANGED <<streams, dlq, tries, seen, done, effects, cut, crashes, dlqDowns, lapses>>
    BY DEF Ack, Land, history, faults
  <1>2. f.d \in Durables /\ f.seq \in Seqs /\ f.seq \in Stored(f.d)
    BY FlightFacts
  <1>3. f.seq \in done[f.d] \/ Named(f.d, f.seq)
    BY <1>1 DEF IInv, SettledIsEarned
  <1>4. /\ acked' \in [Durables -> SUBSET Seqs]
        /\ \A d \in Durables : \A q \in acked'[d] : q \in acked[d] \/ (d = f.d /\ q = f.seq)
    BY <1>1, <1>2 DEF IInv, TypeOK
  <1>5. TriedIsStored' /\ DlqWindowIsStored' /\ SettledIsEarned' /\ AcksAreNamed'
    BY <1>1, <1>2, <1>3, <1>4, LandingKeeps
  <1>6. TypeOK' /\ EffectsAreKnown'
    BY <1>1, <1>4 DEF IInv, TypeOK, EffectsAreKnown, Knowing
  <1>7. LastIsInFlight'
    <2>1. \A d \in Durables : \A q : Named(d, q)' <=> Named(d, q)
      BY <1>1, LogsKept
    <2> QED
      BY <1>1, <1>3, <2>1 DEF IInv, LastIsInFlight
  <1> QED
    BY <1>5, <1>6, <1>7 DEF IInv

LEMMA NakStep ==
  ASSUME IInv, NEW f \in flights, Nak(f)
  PROVE  IInv'
  <1>1. /\ ~LastAttempt(f) /\ flights' = flights \ {f}
        /\ UNCHANGED <<streams, dlq, tries, acked, seen, done, effects, cut, crashes, dlqDowns, lapses>>
    BY DEF Nak, Land, server, history, faults
  <1>2. TriedIsStored' /\ DlqWindowIsStored' /\ SettledIsEarned' /\ AcksAreNamed'
    BY <1>1, LandingKeeps
  <1>3. TypeOK' /\ EffectsAreKnown'
    BY <1>1 DEF IInv, TypeOK, EffectsAreKnown, Knowing
  <1>4. LastIsInFlight'
    <2>1. \A d \in Durables : \A q : Named(d, q)' <=> Named(d, q)
      BY <1>1, LogsKept
    <2>2. f.n # MaxDeliver
      BY <1>1, EventBusAssumption DEF LastAttempt
    <2> QED
      BY <1>1, <2>1, <2>2 DEF IInv, LastIsInFlight
  <1> QED
    BY <1>2, <1>3, <1>4 DEF IInv

\* The letter is stored, or one with its id was before.
LEMMA BuryStep ==
  ASSUME IInv, NEW f \in flights, Bury(f)
  PROVE  IInv'
  <1> DEFINE letter == LetterOf(f)
  <1>1. /\ LastAttempt(f) /\ dlq' = Store(dlq, letter) /\ Move(f, "settled")
        /\ UNCHANGED <<streams, tries, acked, seen, done, effects, cut, crashes, dlqDowns, lapses>>
    BY DEF Bury, history, faults
  <1>2. /\ f.d \in Durables /\ f.seq \in Seqs /\ f.n \in 1..MaxDeliver /\ f.seq \in Stored(f.d)
        /\ f.n = MaxDeliver => tries[f.d][f.seq] = MaxDeliver
    BY FlightFacts
  <1>3. f.n = MaxDeliver /\ tries[f.d][f.seq] = MaxDeliver
    BY <1>1, <1>2, EventBusAssumption DEF LastAttempt
  <1>4. EnvelopeId(f.d, f.seq) \in Ids /\ EventAt(f.d, f.seq) \in Events
    BY <1>2, Shapes DEF IInv
  <1>5. /\ letter \in Letter /\ letter.id = EnvelopeId(f.d, f.seq) /\ letter.d = f.d
        /\ letter.seq = f.seq /\ letter.event = EventAt(f.d, f.seq)
    BY <1>2, <1>4 DEF LetterOf, Letter
  <1> HIDE DEF letter
  <1>6. dlq \in [log : Seq(Letter), window : SUBSET Ids]
    BY DEF IInv, TypeOK
  <1>7. letter.id \in Ids \union {NoMsgId}
    BY <1>4, <1>5
  <1>8. /\ dlq' \in [log : Seq(Letter), window : SUBSET Ids]
        /\ \A i \in 1..Len(dlq.log) : i \in 1..Len(dlq'.log) /\ dlq'.log[i] = dlq.log[i]
        /\ \A i \in 1..Len(dlq'.log) : i \in 1..Len(dlq.log) \/ dlq'.log[i] = letter
        /\ \A id \in dlq'.window : id \in dlq.window \/ id = letter.id
        /\ letter.id \notin dlq.window => \E i \in 1..Len(dlq'.log) : dlq'.log[i] = letter
    BY <1>1, <1>5, <1>6, <1>7, StoreAdds
  <1>9. /\ flights' \subseteq Flight
        /\ \A g \in flights' : g \in flights
             \/ (g.d = f.d /\ g.seq = f.seq /\ g.n = f.n /\ g.st = "settled")
        /\ \A g \in flights : \E h \in flights' : h.d = g.d /\ h.seq = g.seq /\ h.n = g.n
    BY <1>1, Moved
  <1>10. /\ \A d \in Durables : Stored(d)' = Stored(d)
         /\ \A d \in Durables : \A q : /\ EventAt(d, q)' = EventAt(d, q)
                                       /\ EnvelopeId(d, q)' = EnvelopeId(d, q)
    BY <1>1 DEF Stored, EventAt, EnvelopeId
  <1>11. \A d \in Durables : \A q : Named(d, q) => Named(d, q)'
    BY <1>8, <1>10 DEF Named
  <1>12. \E i \in 1..Len(dlq'.log) : dlq'.log[i].id = letter.id
    <2>1. CASE letter.id \in dlq.window
      <3>1. PICK i \in 1..Len(dlq.log) : dlq.log[i].id = letter.id
        BY <2>1 DEF IInv, DlqWindowIsStored
      <3> QED
        BY <1>8, <3>1
    <2>2. CASE letter.id \notin dlq.window
      BY <1>8, <2>2
    <2> QED
      BY <2>1, <2>2
  <1>13. Named(f.d, f.seq)'
    BY <1>2, <1>5, <1>10, <1>12 DEF Named
  <1>14. TypeOK' /\ EffectsAreKnown'
    BY <1>1, <1>8, <1>9 DEF IInv, TypeOK, EffectsAreKnown, Knowing
  <1>15. TriedIsStored'
    BY <1>1, <1>9, <1>10 DEF IInv, TriedIsStored
  <1>16. DlqWindowIsStored'
    <2> SUFFICES ASSUME NEW id \in dlq'.window
                 PROVE  \E i \in 1..Len(dlq'.log) : dlq'.log[i].id = id
      BY DEF DlqWindowIsStored
    <2>1. CASE id \in dlq.window
      <3>1. PICK i \in 1..Len(dlq.log) : dlq.log[i].id = id
        BY <2>1 DEF IInv, DlqWindowIsStored
      <3> QED
        BY <1>8, <3>1
    <2> QED
      BY <1>8, <1>12, <2>1
  <1>17. SettledIsEarned'
    <2>1. \A g \in flights : g.d \in Durables
      BY FlightFacts
    <2> QED
      BY <1>1, <1>9, <1>11, <1>13, <2>1 DEF IInv, SettledIsEarned
  <1>18. AcksAreNamed'
    <2>1. \A d \in Durables : \A q \in acked[d] : q \in done[d] \/ Named(d, q)'
      BY <1>11 DEF IInv, AcksAreNamed
    <2>2. ASSUME NEW l \in Letter, \/ l = letter
                                   \/ \E i \in 1..Len(dlq.log) : l = dlq.log[i]
          PROVE  /\ l.seq \in Stored(l.d)' /\ tries[l.d][l.seq] = MaxDeliver
                 /\ l.event = EventAt(l.d, l.seq)'
      <3>1. l.d \in Durables
        BY DEF Letter
      <3>2. l.seq \in Stored(l.d) /\ tries[l.d][l.seq] = MaxDeliver /\ l.event = EventAt(l.d, l.seq)
        BY <1>2, <1>3, <1>5, <2>2 DEF IInv, AcksAreNamed
      <3> QED
        BY <1>10, <3>1, <3>2
    <2>3. \A i \in 1..Len(dlq'.log) : /\ dlq'.log[i] \in Letter
                                     /\ \/ dlq'.log[i] = letter
                                        \/ \E j \in 1..Len(dlq.log) : dlq'.log[i] = dlq.log[j]
      BY <1>5, <1>8, Shapes DEF IInv
    <2>4. \A i \in 1..Len(dlq'.log) :
            /\ dlq'.log[i].seq \in Stored(dlq.log[i].d)'
            /\ tries[dlq'.log[i].d][dlq'.log[i].seq] = MaxDeliver
            /\ dlq'.log[i].event = EventAt(dlq.log[i].d, dlq.log[i].seq)'
      BY <2>2, <2>3
    <2> QED
      BY <1>1, <2>1, <2>4 DEF AcksAreNamed
  <1>19. LastIsInFlight'
    <2> SUFFICES ASSUME NEW c \in Durables, NEW q \in Seqs,
                        tries[c][q] = MaxDeliver, q \notin done[c], ~Named(c, q), <<c, q>> \notin cut
                 PROVE  \E g \in flights' : g.d = c /\ g.seq = q /\ g.n = MaxDeliver
      BY <1>1, <1>11 DEF LastIsInFlight
    <2>1. PICK g \in flights : g.d = c /\ g.seq = q /\ g.n = MaxDeliver
      BY DEF IInv, LastIsInFlight
    <2> QED
      BY <1>9, <2>1
  <1> QED
    BY <1>14, <1>15, <1>16, <1>17, <1>18, <1>19 DEF IInv

LEMMA BuryFailsStep ==
  ASSUME IInv, NEW f \in flights, BuryFails(f)
  PROVE  IInv'
  <1>1. /\ flights' = flights \ {f} /\ cut' = cut \union {<<f.d, f.seq>>}
        /\ crashes + dlqDowns < MaxFaults /\ dlqDowns' = dlqDowns + 1
        /\ UNCHANGED <<streams, dlq, tries, acked, seen, done, effects, crashes, lapses>>
    BY DEF BuryFails, Land, server, history
  <1>2. TriedIsStored' /\ DlqWindowIsStored' /\ SettledIsEarned' /\ AcksAreNamed'
    BY <1>1, LandingKeeps
  <1>3. crashes \in Nat /\ dlqDowns' \in Nat /\ crashes + dlqDowns' <= MaxFaults
    BY <1>1, EventBusAssumption DEF IInv, TypeOK
  <1>4. cut' \subseteq Durables \X Seqs
    BY <1>1, FlightFacts DEF IInv, TypeOK
  <1>5. TypeOK' /\ EffectsAreKnown'
    BY <1>1, <1>3, <1>4 DEF IInv, TypeOK, EffectsAreKnown, Knowing
  <1>6. LastIsInFlight'
    <2>1. \A d \in Durables : \A q : Named(d, q)' <=> Named(d, q)
      BY <1>1, LogsKept
    <2> QED
      BY <1>1, <2>1 DEF IInv, LastIsInFlight
  <1> QED
    BY <1>2, <1>5, <1>6 DEF IInv

\* One Guard forgets everything: at most one of those that knew an id.
LEMMA CrashStep ==
  ASSUME IInv, NEW p \in Replicas, Crash(p)
  PROVE  IInv'
  <1>1. /\ flights' = {f \in flights : f.to # p}
        /\ cut' = cut \union {<<f.d, f.seq>> :
                               f \in {g \in flights : g.to = p /\ LastAttempt(g)}}
        /\ crashes + dlqDowns < MaxFaults /\ crashes' = crashes + 1
        /\ seen' = [seen EXCEPT ![p] = [d \in Durables |-> {}]]
        /\ UNCHANGED <<streams, dlq, tries, acked, done, effects, dlqDowns, lapses>>
    BY DEF Crash, server, history
  <1>2. TriedIsStored' /\ DlqWindowIsStored' /\ SettledIsEarned' /\ AcksAreNamed'
    BY <1>1, LandingKeeps
  <1>3. /\ crashes \in Nat /\ crashes' \in Nat /\ dlqDowns \in Nat
        /\ crashes' + dlqDowns <= MaxFaults /\ cut' \subseteq Durables \X Seqs
    <2>1. crashes \in Nat /\ dlqDowns \in Nat
      BY DEF IInv, TypeOK
    <2>2. crashes' \in Nat /\ crashes' + dlqDowns <= MaxFaults
      BY <1>1, <2>1, EventBusAssumption
    <2>3. cut \subseteq Durables \X Seqs
      BY DEF IInv, TypeOK
    <2>4. \A f \in flights : f.d \in Durables /\ f.seq \in Seqs
      BY FlightFacts DEF IInv
    <2>5. cut' \subseteq Durables \X Seqs
      BY <1>1, <2>3, <2>4
    <2> QED
      BY <2>1, <2>2, <2>5
  <1>4. /\ seen' \in [Replicas -> [Durables -> SUBSET Ids]]
        /\ \A d \in Durables : seen'[p][d] = {}
        /\ \A q \in Replicas \ {p} : seen'[q] = seen[q]
    BY <1>1 DEF IInv, TypeOK
  <1>5. TypeOK'
    BY <1>1, <1>3, <1>4 DEF IInv, TypeOK
  <1>6. LastIsInFlight'
    <2>1. \A d \in Durables : \A q : Named(d, q)' <=> Named(d, q)
      BY <1>1, LogsKept
    <2>2. \A f \in flights : f.to = p /\ f.n = MaxDeliver => <<f.d, f.seq>> \in cut'
      BY <1>1, EventBusAssumption DEF LastAttempt
    <2> QED
      BY <1>1, <2>1, <2>2 DEF IInv, LastIsInFlight
  <1>7. EffectsAreKnown'
    <2> SUFFICES ASSUME NEW d \in Durables, NEW i \in Ids
                 PROVE  effects[d][i] <= Cardinality(Knowing(d, i)') + crashes'
      BY <1>1 DEF EffectsAreKnown
    <2>1. effects[d][i] <= Cardinality(Knowing(d, i)) + crashes /\ effects[d][i] \in Nat
      BY DEF IInv, EffectsAreKnown, TypeOK
    <2>2. Knowing(d, i)' = Knowing(d, i) \ {p}
      BY <1>4 DEF Knowing
    <2>3. Knowing(d, i) \in SUBSET Replicas
      BY DEF Knowing
    <2>4. IsFiniteSet(Knowing(d, i))
      BY <2>3, FS_Subset, EventBusAssumption
    <2>5. /\ Cardinality(Knowing(d, i)) \in Nat
          /\ Cardinality(Knowing(d, i)') \in {Cardinality(Knowing(d, i)),
                                              Cardinality(Knowing(d, i)) - 1}
      BY <2>2, <2>4, FS_RemoveElement, FS_CardinalityType
    <2> QED
      BY <1>1, <1>3, <2>1, <2>5
  <1> QED
    BY <1>2, <1>5, <1>6, <1>7 DEF IInv

LEMMA StutterStep == IInv /\ UNCHANGED vars => IInv'
  <1> SUFFICES ASSUME IInv, UNCHANGED vars PROVE IInv'
    OBVIOUS
  <1>1. UNCHANGED <<streams, dlq, tries, acked, flights, seen, done, effects, cut, crashes, dlqDowns,
                    lapses>>
    BY DEF vars, server, history, faults
  <1>2. TriedIsStored' /\ DlqWindowIsStored' /\ SettledIsEarned' /\ AcksAreNamed'
    BY <1>1, LandingKeeps
  <1>3. TypeOK' /\ EffectsAreKnown'
    BY <1>1 DEF IInv, TypeOK, EffectsAreKnown, Knowing
  <1>4. LastIsInFlight'
    <2>1. \A d \in Durables : \A q : Named(d, q)' <=> Named(d, q)
      BY <1>1, LogsKept
    <2> QED
      BY <1>1, <2>1 DEF IInv, LastIsInFlight
  <1> QED
    BY <1>2, <1>3, <1>4 DEF IInv

LEMMA StepInv == IInv /\ [Next]_vars => IInv'
  <1> SUFFICES ASSUME IInv, [Next]_vars PROVE IInv'
    OBVIOUS
  <1>1. CASE \E e \in Events : Publish(e)
    BY <1>1, PublishStep
  <1>2. CASE \E i \in 1..Len(dlq.log) : Redeliver(i)
    BY <1>2, RedeliverStep
  <1>3. CASE \E s \in Streams : \E id \in streams[s].window : Forget(s, id)
    BY <1>3, ForgetStep
  <1>4. CASE \E d \in Durables, seq \in Seqs, p \in Replicas : Deliver(d, seq, p)
    BY <1>4, DeliverStep
  <1>5. CASE \E f \in flights : Callback(f)
    BY <1>5, HandleKnownStep, HandleOkStep, HandleFailsStep, AckStep, NakStep, BuryStep,
       BuryFailsStep DEF Callback
  <1>6. CASE \E p \in Replicas : Crash(p)
    BY <1>6, CrashStep
  <1>7. CASE UNCHANGED vars
    BY <1>7, StutterStep
  <1> QED
    BY <1>1, <1>2, <1>3, <1>4, <1>5, <1>6, <1>7 DEF Next

-----------------------------------------------------------------------------
\* What an id names

\* A message carries the id of its event, or the number under which the event was
\* first stored without one (Redeliver publishes what the callback filled in).
IdsName ==
    \A s \in Streams : \A i \in 1..Len(streams[s].log) :
        LET m == streams[s].log[i]
        IN  \/ m.id = IdOf[m.event]
            \/ /\ IdOf[m.event] = NoMsgId
               /\ m.id \in 1..Len(streams[s].log)
               /\ streams[s].log[m.id].id = NoMsgId
               /\ streams[s].log[m.id].event = m.event

LettersAreNamed ==
    \A i \in 1..Len(dlq.log) : dlq.log[i].id = EnvelopeId(dlq.log[i].d, dlq.log[i].seq)

Names == IdsName /\ LettersAreNamed

LEMMA InitNames == Init => Names
  <1> SUFFICES ASSUME Init PROVE Names
    OBVIOUS
  <1>1. Len(<<>>) = 0
    BY EmptySeq
  <1>2. (\A s \in Streams : streams[s].log = <<>>) /\ dlq.log = <<>>
    BY DEF Init, EmptyStream
  <1> QED
    BY <1>1, <1>2 DEF Names, IdsName, LettersAreNamed

\* In a stream the id of an envelope is its event's own, or tells where the event was
\* first stored.
LEMMA IdTells ==
  ASSUME IInv, Names, NEW d \in Durables, NEW seq \in Stored(d)
  PROVE  LET id == EnvelopeId(d, seq)
             e == EventAt(d, seq)
         IN  \/ id = IdOf[e] /\ id # NoMsgId
             \/ IdOf[e] = NoMsgId /\ id \in Stored(d) /\ e = EventAt(d, id)
                  /\ streams[StreamOf[d]].log[id].id = NoMsgId
  <1>1. StreamOf[d] \in Streams /\ Stored(d) \subseteq Seqs
    BY Shapes DEF IInv
  <1> QED
    BY <1>1, EventBusAssumption
    DEF Names, IdsName, EnvelopeId, EventAt, Stored, Seqs

\* A message that is sent is named as those in the stream are.
LEMMA SendNames ==
  ASSUME IInv, Names, NEW s \in Streams, NEW msg \in Message, Send(s, msg),
         \/ msg.id = IdOf[msg.event]
         \/ /\ IdOf[msg.event] = NoMsgId
            /\ msg.id \in 1..Len(streams[s].log)
            /\ streams[s].log[msg.id].id = NoMsgId
            /\ streams[s].log[msg.id].event = msg.event
  PROVE  Names'
  <1>1. streams' = [streams EXCEPT ![s] = Store(@, msg)] /\ UNCHANGED dlq
    BY DEF Send
  <1>2. /\ streams'[s] = Store(streams[s], msg)
        /\ \A t \in Streams \ {s} : streams'[t] = streams[t]
    BY <1>1 DEF IInv, TypeOK
  <1>3. /\ streams[s] \in [log : Seq(Message), window : SUBSET Ids]
        /\ Len(streams[s].log) \in Nat /\ msg.id \in Ids \union {NoMsgId}
    BY Shapes DEF IInv, Message
  <1>4. /\ \A i \in 1..Len(streams[s].log) :
             i \in 1..Len(streams'[s].log) /\ streams'[s].log[i] = streams[s].log[i]
        /\ \A i \in 1..Len(streams'[s].log) :
             i \in 1..Len(streams[s].log) \/ streams'[s].log[i] = msg
    <2> DEFINE old == streams[s]
               new == streams'[s]
    <2>1. old \in [log : Seq(Message), window : SUBSET Ids] /\ new = Store(old, msg)
      BY <1>2, <1>3
    <2> HIDE DEF old, new
    <2>2. /\ \A i \in 1..Len(old.log) : i \in 1..Len(new.log) /\ new.log[i] = old.log[i]
          /\ \A i \in 1..Len(new.log) : i \in 1..Len(old.log) \/ new.log[i] = msg
      BY <1>3, <2>1, StoreAdds
    <2> QED
      BY <2>2 DEF old, new
  <1>5. IdsName'
    <2> SUFFICES ASSUME NEW t \in Streams, NEW i \in 1..Len(streams'[t].log),
                        NEW m, m = streams'[t].log[i]
                 PROVE  \/ m.id = IdOf[m.event]
                        \/ /\ IdOf[m.event] = NoMsgId
                           /\ m.id \in 1..Len(streams'[t].log)
                           /\ streams'[t].log[m.id].id = NoMsgId
                           /\ streams'[t].log[m.id].event = m.event
      BY DEF IdsName
    <2>1. CASE t # s
      <3>1. streams'[t] = streams[t]
        BY <1>2, <2>1
      <3> QED
        BY <3>1 DEF Names, IdsName
    <2>2. CASE t = s
      <3>1. CASE i \in 1..Len(streams[s].log)
        <4>1. m = streams[s].log[i]
          BY <1>4, <2>2, <3>1
        <4>2. \/ m.id = IdOf[m.event]
              \/ /\ IdOf[m.event] = NoMsgId
                 /\ m.id \in 1..Len(streams[s].log)
                 /\ streams[s].log[m.id].id = NoMsgId
                 /\ streams[s].log[m.id].event = m.event
          BY <3>1, <4>1 DEF Names, IdsName
        <4> QED
          BY <1>4, <2>2, <4>2
      <3>2. CASE m = msg
        BY <1>4, <2>2, <3>2
      <3> QED
        BY <1>4, <2>2, <3>1, <3>2
    <2> QED
      BY <2>1, <2>2
  <1>6. LettersAreNamed'
    <2> SUFFICES ASSUME NEW l \in Letter, l.seq \in Stored(l.d), l.id = EnvelopeId(l.d, l.seq)
                 PROVE  l.id = EnvelopeId(l.d, l.seq)'
      BY <1>1, Shapes DEF IInv, AcksAreNamed, Names, LettersAreNamed
    <2>1. StreamOf[l.d] \in Streams
      BY EventBusAssumption DEF Letter
    <2> QED
      BY <1>2, <1>4, <2>1 DEF EnvelopeId, Stored
  <1> QED
    BY <1>5, <1>6 DEF Names

\* A step that stores nothing in a stream, and at most its own letter in the DLQ.
LEMMA OthersName ==
  ASSUME IInv, Names, \A s \in Streams : streams'[s].log = streams[s].log,
         \/ UNCHANGED dlq
         \/ \E f \in flights : dlq' = Store(dlq, LetterOf(f))
  PROVE  Names'
  <1>1. IdsName'
    BY DEF Names, IdsName
  <1>2. \A d \in Durables : \A q : EnvelopeId(d, q)' = EnvelopeId(d, q)
    BY EventBusAssumption DEF EnvelopeId
  <1>3. \A i \in 1..Len(dlq.log) : dlq.log[i] \in Letter /\ dlq.log[i].d \in Durables
    BY Shapes DEF IInv, Letter
  <1>4. CASE UNCHANGED dlq
    BY <1>1, <1>2, <1>3, <1>4 DEF Names, LettersAreNamed
  <1>5. ASSUME NEW f \in flights, dlq' = Store(dlq, LetterOf(f)) PROVE LettersAreNamed'
    <2> DEFINE letter == LetterOf(f)
    <2>1. f.d \in Durables /\ f.seq \in Seqs /\ f.seq \in Stored(f.d)
          /\ EnvelopeId(f.d, f.seq) \in Ids /\ EventAt(f.d, f.seq) \in Events
      BY FlightFacts, Shapes DEF IInv
    <2>2. letter \in Letter /\ letter.id = EnvelopeId(letter.d, letter.seq)
          /\ letter.d \in Durables /\ letter.id \in Ids \union {NoMsgId}
      BY <2>1 DEF LetterOf, Letter
    <2> HIDE DEF letter
    <2>3. dlq \in [log : Seq(Letter), window : SUBSET Ids]
      BY DEF IInv, TypeOK
    <2>4. /\ \A i \in 1..Len(dlq.log) : dlq'.log[i] = dlq.log[i]
          /\ \A i \in 1..Len(dlq'.log) : i \in 1..Len(dlq.log) \/ dlq'.log[i] = letter
      <3>1. dlq' = Store(dlq, letter)
        BY <1>5 DEF letter
      <3> QED
        BY <2>2, <2>3, <3>1, StoreAdds
    <2>5. ASSUME NEW l \in Letter, l = letter \/ \E i \in 1..Len(dlq.log) : l = dlq.log[i]
          PROVE  l.id = EnvelopeId(l.d, l.seq)'
      <3>1. l.d \in Durables /\ l.id = EnvelopeId(l.d, l.seq)
        BY <2>2, <2>5 DEF Names, LettersAreNamed, Letter
      <3> QED
        BY <1>2, <3>1
    <2>6. \A i \in 1..Len(dlq'.log) : /\ dlq'.log[i] \in Letter
                                     /\ \/ dlq'.log[i] = letter
                                        \/ \E j \in 1..Len(dlq.log) : dlq'.log[i] = dlq.log[j]
      BY <1>3, <2>2, <2>4
    <2>7. \A i \in 1..Len(dlq'.log) : dlq'.log[i].id = EnvelopeId(dlq.log[i].d, dlq.log[i].seq)'
      BY <2>5, <2>6
    <2> QED
      BY <2>7 DEF LettersAreNamed
  <1> QED
    BY <1>1, <1>4, <1>5 DEF Names

LEMMA StepNames == IInv /\ Names /\ [Next]_vars => Names'
  <1> SUFFICES ASSUME IInv, Names, [Next]_vars PROVE Names'
    OBVIOUS
  <1>1. ASSUME NEW e \in Events, Publish(e) PROVE Names'
    <2>1. [id |-> IdOf[e], event |-> e] \in Message
      BY DEF Message, Ids
    <2>2. StreamOf[e] \in Streams
      BY EventBusAssumption
    <2> QED
      BY <1>1, <2>1, <2>2, SendNames DEF Publish
  <1>2. ASSUME NEW i \in 1..Len(dlq.log), Redeliver(i) PROVE Names'
    <2>1. PICK l \in Letter : l = dlq.log[i]
      BY Shapes DEF IInv
    <2>2. l.d \in Durables /\ l.seq \in Stored(l.d) /\ l.id = EnvelopeId(l.d, l.seq)
          /\ l.event = EventAt(l.d, l.seq)
      BY <2>1 DEF Letter, IInv, AcksAreNamed, Names, LettersAreNamed
    <2> DEFINE msg == [id |-> l.id, event |-> l.event]
    <2>3. msg \in Message /\ StreamOf[l.d] \in Streams
      BY <2>2, EventBusAssumption DEF Message, Letter
    <2>4. Send(StreamOf[l.d], msg)
      BY <1>2, <2>1 DEF Redeliver
    <2>5. \/ msg.id = IdOf[msg.event]
          \/ /\ IdOf[msg.event] = NoMsgId
             /\ msg.id \in 1..Len(streams[StreamOf[l.d]].log)
             /\ streams[StreamOf[l.d]].log[msg.id].id = NoMsgId
             /\ streams[StreamOf[l.d]].log[msg.id].event = msg.event
      <3>1. \/ l.id = IdOf[l.event]
            \/ IdOf[l.event] = NoMsgId /\ l.id \in Stored(l.d) /\ l.event = EventAt(l.d, l.id)
                 /\ streams[StreamOf[l.d]].log[l.id].id = NoMsgId
        BY <2>2, IdTells
      <3> QED
        BY <3>1 DEF Stored, EventAt
    <2> QED
      BY <2>3, <2>4, <2>5, SendNames
  <1>3. ASSUME NEW s \in Streams, NEW id \in streams[s].window, Forget(s, id) PROVE Names'
    <2>1. streams' = [streams EXCEPT ![s] = ForgetId(@, id)] /\ UNCHANGED dlq
      BY <1>3 DEF Forget
    <2>2. ForgetId(streams[s], id).log = streams[s].log
      BY DEF IInv, TypeOK, ForgetId
    <2>3. \A t \in Streams : streams'[t].log = streams[t].log
      BY <2>1, <2>2 DEF IInv, TypeOK
    <2> QED
      BY <2>1, <2>3, OthersName
  <1>4. ASSUME NEW f \in flights, Callback(f) PROVE Names'
    <2>1. UNCHANGED streams /\ (UNCHANGED dlq \/ dlq' = Store(dlq, LetterOf(f)))
      BY <1>4 DEF Callback, HandleKnown, HandleOk, HandleFails, Ack, Nak, Bury, BuryFails, server
    <2> QED
      BY <2>1, OthersName
  <1>5. CASE \/ \E d \in Durables, seq \in Seqs, p \in Replicas : Deliver(d, seq, p)
             \/ \E p \in Replicas : Crash(p)
             \/ UNCHANGED vars
    <2>1. UNCHANGED <<streams, dlq>>
      BY <1>5 DEF Deliver, Crash, server, vars
    <2> QED
      BY <2>1, OthersName
  <1> QED
    BY <1>1, <1>2, <1>3, <1>4, <1>5 DEF Next

\* A letter under the id of a message is of its event, or shadows it.
LEMMA NamedIsKept ==
  ASSUME IInv, Names, NEW d \in Durables, NEW seq \in Stored(d), Named(d, seq)
  PROVE  Buried(d, seq) \/ Shadowed(d, seq)
  <1> SUFFICES ASSUME ~Buried(d, seq) PROVE Shadowed(d, seq)
    OBVIOUS
  <1>1. PICK i \in 1..Len(dlq.log) : dlq.log[i].id = EnvelopeId(d, seq)
    BY DEF Named
  <1>2. PICK l \in Letter : l = dlq.log[i]
    BY Shapes DEF IInv
  <1>3. l.d \in Durables /\ l.seq \in Stored(l.d) /\ l.id = EnvelopeId(l.d, l.seq)
        /\ l.event = EventAt(l.d, l.seq)
    BY <1>2 DEF Letter, IInv, AcksAreNamed, Names, LettersAreNamed
  <1>4. l.event # EventAt(d, seq)
    BY <1>1, <1>2 DEF Buried
  <1>5. ASSUME StreamOf[l.d] = StreamOf[d] PROVE Clash(l.event, EventAt(d, seq))
    <2> DEFINE id == EnvelopeId(d, seq)
               e1 == l.event
               e2 == EventAt(d, seq)
    <2>1. \/ id = IdOf[e2] /\ id # NoMsgId
          \/ IdOf[e2] = NoMsgId /\ id \in Stored(d) /\ e2 = EventAt(d, id)
      BY IdTells
    <2>2. \/ id = IdOf[e1] /\ id # NoMsgId
          \/ IdOf[e1] = NoMsgId /\ id \in Stored(l.d) /\ e1 = EventAt(l.d, id)
      BY <1>1, <1>2, <1>3, IdTells
    <2>3. EventAt(d, id) = EventAt(l.d, id) /\ Stored(l.d) = Stored(d) /\ Stored(d) \subseteq Seqs
      BY <1>5, Shapes DEF EventAt, Stored, IInv
    <2> HIDE DEF id
    <2> QED
      BY <1>4, <2>1, <2>2, <2>3 DEF Clash
  <1> QED
    BY <1>1, <1>2, <1>4, <1>5 DEF Shadowed

-----------------------------------------------------------------------------
\* The inductive invariant of the bus: what happens to a message, and what ids name.
THEOREM Invariance == Spec => [](IInv /\ Names)
  <1>1. Init => IInv /\ Names
    BY InitInv, InitNames
  <1>2. (IInv /\ Names) /\ [Next]_vars => (IInv /\ Names)'
    BY StepInv, StepNames
  <1> QED
    BY <1>1, <1>2, PTL DEF Spec

\* Streams, deliveries and Guards keep their shape; no message is delivered more
\* than MaxDeliver times.
THEOREM TypeCorrect == Spec => []TypeOK
  <1>1. IInv => TypeOK
    BY DEF IInv
  <1> QED
    BY <1>1, Invariance, PTL

\* Subscribe's callback acknowledges only what was handled or buried - or what the DLQ
\* takes for another event, of another stream or under a clashing id - and buries only
\* what used up its attempts.
THEOREM AcksAlwaysEarned == Spec => []AcksAreEarned
  <1>1. IInv /\ Names => AcksAreEarned
    BY NamedIsKept DEF IInv, TriedIsStored, AcksAreNamed, AcksAreEarned
  <1> QED
    BY <1>1, Invariance, PTL

\* A message is lost only if its own last delivery was broken off, by a crash or by a
\* failing publishDeadLetter, or if its letter was dropped under another event's id.
THEOREM LossAlwaysNeedsFault == Spec => []LossNeedsFault
  <1>1. IInv /\ Names => LossNeedsFault
    <2> SUFFICES ASSUME IInv, Names, NEW d \in Durables, NEW seq \in Stored(d), Lost(d, seq),
                        ~Shadowed(d, seq)
                 PROVE  <<d, seq>> \in cut
      BY DEF LossNeedsFault
    <2>1. seq \in Seqs /\ seq \notin done[d] /\ ~Named(d, seq)
      BY Shapes, NamedIsKept DEF IInv, Lost
    <2>2. seq \notin acked[d]
      BY <2>1 DEF IInv, AcksAreNamed
    <2>3. tries[d][seq] = MaxDeliver /\ \A f \in flights : ~(f.d = d /\ f.seq = seq)
      BY <2>2 DEF Lost, Settled
    <2> QED
      BY <2>1, <2>3 DEF IInv, LastIsInFlight
  <1> QED
    BY <1>1, Invariance, PTL

\* Guard.Do: an id takes effect at most once in the life of each process.
THEOREM EffectsAlwaysNeedALife == Spec => []EffectsNeedALife
  <1>1. IInv => EffectsNeedALife
    <2> SUFFICES ASSUME IInv, NEW d \in Durables, NEW id \in Ids
                 PROVE  effects[d][id] <= Cardinality(Replicas) + crashes
      BY DEF EffectsNeedALife
    <2>1. effects[d][id] <= Cardinality(Knowing(d, id)) + crashes
          /\ effects[d][id] \in Nat /\ crashes \in Nat
      BY DEF IInv, EffectsAreKnown, TypeOK
    <2>2. Knowing(d, id) \in SUBSET Replicas
      BY DEF Knowing
    <2>3. IsFiniteSet(Knowing(d, id)) /\ Cardinality(Knowing(d, id)) <= Cardinality(Replicas)
      BY <2>2, FS_Subset, EventBusAssumption
    <2>4. Cardinality(Knowing(d, id)) \in Nat /\ Cardinality(Replicas) \in Nat
      BY <2>3, FS_CardinalityType, EventBusAssumption
    <2> QED
      BY <2>1, <2>3, <2>4
  <1> QED
    BY <1>1, Invariance, PTL
=============================================================================
