------------------------- MODULE OutboxRelayProofs --------------------------
(***************************************************************************)
(* The safety of the transactional outbox, for any number of rows, relays  *)
(* and lapses of the duplicate window.                                     *)
(*                                                                         *)
(* That marks are true rests on two facts about a tick: a relay has sent   *)
(* only rows it holds, and what it has sent is in the broker.  That copies *)
(* need a lapse rests on the window: an id in it was stored, and an id     *)
(* that was stored and is not in it was forgotten once more than the       *)
(* copies show.                                                            *)
(***************************************************************************)
EXTENDS OutboxRelay, FiniteSetTheorems, SequenceTheorems, TLAPS

SentIsStored ==
    /\ \A r \in Relays : sent[r] \subseteq held[r]
    /\ \A r \in Relays : \A e \in sent[r] : InStream(e)

WindowIsStored == \A e \in stream.window : InStream(e)

Forgotten(e) == IF e \in stream.window THEN 0 ELSE 1

CopiesAreCounted ==
    \A e \in Rows :
        /\ IsFiniteSet(Copies(e))
        /\ Cardinality(Copies(e)) + Forgotten(e) <= 1 + forgets

IInv ==
    /\ TypeOK
    /\ ExclusiveRows
    /\ SentIsStored
    /\ WindowIsStored
    /\ MarksAreTrue
    /\ CopiesAreCounted

-----------------------------------------------------------------------------
\* The broker

\* Publishing a row: its message is in the stream afterwards, no other is added,
\* and there is a new copy only if the window had forgotten it.
LEMMA StoreAdds ==
  ASSUME TypeOK, WindowIsStored, CopiesAreCounted, NEW e \in Rows,
         stream' = Store(stream, Message(e)), forgets' = forgets
  PROVE  /\ stream' \in [log : Seq([id : Rows, row : Rows]), window : SUBSET Rows]
         /\ \A f \in Rows : InStream(f)' <=> InStream(f) \/ f = e
         /\ WindowIsStored'
         /\ CopiesAreCounted'
  <1> DEFINE M == [id : Rows, row : Rows]
             m == Message(e)
  <1>0. stream.log \in Seq(M) /\ stream.window \subseteq Rows /\ m \in M
    BY DEF TypeOK, Message
  <1>1. CASE e \in stream.window
    <2>1. stream' = stream
      BY <1>1 DEF Store, Message
    <2>2. InStream(e)
      BY <1>1 DEF WindowIsStored
    <2> QED
      BY <2>1, <2>2 DEF TypeOK, InStream, Copies, WindowIsStored, CopiesAreCounted, Forgotten
  <1>2. CASE e \notin stream.window
    <2>1. stream' = [log |-> Append(stream.log, m), window |-> stream.window \union {e}]
      BY <1>2, BrokerAssumption DEF Store, Message
    <2> DEFINE n == Len(stream.log)
    <2>2. /\ Append(stream.log, m) \in Seq(M)
          /\ Len(Append(stream.log, m)) = n + 1
          /\ \A i \in 1..n : Append(stream.log, m)[i] = stream.log[i]
          /\ Append(stream.log, m)[n + 1] = m
          /\ n \in Nat
      BY <1>0, AppendProperties, LenProperties
    <2>3. Copies(e)' = Copies(e) \union {n + 1} /\ n + 1 \notin Copies(e)
      BY <2>1, <2>2 DEF Copies, Message
    <2>4. \A f \in Rows \ {e} : Copies(f)' = Copies(f)
      BY <2>1, <2>2 DEF Copies, Message
    <2>5. stream' \in [log : Seq(M), window : SUBSET Rows]
      BY <1>0, <2>1, <2>2
    <2>6. \A f \in Rows : InStream(f)' <=> InStream(f) \/ f = e
      BY <2>3, <2>4 DEF InStream
    <2>7. WindowIsStored'
      BY <1>0, <2>1, <2>6 DEF WindowIsStored
    <2>8. IsFiniteSet(Copies(e)') /\ Cardinality(Copies(e)') = Cardinality(Copies(e)) + 1
      <3>1. IsFiniteSet(Copies(e))
        BY DEF CopiesAreCounted
      <3>2. /\ IsFiniteSet(Copies(e) \union {n + 1})
            /\ Cardinality(Copies(e) \union {n + 1}) = Cardinality(Copies(e)) + 1
        BY <2>3, <3>1, FS_AddElement
      <3> QED
        BY <2>3, <3>2
    <2>9. Cardinality(Copies(e)) \in Nat /\ forgets \in Nat
      BY FS_CardinalityType, BrokerAssumption DEF CopiesAreCounted, TypeOK
    <2>10. Cardinality(Copies(e))' + Forgotten(e)' <= 1 + forgets'
      BY <1>2, <2>1, <2>8, <2>9 DEF CopiesAreCounted, Forgotten
    <2>11. \A f \in Rows \ {e} : Forgotten(f)' = Forgotten(f)
      BY <2>1 DEF Forgotten
    <2>12. CopiesAreCounted'
      BY <2>4, <2>8, <2>10, <2>11 DEF CopiesAreCounted
    <2> QED
      BY <2>5, <2>6, <2>7, <2>12
  <1> QED
    BY <1>1, <1>2

-----------------------------------------------------------------------------
LEMMA InitInv == Init => IInv
  <1> SUFFICES ASSUME Init PROVE IInv
    OBVIOUS
  <1>1. stream.log = <<>> /\ stream.window = {} /\ Len(stream.log) = 0
    BY DEF Init, EmptyStream
  <1>2. TypeOK
    <2>1. <<>> \in Seq([id : Rows, row : Rows])
      BY EmptySeq
    <2> QED
      BY <2>1, BrokerAssumption DEF Init, TypeOK, Statuses, EmptyStream
  <1>3. \A e \in Rows : Copies(e) = {}
    BY <1>1 DEF Copies
  <1>4. ExclusiveRows /\ SentIsStored
    BY DEF Init, ExclusiveRows, SentIsStored
  <1>5. WindowIsStored /\ MarksAreTrue
    BY <1>1, <1>3 DEF Init, WindowIsStored, MarksAreTrue, InStream
  <1>6. CopiesAreCounted
    <2>1. IsFiniteSet({}) /\ Cardinality({}) = 0
      BY FS_EmptySet
    <2>2. forgets = 0 /\ \A e \in Rows : Forgotten(e) = 1
      BY <1>1 DEF Init, Forgotten
    <2> QED
      BY <1>3, <2>1, <2>2 DEF CopiesAreCounted
  <1> QED
    BY <1>2, <1>4, <1>5, <1>6 DEF IInv

\* A step that leaves the broker alone keeps what is known of it.
LEMMA BrokerKept ==
  ASSUME WindowIsStored, CopiesAreCounted, stream' = stream, forgets' = forgets
  PROVE  WindowIsStored' /\ CopiesAreCounted' /\ \A e \in Rows : InStream(e)' <=> InStream(e)
  BY DEF WindowIsStored, CopiesAreCounted, InStream, Copies, Forgotten

LEMMA BusinessStep ==
  ASSUME IInv, NEW e \in Rows, Insert(e) \/ Commit(e) \/ Rollback(e)
  PROVE  IInv'
  <1>1. stream' = stream /\ forgets' = forgets /\ held' = held /\ sent' = sent /\ halted' = halted
    BY DEF Insert, Commit, Rollback
  <1>2. WindowIsStored' /\ CopiesAreCounted' /\ \A f \in Rows : InStream(f)' <=> InStream(f)
    BY <1>1, BrokerKept DEF IInv
  <1>3. TypeOK'
    <2>1. status' \in [Rows -> Statuses]
      BY DEF IInv, TypeOK, Insert, Commit, Rollback, Statuses
    <2>2. id' \in [Rows -> Nat] /\ nextId' \in Nat
      <3>1. id \in [Rows -> Nat] /\ nextId \in Nat
        BY DEF IInv, TypeOK
      <3>2. CASE Insert(e)
        <4>1. id' = [id EXCEPT ![e] = nextId] /\ nextId' = nextId + 1
          BY <3>2 DEF Insert
        <4>2. id' \in [Rows -> Nat]
          BY <3>1, <4>1
        <4> QED
          BY <3>1, <4>1, <4>2
      <3>3. CASE Commit(e) \/ Rollback(e)
        BY <3>1, <3>3 DEF Commit, Rollback
      <3> QED
        BY <3>2, <3>3
    <2> QED
      BY <1>1, <2>1, <2>2 DEF IInv, TypeOK
  <1>4. SentIsStored'
    BY <1>1, <1>2 DEF IInv, TypeOK, SentIsStored
  <1>5. status[e] \in {"none", "pending"} /\ \A f \in Rows \ {e} : status'[f] = status[f]
    BY DEF IInv, TypeOK, Insert, Commit, Rollback
  <1>6. ExclusiveRows'
    BY <1>1, <1>5 DEF IInv, TypeOK, ExclusiveRows
  <1>7. ~InStream(e) /\ status'[e] # "published"
    BY <1>5 DEF IInv, TypeOK, MarksAreTrue, Insert, Commit, Rollback
  <1>8. MarksAreTrue'
    BY <1>2, <1>5, <1>7 DEF IInv, MarksAreTrue
  <1> QED
    BY <1>2, <1>3, <1>4, <1>6, <1>8 DEF IInv

LEMMA ClaimStep ==
  ASSUME IInv, NEW r \in Relays, Claim(r)
  PROVE  IInv'
  <1>1. stream' = stream /\ forgets' = forgets /\ sent' = sent /\ status' = status
    BY DEF Claim, table
  <1>2. WindowIsStored' /\ CopiesAreCounted' /\ \A f \in Rows : InStream(f)' <=> InStream(f)
    BY <1>1, BrokerKept DEF IInv
  <1>3. Oldest(Lockable, Limit) \subseteq Lockable /\ Lockable \subseteq Rows
    BY DEF Oldest, Lockable
  <1>4. /\ held'[r] = Oldest(Lockable, Limit)
        /\ \A q \in Relays \ {r} : held'[q] = held[q]
        /\ held' \in [Relays -> SUBSET Rows]
    BY <1>3 DEF IInv, TypeOK, Claim
  <1>5. TypeOK'
    BY <1>4 DEF IInv, TypeOK, Claim, table
  <1>6. ExclusiveRows'
    <2>1. \A e \in held'[r] : status[e] = "ready" /\ \A q \in Relays : e \notin held[q]
      BY <1>3, <1>4 DEF Lockable
    <2> QED
      BY <1>1, <1>4, <2>1 DEF IInv, ExclusiveRows
  <1>7. SentIsStored'
    <2>1. sent[r] = {}
      BY DEF IInv, SentIsStored, Claim
    <2> QED
      BY <1>1, <1>2, <1>4, <2>1 DEF IInv, TypeOK, SentIsStored
  <1>8. MarksAreTrue'
    BY <1>1, <1>2 DEF IInv, MarksAreTrue
  <1> QED
    BY <1>2, <1>5, <1>6, <1>7, <1>8 DEF IInv

LEMMA UpcomingIsHeld ==
  ASSUME NEW r \in Relays, NEW e \in Upcoming(r)
  PROVE  e \in held[r]
  BY DEF Upcoming, Oldest

LEMMA PublishStep ==
  ASSUME IInv, NEW r \in Relays, NEW e \in Rows, Publish(r, e)
  PROVE  IInv'
  <1>1. /\ stream' = Store(stream, Message(e)) /\ forgets' = forgets
        /\ held' = held /\ status' = status /\ e \in held[r]
    BY UpcomingIsHeld DEF Publish, table
  <1>2. /\ stream' \in [log : Seq([id : Rows, row : Rows]), window : SUBSET Rows]
        /\ \A f \in Rows : InStream(f)' <=> InStream(f) \/ f = e
        /\ WindowIsStored' /\ CopiesAreCounted'
    BY <1>1, StoreAdds DEF IInv
  <1>3. /\ sent'[r] = sent[r] \union {e}
        /\ \A q \in Relays \ {r} : sent'[q] = sent[q]
        /\ sent' \in [Relays -> SUBSET Rows]
    BY DEF IInv, TypeOK, Publish
  <1>4. TypeOK'
    BY <1>1, <1>2, <1>3 DEF IInv, TypeOK, Publish, table
  <1>5. ExclusiveRows'
    BY <1>1 DEF IInv, ExclusiveRows
  <1>6. SentIsStored'
    BY <1>1, <1>2, <1>3 DEF IInv, TypeOK, SentIsStored
  <1>7. status[e] = "ready"
    BY <1>1 DEF IInv, ExclusiveRows
  <1>8. MarksAreTrue'
    BY <1>1, <1>2, <1>7 DEF IInv, MarksAreTrue
  <1> QED
    BY <1>2, <1>4, <1>5, <1>6, <1>8 DEF IInv

\* A failed publication may have stored the message, or not.
LEMMA PublishFailsStep ==
  ASSUME IInv, NEW r \in Relays, NEW e \in Rows, PublishFails(r, e)
  PROVE  IInv'
  <1>1. /\ forgets' = forgets /\ held' = held /\ sent' = sent /\ status' = status
        /\ e \in held[r]
        /\ stream' = stream \/ stream' = Store(stream, Message(e))
    BY UpcomingIsHeld DEF PublishFails, table
  <1>2. /\ stream' \in [log : Seq([id : Rows, row : Rows]), window : SUBSET Rows]
        /\ \A f \in Rows : InStream(f) => InStream(f)'
        /\ \A f \in Rows : InStream(f)' => InStream(f) \/ f = e
        /\ WindowIsStored' /\ CopiesAreCounted'
    <2>1. CASE stream' = stream
      BY <1>1, <2>1, BrokerKept DEF IInv, TypeOK
    <2>2. CASE stream' = Store(stream, Message(e))
      BY <1>1, <2>2, StoreAdds DEF IInv
    <2> QED
      BY <1>1, <2>1, <2>2
  <1>3. TypeOK'
    BY <1>1, <1>2 DEF IInv, TypeOK, PublishFails, table
  <1>4. ExclusiveRows' /\ SentIsStored'
    BY <1>1, <1>2 DEF IInv, TypeOK, ExclusiveRows, SentIsStored
  <1>5. status[e] = "ready"
    BY <1>1 DEF IInv, ExclusiveRows
  <1>6. MarksAreTrue'
    BY <1>1, <1>2, <1>5 DEF IInv, MarksAreTrue
  <1> QED
    BY <1>2, <1>3, <1>4, <1>6 DEF IInv

\* The locks and the memory of the tick go, the rows of other relays stay.
LEMMA ReleaseKeeps ==
  ASSUME IInv, NEW r \in Relays, Release(r)
  PROVE  /\ held' \in [Relays -> SUBSET Rows] /\ held'[r] = {}
         /\ sent' \in [Relays -> SUBSET Rows] /\ sent'[r] = {}
         /\ halted' \in [Relays -> BOOLEAN]
         /\ \A q \in Relays \ {r} : held'[q] = held[q] /\ sent'[q] = sent[q]
  BY DEF IInv, TypeOK, Release

LEMMA MarkStep ==
  ASSUME IInv, NEW r \in Relays, Mark(r)
  PROVE  IInv'
  <1>1. /\ stream' = stream /\ forgets' = forgets /\ Release(r)
        /\ status' = [e \in Rows |-> IF e \in sent[r] THEN "published" ELSE status[e]]
    BY DEF Mark, Markable
  <1>2. WindowIsStored' /\ CopiesAreCounted' /\ \A f \in Rows : InStream(f)' <=> InStream(f)
    BY <1>1, BrokerKept DEF IInv
  <1>3. /\ held' \in [Relays -> SUBSET Rows] /\ held'[r] = {}
        /\ sent' \in [Relays -> SUBSET Rows] /\ sent'[r] = {}
        /\ halted' \in [Relays -> BOOLEAN]
        /\ \A q \in Relays \ {r} : held'[q] = held[q] /\ sent'[q] = sent[q]
    BY <1>1, ReleaseKeeps
  <1>4. TypeOK'
    BY <1>1, <1>3 DEF IInv, TypeOK, Mark, Statuses
  <1>5. \A q \in Relays \ {r} : \A e \in held[q] : e \in Rows /\ e \notin sent[r]
    BY DEF IInv, TypeOK, ExclusiveRows, SentIsStored
  <1>6. ExclusiveRows'
    BY <1>1, <1>3, <1>5 DEF IInv, ExclusiveRows
  <1>7. SentIsStored'
    BY <1>2, <1>3 DEF IInv, TypeOK, SentIsStored
  <1>8. \A e \in sent[r] : InStream(e)
    BY DEF IInv, SentIsStored
  <1>9. MarksAreTrue'
    BY <1>1, <1>2, <1>8 DEF IInv, MarksAreTrue
  <1> QED
    BY <1>2, <1>4, <1>6, <1>7, <1>9 DEF IInv

LEMMA DieStep ==
  ASSUME IInv, NEW r \in Relays, Die(r)
  PROVE  IInv'
  <1>1. stream' = stream /\ forgets' = forgets /\ status' = status /\ Release(r)
    BY DEF Die, table
  <1>2. WindowIsStored' /\ CopiesAreCounted' /\ \A f \in Rows : InStream(f)' <=> InStream(f)
    BY <1>1, BrokerKept DEF IInv
  <1>3. /\ held' \in [Relays -> SUBSET Rows] /\ held'[r] = {}
        /\ sent' \in [Relays -> SUBSET Rows] /\ sent'[r] = {}
        /\ halted' \in [Relays -> BOOLEAN]
        /\ \A q \in Relays \ {r} : held'[q] = held[q] /\ sent'[q] = sent[q]
    BY <1>1, ReleaseKeeps
  <1>4. TypeOK'
    BY <1>1, <1>3 DEF IInv, TypeOK, Die, table
  <1>5. ExclusiveRows' /\ SentIsStored'
    BY <1>1, <1>2, <1>3 DEF IInv, TypeOK, ExclusiveRows, SentIsStored
  <1>6. MarksAreTrue'
    BY <1>1, <1>2 DEF IInv, MarksAreTrue
  <1> QED
    BY <1>2, <1>4, <1>5, <1>6 DEF IInv

\* The window forgets an id: from now on one more copy is possible.
LEMMA ForgetStep ==
  ASSUME IInv, NEW e \in Rows, Forget(e)
  PROVE  IInv'
  <1>1. /\ stream'.log = stream.log /\ stream'.window = stream.window \ {e}
        /\ stream' \in [log : Seq([id : Rows, row : Rows]), window : SUBSET Rows]
        /\ e \in stream.window /\ forgets' = forgets + 1 /\ forgets' \in 0..MaxForgets
        /\ status' = status /\ held' = held /\ sent' = sent
    <2>1. /\ stream \in [log : Seq([id : Rows, row : Rows]), window : SUBSET Rows]
          /\ stream' = [stream EXCEPT !.window = @ \ {e}]
      BY DEF IInv, TypeOK, Forget, ForgetId
    <2>2. /\ stream'.log = stream.log /\ stream'.window = stream.window \ {e}
          /\ stream' \in [log : Seq([id : Rows, row : Rows]), window : SUBSET Rows]
      BY <2>1
    <2>3. forgets \in 0..MaxForgets /\ forgets < MaxForgets /\ forgets' = forgets + 1
      BY DEF IInv, TypeOK, Forget
    <2>4. forgets' \in 0..MaxForgets
      BY <2>3, BrokerAssumption
    <2> QED
      BY <2>2, <2>3, <2>4 DEF Forget, table
  <1>2. \A f \in Rows : Copies(f)' = Copies(f)
    BY <1>1 DEF Copies
  <1>3. TypeOK'
    BY <1>1 DEF IInv, TypeOK, Forget, table
  <1>4. ExclusiveRows' /\ SentIsStored' /\ MarksAreTrue' /\ WindowIsStored'
    BY <1>1, <1>2 DEF IInv, TypeOK, ExclusiveRows, SentIsStored, MarksAreTrue,
                      WindowIsStored, InStream
  <1>5. CopiesAreCounted'
    <2> SUFFICES ASSUME NEW f \in Rows
                 PROVE  /\ IsFiniteSet(Copies(f)')
                        /\ Cardinality(Copies(f)') + Forgotten(f)' <= 1 + forgets'
      BY DEF CopiesAreCounted
    <2>1. Cardinality(Copies(f)) \in Nat /\ forgets \in Nat
      BY FS_CardinalityType, BrokerAssumption DEF IInv, CopiesAreCounted, TypeOK
    <2>2. Forgotten(f)' <= Forgotten(f) + 1
      BY <1>1 DEF Forgotten
    <2>3. Forgotten(f) \in {0, 1} /\ Forgotten(f)' \in {0, 1}
      BY DEF Forgotten
    <2> QED
      BY <1>1, <1>2, <2>1, <2>2, <2>3 DEF IInv, CopiesAreCounted
  <1> QED
    BY <1>3, <1>4, <1>5 DEF IInv

LEMMA StutterStep ==
  ASSUME IInv, UNCHANGED vars
  PROVE  IInv'
  BY DEF IInv, vars, TypeOK, ExclusiveRows, SentIsStored, WindowIsStored, MarksAreTrue,
         CopiesAreCounted, InStream, Copies, Forgotten

-----------------------------------------------------------------------------
\* The invariant is inductive: it holds at the start and every action, of any
\* relay on any row, keeps it.
THEOREM Invariance == Spec => []IInv
  <1>1. IInv /\ [Next]_vars => IInv'
    <2> SUFFICES ASSUME IInv, [Next]_vars PROVE IInv'
      OBVIOUS
    <2>1. CASE \E e \in Rows : Insert(e) \/ Commit(e) \/ Rollback(e)
      BY <2>1, BusinessStep
    <2>2. CASE \E e \in Rows : Forget(e)
      BY <2>2, ForgetStep
    <2>3. CASE \E r \in Relays : Claim(r) \/ Mark(r) \/ Die(r)
      BY <2>3, ClaimStep, MarkStep, DieStep
    <2>4. CASE \E r \in Relays, e \in Rows : Publish(r, e) \/ PublishFails(r, e)
      BY <2>4, PublishStep, PublishFailsStep
    <2>5. CASE UNCHANGED vars
      BY <2>5, StutterStep
    <2> QED
      BY <2>1, <2>2, <2>3, <2>4, <2>5 DEF Next
  <1> QED
    BY InitInv, <1>1, PTL DEF Spec

\* The variables of OutboxRelay keep their types.
THEOREM TypeCorrect == Spec => []TypeOK
  BY Invariance, PTL DEF IInv

\* No two relays ever work on one row, and what a relay holds is unpublished.
THEOREM RowsAlwaysExclusive == Spec => []ExclusiveRows
  BY Invariance, PTL DEF IInv

\* A mark on a row is never a lie about the broker, and nothing uncommitted or
\* rolled back is ever published (DispatchOutbox, Save).
THEOREM MarksAlwaysTrue == Spec => []MarksAreTrue
  BY Invariance, PTL DEF IInv

\* Without a lapse of the duplicate window a row is in the stream at most once,
\* however often relays crash and publish it again.
THEOREM CopiesAlwaysNeedLapse == Spec => []CopiesNeedLapse
  <1>1. IInv => CopiesNeedLapse
    <2> SUFFICES ASSUME IInv, NEW e \in Rows
                 PROVE  Cardinality(Copies(e)) <= 1 + forgets
      BY DEF CopiesNeedLapse
    <2>1. Cardinality(Copies(e)) \in Nat /\ forgets \in Nat
      BY FS_CardinalityType, BrokerAssumption DEF IInv, CopiesAreCounted, TypeOK
    <2>2. Forgotten(e) \in {0, 1}
      BY DEF Forgotten
    <2> QED
      BY <2>1, <2>2 DEF IInv, CopiesAreCounted
  <1> QED
    BY <1>1, Invariance, PTL
=============================================================================
