---------------------------- MODULE EntryProofs -----------------------------
(***************************************************************************)
(* The safety of the queued entry, for any users, request ids, replicas,   *)
(* pages and any number of faults: the closer's lock (BatchHoldsLock) and  *)
(* the result that reaches the page (NoLostResult).                        *)
(*                                                                         *)
(* NoLostResult lists where a result may be on its way; what keeps it true *)
(* is that whoever lets go of a message - a replica that settles it, one   *)
(* that remembers its id and skips it from then on - does so when its user *)
(* is served: told, refused, or excepted.  Being served is stable, and an  *)
(* entered user who is not has a message that is still unacknowledged.     *)
(*                                                                         *)
(* Likewise for who waits without a page: whoever remembers an id or       *)
(* acknowledges a message has answered its user (OwedInv).                 *)
(***************************************************************************)
EXTENDS Entry, SequenceTheorems, TLAPS

Told(u) ==
    \/ pages[u].st # "open"
    \/ pages[u].shown \in {"result", "unseen"}
    \/ pages[u].queued > 0
    \/ <<pages[u].at, u>> \in notes

Served(u) ==
    \/ u \notin Watchers
    \/ u \in missed \union refused
    \/ SharesKey(u)
    \/ Board!InLine(u) /\ Told(u)

UserOf(p) == Message(job[p].seq).user

PageIsWatched ==
    \A u \in Watchers : pages[u].st # "closed" => <<pages[u].at, u>> \in Watch

LogIsAccepted ==
    \A i \in 1..Len(stream.log) : <<Message(i).user, Message(i).id>> \in accepted

SeenIsServed ==
    \A p \in Replicas : \A k \in seen[p] :
        /\ \E v \in Users : <<v, k>> \in accepted
        /\ \A u \in Users : <<u, k>> \in accepted => Served(u)

JobIsEarned ==
    \A p \in Replicas :
        /\ job[p].st = "assigned" => Board!InLine(UserOf(p))
        /\ job[p].st = "handled" => Served(UserOf(p))
        /\ job[p].st # "none" => job[p].seq \in unacked \/ Served(UserOf(p))

EnteredIsOwed ==
    \A u \in Users :
        Board!InLine(u) => Served(u) \/ \E i \in unacked : Message(i).user = u

Delivery == PageIsWatched /\ LogIsAccepted /\ SeenIsServed /\ JobIsEarned /\ EnteredIsOwed

IInv == TypeOK /\ BatchHoldsLock /\ Delivery

-----------------------------------------------------------------------------
LEMMA LongerInterval ==
  ASSUME NEW m \in Nat, NEW n \in Nat, m <= n
  PROVE  1..m - 1 \subseteq 1..n - 1 /\ 0..m - 1 \subseteq 0..n - 1
  OBVIOUS

LEMMA Below ==
  ASSUME NEW m \in Nat \ {0}, NEW n \in Nat, m < n
  PROVE  m \in 1..n - 1 /\ m \in 0..n - 1
  OBVIOUS

\* A message that was delivered is in the log, with a user and an id.
LEMMA MessageType ==
  ASSUME TypeOK
  PROVE  /\ \A i \in 1..Len(stream.log) : Message(i) \in [id : Keys, user : Users]
         /\ \A i \in unacked : i \in 1..Len(stream.log)
         /\ \A p \in Replicas : job[p].st # "none" => job[p].seq \in 1..Len(stream.log)
  <1>1. stream.log \in Seq([id : Keys, user : Users]) /\ Len(stream.log) \in Nat
    BY LenProperties DEF TypeOK
  <1>2. \A i \in 1..Len(stream.log) : Message(i) \in [id : Keys, user : Users]
    BY <1>1, ElementOfSeq DEF Message
  <1>3. \A n \in 0..next - 1 : n # 0 => n \in 1..Len(stream.log)
    BY <1>1 DEF TypeOK
  <1>4. \A i \in unacked : i \in 1..Len(stream.log)
    BY <1>1 DEF TypeOK
  <1>5. \A p \in Replicas : job[p].st # "none" => job[p].seq \in 0..next - 1 /\ job[p].seq # 0
    BY DEF TypeOK
  <1> QED
    BY <1>2, <1>3, <1>4, <1>5

\* What is known of the delivery is kept by a step that changes no more than who
\* is served, and takes that from nobody.
LEMMA DeliveryKept ==
  ASSUME TypeOK, Delivery, PageIsWatched',
         \A u \in Users : Served(u) => Served(u)',
         stream.log' = stream.log,
         UNCHANGED <<unacked, job, seen, line, accepted>>
  PROVE  Delivery'
  <1>1. \A i \in 1..Len(stream.log) : Message(i)' = Message(i)
    BY DEF Message
  <1>2. \A p \in Replicas : UserOf(p)' = UserOf(p)
    BY DEF UserOf, Message
  <1>3. \A p \in Replicas : job[p].st # "none" => UserOf(p) \in Users
    BY MessageType DEF UserOf
  <1>4. \A u : Board!InLine(u)' <=> Board!InLine(u)
    BY DEF Board!InLine
  <1>5. LogIsAccepted'
    BY <1>1 DEF Delivery, LogIsAccepted
  <1>6. SeenIsServed'
    BY DEF Delivery, SeenIsServed
  <1>7. JobIsEarned'
    BY <1>2, <1>3, <1>4 DEF Delivery, JobIsEarned
  <1>8. EnteredIsOwed'
    BY <1>1, <1>4, MessageType DEF Delivery, EnteredIsOwed
  <1> QED
    BY <1>5, <1>6, <1>7, <1>8 DEF Delivery

LEMMA DeliveryUntouched ==
  ASSUME TypeOK, Delivery, stream.log' = stream.log,
         UNCHANGED <<unacked, job, seen, line, accepted, refused, missed, notes, pages>>
  PROVE  Delivery'
  <1>1. PageIsWatched'
    BY DEF Delivery, PageIsWatched
  <1>2. \A u \in Users : Served(u) => Served(u)'
    BY DEF Served, Told, SharesKey, Board!InLine
  <1> QED
    BY <1>1, <1>2, DeliveryKept

LEMMA LockUntouched ==
  ASSUME BatchHoldsLock, UNCHANGED <<lock, batch, outlived>>
  PROVE  BatchHoldsLock'
  BY DEF BatchHoldsLock

-----------------------------------------------------------------------------
LEMMA InitInv == Init => IInv
  <1> SUFFICES ASSUME Init PROVE IInv
    OBVIOUS
  <1>1. stream = [log |-> <<>>, window |-> {}] /\ line = <<>> /\ Len(line) = 0 /\ Len(stream.log) = 0
    BY DEF Init, EmptyStream, Board!Init
  <1>2. <<>> \in Seq([id : Keys, user : Users]) /\ <<>> \in Seq(Users)
    BY EmptySeq
  <1>3. TypeOK
    <2>1. job \in [Replicas -> [seq : 0..next - 1, st : {"none", "taken", "assigned", "handled"}]]
      BY DEF Init, NoJob
    <2>2. pages \in [Watchers -> [at : Replicas \union {Nobody},
                                  st : {"closed", "subscribed", "open"},
                                  queued : 0..Buffer,
                                  shown : {"nothing", "processing", "result", "unseen"}]]
      <3>1. 0 \in 0..Buffer
        BY EntryAssumption
      <3>2. Offline \in [at : Replicas \union {Nobody}, st : {"closed", "subscribed", "open"},
                         queued : 0..Buffer, shown : {"nothing", "processing", "result", "unseen"}]
        BY <3>1 DEF Offline
      <3> DEFINE Page == [at : Replicas \union {Nobody}, st : {"closed", "subscribed", "open"},
                          queued : 0..Buffer, shown : {"nothing", "processing", "result", "unseen"}]
      <3>3. Offline \in Page
        BY <3>2
      <3> HIDE DEF Page
      <3>4. pages \in [Watchers -> Page]
        BY <3>3 DEF Init
      <3> QED
        BY <3>4 DEF Page
    <2>3. stream \in [log : Seq([id : Keys, user : Users]), window : SUBSET Keys]
      BY <1>1, <1>2
    <2>4. \A p \in Replicas : job[p].seq = 0 <=> job[p].st = "none"
      BY DEF Init, NoJob
    <2>5. next \in 1..Len(stream.log) + 1 /\ unacked \subseteq 1..next - 1
      BY <1>1 DEF Init
    <2>6. line \in Seq(Users) /\ winner \in Users \union {NoUser} /\ ended \in BOOLEAN
      BY <1>2 DEF Init, Board!Init
    <2>7. seen \in [Replicas -> SUBSET Keys] /\ batch \in [Replicas -> {"idle", "held", "closed"}]
      BY DEF Init
    <2>8. /\ started \in BOOLEAN /\ notes \subseteq Watch /\ lock \in Replicas \union {Nobody}
          /\ accepted \subseteq Users \X Keys /\ refused \union missed \subseteq Users
          /\ outlived \subseteq Replicas
      BY DEF Init
    <2> QED
      BY <2>1, <2>2, <2>3, <2>4, <2>5, <2>6, <2>7, <2>8 DEF TypeOK
  <1>4. BatchHoldsLock
    BY DEF Init, BatchHoldsLock
  <1>5. Delivery
    BY <1>1 DEF Init, Delivery, PageIsWatched, LogIsAccepted, SeenIsServed, JobIsEarned,
       EnteredIsOwed, Offline, NoJob, Board!InLine
  <1> QED
    BY <1>3, <1>4, <1>5 DEF IInv

-----------------------------------------------------------------------------
\* The clock, the duplicate window and the closer

LEMMA StartForget ==
  ASSUME IInv, Start \/ \E k \in Keys : Forget(k)
  PROVE  IInv'
  <1>1. stream.log' = stream.log
    BY DEF Start, Forget, ForgetId, IInv, TypeOK
  <1>2. stream' \in [log : Seq([id : Keys, user : Users]), window : SUBSET Keys]
    BY DEF Start, Forget, ForgetId, IInv, TypeOK
  <1>3. UNCHANGED <<consumer, line, winner, announced, ended, front, closer, history>>
        /\ started' \in BOOLEAN
    BY DEF Start, Forget, IInv, TypeOK, store
  <1>4. TypeOK'
    BY <1>1, <1>2, <1>3 DEF IInv, TypeOK, consumer, durable, front, closer, history
  <1>5. BatchHoldsLock'
    BY <1>3, LockUntouched DEF IInv, closer
  <1>6. Delivery'
    BY <1>1, <1>3, DeliveryUntouched DEF IInv, consumer, durable, front, history
  <1> QED
    BY <1>4, <1>5, <1>6 DEF IInv

LEMMA CloserStep ==
  ASSUME IInv, Expire \/ \E p \in Replicas : Acquire(p) \/ Close(p) \/ CloseFails(p) \/ Release(p)
  PROVE  IInv'
  <1>1. UNCHANGED <<stream, consumer, started, line, winner, front, history>>
    BY DEF Expire, Acquire, Close, CloseFails, Release, store, Board!End
  <1>2. /\ ended' \in BOOLEAN
        /\ lock' \in Replicas \union {Nobody}
        /\ batch' \in [Replicas -> {"idle", "held", "closed"}]
        /\ outlived' \subseteq Replicas
    BY DEF Expire, Acquire, Close, CloseFails, Release, store, Board!End, Unlocked, closer, IInv, TypeOK
  <1>3. TypeOK'
    BY <1>1, <1>2 DEF IInv, TypeOK, consumer, durable, front, history
  <1>4. BatchHoldsLock'
    <2>1. batch \in [Replicas -> {"idle", "held", "closed"}] /\ Nobody \notin Replicas
      BY EntryAssumption DEF IInv, TypeOK
    <2>2. CASE Expire
      BY <2>1, <2>2 DEF Expire, BatchHoldsLock, IInv
    <2>3. ASSUME NEW p \in Replicas, Acquire(p) PROVE BatchHoldsLock'
      BY <2>1, <2>3 DEF Acquire, BatchHoldsLock, IInv
    <2>4. ASSUME NEW p \in Replicas, Close(p) \/ CloseFails(p) PROVE BatchHoldsLock'
      BY <2>1, <2>4 DEF Close, CloseFails, BatchHoldsLock, IInv
    <2>5. ASSUME NEW p \in Replicas, Release(p) PROVE BatchHoldsLock'
      BY <2>1, <2>5 DEF Release, Unlocked, BatchHoldsLock, IInv
    <2> QED
      BY <2>2, <2>3, <2>4, <2>5
  <1>5. Delivery'
    BY <1>1, DeliveryUntouched DEF IInv, consumer, durable, front, history
  <1> QED
    BY <1>3, <1>4, <1>5 DEF IInv

-----------------------------------------------------------------------------
\* The request

LEMMA EnqueueStep ==
  ASSUME IInv, NEW u \in Users, NEW k \in KeysOf[u], Enqueue(u, k)
  PROVE  IInv'
  <1> DEFINE M == [id : Keys, user : Users]
             m == [id |-> k, user |-> u]
             n == Len(stream.log)
  <1>1. k \in Keys /\ k # NoMsgId /\ m \in M
    BY EntryAssumption
  <1>2. stream.log \in Seq(M) /\ stream.window \subseteq Keys /\ n \in Nat
    BY LenProperties DEF IInv, TypeOK
  <1>3. /\ stream' = Store(stream, m)
        /\ accepted' = accepted \union {<<u, k>>}
        /\ UNCHANGED <<consumer, store, front, closer, refused, missed>>
    BY DEF Enqueue
  <1>4. /\ stream' \in [log : Seq(M), window : SUBSET Keys]
        /\ Len(stream'.log) \in n..n + 1
        /\ \A i \in 1..n : stream'.log[i] = stream.log[i]
        /\ \A i \in n + 1..Len(stream'.log) : stream'.log[i] = m
    <2>1. CASE k \in stream.window
      <3>1. stream' = stream
        BY <1>3, <2>1 DEF Store
      <3> QED
        BY <1>2, <3>1 DEF IInv, TypeOK
    <2>2. CASE k \notin stream.window
      <3>1. stream' = [log |-> Append(stream.log, m), window |-> stream.window \union {k}]
        BY <1>1, <1>3, <2>2 DEF Store
      <3>2. /\ Append(stream.log, m) \in Seq(M)
            /\ Len(Append(stream.log, m)) = n + 1
            /\ \A i \in 1..n : Append(stream.log, m)[i] = stream.log[i]
            /\ Append(stream.log, m)[n + 1] = m
        BY <1>1, <1>2, AppendProperties
      <3>3. stream' \in [log : Seq(M), window : SUBSET Keys]
        BY <1>1, <1>2, <3>1, <3>2
      <3>4. \A i \in n + 1..n + 1 : i = n + 1
        BY <1>2
      <3> QED
        BY <1>2, <3>1, <3>2, <3>3, <3>4
    <2> QED
      BY <2>1, <2>2
  <1>5. TypeOK'
    <2>1. next' \in 1..Len(stream'.log) + 1
      BY <1>2, <1>3, <1>4 DEF IInv, TypeOK, consumer, durable
    <2>2. accepted' \subseteq Users \X Keys
      BY <1>1, <1>3 DEF IInv, TypeOK
    <2> QED
      BY <1>3, <1>4, <2>1, <2>2 DEF IInv, TypeOK, consumer, durable, store, front, closer
  <1>6. BatchHoldsLock'
    BY <1>3, LockUntouched DEF IInv, closer
  <1>7. Delivery'
    <2>1. \A i \in 1..n : Message(i)' = Message(i)
      BY <1>4 DEF Message
    <2>2. \A i \in n + 1..Len(stream'.log) : Message(i)' = m
      BY <1>4 DEF Message
    <2>3. UNCHANGED <<unacked, job, seen, line, refused, missed, notes, pages>>
      BY <1>3 DEF consumer, durable, store, front
    <2>4. \A v \in Users : Board!InLine(v)' <=> Board!InLine(v)
      BY <2>3 DEF Board!InLine
    <2>5. \A v \in Users : SharesKey(v) => SharesKey(v)'
      BY <1>3 DEF SharesKey
    <2>6. \A v \in Users : Served(v) => Served(v)'
      BY <2>3, <2>4, <2>5 DEF Served, Told
    <2>7. \A p \in Replicas : job[p].st # "none" => UserOf(p)' = UserOf(p) /\ UserOf(p) \in Users
      BY <2>1, <2>3, MessageType DEF UserOf, Message, IInv
    <2>8. PageIsWatched'
      BY <2>3 DEF IInv, Delivery, PageIsWatched
    <2>9. LogIsAccepted'
      <3> SUFFICES ASSUME NEW i \in 1..Len(stream'.log)
                   PROVE <<Message(i)'.user, Message(i)'.id>> \in accepted'
        BY DEF LogIsAccepted
      <3>1. CASE i \in 1..n
        BY <1>3, <2>1, <3>1 DEF IInv, Delivery, LogIsAccepted
      <3>2. CASE i \in n + 1..Len(stream'.log)
        BY <1>3, <2>2, <3>2
      <3> QED
        BY <1>2, <1>4, <3>1, <3>2
    <2>10. SeenIsServed'
      <3> SUFFICES ASSUME NEW p \in Replicas, NEW j \in seen[p]
                   PROVE /\ \E v \in Users : <<v, j>> \in accepted'
                         /\ \A v \in Users : <<v, j>> \in accepted' => Served(v)'
        BY <2>3 DEF SeenIsServed
      <3>1. PICK w \in Users : <<w, j>> \in accepted
        BY DEF IInv, Delivery, SeenIsServed
      <3>2. ASSUME NEW v \in Users, <<v, j>> \in accepted' PROVE Served(v)'
        <4>1. CASE <<v, j>> \in accepted
          BY <2>6, <4>1 DEF IInv, Delivery, SeenIsServed
        <4>2. CASE <<v, j>> \notin accepted
          <5>1. w # v /\ j \in Keys
            BY <3>1, <4>2 DEF IInv, TypeOK
          <5>2. {<<v, j>>, <<w, j>>} \subseteq accepted'
            BY <1>3, <3>1, <3>2
          <5>3. SharesKey(v)'
            BY <5>1, <5>2 DEF SharesKey
          <5> QED
            BY <5>3 DEF Served
        <4> QED
          BY <4>1, <4>2
      <3> QED
        BY <1>3, <3>1, <3>2
    <2>11. JobIsEarned'
      BY <2>3, <2>4, <2>6, <2>7 DEF IInv, Delivery, JobIsEarned
    <2>12. EnteredIsOwed'
      BY <2>1, <2>3, <2>4, <2>6, MessageType DEF IInv, Delivery, EnteredIsOwed
    <2> QED
      BY <2>8, <2>9, <2>10, <2>11, <2>12 DEF Delivery
  <1> QED
    BY <1>5, <1>6, <1>7 DEF IInv

-----------------------------------------------------------------------------
\* The consumer

\* A replica's consumer leaves the page, the lock and the log alone.
LEMMA ConsumerKeeps ==
  ASSUME IInv, UNCHANGED <<stream, pages, closer>>
  PROVE  /\ BatchHoldsLock' /\ PageIsWatched'
         /\ \A i : Message(i)' = Message(i)
  <1>1. BatchHoldsLock'
    BY LockUntouched DEF IInv, closer
  <1> QED
    BY <1>1 DEF IInv, Delivery, PageIsWatched, Message

LEMMA TakeStep ==
  ASSUME IInv, NEW p \in Replicas, Deliver(p) \/ \E i \in unacked : Redeliver(p, i)
  PROVE  IInv'
  <1>1. PICK i \in Nat \ {0} :
          /\ Take(p, i)
          /\ i < next'
          /\ next' \in next..Len(stream.log) + 1
    <2>1. Len(stream.log) \in Nat /\ next \in 1..Len(stream.log) + 1 /\ unacked \subseteq 1..next - 1
      BY LenProperties DEF IInv, TypeOK
    <2> QED
      BY <2>1 DEF Deliver, Redeliver
  <1>2. /\ job[p] = NoJob
        /\ job' = [job EXCEPT ![p] = [seq |-> i, st |-> "taken"]]
        /\ unacked' = unacked \union {i}
        /\ UNCHANGED <<stream, seen, store, front, closer, history>>
    BY <1>1 DEF Take
  <1>3. TypeOK'
    <2>0. /\ Len(stream.log) \in Nat /\ next \in 1..Len(stream.log) + 1
          /\ unacked \subseteq 1..next - 1
          /\ job \in [Replicas -> [seq : 0..next - 1, st : {"none", "taken", "assigned", "handled"}]]
      BY LenProperties DEF IInv, TypeOK
    <2>1. next' \in 1..Len(stream.log) + 1 /\ i \in 1..next' - 1 /\ next <= next'
      <3>1. next' \in next..Len(stream.log) + 1
        BY <1>1
      <3>2. next' \in 1..Len(stream.log) + 1 /\ next <= next'
        BY <2>0, <3>1
      <3>3. i < next' /\ next' \in Nat
        BY <1>1, <2>0, <3>2
      <3>4. i \in 1..next' - 1
        BY <3>3, Below
      <3> QED
        BY <3>2, <3>4
    <2>2. 1..next - 1 \subseteq 1..next' - 1 /\ 0..next - 1 \subseteq 0..next' - 1 /\ i \in 0..next' - 1
      <3>1. next \in Nat
        BY <2>0
      <3>2. next' \in Nat /\ next <= next'
        BY <2>0, <2>1
      <3>3. i < next'
        BY <1>1
      <3>4. i \in 0..next' - 1
        BY <3>2, <3>3, Below
      <3> QED
        BY <3>1, <3>2, <3>4, LongerInterval
    <2>3. unacked' \subseteq 1..next' - 1
      BY <1>2, <2>0, <2>1, <2>2
    <2>4. job' \in [Replicas -> [seq : 0..next' - 1, st : {"none", "taken", "assigned", "handled"}]]
      <3> DEFINE S == 0..next' - 1
                 T == 0..next - 1
      <3>1. T \subseteq S /\ i \in S
        BY <2>2
      <3>2. job \in [Replicas -> [seq : T, st : {"none", "taken", "assigned", "handled"}]]
        BY <2>0
      <3> HIDE DEF S, T
      <3>3. job' \in [Replicas -> [seq : S, st : {"none", "taken", "assigned", "handled"}]]
        BY <1>2, <3>1, <3>2
      <3> QED
        BY <3>3 DEF S
    <2>5. \A r \in Replicas : job'[r].seq = 0 <=> job'[r].st = "none"
      BY <1>2, <2>0, <2>1 DEF IInv, TypeOK
    <2> QED
      BY <1>2, <2>1, <2>3, <2>4, <2>5 DEF IInv, TypeOK, store, front, closer, history
  <1>4. BatchHoldsLock' /\ PageIsWatched' /\ \A j : Message(j)' = Message(j)
    BY <1>2, ConsumerKeeps DEF front
  <1>5. \A u : /\ Board!InLine(u)' <=> Board!InLine(u)
               /\ Served(u)' <=> Served(u)
    BY <1>2 DEF store, front, history, Board!InLine, Served, Told, SharesKey
  <1>6. LogIsAccepted' /\ SeenIsServed'
    BY <1>2, <1>4, <1>5 DEF IInv, Delivery, LogIsAccepted, SeenIsServed, history
  <1>7. JobIsEarned'
    <2>1. job'[p] = [seq |-> i, st |-> "taken"] /\ \A r \in Replicas \ {p} : job'[r] = job[r]
      BY <1>2 DEF IInv, TypeOK
    <2>2. \A r \in Replicas \ {p} : UserOf(r)' = UserOf(r)
      BY <1>4, <2>1 DEF UserOf, Message
    <2> QED
      BY <1>2, <1>5, <2>1, <2>2 DEF IInv, Delivery, JobIsEarned
  <1>8. EnteredIsOwed'
    BY <1>2, <1>4, <1>5 DEF IInv, Delivery, EnteredIsOwed
  <1> QED
    BY <1>3, <1>4, <1>6, <1>7, <1>8 DEF IInv, Delivery

\* The job of a replica goes to another state.
LEMMA GotoType ==
  ASSUME TypeOK, NEW p \in Replicas, NEW st \in {"assigned", "handled"}, job[p].st # "none",
         Goto(p, st)
  PROVE  /\ job' \in [Replicas -> [seq : 0..next - 1,
                                   st : {"none", "taken", "assigned", "handled"}]]
         /\ job'[p].st = st /\ job'[p].seq = job[p].seq
         /\ \A r \in Replicas \ {p} : job'[r] = job[r]
         /\ \A r \in Replicas : job'[r].seq = 0 <=> job'[r].st = "none"
         /\ stream' = stream => \A r \in Replicas : UserOf(r)' = UserOf(r)
  <1>1. job \in [Replicas -> [seq : 0..next - 1, st : {"none", "taken", "assigned", "handled"}]]
    BY DEF TypeOK
  <1>2. job' = [job EXCEPT ![p] = [job[p] EXCEPT !.st = st]]
    BY <1>1 DEF Goto
  <1>3. /\ [job[p] EXCEPT !.st = st] \in [seq : 0..next - 1,
                                          st : {"none", "taken", "assigned", "handled"}]
        /\ [job[p] EXCEPT !.st = st].st = st
        /\ [job[p] EXCEPT !.st = st].seq = job[p].seq
    BY <1>1
  <1>4. \A r \in Replicas : job'[r].seq = job[r].seq
    BY <1>1, <1>2, <1>3
  <1>5. /\ job' \in [Replicas -> [seq : 0..next - 1,
                                  st : {"none", "taken", "assigned", "handled"}]]
        /\ job'[p].st = st
        /\ \A r \in Replicas \ {p} : job'[r] = job[r]
    BY <1>1, <1>2, <1>3
  <1>6. \A r \in Replicas : job'[r].seq = 0 <=> job'[r].st = "none"
    BY <1>4, <1>5 DEF TypeOK
  <1>7. stream' = stream => \A r \in Replicas : UserOf(r)' = UserOf(r)
    BY <1>4 DEF UserOf, Message
  <1> QED
    BY <1>4, <1>5, <1>6, <1>7

LEMMA SkipStep ==
  ASSUME IInv, NEW p \in Replicas, Skip(p)
  PROVE  IInv'
  <1>1. /\ job[p].st = "taken" /\ Message(job[p].seq).id \in seen[p]
        /\ Goto(p, "handled")
        /\ UNCHANGED <<stream, durable, seen, store, front, closer, history>>
    BY DEF Skip
  <1>2. /\ job' \in [Replicas -> [seq : 0..next - 1,
                                  st : {"none", "taken", "assigned", "handled"}]]
        /\ job'[p].st = "handled" /\ job'[p].seq = job[p].seq
        /\ \A r \in Replicas \ {p} : job'[r] = job[r]
        /\ \A r \in Replicas : job'[r].seq = 0 <=> job'[r].st = "none"
        /\ \A r \in Replicas : UserOf(r)' = UserOf(r)
    BY <1>1, GotoType DEF IInv
  <1>3. TypeOK'
    BY <1>1, <1>2 DEF IInv, TypeOK, durable, store, front, closer, history
  <1>4. BatchHoldsLock' /\ PageIsWatched' /\ \A j : Message(j)' = Message(j)
    BY <1>1, ConsumerKeeps DEF front
  <1>5. \A u : /\ Board!InLine(u)' <=> Board!InLine(u)
               /\ Served(u)' <=> Served(u)
    BY <1>1 DEF store, front, history, Board!InLine, Served, Told, SharesKey
  <1>6. LogIsAccepted' /\ SeenIsServed' /\ EnteredIsOwed'
    BY <1>1, <1>4, <1>5
    DEF IInv, Delivery, LogIsAccepted, SeenIsServed, EnteredIsOwed, history, durable
  <1>7. Served(UserOf(p))
    BY <1>1, MessageType DEF IInv, Delivery, LogIsAccepted, SeenIsServed, UserOf
  <1>8. JobIsEarned'
    BY <1>1, <1>2, <1>5, <1>7 DEF IInv, Delivery, JobIsEarned, durable
  <1> QED
    BY <1>3, <1>4, <1>6, <1>8 DEF IInv, Delivery

\* Refused for good, or in line: nobody who was served is not any more.
LEMMA EnterStep ==
  ASSUME IInv, NEW p \in Replicas, Enter(p), NEW u, u = UserOf(p)
  PROVE  IInv'
  <1>1. /\ job[p].st = "taken"
        /\ UNCHANGED <<stream, durable, seen, started, front, closer, accepted, missed>>
        /\ \/ /\ Goto(p, "handled")
              /\ refused' = refused \union {u}
              /\ UNCHANGED <<line, winner, announced, ended>>
           \/ /\ Goto(p, "assigned")
              /\ IF Board!InLine(u) THEN UNCHANGED <<line, winner, announced, ended>>
                 ELSE Board!Join(u)
              /\ UNCHANGED refused
    BY DEF Enter, UserOf
  <1>2. u \in Users
    BY <1>1, MessageType DEF IInv, UserOf
  <1>3. /\ line' \in Seq(Users)
        /\ \A v \in Users : Board!InLine(v)' <=> Board!InLine(v) \/ (v = u /\ job'[p].st = "assigned")
        /\ winner' \in Users \union {NoUser} /\ ended' = ended
        /\ refused' \union missed \subseteq Users
        /\ refused \subseteq refused'
        /\ (job'[p].st = "handled" /\ u \in refused') \/ job'[p].st = "assigned"
    <2>0. line \in Seq(Users) /\ Len(line) \in Nat /\ refused \union missed \subseteq Users
          /\ winner \in Users \union {NoUser}
      BY LenProperties DEF IInv, TypeOK
    <2>1. CASE Goto(p, "handled") /\ refused' = refused \union {u}
               /\ UNCHANGED <<line, winner, announced, ended>>
      <3>1. job'[p].st = "handled"
        BY <1>1, <2>1, GotoType DEF IInv
      <3> QED
        <4>1. \A v : Board!InLine(v)' <=> Board!InLine(v)
          BY <2>1 DEF Board!InLine
        <4> QED
          BY <1>2, <2>0, <2>1, <3>1, <4>1
    <2>2. CASE Goto(p, "assigned") /\ UNCHANGED refused
               /\ Board!InLine(u) /\ UNCHANGED <<line, winner, announced, ended>>
      <3>1. job'[p].st = "assigned"
        BY <1>1, <2>2, GotoType DEF IInv
      <3>2. \A v : Board!InLine(v)' <=> Board!InLine(v)
        BY <2>2 DEF Board!InLine
      <3> QED
        BY <2>0, <2>2, <3>1, <3>2
    <2>3. CASE Goto(p, "assigned") /\ UNCHANGED refused
               /\ Board!Join(u)
      <3>1. job'[p].st = "assigned"
        BY <1>1, <2>3, GotoType DEF IInv
      <3>2. line' = Append(line, u) /\ ended' = ended /\ winner' \in {winner, u}
        BY <2>3 DEF Board!Join
      <3>3. /\ line' \in Seq(Users) /\ Len(line') = Len(line) + 1
            /\ \A i \in 1..Len(line) : line'[i] = line[i]
            /\ line'[Len(line) + 1] = u
        BY <1>2, <2>0, <3>2, AppendProperties
      <3>4. \A i \in 1..Len(line) + 1 : i \in 1..Len(line) \/ i = Len(line) + 1
        BY <2>0
      <3>5. \A v \in Users : Board!InLine(v)' <=> Board!InLine(v) \/ v = u
        BY <2>0, <3>3, <3>4 DEF Board!InLine
      <3> QED
        BY <1>2, <2>0, <2>3, <3>1, <3>2, <3>3, <3>5
    <2> QED
      BY <1>1, <2>1, <2>2, <2>3
  <1>4. /\ job' \in [Replicas -> [seq : 0..next - 1,
                                  st : {"none", "taken", "assigned", "handled"}]]
        /\ job'[p].seq = job[p].seq
        /\ \A r \in Replicas \ {p} : job'[r] = job[r]
        /\ \A r \in Replicas : job'[r].seq = 0 <=> job'[r].st = "none"
        /\ \A r \in Replicas : UserOf(r)' = UserOf(r)
    BY <1>1, GotoType DEF IInv
  <1>5. TypeOK'
    BY <1>1, <1>3, <1>4 DEF IInv, TypeOK, durable, front, closer
  <1>6. BatchHoldsLock' /\ PageIsWatched' /\ \A j : Message(j)' = Message(j)
    BY <1>1, ConsumerKeeps DEF front
  <1>7. \A v \in Users : Served(v) => Served(v)'
    BY <1>1, <1>3 DEF front, Served, Told, SharesKey
  <1>8. job'[p].st = "handled" => Served(u)'
    BY <1>3 DEF Served
  <1>9. LogIsAccepted' /\ SeenIsServed'
    BY <1>1, <1>6, <1>7 DEF IInv, Delivery, LogIsAccepted, SeenIsServed
  <1>10. JobIsEarned'
    <2>1. \A r \in Replicas : job[r].st # "none" => UserOf(r) \in Users
      BY MessageType DEF UserOf, IInv
    <2>2. job[p].seq \in unacked \/ Served(u)
      BY <1>1 DEF IInv, Delivery, JobIsEarned
    <2>3. \A r \in Replicas \ {p} :
            /\ job'[r].st = "assigned" => Board!InLine(UserOf(r))'
            /\ job'[r].st = "handled" => Served(UserOf(r))'
            /\ job'[r].st # "none" => job'[r].seq \in unacked' \/ Served(UserOf(r))'
      BY <1>1, <1>3, <1>4, <1>7, <2>1 DEF IInv, Delivery, JobIsEarned, durable
    <2>4. /\ job'[p].st = "assigned" => Board!InLine(UserOf(p))'
          /\ job'[p].st = "handled" => Served(UserOf(p))'
          /\ job'[p].st # "none" => job'[p].seq \in unacked' \/ Served(UserOf(p))'
      BY <1>1, <1>2, <1>3, <1>4, <1>7, <1>8, <2>2 DEF durable
    <2> QED
      BY <2>3, <2>4 DEF JobIsEarned
  <1>11. EnteredIsOwed'
    <2> SUFFICES ASSUME NEW v \in Users, Board!InLine(v)'
                 PROVE Served(v)' \/ \E i \in unacked' : Message(i)'.user = v
      BY DEF EnteredIsOwed
    <2>1. CASE Board!InLine(v)
      BY <1>1, <1>6, <1>7, <2>1 DEF IInv, Delivery, EnteredIsOwed, durable
    <2>2. CASE v = u
      <3>1. job[p].seq \in unacked \/ Served(u)
        BY <1>1 DEF IInv, Delivery, JobIsEarned
      <3> QED
        BY <1>1, <1>2, <1>6, <1>7, <2>2, <3>1 DEF durable, UserOf
    <2> QED
      BY <1>3, <2>1, <2>2
  <1> QED
    BY <1>5, <1>6, <1>9, <1>10, <1>11 DEF IInv, Delivery

LEMMA AnnounceStep ==
  ASSUME IInv, NEW p \in Replicas, Announce(p), NEW u, u = UserOf(p)
  PROVE  IInv'
  <1>1. /\ job[p].st = "assigned"
        /\ Goto(p, "handled")
        /\ notes' = notes \union {w \in Watch : w[2] = u}
        /\ UNCHANGED <<stream, durable, seen, store, pages, closer, history>>
    BY DEF Announce, UserOf
  <1>2. /\ job' \in [Replicas -> [seq : 0..next - 1,
                                  st : {"none", "taken", "assigned", "handled"}]]
        /\ job'[p].st = "handled" /\ job'[p].seq = job[p].seq
        /\ \A r \in Replicas \ {p} : job'[r] = job[r]
        /\ \A r \in Replicas : job'[r].seq = 0 <=> job'[r].st = "none"
        /\ \A r \in Replicas : UserOf(r)' = UserOf(r)
    BY <1>1, GotoType DEF IInv
  <1>3. notes \subseteq Watch /\ notes' \subseteq Watch
    BY <1>1 DEF IInv, TypeOK
  <1>4. TypeOK'
    BY <1>1, <1>2, <1>3 DEF IInv, TypeOK, durable, store, closer, history
  <1>5. BatchHoldsLock' /\ PageIsWatched' /\ \A j : Message(j)' = Message(j)
    BY <1>1, ConsumerKeeps
  <1>6. \A v : Board!InLine(v)' <=> Board!InLine(v)
    BY <1>1 DEF store, Board!InLine
  <1>7. \A v : Served(v) => Served(v)'
    BY <1>1, <1>6 DEF history, Served, Told, SharesKey
  <1>8. Served(u)'
    <2>1. Board!InLine(u)
      BY <1>1 DEF IInv, Delivery, JobIsEarned
    <2>2. u \in Watchers /\ pages[u].st = "open" => <<pages[u].at, u>> \in notes'
      BY <1>1 DEF IInv, Delivery, PageIsWatched
    <2> QED
      BY <1>1, <1>6, <2>1, <2>2 DEF Served, Told
  <1>9. LogIsAccepted' /\ SeenIsServed' /\ EnteredIsOwed'
    BY <1>1, <1>5, <1>6, <1>7
    DEF IInv, Delivery, LogIsAccepted, SeenIsServed, EnteredIsOwed, history, durable
  <1>10. JobIsEarned'
    BY <1>1, <1>2, <1>6, <1>7, <1>8 DEF IInv, Delivery, JobIsEarned, durable
  <1> QED
    BY <1>4, <1>5, <1>9, <1>10 DEF IInv, Delivery

\* A replica that is done with its job, in whatever way.
LEMMA IdleType ==
  ASSUME TypeOK, NEW p \in Replicas, job' = [job EXCEPT ![p] = NoJob]
  PROVE  /\ job' \in [Replicas -> [seq : 0..next - 1,
                                   st : {"none", "taken", "assigned", "handled"}]]
         /\ job'[p].st = "none"
         /\ \A r \in Replicas \ {p} : job'[r] = job[r]
         /\ \A r \in Replicas : job'[r].seq = 0 <=> job'[r].st = "none"
  <1> DEFINE N == 0..next - 1
  <1>1. 0 \in N
    <2>1. next \in 1..Len(stream.log) + 1 /\ Len(stream.log) \in Nat
      BY LenProperties DEF TypeOK
    <2>2. next \in Nat \ {0}
      BY <2>1
    <2> QED
      BY <2>2
  <1>2. job \in [Replicas -> [seq : N, st : {"none", "taken", "assigned", "handled"}]]
    BY DEF TypeOK
  <1> HIDE DEF N
  <1>3. job' \in [Replicas -> [seq : N, st : {"none", "taken", "assigned", "handled"}]]
    BY <1>1, <1>2 DEF NoJob
  <1>4. job'[p] = NoJob /\ \A r \in Replicas \ {p} : job'[r] = job[r]
    BY <1>2
  <1>5. \A r \in Replicas : job'[r].seq = 0 <=> job'[r].st = "none"
    BY <1>4 DEF TypeOK, NoJob
  <1> QED
    BY <1>3, <1>4, <1>5 DEF N, NoJob

LEMMA EnterFailsStep ==
  ASSUME IInv, NEW p \in Replicas, EnterFails(p)
  PROVE  IInv'
  <1>1. /\ job' = [job EXCEPT ![p] = NoJob]
        /\ UNCHANGED <<stream, durable, seen, store, front, closer, history>>
    BY DEF EnterFails
  <1>2. /\ job' \in [Replicas -> [seq : 0..next - 1,
                                  st : {"none", "taken", "assigned", "handled"}]]
        /\ job'[p].st = "none"
        /\ \A r \in Replicas \ {p} : job'[r] = job[r]
        /\ \A r \in Replicas : job'[r].seq = 0 <=> job'[r].st = "none"
    BY <1>1, IdleType DEF IInv
  <1>3. TypeOK'
    BY <1>1, <1>2 DEF IInv, TypeOK, durable, store, front, closer, history
  <1>4. BatchHoldsLock' /\ PageIsWatched' /\ \A j : Message(j)' = Message(j)
    BY <1>1, ConsumerKeeps DEF front
  <1>5. \A u : /\ Board!InLine(u)' <=> Board!InLine(u)
               /\ Served(u)' <=> Served(u)
    BY <1>1 DEF store, front, history, Board!InLine, Served, Told, SharesKey
  <1>6. LogIsAccepted' /\ SeenIsServed' /\ EnteredIsOwed'
    BY <1>1, <1>4, <1>5
    DEF IInv, Delivery, LogIsAccepted, SeenIsServed, EnteredIsOwed, history, durable
  <1>7. \A r \in Replicas \ {p} : UserOf(r)' = UserOf(r)
    BY <1>1, <1>2 DEF UserOf, Message
  <1>8. JobIsEarned'
    BY <1>1, <1>2, <1>5, <1>7 DEF IInv, Delivery, JobIsEarned, durable
  <1> QED
    BY <1>3, <1>4, <1>6, <1>8 DEF IInv, Delivery

\* What is let go of, and remembered from now on, is a message whose user is served.
LEMMA SettleStep ==
  ASSUME IInv, NEW p \in Replicas, Settle(p),
         NEW s, s = job[p].seq, NEW u, u = UserOf(p), NEW k, k = Message(s).id
  PROVE  IInv'
  <1>1. /\ job[p].st = "handled"
        /\ seen' = [seen EXCEPT ![p] = @ \union {k}]
        /\ unacked' \in {unacked, unacked \ {s}}
        /\ job' = [job EXCEPT ![p] = NoJob]
        /\ UNCHANGED <<stream, next, store, front, closer, history>>
    BY DEF Settle, Remembered
  <1>2. s \in 1..Len(stream.log) /\ k \in Keys /\ u \in Users /\ u = Message(s).user
    BY <1>1, MessageType DEF IInv, UserOf
  <1>3. /\ job' \in [Replicas -> [seq : 0..next - 1,
                                  st : {"none", "taken", "assigned", "handled"}]]
        /\ job'[p].st = "none"
        /\ \A r \in Replicas \ {p} : job'[r] = job[r]
        /\ \A r \in Replicas : job'[r].seq = 0 <=> job'[r].st = "none"
    BY <1>1, IdleType DEF IInv
  <1>4. seen' \in [Replicas -> SUBSET Keys] /\ seen'[p] = seen[p] \union {k}
        /\ \A r \in Replicas \ {p} : seen'[r] = seen[r]
    BY <1>1, <1>2 DEF IInv, TypeOK
  <1>5. TypeOK'
    BY <1>1, <1>3, <1>4 DEF IInv, TypeOK, store, front, closer, history
  <1>6. BatchHoldsLock' /\ PageIsWatched' /\ \A j : Message(j)' = Message(j)
    BY <1>1, ConsumerKeeps DEF front
  <1>7. \A v : /\ Board!InLine(v)' <=> Board!InLine(v)
               /\ Served(v)' <=> Served(v)
    BY <1>1 DEF store, front, history, Board!InLine, Served, Told, SharesKey
  <1>8. Served(u) /\ <<u, k>> \in accepted
    BY <1>1, <1>2 DEF IInv, Delivery, JobIsEarned, LogIsAccepted
  <1>9. LogIsAccepted'
    BY <1>1, <1>6 DEF IInv, Delivery, LogIsAccepted, history
  <1>10. SeenIsServed'
    <2>1. \A v \in Users : <<v, k>> \in accepted => Served(v)
      <3> SUFFICES ASSUME NEW v \in Users, <<v, k>> \in accepted, v # u PROVE Served(v)
        BY <1>8
      <3>1. {<<v, k>>, <<u, k>>} \subseteq accepted
        BY <1>8
      <3> QED
        BY <1>2, <3>1 DEF Served, SharesKey
    <2>2. \A r \in Replicas : \A j \in seen'[r] : j = k \/ j \in seen[r]
      BY <1>4
    <2> QED
      BY <1>1, <1>2, <1>7, <1>8, <2>1, <2>2 DEF IInv, Delivery, SeenIsServed, history
  <1>11. JobIsEarned'
    <2>1. \A r \in Replicas \ {p} : UserOf(r)' = UserOf(r)
      BY <1>3, <1>6 DEF UserOf, Message
    <2>2. \A r \in Replicas \ {p} : job[r].seq = s => UserOf(r) = u
      BY <1>2 DEF UserOf
    <2> QED
      BY <1>1, <1>3, <1>7, <1>8, <2>1, <2>2 DEF IInv, Delivery, JobIsEarned
  <1>12. EnteredIsOwed'
    BY <1>1, <1>2, <1>6, <1>7, <1>8 DEF IInv, Delivery, EnteredIsOwed
  <1> QED
    BY <1>5, <1>6, <1>9, <1>10, <1>11, <1>12 DEF IInv, Delivery

-----------------------------------------------------------------------------
\* The pages

\* A step of the pages and the broadcasts that takes nothing from who is served.
LEMMA FrontStep ==
  ASSUME IInv,
         UNCHANGED <<stream, consumer, store, closer, accepted, refused>>,
         notes' \subseteq Watch,
         pages' \in [Watchers -> [at : Replicas \union {Nobody},
                                 st : {"closed", "subscribed", "open"},
                                 queued : 0..Buffer,
                                 shown : {"nothing", "processing", "result", "unseen"}]],
         missed' \subseteq Users, missed \subseteq missed',
         PageIsWatched',
         \A v \in Watchers :
            Board!InLine(v) /\ Told(v) => Told(v)' \/ v \in missed'
  PROVE  IInv'
  <1>1. TypeOK'
    BY DEF IInv, TypeOK, consumer, durable, store, closer
  <1>2. BatchHoldsLock'
    BY LockUntouched DEF IInv, closer
  <1>3. \A v \in Users : Served(v) => Served(v)'
    BY DEF Served, SharesKey, Board!InLine, store
  <1>4. Delivery'
    BY <1>3, DeliveryKept DEF IInv, consumer, durable, store
  <1> QED
    BY <1>1, <1>2, <1>4 DEF IInv

LEMMA PushedType ==
  ASSUME NEW n \in 0..Buffer
  PROVE  /\ n < Buffer => n + 1 \in 0..Buffer /\ n + 1 > 0
         /\ ~(n < Buffer) => n > 0
         /\ n > 0 => n - 1 \in 0..Buffer
  BY EntryAssumption

LEMMA NoteStep ==
  ASSUME IInv, NEW p \in Replicas, NEW u, <<p, u>> \in Watch,
         Bridge(p, u) \/ LoseNote(p, u)
  PROVE  IInv'
  <1> DEFINE Page == [at : Replicas \union {Nobody}, st : {"closed", "subscribed", "open"},
                      queued : 0..Buffer, shown : {"nothing", "processing", "result", "unseen"}]
  <1>1. u \in Watchers /\ u \in Users
    BY EntryAssumption DEF Watchers
  <1>2. pages \in [Watchers -> Page] /\ notes \subseteq Watch /\ missed \subseteq Users
    BY DEF IInv, TypeOK
  <1>3. CASE LoseNote(p, u)
    <2>1. /\ notes' = notes \ {<<p, u>>} /\ missed' = missed \union {u}
          /\ UNCHANGED <<stream, consumer, store, pages, closer, accepted, refused>>
      BY <1>3 DEF LoseNote
    <2>2. \A v \in Watchers : Told(v) => Told(v)' \/ v \in missed'
      BY <2>1 DEF Told
    <2>3. PageIsWatched'
      BY <2>1 DEF IInv, Delivery, PageIsWatched
    <2>4. notes' \subseteq Watch /\ missed' \subseteq Users /\ missed \subseteq missed'
      BY <1>1, <1>2, <2>1
    <2> QED
      BY <1>2, <2>1, <2>2, <2>3, <2>4, FrontStep
  <1>4. CASE Bridge(p, u)
    <2>1. /\ notes' = notes \ {<<p, u>>}
          /\ pages' = IF pages[u].at = p THEN [pages EXCEPT ![u] = Pushed(pages[u])] ELSE pages
          /\ UNCHANGED <<stream, consumer, store, closer, history>>
      BY <1>4 DEF Bridge
    <2>2. /\ Pushed(pages[u]) \in Page
          /\ Pushed(pages[u]).at = pages[u].at /\ Pushed(pages[u]).st = pages[u].st
          /\ Pushed(pages[u]).shown = pages[u].shown
          /\ Pushed(pages[u]).queued > 0
      <3>1. pages[u] \in Page /\ pages[u].queued \in 0..Buffer
        BY <1>1, <1>2
      <3>2. CASE pages[u].queued < Buffer
        <4>1. Pushed(pages[u]) = [pages[u] EXCEPT !.queued = pages[u].queued + 1]
          BY <3>2 DEF Pushed
        <4>2. pages[u].queued + 1 \in 0..Buffer /\ pages[u].queued + 1 > 0
          BY <3>1, <3>2, PushedType
        <4> QED
          BY <3>1, <4>1, <4>2
      <3>3. CASE ~(pages[u].queued < Buffer)
        <4>1. Pushed(pages[u]) = pages[u]
          BY <3>3 DEF Pushed
        <4> QED
          BY <3>1, <3>3, <4>1, PushedType
      <3> QED
        BY <3>2, <3>3
    <2>3. /\ pages' \in [Watchers -> Page]
          /\ \A v \in Watchers : /\ pages'[v].at = pages[v].at /\ pages'[v].st = pages[v].st
                                 /\ pages'[v].shown = pages[v].shown
          /\ \A v \in Watchers \ {u} : pages'[v] = pages[v]
          /\ pages[u].at = p => pages'[u].queued > 0
          /\ pages[u].at # p => pages'[u] = pages[u]
      <3> HIDE DEF Page
      <3> QED
        BY <1>1, <1>2, <2>1, <2>2
    <2>4. \A v \in Watchers : Told(v) => Told(v)'
      BY <2>1, <2>3 DEF Told
    <2>5. PageIsWatched'
      BY <2>3 DEF IInv, Delivery, PageIsWatched
    <2> QED
      BY <1>2, <2>1, <2>3, <2>4, <2>5, FrontStep DEF history
  <1> QED
    BY <1>3, <1>4

\* What a page becomes: connected where the user is watched and, once open, with the
\* result, without one to show, or as it was.
FitsWatcher(u, page) ==
    /\ pages' = [pages EXCEPT ![u] = page]
    /\ UNCHANGED <<stream, consumer, store, notes, closer, history>>
    /\ page.st # "closed" => <<page.at, u>> \in Watch
    /\ page.st = "open" => page.shown \in {"result", "unseen"} \/ ~Board!InLine(u)
         \/ (page.at = pages[u].at /\ page.queued = pages[u].queued
               /\ page.shown = pages[u].shown /\ pages[u].st = "open")

LEMMA PageStep ==
  ASSUME IInv, NEW u \in Watchers,
         Snapshot(u) \/ SnapshotFails(u) \/ Receive(u) \/ Disconnect(u)
           \/ \E p \in Replicas : <<p, u>> \in Watch /\ Subscribe(u, p)
  PROVE  IInv'
  <1> DEFINE Page == [at : Replicas \union {Nobody}, st : {"closed", "subscribed", "open"},
                      queued : 0..Buffer, shown : {"nothing", "processing", "result", "unseen"}]
  <1>1. pages \in [Watchers -> Page] /\ notes \subseteq Watch /\ missed \subseteq Users
        /\ pages[u] \in Page
    BY DEF IInv, TypeOK
  <1>2. PICK page \in Page : FitsWatcher(u, page)
    <2>1. pages[u].st # "closed" => <<pages[u].at, u>> \in Watch
      BY DEF IInv, Delivery, PageIsWatched
    <2>2. 0 \in 0..Buffer
      BY EntryAssumption
    <2>3. CASE Disconnect(u)
      <3>1. Offline \in Page /\ Offline.st = "closed"
        BY <2>2 DEF Offline
      <3> QED
        BY <2>3, <3>1 DEF Disconnect, UpdatePage, FitsWatcher
    <2>4. ASSUME NEW p \in Replicas, <<p, u>> \in Watch, Subscribe(u, p)
          PROVE \E page \in Page : FitsWatcher(u, page)
      <3> DEFINE page == [Offline EXCEPT !.at = p, !.st = "subscribed"]
      <3>1. page \in Page /\ page.st = "subscribed" /\ page.at = p
        BY <2>2 DEF Offline
      <3>2. UpdatePage(u, page)
        BY <2>4 DEF Subscribe
      <3> QED
        BY <2>4, <3>1, <3>2 DEF UpdatePage, FitsWatcher
    <2>5. CASE Snapshot(u)
      <3> DEFINE page == [pages[u] EXCEPT !.st = "open",
                            !.shown = IF Board!InLine(u) THEN "result" ELSE "processing"]
      <3>1. /\ page \in Page /\ page.st = "open" /\ page.at = pages[u].at
            /\ page.shown = "result" \/ ~Board!InLine(u)
        BY <1>1
      <3>2. UpdatePage(u, page) /\ pages[u].st # "closed"
        BY <2>5 DEF Snapshot
      <3> QED
        BY <2>1, <3>1, <3>2 DEF UpdatePage, FitsWatcher
    <2>6. CASE Receive(u)
      <3> DEFINE page == [pages[u] EXCEPT !.queued = pages[u].queued - 1, !.shown = "result"]
      <3>1. pages[u].queued \in 0..Buffer /\ pages[u].queued > 0 /\ pages[u].st # "closed"
        BY <1>1, <2>6 DEF Receive
      <3>2. pages[u].queued - 1 \in 0..Buffer
        BY <3>1, PushedType
      <3>3. page \in Page /\ page.at = pages[u].at /\ page.shown = "result"
        BY <1>1, <3>2
      <3>4. UpdatePage(u, page)
        BY <2>6 DEF Receive
      <3> QED
        BY <2>1, <3>1, <3>3, <3>4 DEF UpdatePage, FitsWatcher
    <2>7. CASE SnapshotFails(u)
      <3> DEFINE page == [pages[u] EXCEPT !.st = "open",
                            !.shown = IF Board!InLine(u) THEN "unseen" ELSE pages[u].shown]
      <3>1. /\ page \in Page /\ page.st = "open" /\ page.at = pages[u].at
            /\ page.shown = "unseen" \/ ~Board!InLine(u)
        BY <1>1
      <3>2. pages' = [pages EXCEPT ![u] = page] /\ pages[u].st # "closed"
        BY <1>1, <2>7 DEF SnapshotFails
      <3>3. UNCHANGED <<stream, consumer, store, notes, closer, history>>
        BY <2>7 DEF SnapshotFails
      <3> QED
        BY <2>1, <3>1, <3>2, <3>3 DEF FitsWatcher
    <2> QED
      BY <2>3, <2>4, <2>5, <2>6, <2>7
  <1>3. /\ pages' = [pages EXCEPT ![u] = page]
        /\ UNCHANGED <<stream, consumer, store, notes, closer, history>>
    BY <1>2 DEF FitsWatcher
  <1>4. /\ pages' \in [Watchers -> Page] /\ pages'[u] = page
        /\ \A v \in Watchers \ {u} : pages'[v] = pages[v]
    <2> HIDE DEF Page
    <2> QED
      BY <1>1, <1>2, <1>3
  <1>5. PageIsWatched'
    BY <1>2, <1>4 DEF FitsWatcher, IInv, Delivery, PageIsWatched
  <1>6. \A v \in Watchers : Board!InLine(v) /\ Told(v) => Told(v)'
    BY <1>2, <1>3, <1>4 DEF FitsWatcher, Told
  <1> QED
    BY <1>1, <1>3, <1>4, <1>5, <1>6, FrontStep DEF history

-----------------------------------------------------------------------------
\* A replica dies: what it was doing is still unacknowledged or its user served.
LEMMA CrashStep ==
  ASSUME IInv, NEW p \in Replicas, Crash(p)
  PROVE  IInv'
  <1> DEFINE Page == [at : Replicas \union {Nobody}, st : {"closed", "subscribed", "open"},
                      queued : 0..Buffer, shown : {"nothing", "processing", "result", "unseen"}]
  <1>1. /\ job' = [job EXCEPT ![p] = NoJob]
        /\ seen' = [seen EXCEPT ![p] = {}]
        /\ batch' = [batch EXCEPT ![p] = "idle"]
        /\ outlived' = outlived \ {p}
        /\ notes' = {n \in notes : n[1] # p}
        /\ pages' = [u \in Watchers |-> IF pages[u].at = p THEN Offline ELSE pages[u]]
        /\ UNCHANGED <<stream, durable, store, lock, history>>
    BY DEF Crash
  <1>2. /\ job' \in [Replicas -> [seq : 0..next - 1,
                                  st : {"none", "taken", "assigned", "handled"}]]
        /\ job'[p].st = "none"
        /\ \A r \in Replicas \ {p} : job'[r] = job[r]
        /\ \A r \in Replicas : job'[r].seq = 0 <=> job'[r].st = "none"
    BY <1>1, IdleType DEF IInv
  <1>3. /\ seen' \in [Replicas -> SUBSET Keys] /\ seen'[p] = {}
        /\ \A r \in Replicas \ {p} : seen'[r] = seen[r]
    BY <1>1 DEF IInv, TypeOK
  <1>4. /\ batch' \in [Replicas -> {"idle", "held", "closed"}] /\ batch'[p] = "idle"
        /\ \A r \in Replicas \ {p} : batch'[r] = batch[r]
        /\ outlived' \subseteq Replicas
    BY <1>1 DEF IInv, TypeOK
  <1>5. Offline \in Page /\ Offline.st = "closed"
    <2>1. 0 \in 0..Buffer
      BY EntryAssumption
    <2> QED
      BY <2>1 DEF Offline
  <1>6. /\ pages' \in [Watchers -> Page]
        /\ \A v \in Watchers :
             pages'[v].st = "closed" \/ (pages'[v] = pages[v] /\ pages[v].at # p)
    <2>1. pages \in [Watchers -> Page]
      BY DEF IInv, TypeOK
    <2> HIDE DEF Page
    <2> QED
      BY <1>1, <1>5, <2>1
  <1>7. notes' \subseteq Watch
    BY <1>1 DEF IInv, TypeOK
  <1>8. TypeOK'
    BY <1>1, <1>2, <1>3, <1>4, <1>6, <1>7 DEF IInv, TypeOK, durable, store, history
  <1>9. BatchHoldsLock'
    BY <1>1, <1>4 DEF IInv, BatchHoldsLock
  <1>10. PageIsWatched'
    BY <1>6 DEF IInv, Delivery, PageIsWatched
  <1>11. \A v : Board!InLine(v)' <=> Board!InLine(v)
    BY <1>1 DEF store, Board!InLine
  <1>12. \A v : Served(v) => Served(v)'
    <2> SUFFICES ASSUME NEW v \in Watchers, Told(v) PROVE Told(v)'
      BY <1>1, <1>11 DEF history, Served, SharesKey
    <2>1. CASE pages'[v].st = "closed"
      BY <2>1 DEF Told
    <2>2. CASE pages'[v] = pages[v] /\ pages[v].at # p
      BY <1>1, <2>2 DEF Told
    <2> QED
      BY <1>6, <2>1, <2>2
  <1>13. \A j : Message(j)' = Message(j)
    BY <1>1 DEF Message
  <1>14. LogIsAccepted' /\ SeenIsServed' /\ EnteredIsOwed'
    BY <1>1, <1>3, <1>11, <1>12, <1>13
    DEF IInv, Delivery, LogIsAccepted, SeenIsServed, EnteredIsOwed, history, durable
  <1>15. JobIsEarned'
    <2>1. \A r \in Replicas \ {p} : UserOf(r)' = UserOf(r)
      BY <1>2, <1>13 DEF UserOf, Message
    <2> QED
      BY <1>1, <1>2, <1>11, <1>12, <2>1 DEF IInv, Delivery, JobIsEarned, durable
  <1> QED
    BY <1>8, <1>9, <1>10, <1>14, <1>15 DEF IInv, Delivery

LEMMA StutterStep == IInv /\ UNCHANGED vars => IInv'
  <1> SUFFICES ASSUME IInv, UNCHANGED vars PROVE IInv'
    OBVIOUS
  <1>1. UNCHANGED <<stream, consumer, store, front, closer, history>>
    BY DEF vars
  <1>2. TypeOK'
    BY <1>1 DEF IInv, TypeOK, consumer, durable, store, front, closer, history
  <1>3. BatchHoldsLock'
    BY <1>1, LockUntouched DEF IInv, closer
  <1>4. Delivery'
    BY <1>1, DeliveryUntouched DEF IInv, consumer, durable, store, front, history
  <1> QED
    BY <1>2, <1>3, <1>4 DEF IInv

\* Every step of the specification keeps the invariant: one lemma per group of
\* actions.
LEMMA StepInv == IInv /\ [Next]_vars => IInv'
  <1> SUFFICES ASSUME IInv, [Next]_vars PROVE IInv'
    OBVIOUS
  <1>1. CASE Start \/ \E k \in Keys : Forget(k)
    BY <1>1, StartForget
  <1>2. ASSUME NEW u \in Users, NEW k \in KeysOf[u], Enqueue(u, k) PROVE IInv'
    BY <1>2, EnqueueStep
  <1>3. ASSUME NEW p \in Replicas, Work(p) PROVE IInv'
    <2>1. CASE Deliver(p) \/ \E i \in unacked : Redeliver(p, i)
      BY <2>1, TakeStep
    <2>2. CASE Skip(p)
      BY <2>2, SkipStep
    <2>3. CASE Enter(p)
      BY <2>3, EnterStep
    <2>4. CASE Announce(p)
      BY <2>4, AnnounceStep
    <2>5. CASE Settle(p)
      BY <2>5, SettleStep
    <2> QED
      BY <1>3, <2>1, <2>2, <2>3, <2>4, <2>5 DEF Work
  <1>4. ASSUME NEW p \in Replicas, EnterFails(p) \/ Crash(p) PROVE IInv'
    BY <1>4, EnterFailsStep, CrashStep
  <1>5. ASSUME NEW w \in Watch, Bridge(w[1], w[2]) \/ LoseNote(w[1], w[2]) \/ Subscribe(w[2], w[1])
        PROVE IInv'
    <2>1. w[1] \in Replicas /\ w[2] \in Watchers /\ <<w[1], w[2]>> \in Watch
      BY EntryAssumption DEF Watchers
    <2> QED
      BY <1>5, <2>1, NoteStep, PageStep
  <1>6. ASSUME NEW u \in Watchers, Snapshot(u) \/ SnapshotFails(u) \/ Receive(u) \/ Disconnect(u) PROVE IInv'
    BY <1>6, PageStep
  <1>7. CASE Expire \/ \E p \in Replicas : Acquire(p) \/ Close(p) \/ CloseFails(p) \/ Release(p)
    BY <1>7, CloserStep
  <1>8. CASE UNCHANGED vars
    BY <1>8, StutterStep
  <1> QED
    BY <1>1, <1>2, <1>3, <1>4, <1>5, <1>6, <1>7, <1>8 DEF Next

-----------------------------------------------------------------------------
\* What is owed

Answered(u) == Board!InLine(u) \/ u \in refused \/ SharesKey(u)

\* A message the consumers are not through with.
Waiting(i) == next <= i \/ i \in unacked

\* An accepted request whose user was neither entered nor refused is in a message
\* that is still to be delivered or unacknowledged.
OwedIsPending ==
    \A a \in Owed : \E i \in 1..Len(stream.log) :
      Waiting(i) /\ Message(i) = [id |-> a[2], user |-> a[1]]

\* A request the stream took for a duplicate has its id in the log.
AcceptedIsLogged ==
    /\ \A k \in stream.window : \E i \in 1..Len(stream.log) : Message(i).id = k
    /\ \A a \in accepted : \E i \in 1..Len(stream.log) : Message(i).id = a[2]

GoneIsAnswered == \A i \in 1..Len(stream.log) : Waiting(i) \/ Answered(Message(i).user)

SeenIsAnswered ==
    \A p \in Replicas : \A k \in seen[p] : \A u \in Users :
      <<u, k>> \in accepted => Answered(u)

Through(p) == job[p].st \in {"assigned", "handled"}
JobIsAnswered == \A p \in Replicas : Through(p) => Answered(UserOf(p))

OwedInv == AcceptedIsLogged /\ GoneIsAnswered /\ SeenIsAnswered /\ JobIsAnswered

\* A logged id that is not shared is in a message of its user.
LEMMA OwedFollows == IInv /\ OwedInv => OwedIsPending
  <1> SUFFICES ASSUME IInv, OwedInv, NEW a \in Owed
               PROVE  \E i \in 1..Len(stream.log) :
                        Waiting(i) /\ Message(i) = [id |-> a[2], user |-> a[1]]
    BY DEF OwedIsPending
  <1>1. a \in accepted /\ a \in Users \X Keys /\ ~Answered(a[1]) /\ ~SharesKey(a[1])
    BY DEF Owed, Answered, IInv, TypeOK
  <1>2. PICK i \in 1..Len(stream.log) : Message(i).id = a[2]
    BY <1>1 DEF OwedInv, AcceptedIsLogged
  <1>3. Message(i) \in [id : Keys, user : Users] /\ <<Message(i).user, a[2]>> \in accepted
    BY <1>2, MessageType DEF IInv, Delivery, LogIsAccepted
  <1>4. Message(i).user = a[1]
    <2> SUFFICES ASSUME Message(i).user # a[1] PROVE FALSE
      OBVIOUS
    <2>1. a = <<a[1], a[2]>> /\ a[1] \in Users /\ a[2] \in Keys
      BY <1>1
    <2>2. {<<a[1], a[2]>>, <<Message(i).user, a[2]>>} \subseteq accepted
      BY <1>1, <1>3, <2>1
    <2> QED
      BY <1>1, <1>3, <2>1, <2>2 DEF SharesKey
  <1>5. Waiting(i)
    BY <1>1, <1>4 DEF OwedInv, GoneIsAnswered
  <1>6. Message(i) = [id |-> a[2], user |-> a[1]]
    BY <1>2, <1>3, <1>4
  <1> QED
    BY <1>5, <1>6

LEMMA InitOwed == Init => OwedInv
  <1> SUFFICES ASSUME Init PROVE OwedInv
    OBVIOUS
  <1>1. stream.log = <<>> /\ stream.window = {} /\ accepted = {} /\ Len(stream.log) = 0
    BY DEF Init, EmptyStream
  <1>2. AcceptedIsLogged /\ GoneIsAnswered
    BY <1>1 DEF AcceptedIsLogged, GoneIsAnswered
  <1>3. SeenIsAnswered /\ JobIsAnswered
    BY DEF Init, SeenIsAnswered, JobIsAnswered, Through, NoJob
  <1> QED
    BY <1>2, <1>3 DEF OwedInv

\* Who is answered stays answered.
LEMMA AnsweredStays ==
  ASSUME \A u : Board!InLine(u) => Board!InLine(u)', refused \subseteq refused',
         accepted \subseteq accepted'
  PROVE  \A u : Answered(u) => Answered(u)'
  BY DEF Answered, SharesKey

\* A step that stores no request: whoever lets go of a message has answered its user.
LEMMA OwedKept ==
  ASSUME IInv, OwedInv, stream'.log = stream.log, stream'.window \subseteq stream.window,
         accepted' = accepted,
         \A u : Answered(u) => Answered(u)',
         \A i \in 1..Len(stream.log) :
           Waiting(i) => Waiting(i)' \/ \A u : u = Message(i).user => Answered(u)',
         \A p \in Replicas : \A k \in seen'[p] :
           k \in seen[p] \/ \A u \in Users : <<u, k>> \in accepted => Answered(u)',
         \A p \in Replicas : Through(p)' =>
           \/ Through(p) /\ job'[p].seq = job[p].seq
           \/ \A u : u = Message(job'[p].seq).user => Answered(u)'
  PROVE  OwedInv'
  <1>1. \A i : Message(i)' = Message(i)
    BY DEF Message
  <1>2. AcceptedIsLogged'
    BY <1>1 DEF OwedInv, AcceptedIsLogged
  <1>3. GoneIsAnswered'
    <2> SUFFICES ASSUME NEW i \in 1..Len(stream.log)
                 PROVE  Waiting(i)' \/ Answered(Message(i).user)'
      BY <1>1 DEF GoneIsAnswered
    <2>1. PICK u : u = Message(i).user
      OBVIOUS
    <2>2. u = Message(i).user'
      BY <1>1, <2>1
    <2>3. Waiting(i)' \/ Answered(u)'
      BY <2>1 DEF OwedInv, GoneIsAnswered
    <2> QED
      BY <2>2, <2>3 DEF Answered, Board!InLine, SharesKey
  <1>4. SeenIsAnswered'
    BY DEF OwedInv, SeenIsAnswered
  <1>5. JobIsAnswered'
    <2> SUFFICES ASSUME NEW p \in Replicas, Through(p)' PROVE Answered(UserOf(p))'
      BY DEF JobIsAnswered
    <2>1. PICK u : u = Message(job'[p].seq).user
      OBVIOUS
    <2>2. u = UserOf(p)'
      BY <1>1, <2>1 DEF UserOf, Message
    <2>3. Through(p) /\ job'[p].seq = job[p].seq => Answered(u)
      BY <2>1 DEF OwedInv, JobIsAnswered, UserOf
    <2>4. Answered(u)'
      BY <2>1, <2>3
    <2> QED
      BY <2>2, <2>4 DEF Answered, Board!InLine, SharesKey
  <1> QED
    BY <1>2, <1>3, <1>4, <1>5 DEF OwedInv

\* A step that neither stores nor handles a message.
LEMMA OwedUntouched ==
  ASSUME IInv, OwedInv, stream'.log = stream.log, stream'.window \subseteq stream.window,
         UNCHANGED <<durable, line, accepted, refused>>,
         \A p \in Replicas : seen'[p] \subseteq seen[p],
         \A p \in Replicas : job'[p] = job[p] \/ job'[p].st \notin {"assigned", "handled"}
  PROVE  OwedInv'
  <1>1. \A u : Answered(u) => Answered(u)'
    BY DEF Answered, Board!InLine, SharesKey
  <1>2. \A i : Waiting(i) => Waiting(i)'
    BY DEF Waiting, durable
  <1>3. \A p \in Replicas : Through(p)' => Through(p) /\ job'[p].seq = job[p].seq
    BY DEF Through
  <1> QED
    BY <1>1, <1>2, <1>3, OwedKept

LEMMA EnqueueOwed ==
  ASSUME IInv, OwedInv, NEW u \in Users, NEW k \in KeysOf[u], Enqueue(u, k)
  PROVE  OwedInv'
  <1> DEFINE M == [id : Keys, user : Users]
             m == [id |-> k, user |-> u]
             n == Len(stream.log)
  <1>1. k \in Keys /\ m \in M
    BY EntryAssumption
  <1>2. stream.log \in Seq(M) /\ n \in Nat /\ next \in 1..n + 1
    BY LenProperties DEF IInv, TypeOK
  <1>3. /\ stream' = Store(stream, m)
        /\ accepted' = accepted \union {<<u, k>>}
        /\ UNCHANGED <<next, unacked, job, seen, line, refused>>
    BY DEF Enqueue, consumer, durable, store
  <1>4. /\ Len(stream'.log) \in n..n + 1
        /\ \A i \in 1..n : stream'.log[i] = stream.log[i]
        /\ \E i \in 1..Len(stream'.log) : stream'.log[i].id = k
        /\ stream'.window \subseteq stream.window \union {k}
    <2>1. CASE k \in stream.window
      <3>1. stream' = stream
        BY <1>3, <2>1 DEF Store
      <3> QED
        BY <1>2, <2>1, <3>1 DEF OwedInv, AcceptedIsLogged, Message
    <2>2. CASE k \notin stream.window
      <3>1. stream'.log = Append(stream.log, m) /\ stream'.window \subseteq stream.window \union {k}
        BY <1>3, <2>2 DEF Store
      <3>2. /\ Len(Append(stream.log, m)) = n + 1
            /\ \A i \in 1..n : Append(stream.log, m)[i] = stream.log[i]
            /\ Append(stream.log, m)[n + 1] = m
        BY <1>1, <1>2, AppendProperties
      <3>3. n + 1 \in 1..n + 1
        BY <1>2
      <3> QED
        BY <1>2, <3>1, <3>2, <3>3
    <2> QED
      BY <2>1, <2>2
  <1> HIDE DEF m, M, n
  <1>5. 1..n \subseteq 1..Len(stream'.log) /\ \A i \in 1..n : Message(i)' = Message(i)
    BY <1>2, <1>4 DEF Message
  <1>6. \A v : Answered(v) => Answered(v)'
    BY <1>3 DEF Answered, Board!InLine, SharesKey
  <1>7. AcceptedIsLogged'
    <2>1. \A j : (\E i \in 1..n : Message(i).id = j) =>
                 \E i \in 1..Len(stream'.log) : Message(i)'.id = j
      BY <1>5
    <2>2. \E i \in 1..Len(stream'.log) : Message(i)'.id = k
      BY <1>4 DEF Message
    <2>3. \A j \in stream'.window : \E i \in 1..Len(stream'.log) : Message(i)'.id = j
      BY <1>4, <2>1, <2>2 DEF OwedInv, AcceptedIsLogged, n
    <2>4. \A a \in accepted' : \E i \in 1..Len(stream'.log) : Message(i)'.id = a[2]
      BY <1>3, <2>1, <2>2 DEF OwedInv, AcceptedIsLogged, n
    <2> QED
      BY <2>3, <2>4 DEF AcceptedIsLogged, Message
  <1>8. GoneIsAnswered'
    <2> SUFFICES ASSUME NEW i \in 1..Len(stream'.log)
                 PROVE  Waiting(i)' \/ Answered(Message(i).user)'
      BY DEF GoneIsAnswered
    <2>1. CASE i \in 1..n
      <3>1. PICK v : v = Message(i).user /\ v = Message(i).user'
        BY <1>5, <2>1
      <3>2. Waiting(i)' \/ Answered(v)'
        BY <1>3, <1>6, <2>1, <3>1 DEF OwedInv, GoneIsAnswered, Waiting, n
      <3> QED
        BY <3>1, <3>2 DEF Answered, Board!InLine, SharesKey
    <2>2. CASE i \notin 1..n
      <3>1. i = n + 1 /\ next <= i
        BY <1>2, <1>4, <2>2
      <3> QED
        BY <1>3, <3>1 DEF Waiting
    <2> QED
      BY <2>1, <2>2
  <1>9. SeenIsAnswered'
    <2> SUFFICES ASSUME NEW p \in Replicas, NEW j \in seen[p], NEW v \in Users,
                        <<v, j>> \in accepted'
                 PROVE  Answered(v)'
      BY <1>3 DEF SeenIsAnswered
    <2>1. CASE <<v, j>> \in accepted
      BY <1>6, <2>1 DEF OwedInv, SeenIsAnswered
    <2>2. CASE <<v, j>> \notin accepted
      <3>1. PICK w \in Users : <<w, j>> \in accepted
        BY DEF IInv, Delivery, SeenIsServed
      <3>2. w # v /\ j \in Keys /\ {<<v, j>>, <<w, j>>} \subseteq accepted'
        BY <1>3, <2>2, <3>1 DEF IInv, TypeOK
      <3> QED
        BY <3>1, <3>2 DEF Answered, SharesKey
    <2> QED
      BY <2>1, <2>2
  <1>10. JobIsAnswered'
    <2> SUFFICES ASSUME NEW p \in Replicas, Through(p) PROVE Answered(UserOf(p))'
      BY <1>3 DEF JobIsAnswered, Through
    <2>1. job[p].seq \in 1..n
      BY MessageType DEF IInv, Through, n
    <2>2. UserOf(p)' = UserOf(p)
      BY <1>3, <1>4, <2>1 DEF UserOf, Message
    <2>3. PICK v : v = UserOf(p)
      OBVIOUS
    <2>4. Answered(v)'
      BY <1>6, <2>3 DEF OwedInv, JobIsAnswered
    <2> QED
      BY <2>2, <2>3, <2>4 DEF Answered, Board!InLine, SharesKey
  <1> QED
    BY <1>7, <1>8, <1>9, <1>10 DEF OwedInv

LEMMA TakeOwed ==
  ASSUME IInv, OwedInv, NEW p \in Replicas, Deliver(p) \/ \E i \in unacked : Redeliver(p, i)
  PROVE  OwedInv'
  <1>1. PICK i : Take(p, i) /\ next' \in {next, next + 1} /\ (next' = next \/ i = next)
    BY DEF Deliver, Redeliver
  <1>2. /\ job' = [job EXCEPT ![p] = [seq |-> i, st |-> "taken"]]
        /\ unacked' = unacked \union {i}
        /\ UNCHANGED <<stream, seen, line, accepted, refused>>
    BY <1>1 DEF Take, store, history
  <1>3. \A u : Answered(u) => Answered(u)'
    BY <1>2 DEF Answered, Board!InLine, SharesKey
  <1>4. \A j \in 1..Len(stream.log) : Waiting(j) => Waiting(j)'
    <2>1. next \in Nat
      BY DEF IInv, TypeOK
    <2> QED
      BY <1>1, <1>2, <2>1 DEF Waiting
  <1>5. \A q \in Replicas : Through(q)' => Through(q) /\ job'[q].seq = job[q].seq
    BY <1>2 DEF Through, IInv, TypeOK
  <1> QED
    BY <1>2, <1>3, <1>4, <1>5, OwedKept

\* Whose id the Guard knows is answered.
LEMMA SkipOwed ==
  ASSUME IInv, OwedInv, NEW p \in Replicas, Skip(p)
  PROVE  OwedInv'
  <1>1. /\ job[p].st = "taken" /\ Message(job[p].seq).id \in seen[p] /\ Goto(p, "handled")
        /\ UNCHANGED <<stream, next, unacked, seen, line, accepted, refused>>
    BY DEF Skip, durable, store, history
  <1>2. \A u : Answered(u) <=> Answered(u)'
    BY <1>1 DEF Answered, Board!InLine, SharesKey
  <1>3. \A i : Waiting(i) => Waiting(i)'
    BY <1>1 DEF Waiting
  <1>4. Answered(Message(job[p].seq).user)
    <2>1. job[p].seq \in 1..Len(stream.log)
      BY <1>1, MessageType DEF IInv
    <2>2. /\ Message(job[p].seq).user \in Users
          /\ <<Message(job[p].seq).user, Message(job[p].seq).id>> \in accepted
      BY <2>1, MessageType DEF IInv, Delivery, LogIsAccepted
    <2> QED
      BY <1>1, <2>2 DEF OwedInv, SeenIsAnswered
  <1>5. \A q \in Replicas : Through(q)' =>
          \/ Through(q) /\ job'[q].seq = job[q].seq
          \/ \A u : u = Message(job'[q].seq).user => Answered(u)'
    <2>1. job'[p].seq = job[p].seq /\ \A q \in Replicas \ {p} : job'[q] = job[q]
      BY <1>1, GotoType DEF IInv
    <2>2. \A u : u = Message(job[p].seq).user => Answered(u)'
      BY <1>2, <1>4
    <2> QED
      BY <2>1, <2>2 DEF Through
  <1> QED
    BY <1>1, <1>2, <1>3, <1>5, OwedKept

\* Enter refuses the user or has a place for him, be it his old one.
LEMMA EnterOwed ==
  ASSUME IInv, OwedInv, NEW p \in Replicas, Enter(p), NEW u, u = UserOf(p)
  PROVE  OwedInv'
  <1>1. /\ job[p].st = "taken"
        /\ UNCHANGED <<stream, next, unacked, seen, accepted>>
        /\ \/ /\ Goto(p, "handled")
              /\ refused' = refused \union {u}
              /\ UNCHANGED line
           \/ /\ Goto(p, "assigned")
              /\ IF Board!InLine(u) THEN UNCHANGED line ELSE Board!Join(u)
              /\ UNCHANGED refused
    BY DEF Enter, UserOf, durable
  <1>2. u \in Users
    BY <1>1, MessageType DEF IInv, UserOf
  <1>3. /\ \A v : Board!InLine(v) => Board!InLine(v)'
        /\ refused \subseteq refused' /\ Answered(u)'
    <2>1. CASE Board!Join(u)
      <3>1. line \in Seq(Users) /\ line' = Append(line, u)
        BY <2>1 DEF IInv, TypeOK, Board!Join
      <3>2. /\ Len(line) \in Nat /\ Len(line') = Len(line) + 1
            /\ \A i \in 1..Len(line) : line'[i] = line[i]
            /\ line'[Len(line) + 1] = u
        BY <1>2, <3>1, AppendProperties, LenProperties
      <3>3. 1..Len(line) \subseteq 1..Len(line') /\ Len(line) + 1 \in 1..Len(line')
        BY <3>2
      <3>4. \A v : Board!InLine(v) => Board!InLine(v)'
        BY <3>2, <3>3 DEF Board!InLine
      <3>5. Board!InLine(u)'
        BY <3>2, <3>3 DEF Board!InLine
      <3>6. refused \subseteq refused'
        BY <1>1
      <3> QED
        BY <3>4, <3>5, <3>6 DEF Answered
    <2>2. CASE ~Board!Join(u)
      <3>1. line' = line /\ refused \subseteq refused' /\ (Board!InLine(u) \/ u \in refused')
        BY <1>1, <2>2
      <3>2. \A v : Board!InLine(v)' <=> Board!InLine(v)
        BY <3>1 DEF Board!InLine
      <3> QED
        BY <3>1, <3>2 DEF Answered
    <2> QED
      BY <2>1, <2>2
  <1>4. \A v : Answered(v) => Answered(v)'
    BY <1>1, <1>3, AnsweredStays
  <1>5. \A i : Waiting(i) => Waiting(i)'
    BY <1>1 DEF Waiting
  <1>6. \A q \in Replicas : Through(q)' =>
          \/ Through(q) /\ job'[q].seq = job[q].seq
          \/ \A v : v = Message(job'[q].seq).user => Answered(v)'
    <2>1. job'[p].seq = job[p].seq /\ \A q \in Replicas \ {p} : job'[q] = job[q]
      BY <1>1, GotoType DEF IInv
    <2>2. \A v : v = Message(job[p].seq).user => Answered(v)'
      BY <1>3 DEF UserOf
    <2> QED
      BY <2>1, <2>2 DEF Through
  <1> QED
    BY <1>1, <1>4, <1>5, <1>6, OwedKept

LEMMA AnnounceOwed ==
  ASSUME IInv, OwedInv, NEW p \in Replicas, Announce(p)
  PROVE  OwedInv'
  <1>1. /\ job[p].st = "assigned" /\ Goto(p, "handled")
        /\ UNCHANGED <<stream, next, unacked, seen, line, accepted, refused>>
    BY DEF Announce, durable, store, history
  <1>2. \A u : Answered(u) => Answered(u)'
    BY <1>1 DEF Answered, Board!InLine, SharesKey
  <1>3. \A i : Waiting(i) => Waiting(i)'
    BY <1>1 DEF Waiting
  <1>4. \A q \in Replicas : Through(q)' => Through(q) /\ job'[q].seq = job[q].seq
    <2>1. job'[p].seq = job[p].seq /\ \A q \in Replicas \ {p} : job'[q] = job[q]
      BY <1>1, GotoType DEF IInv
    <2> QED
      BY <1>1, <2>1 DEF Through
  <1> QED
    BY <1>1, <1>2, <1>3, <1>4, OwedKept

\* What is remembered and acknowledged is answered.
LEMMA SettleOwed ==
  ASSUME IInv, OwedInv, NEW p \in Replicas, Settle(p),
         NEW s, s = job[p].seq, NEW u, u = UserOf(p), NEW k, k = Message(s).id
  PROVE  OwedInv'
  <1>1. /\ job[p].st = "handled"
        /\ seen' = [seen EXCEPT ![p] = @ \union {k}]
        /\ unacked' \in {unacked, unacked \ {s}}
        /\ job' = [job EXCEPT ![p] = NoJob]
        /\ UNCHANGED <<stream, next, line, accepted, refused>>
    BY DEF Settle, Remembered, store, history
  <1>2. s \in 1..Len(stream.log) /\ k \in Keys /\ u \in Users /\ u = Message(s).user
    BY <1>1, MessageType DEF IInv, UserOf
  <1>3. Answered(u) /\ <<u, k>> \in accepted
    BY <1>1, <1>2 DEF OwedInv, JobIsAnswered, Through, IInv, Delivery, LogIsAccepted
  <1>4. \A v : Answered(v) <=> Answered(v)'
    BY <1>1 DEF Answered, Board!InLine, SharesKey
  <1>5. \A i \in 1..Len(stream.log) :
          Waiting(i) => Waiting(i)' \/ \A v : v = Message(i).user => Answered(v)'
    <2>1. \A v : v = Message(s).user => Answered(v)'
      BY <1>2, <1>3, <1>4
    <2> QED
      BY <1>1, <2>1 DEF Waiting
  <1>6. \A q \in Replicas : \A j \in seen'[q] :
          j \in seen[q] \/ \A v \in Users : <<v, j>> \in accepted => Answered(v)'
    <2>1. \A q \in Replicas : \A j \in seen'[q] : j \in seen[q] \/ j = k
      BY <1>1 DEF IInv, TypeOK
    <2>2. \A v \in Users : <<v, k>> \in accepted => Answered(v)
      <3> SUFFICES ASSUME NEW v \in Users, <<v, k>> \in accepted, v # u PROVE Answered(v)
        BY <1>3
      <3>1. {<<v, k>>, <<u, k>>} \subseteq accepted
        BY <1>3
      <3> QED
        BY <1>2, <3>1 DEF Answered, SharesKey
    <2> QED
      BY <1>4, <2>1, <2>2
  <1>7. \A q \in Replicas : Through(q)' => Through(q) /\ job'[q].seq = job[q].seq
    BY <1>1 DEF Through, NoJob, IInv, TypeOK
  <1> QED
    BY <1>1, <1>4, <1>5, <1>6, <1>7, OwedKept

\* The other steps: the clock, the window, a Nak, a death, the pages and the closer.
LEMMA OthersOwed ==
  ASSUME IInv, OwedInv,
         \/ Start \/ Expire \/ UNCHANGED vars
         \/ \E k \in Keys : Forget(k)
         \/ \E p \in Replicas : EnterFails(p) \/ Crash(p) \/ Acquire(p) \/ Close(p) \/ CloseFails(p) \/ Release(p)
         \/ \E w \in Watch : Bridge(w[1], w[2]) \/ LoseNote(w[1], w[2]) \/ Subscribe(w[2], w[1])
         \/ \E u \in Watchers : Snapshot(u) \/ SnapshotFails(u) \/ Receive(u) \/ Disconnect(u)
  PROVE  OwedInv'
  <1>1. CASE Start
    BY <1>1, OwedUntouched DEF Start, consumer, history
  <1>2. ASSUME NEW k \in Keys, Forget(k) PROVE OwedInv'
    <2>1. stream'.log = stream.log /\ stream'.window \subseteq stream.window
      BY <1>2 DEF Forget, ForgetId, IInv, TypeOK
    <2> QED
      BY <1>2, <2>1, OwedUntouched DEF Forget, consumer, store, history
  <1>3. ASSUME NEW p \in Replicas, EnterFails(p) PROVE OwedInv'
    <2>1. \A q \in Replicas : job'[q] = job[q] \/ job'[q].st \notin {"assigned", "handled"}
      BY <1>3 DEF EnterFails, NoJob, IInv, TypeOK
    <2> QED
      BY <1>3, <2>1, OwedUntouched DEF EnterFails, store, history
  <1>4. ASSUME NEW p \in Replicas, Crash(p) PROVE OwedInv'
    <2>1. \A q \in Replicas : job'[q] = job[q] \/ job'[q].st \notin {"assigned", "handled"}
      BY <1>4 DEF Crash, NoJob, IInv, TypeOK
    <2>2. \A q \in Replicas : seen'[q] \subseteq seen[q]
      BY <1>4 DEF Crash, IInv, TypeOK
    <2> QED
      BY <1>4, <2>1, <2>2, OwedUntouched DEF Crash, store, history
  <1>5. ASSUME NEW p \in Replicas, Acquire(p) \/ Close(p) \/ CloseFails(p) \/ Release(p) PROVE OwedInv'
    <2>1. UNCHANGED <<stream, consumer, line, history>>
      BY <1>5 DEF Acquire, Close, CloseFails, Release, store, Board!End
    <2> QED
      BY <2>1, OwedUntouched DEF consumer, history
  <1>6. ASSUME NEW w \in Watch,
               Bridge(w[1], w[2]) \/ LoseNote(w[1], w[2]) \/ Subscribe(w[2], w[1])
        PROVE  OwedInv'
    <2>1. UNCHANGED <<stream, consumer, line, accepted, refused>>
      BY <1>6 DEF Bridge, LoseNote, Subscribe, UpdatePage, store, history
    <2> QED
      BY <2>1, OwedUntouched DEF consumer
  <1>7. ASSUME NEW u \in Watchers, Snapshot(u) \/ SnapshotFails(u) \/ Receive(u) \/ Disconnect(u) PROVE OwedInv'
    <2>1. UNCHANGED <<stream, consumer, line, accepted, refused>>
      BY <1>7 DEF Snapshot, SnapshotFails, Receive, Disconnect, UpdatePage, store, history
    <2> QED
      BY <2>1, OwedUntouched DEF consumer
  <1>8. CASE Expire \/ UNCHANGED vars
    <2>1. UNCHANGED <<stream, consumer, line, accepted, refused>>
      BY <1>8 DEF Expire, vars, store, history
    <2> QED
      BY <2>1, OwedUntouched DEF consumer
  <1> QED
    BY <1>1, <1>2, <1>3, <1>4, <1>5, <1>6, <1>7, <1>8

LEMMA OwedStep == IInv /\ OwedInv /\ [Next]_vars => OwedInv'
  <1> SUFFICES ASSUME IInv, OwedInv, [Next]_vars PROVE OwedInv'
    OBVIOUS
  <1>1. ASSUME NEW u \in Users, NEW k \in KeysOf[u], Enqueue(u, k) PROVE OwedInv'
    BY <1>1, EnqueueOwed
  <1>2. ASSUME NEW p \in Replicas, Work(p) PROVE OwedInv'
    <2>1. CASE Deliver(p) \/ \E i \in unacked : Redeliver(p, i)
      BY <2>1, TakeOwed
    <2>2. CASE Skip(p)
      BY <2>2, SkipOwed
    <2>3. CASE Enter(p)
      BY <2>3, EnterOwed
    <2>4. CASE Announce(p)
      BY <2>4, AnnounceOwed
    <2>5. CASE Settle(p)
      BY <2>5, SettleOwed
    <2> QED
      BY <1>2, <2>1, <2>2, <2>3, <2>4, <2>5 DEF Work
  <1>3. CASE \/ Start \/ Expire \/ UNCHANGED vars
             \/ \E k \in Keys : Forget(k)
             \/ \E p \in Replicas :
                  EnterFails(p) \/ Crash(p) \/ Acquire(p) \/ Close(p) \/ CloseFails(p) \/ Release(p)
             \/ \E w \in Watch :
                  Bridge(w[1], w[2]) \/ LoseNote(w[1], w[2]) \/ Subscribe(w[2], w[1])
             \/ \E u \in Watchers : Snapshot(u) \/ SnapshotFails(u) \/ Receive(u) \/ Disconnect(u)
    BY <1>3, OthersOwed
  <1> QED
    BY <1>1, <1>2, <1>3 DEF Next

-----------------------------------------------------------------------------
\* What the steps above keep holds in every state of every behaviour.
THEOREM Invariance == Spec => []IInv
  <1> QED
    BY InitInv, StepInv, PTL DEF Spec

\* Every variable keeps its type, however many faults there are.
THEOREM TypeCorrect == Spec => []TypeOK
  <1>1. IInv => TypeOK
    BY DEF IInv
  <1> QED
    BY <1>1, Invariance, PTL

\* A closing batch (closer.go under distlock/redis.go) that has not outlived its TTL
\* holds the lock.
THEOREM BatchAlwaysHoldsLock == Spec => []BatchHoldsLock
  <1>1. IInv => BatchHoldsLock
    BY DEF IInv
  <1> QED
    BY <1>1, Invariance, PTL

\* A result reaches the page (queue.go, notify.go, sse.go): the message that is still
\* unacknowledged when nobody has been told is with a replica or will be delivered.
THEOREM ResultsNeverLost == Spec => []NoLostResult
  <1>1. IInv => NoLostResult
    <2> SUFFICES ASSUME IInv, NEW u \in Watchers, Lost(u)
                 PROVE  Excepted(u) \/ pages[u].shown = "unseen"
      BY DEF NoLostResult
    <2>1. u \in Users
      BY EntryAssumption DEF Watchers
    <2>2. CASE Served(u)
      <3>1. pages[u].queued \in 0..Buffer
        BY DEF IInv, TypeOK
      <3> QED
        BY <2>2, <3>1 DEF Served, Told, Lost, Excepted
    <2>3. ASSUME NEW i \in unacked, Message(i).user = u
          PROVE  Served(u)
      <3>1. PICK p \in Replicas : job[p].seq = i
        BY <2>3 DEF Lost, InHand
      <3>2. i # 0
        BY MessageType DEF IInv
      <3>3. job[p].st \in {"taken", "assigned", "handled"}
        BY <3>1, <3>2 DEF IInv, TypeOK
      <3>4. job[p].st = "handled"
        BY <2>3, <3>1, <3>3 DEF Lost
      <3> QED
        BY <2>3, <3>1, <3>4 DEF IInv, Delivery, JobIsEarned, UserOf
    <2> QED
      BY <2>1, <2>2, <2>3 DEF IInv, Delivery, EnteredIsOwed, Lost
  <1> QED
    BY <1>1, Invariance, PTL

\* No request that was answered 202 (queue.go) is forgotten, whatever fails, dies or is
\* delivered again: until its user is entered or refused its message is still to be
\* delivered or unacknowledged, unless its id is another user's, too.
THEOREM AcceptedIsNeverForgotten == Spec => []OwedIsPending
  <1>1. Init => IInv /\ OwedInv
    BY InitInv, InitOwed
  <1>2. (IInv /\ OwedInv) /\ [Next]_vars => (IInv /\ OwedInv)'
    BY StepInv, OwedStep
  <1> QED
    BY <1>1, <1>2, OwedFollows, PTL DEF Spec
=============================================================================
