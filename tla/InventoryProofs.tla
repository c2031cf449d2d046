--------------------------- MODULE InventoryProofs --------------------------
(***************************************************************************)
(* Inventory for any orders, replicas and bounds: type correctness, the    *)
(* row lock, that an answered reservation is on record, that the stock     *)
(* adds up, and that nothing is forgotten.                                 *)
(*                                                                         *)
(* That what was told is recorded needs to be known before it is told, of  *)
(* the attempt that is about to tell it; and that only an attempt for a    *)
(* cancellation deletes the record, whose message has been handed out.     *)
(*                                                                         *)
(* That the stock adds up is a balance over three sums: each step moves    *)
(* the units of one attempt, one order or one product, or loses them.      *)
(* Without a failure none is lost because each message then has one        *)
(* attempt, so that an order being reserved is neither on record nor       *)
(* cancelled (Calm).  A sum is computed by recursion over a set; what the  *)
(* proofs need of it comes from counting its units (Parts), for which the  *)
(* library has the cardinalities.                                          *)
(*                                                                         *)
(* That nothing is forgotten is what the liveness of the answers rests on: *)
(* an attempt for order.placed ends with the verdict or gives its message  *)
(* back, and a replica skips only what has its verdict.  Of a cancellation *)
(* it needs that the first attempt for an order is over by its verdict.    *)
(* That the bus gives up only after MaxDeliver failures is a count: each   *)
(* delivery but the first - made, due or about to be due - has cost one,   *)
(* unless it is of an order that cannot be recorded (SpentInv).            *)
(***************************************************************************)
EXTENDS Inventory, SequenceTheorems, FiniteSetTheorems, WellFoundedInduction, TLAPS

Recorded(o) == Cancelled(o) \notin begun => o \in reservations

WorkJustified ==
    \A r \in Busy :
      /\ work[r].phase = "tell" => Recorded(Order(r))
      /\ work[r].phase = "release" => Cancelled(Order(r)) \in begun

IInv == TypeOK /\ ReadIsCurrent /\ ReservedIsRecorded /\ WorkJustified

\* A replica is idle or running an attempt, and the two differ.
LEMMA BusyType ==
  ASSUME TypeOK, NEW r \in Replicas
  PROVE  /\ r \in Busy <=> work[r] \in Attempts
         /\ r \notin Busy <=> work[r] = Idle
  <1>1. work[r] \in Attempts \union {Idle}
    BY DEF TypeOK
  <1>2. Idle \notin Attempts
    BY DEF Idle, Attempts, Phases
  <1> QED
    BY <1>1, <1>2 DEF Busy

LEMMA AttemptType ==
  ASSUME NEW phase \in Phases, NEW m \in Messages, NEW lines \in Seq(Line)
  PROVE  /\ Attempt(phase, m, lines) \in Attempts
         /\ Attempt(phase, m, lines).phase = phase
         /\ Attempt(phase, m, lines).message = m
         /\ Attempt(phase, m, lines).left = lines
         /\ Attempt(phase, m, lines).read = NotRead
  BY DEF Attempt, Attempts

\* The line an attempt is at, and what Advance makes of it.
LEMMA LineType ==
  ASSUME TypeOK, NEW r \in Replicas, Updating(r)
  PROVE  /\ Current(r) \in Line
         /\ Tail(work[r].left) \in Seq(Line)
         /\ Append(work[r].done, Current(r)) \in Seq(Line)
  <1>1. work[r].left \in Seq(Line) /\ work[r].done \in Seq(Line) /\ work[r].left # <<>>
    BY BusyType DEF Updating, Attempts
  <1> QED
    BY <1>1 DEF Current

LEMMA MessageTypes ==
  ASSUME NEW o \in Orders
  PROVE  /\ Placed(o) \in Messages /\ Cancelled(o) \in Messages
         /\ ReturnRequested(o) \in Messages
         /\ Placed(o)[2] = o /\ Cancelled(o)[2] = o /\ ReturnRequested(o)[2] = o
  BY DEF Placed, Cancelled, ReturnRequested, Messages

LEMMA OrderType ==
  ASSUME TypeOK, NEW r \in Busy
  PROVE  Order(r) \in Orders /\ work[r].message \in Messages
  <1>1. r \in Replicas /\ work[r].message \in Messages
    BY BusyType DEF Busy, Attempts
  <1> QED
    BY <1>1 DEF Order, Messages

\* What a step says of the replicas' attempts when it replaces one of them by an
\* attempt that has read nothing, or by none.
LEMMA FreshWork ==
  ASSUME TypeOK, NEW r \in Replicas, NEW a \in Attempts \union {Idle},
         a \in Attempts => a.read = NotRead,
         work' = [work EXCEPT ![r] = a]
  PROVE  /\ work' \in [Replicas -> Attempts \union {Idle}]
         /\ (\A s \in Busy : work[s].read # NotRead => Updating(s))'
         /\ \A s \in Busy' : s # r => s \in Busy /\ work'[s] = work[s]
         /\ r \in Busy' => a \in Attempts /\ work'[r] = a
  <1>1. work' \in [Replicas -> Attempts \union {Idle}]
    BY DEF TypeOK
  <1>2. \A s \in Replicas : s # r => work'[s] = work[s]
    BY DEF TypeOK
  <1>3. work'[r] = a
    BY DEF TypeOK
  <1>4. \A s \in Busy' : s # r => s \in Busy /\ work'[s] = work[s]
    BY <1>2 DEF Busy
  <1>5. r \in Busy' => a \in Attempts /\ work'[r] = a
    BY <1>3 DEF Busy
  <1>6. ASSUME NEW s \in Busy', work'[s].read # NotRead
        PROVE  Updating(s)'
    <2>1. s # r
      BY <1>5, <1>6
    <2>2. s \in Busy /\ work'[s] = work[s]
      BY <1>4, <2>1
    <2>3. Updating(s)
      BY <1>6, <2>2 DEF TypeOK
    <2> QED
      BY <1>6, <2>2, <2>3 DEF Updating, Current
  <1> QED
    BY <1>1, <1>4, <1>5, <1>6 

\* Such a step leaves the locks alone when it changes no stock row but the one it
\* has locked.
RowIsOwn(r) ==
  \A p \in Products : available'[p] # available[p] =>
    r \in Busy /\ work[r].read # NotRead /\ Current(r).product = p

LEMMA FreshReads ==
  ASSUME TypeOK, ReadIsCurrent, NEW r \in Replicas,
         NEW a \in Attempts \union {Idle}, a \in Attempts => a.read = NotRead,
         work' = [work EXCEPT ![r] = a], RowIsOwn(r)
  PROVE  ReadIsCurrent'
  <1>1. \A s \in Busy' : s # r => s \in Busy /\ work'[s] = work[s]
    BY FreshWork
  <1>2. \A s \in Busy' : work'[s].read # NotRead => s # r
    BY FreshWork
  <1>3. ASSUME NEW s \in Busy', work'[s].read # NotRead
        PROVE  /\ s \in Busy \ {r} /\ work'[s] = work[s] /\ Current(s)' = Current(s)
               /\ available'[Current(s).product] = available[Current(s).product]
    <2>1. s \in Busy \ {r} /\ work'[s] = work[s]
      BY <1>1, <1>2, <1>3
    <2>2. Current(s).product \in Products
      BY <1>3, <2>1, LineType DEF TypeOK, Busy, Line
    <2>3. r \in Busy /\ work[r].read # NotRead => Current(s).product # Current(r).product
      BY <1>3, <2>1 DEF ReadIsCurrent
    <2> QED
      BY <2>1, <2>2, <2>3 DEF RowIsOwn, Current
  <1> QED
    BY <1>3 DEF ReadIsCurrent, Current

\* Nothing to justify yet.
LEMMA InitInv == Init => IInv
  <1> SUFFICES ASSUME Init PROVE IInv
    OBVIOUS
  <1>1. Busy = {}
    BY DEF Init, Busy
  <1>2. TypeOK
    BY <1>1, InitialAssumption, MaxTroubleAssumption DEF Init, TypeOK, Published
  <1> QED
    BY <1>1, <1>2 DEF Init, IInv, ReadIsCurrent, ReservedIsRecorded, WorkJustified

\* A justification depends on the attempt, and on records and messages that only
\* become fewer by a cancellation and more.
LEMMA Survives ==
  ASSUME begun \subseteq begun',
         \A o \in reservations : Cancelled(o) \notin begun' => o \in reservations',
         NEW m, m[2] \in Orders
  PROVE  /\ Recorded(m[2]) => Recorded(m[2])'
         /\ Cancelled(m[2]) \in begun => (Cancelled(m[2]) \in begun)'
  BY DEF Recorded, Cancelled

\* Replacing one replica's attempt keeps WorkJustified if the new attempt is.
LEMMA FreshJustified ==
  ASSUME TypeOK, WorkJustified, NEW r \in Replicas,
         NEW a \in Attempts \union {Idle}, a \in Attempts => a.read = NotRead,
         work' = [work EXCEPT ![r] = a],
         begun \subseteq begun',
         \A o \in reservations : Cancelled(o) \notin begun' => o \in reservations',
         a.phase = "tell" => Recorded(a.message[2])',
         a.phase = "release" => Cancelled(a.message[2]) \in begun'
  PROVE  WorkJustified'
  <1>1. ASSUME NEW s \in Busy', s # r
        PROVE  /\ work'[s].phase = "tell" => Recorded(Order(s))'
               /\ work'[s].phase = "release" => Cancelled(Order(s)') \in begun'
    <2>1. s \in Busy /\ work'[s] = work[s]
      BY <1>1, FreshWork
    <2>2. Order(s) \in Orders /\ Order(s)' = Order(s) /\ Order(s) = work[s].message[2]
      BY <2>1, OrderType DEF Order
    <2> QED
      BY <2>1, <2>2, Survives DEF WorkJustified, Recorded, Cancelled
  <1>2. r \in Busy' =>
          /\ work'[r].phase = "tell" => Recorded(Order(r))'
          /\ work'[r].phase = "release" => Cancelled(Order(r)') \in begun'
    BY FreshWork DEF Order, Recorded, Cancelled
  <1> QED
    BY <1>1, <1>2 DEF WorkJustified, Recorded, Cancelled

\* What was told stays recorded under the same condition.
LEMMA ToldSurvives ==
  ASSUME TypeOK, ReservedIsRecorded, begun \subseteq begun',
         \A o \in reservations : Cancelled(o) \notin begun' => o \in reservations',
         \A o \in Orders : "stock.reserved" \in told'[o] =>
           "stock.reserved" \in told[o] \/ Recorded(o)'
  PROVE  ReservedIsRecorded'
  BY DEF ReservedIsRecorded, Recorded, Cancelled

\* Place, Cancel and Return touch the bus only.
LEMMA PublishInv ==
  ASSUME IInv, NEW m \in Messages, Publish(m)
  PROVE  IInv'
  <1>1. TypeOK'
    BY DEF IInv, Publish, TypeOK, Published, Busy, Updating, Current
  <1> QED
    BY <1>1 DEF IInv, Publish, ReadIsCurrent, ReservedIsRecorded, WorkJustified,
                Recorded, Order, Current, Busy, Cancelled

\* A delivery starts an attempt, or none.
LEMMA DeliverInv ==
  ASSUME IInv, NEW r \in Replicas, NEW m \in Messages, Deliver(r, m),
         NEW a \in Attempts \union {Idle},
         a \in Attempts => a.read = NotRead /\ a.message = m /\ a.phase # "tell",
         a.phase = "release" => \E o \in Orders : m = Cancelled(o),
         work' = [work EXCEPT ![r] = a], UNCHANGED seen
  PROVE  IInv'
  <1> USE DEF IInv
  <1>1. begun' = begun \union {m} /\ UNCHANGED <<available, reservations, told>>
    BY DEF Deliver
  <1>2. trouble' \in 0..MaxTrouble
    BY MaxTroubleAssumption DEF Deliver, Trouble, TypeOK
  <1>3. TypeOK'
    <2>1. /\ work' \in [Replicas -> Attempts \union {Idle}]
          /\ (\A s \in Busy : work[s].read # NotRead =>
                Updating(s))'
      BY FreshWork
    <2>2. repeated' \subseteq begun' /\ Published' \subseteq Messages
      BY DEF TypeOK, Deliver, Published
    <2>3. tries' \in [Messages -> Nat]
      BY DEF TypeOK, Deliver
    <2> QED
      BY <1>1, <1>2, <2>1, <2>2, <2>3 DEF TypeOK
  <1>4. ReadIsCurrent'
    BY <1>1, FreshReads DEF RowIsOwn
  <1>5. ReservedIsRecorded'
    BY <1>1, ToldSurvives
  <1>6. WorkJustified'
    <2>1. a.phase # "tell"
      BY DEF Idle
    <2>2. a.phase = "release" => Cancelled(a.message[2]) \in begun'
      BY <1>1, MessageTypes DEF Idle
    <2> QED
      BY <1>1, <2>1, <2>2, FreshJustified
  <1> QED
    BY <1>3, <1>4, <1>5, <1>6

\* The three handlers begin.
LEMMA HandlersInv ==
  ASSUME IInv, NEW r \in Replicas, NEW o \in Orders,
         OnOrderPlaced(r, o) \/ OnOrderCancelled(r, o) \/ OnReturnRequested(r, o)
  PROVE  IInv'
  <1>1. Items[o] \in Seq(Line)
    BY ItemsAssumption
  <1>2. CASE OnOrderPlaced(r, o)
    <2> DEFINE a == IF o \in seen[r] THEN Idle ELSE Attempt("reserve", Placed(o), Items[o])
    <2>1. a \in Attempts \union {Idle}
          /\ (a \in Attempts => a.read = NotRead /\ a.message = Placed(o) /\ a.phase # "tell")
          /\ a.phase # "release"
      BY <1>1, AttemptType, MessageTypes, "reserve" \in Phases
         DEF Idle, Phases, Attempts
    <2>2. Deliver(r, Placed(o)) /\ work' = [work EXCEPT ![r] = a] /\ UNCHANGED seen
      BY <1>2 DEF OnOrderPlaced
    <2> HIDE DEF a
    <2> QED
      BY <2>1, <2>2, MessageTypes, DeliverInv
  <1>3. CASE OnOrderCancelled(r, o)
    <2> DEFINE a == IF o \in reservations
                    THEN Attempt("release", Cancelled(o), Items[o]) ELSE Idle
    <2>1. a \in Attempts \union {Idle}
          /\ (a \in Attempts => a.read = NotRead /\ a.message = Cancelled(o) /\ a.phase # "tell")
      BY <1>1, AttemptType, MessageTypes, "release" \in Phases
         DEF Idle, Phases, Attempts
    <2>2. Deliver(r, Cancelled(o)) /\ work' = [work EXCEPT ![r] = a] /\ UNCHANGED seen
      BY <1>3 DEF OnOrderCancelled
    <2> HIDE DEF a
    <2> QED
      BY <2>1, <2>2, MessageTypes, DeliverInv
  <1>4. CASE OnReturnRequested(r, o)
    <2> DEFINE a == Attempt("restock", ReturnRequested(o), Items[o])
    <2>1. a \in Attempts /\ a.read = NotRead /\ a.message = ReturnRequested(o)
          /\ a.phase = "restock"
      BY <1>1, AttemptType, MessageTypes, "restock" \in Phases DEF Phases
    <2>2. Deliver(r, ReturnRequested(o)) /\ work' = [work EXCEPT ![r] = a] /\ UNCHANGED seen
      BY <1>4 DEF OnReturnRequested
    <2> HIDE DEF a
    <2> QED
      BY <2>1, <2>2, MessageTypes, DeliverInv
  <1> QED
    BY <1>2, <1>3, <1>4

\* A step of r that leaves no lock behind: its attempt is replaced, and the rest may
\* change as far as the attempt justifies.
LEMMA RewriteInv ==
  ASSUME IInv, NEW r \in Replicas,
         NEW a \in Attempts \union {Idle}, a \in Attempts => a.read = NotRead,
         work' = [work EXCEPT ![r] = a],
         available' \in [Products -> Nat], RowIsOwn(r),
         UNCHANGED <<tries, begun, repeated>>,
         due' \subseteq Messages, reservations' \subseteq Orders,
         told' \in [Orders -> SUBSET Answers], seen' \in [Replicas -> SUBSET Orders],
         trouble' \in 0..MaxTrouble,
         \A o \in reservations : Cancelled(o) \notin begun => o \in reservations',
         \A o \in Orders : "stock.reserved" \in told'[o] =>
           "stock.reserved" \in told[o] \/ Recorded(o)',
         a.phase = "tell" => Recorded(a.message[2])',
         a.phase = "release" => Cancelled(a.message[2]) \in begun
  PROVE  IInv'
  <1> USE DEF IInv
  <1>1. TypeOK'
    <2>1. /\ work' \in [Replicas -> Attempts \union {Idle}]
          /\ (\A s \in Busy : work[s].read # NotRead =>
                Updating(s))'
      BY FreshWork
    <2>2. repeated' \subseteq begun' /\ Published' \subseteq Messages
      BY DEF TypeOK, Published
    <2> QED
      BY <2>1, <2>2 DEF TypeOK
  <1>2. ReadIsCurrent'
    BY FreshReads
  <1>3. \A o \in reservations : Cancelled(o) \notin begun' => o \in reservations'
    OBVIOUS
  <1>4. ReservedIsRecorded'
    BY <1>3, ToldSurvives
  <1>5. WorkJustified'
    BY <1>3, FreshJustified
  <1> QED
    BY <1>1, <1>2, <1>4, <1>5

\* A step that writes no stock row.
LEMMA ReplaceInv ==
  ASSUME IInv, NEW r \in Replicas,
         NEW a \in Attempts \union {Idle}, a \in Attempts => a.read = NotRead,
         work' = [work EXCEPT ![r] = a],
         UNCHANGED <<available, tries, begun, repeated>>,
         due' \subseteq Messages, reservations' \subseteq Orders,
         told' \in [Orders -> SUBSET Answers], seen' \in [Replicas -> SUBSET Orders],
         trouble' \in 0..MaxTrouble,
         \A o \in reservations : Cancelled(o) \notin begun => o \in reservations',
         \A o \in Orders : "stock.reserved" \in told'[o] =>
           "stock.reserved" \in told[o] \/ Recorded(o)',
         a.phase = "tell" => Recorded(a.message[2])',
         a.phase = "release" => Cancelled(a.message[2]) \in begun
  PROVE  IInv'
  <1>1. available' \in [Products -> Nat] /\ RowIsOwn(r)
    BY DEF IInv, TypeOK, RowIsOwn
  <1> QED
    BY <1>1, RewriteInv

\* Refuse, and a reservation whose update fails: compensation begins.
LEMMA CompensateInv ==
  ASSUME IInv, NEW r \in Replicas, Updating(r), NEW phase \in {"refuse", "fail"},
         Compensate(r, phase),
         available' \in [Products -> Nat], RowIsOwn(r),
         UNCHANGED <<reservations, told, seen, due, tries, begun, repeated>>,
         trouble' \in 0..MaxTrouble
  PROVE  IInv'
  <1> DEFINE a == Attempt(phase, work[r].message, work[r].done)
  <1>1. work[r].message \in Messages /\ work[r].done \in Seq(Line)
    BY BusyType DEF IInv, Updating, Attempts
  <1>2. a \in Attempts /\ a.read = NotRead /\ a.phase = phase
    BY <1>1, AttemptType DEF Phases
  <1>3. work' = [work EXCEPT ![r] = a]
    BY DEF Compensate
  <1>4. /\ due' \subseteq Messages /\ reservations' \subseteq Orders
        /\ told' \in [Orders -> SUBSET Answers] /\ seen' \in [Replicas -> SUBSET Orders]
    BY DEF IInv, TypeOK, Published
  <1> HIDE DEF a
  <1> QED
    BY <1>2, <1>3, <1>4, RewriteInv

\* An attempt is over: the replica is idle again.
LEMMA EndInv ==
  ASSUME IInv, NEW r \in Replicas, work' = [work EXCEPT ![r] = Idle],
         UNCHANGED <<available, tries, begun, repeated>>,
         due' = due \/ (r \in Busy /\ due' = due \union {work[r].message}),
         reservations' \subseteq Orders,
         told' \in [Orders -> SUBSET Answers], seen' \in [Replicas -> SUBSET Orders],
         trouble' \in 0..MaxTrouble,
         \A o \in reservations : Cancelled(o) \notin begun => o \in reservations',
         \A o \in Orders : "stock.reserved" \in told'[o] =>
           "stock.reserved" \in told[o] \/ Recorded(o)'
  PROVE  IInv'
  <1>1. due' \subseteq Messages
    BY OrderType DEF IInv, TypeOK, Published
  <1>2. Idle \notin Attempts /\ Idle.phase = "idle"
    BY DEF Idle, Attempts, Phases
  <1> QED
    BY <1>1, <1>2, ReplaceInv

\* Publishing an answer says "reserved" only for an attempt that has recorded it.
LEMMA AnswerJustified ==
  ASSUME IInv, NEW r \in Replicas, Telling(r),
         told' \in {told, [told EXCEPT ![Order(r)] = @ \union {Answer(r)}]},
         UNCHANGED <<reservations, begun>>
  PROVE  /\ told' \in [Orders -> SUBSET Answers]
         /\ \A o \in Orders : "stock.reserved" \in told'[o] =>
              "stock.reserved" \in told[o] \/ Recorded(o)'
  <1>1. r \in Busy /\ Order(r) \in Orders
    BY OrderType DEF Telling, In, IInv
  <1>2. \/ work[r].phase = "tell" /\ Answer(r) = "stock.reserved"
        \/ work[r].phase = "refuse" /\ Answer(r) = "stock.reservation_failed"
        \/ work[r].phase = "restock" /\ Answer(r) = "stock.restocked"
    BY DEF Telling, In, Answer
  <1>3. told \in [Orders -> SUBSET Answers]
    BY DEF IInv, TypeOK
  <1>4. Answer(r) \in Answers
    BY <1>2 DEF Answers
  <1>5. told' \in [Orders -> SUBSET Answers]
    BY <1>1, <1>3, <1>4
  <1>6. work[r].phase = "tell" => Recorded(Order(r))
    BY <1>1 DEF IInv, WorkJustified
  <1>7. ASSUME NEW o \in Orders, "stock.reserved" \in told'[o], "stock.reserved" \notin told[o]
        PROVE  Recorded(o)'
    <2>1. o = Order(r) /\ Answer(r) = "stock.reserved"
      BY <1>1, <1>3, <1>7
    <2>2. Recorded(o)
      BY <1>2, <1>6, <2>1
    <2> QED
      BY <2>2 DEF Recorded, Cancelled
  <1> QED
    BY <1>5, <1>7

\* Save and Delete, the steps that change the records.
LEMMA RecordsInv ==
  ASSUME IInv, NEW r \in Replicas, Save(r) \/ Delete(r)
  PROVE  IInv'
  <1>1. r \in Busy /\ Order(r) \in Orders /\ work[r].message \in Messages
    BY OrderType DEF Save, Delete, In, IInv
  <1>2. trouble' \in 0..MaxTrouble /\ seen' \in [Replicas -> SUBSET Orders]
        /\ told' \in [Orders -> SUBSET Answers] /\ due' = due /\ due' \subseteq Messages
    BY DEF Save, Delete, Succeed, IInv, TypeOK, Published
  <1>3. CASE Save(r)
    <2> DEFINE empty == <<>>
    <2>0. empty \in Seq(Line)
      OBVIOUS
    <2> HIDE DEF empty
    <2>1. PICK none \in Seq(Line) : none = empty
      BY <2>0
    <2>2. PICK a : a = Attempt("tell", work[r].message, none)
      OBVIOUS
    <2>3. a \in Attempts /\ a.read = NotRead /\ a.phase = "tell" /\ a.message[2] = Order(r)
      BY <1>1, <2>2, AttemptType DEF Phases, Order
    <2>4. work' = [work EXCEPT ![r] = a] /\ reservations' = reservations \union {Order(r)}
          /\ UNCHANGED <<available, told, tries, begun, repeated>>
      BY <1>3, <2>1, <2>2 DEF Save, Saved, empty
    <2>5. Recorded(a.message[2])'
      BY <2>3, <2>4 DEF Recorded
    <2>6. reservations' \subseteq Orders
      BY <1>1, <2>4 DEF IInv, TypeOK
    <2> QED
      BY <1>2, <2>3, <2>4, <2>5, <2>6, ReplaceInv
  <1>4. CASE Delete(r)
    <2>1. work' = [work EXCEPT ![r] = Idle] /\ reservations' = reservations \ {Order(r)}
          /\ UNCHANGED <<available, told, tries, begun, repeated>>
      BY <1>4 DEF Delete, Succeed, Without
    <2>2. Cancelled(Order(r)) \in begun
      BY <1>1, <1>4 DEF Delete, In, IInv, WorkJustified
    <2>3. reservations' \subseteq Orders
      BY <2>1 DEF IInv, TypeOK
    <2> QED
      BY <1>2, <2>1, <2>2, <2>3, EndInv
  <1> QED
    BY <1>3, <1>4

\* The attempts that end otherwise.
LEMMA EndsInv ==
  ASSUME IInv, NEW r \in Replicas,
         \/ Tell(r) \/ SaveRejected(r) \/ ReturnError(r) \/ StoreFails(r) \/ TellFails(r)
         \/ Die(r) /\ r \in Busy
  PROVE  IInv'
  <1>1. trouble' \in 0..MaxTrouble
    BY MaxTroubleAssumption
       DEF Tell, SaveRejected, ReturnError, StoreFails, TellFails, Die, Trouble, IInv, TypeOK
  <1>2. r \in Busy /\ Order(r) \in Orders
    BY OrderType DEF Tell, SaveRejected, ReturnError, StoreFails, TellFails, Telling, In, IInv
  <1>3. seen' \in [Replicas -> SUBSET Orders]
    BY <1>2 DEF Tell, SaveRejected, ReturnError, StoreFails, TellFails, Die, IInv, TypeOK
  <1>4. /\ work' = [work EXCEPT ![r] = Idle]
        /\ UNCHANGED <<available, tries, begun, repeated>>
        /\ due' = due \/ due' = due \union {work[r].message}
    BY DEF Tell, SaveRejected, ReturnError, StoreFails, TellFails, Die, Succeed, GiveBack
  <1>5. /\ told' \in [Orders -> SUBSET Answers]
        /\ \A o \in Orders : "stock.reserved" \in told'[o] =>
             "stock.reserved" \in told[o] \/ Recorded(o)'
    <2>1. CASE Tell(r) \/ TellFails(r)
      <3>1. Telling(r) /\ told' \in {told, [told EXCEPT ![Order(r)] = @ \union {Answer(r)}]}
            /\ reservations' = reservations
        BY <2>1 DEF Tell, TellFails
      <3> QED
        BY <1>4, <3>1, AnswerJustified
    <2>2. CASE SaveRejected(r) \/ ReturnError(r) \/ StoreFails(r) \/ Die(r)
      BY <2>2 DEF SaveRejected, ReturnError, StoreFails, Die, IInv, TypeOK
    <2> QED
      BY <2>1, <2>2
  <1>6. /\ reservations' \subseteq Orders
        /\ \A o \in reservations : Cancelled(o) \notin begun => o \in reservations'
    <2>1. CASE In(r, "release") /\ reservations' = Without(Order(r))
      <3>1. Cancelled(Order(r)) \in begun
        BY <1>2, <2>1 DEF In, IInv, WorkJustified
      <3> QED
        BY <2>1, <3>1 DEF Without, IInv, TypeOK
    <2>2. CASE reservations' \in {reservations, Saved(Order(r))}
      BY <1>2, <2>2 DEF Saved, IInv, TypeOK
    <2> QED
      BY <2>1, <2>2 DEF Tell, SaveRejected, ReturnError, StoreFails, TellFails, Die
  <1> QED
    BY <1>1, <1>2, <1>3, <1>4, <1>5, <1>6, EndInv

\* SELECT ... FOR UPDATE: only a row nobody has read, and what it holds.
LEMMA SelectInv ==
  ASSUME IInv, NEW r \in Replicas, Select(r)
  PROVE  IInv'
  <1> USE DEF IInv
  <1>1. r \in Busy /\ work[r] \in Attempts /\ Updating(r) /\ Current(r).product \in Products
    BY BusyType, LineType DEF Select, Updating, Line
  <1>2. available[Current(r).product] \in Nat
    BY <1>1 DEF TypeOK
  <1>3. PICK a \in Attempts : a = [work[r] EXCEPT !.read = available[Current(r).product]]
    BY <1>1, <1>2 DEF Attempts
  <1>4. /\ a.read = available[Current(r).product] /\ a.phase = work[r].phase
        /\ a.left = work[r].left /\ a.message = work[r].message
    BY <1>1, <1>3 DEF Attempts
  <1>5. /\ work' = [work EXCEPT ![r] = a] /\ work'[r] = a
        /\ UNCHANGED <<available, reservations, told, seen, due, tries, begun, repeated, trouble>>
    BY <1>3 DEF Select, TypeOK
  <1>6. \A s \in Replicas : s # r => work'[s] = work[s]
    BY <1>5 DEF TypeOK
  <1>7. Busy' = Busy
    BY <1>1, <1>5, <1>6, BusyType DEF Busy, Idle, Attempts, Phases
  <1>8. Current(r)' = Current(r) /\ \A s \in Busy : s # r => Current(s)' = Current(s)
    BY <1>4, <1>5, <1>6 DEF Current, Busy
  <1>9. TypeOK'
    <2>1. work' \in [Replicas -> Attempts \union {Idle}]
      BY <1>5 DEF TypeOK
    <2>2. Updating(r)'
      BY <1>1, <1>4, <1>5, <1>7, <1>8 DEF Updating
    <2>3. ASSUME NEW s \in Busy, s # r, work'[s].read # NotRead
          PROVE  Updating(s)'
      <3>1. work'[s] = work[s]
        BY <1>6, <2>3 DEF Busy
      <3>2. Updating(s)
        BY <2>3, <3>1 DEF TypeOK
      <3> QED
        BY <1>7, <1>8, <2>3, <3>1, <3>2 DEF Updating
    <2> QED
      BY <1>5, <1>7, <2>1, <2>2, <2>3 DEF TypeOK, Published
  <1>10. ReadIsCurrent'
    <2>1. \A s \in Busy : work[s].read # NotRead => Current(s).product # Current(r).product
      BY DEF Select, Unlocked
    <2> QED
      BY <1>4, <1>5, <1>6, <1>7, <1>8, <2>1 DEF ReadIsCurrent, Busy
  <1>11. ReservedIsRecorded'
    BY <1>5 DEF ReservedIsRecorded, Cancelled
  <1>12. WorkJustified'
    <2>1. \A s \in Busy : Order(s)' = Order(s) /\ work'[s].phase = work[s].phase
      BY <1>4, <1>5, <1>6 DEF Order, Busy
    <2> QED
      BY <1>5, <1>7, <2>1 DEF WorkJustified, Recorded, Cancelled
  <1> QED
    BY <1>9, <1>10, <1>11, <1>12

\* UPDATE and COMMIT, or giving back goes on without it: the attempt gives up the
\* lock it had; nobody else has read the row it may have written.
LEMMA AdvanceInv ==
  ASSUME IInv, NEW r \in Replicas, Updating(r), Advance(r),
         UNCHANGED <<reservations, told, seen, due, tries, begun, repeated>>,
         trouble' \in 0..MaxTrouble,
         available' \in [Products -> Nat], RowIsOwn(r)
  PROVE  IInv'
  <1> USE DEF IInv
  <1>1. r \in Busy /\ work[r] \in Attempts /\ work[r].phase # "tell"
    BY BusyType DEF Updating
  <1>2. PICK a \in Attempts :
          a = [work[r] EXCEPT !.left = Tail(@), !.done = Append(@, Current(r)), !.read = NotRead]
    BY <1>1, LineType DEF Attempts
  <1>3. a.read = NotRead /\ a.phase = work[r].phase /\ a.message = work[r].message
    BY <1>1, <1>2 DEF Attempts
  <1>4. work' = [work EXCEPT ![r] = a]
    BY <1>1, <1>2 DEF Advance, TypeOK, Attempts
  <1>5. /\ work' \in [Replicas -> Attempts \union {Idle}]
        /\ (\A s \in Busy : work[s].read # NotRead =>
              Updating(s))'
    BY <1>3, <1>4, FreshWork
  <1>6. TypeOK'
    BY <1>5 DEF TypeOK, Published
  <1>7. ReadIsCurrent'
    BY <1>3, <1>4, FreshReads
  <1>8. ReservedIsRecorded'
    BY DEF ReservedIsRecorded, Cancelled
  <1>9. WorkJustified'
    <2>1. a.phase = "release" => Cancelled(a.message[2]) \in begun
      BY <1>1, <1>3 DEF WorkJustified, Order
    <2> QED
      BY <1>1, <1>3, <1>4, <2>1, FreshJustified
  <1> QED
    BY <1>6, <1>7, <1>8, <1>9

\* What the attempt decided on writes the row it has locked.
LEMMA UpdatedType ==
  ASSUME IInv, NEW r \in Replicas, Updating(r), Decided(r)
  PROVE  /\ Updated(r) \in [Products -> Nat]
         /\ available' = Updated(r) => RowIsOwn(r)
  <1> DEFINE p == Current(r).product
             q == Current(r).quantity
             n == IF work[r].phase = "reserve" THEN work[r].read - q ELSE work[r].read + q
  <1>1. work[r].read # NotRead /\ r \in Busy
    BY DEF Decided, Updating
  <1>2. p \in Products /\ q \in Nat /\ work[r].read \in Nat
    BY <1>1, LineType, BusyType DEF IInv, TypeOK, Line, Attempts
  <1>3. available \in [Products -> Nat]
    BY DEF IInv, TypeOK
  <1>4. n \in Nat
    BY <1>2 DEF Decided, InStock
  <1>5. Updated(r) = [available EXCEPT ![p] = n]
    BY DEF Updated
  <1> HIDE DEF n
  <1> QED
    BY <1>1, <1>2, <1>3, <1>4, <1>5 DEF RowIsOwn

LEMMA WriteInv ==
  ASSUME IInv, NEW r \in Replicas, Write(r)
  PROVE  IInv'
  <1>1. Updating(r) /\ Decided(r) /\ available' = Updated(r) /\ Advance(r)
        /\ UNCHANGED <<reservations, told, seen, due, tries, begun, repeated>>
        /\ trouble' \in 0..MaxTrouble
    BY DEF Write, IInv, TypeOK
  <1>2. available' \in [Products -> Nat] /\ RowIsOwn(r)
    BY <1>1, UpdatedType
  <1> QED
    BY <1>1, <1>2, AdvanceInv

LEMMA UpdateFailsInv ==
  ASSUME IInv, NEW r \in Replicas, UpdateFails(r)
  PROVE  IInv'
  <1>1. trouble' \in 0..MaxTrouble
    BY MaxTroubleAssumption DEF UpdateFails, Trouble, IInv, TypeOK
  <1>2. Updating(r)
        /\ UNCHANGED <<reservations, told, seen, due, tries, begun, repeated>>
    BY DEF UpdateFails
  <1>3. available' \in [Products -> Nat] /\ RowIsOwn(r)
    <2>1. CASE available' = available
      BY <2>1 DEF IInv, TypeOK, RowIsOwn
    <2>2. CASE Decided(r) /\ available' = Updated(r)
      BY <1>2, <2>2, UpdatedType
    <2> QED
      BY <2>1, <2>2 DEF UpdateFails
  <1>4. CASE work[r].phase = "reserve"
    <2>1. Compensate(r, "fail")
      BY <1>4 DEF UpdateFails
    <2> QED
      BY <1>1, <1>2, <1>3, <2>1, CompensateInv
  <1>5. CASE work[r].phase # "reserve"
    <2>1. Advance(r)
      BY <1>5 DEF UpdateFails
    <2> QED
      BY <1>1, <1>2, <1>3, <2>1, AdvanceInv
  <1> QED
    BY <1>4, <1>5

\* One step of anyone.
LEMMA StepInv == IInv /\ [Next]_vars => IInv'
  <1> SUFFICES ASSUME IInv, [Next]_vars PROVE IInv'
    OBVIOUS
  <1>1. CASE UNCHANGED vars
    BY <1>1 DEF vars, IInv, TypeOK, ReadIsCurrent, ReservedIsRecorded, WorkJustified,
                Recorded, Order, Current, Busy, Updating, Cancelled, Published
  <1>2. ASSUME NEW o \in Orders, Place(o) \/ Cancel(o) \/ Return(o) PROVE IInv'
    BY <1>2, MessageTypes, PublishInv DEF Place, Cancel, Return
  <1>3. ASSUME NEW r \in Replicas, NEW o \in Orders,
               OnOrderPlaced(r, o) \/ OnOrderCancelled(r, o) \/ OnReturnRequested(r, o)
        PROVE  IInv'
    BY <1>3, HandlersInv
  <1>4. ASSUME NEW r \in Replicas, Refuse(r) PROVE IInv'
    <2>1. Updating(r) /\ Compensate(r, "refuse") /\ trouble' \in 0..MaxTrouble
          /\ UNCHANGED <<reservations, told, seen, due, tries, begun, repeated>>
          /\ available' \in [Products -> Nat] /\ RowIsOwn(r)
      BY <1>4 DEF Refuse, IInv, TypeOK, RowIsOwn
    <2> QED
      BY <2>1, CompensateInv
  <1>5. ASSUME NEW r \in Replicas, Die(r), r \notin Busy PROVE IInv'
    <2>1. UNCHANGED <<available, reservations, told, work, due, tries, begun, repeated>>
      BY <1>5 DEF Die
    <2>2. trouble' \in 0..MaxTrouble /\ seen' \in [Replicas -> SUBSET Orders]
      BY <1>5, MaxTroubleAssumption DEF Die, Trouble, IInv, TypeOK
    <2> QED
      BY <2>1, <2>2 DEF IInv, TypeOK, ReadIsCurrent, ReservedIsRecorded, WorkJustified,
           Recorded, Order, Current, Busy, Updating, Cancelled, Published
  <1> QED
    BY <1>1, <1>2, <1>3, <1>4, <1>5, SelectInv, WriteInv, RecordsInv, UpdateFailsInv,
       EndsInv DEF Next

LEMMA Invariance == Spec => []IInv
  BY InitInv, StepInv, PTL DEF Spec

-----------------------------------------------------------------------------
\* Sums

\* The units a sum of natural numbers counts: f[x] of them for each x.
Parts(f, S) == {q \in S \X Nat : 1 <= q[2] /\ q[2] <= f[q[1]]}
Total(f, S) == Cardinality(Parts(f, S))
Chosen(s) == CHOOSE x \in s : TRUE

LEMMA PartsOfOne ==
  ASSUME NEW f, NEW x, f[x] \in Nat
  PROVE  IsFiniteSet(Parts(f, {x})) /\ Total(f, {x}) = f[x]
  <1> DEFINE h == [k \in 1..f[x] |-> <<x, k>>]
  <1>1. IsFiniteSet(1..f[x]) /\ Cardinality(1..f[x]) = f[x]
    BY FS_Interval
  <1>2. h \in Bijection(1..f[x], Parts(f, {x}))
    <2>1. h \in [1..f[x] -> Parts(f, {x})]
      BY DEF Parts
    <2>2. \A a, b \in 1..f[x] : h[a] = h[b] => a = b
      OBVIOUS
    <2>3. \A q \in Parts(f, {x}) : \E k \in 1..f[x] : h[k] = q
      BY DEF Parts
    <2> QED
      BY <2>1, <2>2, <2>3 DEF Bijection, Injection, Surjection, IsInjective
  <1> HIDE DEF h
  <1>3. ExistsBijection(1..f[x], Parts(f, {x}))
    BY <1>2 DEF ExistsBijection
  <1> QED
    BY <1>1, <1>3, FS_Bijection DEF Total

LEMMA PartsFinite ==
  ASSUME NEW S, IsFiniteSet(S), NEW f, \A x \in S : f[x] \in Nat
  PROVE  IsFiniteSet(Parts(f, S))
  <1> DEFINE h == [x \in S |-> Parts(f, {x})]
             R == {Parts(f, {x}) : x \in S}
  <1>1. h \in Surjection(S, R)
    BY DEF Surjection
  <1>2. IsFiniteSet(R)
    BY <1>1, FS_Surjection
  <1>3. \A P \in R : IsFiniteSet(P)
    BY PartsOfOne
  <1>4. IsFiniteSet(UNION R)
    BY <1>2, <1>3, FS_UNION
  <1>5. Parts(f, S) = UNION R
    BY DEF Parts
  <1> QED
    BY <1>4, <1>5

LEMMA DisjointUnion ==
  ASSUME NEW A, IsFiniteSet(A), NEW B, IsFiniteSet(B), A \intersect B = {}
  PROVE  Cardinality(A \union B) = Cardinality(A) + Cardinality(B)
  <1>1. Cardinality(A \union B) = Cardinality(A) + Cardinality(B) - Cardinality(A \intersect B)
    BY FS_Union
  <1>2. Cardinality(A) \in Nat /\ Cardinality(B) \in Nat /\ Cardinality(A \intersect B) = 0
    BY FS_CardinalityType, FS_EmptySet
  <1> QED
    BY <1>1, <1>2

LEMMA TotalAdd ==
  ASSUME NEW S, IsFiniteSet(S), NEW x, x \notin S, NEW f, \A y \in S \union {x} : f[y] \in Nat
  PROVE  Total(f, S \union {x}) = Total(f, S) + f[x]
  <1>1. /\ IsFiniteSet(Parts(f, S)) 
        /\ IsFiniteSet(Parts(f, {x})) /\ Total(f, {x}) = f[x]
    BY PartsFinite, PartsOfOne
  <1>2. Parts(f, S \union {x}) = Parts(f, S) \union Parts(f, {x})
    BY DEF Parts
  <1>3. Parts(f, S) \intersect Parts(f, {x}) = {}
    BY DEF Parts
  <1>4. Cardinality(Parts(f, S) \union Parts(f, {x}))
          = Cardinality(Parts(f, S)) + Cardinality(Parts(f, {x}))
    BY <1>1, <1>3, DisjointUnion
  <1> QED
    BY <1>1, <1>2, <1>4 DEF Total

LEMMA SumIsTotal ==
  ASSUME NEW S, IsFiniteSet(S), NEW f, \A x \in S : f[x] \in Nat
  PROVE  SumFunctionOnSet(f, S) = Total(f, S)
  <1> DEFINE Eq(g) == g = [s \in SUBSET S |->
                             IF s = {} THEN 0 ELSE f[Chosen(s)] + g[s \ {Chosen(s)}]]
  <1>1. SumFunctionOnSet(f, S) = (CHOOSE g : Eq(g))[S]
    BY DEF SumFunctionOnSet, FoldFunctionOnSet, MapThenFoldSet, Chosen
  <1>2. Total(f, {}) = 0
    <2>1. Parts(f, {}) = {}
      BY DEF Parts
    <2> QED
      BY <2>1, FS_EmptySet DEF Total
  <1>3. \A s \in SUBSET S : s # {} =>
          /\ Chosen(s) \in s /\ s \ {Chosen(s)} \in SUBSET S
          /\ Total(f, s) = f[Chosen(s)] + Total(f, s \ {Chosen(s)})
    <2> SUFFICES ASSUME NEW s \in SUBSET S, NEW x \in s, x = Chosen(s)
                 PROVE Total(f, s) = f[x] + Total(f, s \ {x})
      BY DEF Chosen
    <2>1. IsFiniteSet(s \ {x}) /\ (s \ {x}) \union {x} = s
      BY FS_Subset
    <2>2. Total(f, s) = Total(f, s \ {x}) + f[x]
      BY <2>1, TotalAdd
    <2>3. Total(f, s \ {x}) \in Nat
      BY <2>1, PartsFinite, FS_CardinalityType DEF Total
    <2> QED
      BY <2>2, <2>3
  <1>4. \E g : Eq(g)
    <2> DEFINE g == [s \in SUBSET S |-> Total(f, s)]
    <2>1. g = [s \in SUBSET S |-> IF s = {} THEN 0 ELSE f[Chosen(s)] + g[s \ {Chosen(s)}]]
      BY <1>2, <1>3
    <2> HIDE DEF g
    <2> QED
      BY <2>1
  <1>5. PICK g : Eq(g) /\ SumFunctionOnSet(f, S) = g[S]
    BY <1>1, <1>4
  <1>6. \A s \in SUBSET S :
          g[s] = IF s = {} THEN 0 ELSE f[Chosen(s)] + g[s \ {Chosen(s)}]
    BY <1>5
  <1> DEFINE Bad == {s \in SUBSET S : g[s] # Total(f, s)}
  <1>7. Bad = {}
    <2> SUFFICES ASSUME Bad # {} PROVE FALSE
      OBVIOUS
    <2>1. IsWellFoundedOn(StrictSubsetOrdering(S), SUBSET S)
      BY FS_StrictSubsetOrderingWellFounded, FS_FiniteSubsetsOfFinite
    <2>2. \E s \in Bad : \A t \in Bad : ~(<<t, s>> \in StrictSubsetOrdering(S))
      <3>1. Bad \subseteq SUBSET S
        OBVIOUS
      <3> HIDE DEF Bad
      <3> QED
        BY <2>1, <3>1, WFMin
    <2>3. PICK s \in Bad : \A t \in Bad : ~(<<t, s>> \in StrictSubsetOrdering(S))
      BY <2>2
    <2>4. s # {}
      BY <1>2, <1>6
    <2>5. s \ {Chosen(s)} \notin Bad
      BY <1>3, <2>3, <2>4 DEF StrictSubsetOrdering
    <2> QED
      BY <1>3, <1>6, <2>4, <2>5
  <1> QED
    BY <1>5, <1>7

LEMMA SumType ==
  ASSUME NEW S, IsFiniteSet(S), NEW f, \A x \in S : f[x] \in Nat
  PROVE  SumFunctionOnSet(f, S) \in Nat
  <1>1. IsFiniteSet(Parts(f, S))
    BY PartsFinite
  <1> QED
    BY <1>1, SumIsTotal, FS_CardinalityType DEF Total

LEMMA SumEmpty == ASSUME NEW f PROVE SumFunctionOnSet(f, {}) = 0
  <1>1. Parts(f, {}) = {}
    BY DEF Parts
  <1> QED
    BY <1>1, SumIsTotal, FS_EmptySet DEF Total

\* The sum over one element more.
LEMMA SumAdd ==
  ASSUME NEW S, IsFiniteSet(S), NEW x, x \notin S, NEW f, \A y \in S \union {x} : f[y] \in Nat
  PROVE  SumFunctionOnSet(f, S \union {x}) = SumFunctionOnSet(f, S) + f[x]
  <1>1. IsFiniteSet(S \union {x})
    BY FS_AddElement
  <1>2. SumFunctionOnSet(f, S) = Total(f, S)
    BY SumIsTotal
  <1>3. SumFunctionOnSet(f, S \union {x}) = Total(f, S \union {x})
    BY <1>1, SumIsTotal
  <1>4. Total(f, S \union {x}) = Total(f, S) + f[x]
    BY TotalAdd
  <1> QED
    BY <1>2, <1>3, <1>4

\* Functions that agree have the same sum.
LEMMA SumSame ==
  ASSUME NEW S, IsFiniteSet(S), NEW f, NEW g, \A x \in S : f[x] \in Nat /\ g[x] = f[x]
  PROVE  SumFunctionOnSet(g, S) = SumFunctionOnSet(f, S)
  <1>1. Parts(g, S) = Parts(f, S)
    BY DEF Parts
  <1> QED
    BY <1>1, SumIsTotal DEF Total

LEMMA SumOfNothing ==
  ASSUME NEW S, IsFiniteSet(S), NEW f, \A x \in S : f[x] = 0
  PROVE  SumFunctionOnSet(f, S) = 0
  <1>1. Parts(f, S) = {}
    BY DEF Parts
  <1> QED
    BY <1>1, SumIsTotal, FS_EmptySet DEF Total

\* One element x changes its value, enters or leaves; outside it counts for nothing.
Differ(f, S, g, T, x) ==
    /\ T \ {x} = S \ {x}
    /\ \A y \in S \union {x} : f[y] \in Nat
    /\ \A y \in T \union {x} : g[y] \in Nat
    /\ \A y \in S \ {x} : g[y] = f[y]
    /\ x \notin S => f[x] = 0
    /\ x \notin T => g[x] = 0

LEMMA SumChange ==
  ASSUME NEW S, IsFiniteSet(S), NEW T, NEW x, NEW f, NEW g, Differ(f, S, g, T, x)
  PROVE  /\ IsFiniteSet(T)
         /\ SumFunctionOnSet(g, T) + f[x] = SumFunctionOnSet(f, S) + g[x]
  <1> USE DEF Differ
  <1> DEFINE B == S \ {x}
  <1>1. IsFiniteSet(B) /\ x \notin B /\ f[x] \in Nat /\ g[x] \in Nat
    BY FS_RemoveElement
  <1>2. (S = B \/ S = B \union {x}) /\ (T = B \/ T = B \union {x})
    OBVIOUS
  <1>3. IsFiniteSet(T)
    <2>1. IsFiniteSet(B \union {x})
      BY <1>1, FS_AddElement
    <2> HIDE DEF B
    <2> QED
      BY <1>1, <1>2, <2>1
  <1>4. /\ SumFunctionOnSet(f, B) \in Nat
        /\ SumFunctionOnSet(g, B) = SumFunctionOnSet(f, B)
    BY <1>1, SumType, SumSame
  <1>5. SumFunctionOnSet(f, S) = SumFunctionOnSet(f, B) + f[x]
    <2>1. CASE x \in S
      <3>1. S = B \union {x} /\ \A y \in B \union {x} : f[y] \in Nat
        BY <2>1
      <3> HIDE DEF B
      <3> QED
        BY <1>1, <3>1, SumAdd
    <2>2. CASE x \notin S
      <3>1. S = B /\ f[x] = 0
        BY <2>2
      <3> HIDE DEF B
      <3> QED
        BY <1>4, <3>1
    <2> QED
      BY <2>1, <2>2
  <1>6. SumFunctionOnSet(g, T) = SumFunctionOnSet(g, B) + g[x]
    <2>1. CASE x \in T
      <3>1. T = B \union {x} /\ \A y \in B \union {x} : g[y] \in Nat
        BY <2>1
      <3> HIDE DEF B
      <3> QED
        BY <1>1, <3>1, SumAdd
    <2>2. CASE x \notin T
      <3>1. T = B /\ g[x] = 0
        BY <2>2
      <3> HIDE DEF B
      <3> QED
        BY <1>4, <3>1
    <2> QED
      BY <2>1, <2>2
  <1> HIDE DEF B
  <1> QED
    BY <1>1, <1>3, <1>4, <1>5, <1>6

-----------------------------------------------------------------------------
\* Units of a product in a sequence of lines

Wanted(line, p) == IF line.product = p THEN line.quantity ELSE 0
Counts(lines, p) ==
    [i \in DOMAIN lines |-> IF lines[i].product = p THEN lines[i].quantity ELSE 0]

LEMMA CountsType ==
  ASSUME NEW lines \in Seq(Line), NEW p
  PROVE  /\ DOMAIN lines = 1..Len(lines) /\ Len(lines) \in Nat /\ IsFiniteSet(1..Len(lines))
         /\ \A i \in 1..Len(lines) : lines[i] \in Line /\ Counts(lines, p)[i] = Wanted(lines[i], p)
                                       /\ Counts(lines, p)[i] \in Nat
         /\ Units(lines, p) = SumFunctionOnSet(Counts(lines, p), 1..Len(lines))
         /\ Units(lines, p) \in Nat
  <1>1. DOMAIN lines = 1..Len(lines) /\ Len(lines) \in Nat
    BY LenProperties
  <1>2. IsFiniteSet(1..Len(lines))
    BY <1>1, FS_Interval
  <1>3. \A i \in 1..Len(lines) : lines[i] \in Line
    BY <1>1, ElementOfSeq
  <1>4. \A i \in 1..Len(lines) : Counts(lines, p)[i] = Wanted(lines[i], p)
                                  /\ Counts(lines, p)[i] \in Nat
    BY <1>1, <1>3 DEF Counts, Wanted, Line
  <1>5. Units(lines, p) = SumFunctionOnSet(Counts(lines, p), 1..Len(lines))
    <2>1. DOMAIN Counts(lines, p) = 1..Len(lines)
      BY <1>1 DEF Counts
    <2> QED
      BY <2>1 DEF Units, Counts, SumFunction
  <1> QED
    BY <1>1, <1>2, <1>3, <1>4, <1>5, SumType

LEMMA UnitsEmpty == ASSUME NEW p PROVE Units(<<>>, p) = 0
  <1>1. DOMAIN Counts(<<>>, p) = {}
    BY DEF Counts
  <1>2. Units(<<>>, p) = SumFunctionOnSet(Counts(<<>>, p), {})
    BY <1>1 DEF Units, Counts, SumFunction
  <1> QED
    BY <1>2, SumEmpty

LEMMA UnitsAppend ==
  ASSUME NEW lines \in Seq(Line), NEW line \in Line, NEW p
  PROVE  Units(Append(lines, line), p) = Units(lines, p) + Wanted(line, p)
  <1> DEFINE n == Len(lines)
             more == Append(lines, line)
             f == Counts(lines, p)
             g == Counts(more, p)
  <1>1. /\ more \in Seq(Line) /\ Len(more) = n + 1 /\ more[n + 1] = line
        /\ \A i \in 1..n : more[i] = lines[i]
    BY AppendProperties
  <1>2. /\ n \in Nat /\ IsFiniteSet(1..n)
        /\ \A i \in 1..n : f[i] = Wanted(lines[i], p) /\ f[i] \in Nat
        /\ Units(lines, p) = SumFunctionOnSet(f, 1..n)
    BY CountsType
  <1>3. /\ \A i \in 1..n + 1 : g[i] = Wanted(more[i], p) /\ g[i] \in Nat
        /\ Units(more, p) = SumFunctionOnSet(g, 1..n + 1)
    BY <1>1, CountsType
  <1> HIDE DEF n, more, f, g
  <1>4. 1..n + 1 = (1..n) \union {n + 1} /\ n + 1 \notin 1..n
    BY <1>2
  <1>5. SumFunctionOnSet(g, 1..n + 1)
          = SumFunctionOnSet(g, 1..n) + g[n + 1]
    <2> SUFFICES ASSUME NEW S, S = 1..n, NEW x, x = n + 1
                 PROVE SumFunctionOnSet(g, 1..n + 1) = SumFunctionOnSet(g, S) + g[x]
      OBVIOUS
    <2>1. /\ IsFiniteSet(S) /\ x \notin S
          /\ \A y \in S \union {x} : g[y] \in Nat
      BY <1>2, <1>3, <1>4
    <2>2. SumFunctionOnSet(g, S \union {x}) = SumFunctionOnSet(g, S) + g[x]
      BY <2>1, SumAdd
    <2> QED
      BY <1>4, <2>2
  <1>6. SumFunctionOnSet(g, 1..n) = SumFunctionOnSet(f, 1..n)
    <2>1. \A i \in 1..n : g[i] = f[i]
      BY <1>1, <1>2, <1>3, <1>4
    <2> QED
      BY <1>2, <2>1, SumSame
  <1>7. g[n + 1] = Wanted(line, p)
    BY <1>1, <1>3, <1>4
  <1> QED
    BY <1>2, <1>3, <1>5, <1>6, <1>7 DEF more

\* The head's units and the tail's: what is counted in the tail is counted one
\* place further in the sequence.
LEMMA UnitsTail ==
  ASSUME NEW lines \in Seq(Line), lines # <<>>, NEW p
  PROVE  Units(lines, p) = Wanted(Head(lines), p) + Units(Tail(lines), p)
  <1> DEFINE n == Len(lines) - 1
             rest == Tail(lines)
             f == Counts(lines, p)
             g == Counts(rest, p)
  <1>1. /\ n \in Nat /\ Len(lines) = n + 1 /\ rest \in Seq(Line) /\ Len(rest) = n
        /\ Head(lines) = lines[1] /\ \A i \in 1..n : rest[i] = lines[i + 1]
    BY HeadTailProperties, LenProperties, EmptySeq
  <1>2. /\ \A i \in 1..n + 1 : f[i] = Wanted(lines[i], p) /\ f[i] \in Nat
        /\ Units(lines, p) = SumFunctionOnSet(f, 1..n + 1)
    BY <1>1, CountsType
  <1>3. /\ \A i \in 1..n : g[i] = Wanted(rest[i], p) /\ g[i] \in Nat
        /\ Units(rest, p) = SumFunctionOnSet(g, 1..n)
        /\ IsFiniteSet(1..n) /\ Units(rest, p) \in Nat
    BY <1>1, CountsType
  <1> HIDE DEF n, rest, f, g
  <1>4. IsFiniteSet(2..n + 1) /\ 1 \notin 2..n + 1 /\ 1..n + 1 = (2..n + 1) \union {1}
    <2>1. 1 \notin 2..n + 1 /\ 1..n + 1 = (2..n + 1) \union {1} /\ n + 1 \in Int
      BY <1>1
    <2>2. IsFiniteSet(2..n + 1)
      BY <2>1, FS_Interval
    <2> QED
      BY <2>1, <2>2
  <1>5. SumFunctionOnSet(f, 1..n + 1) = SumFunctionOnSet(f, 2..n + 1) + f[1]
    <2>1. \A y \in (2..n + 1) \union {1} : f[y] \in Nat
      BY <1>2, <1>4
    <2> QED
      BY <1>4, <2>1, SumAdd
  <1>6. \A i \in 1..n : i + 1 \in 2..n + 1 /\ g[i] = f[i + 1]
    <2> SUFFICES ASSUME NEW i \in 1..n PROVE i + 1 \in 2..n + 1 /\ g[i] = f[i + 1]
      OBVIOUS
    <2>1. i + 1 \in 2..n + 1 /\ i + 1 \in 1..n + 1
      BY <1>1
    <2> QED
      BY <1>1, <1>2, <1>3, <2>1
  <1>7. ExistsBijection(Parts(g, 1..n), Parts(f, 2..n + 1))
    <2> DEFINE h == [q \in Parts(g, 1..n) |-> <<q[1] + 1, q[2]>>]
    <2>1. h \in [Parts(g, 1..n) -> Parts(f, 2..n + 1)]
      BY <1>1, <1>6 DEF Parts
    <2>2. \A a, b \in Parts(g, 1..n) : h[a] = h[b] => a = b
      BY <1>1 DEF Parts
    <2>3. \A q \in Parts(f, 2..n + 1) : \E a \in Parts(g, 1..n) : h[a] = q
      <3> SUFFICES ASSUME NEW q \in Parts(f, 2..n + 1)
                   PROVE \E a \in Parts(g, 1..n) : h[a] = q
        OBVIOUS
      <3>1. q[1] - 1 \in 1..n /\ (q[1] - 1) + 1 = q[1] /\ q[2] \in Nat /\ q = <<q[1], q[2]>>
            /\ 1 <= q[2] /\ q[2] <= f[q[1]]
        BY <1>1 DEF Parts
      <3>2. g[q[1] - 1] = f[q[1]]
        BY <1>6, <3>1
      <3>3. <<q[1] - 1, q[2]>> \in Parts(g, 1..n)
        BY <3>1, <3>2 DEF Parts
      <3>4. h[<<q[1] - 1, q[2]>>] = q
        BY <3>1, <3>3
      <3> QED
        BY <3>3, <3>4
    <2> HIDE DEF h
    <2>4. h \in Bijection(Parts(g, 1..n), Parts(f, 2..n + 1))
      BY <2>1, <2>2, <2>3 DEF Bijection, Injection, Surjection, IsInjective
    <2> QED
      BY <2>4 DEF ExistsBijection
  <1>8. SumFunctionOnSet(f, 2..n + 1) = SumFunctionOnSet(g, 1..n)
    <2>1. \A i \in 2..n + 1 : f[i] \in Nat
      BY <1>2, <1>4
    <2>2. IsFiniteSet(Parts(g, 1..n))
      BY <1>3, PartsFinite
    <2>3. Total(f, 2..n + 1) = Total(g, 1..n)
      BY <1>7, <2>2, FS_Bijection DEF Total
    <2>4. SumFunctionOnSet(f, 2..n + 1) = Total(f, 2..n + 1)
      BY <1>4, <2>1, SumIsTotal
    <2>5. SumFunctionOnSet(g, 1..n) = Total(g, 1..n)
      BY <1>3, SumIsTotal
    <2> QED
      BY <2>3, <2>4, <2>5
  <1>9. f[1] = Wanted(Head(lines), p) /\ f[1] \in Nat
    BY <1>1, <1>2, <1>4
  <1> QED
    BY <1>2, <1>3, <1>5, <1>8, <1>9 DEF rest

-----------------------------------------------------------------------------
\* Where the units are

Standing == {o \in reservations : Cancelled(o) \notin begun}
Returned == {o \in Orders : ReturnRequested(o) \in begun}
Reserved(p) == UnitsOf(Standing, p)
SentBack(p) == UnitsOf(Returned, p)

\* What an attempt holds of p.
Held(a, p) ==
    CASE a.phase = "reserve" -> Units(a.done, p)
      [] a.phase \in {"refuse", "fail", "release", "restock"} -> Units(a.left, p)
      [] OTHER -> 0
InAttempts(p) == SumFunctionOnSet([r \in Replicas |-> Held(work[r], p)], Busy)

CountedOnce == Once("order.cancelled") /\ Once("order.return_requested")

FinitelyMany == IsFiniteSet(Busy) /\ IsFiniteSet(reservations) /\ IsFiniteSet(Returned)

\* An attempt's message was handed out; only order.placed reserves, and what a
\* reservation has done and has left is the order.
WorkShape ==
    \A r \in Busy :
      /\ work[r].message \in begun
      /\ work[r].phase \in {"reserve", "tell", "refuse", "fail"} => work[r].message = Placed(Order(r))
      /\ work[r].phase = "reserve" =>
           \A p \in Products :
             Units(work[r].done, p) + Units(work[r].left, p) = Units(Items[Order(r)], p)

Verdicts == {"stock.reserved", "stock.reservation_failed"}

\* Only an order that got its verdict is cancelled.
CancelOwed == \A o \in Orders : Cancelled(o) \in Published => told[o] \intersect Verdicts # {}

\* Nothing is on record, and nothing was told, about the order.
Fresh(o) == o \notin reservations /\ told[o] \intersect Verdicts = {}

\* A message whose handler needs no order on record that the records cannot hold.
Sound(m) == m[1] = "order.placed" => Recordable(m[2])

\* As long as nothing fails and nothing is delivered twice, every sound message has
\* one attempt, and an order is fresh until its attempt to reserve is over.
Calm ==
    trouble = 0 =>
      /\ \A m \in due \intersect begun : ~Sound(m)
      /\ \A r, s \in Busy : r # s /\ Sound(work[r].message) => work[r].message # work[s].message
      /\ \A r \in Busy :
           /\ work[r].phase # "fail"
           /\ work[r].phase = "reserve" /\ Recordable(Order(r)) => Fresh(Order(r))
      /\ \A o \in Orders : Placed(o) \notin begun => Fresh(o)

\* What the two definitions say of the other.
LEMMA SoundOrders ==
  /\ \A o \in Orders : Sound(Placed(o)) <=> Recordable(o)
  /\ \A p : Undisturbed(p)' <=>
       \A o \in Orders : Placed(o) \in begun' /\ Wants(o, p) => Recordable(o)
  BY DEF Sound, Placed, Undisturbed, Wants, Recordable

\* A product is disturbed by orders that are on their way, and stays so.
LEMMA DisturbedStays ==
  ASSUME begun \subseteq begun', NEW p, Undisturbed(p)'
  PROVE  Undisturbed(p)
  BY SoundOrders DEF Undisturbed

\* Who does not want a product has no line of it.
LEMMA NothingWanted ==
  ASSUME NEW o \in Orders, NEW p, ~Wants(o, p)
  PROVE  Units(Items[o], p) = 0
  <1> DEFINE lines == Items[o]
             f == Counts(lines, p)
  <1>1. lines \in Seq(Line)
    BY ItemsAssumption
  <1>2. /\ DOMAIN lines = 1..Len(lines) /\ IsFiniteSet(1..Len(lines))
        /\ \A i \in 1..Len(lines) : f[i] = Wanted(lines[i], p)
        /\ Units(lines, p) = SumFunctionOnSet(f, 1..Len(lines))
    BY <1>1, CountsType
  <1>3. \A i \in 1..Len(lines) : f[i] = 0
    BY <1>2 DEF Wants, Wanted
  <1> HIDE DEF f, lines
  <1>4. SumFunctionOnSet(f, 1..Len(lines)) = 0
    BY <1>2, <1>3, SumOfNothing
  <1> QED
    BY <1>2, <1>4 DEF lines

StockInv == FinitelyMany /\ WorkShape /\ CancelOwed /\ Calm /\ StockAddsUp

LEMMA OrderUnitsType ==
  ASSUME NEW S, S \subseteq Orders, IsFiniteSet(S), NEW p
  PROVE  /\ UnitsOf(S, p) \in Nat
         /\ \A o \in Orders : Units(Items[o], p) \in Nat
         /\ \A o \in Orders : o \notin S => UnitsOf(S \union {o}, p) = UnitsOf(S, p) + Units(Items[o], p)
  <1> DEFINE f == [o \in Orders |-> Units(Items[o], p)]
  <1>1. \A o \in Orders : Units(Items[o], p) \in Nat /\ f[o] = Units(Items[o], p)
    BY ItemsAssumption, CountsType
  <1>2. \A T : UnitsOf(T, p) = SumFunctionOnSet(f, T)
    BY DEF UnitsOf
  <1> HIDE DEF f
  <1>3. \A x \in S : f[x] \in Nat
    BY <1>1
  <1>4. UnitsOf(S, p) \in Nat
    BY <1>2, <1>3, SumType
  <1>5. ASSUME NEW o \in Orders, o \notin S
        PROVE  UnitsOf(S \union {o}, p) = UnitsOf(S, p) + Units(Items[o], p)
    <2>1. \A y \in S \union {o} : f[y] \in Nat
      BY <1>1
    <2>2. SumFunctionOnSet(f, S \union {o}) = SumFunctionOnSet(f, S) + f[o]
      BY <1>5, <2>1, SumAdd
    <2> QED
      BY <1>1, <1>2, <2>2
  <1> QED
    BY <1>1, <1>4, <1>5

LEMMA HeldType ==
  ASSUME NEW a \in Attempts \union {Idle}, NEW p
  PROVE  Held(a, p) \in Nat /\ (a = Idle => Held(a, p) = 0)
  <1>1. CASE a = Idle
    BY <1>1 DEF Held, Idle
  <1>2. CASE a \in Attempts
    <2>1. a.done \in Seq(Line) /\ a.left \in Seq(Line) /\ Idle \notin Attempts
      BY <1>2 DEF Attempts, Idle, Phases
    <2>2. Units(a.done, p) \in Nat /\ Units(a.left, p) \in Nat
      BY <2>1, CountsType
    <2> QED
      BY <1>2, <2>1, <2>2 DEF Held
  <1> QED
    BY <1>1, <1>2

\* One attempt is replaced: what it held is replaced by what it holds now.
LEMMA HeldChange ==
  ASSUME TypeOK, IsFiniteSet(Busy), NEW r \in Replicas, NEW a \in Attempts \union {Idle},
         work' = [work EXCEPT ![r] = a]
  PROVE  /\ IsFiniteSet(Busy')
         /\ \A p : /\ InAttempts(p)' + Held(work[r], p) = InAttempts(p) + Held(a, p)
                  /\ InAttempts(p)' \in Nat
  <1>1. /\ work'[r] = a /\ \A s \in Replicas : s # r => work'[s] = work[s]
        /\ \A s \in Replicas : work[s] \in Attempts \union {Idle} /\ work'[s] \in Attempts \union {Idle}
    BY DEF TypeOK
  <1>2. Busy' \ {r} = Busy \ {r} /\ Busy \subseteq Replicas /\ Busy' \subseteq Replicas
        /\ (r \notin Busy => work[r] = Idle) /\ (r \notin Busy' => a = Idle)
    BY <1>1 DEF Busy
  <1>3. ASSUME NEW p
        PROVE  /\ IsFiniteSet(Busy') /\ InAttempts(p)' \in Nat
               /\ InAttempts(p)' + Held(work[r], p) = InAttempts(p) + Held(a, p)
    <2>0. PICK f, g : /\ f = [s \in Replicas |-> Held(work[s], p)]
                      /\ g = [s \in Replicas |-> Held(work'[s], p)]
      OBVIOUS
    <2>1. /\ \A s \in Replicas : f[s] = Held(work[s], p) /\ g[s] = Held(work'[s], p)
          /\ \A s \in Replicas : f[s] \in Nat /\ g[s] \in Nat
      BY <1>1, <2>0, HeldType
    <2>2. InAttempts(p) = SumFunctionOnSet(f, Busy) /\ InAttempts(p)' = SumFunctionOnSet(g, Busy')
      BY <2>0 DEF InAttempts, Held
    <2>3. /\ \A s \in Busy \ {r} : g[s] = f[s]
          /\ r \notin Busy => f[r] = 0
          /\ r \notin Busy' => g[r] = 0
          /\ f[r] = Held(work[r], p) /\ g[r] = Held(a, p)
      BY <1>1, <1>2, <2>1, HeldType
    <2>4. \A y \in Busy \union {r} : f[y] \in Nat
      BY <1>2, <2>1
    <2>5. \A y \in Busy' \union {r} : g[y] \in Nat
      BY <1>2, <2>1
    <2>6. PICK S, T : S = Busy /\ T = Busy'
      OBVIOUS
    <2>7. IsFiniteSet(S) /\ Differ(f, S, g, T, r)
      BY <1>2, <2>3, <2>4, <2>5, <2>6 DEF Differ
    <2>8. IsFiniteSet(T) /\ SumFunctionOnSet(g, T) + f[r] = SumFunctionOnSet(f, S) + g[r]
      BY <2>7, SumChange
    <2>9. SumFunctionOnSet(g, T) \in Nat
      BY <2>5, <2>6, <2>8, SumType
    <2> QED
      BY <2>2, <2>3, <2>6, <2>8, <2>9
  <1> QED
    BY <1>3

LEMMA AccountIs ==
  /\ \A p : Accounted(p) = available[p] + Reserved(p) + InAttempts(p)
  /\ \A p : Supply(p) = Initial[p] + SentBack(p)
  /\ \A p : Accounted(p)' = available'[p] + Reserved(p)' + InAttempts(p)'
  /\ \A p : Supply(p)' = Initial[p] + SentBack(p)'
  BY DEF Accounted, Supply, Reserved, SentBack, Standing, Returned, InAttempts, InHand, Held

LEMMA AccountType ==
  ASSUME TypeOK, FinitelyMany, NEW p \in Products
  PROVE  /\ available[p] \in Nat /\ Initial[p] \in Nat
         /\ Reserved(p) \in Nat /\ SentBack(p) \in Nat /\ InAttempts(p) \in Nat
  <1>1. available[p] \in Nat /\ Initial[p] \in Nat
    BY InitialAssumption DEF TypeOK
  <1>2. Standing \subseteq Orders /\ Standing \in SUBSET reservations /\ Returned \subseteq Orders
    BY DEF TypeOK, Standing, Returned
  <1>3. IsFiniteSet(Standing) /\ IsFiniteSet(Returned)
    BY <1>2, FS_Subset DEF FinitelyMany
  <1>4. Reserved(p) \in Nat /\ SentBack(p) \in Nat
    BY <1>2, <1>3, OrderUnitsType DEF Reserved, SentBack
  <1>5. InAttempts(p) \in Nat
    <2> DEFINE f == [s \in Replicas |-> Held(work[s], p)]
    <2>1. \A s \in Busy : f[s] \in Nat
      BY HeldType DEF TypeOK, Busy
    <2>2. InAttempts(p) = SumFunctionOnSet(f, Busy) /\ IsFiniteSet(Busy)
      BY DEF InAttempts, FinitelyMany
    <2> HIDE DEF f
    <2> QED
      BY <2>1, <2>2, SumType
  <1> QED
    BY <1>1, <1>4, <1>5

\* The account after a step of one attempt: the units move, or they are lost.
LEMMA Balanced ==
  ASSUME TypeOK, TypeOK', FinitelyMany, FinitelyMany', StockAddsUp,
         NEW r \in Replicas, NEW a \in Attempts \union {Idle}, work' = [work EXCEPT ![r] = a],
         CountedOnce' => CountedOnce /\ \A p \in Products :
            available'[p] + Held(a, p) + Reserved(p)' + SentBack(p)
              <= available[p] + Held(work[r], p) + Reserved(p) + SentBack(p)',
         begun \subseteq begun',
         trouble' = 0 => trouble = 0 /\ \A p \in Products : Undisturbed(p)' =>
            available'[p] + Held(a, p) + Reserved(p)' + SentBack(p)
              = available[p] + Held(work[r], p) + Reserved(p) + SentBack(p)'
  PROVE  StockAddsUp'
  <1> DEFINE A(p) == available[p] + Reserved(p) + InAttempts(p)
             Q(p) == Initial[p] + SentBack(p)
             B(p) == available'[p] + Reserved(p)' + InAttempts(p)'
             R(p) == Initial[p] + SentBack(p)'
  <1>1. \A p \in Products :
          /\ available[p] \in Nat /\ Initial[p] \in Nat
          /\ Reserved(p) \in Nat /\ SentBack(p) \in Nat /\ InAttempts(p) \in Nat
    BY AccountType
  <1>2. \A p \in Products :
          available'[p] \in Nat /\ Reserved(p)' \in Nat /\ SentBack(p)' \in Nat
            /\ InAttempts(p)' \in Nat
    <2>1. /\ Standing' \subseteq Orders /\ Standing' \in SUBSET reservations'
          /\ Returned' \subseteq Orders
      BY DEF TypeOK, Standing, Returned
    <2>2. IsFiniteSet(Standing') /\ IsFiniteSet(Returned')
      BY <2>1, FS_Subset DEF FinitelyMany
    <2>3. \A p \in Products : Reserved(p)' \in Nat /\ SentBack(p)' \in Nat
      BY <2>1, <2>2, OrderUnitsType DEF Reserved, SentBack, UnitsOf
    <2>4. \A p \in Products : available'[p] \in Nat
      BY DEF TypeOK
    <2>5. \A p \in Products : InAttempts(p)' \in Nat
      BY HeldChange DEF FinitelyMany
    <2> QED
      BY <2>3, <2>4, <2>5
  <1>3. \A p \in Products :
          /\ InAttempts(p)' + Held(work[r], p) = InAttempts(p) + Held(a, p)
          /\ Held(work[r], p) \in Nat /\ Held(a, p) \in Nat
    BY HeldChange, HeldType DEF FinitelyMany, TypeOK
  <1>4. (CountedOnce => \A p \in Products : A(p) <= Q(p))
        /\ (trouble = 0 => \A p \in Products : Undisturbed(p) => A(p) = Q(p))
    BY AccountIs DEF StockAddsUp, CountedOnce
  <1>5. CountedOnce' => \A p \in Products : B(p) <= R(p)
    BY <1>1, <1>2, <1>3, <1>4
  <1>6. trouble' = 0 => \A p \in Products : Undisturbed(p)' => B(p) = R(p)
    <2> SUFFICES ASSUME trouble' = 0, NEW p \in Products, Undisturbed(p)' PROVE B(p) = R(p)
      OBVIOUS
    <2>1. A(p) = Q(p)
      BY <1>4, DisturbedStays
    <2>2. available'[p] + Held(a, p) + Reserved(p)' + SentBack(p)
            = available[p] + Held(work[r], p) + Reserved(p) + SentBack(p)'
      OBVIOUS
    <2>3. PICK av, av2, rs, rs2, sb, sb2, ia, ia2, h, h2, i \in Nat :
            /\ av = available[p] /\ av2 = available'[p] /\ rs = Reserved(p) /\ rs2 = Reserved(p)'
            /\ sb = SentBack(p) /\ sb2 = SentBack(p)' /\ ia = InAttempts(p) /\ ia2 = InAttempts(p)'
            /\ h = Held(work[r], p) /\ h2 = Held(a, p) /\ i = Initial[p]
      BY <1>1, <1>2, <1>3
    <2>4. av + rs + ia = i + sb /\ ia2 + h = ia + h2 /\ av2 + h2 + rs2 + sb = av + h + rs + sb2
      BY <1>3, <2>1, <2>2, <2>3
    <2>5. av2 + rs2 + ia2 = i + sb2
      BY <2>4
    <2> QED
      BY <2>3, <2>5
  <1> QED
    BY <1>5, <1>6, AccountIs DEF StockAddsUp, CountedOnce

\* Only one attempt changes: the others are what they were.
LEMMA OthersStay ==
  ASSUME TypeOK, NEW r \in Replicas, NEW a \in Attempts \union {Idle},
         work' = [work EXCEPT ![r] = a]
  PROVE  /\ \A s \in Busy' : s # r => s \in Busy /\ work'[s] = work[s] /\ Order(s)' = Order(s)
         /\ r \in Busy' => a \in Attempts /\ work'[r] = a /\ Order(r)' = a.message[2]
  BY DEF TypeOK, Busy, Order

LEMMA ShapeKept ==
  ASSUME TypeOK, WorkShape, NEW r \in Replicas, NEW a \in Attempts \union {Idle},
         work' = [work EXCEPT ![r] = a], begun \subseteq begun',
         a \in Attempts =>
           /\ a.message \in begun'
           /\ a.phase \in {"reserve", "tell", "refuse", "fail"} => a.message = Placed(a.message[2])
           /\ a.phase = "reserve" => \A p \in Products :
                Units(a.done, p) + Units(a.left, p) = Units(Items[a.message[2]], p)
  PROVE  WorkShape'
  <1>1. /\ \A s \in Busy' : s # r => s \in Busy /\ work'[s] = work[s] /\ Order(s)' = Order(s)
        /\ r \in Busy' => a \in Attempts /\ work'[r] = a /\ Order(r)' = a.message[2]
    BY OthersStay
  <1> SUFFICES ASSUME NEW s \in Busy'
      PROVE /\ work'[s].message \in begun'
            /\ work'[s].phase \in {"reserve", "tell", "refuse", "fail"} =>
                 work'[s].message = Placed(Order(s)')
            /\ work'[s].phase = "reserve" => \A p \in Products :
                 Units(work'[s].done, p) + Units(work'[s].left, p) = Units(Items[Order(s)'], p)
    BY DEF WorkShape, Placed, Units
  <1>2. CASE s = r
    BY <1>1, <1>2
  <1>3. CASE s # r
    BY <1>1, <1>3 DEF WorkShape
  <1> QED
    BY <1>2, <1>3

\* No new cancellation is published, and what was told stays told.
LEMMA CancelOwedKept ==
  ASSUME CancelOwed, Published' \subseteq Published, \A o \in Orders : told[o] \subseteq told'[o]
  PROVE  CancelOwed'
  BY DEF CancelOwed, Cancelled

\* While all is calm: an order stays fresh unless its own attempt to reserve goes on
\* to its verdict.
LEMMA CalmKept ==
  ASSUME IInv, WorkShape, Calm, NEW r \in Busy, NEW a \in Attempts \union {Idle},
         work' = [work EXCEPT ![r] = a], begun' = begun,
         trouble' = 0 =>
           /\ trouble = 0 /\ \A m \in due' : m \in due \/ ~Sound(m)
           /\ a \in Attempts => a.message = work[r].message /\ a.phase # "fail"
           /\ a \in Attempts /\ a.phase = "reserve" => work[r].phase = "reserve"
           /\ \A o \in Orders :
                Fresh(o) => Fresh(o)' \/ (work[r].message = Placed(o) /\ a.phase # "reserve")
  PROVE  Calm'
  <1> SUFFICES ASSUME trouble' = 0
      PROVE /\ \A m \in due' \intersect begun' : ~Sound(m)
            /\ \A s, t \in Busy' : s # t /\ Sound(work'[s].message) =>
                 work'[s].message # work'[t].message
            /\ \A s \in Busy' :
                 /\ work'[s].phase # "fail"
                 /\ work'[s].phase = "reserve" /\ Recordable(Order(s)') => Fresh(Order(s))'
            /\ \A o \in Orders : Placed(o) \notin begun' => Fresh(o)'
    BY DEF Calm, Placed, Fresh, Sound, Recordable
  <1>0. r \in Replicas /\ TypeOK
    BY DEF Busy, IInv
  <1>1. /\ \A s \in Busy' : s # r => s \in Busy /\ work'[s] = work[s] /\ Order(s)' = Order(s)
        /\ r \in Busy' => a \in Attempts /\ work'[r] = a /\ Order(r)' = a.message[2]
    BY <1>0, OthersStay
  <1>2. /\ \A m \in due \intersect begun : ~Sound(m)
        /\ \A s, t \in Busy : s # t /\ Sound(work[s].message) => work[s].message # work[t].message
        /\ \A s \in Busy :
             /\ work[s].phase # "fail"
             /\ work[s].phase = "reserve" /\ Recordable(Order(s)) => Fresh(Order(s))
        /\ \A o \in Orders : Placed(o) \notin begun => Fresh(o)
    BY DEF Calm
  <1>3. \A s \in Busy' : s \in Busy /\ work'[s].message = work[s].message
    BY <1>1
  <1>4. \A s \in Busy : work[s].message \in begun /\ Order(s) \in Orders
                        /\ (work[s].phase = "reserve" => work[s].message = Placed(Order(s)))
    BY <1>0, OrderType DEF WorkShape
  <1>5. ASSUME NEW s \in Busy'
        PROVE  /\ work'[s].phase # "fail"
               /\ work'[s].phase = "reserve" /\ Recordable(Order(s)') => Fresh(Order(s))'
    <2>1. CASE s = r
      <3>1. a \in Attempts /\ work'[r] = a /\ Order(r)' = Order(r) /\ a.phase # "fail"
        BY <1>1, <2>1 DEF Order
      <3>2. a.phase = "reserve" /\ Recordable(Order(r)) => Fresh(Order(r)) /\ Fresh(Order(r))'
        BY <1>2, <1>4, <3>1 DEF Fresh
      <3> QED
        BY <2>1, <3>1, <3>2
    <2>2. CASE s # r
      <3>1. s \in Busy /\ work'[s] = work[s] /\ Order(s)' = Order(s)
        BY <1>1, <2>2
      <3>2. work[s].phase = "reserve" /\ Recordable(Order(s)) =>
              Fresh(Order(s)) /\ work[r].message # Placed(Order(s))
        BY <1>2, <1>4, <2>2, <3>1, SoundOrders
      <3>3. work[s].phase = "reserve" /\ Recordable(Order(s)) => Fresh(Order(s))'
        BY <1>4, <3>1, <3>2 DEF Fresh
      <3> QED
        BY <1>2, <3>1, <3>3
    <2> QED
      BY <2>1, <2>2
  <1>6. \A o \in Orders : Placed(o) \notin begun' => Fresh(o)'
    BY <1>2, <1>4
  <1>7. /\ \A m \in due' \intersect begun' : ~Sound(m)
        /\ \A s, t \in Busy' : s # t /\ Sound(work'[s].message) =>
             work'[s].message # work'[t].message
    BY <1>2, <1>3
  <1> QED
    BY <1>5, <1>6, <1>7

\* A step of an attempt under way: its units move, or are lost; the messages that
\* were handed out stay the same.
LEMMA AttemptStep ==
  ASSUME IInv, IInv', StockInv, NEW r \in Busy, NEW a \in Attempts \union {Idle},
         work' = [work EXCEPT ![r] = a], UNCHANGED <<begun, repeated>>,
         due' \subseteq due \union {work[r].message},
         a \in Attempts =>
           /\ a.message = work[r].message
           /\ a.phase \in {"reserve", "tell", "refuse", "fail"} =>
                work[r].phase \in {"reserve", "tell", "refuse", "fail"}
           /\ a.phase = "reserve" => work[r].phase = "reserve" /\ \A p \in Products :
                Units(a.done, p) + Units(a.left, p) = Units(work[r].done, p) + Units(work[r].left, p),
         \A o \in Orders : told[o] \subseteq told'[o],
         reservations' \subseteq reservations \union {Order(r)},
         \A p \in Products :
           available'[p] + Held(a, p) + Reserved(p)'
             <= available[p] + Held(work[r], p) + Reserved(p),
         trouble' = 0 =>
           /\ trouble = 0 /\ \A m \in due' : m \in due \/ ~Sound(m)
           /\ a \in Attempts => a.phase # "fail"
           /\ \A o \in Orders :
                Fresh(o) => Fresh(o)' \/ (work[r].message = Placed(o) /\ a.phase # "reserve")
           /\ \A p \in Products : Undisturbed(p) =>
                available'[p] + Held(a, p) + Reserved(p)'
                  = available[p] + Held(work[r], p) + Reserved(p)
  PROVE  StockInv'
  <1>0. TypeOK /\ TypeOK' /\ r \in Replicas /\ FinitelyMany
    BY DEF IInv, StockInv, Busy
  <1>1. WorkShape'
    <2>1. work[r].message \in begun /\ work[r].message[2] = Order(r)
          /\ (work[r].phase \in {"reserve", "tell", "refuse", "fail"} =>
                work[r].message = Placed(Order(r)))
          /\ (work[r].phase = "reserve" => \A p \in Products :
                Units(work[r].done, p) + Units(work[r].left, p) = Units(Items[Order(r)], p))
      BY DEF StockInv, WorkShape, Order
    <2> QED
      BY <1>0, <2>1, ShapeKept DEF StockInv
  <1>2. CancelOwed'
    <2>1. Published' \subseteq Published
      BY DEF Published, StockInv, WorkShape
    <2> QED
      BY <2>1, CancelOwedKept DEF StockInv
  <1>3. Calm'
    BY CalmKept DEF StockInv
  <1>4. FinitelyMany'
    <2>1. IsFiniteSet(Busy')
      BY <1>0, HeldChange DEF FinitelyMany
    <2>2. IsFiniteSet(reservations \union {Order(r)})
      BY <1>0, FS_AddElement DEF FinitelyMany
    <2>3. IsFiniteSet(reservations')
      BY <2>2, FS_Subset
    <2>4. Returned' = Returned
      BY DEF Returned, ReturnRequested
    <2> QED
      BY <1>0, <2>1, <2>3, <2>4 DEF FinitelyMany
  <1>5. StockAddsUp'
    <2>1. \A p : SentBack(p)' = SentBack(p)
      BY DEF SentBack, Returned, ReturnRequested, UnitsOf, Units
    <2>2. \A p \in Products :
            /\ available[p] \in Nat /\ available'[p] \in Nat /\ SentBack(p) \in Nat
            /\ Reserved(p) \in Nat /\ Reserved(p)' \in Nat
            /\ Held(a, p) \in Nat /\ Held(work[r], p) \in Nat
      <3>1. Standing' \subseteq Orders /\ Standing' \in SUBSET reservations'
        BY <1>0 DEF TypeOK, Standing
      <3>2. IsFiniteSet(Standing')
        BY <1>4, <3>1, FS_Subset DEF FinitelyMany
      <3>3. \A p \in Products : Reserved(p)' \in Nat
        BY <3>1, <3>2, OrderUnitsType DEF Reserved, UnitsOf
      <3>4. \A p \in Products : available'[p] \in Nat
        BY <1>0 DEF TypeOK
      <3>5. \A p \in Products : Held(a, p) \in Nat /\ Held(work[r], p) \in Nat
        BY <1>0, HeldType DEF TypeOK
      <3> QED
        BY <1>0, <3>3, <3>4, <3>5, AccountType
    <2>3. CountedOnce' => CountedOnce
      BY DEF CountedOnce, Once
    <2>4. \A p \in Products :
            available'[p] + Held(a, p) + Reserved(p)' + SentBack(p)
              <= available[p] + Held(work[r], p) + Reserved(p) + SentBack(p)'
      BY <2>1, <2>2
    <2>5. trouble' = 0 => \A p \in Products : Undisturbed(p)' =>
            available'[p] + Held(a, p) + Reserved(p)' + SentBack(p)
              = available[p] + Held(work[r], p) + Reserved(p) + SentBack(p)'
      BY <2>1, <2>2, DisturbedStays
    <2> QED
      BY <1>0, <1>4, <2>3, <2>4, <2>5, Balanced DEF StockInv
  <1> QED
    BY <1>1, <1>2, <1>3, <1>4, <1>5 DEF StockInv

\* At first there is the seeded stock and nothing else.
LEMMA InitStock == Init => StockInv
  <1> SUFFICES ASSUME Init PROVE StockInv
    OBVIOUS
  <1>1. Busy = {} /\ reservations = {} /\ Standing = {} /\ Returned = {} /\ Published = {}
    BY DEF Init, Busy, Standing, Returned, Published
  <1>2. FinitelyMany
    BY <1>1, FS_EmptySet DEF FinitelyMany
  <1>3. WorkShape
    BY <1>1 DEF WorkShape
  <1>4. CancelOwed
    BY <1>1 DEF CancelOwed
  <1>5. Calm
    BY <1>1 DEF Calm, Fresh, Init
  <1>6. ASSUME NEW p \in Products PROVE Accounted(p) = Supply(p)
    <2>1. Reserved(p) = 0 /\ SentBack(p) = 0 /\ InAttempts(p) = 0
      BY <1>1, SumEmpty DEF Reserved, SentBack, InAttempts, UnitsOf
    <2>2. available[p] = Initial[p] /\ Initial[p] \in Nat
      BY InitialAssumption DEF Init
    <2>3. Accounted(p) = available[p] + Reserved(p) + InAttempts(p)
          /\ Supply(p) = Initial[p] + SentBack(p)
      BY AccountIs
    <2> QED
      BY <2>1, <2>2, <2>3
  <1>7. \A p \in Products : Supply(p) \in Nat
    <2> SUFFICES ASSUME NEW p \in Products PROVE Supply(p) \in Nat
      OBVIOUS
    <2>1. SentBack(p) = 0
      BY <1>1, SumEmpty DEF SentBack, UnitsOf
    <2>2. Supply(p) = Initial[p] + SentBack(p)
      BY AccountIs
    <2> QED
      BY <2>1, <2>2, InitialAssumption
  <1>8. StockAddsUp
    BY <1>6, <1>7 DEF StockAddsUp
  <1> QED
    BY <1>2, <1>3, <1>4, <1>5, <1>8 DEF StockInv

\* Nothing moves when stock, records, attempts and handed-out messages stay.
LEMMA NothingMoves ==
  ASSUME StockAddsUp, UNCHANGED <<available, reservations, work, begun, repeated>>,
         trouble' = 0 => trouble = 0
  PROVE  StockAddsUp'
  <1>1. Busy' = Busy /\ Standing' = Standing /\ Returned' = Returned
    BY DEF Busy, Standing, Returned, Cancelled, ReturnRequested
  <1>2. \A p : /\ Reserved(p)' = Reserved(p) /\ SentBack(p)' = SentBack(p)
               /\ InAttempts(p)' = InAttempts(p)
    BY <1>1 DEF Reserved, SentBack, InAttempts, UnitsOf, Units, Held
  <1>3. \A p : Accounted(p)' = Accounted(p) /\ Supply(p)' = Supply(p)
    BY <1>2, AccountIs
  <1>4. CountedOnce' <=> CountedOnce
    BY DEF CountedOnce, Once
  <1>5. \A p : Undisturbed(p)' => Undisturbed(p)
    BY DisturbedStays
  <1> QED
    BY <1>3, <1>4, <1>5 DEF StockAddsUp, CountedOnce

\* A new message is none that was handed out; a cancellation follows a verdict.
LEMMA PublishStock ==
  ASSUME IInv, StockInv, NEW m \in Messages, Publish(m),
         \A o \in Orders : m = Cancelled(o) => told[o] \intersect Verdicts # {}
  PROVE  StockInv'
  <1>1. /\ m \notin due /\ m \notin begun /\ due' = due \union {m}
        /\ UNCHANGED <<available, reservations, told, seen, work, begun, repeated, trouble>>
    BY DEF Publish, Published
  <1>2. Busy' = Busy /\ Standing' = Standing /\ Returned' = Returned
    BY <1>1 DEF Busy, Standing, Returned, Cancelled, ReturnRequested
  <1>3. FinitelyMany'
    BY <1>1, <1>2 DEF StockInv, FinitelyMany
  <1>4. WorkShape'
    BY <1>1, <1>2 DEF StockInv, WorkShape, Order, Placed, Units
  <1>5. CancelOwed'
    BY <1>1 DEF StockInv, CancelOwed, Published, Cancelled
  <1>6. Calm'
    BY <1>1, <1>2 DEF StockInv, Calm, Fresh, Order, Placed, Sound, Recordable
  <1>7. StockAddsUp'
    BY <1>1, NothingMoves DEF StockInv
  <1> QED
    BY <1>3, <1>4, <1>5, <1>6, <1>7 DEF StockInv

\* An attempt begins with what the message entitles it to; when all is calm it is
\* the message's only one.
LEMMA DeliverStock ==
  ASSUME IInv, IInv', StockInv, NEW r \in Replicas, NEW m \in Messages, Deliver(r, m),
         NEW a \in Attempts \union {Idle}, work' = [work EXCEPT ![r] = a],
         a \in Attempts =>
           /\ a.message = m
           /\ a.phase \notin {"tell", "refuse", "fail"}
           /\ a.phase = "reserve" => m = Placed(m[2]) /\ \A p \in Products :
                Units(a.done, p) + Units(a.left, p) = Units(Items[m[2]], p),
         CountedOnce' \/ m \notin begun \/ ~Sound(m) => \A p \in Products :
           Held(a, p) + Reserved(p)' + SentBack(p) = Reserved(p) + SentBack(p)'
  PROVE  StockInv'
  <1>0. TypeOK /\ TypeOK' /\ FinitelyMany
    BY DEF IInv, StockInv
  <1>1. /\ begun' = begun \union {m} /\ due' = due \ {m}
        /\ (m \in due \/ m \in begun) /\ repeated \subseteq repeated'
        /\ UNCHANGED <<available, reservations, told>>
    BY DEF Deliver
  <1>2. trouble' = 0 => trouble = 0 /\ m \in due /\ (Sound(m) => m \notin begun)
    BY <1>0 DEF Deliver, Trouble, TypeOK, StockInv, Calm
  <1>3. /\ \A s \in Busy' : s # r => s \in Busy /\ work'[s] = work[s] /\ Order(s)' = Order(s)
        /\ r \in Busy' => a \in Attempts /\ work'[r] = a /\ Order(r)' = a.message[2]
    BY <1>0, OthersStay
  <1>4. FinitelyMany'
    <2>1. IsFiniteSet(Busy') /\ IsFiniteSet(reservations')
      BY <1>0, <1>1, HeldChange DEF FinitelyMany
    <2>2. IsFiniteSet(Returned \union {m[2]})
      BY <1>0, FS_AddElement DEF FinitelyMany
    <2>3. Returned' \subseteq Returned \union {m[2]}
      BY <1>1 DEF Returned, ReturnRequested
    <2>4. IsFiniteSet(Returned')
      BY <2>2, <2>3, FS_Subset
    <2> QED
      BY <2>1, <2>4 DEF FinitelyMany
  <1>5. WorkShape'
    BY <1>0, <1>1, ShapeKept DEF StockInv
  <1>6. CancelOwed'
    BY <1>1, CancelOwedKept DEF StockInv, Published
  <1>7. Calm'
    <2> SUFFICES ASSUME trouble' = 0
        PROVE /\ \A x \in due' \intersect begun' : ~Sound(x)
              /\ \A s, t \in Busy' : s # t /\ Sound(work'[s].message) =>
                   work'[s].message # work'[t].message
              /\ \A s \in Busy' :
                   /\ work'[s].phase # "fail"
                   /\ work'[s].phase = "reserve" /\ Recordable(Order(s)') => Fresh(Order(s))'
              /\ \A o \in Orders : Placed(o) \notin begun' => Fresh(o)'
      BY DEF Calm, Placed, Fresh, Sound, Recordable
    <2>1. /\ \A x \in due \intersect begun : ~Sound(x)
          /\ \A s, t \in Busy : s # t /\ Sound(work[s].message) =>
               work[s].message # work[t].message
          /\ \A s \in Busy :
               /\ work[s].phase # "fail"
               /\ work[s].phase = "reserve" /\ Recordable(Order(s)) => Fresh(Order(s))
          /\ \A o \in Orders : Placed(o) \notin begun => Fresh(o)
      BY <1>2 DEF StockInv, Calm
    <2>2. \A x \in due' \intersect begun' : ~Sound(x)
      BY <1>1, <2>1
    <2>3. \A s \in Busy : work[s].message \in begun
      BY DEF StockInv, WorkShape
    <2>4. \A s, t \in Busy' : s # t /\ Sound(work'[s].message) =>
            work'[s].message # work'[t].message
      BY <1>2, <1>3, <2>1, <2>3
    <2>5. \A o \in Orders : Fresh(o) => Fresh(o)'
      BY <1>1 DEF Fresh
    <2>6. \A s \in Busy : Order(s) \in Orders
      BY <1>0, OrderType
    <2>7. m[2] \in Orders
      BY DEF Messages
    <2>8. ASSUME NEW s \in Busy'
          PROVE  /\ work'[s].phase # "fail"
                 /\ work'[s].phase = "reserve" /\ Recordable(Order(s)') => Fresh(Order(s))'
      <3>1. CASE s = r
        <4>1. a \in Attempts /\ work'[s] = a /\ Order(s)' = m[2] /\ a.phase # "fail"
          BY <1>3, <3>1
        <4>2. a.phase = "reserve" /\ Recordable(m[2]) => Fresh(m[2])'
          BY <1>2, <2>1, <2>5, <2>7, <4>1, SoundOrders
        <4> QED
          BY <4>1, <4>2 DEF Fresh
      <3>2. CASE s # r
        <4>1. s \in Busy /\ work'[s] = work[s] /\ Order(s)' = Order(s)
          BY <1>3, <3>2
        <4> QED
          BY <2>1, <2>5, <2>6, <4>1 DEF Fresh
      <3> QED
        BY <3>1, <3>2
    <2>9. \A o \in Orders : Placed(o) \notin begun' => Fresh(o)'
      BY <1>1, <2>1, <2>5
    <2> QED
      BY <2>2, <2>4, <2>8, <2>9
  <1>8. StockAddsUp'
    <2>1. CountedOnce' => CountedOnce
      BY <1>1 DEF CountedOnce, Once
    <2>2. \A p \in Products :
            /\ available'[p] = available[p] /\ available[p] \in Nat /\ Held(work[r], p) = 0
            /\ Reserved(p) \in Nat /\ SentBack(p) \in Nat /\ Held(a, p) \in Nat
      BY <1>0, <1>1, AccountType, HeldType DEF Deliver
    <2>3. \A p \in Products : Reserved(p)' \in Nat /\ SentBack(p)' \in Nat
      <3>1. /\ Standing' \subseteq Orders /\ Standing' \in SUBSET reservations'
            /\ Returned' \subseteq Orders
        BY <1>0 DEF TypeOK, Standing, Returned
      <3>2. IsFiniteSet(Standing') /\ IsFiniteSet(Returned')
        BY <1>4, <3>1, FS_Subset DEF FinitelyMany
      <3> QED
        BY <3>1, <3>2, OrderUnitsType DEF Reserved, SentBack, UnitsOf
    <2>4. CountedOnce' \/ m \notin begun \/ ~Sound(m) => \A p \in Products :
            available'[p] + Held(a, p) + Reserved(p)' + SentBack(p)
              = available[p] + Held(work[r], p) + Reserved(p) + SentBack(p)'
      BY <2>2, <2>3
    <2>5. CountedOnce' => \A p \in Products :
            available'[p] + Held(a, p) + Reserved(p)' + SentBack(p)
              <= available[p] + Held(work[r], p) + Reserved(p) + SentBack(p)'
      BY <2>2, <2>3, <2>4
    <2> QED
      BY <1>0, <1>1, <1>2, <1>4, <2>1, <2>4, <2>5, Balanced DEF StockInv
  <1> QED
    BY <1>4, <1>5, <1>6, <1>7, <1>8 DEF StockInv

\* The three handlers: nothing is held yet of a placed order; a cancellation moves
\* what stands reserved, a return what comes in, to the attempt.
LEMMA HandlersStock ==
  ASSUME IInv, StockInv, NEW r \in Replicas, NEW o \in Orders,
         OnOrderPlaced(r, o) \/ OnOrderCancelled(r, o) \/ OnReturnRequested(r, o)
  PROVE  StockInv'
  <1>0. IInv' /\ TypeOK /\ FinitelyMany
    BY HandlersInv DEF IInv, StockInv
  <1>1. Items[o] \in Seq(Line) /\ \A p : Units(Items[o], p) \in Nat
    BY ItemsAssumption, CountsType
  <1>2. Standing \subseteq Orders /\ Returned \subseteq Orders
        /\ IsFiniteSet(Standing) /\ IsFiniteSet(Returned)
    <2>1. Standing \subseteq Orders /\ Standing \in SUBSET reservations /\ Returned \subseteq Orders
      BY <1>0 DEF TypeOK, Standing, Returned
    <2> QED
      BY <1>0, <2>1, FS_Subset DEF FinitelyMany
  <1>3. \A p \in Products : Reserved(p) \in Nat /\ SentBack(p) \in Nat
    BY <1>0, AccountType
  <1>4. CASE OnOrderPlaced(r, o)
    <2> DEFINE a == IF o \in seen[r] THEN Idle ELSE Attempt("reserve", Placed(o), Items[o])
    <2>1. a \in Attempts \union {Idle} /\ (a \in Attempts => a.message = Placed(o)
            /\ a.phase = "reserve" /\ a.left = Items[o] /\ a.done = <<>>)
      BY <1>1, AttemptType, MessageTypes, "reserve" \in Phases DEF Idle, Phases, Attempts, Attempt
    <2>2. Deliver(r, Placed(o)) /\ work' = [work EXCEPT ![r] = a]
      BY <1>4 DEF OnOrderPlaced
    <2> HIDE DEF a
    <2>3. \A p : Held(a, p) = 0
      BY <2>1, UnitsEmpty, HeldType DEF Held
    <2>4. begun' = begun \union {Placed(o)} /\ reservations' = reservations
      BY <2>2 DEF Deliver
    <2>5. Standing' = Standing /\ Returned' = Returned
      BY <2>4 DEF Standing, Returned, Placed, Cancelled, ReturnRequested
    <2>6. \A p \in Products :
            Held(a, p) + Reserved(p)' + SentBack(p) = Reserved(p) + SentBack(p)'
      <3> SUFFICES ASSUME NEW p \in Products
                   PROVE  Held(a, p) + Reserved(p)' + SentBack(p) = Reserved(p) + SentBack(p)'
        OBVIOUS
      <3>1. SentBack(p)' = SentBack(p) /\ Reserved(p)' = Reserved(p)
        BY <2>5 DEF Reserved, SentBack, UnitsOf, Units
      <3>2. Held(a, p) = 0 /\ Reserved(p) \in Nat /\ SentBack(p) \in Nat
        BY <1>3, <2>3
      <3>3. PICK h, x, y \in Nat : h = Held(a, p) /\ x = Reserved(p) /\ y = SentBack(p)
        BY <3>2
      <3>4. h + x + y = x + y
        BY <3>2, <3>3
      <3> QED
        BY <3>1, <3>3, <3>4
    <2>7. \A p \in Products : a \in Attempts =>
            Units(a.done, p) + Units(a.left, p) = Units(Items[o], p)
      BY <1>1, <2>1, UnitsEmpty
    <2>8. Placed(o) \in Messages /\ Placed(o)[2] = o
      BY MessageTypes
    <2> QED
      BY <1>0, <2>1, <2>2, <2>6, <2>7, <2>8, DeliverStock
  <1>5. CASE OnOrderCancelled(r, o)
    <2> DEFINE a == IF o \in reservations
                    THEN Attempt("release", Cancelled(o), Items[o]) ELSE Idle
    <2>1. /\ a \in Attempts \union {Idle}
          /\ a \in Attempts => a.message = Cancelled(o) /\ a.phase = "release"
          /\ IF o \in reservations THEN a.left = Items[o] /\ a.phase = "release" ELSE a = Idle
      BY <1>1, AttemptType, MessageTypes, "release" \in Phases DEF Idle, Phases, Attempts, Attempt
    <2>2. Deliver(r, Cancelled(o)) /\ work' = [work EXCEPT ![r] = a]
      BY <1>5 DEF OnOrderCancelled
    <2> HIDE DEF a
    <2>3. \A p : Held(a, p) = IF o \in reservations THEN Units(Items[o], p) ELSE 0
      BY <2>1, HeldType DEF Held
    <2>4. begun' = begun \union {Cancelled(o)} /\ reservations' = reservations
          /\ (Cancelled(o) \in begun => Cancelled(o) \in repeated')
      BY <2>2 DEF Deliver
    <2>5. Standing' = Standing \ {o} /\ Returned' = Returned
      BY <2>4 DEF Standing, Returned, Cancelled, ReturnRequested
    <2>6. CountedOnce' => Cancelled(o) \notin begun
      BY <2>4 DEF CountedOnce, Once, Cancelled
    <2>7. Cancelled(o) \notin begun => \A p \in Products :
            Held(a, p) + Reserved(p)' + SentBack(p) = Reserved(p) + SentBack(p)'
      <3> SUFFICES ASSUME Cancelled(o) \notin begun, NEW p \in Products
                   PROVE  Held(a, p) + Reserved(p)' + SentBack(p) = Reserved(p) + SentBack(p)'
        OBVIOUS
      <3>1. SentBack(p)' = SentBack(p) /\ Reserved(p) = UnitsOf(Standing, p)
            /\ Reserved(p)' = UnitsOf(Standing \ {o}, p)
        BY <2>5 DEF SentBack, Reserved, UnitsOf, Units
      <3>2. CASE o \in reservations
        <4>1. o \in Standing
          BY <3>2 DEF Standing
        <4>2. PICK S : S = Standing \ {o}
          OBVIOUS
        <4>3. S \subseteq Orders /\ IsFiniteSet(S) /\ o \notin S /\ S \union {o} = Standing
          BY <1>2, <4>1, <4>2, FS_Subset
        <4>4. UnitsOf(S \union {o}, p) = UnitsOf(S, p) + Units(Items[o], p) /\ UnitsOf(S, p) \in Nat
          BY <4>3, OrderUnitsType
        <4>5. PICK h, x, y \in Nat : h = Units(Items[o], p) /\ x = UnitsOf(S, p) /\ y = SentBack(p)
          BY <1>1, <1>3, <4>4
        <4>6. /\ Held(a, p) = h /\ Reserved(p)' = x /\ SentBack(p)' = y /\ SentBack(p) = y
              /\ Reserved(p) = x + h
          BY <2>3, <3>1, <3>2, <4>2, <4>3, <4>4, <4>5
        <4>7. h + x + y = (x + h) + y
          OBVIOUS
        <4> QED
          BY <4>6, <4>7
      <3>3. CASE o \notin reservations
        <4>1. Standing \ {o} = Standing
          BY <3>3 DEF Standing
        <4>2. PICK x, y \in Nat : x = Reserved(p) /\ y = SentBack(p)
          BY <1>3
        <4>3. Held(a, p) = 0 /\ Reserved(p)' = x /\ SentBack(p)' = y
          BY <2>3, <3>1, <3>3, <4>1, <4>2
        <4>4. 0 + x + y = x + y
          OBVIOUS
        <4> QED
          BY <4>2, <4>3, <4>4
      <3> QED
        BY <3>2, <3>3
    <2>8. Cancelled(o) \in Messages /\ Sound(Cancelled(o))
      BY MessageTypes DEF Sound, Cancelled
    <2> QED
      BY <1>0, <2>1, <2>2, <2>6, <2>7, <2>8, DeliverStock
  <1>6. CASE OnReturnRequested(r, o)
    <2> DEFINE a == Attempt("restock", ReturnRequested(o), Items[o])
    <2>1. /\ a \in Attempts /\ a.message = ReturnRequested(o) /\ a.phase = "restock"
          /\ a.left = Items[o]
      BY <1>1, AttemptType, MessageTypes, "restock" \in Phases DEF Phases
    <2>2. Deliver(r, ReturnRequested(o)) /\ work' = [work EXCEPT ![r] = a]
      BY <1>6 DEF OnReturnRequested
    <2> HIDE DEF a
    <2>3. \A p : Held(a, p) = Units(Items[o], p)
      BY <2>1 DEF Held
    <2>4. begun' = begun \union {ReturnRequested(o)} /\ reservations' = reservations
          /\ (ReturnRequested(o) \in begun => ReturnRequested(o) \in repeated')
      BY <2>2 DEF Deliver
    <2>5. Standing' = Standing /\ Returned' = Returned \union {o}
      BY <2>4 DEF Standing, Returned, Cancelled, ReturnRequested
    <2>6. CountedOnce' => ReturnRequested(o) \notin begun
      BY <2>4 DEF CountedOnce, Once, ReturnRequested
    <2>7. ReturnRequested(o) \notin begun => \A p \in Products :
            Held(a, p) + Reserved(p)' + SentBack(p) = Reserved(p) + SentBack(p)'
      <3> SUFFICES ASSUME ReturnRequested(o) \notin begun, NEW p \in Products
                   PROVE  Held(a, p) + Reserved(p)' + SentBack(p) = Reserved(p) + SentBack(p)'
        OBVIOUS
      <3>1. SentBack(p)' = UnitsOf(Returned \union {o}, p) /\ SentBack(p) = UnitsOf(Returned, p)
            /\ Reserved(p)' = Reserved(p)
        BY <2>5 DEF SentBack, Reserved, UnitsOf, Units
      <3>2. o \notin Returned
        BY DEF Returned
      <3>3. UnitsOf(Returned \union {o}, p) = UnitsOf(Returned, p) + Units(Items[o], p)
        BY <1>2, <3>2, OrderUnitsType
      <3> QED
        BY <1>1, <1>3, <2>3, <3>1, <3>3
    <2>8. ReturnRequested(o) \in Messages /\ Sound(ReturnRequested(o))
      BY MessageTypes DEF Sound, ReturnRequested
    <2> QED
      BY <1>0, <2>1, <2>2, <2>6, <2>7, <2>8, DeliverStock
  <1> QED
    BY <1>4, <1>5, <1>6

\* The fields of an attempt under way.
LEMMA AttemptFields ==
  ASSUME TypeOK, NEW r \in Busy
  PROVE  /\ r \in Replicas /\ work[r] \in Attempts /\ Idle \notin Attempts
         /\ work[r].done \in Seq(Line) /\ work[r].left \in Seq(Line)
         /\ work[r].message \in Messages /\ work[r].phase \in Phases
         /\ Order(r) \in Orders /\ work[r].message[2] = Order(r)
         /\ \A p : Units(work[r].done, p) \in Nat /\ Units(work[r].left, p) \in Nat
  <1>1. r \in Replicas /\ work[r] \in Attempts /\ Idle \notin Attempts
    BY BusyType DEF Busy, Idle, Attempts, Phases
  <1>2. /\ work[r].done \in Seq(Line) /\ work[r].left \in Seq(Line)
        /\ work[r].message \in Messages /\ work[r].phase \in Phases
    BY <1>1 DEF Attempts
  <1> QED
    BY <1>1, <1>2, OrderType, CountsType DEF Order

\* A step of an attempt that changes no record and publishes nothing.
LEMMA QuietStep ==
  ASSUME IInv, IInv', StockInv, NEW r \in Busy, NEW a \in Attempts \union {Idle},
         work' = [work EXCEPT ![r] = a], UNCHANGED <<begun, repeated, reservations, told>>,
         due' \subseteq due \union {work[r].message},
         a \in Attempts =>
           /\ a.message = work[r].message
           /\ a.phase \in {"reserve", "tell", "refuse", "fail"} =>
                work[r].phase \in {"reserve", "tell", "refuse", "fail"}
           /\ a.phase = "reserve" => work[r].phase = "reserve" /\ \A p \in Products :
                Units(a.done, p) + Units(a.left, p) = Units(work[r].done, p) + Units(work[r].left, p),
         \A p \in Products : available'[p] + Held(a, p) <= available[p] + Held(work[r], p),
         trouble' = 0 =>
           /\ trouble = 0 /\ \A m \in due' : m \in due \/ ~Sound(m)
           /\ a \in Attempts => a.phase # "fail"
           /\ \A p \in Products : Undisturbed(p) =>
                available'[p] + Held(a, p) = available[p] + Held(work[r], p)
  PROVE  StockInv'
  <1>1. \A p : Reserved(p)' = Reserved(p)
    BY DEF Reserved, Standing, UnitsOf, Units, Cancelled
  <1>2. \A o \in Orders : told[o] \subseteq told'[o] /\ (Fresh(o) => Fresh(o)')
    BY DEF Fresh
  <1>3. \A p \in Products :
          /\ available[p] \in Nat /\ available'[p] \in Nat /\ Reserved(p) \in Nat
          /\ Held(a, p) \in Nat /\ Held(work[r], p) \in Nat
    <2>1. TypeOK /\ TypeOK' /\ FinitelyMany /\ work[r] \in Attempts
      BY AttemptFields DEF IInv, StockInv
    <2>2. \A p \in Products : available'[p] \in Nat
      BY <2>1 DEF TypeOK
    <2> QED
      BY <2>1, <2>2, AccountType, HeldType
  <1>4. \A p \in Products :
          available'[p] + Held(a, p) + Reserved(p)'
            <= available[p] + Held(work[r], p) + Reserved(p)
    BY <1>1, <1>3
  <1>5. trouble' = 0 => \A p \in Products : Undisturbed(p) =>
          available'[p] + Held(a, p) + Reserved(p)'
            = available[p] + Held(work[r], p) + Reserved(p)
    BY <1>1, <1>3
  <1> QED
    BY <1>2, <1>4, <1>5, AttemptStep

\* Locking a row moves nothing.
LEMMA SelectStock ==
  ASSUME IInv, StockInv, NEW r \in Replicas, Select(r)
  PROVE  StockInv'
  <1>0. IInv' /\ TypeOK /\ r \in Busy /\ Updating(r)
    BY SelectInv DEF IInv, Select, Updating
  <1>1. work[r] \in Attempts /\ work[r].phase \in Phases
        /\ \A p : Units(work[r].done, p) \in Nat /\ Units(work[r].left, p) \in Nat
    BY <1>0, AttemptFields
  <1>2. available[Current(r).product] \in Nat
    BY <1>0, LineType DEF TypeOK, Line
  <1>3. PICK a \in Attempts : a = [work[r] EXCEPT !.read = available[Current(r).product]]
    BY <1>1, <1>2 DEF Attempts
  <1>4. a.phase = work[r].phase /\ a.left = work[r].left /\ a.done = work[r].done
        /\ a.message = work[r].message
    BY <1>1, <1>3 DEF Attempts
  <1>5. work' = [work EXCEPT ![r] = a]
        /\ UNCHANGED <<available, reservations, told, seen, due, tries, begun, repeated, trouble>>
    BY <1>3 DEF Select
  <1>6. \A p : Held(a, p) = Held(work[r], p) /\ Held(a, p) \in Nat
    BY <1>1, <1>4, HeldType DEF Held
  <1>7. \A p \in Products :
          /\ available'[p] + Held(a, p) = available[p] + Held(work[r], p)
          /\ available'[p] + Held(a, p) <= available[p] + Held(work[r], p)
    <2> SUFFICES ASSUME NEW p \in Products
        PROVE /\ available'[p] + Held(a, p) = available[p] + Held(work[r], p)
              /\ available'[p] + Held(a, p) <= available[p] + Held(work[r], p)
      OBVIOUS
    <2>1. available[p] \in Nat /\ Held(a, p) \in Nat /\ available'[p] = available[p]
          /\ Held(a, p) = Held(work[r], p)
      BY <1>0, <1>5, <1>6 DEF TypeOK
    <2> QED
      BY <2>1
  <1>8. trouble' = 0 => trouble = 0 /\ due' = due /\ a.phase # "fail"
    BY <1>0, <1>4, <1>5 DEF StockInv, Calm
  <1> QED
    BY <1>0, <1>1, <1>4, <1>5, <1>7, <1>8, QuietStep

\* Going on to the next line: its units are done, and not left.
LEMMA Advanced ==
  ASSUME IInv, NEW r \in Busy, Updating(r), Advance(r)
  PROVE  \E a \in Attempts :
           /\ work' = [work EXCEPT ![r] = a]
           /\ a.phase = work[r].phase /\ a.message = work[r].message
           /\ \A p : /\ Units(a.done, p) = Units(work[r].done, p) + Wanted(Current(r), p)
                     /\ Units(work[r].left, p) = Wanted(Current(r), p) + Units(a.left, p)
                     /\ Units(a.left, p) \in Nat /\ Wanted(Current(r), p) \in Nat
  <1>1. TypeOK /\ r \in Replicas /\ work[r] \in Attempts
        /\ work[r].done \in Seq(Line) /\ work[r].left \in Seq(Line)
    BY AttemptFields DEF IInv
  <1>2. /\ Current(r) \in Line /\ Tail(work[r].left) \in Seq(Line) /\ work[r].left # <<>>
        /\ Append(work[r].done, Current(r)) \in Seq(Line)
    BY <1>1, LineType DEF Updating
  <1>3. PICK a \in Attempts :
          a = [work[r] EXCEPT !.left = Tail(@), !.done = Append(@, Current(r)), !.read = NotRead]
    BY <1>1, <1>2 DEF Attempts
  <1>4. a.phase = work[r].phase /\ a.message = work[r].message
        /\ a.left = Tail(work[r].left) /\ a.done = Append(work[r].done, Current(r))
    BY <1>1, <1>3 DEF Attempts
  <1>5. work' = [work EXCEPT ![r] = a]
    BY <1>1, <1>3 DEF Advance, TypeOK, Attempts
  <1>6. ASSUME NEW p
        PROVE  /\ Units(a.done, p) = Units(work[r].done, p) + Wanted(Current(r), p)
               /\ Units(work[r].left, p) = Wanted(Current(r), p) + Units(a.left, p)
               /\ Units(a.left, p) \in Nat /\ Wanted(Current(r), p) \in Nat
    <2>1. Units(a.done, p) = Units(work[r].done, p) + Wanted(Current(r), p)
      BY <1>1, <1>2, <1>4, UnitsAppend
    <2>2. Units(work[r].left, p) = Wanted(Current(r), p) + Units(a.left, p)
      BY <1>1, <1>2, <1>4, UnitsTail DEF Current
    <2>3. Units(a.left, p) \in Nat
      BY <1>2, <1>4, CountsType
    <2>4. Wanted(Current(r), p) \in Nat
      BY <1>2 DEF Wanted, Line
    <2> QED
      BY <2>1, <2>2, <2>3, <2>4
  <1> QED
    BY <1>4, <1>5, <1>6

\* What the attempt decided on is right for what the shelf holds: that is what it has
\* read.
LEMMA UpdatedUnits ==
  ASSUME IInv, NEW r \in Busy, Updating(r), Decided(r), NEW p \in Products
  PROVE  /\ available[p] \in Nat /\ Updated(r)[p] \in Nat /\ Wanted(Current(r), p) \in Nat
         /\ Updated(r)[p] = IF work[r].phase = "reserve"
                            THEN available[p] - Wanted(Current(r), p)
                            ELSE available[p] + Wanted(Current(r), p)
  <1>1. TypeOK /\ r \in Replicas /\ work[r].read # NotRead
    BY AttemptFields DEF IInv, Decided
  <1>2. Current(r) \in Line /\ Current(r).product \in Products /\ Current(r).quantity \in Nat
        /\ work[r].read = available[Current(r).product]
    BY <1>1, LineType DEF IInv, ReadIsCurrent, Line
  <1>3. available[p] \in Nat /\ available \in [Products -> Nat] /\ Updated(r)[p] \in Nat
    BY <1>1, UpdatedType DEF TypeOK
  <1>4. Wanted(Current(r), p) \in Nat
    BY <1>2 DEF Wanted
  <1>5. CASE Current(r).product = p
    BY <1>2, <1>3, <1>5 DEF Updated, Wanted
  <1>6. CASE Current(r).product # p
    BY <1>2, <1>3, <1>6 DEF Updated, Wanted
  <1> QED
    BY <1>3, <1>4, <1>5, <1>6

\* The shelf's units go to the attempt, or the attempt's back to the shelf.
LEMMA WriteStock ==
  ASSUME IInv, StockInv, NEW r \in Replicas, Write(r)
  PROVE  StockInv'
  <1>0. /\ IInv' /\ TypeOK /\ r \in Busy /\ Updating(r) /\ Advance(r) /\ Decided(r)
        /\ available' = Updated(r)
    BY WriteInv DEF IInv, Write, Updating
  <1>1. /\ work[r] \in Attempts /\ work[r].phase \in Phases /\ work[r].phase # "tell"
        /\ \A p : Units(work[r].done, p) \in Nat /\ Units(work[r].left, p) \in Nat
    BY <1>0, AttemptFields DEF Updating
  <1>2. PICK a \in Attempts :
          /\ work' = [work EXCEPT ![r] = a]
          /\ a.phase = work[r].phase /\ a.message = work[r].message
          /\ \A p : /\ Units(a.done, p) = Units(work[r].done, p) + Wanted(Current(r), p)
                    /\ Units(work[r].left, p) = Wanted(Current(r), p) + Units(a.left, p)
                    /\ Units(a.left, p) \in Nat /\ Wanted(Current(r), p) \in Nat
    BY <1>0, Advanced
  <1>3. ASSUME NEW p \in Products
        PROVE  /\ available'[p] + Held(a, p) = available[p] + Held(work[r], p)
               /\ available'[p] + Held(a, p) <= available[p] + Held(work[r], p)
    <2>1. PICK v, n, w, d, l \in Nat :
            /\ v = available[p] /\ n = available'[p] /\ w = Wanted(Current(r), p)
            /\ d = Units(work[r].done, p) /\ l = Units(a.left, p)
      BY <1>0, <1>1, <1>2, UpdatedUnits
    <2>2. CASE work[r].phase = "reserve"
      <3>1. n = v - w
        BY <1>0, <2>1, <2>2, UpdatedUnits
      <3>2. Held(a, p) = d + w /\ Held(work[r], p) = d
        BY <1>2, <2>1, <2>2 DEF Held
      <3>3. n + (d + w) = v + d /\ v + d <= v + d
        BY <3>1
      <3> QED
        BY <2>1, <3>2, <3>3
    <2>3. CASE work[r].phase # "reserve"
      <3>1. n = v + w
        BY <1>0, <2>1, <2>3, UpdatedUnits
      <3>2. Held(a, p) = l /\ Held(work[r], p) = w + l
        BY <1>1, <1>2, <2>1, <2>3 DEF Held, Phases
      <3>3. n + l = v + (w + l) /\ v + (w + l) <= v + (w + l)
        BY <3>1
      <3> QED
        BY <2>1, <3>2, <3>3
    <2> QED
      BY <2>2, <2>3
  <1>6. \A p \in Products :
          Units(a.done, p) + Units(a.left, p) = Units(work[r].done, p) + Units(work[r].left, p)
    <2> SUFFICES ASSUME NEW p \in Products
        PROVE Units(a.done, p) + Units(a.left, p) = Units(work[r].done, p) + Units(work[r].left, p)
      OBVIOUS
    <2>1. PICK w, d, l \in Nat :
            /\ w = Wanted(Current(r), p) /\ d = Units(work[r].done, p) /\ l = Units(a.left, p)
      BY <1>1, <1>2
    <2>2. (d + w) + l = d + (w + l)
      OBVIOUS
    <2> QED
      BY <1>2, <2>1, <2>2
  <1>7. UNCHANGED <<reservations, told, seen, due, tries, begun, repeated, trouble>>
    BY DEF Write
  <1>8. trouble' = 0 => trouble = 0 /\ due' = due /\ a.phase # "fail"
    BY <1>0, <1>2, <1>7 DEF StockInv, Calm
  <1> QED
    BY <1>0, <1>1, <1>2, <1>3, <1>6, <1>7, <1>8, QuietStep

\* What was reserved so far is now left to be given back.
LEMMA CompensateStock ==
  ASSUME IInv, IInv', StockInv, NEW r \in Busy, Updating(r), work[r].phase = "reserve",
         NEW phase \in {"refuse", "fail"}, Compensate(r, phase),
         UNCHANGED <<reservations, told, due, begun, repeated>>,
         \A p \in Products : available'[p] <= available[p],
         trouble' = 0 => trouble = 0 /\ phase # "fail" /\ available' = available
  PROVE  StockInv'
  <1>1. /\ work[r].done \in Seq(Line) /\ work[r].message \in Messages /\ TypeOK
        /\ \A p : Units(work[r].done, p) \in Nat
    BY AttemptFields DEF IInv
  <1>2. PICK a : a = Attempt(phase, work[r].message, work[r].done)
    OBVIOUS
  <1>3. a \in Attempts /\ a.phase = phase /\ a.message = work[r].message /\ a.left = work[r].done
    BY <1>1, <1>2, AttemptType DEF Phases
  <1>4. work' = [work EXCEPT ![r] = a]
    BY <1>2 DEF Compensate
  <1>5. ASSUME NEW p \in Products
        PROVE  /\ available' = available =>
                    available'[p] + Held(a, p) = available[p] + Held(work[r], p)
               /\ available'[p] + Held(a, p) <= available[p] + Held(work[r], p)
    <2>1. Held(a, p) = Units(work[r].done, p) /\ Held(work[r], p) = Units(work[r].done, p)
      BY <1>3 DEF Held
    <2>2. available[p] \in Nat /\ available'[p] \in Nat /\ Units(work[r].done, p) \in Nat
          /\ available'[p] <= available[p]
      BY <1>1 DEF TypeOK, IInv
    <2> QED
      BY <2>1, <2>2
  <1> QED
    BY <1>3, <1>4, <1>5, QuietStep

LEMMA RefuseStock ==
  ASSUME IInv, StockInv, NEW r \in Replicas, Refuse(r)
  PROVE  StockInv'
  <1>1. /\ Updating(r) /\ r \in Busy /\ Compensate(r, "refuse") /\ work[r].phase = "reserve"
        /\ UNCHANGED <<available, reservations, told, seen, due, tries, begun, repeated, trouble>>
    BY DEF Refuse, Updating
  <1>2. trouble' \in 0..MaxTrouble /\ available' \in [Products -> Nat] /\ RowIsOwn(r)
    BY <1>1 DEF IInv, TypeOK, RowIsOwn
  <1>3. IInv'
    BY <1>1, <1>2, CompensateInv
  <1>4. \A p \in Products : available'[p] <= available[p]
    BY <1>1, <1>2
  <1> QED
    BY <1>1, <1>3, <1>4, CompensateStock

\* A failed update: a reservation is compensated, what was to be given back may be
\* lost, and so may what was taken.
LEMMA UpdateFailsStock ==
  ASSUME IInv, StockInv, NEW r \in Replicas, UpdateFails(r)
  PROVE  StockInv'
  <1>1. /\ IInv' /\ Updating(r) /\ r \in Busy /\ TypeOK
        /\ UNCHANGED <<reservations, told, seen, due, tries, begun, repeated>>
        /\ available' = available \/ (Decided(r) /\ available' = Updated(r))
    BY UpdateFailsInv DEF UpdateFails, Updating, IInv
  <1>2. trouble' # 0
    BY <1>1 DEF UpdateFails, Trouble, TypeOK
  <1>3. CASE work[r].phase = "reserve"
    <2>1. Compensate(r, "fail")
      BY <1>3 DEF UpdateFails
    <2>2. ASSUME NEW p \in Products PROVE available'[p] <= available[p]
      <3>1. CASE available' = available
        BY <1>1, <3>1 DEF TypeOK
      <3>2. CASE Decided(r) /\ available' = Updated(r)
        BY <1>1, <1>3, <3>2, UpdatedUnits
      <3> QED
        BY <1>1, <3>1, <3>2
    <2> QED
      BY <1>1, <1>2, <1>3, <2>1, <2>2, CompensateStock
  <1>4. CASE work[r].phase # "reserve"
    <2>1. PICK a \in Attempts :
            /\ work' = [work EXCEPT ![r] = a]
            /\ a.phase = work[r].phase /\ a.message = work[r].message
            /\ \A p : /\ Units(a.done, p) = Units(work[r].done, p) + Wanted(Current(r), p)
                      /\ Units(work[r].left, p) = Wanted(Current(r), p) + Units(a.left, p)
                      /\ Units(a.left, p) \in Nat /\ Wanted(Current(r), p) \in Nat
      BY <1>1, <1>4, Advanced DEF UpdateFails
    <2>2. work[r].phase \in {"refuse", "fail", "release", "restock"}
      BY <1>1, <1>4, AttemptFields DEF Phases, Updating
    <2>3. ASSUME NEW p \in Products
          PROVE  available'[p] + Held(a, p) <= available[p] + Held(work[r], p)
      <3>1. PICK v, w, l \in Nat :
              v = available[p] /\ w = Wanted(Current(r), p) /\ l = Units(a.left, p)
        BY <1>1, <2>1 DEF TypeOK
      <3>2. Held(a, p) = l /\ Held(work[r], p) = w + l
        BY <1>1, <2>1, <2>2, <3>1 DEF Held
      <3>3. available'[p] \in {v, v + w}
        BY <1>1, <1>4, <3>1, UpdatedUnits
      <3>4. v + l <= v + (w + l) /\ (v + w) + l <= v + (w + l)
        OBVIOUS
      <3> QED
        BY <3>1, <3>2, <3>3, <3>4
    <2> QED
      BY <1>1, <1>2, <1>4, <2>1, <2>3, QuietStep
  <1> QED
    BY <1>3, <1>4

\* An attempt that stops because of a failure takes what it holds with it.
LEMMA AbandonStock ==
  ASSUME IInv, IInv', StockInv, NEW r \in Busy, work' = [work EXCEPT ![r] = Idle],
         UNCHANGED <<available, reservations, told, begun, repeated>>,
         due' \subseteq due \union {work[r].message}, trouble' # 0
  PROVE  StockInv'
  <1>1. Idle \notin Attempts /\ TypeOK /\ work[r] \in Attempts
    BY AttemptFields DEF IInv
  <1>2. ASSUME NEW p \in Products
        PROVE  available'[p] + Held(Idle, p) <= available[p] + Held(work[r], p)
    <2>1. available[p] \in Nat /\ available'[p] = available[p] /\ Held(Idle, p) = 0
          /\ Held(work[r], p) \in Nat
      BY <1>1, HeldType DEF TypeOK
    <2> QED
      BY <2>1
  <1> QED
    BY <1>1, <1>2, QuietStep

LEMMA AbandonsStock ==
  ASSUME IInv, StockInv, NEW r \in Replicas,
         ReturnError(r) \/ (Die(r) /\ r \in Busy)
  PROVE  StockInv'
  <1>1. IInv' /\ TypeOK /\ r \in Busy
    BY EndsInv DEF IInv, ReturnError, In
  <1>2. /\ work' = [work EXCEPT ![r] = Idle]
        /\ UNCHANGED <<available, reservations, told, tries, begun, repeated>>
        /\ due' \subseteq due \union {work[r].message}
    BY <1>1 DEF ReturnError, Die, GiveBack
  <1>3. trouble' # 0
    <2>1. CASE ReturnError(r)
      BY <1>1, <2>1 DEF ReturnError, In, StockInv, Calm
    <2>2. CASE Die(r)
      BY <1>1, <2>2 DEF Die, Trouble, TypeOK
    <2> QED
      BY <2>1, <2>2
  <1> QED
    BY <1>1, <1>2, <1>3, AbandonStock

\* An order that cannot be recorded takes its units with it, of products that it
\* disturbs.
LEMMA RejectedStock ==
  ASSUME IInv, StockInv, NEW r \in Replicas, SaveRejected(r)
  PROVE  StockInv'
  <1> DEFINE o == Order(r)
  <1>1. /\ IInv' /\ TypeOK /\ r \in Busy /\ work[r].left = <<>> /\ work[r].phase = "reserve"
        /\ ~Recordable(o)
    BY EndsInv DEF IInv, SaveRejected, In
  <1>2. /\ work' = [work EXCEPT ![r] = Idle] /\ trouble' = trouble
        /\ UNCHANGED <<available, reservations, told, begun, repeated>>
        /\ due' \subseteq due \union {work[r].message}
    BY DEF SaveRejected, GiveBack
  <1>3. /\ Idle \notin Attempts /\ o \in Orders /\ work[r].message = Placed(o)
        /\ Placed(o) \in begun /\ work[r] \in Attempts
    BY <1>1, AttemptFields DEF StockInv, WorkShape
  <1>4. ~Sound(work[r].message)
    BY <1>1, <1>3, SoundOrders
  <1>5. ASSUME NEW p \in Products
        PROVE  /\ available'[p] + Held(Idle, p) <= available[p] + Held(work[r], p)
               /\ Undisturbed(p) =>
                    available'[p] + Held(Idle, p) = available[p] + Held(work[r], p)
    <2>1. available[p] \in Nat /\ available'[p] = available[p] /\ Held(Idle, p) = 0
          /\ Held(work[r], p) \in Nat
      BY <1>1, <1>2, <1>3, HeldType DEF TypeOK
    <2>2. ASSUME Undisturbed(p) PROVE Held(work[r], p) = 0
      <3>1. Units(Items[o], p) = 0
        BY <1>1, <1>3, <2>2, NothingWanted DEF Undisturbed
      <3>2. Units(work[r].done, p) + Units(work[r].left, p) = 0
        BY <1>1, <3>1 DEF StockInv, WorkShape
      <3>3. Units(work[r].done, p) \in Nat /\ Units(work[r].left, p) \in Nat
        BY <1>1, AttemptFields
      <3>4. Held(work[r], p) = Units(work[r].done, p)
        BY <1>1 DEF Held
      <3> QED
        BY <3>2, <3>3, <3>4
    <2> QED
      BY <2>1, <2>2
  <1>6. \A m \in due' : m \in due \/ ~Sound(m)
    BY <1>2, <1>4
  <1> QED
    BY <1>1, <1>2, <1>3, <1>5, <1>6, QuietStep

\* An attempt that has nothing left to give back and has recorded what it took.
LEMMA EmptyHanded ==
  ASSUME TypeOK, NEW r \in Busy, work[r].left = <<>>, work[r].phase # "reserve", NEW p \in Products
  PROVE  Held(work[r], p) = 0 /\ Held(Idle, p) = 0
  <1>1. work[r].phase \in Phases /\ Units(<<>>, p) = 0
    BY AttemptFields, UnitsEmpty
  <1> QED
    BY <1>1, HeldType DEF Held

\* The answer is published, or may have been.
LEMMA TellStock ==
  ASSUME IInv, StockInv, NEW r \in Replicas, Tell(r) \/ TellFails(r)
  PROVE  StockInv'
  <1>1. /\ IInv' /\ TypeOK /\ FinitelyMany /\ Telling(r) /\ r \in Busy /\ work[r].left = <<>>
        /\ work[r].phase # "reserve"
    BY EndsInv DEF IInv, StockInv, Tell, TellFails, Telling, In
  <1>2. /\ work' = [work EXCEPT ![r] = Idle]
        /\ UNCHANGED <<available, reservations, begun, repeated>>
        /\ due' \subseteq due \union {work[r].message}
        /\ told' \in {told, [told EXCEPT ![Order(r)] = @ \union {Answer(r)}]}
    BY DEF Tell, TellFails, Succeed, GiveBack
  <1>3. Idle \notin Attempts /\ Order(r) \in Orders /\ Idle.phase = "idle"
    BY <1>1, AttemptFields DEF Idle
  <1>4. \A o \in Orders : told[o] \subseteq told'[o]
    BY <1>1, <1>2 DEF TypeOK
  <1>5. \A p : Reserved(p)' = Reserved(p)
    BY <1>2 DEF Reserved, Standing, UnitsOf, Units, Cancelled
  <1>6. ASSUME NEW p \in Products
        PROVE  /\ available'[p] + Held(Idle, p) + Reserved(p)'
                    = available[p] + Held(work[r], p) + Reserved(p)
               /\ available'[p] + Held(Idle, p) + Reserved(p)'
                    <= available[p] + Held(work[r], p) + Reserved(p)
    <2>1. PICK v, x \in Nat : v = available[p] /\ x = Reserved(p)
      BY <1>1, AccountType
    <2>2. Held(work[r], p) = 0 /\ Held(Idle, p) = 0
      BY <1>1, EmptyHanded
    <2>3. v + 0 + x <= v + 0 + x
      OBVIOUS
    <2> QED
      BY <1>2, <1>5, <2>1, <2>2, <2>3
  <1>7. \A o \in Orders :
          Fresh(o) => Fresh(o)' \/ (work[r].message = Placed(o) /\ Idle.phase # "reserve")
    <2> SUFFICES ASSUME NEW o \in Orders, Fresh(o), work[r].message # Placed(o)
                 PROVE  Fresh(o)'
      BY <1>3
    <2>1. CASE o = Order(r)
      <3>1. work[r].phase \notin {"reserve", "tell", "refuse", "fail"}
        BY <1>1, <2>1 DEF StockInv, WorkShape
      <3>2. Answer(r) = "stock.restocked"
        BY <1>1, <3>1 DEF Telling, In, Answer
      <3> QED
        BY <1>1, <1>2, <2>1, <3>2 DEF Fresh, Verdicts, TypeOK
    <2>2. CASE o # Order(r)
      BY <1>1, <1>2, <2>2 DEF Fresh, TypeOK
    <2> QED
      BY <2>1, <2>2
  <1>8. trouble' = 0 => trouble = 0 /\ due' = due
    BY <1>1 DEF Tell, TellFails, Trouble, Succeed, TypeOK
  <1> QED
    BY <1>1, <1>2, <1>3, <1>4, <1>6, <1>7, <1>8, AttemptStep

\* The units taken for the order are on record now, where they count unless it was
\* cancelled meanwhile or is there already.
LEMMA Recording ==
  ASSUME IInv, StockInv, NEW r \in Busy, In(r, "reserve"),
         NEW a \in Attempts \union {Idle}, \A p \in Products : Held(a, p) = 0,
         reservations' = reservations \union {Order(r)}, UNCHANGED <<available, begun>>,
         NEW p \in Products
  PROVE  /\ available'[p] + Held(a, p) + Reserved(p)'
              <= available[p] + Held(work[r], p) + Reserved(p)
         /\ Cancelled(Order(r)) \notin begun /\ Order(r) \notin reservations =>
              available'[p] + Held(a, p) + Reserved(p)'
                = available[p] + Held(work[r], p) + Reserved(p)
  <1>1. PICK o \in Orders : o = Order(r)
    BY AttemptFields DEF IInv
  <1>2. TypeOK /\ FinitelyMany /\ work[r].left = <<>> /\ work[r].phase = "reserve"
    BY DEF IInv, StockInv, In
  <1>3. Standing \subseteq Orders /\ IsFiniteSet(Standing)
    <2>1. Standing \subseteq Orders /\ Standing \in SUBSET reservations
      BY <1>2 DEF TypeOK, Standing
    <2> QED
      BY <1>2, <2>1, FS_Subset DEF FinitelyMany
  <1>4. Held(work[r], p) = Units(Items[o], p)
    <2>1. Units(work[r].done, p) + Units(work[r].left, p) = Units(Items[o], p)
      BY <1>1, <1>2 DEF StockInv, WorkShape
    <2>2. Units(work[r].left, p) = 0 /\ Units(work[r].done, p) \in Nat
      BY <1>2, UnitsEmpty, AttemptFields
    <2>3. Held(work[r], p) = Units(work[r].done, p)
      BY <1>2 DEF Held
    <2> QED
      BY <2>1, <2>2, <2>3
  <1>5. \/ Standing' = Standing /\ (Cancelled(o) \in begun \/ o \in reservations)
        \/ Standing' = Standing \union {o} /\ o \notin Standing
    BY <1>1 DEF Standing, Cancelled
  <1>6. PICK v, x, u \in Nat : v = available[p] /\ x = Reserved(p) /\ u = Units(Items[o], p)
    BY <1>2, <1>3, AccountType, OrderUnitsType
  <1>7. Reserved(p)' = UnitsOf(Standing', p) /\ Reserved(p) = UnitsOf(Standing, p)
    BY DEF Reserved, UnitsOf, Units
  <1>8. Held(work[r], p) = u /\ Held(a, p) = 0 /\ available'[p] = v
    BY <1>4, <1>6
  <1>9. CASE Standing' = Standing /\ (Cancelled(o) \in begun \/ o \in reservations)
    <2>1. Reserved(p)' = x
      BY <1>6, <1>7, <1>9
    <2>2. v + 0 + x <= v + u + x
      OBVIOUS
    <2> QED
      BY <1>1, <1>6, <1>8, <1>9, <2>1, <2>2
  <1>10. CASE Standing' = Standing \union {o} /\ o \notin Standing
    <2>1. Reserved(p)' = x + u
      BY <1>3, <1>6, <1>7, <1>10, OrderUnitsType
    <2>2. v + 0 + (x + u) = v + u + x /\ v + u + x <= v + u + x
      OBVIOUS
    <2> QED
      BY <1>6, <1>8, <2>1, <2>2
  <1> QED
    BY <1>5, <1>9, <1>10

LEMMA SaveStock ==
  ASSUME IInv, StockInv, NEW r \in Replicas, Save(r)
  PROVE  StockInv'
  <1> DEFINE o == Order(r)
             none == <<>>
  <1>1. /\ IInv' /\ TypeOK /\ FinitelyMany /\ r \in Busy /\ In(r, "reserve")
        /\ work[r].phase = "reserve" /\ Recordable(o)
    BY RecordsInv DEF IInv, StockInv, Save, In
  <1>2. o \in Orders /\ work[r].message \in Messages
    BY <1>1, AttemptFields
  <1>3. PICK empty \in Seq(Line) : empty = none
    <2>1. none \in Seq(Line)
      OBVIOUS
    <2> HIDE DEF none
    <2> QED
      BY <2>1
  <1>4. PICK a : a = Attempt("tell", work[r].message, empty)
    OBVIOUS
  <1>5. a \in Attempts /\ a.phase = "tell" /\ a.message = work[r].message
    BY <1>2, <1>4, AttemptType DEF Phases
  <1>6. /\ work' = [work EXCEPT ![r] = a] /\ reservations' = reservations \union {o}
        /\ UNCHANGED <<available, told, seen, due, tries, begun, repeated, trouble>>
    BY <1>3, <1>4 DEF Save, Saved
  <1> HIDE DEF none
  <1>7. \A p \in Products : Held(a, p) = 0
    BY <1>5 DEF Held
  <1>8. \A p \in Products :
          /\ available'[p] + Held(a, p) + Reserved(p)'
               <= available[p] + Held(work[r], p) + Reserved(p)
          /\ Cancelled(o) \notin begun /\ o \notin reservations =>
               available'[p] + Held(a, p) + Reserved(p)'
                 = available[p] + Held(work[r], p) + Reserved(p)
    BY <1>1, <1>5, <1>6, <1>7, Recording
  <1>9. trouble' = 0 =>
          /\ trouble = 0 /\ due' = due /\ Cancelled(o) \notin begun /\ o \notin reservations
          /\ work[r].message = Placed(o)
    <2> SUFFICES ASSUME trouble' = 0
        PROVE  /\ trouble = 0 /\ due' = due /\ Cancelled(o) \notin begun /\ o \notin reservations
               /\ work[r].message = Placed(o)
      OBVIOUS
    <2>1. trouble = 0 /\ due' = due
      BY <1>6
    <2>2. Fresh(o)
      BY <1>1, <2>1 DEF StockInv, Calm
    <2>3. Cancelled(o) \notin begun
      BY <1>2, <2>2 DEF StockInv, CancelOwed, Fresh, Published
    <2>4. work[r].message = Placed(o)
      BY <1>1 DEF StockInv, WorkShape
    <2> QED
      BY <2>1, <2>2, <2>3, <2>4 DEF Fresh
  <1>10. \A x \in Orders : told[x] \subseteq told'[x] /\ (x # o /\ Fresh(x) => Fresh(x)')
    BY <1>6 DEF Fresh
  <1>11. trouble' = 0 => \A x \in Orders :
           Fresh(x) => Fresh(x)' \/ (work[r].message = Placed(x) /\ a.phase # "reserve")
    BY <1>5, <1>9, <1>10
  <1> HIDE DEF o
  <1>12. reservations' \subseteq reservations \union {Order(r)}
    BY <1>6 DEF o
  <1> QED
    BY <1>1, <1>5, <1>6, <1>8, <1>9, <1>10, <1>11, <1>12, AttemptStep

\* The record goes of an order whose reservation no longer counts.
LEMMA Unrecording ==
  ASSUME IInv, StockInv, NEW r \in Busy, In(r, "release"),
         reservations' = reservations \ {Order(r)}, UNCHANGED <<available, begun>>,
         NEW p \in Products
  PROVE  /\ available'[p] + Held(Idle, p) + Reserved(p)'
              = available[p] + Held(work[r], p) + Reserved(p)
         /\ available'[p] + Held(Idle, p) + Reserved(p)'
              <= available[p] + Held(work[r], p) + Reserved(p)
  <1>1. TypeOK /\ FinitelyMany /\ work[r].left = <<>> /\ work[r].phase = "release"
    BY DEF IInv, StockInv, In
  <1>2. Cancelled(Order(r)) \in begun
    BY <1>1 DEF IInv, WorkJustified
  <1>3. Standing' = Standing
    BY <1>2 DEF Standing, Cancelled
  <1>4. PICK v, x \in Nat : v = available[p] /\ x = Reserved(p)
    BY <1>1, AccountType
  <1>5. Held(work[r], p) = 0 /\ Held(Idle, p) = 0
    BY <1>1, EmptyHanded
  <1>6. Reserved(p)' = x /\ available'[p] = v
    BY <1>3, <1>4 DEF Reserved, UnitsOf, Units
  <1>7. v + 0 + x <= v + 0 + x
    OBVIOUS
  <1> QED
    BY <1>4, <1>5, <1>6, <1>7

LEMMA DeleteStock ==
  ASSUME IInv, StockInv, NEW r \in Replicas, Delete(r)
  PROVE  StockInv'
  <1>1. IInv' /\ TypeOK /\ r \in Busy /\ In(r, "release")
    BY RecordsInv DEF IInv, Delete, In
  <1>2. /\ work' = [work EXCEPT ![r] = Idle] /\ reservations' = reservations \ {Order(r)}
        /\ UNCHANGED <<available, told, seen, due, tries, begun, repeated, trouble>>
    BY DEF Delete, Succeed, Without
  <1>3. Idle \notin Attempts
    BY <1>1, AttemptFields
  <1>4. \A p \in Products :
          /\ available'[p] + Held(Idle, p) + Reserved(p)'
               = available[p] + Held(work[r], p) + Reserved(p)
          /\ available'[p] + Held(Idle, p) + Reserved(p)'
               <= available[p] + Held(work[r], p) + Reserved(p)
    BY <1>1, <1>2, Unrecording
  <1>5. \A o \in Orders : told[o] \subseteq told'[o] /\ (Fresh(o) => Fresh(o)')
    BY <1>2 DEF Fresh
  <1> QED
    BY <1>1, <1>2, <1>3, <1>4, <1>5, AttemptStep

\* Saving or deleting fails: the records are what they were, or what they were to be.
LEMMA StoreFailsStock ==
  ASSUME IInv, StockInv, NEW r \in Replicas, StoreFails(r)
  PROVE  StockInv'
  <1>1. IInv' /\ TypeOK /\ r \in Busy /\ Idle \notin Attempts
    BY EndsInv, AttemptFields DEF IInv, StoreFails, In
  <1>2. /\ work' = [work EXCEPT ![r] = Idle]
        /\ UNCHANGED <<available, told, begun, repeated>>
        /\ due' \subseteq due \union {work[r].message}
    BY DEF StoreFails, GiveBack
  <1>3. trouble' # 0
    BY <1>1 DEF StoreFails, Trouble, TypeOK
  <1>4. \A p \in Products : Held(Idle, p) = 0
    BY HeldType
  <1>5. CASE reservations' = reservations
    BY <1>1, <1>2, <1>3, <1>5, AbandonStock
  <1>6. CASE In(r, "reserve") /\ reservations' = Saved(Order(r))
    <2>1. reservations' = reservations \union {Order(r)}
      BY <1>6 DEF Saved
    <2>2. \A p \in Products : available'[p] + Held(Idle, p) + Reserved(p)'
                               <= available[p] + Held(work[r], p) + Reserved(p)
      BY <1>1, <1>2, <1>4, <1>6, <2>1, Recording
    <2> QED
      BY <1>1, <1>2, <1>3, <2>1, <2>2, AttemptStep
  <1>7. CASE In(r, "release") /\ reservations' = Without(Order(r))
    <2>1. reservations' = reservations \ {Order(r)}
      BY <1>7 DEF Without
    <2>2. \A p \in Products : available'[p] + Held(Idle, p) + Reserved(p)'
                               <= available[p] + Held(work[r], p) + Reserved(p)
      BY <1>1, <1>2, <1>7, <2>1, Unrecording
    <2> QED
      BY <1>1, <1>2, <1>3, <2>1, <2>2, AttemptStep
  <1> QED
    BY <1>5, <1>6, <1>7 DEF StoreFails

\* An idle replica that dies forgets what it has handled; no unit is with it.
LEMMA IdleDies ==
  ASSUME IInv, StockInv, NEW r \in Replicas, Die(r), r \notin Busy
  PROVE  StockInv'
  <1>1. UNCHANGED <<available, reservations, told, work, due, tries, begun, repeated>>
    BY DEF Die
  <1>2. trouble' # 0
    BY DEF Die, Trouble, IInv, TypeOK
  <1>3. Busy' = Busy /\ Standing' = Standing /\ Returned' = Returned
    BY <1>1 DEF Busy, Standing, Returned, Cancelled, ReturnRequested
  <1>4. FinitelyMany' /\ WorkShape' /\ CancelOwed'
    BY <1>1, <1>3 DEF StockInv, FinitelyMany, WorkShape, CancelOwed, Order, Placed, Units,
       Published, Cancelled
  <1>5. Calm'
    BY <1>2 DEF Calm
  <1>6. StockAddsUp'
    BY <1>1, <1>2, NothingMoves DEF StockInv
  <1> QED
    BY <1>4, <1>5, <1>6 DEF StockInv

LEMMA StockStep == IInv /\ StockInv /\ [Next]_vars => StockInv'
  <1> SUFFICES ASSUME IInv, StockInv, [Next]_vars PROVE StockInv'
    OBVIOUS
  <1>1. CASE UNCHANGED vars
    <2>1. UNCHANGED <<available, reservations, told, work, due, tries, begun, repeated, trouble>>
      BY <1>1 DEF vars
    <2>2. Busy' = Busy /\ Standing' = Standing /\ Returned' = Returned
      BY <2>1 DEF Busy, Standing, Returned, Cancelled, ReturnRequested
    <2>3. FinitelyMany' /\ WorkShape' /\ CancelOwed' /\ Calm'
      BY <2>1, <2>2 DEF StockInv, FinitelyMany, WorkShape, CancelOwed, Calm, Fresh, Order, Placed,
         Units, Published, Cancelled
    <2>4. StockAddsUp'
      BY <2>1, NothingMoves DEF StockInv
    <2> QED
      BY <2>3, <2>4 DEF StockInv
  <1>2. ASSUME NEW o \in Orders, Place(o) \/ Cancel(o) \/ Return(o) PROVE StockInv'
    <2>1. CASE Place(o)
      BY <2>1, MessageTypes, PublishStock DEF Place, Placed, Cancelled
    <2>2. CASE Cancel(o)
      <3>1. \A x \in Orders : Cancelled(o) = Cancelled(x) => told[x] \intersect Verdicts # {}
        BY <2>2 DEF Cancel, Cancelled, Verdicts
      <3> QED
        BY <2>2, <3>1, MessageTypes, PublishStock DEF Cancel
    <2>3. CASE Return(o)
      BY <2>3, MessageTypes, PublishStock DEF Return, ReturnRequested, Cancelled
    <2> QED
      BY <1>2, <2>1, <2>2, <2>3
  <1>3. ASSUME NEW r \in Replicas, NEW o \in Orders,
               OnOrderPlaced(r, o) \/ OnOrderCancelled(r, o) \/ OnReturnRequested(r, o)
        PROVE  StockInv'
    BY <1>3, HandlersStock
  <1>4. ASSUME NEW r \in Replicas,
               \/ Select(r) \/ Write(r) \/ Refuse(r) \/ Save(r) \/ SaveRejected(r) \/ Tell(r)
               \/ Delete(r) \/ UpdateFails(r) \/ ReturnError(r) \/ StoreFails(r) \/ TellFails(r)
               \/ Die(r)
        PROVE  StockInv'
    BY <1>4, SelectStock, WriteStock, RefuseStock, SaveStock, RejectedStock, TellStock,
       DeleteStock, UpdateFailsStock, AbandonsStock, StoreFailsStock, IdleDies
  <1> QED
    BY <1>1, <1>2, <1>3, <1>4 DEF Next

LEMMA StockInvariance == Spec => [](IInv /\ StockInv)
  <1>1. Init => IInv /\ StockInv
    BY InitInv, InitStock
  <1>2. (IInv /\ StockInv) /\ [Next]_vars => (IInv /\ StockInv)'
    BY StepInv, StockStep
  <1> QED
    BY <1>1, <1>2, PTL DEF Spec

-----------------------------------------------------------------------------
\* What is owed

Judged(o) == told[o] \intersect Verdicts # {}
OnItsWay(m) == m \in due \/ \E r \in Busy : work[r].message = m

\* A message's deliveries are used up, by the order that cannot be recorded or by as
\* many failures.
Exhausted(m) == tries[m] >= MaxDeliver /\ (Sound(m) => trouble >= MaxDeliver)

\* What was asked for is done, on its way to be done, or given up after MaxDeliver
\* deliveries.
NothingForgotten ==
    \A o \in Orders :
      /\ Placed(o) \in Published =>
           OnItsWay(Placed(o)) \/ Judged(o) \/ Exhausted(Placed(o))
      /\ Cancelled(o) \in Published =>
           \/ OnItsWay(Cancelled(o)) \/ o \notin reservations \/ Placed(o) \in repeated
           \/ Exhausted(Cancelled(o))

\* Each delivery of a sound message but the first is due to a failure; so is one more
\* that is due, or will be when an attempt that is giving back returns its error.
Failing(m) == {r \in Busy : work[r].phase = "fail" /\ work[r].message = m}
Again(m) == IF m \in due THEN 1 ELSE 0
SpentInv ==
    \A m \in Messages :
      /\ m \notin begun => tries[m] = 0
      /\ Sound(m) => tries[m] + Cardinality(Failing(m)) + Again(m) <= trouble + 1

OwnMessage ==
    \A r \in Busy :
      /\ work[r].phase = "release" => work[r].message = Cancelled(Order(r))
      /\ work[r].phase = "restock" => work[r].message = ReturnRequested(Order(r))

\* A replica skips only the orders whose verdict is out.
SeenIsJudged == \A r \in Replicas : \A o \in seen[r] : Judged(o)

\* The first attempt for an order is its only one until the verdict.
FirstAttempt ==
    \A o \in Orders :
      /\ Placed(o) \notin begun => ~Judged(o)
      /\ Placed(o) \notin repeated =>
           \A r \in Busy : work[r].message = Placed(o) =>
             /\ ~Judged(o) /\ Placed(o) \notin due
             /\ \A s \in Busy : work[s].message = Placed(o) => s = r

OwedInv == NothingForgotten /\ OwnMessage /\ SeenIsJudged /\ FirstAttempt

\* The kinds of messages differ, and a message names its order.
LEMMA Kinds ==
  ASSUME NEW o, NEW x
  PROVE  /\ Placed(o) # Cancelled(x) /\ Placed(o) # ReturnRequested(x)
         /\ Cancelled(o) # ReturnRequested(x)
         /\ Placed(o) = Placed(x) => o = x
         /\ Cancelled(o) = Cancelled(x) => o = x
  BY DEF Placed, Cancelled, ReturnRequested

\* What is used up stays so.
LEMMA ExhaustedStays ==
  ASSUME TypeOK, TypeOK', trouble <= trouble', \A x \in Messages : tries[x] <= tries'[x],
         NEW m \in Messages, Exhausted(m)
  PROVE  Exhausted(m)'
  <1>1. /\ tries[m] \in Nat /\ tries'[m] \in Nat /\ trouble \in Nat /\ trouble' \in Nat
        /\ MaxDeliver \in Nat /\ tries[m] <= tries'[m]
    BY MaxTroubleAssumption, MaxDeliverAssumption DEF TypeOK
  <1>2. Sound(m)' <=> Sound(m)
    BY DEF Sound, Recordable
  <1> QED
    BY <1>1, <1>2 DEF Exhausted

LEMMA InitSpent == Init => SpentInv
  <1> SUFFICES ASSUME Init, NEW m \in Messages
      PROVE tries[m] = 0 /\ tries[m] + Cardinality(Failing(m)) + Again(m) <= trouble + 1
    BY DEF SpentInv
  <1>1. Failing(m) = {} /\ Again(m) = 0 /\ tries[m] = 0 /\ trouble = 0
    BY DEF Init, Failing, Busy, Again
  <1> QED
    BY <1>1, FS_EmptySet

\* How many are giving back for a message.
LEMMA FailingType ==
  ASSUME FinitelyMany, NEW m
  PROVE  IsFiniteSet(Failing(m)) /\ Cardinality(Failing(m)) \in Nat
  <1>1. Failing(m) \in SUBSET Busy
    BY DEF Failing
  <1>2. IsFiniteSet(Failing(m))
    BY <1>1, FS_Subset DEF FinitelyMany
  <1> QED
    BY <1>2, FS_CardinalityType

\* A replaced attempt joins them, leaves them, or neither.
LEMMA FailingChange ==
  ASSUME TypeOK, FinitelyMany, NEW r \in Replicas, NEW a \in Attempts \union {Idle},
         work' = [work EXCEPT ![r] = a], NEW m
  PROVE  /\ Cardinality(Failing(m)') \in Nat
         /\ Cardinality(Failing(m)') <= Cardinality(Failing(m)) + 1
         /\ ~(a \in Attempts /\ a.phase = "fail" /\ a.message = m) =>
              Cardinality(Failing(m)') <= Cardinality(Failing(m))
         /\ r \in Failing(m) /\ a = Idle =>
              Cardinality(Failing(m)') + 1 <= Cardinality(Failing(m))
         /\ r \in Failing(m) => Cardinality(Failing(m)') <= Cardinality(Failing(m))
  <1>1. /\ \A s \in Busy' : s # r => s \in Busy /\ work'[s] = work[s]
        /\ r \in Busy' => a \in Attempts /\ work'[r] = a
    BY OthersStay
  <1>2. PICK F, G : F = Failing(m) /\ G = Failing(m)'
    OBVIOUS
  <1>3. /\ G \in SUBSET (F \union {r})
        /\ ~(a \in Attempts /\ a.phase = "fail" /\ a.message = m) => G \in SUBSET F
        /\ r \in F => G \in SUBSET F
        /\ a = Idle => G \in SUBSET (F \ {r})
    BY <1>1, <1>2 DEF Failing, Idle
  <1>4. IsFiniteSet(F) /\ Cardinality(F) \in Nat
    BY <1>2, FailingType
  <1>5. /\ IsFiniteSet(F \union {r}) /\ Cardinality(F \union {r}) <= Cardinality(F) + 1
        /\ Cardinality(F \union {r}) \in Nat
    BY <1>4, FS_AddElement, FS_CardinalityType
  <1>6. r \in F => /\ IsFiniteSet(F \ {r}) /\ Cardinality(F \ {r}) = Cardinality(F) - 1
    BY <1>4, FS_RemoveElement
  <1>7. Cardinality(G) \in Nat /\ Cardinality(G) <= Cardinality(F \union {r})
    BY <1>3, <1>5, FS_Subset, FS_CardinalityType
  <1>8. G \in SUBSET F => Cardinality(G) <= Cardinality(F)
    BY <1>4, FS_Subset
  <1>9. r \in F /\ a = Idle => Cardinality(G) <= Cardinality(F) - 1
    BY <1>3, <1>6, FS_Subset
  <1> QED
    BY <1>2, <1>3, <1>4, <1>5, <1>7, <1>8, <1>9

\* Steps that publish nothing and keep the message.
LEMMA Proceeds ==
  ASSUME IInv, NEW r \in Replicas,
         Select(r) \/ Write(r) \/ Refuse(r) \/ UpdateFails(r) \/ Save(r)
  PROVE  \E a \in Attempts :
           /\ work' = [work EXCEPT ![r] = a] /\ a.message = work[r].message
           /\ a.phase \in {"release", "restock"} => a.phase = work[r].phase
           /\ a.phase = "fail" => work[r].phase = "fail" \/ UpdateFails(r)
  <1>0. TypeOK /\ r \in Busy /\ work[r] \in Attempts /\ work[r].message \in Messages
        /\ work[r].done \in Seq(Line)
    BY AttemptFields DEF IInv, Select, Write, Refuse, UpdateFails, Save, Updating, In
  <1>1. CASE Select(r)
    <2>1. available[Current(r).product] \in Nat
      BY <1>0, <1>1, LineType DEF TypeOK, Line, Select
    <2>2. PICK a \in Attempts : a = [work[r] EXCEPT !.read = available[Current(r).product]]
      BY <1>0, <2>1 DEF Attempts
    <2>3. a.phase = work[r].phase /\ a.message = work[r].message
      BY <1>0, <2>2 DEF Attempts
    <2> QED
      BY <1>1, <2>2, <2>3 DEF Select
  <1>2. CASE Updating(r) /\ Advance(r)
    <2>1. Tail(work[r].left) \in Seq(Line) /\ Append(work[r].done, Current(r)) \in Seq(Line)
      BY <1>0, <1>2, LineType
    <2>2. PICK a \in Attempts :
            a = [work[r] EXCEPT !.left = Tail(@), !.done = Append(@, Current(r)),
                                !.read = NotRead]
      BY <1>0, <2>1 DEF Attempts
    <2>3. a.phase = work[r].phase /\ a.message = work[r].message
      BY <1>0, <2>2 DEF Attempts
    <2>4. work' = [work EXCEPT ![r] = a]
      BY <1>0, <1>2, <2>2 DEF Advance, TypeOK
    <2> QED
      BY <2>3, <2>4
  <1>3. ASSUME NEW phase \in {"refuse", "fail"}, Compensate(r, phase)
        PROVE  \E a \in Attempts :
                 /\ work' = [work EXCEPT ![r] = a] /\ a.message = work[r].message
                 /\ a.phase = phase
    <2>1. /\ Attempt(phase, work[r].message, work[r].done) \in Attempts
          /\ Attempt(phase, work[r].message, work[r].done).message = work[r].message
          /\ Attempt(phase, work[r].message, work[r].done).phase = phase
      BY <1>0, AttemptType DEF Phases
    <2> QED
      BY <1>3, <2>1 DEF Compensate
  <1>4. CASE Save(r)
    <2>0. <<>> \in Seq(Line)
      OBVIOUS
    <2>1. PICK none \in Seq(Line) : none = <<>>
      BY <2>0, Zenon
    <2>2. "tell" \in Phases
      BY DEF Phases
    <2>3. /\ Attempt("tell", work[r].message, none) \in Attempts
          /\ Attempt("tell", work[r].message, none).message = work[r].message
          /\ Attempt("tell", work[r].message, none).phase = "tell"
      BY <1>0, <2>2, AttemptType
    <2> QED
      BY <1>4, <2>1, <2>3 DEF Save
  <1> QED
    BY <1>1, <1>2, <1>3, <1>4 DEF Write, Refuse, UpdateFails

\* A step of an attempt that costs a failure whenever it makes a sound message due or
\* begins to give back for an error.
LEMMA AttemptSpent ==
  ASSUME IInv, IInv', StockInv, SpentInv, NEW r \in Busy,
         NEW a \in Attempts \union {Idle}, work' = [work EXCEPT ![r] = a],
         UNCHANGED <<tries, begun>>, trouble <= trouble',
         due' = due \/ due' = due \union {work[r].message},
         a \in Attempts => a.message = work[r].message,
         \/ a = Idle /\ ~Sound(work[r].message)
         \/ due' = due /\ (a \in Attempts /\ a.phase = "fail" => work[r].phase = "fail")
         \/ due' = due /\ trouble' = trouble + 1
         \/ a = Idle /\ trouble' = trouble + 1
         \/ a = Idle /\ work[r].phase = "fail"
  PROVE  SpentInv'
  <1>1. /\ TypeOK /\ FinitelyMany /\ r \in Replicas /\ Idle \notin Attempts
        /\ trouble \in Nat /\ trouble' \in Nat
    BY MaxTroubleAssumption DEF IInv, StockInv, Busy, TypeOK, Idle, Attempts, Phases
  <1> SUFFICES ASSUME NEW m \in Messages
      PROVE /\ m \notin begun => tries[m] = 0
            /\ Sound(m) => tries[m] + Cardinality(Failing(m)') + Again(m)' <= trouble' + 1
    BY DEF SpentInv, Sound, Recordable
  <1>2. /\ m \notin begun => tries[m] = 0
        /\ Sound(m) => tries[m] + Cardinality(Failing(m)) + Again(m) <= trouble + 1
    BY DEF SpentInv
  <1>3. tries[m] \in Nat /\ Again(m) \in {0, 1} /\ Again(m)' \in {0, 1}
    BY <1>1 DEF TypeOK, Again
  <1>4. Cardinality(Failing(m)) \in Nat
    BY <1>1, FailingType
  <1>5. /\ Cardinality(Failing(m)') \in Nat
        /\ Cardinality(Failing(m)') <= Cardinality(Failing(m)) + 1
        /\ ~(a \in Attempts /\ a.phase = "fail" /\ a.message = m) =>
             Cardinality(Failing(m)') <= Cardinality(Failing(m))
        /\ r \in Failing(m) /\ a = Idle =>
             Cardinality(Failing(m)') + 1 <= Cardinality(Failing(m))
        /\ r \in Failing(m) => Cardinality(Failing(m)') <= Cardinality(Failing(m))
    BY <1>1, FailingChange
  <1>6. due' = due \/ m # work[r].message => Again(m)' = Again(m)
    BY DEF Again
  <1>7. work[r].phase = "fail" /\ work[r].message = m => r \in Failing(m)
    BY DEF Failing
  <1>8. CASE m # work[r].message
    BY <1>1, <1>2, <1>3, <1>4, <1>5, <1>6, <1>8
  <1>9. CASE m = work[r].message
    BY <1>1, <1>2, <1>3, <1>4, <1>5, <1>6, <1>7, <1>9
  <1> QED
    BY <1>8, <1>9

\* A sound message given back has been delivered no more often than things failed.
LEMMA GivenBackSpent ==
  ASSUME IInv, IInv', StockInv, SpentInv, NEW r \in Busy,
         trouble' = trouble + 1 \/ (trouble' = trouble /\ work[r].phase = "fail"),
         Sound(work[r].message)
  PROVE  tries[work[r].message] <= trouble'
  <1>1. PICK m \in Messages : m = work[r].message
    BY AttemptFields DEF IInv
  <1>2. /\ tries[m] \in Nat /\ trouble \in Nat /\ Again(m) \in {0, 1}
        /\ FinitelyMany
    BY MaxTroubleAssumption DEF IInv, TypeOK, Again, StockInv
  <1>3. PICK F : F = Failing(m)
    OBVIOUS
  <1>4. IsFiniteSet(F) /\ Cardinality(F) \in Nat
    BY <1>2, <1>3, FailingType
  <1>5. work[r].phase = "fail" => Cardinality(F) >= 1
    <2>1. work[r].phase = "fail" => r \in F
      BY <1>1, <1>3 DEF Failing
    <2>2. F = {} <=> Cardinality(F) = 0
      BY <1>4, FS_EmptySet
    <2> QED
      BY <1>4, <2>1, <2>2
  <1>6. tries[m] + Cardinality(F) + Again(m) <= trouble + 1
    BY <1>1, <1>3 DEF SpentInv
  <1> QED
    BY <1>1, <1>2, <1>4, <1>5, <1>6

\* A publication makes due what nobody has begun.
LEMMA PublishSpent ==
  ASSUME IInv, StockInv, SpentInv, NEW m \in Messages, Publish(m)
  PROVE  SpentInv'
  <1>1. /\ m \notin begun /\ due' = due \union {m}
        /\ UNCHANGED <<work, tries, begun, trouble>>
    BY DEF Publish, Published
  <1> SUFFICES ASSUME NEW x \in Messages
      PROVE /\ x \notin begun => tries[x] = 0
            /\ Sound(x) => tries[x] + Cardinality(Failing(x)) + Again(x)' <= trouble + 1
    BY <1>1 DEF SpentInv, Sound, Recordable, Failing, Busy
  <1>2. /\ x \notin begun => tries[x] = 0
        /\ Sound(x) => tries[x] + Cardinality(Failing(x)) + Again(x) <= trouble + 1
    BY DEF SpentInv
  <1>3. x # m => Again(x)' = Again(x)
    BY <1>1 DEF Again
  <1>4. CASE x = m
    <2>1. Failing(x) = {}
      BY <1>1, <1>4 DEF StockInv, WorkShape, Failing
    <2>2. tries[x] = 0 /\ Again(x)' = 1 /\ trouble \in Nat /\ Cardinality(Failing(x)) = 0
      BY <1>1, <1>2, <1>4, <2>1, MaxTroubleAssumption, FS_EmptySet DEF Again, IInv, TypeOK
    <2> QED
      BY <2>2
  <1> QED
    BY <1>2, <1>3, <1>4

\* A delivery is of what was due, or is itself a failure.
LEMMA DeliverSpent ==
  ASSUME IInv, StockInv, SpentInv, NEW r \in Replicas, NEW m \in Messages,
         Deliver(r, m), NEW a \in Attempts \union {Idle}, work' = [work EXCEPT ![r] = a],
         a \in Attempts => a.phase # "fail"
  PROVE  SpentInv'
  <1>1. /\ begun' = begun \union {m} /\ due' = due \ {m}
        /\ tries' = [tries EXCEPT ![m] = @ + 1]
        /\ \/ m \in due /\ trouble' = trouble
           \/ m \notin due /\ trouble' = trouble + 1
    BY DEF Deliver, Trouble
  <1>2. TypeOK /\ FinitelyMany /\ trouble \in Nat
    BY MaxTroubleAssumption DEF IInv, StockInv, TypeOK
  <1> SUFFICES ASSUME NEW x \in Messages
      PROVE /\ x \notin begun' => tries'[x] = 0
            /\ Sound(x) => tries'[x] + Cardinality(Failing(x)') + Again(x)' <= trouble' + 1
    BY DEF SpentInv, Sound, Recordable
  <1>3. /\ x \notin begun => tries[x] = 0
        /\ Sound(x) => tries[x] + Cardinality(Failing(x)) + Again(x) <= trouble + 1
    BY DEF SpentInv
  <1>4. /\ Cardinality(Failing(x)) \in Nat /\ Cardinality(Failing(x)') \in Nat
        /\ Cardinality(Failing(x)') <= Cardinality(Failing(x))
    BY <1>2, FailingType, FailingChange
  <1>5. tries[x] \in Nat /\ tries'[x] = (IF x = m THEN tries[x] + 1 ELSE tries[x])
    BY <1>1, <1>2 DEF TypeOK
  <1>6. /\ Again(x) \in {0, 1}
        /\ Again(x)' = (IF x = m THEN 0 ELSE Again(x))
        /\ m \in due => Again(m) = 1
    BY <1>1 DEF Again
  <1>7. CASE x = m
    BY <1>1, <1>2, <1>3, <1>4, <1>5, <1>6, <1>7
  <1>8. CASE x # m
    BY <1>1, <1>2, <1>3, <1>4, <1>5, <1>6, <1>8
  <1> QED
    BY <1>7, <1>8

LEMMA HandlersSpent ==
  ASSUME IInv, StockInv, SpentInv, NEW r \in Replicas, NEW o \in Orders,
         OnOrderPlaced(r, o) \/ OnOrderCancelled(r, o) \/ OnReturnRequested(r, o)
  PROVE  SpentInv'
  <1>1. Items[o] \in Seq(Line)
    BY ItemsAssumption
  <1>2. ASSUME NEW phase \in {"reserve", "release", "restock"}, NEW m \in Messages,
               Deliver(r, m), NEW a \in {Attempt(phase, m, Items[o]), Idle},
               work' = [work EXCEPT ![r] = a]
        PROVE  SpentInv'
    <2> DEFINE b == Attempt(phase, m, Items[o])
    <2>1. phase \in Phases
      BY DEF Phases
    <2>2. b \in Attempts /\ b.phase = phase
      BY <1>1, <2>1, AttemptType
    <2>3. Idle \notin Attempts
      BY DEF Idle, Attempts, Phases
    <2> HIDE DEF b
    <2>4. a \in Attempts \union {Idle} /\ (a \in Attempts => a.phase # "fail")
      BY <2>2, <2>3 DEF b
    <2> QED
      BY <1>2, <2>4, DeliverSpent
  <1>3. CASE OnOrderPlaced(r, o)
    BY <1>2, <1>3, MessageTypes DEF OnOrderPlaced
  <1>4. CASE OnOrderCancelled(r, o)
    BY <1>2, <1>4, MessageTypes DEF OnOrderCancelled
  <1>5. CASE OnReturnRequested(r, o)
    BY <1>2, <1>5, MessageTypes DEF OnReturnRequested
  <1> QED
    BY <1>3, <1>4, <1>5

\* The order of a rejected reservation cannot be recorded.
LEMMA Rejected ==
  ASSUME IInv, StockInv, NEW r \in Replicas, SaveRejected(r)
  PROVE  r \in Busy /\ ~Sound(work[r].message)
  <1>1. r \in Busy /\ work[r].phase = "reserve" /\ ~Recordable(Order(r))
    BY DEF SaveRejected, In
  <1>2. work[r].message = Placed(Order(r)) /\ Order(r) \in Orders
    BY <1>1, AttemptFields DEF StockInv, WorkShape, IInv
  <1> QED
    BY <1>1, <1>2, SoundOrders

\* Only a failure, an order that cannot be recorded, or an error that was counted when
\* it came up makes a message due again.
LEMMA AttemptsSpent ==
  ASSUME IInv, IInv', StockInv, SpentInv, NEW r \in Replicas,
         \/ Select(r) \/ Write(r) \/ Refuse(r) \/ Save(r) \/ SaveRejected(r) \/ Tell(r)
         \/ Delete(r) \/ UpdateFails(r) \/ ReturnError(r) \/ StoreFails(r) \/ TellFails(r)
         \/ Die(r)
  PROVE  SpentInv'
  <1>0. TypeOK /\ trouble \in Nat /\ Idle \notin Attempts
    BY MaxTroubleAssumption DEF IInv, TypeOK, Idle, Attempts, Phases
  <1>1. CASE Select(r) \/ Write(r) \/ Refuse(r) \/ UpdateFails(r) \/ Save(r)
    <2>1. PICK a \in Attempts :
            /\ work' = [work EXCEPT ![r] = a] /\ a.message = work[r].message
            /\ a.phase = "fail" => work[r].phase = "fail" \/ UpdateFails(r)
      BY <1>1, Proceeds
    <2>2. /\ r \in Busy /\ UNCHANGED <<due, tries, begun>> /\ trouble <= trouble'
          /\ UpdateFails(r) => trouble' = trouble + 1
      BY <1>0, <1>1
         DEF Select, Write, Refuse, UpdateFails, Save, Updating, In, Trouble
    <2> QED
      BY <2>1, <2>2, AttemptSpent
  <1>2. CASE Tell(r) \/ Delete(r)
    <2>1. /\ r \in Busy /\ work' = [work EXCEPT ![r] = Idle]
          /\ due' = due /\ tries' = tries /\ begun' = begun /\ trouble' = trouble
      BY <1>2 DEF Tell, Delete, Telling, In, Succeed
    <2>2. /\ trouble <= trouble' /\ UNCHANGED <<tries, begun>>
          /\ due' = due /\ (Idle \in Attempts /\ Idle.phase = "fail" => work[r].phase = "fail")
          /\ Idle \in Attempts => Idle.message = work[r].message
          /\ Idle \in Attempts \union {Idle}
      BY <1>0, <2>1
    <2> QED
      BY <2>1, <2>2, AttemptSpent, Zenon
  <1>3. ASSUME r \in Busy, GiveBack(r), UNCHANGED <<tries, begun>>,
               \/ trouble' = trouble + 1
               \/ trouble' = trouble /\ work[r].phase = "fail"
               \/ trouble' = trouble /\ ~Sound(work[r].message)
        PROVE  SpentInv'
    <2>1. /\ work' = [work EXCEPT ![r] = Idle] /\ trouble <= trouble'
          /\ due' = due \/ due' = due \union {work[r].message}
      BY <1>0, <1>3 DEF GiveBack
    <2> QED
      BY <1>0, <1>3, <2>1, AttemptSpent
  <1>4. CASE SaveRejected(r)
    <2>1. r \in Busy /\ ~Sound(work[r].message)
      BY <1>4, Rejected
    <2> QED
      BY <1>3, <1>4, <2>1 DEF SaveRejected
  <1>5. CASE ReturnError(r)
    BY <1>3, <1>5 DEF ReturnError, In
  <1>6. CASE StoreFails(r)
    BY <1>3, <1>6 DEF StoreFails, In, Trouble
  <1>7. CASE TellFails(r)
    BY <1>3, <1>7 DEF TellFails, Telling, In, Trouble
  <1>8. CASE Die(r)
    <2>1. CASE r \in Busy
      BY <1>3, <1>8, <2>1 DEF Die, Trouble
    <2>2. CASE r \notin Busy
      <3>1. UNCHANGED <<work, due, tries, begun>> /\ trouble' = trouble + 1
        BY <1>8, <2>2 DEF Die, Trouble
      <3> SUFFICES ASSUME NEW m \in Messages
          PROVE /\ m \notin begun => tries[m] = 0
                /\ Sound(m) => tries[m] + Cardinality(Failing(m)) + Again(m) <= trouble + 2
        BY <1>0, <3>1 DEF SpentInv, Sound, Recordable, Failing, Busy, Again
      <3>2. /\ m \notin begun => tries[m] = 0
            /\ Sound(m) => tries[m] + Cardinality(Failing(m)) + Again(m) <= trouble + 1
        BY DEF SpentInv
      <3>3. /\ tries[m] \in Nat /\ Again(m) \in {0, 1} /\ Cardinality(Failing(m)) \in Nat
        BY <1>0, FailingType DEF TypeOK, Again, StockInv
      <3> QED
        BY <1>0, <3>2, <3>3
    <2> QED
      BY <2>1, <2>2
  <1> QED
    BY <1>1, <1>2, <1>4, <1>5, <1>6, <1>7, <1>8

LEMMA SpentStep == IInv /\ StockInv /\ SpentInv /\ [Next]_vars => SpentInv'
  <1> SUFFICES ASSUME IInv, StockInv, SpentInv, [Next]_vars PROVE SpentInv'
    OBVIOUS
  <1>0. IInv'
    BY StepInv
  <1>1. CASE UNCHANGED vars
    BY <1>1 DEF vars, SpentInv, Sound, Recordable, Failing, Busy, Again
  <1>2. ASSUME NEW o \in Orders, Place(o) \/ Cancel(o) \/ Return(o) PROVE SpentInv'
    BY <1>2, MessageTypes, PublishSpent DEF Place, Cancel, Return
  <1>3. ASSUME NEW r \in Replicas, NEW o \in Orders,
               OnOrderPlaced(r, o) \/ OnOrderCancelled(r, o) \/ OnReturnRequested(r, o)
        PROVE  SpentInv'
    BY <1>3, HandlersSpent
  <1>4. ASSUME NEW r \in Replicas,
               \/ Select(r) \/ Write(r) \/ Refuse(r) \/ Save(r) \/ SaveRejected(r)
               \/ Tell(r) \/ Delete(r) \/ UpdateFails(r) \/ ReturnError(r)
               \/ StoreFails(r) \/ TellFails(r) \/ Die(r)
        PROVE  SpentInv'
    BY <1>0, <1>4, AttemptsSpent
  <1> QED
    BY <1>1, <1>2, <1>3, <1>4 DEF Next

LEMMA InitOwed == Init => OwedInv
  <1> SUFFICES ASSUME Init PROVE OwedInv
    OBVIOUS
  <1>1. Busy = {} /\ Published = {} /\ begun = {}
    BY DEF Init, Busy, Published
  <1>2. \A o \in Orders : ~Judged(o)
    BY DEF Init, Judged
  <1>3. SeenIsJudged
    BY DEF Init, SeenIsJudged
  <1> QED
    BY <1>1, <1>2, <1>3 DEF OwedInv, NothingForgotten, OwnMessage, FirstAttempt

LEMMA PublishOwed ==
  ASSUME IInv, StockInv, OwedInv, NEW m \in Messages, Publish(m)
  PROVE  OwedInv'
  <1>1. /\ m \notin begun /\ due' = due \union {m} /\ Published' = Published \union {m}
        /\ UNCHANGED <<reservations, told, seen, work, tries, begun, repeated, trouble>>
    BY DEF Publish, Published
  <1>2. Busy' = Busy /\ \A o : Judged(o)' = Judged(o)
    BY <1>1 DEF Busy, Judged
  <1>3. NothingForgotten'
    BY <1>1, <1>2 DEF OwedInv, NothingForgotten, OnItsWay, Exhausted, Sound, Recordable, Placed,
               Cancelled
  <1>4. OwnMessage' /\ SeenIsJudged'
    BY <1>1, <1>2 DEF OwedInv, OwnMessage, SeenIsJudged, Order, Cancelled, ReturnRequested
  <1>5. \A r \in Busy : work[r].message # m
    BY <1>1 DEF StockInv, WorkShape
  <1>6. FirstAttempt'
    BY <1>1, <1>2, <1>5 DEF OwedInv, FirstAttempt, Placed
  <1> QED
    BY <1>3, <1>4, <1>6 DEF OwedInv

\* A delivery owes what it was handed to the attempt it begins, if it begins one.
LEMMA DeliverOwed ==
  ASSUME IInv, IInv', StockInv, OwedInv, NEW r \in Replicas, NEW m \in Messages,
         Deliver(r, m), NEW a \in Attempts \union {Idle}, work' = [work EXCEPT ![r] = a],
         UNCHANGED seen,
         a \in Attempts =>
           /\ a.message = m
           /\ a.phase = "release" => m = Cancelled(m[2])
           /\ a.phase = "restock" => m = ReturnRequested(m[2]),
         a = Idle => \A o \in Orders :
           /\ m = Placed(o) => Judged(o)
           /\ m = Cancelled(o) => o \notin reservations
  PROVE  OwedInv'
  <1>0. TypeOK /\ r \notin Busy /\ Idle \notin Attempts
    BY DEF IInv, Deliver, Busy, Idle, Attempts, Phases
  <1>1. /\ begun' = begun \union {m} /\ due' = due \ {m} /\ (m \in due \/ m \in begun)
        /\ repeated' = (IF m \in begun THEN repeated \union {m} ELSE repeated)
        /\ UNCHANGED <<reservations, told>>
    BY DEF Deliver
  <1>2. /\ \A s \in Busy' : s # r => s \in Busy /\ work'[s] = work[s] /\ Order(s)' = Order(s)
        /\ r \in Busy' => a \in Attempts /\ work'[r] = a /\ Order(r)' = a.message[2]
    BY <1>0, OthersStay
  <1>3. \A s \in Busy : s \in Busy' /\ work'[s] = work[s]
    BY <1>0 DEF Busy, TypeOK
  <1>4. a \in Attempts => r \in Busy' /\ work'[r] = a
    BY <1>0 DEF Busy, TypeOK
  <1>5. Published' = Published /\ \A o : Judged(o)' = Judged(o)
    BY <1>1 DEF Published, Judged
  <1>6. \A x : OnItsWay(x) /\ x # m => OnItsWay(x)'
    BY <1>1, <1>3 DEF OnItsWay
  <1>7. a \in Attempts => OnItsWay(m)'
    BY <1>4 DEF OnItsWay
  <1>12. \A x \in Messages : Exhausted(x) => Exhausted(x)'
    <2>1. trouble <= trouble' /\ \A x \in Messages : tries[x] <= tries'[x]
      BY <1>0, MaxTroubleAssumption DEF Deliver, Trouble, TypeOK
    <2> QED
      BY <1>0, <2>1, ExhaustedStays DEF IInv
  <1>8. NothingForgotten'
    <2> SUFFICES ASSUME NEW o \in Orders
        PROVE /\ Placed(o) \in Published =>
                   OnItsWay(Placed(o))' \/ Judged(o) \/ Exhausted(Placed(o))'
              /\ Cancelled(o) \in Published =>
                   \/ OnItsWay(Cancelled(o))' \/ o \notin reservations \/ Placed(o) \in repeated'
                   \/ Exhausted(Cancelled(o))'
      BY <1>1, <1>5 DEF NothingForgotten, Placed, Cancelled
    <2>1. /\ Placed(o) \in Published =>
               OnItsWay(Placed(o)) \/ Judged(o) \/ Exhausted(Placed(o))
          /\ Cancelled(o) \in Published =>
               \/ OnItsWay(Cancelled(o)) \/ o \notin reservations \/ Placed(o) \in repeated
               \/ Exhausted(Cancelled(o))
      BY DEF OwedInv, NothingForgotten
    <2>2. repeated \subseteq repeated' /\ Placed(o) \in Messages /\ Cancelled(o) \in Messages
      BY <1>1, MessageTypes
    <2>3. CASE a \in Attempts
      BY <1>6, <1>7, <1>12, <2>1, <2>2, <2>3
    <2>4. CASE a = Idle
      BY <1>6, <1>12, <2>1, <2>2, <2>4
    <2> QED
      BY <2>3, <2>4
  <1>9. OwnMessage'
    BY <1>2 DEF OwedInv, OwnMessage, Cancelled, ReturnRequested
  <1>10. SeenIsJudged'
    BY <1>5 DEF OwedInv, SeenIsJudged
  <1>11. FirstAttempt'
    <2> SUFFICES ASSUME NEW o \in Orders
        PROVE /\ Placed(o) \notin begun' => ~Judged(o)
              /\ Placed(o) \notin repeated' =>
                   \A s \in Busy' : work'[s].message = Placed(o) =>
                     /\ ~Judged(o) /\ Placed(o) \notin due'
                     /\ \A t \in Busy' : work'[t].message = Placed(o) => t = s
      BY <1>5 DEF FirstAttempt, Placed
    <2>1. /\ Placed(o) \notin begun => ~Judged(o)
          /\ Placed(o) \notin repeated =>
               \A s \in Busy : work[s].message = Placed(o) =>
                 /\ ~Judged(o) /\ Placed(o) \notin due
                 /\ \A t \in Busy : work[t].message = Placed(o) => t = s
      BY DEF OwedInv, FirstAttempt
    <2>2. CASE m = Placed(o)
      <3>1. \A s \in Busy : work[s].message # m \/ m \in begun
        BY DEF StockInv, WorkShape
      <3> QED
        BY <1>1, <1>2, <2>1, <2>2, <3>1
    <2>3. CASE m # Placed(o)
      <3>1. r \in Busy' => work'[r].message # Placed(o)
        BY <1>2, <2>3
      <3> QED
        BY <1>1, <1>2, <2>1, <2>3, <3>1
    <2> QED
      BY <2>2, <2>3
  <1> QED
    BY <1>8, <1>9, <1>10, <1>11 DEF OwedInv

LEMMA HandlersOwed ==
  ASSUME IInv, StockInv, OwedInv, NEW r \in Replicas, NEW o \in Orders,
         OnOrderPlaced(r, o) \/ OnOrderCancelled(r, o) \/ OnReturnRequested(r, o)
  PROVE  OwedInv'
  <1>1. Items[o] \in Seq(Line) /\ IInv'
    BY ItemsAssumption, HandlersInv
  <1>2. CASE OnOrderPlaced(r, o)
    <2> DEFINE b == Attempt("reserve", Placed(o), Items[o])
               a == IF o \in seen[r] THEN Idle ELSE b
    <2>1. b \in Attempts /\ b.message = Placed(o) /\ b.phase = "reserve"
      BY <1>1, AttemptType, MessageTypes, "reserve" \in Phases DEF Phases
    <2>2. Deliver(r, Placed(o)) /\ work' = [work EXCEPT ![r] = a] /\ UNCHANGED seen
      BY <1>2 DEF OnOrderPlaced
    <2>3. Idle \notin Attempts
      BY DEF Idle, Attempts, Phases
    <2> HIDE DEF b
    <2>4. a \in Attempts \union {Idle}
          /\ (a \in Attempts => a.message = Placed(o) /\ a.phase = "reserve")
          /\ (a = Idle => Judged(o))
      BY <2>1, <2>3 DEF OwedInv, SeenIsJudged
    <2> HIDE DEF a
    <2>5. \A x \in Orders : a = Idle => /\ Placed(o) = Placed(x) => Judged(x)
                                       /\ Placed(o) # Cancelled(x)
      BY <2>4, Kinds
    <2> QED
      BY <1>1, <2>2, <2>4, <2>5, MessageTypes, DeliverOwed
  <1>3. CASE OnOrderCancelled(r, o)
    <2> DEFINE b == Attempt("release", Cancelled(o), Items[o])
               a == IF o \in reservations THEN b ELSE Idle
    <2>1. b \in Attempts /\ b.message = Cancelled(o) /\ b.phase = "release"
      BY <1>1, AttemptType, MessageTypes, "release" \in Phases DEF Phases
    <2>2. Deliver(r, Cancelled(o)) /\ work' = [work EXCEPT ![r] = a] /\ UNCHANGED seen
      BY <1>3 DEF OnOrderCancelled
    <2>3. Idle \notin Attempts
      BY DEF Idle, Attempts, Phases
    <2> HIDE DEF b
    <2>4. a \in Attempts \union {Idle}
          /\ (a \in Attempts => a.message = Cancelled(o) /\ a.phase = "release")
          /\ (a = Idle => o \notin reservations)
      BY <2>1, <2>3
    <2> HIDE DEF a
    <2>5. \A x \in Orders : a = Idle => /\ Cancelled(o) = Cancelled(x) => x \notin reservations
                                       /\ Cancelled(o) # Placed(x)
      BY <2>4, Kinds
    <2> QED
      BY <1>1, <2>2, <2>4, <2>5, MessageTypes, DeliverOwed
  <1>4. CASE OnReturnRequested(r, o)
    <2> DEFINE a == Attempt("restock", ReturnRequested(o), Items[o])
    <2>1. a \in Attempts /\ a.message = ReturnRequested(o) /\ a.phase = "restock"
      BY <1>1, AttemptType, MessageTypes, "restock" \in Phases DEF Phases
    <2>2. Deliver(r, ReturnRequested(o)) /\ work' = [work EXCEPT ![r] = a] /\ UNCHANGED seen
      BY <1>4 DEF OnReturnRequested
    <2>3. Idle \notin Attempts
      BY DEF Idle, Attempts, Phases
    <2> HIDE DEF a
    <2> QED
      BY <1>1, <2>1, <2>2, <2>3, MessageTypes, DeliverOwed
  <1> QED
    BY <1>2, <1>3, <1>4

\* A step of an attempt: what it owes stays with it, goes back to the bus, or is done.
LEMMA AttemptOwed ==
  ASSUME IInv, IInv', StockInv, OwedInv, NEW r \in Busy,
         NEW a \in Attempts \union {Idle}, work' = [work EXCEPT ![r] = a],
         UNCHANGED <<tries, begun, repeated>>, trouble <= trouble',
         due' = due \/ (a = Idle /\ due' = due \union {work[r].message}),
         a \in Attempts =>
           /\ a.message = work[r].message
           /\ a.phase \in {"release", "restock"} => a.phase = work[r].phase,
         \A o \in Orders :
           /\ Judged(o) => Judged(o)'
           /\ Judged(o)' => Judged(o) \/ (a = Idle /\ work[r].message = Placed(o)),
         \A s \in Replicas : \A o \in seen'[s] : o \in seen[s] \/ (o \in Orders /\ Judged(o)'),
         a = Idle =>
           \/ work[r].message \in due'
           \/ \E m \in Messages : m = work[r].message /\ Exhausted(m)'
           \/ \A o \in Orders :
                /\ work[r].message = Placed(o) => Judged(o)'
                /\ work[r].message = Cancelled(o) => o \notin reservations',
         \A o \in reservations' : o \in reservations \/ work[r].message = Placed(o)
  PROVE  OwedInv'
  <1>m. PICK m : m = work[r].message
    OBVIOUS
  <1>0. TypeOK /\ r \in Replicas /\ Idle \notin Attempts /\ m \in begun
    BY <1>m DEF IInv, Busy, Idle, Attempts, Phases, StockInv, WorkShape
  <1>1. /\ \A s \in Busy' : s # r => s \in Busy /\ work'[s] = work[s] /\ Order(s)' = Order(s)
        /\ r \in Busy' => a \in Attempts /\ work'[r] = a /\ Order(r)' = a.message[2]
    BY <1>0, OthersStay
  <1>2. \A s \in Busy : s # r => s \in Busy' /\ work'[s] = work[s]
    BY <1>0 DEF Busy, TypeOK
  <1>3. a \in Attempts => r \in Busy' /\ work'[r] = a
    BY <1>0 DEF Busy, TypeOK
  <1>4. Published' = Published
    BY <1>m, <1>0 DEF Published
  <1>5. \A x : OnItsWay(x) /\ x # m => OnItsWay(x)'
    BY <1>m, <1>2 DEF OnItsWay
  <1>6. a \in Attempts \/ m \in due' => OnItsWay(m)'
    BY <1>m, <1>3 DEF OnItsWay
  <1>7. m[2] = Order(r)
    BY <1>m DEF Order
  <1>8. NothingForgotten'
    <2> SUFFICES ASSUME NEW o \in Orders
        PROVE /\ Placed(o) \in Published =>
                   OnItsWay(Placed(o))' \/ Judged(o)' \/ Exhausted(Placed(o))'
              /\ Cancelled(o) \in Published =>
                   \/ OnItsWay(Cancelled(o))' \/ o \notin reservations' \/ Placed(o) \in repeated
                   \/ Exhausted(Cancelled(o))'
      BY <1>4 DEF NothingForgotten, Placed, Cancelled
    <2>1. /\ Placed(o) \in Published =>
               OnItsWay(Placed(o)) \/ Judged(o) \/ Exhausted(Placed(o))
          /\ Cancelled(o) \in Published =>
               \/ OnItsWay(Cancelled(o)) \/ o \notin reservations \/ Placed(o) \in repeated
               \/ Exhausted(Cancelled(o))
      BY DEF OwedInv, NothingForgotten
    <2>2. \/ OnItsWay(m)' \/ Exhausted(m)'
          \/ /\ m = Placed(o) => Judged(o)'
             /\ m = Cancelled(o) => o \notin reservations'
      BY <1>m, <1>6
    <2>3. Cancelled(o) \in Published /\ m = Placed(o) => Placed(o) \in repeated
      <3>1. Cancelled(o) \in Published => Judged(o)
        BY DEF StockInv, CancelOwed, Judged
      <3>2. m = Placed(o) /\ Placed(o) \notin repeated => ~Judged(o)
        BY <1>m DEF OwedInv, FirstAttempt
      <3> QED
        BY <3>1, <3>2
    <2>4. o \in reservations' => o \in reservations \/ m = Placed(o)
      BY <1>m
    <2>5. Judged(o) => Judged(o)'
      OBVIOUS
    <2>6. \A x \in {Placed(o), Cancelled(o)} : Exhausted(x) => Exhausted(x)'
      <3>1. TypeOK' /\ \A x \in Messages : tries[x] <= tries'[x]
        BY <1>0 DEF IInv, TypeOK
      <3> QED
        BY <1>0, <3>1, ExhaustedStays, MessageTypes
    <2>7. /\ m = Placed(o) => (Exhausted(m)' => Exhausted(Placed(o))')
          /\ m = Cancelled(o) => (Exhausted(m)' => Exhausted(Cancelled(o))')
      BY DEF Exhausted, Sound, Recordable, Placed, Cancelled
    <2> QED
      BY <1>5, <2>1, <2>2, <2>3, <2>4, <2>5, <2>6, <2>7
  <1>9. OwnMessage'
    <2> SUFFICES ASSUME NEW s \in Busy'
        PROVE /\ work'[s].phase = "release" => work'[s].message = Cancelled(Order(s)')
              /\ work'[s].phase = "restock" => work'[s].message = ReturnRequested(Order(s)')
      BY DEF OwnMessage, Cancelled, ReturnRequested
    <2>1. CASE s # r
      BY <1>1, <2>1 DEF OwedInv, OwnMessage
    <2>2. CASE s = r
      <3>1. work'[r] = a /\ a.message = m /\ Order(r)' = Order(r)
            /\ (a.phase \in {"release", "restock"} => a.phase = work[r].phase)
        BY <1>m, <1>1, <1>7, <2>2
      <3>2. /\ work[r].phase = "release" => m = Cancelled(Order(r))
            /\ work[r].phase = "restock" => m = ReturnRequested(Order(r))
        BY <1>m DEF OwedInv, OwnMessage
      <3> QED
        BY <2>2, <3>1, <3>2
    <2> QED
      BY <2>1, <2>2
  <1>10. SeenIsJudged'
    <2> SUFFICES ASSUME NEW s \in Replicas, NEW o \in seen'[s] PROVE Judged(o)'
      BY DEF SeenIsJudged
    <2>1. o \in seen[s] => o \in Orders /\ Judged(o)
      BY <1>0 DEF OwedInv, SeenIsJudged, TypeOK
    <2> QED
      BY <2>1
  <1>11. FirstAttempt'
    <2> SUFFICES ASSUME NEW o \in Orders
        PROVE /\ Placed(o) \notin begun => ~Judged(o)'
              /\ Placed(o) \notin repeated =>
                   \A s \in Busy' : work'[s].message = Placed(o) =>
                     /\ ~Judged(o)' /\ Placed(o) \notin due'
                     /\ \A t \in Busy' : work'[t].message = Placed(o) => t = s
      BY DEF FirstAttempt, Placed
    <2>1. /\ Placed(o) \notin begun => ~Judged(o)
          /\ Placed(o) \notin repeated =>
               \A s \in Busy : work[s].message = Placed(o) =>
                 /\ ~Judged(o) /\ Placed(o) \notin due
                 /\ \A t \in Busy : work[t].message = Placed(o) => t = s
      BY DEF OwedInv, FirstAttempt
    <2>2. Judged(o)' => Judged(o) \/ (a = Idle /\ m = Placed(o))
      BY <1>m
    <2>3. ASSUME NEW s \in Busy', work'[s].message = Placed(o)
          PROVE  s \in Busy /\ work[s].message = Placed(o) /\ (s = r => a # Idle)
      BY <1>0, <1>1, <2>3
    <2>4. Placed(o) \in due' => Placed(o) \in due \/ (a = Idle /\ m = Placed(o))
      BY <1>m
    <2> QED
      BY <1>0, <2>1, <2>2, <2>3, <2>4, <1>m
  <1> QED
    BY <1>8, <1>9, <1>10, <1>11 DEF OwedInv

\* What they owe stays with the attempt.
LEMMA OngoingOwed ==
  ASSUME IInv, IInv', StockInv, OwedInv, NEW r \in Replicas,
         Select(r) \/ Write(r) \/ Refuse(r) \/ UpdateFails(r) \/ Save(r)
  PROVE  OwedInv'
  <1>0. TypeOK /\ r \in Busy /\ work[r] \in Attempts /\ work[r].message \in Messages
        /\ work[r].done \in Seq(Line) /\ work[r].message[2] = Order(r)
    BY AttemptFields DEF IInv, Select, Write, Refuse, UpdateFails, Save, Updating, In
  <1>1. UNCHANGED <<told, seen, due, tries, begun, repeated>> /\ trouble <= trouble'
    BY <1>0, MaxTroubleAssumption
       DEF Select, Write, Refuse, UpdateFails, Save, Trouble, TypeOK
  <1>2. \A o : Judged(o)' = Judged(o)
    BY <1>1 DEF Judged
  <1>3. \A o \in reservations' : o \in reservations \/ work[r].message = Placed(o)
    <2>1. CASE Save(r)
      <3>1. work[r].message = Placed(Order(r)) /\ reservations' = reservations \union {Order(r)}
        BY <1>0, <2>1 DEF StockInv, WorkShape, Save, Saved, In
      <3> QED
        BY <3>1
    <2>2. CASE ~Save(r)
      BY <2>2 DEF Select, Write, Refuse, UpdateFails
    <2> QED
      BY <2>1, <2>2
  <1>4. PICK a \in Attempts :
          /\ work' = [work EXCEPT ![r] = a] /\ a.message = work[r].message
          /\ a.phase \in {"release", "restock"} => a.phase = work[r].phase
    BY Proceeds
  <1>5. Idle \notin Attempts
    BY DEF Idle, Attempts, Phases
  <1>6. \A s \in Replicas : \A o \in seen'[s] : o \in seen[s]
    BY <1>1
  <1> QED
    BY <1>0, <1>1, <1>2, <1>3, <1>4, <1>5, <1>6, AttemptOwed

\* Steps that end the attempt and give its message back.
LEMMA GivenBackOwed ==
  ASSUME IInv, IInv', StockInv, OwedInv, NEW r \in Busy, GiveBack(r),
         UNCHANGED <<tries, begun, repeated>>, trouble <= trouble',
         Sound(work[r].message) => tries[work[r].message] <= trouble',
         \A o \in reservations' : o \in reservations \/ work[r].message = Placed(o),
         \A o \in Orders :
           /\ Judged(o) => Judged(o)'
           /\ Judged(o)' => Judged(o) \/ work[r].message = Placed(o),
         \A s \in Replicas : seen'[s] \subseteq seen[s]
  PROVE  OwedInv'
  <1>1. /\ work' = [work EXCEPT ![r] = Idle]
        /\ due' = due \/ due' = due \union {work[r].message}
        /\ work[r].message \in due' \/ ~(tries[work[r].message] < MaxDeliver)
    BY DEF GiveBack
  <1>2. Idle \notin Attempts
    BY DEF Idle, Attempts, Phases
  <1>3. \A s \in Replicas : \A o \in seen'[s] : o \in seen[s]
    OBVIOUS
  <1>4. \/ work[r].message \in due'
        \/ \E m \in Messages : m = work[r].message /\ Exhausted(m)'
    <2>1. PICK m \in Messages : m = work[r].message
      BY AttemptFields DEF IInv
    <2>2. tries[m] \in Nat /\ tries'[m] = tries[m] /\ MaxDeliver \in Nat /\ trouble' \in Nat
      BY MaxDeliverAssumption, MaxTroubleAssumption DEF IInv, TypeOK
    <2>3. tries[m] >= MaxDeliver =>
            tries'[m] >= MaxDeliver /\ (Sound(m) => trouble' >= MaxDeliver)
      BY <2>1, <2>2
    <2>4. work[r].message \in due' \/ tries[m] >= MaxDeliver
      BY <1>1, <2>1, <2>2
    <2>5. Exhausted(m)' <=> tries'[m] >= MaxDeliver /\ (Sound(m) => trouble' >= MaxDeliver)
      BY DEF Exhausted, Sound, Recordable
    <2> QED
      BY <2>1, <2>3, <2>4, <2>5
  <1>5. \A o \in Orders :
          /\ Judged(o) => Judged(o)'
          /\ Judged(o)' => Judged(o) \/ (Idle = Idle /\ work[r].message = Placed(o))
    OBVIOUS
  <1> QED
    BY <1>1, <1>2, <1>3, <1>4, <1>5, AttemptOwed, Zenon

\* What is told about an order is its verdict only by an attempt for order.placed.
LEMMA AnswerOwed ==
  ASSUME IInv, StockInv, NEW r \in Replicas, Telling(r),
         told' = [told EXCEPT ![Order(r)] = @ \union {Answer(r)}]
  PROVE  /\ \A o \in Orders :
              /\ Judged(o) => Judged(o)'
              /\ Judged(o)' => Judged(o) \/ work[r].message = Placed(o)
         /\ work[r].phase # "restock" => work[r].message = Placed(Order(r)) /\ told'[Order(r)] \intersect Verdicts # {}
  <1>0. r \in Busy /\ TypeOK /\ Order(r) \in Orders
        /\ work[r].phase \in {"tell", "refuse", "restock"}
    BY AttemptFields DEF Telling, In, IInv
  <1>1. \A o \in Orders : told[o] \subseteq told'[o] /\ (o # Order(r) => told'[o] = told[o])
    BY <1>0 DEF TypeOK
  <1>2. told'[Order(r)] = told[Order(r)] \union {Answer(r)}
    BY <1>0 DEF TypeOK
  <1>3. work[r].phase # "restock" => work[r].message = Placed(Order(r))
    BY <1>0 DEF StockInv, WorkShape
  <1>4. IF work[r].phase = "restock" THEN Answer(r) \notin Verdicts ELSE Answer(r) \in Verdicts
    BY <1>0 DEF Answer, Verdicts
  <1> QED
    BY <1>1, <1>2, <1>3, <1>4 DEF Judged

\* Steps that end an attempt: what it was for is done, or its message is due again.
LEMMA EndsOwed ==
  ASSUME IInv, IInv', StockInv, SpentInv, OwedInv, NEW r \in Replicas,
         \/ Tell(r) \/ Delete(r) \/ SaveRejected(r) \/ ReturnError(r) \/ StoreFails(r)
         \/ TellFails(r) \/ Die(r)
  PROVE  OwedInv'
  <1>0. /\ TypeOK /\ Idle \notin Attempts /\ (r \in Busy => work[r].message[2] = Order(r))
        /\ trouble \in Nat
    BY MaxTroubleAssumption DEF IInv, TypeOK, Idle, Attempts, Phases, Order
  <1>1. CASE Tell(r)
    <2>1. r \in Busy /\ Telling(r) /\ Order(r) \in Orders
      BY <1>0, <1>1, AttemptFields DEF Tell, Telling, In
    <2>2. /\ told' = [told EXCEPT ![Order(r)] = @ \union {Answer(r)}]
          /\ work' = [work EXCEPT ![r] = Idle] /\ due' = due
          /\ UNCHANGED <<reservations, tries, begun, repeated, trouble>>
          /\ seen' = IF work[r].phase = "restock" THEN seen
                     ELSE [seen EXCEPT ![r] = @ \union {Order(r)}]
      BY <1>1 DEF Tell, Succeed
    <2>3. /\ \A o \in Orders :
               /\ Judged(o) => Judged(o)'
               /\ Judged(o)' => Judged(o) \/ work[r].message = Placed(o)
          /\ work[r].phase # "restock" => work[r].message = Placed(Order(r)) /\ told'[Order(r)] \intersect Verdicts # {}
      BY <2>1, <2>2, AnswerOwed
    <2>4. work[r].phase = "restock" => work[r].message = ReturnRequested(Order(r))
      BY <2>1 DEF OwedInv, OwnMessage
    <2>5. \A s \in Replicas : \A o \in seen'[s] : o \in seen[s] \/ (o \in Orders /\ Judged(o)')
      <3>1. \A o \in Orders : o = Order(r) /\ work[r].phase # "restock" => Judged(o)'
        BY <2>3 DEF Judged
      <3>2. \A s \in Replicas : \A o \in seen'[s] :
              o \in seen[s] \/ (o = Order(r) /\ work[r].phase # "restock")
        BY <1>0, <2>1, <2>2 DEF TypeOK
      <3> QED
        BY <2>1, <3>1, <3>2
    <2>6. \A o \in Orders : /\ work[r].message = Placed(o) => Judged(o)'
                            /\ work[r].message # Cancelled(o)
      <3>1. CASE work[r].phase = "restock"
        BY <2>4, <3>1, Kinds
      <3>2. CASE work[r].phase # "restock"
        BY <2>3, <3>2, Kinds DEF Judged
      <3> QED
        BY <3>1, <3>2
    <2>7. \A o \in reservations' : o \in reservations
      BY <2>2
    <2>8. trouble <= trouble'
      BY <1>0, <2>2
    <2>9. /\ Idle \in Attempts \union {Idle}
          /\ Idle \in Attempts =>
               /\ Idle.message = work[r].message
               /\ Idle.phase \in {"release", "restock"} => Idle.phase = work[r].phase
          /\ \A o \in Orders :
               /\ Judged(o) => Judged(o)'
               /\ Judged(o)' => Judged(o) \/ (Idle = Idle /\ work[r].message = Placed(o))
          /\ \A o \in Orders :
               /\ work[r].message = Placed(o) => Judged(o)'
               /\ work[r].message = Cancelled(o) => o \notin reservations'
      BY <1>0, <2>3, <2>6
    <2> QED
      BY <2>1, <2>2, <2>5, <2>7, <2>8, <2>9, AttemptOwed, Zenon
  <1>2. CASE Delete(r)
    <2>1. r \in Busy /\ work[r].phase = "release"
      BY <1>2 DEF Delete, In
    <2>2. /\ reservations' = reservations \ {Order(r)}
          /\ work' = [work EXCEPT ![r] = Idle] /\ due' = due
          /\ UNCHANGED <<told, seen, tries, begun, repeated, trouble>>
      BY <1>2 DEF Delete, Without, Succeed
    <2>3. work[r].message = Cancelled(Order(r))
      BY <2>1 DEF OwedInv, OwnMessage
    <2>4. \A o \in Orders : /\ work[r].message # Placed(o)
                            /\ work[r].message = Cancelled(o) => o \notin reservations'
      BY <2>2, <2>3, Kinds
    <2>5. \A o : Judged(o)' = Judged(o)
      BY <2>2 DEF Judged
    <2>6. \A o \in reservations' : o \in reservations
      BY <2>2
    <2>7. \A s \in Replicas : \A o \in seen'[s] : o \in seen[s]
      BY <2>2
    <2>8. trouble <= trouble'
      BY <1>0, <2>2
    <2>9. /\ Idle \in Attempts \union {Idle}
          /\ Idle \in Attempts =>
               /\ Idle.message = work[r].message
               /\ Idle.phase \in {"release", "restock"} => Idle.phase = work[r].phase
          /\ \A o \in Orders :
               /\ Judged(o) => Judged(o)'
               /\ Judged(o)' => Judged(o) \/ (Idle = Idle /\ work[r].message = Placed(o))
          /\ \A o \in Orders :
               /\ work[r].message = Placed(o) => Judged(o)'
               /\ work[r].message = Cancelled(o) => o \notin reservations'
          /\ \A s \in Replicas : \A o \in seen'[s] : o \in seen[s] \/ (o \in Orders /\ Judged(o)')
          /\ \A o \in reservations' : o \in reservations \/ work[r].message = Placed(o)
      BY <1>0, <2>4, <2>5, <2>6, <2>7
    <2> QED
      BY <2>1, <2>2, <2>8, <2>9, AttemptOwed, Zenon
  <1>3. CASE SaveRejected(r) \/ ReturnError(r)
    <2>1. /\ r \in Busy /\ GiveBack(r)
          /\ UNCHANGED <<reservations, told, seen, tries, begun, repeated, trouble>>
      BY <1>3 DEF SaveRejected, ReturnError, In
    <2>2. \A o : Judged(o)' = Judged(o)
      BY <2>1 DEF Judged
    <2>3. Sound(work[r].message) => tries[work[r].message] <= trouble'
      <3>1. CASE SaveRejected(r)
        BY <3>1, Rejected
      <3>2. CASE ReturnError(r)
        BY <2>1, <3>2, GivenBackSpent DEF ReturnError, In
      <3> QED
        BY <1>3, <3>1, <3>2
    <2> QED
      BY <1>0, <2>1, <2>2, <2>3, GivenBackOwed
  <1>6. CASE StoreFails(r)
    <2>1. /\ r \in Busy /\ GiveBack(r) /\ trouble' = trouble + 1
          /\ UNCHANGED <<told, seen, tries, begun, repeated>>
      BY <1>6 DEF StoreFails, In, Trouble
    <2>2. \A o : Judged(o)' = Judged(o)
      BY <2>1 DEF Judged
    <2>3. Sound(work[r].message) => tries[work[r].message] <= trouble'
      BY <2>1, GivenBackSpent
    <2>4. \A o \in reservations' : o \in reservations \/ work[r].message = Placed(o)
      <3>1. CASE In(r, "reserve") /\ reservations' = reservations \union {Order(r)}
        BY <3>1 DEF StockInv, WorkShape, In
      <3>2. CASE reservations' \subseteq reservations
        BY <3>2
      <3> QED
        BY <1>6, <3>1, <3>2 DEF StoreFails, Saved, Without
    <2> QED
      BY <1>0, <2>1, <2>2, <2>3, <2>4, GivenBackOwed
  <1>4. CASE TellFails(r)
    <2>1. /\ r \in Busy /\ Telling(r) /\ GiveBack(r) /\ trouble' = trouble + 1
          /\ UNCHANGED <<reservations, seen, tries, begun, repeated>>
      BY <1>4 DEF TellFails, Telling, In, Trouble
    <2>3. Sound(work[r].message) => tries[work[r].message] <= trouble'
      BY <2>1, GivenBackSpent
    <2>2. \A o \in Orders : /\ Judged(o) => Judged(o)'
                            /\ Judged(o)' => Judged(o) \/ work[r].message = Placed(o)
      <3>1. CASE told' = told
        BY <3>1 DEF Judged
      <3>2. CASE told' = [told EXCEPT ![Order(r)] = @ \union {Answer(r)}]
        BY <2>1, <3>2, AnswerOwed
      <3> QED
        BY <1>4, <3>1, <3>2 DEF TellFails
    <2> QED
      BY <1>0, <2>1, <2>2, <2>3, GivenBackOwed
  <1>5. CASE Die(r)
    <2>1. /\ seen' = [seen EXCEPT ![r] = {}]
          /\ UNCHANGED <<reservations, told, tries, begun, repeated>>
          /\ trouble' = trouble + 1
      BY <1>5 DEF Die, Trouble
    <2>2. \A o : Judged(o)' = Judged(o)
      BY <2>1 DEF Judged
    <2>3. \A s \in Replicas : seen'[s] \subseteq seen[s]
      BY <1>0, <2>1 DEF TypeOK
    <2>4. CASE r \in Busy
      <3>1. GiveBack(r)
        BY <1>5, <2>4 DEF Die
      <3>2. Sound(work[r].message) => tries[work[r].message] <= trouble'
        BY <2>1, <2>4, GivenBackSpent
      <3> QED
        BY <1>0, <2>1, <2>2, <2>3, <2>4, <3>1, <3>2, GivenBackOwed
    <2>5. CASE r \notin Busy
      <3>1. UNCHANGED <<work, due>>
        BY <1>5, <2>5 DEF Die
      <3>2. Busy' = Busy /\ Published' = Published
        BY <2>1, <3>1 DEF Busy, Published
      <3>3. OwnMessage' /\ FirstAttempt'
        BY <2>1, <2>2, <3>1, <3>2 DEF OwedInv, OwnMessage,
           FirstAttempt, Order, Placed, Cancelled, ReturnRequested
      <3>5. \A m \in Messages : Exhausted(m) => Exhausted(m)'
        BY <1>0, <2>1, ExhaustedStays DEF IInv, TypeOK
      <3>6. NothingForgotten'
        <4>1. \A m : OnItsWay(m)' <=> m \in due \/ \E x \in Busy : work[x].message = m
          BY <3>1, <3>2 DEF OnItsWay
        <4> SUFFICES ASSUME NEW o \in Orders
            PROVE /\ Placed(o) \in Published =>
                       OnItsWay(Placed(o)) \/ Judged(o) \/ Exhausted(Placed(o))'
                  /\ Cancelled(o) \in Published =>
                       \/ OnItsWay(Cancelled(o)) \/ o \notin reservations
                       \/ Placed(o) \in repeated \/ Exhausted(Cancelled(o))'
          BY <2>1, <2>2, <3>2, <4>1 DEF NothingForgotten, OnItsWay, Placed, Cancelled
        <4> QED
          BY <3>5, MessageTypes DEF OwedInv, NothingForgotten
      <3>4. SeenIsJudged'
        BY <2>2, <2>3 DEF OwedInv, SeenIsJudged
      <3> QED
        BY <3>3, <3>4, <3>6 DEF OwedInv
    <2> QED
      BY <2>4, <2>5
  <1> QED
    BY <1>1, <1>2, <1>3, <1>4, <1>5, <1>6

LEMMA OwedStep == IInv /\ StockInv /\ SpentInv /\ OwedInv /\ [Next]_vars => OwedInv'
  <1> SUFFICES ASSUME IInv, StockInv, SpentInv, OwedInv, [Next]_vars PROVE OwedInv'
    OBVIOUS
  <1>0. IInv'
    BY StepInv
  <1>1. CASE UNCHANGED vars
    <2>1. OwnMessage' /\ SeenIsJudged' /\ FirstAttempt'
      BY <1>1 DEF vars, OwedInv, OwnMessage, SeenIsJudged, FirstAttempt, Judged, Order, Busy,
         Placed, Cancelled, ReturnRequested
    <2>2. \A m : (Exhausted(m)' <=> Exhausted(m)) /\ (OnItsWay(m)' <=> OnItsWay(m))
      BY <1>1 DEF vars, Exhausted, Sound, Recordable, OnItsWay, Busy
    <2>3. NothingForgotten'
      BY <1>1, <2>2 DEF vars, OwedInv, NothingForgotten, Judged, Published, Placed, Cancelled
    <2> QED
      BY <2>1, <2>3 DEF OwedInv
  <1>2. ASSUME NEW o \in Orders, Place(o) \/ Cancel(o) \/ Return(o) PROVE OwedInv'
    BY <1>2, MessageTypes, PublishOwed DEF Place, Cancel, Return
  <1>3. ASSUME NEW r \in Replicas, NEW o \in Orders,
               OnOrderPlaced(r, o) \/ OnOrderCancelled(r, o) \/ OnReturnRequested(r, o)
        PROVE  OwedInv'
    BY <1>3, HandlersOwed
  <1>4. ASSUME NEW r \in Replicas,
               \/ Select(r) \/ Write(r) \/ Refuse(r) \/ Save(r) \/ SaveRejected(r)
               \/ Tell(r) \/ Delete(r) \/ UpdateFails(r) \/ ReturnError(r)
               \/ StoreFails(r) \/ TellFails(r) \/ Die(r)
        PROVE  OwedInv'
    BY <1>0, <1>4, OngoingOwed, EndsOwed
  <1> QED
    BY <1>1, <1>2, <1>3, <1>4 DEF Next

\* No placed order and no cancellation is forgotten, whatever fails, dies or is delivered
\* again: a placed order has its verdict, or its message is with the bus or with a
\* replica; a cancelled one has no reservation left, or its message is on its way, unless
\* order.placed was handled again, which reserves behind the cancellation.  The bus gives a
\* message up only after MaxDeliver deliveries, and those take as many failures - or an
\* order whose lines the reservations cannot hold.
THEOREM NothingIsForgotten == Spec => []NothingForgotten
  <1>1. Init => IInv /\ StockInv /\ SpentInv /\ OwedInv
    BY InitInv, InitStock, InitSpent, InitOwed
  <1>2. (IInv /\ StockInv /\ SpentInv /\ OwedInv) /\ [Next]_vars
          => (IInv /\ StockInv /\ SpentInv /\ OwedInv)'
    BY StepInv, StockStep, SpentStep, OwedStep
  <1>3. OwedInv => NothingForgotten
    BY DEF OwedInv
  <1> QED
    BY <1>1, <1>2, <1>3, PTL DEF Spec

\* However orders, cancellations and returns are interleaved, whatever fails or dies and
\* however often order.placed is delivered, the shelf, the reservations and the attempts
\* never hold more units of a product than were seeded and sent back, as long as no
\* cancellation and no return is handled twice; without a failure or a repetition they
\* hold exactly as many, of each product that no placed order wants whose lines the
\* reservations cannot hold.
THEOREM StockAlwaysAddsUp == Spec => []StockAddsUp
  BY StockInvariance, PTL DEF StockInv

\* Type correctness.
THEOREM TypeCorrect == Spec => []TypeOK
  BY Invariance, PTL DEF IInv

\* What an attempt has read under FOR UPDATE is what the row still holds when it is
\* written: no update of the stock is lost, whatever runs at the same time.
THEOREM NoLostUpdate == Spec => []ReadIsCurrent
  BY Invariance, PTL DEF IInv

\* stock.reserved is published about an order only with its reservation on record,
\* which stays until the order's cancellation is handled.
THEOREM ReservedStaysRecorded == Spec => []ReservedIsRecorded
  BY Invariance, PTL DEF IInv
=============================================================================
