--------------------------- MODULE OrderingProofs ---------------------------
(***************************************************************************)
(* The causality of an order's life, for any number of workers.            *)
(*                                                                         *)
(* NothingUnearned speaks of the table and the messages.  It is inductive  *)
(* once it is also known that every message was earned by its sender and   *)
(* that a worker acts on a status the order once had and on a message that *)
(* was really published; both stay true whoever overwrites the row.        *)
(*                                                                         *)
(* That no order is stuck rests on the row: until the order is shipped or  *)
(* cancelled no overlapping use case sets it back.                         *)
(***************************************************************************)
EXTENDS Ordering, TLAPS

FactsEarned ==
    /\ "payment.completed" \in facts => approved /\ "stock.reserved" \in facts
    /\ "shipping.dispatched" \in facts => Happened("CONFIRMED")
    /\ "payment.refunded" \in facts => Happened("RETURN_REQUESTED")

Arrived(m) == m \in facts \union {Request}

WorkEarned ==
    \A w \in Workers : work[w] # Idle => Happened(work[w].read) /\ Arrived(work[w].input)

IInv == TypeOK /\ NothingUnearned /\ FactsEarned /\ WorkEarned

\* No order, no message, no work: nothing to earn yet.
LEMMA InitInv == Init => IInv
  <1> SUFFICES ASSUME Init PROVE IInv
    OBVIOUS
  <1>1. TypeOK
    BY MaxDeliverAssumption DEF Init, TypeOK, Work, Idle
  <1>2. NothingUnearned /\ FactsEarned
    BY DEF Init, NothingUnearned, FactsEarned, Happened
  <1>3. WorkEarned
    BY DEF Init, WorkEarned
  <1> QED
    BY <1>1, <1>2, <1>3 DEF IInv

\* What happened and what was published is never taken back, so what a worker
\* relies on survives any step that leaves the worker alone.
LEMMA Survives ==
  ASSUME recorded \subseteq recorded', facts \subseteq facts',
         NEW w \in Workers, work'[w] = work[w],
         work[w] # Idle => Happened(work[w].read) /\ Arrived(work[w].input)
  PROVE  work'[w] # Idle => Happened(work[w].read)' /\ Arrived(work[w].input)'
  BY DEF Happened, Arrived

\* Whoever runs a use case was asked to.
LEMMA InputOf ==
  ASSUME NEW m \in Inputs
  PROVE  /\ UseCaseOf[m] \in {"ConfirmPaidOrder", "ShipOrder", "RequestReturn",
                              "MarkOrderRefunded", "CancelOrder"}
         /\ UseCaseOf[m] = "ConfirmPaidOrder" => m = "payment.completed"
         /\ UseCaseOf[m] = "ShipOrder" => m = "shipping.dispatched"
         /\ UseCaseOf[m] = "RequestReturn" => m = Request
         /\ UseCaseOf[m] = "MarkOrderRefunded" => m = "payment.refunded"
         /\ UseCaseOf[m] = "CancelOrder" => m \in {"payment.failed", "stock.reservation_failed"}
  BY DEF Inputs, UseCaseOf, Request

\* The deliveries owed stay between none and MaxDeliver, faults only add up.
LEMMA DeliveryType ==
  ASSUME TypeOK, NEW m
  PROVE  /\ Attempt(m) => left' \in [Awaited -> 0..MaxDeliver]
         /\ Acknowledge(m) => left' \in [Awaited -> 0..MaxDeliver]
         /\ Struck(m) => faults' \in [Awaited -> Nat]
  <1>1. MaxDeliver \in Nat \ {0}
    BY MaxDeliverAssumption
  <1>2. \A a \in Awaited : left[a] \in 0..MaxDeliver /\ faults[a] \in Nat
    BY DEF TypeOK
  <1>3. Attempt(m) => left' \in [Awaited -> 0..MaxDeliver]
    BY <1>1, <1>2 DEF Attempt
  <1>4. Acknowledge(m) => left' \in [Awaited -> 0..MaxDeliver]
    BY <1>1, <1>2 DEF Acknowledge
  <1>5. Struck(m) => faults' \in [Awaited -> Nat]
    BY <1>2 DEF Struck
  <1> QED
    BY <1>3, <1>4, <1>5

\* A path the aggregate accepts, written out: what the worker must have read.
LEMMA AcceptedPath ==
  ASSUME TypeOK, NEW w \in Workers, work[w] # Idle, Accepted(w)
  PROVE  \/ /\ UseCase(w) = "ConfirmPaidOrder"
            /\ Steps[UseCase(w)] = <<"PAID", "CONFIRMED">>
            /\ work[w].read = "PLACED"
         \/ /\ UseCase(w) = "ShipOrder"
            /\ Steps[UseCase(w)] = <<"SHIPPED">>
            /\ work[w].read = "CONFIRMED"
         \/ /\ UseCase(w) = "RequestReturn"
            /\ Steps[UseCase(w)] = <<"RETURN_REQUESTED">>
            /\ work[w].read = "SHIPPED"
         \/ /\ UseCase(w) = "MarkOrderRefunded"
            /\ Steps[UseCase(w)] = <<"REFUNDED">>
            /\ work[w].read = "RETURN_REQUESTED"
         \/ /\ UseCase(w) = "CancelOrder"
            /\ Steps[UseCase(w)] = <<"CANCELLED">>
            /\ work[w].read \in {"PLACED", "PAID"}
  <1> DEFINE u == UseCase(w)
             r == work[w].read
             path == <<r>> \o Steps[u]
  <1>1. r \in Statuses /\ u \in {"ConfirmPaidOrder", "ShipOrder", "RequestReturn",
                               "MarkOrderRefunded", "CancelOrder"}
    BY InputOf DEF TypeOK, Work, UseCase
  <1>2. \A i \in 1..Len(path) - 1 : <<path[i], path[i + 1]>> \in AllowedTransitions
    BY DEF Accepted
  <1>3. CASE u = "ConfirmPaidOrder"
    <2>1. Steps[u] = <<"PAID", "CONFIRMED">>
      BY <1>3 DEF Steps
    <2>2. Len(path) = 3 /\ path[1] = r /\ path[2] = "PAID"
      BY <2>1
    <2>3. <<r, "PAID">> \in AllowedTransitions
      BY <1>2, <2>2, 1 \in 1..2
    <2> QED
      BY <1>3, <2>1, <2>3 DEF AllowedTransitions
  <1>4. ASSUME NEW s \in Statuses, Steps[u] = <<s>>
        PROVE  <<r, s>> \in AllowedTransitions
    <2>1. Len(path) = 2 /\ path[1] = r /\ path[2] = s
      BY <1>4
    <2> QED
      BY <1>2, <2>1, 1 \in 1..1
  <1>5. CASE u = "ShipOrder"
    BY <1>4, <1>5 DEF Steps, AllowedTransitions, Statuses
  <1>6. CASE u = "RequestReturn"
    BY <1>4, <1>6 DEF Steps, AllowedTransitions, Statuses
  <1>7. CASE u = "MarkOrderRefunded"
    BY <1>4, <1>7 DEF Steps, AllowedTransitions, Statuses
  <1>8. CASE u = "CancelOrder"
    BY <1>4, <1>8 DEF Steps, AllowedTransitions, Statuses
  <1> QED
    BY <1>1, <1>3, <1>5, <1>6, <1>7, <1>8

\* Placing the order earns nothing but PLACED itself.
LEMMA PlaceInv == ASSUME IInv, Place PROVE IInv'
  <1> USE DEF IInv
  <1>1. recorded' = recorded \union {"PLACED"} /\ status' = "PLACED"
        /\ UNCHANGED <<facts, approved, work, delivery>>
    BY DEF Place, Record
  <1>2. TypeOK'
    BY <1>1 DEF TypeOK, Statuses, delivery
  <1>3. NothingUnearned' /\ FactsEarned'
    BY <1>1 DEF NothingUnearned, FactsEarned, Happened
  <1>4. WorkEarned'
    BY <1>1, Survives DEF WorkEarned
  <1> QED
    BY <1>2, <1>3, <1>4

\* A worker that reads the order reads a status it has now, for a message that
\* is there.
LEMMA FindInv ==
  ASSUME IInv, NEW w \in Workers, NEW m \in Inputs, Find(w, m)
  PROVE  IInv'
  <1> USE DEF IInv
  <1>1. /\ work' = [work EXCEPT ![w] = [input |-> m, read |-> status]]
        /\ status # None /\ Arrived(m) /\ Attempt(m)
        /\ UNCHANGED <<status, recorded, facts, approved, faults>>
    BY DEF Find, Arrived
  <1>2. TypeOK'
    <2>1. [input |-> m, read |-> status] \in Work
      BY <1>1 DEF TypeOK, Work
    <2>2. left' \in [Awaited -> 0..MaxDeliver]
      BY <1>1, DeliveryType
    <2> QED
      BY <1>1, <2>1, <2>2 DEF TypeOK
  <1>3. NothingUnearned' /\ FactsEarned'
    BY <1>1 DEF NothingUnearned, FactsEarned, Happened
  <1>4. WorkEarned'
    <2> SUFFICES ASSUME NEW v \in Workers, work'[v] # Idle
                 PROVE  Happened(work[v].read)' /\ Arrived(work[v].input)'
      BY DEF WorkEarned
    <2>1. CASE v = w
      <3>1. work'[v].input = m /\ work'[v].read = status
        BY <1>1, <2>1 DEF TypeOK
      <3>2. Happened(status)' /\ Arrived(m)'
        BY <1>1 DEF NothingUnearned, Happened, Arrived
      <3> QED
        BY <1>1, <3>1, <3>2 DEF Happened, Arrived
    <2>2. CASE v # w
      <3>1. work'[v] = work[v]
        BY <1>1, <2>2 DEF TypeOK
      <3> QED
        BY <1>1, <3>1, Survives DEF WorkEarned
    <2> QED
      BY <2>1, <2>2
  <1> QED
    BY <1>2, <1>3, <1>4

\* A worker that goes idle relies on nothing any more.
LEMMA FinishEarned ==
  ASSUME TypeOK, WorkEarned, NEW w \in Workers, Finish(w),
         recorded \subseteq recorded', facts \subseteq facts'
  PROVE  WorkEarned' /\ work' \in [Workers -> Work]
  <1>1. work' = [work EXCEPT ![w] = Idle]
    BY DEF Finish
  <1>2. work' \in [Workers -> Work]
    BY <1>1 DEF TypeOK, Work
  <1>3. WorkEarned'
    <2> SUFFICES ASSUME NEW v \in Workers, work'[v] # Idle
                 PROVE  Happened(work[v].read)' /\ Arrived(work[v].input)'
      BY DEF WorkEarned
    <2>1. work'[v] = work[v]
      BY <1>1 DEF TypeOK
    <2> QED
      BY <2>1, Survives DEF WorkEarned
  <1> QED
    BY <1>2, <1>3

\* Save, use case by use case: the new status is earned by what the worker read
\* and by the message it acts on, even if the row has moved on meanwhile.
LEMMA SaveInv == ASSUME IInv, NEW w \in Workers, Save(w) PROVE IInv'
  <1> USE DEF IInv
  <1> DEFINE u == UseCase(w)
             path == Steps[u]
  <1>1. /\ work[w] # Idle /\ Accepted(w) /\ Finish(w)
        /\ status' = path[Len(path)]
        /\ recorded' = recorded \union {path[i] : i \in 1..Len(path)}
        /\ Acknowledge(work[w].input)
        /\ UNCHANGED <<facts, approved, faults>>
    BY DEF Save, Record
  <1>2. /\ Happened(work[w].read) /\ Arrived(work[w].input)
        /\ work[w].input \in Inputs /\ u = UseCaseOf[work[w].input]
        /\ left' \in [Awaited -> 0..MaxDeliver]
    BY <1>1, DeliveryType DEF WorkEarned, TypeOK, Work, UseCase
  <1>3. WorkEarned' /\ work' \in [Workers -> Work]
    BY <1>1, FinishEarned
  <1>4. CASE u = "ConfirmPaidOrder"
    <2>1. path = <<"PAID", "CONFIRMED">>
      BY <1>1, <1>4, AcceptedPath
    <2>2. status' = "CONFIRMED" /\ recorded' = recorded \union {"PAID", "CONFIRMED"}
      BY <1>1, <2>1
    <2>3. "payment.completed" \in facts
      BY <1>2, <1>4, InputOf DEF Arrived, Request
    <2> QED
      BY <1>1, <1>2, <1>3, <2>2, <2>3
         DEF TypeOK, Statuses, NothingUnearned, FactsEarned, Happened
  <1>5. CASE u = "ShipOrder"
    <2>1. path = <<"SHIPPED">> /\ work[w].read = "CONFIRMED"
      BY <1>1, <1>5, AcceptedPath
    <2>2. status' = "SHIPPED" /\ recorded' = recorded \union {"SHIPPED"}
      BY <1>1, <2>1
    <2>3. "shipping.dispatched" \in facts
      BY <1>2, <1>5, InputOf DEF Arrived, Request
    <2> QED
      BY <1>1, <1>2, <1>3, <2>1, <2>2, <2>3
         DEF TypeOK, Statuses, NothingUnearned, FactsEarned, Happened
  <1>6. CASE u = "RequestReturn"
    <2>1. path = <<"RETURN_REQUESTED">> /\ work[w].read = "SHIPPED"
      BY <1>1, <1>6, AcceptedPath
    <2>2. status' = "RETURN_REQUESTED" /\ recorded' = recorded \union {"RETURN_REQUESTED"}
      BY <1>1, <2>1
    <2> QED
      BY <1>1, <1>2, <1>3, <2>1, <2>2
         DEF TypeOK, Statuses, NothingUnearned, FactsEarned, Happened
  <1>7. CASE u = "MarkOrderRefunded"
    <2>1. path = <<"REFUNDED">> /\ work[w].read = "RETURN_REQUESTED"
      BY <1>1, <1>7, AcceptedPath
    <2>2. status' = "REFUNDED" /\ recorded' = recorded \union {"REFUNDED"}
      BY <1>1, <2>1
    <2>3. "payment.refunded" \in facts
      BY <1>2, <1>7, InputOf DEF Arrived, Request
    <2> QED
      BY <1>1, <1>2, <1>3, <2>1, <2>2, <2>3
         DEF TypeOK, Statuses, NothingUnearned, FactsEarned, Happened
  <1>8. CASE u = "CancelOrder"
    <2>1. path = <<"CANCELLED">>
      BY <1>1, <1>8, AcceptedPath
    <2>2. status' = "CANCELLED" /\ recorded' = recorded \union {"CANCELLED"}
      BY <1>1, <2>1
    <2>3. facts \intersect {"payment.failed", "stock.reservation_failed"} # {}
      BY <1>2, <1>8, InputOf DEF Arrived, Request
    <2>4. Happened("PLACED")
      BY <2>3 DEF NothingUnearned
    <2> QED
      BY <1>1, <1>2, <1>3, <2>2, <2>3, <2>4
         DEF TypeOK, Statuses, NothingUnearned, FactsEarned, Happened
  <1> QED
    BY <1>1, <1>4, <1>5, <1>6, <1>7, <1>8, AcceptedPath

\* A refused transition and a failed write change no row.
LEMMA StopInv ==
  ASSUME IInv, NEW w \in Workers, Refuse(w) \/ Fail(w)
  PROVE  IInv'
  <1> USE DEF IInv
  <1>1. Finish(w) /\ UNCHANGED <<status, recorded, facts, approved, left>>
        /\ faults' \in [Awaited -> Nat]
    <2>1. Finish(w) /\ UNCHANGED <<status, recorded, facts, approved, left>>
      BY DEF Refuse, Fail, delivery
    <2>2. CASE Refuse(w)
      BY <2>2 DEF Refuse, delivery, TypeOK
    <2>3. CASE Fail(w)
      BY <2>3, DeliveryType DEF Fail
    <2> QED
      BY <2>1, <2>2, <2>3
  <1>2. WorkEarned' /\ work' \in [Workers -> Work]
    BY <1>1, FinishEarned
  <1> QED
    BY <1>1, <1>2 DEF TypeOK, NothingUnearned, FactsEarned, Happened

\* Each context publishes only what the events it listens to entitle it to.
LEMMA OthersInv ==
  ASSUME IInv, OnOrderPlaced \/ OnStockReserved \/ OnOrderConfirmed \/ OnReturnRequested
  PROVE  IInv'
  <1> USE DEF IInv
  <1>1. PICK m \in Messages :
          /\ facts' = facts \union {m}
          /\ m \in {"stock.reserved", "stock.reservation_failed"} => "PLACED" \in recorded
          /\ m = "payment.completed" => approved /\ "stock.reserved" \in facts
          /\ m = "payment.failed" => "stock.reserved" \in facts
          /\ m = "shipping.dispatched" => "CONFIRMED" \in recorded
          /\ m = "payment.refunded" => "RETURN_REQUESTED" \in recorded
    BY DEF OnOrderPlaced, OnStockReserved, OnOrderConfirmed, OnReturnRequested, Tell, Messages
  <1>2. UNCHANGED <<status, recorded, approved, work, faults>>
        /\ \E e : Acknowledge(e)
    BY DEF OnOrderPlaced, OnStockReserved, OnOrderConfirmed, OnReturnRequested, Tell
  <1>6. left' \in [Awaited -> 0..MaxDeliver]
    BY <1>2, DeliveryType
  <1>3. TypeOK'
    BY <1>1, <1>2, <1>6 DEF TypeOK
  <1>4. FactsEarned' /\ NothingUnearned'
    BY <1>1, <1>2 DEF FactsEarned, NothingUnearned, Happened, Messages
  <1>5. WorkEarned'
    BY <1>1, <1>2, Survives DEF WorkEarned
  <1> QED
    BY <1>3, <1>4, <1>5

\* A context that fails has told nobody.
LEMMA ContextFailsInv ==
  ASSUME IInv, NEW e \in Awaited, ContextFails(e)
  PROVE  IInv'
  <1> USE DEF IInv
  <1>1. UNCHANGED <<status, recorded, facts, approved, work>> /\ Attempt(e) /\ Struck(e)
    BY DEF ContextFails
  <1>2. TypeOK'
    BY <1>1, DeliveryType DEF TypeOK
  <1>3. NothingUnearned' /\ FactsEarned'
    BY <1>1 DEF NothingUnearned, FactsEarned, Happened
  <1>4. WorkEarned'
    BY <1>1, Survives DEF WorkEarned
  <1> QED
    BY <1>2, <1>3, <1>4

\* Every step of the module keeps the invariant.
THEOREM StepInv == IInv /\ [Next]_vars => IInv'
  <1> SUFFICES ASSUME IInv, [Next]_vars PROVE IInv'
    OBVIOUS
  <1>1. CASE Place
    BY <1>1, PlaceInv
  <1>2. CASE OnOrderPlaced \/ OnStockReserved \/ OnOrderConfirmed \/ OnReturnRequested
    BY <1>2, OthersInv
  <1>3. ASSUME NEW w \in Workers, NEW m \in Inputs, Find(w, m) PROVE IInv'
    BY <1>3, FindInv
  <1>4. ASSUME NEW w \in Workers, Save(w) PROVE IInv'
    BY <1>4, SaveInv
  <1>5. ASSUME NEW w \in Workers, Refuse(w) \/ Fail(w) PROVE IInv'
    BY <1>5, StopInv
  <1>6. CASE UNCHANGED vars
    <2> USE <1>6 DEF vars, delivery
    <2>1. TypeOK' /\ NothingUnearned' /\ FactsEarned'
      BY DEF IInv, TypeOK, NothingUnearned, FactsEarned, Happened
    <2>2. WorkEarned'
      BY Survives DEF IInv, WorkEarned
    <2> QED
      BY <2>1, <2>2 DEF IInv
  <1>7. ASSUME NEW e \in Awaited, ContextFails(e) PROVE IInv'
    BY <1>7, ContextFailsInv
  <1> QED
    BY <1>1, <1>2, <1>3, <1>4, <1>5, <1>6, <1>7 DEF Next

\* The invariant holds in every reachable state.
THEOREM Invariance == Spec => []IInv
  <1>1. Init => IInv
    BY InitInv
  <1>2. IInv /\ [Next]_vars => IInv'
    BY StepInv
  <1> QED
    BY <1>1, <1>2, PTL DEF Spec

\* Type correctness.
THEOREM TypeCorrect == Spec => []TypeOK
  <1>1. IInv => TypeOK
    BY DEF IInv
  <1> QED
    BY <1>1, Invariance, PTL

\* No stage of an order's life without what earns it in the other contexts,
\* however many replicas overwrite each other (order_lifecycle.go).
THEOREM NothingEverUnearned == Spec => []NothingUnearned
  <1>1. IInv => NothingUnearned
    BY DEF IInv
  <1> QED
    BY <1>1, Invariance, PTL

-----------------------------------------------------------------------------
\* No dead end

\* The message is there, and its use case finds the row in a status it starts from.
MovesOn(m) == m \in facts /\ <<status, Steps[UseCaseOf[m]][1]>> \in AllowedTransitions

\* An order that is neither shipped nor cancelled waits for inventory, for payment, for
\* shipping, or for a use case that can move it on.
SomebodyOwes ==
    Happened("PLACED") /\ ~Happened("SHIPPED") /\ ~Happened("CANCELLED") =>
      \/ facts = {}
      \/ facts = {"stock.reserved"}
      \/ Happened("CONFIRMED") /\ "shipping.dispatched" \notin facts
      \/ \E m \in Awaited \intersect Inputs : MovesOn(m)

\* Until then nothing moves the row but the confirmation.
RowIsWhereItWas ==
    /\ status = None => recorded = {}
    /\ ~Happened("SHIPPED") /\ ~Happened("CANCELLED") =>
         status = IF Happened("CONFIRMED") THEN "CONFIRMED"
                  ELSE IF Happened("PLACED") THEN "PLACED" ELSE None

LEMMA RowStep == IInv /\ RowIsWhereItWas /\ [Next]_vars => RowIsWhereItWas'
  <1> SUFFICES ASSUME IInv, RowIsWhereItWas, [Next]_vars PROVE RowIsWhereItWas'
    OBVIOUS
  <1>1. CASE Place
    BY <1>1 DEF Place, Record, RowIsWhereItWas, Happened, None
  <1>2. ASSUME NEW w \in Workers, Save(w) PROVE RowIsWhereItWas'
    <2> DEFINE path == Steps[UseCase(w)]
    <2>1. /\ work[w] # Idle /\ Accepted(w)
          /\ status' = path[Len(path)]
          /\ recorded' = recorded \union {path[i] : i \in 1..Len(path)}
      BY <1>2 DEF Save, Record
    <2>2. ASSUME NEW s, path = <<s>> PROVE status' = s /\ recorded' = recorded \union {s}
      <3> HIDE DEF path
      <3>1. Len(path) = 1 /\ path[1] = s
        BY <2>2
      <3> QED
        BY <2>1, <3>1
    <2>3. Happened(work[w].read) /\ NothingUnearned
      BY <2>1 DEF IInv, WorkEarned
    <2>4. CASE UseCase(w) = "ConfirmPaidOrder"
      <3>1. path = <<"PAID", "CONFIRMED">> /\ work[w].read = "PLACED"
        BY <2>1, <2>4, AcceptedPath DEF IInv
      <3>2. status' = "CONFIRMED" /\ recorded' = recorded \union {"PAID", "CONFIRMED"}
        BY <2>1, <3>1
      <3> QED
        BY <3>2 DEF RowIsWhereItWas, Happened, None
    <2>5. CASE UseCase(w) \in {"ShipOrder", "CancelOrder"}
      <3>1. PICK s \in {"SHIPPED", "CANCELLED"} : path = <<s>>
        BY <2>1, <2>5, AcceptedPath DEF IInv
      <3>2. status' = s /\ s \in recorded'
        BY <2>1, <2>2, <3>1
      <3> QED
        BY <3>2 DEF RowIsWhereItWas, Happened, None
    <2>6. CASE UseCase(w) \in {"RequestReturn", "MarkOrderRefunded"}
      <3>1. PICK s \in {"RETURN_REQUESTED", "REFUNDED"} :
              path = <<s>> /\ work[w].read \in {"SHIPPED", "RETURN_REQUESTED"}
        BY <2>1, <2>6, AcceptedPath DEF IInv
      <3>2. status' # None /\ recorded \subseteq recorded'
        BY <2>1, <2>2, <3>1 DEF None
      <3>3. Happened("SHIPPED")
        BY <2>3, <3>1 DEF NothingUnearned
      <3> QED
        BY <3>2, <3>3 DEF RowIsWhereItWas, Happened
    <2> QED
      BY <2>1, <2>4, <2>5, <2>6, AcceptedPath DEF IInv
  <1>3. CASE UNCHANGED <<status, recorded>>
    BY <1>3 DEF RowIsWhereItWas, Happened
  <1>4. ASSUME NEW w \in Workers, Refuse(w) \/ Fail(w) PROVE UNCHANGED <<status, recorded>>
    BY <1>4 DEF Refuse, Fail
  <1>5. ASSUME NEW w \in Workers, NEW m \in Inputs, Find(w, m)
        PROVE  UNCHANGED <<status, recorded>>
    BY <1>5 DEF Find
  <1>6. CASE OnOrderPlaced \/ OnStockReserved \/ OnOrderConfirmed \/ OnReturnRequested
    <2>1. UNCHANGED <<status, recorded>>
      BY <1>6 DEF OnOrderPlaced, OnStockReserved, OnOrderConfirmed, OnReturnRequested, Tell
    <2> QED
      BY <1>3, <2>1
  <1>7. ASSUME NEW e \in Awaited, ContextFails(e) PROVE UNCHANGED <<status, recorded>>
    BY <1>7 DEF ContextFails
  <1>8. CASE UNCHANGED vars
    BY <1>3, <1>8 DEF vars
  <1> QED
    BY <1>1, <1>2, <1>3, <1>4, <1>5, <1>6, <1>7, <1>8 DEF Next

\* No placed order gets stuck between the contexts, however use cases overlap: until it
\* is shipped or cancelled inventory owes an answer, payment a decision, shipping a
\* dispatch - or the use case that moves it on is triggered and finds the row, which
\* nobody has set back, in a status the aggregate accepts.
THEOREM NoOrderIsStuck == Spec => []SomebodyOwes
  <1>1. Init => IInv /\ RowIsWhereItWas
    BY InitInv DEF Init, RowIsWhereItWas, Happened
  <1>2. (IInv /\ RowIsWhereItWas) /\ [Next]_vars => (IInv /\ RowIsWhereItWas)'
    BY StepInv, RowStep
  <1>3. IInv /\ RowIsWhereItWas => SomebodyOwes
    <2> SUFFICES ASSUME IInv, RowIsWhereItWas, Happened("PLACED"), ~Happened("SHIPPED"),
                        ~Happened("CANCELLED")
                 PROVE  \/ facts = {}
                        \/ facts = {"stock.reserved"}
                        \/ Happened("CONFIRMED") /\ "shipping.dispatched" \notin facts
                        \/ \E m \in Awaited \intersect Inputs : MovesOn(m)
      BY DEF SomebodyOwes
    <2>1. CASE Happened("CONFIRMED")
      <3>1. status = "CONFIRMED"
        BY <2>1 DEF RowIsWhereItWas
      <3>2. Steps[UseCaseOf["shipping.dispatched"]][1] = "SHIPPED"
        BY DEF Steps, UseCaseOf, Request
      <3>3. "shipping.dispatched" \in facts => MovesOn("shipping.dispatched")
        BY <3>1, <3>2 DEF MovesOn, AllowedTransitions
      <3> QED
        BY <2>1, <3>3 DEF Awaited, Inputs, UseCaseOf
    <2>2. CASE ~Happened("CONFIRMED")
      <3>1. status = "PLACED"
        BY <2>2 DEF RowIsWhereItWas
      <3>2. "shipping.dispatched" \notin facts /\ "payment.refunded" \notin facts
        BY <2>2 DEF IInv, FactsEarned, NothingUnearned
      <3>3. ASSUME facts # {}, facts # {"stock.reserved"}
            PROVE  \/ "payment.completed" \in facts
                   \/ facts \intersect {"payment.failed", "stock.reservation_failed"} # {}
        <4>1. facts \subseteq Messages
          BY DEF IInv, TypeOK
        <4>2. PICK m \in facts : m # "stock.reserved"
          BY <3>3
        <4> QED
          BY <3>2, <4>1, <4>2 DEF Messages
      <3>4. /\ Steps[UseCaseOf["payment.completed"]][1] = "PAID"
            /\ Steps[UseCaseOf["payment.failed"]][1] = "CANCELLED"
            /\ Steps[UseCaseOf["stock.reservation_failed"]][1] = "CANCELLED"
        BY DEF Steps, UseCaseOf, Request
      <3>5. "payment.completed" \in facts => MovesOn("payment.completed")
        BY <3>1, <3>4 DEF MovesOn, AllowedTransitions
      <3>6. \A m \in facts \intersect {"payment.failed", "stock.reservation_failed"} : MovesOn(m)
        BY <3>1, <3>4 DEF MovesOn, AllowedTransitions
      <3> QED
        BY <3>3, <3>5, <3>6 DEF Awaited, Inputs, UseCaseOf
    <2> QED
      BY <2>1, <2>2
  <1> QED
    BY <1>1, <1>2, <1>3, PTL DEF Spec
=============================================================================
