------------------------------ MODULE Ordering ------------------------------
(***************************************************************************)
(* The life of one order over PostgreSQL: the use cases of                 *)
(* internal/ordering/app, run by any replica for a message of another      *)
(* context (internal/ordering/infra/saga_consumer.go) or for a request of  *)
(* its owner, and the contexts that answer its events - inventory, payment *)
(* and shipping, seen from the order only.                                 *)
(*                                                                         *)
(* A use case reads the order (FindByID), lets the aggregate decide and    *)
(* writes it back (Save).  Nothing is locked in between and Save is an     *)
(* unconditional upsert, so use cases that overlap overwrite each other.   *)
(*                                                                         *)
(* What a context has published may be handled at any later time and       *)
(* again: the bus redelivers what is not acknowledged in time, contexts    *)
(* without an outbox publish again when they are redelivered to, letters   *)
(* are put back.  So a message is a fact that stays.  But nobody owes a    *)
(* message more than MaxDeliver deliveries: then it is buried.             *)
(* Orders share no row: one is enough.                                     *)
(***************************************************************************)
EXTENDS Naturals, Sequences, Functions

CONSTANTS
    Workers,    \* goroutines of all replicas that may run a use case
    Approvable, \* what payment may decide about this order's amount
    MaxDeliver, \* deliveries of a message to a durable (5)
    MaxFaults   \* bound: faults that strike a delivery

ASSUME ApprovableAssumption == Approvable \subseteq BOOLEAN /\ Approvable # {}
ASSUME MaxDeliverAssumption == MaxDeliver \in Nat \ {0}

VARIABLES
    status,     \* orders.status, None when there is no row
    recorded,   \* the transitions whose event is in the outbox
    facts,      \* messages the other contexts have published about the order
    approved,   \* whether the amount passes payment's checks
    work,       \* what each worker is doing
    left,       \* the deliveries of a message that are still owed
    faults      \* the deliveries of a message that a fault struck (history)

delivery == <<left, faults>>
vars == <<status, recorded, facts, approved, work, delivery>>

None == "NONE"
Statuses == {"PLACED", "PAID", "CONFIRMED", "SHIPPED", "CANCELLED",
             "RETURN_REQUESTED", "REFUNDED"}

\* A transition to a status records the event of the same name.
\* Mutant: an order can be returned before it is shipped.
AllowedTransitionsUnpaid ==
    {<<"PLACED", "PAID">>, <<"PLACED", "CANCELLED">>,
     <<"PAID", "CONFIRMED">>, <<"PAID", "CANCELLED">>,
     <<"CONFIRMED", "SHIPPED">>, <<"PLACED", "RETURN_REQUESTED">>,
     <<"SHIPPED", "RETURN_REQUESTED">>, <<"RETURN_REQUESTED", "REFUNDED">>}
AllowedTransitions ==
    {<<"PLACED", "PAID">>, <<"PLACED", "CANCELLED">>,
     <<"PAID", "CONFIRMED">>, <<"PAID", "CANCELLED">>,
     <<"CONFIRMED", "SHIPPED">>,
     <<"SHIPPED", "RETURN_REQUESTED">>, <<"RETURN_REQUESTED", "REFUNDED">>}

Messages == {"stock.reserved", "stock.reservation_failed", "payment.completed",
             "payment.failed", "payment.refunded", "shipping.dispatched"}

\* What makes a worker run a use case: the consumer's message, or a request
\* (PlaceOrder apart).
Request == "POST /orders/{id}/return"
UseCaseOf == [m \in {"payment.completed", "payment.failed", "payment.refunded",
                     "shipping.dispatched", "stock.reservation_failed", Request} |->
    CASE m = "payment.completed"   -> "ConfirmPaidOrder"
      [] m = "shipping.dispatched" -> "ShipOrder"
      [] m = Request               -> "RequestReturn"
      [] m = "payment.refunded"    -> "MarkOrderRefunded"
      [] OTHER                     -> "CancelOrder"]
Inputs == DOMAIN UseCaseOf

\* The messages, to ordering and to the contexts that answer it, whose deliveries an
\* order needs until it is shipped or cancelled.
Awaited == {"order.placed", "stock.reserved", "stock.reservation_failed",
            "payment.completed", "payment.failed", "order.confirmed", "shipping.dispatched"}

\* The transitions a use case asks the aggregate for, in order.
Steps == [ConfirmPaidOrder  |-> <<"PAID", "CONFIRMED">>,
          ShipOrder         |-> <<"SHIPPED">>,
          RequestReturn     |-> <<"RETURN_REQUESTED">>,
          MarkOrderRefunded |-> <<"REFUNDED">>,
          CancelOrder       |-> <<"CANCELLED">>]

Idle == [input |-> None, read |-> None]
Work == [input : Inputs, read : Statuses] \union {Idle}
UseCase(w) == UseCaseOf[work[w].input]

TypeOK ==
    /\ status \in Statuses \union {None}
    /\ recorded \subseteq Statuses
    /\ facts \subseteq Messages
    /\ approved \in Approvable
    /\ work \in [Workers -> Work]
    /\ left \in [Awaited -> 0..MaxDeliver]
    /\ faults \in [Awaited -> Nat]

Init ==
    /\ status = None
    /\ recorded = {}
    /\ facts = {}
    /\ approved \in Approvable
    /\ work = [w \in Workers |-> Idle]
    /\ left = [m \in Awaited |-> MaxDeliver]
    /\ faults = [m \in Awaited |-> 0]

-----------------------------------------------------------------------------
\* Ordering

\* Mutant: the events are not part of Save's transaction, and are lost.
RecordNothing(S) == recorded
Record(S) == recorded \union S

\* POST /orders: PlaceOrder saves a new order under a fresh id.
Place ==
    /\ status = None
    /\ status' = "PLACED"
    /\ recorded' = Record({"PLACED"})
    /\ UNCHANGED <<facts, approved, work, delivery>>

\* A delivery is made; one that nobody owes any more may be made as well.
Attempt(m) == left' = [a \in Awaited |-> IF a = m /\ left[a] > 0 THEN left[a] - 1 ELSE left[a]]

\* The handler has succeeded and the message is not owed again.
Acknowledge(m) == left' = [a \in Awaited |-> IF a = m THEN 0 ELSE left[a]]

Struck(m) ==
    /\ m \in Awaited => SumFunctionOnSet(faults, Awaited) < MaxFaults
    /\ faults' = [a \in Awaited |-> IF a = m THEN faults[a] + 1 ELSE faults[a]]

\* FindByID.
Find(w, m) ==
    /\ work[w] = Idle
    /\ status # None
    /\ m \in facts \union {Request}
    /\ work' = [work EXCEPT ![w] = [input |-> m, read |-> status]]
    /\ Attempt(m)
    /\ UNCHANGED <<status, recorded, facts, approved, faults>>

\* The aggregate accepts every transition asked for, starting from what was read.
Accepted(w) ==
    LET path == <<work[w].read>> \o Steps[UseCase(w)]
    IN  \A i \in 1..Len(path) - 1 : <<path[i], path[i + 1]>> \in AllowedTransitions

\* Mutant: only half of the worker's state is reset.
FinishKeepingRead(w) == work' = [work EXCEPT ![w].input = None]
Finish(w) == work' = [work EXCEPT ![w] = Idle]

\* Save: the order's row and its events, in one transaction.
Save(w) ==
    /\ work[w] # Idle
    /\ Accepted(w)
    /\ LET path == Steps[UseCase(w)]
       IN  /\ status' = path[Len(path)]
           /\ recorded' = Record({path[i] : i \in 1..Len(path)})
    /\ Finish(w)
    /\ Acknowledge(work[w].input)
    /\ UNCHANGED <<facts, approved, faults>>

\* ErrInvalidStatusTransition: nothing is saved, and the message delivered again
\* if it has deliveries left.
Refuse(w) ==
    /\ work[w] # Idle
    /\ ~Accepted(w)
    /\ Finish(w)
    /\ UNCHANGED <<status, recorded, facts, approved, delivery>>

\* The database refuses, or the replica dies.
Fail(w) ==
    /\ work[w] # Idle
    /\ Finish(w)
    /\ Struck(work[w].input)
    /\ UNCHANGED <<status, recorded, facts, approved, left>>

-----------------------------------------------------------------------------
\* The other contexts.  A handler that publishes is one step here.

\* The answer m to the event e.
Tell(e, m) ==
    /\ m \notin facts
    /\ facts' = facts \union {m}
    /\ Acknowledge(e)
    /\ UNCHANGED <<status, recorded, approved, work, faults>>

\* order.placed: stock is reserved or not.  When the message is delivered again
\* to a replica that does not remember it, the answer may be the other one.
OnOrderPlaced ==
    /\ "PLACED" \in recorded
    /\ Tell("order.placed", "stock.reserved") \/ Tell("order.placed", "stock.reservation_failed")

\* Mutant: a declined payment publishes nothing.
OnStockReservedSilent ==
    /\ "stock.reserved" \in facts
    /\ approved
    /\ Tell("stock.reserved", "payment.completed")
\* stock.reserved: Payment.Process decides by the amount alone.
OnStockReserved ==
    /\ "stock.reserved" \in facts
    /\ Tell("stock.reserved", IF approved THEN "payment.completed" ELSE "payment.failed")

OnOrderConfirmed ==
    /\ "CONFIRMED" \in recorded
    /\ Tell("order.confirmed", "shipping.dispatched")

OnReturnRequested ==
    /\ "RETURN_REQUESTED" \in recorded
    /\ Tell("order.return_requested", "payment.refunded")

\* A context's handler fails or dies before it publishes.
ContextFails(e) ==
    /\ \/ e = "order.placed" /\ "PLACED" \in recorded
       \/ e = "stock.reserved" /\ "stock.reserved" \in facts
       \/ e = "order.confirmed" /\ "CONFIRMED" \in recorded
    /\ left[e] > 0
    /\ Attempt(e)
    /\ Struck(e)
    /\ UNCHANGED <<status, recorded, facts, approved, work>>

Next ==
    \/ Place
    \/ OnOrderPlaced
    \/ OnStockReserved
    \/ OnOrderConfirmed
    \/ OnReturnRequested
    \/ \E e \in Awaited : ContextFails(e)
    \/ \E w \in Workers, m \in Inputs : Find(w, m)
    \/ \E w \in Workers : Save(w) \/ Refuse(w) \/ Fail(w)

Spec == Init /\ [][Next]_vars

\* An attempt ends, and a delivery that is owed is made: by the server to some
\* replica, which other work can delay but not for ever.  Whether the database is
\* there is nobody's promise, and owners owe nothing.  Inventory can answer: the
\* orders it can not record are in Inventory.
Fairness ==
    /\ WF_vars(left["order.placed"] > 0 /\ OnOrderPlaced)
    /\ WF_vars(left["stock.reserved"] > 0 /\ OnStockReserved)
    /\ WF_vars(left["order.confirmed"] > 0 /\ OnOrderConfirmed)
    /\ \A w \in Workers : WF_vars(Refuse(w) \/ Save(w))
    /\ \A m \in Inputs \intersect Awaited : SF_vars(left[m] > 0 /\ \E w \in Workers : Find(w, m))

FairSpec == Spec /\ Fairness

-----------------------------------------------------------------------------
\* Properties

Happened(s) == s \in recorded

\* However use cases overlap, overwrite each other and are repeated, no stage of
\* an order's life is reached without what earns it, over all contexts: it is
\* confirmed only when stock was reserved and the payment went through, shipped
\* only when confirmed, returned only when shipped, refunded only when returned;
\* it is cancelled only when a reservation or the payment failed.
NothingUnearned ==
    /\ status # None => Happened(status) /\ Happened("PLACED")
    /\ facts # {} => Happened("PLACED")
    /\ Happened("CONFIRMED") =>
         approved /\ {"stock.reserved", "payment.completed"} \subseteq facts
    /\ Happened("SHIPPED") => Happened("CONFIRMED") /\ "shipping.dispatched" \in facts
    /\ Happened("RETURN_REQUESTED") => Happened("SHIPPED")
    /\ Happened("REFUNDED") => Happened("RETURN_REQUESTED") /\ "payment.refunded" \in facts
    /\ Happened("CANCELLED") =>
         facts \intersect {"payment.failed", "stock.reservation_failed"} # {}

\* No placed order is left hanging between the contexts: it is shipped or cancelled
\* in the end, within the deliveries the bus makes - a message that is refused does
\* not use them up before the order is ready for it.  Only faults that strike
\* MaxDeliver deliveries of one message can leave the order where it is.
PlacedSettles ==
    Happened("PLACED") ~>
        \/ Happened("SHIPPED") \/ Happened("CANCELLED")
        \/ \E m \in Awaited : faults[m] >= MaxDeliver

\* "The status follows a fixed order" (docs/01-domain-design.md): the row goes
\* only where allowedTransitions lead (ConfirmPaidOrder passes through PAID).
StatusOrder ==
    [][status' # status =>
         \/ status = None /\ status' = "PLACED"
         \/ <<status, status'>> \in AllowedTransitions \union {<<"PLACED", "CONFIRMED">>}]_vars
=============================================================================
