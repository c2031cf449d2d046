------------------------------ MODULE Inventory -----------------------------
(***************************************************************************)
(* Stock and reservations in PostgreSQL (internal/inventory): the three    *)
(* handlers of internal/inventory/app/reserve_stock.go, run by any replica *)
(* for order.placed, order.cancelled and order.return_requested.           *)
(*                                                                         *)
(* A handler is a sequence of transactions and a publication, with nothing *)
(* that holds them together: others run in between, each may fail, the     *)
(* replica may die after any of them, and the message is then delivered    *)
(* again - or even while its first attempt is still running - until the    *)
(* bus has delivered it MaxDeliver times and gives it up.  Only            *)
(* order.placed is deduplicated, in the memory of one replica.             *)
(*                                                                         *)
(* A changed stock row is SELECT ... FOR UPDATE, a decision on what was    *)
(* read, and UPDATE with COMMIT: Select, then Write.                       *)
(***************************************************************************)
EXTENDS Naturals, Integers, Sequences, FiniteSets, Functions

CONSTANTS
    Orders, Replicas, Products,
    Items,      \* the lines of each order, in sequence: [product, quantity]
    Initial,    \* the seeded stock; a product without a row refuses as one with 0 does
    MaxDeliver, \* deliveries of a message before the bus gives it up
    Returnable, \* bound: the orders whose goods may be sent back
    MaxTrouble  \* bound: failing calls, dying replicas and extra deliveries

Line == [product : Products, quantity : Nat \ {0}]

ASSUME ItemsAssumption == Items \in [Orders -> Seq(Line)]
ASSUME MaxDeliverAssumption == MaxDeliver \in Nat \ {0}
ASSUME InitialAssumption == Initial \in [Products -> Nat]
ASSUME ReturnableAssumption == Returnable \subseteq Orders
ASSUME MaxTroubleAssumption == MaxTrouble \in Nat

VARIABLES
    available,    \* stock.available of each product
    reservations, \* the orders with rows in reservations
    told,         \* what was published about each order
    seen,         \* the guard of each replica: orders whose order.placed it handled
    work,         \* the attempt each replica is running
    due,          \* messages the bus has to deliver, for the first time or again
    tries,        \* how often each message was delivered
    begun,        \* messages some attempt was started for
    repeated,     \* messages more than one attempt was started for
    trouble       \* failures and extra deliveries so far

vars == <<available, reservations, told, seen, work, due, tries, begun, repeated,
          trouble>>

Placed(o) == <<"order.placed", o>>
Cancelled(o) == <<"order.cancelled", o>>
ReturnRequested(o) == <<"order.return_requested", o>>
Messages == {"order.placed", "order.cancelled", "order.return_requested"} \X Orders

\* A reservation has one row per order and product: two lines of one product,
\* which nothing keeps out of an order, cannot be recorded.
Recordable(o) ==
    \A i, j \in DOMAIN Items[o] : i # j => Items[o][i].product # Items[o][j].product

Published == due \union begun
Answers == {"stock.reserved", "stock.reservation_failed", "stock.restocked"}

\* What an attempt is in the middle of: "refuse" and "fail" give back what was
\* reserved, and then publish the failure or return the error.
Phases == {"reserve", "tell", "refuse", "fail", "release", "restock"}
NotRead == -1
Idle == [phase |-> "idle"]
Attempt(phase, m, lines) ==
    [phase |-> phase, message |-> m, left |-> lines, done |-> <<>>, read |-> NotRead]

Busy == {r \in Replicas : work[r] # Idle}
Order(r) == work[r].message[2]
Current(r) == Head(work[r].left)

\* An attempt has a stock row to change before it can go on.
Updating(r) == r \in Busy /\ work[r].phase # "tell" /\ work[r].left # <<>>
In(r, phase) == r \in Busy /\ work[r].phase = phase /\ work[r].left = <<>>

Attempts == [phase : Phases, message : Messages, left : Seq(Line), done : Seq(Line),
             read : Nat \union {NotRead}]

TypeOK ==
    /\ available \in [Products -> Nat]
    /\ reservations \subseteq Orders
    /\ told \in [Orders -> SUBSET Answers]
    /\ seen \in [Replicas -> SUBSET Orders]
    /\ work \in [Replicas -> Attempts \union {Idle}]
    /\ \A r \in Busy : work[r].read # NotRead => Updating(r)
    /\ repeated \subseteq begun /\ Published \subseteq Messages
    /\ tries \in [Messages -> Nat]
    /\ trouble \in 0..MaxTrouble

Init ==
    /\ available = Initial
    /\ reservations = {}
    /\ told = [o \in Orders |-> {}]
    /\ seen = [r \in Replicas |-> {}]
    /\ work = [r \in Replicas |-> Idle]
    /\ due = {} /\ begun = {} /\ repeated = {}
    /\ tries = [m \in Messages |-> 0]
    /\ trouble = 0

-----------------------------------------------------------------------------
\* The bus and the other contexts

Publish(m) ==
    /\ m \notin Published
    /\ due' = due \union {m}
    /\ UNCHANGED <<available, reservations, told, seen, work, tries, begun, repeated, trouble>>

\* An order is placed; cancelled when its reservation or its payment failed;
\* returned when it was shipped.
Place(o) == Publish(Placed(o))
Cancel(o) ==
    /\ told[o] \intersect {"stock.reserved", "stock.reservation_failed"} # {}
    /\ Publish(Cancelled(o))
Return(o) ==
    /\ o \in Returnable
    /\ "stock.reserved" \in told[o]
    /\ Publish(ReturnRequested(o))

Trouble == trouble < MaxTrouble /\ trouble' = trouble + 1

\* Replica r is handed m because it is due, or once more although it is not: it
\* was not acknowledged in time, or it was published again.
Deliver(r, m) ==
    /\ work[r] = Idle
    /\ \/ m \in due /\ trouble' = trouble
       \/ m \in begun \ due /\ Trouble
    /\ due' = due \ {m}
    /\ tries' = [tries EXCEPT ![m] = @ + 1]
    /\ begun' = begun \union {m}
    /\ repeated' = IF m \in begun THEN repeated \union {m} ELSE repeated
    /\ UNCHANGED <<available, reservations, told>>

\* The handler returned: the attempt's message is acknowledged, or due again as
\* long as it has deliveries left.
Succeed(r) == work' = [work EXCEPT ![r] = Idle] /\ due' = due
\* Mutant: the message of a failed attempt is acknowledged.
GiveBackNothing(r) == work' = [work EXCEPT ![r] = Idle] /\ due' = due
GiveBack(r) ==
    /\ work' = [work EXCEPT ![r] = Idle]
    /\ due' = IF tries[work[r].message] < MaxDeliver
              THEN due \union {work[r].message} ELSE due

-----------------------------------------------------------------------------
\* The handlers

OnOrderPlaced(r, o) ==
    /\ Deliver(r, Placed(o))
    /\ work' = [work EXCEPT ![r] =
                  IF o \in seen[r] THEN Idle ELSE Attempt("reserve", Placed(o), Items[o])]
    /\ UNCHANGED seen

\* Find: an order without a reservation has nothing to give back.
OnOrderCancelled(r, o) ==
    /\ Deliver(r, Cancelled(o))
    /\ work' = [work EXCEPT ![r] =
                  IF o \in reservations THEN Attempt("release", Cancelled(o), Items[o])
                                        ELSE Idle]
    /\ UNCHANGED seen

OnReturnRequested(r, o) ==
    /\ Deliver(r, ReturnRequested(o))
    /\ work' = [work EXCEPT ![r] = Attempt("restock", ReturnRequested(o), Items[o])]
    /\ UNCHANGED seen

\* Mutant: SELECT without FOR UPDATE.
UnlockedAlways(p) == TRUE
Unlocked(p) ==
    \A r \in Busy : work[r].read # NotRead => Current(r).product # p

Select(r) ==
    /\ Updating(r)
    /\ work[r].read = NotRead
    /\ Unlocked(Current(r).product)
    /\ work' = [work EXCEPT ![r].read = available[Current(r).product]]
    /\ UNCHANGED <<available, reservations, told, seen, due, tries, begun, repeated, trouble>>

\* Reserve refuses what is not there.
InStock(r) == work[r].read >= Current(r).quantity

\* Mutant: the item that was refused is given back, too.
CompensateAll(r, phase) ==
    work' = [work EXCEPT ![r] =
               Attempt(phase, work[r].message, Append(work[r].done, Current(r)))]
\* rollback: gives back what this attempt has reserved so far.
Compensate(r, phase) ==
    work' = [work EXCEPT ![r] = Attempt(phase, work[r].message, work[r].done)]

\* Mutant: the next item is decided on what was read for this one.
AdvanceKeepingRead(r) ==
    work' = [work EXCEPT ![r].left = Tail(@), ![r].done = Append(@, Current(r))]
Advance(r) ==
    work' = [work EXCEPT ![r].left = Tail(@),
                         ![r].done = Append(@, Current(r)),
                         ![r].read = NotRead]

\* Reserve, Release or Restock on what was read, then UPDATE and COMMIT.
Decided(r) == work[r].read # NotRead /\ (work[r].phase = "reserve" => InStock(r))
Updated(r) ==
    [available EXCEPT ![Current(r).product] =
       IF work[r].phase = "reserve" THEN work[r].read - Current(r).quantity
                                    ELSE work[r].read + Current(r).quantity]

Write(r) ==
    /\ Updating(r) /\ Decided(r)
    /\ available' = Updated(r)
    /\ Advance(r)
    /\ UNCHANGED <<reservations, told, seen, due, tries, begun, repeated, trouble>>

\* ErrInsufficientStock, or ErrStockItemNotFound.
Refuse(r) ==
    /\ Updating(r)
    /\ work[r].phase = "reserve"
    /\ work[r].read # NotRead /\ ~InStock(r)
    /\ Compensate(r, "refuse")
    /\ UNCHANGED <<available, reservations, told, seen, due, tries, begun, repeated, trouble>>

\* Mutant: what was reserved is not recorded.
SavedNothing(o) == reservations
Saved(o) == reservations \union {o}

Save(r) ==
    /\ In(r, "reserve") /\ Recordable(Order(r))
    /\ reservations' = Saved(Order(r))
    /\ work' = [work EXCEPT ![r] = Attempt("tell", work[r].message, <<>>)]
    /\ UNCHANGED <<available, told, seen, due, tries, begun, repeated, trouble>>

\* The second line of one product meets the primary key: the error goes up, and
\* what was taken from the stock is not given back.
SaveRejected(r) ==
    /\ In(r, "reserve") /\ ~Recordable(Order(r))
    /\ GiveBack(r)
    /\ UNCHANGED <<available, reservations, told, seen, tries, begun, repeated, trouble>>

\* The handler's last call: what it publishes.
Answer(r) ==
    CASE work[r].phase = "tell"    -> "stock.reserved"
      [] work[r].phase = "refuse"  -> "stock.reservation_failed"
      [] work[r].phase = "restock" -> "stock.restocked"
Telling(r) == In(r, "tell") \/ In(r, "refuse") \/ In(r, "restock")

Tell(r) ==
    /\ Telling(r)
    /\ told' = [told EXCEPT ![Order(r)] = @ \union {Answer(r)}]
    /\ seen' = IF work[r].phase = "restock" THEN seen
               ELSE [seen EXCEPT ![r] = @ \union {Order(r)}]
    /\ Succeed(r)
    /\ UNCHANGED <<available, reservations, tries, begun, repeated, trouble>>

\* Mutant: the record of a released reservation stays.
Kept(o) == reservations
Without(o) == reservations \ {o}

Delete(r) ==
    /\ In(r, "release")
    /\ reservations' = Without(Order(r))
    /\ Succeed(r)
    /\ UNCHANGED <<available, told, seen, tries, begun, repeated, trouble>>

-----------------------------------------------------------------------------
\* Failures

\* A stock update fails, whether or not its COMMIT went through.  A reservation is
\* compensated; giving back goes on with the next item, its error is dropped.
UpdateFails(r) ==
    /\ Updating(r)
    /\ Trouble
    /\ \/ available' = available
       \/ Decided(r) /\ available' = Updated(r)
    /\ IF work[r].phase = "reserve" THEN Compensate(r, "fail") ELSE Advance(r)
    /\ UNCHANGED <<reservations, told, seen, due, tries, begun, repeated>>

\* The error goes up once everything is given back.
ReturnError(r) ==
    /\ In(r, "fail")
    /\ GiveBack(r)
    /\ UNCHANGED <<available, reservations, told, seen, tries, begun, repeated, trouble>>

\* Saving or deleting the reservation fails, whether or not it went through:
\* nothing is given back.
StoreFails(r) ==
    /\ In(r, "reserve") \/ In(r, "release")
    /\ Trouble
    /\ \/ reservations' = reservations
       \/ In(r, "reserve") /\ Recordable(Order(r)) /\ reservations' = Saved(Order(r))
       \/ In(r, "release") /\ reservations' = Without(Order(r))
    /\ GiveBack(r)
    /\ UNCHANGED <<available, told, seen, tries, begun, repeated>>

\* Publishing fails, whether or not the broker has stored the message.
TellFails(r) ==
    /\ Telling(r)
    /\ Trouble
    /\ told' \in {told, [told EXCEPT ![Order(r)] = @ \union {Answer(r)}]}
    /\ GiveBack(r)
    /\ UNCHANGED <<available, reservations, seen, tries, begun, repeated>>

\* A replica dies: its transaction rolls back and its guard is empty again.
Die(r) ==
    /\ r \in Busy \/ seen[r] # {}
    /\ Trouble
    /\ seen' = [seen EXCEPT ![r] = {}]
    /\ IF r \in Busy THEN GiveBack(r) ELSE UNCHANGED <<work, due>>
    /\ UNCHANGED <<available, reservations, told, tries, begun, repeated>>

-----------------------------------------------------------------------------

Step(r) ==
    \/ Select(r) \/ Write(r) \/ Refuse(r) \/ Save(r) \/ SaveRejected(r)
    \/ Tell(r) \/ Delete(r) \/ ReturnError(r)

Next ==
    \/ \E o \in Orders : Place(o) \/ Cancel(o) \/ Return(o)
    \/ \E r \in Replicas, o \in Orders :
         OnOrderPlaced(r, o) \/ OnOrderCancelled(r, o) \/ OnReturnRequested(r, o)
    \/ \E r \in Replicas :
         \/ Select(r) \/ Write(r) \/ Refuse(r) \/ Save(r) \/ SaveRejected(r) \/ Tell(r)
         \/ Delete(r) \/ UpdateFails(r) \/ ReturnError(r) \/ StoreFails(r) \/ TellFails(r) \/ Die(r)

Spec == Init /\ [][Next]_vars

\* An attempt that can go on goes on, and what is due is delivered.  Nobody owes
\* an order, a return or a cancellation.
Fairness ==
    /\ \A r \in Replicas : WF_vars(Step(r))
    /\ \A o \in Orders :
         /\ WF_vars(\E r \in Replicas : Placed(o) \in due /\ OnOrderPlaced(r, o))
         /\ WF_vars(\E r \in Replicas : Cancelled(o) \in due /\ OnOrderCancelled(r, o))
         /\ WF_vars(\E r \in Replicas :
                      ReturnRequested(o) \in due /\ OnReturnRequested(r, o))

FairSpec == Spec /\ Fairness

-----------------------------------------------------------------------------
\* Properties

Units(lines, p) ==
    SumFunction([i \in DOMAIN lines |-> IF lines[i].product = p THEN lines[i].quantity ELSE 0])
UnitsOf(S, p) == SumFunctionOnSet([o \in Orders |-> Units(Items[o], p)], S)

\* What an attempt has taken and not recorded, or has yet to give back.
InHand(r, p) ==
    CASE work[r].phase = "reserve" -> Units(work[r].done, p)
      [] work[r].phase \in {"refuse", "fail", "release", "restock"} -> Units(work[r].left, p)
      [] OTHER -> 0

\* Where the units of p are: on the shelf, reserved (and not about to be given
\* back), or with an attempt.
Accounted(p) ==
    available[p]
      + UnitsOf({o \in reservations : Cancelled(o) \notin begun}, p)
      + SumFunctionOnSet([r \in Replicas |-> InHand(r, p)], Busy)

\* The units there should be: those seeded, and those customers send back.
Supply(p) == Initial[p] + UnitsOf({o \in Orders : ReturnRequested(o) \in begun}, p)

Wants(o, p) == \E i \in DOMAIN Items[o] : Items[o][i].product = p
Undisturbed(p) ==
    \A o \in Orders : Placed(o) \in begun /\ Wants(o, p) => Recordable(o)

Once(kind) == \A o \in Orders : <<kind, o>> \notin repeated

\* However orders, cancellations and returns of any orders are interleaved on the
\* replicas, whatever fails or dies and however often order.placed is delivered,
\* stock is never made out of nothing - so no unit is promised twice - as long as
\* no cancellation and no return is handled twice.  Without a failure and without a
\* repetition no unit is lost either: what a refused order had taken, and what a
\* cancelled one had reserved, is all back, for every product that no placed order
\* wants whose lines the reservations cannot hold.
StockAddsUp ==
    /\ Once("order.cancelled") /\ Once("order.return_requested")
         => \A p \in Products : Accounted(p) <= Supply(p)
    /\ trouble = 0 => \A p \in Products : Undisturbed(p) => Accounted(p) = Supply(p)

\* The row lock: what an attempt has read is still what the row holds when it writes,
\* and nobody else has read it.
ReadIsCurrent ==
    \A r \in Busy : work[r].read # NotRead =>
      /\ work[r].read = available[Current(r).product]
      /\ \A s \in Busy \ {r} :
           work[s].read # NotRead => Current(s).product # Current(r).product

\* Who was told that the stock is reserved finds it recorded, for the release, until
\* the order is cancelled.
ReservedIsRecorded ==
    \A o \in Orders :
      "stock.reserved" \in told[o] /\ Cancelled(o) \notin begun => o \in reservations

\* Every placed order that can be recorded is answered in the end, through failures
\* and dying replicas, as long as they are too few to use up its deliveries.
PlacedIsAnswered ==
    \A o \in Orders :
      Recordable(o) /\ Placed(o) \in Published
        ~> \/ told[o] \intersect {"stock.reserved", "stock.reservation_failed"} # {}
           \/ trouble >= MaxDeliver

\* A cancelled order's reservation goes in the end - unless failures used up the
\* deliveries of the cancellation, or order.placed was handled again, and reserved
\* again behind it.
CancelledIsReleased ==
    \A o \in Orders :
      Cancelled(o) \in Published
        ~> [](o \notin reservations) \/ Placed(o) \in repeated \/ trouble >= MaxDeliver

-----------------------------------------------------------------------------
\* What the comments promise and the code does not keep

\* "Redelivery makes duplicates, so a consumer has to be idempotent" (bus.go:123): when
\* the same order.placed comes twice the stock is not taken twice
\* (order_placed_consumer.go:16), and what a second cancellation or a second return
\* finds is not given back twice (reserve_stock.go:99).  No more is missing from the
\* shelf than the placed orders want, and no more is promised than there is.
HandledTwiceIsOnce ==
    \A p \in Products :
      /\ available[p] + UnitsOf({o \in Orders : Placed(o) \in begun}, p) >= Initial[p]
      /\ available[p] + UnitsOf({o \in reservations : Cancelled(o) \notin begun}, p) <= Supply(p)

\* "All or nothing" (reserve_stock.go:36): when no attempt is under way, what is
\* missing from the shelf is what the reservations hold.
AllOrNothing ==
    Busy = {} => \A p \in Products : available[p] + UnitsOf(reservations, p) = Initial[p]

\* A cancellation "gives back the reserved stock, too: complete compensation"
\* (saga_consumer.go:79): when everything is delivered and nobody is at work, a
\* cancelled order has no reservation.
CancelledLeavesNothing ==
    due = {} /\ Busy = {}
      => \A o \in Orders : Cancelled(o) \in begun => o \notin reservations
=============================================================================
