# go-ddd-shop: a formal model

TLA+ specifications of the shop's services, checked with TLC on small instances
and, where it says so, proved with TLAPS for every value of the constants. Paths
are relative to the repository (`src/` is its root here). `PROJECT.json` maps every
definition to the lines it models, and lists the runs, the mutants that show each
property can fail, the findings, the hazards and the theorems.

## 1. The system

Services in separate processes talk through NATS, and by HTTP where a cart is checked out or a
projection asks for its first prices. In the
deployment that matters (JetStream on, PostgreSQL for ordering, inventory and
promotion) several replicas of a service share its tables and its durable consumers.

| Component | State | Operations | Talks to |
|---|---|---|---|
| promotion store (`internal/promotion/infra/postgres_repo.go`) | event, counter, entry, outbox rows | SeedEvent, Enter, MarkClosed, EntryOf, DispatchOutbox | called by HTTP, the queue's consumer, the closer, the relay |
| outbox and relay (`ordering/infra/{postgres_repo,outbox_relay}.go`, `promotion/infra/outbox.go`) | outbox rows | insert with the business transaction; tick: lock, publish, mark | eventbus |
| eventbus (`internal/platform/eventbus`) | streams, durables, DLQ (on the server) | Publish, Subscribe's callback, publishDeadLetter, Redeliver | every service |
| idempotency guard (`internal/platform/idempotency`) | ids seen, in memory | Do | order.placed and entry_requested consumers |
| ordering (`internal/ordering`) | orders, outbox, price projection | PlaceOrder; ConfirmPaid, Ship, RequestReturn, MarkRefunded, Cancel; price updates | inventory, payment, shipping, catalog by messages; cart by HTTP |
| inventory (`internal/inventory`) | stock, reservations | OnOrderPlaced (reserve, compensate), OnOrderCancelled, OnReturnRequested | ordering, payment |
| payment, shipping | write-only records | OnStockReserved, OnReturnRequested; OnOrderConfirmed | ordering |
| promotion queue, closer, notifications (`promotion/infra/{queue,closer,notify,sse,http}.go`) | guard, SSE hub, connections | Enqueue, Handle, Broadcast, stream, tick | promotion store, eventbus, distlock |
| distlock, ratelimit (`internal/platform`) | Redis keys / in-memory buckets | Acquire, Release; Allow | promotion |
| readmodel (`internal/readmodel`) | order views, counts, revenue, SSE hub (memory) | Upsert, SetStatus, Query, Stats; Publish, stream | ordering's events |
| cart, catalog, customer | maps in memory | AddItem, RemoveItem, Checkout; AddProduct, ChangePrice; Register, Login | ordering, customer (HTTP), the CATALOG stream |
| price projection (`ordering/infra/product_projection.go`) | prices, in each replica of ordering | bootstrap, two price consumers | catalog |

What is hard: transactions of several replicas on the same rows (promotion, ordering,
inventory); a relay that dies between the broker and its commit; at-least-once
delivery with overlapping attempts and an in-memory guard; retries that run out; use
cases that read, decide and overwrite without a lock; a saga over four contexts whose
messages come late, again and out of order; pages that subscribe, read a snapshot and
are pushed to by other goroutines; services that remember in memory what the broker
thinks they know. What makes each component correct:

- promotion: places are gapless, exactly the Target-th wins, what a caller was told
  stays true, outbox and tables agree, the event ends.
- relay: nothing committed is skipped, nothing uncommitted is sent, two relays never
  share a row, copies appear only when the broker forgets.
- eventbus: a message is acknowledged only when handled or buried; it is lost only
  through the faults the design can not survive; it does not hang.
- guard: an id takes effect at most once per life of a process.
- ordering: no stage without what earns it; the order settles within the deliveries the bus makes;
  the status order.
- inventory: stock is neither created nor lost, no update of a row is lost, what is announced as
  reserved is on record, and a message that comes twice takes or gives back nothing twice.
- queued entry: a request answered 202 is answered in the end, its result reaches the page
  that waits for it, the closing batch runs under its lock.
- readmodel: counts and revenue agree with the views, the views with the orders, and the
  open pages with the views.
- cart, customer: what was in the cart is ordered once or still there; an e-mail has one account.
- catalog and price projection: a replica that heard the last price charges it.

## 2. Modules

| Module | Models | State and actions against the code |
|---|---|---|
| `Draw` | what promotion promises | abstract: a line of entrants, a winner, an end |
| `Promotion` | `PostgresRepo.Enter`, `MarkClosed`, `EntryOf` | one action per SQL statement; `tx[s]` is what a connection's open transaction has read and written, applied by its commit; `counterLock`, `eventLock` are the row locks; `Abort` is an error, a cancelled request or a dead replica |
| `MCPromotion` | | symmetry for TLC |
| `PromotionProofs` | | type correctness, the invariants, the refinement of `Draw` and that no decision is taken back |
| `JetStream` | a stream (external) | append unless the Nats-Msg-Id is in the duplicate window |
| `OutboxRelay` | `Save`'s outbox insert, `DispatchOutbox`, the relays' ticks | `held[r]` are the rows a tick has locked, `sent[r]` those published; `Mark` is UPDATE and commit, `Die` a rollback |
| `EventBus` | `Publish`, `Subscribe`'s callback, `publishDeadLetter`, `Redeliver`, `Guard.Do` | a flight is a delivery a replica has not answered; handler, dead letter and Ack are separate steps; `cut` names the messages whose last delivery was broken off |
| `MCEventBus` | | the events of the runs, in one stream or in two |
| `Ordering` | the use cases of `ordering/app`, the consumers that call them, what other contexts answer | `Find` is FindByID, `Save` the aggregate's transitions and the upsert with its events, `Refuse` an invalid transition, `Fail` and `ContextFails` a fault; `facts` are messages, which stay and may be handled again; `left[m]` are the deliveries of m that are still owed, `MaxDeliver` at first and none after an acknowledgement |
| `OrderingProofs` | | type correctness, NothingUnearned, and that no order is stuck |
| `Inventory` | the three handlers of `inventory/app` and their consumers over PostgreSQL | `work[r]` is the attempt replica r is running: its phase, the lines it has left and done, and the stock row it has read under FOR UPDATE; `Select` and `Write` are the two halves of `PostgresStore.Update`; `SaveRejected` is the primary key of the reservations meeting a second line of one product; `due`, `tries`, `begun`, `repeated` say what the bus has handed out, and `GiveBack` gives a message up after `MaxDeliver` deliveries |
| `MCInventory` | | the orders and the seed of the runs, one of the orders with two lines of one product |
| `InventoryProofs` | | type correctness, ReadIsCurrent, ReservedIsRecorded, StockAddsUp, and that nothing is forgotten |
| `ReadModel` | `MemoryStore`, `Projector.Handle`, `Hub`, the SSE stream of a customer's orders | `Apply` is the store's critical section, `Notify` the push and the acknowledgement after it; `pages[p]` is a connection with its channel (`chan`) and what the browser shows; `Restart` loses views and connections and keeps the durable's position; `overtaken` and `overdrawn` say what late events have done to views and revenue |
| `MCReadModel`, `ReadModelProofs` | | the run's orders; type correctness, ViewIsLatest, PageIsCurrent, StatsAgree |
| `Entry` | queue mode: `Enqueue`, `Handle` under `Guard.Do`, `BroadcastNotifier`, `SSEHandler`, `Closer`, the Redis lock | `job[p]` is what p's consumer is doing, `notes` broadcasts in flight, `pages[u]` a waiting page, `lock` and `batch` the closer; `SnapshotFails` is EntryOf failing after the page has subscribed; the store is an instance of `Draw`, the stream is `JetStream` |
| `MCEntry`, `EntryProofs` | | the run's keys and page; type correctness, BatchHoldsLock, NoLostResult, and that no accepted request is forgotten |
| `Storefront` | `customer/app`, `cart/app`, `catalog/app`, the price projection | `calls[n]` is a request: its use case, how far it is and what it has read; one step per repository or service call; `objects` and `shelf` are the Product pointers and the map of them; `ordering[r]` is a replica's projection |
| `MCStorefront`, `StorefrontProofs` | | symmetry; type correctness, SerialIsSafe, LastWordIsThePrice |
| `OutboxRelayProofs`, `EventBusProofs` | | see section 4 |

`OutboxRelay`, `EventBus` and `Entry` all extend `JetStream`; `Promotion` implements `Draw`
and `Entry` is built on it, so the transactions of one stand behind the single steps of the
other. `Promotion` and `Ordering` write
outbox rows (`outbox`, `recorded`) and stop there: that a committed row reaches the
broker is `OutboxRelay`'s subject, and what becomes of a message after that is
`EventBus`'s. `Ordering` takes from those two exactly what they show: a recorded event
is delivered in the end, possibly again, possibly late, to any replica.

### Modelling decisions

- READ COMMITTED: a statement sees what is committed when it runs. An uncommitted
  write lives in the transaction's record. A write that waits for a row lock is an
  action whose guard is the free lock.
- Requests that are refused before they write (not started, closed, unknown event) and
  a MarkClosed that finds nothing to do change nothing and are no step.
- The closer's Redis lock is left out of `Promotion`: it may be absent or expire, and
  the invariants hold without it.
- The two outbox loops are the same code; a row here is its own message id (the row id
  in ordering, the dedup id in promotion).
- Delays (BackOff) are left out of `EventBus`: a redelivery may come at any time after
  the delivery before it, even while that one is being handled.
- `EventBus` puts the Guard around every handler. Handlers without one (payment,
  shipping, restocking) have no bound on their effects at all.
- `Inventory` runs one attempt per replica at a time. A replica in the code may run one of each
  message kind at once; two such attempts share nothing but the tables (the Guard belongs to
  order.placed alone), so they are two replicas here.
- A product without a stock row is one with 0 units: both are refused, and no unit of it
  is ever given back. An order has any lines: neither `ordering/api/http.go:70-74` nor
  `PlaceOrder` merges or refuses two of one product, and a reservation has one row per product.
- In `Inventory` a failing transaction may have been committed or not (the answer to its COMMIT was
  lost), and a failing publication may have reached the broker or not. A failing Find in
  OnOrderCancelled, before anything is changed, is left out: the attempt then changes nothing and the
  message is due again, as after a death.
- `Entry` takes Enter and MarkClosed as one step each; a message that is not acknowledged may be
  delivered again at any time, also while it is being handled (`Lapse`: the ack wait ran out).
  Nothing there becomes a dead letter: troubles are fewer than the five attempts. A failing MarkClosed
  (`CloseFails`) is tried again by the next tick.
- A page's channel holds at most `Buffer` pushes and what does not fit is dropped, in both hubs.
  In `Entry` a push is the word that there is a result, so only the number of them matters; in
  `ReadModel` it is the list as it was when it was pushed.
- `ReadModel` is one process with one subscription. An order's own life is serial there; what
  overlapping use cases make of it is in `Ordering`.
- `Storefront` compares prices by the call that set them; all seeds have price 0. `Checkout`
  is: load, place, delete. What an order charges is read in one step, where the code looks
  up line after line.
- Properties that hold only while requests are serial, or messages in order, carry that condition
  in a history variable that says which customer, product, order or user is excused
  (`excused`, `crossed`, `overtaken`, `missed`, `refused`, `cut`). Everybody else is held to the
  property, and where a document denies the excused case, a property of its own states the document's
  claim (section 3).
- Amounts, items (but for `Inventory` and `ReadModel`), payloads, wording, tracing and metrics
  are abstracted away.

## 3. Runs

Deadlock is checked in `promotion*` and `ordering*`. The others stop when a bounded number of
rows, messages, requests or troubles is used up.

| Run | Shows | Bounds |
|---|---|---|
| `promotion` | TypeOK, Gapless, WinnerIsTarget, OutboxTruthful, AnswersStayTrue, LockedReadsHold, refinement of Draw, ClosedInTheEnd | 3 users, 2 connections, Target 2; 12 104 states |
| `outbox` | TypeOK, MarksAreTrue, ExclusiveRows, CopiesNeedLapse, CommittedIsPublished | 2 rows, 2 relays, batches of 2, 2 lapses of the duplicate window; 5 665 states |
| `outbox_unrouted` | RoutedIsPublished is violated when an older row has no stream | 2 rows, one of them without a stream |
| `eventbus` | TypeOK, AcksAreEarned, LossNeedsFault, EffectsNeedALife, EverythingSettles | 2 events, 2 replicas, 2 deliveries, 2 messages per stream, 1 fault, 1 lapse; 111 328 states |
| `eventbus_dlq_down` | RetriedRatherThanLost is violated | 2 streams with a message each, 2 replicas, 2 deliveries, 1 fault |
| `ordering` | TypeOK, NothingUnearned, PlacedSettles | 1 order, 2 workers, 2 deliveries, 2 faults, both decisions of payment; 193 141 states |
| `inventory` | TypeOK, StockAddsUp, ReadIsCurrent, ReservedIsRecorded, PlacedIsAnswered, CancelledIsReleased | 2 orders over 2 products, one with two lines of one product, 2 replicas, 2 deliveries, 1 failure or extra delivery, returns of the other order; 124 807 states |
| `inventory_redelivered` | HandledTwiceIsOnce is violated | 2 orders of a line each, 2 units of each product, otherwise as above |
| `readmodel` | TypeOK, StatsAgree, ViewIsLatest, PageIsCurrent, ViewFollows | 2 orders of one customer, the first already shipped when the service attaches, 6 events, 1 page with a channel of 1, 1 event handled again, 1 restart; 233 937 states |
| `readmodel_twice` | TwiceIsOnce is violated | as above, without restarts |
| `entry` | TypeOK, NoLostResult, BatchHoldsLock, AcceptedIsAnswered, EndedInTheEnd | 2 users who share an Idempotency-Key, 2 replicas, 1 page with a channel of 1, 2 messages, 1 trouble; 363 028 states |
| `storefront` | TypeOK, SerialIsSafe, LastWordIsThePrice | 3 requests of any kind, 1 customer, 1 free e-mail, 1 product, 2 replicas of ordering (symmetric), 1 trouble; 997 758 states |

Why these bounds are enough to be interesting. *Promotion*: with Target 2 there is an
entry before the winner, the winner and one after it; two connections are what it
takes for a stale read, a lock wait, a retry of the same user and a close that overlaps
an entry. *OutboxRelay*: two rows give a batch with a failure in its middle, and two
relays split the rows or compete for them. *EventBus*: with two attempts there is one
that is retried and one that is the last, and a replica apiece for overlapping attempts;
MaxDeliver is 5 in the code and only whether an attempt is the last matters. *Ordering*: orders share no
row, and two overlapping use cases are what it takes to lose an update; two deliveries leave each
message one retry, and two faults may take both of one message or one of each of two.

*Inventory*: the order of two products may be refused at its second and must give back the first
while the other order, which takes units of the second and can never record them, is delivered, taken
apart and given up beside it; two replicas overlap two orders, or two attempts of one message; one
trouble is a failing call at any step, a death at any step or a repeated delivery at any time (a
failure brings its own retry, one delivery less than the two there are).

*ReadModel*: six events let the shipped order be returned or a second order begin while the
first one's events are still being handled; a channel of one overflows at the second push; a
repetition may be of any earlier event; a restart forgets views whose status events are still to
come. *Entry*: Target 1 ends the event while a second request waits; a shared key makes
one user's request a duplicate of the other's, in the stream or in a Guard; one trouble is a crash, a
failed attempt, a lost note, a failed snapshot or closing, a lapsed window, ack wait or TTL at any point. *Storefront*: two overlapping requests are what every anomaly of it takes, the third
request comes before, between or after them.

### Fairness

- Promotion: a transaction that can go on goes on; each replica's closer ticks for ever
  (`Closer.Run`), so a batch that can run runs and is not rolled back every time.
  Entering is never owed.
- OutboxRelay: `Run` ticks for ever; the broker does not refuse every time; a relay does
  not die every time before its commit. Business transactions owe nothing.
- EventBus: the server delivers what it may deliver, a client runs its callbacks. Whether
  a handler succeeds is not assumed.
- Ordering: a recorded event is published in the end (`OutboxRelay`), and every message is
  delivered to its durable as long as it has deliveries left, `MaxDeliver` in all (bus.go:149-166).
  A refused use case uses up one; an acknowledged message is owed none. Nobody puts a letter back:
  nothing calls `Redeliver`, and `cmd/readmodel` only logs the letters. So PlacedSettles has to
  hold although each message has a handful of deliveries, and does: a message is not handled so
  early, so often, that it is buried before the order is ready for it, because its fact is published
  after the row it needs was saved. The one exception it names is `MaxDeliver` deliveries of one message
  that were each struck by a fault (the database refuses, a replica dies): then the message is a letter
  and the order stays where it is. Strong fairness is on *finding a worker* for an owed delivery
  only: other deliveries may keep the workers busy now and then, not for ever. An attempt ends:
  that is weak fairness of `Save` or `Refuse`, and `Fail` may end it too. Returns are never owed.
- Inventory: an attempt that can go on goes on, and a due message is delivered - `MaxDeliver` times at
  most. How often calls fail is bounded by `MaxTrouble`; PlacedIsAnswered and
  CancelledIsReleased except the case of as many failures as deliveries, and orders that cannot be
  recorded. Orders, cancellations and returns are never owed.
- ReadModel: the subscription goes on: a message that can be delivered or is being handled is.
  Nobody owes an event, a page or a read of one.
- Entry: every replica's consumer works, every batch goes on to its release, some replica's
  closer asks for the lock again and again (a ticker), and a lock without an owner's release
  expires (its TTL). Requests and pages are never owed.
- Storefront: none. Nothing in it is promised to happen: a request may hang, a client may leave.

### Claims that do not hold

Every property of a passing run that names an exception names one the code really has. Where a
document or a comment denies it, a property of its own states that claim, and TLC refutes
it. Four of these are runs of `PROJECT.json`, with a finding each:

1. **One unroutable row stops the outbox** (`outbox_unrouted`). `promotion.event_closed` is
   in no stream's subjects, its publish always fails, and DispatchOutbox stops at the first
   failure: every younger row waits for ever.
2. **A letter that cannot be published loses its message** (`eventbus_dlq_down`). On the last
   delivery the callback Naks, to "try again rather than lose it" (`platform/eventbus/bus.go:155`),
   but the server has no delivery left to make. LossNeedsFault, which passes, says that this, a
   crash during the last delivery, and a letter taken for another event's are the only ways to lose a
   message; it is the message's own last delivery that must be struck, not any.
3. **A message handled twice is not handled once** (`inventory_redelivered`). Overlapping or repeated
   deliveries of order.placed take the stock twice (`order_placed_consumer.go:16` says they must not);
   those of order.cancelled and order.return_requested give back twice (`reserve_stock.go:99` for
   the first). StockAddsUp, which passes, says what remains true.
4. **A status event handled again moves the view back** (`readmodel_twice`), and an order that
   leaves CANCELLED or REFUNDED keeps its total subtracted. `projector.go:14-15` calls the handler
   idempotent by nature. ViewIsLatest and StatsAgree, which pass, say when the view is right again and how
   far the revenue is off.

The others are checked in the same way, `tlc -config <cfg> <module>`:

| Cfg, module | Claim | What TLC shows |
|---|---|---|
| `promotion_late_entry`, MCPromotion | NoEntryAfterClose: a closed event takes no entries (`promotion/domain/errors.go:10`) | Enter reads `closed_at` before it waits for the counter row and MarkClosed does not touch that row: a request in between gets a place in a closed event, and `EventClosed.TotalEntries` is short of it |
| `ordering_overlap`, Ordering | StatusOrder: transitions only in the fixed order (`docs/01-domain-design.md:33`) | read, decide, upsert without a lock or a condition (`ordering/infra/postgres_repo.go:98`): CONFIRMED is overwritten by a CANCELLED decided on a stale read, both events are recorded, and shipping and the release of the stock both go ahead |
| `eventbus_restart`, MCEventBus | RestartMissesNothing: a durable misses nothing when it is restarted (`platform/eventbus/bus.go:122-123`) | the replica dies during a message's last delivery: it is neither delivered again nor a letter |
| `eventbus_two_streams`, MCEventBus | EveryLetterIsKept: the DLQ loses nothing (`platform/eventbus/streams.go:29`) | no fault at all: the first messages of two streams, published without ids, are both buried under `dlq-js-1`, and the duplicate window keeps one |
| `inventory_unrecorded`, MCInventory | AllOrNothing (`inventory/app/reserve_stock.go:36`) | no fault at all: an order with two lines of one product takes both, the primary key refuses the reservation (`inventory/infra/postgres.go:126-132`), nothing is given back; so at each of five deliveries, and the order is never answered |
| `inventory_overtaken`, MCInventory | CancelledLeavesNothing: a cancellation gives everything back (`ordering/infra/saga_consumer.go:79`) | order.placed is handled again after the cancellation: the stock is taken and recorded for a cancelled order, for good |
| `readmodel_restart`, MCReadModel | ViewIsRebuilt: the view is rebuilt from the past events (`cmd/readmodel/main.go:19`) | the view is in memory, the durable's position is not: after a restart the acknowledged events are not replayed |
| `entry_no_snapshot`, MCEntry | SnapshotIsEnough: a page is sent the current state when it connects (`promotion/infra/sse.go:105`) | EntryOf fails after the result was announced: the page stays open, with pings, and never shows it |
| `entry_refused_early`, MCEntry | RefusalIsFinal: a refusal is one that trying again would not change (`promotion/infra/queue.go:16`) | a request handled just before starts_at is dropped, remembered, and would succeed a moment later |
| `storefront_emptied`, MCStorefront | CheckoutOrdersTheCart (`cart/app/cart_service.go:73`) | an item added between load and Delete is deleted unordered |
| `storefront_twice`, MCStorefront | OneAccountPerEmail (`customer/domain/repository.go:10`) | two registrations of one e-mail both find none and both save |
| `storefront_stale`, MCStorefront | StaleForAMoment: prices are stale for a moment (`ordering/infra/product_projection.go:20`) | each of two replicas of ordering (`deploy/k8s/ordering.yaml`) has its own map, the durable hands an event to one of them: with everything handled the other sells at the old price until it restarts |

### Observed while modelling

No document, comment or test says otherwise, or what says so is not about this deployment.

- The Guard of one replica remembers a request that was refused before the event started, and then
  skips its redelivery even if another replica has entered the user in between: the result is not
  announced. NoLostResult excuses such users (`refused`).
- Order of arrival (`promotion/infra/queue.go:61`) is a property of one subscription; two
  replicas share the durable in `deploy/k8s/promotion.yaml`.
- Two checkouts that overlap, or one whose answer from ordering is lost and that is tried again, order
  the cart twice. SerialIsSafe says that it takes one of the two, or a restart.

## 4. Proofs

`PromotionProofs` proves, for any sets of users and connections and any Target >= 1
(`TargetAssumption`, `NoUserAssumption`, `NoSessionAssumption`):

- TypeOK, Gapless, WinnerIsTarget, OutboxTruthful, AnswersStayTrue and LockedReadsHold
  hold always. None of them is inductive alone: that the next entry leaves no gap needs
  that the place it carries is still `counter + 1` and its user still without one
  (LockedReadsHold), which needs that nobody else commits while the counter row is held; the
  winner, the outbox and the answers lean on each other in the same way. Their conjunction is inductive
  (`StepInv`), one lemma per group of actions.
- `Refinement`: Promotion implements Draw. The line is rebuilt from the entry rows with
  the places as index (Gapless makes that a function); every commit of a new entry is a
  Join, the commit of MarkClosed is End, everything else stutters.
- `DecisionsStand` (an action property): no step changes a place once given, the winner,
  the end or an outbox row, and the counter never goes back. It needs LockedReadsHold: the
  row a commit writes is the one its transaction read under the lock.

`OrderingProofs` proves TypeOK and NothingUnearned for any number of workers
(`ApprovableAssumption`). NothingUnearned speaks of what is recorded; to be inductive it
needs that every message was earned by what its sender had seen (`FactsEarned`) and that
what a worker read, and why it was started, was earned too (`WorkEarned`), since the order
may have moved on by the time it saves. `NoOrderIsStuck` is the safety half of PlacedSettles: an order
neither shipped nor cancelled waits for an answer of inventory, payment or shipping, or for a use
case that is triggered and finds the row in a status it may start from. It holds because no
overlapping use case sets the row back before then (`RowIsWhereItWas`). That the deliveries a message
has suffice for it is PlacedSettles itself, which TLC checks.

`InventoryProofs` proves TypeOK, ReadIsCurrent, ReservedIsRecorded and StockAddsUp for any orders,
products, replicas, `MaxDeliver` and `MaxTrouble` (`ItemsAssumption`, `InitialAssumption`,
`MaxDeliverAssumption`, `MaxTroubleAssumption`). `ItemsAssumption` is only that the lines are a sequence of
products and quantities: two lines of one product are among the orders the theorems are about.
ReadIsCurrent says of the lock that two attempts never hold one row and that nobody writes a row
another one holds. ReservedIsRecorded is inductive once the same is known of the attempt that
is about to announce it, and that only an attempt for a cancellation deletes a record.
StockAddsUp needs more (`StockInv`): what an attempt to reserve has done and has left is the order
(`WorkShape`, which for an order that cannot be recorded ends in SaveRejected), a cancellation is published only for an order that was told a verdict
(`CancelOwed`), as long as nothing fails and nothing is repeated an order is untouched until its one
attempt is over (`Calm`), and only finitely many replicas are busy and orders on record
(`FinitelyMany`), so that the sums exist for any set of orders. A step changes one term of one sum or
moves units between two (`SumChange`).

The sums are the library's folds, and the induction theorems can not be instantiated; `SumIsTotal`
gets by without. It shows that a finite sum of naturals is the cardinality of a set of pairs, one
for each unit: a smallest subset on which the two differ would, less one element, be a smaller one.
The same lemmas serve StatsAgree below.

`NothingIsForgotten` is the safety half of PlacedIsAnswered and CancelledIsReleased, which say with
fairness that the answer comes: a placed order has its verdict, or its message is due or with a
replica; a cancelled order has no reservation left, or its cancellation is due or with a replica,
or its order.placed was handled again. The bus gives a message up only after `MaxDeliver` deliveries,
and then there were as many troubles, or the order is one that cannot be recorded. That is a count
(`SpentInv`): of a message whose order can be recorded, each delivery but the first has cost a trouble
of its own, and so has each attempt that is on its way to fail and the redelivery that is due; an end of an
attempt spends what it had (`SpentStep`, `EndsOwed`). The verdict
rests on the guard (`SeenIsJudged`: what a replica
skips has its verdict), the release on `FirstAttempt`: while order.placed is handled for the first
time its order has no verdict, and only an order with a verdict is cancelled, so that nothing is
reserved behind the cancellation.

`OutboxRelayProofs` proves TypeOK, MarksAreTrue, ExclusiveRows and CopiesNeedLapse for any rows,
relays, batch size and number of lapses. MarksAreTrue rests on what a relay has sent: only
rows it holds, each of them in the broker. CopiesNeedLapse is kept by counting: the copies of a
row are at most one more than the lapses, and at most as many as the lapses once its id has left
the window.

`EntryProofs` proves TypeOK, BatchHoldsLock and NoLostResult for any users, keys, replicas, pages,
`Buffer` and `MaxTrouble` (`EntryAssumption`). NoLostResult is made inductive by following
each message: what was entered is announced by the job that entered it or by a redelivery that is
still due, an announced result is a note on its way to every page's replica, and a note that
arrives is in the channel of a page that has subscribed, whether or not it has its snapshot. A page whose
snapshot failed shows the result as soon as a push of it comes; only one that was opened when the result
was there already, and nothing on its way, can miss it (`unseen`).
`AcceptedIsNeverForgotten` is the safety half of AcceptedIsAnswered: a request answered 202 whose user
is neither entered nor refused is in a message that is still to be delivered or unacknowledged,
with its own id and user, also when the stream took the request for a duplicate; only a key that
two users share can break this. Whoever remembers or acknowledges a message has answered its user
(`SeenIsAnswered`, `GoneIsAnswered`).

`StorefrontProofs` proves TypeOK, SerialIsSafe and LastWordIsThePrice for any customers, e-mails,
replicas, any finite set of products and any number of requests. SerialIsSafe is about accounts, carts and
orders: what is in a cart is what the answers say, and a checkout that is about to empty it has placed
one order, of all that is in it (`StorefrontAssumption`; the seeds
are a list in the code, and a restart of the catalog puts one event for each on the stream).
Between a request's steps its read is still true unless another request of the same customer,
e-mail or product is under way, and then that name is excused; that is the invariant `IInv`. TypeOK
needs to know what a request of an excused name can have read: a cart has at most as many
units of a product as there were calls before it, and what is due at most as many as calls are over
(`Types`). LastWordIsThePrice speaks of products nobody works on; inductive is what holds while
somebody does (`Word`): the one call on a product works on the object that is stored for it (`Desk`);
the price is what the stream said last, or what that call has still to publish (`Wire`); and
a replica that has heard everything so far charges the one or the other, whether it is up or
holds the answer of its bootstrap (`Till`). That the calls of other products, overlapping ones
too, do not disturb this is `OwnEvents`: objects belong to one product, and their events speak of it.

`ReadModelProofs` proves TypeOK, ViewIsLatest, PageIsCurrent and StatsAgree for any orders, customers,
pages, `Buffer` and any number of repetitions and restarts (`ReadModelAssumption`: order.placed is the
first event of an order when the service attaches, which the model's own Publish keeps so, as
`allowedTransitions` of `order.go` does for transitions of one order that do not overlap; overlapping
ones are Ordering's subject).
ViewIsLatest leaves out an order from the moment an event older than its last one changes it
until the next new event does (`overtaken`), and nothing else; a repetition of the last event or of
order.placed is not an exception.
PageIsCurrent
speaks of an empty channel; inductive is that the last list a page was given, in its channel
or on its screen, is the current one from the moment it subscribed, or was dropped, or that the
projector is about to push.
StatsAgree follows step by step: an upsert or a status change moves an order from the count of
one status to that of another; the revenue is exact once what is subtracted for an order that moves
on from CANCELLED or REFUNDED is counted (`overdrawn`, the total of every such move).

`EventBusProofs` proves TypeOK, AcksAreEarned, LossNeedsFault and EffectsNeedALife for any events,
streams, durables, replicas, `MaxDeliver`, faults and lapses (`EventBusAssumption`). An
acknowledgement is earned because a settled flight is: it was handled, or a letter of its own event is in the
DLQ (`Buried` compares id and event), or another event's letter under the same id made its own a
duplicate (`Shadowed`). Where that can happen is part of the theorem: two streams that count alike, or
publishers whose ids clash. Nothing else is lost but a message whose own last delivery was cut off,
because the last attempt stays in flight until its message is handled or buried (`LastIsInFlight`).
The effects of an id are
at most the Guards that know it and one for every crash that made one forget.

Every safety property of a passing run is stated by a theorem. Model-checked only are the liveness
properties (ClosedInTheEnd, CommittedIsPublished, EverythingSettles, PlacedSettles,
PlacedIsAnswered, CancelledIsReleased, ViewFollows, AcceptedIsAnswered, EndedInTheEnd): fairness and
ENABLED are out of the prover's reach. What is proved of four of them is that the owed work is
never forgotten (NothingIsForgotten, AcceptedIsNeverForgotten, NoOrderIsStuck); that somebody then
does it, under the fairness of section 3, is TLC's.

## 5. Not modelled

- The in-memory fallback of ordering and its direct publisher (one replica, nothing survives a
  restart), core-NATS mode of the bus (no delivery guarantee to state), the DLQ monitor (it
  logs), Term of an unreadable message.
- Schema upcasting: a pure function per version, with one upcaster; nothing interleaves with it.
- The rate limiter: a token bucket over real-valued tokens and clocks, atomic in Redis or under a
  mutex. What it does to the rest is to refuse a request before it is made.
- Login, tokens and password hashes (nothing changes), HTTP parsing, the read-only handlers,
  telemetry, the load generator, the web front end, deployment files.
- The records of payment and shipping: nobody reads them. Their decisions and messages are in
  `Ordering`.

## 6. Plan

Done: Draw and Promotion with their proofs, OutboxRelay, EventBus, Ordering and Inventory, then
ReadModel, Entry and Storefront, each with its proofs. Next:

1. `Saga`: Ordering's return path with counted refunds and restockings, composed with Inventory's
   messages (two concurrent return requests; hazard at `order_lifecycle.go:48`).
2. An exact account of the stock that repeated deliveries take or give back, as `overdrawn` is one of
   the revenue, so that StockAddsUp needs no exception.
3. Proofs: the steps of the other liveness arguments that are safety facts (what stays pending until
   it is handled), as `NothingIsForgotten` is for Inventory: what is pending in EventBus and ReadModel.
