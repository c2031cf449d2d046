------------------------------ MODULE ReadModel -----------------------------
(***************************************************************************)
(* The read side of the shop (internal/readmodel): the projector that      *)
(* turns the events of the ORDER stream into views, counts and revenue,    *)
(* and the SSE hub that pushes a customer's list to the open pages.        *)
(*                                                                         *)
(* One process, one subscription, so one event is handled at a time; pages *)
(* connect, read and fall behind in between.  The views live in memory     *)
(* while the position of the durable consumer lives in the broker: a       *)
(* restarted process starts with no view and the next message.  A message  *)
(* can be handled again at any later time: its acknowledgement was lost or *)
(* late, the relay published it twice, somebody put it back.               *)
(*                                                                         *)
(* An order's own life is serial here; what overlapping use cases make of  *)
(* it is in Ordering.                                                      *)
(***************************************************************************)
EXTENDS Integers, Sequences, FiniteSets, Functions

CONSTANTS
    Orders, Customers,
    CustomerOf,  \* order -> the customer who placed it
    TotalOf,     \* order -> its total
    Pages,       \* SSE connections
    PageOf,      \* page -> the customer it asks for
    Buffer,      \* capacity of a subscriber's channel (4)
    Past,        \* what the stream holds when the service first attaches to it
    MaxLog,      \* bound: events in the stream
    MaxRepeats,  \* bound: events handled again
    MaxRestarts  \* bound: restarts of the service

None == "NONE"
NoFilter == "NO FILTER"     \* the empty string in a query
Statuses == {"PLACED", "PAID", "CONFIRMED", "SHIPPED", "CANCELLED",
             "RETURN_REQUESTED", "REFUNDED"}
Refunding == {"CANCELLED", "REFUNDED"}

ASSUME ReadModelAssumption ==
    /\ CustomerOf \in [Orders -> Customers]
    /\ NoFilter \notin Customers
    /\ TotalOf \in [Orders -> Nat]
    /\ PageOf \in [Pages -> Customers]
    /\ Buffer \in Nat \ {0}
    /\ Past \in Seq([order : Orders, status : Statuses])
    /\ \A i, j \in 1..Len(Past) :
         i < j /\ Past[i].order = Past[j].order => Past[j].status # "PLACED"

VARIABLES
    stream,    \* the ORDER stream, subject ordering.order.>
    next,      \* the first message the durable has not delivered yet
    unacked,   \* messages delivered to this or a former process, not acknowledged
    store,     \* MemoryStore
    handling,  \* the message whose update is in the store but not pushed yet
    pages,     \* the connections
    latest,    \* order -> its last message handled in this life (history)
    overtaken, \* orders whose last change is an event older than one handled before (history)
    overdrawn, \* totals of the orders moved on from a cancellation or refund (history)
    repeats, restarts

consumer == <<next, unacked, handling>>
history == <<latest, overtaken, overdrawn>>
vars == <<stream, consumer, store, pages, history, repeats, restarts>>

\* The statuses an order may go to; the event of the same name is published.
Successors(s) ==
    CASE s = None                -> {"PLACED"}
      [] s = "PLACED"            -> {"PAID", "CANCELLED"}
      [] s = "PAID"              -> {"CONFIRMED", "CANCELLED"}
      [] s = "CONFIRMED"         -> {"SHIPPED"}
      [] s = "SHIPPED"           -> {"RETURN_REQUESTED"}
      [] s = "RETURN_REQUESTED"  -> {"REFUNDED"}
      [] OTHER                   -> {}

MaxOf(S) == CHOOSE n \in S : \A k \in S : k <= n

\* Where the orders really are.
Published(o) == {i \in 1..Len(stream) : stream[i].order = o}
Status(o) == IF Published(o) = {} THEN None ELSE stream[MaxOf(Published(o))].status

\* status: the listed orders; counts and revenue are kept up incrementally.
EmptyStore == [status |-> [o \in Orders |-> None],
               counts |-> [s \in Statuses |-> 0], revenue |-> 0]
Closed == [st |-> "closed", chan |-> <<>>, shown |-> <<>>, missed |-> FALSE]

\* A list as a page shows it: order -> status.
Lists == UNION {[S -> Statuses] : S \in SUBSET Orders}

TypeOK ==
    /\ stream \in Seq([order : Orders, status : Statuses])
    /\ next \in 1..Len(stream) + 1
    /\ unacked \subseteq 1..next - 1
    /\ store \in [status : [Orders -> Statuses \union {None}],
                 counts : [Statuses -> Int], revenue : Int]
    /\ handling \in unacked \union {0}
    /\ pages \in [Pages -> [st : {"closed", "subscribed", "open"}, chan : Seq(Lists),
                           shown : Lists \union {<<>>}, missed : BOOLEAN]]
    /\ \A p \in Pages : Len(pages[p].chan) <= Buffer
    /\ latest \in [Orders -> 0..Len(stream)]
    /\ overtaken \subseteq Orders
    /\ overdrawn \in Nat

Init ==
    /\ stream = Past
    /\ next = 1
    /\ unacked = {}
    /\ store = EmptyStore
    /\ handling = 0
    /\ pages = [p \in Pages |-> Closed]
    /\ latest = [o \in Orders |-> 0]
    /\ overtaken = {}
    /\ overdrawn = 0
    /\ repeats = 0
    /\ restarts = 0

\* The relay of the ordering service publishes an order's next event.
Publish(o) ==
    /\ Len(stream) < MaxLog
    /\ \E s \in Successors(Status(o)) : stream' = Append(stream, [order |-> o, status |-> s])
    /\ UNCHANGED <<consumer, store, pages, history, repeats, restarts>>

-----------------------------------------------------------------------------
\* MemoryStore

\* Mutant: order.placed overwrites what is known.
UpsertedAgain(st, o) ==
    [status  |-> [st.status EXCEPT ![o] = "PLACED"],
     counts  |-> [st.counts EXCEPT !["PLACED"] = @ + 1],
     revenue |-> st.revenue + TotalOf[o]]
\* Upsert: an order that is known is left alone.
Upserted(st, o) ==
    IF st.status[o] # None THEN st
    ELSE [status  |-> [st.status EXCEPT ![o] = "PLACED"],
          counts  |-> [st.counts EXCEPT !["PLACED"] = @ + 1],
          revenue |-> st.revenue + TotalOf[o]]

\* Mutant: the order is still counted where it was.
StatusSetKeepingCount(st, o, s) ==
    IF st.status[o] \in {None, s} THEN st
    ELSE [status  |-> [st.status EXCEPT ![o] = s],
          counts  |-> [st.counts EXCEPT ![s] = @ + 1],
          revenue |-> st.revenue - IF s \in Refunding THEN TotalOf[o] ELSE 0]
\* SetStatus: nothing to do for an order that is not known or is there already.
StatusSet(st, o, s) ==
    IF st.status[o] \in {None, s} THEN st
    ELSE [status  |-> [st.status EXCEPT ![o] = s],
          counts  |-> [st.counts EXCEPT ![st.status[o]] = @ - 1, ![s] = @ + 1],
          revenue |-> st.revenue - IF s \in Refunding THEN TotalOf[o] ELSE 0]

\* Query: both filters are optional.
Query(c, s) ==
    {o \in Orders : /\ store.status[o] # None
                    /\ c \in {CustomerOf[o], NoFilter}
                    /\ s \in {store.status[o], NoFilter}}
OrdersList(c) == [o \in Query(c, NoFilter) |-> store.status[o]]

-----------------------------------------------------------------------------
\* Projector.Handle

\* History: whether the order's last change is one that a later event had overtaken.
Overtaken(i) ==
    LET e == stream[i]
    IN  CASE e.status = "PLACED" /\ store.status[e.order] # None -> overtaken
          [] i < latest[e.order] -> overtaken \union {e.order}
          [] OTHER -> overtaken \ {e.order}

\* History: what moving an order on from CANCELLED or REFUNDED leaves subtracted.
Overdraft(i) ==
    LET e == stream[i]
    IN  IF store.status[e.order] \in Refunding \ {e.status} /\ e.status # "PLACED"
        THEN TotalOf[e.order] ELSE 0

\* The event is applied to the store, in one critical section.
Apply(i) ==
    LET e == stream[i]
    IN  /\ handling = 0
        /\ store' = IF e.status = "PLACED" THEN Upserted(store, e.order)
                    ELSE StatusSet(store, e.order, e.status)
        /\ handling' = i
        /\ unacked' = unacked \union {i}
        /\ latest' = [latest EXCEPT ![e.order] = MaxOf({@, i})]
        /\ overtaken' = Overtaken(i)
        /\ overdrawn' = overdrawn + Overdraft(i)
        /\ UNCHANGED <<stream, pages, restarts>>

Deliver ==
    /\ next <= Len(stream)
    /\ next' = next + 1
    /\ Apply(next)
    /\ UNCHANGED repeats

\* What a former process was given and did not acknowledge.
Redeliver(i) ==
    /\ i \in unacked
    /\ Apply(i)
    /\ UNCHANGED <<next, repeats>>

Repeat(i) ==
    /\ i \in (1..next - 1) \ unacked
    /\ repeats < MaxRepeats
    /\ repeats' = repeats + 1
    /\ Apply(i)
    /\ UNCHANGED next

\* Mutant: a channel without bound.
OfferedUnbounded(page, list) ==
    IF page.st = "closed" THEN page
    ELSE [page EXCEPT !.chan = Append(@, list), !.missed = FALSE]
\* Hub.Publish: what does not fit is dropped.
Offered(page, list) ==
    IF page.st = "closed" THEN page
    ELSE IF Len(page.chan) < Buffer
         THEN [page EXCEPT !.chan = Append(@, list), !.missed = FALSE]
         ELSE [page EXCEPT !.missed = TRUE]

\* Mutant: the hub waits for room in the channel.
NotifyBlocking ==
    LET o == stream[handling].order
        c == CustomerOf[o]
    IN  /\ handling # 0
        /\ \A p \in Pages :
             PageOf[p] = c /\ pages[p].st # "closed" => Len(pages[p].chan) < Buffer
        /\ pages' = IF store.status[o] = None THEN pages
                    ELSE [p \in Pages |-> IF PageOf[p] = c THEN Offered(pages[p], OrdersList(c))
                                          ELSE pages[p]]
        /\ unacked' = unacked \ {handling}
        /\ handling' = 0
        /\ UNCHANGED <<stream, next, store, history, repeats, restarts>>
\* Projector.notify, and the acknowledgement: Handle never fails on an event of
\* the ordering service.  The owner of an order that is not known is not known.
Notify ==
    LET o == stream[handling].order
        c == CustomerOf[o]
    IN  /\ handling # 0
        /\ pages' = IF store.status[o] = None THEN pages
                    ELSE [p \in Pages |-> IF PageOf[p] = c THEN Offered(pages[p], OrdersList(c))
                                          ELSE pages[p]]
        /\ unacked' = unacked \ {handling}
        /\ handling' = 0
        /\ UNCHANGED <<stream, next, store, history, repeats, restarts>>

\* The process dies, with its views and its connections.  Messages up to k had
\* been pushed to it.
Restart ==
    /\ restarts < MaxRestarts
    /\ restarts' = restarts + 1
    /\ \E k \in next..Len(stream) + 1 :
        /\ next' = k
        /\ unacked' = unacked \union (next..k - 1)
    /\ store' = EmptyStore
    /\ handling' = 0
    /\ pages' = [p \in Pages |-> Closed]
    /\ latest' = [o \in Orders |-> 0]
    /\ overtaken' = {}
    /\ overdrawn' = 0
    /\ UNCHANGED <<stream, repeats>>

-----------------------------------------------------------------------------
\* SSEHandler.stream

UpdatePage(p, page) ==
    /\ pages' = [pages EXCEPT ![p] = page]
    /\ UNCHANGED <<stream, consumer, store, history, repeats, restarts>>

Subscribe(p) ==
    /\ pages[p].st = "closed"
    /\ UpdatePage(p, [Closed EXCEPT !.st = "subscribed"])

\* Mutant: a page waits for the first push.
SnapshotNone(p) ==
    /\ pages[p].st = "subscribed"
    /\ UpdatePage(p, [pages[p] EXCEPT !.st = "open"])
\* The list as it is now, sent before anything the channel holds.
Snapshot(p) ==
    /\ pages[p].st = "subscribed"
    /\ UpdatePage(p, [pages[p] EXCEPT !.st = "open", !.shown = OrdersList(PageOf[p])])

Receive(p) ==
    /\ pages[p].st = "open"
    /\ pages[p].chan # <<>>
    /\ UpdatePage(p, [pages[p] EXCEPT !.chan = Tail(@), !.shown = Head(pages[p].chan)])

Disconnect(p) ==
    /\ pages[p].st # "closed"
    /\ UpdatePage(p, Closed)

Next ==
    \/ \E o \in Orders : Publish(o)
    \/ Deliver
    \/ \E i \in 1..MaxLog : Redeliver(i) \/ Repeat(i)
    \/ Notify
    \/ Restart
    \/ \E p \in Pages : Subscribe(p) \/ Snapshot(p) \/ Receive(p) \/ Disconnect(p)

Spec == Init /\ [][Next]_vars

\* The subscription works its messages off.  Nobody is owed a page.
Fairness == WF_vars(Deliver \/ Notify \/ \E i \in 1..MaxLog : Redeliver(i))

FairSpec == Spec /\ Fairness

-----------------------------------------------------------------------------
\* Properties

\* The aggregates kept up incrementally are what a search would count, whatever
\* is lost, repeated, late or forgotten: the count of a status, and the revenue but
\* for one total for each time an event moved an order on from a cancellation or a
\* refund (which only a late or repeated event does; see TwiceIsOnce).
Earning == {o \in Query(NoFilter, NoFilter) : store.status[o] \notin Refunding}
StatsAgree ==
    /\ \A s \in Statuses : store.counts[s] = Cardinality(Query(NoFilter, s))
    /\ store.revenue + overdrawn = SumFunctionOnSet(TotalOf, Earning)

\* An order is listed as its last event says, also when order.placed or the last
\* event itself is handled again, and again as soon as a new event comes after an
\* old one was handled late (what the old one does is in TwiceIsOnce).
ViewIsLatest ==
    \A o \in Orders \ overtaken :
        store.status[o] # None => store.status[o] = stream[latest[o]].status

\* A page with nothing left to receive shows what the store holds, however
\* subscribing, the snapshot and pushes interleave - unless the last push did
\* not fit its channel.
PageIsCurrent ==
    \A p \in Pages :
        pages[p].st = "open" /\ pages[p].chan = <<>> /\ ~pages[p].missed =>
            \/ pages[p].shown = OrdersList(PageOf[p])
            \/ handling # 0 /\ CustomerOf[stream[handling].order] = PageOf[p]

\* The view follows the order: an order that is not listed as it is will be,
\* unless the service forgot it in a restart (ViewIsRebuilt) or its last change is
\* an old event's (TwiceIsOnce).  A page that does not read holds nothing up.
ViewFollows ==
    \A o \in Orders :
        Status(o) # store.status[o] ~>
            Status(o) = store.status[o] \/ restarts # 0 \/ o \in overtaken

\* Nothing is on its way or in hand.
CaughtUp == next > Len(stream) /\ unacked = {}

\* What the projector says of itself: handling an event twice has the result of
\* handling it once ("본질적으로 멱등하다", projector.go).  That result is that every order is
\* listed as it is, and that the revenue is "the total without the cancelled ones"
\* (view.go:31).  It does not hold.
TwiceIsOnce ==
    CaughtUp /\ restarts = 0 =>
        /\ \A o \in Orders : store.status[o] = Status(o)
        /\ store.revenue = SumFunctionOnSet(TotalOf, Earning)

\* What the service says of its view: being a durable consumer it rebuilds it from
\* the past events of the stream ("뷰를 재구축한다", cmd/readmodel/main.go).  A process
\* that is not the first does not.
ViewIsRebuilt ==
    CaughtUp => \A o \in Orders : Published(o) # {} => store.status[o] # None
=============================================================================
