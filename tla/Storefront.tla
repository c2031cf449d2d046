------------------------------ MODULE Storefront -----------------------------
(***************************************************************************)
(* The services a customer meets before the order's saga starts: customer  *)
(* (accounts), cart, catalog (prices) and the price projection each        *)
(* replica of ordering keeps to price an order with.                       *)
(*                                                                         *)
(* Customer, cart and catalog keep their state in memory behind a mutex    *)
(* that covers one repository call, not the use case: a request is a       *)
(* sequence of steps and requests interleave.  Calls are numbered; a       *)
(* call's number is also the id of what it creates (an account, a product, *)
(* a price).                                                               *)
(*                                                                         *)
(* The catalog publishes without an outbox.  Its stream has two durables,  *)
(* one per subject, each shared by all replicas of ordering: an event goes *)
(* to one replica.  A handler's set and its acknowledgement are one step,  *)
(* or the acknowledgement is lost.  Registrations publish an event nobody  *)
(* reads; it is left out, as are requests that change nothing (Get, List,  *)
(* Login, a token that does not verify, a quantity below one).             *)
(***************************************************************************)
EXTENDS Naturals, Sequences, FiniteSets, SequencesExt

CONSTANTS
    Customers,  \* registered when the model starts
    Emails,     \* of people who are not
    Products,   \* those the catalog and the projection are seeded with
    Replicas,   \* of ordering
    MaxCalls,   \* bound: requests that change something
    MaxTrouble  \* bound: restarts, failed calls, lost acknowledgements

VARIABLES
    calls,      \* every request so far: what it does, how far it is, what it has read
    accounts,   \* customer: the registered accounts
    carts,      \* cart: quantity per customer and product
    objects,    \* catalog: the Product objects, which the repository shares by pointer
    shelf,      \* catalog: the object stored for each product
    log, taken, unacked,    \* the CATALOG stream and, per subject, its durable
    ordering,   \* the price projection of each replica of ordering
    orders,
    due,        \* what a customer's answers say is in the cart (history)
    told,       \* the last event a replica's price can reflect (history)
    crossed,    \* <<replica, product>>: its events were handed out of order (history)
    excused,    \* customers, e-mails and products of overlapping or lost calls (history)
    trouble

catalog == <<objects, shelf>>
stream == <<log, taken, unacked>>
projection == <<ordering, told, crossed>>
vars == <<calls, accounts, carts, catalog, stream, projection, orders, due,
          excused, trouble>>

ASSUME StorefrontAssumption ==
    /\ MaxCalls \in Nat
    /\ MaxTrouble \in Nat
    /\ IsFiniteSet(Products)
    /\ Customers \intersect (1..MaxCalls) = {}
    /\ Products \intersect (1..MaxCalls) = {}

Subjects == {"added", "changed"}
Prices == 0..MaxCalls       \* 0: the price of the seeds, the same in both services
Empty == [p \in Products |-> 0]
Ops == [register |-> Emails, add |-> Customers, remove |-> Customers,
        checkout |-> Customers, price |-> Products, list |-> Products]
CatalogOps == {"price", "list"}
CartOps == {"add", "remove", "checkout"}

Seeded(st) == [st |-> st, prices |-> Empty, answer |-> Empty]

Active == {n \in 1..Len(calls) : calls[n].st # "done"}
ActiveOn(k) == {n \in Active : calls[n].on = k}

TypeOK ==
    /\ \A n \in 1..Len(calls) :
        /\ calls[n].op \in DOMAIN Ops
        /\ calls[n].on \in Ops[calls[n].op]
        /\ calls[n].item \in Products
        /\ calls[n].st \in {"begun", "loaded", "placed", "saved", "pulled", "done"}
    /\ accounts \subseteq [id : Customers \union 1..MaxCalls, email : Emails \union Customers]
    /\ carts \in [Customers -> [Products -> 0..MaxCalls]]
    /\ DOMAIN objects = Products \union 1..MaxCalls
    /\ \A o \in DOMAIN objects : objects[o].price \in Prices
    /\ shelf \in [Products -> DOMAIN objects]
    /\ log \in Seq([subject : Subjects, product : Products, price : Prices])
    /\ taken \in [Subjects -> 0..Len(log)]
    /\ unacked \subseteq 1..Len(log)
    /\ ordering \in [Replicas -> [st : {"down", "asked", "up"},
                                  prices : [Products -> Prices],
                                  answer : [Products -> Prices]]]
    /\ told \in [Replicas -> [Products -> 0..Len(log)]]
    /\ crossed \subseteq Replicas \X Products
    /\ \A o \in orders : o.customer \in Customers /\ o.call \in 1..Len(calls)
    /\ due \in [Customers -> [Products -> 0..MaxCalls]]
    /\ trouble \in 0..MaxTrouble

Init ==
    /\ calls = <<>>
    /\ accounts = {[id |-> c, email |-> c] : c \in Customers}
    /\ carts = [c \in Customers |-> Empty]
    /\ objects = [o \in Products \union 1..MaxCalls |-> [price |-> 0, events |-> <<>>]]
    /\ shelf = [p \in Products |-> p]
    /\ log = <<>>
    /\ taken = [d \in Subjects |-> 0]
    /\ unacked = {}
    /\ ordering = [r \in Replicas |-> Seeded("up")]
    /\ told = [r \in Replicas |-> Empty]
    /\ orders = {}
    /\ due = carts
    /\ crossed = {}
    /\ excused = {}
    /\ trouble = 0

Trouble == trouble < MaxTrouble /\ trouble' = trouble + 1

\* A request arrives and reads what it reads first.
Begin(op, k, p, st, read) ==
    /\ Len(calls) < MaxCalls
    /\ calls' = Append(calls, [op |-> op, on |-> k, item |-> p, st |-> st, read |-> read])
    /\ excused' = IF st # "done" /\ ActiveOn(k) # {} THEN excused \union {k} ELSE excused

At(n, op, st) == calls[n].op = op /\ calls[n].st = st
Goto(n, st) == calls' = [calls EXCEPT ![n].st = st]
GotoWith(n, st, read) == calls' = [calls EXCEPT ![n].st = st, ![n].read = read]
KillCalls(S) ==
    calls' = [n \in 1..Len(calls) |->
                IF calls[n].op \in S THEN [calls[n] EXCEPT !.st = "done"] ELSE calls[n]]

-----------------------------------------------------------------------------
\* customer

EmailTaken(e) == \E a \in accounts : a.email = e

\* register: FindByEmail.
Register(e) ==
    /\ \E p \in Products : Begin("register", e, p, IF EmailTaken(e) THEN "done" ELSE "begun", {})
    /\ UNCHANGED <<accounts, carts, catalog, stream, projection, orders, due, trouble>>

\* register: Save, after the hash (bcrypt: some 50 ms) and under a fresh id.
SaveAccount(n) ==
    /\ At(n, "register", "begun")
    /\ accounts' = accounts \union {[id |-> n, email |-> calls[n].on]}
    /\ Goto(n, "done")
    /\ UNCHANGED <<carts, catalog, stream, projection, orders, due, excused, trouble>>

\* The accounts were in memory only.
RestartCustomer ==
    /\ Trouble
    /\ accounts' = {}
    /\ KillCalls({"register"})
    /\ UNCHANGED <<carts, catalog, stream, projection, orders, due, excused>>

-----------------------------------------------------------------------------
\* cart

\* AddItem, RemoveItem: load.
LoadCart(op, c, p) ==
    /\ Begin(op, c, p, "begun", carts[c])
    /\ UNCHANGED <<accounts, carts, catalog, stream, projection, orders, due, trouble>>

\* domain.Cart.  Mutant: an item is taken out piece by piece.
WithItem(cart, p) == [cart EXCEPT ![p] = @ + 1]
WithoutOne(cart, p) == [cart EXCEPT ![p] = @ - 1]
WithoutItem(cart, p) == [cart EXCEPT ![p] = 0]

\* The cart as loaded, with the item in or out, is saved over what is there.
SaveCart(n) ==
    LET c == calls[n].on
        p == calls[n].item
        cart == calls[n].read
    IN  /\ \/ /\ At(n, "add", "begun")
              /\ carts' = [carts EXCEPT ![c] = WithItem(cart, p)]
              /\ due' = [due EXCEPT ![c][p] = @ + 1]
           \/ /\ At(n, "remove", "begun")
              /\ carts' = [carts EXCEPT ![c] = WithoutItem(cart, p)]
              /\ due' = [due EXCEPT ![c][p] = 0]
        /\ Goto(n, "done")
        /\ UNCHANGED <<accounts, catalog, stream, projection, orders, excused, trouble>>

Exists(c) == \E a \in accounts : a.id = c

\* Checkout: the customer service is asked first.
Checkout(c) ==
    /\ \E p \in Products : Begin("checkout", c, p, IF Exists(c) THEN "begun" ELSE "done", Empty)
    /\ UNCHANGED <<accounts, carts, catalog, stream, projection, orders, due, trouble>>

\* Checkout: load; an empty cart is refused.
LoadForCheckout(n) ==
    /\ At(n, "checkout", "begun")
    /\ LET cart == carts[calls[n].on]
       IN  GotoWith(n, IF cart = Empty THEN "done" ELSE "loaded", cart)
    /\ UNCHANGED <<accounts, carts, catalog, stream, projection, orders, due,
                   excused, trouble>>

\* PlaceOrder of ordering: the items at the prices of the replica that was asked.
OrderOf(n, r) ==
    [call |-> n, customer |-> calls[n].on, lines |-> calls[n].read,
     prices |-> ordering[r].prices]

\* Mutant: the cart is emptied before the order is placed.
EmptiedOnPlace(c) == [carts EXCEPT ![c] = Empty]
CartsOnPlace(c) == carts

Place(n, r) ==
    /\ At(n, "checkout", "loaded")
    /\ ordering[r].st = "up"
    /\ orders' = orders \union {OrderOf(n, r)}
    /\ carts' = CartsOnPlace(calls[n].on)
    /\ Goto(n, "placed")
    /\ UNCHANGED <<accounts, catalog, stream, projection, due, excused, trouble>>

\* The call to ordering fails: before the order, or its answer is lost.
PlaceFails(n, r) ==
    /\ At(n, "checkout", "loaded")
    /\ Trouble
    /\ \/ /\ carts' = CartsOnPlace(calls[n].on)
          /\ UNCHANGED <<orders, excused>>
       \/ /\ ordering[r].st = "up"
          /\ orders' = orders \union {OrderOf(n, r)}
          /\ excused' = excused \union {calls[n].on}
          /\ UNCHANGED carts
    /\ Goto(n, "done")
    /\ UNCHANGED <<accounts, catalog, stream, projection, due>>

Ordered(n) == (CHOOSE o \in orders : o.call = n).lines

\* Checkout: Delete, and the order's number is the answer.
EmptyCart(n) ==
    LET c == calls[n].on
    IN  /\ At(n, "checkout", "placed")
        /\ carts' = [carts EXCEPT ![c] = Empty]
        /\ due' = [due EXCEPT ![c] = [p \in Products |->
                     IF due[c][p] > Ordered(n)[p] THEN due[c][p] - Ordered(n)[p] ELSE 0]]
        /\ Goto(n, "done")
        /\ UNCHANGED <<accounts, catalog, stream, projection, orders, excused, trouble>>

\* The carts were in memory only.
RestartCart ==
    /\ Trouble
    /\ carts' = [c \in Customers |-> Empty]
    /\ KillCalls(CartOps)
    /\ excused' = excused \union Customers
    /\ UNCHANGED <<accounts, catalog, stream, projection, orders, due>>

-----------------------------------------------------------------------------
\* catalog

CatalogPrices == [p \in Products |-> objects[shelf[p]].price]
EventOf(subject, p, x) == [subject |-> subject, product |-> p, price |-> x]

\* ChangePrice: Find returns the stored object itself.
FindProduct(p) ==
    /\ Begin("price", p, p, "begun", shelf[p])
    /\ UNCHANGED <<accounts, carts, catalog, stream, projection, orders, due, trouble>>

\* ChangePrice: the object is changed and stored.
SavePrice(n) ==
    LET p == calls[n].on
        o == calls[n].read
    IN  /\ At(n, "price", "begun")
        /\ objects' = [objects EXCEPT ![o] =
             [price |-> n, events |-> Append(@.events, EventOf("changed", p, n))]]
        /\ shelf' = [shelf EXCEPT ![p] = o]
        /\ Goto(n, "saved")
        /\ UNCHANGED <<accounts, carts, stream, projection, orders, due, excused, trouble>>

\* AddProduct: a new object is stored, over what is there.
AddProduct(p) ==
    LET n == Len(calls) + 1
    IN  /\ Begin("list", p, p, "saved", n)
        /\ objects' = [objects EXCEPT ![n] =
             [price |-> n, events |-> <<EventOf("added", p, n)>>]]
        /\ shelf' = [shelf EXCEPT ![p] = n]
        /\ UNCHANGED <<accounts, carts, stream, projection, orders, due, trouble>>

\* PullEvents: also what another call has recorded on the same object.
Pull(n) ==
    LET o == calls[n].read
    IN  /\ calls[n].op \in CatalogOps /\ calls[n].st = "saved"
        /\ GotoWith(n, "pulled", objects[o].events)
        /\ objects' = [objects EXCEPT ![o].events = <<>>]
        /\ UNCHANGED <<accounts, carts, shelf, stream, projection, orders, due,
                       excused, trouble>>

Publish(n) ==
    /\ calls[n].op \in CatalogOps /\ calls[n].st = "pulled"
    /\ IF calls[n].read = <<>> THEN Goto(n, "done") /\ UNCHANGED log
       ELSE /\ log' = Append(log, Head(calls[n].read))
            /\ GotoWith(n, "pulled", Tail(calls[n].read))
    /\ UNCHANGED <<accounts, carts, catalog, taken, unacked, projection, orders, due,
                   excused, trouble>>

\* The price is changed, the request fails, and no event will say so.
PublishFails(n) ==
    /\ calls[n].op \in CatalogOps /\ calls[n].st = "pulled"
    /\ calls[n].read # <<>>
    /\ Trouble
    /\ Goto(n, "done")
    /\ excused' = excused \union {calls[n].on}
    /\ UNCHANGED <<accounts, carts, catalog, stream, projection, orders, due>>

\* The seeds replace what was in memory and are published again.
RestartCatalog ==
    /\ Trouble
    /\ objects' = [o \in DOMAIN objects |-> [price |-> 0, events |-> <<>>]]
    /\ shelf' = [p \in Products |-> p]
    /\ log' = log \o SetToSeq({EventOf("added", p, 0) : p \in Products})
    /\ KillCalls(CatalogOps)
    /\ UNCHANGED <<accounts, carts, taken, unacked, projection, orders, due, excused>>

-----------------------------------------------------------------------------
\* ordering: ProductProjection

\* Mutant: subscribed before the bootstrap is over.
ListeningEarly(r) == ordering[r].st \in {"asked", "up"}
Listening(r) == ordering[r].st = "up"

\* OnProductAdded, OnProductPriceChanged: what the event says is the price.
Apply(r, i) ==
    LET p == log[i].product
        old == i < told[r][p]
    IN  /\ Listening(r)
        /\ ordering' = [ordering EXCEPT ![r].prices[p] = log[i].price]
        /\ told' = [told EXCEPT ![r][p] = IF old THEN @ ELSE i]
        /\ crossed' = IF old THEN crossed \union {<<r, p>>} ELSE crossed \ {<<r, p>>}

\* The next event of a subject goes to one of the replicas.
Deliver(r, d) ==
    /\ \E i \in taken[d] + 1..Len(log) :
        /\ log[i].subject = d
        /\ \A j \in taken[d] + 1..i - 1 : log[j].subject # d
        /\ taken' = [taken EXCEPT ![d] = i]
        /\ Apply(r, i)
        /\ \/ UNCHANGED <<unacked, trouble>>
           \/ Trouble /\ unacked' = unacked \union {i}
    /\ UNCHANGED <<calls, accounts, carts, catalog, log, orders, due, excused>>

Redeliver(r, i) ==
    /\ i \in unacked
    /\ Apply(r, i)
    /\ unacked' = unacked \ {i}
    /\ UNCHANGED <<calls, accounts, carts, catalog, log, taken, orders, due, excused,
                   trouble>>

\* A replica is restarted, or another one started.
RestartOrdering(r) ==
    /\ Trouble
    /\ ordering' = [ordering EXCEPT ![r] = Seeded("down")]
    /\ told' = [told EXCEPT ![r] = Empty]
    /\ crossed' = crossed \ ({r} \X Products)
    /\ UNCHANGED <<calls, accounts, carts, catalog, stream, orders, due, excused>>

\* Bootstrap: the catalog answers.
AskCatalog(r) ==
    /\ ordering[r].st = "down"
    /\ ordering' = [ordering EXCEPT ![r].st = "asked", ![r].answer = CatalogPrices]
    /\ told' = [told EXCEPT ![r] = [p \in Products |-> Len(log)]]
    /\ UNCHANGED <<calls, accounts, carts, catalog, stream, crossed, orders, due, excused,
                   trouble>>

\* The answer is copied into the projection - or Bootstrap has failed and the
\* default seeds are - and then the replica subscribes.
Subscribe(r) ==
    /\ \/ ordering[r].st = "asked" /\ UNCHANGED trouble
       \/ ordering[r].st = "down" /\ Trouble
    /\ ordering' = [ordering EXCEPT ![r] =
         [Seeded("up") EXCEPT !.prices = ordering[r].answer]]
    /\ UNCHANGED <<calls, accounts, carts, catalog, stream, told, crossed, orders, due,
                   excused>>

Next ==
    \/ \E e \in Emails : Register(e)
    \/ \E c \in Customers, p \in Products : LoadCart("add", c, p) \/ LoadCart("remove", c, p)
    \/ \E c \in Customers : Checkout(c)
    \/ \E p \in Products : FindProduct(p) \/ AddProduct(p)
    \/ \E n \in Active :
        \/ SaveAccount(n)
        \/ SaveCart(n) \/ LoadForCheckout(n) \/ EmptyCart(n)
        \/ \E r \in Replicas : Place(n, r) \/ PlaceFails(n, r)
        \/ SavePrice(n) \/ Pull(n) \/ Publish(n) \/ PublishFails(n)
    \/ \E r \in Replicas :
        \/ \E d \in Subjects : Deliver(r, d)
        \/ \E i \in unacked : Redeliver(r, i)
        \/ AskCatalog(r) \/ Subscribe(r) \/ RestartOrdering(r)
    \/ RestartCustomer \/ RestartCart \/ RestartCatalog

Spec == Init /\ [][Next]_vars

-----------------------------------------------------------------------------
\* Properties

\* Requests about one customer or e-mail that come one after the other are safe,
\* whatever others do.  An e-mail has one account.  The cart holds exactly what the
\* customer's answers say: put in, and neither taken out nor in an order.  A checkout
\* that has placed its order has placed one, of all that is in the cart, so what it
\* goes on to delete is ordered, and once.  Going wrong takes two requests at once, a
\* checkout whose answer from ordering was lost, or a restart of the cart service.
SerialIsSafe ==
    /\ \A a, b \in accounts : a.email = b.email /\ a # b => a.email \in excused
    /\ \A c \in Customers \ excused :
        /\ carts[c] = due[c]
        /\ \A n \in ActiveOn(c) : At(n, "checkout", "placed") =>
             \E o \in orders :
                /\ o.customer = c /\ o.lines = carts[c]
                /\ {x \in orders : x.call = n} = {o}

\* A replica that has heard the last of a product charges the catalog's price:
\* every event up to the last is in the answer it started with or was handed to
\* it, in order.  Excepted are products whose calls overlapped or failed to
\* publish.  (An event another replica was handed is never heard.)
LastWordIsThePrice ==
    \A r \in Replicas : \A p \in Products \ excused :
        /\ ordering[r].st = "up"
        /\ ActiveOn(p) = {}
        /\ \A i \in 1..Len(log) : log[i].product = p => i <= told[r][p]
        /\ <<r, p>> \notin crossed
        => ordering[r].prices[p] = CatalogPrices[p]

-----------------------------------------------------------------------------
\* What the code says of these services, and is not so.

\* "Checkout turns the cart into an order" (cart_service.go): when it empties the
\* cart, the cart is what it has ordered.
CheckoutOrdersTheCart ==
    \A n \in Active : At(n, "checkout", "placed") => Ordered(n) = carts[calls[n].on]

\* An e-mail that is registered is refused (ErrCustomerExists): it has one account.
OneAccountPerEmail == \A a, b \in accounts : a.email = b.email => a = b

\* "The price may be stale for a moment" (product_projection.go): with every event
\* handled and no request under way, a replica charges what the catalog does.
StaleForAMoment ==
    /\ Active = {} /\ unacked = {}
    /\ \A i \in 1..Len(log) : i <= taken[log[i].subject]
    => \A r \in Replicas : Listening(r) => ordering[r].prices = CatalogPrices
=============================================================================
