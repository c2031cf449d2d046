--------------------------- MODULE ReadModelProofs --------------------------
(***************************************************************************)
(* The safety of the read side for any orders, customers, pages, channel   *)
(* capacity and any number of repeated events and restarts.                *)
(*                                                                         *)
(* ViewIsLatest needs that order.placed comes first among the events of an *)
(* order (PlacedFirst), or leaving a known order alone would be wrong, and *)
(* that `latest` is a message of that order.  PageIsCurrent is about a     *)
(* page with an empty channel; what is kept is that the last list a page   *)
(* was given - the end of its channel, or what it shows - is the current   *)
(* one, from the moment it subscribed.                                     *)
(***************************************************************************)
EXTENDS ReadModel, SequenceTheorems, FiniteSetTheorems, WellFoundedInduction, TLAPS

Event == [order : Orders, status : Statuses]
Page == [st : {"closed", "subscribed", "open"}, chan : Seq(Lists),
         shown : Lists \union {<<>>}, missed : BOOLEAN]

PlacedFirst ==
    \A i, j \in 1..Len(stream) :
        i < j /\ stream[i].order = stream[j].order => stream[j].status # "PLACED"

LatestIsOwn ==
    \A o \in Orders :
        IF latest[o] = 0 THEN store.status[o] = None ELSE stream[latest[o]].order = o

\* The last list a page was given.
Given(page) == IF page.chan = <<>> THEN page.shown ELSE page.chan[Len(page.chan)]

\* The store has an update the customer's pages have not.
Pending(c) ==
    /\ handling # 0
    /\ CustomerOf[stream[handling].order] = c
    /\ store.status[stream[handling].order] # None

IsCurrent(page, c) ==
    page.st = "open" \/ (page.st = "subscribed" /\ page.chan # <<>>) =>
        page.missed \/ Given(page) = OrdersList(c) \/ Pending(c)

PagesAreCurrent == \A p \in Pages : IsCurrent(pages[p], PageOf[p])

IInv == TypeOK /\ PlacedFirst /\ LatestIsOwn /\ ViewIsLatest /\ PagesAreCurrent

-----------------------------------------------------------------------------
\* A set of messages has a last one.
LEMMA MaxOfType ==
  ASSUME NEW L \in Nat, NEW S \in SUBSET (1..L), S # {}
  PROVE  MaxOf(S) \in S /\ \A k \in S : k <= MaxOf(S)
  <1> DEFINE T == {n \in Nat : \E k \in S : n = L - k}
             Less == OpToRel(<, Nat)
  <1>1. T # {} /\ T \subseteq Nat
    <2>1. PICK k \in S : TRUE
      OBVIOUS
    <2>2. L - k \in T
      BY <2>1
    <2> QED
      BY <2>2
  <1>2. \E n \in T : \A m \in T : <<m, n>> \notin Less
    <2> HIDE DEF T, Less
    <2> QED
      BY <1>1, NatLessThanWellFounded, WFMin DEF Less
  <1>3. PICK n \in T : \A m \in T : <<m, n>> \notin Less
    BY <1>2
  <1>4. \A m \in T : ~(m < n)
    BY <1>1, <1>3 DEF OpToRel
  <1>5. PICK k \in S : n = L - k
    BY <1>3
  <1>6. \A j \in S : j <= k
    <2> SUFFICES ASSUME NEW j \in S, ~(j <= k) PROVE FALSE
      OBVIOUS
    <2>1. j \in Nat /\ k \in Nat /\ L - j \in Nat /\ L - j < n
      BY <1>5
    <2>2. L - j \in T
      BY <2>1
    <2> QED
      BY <1>4, <2>1, <2>2
  <1> HIDE DEF T, Less
  <1> QED
    BY <1>5, <1>6 DEF MaxOf

LEMMA MaxOfTwo ==
  ASSUME NEW a \in Nat, NEW b \in Nat
  PROVE  MaxOf({a, b}) = IF a < b THEN b ELSE a
  <1> DEFINE m == IF a < b THEN b ELSE a
  <1>1. m \in {a, b} /\ \A k \in {a, b} : k <= m
    OBVIOUS
  <1>2. \A n \in {a, b} : (\A k \in {a, b} : k <= n) => n = m
    OBVIOUS
  <1> HIDE DEF m
  <1>3. MaxOf({a, b}) = m
    BY <1>1, <1>2 DEF MaxOf
  <1> QED
    BY <1>3 DEF m

LEMMA StreamType ==
  ASSUME TypeOK
  PROVE  /\ stream \in Seq(Event) /\ Len(stream) \in Nat
         /\ \A i \in 1..Len(stream) : stream[i] \in Event
         /\ \A i \in unacked \union (1..next - 1) : i \in 1..Len(stream)
         /\ \A o \in Orders : latest[o] \in 0..Len(stream)
         /\ handling # 0 => handling \in 1..Len(stream)
         /\ next \in 1..Len(stream) + 1
  <1>1. stream \in Seq(Event)
    BY DEF TypeOK, Event
  <1>2. Len(stream) \in Nat /\ \A i \in 1..Len(stream) : stream[i] \in Event
    BY <1>1, LenProperties, ElementOfSeq
  <1>3. \A i \in 1..next - 1 : i \in 1..Len(stream)
    BY <1>2 DEF TypeOK
  <1> QED
    BY <1>1, <1>2, <1>3 DEF TypeOK

LEMMA LongerInterval ==
  ASSUME NEW m \in Nat, NEW n \in Nat, m <= n
  PROVE  \A k \in 1..m - 1 : k \in 1..n - 1
  OBVIOUS

\* A list as the projector reads it is a list.
LEMMA ListType ==
  ASSUME TypeOK, NEW c
  PROVE  OrdersList(c) \in Lists
  <1>1. store.status \in [Orders -> Statuses \union {None}]
    BY DEF TypeOK
  <1>2. Query(c, NoFilter) \in SUBSET Orders
    BY DEF Query
  <1>3. OrdersList(c) \in [Query(c, NoFilter) -> Statuses]
    BY <1>1 DEF OrdersList, Query
  <1> QED
    BY <1>2, <1>3 DEF Lists

-----------------------------------------------------------------------------
LEMMA InitInv == Init => IInv
  <1> SUFFICES ASSUME Init PROVE IInv
    OBVIOUS
  <1>1. <<>> \in Seq(Lists) /\ Len(<<>>) = 0 /\ Buffer \in Nat \ {0}
    BY EmptySeq, ReadModelAssumption
  <1>2. stream \in Seq(Event) /\ Len(stream) \in Nat
    BY ReadModelAssumption, LenProperties DEF Init, Event
  <1>3. TypeOK
    <2>1. pages \in [Pages -> Page] /\ \A p \in Pages : Len(pages[p].chan) <= Buffer
      <3>1. Closed \in Page /\ Len(Closed.chan) <= Buffer
        BY <1>1 DEF Closed, Page
      <3> QED
        BY <3>1 DEF Init
    <2>2. store \in [status : [Orders -> Statuses \union {None}],
                    counts : [Statuses -> Int], revenue : Int]
      BY DEF Init, EmptyStore
    <2>3. latest \in [Orders -> 0..Len(stream)]
      BY <1>2 DEF Init
    <2>4. next \in 1..Len(stream) + 1 /\ unacked \subseteq 1..next - 1 /\ handling \in unacked \union {0}
          /\ overtaken \subseteq Orders /\ overdrawn \in Nat
      BY <1>2 DEF Init
    <2> QED
      BY <1>2, <2>1, <2>2, <2>3, <2>4 DEF TypeOK, Page, Event
  <1>4. PlacedFirst
    BY ReadModelAssumption DEF Init, PlacedFirst
  <1>5. LatestIsOwn /\ ViewIsLatest
    BY DEF Init, LatestIsOwn, ViewIsLatest, EmptyStore
  <1>6. PagesAreCurrent
    BY DEF Init, PagesAreCurrent, IsCurrent, Closed
  <1> QED
    BY <1>3, <1>4, <1>5, <1>6 DEF IInv

-----------------------------------------------------------------------------
\* The next event of an order: no other event of it is order.placed.
LEMMA PublishStep ==
  ASSUME IInv, NEW o \in Orders, Publish(o)
  PROVE  IInv'
  <1> DEFINE n == Len(stream)
  <1>1. PICK s \in Successors(Status(o)) : stream' = Append(stream, [order |-> o, status |-> s])
    BY DEF Publish
  <1>2. UNCHANGED <<consumer, store, pages, history>>
    BY DEF Publish
  <1>3. s \in Statuses /\ (s = "PLACED" => Status(o) = None)
    BY DEF Successors, Statuses, None
  <1>4. /\ stream \in Seq(Event) /\ n \in Nat
        /\ \A i \in 1..n : stream[i] \in Event
    BY StreamType DEF IInv
  <1>5. [order |-> o, status |-> s] \in Event
    BY <1>3 DEF Event
  <1>6. /\ stream' \in Seq(Event) /\ Len(stream') = n + 1
        /\ \A i \in 1..n : stream'[i] = stream[i]
        /\ stream'[n + 1] = [order |-> o, status |-> s]
    BY <1>1, <1>4, <1>5, AppendProperties
  <1>7. TypeOK'
    <2>1. next \in 1..Len(stream') + 1 /\ latest \in [Orders -> 0..Len(stream')]
      BY <1>4, <1>6 DEF IInv, TypeOK
    <2> QED
      BY <1>2, <1>6, <2>1 DEF IInv, TypeOK, consumer, history, Event
  <1>8. s = "PLACED" => \A i \in 1..n : stream[i].order # o
    <2> SUFFICES ASSUME Status(o) = None, Published(o) # {} PROVE FALSE
      BY <1>3 DEF Published
    <2>1. Published(o) \in SUBSET (1..n)
      BY DEF Published
    <2>2. MaxOf(Published(o)) \in 1..n
      BY <1>4, <2>1, MaxOfType
    <2>3. stream[MaxOf(Published(o))].status \in Statuses
      BY <1>4, <2>2 DEF Event
    <2> QED
      BY <2>3 DEF Status, Statuses, None
  <1>9. PlacedFirst'
    <2> SUFFICES ASSUME NEW i \in 1..n + 1, NEW j \in 1..n + 1, i < j,
                        stream'[i].order = stream'[j].order
                 PROVE stream'[j].status # "PLACED"
      BY <1>6 DEF PlacedFirst
    <2>1. i \in 1..n
      BY <1>4
    <2>2. CASE j \in 1..n
      BY <1>6, <2>1, <2>2 DEF IInv, PlacedFirst
    <2>3. CASE j = n + 1
      BY <1>6, <1>8, <2>1, <2>3
    <2> QED
      BY <1>4, <2>2, <2>3
  <1>10. LatestIsOwn' /\ ViewIsLatest'
    <2>1. \A x \in Orders : latest[x] \in 0..n /\ (latest[x] # 0 => latest[x] \in 1..n)
      BY <1>4 DEF IInv, TypeOK
    <2>2. LatestIsOwn'
      BY <1>2, <1>6, <2>1 DEF IInv, LatestIsOwn, history
    <2>3. ViewIsLatest'
      <3> SUFFICES ASSUME NEW x \in Orders \ overtaken, store.status[x] # None
                   PROVE store.status[x] = stream'[latest[x]].status
        BY <1>2 DEF ViewIsLatest, history
      <3>1. latest[x] \in 1..n
        BY <2>1 DEF IInv, LatestIsOwn
      <3> QED
        BY <1>6, <3>1 DEF IInv, ViewIsLatest
    <2> QED
      BY <2>2, <2>3
  <1>11. PagesAreCurrent'
    <2>1. \A c : OrdersList(c)' = OrdersList(c)
      BY <1>2 DEF OrdersList, Query
    <2>2. \A c : Pending(c)' <=> Pending(c)
      <3>1. handling # 0 => handling \in 1..n
        BY StreamType DEF IInv
      <3> QED
        BY <1>2, <1>6, <3>1 DEF Pending, consumer
    <2> QED
      BY <1>2, <2>1, <2>2 DEF IInv, PagesAreCurrent, IsCurrent
  <1> QED
    BY <1>7, <1>9, <1>10, <1>11 DEF IInv

-----------------------------------------------------------------------------
\* The projector

\* What the event of an order does to the store: nothing to other orders, nothing
\* at all when it is a status of an order that is not known.
LEMMA StoreApplied ==
  ASSUME TypeOK, NEW i, Apply(i), i \in 1..Len(stream),
         NEW o, o = stream[i].order, NEW s, s = stream[i].status
  PROVE  /\ o \in Orders /\ s \in Statuses
         /\ store' \in [status : [Orders -> Statuses \union {None}],
                        counts : [Statuses -> Int], revenue : Int]
         /\ \A x \in Orders \ {o} : store'.status[x] = store.status[x]
         /\ store'.status[o] =
              IF s = "PLACED" THEN (IF store.status[o] = None THEN "PLACED" ELSE store.status[o])
              ELSE (IF store.status[o] = None THEN None ELSE s)
  <1>1. o \in Orders /\ s \in Statuses
    BY StreamType DEF Event
  <1>2. /\ store.status \in [Orders -> Statuses \union {None}]
        /\ store.counts \in [Statuses -> Int] /\ store.revenue \in Int
        /\ TotalOf[o] \in Int
        /\ store \in [status : [Orders -> Statuses \union {None}],
                     counts : [Statuses -> Int], revenue : Int]
    <2>1. store \in [status : [Orders -> Statuses \union {None}],
                     counts : [Statuses -> Int], revenue : Int]
      BY DEF TypeOK
    <2>2. TotalOf[o] \in Int
      BY <1>1, ReadModelAssumption
    <2> QED
      BY <2>1, <2>2
  <1>3. store' = IF s = "PLACED" THEN Upserted(store, o) ELSE StatusSet(store, o, s)
    BY DEF Apply
  <1>4. CASE s = "PLACED"
    <2>1. CASE store.status[o] # None
      <3>1. store' = store
        BY <1>3, <1>4, <2>1 DEF Upserted
      <3> QED
        BY <1>1, <1>2, <1>4, <2>1, <3>1
    <2>2. CASE store.status[o] = None
      <3>1. store' = [status |-> [store.status EXCEPT ![o] = "PLACED"],
                      counts |-> [store.counts EXCEPT !["PLACED"] = @ + 1],
                      revenue |-> store.revenue + TotalOf[o]]
        BY <1>3, <1>4, <2>2 DEF Upserted
      <3>2. [store.status EXCEPT ![o] = "PLACED"] \in [Orders -> Statuses \union {None}]
        BY <1>1, <1>2, <1>4
      <3>3. [store.counts EXCEPT !["PLACED"] = @ + 1] \in [Statuses -> Int]
        BY <1>1, <1>2, <1>4
      <3>4. store.revenue + TotalOf[o] \in Int
        BY <1>2
      <3>5. store' \in [status : [Orders -> Statuses \union {None}],
                       counts : [Statuses -> Int], revenue : Int]
        BY <3>1, <3>2, <3>3, <3>4
      <3>6. store'.status = [store.status EXCEPT ![o] = "PLACED"]
        BY <3>1
      <3>7. store'.status[o] = "PLACED" /\ \A x \in Orders \ {o} : store'.status[x] = store.status[x]
        BY <1>1, <1>2, <3>6
      <3> QED
        BY <1>1, <1>4, <2>2, <3>5, <3>7
    <2> QED
      BY <2>1, <2>2
  <1>5. CASE s # "PLACED"
    <2>1. CASE store.status[o] \in {None, s}
      <3>1. store' = store
        BY <1>3, <1>5, <2>1 DEF StatusSet
      <3> QED
        BY <1>1, <1>2, <1>5, <2>1, <3>1
    <2>2. CASE store.status[o] \notin {None, s}
      <3> DEFINE cut == IF s \in Refunding THEN TotalOf[o] ELSE 0
      <3>1. store' = [status |-> [store.status EXCEPT ![o] = s],
                      counts |-> [store.counts EXCEPT ![store.status[o]] = @ - 1, ![s] = @ + 1],
                      revenue |-> store.revenue - cut]
        BY <1>3, <1>5, <2>2 DEF StatusSet
      <3>2. [store.status EXCEPT ![o] = s] \in [Orders -> Statuses \union {None}]
        BY <1>1, <1>2
      <3>3. [store.counts EXCEPT ![store.status[o]] = @ - 1, ![s] = @ + 1] \in [Statuses -> Int]
        BY <1>1, <1>2
      <3>4. store.revenue - cut \in Int
        BY <1>2
      <3> HIDE DEF cut
      <3> QED
        BY <1>1, <1>2, <1>5, <2>2, <3>1, <3>2, <3>3, <3>4
    <2> QED
      BY <2>1, <2>2
  <1> QED
    BY <1>4, <1>5

LEMMA OverdraftType ==
  ASSUME TypeOK, NEW i, i \in 1..Len(stream)
  PROVE  Overdraft(i) \in Nat
  <1>1. stream[i].order \in Orders
    BY StreamType DEF Event
  <1> QED
    BY <1>1, ReadModelAssumption DEF Overdraft

\* The event is applied; what is the message before it in its order's life, and
\* whether it comes late, decides what the view says.
LEMMA ApplyStep ==
  ASSUME IInv, NEW i, Apply(i), i \in 1..Len(stream),
         next' \in next..Len(stream) + 1, i \in 1..next' - 1,
         NEW o, o = stream[i].order, NEW s, s = stream[i].status
  PROVE  IInv'
  <1>0. TypeOK /\ Len(stream) \in Nat /\ next \in 1..Len(stream) + 1 /\ i \in Nat \ {0}
    BY StreamType DEF IInv
  <1>1. /\ handling = 0 /\ handling' = i
        /\ unacked' = unacked \union {i}
        /\ latest' = [latest EXCEPT ![o] = MaxOf({latest[o], i})]
        /\ overtaken' = Overtaken(i) /\ overdrawn' = overdrawn + Overdraft(i)
        /\ UNCHANGED <<stream, pages>>
    BY DEF Apply
  <1>2. /\ o \in Orders /\ s \in Statuses
        /\ store' \in [status : [Orders -> Statuses \union {None}],
                       counts : [Statuses -> Int], revenue : Int]
        /\ \A x \in Orders \ {o} : store'.status[x] = store.status[x]
        /\ store'.status[o] =
             IF s = "PLACED" THEN (IF store.status[o] = None THEN "PLACED" ELSE store.status[o])
             ELSE (IF store.status[o] = None THEN None ELSE s)
    BY <1>0, StoreApplied
  <1>3. /\ latest \in [Orders -> 0..Len(stream)] /\ latest[o] \in 0..Len(stream)
        /\ latest[o] \in Nat
    BY <1>0, <1>2 DEF TypeOK
  <1>4. /\ latest'[o] = IF latest[o] < i THEN i ELSE latest[o]
        /\ \A x \in Orders \ {o} : latest'[x] = latest[x]
        /\ latest' \in [Orders -> 0..Len(stream)]
    <2>1. MaxOf({latest[o], i}) = IF latest[o] < i THEN i ELSE latest[o]
      BY <1>0, <1>3, MaxOfTwo
    <2>2. (IF latest[o] < i THEN i ELSE latest[o]) \in 0..Len(stream)
      BY <1>0, <1>3
    <2> QED
      BY <1>1, <1>2, <1>3, <2>1, <2>2
  <1>5. TypeOK'
    <2>1. next' \in 1..Len(stream) + 1 /\ next' \in Nat /\ next <= next' /\ next \in Nat
      BY <1>0
    <2>2. unacked \subseteq 1..next' - 1
      <3>1. unacked \subseteq 1..next - 1
        BY <1>0 DEF TypeOK
      <3>2. \A k \in 1..next - 1 : k \in 1..next' - 1
        BY <2>1, LongerInterval
      <3> QED
        BY <3>1, <3>2
    <2>3. unacked' \subseteq 1..next' - 1 /\ handling' \in unacked' \union {0}
      BY <1>1, <2>2
    <2>4. overtaken' \subseteq Orders /\ overdrawn' \in Nat
      <3>1. overtaken \subseteq Orders /\ overdrawn \in Nat
        BY <1>0 DEF TypeOK
      <3>2. Overtaken(i) \subseteq Orders
        BY <1>2, <3>1 DEF Overtaken
      <3>3. Overdraft(i) \in Nat
        BY <1>0, OverdraftType
      <3> QED
        BY <1>1, <3>1, <3>2, <3>3
    <2> QED
      BY <1>0, <1>1, <1>2, <1>4, <2>1, <2>3, <2>4 DEF TypeOK
  <1>6. PlacedFirst'
    BY <1>1 DEF IInv, PlacedFirst
  <1>7. LatestIsOwn'
    <2>1. i # 0 /\ (latest[o] < i \/ latest[o] # 0)
      BY <1>0, <1>3
    <2>2. latest'[o] # 0 /\ stream[latest'[o]].order = o
      <3>1. CASE latest[o] < i
        BY <1>4, <2>1, <3>1
      <3>2. CASE ~(latest[o] < i)
        BY <1>2, <1>4, <2>1, <3>2 DEF IInv, LatestIsOwn
      <3> QED
        BY <3>1, <3>2
    <2>3. \A x \in Orders \ {o} :
            IF latest'[x] = 0 THEN store'.status[x] = None ELSE stream[latest'[x]].order = x
      BY <1>2, <1>4 DEF IInv, LatestIsOwn
    <2> QED
      BY <1>1, <1>2, <2>2, <2>3 DEF LatestIsOwn
  <1>8. ViewIsLatest'
    <2> SUFFICES ASSUME NEW x \in Orders \ overtaken', store'.status[x] # None
                 PROVE store'.status[x] = stream[latest'[x]].status
      BY <1>1 DEF ViewIsLatest
    <2>1. x # o => x \notin overtaken
      BY <1>1 DEF Overtaken
    <2>2. CASE x # o
      BY <1>2, <1>4, <2>1, <2>2 DEF IInv, ViewIsLatest
    <2>3. CASE x = o
      <3>1. o \notin Overtaken(i)
        BY <1>1, <2>3
      <3>2. i < latest[o] => s = "PLACED" /\ store.status[o] # None
        BY <3>1 DEF Overtaken
      <3>3. s = "PLACED" /\ store.status[o] # None =>
              /\ latest[o] # 0 /\ stream[latest[o]].order = o
              /\ store.status[o] = stream[latest[o]].status
        BY <1>2, <3>1 DEF IInv, LatestIsOwn, ViewIsLatest, Overtaken
      <3>4. CASE s = "PLACED" /\ store.status[o] # None
        <4>1. latest[o] \in 1..Len(stream)
          BY <1>3, <3>3, <3>4
        <4>2. ~(latest[o] < i)
          BY <3>3, <3>4, <4>1 DEF IInv, PlacedFirst
        <4> QED
          BY <1>2, <1>4, <2>3, <3>3, <3>4, <4>2
      <3>5. CASE ~(s = "PLACED" /\ store.status[o] # None)
        <4>1. ~(i < latest[o])
          BY <3>2, <3>5
        <4>2. latest'[o] = i
          BY <1>0, <1>3, <1>4, <4>1
        <4> QED
          BY <1>2, <2>3, <3>5, <4>2
      <3> QED
        BY <3>4, <3>5
    <2> QED
      BY <2>2, <2>3
  <1>9. PagesAreCurrent'
    <2> SUFFICES ASSUME NEW p \in Pages, IsCurrent(pages[p], PageOf[p])
                 PROVE IsCurrent(pages[p], PageOf[p])'
      BY <1>1 DEF IInv, PagesAreCurrent
    <2>0. PICK c \in Customers : c = PageOf[p]
      BY ReadModelAssumption
    <2>1. ~Pending(c)
      BY <1>1 DEF Pending
    <2>2. CASE CustomerOf[o] = c /\ store'.status[o] # None
      <3>1. Pending(c)'
        BY <1>0, <1>1, <2>2 DEF Pending
      <3> QED
        BY <1>1, <2>0, <3>1 DEF IsCurrent
    <2>3. CASE ~(CustomerOf[o] = c /\ store'.status[o] # None)
      <3>1. \A x \in Orders : CustomerOf[x] = c => store'.status[x] = store.status[x]
        <4>1. s # None /\ "PLACED" # None
          BY <1>2 DEF Statuses, None
        <4>2. CustomerOf[o] = c => store'.status[o] = store.status[o]
          BY <1>2, <2>3, <4>1
        <4> QED
          BY <1>2, <4>2
      <3>2. c # NoFilter
        BY ReadModelAssumption
      <3>3. Query(c, NoFilter)' = Query(c, NoFilter)
        BY <3>1, <3>2 DEF Query
      <3>4. \A x \in Query(c, NoFilter) : store'.status[x] = store.status[x]
        BY <3>1, <3>2 DEF Query
      <3>5. OrdersList(c)' = OrdersList(c)
        <4> DEFINE Q == Query(c, NoFilter)
        <4>1. OrdersList(c)' = [x \in Q |-> store'.status[x]]
          BY <3>3 DEF OrdersList
        <4>2. OrdersList(c) = [x \in Q |-> store.status[x]]
          BY DEF OrdersList
        <4>3. \A x \in Q : store'.status[x] = store.status[x]
          BY <3>4
        <4> HIDE DEF Q
        <4> QED
          BY <4>1, <4>2, <4>3
      <3> QED
        BY <1>1, <2>0, <2>1, <3>5 DEF IsCurrent, Given
    <2> QED
      BY <2>2, <2>3
  <1> QED
    BY <1>5, <1>6, <1>7, <1>8, <1>9 DEF IInv

LEMMA DeliverStep == IInv /\ Deliver => IInv'
  <1> SUFFICES ASSUME IInv, Deliver PROVE IInv'
    OBVIOUS
  <1>1. Len(stream) \in Nat /\ next \in 1..Len(stream) + 1
    BY StreamType DEF IInv
  <1>2. next <= Len(stream) /\ next' = next + 1 /\ Apply(next)
    BY DEF Deliver
  <1>3. next \in 1..Len(stream) /\ next' \in next..Len(stream) + 1 /\ next \in 1..next' - 1
    BY <1>1, <1>2
  <1> QED
    BY <1>2, <1>3, ApplyStep

LEMMA AgainStep ==
  ASSUME IInv, NEW i, Redeliver(i) \/ Repeat(i)
  PROVE  IInv'
  <1>1. Len(stream) \in Nat /\ next \in 1..Len(stream) + 1
    BY StreamType DEF IInv
  <1>2. Apply(i) /\ next' = next /\ i \in unacked \union (1..next - 1)
    BY DEF Redeliver, Repeat
  <1>3. i \in 1..Len(stream) /\ i \in 1..next - 1
    BY <1>2, StreamType DEF IInv, TypeOK
  <1>4. next' \in next..Len(stream) + 1 /\ i \in 1..next' - 1
    BY <1>1, <1>2, <1>3
  <1> QED
    BY <1>2, <1>3, <1>4, ApplyStep

-----------------------------------------------------------------------------
\* The hub and the pages

\* Lists that are added to, or taken from, the channel of a page.
LEMMA ChannelAppend ==
  ASSUME NEW ch \in Seq(Lists), NEW list \in Lists
  PROVE  /\ Append(ch, list) \in Seq(Lists) /\ Append(ch, list) # <<>>
         /\ Len(Append(ch, list)) = Len(ch) + 1
         /\ Append(ch, list)[Len(Append(ch, list))] = list
  BY AppendProperties

LEMMA ChannelTail ==
  ASSUME NEW ch \in Seq(Lists), ch # <<>>
  PROVE  /\ Head(ch) \in Lists /\ Tail(ch) \in Seq(Lists) /\ Len(Tail(ch)) <= Len(ch)
         /\ Tail(ch) = <<>> => Head(ch) = ch[Len(ch)]
         /\ Tail(ch) # <<>> => Tail(ch)[Len(Tail(ch))] = ch[Len(ch)]
  <1>1. Len(ch) \in Nat \ {0}
    BY LenProperties, EmptySeq
  <1>2. Head(ch) \in Lists /\ Head(ch) = ch[1] /\ Tail(ch) \in Seq(Lists)
        /\ Len(Tail(ch)) = Len(ch) - 1
        /\ \A k \in 1..Len(Tail(ch)) : Tail(ch)[k] = ch[k + 1]
    BY <1>1, HeadTailProperties
  <1>3. Tail(ch) = <<>> => Len(ch) = 1
    BY <1>1, <1>2
  <1>4. Tail(ch) # <<>> => Len(Tail(ch)) \in 1..Len(Tail(ch))
    BY <1>1, <1>2, EmptySeq, LenProperties
  <1> QED
    BY <1>1, <1>2, <1>3, <1>4

\* What is offered to a page that gets it, or misses it, is the current list.
LEMMA OfferedPage ==
  ASSUME NEW page \in Page, Len(page.chan) <= Buffer, NEW list \in Lists
  PROVE  /\ Offered(page, list) \in Page /\ Len(Offered(page, list).chan) <= Buffer
         /\ Offered(page, list).st = page.st
         /\ page.st # "closed" => Offered(page, list).missed
                                  \/ Given(Offered(page, list)) = list
  <1>0. page.chan \in Seq(Lists) /\ Len(page.chan) \in Nat /\ Buffer \in Nat
    BY LenProperties, ReadModelAssumption DEF Page
  <1>1. CASE page.st = "closed"
    BY <1>1 DEF Offered
  <1>2. CASE page.st # "closed" /\ Len(page.chan) < Buffer
    <2> DEFINE q == [page EXCEPT !.chan = Append(@, list), !.missed = FALSE]
    <2>1. Offered(page, list) = q
      BY <1>2 DEF Offered
    <2>2. q \in Page
      BY <1>0, ChannelAppend DEF Page
    <2>3. q.st = page.st /\ q.chan = Append(page.chan, list)
      BY DEF Page
    <2> HIDE DEF q
    <2>4. Len(q.chan) <= Buffer /\ Given(q) = list
      BY <1>0, <1>2, <2>3, ChannelAppend DEF Given
    <2> QED
      BY <2>1, <2>2, <2>3, <2>4
  <1>3. CASE page.st # "closed" /\ ~(Len(page.chan) < Buffer)
    <2> DEFINE q == [page EXCEPT !.missed = TRUE]
    <2>1. Offered(page, list) = q
      BY <1>3 DEF Offered
    <2>2. q \in Page /\ q.st = page.st /\ q.chan = page.chan /\ q.missed
      BY DEF Page
    <2> HIDE DEF q
    <2> QED
      BY <2>1, <2>2
  <1> QED
    BY <1>1, <1>2, <1>3

LEMMA NotifyStep == IInv /\ Notify => IInv'
  <1> SUFFICES ASSUME IInv, Notify PROVE IInv'
    OBVIOUS
  <1> DEFINE o == stream[handling].order
             c == CustomerOf[o]
  <1>1. /\ handling # 0 /\ handling' = 0 /\ unacked' = unacked \ {handling}
        /\ pages' = IF store.status[o] = None THEN pages
                    ELSE [p \in Pages |-> IF PageOf[p] = c THEN Offered(pages[p], OrdersList(c))
                                          ELSE pages[p]]
        /\ UNCHANGED <<stream, next, store, history>>
    BY DEF Notify
  <1>2. pages \in [Pages -> Page] /\ \A p \in Pages : Len(pages[p].chan) <= Buffer
    BY DEF IInv, TypeOK, Page
  <1>3. OrdersList(c) \in Lists
    BY ListType DEF IInv
  <1>4. /\ pages' \in [Pages -> Page]
        /\ \A p \in Pages : Len(pages'[p].chan) <= Buffer
    <2>1. CASE store.status[o] = None
      BY <1>1, <1>2, <2>1
    <2>2. CASE store.status[o] # None
      <3>1. \A p \in Pages :
              /\ pages'[p] = IF PageOf[p] = c THEN Offered(pages[p], OrdersList(c)) ELSE pages[p]
              /\ pages'[p] \in Page /\ Len(pages'[p].chan) <= Buffer
        BY <1>1, <1>2, <1>3, <2>2, OfferedPage
      <3>2. pages' = [p \in Pages |-> pages'[p]]
        BY <1>1, <2>2
      <3> QED
        BY <3>1, <3>2
    <2> QED
      BY <2>1, <2>2
  <1>5. TypeOK'
    BY <1>1, <1>4 DEF IInv, TypeOK, Page, history
  <1>6. PlacedFirst' /\ LatestIsOwn' /\ ViewIsLatest'
    BY <1>1 DEF IInv, PlacedFirst, LatestIsOwn, ViewIsLatest, history
  <1>7. PagesAreCurrent'
    <2> SUFFICES ASSUME NEW p \in Pages, IsCurrent(pages[p], PageOf[p])
                 PROVE IsCurrent(pages[p], PageOf[p])'
      BY DEF IInv, PagesAreCurrent
    <2>1. \A x : OrdersList(x)' = OrdersList(x)
      BY <1>1 DEF OrdersList, Query
    <2>2. CASE PageOf[p] = c /\ store.status[o] # None
      <3>1. pages'[p] = Offered(pages[p], OrdersList(c))
        BY <1>1, <2>2
      <3>2. /\ pages'[p].st = pages[p].st
            /\ pages[p].st # "closed" => pages'[p].missed \/ Given(pages'[p]) = OrdersList(c)
        BY <1>2, <1>3, <3>1, OfferedPage
      <3> HIDE DEF c
      <3> QED
        BY <2>1, <2>2, <3>2 DEF IsCurrent, Given
    <2>3. CASE ~(PageOf[p] = c /\ store.status[o] # None)
      <3>1. pages'[p] = pages[p]
        BY <1>1, <2>3
      <3>2. ~Pending(PageOf[p])
        BY <2>3 DEF Pending
      <3> QED
        BY <2>1, <3>1, <3>2 DEF IsCurrent, Given
    <2> QED
      BY <2>2, <2>3
  <1> QED
    BY <1>5, <1>6, <1>7 DEF IInv

LEMMA RestartStep == IInv /\ Restart => IInv'
  <1> SUFFICES ASSUME IInv, Restart PROVE IInv'
    OBVIOUS
  <1>1. PICK k \in next..Len(stream) + 1 : next' = k /\ unacked' = unacked \union (next..k - 1)
    BY DEF Restart
  <1>2. /\ store' = EmptyStore /\ handling' = 0
        /\ pages' = [p \in Pages |-> Closed]
        /\ latest' = [o \in Orders |-> 0]
        /\ overtaken' = {} /\ overdrawn' = 0 /\ stream' = stream
    BY DEF Restart
  <1>3. Len(stream) \in Nat /\ next \in 1..Len(stream) + 1
    BY StreamType DEF IInv
  <1>4. TypeOK'
    <2>1. next' \in 1..Len(stream) + 1 /\ next' \in Nat /\ next \in Nat /\ next <= next'
          /\ 1 <= next
      BY <1>1, <1>3
    <2>2. unacked' \subseteq 1..next' - 1
      <3>1. \A j \in 1..next - 1 : j \in 1..next' - 1
        BY <2>1, LongerInterval
      <3>2. \A j \in next..k - 1 : j \in 1..next' - 1
        <4> SUFFICES ASSUME NEW m \in Nat, NEW n \in Nat, 1 <= n
                     PROVE  \A j \in n..m - 1 : j \in 1..m - 1
          BY <1>1, <2>1
        <4> QED
          OBVIOUS
      <3> QED
        BY <1>1, <3>1, <3>2 DEF IInv, TypeOK
    <2>3. /\ pages' \in [Pages -> Page]
          /\ \A p \in Pages : Len(pages'[p].chan) <= Buffer
      <3>1. Closed \in Page /\ Len(Closed.chan) <= Buffer
        BY EmptySeq, ReadModelAssumption DEF Closed, Page
      <3> QED
        BY <1>2, <3>1
    <2>4. store' \in [status : [Orders -> Statuses \union {None}],
                      counts : [Statuses -> Int], revenue : Int]
      BY <1>2 DEF EmptyStore
    <2>5. latest' \in [Orders -> 0..Len(stream)] /\ overtaken' \subseteq Orders /\ overdrawn' \in Nat
      BY <1>2, <1>3
    <2> QED
      BY <1>2, <2>1, <2>2, <2>3, <2>4, <2>5 DEF IInv, TypeOK, Page
  <1>5. PlacedFirst'
    BY <1>2 DEF IInv, PlacedFirst
  <1>6. LatestIsOwn' /\ ViewIsLatest'
    BY <1>2 DEF LatestIsOwn, ViewIsLatest, EmptyStore
  <1>7. PagesAreCurrent'
    BY <1>2 DEF PagesAreCurrent, IsCurrent, Closed
  <1> QED
    BY <1>4, <1>5, <1>6, <1>7 DEF IInv

\* Only a page changes.
LEMMA PageStep ==
  ASSUME IInv, NEW p \in Pages, NEW page \in Page, UpdatePage(p, page),
         Len(page.chan) <= Buffer, IsCurrent(page, PageOf[p])
  PROVE  IInv'
  <1>1. /\ pages' = [pages EXCEPT ![p] = page]
        /\ UNCHANGED <<stream, consumer, store, history>>
    BY DEF UpdatePage
  <1>2. pages \in [Pages -> Page] /\ \A q \in Pages : Len(pages[q].chan) <= Buffer
    BY DEF IInv, TypeOK, Page
  <1>3. /\ pages' \in [Pages -> Page] /\ pages'[p] = page
        /\ \A q \in Pages \ {p} : pages'[q] = pages[q]
    BY <1>1, <1>2
  <1>4. TypeOK'
    BY <1>1, <1>2, <1>3 DEF IInv, TypeOK, Page, consumer, history
  <1>5. PlacedFirst' /\ LatestIsOwn' /\ ViewIsLatest'
    BY <1>1 DEF IInv, PlacedFirst, LatestIsOwn, ViewIsLatest, history
  <1>6. PagesAreCurrent'
    <2>1. \A x : OrdersList(x)' = OrdersList(x) /\ (Pending(x)' <=> Pending(x))
      BY <1>1 DEF OrdersList, Query, Pending, consumer
    <2>2. \A q \in Pages : IsCurrent(pages'[q], PageOf[q])
      BY <1>3 DEF IInv, PagesAreCurrent
    <2> QED
      BY <2>1, <2>2 DEF PagesAreCurrent, IsCurrent, Given
  <1> QED
    BY <1>4, <1>5, <1>6 DEF IInv

LEMMA PageSteps ==
  ASSUME IInv, NEW p \in Pages, Subscribe(p) \/ Snapshot(p) \/ Receive(p) \/ Disconnect(p)
  PROVE  IInv'
  <1>1. pages[p] \in Page /\ Len(pages[p].chan) <= Buffer /\ IsCurrent(pages[p], PageOf[p])
    BY DEF IInv, TypeOK, Page, PagesAreCurrent
  <1>2. <<>> \in Seq(Lists) /\ Len(<<>>) = 0 /\ Buffer \in Nat
        /\ pages[p].chan \in Seq(Lists) /\ Len(pages[p].chan) \in Nat
    BY <1>1, EmptySeq, LenProperties, ReadModelAssumption DEF Page
  <1>3. CASE Subscribe(p)
    <2> DEFINE q == [Closed EXCEPT !.st = "subscribed"]
    <2>1. Closed \in Page
      BY <1>2 DEF Page, Closed
    <2>2. q \in Page /\ q.st = "subscribed" /\ q.chan = <<>>
      BY <2>1 DEF Page, Closed
    <2>3. UpdatePage(p, q)
      BY <1>3 DEF Subscribe
    <2> HIDE DEF q
    <2>4. IsCurrent(q, PageOf[p]) /\ Len(q.chan) <= Buffer
      BY <1>2, <2>2 DEF IsCurrent
    <2> QED
      BY <2>2, <2>3, <2>4, PageStep
  <1>4. CASE Snapshot(p)
    <2> DEFINE q == [pages[p] EXCEPT !.st = "open", !.shown = OrdersList(PageOf[p])]
    <2>1. OrdersList(PageOf[p]) \in Lists
      BY ListType DEF IInv
    <2>2. q \in Page /\ q.chan = pages[p].chan /\ q.missed = pages[p].missed
          /\ q.shown = OrdersList(PageOf[p])
      BY <1>1, <2>1 DEF Page
    <2>3. UpdatePage(p, q) /\ pages[p].st = "subscribed"
      BY <1>4 DEF Snapshot
    <2> HIDE DEF q
    <2>4. IsCurrent(q, PageOf[p])
      BY <1>1, <2>2, <2>3 DEF IsCurrent, Given
    <2> QED
      BY <1>1, <2>2, <2>3, <2>4, PageStep
  <1>5. CASE Receive(p)
    <2> DEFINE ch == pages[p].chan
               q == [pages[p] EXCEPT !.chan = Tail(@), !.shown = Head(pages[p].chan)]
    <2>1. ch # <<>> /\ pages[p].st = "open" /\ UpdatePage(p, q)
      BY <1>5 DEF Receive
    <2>2. /\ Head(ch) \in Lists /\ Tail(ch) \in Seq(Lists) /\ Len(Tail(ch)) <= Len(ch)
          /\ Tail(ch) = <<>> => Head(ch) = ch[Len(ch)]
          /\ Tail(ch) # <<>> => Tail(ch)[Len(Tail(ch))] = ch[Len(ch)]
      BY <1>2, <2>1, ChannelTail
    <2>3. q \in Page /\ q.chan = Tail(ch) /\ q.shown = Head(ch) /\ q.missed = pages[p].missed
      BY <1>1, <2>2 DEF Page
    <2> HIDE DEF q
    <2>4. Given(q) = Given(pages[p])
      BY <2>1, <2>2, <2>3 DEF Given
    <2>5. IsCurrent(q, PageOf[p])
      BY <1>1, <2>1, <2>3, <2>4 DEF IsCurrent
    <2>6. Len(Tail(ch)) \in Nat
      BY <2>2, LenProperties
    <2>7. Len(q.chan) <= Buffer
      BY <1>1, <1>2, <2>2, <2>3, <2>6
    <2> QED
      BY <2>1, <2>3, <2>5, <2>7, PageStep
  <1>6. CASE Disconnect(p)
    <2>1. Closed \in Page /\ Len(Closed.chan) <= Buffer /\ IsCurrent(Closed, PageOf[p])
      BY <1>2 DEF Page, IsCurrent, Closed
    <2>2. UpdatePage(p, Closed)
      BY <1>6 DEF Disconnect
    <2> QED
      BY <2>1, <2>2, PageStep
  <1> QED
    BY <1>3, <1>4, <1>5, <1>6

LEMMA Stutter == IInv /\ UNCHANGED vars => IInv'
  <1> SUFFICES ASSUME IInv, UNCHANGED vars PROVE IInv'
    OBVIOUS
  <1>1. UNCHANGED <<stream, next, unacked, handling, store, pages, latest, overtaken, overdrawn>>
    BY DEF vars, consumer, history
  <1>2. TypeOK' /\ PlacedFirst' /\ LatestIsOwn' /\ ViewIsLatest'
    BY <1>1 DEF IInv, TypeOK, PlacedFirst, LatestIsOwn, ViewIsLatest
  <1>3. PagesAreCurrent'
    BY <1>1 DEF IInv, PagesAreCurrent, IsCurrent, Given, OrdersList, Query, Pending
  <1> QED
    BY <1>2, <1>3 DEF IInv

LEMMA StepInv == IInv /\ [Next]_vars => IInv'
  <1> SUFFICES ASSUME IInv, [Next]_vars PROVE IInv'
    OBVIOUS
  <1>1. CASE \E o \in Orders : Publish(o)
    BY <1>1, PublishStep
  <1>2. CASE Deliver
    BY <1>2, DeliverStep
  <1>3. CASE \E i \in 1..MaxLog : Redeliver(i) \/ Repeat(i)
    BY <1>3, AgainStep
  <1>4. CASE Notify
    BY <1>4, NotifyStep
  <1>5. CASE Restart
    BY <1>5, RestartStep
  <1>6. CASE \E p \in Pages : Subscribe(p) \/ Snapshot(p) \/ Receive(p) \/ Disconnect(p)
    BY <1>6, PageSteps
  <1>7. CASE UNCHANGED vars
    BY <1>7, Stutter
  <1> QED
    BY <1>1, <1>2, <1>3, <1>4, <1>5, <1>6, <1>7 DEF Next

-----------------------------------------------------------------------------
\* Sums

\* The units a sum of natural numbers counts: f[x] of them for each x.
Parts(f, S) == {q \in S \X Nat : 1 <= q[2] /\ q[2] <= f[q[1]]}
Total(f, S) == Cardinality(Parts(f, S))
Chosen(s) == CHOOSE x \in s : TRUE

LEMMA PartsOfOne ==
  ASSUME NEW f, NEW x, f[x] \in Nat
  PROVE  IsFiniteSet(Parts(f, {x})) /\ Total(f, {x}) = f[x]
  <1> DEFINE h == [k \in 1..f[x] |-> <<x, k>>]
  <1>1. IsFiniteSet(1..f[x]) /\ Cardinality(1..f[x]) = f[x]
    BY FS_Interval
  <1>2. h \in Bijection(1..f[x], Parts(f, {x}))
    <2>1. h \in [1..f[x] -> Parts(f, {x})]
      BY DEF Parts
    <2>2. \A a, b \in 1..f[x] : h[a] = h[b] => a = b
      OBVIOUS
    <2>3. \A q \in Parts(f, {x}) : \E k \in 1..f[x] : h[k] = q
      BY DEF Parts
    <2> QED
      BY <2>1, <2>2, <2>3 DEF Bijection, Injection, Surjection, IsInjective
  <1> HIDE DEF h
  <1>3. ExistsBijection(1..f[x], Parts(f, {x}))
    BY <1>2 DEF ExistsBijection
  <1> QED
    BY <1>1, <1>3, FS_Bijection DEF Total

LEMMA PartsFinite ==
  ASSUME NEW S, IsFiniteSet(S), NEW f, \A x \in S : f[x] \in Nat
  PROVE  IsFiniteSet(Parts(f, S))
  <1> DEFINE h == [x \in S |-> Parts(f, {x})]
             R == {Parts(f, {x}) : x \in S}
  <1>1. h \in Surjection(S, R)
    BY DEF Surjection
  <1>2. IsFiniteSet(R)
    BY <1>1, FS_Surjection
  <1>3. \A P \in R : IsFiniteSet(P)
    BY PartsOfOne
  <1>4. IsFiniteSet(UNION R)
    BY <1>2, <1>3, FS_UNION
  <1>5. Parts(f, S) = UNION R
    BY DEF Parts
  <1> QED
    BY <1>4, <1>5

LEMMA DisjointUnion ==
  ASSUME NEW A, IsFiniteSet(A), NEW B, IsFiniteSet(B), A \intersect B = {}
  PROVE  Cardinality(A \union B) = Cardinality(A) + Cardinality(B)
  <1>1. Cardinality(A \union B) = Cardinality(A) + Cardinality(B) - Cardinality(A \intersect B)
    BY FS_Union
  <1>2. Cardinality(A) \in Nat /\ Cardinality(B) \in Nat /\ Cardinality(A \intersect B) = 0
    BY FS_CardinalityType, FS_EmptySet
  <1> QED
    BY <1>1, <1>2

LEMMA TotalAdd ==
  ASSUME NEW S, IsFiniteSet(S), NEW x, x \notin S, NEW f, \A y \in S \union {x} : f[y] \in Nat
  PROVE  Total(f, S \union {x}) = Total(f, S) + f[x]
  <1>1. /\ IsFiniteSet(Parts(f, S)) 
        /\ IsFiniteSet(Parts(f, {x})) /\ Total(f, {x}) = f[x]
    BY PartsFinite, PartsOfOne
  <1>2. Parts(f, S \union {x}) = Parts(f, S) \union Parts(f, {x})
    BY DEF Parts
  <1>3. Parts(f, S) \intersect Parts(f, {x}) = {}
    BY DEF Parts
  <1>4. Cardinality(Parts(f, S) \union Parts(f, {x}))
          = Cardinality(Parts(f, S)) + Cardinality(Parts(f, {x}))
    BY <1>1, <1>3, DisjointUnion
  <1> QED
    BY <1>1, <1>2, <1>4 DEF Total

LEMMA SumIsTotal ==
  ASSUME NEW S, IsFiniteSet(S), NEW f, \A x \in S : f[x] \in Nat
  PROVE  SumFunctionOnSet(f, S) = Total(f, S)
  <1> DEFINE Eq(g) == g = [s \in SUBSET S |->
                             IF s = {} THEN 0 ELSE f[Chosen(s)] + g[s \ {Chosen(s)}]]
  <1>1. SumFunctionOnSet(f, S) = (CHOOSE g : Eq(g))[S]
    BY DEF SumFunctionOnSet, FoldFunctionOnSet, MapThenFoldSet, Chosen
  <1>2. Total(f, {}) = 0
    <2>1. Parts(f, {}) = {}
      BY DEF Parts
    <2> QED
      BY <2>1, FS_EmptySet DEF Total
  <1>3. \A s \in SUBSET S : s # {} =>
          /\ Chosen(s) \in s /\ s \ {Chosen(s)} \in SUBSET S
          /\ Total(f, s) = f[Chosen(s)] + Total(f, s \ {Chosen(s)})
    <2> SUFFICES ASSUME NEW s \in SUBSET S, NEW x \in s, x = Chosen(s)
                 PROVE Total(f, s) = f[x] + Total(f, s \ {x})
      BY DEF Chosen
    <2>1. IsFiniteSet(s \ {x}) /\ (s \ {x}) \union {x} = s
      BY FS_Subset
    <2>2. Total(f, s) = Total(f, s \ {x}) + f[x]
      BY <2>1, TotalAdd
    <2>3. Total(f, s \ {x}) \in Nat
      BY <2>1, PartsFinite, FS_CardinalityType DEF Total
    <2> QED
      BY <2>2, <2>3
  <1>4. \E g : Eq(g)
    <2> DEFINE g == [s \in SUBSET S |-> Total(f, s)]
    <2>1. g = [s \in SUBSET S |-> IF s = {} THEN 0 ELSE f[Chosen(s)] + g[s \ {Chosen(s)}]]
      BY <1>2, <1>3
    <2> HIDE DEF g
    <2> QED
      BY <2>1
  <1>5. PICK g : Eq(g) /\ SumFunctionOnSet(f, S) = g[S]
    BY <1>1, <1>4
  <1>6. \A s \in SUBSET S :
          g[s] = IF s = {} THEN 0 ELSE f[Chosen(s)] + g[s \ {Chosen(s)}]
    BY <1>5
  <1> DEFINE Bad == {s \in SUBSET S : g[s] # Total(f, s)}
  <1>7. Bad = {}
    <2> SUFFICES ASSUME Bad # {} PROVE FALSE
      OBVIOUS
    <2>1. IsWellFoundedOn(StrictSubsetOrdering(S), SUBSET S)
      BY FS_StrictSubsetOrderingWellFounded, FS_FiniteSubsetsOfFinite
    <2>2. \E s \in Bad : \A t \in Bad : ~(<<t, s>> \in StrictSubsetOrdering(S))
      <3>1. Bad \subseteq SUBSET S
        OBVIOUS
      <3> HIDE DEF Bad
      <3> QED
        BY <2>1, <3>1, WFMin
    <2>3. PICK s \in Bad : \A t \in Bad : ~(<<t, s>> \in StrictSubsetOrdering(S))
      BY <2>2
    <2>4. s # {}
      BY <1>2, <1>6
    <2>5. s \ {Chosen(s)} \notin Bad
      BY <1>3, <2>3, <2>4 DEF StrictSubsetOrdering
    <2> QED
      BY <1>3, <1>6, <2>4, <2>5
  <1> QED
    BY <1>5, <1>7

\* The sum over one element more.
LEMMA SumAdd ==
  ASSUME NEW S, IsFiniteSet(S), NEW x, x \notin S, NEW f, \A y \in S \union {x} : f[y] \in Nat
  PROVE  /\ SumFunctionOnSet(f, S) \in Nat
         /\ SumFunctionOnSet(f, S \union {x}) = SumFunctionOnSet(f, S) + f[x]
  <1>1. IsFiniteSet(S \union {x})
    BY FS_AddElement
  <1>2. SumFunctionOnSet(f, S) = Total(f, S)
    BY SumIsTotal
  <1>3. SumFunctionOnSet(f, S \union {x}) = Total(f, S \union {x})
    BY <1>1, SumIsTotal
  <1>4. Total(f, S) \in Nat
    BY PartsFinite, FS_CardinalityType DEF Total
  <1>5. Total(f, S \union {x}) = Total(f, S) + f[x]
    BY TotalAdd
  <1> QED
    BY <1>2, <1>3, <1>4, <1>5

LEMMA SumEmpty == SumFunctionOnSet(TotalOf, {}) = 0
  <1>1. Parts(TotalOf, {}) = {}
    BY DEF Parts
  <1> QED
    BY <1>1, SumIsTotal, FS_EmptySet DEF Total

-----------------------------------------------------------------------------
\* The aggregates

Store == [status : [Orders -> Statuses \union {None}], counts : [Statuses -> Int], revenue : Int]

At(st, s) == {o \in Orders : st.status[o] = s}
Listed(st) == {o \in Orders : st.status[o] # None}
EarningOf(st) == {o \in Listed(st) : st.status[o] \notin Refunding}

Counted(st) == \A s \in Statuses : st.counts[s] = Cardinality(At(st, s))
Earned(st, d) == st.revenue + d = SumFunctionOnSet(TotalOf, EarningOf(st))

StatsInv == IsFiniteSet(Listed(store)) /\ StatsAgree

LEMMA StatsAreOfStore ==
  /\ StatsAgree <=> Counted(store) /\ Earned(store, overdrawn)
  /\ StatsAgree' <=> Counted(store') /\ Earned(store', overdrawn')
  <1>1. \A s \in Statuses : Query(NoFilter, s) = At(store, s) /\ Query(NoFilter, s)' = At(store', s)
    BY DEF Query, At, Statuses, NoFilter, None
  <1>2. Earning = EarningOf(store) /\ Earning' = EarningOf(store')
    BY DEF Query, Listed, Earning, EarningOf
  <1>3. StatsAgree <=> Counted(store) /\ Earned(store, overdrawn)
    BY <1>1, <1>2 DEF StatsAgree, Counted, Earned
  <1>4. StatsAgree' <=> Counted(store') /\ Earned(store', overdrawn')
    BY <1>1, <1>2 DEF StatsAgree, Counted, Earned
  <1> QED
    BY <1>3, <1>4

LEMMA SubsetsFinite ==
  ASSUME NEW st, IsFiniteSet(Listed(st))
  PROVE  IsFiniteSet(EarningOf(st)) /\ \A s \in Statuses : IsFiniteSet(At(st, s))
  <1>1. EarningOf(st) \in SUBSET Listed(st)
    BY DEF EarningOf
  <1>2. \A s \in Statuses : At(st, s) \in SUBSET Listed(st)
    BY DEF At, Listed, Statuses, None
  <1> QED
    BY <1>1, <1>2, FS_Subset

\* A new order.
LEMMA UpsertedStats ==
  ASSUME NEW st \in Store, NEW o \in Orders, NEW d \in Nat,
         st.status[o] = None, IsFiniteSet(Listed(st))
  PROVE  /\ IsFiniteSet(Listed(Upserted(st, o)))
         /\ Counted(st) => Counted(Upserted(st, o))
         /\ Earned(st, d) => Earned(Upserted(st, o), d)
  <1> DEFINE q == Upserted(st, o)
  <1>0. IsFiniteSet(EarningOf(st)) /\ \A s \in Statuses : IsFiniteSet(At(st, s))
    BY SubsetsFinite
  <1>1. /\ st.status \in [Orders -> Statuses \union {None}] /\ st.counts \in [Statuses -> Int]
        /\ "PLACED" \in Statuses \ ({None} \union Refunding) /\ None \notin Statuses
        /\ TotalOf \in [Orders -> Nat]
    BY ReadModelAssumption DEF Store, Statuses, None, Refunding
  <1>2. /\ q.status = [st.status EXCEPT ![o] = "PLACED"]
        /\ q.counts = [st.counts EXCEPT !["PLACED"] = @ + 1]
        /\ q.revenue = st.revenue + TotalOf[o]
    BY DEF Upserted
  <1> HIDE DEF q
  <1>3. q.status[o] = "PLACED" /\ \A x \in Orders \ {o} : q.status[x] = st.status[x]
    BY <1>1, <1>2
  <1>4. /\ Listed(q) = Listed(st) \union {o}
        /\ EarningOf(q) = EarningOf(st) \union {o} /\ o \notin EarningOf(st)
        /\ At(q, "PLACED") = At(st, "PLACED") \union {o} /\ o \notin At(st, "PLACED")
        /\ \A s \in Statuses \ {"PLACED"} : At(q, s) = At(st, s)
    <2>1. Listed(q) = Listed(st) \union {o}
      BY <1>1, <1>3 DEF Listed
    <2>2. EarningOf(q) = EarningOf(st) \union {o} /\ o \notin EarningOf(st)
      BY <1>1, <1>3 DEF Listed, EarningOf
    <2>3. At(q, "PLACED") = At(st, "PLACED") \union {o} /\ o \notin At(st, "PLACED")
      BY <1>1, <1>3 DEF At
    <2>4. \A s \in Statuses \ {"PLACED"} : At(q, s) = At(st, s)
      BY <1>1, <1>3 DEF At
    <2> QED
      BY <2>1, <2>2, <2>3, <2>4
  <1>5. IsFiniteSet(Listed(q))
    BY <1>4, FS_AddElement
  <1>6. Counted(st) => Counted(q)
    <2>1. Cardinality(At(q, "PLACED")) = Cardinality(At(st, "PLACED")) + 1
      BY <1>0, <1>1, <1>4, FS_AddElement
    <2>2. q.counts["PLACED"] = st.counts["PLACED"] + 1
          /\ \A s \in Statuses \ {"PLACED"} : q.counts[s] = st.counts[s]
      BY <1>1, <1>2
    <2> QED
      BY <1>1, <1>4, <2>1, <2>2 DEF Counted
  <1>7. Earned(st, d) => Earned(q, d)
    <2>1. \A x \in EarningOf(st) \union {o} : TotalOf[x] \in Nat
      BY <1>1 DEF EarningOf, Listed
    <2>2. SumFunctionOnSet(TotalOf, EarningOf(st) \union {o})
            = SumFunctionOnSet(TotalOf, EarningOf(st)) + TotalOf[o]
      BY <1>0, <1>4, <2>1, SumAdd
    <2>3. st.revenue \in Int /\ TotalOf[o] \in Nat
      BY <1>1 DEF Store
    <2>4. q.revenue + d = st.revenue + d + TotalOf[o]
      BY <1>2, <2>3
    <2> QED
      BY <1>4, <2>2, <2>4 DEF Earned
  <1> QED
    BY <1>5, <1>6, <1>7 DEF q

\* A known order changes to another status.  What was cancelled or refunded had its
\* total subtracted, and it stays subtracted wherever the order goes.
LEMMA StatusSetStats ==
  ASSUME NEW st \in Store, NEW o \in Orders, NEW s \in Statuses, NEW d \in Nat,
         st.status[o] \notin {None, s}, s # None, IsFiniteSet(Listed(st)),
         NEW over, over = IF st.status[o] \in Refunding THEN TotalOf[o] ELSE 0
  PROVE  /\ IsFiniteSet(Listed(StatusSet(st, o, s)))
         /\ Counted(st) => Counted(StatusSet(st, o, s))
         /\ Earned(st, d) => Earned(StatusSet(st, o, s), d + over)
  <1> DEFINE q == StatusSet(st, o, s)
             t == st.status[o]
             cut == IF s \in Refunding THEN TotalOf[o] ELSE 0
  <1>0. IsFiniteSet(EarningOf(st)) /\ \A x \in Statuses : IsFiniteSet(At(st, x))
    BY SubsetsFinite
  <1>1. /\ st.status \in [Orders -> Statuses \union {None}] /\ st.counts \in [Statuses -> Int]
        /\ st.revenue \in Int /\ TotalOf \in [Orders -> Nat]
        /\ t \in Statuses /\ t # s
    BY ReadModelAssumption DEF Store
  <1>2. /\ q.status = [st.status EXCEPT ![o] = s]
        /\ q.counts = [st.counts EXCEPT ![t] = @ - 1, ![s] = @ + 1]
        /\ q.revenue = st.revenue - cut
    BY DEF StatusSet
  <1> HIDE DEF q
  <1>3. q.status[o] = s /\ \A x \in Orders \ {o} : q.status[x] = st.status[x]
    BY <1>1, <1>2
  <1>4. /\ Listed(q) = Listed(st)
        /\ At(q, s) = At(st, s) \union {o} /\ o \notin At(st, s)
        /\ At(q, t) = At(st, t) \ {o} /\ o \in At(st, t)
        /\ \A x \in Statuses \ {s, t} : At(q, x) = At(st, x)
    BY <1>1, <1>3 DEF Listed, At
  <1>5. Counted(st) => Counted(q)
    <2>1. Cardinality(At(q, s)) = Cardinality(At(st, s)) + 1
      BY <1>0, <1>4, FS_AddElement
    <2>2. Cardinality(At(q, t)) = Cardinality(At(st, t)) - 1
      <3>1. IsFiniteSet(At(st, t))
        BY <1>0, <1>1
      <3>2. Cardinality(At(st, t) \ {o}) = Cardinality(At(st, t)) - 1
        BY <1>4, <3>1, FS_RemoveElement
      <3> QED
        BY <1>4, <3>2
    <2>3. /\ q.counts[s] = st.counts[s] + 1 /\ q.counts[t] = st.counts[t] - 1
          /\ \A x \in Statuses \ {s, t} : q.counts[x] = st.counts[x]
      BY <1>1, <1>2
    <2> HIDE DEF t
    <2> QED
      BY <1>1, <1>4, <2>1, <2>2, <2>3 DEF Counted
  <1>6. Earned(st, d) => Earned(q, d + over)
    <2> SUFFICES ASSUME Earned(st, d) PROVE Earned(q, d + over)
      OBVIOUS
    <2> DEFINE rest == EarningOf(st) \ {o}
    <2>1. /\ o \notin rest /\ IsFiniteSet(rest)
          /\ \A x \in rest \union {o} : TotalOf[x] \in Nat
      BY <1>0, <1>1, FS_Subset DEF EarningOf, Listed
    <2>2. /\ EarningOf(st) = IF t \in Refunding THEN rest ELSE rest \union {o}
          /\ EarningOf(q) = IF s \in Refunding THEN rest ELSE rest \union {o}
      BY <1>1, <1>3 DEF EarningOf, Listed
    <2> HIDE DEF rest
    <2> DEFINE sum == SumFunctionOnSet(TotalOf, rest)
    <2>3. sum \in Nat /\ SumFunctionOnSet(TotalOf, rest \union {o}) = sum + TotalOf[o]
      BY <2>1, SumAdd
    <2> HIDE DEF sum
    <2>4. st.revenue + d = IF t \in Refunding THEN sum ELSE sum + TotalOf[o]
      BY <2>2, <2>3 DEF Earned, sum
    <2>5. TotalOf[o] \in Nat /\ st.revenue \in Int /\ q.revenue = st.revenue - cut
      BY <1>1, <1>2
    <2>6. q.revenue + (d + over) = IF s \in Refunding THEN sum ELSE sum + TotalOf[o]
      BY <2>3, <2>4, <2>5
    <2> QED
      BY <2>2, <2>3, <2>6 DEF Earned, sum
  <1> QED
    BY <1>0, <1>4, <1>5, <1>6 DEF q

LEMMA EmptyStats ==
  Listed(EmptyStore) = {} /\ Counted(EmptyStore) /\ Earned(EmptyStore, 0)
  <1>1. /\ EmptyStore.status = [o \in Orders |-> None]
        /\ EmptyStore.counts = [s \in Statuses |-> 0] /\ EmptyStore.revenue = 0
    BY DEF EmptyStore
  <1>2. /\ Listed(EmptyStore) = {} /\ EarningOf(EmptyStore) = {}
        /\ \A s \in Statuses : At(EmptyStore, s) = {}
    BY <1>1 DEF Listed, EarningOf, At, Statuses, None
  <1>3. Counted(EmptyStore)
    BY <1>1, <1>2, FS_EmptySet DEF Counted
  <1>4. Earned(EmptyStore, 0)
    BY <1>1, <1>2, SumEmpty DEF Earned
  <1> QED
    BY <1>2, <1>3, <1>4

LEMMA InitStats == Init => StatsInv
  <1> SUFFICES ASSUME store = EmptyStore, overdrawn = 0 PROVE StatsInv
    BY DEF Init
  <1> QED
    BY EmptyStats, FS_EmptySet, StatsAreOfStore DEF StatsInv

\* Only an order that is known and elsewhere changes, and what that leaves
\* subtracted is what Overdraft says.
LEMMA ApplyStats ==
  ASSUME IInv, StatsInv, NEW i, Apply(i), i \in 1..Len(stream)
  PROVE  StatsInv'
  <1> DEFINE o == stream[i].order
             s == stream[i].status
             t == store.status[o]
  <1>0. TypeOK /\ store \in Store /\ o \in Orders /\ s \in Statuses /\ overdrawn \in Nat
    <2>1. TypeOK /\ stream[i] \in Event
      BY StreamType DEF IInv
    <2> QED
      BY <2>1 DEF TypeOK, Store, Event
  <1>1. /\ store' = IF s = "PLACED" THEN Upserted(store, o) ELSE StatusSet(store, o, s)
        /\ overdrawn' = overdrawn + Overdraft(i)
    BY DEF Apply
  <1>2. IsFiniteSet(Listed(store)) /\ Counted(store) /\ Earned(store, overdrawn)
    BY StatsAreOfStore DEF StatsInv
  <1>3. Overdraft(i) = IF t \in Refunding /\ t # s /\ s # "PLACED" THEN TotalOf[o] ELSE 0
    BY DEF Overdraft
  <1>4. s # None /\ None \notin Refunding
    BY <1>0 DEF Statuses, None, Refunding
  <1>5. IsFiniteSet(Listed(store')) /\ Counted(store') /\ Earned(store', overdrawn')
    <2>1. CASE t = s \/ (s = "PLACED" /\ t # None) \/ (s # "PLACED" /\ t = None)
      <3>1. store' = store
        BY <1>1, <1>4, <2>1 DEF Upserted, StatusSet
      <3>2. overdrawn' = overdrawn
        BY <1>0, <1>1, <1>3, <1>4, <2>1
      <3> QED
        BY <1>2, <3>1, <3>2
    <2>2. CASE s = "PLACED" /\ t = None
      <3>1. overdrawn' = overdrawn
        BY <1>0, <1>1, <1>3, <2>2
      <3> QED
        BY <1>0, <1>1, <1>2, <2>2, <3>1, UpsertedStats
    <2>3. CASE s # "PLACED" /\ t \notin {None, s}
      <3>1. Overdraft(i) = IF t \in Refunding THEN TotalOf[o] ELSE 0
        BY <1>3, <2>3
      <3> QED
        BY <1>0, <1>1, <1>2, <1>4, <2>3, <3>1, StatusSetStats
    <2> QED
      BY <2>1, <2>2, <2>3
  <1> QED
    BY <1>5, StatsAreOfStore DEF StatsInv

LEMMA StatsStep == IInv /\ StatsInv /\ [Next]_vars => StatsInv'
  <1> SUFFICES ASSUME IInv, StatsInv, [Next]_vars PROVE StatsInv'
    OBVIOUS
  <1>1. CASE Deliver \/ \E i \in 1..MaxLog : Redeliver(i) \/ Repeat(i)
    <2>1. PICK i : /\ Apply(i)
                   /\ (i = next /\ next <= Len(stream)) \/ i \in unacked \union (1..next - 1)
      BY <1>1 DEF Deliver, Redeliver, Repeat
    <2>2. i \in 1..Len(stream)
      <3>1. Len(stream) \in Nat /\ next \in 1..Len(stream) + 1
            /\ \A k \in unacked \union (1..next - 1) : k \in 1..Len(stream)
        BY StreamType DEF IInv
      <3> QED
        BY <2>1, <3>1
    <2> QED
      BY <2>1, <2>2, ApplyStats
  <1>2. CASE UNCHANGED <<store, overdrawn>>
    BY <1>2 DEF StatsInv, StatsAgree, Earning, Query, Listed
  <1>3. CASE Restart
    <2>1. store' = EmptyStore /\ overdrawn' = 0
      BY <1>3 DEF Restart
    <2>2. Listed(store') = {} /\ Counted(store') /\ Earned(store', overdrawn')
      BY <2>1, EmptyStats
    <2> QED
      BY <2>2, FS_EmptySet, StatsAreOfStore DEF StatsInv
  <1>4. CASE \/ \E o \in Orders : Publish(o)
             \/ Notify
             \/ \E p \in Pages : Subscribe(p) \/ Snapshot(p) \/ Receive(p) \/ Disconnect(p)
    <2>1. UNCHANGED <<store, overdrawn>>
      BY <1>4 DEF Publish, Notify, Subscribe, Snapshot, Receive, Disconnect, UpdatePage, history
    <2> QED
      BY <1>2, <2>1
  <1>5. CASE UNCHANGED vars
    BY <1>2, <1>5 DEF vars, history
  <1> QED
    BY <1>1, <1>3, <1>4, <1>5 DEF Next

-----------------------------------------------------------------------------
\* The inductive invariant of the read side.
THEOREM Invariance == Spec => []IInv
  <1> QED
    BY InitInv, StepInv, PTL DEF Spec

\* Projector and hub keep the shape of the views and of every connection; no
\* channel holds more than its capacity.
THEOREM TypeCorrect == Spec => []TypeOK
  <1>1. IInv => TypeOK
    BY DEF IInv
  <1> QED
    BY <1>1, Invariance, PTL

\* Projector.Handle: a listed order is listed as its last event says, through any
\* number of repetitions and restarts, and again after the first new event that
\* follows an old one handled late.
THEOREM ViewAlwaysLatest == Spec => []ViewIsLatest
  <1>1. IInv => ViewIsLatest
    BY DEF IInv
  <1> QED
    BY <1>1, Invariance, PTL

\* MemoryStore: the counts and the revenue kept up with every event are what a
\* search over the listed orders would give - the revenue short of exactly one total
\* for each order moved on from its cancellation or refund - for any orders and
\* totals, whatever is repeated, late or forgotten.
THEOREM StatsAlwaysAgree == Spec => []StatsAgree
  <1>1. StatsInv => StatsAgree
    BY DEF StatsInv
  <1>2. Spec => []StatsInv
    BY InitStats, StatsStep, Invariance, PTL DEF Spec
  <1> QED
    BY <1>1, <1>2, PTL

\* Hub.Publish and the stream handler: a page that has read everything, and
\* missed nothing, shows what the store holds.
THEOREM PageAlwaysCurrent == Spec => []PageIsCurrent
  <1>1. IInv => PageIsCurrent
    BY DEF IInv, PagesAreCurrent, IsCurrent, Given, Pending, PageIsCurrent
  <1> QED
    BY <1>1, Invariance, PTL
=============================================================================
