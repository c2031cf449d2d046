-------------------------- MODULE StorefrontProofs --------------------------
(***************************************************************************)
(* TypeOK, SerialIsSafe and LastWordIsThePrice for any customers, e-mails, *)
(* replicas, any finite set of products and any number of requests and     *)
(* faults.                                                                 *)
(*                                                                         *)
(* For as long as a name (a customer, an e-mail, a product) is not         *)
(* excused, at most one request about it is under way, so what that        *)
(* request has read - that the e-mail is free, what is in the cart, which  *)
(* object is the product's - still holds when it writes.  IInv needs to    *)
(* know nothing of what a request about an excused name has read: calls    *)
(* carry values of some set R.                                             *)
(* Receipts says which checkout each order is of, and that it has ordered  *)
(* what it has read, so what is due to a cart goes down by exactly that.   *)
(*                                                                         *)
(* Types adds what such a request can have read at worst.  A cart holds at *)
(* most one unit per call, and due to it is at most one unit per call that *)
(* is over.  Words adds, for a product that is not excused, that the price *)
(* stored is what the stream said last or what the one call under way has  *)
(* still to say.                                                           *)
(***************************************************************************)
EXTENDS Storefront, SequenceTheorems, FiniteSetTheorems, TLAPS

Names == Emails \union Customers \union Products
Stages == {"begun", "loaded", "placed", "saved", "pulled", "done"}
Call(R) == [op : DOMAIN Ops, on : Names, item : Products, st : Stages, read : R]

CallsShape == \E R : calls \in Seq(Call(R))

CartsShape ==
    /\ carts = [c \in Customers |-> carts[c]]
    /\ due = [c \in Customers |-> due[c]]

OneAtATime == \A k : k \notin excused => \A m, n \in ActiveOn(k) : m = n

\* An active registration has read that its e-mail is free.
AccountsOnce ==
    \A e : e \notin excused =>
        /\ \A a, b \in accounts : a.email = e /\ b.email = e => a = b
        /\ \A n \in ActiveOn(e) : calls[n].op = "register" => ~EmailTaken(e)

\* This call has read the cart.
HasCart(n) ==
    \/ calls[n].op \in {"add", "remove"}
    \/ calls[n].op = "checkout" /\ calls[n].st \in {"loaded", "placed"}

CartsAgree ==
    \A c \in Customers \ excused :
        /\ due[c] \in [Products -> Nat]
        /\ carts[c] = due[c]
        /\ \A n \in ActiveOn(c) : HasCart(n) => calls[n].read = carts[c]

IInv == CallsShape /\ CartsShape /\ OneAtATime /\ AccountsOnce /\ CartsAgree

\* Every order is of one checkout, and a checkout that has placed its order has
\* placed what it has read.
OrderedBy(o) ==
    /\ o.call \in 1..Len(calls)
    /\ o.customer = calls[o.call].on
    /\ calls[o.call].op = "checkout"
    /\ calls[o.call].st \in {"placed", "done"}

Receipts ==
    /\ \A o \in orders : OrderedBy(o)
    /\ \A a, b \in orders : a.call = b.call => a = b
    /\ \A n \in 1..Len(calls) : At(n, "checkout", "placed") =>
         \E o \in orders : o.call = n /\ o.lines = calls[n].read

LEMMA OrderedIsRead ==
  ASSUME Receipts, NEW n \in 1..Len(calls), At(n, "checkout", "placed")
  PROVE  Ordered(n) = calls[n].read
  <1>1. PICK o \in orders : o.call = n /\ o.lines = calls[n].read
    BY DEF Receipts
  <1>2. \A x \in orders : x.call = n => x = o
    BY <1>1 DEF Receipts
  <1> QED
    BY <1>1, <1>2 DEF Ordered

-----------------------------------------------------------------------------
\* The calls

LEMMA CallsType ==
  ASSUME CallsShape
  PROVE  /\ Len(calls) \in Nat
         /\ \A n \in Active : n \in 1..Len(calls)
         /\ \A n \in 1..Len(calls) :
              /\ calls[n].op \in DOMAIN Ops /\ calls[n].on \in Names
              /\ calls[n].item \in Products /\ calls[n].st \in Stages
  <1>1. PICK R : calls \in Seq(Call(R))
    BY DEF CallsShape
  <1>2. Len(calls) \in Nat /\ \A n \in 1..Len(calls) : calls[n] \in Call(R)
    BY <1>1, LenProperties, ElementOfSeq
  <1> QED
    BY <1>2 DEF Active, Call

LEMMA BeginShape ==
  ASSUME CallsShape, NEW op \in DOMAIN Ops, NEW k \in Names, NEW p \in Products,
         NEW st \in Stages, NEW read, Begin(op, k, p, st, read)
  PROVE  /\ CallsShape'
         /\ Len(calls)' = Len(calls) + 1
         /\ \A n \in 1..Len(calls) : calls'[n] = calls[n]
         /\ calls'[Len(calls) + 1] = [op |-> op, on |-> k, item |-> p, st |-> st, read |-> read]
  <1> DEFINE call == [op |-> op, on |-> k, item |-> p, st |-> st, read |-> read]
  <1>1. PICK R : calls \in Seq(Call(R))
    BY DEF CallsShape
  <1> DEFINE Q == R \union {read}
  <1>2. calls' = Append(calls, call)
    BY DEF Begin
  <1>3. call \in Call(Q)
    BY DEF Call
  <1>4. calls \in Seq(Call(Q))
    <2>1. \A n \in 1..Len(calls) : calls[n] \in Call(R)
      BY <1>1, ElementOfSeq
    <2>2. \A n \in 1..Len(calls) : calls[n] \in Call(Q)
      BY <2>1 DEF Call
    <2>3. Len(calls) \in Nat /\ calls = [n \in 1..Len(calls) |-> calls[n]]
      BY <1>1, LenProperties
    <2> HIDE DEF Q
    <2> QED
      BY <2>2, <2>3
  <1> HIDE DEF Q, call
  <1>5. Append(calls, call) \in Seq(Call(Q))
    BY <1>3, <1>4, AppendProperties
  <1>6. CallsShape'
    BY <1>2, <1>5 DEF CallsShape
  <1>7. /\ Len(calls') = Len(calls) + 1
        /\ \A n \in 1..Len(calls) : calls'[n] = calls[n]
        /\ calls'[Len(calls) + 1] = call
    BY <1>2, <1>3, <1>4, AppendProperties
  <1> QED
    BY <1>6, <1>7 DEF call

\* A call goes on.
LEMMA MoveShape ==
  ASSUME CallsShape, NEW n \in 1..Len(calls), NEW st \in Stages, NEW read,
         GotoWith(n, st, read) \/ (Goto(n, st) /\ read = calls[n].read)
  PROVE  /\ CallsShape'
         /\ Len(calls)' = Len(calls)
         /\ \A m \in 1..Len(calls) : m # n => calls'[m] = calls[m]
         /\ calls'[n].op = calls[n].op /\ calls'[n].on = calls[n].on
         /\ calls'[n].item = calls[n].item
         /\ calls'[n].st = st /\ calls'[n].read = read
  <1>1. PICK R : calls \in Seq(Call(R))
    BY DEF CallsShape
  <1> DEFINE Q == R \union {read}
  <1>2. /\ Len(calls) \in Nat /\ calls = [m \in 1..Len(calls) |-> calls[m]]
        /\ \A m \in 1..Len(calls) : calls[m] \in Call(R)
    BY <1>1, LenProperties, ElementOfSeq
  <1>3. calls[n] \in Call(Q) /\ \A m \in 1..Len(calls) : calls[m] \in Call(Q)
    BY <1>2 DEF Call
  <1>4. PICK call \in Call(Q) :
          /\ calls' = [calls EXCEPT ![n] = call]
          /\ call.op = calls[n].op /\ call.on = calls[n].on /\ call.item = calls[n].item
          /\ call.st = st /\ call.read = read
    <2>1. CASE GotoWith(n, st, read)
      <3> DEFINE call == [calls[n] EXCEPT !.st = st, !.read = read]
      <3>1. calls' = [calls EXCEPT ![n] = call]
        BY <1>2, <2>1 DEF GotoWith
      <3>2. /\ call \in Call(Q)
            /\ call.op = calls[n].op /\ call.on = calls[n].on /\ call.item = calls[n].item
            /\ call.st = st /\ call.read = read
        BY <1>3 DEF Call
      <3> QED
        BY <3>1, <3>2
    <2>2. CASE Goto(n, st) /\ read = calls[n].read
      <3> DEFINE call == [calls[n] EXCEPT !.st = st]
      <3>1. calls' = [calls EXCEPT ![n] = call]
        BY <2>2 DEF Goto
      <3>2. /\ call \in Call(Q)
            /\ call.op = calls[n].op /\ call.on = calls[n].on /\ call.item = calls[n].item
            /\ call.st = st /\ call.read = read
        BY <1>3, <2>2 DEF Call
      <3> QED
        BY <3>1, <3>2
    <2> QED
      BY <2>1, <2>2
  <1>5. /\ calls'[n] = call
        /\ \A m \in 1..Len(calls) : m # n => calls'[m] = calls[m]
        /\ calls' = [m \in 1..Len(calls) |-> calls'[m]]
    BY <1>2, <1>4
  <1>6. calls' \in Seq(Call(Q)) /\ Len(calls') = Len(calls)
    <2> HIDE DEF Q
    <2>1. \A m \in 1..Len(calls) : calls'[m] \in Call(Q)
      BY <1>3, <1>5
    <2>2. calls' \in Seq(Call(Q))
      BY <1>2, <1>5, <2>1
    <2> QED
      BY <1>2, <1>5, <2>2, LenProperties
  <1>7. CallsShape'
    BY <1>6 DEF CallsShape
  <1> QED
    BY <1>4, <1>5, <1>6, <1>7

LEMMA KillShape ==
  ASSUME CallsShape, NEW S, KillCalls(S)
  PROVE  /\ CallsShape'
         /\ Len(calls)' = Len(calls)
         /\ \A n \in 1..Len(calls) :
              /\ IF calls[n].op \in S THEN calls'[n].st = "done" ELSE calls'[n] = calls[n]
              /\ calls'[n].op = calls[n].op /\ calls'[n].on = calls[n].on
              /\ calls'[n].item = calls[n].item
  <1>1. PICK R : calls \in Seq(Call(R))
    BY DEF CallsShape
  <1>2. /\ Len(calls) \in Nat
        /\ \A n \in 1..Len(calls) : calls[n] \in Call(R)
    BY <1>1, LenProperties, ElementOfSeq
  <1>3. /\ calls' = [n \in 1..Len(calls) |-> calls'[n]]
        /\ \A n \in 1..Len(calls) :
             calls'[n] = IF calls[n].op \in S THEN [calls[n] EXCEPT !.st = "done"] ELSE calls[n]
    BY DEF KillCalls
  <1>4. \A n \in 1..Len(calls) : calls'[n] \in Call(R)
    BY <1>2, <1>3 DEF Call, Stages
  <1>5. calls' \in Seq(Call(R))
    BY <1>2, <1>3, <1>4
  <1>6. Len(calls') = Len(calls)
    BY <1>2, <1>3, <1>5, LenProperties
  <1>7. \A n \in 1..Len(calls) :
          /\ calls[n].op \in S => calls'[n].st = "done"
          /\ calls'[n].op = calls[n].op /\ calls'[n].on = calls[n].on
          /\ calls'[n].item = calls[n].item
    BY <1>2, <1>3 DEF Call
  <1> QED
    BY <1>3, <1>5, <1>6, <1>7 DEF CallsShape

\* Who is active after a call has gone on.
LEMMA MoveActive ==
  ASSUME CallsShape, NEW n \in Active, NEW st \in Stages, NEW read,
         GotoWith(n, st, read) \/ (Goto(n, st) /\ read = calls[n].read)
  PROVE  /\ \A k : \A m \in ActiveOn(k)' :
              /\ m \in ActiveOn(k)
              /\ m # n => calls'[m] = calls[m]
         /\ \A k : n \in ActiveOn(k) <=> k = calls[n].on
         /\ \A k : n \in ActiveOn(k)' => st # "done"
  <1>1. n \in 1..Len(calls)
    BY CallsType
  <1>2. /\ Len(calls)' = Len(calls)
        /\ \A m \in 1..Len(calls) : m # n => calls'[m] = calls[m]
        /\ calls'[n].on = calls[n].on /\ calls'[n].st = st
    BY <1>1, MoveShape
  <1> QED
    BY <1>1, <1>2 DEF ActiveOn, Active

-----------------------------------------------------------------------------
LEMMA InitInv == Init => IInv
  <1> SUFFICES ASSUME Init PROVE IInv
    OBVIOUS
  <1>1. calls = <<>> /\ Len(calls) = 0
    BY DEF Init
  <1>2. CallsShape
    <2>1. \A R : <<>> \in Seq(Call(R))
      BY EmptySeq
    <2> QED
      BY <1>1, <2>1 DEF CallsShape
  <1>3. \A k : ActiveOn(k) = {}
    BY <1>1 DEF ActiveOn, Active
  <1>4. CartsShape /\ CartsAgree
    BY <1>3 DEF Init, CartsShape, CartsAgree, Empty
  <1>5. OneAtATime /\ AccountsOnce
    BY <1>3 DEF Init, OneAtATime, AccountsOnce
  <1> QED
    BY <1>2, <1>4, <1>5 DEF IInv

\* A step that begins no call and writes no account and no cart.
LEMMA Kept ==
  ASSUME IInv, CallsShape', excused \subseteq excused', UNCHANGED <<accounts, carts, due>>,
         \A k : \A m \in ActiveOn(k)' :
            /\ m \in ActiveOn(k)
            /\ calls'[m].op \in CatalogOps \/ calls'[m] = calls[m]
  PROVE  IInv'
  <1>1. CartsShape'
    BY DEF IInv, CartsShape
  <1>2. OneAtATime'
    BY DEF IInv, OneAtATime
  <1>3. AccountsOnce'
    BY DEF IInv, AccountsOnce, EmailTaken, CatalogOps
  <1>4. CartsAgree'
    <2> SUFFICES ASSUME NEW c \in Customers, c \notin excused'
                 PROVE /\ due'[c] \in [Products -> Nat] /\ carts'[c] = due'[c]
                       /\ \A n \in ActiveOn(c)' : HasCart(n)' => calls'[n].read = carts'[c]
      BY DEF CartsAgree
    <2>1. \A n \in ActiveOn(c)' : HasCart(n)' => HasCart(n) /\ calls'[n] = calls[n]
      BY DEF HasCart, CatalogOps
    <2> QED
      BY <2>1 DEF IInv, CartsAgree
  <1> QED
    BY <1>1, <1>2, <1>3, <1>4 DEF IInv

LEMMA BeginStep ==
  ASSUME IInv, NEW op \in DOMAIN Ops, NEW k \in Names, NEW p \in Products,
         NEW st \in Stages, NEW read, Begin(op, k, p, st, read),
         UNCHANGED <<accounts, carts, due>>,
         \/ st = "done"
         \/ op \in CatalogOps
         \/ op = "register" /\ ~EmailTaken(k)
         \/ op \in {"add", "remove"} /\ read = carts[k]
         \/ op = "checkout" /\ st = "begun"
  PROVE  IInv'
  <1>0. PICK n : n = Len(calls) + 1
    OBVIOUS
  <1>1. /\ CallsShape'
        /\ Len(calls)' = n
        /\ \A m \in 1..Len(calls) : calls'[m] = calls[m]
        /\ calls'[n] = [op |-> op, on |-> k, item |-> p, st |-> st, read |-> read]
        /\ Len(calls) \in Nat
    BY <1>0, BeginShape, CallsType DEF IInv
  <1>2. \A j : \A m \in ActiveOn(j)' :
          \/ m \in ActiveOn(j) /\ calls'[m] = calls[m]
          \/ m = n /\ j = k /\ st # "done"
    <2>1. \A m \in 1..n : m \in 1..Len(calls) \/ m = n
      BY <1>0, <1>1
    <2> QED
      BY <1>1, <2>1 DEF ActiveOn, Active
  <1>3. excused \subseteq excused' /\ (st # "done" /\ ActiveOn(k) # {} => k \in excused')
    BY DEF Begin
  <1>4. CartsShape'
    BY DEF IInv, CartsShape
  <1>5. OneAtATime'
    BY <1>2, <1>3 DEF IInv, OneAtATime
  <1>6. AccountsOnce'
    <2> SUFFICES ASSUME NEW e, e \notin excused'
                 PROVE /\ \A a, b \in accounts' : a.email = e /\ b.email = e => a = b
                       /\ \A m \in ActiveOn(e)' : calls'[m].op = "register" => ~EmailTaken(e)'
      BY DEF AccountsOnce
    <2>1. EmailTaken(e)' <=> EmailTaken(e)
      BY DEF EmailTaken
    <2>2. \A m \in ActiveOn(e)' : calls'[m].op = "register" => ~EmailTaken(e)
      BY <1>1, <1>2, <1>3 DEF IInv, AccountsOnce, CatalogOps
    <2> QED
      BY <1>3, <2>1, <2>2 DEF IInv, AccountsOnce
  <1>7. CartsAgree'
    <2> SUFFICES ASSUME NEW c \in Customers, c \notin excused'
                 PROVE /\ due'[c] \in [Products -> Nat] /\ carts'[c] = due'[c]
                       /\ \A m \in ActiveOn(c)' : HasCart(m)' => calls'[m].read = carts'[c]
      BY DEF CartsAgree
    <2>1. \A m \in ActiveOn(c)' : calls'[m] = calls[m] => (HasCart(m)' <=> HasCart(m))
      BY DEF HasCart
    <2>2. n \in ActiveOn(c)' /\ c = k /\ st # "done" /\ HasCart(n)' => read = carts[c]
      BY <1>1 DEF HasCart, CatalogOps
    <2> QED
      BY <1>1, <1>2, <1>3, <2>1, <2>2 DEF IInv, CartsAgree
  <1> QED
    BY <1>1, <1>4, <1>5, <1>6, <1>7 DEF IInv

\* A call is over, and its writes with it.
LEMMA MoveDone ==
  ASSUME CallsShape, NEW n \in Active, Goto(n, "done")
  PROVE  /\ CallsShape'
         /\ \A k : \A m \in ActiveOn(k)' : m \in ActiveOn(k) /\ m # n /\ calls'[m] = calls[m]
         /\ \A k : n \in ActiveOn(k) <=> k = calls[n].on
  <1>1. n \in 1..Len(calls) /\ "done" \in Stages
    BY CallsType DEF Stages
  <1>2. CallsShape'
    BY <1>1, MoveShape
  <1>3. /\ \A k : \A m \in ActiveOn(k)' : m \in ActiveOn(k) /\ (m # n => calls'[m] = calls[m])
        /\ \A k : n \in ActiveOn(k) <=> k = calls[n].on
        /\ \A k : n \in ActiveOn(k)' => "done" # "done"
    <2>1. PICK read : read = calls[n].read
      OBVIOUS
    <2> QED
      BY <1>1, <2>1, MoveActive
  <1> QED
    BY <1>2, <1>3

-----------------------------------------------------------------------------
\* customer

LEMMA RegisterStep ==
  ASSUME IInv, NEW e \in Emails, Register(e)
  PROVE  IInv'
  <1>1. PICK p \in Products : Begin("register", e, p, IF EmailTaken(e) THEN "done" ELSE "begun", {})
    BY DEF Register
  <1>2. "register" \in DOMAIN Ops /\ e \in Names /\ {"done", "begun"} \subseteq Stages
    BY DEF Ops, Names, Stages
  <1>3. UNCHANGED <<accounts, carts, due>>
    BY DEF Register
  <1> QED
    BY <1>1, <1>2, <1>3, BeginStep

LEMMA SaveAccountStep ==
  ASSUME IInv, NEW n \in Active, SaveAccount(n), NEW e, e = calls[n].on
  PROVE  IInv'
  <1>1. /\ calls[n].op = "register"
        /\ accounts' = accounts \union {[id |-> n, email |-> e]}
        /\ Goto(n, "done")
        /\ UNCHANGED <<carts, due, excused>>
    BY DEF SaveAccount, At
  <1>2. /\ CallsShape'
        /\ \A k : \A m \in ActiveOn(k)' : m \in ActiveOn(k) /\ m # n /\ calls'[m] = calls[m]
        /\ n \in ActiveOn(e)
    BY <1>1, MoveDone DEF IInv
  <1>3. CartsShape' /\ OneAtATime'
    BY <1>1, <1>2 DEF IInv, CartsShape, OneAtATime
  <1>4. AccountsOnce'
    <2> SUFFICES ASSUME NEW x, x \notin excused
                 PROVE /\ \A a, b \in accounts' : a.email = x /\ b.email = x => a = b
                       /\ \A m \in ActiveOn(x)' : calls'[m].op = "register" => ~EmailTaken(x)'
      BY <1>1 DEF AccountsOnce
    <2>1. CASE x = e
      <3>1. ~EmailTaken(e)
        BY <1>1, <1>2, <2>1 DEF IInv, AccountsOnce
      <3>2. ActiveOn(x)' = {}
        BY <1>2, <2>1 DEF IInv, OneAtATime
      <3> QED
        BY <1>1, <2>1, <3>1, <3>2 DEF EmailTaken
    <2>2. CASE x # e
      <3>1. \A a \in accounts' : a.email = x => a \in accounts
        BY <1>1, <2>2
      <3>2. EmailTaken(x)' <=> EmailTaken(x)
        BY <1>1, <3>1 DEF EmailTaken
      <3> QED
        BY <1>2, <3>1, <3>2 DEF IInv, AccountsOnce
    <2> QED
      BY <2>1, <2>2
  <1>5. CartsAgree'
    BY <1>1, <1>2 DEF IInv, CartsAgree, HasCart
  <1> QED
    BY <1>2, <1>3, <1>4, <1>5 DEF IInv

\* Calls are over because their service was restarted.
LEMMA KillActive ==
  ASSUME CallsShape, NEW S, KillCalls(S)
  PROVE  /\ CallsShape'
         /\ \A k : \A m \in ActiveOn(k)' :
              m \in ActiveOn(k) /\ calls'[m] = calls[m] /\ calls[m].op \notin S
  BY KillShape DEF ActiveOn, Active

LEMMA RestartCustomerStep ==
  ASSUME IInv, RestartCustomer
  PROVE  IInv'
  <1>1. /\ accounts' = {} /\ KillCalls({"register"})
        /\ UNCHANGED <<carts, due, excused>>
    BY DEF RestartCustomer
  <1>2. /\ CallsShape'
        /\ \A k : \A m \in ActiveOn(k)' : m \in ActiveOn(k) /\ calls'[m] = calls[m]
    BY <1>1, KillActive DEF IInv
  <1>3. CartsShape' /\ OneAtATime'
    BY <1>1, <1>2 DEF IInv, CartsShape, OneAtATime
  <1>4. AccountsOnce'
    BY <1>1 DEF AccountsOnce, EmailTaken
  <1>5. CartsAgree'
    BY <1>1, <1>2 DEF IInv, CartsAgree, HasCart
  <1> QED
    BY <1>2, <1>3, <1>4, <1>5 DEF IInv

-----------------------------------------------------------------------------
\* cart

LEMMA CartBegins ==
  ASSUME IInv, NEW c \in Customers,
         Checkout(c) \/ \E p \in Products : LoadCart("add", c, p) \/ LoadCart("remove", c, p)
  PROVE  IInv'
  <1>1. {"add", "remove", "checkout"} \subseteq DOMAIN Ops /\ c \in Names
        /\ {"done", "begun"} \subseteq Stages
    BY DEF Ops, Names, Stages
  <1>2. CASE Checkout(c)
    <2>1. PICK p \in Products :
            Begin("checkout", c, p, IF Exists(c) THEN "begun" ELSE "done", Empty)
      BY <1>2 DEF Checkout
    <2>2. UNCHANGED <<accounts, carts, due>>
      BY <1>2 DEF Checkout
    <2> QED
      BY <1>1, <2>1, <2>2, BeginStep
  <1>3. ASSUME NEW p \in Products, NEW op \in {"add", "remove"}, LoadCart(op, c, p) PROVE IInv'
    <2>1. Begin(op, c, p, "begun", carts[c]) /\ UNCHANGED <<accounts, carts, due>>
      BY <1>3 DEF LoadCart
    <2> QED
      BY <1>1, <2>1, BeginStep
  <1> QED
    BY <1>2, <1>3

\* A call that is over has written one customer's cart, and what is due to it.
LEMMA CartWritten ==
  ASSUME IInv, NEW n \in Active, Goto(n, "done"), NEW c, c = calls[n].on,
         CartsShape',
         \A x \in Customers : x # c => carts'[x] = carts[x] /\ due'[x] = due[x],
         UNCHANGED <<accounts, excused>>,
         c \in Customers \ excused => carts'[c] = due'[c] /\ due'[c] \in [Products -> Nat]
  PROVE  IInv'
  <1>1. /\ CallsShape'
        /\ \A k : \A m \in ActiveOn(k)' : m \in ActiveOn(k) /\ m # n /\ calls'[m] = calls[m]
        /\ n \in ActiveOn(c)
    BY MoveDone DEF IInv
  <1>3. OneAtATime'
    BY <1>1 DEF IInv, OneAtATime
  <1>4. AccountsOnce'
    BY <1>1 DEF IInv, AccountsOnce, EmailTaken
  <1>5. CartsAgree'
    <2> SUFFICES ASSUME NEW x \in Customers, x \notin excused
                 PROVE /\ due'[x] \in [Products -> Nat] /\ carts'[x] = due'[x]
                       /\ \A m \in ActiveOn(x)' : HasCart(m)' => calls'[m].read = carts'[x]
      BY DEF CartsAgree
    <2>1. CASE x = c
      <3>1. ActiveOn(x)' = {}
        BY <1>1, <2>1 DEF IInv, OneAtATime
      <3> QED
        BY <2>1, <3>1
    <2>2. CASE x # c
      <3>1. \A m \in ActiveOn(x)' : HasCart(m)' => HasCart(m)
        BY <1>1 DEF HasCart
      <3> QED
        BY <1>1, <2>2, <3>1 DEF IInv, CartsAgree
    <2> QED
      BY <2>1, <2>2
  <1> QED
    BY <1>1, <1>3, <1>4, <1>5 DEF IInv

LEMMA ChangedCart ==
  ASSUME NEW f \in [Products -> Nat], NEW p \in Products
  PROVE  /\ [f EXCEPT ![p] = @ + 1] \in [Products -> Nat]
         /\ [f EXCEPT ![p] = 0] \in [Products -> Nat]
  OBVIOUS

LEMMA SaveCartStep ==
  ASSUME IInv, NEW n \in Active, SaveCart(n), NEW c, c = calls[n].on
  PROVE  IInv'
  <1> DEFINE p == calls[n].item
             cart == calls[n].read
  <1>1. Goto(n, "done") /\ UNCHANGED <<accounts, excused>>
        /\ calls[n].op \in {"add", "remove"} /\ p \in Products
    BY CallsType DEF SaveCart, At, IInv
  <1>2. c \in Customers \ excused => due[c] = cart /\ due[c] \in [Products -> Nat]
    <2>1. n \in ActiveOn(c)
      BY DEF ActiveOn
    <2> QED
      BY <1>1, <2>1 DEF IInv, CartsAgree, HasCart
  <1>3. CASE carts' = [carts EXCEPT ![c] = WithItem(cart, p)]
             /\ due' = [due EXCEPT ![c][p] = @ + 1]
    <2>1. /\ CartsShape'
          /\ \A x \in Customers : x # c => carts'[x] = carts[x] /\ due'[x] = due[x]
          /\ c \in Customers => /\ carts'[c] = [cart EXCEPT ![p] = @ + 1]
                              /\ due'[c] = [due[c] EXCEPT ![p] = @ + 1]
      BY <1>3 DEF IInv, CartsShape, WithItem
    <2> QED
      BY <1>1, <1>2, <2>1, ChangedCart, CartWritten
  <1>4. CASE carts' = [carts EXCEPT ![c] = WithoutItem(cart, p)]
             /\ due' = [due EXCEPT ![c][p] = 0]
    <2>1. /\ CartsShape'
          /\ \A x \in Customers : x # c => carts'[x] = carts[x] /\ due'[x] = due[x]
          /\ c \in Customers => /\ carts'[c] = [cart EXCEPT ![p] = 0]
                              /\ due'[c] = [due[c] EXCEPT ![p] = 0]
      BY <1>4 DEF IInv, CartsShape, WithoutItem
    <2> QED
      BY <1>1, <1>2, <2>1, ChangedCart, CartWritten
  <1> QED
    BY <1>3, <1>4 DEF SaveCart

\* The cart is emptied of what was ordered, and that was all of it.
LEMMA EmptyCartStep ==
  ASSUME IInv, Receipts, NEW n \in Active, EmptyCart(n), NEW c, c = calls[n].on
  PROVE  IInv'
  <1>0. Ordered(n) = calls[n].read
    BY OrderedIsRead, CallsType DEF EmptyCart, IInv
  <1> DEFINE owed == [p \in Products |->
               IF due[c][p] > calls[n].read[p] THEN due[c][p] - calls[n].read[p] ELSE 0]
  <1>1. /\ Goto(n, "done") /\ UNCHANGED <<accounts, excused>>
        /\ calls[n].op = "checkout" /\ calls[n].st = "placed"
        /\ carts' = [carts EXCEPT ![c] = Empty]
        /\ due' = [due EXCEPT ![c] = owed]
    BY <1>0 DEF EmptyCart, At
  <1>2. c \in Customers \ excused => Empty = owed /\ owed \in [Products -> Nat]
    <2> SUFFICES ASSUME c \in Customers \ excused
                 PROVE Empty = owed /\ owed \in [Products -> Nat]
      OBVIOUS
    <2>1. n \in ActiveOn(c) /\ HasCart(n)
      BY <1>1 DEF ActiveOn, HasCart
    <2>2. due[c] = calls[n].read /\ due[c] \in [Products -> Nat]
      BY <2>1 DEF IInv, CartsAgree
    <2>3. \A p \in Products : due[c][p] \in Nat /\ ~(due[c][p] > due[c][p])
      BY <2>2
    <2>4. owed = [p \in Products |-> 0]
      BY <2>2, <2>3
    <2> QED
      BY <2>4 DEF Empty
  <1> HIDE DEF owed
  <1>3. /\ CartsShape'
        /\ \A x \in Customers : x # c => carts'[x] = carts[x] /\ due'[x] = due[x]
        /\ c \in Customers => carts'[c] = Empty /\ due'[c] = owed
    BY <1>1 DEF IInv, CartsShape
  <1> QED
    BY <1>1, <1>2, <1>3, CartWritten

LEMMA LoadForCheckoutStep ==
  ASSUME IInv, NEW n \in Active, LoadForCheckout(n), NEW c, c = calls[n].on
  PROVE  IInv'
  <1>1. PICK st \in Stages : GotoWith(n, st, carts[c])
    BY DEF LoadForCheckout, Stages
  <1>2. UNCHANGED <<accounts, carts, due, excused>> /\ n \in 1..Len(calls)
        /\ calls[n].op = "checkout"
    BY CallsType DEF LoadForCheckout, IInv, At
  <1>3. /\ CallsShape' /\ calls'[n].op = "checkout" /\ calls'[n].read = carts[c]
        /\ \A k : \A m \in ActiveOn(k)' :
             m \in ActiveOn(k) /\ (m # n => calls'[m] = calls[m])
        /\ \A k : n \in ActiveOn(k) <=> k = c
    BY <1>1, <1>2, MoveShape, MoveActive DEF IInv
  <1>4. CartsShape' /\ OneAtATime'
    BY <1>2, <1>3 DEF IInv, CartsShape, OneAtATime
  <1>5. AccountsOnce'
    BY <1>2, <1>3 DEF IInv, AccountsOnce, EmailTaken
  <1>6. CartsAgree'
    <2> SUFFICES ASSUME NEW x \in Customers, x \notin excused, NEW m \in ActiveOn(x)', HasCart(m)'
                 PROVE calls'[m].read = carts[x]
      BY <1>2 DEF IInv, CartsAgree
    <2>1. CASE m = n
      BY <1>3, <2>1
    <2>2. CASE m # n
      BY <1>3, <2>2 DEF IInv, CartsAgree, HasCart
    <2> QED
      BY <2>1, <2>2
  <1> QED
    BY <1>3, <1>4, <1>5, <1>6 DEF IInv

\* The order is placed from the cart as it was loaded, or is not.
LEMMA PlaceStep ==
  ASSUME IInv, NEW n \in Active, NEW r \in Replicas, Place(n, r) \/ PlaceFails(n, r)
  PROVE  IInv'
  <1>1. PICK read : read = calls[n].read
    OBVIOUS
  <1>2. CASE Place(n, r)
    <2>1. /\ Goto(n, "placed") /\ n \in 1..Len(calls) /\ "placed" \in Stages
          /\ calls[n].op = "checkout" /\ calls[n].st = "loaded"
          /\ UNCHANGED <<accounts, carts, due, excused>>
      BY <1>2, CallsType DEF Place, At, CartsOnPlace, Stages, IInv
    <2>2. /\ CallsShape' /\ calls'[n].op = "checkout" /\ calls'[n].read = calls[n].read
          /\ \A k : \A m \in ActiveOn(k)' :
               m \in ActiveOn(k) /\ (m # n => calls'[m] = calls[m])
      <3>1. CallsShape
        BY DEF IInv
      <3>2. CallsShape' /\ calls'[n].op = "checkout" /\ calls'[n].read = calls[n].read
        BY <1>1, <2>1, <3>1, MoveShape
      <3>3. \A k : \A m \in ActiveOn(k)' :
               m \in ActiveOn(k) /\ (m # n => calls'[m] = calls[m])
        BY <1>1, <2>1, <3>1, MoveActive
      <3> QED
        BY <3>2, <3>3
    <2>3. CartsShape' /\ OneAtATime'
      BY <2>1, <2>2 DEF IInv, CartsShape, OneAtATime
    <2>4. AccountsOnce'
      BY <2>1, <2>2 DEF IInv, AccountsOnce, EmailTaken
    <2>5. CartsAgree'
      <3> SUFFICES ASSUME NEW x \in Customers, x \notin excused, NEW m \in ActiveOn(x)', HasCart(m)'
                   PROVE calls'[m].read = carts[x]
        BY <2>1 DEF IInv, CartsAgree
      <3>1. HasCart(m)
        BY <2>1, <2>2 DEF HasCart
      <3>2. calls'[m].read = calls[m].read
        BY <2>2
      <3> QED
        BY <2>2, <3>1, <3>2 DEF IInv, CartsAgree
    <2> QED
      BY <2>2, <2>3, <2>4, <2>5 DEF IInv
  <1>3. CASE PlaceFails(n, r)
    <2>1. Goto(n, "done") /\ UNCHANGED <<accounts, carts, due>> /\ excused \subseteq excused'
      BY <1>3 DEF PlaceFails, CartsOnPlace
    <2>2. /\ CallsShape'
          /\ \A k : \A m \in ActiveOn(k)' : m \in ActiveOn(k) /\ calls'[m] = calls[m]
      BY <2>1, MoveDone DEF IInv
    <2> QED
      BY <2>1, <2>2, Kept
  <1> QED
    BY <1>2, <1>3

LEMMA RestartCartStep ==
  ASSUME IInv, RestartCart
  PROVE  IInv'
  <1>1. /\ carts' = [c \in Customers |-> Empty] /\ KillCalls(CartOps)
        /\ excused' = excused \union Customers
        /\ UNCHANGED <<accounts, due>>
    BY DEF RestartCart
  <1>2. /\ CallsShape'
        /\ \A k : \A m \in ActiveOn(k)' : m \in ActiveOn(k) /\ calls'[m] = calls[m]
    BY <1>1, KillActive DEF IInv
  <1>3. CartsShape' /\ OneAtATime' /\ CartsAgree'
    BY <1>1, <1>2 DEF IInv, CartsShape, OneAtATime, CartsAgree
  <1>4. AccountsOnce'
    BY <1>1, <1>2 DEF IInv, AccountsOnce, EmailTaken
  <1> QED
    BY <1>2, <1>3, <1>4 DEF IInv

-----------------------------------------------------------------------------
\* catalog and ordering touch no account and no cart.

LEMMA CatalogMove ==
  ASSUME IInv, NEW n \in Active, NEW st \in Stages, NEW read,
         GotoWith(n, st, read) \/ (Goto(n, st) /\ read = calls[n].read),
         calls[n].op \in CatalogOps,
         excused \subseteq excused', UNCHANGED <<accounts, carts, due>>
  PROVE  IInv'
  <1>1. n \in 1..Len(calls) /\ CallsShape
    BY CallsType DEF IInv
  <1>2. CallsShape' /\ calls'[n].op = calls[n].op
    BY <1>1, MoveShape
  <1>3. \A k : \A m \in ActiveOn(k)' : m \in ActiveOn(k) /\ (m # n => calls'[m] = calls[m])
    BY <1>1, MoveActive
  <1> QED
    BY <1>2, <1>3, Kept

LEMMA CatalogStep ==
  ASSUME IInv, NEW n \in Active, SavePrice(n) \/ Pull(n) \/ Publish(n) \/ PublishFails(n)
  PROVE  IInv'
  <1>1. calls[n].op \in CatalogOps /\ excused \subseteq excused'
        /\ UNCHANGED <<accounts, carts, due>>
    BY DEF SavePrice, Pull, Publish, PublishFails, At, CatalogOps
  <1>2. \E st \in Stages : \E read :
          GotoWith(n, st, read) \/ (Goto(n, st) /\ read = calls[n].read)
    <2>1. {"saved", "pulled", "done"} \subseteq Stages
      BY DEF Stages
    <2>2. CASE SavePrice(n)
      <3>1. Goto(n, "saved")
        BY <2>2 DEF SavePrice
      <3> QED
        BY <2>1, <3>1
    <2>3. CASE Pull(n)
      <3>1. \E read : GotoWith(n, "pulled", read)
        BY <2>3 DEF Pull
      <3> QED
        BY <2>1, <3>1
    <2>4. CASE Publish(n)
      <3>1. Goto(n, "done") \/ \E read : GotoWith(n, "pulled", read)
        BY <2>4 DEF Publish
      <3> QED
        BY <2>1, <3>1
    <2>5. CASE PublishFails(n)
      <3>1. Goto(n, "done")
        BY <2>5 DEF PublishFails
      <3> QED
        BY <2>1, <3>1
    <2> QED
      BY <2>2, <2>3, <2>4, <2>5
  <1> QED
    BY <1>1, <1>2, CatalogMove

LEMMA CatalogBegins ==
  ASSUME IInv, NEW p \in Products, FindProduct(p) \/ AddProduct(p)
  PROVE  IInv'
  <1>1. {"price", "list"} \subseteq DOMAIN Ops /\ p \in Names /\ {"begun", "saved"} \subseteq Stages
        /\ {"price", "list"} \subseteq CatalogOps
    BY DEF Ops, Names, Stages, CatalogOps
  <1>2. CASE FindProduct(p)
    <2>1. Begin("price", p, p, "begun", shelf[p]) /\ UNCHANGED <<accounts, carts, due>>
      BY <1>2 DEF FindProduct
    <2> QED
      BY <1>1, <2>1, BeginStep
  <1>3. CASE AddProduct(p)
    <2>1. PICK n : Begin("list", p, p, "saved", n) /\ UNCHANGED <<accounts, carts, due>>
      BY <1>3 DEF AddProduct
    <2> QED
      BY <1>1, <2>1, BeginStep
  <1> QED
    BY <1>2, <1>3

LEMMA RestartCatalogStep ==
  ASSUME IInv, RestartCatalog
  PROVE  IInv'
  <1>1. KillCalls(CatalogOps) /\ UNCHANGED <<accounts, carts, due, excused>>
    BY DEF RestartCatalog
  <1>2. /\ CallsShape'
        /\ \A k : \A m \in ActiveOn(k)' : m \in ActiveOn(k) /\ calls'[m] = calls[m]
    BY <1>1, KillActive DEF IInv
  <1> QED
    BY <1>1, <1>2, Kept

\* Whatever leaves the calls, the accounts and the carts alone.
LEMMA Elsewhere ==
  ASSUME IInv, UNCHANGED <<calls, accounts, carts, due, excused>>
  PROVE  IInv'
  <1>1. CallsShape' /\ \A k : ActiveOn(k)' = ActiveOn(k)
    BY DEF IInv, CallsShape, ActiveOn, Active
  <1> QED
    BY <1>1, Kept

LEMMA OrderingStep ==
  ASSUME IInv, NEW r \in Replicas,
         \/ \E d \in Subjects : Deliver(r, d)
         \/ \E i \in unacked : Redeliver(r, i)
         \/ AskCatalog(r) \/ Subscribe(r) \/ RestartOrdering(r)
  PROVE  IInv'
  <1>1. UNCHANGED <<calls, accounts, carts, due, excused>>
    BY DEF Deliver, Redeliver, AskCatalog, Subscribe, RestartOrdering
  <1> QED
    BY <1>1, Elsewhere

LEMMA StepInv == IInv /\ Receipts /\ [Next]_vars => IInv'
  <1> SUFFICES ASSUME IInv, Receipts, [Next]_vars PROVE IInv'
    OBVIOUS
  <1>1. ASSUME NEW e \in Emails, Register(e) PROVE IInv'
    BY <1>1, RegisterStep
  <1>2. ASSUME NEW c \in Customers,
               Checkout(c) \/ \E p \in Products : LoadCart("add", c, p) \/ LoadCart("remove", c, p)
        PROVE IInv'
    BY <1>2, CartBegins
  <1>3. ASSUME NEW p \in Products, FindProduct(p) \/ AddProduct(p) PROVE IInv'
    BY <1>3, CatalogBegins
  <1>4. ASSUME NEW n \in Active, SaveAccount(n) PROVE IInv'
    BY <1>4, SaveAccountStep
  <1>5. ASSUME NEW n \in Active, SaveCart(n) PROVE IInv'
    BY <1>5, SaveCartStep
  <1>6. ASSUME NEW n \in Active, LoadForCheckout(n) PROVE IInv'
    BY <1>6, LoadForCheckoutStep
  <1>7. ASSUME NEW n \in Active, EmptyCart(n) PROVE IInv'
    BY <1>7, EmptyCartStep
  <1>8. ASSUME NEW n \in Active, NEW r \in Replicas, Place(n, r) \/ PlaceFails(n, r) PROVE IInv'
    BY <1>8, PlaceStep
  <1>9. ASSUME NEW n \in Active, SavePrice(n) \/ Pull(n) \/ Publish(n) \/ PublishFails(n)
        PROVE IInv'
    BY <1>9, CatalogStep
  <1>10. ASSUME NEW r \in Replicas,
                \/ \E d \in Subjects : Deliver(r, d)
                \/ \E i \in unacked : Redeliver(r, i)
                \/ AskCatalog(r) \/ Subscribe(r) \/ RestartOrdering(r)
         PROVE IInv'
    BY <1>10, OrderingStep
  <1>11. CASE RestartCustomer \/ RestartCart \/ RestartCatalog
    BY <1>11, RestartCustomerStep, RestartCartStep, RestartCatalogStep
  <1>12. CASE UNCHANGED vars
    <2>1. UNCHANGED <<calls, accounts, carts, due, excused>>
      BY <1>12 DEF vars
    <2> QED
      BY <2>1, Elsewhere
  <1> QED
    BY <1>1, <1>2, <1>3, <1>4, <1>5, <1>6, <1>7, <1>8, <1>9, <1>10, <1>11, <1>12 DEF Next

-----------------------------------------------------------------------------
\* Receipts.  A call that another step leaves alone, or that is over, keeps its order;
\* none but Place makes one.

Onward(n) ==
    \/ n \notin 1..Len(calls) /\ calls'[n].st # "placed"
    \/ /\ n \in 1..Len(calls)
       /\ calls'[n].op = calls[n].op /\ calls'[n].on = calls[n].on
       /\ \/ calls'[n] = calls[n] \/ calls'[n].st = "done" \/ calls[n].op # "checkout"
          \/ calls[n].st \notin {"placed", "done"} /\ calls'[n].st # "placed"

LEMMA InitReceipts == Init => Receipts
  <1> SUFFICES ASSUME Init PROVE Receipts
    OBVIOUS
  <1>1. orders = {} /\ Len(calls) = 0
    BY DEF Init
  <1> QED
    BY <1>1 DEF Receipts

LEMMA ReceiptsKept ==
  ASSUME Receipts, UNCHANGED orders, \A n \in 1..Len(calls) : n \in 1..Len(calls'),
         \A n \in 1..Len(calls') : Onward(n)
  PROVE  Receipts'
  <1>1. \A o \in orders : OrderedBy(o)'
    <2> SUFFICES ASSUME NEW o \in orders PROVE OrderedBy(o)'
      OBVIOUS
    <2>1. OrderedBy(o)
      BY DEF Receipts
    <2>2. Onward(o.call) /\ o.call \in 1..Len(calls')
      BY <2>1 DEF OrderedBy
    <2> QED
      BY <2>1, <2>2 DEF OrderedBy, Onward
  <1>2. ASSUME NEW n \in 1..Len(calls'), At(n, "checkout", "placed")'
        PROVE  \E o \in orders : o.call = n /\ o.lines = calls'[n].read
    <2>1. n \in 1..Len(calls) /\ calls'[n] = calls[n]
      BY <1>2 DEF Onward, At
    <2> QED
      BY <1>2, <2>1 DEF Receipts, At
  <1> QED
    BY <1>1, <1>2 DEF Receipts

LEMMA BegunOnward ==
  ASSUME CallsShape, NEW op \in DOMAIN Ops, NEW k \in Names, NEW p \in Products,
         NEW st \in Stages \ {"placed"}, NEW read, Begin(op, k, p, st, read)
  PROVE  /\ \A n \in 1..Len(calls) : n \in 1..Len(calls')
         /\ \A n \in 1..Len(calls') : Onward(n)
  <1>1. /\ Len(calls') = Len(calls) + 1
        /\ \A n \in 1..Len(calls) : calls'[n] = calls[n]
        /\ calls'[Len(calls) + 1] = [op |-> op, on |-> k, item |-> p, st |-> st, read |-> read]
        /\ Len(calls) \in Nat
    BY BeginShape, CallsType
  <1>2. \A n \in 1..Len(calls') : n \in 1..Len(calls) \/ n = Len(calls) + 1
    BY <1>1
  <1>3. Len(calls) + 1 \notin 1..Len(calls) /\ \A n \in 1..Len(calls) : n \in 1..Len(calls')
    BY <1>1
  <1> QED
    BY <1>1, <1>2, <1>3 DEF Onward

LEMMA MovedOnward ==
  ASSUME CallsShape, NEW n \in Active, NEW st \in Stages, NEW read,
         GotoWith(n, st, read) \/ (Goto(n, st) /\ read = calls[n].read),
         \/ st = "done" \/ calls[n].op # "checkout"
         \/ calls[n].st # "placed" /\ st # "placed"
  PROVE  /\ \A m \in 1..Len(calls) : m \in 1..Len(calls')
         /\ \A m \in 1..Len(calls') : Onward(m)
  <1>1. n \in 1..Len(calls) /\ calls[n].st # "done"
    BY CallsType DEF Active
  <1>2. /\ Len(calls)' = Len(calls)
        /\ \A m \in 1..Len(calls) : m # n => calls'[m] = calls[m]
        /\ calls'[n].op = calls[n].op /\ calls'[n].on = calls[n].on
        /\ calls'[n].st = st
    BY <1>1, MoveShape
  <1> QED
    BY <1>1, <1>2 DEF Onward

LEMMA KilledOnward ==
  ASSUME CallsShape, NEW S, KillCalls(S)
  PROVE  /\ \A n \in 1..Len(calls) : n \in 1..Len(calls')
         /\ \A n \in 1..Len(calls') : Onward(n)
  BY KillShape DEF Onward

LEMMA PlaceReceipts ==
  ASSUME CallsShape, Receipts, NEW n \in Active, NEW r \in Replicas,
         Place(n, r) \/ PlaceFails(n, r)
  PROVE  Receipts'
  <1>1. n \in 1..Len(calls) /\ calls[n].op = "checkout" /\ calls[n].st = "loaded"
    BY CallsType DEF Place, PlaceFails, At
  <1>2. PICK st \in {"placed", "done"} :
          /\ Goto(n, st)
          /\ \/ orders' = orders \union {OrderOf(n, r)}
             \/ st = "done" /\ UNCHANGED orders
    BY DEF Place, PlaceFails
  <1>3. /\ Len(calls)' = Len(calls)
        /\ \A m \in 1..Len(calls) : m # n => calls'[m] = calls[m]
        /\ calls'[n].op = calls[n].op /\ calls'[n].on = calls[n].on
        /\ calls'[n].st = st /\ calls'[n].read = calls[n].read
    <2>1. st \in Stages
      BY <1>2 DEF Stages
    <2>2. PICK read : read = calls[n].read
      OBVIOUS
    <2> QED
      BY <1>1, <1>2, <2>1, <2>2, MoveShape
  <1>4. \A o \in orders : o.call # n /\ OrderedBy(o)'
    <2> SUFFICES ASSUME NEW o \in orders PROVE o.call # n /\ OrderedBy(o)'
      OBVIOUS
    <2>1. OrderedBy(o)
      BY DEF Receipts
    <2> QED
      BY <1>1, <1>3, <2>1 DEF OrderedBy
  <1>5. PICK o : o = OrderOf(n, r)
    OBVIOUS
  <1>6. o.call = n /\ o.customer = calls[n].on /\ o.lines = calls[n].read
    BY <1>5 DEF OrderOf
  <1>7. OrderedBy(o)'
    BY <1>1, <1>2, <1>3, <1>6 DEF OrderedBy
  <1>8. ASSUME NEW m \in 1..Len(calls'), At(m, "checkout", "placed")'
        PROVE  \E x \in orders' : x.call = m /\ x.lines = calls'[m].read
    <2>1. CASE m = n
      BY <1>2, <1>3, <1>5, <1>6, <1>8, <2>1 DEF At
    <2>2. CASE m # n
      <3>1. m \in 1..Len(calls) /\ calls'[m] = calls[m] /\ orders \subseteq orders'
        BY <1>2, <1>3, <2>2
      <3> QED
        BY <1>8, <3>1 DEF At, Receipts
    <2> QED
      BY <2>1, <2>2
  <1>9. \A a, b \in orders' : a.call = b.call => a = b
    <2>1. \A a, b \in orders : a.call = b.call => a = b
      BY DEF Receipts
    <2>2. \A a \in orders' : a \in orders \/ a = o
      BY <1>2, <1>5
    <2> QED
      BY <1>4, <1>6, <2>1, <2>2
  <1>10. \A a \in orders' : OrderedBy(a)'
    BY <1>2, <1>4, <1>5, <1>7
  <1> QED
    BY <1>8, <1>9, <1>10 DEF Receipts

LEMMA BeginReceipts ==
  ASSUME CallsShape, Receipts,
         \/ \E e \in Emails : Register(e)
         \/ \E c \in Customers :
              Checkout(c) \/ \E p \in Products : LoadCart("add", c, p) \/ LoadCart("remove", c, p)
         \/ \E p \in Products : FindProduct(p) \/ AddProduct(p)
  PROVE  Receipts'
  <1>1. /\ DOMAIN Ops = {"register", "add", "remove", "checkout", "price", "list"}
        /\ {"begun", "saved", "done"} \subseteq Stages \ {"placed"}
    BY DEF Ops, Stages
  <1>2. Emails \subseteq Names /\ Customers \subseteq Names /\ Products \subseteq Names
    BY DEF Names
  <1>3. /\ UNCHANGED orders
        /\ \E op \in DOMAIN Ops, k \in Names, p \in Products, st \in Stages \ {"placed"} :
             \E read : Begin(op, k, p, st, read)
    <2>1. CASE \E e \in Emails : Register(e)
      <3>1. PICK e \in Emails, p \in Products :
              Begin("register", e, p, IF EmailTaken(e) THEN "done" ELSE "begun", {})
        BY <2>1 DEF Register
      <3>2. UNCHANGED orders
        BY <2>1 DEF Register
      <3> QED
        BY <1>1, <1>2, <3>1, <3>2
    <2>2. ASSUME NEW c \in Customers, Checkout(c)
          PROVE  UNCHANGED orders /\ \E p \in Products, st \in {"begun", "done"} :
                                       Begin("checkout", c, p, st, Empty)
      BY <2>2 DEF Checkout
    <2>3. ASSUME NEW c \in Customers, NEW p \in Products, NEW op \in {"add", "remove"},
                 LoadCart(op, c, p)
          PROVE  UNCHANGED orders /\ Begin(op, c, p, "begun", carts[c])
      BY <2>3 DEF LoadCart
    <2>4. ASSUME NEW p \in Products, FindProduct(p)
          PROVE  UNCHANGED orders /\ Begin("price", p, p, "begun", shelf[p])
      BY <2>4 DEF FindProduct
    <2>5. ASSUME NEW p \in Products, AddProduct(p)
          PROVE  UNCHANGED orders /\ \E read : Begin("list", p, p, "saved", read)
      BY <2>5 DEF AddProduct
    <2>6. CASE \E c \in Customers : Checkout(c)
      BY <1>1, <1>2, <2>2, <2>6
    <2>7. CASE \E c \in Customers, p \in Products : LoadCart("add", c, p) \/ LoadCart("remove", c, p)
      BY <1>1, <1>2, <2>3, <2>7
    <2>8. CASE \E p \in Products : FindProduct(p) \/ AddProduct(p)
      BY <1>1, <1>2, <2>4, <2>5, <2>8
    <2> QED
      BY <2>1, <2>6, <2>7, <2>8
  <1>4. PICK op \in DOMAIN Ops, k \in Names, p \in Products, st \in Stages \ {"placed"} :
          \E read : Begin(op, k, p, st, read)
    BY <1>3
  <1>5. PICK read : Begin(op, k, p, st, read)
    BY <1>4
  <1> QED
    BY <1>3, <1>5, BegunOnward, ReceiptsKept

LEMMA MoveReceipts ==
  ASSUME CallsShape, Receipts, NEW n \in Active,
         \/ SaveAccount(n) \/ SaveCart(n) \/ LoadForCheckout(n) \/ EmptyCart(n)
         \/ SavePrice(n) \/ Pull(n) \/ Publish(n) \/ PublishFails(n)
  PROVE  Receipts'
  <1>1. UNCHANGED orders
    BY DEF SaveAccount, SaveCart, LoadForCheckout, EmptyCart, SavePrice, Pull, Publish,
           PublishFails
  <1>2. {"loaded", "saved", "pulled", "done"} \subseteq Stages \ {"placed"}
    BY DEF Stages
  <1>3. \/ Goto(n, "done")
        \/ Goto(n, "saved") /\ calls[n].op # "checkout"
        \/ \E read : GotoWith(n, "pulled", read) /\ calls[n].op # "checkout"
        \/ calls[n].st = "begun" /\ \E st \in {"done", "loaded"} : \E read : GotoWith(n, st, read)
    <2>1. CASE SaveAccount(n) \/ SaveCart(n) \/ EmptyCart(n) \/ PublishFails(n)
      BY <2>1 DEF SaveAccount, SaveCart, EmptyCart, PublishFails
    <2>2. CASE LoadForCheckout(n)
      BY <2>2 DEF LoadForCheckout, At
    <2>3. CASE SavePrice(n)
      BY <2>3 DEF SavePrice, At
    <2>4. CASE Pull(n)
      BY <2>4 DEF Pull, CatalogOps
    <2>5. CASE Publish(n)
      BY <2>5 DEF Publish, CatalogOps
    <2> QED
      BY <2>1, <2>2, <2>3, <2>4, <2>5
  <1>4. PICK st \in Stages \ {"placed"} :
          /\ Goto(n, st) \/ \E read : GotoWith(n, st, read)
          /\ st = "done" \/ calls[n].op # "checkout" \/ calls[n].st # "placed"
    BY <1>2, <1>3
  <1>5. PICK read : GotoWith(n, st, read) \/ (Goto(n, st) /\ read = calls[n].read)
    BY <1>4
  <1> QED
    BY <1>1, <1>4, <1>5, MovedOnward, ReceiptsKept

LEMMA StepReceipts == IInv /\ Receipts /\ [Next]_vars => Receipts'
  <1> SUFFICES ASSUME CallsShape, Receipts, [Next]_vars PROVE Receipts'
    BY DEF IInv
  <1>1. ASSUME NEW n \in Active, NEW r \in Replicas, Place(n, r) \/ PlaceFails(n, r)
        PROVE Receipts'
    BY <1>1, PlaceReceipts
  <1>2. CASE \/ \E e \in Emails : Register(e)
             \/ \E c \in Customers, p \in Products : LoadCart("add", c, p) \/ LoadCart("remove", c, p)
             \/ \E c \in Customers : Checkout(c)
             \/ \E p \in Products : FindProduct(p) \/ AddProduct(p)
    BY <1>2, BeginReceipts
  <1>3. ASSUME NEW n \in Active,
               \/ SaveAccount(n) \/ SaveCart(n) \/ LoadForCheckout(n) \/ EmptyCart(n)
               \/ SavePrice(n) \/ Pull(n) \/ Publish(n) \/ PublishFails(n)
        PROVE Receipts'
    BY <1>3, MoveReceipts
  <1>4. ASSUME UNCHANGED <<calls, orders>> PROVE Receipts'
    BY <1>4 DEF Receipts, OrderedBy, At
  <1>5. ASSUME NEW r \in Replicas,
               \/ \E d \in Subjects : Deliver(r, d)
               \/ \E i \in unacked : Redeliver(r, i)
               \/ AskCatalog(r) \/ Subscribe(r) \/ RestartOrdering(r)
        PROVE Receipts'
    <2>1. UNCHANGED <<calls, orders>>
      BY <1>5 DEF Deliver, Redeliver, AskCatalog, Subscribe, RestartOrdering
    <2> QED
      BY <1>4, <2>1
  <1>6. CASE RestartCustomer \/ RestartCart \/ RestartCatalog
    <2>1. UNCHANGED orders /\ \E S : KillCalls(S)
      BY <1>6 DEF RestartCustomer, RestartCart, RestartCatalog
    <2>2. PICK S : KillCalls(S)
      BY <2>1
    <2> QED
      BY <2>1, <2>2, KilledOnward, ReceiptsKept
  <1>7. CASE UNCHANGED vars
    BY <1>4, <1>7 DEF vars
  <1> QED
    BY <1>1, <1>2, <1>3, <1>5, <1>6, <1>7 DEF Next

-----------------------------------------------------------------------------
\* Types.  A cart holds at most one unit per call, and so does what is due to it: each
\* unit came with a call of its own that is over.

Event == [subject : Subjects, product : Products, price : Prices]
Objects == Products \union 1..MaxCalls
Record == [price : Prices, events : Seq(Event)]

CallFields ==
    \A n \in 1..Len(calls) :
        /\ calls[n].op \in DOMAIN Ops
        /\ calls[n].on \in Ops[calls[n].op]
        /\ calls[n].item \in Products
        /\ calls[n].st \in Stages

\* The objects that were made for product p.
Owns(p, o) == o = p \/ (o \in 1..Len(calls) /\ calls[o].op = "list" /\ calls[o].on = p)

\* What a call under way has read.
ReadOK(n) ==
    /\ calls[n].op \in CatalogOps =>
         \/ calls[n].st \in {"begun", "saved"} /\ Owns(calls[n].on, calls[n].read)
         \/ calls[n].st = "pulled" /\ calls[n].read \in Seq(Event)
    /\ calls[n].op \in {"add", "remove"} => calls[n].read \in [Products -> 0..n - 1]
    /\ calls[n].op = "checkout" /\ calls[n].st # "begun" => calls[n].read \in [Products -> Nat]

Finished == {n \in 1..Len(calls) : calls[n].st = "done"}

CallsType2 == Len(calls) <= MaxCalls /\ CallFields /\ \A n \in Active : ReadOK(n)
AccountsType ==
    accounts \subseteq [id : Customers \union 1..MaxCalls, email : Emails \union Customers]
CartsType == carts \in [Customers -> [Products -> 0..Len(calls)]]
CatalogType ==
    /\ objects \in [Objects -> Record]
    /\ shelf \in [Products -> Objects]
    /\ \A p \in Products : Owns(p, shelf[p])
StreamType ==
    /\ log \in Seq(Event)
    /\ taken \in [Subjects -> 0..Len(log)]
    /\ unacked \subseteq 1..Len(log)
ProjectionType ==
    /\ ordering \in [Replicas -> [st : {"down", "asked", "up"}, prices : [Products -> Prices],
                                  answer : [Products -> Prices]]]
    /\ told \in [Replicas -> [Products -> 0..Len(log)]]
    /\ crossed \subseteq Replicas \X Products
OrdersType == \A o \in orders : o.customer \in Customers /\ o.call \in 1..Len(calls)
DueType ==
    /\ due \in [Customers -> [Products -> Nat]]
    /\ \A c \in Customers, p \in Products : due[c][p] <= Cardinality(Finished)

Types ==
    /\ CallsType2 /\ AccountsType /\ CartsType /\ CatalogType
    /\ StreamType /\ ProjectionType /\ OrdersType /\ DueType
    /\ trouble \in 0..MaxTrouble

\* Calls only come in addition, keep what they are about, and stay over.
Grows ==
    /\ Len(calls) <= Len(calls')
    /\ \A n \in 1..Len(calls) :
        /\ calls'[n].op = calls[n].op /\ calls'[n].on = calls[n].on
        /\ calls'[n].item = calls[n].item
        /\ calls[n].st = "done" => calls'[n].st = "done"

LEMMA FinishedType ==
  ASSUME CallsShape
  PROVE  /\ IsFiniteSet(Finished) /\ Cardinality(Finished) \in Nat
         /\ Cardinality(Finished) <= Len(calls)
  <1>1. Len(calls) \in Nat
    BY CallsType
  <1>2. IsFiniteSet(1..Len(calls)) /\ Cardinality(1..Len(calls)) = Len(calls)
    <2>1. PICK k \in Nat : k = Len(calls)
      BY <1>1
    <2>2. IsFiniteSet(1..k) /\ Cardinality(1..k) = IF 1 > k THEN 0 ELSE k - 1 + 1
      BY FS_Interval
    <2>3. Cardinality(1..k) = k
      BY <2>2
    <2> QED
      BY <2>1, <2>2, <2>3
  <1>3. Finished \in SUBSET (1..Len(calls))
    BY DEF Finished
  <1>4. IsFiniteSet(Finished) /\ Cardinality(Finished) <= Cardinality(1..Len(calls))
    BY <1>2, <1>3, FS_Subset
  <1> QED
    BY <1>2, <1>4, FS_CardinalityType

LEMMA TypesSuffice == CallsShape /\ Types => TypeOK
  <1> SUFFICES ASSUME CallsShape, Types PROVE TypeOK
    OBVIOUS
  <1>1. Len(calls) \in 0..MaxCalls /\ Cardinality(Finished) \in 0..MaxCalls
    BY FinishedType, CallsType, StorefrontAssumption DEF Types, CallsType2
  <1>2. carts \in [Customers -> [Products -> 0..MaxCalls]]
    BY <1>1, StorefrontAssumption DEF Types, CartsType
  <1>3. due \in [Customers -> [Products -> 0..MaxCalls]]
    <2>1. \A c \in Customers : due[c] \in [Products -> 0..MaxCalls]
      BY <1>1, StorefrontAssumption DEF Types, DueType
    <2> QED
      BY <2>1 DEF Types, DueType
  <1>4. /\ \A n \in 1..Len(calls) :
            /\ calls[n].op \in DOMAIN Ops
            /\ calls[n].on \in Ops[calls[n].op]
            /\ calls[n].item \in Products
            /\ calls[n].st \in {"begun", "loaded", "placed", "saved", "pulled", "done"}
        /\ accounts \subseteq [id : Customers \union 1..MaxCalls, email : Emails \union Customers]
    BY DEF Types, CallsType2, CallFields, Stages, AccountsType
  <1>5. /\ DOMAIN objects = Products \union 1..MaxCalls
        /\ \A o \in DOMAIN objects : objects[o].price \in Prices
        /\ shelf \in [Products -> DOMAIN objects]
    <2>1. /\ DOMAIN objects = Objects
          /\ \A o \in Objects : objects[o].price \in Prices
          /\ shelf \in [Products -> Objects]
      BY DEF Types, CatalogType, Record
    <2> QED
      BY <2>1, Zenon DEF Objects
  <1>6. /\ log \in Seq([subject : Subjects, product : Products, price : Prices])
        /\ taken \in [Subjects -> 0..Len(log)]
        /\ unacked \subseteq 1..Len(log)
    BY DEF Types, StreamType, Event
  <1>7. /\ ordering \in [Replicas -> [st : {"down", "asked", "up"},
                                      prices : [Products -> Prices],
                                      answer : [Products -> Prices]]]
        /\ told \in [Replicas -> [Products -> 0..Len(log)]]
        /\ crossed \subseteq Replicas \X Products
    BY DEF Types, ProjectionType
  <1>8. (\A o \in orders : o.customer \in Customers /\ o.call \in 1..Len(calls))
        /\ trouble \in 0..MaxTrouble
    BY DEF Types, OrdersType
  <1> QED
    BY <1>2, <1>3, <1>4, <1>5, <1>6, <1>7, <1>8 DEF TypeOK

LEMMA GrowsKeeps ==
  ASSUME CallsShape, CallsShape', Grows
  PROVE  /\ \A p, o : Owns(p, o) => Owns(p, o)'
         /\ Finished \subseteq Finished'
         /\ Cardinality(Finished) <= Cardinality(Finished')
         /\ Cardinality(Finished') \in Nat /\ IsFiniteSet(Finished')
         /\ 1..Len(calls) \subseteq 1..Len(calls')
         /\ 0..Len(calls) \subseteq 0..Len(calls')
  <1>1. Len(calls) \in Nat /\ Len(calls') \in Nat
    <2>1. PICK R : calls' \in Seq(Call(R))
      BY DEF CallsShape, Call, Names, Stages, Ops
    <2>2. Len(calls') \in Nat
      BY <2>1, LenProperties
    <2> QED
      BY <2>2, CallsType
  <1>2. 1..Len(calls) \subseteq 1..Len(calls') /\ 0..Len(calls) \subseteq 0..Len(calls')
    BY <1>1 DEF Grows
  <1>3. \A p, o : Owns(p, o) => Owns(p, o)'
    BY <1>2 DEF Owns, Grows
  <1>4. Finished \subseteq Finished'
    BY <1>2 DEF Finished, Grows
  <1>5. IsFiniteSet(Finished')
    <2>1. IsFiniteSet(1..Len(calls'))
      BY <1>1, FS_Interval
    <2>2. Finished' \in SUBSET (1..Len(calls'))
      BY DEF Finished
    <2> QED
      BY <2>1, <2>2, FS_Subset
  <1>6. PICK S, T : S = Finished /\ T = Finished'
    OBVIOUS
  <1>7. IsFiniteSet(T) /\ S \in SUBSET T
    BY <1>4, <1>5, <1>6
  <1>8. Cardinality(S) <= Cardinality(T) /\ Cardinality(T) \in Nat
    BY <1>7, FS_Subset, FS_CardinalityType
  <1> QED
    BY <1>2, <1>3, <1>4, <1>5, <1>6, <1>8

\* What a step keeps of the types by leaving variables alone.
LEMMA TypesKept ==
  ASSUME CallsShape, CallsShape', Grows, Types
  PROVE  /\ UNCHANGED accounts => AccountsType'
         /\ UNCHANGED carts => CartsType'
         /\ UNCHANGED catalog => CatalogType'
         /\ UNCHANGED stream => StreamType'
         /\ UNCHANGED <<log, projection>> => ProjectionType'
         /\ UNCHANGED orders => OrdersType'
         /\ UNCHANGED due => DueType'
  <1>1. UNCHANGED accounts => AccountsType'
    BY DEF Types, AccountsType
  <1>2. UNCHANGED carts => CartsType'
    BY GrowsKeeps DEF Types, CartsType
  <1>3. UNCHANGED catalog => CatalogType'
    BY GrowsKeeps DEF Types, CatalogType, catalog
  <1>4. UNCHANGED stream => StreamType'
    BY DEF Types, StreamType, stream
  <1>5. UNCHANGED <<log, projection>> => ProjectionType'
    BY DEF Types, ProjectionType, projection
  <1>6. UNCHANGED orders => OrdersType'
    BY GrowsKeeps DEF Types, OrdersType
  <1>7. UNCHANGED due => DueType'
    <2> SUFFICES ASSUME due' = due
                 PROVE /\ due \in [Customers -> [Products -> Nat]]
                       /\ \A c \in Customers, p \in Products : due[c][p] <= Cardinality(Finished')
      BY DEF DueType
    <2>1. PICK x, y \in Nat : x = Cardinality(Finished) /\ y = Cardinality(Finished') /\ x <= y
      BY GrowsKeeps, FinishedType
    <2>2. \A c \in Customers, p \in Products : due[c][p] \in Nat /\ due[c][p] <= x
      BY <2>1 DEF Types, DueType
    <2> QED
      BY <2>1, <2>2 DEF Types, DueType
  <1> QED
    BY <1>1, <1>2, <1>3, <1>4, <1>5, <1>6, <1>7

LEMMA ReadKept ==
  ASSUME CallsShape, CallsShape', Grows, NEW n, ReadOK(n), calls'[n] = calls[n]
  PROVE  ReadOK(n)'
  <1>1. \A p, o : Owns(p, o) => Owns(p, o)'
    BY GrowsKeeps
  <1> QED
    BY <1>1 DEF ReadOK

LEMMA BeginTypes ==
  ASSUME CallsShape, Types, NEW op \in DOMAIN Ops, NEW k \in Ops[op], NEW p \in Products,
         NEW st \in Stages, NEW read, Begin(op, k, p, st, read), NEW n, n = Len(calls) + 1,
         /\ op \in CatalogOps => st \in {"begun", "saved"} /\ Owns(k, read)'
         /\ op \in {"add", "remove"} => read \in [Products -> 0..n - 1]
         /\ op = "checkout" => st \in {"begun", "done"}
  PROVE  CallsShape' /\ Grows /\ CallsType2'
  <1>1. k \in Names
    BY DEF Names, Ops
  <1>2. /\ CallsShape'
        /\ Len(calls') = n
        /\ \A m \in 1..Len(calls) : calls'[m] = calls[m]
        /\ calls'[n] = [op |-> op, on |-> k, item |-> p, st |-> st, read |-> read]
    BY <1>1, BeginShape
  <1>3. Len(calls) \in Nat /\ Len(calls) < MaxCalls /\ MaxCalls \in Nat
    BY CallsType, StorefrontAssumption DEF Begin
  <1>4. Grows
    BY <1>2, <1>3 DEF Grows
  <1>5. \A m \in 1..n : m \in 1..Len(calls) \/ m = n
    BY <1>3
  <1>6. CallFields'
    BY <1>2, <1>5 DEF CallFields, Types, CallsType2
  <1>7. ASSUME NEW m \in Active' PROVE ReadOK(m)'
    <2>1. CASE m = n
      BY <1>2, <2>1 DEF ReadOK, Active, CatalogOps
    <2>2. CASE m # n
      <3>1. m \in 1..Len(calls) /\ m \in Active /\ calls'[m] = calls[m]
        BY <1>2, <1>5, <2>2 DEF Active
      <3> QED
        BY <1>2, <1>4, <3>1, ReadKept DEF Types, CallsType2
    <2> QED
      BY <2>1, <2>2
  <1> QED
    BY <1>2, <1>3, <1>4, <1>6, <1>7 DEF CallsType2

LEMMA MoveTypes ==
  ASSUME CallsShape, Types, NEW n \in Active, NEW st \in Stages, NEW read,
         GotoWith(n, st, read) \/ (Goto(n, st) /\ read = calls[n].read),
         st # "done" =>
           /\ calls[n].op \in CatalogOps =>
                \/ st \in {"begun", "saved"} /\ Owns(calls[n].on, read)
                \/ st = "pulled" /\ read \in Seq(Event)
           /\ calls[n].op \in {"add", "remove"} => read \in [Products -> 0..n - 1]
           /\ calls[n].op = "checkout" /\ st # "begun" => read \in [Products -> Nat]
  PROVE  CallsShape' /\ Grows /\ CallsType2'
  <1>1. n \in 1..Len(calls) /\ Len(calls) \in Nat
    BY CallsType
  <1>2. /\ CallsShape'
        /\ Len(calls') = Len(calls)
        /\ \A m \in 1..Len(calls) : m # n => calls'[m] = calls[m]
        /\ calls'[n].op = calls[n].op /\ calls'[n].on = calls[n].on
        /\ calls'[n].item = calls[n].item
        /\ calls'[n].st = st /\ calls'[n].read = read
    BY <1>1, MoveShape
  <1>3. Grows
    BY <1>1, <1>2 DEF Grows, Active
  <1>4. CallFields'
    BY <1>1, <1>2 DEF CallFields, Types, CallsType2
  <1>5. ASSUME NEW m \in Active' PROVE ReadOK(m)'
    <2>1. CASE m = n
      <3>1. st # "done"
        BY <1>2, <2>1 DEF Active
      <3>2. Owns(calls[n].on, read) => Owns(calls[n].on, read)'
        BY <1>2, <1>3, GrowsKeeps
      <3> QED
        BY <1>2, <2>1, <3>1, <3>2 DEF ReadOK, Owns
    <2>2. CASE m # n
      <3>1. m \in Active /\ calls'[m] = calls[m]
        BY <1>2, <2>2 DEF Active
      <3> QED
        BY <1>2, <1>3, <3>1, ReadKept DEF Types, CallsType2
    <2> QED
      BY <2>1, <2>2
  <1> QED
    BY <1>2, <1>3, <1>4, <1>5 DEF Types, CallsType2

LEMMA KillTypes ==
  ASSUME CallsShape, Types, NEW S, KillCalls(S)
  PROVE  CallsShape' /\ Grows /\ CallsType2'
  <1>1. /\ CallsShape'
        /\ Len(calls') = Len(calls) /\ Len(calls) \in Nat
        /\ \A n \in 1..Len(calls) :
              /\ IF calls[n].op \in S THEN calls'[n].st = "done" ELSE calls'[n] = calls[n]
              /\ calls'[n].op = calls[n].op /\ calls'[n].on = calls[n].on
              /\ calls'[n].item = calls[n].item
    BY KillShape, CallsType
  <1>2. Grows
    BY <1>1 DEF Grows
  <1>3. CallFields'
    BY <1>1 DEF CallFields, Types, CallsType2, Stages
  <1>4. ASSUME NEW m \in Active' PROVE ReadOK(m)'
    <2>1. m \in Active /\ calls'[m] = calls[m]
      BY <1>1 DEF Active
    <2> QED
      BY <1>1, <1>2, <2>1, ReadKept DEF Types, CallsType2
  <1> QED
    BY <1>1, <1>2, <1>3, <1>4 DEF Types, CallsType2

\* Calls that stay as they are.
LEMMA SameTypes ==
  ASSUME CallsShape, Types, UNCHANGED calls
  PROVE  CallsShape' /\ Grows /\ CallsType2'
  BY CallsType DEF Grows, CallsShape, Types, CallsType2, CallFields, Active, ReadOK, Owns

\* The types after a step: what it changes has its type again.
LEMMA TypesClose ==
  ASSUME CallsShape, CallsShape', Grows, Types, CallsType2',
         trouble' = trouble \/ Trouble,
         UNCHANGED accounts \/ AccountsType',
         UNCHANGED carts \/ CartsType',
         UNCHANGED catalog \/ CatalogType',
         UNCHANGED stream \/ StreamType',
         UNCHANGED <<stream, projection>> \/ ProjectionType',
         UNCHANGED orders \/ OrdersType',
         UNCHANGED due \/ DueType'
  PROVE  Types'
  <1>1. trouble' \in 0..MaxTrouble
    BY StorefrontAssumption DEF Types, Trouble
  <1>2. UNCHANGED <<stream, projection>> => UNCHANGED <<log, projection>>
    BY DEF stream
  <1>3. AccountsType' /\ CartsType' /\ CatalogType' /\ StreamType' /\ ProjectionType'
        /\ OrdersType' /\ DueType'
    BY <1>2, TypesKept
  <1> QED
    BY <1>1, <1>3 DEF Types

LEMMA OnType ==
  ASSUME CallsShape, Types, NEW n \in Active
  PROVE  /\ n \in 1..Len(calls) /\ n \in 1..MaxCalls /\ n \in Nat
         /\ calls[n].item \in Products
         /\ calls[n].op = "register" => calls[n].on \in Emails
         /\ calls[n].op \in CartOps => calls[n].on \in Customers
         /\ calls[n].op \in CatalogOps => calls[n].on \in Products
  <1>1. n \in 1..Len(calls) /\ Len(calls) \in Nat /\ Len(calls) <= MaxCalls /\ MaxCalls \in Nat
    BY CallsType, StorefrontAssumption DEF Types, CallsType2
  <1>2. calls[n].item \in Products /\ calls[n].on \in Ops[calls[n].op]
    BY <1>1 DEF Types, CallsType2, CallFields
  <1> QED
    BY <1>1, <1>2 DEF Ops, CartOps, CatalogOps

LEMMA InitTypes == Init => Types
  <1> SUFFICES ASSUME Init PROVE Types
    OBVIOUS
  <1> USE StorefrontAssumption
  <1>1. calls = <<>> /\ Len(calls) = 0 /\ Active = {} /\ Finished = {}
    BY DEF Init, Active, Finished
  <1>2. CallsType2 /\ AccountsType /\ OrdersType
    BY <1>1 DEF Init, CallsType2, CallFields, AccountsType, OrdersType
  <1>3. CartsType
    BY <1>1 DEF Init, CartsType, Empty
  <1>4. CatalogType
    <2>1. [price |-> 0, events |-> <<>>] \in Record
      BY DEF Record, Prices
    <2> QED
      BY <2>1 DEF Init, CatalogType, Objects, Owns
  <1>5. StreamType
    BY DEF Init, StreamType
  <1>6. ProjectionType
    <2>1. Empty \in [Products -> Prices] /\ Len(log) = 0
      BY DEF Empty, Prices, Init
    <2> QED
      BY <2>1 DEF Init, ProjectionType, Seeded, Empty
  <1>7. DueType
    <2>1. Cardinality(Finished) = 0
      BY <1>1, FS_EmptySet
    <2> QED
      BY <2>1 DEF Init, DueType, Empty
  <1> QED
    BY <1>2, <1>3, <1>4, <1>5, <1>6, <1>7 DEF Types, Init

LEMMA RegisterTypes ==
  ASSUME CallsShape, Types, NEW e \in Emails, Register(e)
  PROVE  Types'
  <1>1. PICK p \in Products : Begin("register", e, p, IF EmailTaken(e) THEN "done" ELSE "begun", {})
    BY DEF Register
  <1>2. PICK n : n = Len(calls) + 1
    OBVIOUS
  <1>3. "register" \in DOMAIN Ops /\ e \in Ops["register"] /\ {"done", "begun"} \subseteq Stages
    BY DEF Ops, Stages
  <1>4. "register" \notin CatalogOps \union {"add", "remove", "checkout"}
    BY DEF CatalogOps
  <1>5. CallsShape' /\ Grows /\ CallsType2'
    BY <1>1, <1>2, <1>3, <1>4, BeginTypes
  <1>6. UNCHANGED <<accounts, carts, catalog, stream, projection, orders, due, trouble>>
    BY DEF Register
  <1> QED
    BY <1>5, <1>6, TypesClose

LEMMA SaveAccountTypes ==
  ASSUME CallsShape, Types, NEW n \in Active, SaveAccount(n)
  PROVE  Types'
  <1>1. Goto(n, "done") /\ "done" \in Stages /\ calls[n].op = "register"
    BY DEF SaveAccount, At, Stages
  <1>2. PICK read : read = calls[n].read
    OBVIOUS
  <1>3. CallsShape' /\ Grows /\ CallsType2'
    BY <1>1, <1>2, MoveTypes
  <1>4. AccountsType'
    BY <1>1, OnType DEF SaveAccount, Types, AccountsType
  <1>5. UNCHANGED <<carts, catalog, stream, projection, orders, due, trouble>>
    BY DEF SaveAccount
  <1> QED
    BY <1>3, <1>4, <1>5, TypesClose

LEMMA CartBeginsTypes ==
  ASSUME CallsShape, Types, NEW c \in Customers,
         Checkout(c) \/ \E p \in Products : LoadCart("add", c, p) \/ LoadCart("remove", c, p)
  PROVE  Types'
  <1>1. /\ \A op \in {"add", "remove", "checkout"} :
             op \in DOMAIN Ops /\ c \in Ops[op] /\ op \notin CatalogOps
        /\ {"done", "begun"} \subseteq Stages
    BY DEF Ops, Stages, CatalogOps
  <1>2. PICK n : n = Len(calls) + 1
    OBVIOUS
  <1>3. CASE Checkout(c)
    <2>1. PICK p \in Products, st \in {"begun", "done"} : Begin("checkout", c, p, st, Empty)
      BY <1>3 DEF Checkout
    <2>2. CallsShape' /\ Grows /\ CallsType2'
      BY <1>1, <1>2, <2>1, BeginTypes
    <2>3. UNCHANGED <<accounts, carts, catalog, stream, projection, orders, due, trouble>>
      BY <1>3 DEF Checkout
    <2> QED
      BY <2>2, <2>3, TypesClose
  <1>4. ASSUME NEW p \in Products, NEW op \in {"add", "remove"}, LoadCart(op, c, p) PROVE Types'
    <2>1. Begin(op, c, p, "begun", carts[c])
      BY <1>4 DEF LoadCart
    <2>2. carts[c] \in [Products -> 0..n - 1]
      <3>1. n - 1 = Len(calls)
        BY <1>2, CallsType
      <3> QED
        BY <3>1 DEF Types, CartsType
    <2>3. CallsShape' /\ Grows /\ CallsType2'
      BY <1>1, <1>2, <2>1, <2>2, BeginTypes
    <2>4. UNCHANGED <<accounts, carts, catalog, stream, projection, orders, due, trouble>>
      BY <1>4 DEF LoadCart
    <2> QED
      BY <2>3, <2>4, TypesClose
  <1> QED
    BY <1>3, <1>4

\* One more call is over: room for one more unit due.
LEMMA OneMoreFinished ==
  ASSUME CallsShape, Types, NEW n \in Active, Goto(n, "done")
  PROVE  /\ CallsShape' /\ Grows /\ CallsType2'
         /\ Len(calls') = Len(calls)
         /\ Cardinality(Finished') = Cardinality(Finished) + 1 /\ Cardinality(Finished) \in Nat
  <1>1. "done" \in Stages /\ n \in 1..Len(calls)
    BY OnType DEF Stages
  <1>2. PICK read : read = calls[n].read
    OBVIOUS
  <1>3. CallsShape' /\ Grows /\ CallsType2'
    BY <1>1, <1>2, MoveTypes
  <1>4. /\ Len(calls') = Len(calls) /\ calls'[n].st = "done"
        /\ \A m \in 1..Len(calls) : m # n => calls'[m] = calls[m]
    BY <1>1, <1>2, MoveShape
  <1>5. Finished' = Finished \union {n} /\ n \notin Finished
    BY <1>1, <1>4 DEF Finished, Active
  <1>6. PICK S : S = Finished
    OBVIOUS
  <1>7. IsFiniteSet(S) /\ Cardinality(S) \in Nat
    BY <1>6, FinishedType
  <1>8. Cardinality(S \union {n}) = Cardinality(S) + 1
    BY <1>5, <1>6, <1>7, FS_AddElement
  <1> QED
    BY <1>3, <1>4, <1>5, <1>6, <1>7, <1>8

LEMMA SaveCartTypes ==
  ASSUME CallsShape, Types, NEW n \in Active, SaveCart(n)
  PROVE  Types'
  <1> DEFINE c == calls[n].on
             p == calls[n].item
             cart == calls[n].read
  <1>1. Goto(n, "done") /\ calls[n].op \in {"add", "remove"}
        /\ UNCHANGED <<accounts, catalog, stream, projection, orders, excused, trouble>>
    BY DEF SaveCart, At
  <1>2. /\ n \in 1..Len(calls) /\ n \in Nat /\ c \in Customers /\ p \in Products
        /\ Len(calls) \in Nat
    BY <1>1, OnType, CallsType DEF CartOps
  <1>3. cart \in [Products -> 0..n - 1]
    BY <1>1 DEF Types, CallsType2, ReadOK
  <1>4. /\ CallsShape' /\ Grows /\ CallsType2' /\ Len(calls') = Len(calls)
        /\ Cardinality(Finished') = Cardinality(Finished) + 1 /\ Cardinality(Finished) \in Nat
    BY <1>1, OneMoreFinished
  <1>5. /\ due \in [Customers -> [Products -> Nat]]
        /\ \A x \in Customers, y \in Products : due[x][y] <= Cardinality(Finished)
        /\ carts \in [Customers -> [Products -> 0..Len(calls)]]
    BY DEF Types, DueType, CartsType
  <1> HIDE DEF c, p, cart
  <1>6. ASSUME NEW a \in [Products -> 0..Len(calls)], carts' = [carts EXCEPT ![c] = a]
        PROVE  CartsType'
    BY <1>2, <1>4, <1>5, <1>6 DEF CartsType
  <1>7. ASSUME NEW u \in Nat, u <= due[c][p] + 1, due' = [due EXCEPT ![c][p] = u]
        PROVE  DueType'
    <2>1. due' \in [Customers -> [Products -> Nat]]
      BY <1>2, <1>5, <1>7
    <2>2. PICK f \in Nat : f = Cardinality(Finished) /\ Cardinality(Finished') = f + 1
      BY <1>4
    <2>3. ASSUME NEW x \in Customers, NEW y \in Products
          PROVE  due'[x][y] <= f + 1
      <3>1. due'[x][y] = due[x][y] \/ (due'[x][y] = u /\ x = c /\ y = p)
        BY <1>2, <1>5, <1>7
      <3>2. due[x][y] \in Nat /\ due[x][y] <= f
        BY <1>5, <2>2
      <3>3. due[c][p] \in Nat /\ due[c][p] <= f
        BY <1>2, <1>5, <2>2
      <3> QED
        BY <1>7, <3>1, <3>2, <3>3
    <2> QED
      BY <2>1, <2>2, <2>3 DEF DueType
  <1>8. /\ WithItem(cart, p) \in [Products -> 0..Len(calls)]
        /\ WithoutItem(cart, p) \in [Products -> 0..Len(calls)]
    <2>1. \A q \in Products : cart[q] \in 0..Len(calls) /\ cart[q] + 1 \in 0..Len(calls)
      BY <1>2, <1>3
    <2> QED
      BY <1>2, <1>3, <2>1 DEF WithItem, WithoutItem
  <1>9. CartsType' /\ DueType'
    <2>1. CASE carts' = [carts EXCEPT ![c] = WithItem(cart, p)]
               /\ due' = [due EXCEPT ![c][p] = @ + 1]
      <3>1. due' = [due EXCEPT ![c][p] = due[c][p] + 1]
        BY <1>2, <1>5, <2>1
      <3>2. due[c][p] + 1 \in Nat /\ due[c][p] + 1 <= due[c][p] + 1
        BY <1>2, <1>5
      <3> QED
        BY <1>6, <1>7, <1>8, <2>1, <3>1, <3>2
    <2>2. CASE carts' = [carts EXCEPT ![c] = WithoutItem(cart, p)]
               /\ due' = [due EXCEPT ![c][p] = 0]
      <3>1. 0 <= due[c][p] + 1
        BY <1>2, <1>5
      <3> QED
        BY <1>6, <1>7, <1>8, <2>2, <3>1
    <2> QED
      BY <2>1, <2>2 DEF SaveCart, c, p, cart
  <1> QED
    BY <1>1, <1>4, <1>9, TypesClose

LEMMA LoadForCheckoutTypes ==
  ASSUME CallsShape, Types, NEW n \in Active, LoadForCheckout(n)
  PROVE  Types'
  <1>1. /\ calls[n].op = "checkout" /\ calls[n].on \in Customers
        /\ UNCHANGED <<accounts, carts, catalog, stream, projection, orders, due, trouble>>
    BY OnType DEF LoadForCheckout, At, CartOps
  <1>2. PICK st \in Stages : GotoWith(n, st, carts[calls[n].on])
    BY DEF LoadForCheckout, Stages
  <1>3. carts[calls[n].on] \in [Products -> Nat]
    BY <1>1, CallsType DEF Types, CartsType
  <1>4. CallsShape' /\ Grows /\ CallsType2'
    BY <1>1, <1>2, <1>3, MoveTypes DEF CatalogOps
  <1> QED
    BY <1>1, <1>4, TypesClose

LEMMA PlaceTypes ==
  ASSUME CallsShape, Types, NEW n \in Active, NEW r \in Replicas, Place(n, r) \/ PlaceFails(n, r)
  PROVE  Types'
  <1>1. /\ calls[n].op = "checkout" /\ calls[n].st = "loaded" /\ calls[n].on \in Customers
        /\ UNCHANGED <<accounts, carts, catalog, stream, projection, due>>
        /\ trouble' = trouble \/ Trouble
        /\ orders' = orders \/ orders' = orders \union {OrderOf(n, r)}
    BY OnType DEF Place, PlaceFails, At, CartOps, CartsOnPlace
  <1>2. PICK st \in {"placed", "done"} : Goto(n, st)
    BY DEF Place, PlaceFails
  <1>3. PICK read : read = calls[n].read
    OBVIOUS
  <1>4. st \in Stages /\ read \in [Products -> Nat]
    BY <1>1, <1>2, <1>3 DEF Stages, Types, CallsType2, ReadOK
  <1>5. CallsShape' /\ Grows /\ CallsType2'
    BY <1>1, <1>2, <1>3, <1>4, MoveTypes DEF CatalogOps
  <1>6. OrdersType'
    <2>1. 1..Len(calls) \subseteq 1..Len(calls')
      BY <1>5, GrowsKeeps
    <2>2. OrderOf(n, r).customer = calls[n].on /\ OrderOf(n, r).call = n
      BY DEF OrderOf
    <2> QED
      BY <1>1, <2>1, <2>2, OnType DEF Types, OrdersType
  <1> QED
    BY <1>1, <1>5, <1>6, TypesClose

LEMMA EmptyCartTypes ==
  ASSUME CallsShape, Types, Receipts, NEW n \in Active, EmptyCart(n)
  PROVE  Types'
  <1>0. Ordered(n) = calls[n].read
    BY OrderedIsRead, CallsType DEF EmptyCart
  <1> DEFINE c == calls[n].on
             owed == [p \in Products |->
               IF due[c][p] > calls[n].read[p] THEN due[c][p] - calls[n].read[p] ELSE 0]
  <1>1. /\ Goto(n, "done") /\ calls[n].op = "checkout" /\ calls[n].st = "placed"
        /\ carts' = [carts EXCEPT ![c] = Empty]
        /\ due' = [due EXCEPT ![c] = owed]
        /\ UNCHANGED <<accounts, catalog, stream, projection, orders, trouble>>
    BY <1>0 DEF EmptyCart, At
  <1>2. c \in Customers /\ calls[n].read \in [Products -> Nat] /\ Len(calls) \in Nat
    BY <1>1, OnType, CallsType DEF CartOps, Types, CallsType2, ReadOK
  <1>3. /\ CallsShape' /\ Grows /\ CallsType2' /\ Len(calls') = Len(calls)
        /\ Cardinality(Finished') = Cardinality(Finished) + 1 /\ Cardinality(Finished) \in Nat
    BY <1>1, OneMoreFinished
  <1>4. /\ due \in [Customers -> [Products -> Nat]]
        /\ \A x \in Customers, y \in Products : due[x][y] <= Cardinality(Finished)
        /\ carts \in [Customers -> [Products -> 0..Len(calls)]]
    BY DEF Types, DueType, CartsType
  <1>5. CartsType'
    <2>1. Empty \in [Products -> 0..Len(calls)]
      BY <1>2 DEF Empty
    <2> QED
      BY <1>1, <1>2, <1>3, <1>4, <2>1 DEF CartsType
  <1>6. owed \in [Products -> Nat] /\ \A p \in Products : owed[p] <= due[c][p]
    <2>1. \A p \in Products : due[c][p] \in Nat /\ calls[n].read[p] \in Nat
      BY <1>2, <1>4
    <2> HIDE DEF c
    <2> QED
      BY <2>1
  <1> HIDE DEF c, owed
  <1>7. DueType'
    <2>1. due' \in [Customers -> [Products -> Nat]]
      BY <1>1, <1>2, <1>4, <1>6
    <2>2. PICK f \in Nat : f = Cardinality(Finished) /\ Cardinality(Finished') = f + 1
      BY <1>3
    <2>3. ASSUME NEW x \in Customers, NEW y \in Products
          PROVE  due'[x][y] <= f + 1
      <3>1. due'[x][y] = due[x][y] \/ (due'[x][y] = owed[y] /\ x = c)
        BY <1>1, <1>2, <1>4
      <3>2. due[x][y] \in Nat /\ due[x][y] <= f
        BY <1>4, <2>2
      <3>3. due[c][y] \in Nat /\ due[c][y] <= f /\ owed[y] \in Nat /\ owed[y] <= due[c][y]
        BY <1>2, <1>4, <1>6, <2>2
      <3> QED
        BY <3>1, <3>2, <3>3
    <2> QED
      BY <2>1, <2>2, <2>3 DEF DueType
  <1> QED
    BY <1>1, <1>3, <1>5, <1>7, TypesClose

LEMMA RestartTypes ==
  ASSUME CallsShape, Types, RestartCustomer \/ RestartCart
  PROVE  Types'
  <1>1. CASE RestartCustomer
    <2>1. CallsShape' /\ Grows /\ CallsType2'
      BY <1>1, KillTypes DEF RestartCustomer
    <2>2. AccountsType'
      BY <1>1 DEF RestartCustomer, AccountsType
    <2>3. UNCHANGED <<carts, catalog, stream, projection, orders, due>> /\ Trouble
      BY <1>1 DEF RestartCustomer
    <2> QED
      BY <2>1, <2>2, <2>3, TypesClose
  <1>2. CASE RestartCart
    <2>1. CallsShape' /\ Grows /\ CallsType2'
      BY <1>2, KillTypes DEF RestartCart
    <2>2. CartsType'
      <3>1. Empty \in [Products -> 0..Len(calls')]
        <4>1. 0 \in 0..Len(calls')
          BY <2>1, GrowsKeeps, CallsType
        <4> QED
          BY <4>1 DEF Empty
      <3> QED
        BY <1>2, <3>1 DEF RestartCart, CartsType
    <2>3. UNCHANGED <<accounts, catalog, stream, projection, orders, due>> /\ Trouble
      BY <1>2 DEF RestartCart
    <2> QED
      BY <2>1, <2>2, <2>3, TypesClose
  <1> QED
    BY <1>1, <1>2

\* The objects a product owns exist.
LEMMA OwnsType ==
  ASSUME CallsShape, Types, NEW p \in Products, NEW o, Owns(p, o)
  PROVE  o \in Objects
  <1>1. Len(calls) \in Nat /\ Len(calls) <= MaxCalls /\ MaxCalls \in Nat
    BY CallsType, StorefrontAssumption DEF Types, CallsType2
  <1> QED
    BY <1>1 DEF Owns, Objects

LEMMA EventType ==
  ASSUME NEW s \in Subjects, NEW p \in Products, NEW x \in Prices
  PROVE  /\ EventOf(s, p, x) \in Event
         /\ EventOf(s, p, x).product = p /\ EventOf(s, p, x).price = x
  BY DEF EventOf, Event

\* Objects with a price and events of theirs.
LEMMA RecordType ==
  ASSUME CallsShape, Types, NEW o \in Objects
  PROVE  /\ objects[o] \in Record /\ objects[o].price \in Prices
         /\ objects[o].events \in Seq(Event)
  BY DEF Types, CatalogType, Record

LEMMA CatalogBeginsTypes ==
  ASSUME CallsShape, Types, NEW p \in Products, FindProduct(p) \/ AddProduct(p)
  PROVE  Types'
  <1>0. PICK n : n = Len(calls) + 1
    OBVIOUS
  <1>1. /\ \A op \in {"price", "list"} :
             op \in DOMAIN Ops /\ p \in Ops[op] /\ op \notin {"add", "remove", "checkout"}
        /\ {"saved", "begun"} \subseteq Stages /\ p \in Names
    BY DEF Ops, Stages, Names
  <1>2. CASE FindProduct(p)
    <2>1. Begin("price", p, p, "begun", shelf[p])
      BY <1>2 DEF FindProduct
    <2>2. Owns(p, shelf[p])'
      <3>1. /\ Len(calls)' = Len(calls) + 1 /\ Len(calls) \in Nat
            /\ \A m \in 1..Len(calls) : calls'[m] = calls[m]
        BY <1>1, <2>1, BeginShape, CallsType
      <3>2. Owns(p, shelf[p]) /\ shelf' = shelf
        BY <1>2 DEF Types, CatalogType, FindProduct, catalog
      <3> QED
        BY <3>1, <3>2 DEF Owns
    <2>3. CallsShape' /\ Grows /\ CallsType2'
      <3>1. PICK o : o = shelf[p]
        OBVIOUS
      <3>2. Owns(p, o)' /\ Begin("price", p, p, "begun", o)
        BY <1>2, <2>1, <2>2, <3>1 DEF Owns, FindProduct, catalog
      <3> QED
        BY <1>0, <1>1, <3>2, BeginTypes
    <2>4. UNCHANGED <<accounts, carts, catalog, stream, projection, orders, due, trouble>>
      BY <1>2 DEF FindProduct
    <2> QED
      BY <2>3, <2>4, TypesClose
  <1>3. CASE AddProduct(p)
    <2>1. Begin("list", p, p, "saved", n)
      BY <1>0, <1>3 DEF AddProduct
    <2>2. /\ Len(calls') = n /\ Len(calls) \in Nat /\ n \in 1..MaxCalls /\ n \in Prices
          /\ calls'[n] = [op |-> "list", on |-> p, item |-> p, st |-> "saved", read |-> n]
      <3>1. Len(calls) \in Nat /\ Len(calls) < MaxCalls /\ MaxCalls \in Nat
        BY <2>1, CallsType, StorefrontAssumption DEF Begin
      <3> QED
        BY <1>0, <1>1, <2>1, <3>1, BeginShape DEF Prices
    <2>3. Owns(p, n)'
      <3>1. n \in 1..Len(calls')
        BY <1>0, <2>2
      <3> QED
        BY <2>2, <3>1 DEF Owns
    <2>4. CallsShape' /\ Grows /\ CallsType2'
      BY <1>0, <1>1, <2>1, <2>3, BeginTypes
    <2>5. CatalogType'
      <3>1. EventOf("added", p, n) \in Event
        BY <2>2, EventType DEF Subjects
      <3>2. PICK x : x = [price |-> n, events |-> <<EventOf("added", p, n)>>]
        OBVIOUS
      <3>3. x \in Record
        BY <2>2, <3>1, <3>2 DEF Record
      <3>4. objects' = [objects EXCEPT ![n] = x] /\ shelf' = [shelf EXCEPT ![p] = n]
        BY <1>0, <1>3, <3>2 DEF AddProduct
      <3>5. n \in Objects
        BY <2>2 DEF Objects
      <3>6. /\ objects \in [Objects -> Record] /\ shelf \in [Products -> Objects]
            /\ \A q \in Products : Owns(q, shelf[q])
        BY DEF Types, CatalogType
      <3>7. objects' \in [Objects -> Record] /\ shelf' \in [Products -> Objects]
        BY <3>3, <3>4, <3>5, <3>6
      <3>8. \A q \in Products : Owns(q, shelf[q])'
        <4>1. ASSUME NEW q \in Products, q # p PROVE Owns(q, shelf[q])'
          <5>1. shelf'[q] = shelf[q] /\ Owns(q, shelf[q])
            BY <3>4, <3>6, <4>1
          <5> QED
            BY <2>4, <5>1, GrowsKeeps DEF Owns, Grows
        <4>2. shelf'[p] = n
          BY <3>4, <3>6
        <4>3. Owns(p, shelf[p])'
          BY <2>3, <4>2 DEF Owns
        <4> QED
          BY <4>1, <4>3
      <3> QED
        BY <3>7, <3>8 DEF CatalogType
    <2>6. UNCHANGED <<accounts, carts, stream, projection, orders, due, trouble>>
      BY <1>3 DEF AddProduct
    <2> QED
      BY <2>4, <2>5, <2>6, TypesClose
  <1> QED
    BY <1>2, <1>3

\* The stream grows; what was handed out and heard stays.
LEMMA LogTypes ==
  ASSUME Types, log' \in Seq(Event), Len(log) <= Len(log'),
         UNCHANGED <<taken, unacked, projection>>
  PROVE  StreamType' /\ ProjectionType'
  <1>1. Len(log) \in Nat /\ Len(log') \in Nat
    BY LenProperties DEF Types, StreamType
  <1>2. 0..Len(log) \subseteq 0..Len(log') /\ 1..Len(log) \subseteq 1..Len(log')
    BY <1>1
  <1>3. StreamType'
    BY <1>2 DEF Types, StreamType
  <1>4. ProjectionType'
    BY <1>2 DEF Types, ProjectionType, projection
  <1> QED
    BY <1>3, <1>4

LEMMA CatalogMoveTypes ==
  ASSUME CallsShape, Types, NEW n \in Active,
         SavePrice(n) \/ Pull(n) \/ Publish(n) \/ PublishFails(n)
  PROVE  Types'
  <1> DEFINE p == calls[n].on
             o == calls[n].read
  <1>1. /\ calls[n].op \in CatalogOps /\ p \in Products /\ n \in 1..MaxCalls
        /\ UNCHANGED <<accounts, carts, projection, orders, due>>
        /\ calls[n].op \notin {"add", "remove", "checkout"}
    BY OnType DEF SavePrice, Pull, Publish, PublishFails, At, CatalogOps
  <1>2. ReadOK(n) /\ {"saved", "pulled", "done"} \subseteq Stages
    BY DEF Types, CallsType2, Stages
  <1>3. objects \in [Objects -> Record] /\ shelf \in [Products -> Objects]
        /\ (\A q \in Products : Owns(q, shelf[q])) /\ log \in Seq(Event)
    BY DEF Types, CatalogType, StreamType
  <1>4. CASE SavePrice(n)
    <2>1. Owns(p, o) /\ Goto(n, "saved")
      BY <1>2, <1>4, <1>1 DEF SavePrice, At, ReadOK
    <2>2. CallsShape' /\ Grows /\ CallsType2'
      <3>1. PICK read : read = calls[n].read
        OBVIOUS
      <3> QED
        BY <1>1, <1>2, <2>1, <3>1, MoveTypes
    <2>3. o \in Objects /\ objects[o].events \in Seq(Event) /\ n \in Prices
      BY <1>1, <2>1, OwnsType, RecordType, StorefrontAssumption DEF Prices
    <2>4. PICK x : x = [price |-> n, events |-> Append(objects[o].events, EventOf("changed", p, n))]
      OBVIOUS
    <2>5. x \in Record
      <3>1. EventOf("changed", p, n) \in Event
        BY <1>1, <2>3, EventType DEF Subjects
      <3>2. Append(objects[o].events, EventOf("changed", p, n)) \in Seq(Event)
        BY <2>3, <3>1
      <3> QED
        BY <2>3, <2>4, <3>2 DEF Record
    <2>6. objects' = [objects EXCEPT ![o] = x] /\ shelf' = [shelf EXCEPT ![p] = o]
      BY <1>3, <1>4, <2>3, <2>4 DEF SavePrice
    <2>7. \A q \in Products : Owns(q, shelf'[q])
      BY <1>1, <1>3, <2>1, <2>6
    <2>8. \A q \in Products : Owns(q, shelf[q])'
      BY <2>2, <2>7, GrowsKeeps DEF Owns, Grows
    <2>9. CatalogType'
      BY <1>3, <1>1, <2>3, <2>5, <2>6, <2>8 DEF CatalogType, Owns
    <2>10. UNCHANGED <<stream, trouble>>
      BY <1>4 DEF SavePrice
    <2> QED
      BY <1>1, <2>2, <2>9, <2>10, TypesClose
  <1>5. CASE Pull(n)
    <2>1. Owns(p, o) /\ GotoWith(n, "pulled", objects[o].events)
      BY <1>2, <1>5 DEF Pull, ReadOK
    <2>2. o \in Objects /\ objects[o].events \in Seq(Event) /\ objects[o] \in Record
      BY <1>1, <2>1, OwnsType, RecordType
    <2>3. CallsShape' /\ Grows /\ CallsType2'
      BY <1>1, <1>2, <2>1, <2>2, MoveTypes
    <2>4. PICK x : x = [objects[o] EXCEPT !.events = <<>>]
      OBVIOUS
    <2>5. x \in Record
      <3>1. <<>> \in Seq(Event)
        BY EmptySeq
      <3> QED
        BY <2>2, <2>4, <3>1 DEF Record
    <2>6. objects' = [objects EXCEPT ![o] = x] /\ shelf' = shelf
      BY <1>3, <1>5, <2>2, <2>4 DEF Pull
    <2>7. CatalogType'
      BY <1>3, <2>2, <2>3, <2>5, <2>6, GrowsKeeps DEF CatalogType, Owns, Grows
    <2>8. UNCHANGED <<stream, trouble>>
      BY <1>5 DEF Pull
    <2> QED
      BY <1>1, <2>3, <2>7, <2>8, TypesClose
  <1>6. CASE Publish(n)
    <2>1. o \in Seq(Event) /\ UNCHANGED <<catalog, taken, unacked, trouble>>
      BY <1>2, <1>6, <1>1 DEF Publish, ReadOK
    <2>2. CASE o = <<>>
      <3>1. Goto(n, "done") /\ UNCHANGED stream
        BY <1>6, <2>2 DEF Publish, stream
      <3>2. CallsShape' /\ Grows /\ CallsType2'
        BY <3>1, OneMoreFinished
      <3> QED
        BY <1>1, <2>1, <3>1, <3>2, TypesClose
    <2>3. CASE o # <<>>
      <3>1. GotoWith(n, "pulled", Tail(o)) /\ log' = Append(log, Head(o))
        BY <1>6, <2>3 DEF Publish
      <3>2. Tail(o) \in Seq(Event) /\ Head(o) \in Event
        BY <2>1, <2>3
      <3>3. CallsShape' /\ Grows /\ CallsType2'
        BY <1>1, <1>2, <3>1, <3>2, MoveTypes
      <3>4. log' \in Seq(Event) /\ Len(log') = Len(log) + 1 /\ Len(log) \in Nat
        BY <1>3, <3>1, <3>2, AppendProperties, LenProperties
      <3>5. StreamType' /\ ProjectionType'
        BY <1>1, <2>1, <3>4, LogTypes
      <3> QED
        BY <1>1, <2>1, <3>3, <3>5, TypesClose
    <2> QED
      BY <2>2, <2>3
  <1>7. CASE PublishFails(n)
    <2>1. Goto(n, "done") /\ UNCHANGED <<catalog, stream>> /\ Trouble
      BY <1>7 DEF PublishFails
    <2>2. CallsShape' /\ Grows /\ CallsType2'
      BY <2>1, OneMoreFinished
    <2> QED
      BY <1>1, <2>1, <2>2, TypesClose
  <1> QED
    BY <1>4, <1>5, <1>6, <1>7

\* The seeds, one event for each product, in some order.
Seeds == SetToSeq({EventOf("added", p, 0) : p \in Products})

LEMMA SeedsType ==
  /\ Seeds \in Seq(Event)
  /\ \A i \in 1..Len(Seeds) : Seeds[i].price = 0
  /\ \A p \in Products : \E i \in 1..Len(Seeds) : Seeds[i].product = p
  /\ \A i, j \in 1..Len(Seeds) : Seeds[i].product = Seeds[j].product => i = j
  <1> DEFINE E == {EventOf("added", p, 0) : p \in Products}
             Good(f) == f \in [1..Cardinality(E) -> E] /\ IsInjective(f)
  <1>1. \A p \in Products : EventOf("added", p, 0) \in Event
          /\ EventOf("added", p, 0).product = p /\ EventOf("added", p, 0).price = 0
    BY EventType, StorefrontAssumption DEF Subjects, Prices
  <1>2. IsFiniteSet(E) /\ Cardinality(E) \in Nat
    <2> DEFINE g == [p \in Products |-> EventOf("added", p, 0)]
    <2>1. g \in Surjection(Products, E)
      BY DEF Surjection
    <2>2. IsFiniteSet(Products)
      BY StorefrontAssumption
    <2> HIDE DEF g, E
    <2>3. IsFiniteSet(E)
      BY <2>1, <2>2, FS_Surjection
    <2> QED
      BY <2>3, FS_CardinalityType
  <1> HIDE DEF E
  <1>3. PICK n \in Nat : n = Cardinality(E)
    BY <1>2
  <1>4. \E f : Good(f)
    <2>1. PICK f : f \in Bijection(1..n, E)
      BY <1>2, <1>3, FS_CardinalityType DEF ExistsBijection
    <2>2. f \in [1..n -> E] /\ IsInjective(f)
      BY <2>1 DEF Bijection, Injection, IsInjective
    <2> QED
      BY <1>3, <2>2
  <1>5. Good(Seeds)
    <2>1. Seeds = CHOOSE f \in [1..Cardinality(E) -> E] : IsInjective(f)
      BY DEF Seeds, SetToSeq, E
    <2> QED
      BY <1>4, <2>1
  <1>6. PICK f : f = Seeds /\ f \in [1..n -> E] /\ IsInjective(f)
    BY <1>3, <1>5
  <1>7. f \in Surjection(1..n, E)
    <2>1. f \in Injection(1..n, E)
      BY <1>6 DEF Injection, IsInjective
    <2>2. Cardinality(1..n) = n
      <3>1. Cardinality(1..n) = IF 1 > n THEN 0 ELSE n - 1 + 1
        BY FS_Interval
      <3> QED
        BY <3>1
    <2> QED
      BY <1>2, <1>3, <2>1, <2>2, FS_Injection
  <1>8. /\ E \subseteq Event /\ \A e \in E : e.price = 0
        /\ \A p \in Products : \E e \in E : e.product = p
    BY <1>1 DEF E
  <1>9. f \in Seq(Event) /\ Len(f) = n
    <2>1. f \in [1..n -> Event]
      BY <1>6, <1>8
    <2> QED
      BY <2>1
  <1>10. \A p \in Products : \E i \in 1..n : f[i].product = p
    BY <1>7, <1>8 DEF Surjection
  <1>11. \A i \in 1..n : f[i].price = 0
    BY <1>6, <1>8
  <1>12. \A i, j \in 1..n : f[i].product = f[j].product => i = j
    <2>1. \A d, e \in E : d.product = e.product => d = e
      BY <1>1 DEF E, EventOf
    <2>2. \A i, j \in 1..n : f[i] = f[j] => i = j
      BY <1>6 DEF IsInjective
    <2> QED
      BY <1>6, <2>1, <2>2
  <1> QED
    BY <1>6, <1>9, <1>10, <1>11, <1>12

LEMMA RestartCatalogTypes ==
  ASSUME CallsShape, Types, RestartCatalog
  PROVE  Types'
  <1>1. /\ objects' = [o \in DOMAIN objects |-> [price |-> 0, events |-> <<>>]]
        /\ shelf' = [p \in Products |-> p] /\ Trouble
        /\ log' = log \o Seeds
        /\ UNCHANGED <<accounts, carts, taken, unacked, projection, orders, due>>
    BY DEF RestartCatalog, Seeds
  <1>2. CallsShape' /\ Grows /\ CallsType2'
    BY KillTypes DEF RestartCatalog
  <1>3. CatalogType'
    <2>1. [price |-> 0, events |-> <<>>] \in Record
      BY StorefrontAssumption DEF Record, Prices
    <2>2. DOMAIN objects = Objects
      BY DEF Types, CatalogType
    <2>3. objects' \in [Objects -> Record]
      BY <1>1, <2>1, <2>2
    <2> QED
      BY <1>1, <2>3 DEF CatalogType, Owns, Objects
  <1>4. log \in Seq(Event) /\ Seeds \in Seq(Event)
    BY SeedsType DEF Types, StreamType
  <1>5. log' \in Seq(Event) /\ Len(log) <= Len(log')
    <2>1. log' \in Seq(Event) /\ Len(log') = Len(log) + Len(Seeds)
      BY <1>1, <1>4, ConcatProperties
    <2>2. Len(log) \in Nat /\ Len(Seeds) \in Nat
      BY <1>4, LenProperties
    <2> QED
      BY <2>1, <2>2
  <1>6. StreamType' /\ ProjectionType'
    BY <1>1, <1>5, LogTypes
  <1> QED
    BY <1>1, <1>2, <1>3, <1>6, TypesClose

\* An event is applied: it is one of the stream's.
LEMMA ApplyTypes ==
  ASSUME Types, NEW r \in Replicas, NEW i \in 1..Len(log), Apply(r, i), UNCHANGED log
  PROVE  ProjectionType'
  <1>1. log[i] \in Event
    BY ElementOfSeq DEF Types, StreamType
  <1>2. log[i].product \in Products /\ log[i].price \in Prices
    BY <1>1 DEF Event
  <1>3. i \in 0..Len(log)
    BY LenProperties DEF Types, StreamType
  <1>4. ordering' \in [Replicas -> [st : {"down", "asked", "up"}, prices : [Products -> Prices],
                                  answer : [Products -> Prices]]]
    BY <1>2 DEF Apply, Types, ProjectionType
  <1>5. told' \in [Replicas -> [Products -> 0..Len(log)]]
    BY <1>2, <1>3 DEF Apply, Types, ProjectionType
  <1>6. crossed' \subseteq Replicas \X Products
    BY <1>2 DEF Apply, Types, ProjectionType
  <1> QED
    BY <1>4, <1>5, <1>6 DEF ProjectionType

LEMMA HearTypes ==
  ASSUME CallsShape, Types, NEW r \in Replicas,
         (\E d \in Subjects : Deliver(r, d)) \/ (\E i \in unacked : Redeliver(r, i))
  PROVE  Types'
  <1>1. /\ UNCHANGED <<calls, accounts, carts, catalog, orders, due, log>>
        /\ trouble' = trouble \/ Trouble
    BY DEF Deliver, Redeliver
  <1>2. CallsShape' /\ Grows /\ CallsType2'
    BY <1>1, SameTypes
  <1>3. /\ log \in Seq(Event) /\ taken \in [Subjects -> 0..Len(log)]
        /\ unacked \subseteq 1..Len(log) /\ Len(log) \in Nat
    BY LenProperties DEF Types, StreamType
  <1>4. StreamType' /\ ProjectionType'
    <2>1. ASSUME NEW d \in Subjects, Deliver(r, d) PROVE StreamType' /\ ProjectionType'
      <3>1. PICK i \in taken[d] + 1..Len(log) :
              /\ taken' = [taken EXCEPT ![d] = i]
              /\ Apply(r, i)
              /\ unacked' = unacked \/ unacked' = unacked \union {i}
        BY <2>1 DEF Deliver
      <3>2. i \in 1..Len(log) /\ i \in 0..Len(log)
        BY <1>3, <2>1, <3>1
      <3>3. StreamType'
        BY <1>1, <1>3, <2>1, <3>1, <3>2 DEF StreamType
      <3> QED
        BY <1>1, <3>1, <3>2, <3>3, ApplyTypes
    <2>2. ASSUME NEW i \in unacked, Redeliver(r, i) PROVE StreamType' /\ ProjectionType'
      <3>1. Apply(r, i) /\ unacked' = unacked \ {i} /\ taken' = taken /\ i \in 1..Len(log)
        BY <1>3, <2>2 DEF Redeliver
      <3>2. StreamType'
        BY <1>1, <1>3, <3>1 DEF StreamType
      <3> QED
        BY <1>1, <3>1, <3>2, ApplyTypes
    <2> QED
      BY <2>1, <2>2
  <1> QED
    BY <1>1, <1>2, <1>4, TypesClose

LEMMA ReplicaTypes ==
  ASSUME CallsShape, Types, NEW r \in Replicas, AskCatalog(r) \/ Subscribe(r) \/ RestartOrdering(r)
  PROVE  Types'
  <1>1. /\ UNCHANGED <<calls, accounts, carts, catalog, stream, orders, due>>
        /\ trouble' = trouble \/ Trouble
    BY DEF AskCatalog, Subscribe, RestartOrdering
  <1>2. CallsShape' /\ Grows /\ CallsType2'
    BY <1>1, SameTypes
  <1>3. /\ Empty \in [Products -> Prices] /\ CatalogPrices \in [Products -> Prices]
        /\ log' = log /\ Len(log) \in Nat /\ Empty \in [Products -> 0..Len(log)]
    <2>1. 0 \in Prices
      BY StorefrontAssumption DEF Prices
    <2>2. \A p \in Products : objects[shelf[p]].price \in Prices
      BY RecordType DEF Types, CatalogType
    <2>3. Len(log) \in Nat /\ log' = log
      BY <1>1, LenProperties DEF Types, StreamType, stream
    <2> QED
      BY <2>1, <2>2, <2>3 DEF Empty, CatalogPrices
  <1>4. ProjectionType'
    <2> USE <1>3 DEF Types, ProjectionType
    <2>1. CASE AskCatalog(r)
      <3>1. ordering' \in [Replicas -> [st : {"down", "asked", "up"}, prices : [Products -> Prices],
                                        answer : [Products -> Prices]]]
        BY <2>1 DEF AskCatalog
      <3>2. told' \in [Replicas -> [Products -> 0..Len(log)]] /\ crossed' = crossed
        BY <2>1 DEF AskCatalog
      <3> QED
        BY <3>1, <3>2
    <2>2. CASE Subscribe(r)
      <3>1. ordering' \in [Replicas -> [st : {"down", "asked", "up"}, prices : [Products -> Prices],
                                        answer : [Products -> Prices]]]
        BY <2>2 DEF Subscribe, Seeded
      <3>2. told' = told /\ crossed' = crossed
        BY <2>2 DEF Subscribe
      <3> QED
        BY <3>1, <3>2
    <2>3. CASE RestartOrdering(r)
      <3>1. ordering' \in [Replicas -> [st : {"down", "asked", "up"}, prices : [Products -> Prices],
                                        answer : [Products -> Prices]]]
        BY <2>3 DEF RestartOrdering, Seeded
      <3>2. told' \in [Replicas -> [Products -> 0..Len(log)]]
            /\ crossed' \subseteq Replicas \X Products
        BY <2>3 DEF RestartOrdering
      <3> QED
        BY <3>1, <3>2
    <2> QED
      BY <2>1, <2>2, <2>3
  <1> QED
    BY <1>1, <1>2, <1>4, TypesClose

LEMMA TypesStep == CallsShape /\ Receipts /\ Types /\ [Next]_vars => Types'
  <1> SUFFICES ASSUME CallsShape, Receipts, Types, [Next]_vars PROVE Types'
    OBVIOUS
  <1>1. ASSUME NEW e \in Emails, Register(e) PROVE Types'
    BY <1>1, RegisterTypes
  <1>2. ASSUME NEW c \in Customers,
               Checkout(c) \/ \E p \in Products : LoadCart("add", c, p) \/ LoadCart("remove", c, p)
        PROVE Types'
    BY <1>2, CartBeginsTypes
  <1>3. ASSUME NEW p \in Products, FindProduct(p) \/ AddProduct(p) PROVE Types'
    BY <1>3, CatalogBeginsTypes
  <1>4. ASSUME NEW n \in Active,
               SaveAccount(n) \/ SaveCart(n) \/ LoadForCheckout(n) \/ EmptyCart(n)
        PROVE Types'
    BY <1>4, SaveAccountTypes, SaveCartTypes, LoadForCheckoutTypes, EmptyCartTypes
  <1>5. ASSUME NEW n \in Active, NEW r \in Replicas, Place(n, r) \/ PlaceFails(n, r) PROVE Types'
    BY <1>5, PlaceTypes
  <1>6. ASSUME NEW n \in Active, SavePrice(n) \/ Pull(n) \/ Publish(n) \/ PublishFails(n)
        PROVE Types'
    BY <1>6, CatalogMoveTypes
  <1>7. ASSUME NEW r \in Replicas,
               (\E d \in Subjects : Deliver(r, d)) \/ (\E i \in unacked : Redeliver(r, i))
        PROVE Types'
    BY <1>7, HearTypes
  <1>8. ASSUME NEW r \in Replicas, AskCatalog(r) \/ Subscribe(r) \/ RestartOrdering(r)
        PROVE Types'
    BY <1>8, ReplicaTypes
  <1>9. CASE RestartCustomer \/ RestartCart \/ RestartCatalog
    BY <1>9, RestartTypes, RestartCatalogTypes
  <1>10. CASE UNCHANGED vars
    <2>1. UNCHANGED <<calls, accounts, carts, catalog, stream, projection, orders, due, trouble>>
      BY <1>10 DEF vars
    <2>2. CallsShape' /\ Grows /\ CallsType2'
      BY <2>1, SameTypes
    <2> QED
      BY <2>1, <2>2, TypesClose
  <1> QED
    BY <1>1, <1>2, <1>3, <1>4, <1>5, <1>6, <1>7, <1>8, <1>9, <1>10 DEF Next

-----------------------------------------------------------------------------
\* Prices.  A product that is not excused has at most one call under way.  What that
\* call has yet to publish is what the price of the product is; when it has nothing
\* to publish, the stream's last word on the product is the price.

\* The events of a product in a sequence of events, and the price the last one says.
News(l, p) == {i \in 1..Len(l) : l[i].product = p}
LastIn(l, p, x) ==
    \/ x = 0 /\ News(l, p) = {}
    \/ \E i \in News(l, p) : l[i].price = x /\ \A j \in News(l, p) : j <= i

Heard(r, p) == \A i \in News(log, p) : i <= told[r][p]

\* What a replica charges, or will when it is up.
Charged(r, p) ==
    IF ordering[r].st = "up" THEN ordering[r].prices[p] ELSE ordering[r].answer[p]

OnIt(n, p) == calls[n].op \in CatalogOps /\ calls[n].on = p
CallOn(p) == {n \in Active : OnIt(n, p)}
Pending(n) == calls[n].st = "saved" \/ (calls[n].st = "pulled" /\ calls[n].read # <<>>)

Says(es, p, x) == \E s \in Subjects : es = <<EventOf(s, p, x)>>
Mine(p, es) == \A i \in 1..Len(es) : es[i].product = p

\* Events are recorded on objects of the product they are about.
OwnEvents ==
    /\ \A p \in Products, o \in Objects : Owns(p, o) => Mine(p, objects[o].events)
    /\ \A n \in Active : calls[n].op \in CatalogOps /\ calls[n].st = "pulled" =>
         Mine(calls[n].on, calls[n].read)

\* The call on p works on the object stored for p, and the events say its price.
Desk(p) ==
    /\ \A n \in CallOn(p) :
        /\ calls[n].st # "pulled" => calls[n].read = shelf[p]
        /\ calls[n].st = "saved" => Says(objects[shelf[p]].events, p, objects[shelf[p]].price)
        /\ calls[n].st = "pulled" =>
             calls[n].read = <<>> \/ Says(calls[n].read, p, objects[shelf[p]].price)
    /\ (\A n \in CallOn(p) : calls[n].st # "saved") => objects[shelf[p]].events = <<>>

\* Unless an event is still to come, the stream's last word is the price.
Wire(p) == (\A n \in CallOn(p) : ~Pending(n)) => LastIn(log, p, objects[shelf[p]].price)

\* A replica that has heard everything charges the price or what was said last.
Till(p) ==
    \A r \in Replicas : Heard(r, p) /\ <<r, p>> \notin crossed =>
        \/ Charged(r, p) = objects[shelf[p]].price
        \/ LastIn(log, p, Charged(r, p))

Word(p) == Desk(p) /\ Wire(p) /\ Till(p)
Words == \A p \in Products : p \notin excused => Word(p)

LEMMA LastUnique ==
  ASSUME NEW l \in Seq(Event), NEW p, NEW x, NEW y, LastIn(l, p, x), LastIn(l, p, y)
  PROVE  x = y
  <1>1. \A i \in News(l, p) : i \in Nat
    BY LenProperties DEF News
  <1>2. CASE News(l, p) = {}
    BY <1>2 DEF LastIn
  <1>3. CASE News(l, p) # {}
    <2>1. PICK i, j \in News(l, p) :
            /\ l[i].price = x /\ l[j].price = y
            /\ \A k \in News(l, p) : k <= i /\ k <= j
      BY <1>3 DEF LastIn
    <2>2. i = j
      BY <1>1, <2>1
    <2> QED
      BY <2>1, <2>2
  <1> QED
    BY <1>2, <1>3

\* An event of another product.
LEMMA NewsAside ==
  ASSUME NEW l \in Seq(Event), NEW e \in Event, NEW p, e.product # p
  PROVE  /\ News(Append(l, e), p) = News(l, p)
         /\ \A x : LastIn(Append(l, e), p, x) <=> LastIn(l, p, x)
  <1>1. PICK m \in Seq(Event) : m = Append(l, e)
    BY AppendProperties
  <1>2. /\ Len(m) = Len(l) + 1 /\ Len(l) \in Nat /\ m[Len(l) + 1] = e
        /\ \A i \in 1..Len(l) : m[i] = l[i]
    BY <1>1, AppendProperties, LenProperties
  <1>3. \A i \in 1..Len(m) : i \in 1..Len(l) \/ i = Len(l) + 1
    BY <1>2
  <1>4. News(m, p) = News(l, p)
    BY <1>2, <1>3 DEF News
  <1>5. \A i \in News(l, p) : m[i].price = l[i].price
    BY <1>2 DEF News
  <1>6. \A x : LastIn(m, p, x) <=> LastIn(l, p, x)
    BY <1>4, <1>5 DEF LastIn
  <1> QED
    BY <1>1, <1>4, <1>6

\* An event of the product.
LEMMA NewsOfIt ==
  ASSUME NEW l \in Seq(Event), NEW e \in Event, NEW p, e.product = p
  PROVE  /\ Len(l) + 1 \in News(Append(l, e), p)
         /\ LastIn(Append(l, e), p, e.price)
  <1>1. PICK m \in Seq(Event) : m = Append(l, e)
    BY AppendProperties
  <1>2. /\ Len(m) = Len(l) + 1 /\ Len(l) \in Nat /\ m[Len(l) + 1] = e
    BY <1>1, AppendProperties, LenProperties
  <1>3. Len(l) + 1 \in News(m, p) /\ \A j \in News(m, p) : j <= Len(l) + 1
    BY <1>2 DEF News
  <1>4. LastIn(m, p, e.price)
    BY <1>2, <1>3 DEF LastIn
  <1> QED
    BY <1>1, <1>3, <1>4

\* The seeds are news of every product.
LEMMA NewsOfSeeds ==
  ASSUME NEW l \in Seq(Event), NEW p \in Products
  PROVE  /\ \E i \in News(l \o Seeds, p) : i > Len(l)
         /\ LastIn(l \o Seeds, p, 0)
  <1>1. PICK s \in Seq(Event) : s = Seeds
    BY SeedsType
  <1>2. PICK m \in Seq(Event) : m = l \o s
    BY ConcatProperties
  <1>3. /\ Len(m) = Len(l) + Len(s) /\ Len(l) \in Nat /\ Len(s) \in Nat
        /\ \A i \in 1..Len(m) : m[i] = IF i <= Len(l) THEN l[i] ELSE s[i - Len(l)]
    BY <1>2, ConcatProperties, LenProperties
  <1>4. PICK k \in 1..Len(s) : s[k].product = p
    BY <1>1, SeedsType
  <1>5. s[k].price = 0 /\ \A j \in 1..Len(s) : s[j].product = p => j = k
    BY <1>1, <1>4, SeedsType
  <1>6. PICK i : i = Len(l) + k
    OBVIOUS
  <1>7. i \in 1..Len(m) /\ i > Len(l) /\ i - Len(l) = k
    BY <1>3, <1>4, <1>6
  <1>8. m[i] = s[k]
    BY <1>3, <1>7
  <1>9. i \in News(m, p) /\ m[i].price = 0
    BY <1>4, <1>5, <1>7, <1>8 DEF News
  <1>10. ASSUME NEW j \in News(m, p) PROVE j <= i
    <2>1. j \in 1..Len(m) /\ m[j].product = p
      BY DEF News
    <2>2. CASE j <= Len(l)
      BY <1>3, <1>7, <2>1, <2>2
    <2>3. CASE j > Len(l)
      <3>1. j - Len(l) \in 1..Len(s) /\ m[j] = s[j - Len(l)]
        BY <1>3, <2>1, <2>3
      <3>2. j - Len(l) = k
        BY <1>5, <2>1, <3>1
      <3> QED
        BY <1>3, <1>6, <2>1, <3>2
    <2> QED
      BY <1>3, <2>1, <2>2, <2>3
  <1>11. LastIn(m, p, 0)
    BY <1>9, <1>10 DEF LastIn
  <1> QED
    BY <1>1, <1>2, <1>7, <1>9, <1>11

\* Two products own no object in common.
LEMMA OwnsOne ==
  ASSUME CallsShape, Types, NEW p \in Products, NEW q \in Products, NEW o,
         Owns(p, o), Owns(q, o)
  PROVE  p = q
  <1>1. 1..Len(calls) \subseteq 1..MaxCalls
    BY CallsType, StorefrontAssumption DEF Types, CallsType2
  <1> QED
    BY <1>1, StorefrontAssumption DEF Owns

\* What a step leaves as it was: who works on p and on what,
SameDesk(p) ==
    /\ CallOn(p)' = CallOn(p)
    /\ \A n \in CallOn(p) : calls'[n] = calls[n]
    /\ shelf'[p] = shelf[p] /\ objects'[shelf[p]] = objects[shelf[p]]

\* and what was said of p and heard by the replicas.
SameNews(p) ==
    /\ \A x : LastIn(log', p, x) <=> LastIn(log, p, x)
    /\ \A r \in Replicas :
        /\ Heard(r, p)' => Heard(r, p)
        /\ Charged(r, p)' = Charged(r, p)
        /\ <<r, p>> \in crossed => <<r, p>> \in crossed'

LEMMA WordKept ==
  ASSUME NEW p \in Products, Word(p), SameDesk(p), SameNews(p)
  PROVE  Word(p)'
  <1>1. Desk(p)'
    BY DEF Word, Desk, SameDesk
  <1>2. Wire(p)'
    <2>1. \A n \in CallOn(p) : Pending(n)' <=> Pending(n)
      BY DEF Pending, SameDesk
    <2> QED
      BY <2>1 DEF Word, Wire, SameDesk, SameNews
  <1>3. Till(p)'
    BY DEF Word, Till, SameDesk, SameNews
  <1> QED
    BY <1>1, <1>2, <1>3 DEF Word

LEMMA NothingSaid ==
  ASSUME NEW p \in Products, UNCHANGED <<log, projection>>
  PROVE  SameNews(p)
  BY DEF SameNews, Heard, Charged, projection

LEMMA SaidElsewhere ==
  ASSUME Types, NEW p \in Products, NEW e \in Event, e.product # p,
         log' = Append(log, e), UNCHANGED projection
  PROVE  SameNews(p)
  <1>1. log \in Seq(Event)
    BY DEF Types, StreamType
  <1>2. News(log', p) = News(log, p) /\ \A x : LastIn(log', p, x) <=> LastIn(log, p, x)
    BY <1>1, NewsAside
  <1> QED
    BY <1>2 DEF SameNews, Heard, Charged, projection

\* Calls on p stay as they are when the step is about something else.
LEMMA SameCalls ==
  ASSUME NEW p, 1..Len(calls) \subseteq 1..Len(calls'),
         \A m \in 1..Len(calls) : calls'[m] = calls[m] \/ (~OnIt(m, p) /\ ~OnIt(m, p)'),
         \A m \in 1..Len(calls') : m \in 1..Len(calls) \/ ~OnIt(m, p)'
  PROVE  CallOn(p)' = CallOn(p) /\ \A n \in CallOn(p) : calls'[n] = calls[n]
  <1>1. \A m : m \in CallOn(p) <=> m \in 1..Len(calls) /\ calls[m].st # "done" /\ OnIt(m, p)
    BY DEF CallOn, Active
  <1>2. \A m : m \in CallOn(p)' <=> m \in 1..Len(calls') /\ calls'[m].st # "done" /\ OnIt(m, p)'
    BY DEF CallOn, Active
  <1>3. \A m \in 1..Len(calls) : calls'[m] = calls[m] => (OnIt(m, p)' <=> OnIt(m, p))
    BY DEF OnIt
  <1> QED
    BY <1>1, <1>2, <1>3

-----------------------------------------------------------------------------
\* Steps that are not the catalog's.

Quiet ==
    /\ 1..Len(calls) \subseteq 1..Len(calls')
    /\ \A m \in 1..Len(calls) :
         calls'[m] = calls[m] \/ (calls[m].op \notin CatalogOps /\ calls'[m].op \notin CatalogOps)
    /\ \A m \in 1..Len(calls') : m \in 1..Len(calls) \/ calls'[m].op \notin CatalogOps
    /\ excused \subseteq excused'
    /\ UNCHANGED catalog

LEMMA QuietBegin ==
  ASSUME CallsShape, NEW op \in DOMAIN Ops \ CatalogOps, NEW k \in Names, NEW p \in Products,
         NEW st \in Stages, NEW read, Begin(op, k, p, st, read), UNCHANGED catalog
  PROVE  Quiet
  <1>1. /\ Len(calls)' = Len(calls) + 1 /\ Len(calls) \in Nat
        /\ \A m \in 1..Len(calls) : calls'[m] = calls[m]
        /\ calls'[Len(calls) + 1].op = op
    <2>1. calls'[Len(calls) + 1] = [op |-> op, on |-> k, item |-> p, st |-> st, read |-> read]
      BY BeginShape
    <2> QED
      BY <2>1, BeginShape, CallsType
  <1>2. excused \subseteq excused'
    BY DEF Begin
  <1>3. /\ 1..Len(calls) \subseteq 1..Len(calls')
        /\ \A m \in 1..Len(calls') : m \in 1..Len(calls) \/ m = Len(calls) + 1
    BY <1>1
  <1> QED
    BY <1>1, <1>2, <1>3 DEF Quiet

LEMMA QuietMove ==
  ASSUME CallsShape, NEW n \in Active, calls[n].op \notin CatalogOps, NEW st \in Stages,
         Goto(n, st) \/ (\E read : GotoWith(n, st, read)),
         excused \subseteq excused', UNCHANGED catalog
  PROVE  Quiet
  <1>1. PICK read : GotoWith(n, st, read) \/ (Goto(n, st) /\ read = calls[n].read)
    OBVIOUS
  <1>2. n \in 1..Len(calls)
    BY CallsType
  <1>3. /\ Len(calls)' = Len(calls)
        /\ \A m \in 1..Len(calls) : m # n => calls'[m] = calls[m]
        /\ calls'[n].op = calls[n].op
    BY <1>1, <1>2, MoveShape
  <1> QED
    BY <1>2, <1>3 DEF Quiet

LEMMA QuietKill ==
  ASSUME CallsShape, NEW S, KillCalls(S), S \intersect CatalogOps = {},
         excused \subseteq excused', UNCHANGED catalog
  PROVE  Quiet
  <1>1. /\ Len(calls)' = Len(calls)
        /\ \A m \in 1..Len(calls) :
             /\ calls[m].op \in S \/ calls'[m] = calls[m]
             /\ calls'[m].op = calls[m].op
    BY KillShape
  <1> QED
    BY <1>1 DEF Quiet

LEMMA QuietKeeps ==
  ASSUME OwnEvents, Quiet
  PROVE  OwnEvents' /\ \A p \in Products : SameDesk(p)
  <1>1. \A p \in Products, o \in Objects : Owns(p, o)' => Owns(p, o)
    BY DEF Owns, Quiet, CatalogOps
  <1>2. \A n \in Active' : calls'[n].op \in CatalogOps => n \in Active /\ calls'[n] = calls[n]
    BY DEF Active, Quiet
  <1>3. OwnEvents'
    BY <1>1, <1>2 DEF OwnEvents, Quiet, catalog
  <1>4. ASSUME NEW p \in Products PROVE SameDesk(p)
    <2>1. CallOn(p)' = CallOn(p) /\ \A n \in CallOn(p) : calls'[n] = calls[n]
      <3>1. \A m \in 1..Len(calls) :
              calls'[m] = calls[m] \/ (~OnIt(m, p) /\ ~OnIt(m, p)')
        BY DEF Quiet, OnIt
      <3>2. \A m \in 1..Len(calls') : m \in 1..Len(calls) \/ ~OnIt(m, p)'
        BY DEF Quiet, OnIt
      <3> QED
        BY <3>1, <3>2, SameCalls DEF Quiet
    <2> QED
      BY <2>1 DEF SameDesk, Quiet, catalog
  <1> QED
    BY <1>3, <1>4

LEMMA QuietWords ==
  ASSUME OwnEvents, Words, Quiet, UNCHANGED <<log, projection>>
  PROVE  OwnEvents' /\ Words'
  <1>1. OwnEvents' /\ \A p \in Products : SameDesk(p)
    BY QuietKeeps
  <1>2. ASSUME NEW p \in Products, p \notin excused' PROVE Word(p)'
    <2>1. Word(p)
      BY <1>2 DEF Words, Quiet
    <2> QED
      BY <1>1, <2>1, NothingSaid, WordKept
  <1> QED
    BY <1>1, <1>2 DEF Words

LEMMA AsideWords ==
  ASSUME CallsShape, OwnEvents, Words,
         \/ \E e \in Emails : Register(e)
         \/ \E c \in Customers, p \in Products : LoadCart("add", c, p) \/ LoadCart("remove", c, p)
         \/ \E c \in Customers : Checkout(c)
         \/ \E n \in Active : \/ SaveAccount(n) \/ SaveCart(n) \/ LoadForCheckout(n)
                              \/ EmptyCart(n)
                              \/ \E r \in Replicas : Place(n, r) \/ PlaceFails(n, r)
         \/ RestartCustomer \/ RestartCart
  PROVE  OwnEvents' /\ Words'
  <1>1. {"register", "add", "remove", "checkout"} \subseteq DOMAIN Ops \ CatalogOps
        /\ {"begun", "done", "placed", "loaded"} \subseteq Stages
        /\ Emails \subseteq Names /\ Customers \subseteq Names
    BY DEF Ops, CatalogOps, Stages, Names
  <1>2. UNCHANGED <<catalog, log, projection>>
    BY DEF Register, LoadCart, Checkout, SaveAccount, SaveCart, LoadForCheckout, EmptyCart,
           Place, PlaceFails, RestartCustomer, RestartCart, stream
  <1>3. Quiet
    <2>1. ASSUME NEW e \in Emails, Register(e) PROVE Quiet
      <3>1. PICK p \in Products :
              Begin("register", e, p, IF EmailTaken(e) THEN "done" ELSE "begun", {})
        BY <2>1 DEF Register
      <3> QED
        BY <1>1, <1>2, <3>1, QuietBegin
    <2>2. ASSUME NEW c \in Customers, NEW p \in Products,
                 LoadCart("add", c, p) \/ LoadCart("remove", c, p)
          PROVE Quiet
      <3>1. PICK read : read = carts[c]
        OBVIOUS
      <3>2. Begin("add", c, p, "begun", read) \/ Begin("remove", c, p, "begun", read)
        BY <2>2, <3>1 DEF LoadCart
      <3> QED
        BY <1>1, <1>2, <3>2, QuietBegin
    <2>3. ASSUME NEW c \in Customers, Checkout(c) PROVE Quiet
      <3>1. PICK p \in Products :
              Begin("checkout", c, p, IF Exists(c) THEN "begun" ELSE "done", Empty)
        BY <2>3 DEF Checkout
      <3> QED
        BY <1>1, <1>2, <3>1, QuietBegin
    <2>4. ASSUME NEW n \in Active,
                 \/ SaveAccount(n) \/ SaveCart(n) \/ LoadForCheckout(n) \/ EmptyCart(n)
                 \/ \E r \in Replicas : Place(n, r) \/ PlaceFails(n, r)
          PROVE Quiet
      <3>1. /\ calls[n].op \notin CatalogOps
            /\ excused \subseteq excused'
        BY <2>4 DEF SaveAccount, SaveCart, LoadForCheckout, EmptyCart, Place, PlaceFails, At,
                    CatalogOps
      <3>2. \/ Goto(n, "done") \/ Goto(n, "placed")
            \/ \E st \in {"done", "loaded"} : \E read : GotoWith(n, st, read)
        BY <2>4 DEF SaveAccount, SaveCart, LoadForCheckout, EmptyCart, Place, PlaceFails
      <3> QED
        BY <1>1, <1>2, <3>1, <3>2, QuietMove
    <2>5. CASE RestartCustomer \/ RestartCart
      <3>1. KillCalls({"register"}) \/ KillCalls(CartOps)
        BY <2>5 DEF RestartCustomer, RestartCart
      <3>2. excused \subseteq excused'
        BY <2>5 DEF RestartCustomer, RestartCart
      <3>3. {"register"} \intersect CatalogOps = {} /\ CartOps \intersect CatalogOps = {}
        BY DEF CatalogOps, CartOps
      <3> QED
        BY <1>2, <3>1, <3>2, <3>3, QuietKill
    <2> QED
      BY <2>1, <2>2, <2>3, <2>4, <2>5
  <1> QED
    BY <1>2, <1>3, QuietWords

-----------------------------------------------------------------------------
\* The replicas

\* A replica's step leaves the catalog, its stream and its calls alone.
LEMMA ReplicaWords ==
  ASSUME CallsShape, Types, OwnEvents, Words, NEW r \in Replicas,
         UNCHANGED <<calls, catalog, log, excused>>,
         \A q \in Replicas, p \in Products : p \notin excused =>
            \/ /\ Charged(q, p)' = Charged(q, p)
               /\ told'[q][p] = told[q][p]
               /\ <<q, p>> \in crossed => <<q, p>> \in crossed'
            \/ Heard(q, p)' /\ <<q, p>> \notin crossed' =>
                 \/ Charged(q, p)' = objects[shelf[p]].price
                 \/ LastIn(log, p, Charged(q, p)')
  PROVE  OwnEvents' /\ Words'
  <1>1. Quiet
    BY DEF Quiet
  <1>2. OwnEvents' /\ \A p \in Products : SameDesk(p)
    BY <1>1, QuietKeeps
  <1>3. ASSUME NEW p \in Products, p \notin excused' PROVE Word(p)'
    <2>1. Word(p) /\ SameDesk(p) /\ p \notin excused
      BY <1>2, <1>3 DEF Words
    <2>2. Desk(p)'
      BY <2>1 DEF Word, Desk, SameDesk
    <2>3. Wire(p)'
      <3>1. \A n \in CallOn(p) : Pending(n)' <=> Pending(n)
        BY DEF Pending
      <3> QED
        BY <2>1, <3>1 DEF Word, Wire, SameDesk
    <2>4. Till(p)'
      <3> SUFFICES ASSUME NEW q \in Replicas, Heard(q, p)', <<q, p>> \notin crossed'
                   PROVE \/ Charged(q, p)' = objects[shelf[p]].price
                         \/ LastIn(log, p, Charged(q, p)')
        BY DEF Till, catalog
      <3>1. told'[q][p] = told[q][p] => Heard(q, p)
        BY DEF Heard
      <3> QED
        BY <2>1, <3>1 DEF Word, Till
    <2> QED
      BY <2>2, <2>3, <2>4 DEF Word
  <1> QED
    BY <1>2, <1>3 DEF Words

LEMMA AskWords ==
  ASSUME CallsShape, Types, OwnEvents, Words, NEW r \in Replicas,
         AskCatalog(r) \/ Subscribe(r) \/ RestartOrdering(r)
  PROVE  OwnEvents' /\ Words'
  <1>1. UNCHANGED <<calls, catalog, log, excused>>
    BY DEF AskCatalog, Subscribe, RestartOrdering, stream
  <1>2. /\ ordering \in [Replicas -> [st : {"down", "asked", "up"}, prices : [Products -> Prices],
                                      answer : [Products -> Prices]]]
        /\ told \in [Replicas -> [Products -> 0..Len(log)]]
        /\ Len(log) \in Nat
    BY LenProperties DEF Types, ProjectionType, StreamType
  <1>3. ASSUME NEW q \in Replicas, NEW p \in Products, q # r
        PROVE  /\ Charged(q, p)' = Charged(q, p)
               /\ told'[q][p] = told[q][p]
               /\ <<q, p>> \in crossed => <<q, p>> \in crossed'
    BY <1>2, <1>3 DEF AskCatalog, Subscribe, RestartOrdering, Charged
  <1>4. CASE AskCatalog(r)
    <2>1. \A p \in Products : Charged(r, p)' = objects[shelf[p]].price
      BY <1>2, <1>4 DEF AskCatalog, Charged, CatalogPrices
    <2> QED
      BY <1>1, <1>3, <2>1, ReplicaWords
  <1>5. CASE Subscribe(r)
    <2>1. \A p \in Products : Charged(r, p)' = Charged(r, p)
      BY <1>2, <1>5 DEF Subscribe, Charged, Seeded
    <2>2. told' = told /\ crossed' = crossed
      BY <1>5 DEF Subscribe
    <2> QED
      BY <1>1, <1>3, <2>1, <2>2, ReplicaWords
  <1>6. CASE RestartOrdering(r)
    <2>1. ASSUME NEW p \in Products, Heard(r, p)' PROVE LastIn(log, p, Charged(r, p)')
      <3>1. Charged(r, p)' = 0 /\ told'[r][p] = 0
        BY <1>2, <1>6 DEF RestartOrdering, Charged, Seeded, Empty
      <3>2. News(log, p) = {}
        BY <1>1, <1>2, <2>1, <3>1 DEF Heard, News
      <3> QED
        BY <3>1, <3>2 DEF LastIn
    <2> QED
      BY <1>1, <1>3, <2>1, ReplicaWords
  <1> QED
    BY <1>4, <1>5, <1>6

\* An event that comes in order tells the price; one that does not crosses another.
LEMMA ApplyWords ==
  ASSUME CallsShape, Types, OwnEvents, Words, NEW r \in Replicas, NEW i \in 1..Len(log),
         Apply(r, i), UNCHANGED <<calls, catalog, log, excused>>
  PROVE  OwnEvents' /\ Words'
  <1>1. /\ ordering \in [Replicas -> [st : {"down", "asked", "up"}, prices : [Products -> Prices],
                                      answer : [Products -> Prices]]]
        /\ told \in [Replicas -> [Products -> 0..Len(log)]]
        /\ Len(log) \in Nat /\ log \in Seq(Event)
    BY LenProperties DEF Types, ProjectionType, StreamType
  <1>2. PICK s : s = log[i].product
    OBVIOUS
  <1>3. s \in Products
    <2>1. log[i] \in Event
      BY <1>1, ElementOfSeq
    <2> QED
      BY <1>2, <2>1 DEF Event
  <1>4. /\ ordering[r].st = "up"
        /\ ordering' = [ordering EXCEPT ![r].prices[s] = log[i].price]
        /\ told' = [told EXCEPT ![r][s] = IF i < told[r][s] THEN @ ELSE i]
        /\ crossed' = IF i < told[r][s] THEN crossed \union {<<r, s>>} ELSE crossed \ {<<r, s>>}
    BY <1>2 DEF Apply, Listening
  <1>5. ASSUME NEW q \in Replicas, NEW p \in Products, q # r \/ p # s
        PROVE  /\ Charged(q, p)' = Charged(q, p)
               /\ told'[q][p] = told[q][p]
               /\ <<q, p>> \in crossed => <<q, p>> \in crossed'
    BY <1>1, <1>3, <1>4, <1>5 DEF Charged
  <1>6. ASSUME Heard(r, s)', <<r, s>> \notin crossed' PROVE LastIn(log, s, Charged(r, s)')
    <2>1. told'[r][s] = i
      BY <1>1, <1>3, <1>4, <1>6
    <2>2. Charged(r, s)' = log[i].price
      BY <1>1, <1>3, <1>4 DEF Charged
    <2>3. i \in News(log, s) /\ \A j \in News(log, s) : j <= i
      BY <1>2, <1>6, <2>1 DEF Heard, News
    <2> QED
      BY <2>2, <2>3 DEF LastIn
  <1> QED
    BY <1>3, <1>5, <1>6, ReplicaWords

LEMMA HearWords ==
  ASSUME CallsShape, Types, OwnEvents, Words, NEW r \in Replicas,
         (\E d \in Subjects : Deliver(r, d)) \/ (\E i \in unacked : Redeliver(r, i))
  PROVE  OwnEvents' /\ Words'
  <1>1. /\ UNCHANGED <<calls, catalog, log, excused>>
    BY DEF Deliver, Redeliver
  <1>2. /\ taken \in [Subjects -> 0..Len(log)]
        /\ unacked \subseteq 1..Len(log) /\ Len(log) \in Nat
    BY LenProperties DEF Types, StreamType
  <1>3. PICK i \in 1..Len(log) : Apply(r, i)
    <2>1. ASSUME NEW d \in Subjects, Deliver(r, d) PROVE \E i \in 1..Len(log) : Apply(r, i)
      <3>1. PICK i \in taken[d] + 1..Len(log) : Apply(r, i)
        BY <2>1 DEF Deliver
      <3> QED
        BY <1>2, <3>1
    <2> QED
      BY <1>2, <2>1 DEF Redeliver
  <1> QED
    BY <1>1, <1>3, ApplyWords

-----------------------------------------------------------------------------
\* The catalog

LEMMA OnlyCall ==
  ASSUME IInv, NEW p, p \notin excused, NEW n \in CallOn(p)
  PROVE  CallOn(p) = {n}
  BY DEF IInv, OneAtATime, CallOn, OnIt, ActiveOn

\* The event a product's call records.
LEMMA OneSaid ==
  ASSUME NEW s \in Subjects, NEW p \in Products, NEW x \in Prices
  PROVE  Says(<<EventOf(s, p, x)>>, p, x) /\ Mine(p, <<EventOf(s, p, x)>>)
  BY EventType DEF Says, Mine

LEMMA CatalogBeginsWords ==
  ASSUME IInv, Types, OwnEvents, Words, NEW q \in Products, FindProduct(q) \/ AddProduct(q)
  PROVE  OwnEvents' /\ Words'
  <1>0. CallsShape
    BY DEF IInv
  <1>1. PICK n, op, st, read :
          /\ n = Len(calls) + 1 /\ op \in CatalogOps /\ st \in {"begun", "saved"}
          /\ Begin(op, q, q, st, read)
          /\ \/ FindProduct(q) /\ op = "price" /\ st = "begun" /\ read = shelf[q]
             \/ AddProduct(q) /\ op = "list" /\ st = "saved" /\ read = n
    <2>1. PICK n : n = Len(calls) + 1
      OBVIOUS
    <2>2. {"price", "list"} \subseteq CatalogOps
      BY DEF CatalogOps
    <2>3. CASE FindProduct(q)
      <3>1. PICK read : read = shelf[q]
        OBVIOUS
      <3>2. Begin("price", q, q, "begun", read)
        BY <2>3, <3>1 DEF FindProduct
      <3> QED
        BY <2>1, <2>2, <2>3, <3>1, <3>2
    <2>4. CASE AddProduct(q)
      <3>1. Begin("list", q, q, "saved", n)
        BY <2>1, <2>4 DEF AddProduct
      <3> QED
        BY <2>1, <2>2, <2>4, <3>1
    <2> QED
      BY <2>3, <2>4
  <1>2. /\ Len(calls') = n
        /\ \A m \in 1..Len(calls) : calls'[m] = calls[m]
        /\ calls'[n].op = op /\ calls'[n].on = q /\ calls'[n].st = st /\ calls'[n].read = read
    <2>1. op \in DOMAIN Ops /\ q \in Names /\ st \in Stages
      BY <1>1 DEF Ops, Names, Stages, CatalogOps
    <2>2. calls'[n] = [op |-> op, on |-> q, item |-> q, st |-> st, read |-> read]
      BY <1>0, <1>1, <2>1, BeginShape
    <2> QED
      BY <1>0, <1>1, <2>1, <2>2, BeginShape
  <1>3. Len(calls) \in Nat /\ n \in 1..MaxCalls /\ n \in Prices /\ n \notin 1..Len(calls)
    <2>1. Len(calls) \in Nat /\ Len(calls) < MaxCalls /\ MaxCalls \in Nat
      BY <1>0, <1>1, CallsType, StorefrontAssumption DEF Begin
    <2> QED
      BY <1>1, <2>1 DEF Prices
  <1>4. /\ 1..Len(calls) \subseteq 1..Len(calls') /\ n \in 1..Len(calls')
        /\ \A m \in 1..Len(calls') : m \in 1..Len(calls) \/ m = n
    BY <1>1, <1>2, <1>3
  <1>5. excused \subseteq excused' /\ (q \notin excused' => CallOn(q) = {})
    BY <1>1 DEF Begin, CallOn, OnIt, ActiveOn
  <1>6. ASSUME NEW p \in Products, p # q
        PROVE CallOn(p)' = CallOn(p) /\ \A m \in CallOn(p) : calls'[m] = calls[m]
    <2>1. \A m \in 1..Len(calls') : m \in 1..Len(calls) \/ ~OnIt(m, p)'
      BY <1>2, <1>4, <1>6 DEF OnIt
    <2> QED
      BY <1>2, <1>4, <2>1, SameCalls
  <1>7. CallOn(q) = {} => CallOn(q)' = {n}
    <2>1. \A m \in 1..Len(calls) : m \in CallOn(q)' <=> m \in CallOn(q)
      BY <1>2, <1>4 DEF CallOn, Active, OnIt
    <2>2. n \in CallOn(q)'
      BY <1>1, <1>2, <1>4 DEF CallOn, Active, OnIt
    <2>3. \A m \in CallOn(q)' : m \in 1..Len(calls) \/ m = n
      BY <1>4 DEF CallOn, Active
    <2> QED
      BY <2>1, <2>2, <2>3
  <1>8. UNCHANGED <<log, projection>>
    BY DEF FindProduct, AddProduct, stream
  <1>9. \A p \in Products : \A o : Owns(p, o)' => Owns(p, o) \/ (o = n /\ p = q /\ op = "list")
    BY <1>2, <1>4 DEF Owns
  <1>10. \A m \in Active' : calls'[m].st = "pulled" => m \in Active /\ calls'[m] = calls[m]
    BY <1>1, <1>2, <1>4 DEF Active
  <1>11. CASE FindProduct(q) /\ op = "price" /\ st = "begun" /\ read = shelf[q]
    <2>1. UNCHANGED catalog
      BY <1>11 DEF FindProduct
    <2>2. OwnEvents'
      BY <1>9, <1>10, <1>11, <2>1 DEF OwnEvents, catalog
    <2>3. ASSUME NEW p \in Products, p \notin excused' PROVE Word(p)'
      <3>1. Word(p) /\ SameNews(p) /\ p \notin excused
        BY <1>5, <1>8, <2>3, NothingSaid DEF Words
      <3>2. CASE p # q
        <4>1. SameDesk(p)
          BY <1>6, <2>1, <3>2 DEF SameDesk, catalog
        <4> QED
          BY <3>1, <4>1, WordKept
      <3>3. CASE p = q
        <4>1. CallOn(p) = {} /\ CallOn(p)' = {n}
          BY <1>5, <1>7, <2>3, <3>3
        <4>2. objects[shelf[p]].events = <<>> /\ LastIn(log, p, objects[shelf[p]].price)
          BY <3>1, <4>1 DEF Word, Desk, Wire
        <4>3. Desk(p)'
          BY <1>2, <1>11, <2>1, <3>3, <4>1, <4>2 DEF Desk, catalog
        <4>4. Wire(p)' /\ Till(p)'
          BY <1>8, <2>1, <3>1, <4>2 DEF Wire, Till, Word, SameNews, catalog
        <4> QED
          BY <4>3, <4>4 DEF Word
      <3> QED
        BY <3>2, <3>3
    <2> QED
      BY <2>2, <2>3 DEF Words
  <1>12. CASE AddProduct(q) /\ op = "list" /\ st = "saved" /\ read = n
    <2>1. PICK x : x = [price |-> n, events |-> <<EventOf("added", q, n)>>]
      OBVIOUS
    <2>2. x.price = n /\ Says(x.events, q, n) /\ Mine(q, x.events)
      BY <1>3, <2>1, OneSaid DEF Subjects
    <2>3. objects' = [objects EXCEPT ![n] = x] /\ shelf' = [shelf EXCEPT ![q] = n]
      BY <1>1, <1>12, <2>1 DEF AddProduct
    <2>4. /\ objects \in [Objects -> Record] /\ shelf \in [Products -> Objects] /\ n \in Objects
          /\ \A p \in Products : Owns(p, shelf[p])
          /\ \A p \in Products : \A o : Owns(p, o) => o # n
      BY <1>3, StorefrontAssumption DEF Types, CatalogType, Objects, Owns
    <2>5. objects'[n] = x /\ \A o \in Objects : o # n => objects'[o] = objects[o]
      BY <2>3, <2>4
    <2>6. shelf'[q] = n /\ \A p \in Products : p # q => shelf'[p] = shelf[p]
      BY <2>3, <2>4
    <2>7. OwnEvents'
      <3>1. ASSUME NEW p \in Products, NEW o \in Objects, Owns(p, o)'
            PROVE Mine(p, objects'[o].events)
        <4>1. CASE Owns(p, o)
          BY <2>4, <2>5, <4>1 DEF OwnEvents
        <4>2. CASE o = n /\ p = q
          BY <2>2, <2>5, <4>2
        <4> QED
          BY <1>9, <3>1, <4>1, <4>2
      <3> QED
        BY <1>10, <3>1 DEF OwnEvents
    <2>8. ASSUME NEW p \in Products, p \notin excused' PROVE Word(p)'
      <3>1. Word(p) /\ SameNews(p) /\ p \notin excused
        BY <1>5, <1>8, <2>8, NothingSaid DEF Words
      <3>2. CASE p # q
        <4>1. SameDesk(p)
          BY <1>6, <2>4, <2>5, <2>6, <3>2 DEF SameDesk
        <4> QED
          BY <3>1, <4>1, WordKept
      <3>3. CASE p = q
        <4>1. CallOn(p) = {} /\ CallOn(p)' = {n}
          BY <1>5, <1>7, <2>8, <3>3
        <4>2. LastIn(log, p, objects[shelf[p]].price)
          BY <3>1, <4>1 DEF Word, Wire
        <4>3. objects'[shelf'[p]] = x
          BY <2>5, <2>6, <3>3
        <4>4. Desk(p)'
          BY <1>2, <1>12, <2>2, <2>6, <3>3, <4>1, <4>3 DEF Desk
        <4>5. Wire(p)'
          BY <1>2, <1>12, <4>1 DEF Wire, Pending
        <4>6. Till(p)'
          <5> SUFFICES ASSUME NEW r \in Replicas, Heard(r, p)', <<r, p>> \notin crossed'
                       PROVE LastIn(log', p, Charged(r, p)')
            BY DEF Till
          <5>1. LastIn(log, p, Charged(r, p))
            BY <3>1, <4>2 DEF Word, Till, SameNews
          <5> QED
            BY <3>1, <5>1 DEF SameNews
        <4> QED
          BY <4>4, <4>5, <4>6 DEF Word
      <3> QED
        BY <3>2, <3>3
    <2> QED
      BY <2>7, <2>8 DEF Words
  <1> QED
    BY <1>1, <1>11, <1>12

\* A call of the catalog goes on: who works on what.
Goes(n, st, read) == GotoWith(n, st, read) \/ (Goto(n, st) /\ read = calls[n].read)

LEMMA CatalogGoes ==
  ASSUME CallsShape, Types, NEW n \in Active, calls[n].op \in CatalogOps,
         NEW st \in Stages, NEW read, NEW q, q = calls[n].on, Goes(n, st, read)
  PROVE  /\ \A p : p # q => /\ CallOn(p)' = CallOn(p)
                            /\ \A m \in CallOn(p) : calls'[m] = calls[m]
         /\ \A p, o : Owns(p, o)' => Owns(p, o)
         /\ \A m \in Active' : m # n => m \in Active /\ calls'[m] = calls[m]
         /\ calls'[n].on = q /\ calls'[n].st = st /\ calls'[n].read = read
         /\ n \in CallOn(q) /\ q \in Products
         /\ CallOn(q) = {n} /\ st = "done" => CallOn(q)' = {}
         /\ CallOn(q) = {n} /\ st # "done" => CallOn(q)' = {n}
  <1>1. n \in 1..Len(calls) /\ q \in Products
    BY OnType
  <1>2. /\ Len(calls)' = Len(calls)
        /\ \A m \in 1..Len(calls) : m # n => calls'[m] = calls[m]
        /\ calls'[n].op = calls[n].op /\ calls'[n].on = q
        /\ calls'[n].st = st /\ calls'[n].read = read
    BY <1>1, MoveShape DEF Goes
  <1>3. ASSUME NEW p, p # q
        PROVE CallOn(p)' = CallOn(p) /\ \A m \in CallOn(p) : calls'[m] = calls[m]
    <2>1. \A m \in 1..Len(calls) : calls'[m] = calls[m] \/ (~OnIt(m, p) /\ ~OnIt(m, p)')
      BY <1>2, <1>3 DEF OnIt
    <2> QED
      BY <1>2, <2>1, SameCalls
  <1>4. \A p, o : Owns(p, o)' => Owns(p, o)
    BY <1>2 DEF Owns
  <1>5. \A m \in Active' : m # n => m \in Active /\ calls'[m] = calls[m]
    BY <1>2 DEF Active
  <1>6. n \in CallOn(q)
    BY DEF CallOn, OnIt
  <1>7. /\ CallOn(q) = {n} /\ st = "done" => CallOn(q)' = {}
        /\ CallOn(q) = {n} /\ st # "done" => CallOn(q)' = {n}
    <2>1. \A m : m # n => (m \in CallOn(q)' => m \in CallOn(q))
      BY <1>2 DEF CallOn, OnIt, Active
    <2>2. n \in CallOn(q)' <=> st # "done"
      BY <1>1, <1>2 DEF CallOn, OnIt, Active
    <2> QED
      BY <2>1, <2>2
  <1> QED
    BY <1>1, <1>2, <1>3, <1>4, <1>5, <1>6, <1>7

LEMMA MineAppend ==
  ASSUME NEW p, NEW es \in Seq(Event), Mine(p, es), NEW e \in Event, e.product = p
  PROVE  Mine(p, Append(es, e))
  <1>1. PICK m \in Seq(Event) : m = Append(es, e)
    BY AppendProperties
  <1>2. /\ Len(m) = Len(es) + 1 /\ Len(es) \in Nat /\ m[Len(es) + 1] = e
        /\ \A i \in 1..Len(es) : m[i] = es[i]
    BY <1>1, AppendProperties, LenProperties
  <1>3. \A i \in 1..Len(m) : i \in 1..Len(es) \/ i = Len(es) + 1
    BY <1>2
  <1> QED
    BY <1>1, <1>2, <1>3 DEF Mine

LEMMA MineTail ==
  ASSUME NEW p, NEW es \in Seq(Event), Mine(p, es), es # <<>>
  PROVE  /\ Mine(p, Tail(es)) /\ Head(es).product = p
         /\ Head(es) \in Event /\ Tail(es) \in Seq(Event)
  <1>1. PICK m \in Seq(Event) : m = Tail(es)
    BY HeadTailProperties
  <1>2. /\ Len(m) = Len(es) - 1 /\ Len(es) \in Nat \ {0} /\ Head(es) = es[1]
        /\ \A i \in 1..Len(m) : m[i] = es[i + 1]
    BY <1>1, HeadTailProperties, LenProperties, EmptySeq
  <1>3. \A i \in 1..Len(m) : i + 1 \in 1..Len(es)
    BY <1>2
  <1>4. Mine(p, m) /\ es[1].product = p /\ es[1] \in Event
    BY <1>2, <1>3, ElementOfSeq DEF Mine
  <1> QED
    BY <1>1, <1>2, <1>4

LEMMA SavePriceWords ==
  ASSUME IInv, Types, OwnEvents, Words, NEW n \in Active, SavePrice(n)
  PROVE  OwnEvents' /\ Words'
  <1>0. CallsShape
    BY DEF IInv
  <1>1. PICK q, o, x :
          /\ q = calls[n].on /\ o = calls[n].read
          /\ x = [price |-> n, events |-> Append(objects[o].events, EventOf("changed", q, n))]
    OBVIOUS
  <1>2. /\ calls[n].op = "price" /\ calls[n].st = "begun" /\ Goto(n, "saved")
        /\ calls[n].op \in CatalogOps /\ "saved" \in Stages
        /\ UNCHANGED <<log, projection, excused>>
    BY DEF SavePrice, At, CatalogOps, Stages, stream
  <1>3. /\ \A p : p # q => /\ CallOn(p)' = CallOn(p)
                           /\ \A m \in CallOn(p) : calls'[m] = calls[m]
        /\ \A p, c : Owns(p, c)' => Owns(p, c)
        /\ \A m \in Active' : m # n => m \in Active /\ calls'[m] = calls[m]
        /\ calls'[n].on = q /\ calls'[n].st = "saved" /\ calls'[n].read = o
        /\ n \in CallOn(q) /\ q \in Products
        /\ CallOn(q) = {n} => CallOn(q)' = {n}
    <2>1. Goes(n, "saved", o)
      BY <1>1, <1>2 DEF Goes
    <2>2. q = calls[n].on /\ calls[n].op \in CatalogOps /\ "saved" \in Stages
      BY <1>1, <1>2
    <2> QED
      BY <1>0, <2>1, <2>2, CatalogGoes
  <1>4. Owns(q, o) /\ o \in Objects /\ n \in Prices
        /\ objects[o].events \in Seq(Event) /\ objects[o].price \in Prices
    <2>1. Owns(q, o)
      BY <1>1, <1>2 DEF Types, CallsType2, ReadOK
    <2>2. n \in Prices
      BY <1>0, OnType DEF Prices
    <2> QED
      BY <1>0, <1>3, <2>1, <2>2, OwnsType, RecordType
  <1>5. /\ objects \in [Objects -> Record] /\ shelf \in [Products -> Objects]
        /\ \A p \in Products : Owns(p, shelf[p])
    BY DEF Types, CatalogType
  <1>6. objects' = [objects EXCEPT ![o] = x] /\ shelf' = [shelf EXCEPT ![q] = o]
    BY <1>1, <1>4, <1>5 DEF SavePrice
  <1>7. objects'[o] = x /\ \A c \in Objects : c # o => objects'[c] = objects[c]
    BY <1>4, <1>5, <1>6
  <1>8. shelf'[q] = o /\ \A p \in Products : p # q => shelf'[p] = shelf[p]
    BY <1>3, <1>5, <1>6
  <1>9. OwnEvents'
    <2>1. Mine(q, x.events)
      <3>1. EventOf("changed", q, n) \in Event /\ EventOf("changed", q, n).product = q
        BY <1>3, <1>4, EventType DEF Subjects
      <3>2. Mine(q, objects[o].events)
        BY <1>3, <1>4 DEF OwnEvents
      <3> QED
        BY <1>1, <1>4, <3>1, <3>2, MineAppend
    <2>2. ASSUME NEW p \in Products, NEW c \in Objects, Owns(p, c)'
          PROVE Mine(p, objects'[c].events)
      <3>1. Owns(p, c)
        BY <1>3, <2>2
      <3>2. CASE c # o
        BY <1>7, <3>1, <3>2 DEF OwnEvents
      <3>3. CASE c = o
        BY <1>0, <1>3, <1>4, <1>7, <2>1, <3>1, <3>3, OwnsOne
      <3> QED
        BY <3>2, <3>3
    <2>3. \A m \in Active' : calls'[m].st = "pulled" => m \in Active /\ calls'[m] = calls[m]
      BY <1>3
    <2> QED
      BY <2>2, <2>3 DEF OwnEvents
  <1>10. ASSUME NEW p \in Products, p \notin excused' PROVE Word(p)'
    <2>1. Word(p) /\ SameNews(p) /\ p \notin excused
      BY <1>2, <1>10, NothingSaid DEF Words
    <2>2. CASE p # q
      <3>1. shelf[p] # o
        BY <1>0, <1>3, <1>4, <1>5, <2>2, OwnsOne
      <3>2. SameDesk(p)
        BY <1>3, <1>5, <1>7, <1>8, <2>2, <3>1 DEF SameDesk
      <3> QED
        BY <2>1, <3>2, WordKept
    <2>3. CASE p = q
      <3>1. CallOn(p) = {n} /\ CallOn(p)' = {n}
        BY <1>3, <2>1, <2>3, OnlyCall
      <3>2. o = shelf[p] /\ objects[o].events = <<>> /\ LastIn(log, p, objects[o].price)
        BY <1>1, <1>2, <2>1, <3>1 DEF Word, Desk, Wire, Pending
      <3>3. x.price = n /\ Says(x.events, p, n)
        <4>1. Append(objects[o].events, EventOf("changed", q, n)) = <<EventOf("changed", q, n)>>
          BY <3>2
        <4>2. "changed" \in Subjects
          BY DEF Subjects
        <4> QED
          BY <1>1, <1>3, <1>4, <2>3, <4>1, <4>2, OneSaid
      <3>4. objects'[shelf'[p]] = x /\ shelf'[p] = o
        BY <1>7, <1>8, <2>3
      <3>5. Desk(p)'
        BY <1>3, <3>1, <3>3, <3>4 DEF Desk
      <3>6. Wire(p)'
        BY <1>3, <3>1 DEF Wire, Pending
      <3>7. Till(p)'
        <4> SUFFICES ASSUME NEW r \in Replicas, Heard(r, p)', <<r, p>> \notin crossed'
                     PROVE LastIn(log', p, Charged(r, p)')
          BY DEF Till
        <4>1. LastIn(log, p, Charged(r, p))
          BY <2>1, <3>2 DEF Word, Till, SameNews
        <4> QED
          BY <2>1, <4>1 DEF SameNews
      <3> QED
        BY <3>5, <3>6, <3>7 DEF Word
    <2> QED
      BY <2>2, <2>3
  <1> QED
    BY <1>9, <1>10 DEF Words

LEMMA PullWords ==
  ASSUME IInv, Types, OwnEvents, Words, NEW n \in Active, Pull(n)
  PROVE  OwnEvents' /\ Words'
  <1>0. CallsShape
    BY DEF IInv
  <1>1. PICK q, o, es : q = calls[n].on /\ o = calls[n].read /\ es = objects[o].events
    OBVIOUS
  <1>2. /\ calls[n].st = "saved" /\ GotoWith(n, "pulled", es)
        /\ calls[n].op \in CatalogOps /\ "pulled" \in Stages
        /\ UNCHANGED <<shelf, log, projection, excused>>
    BY <1>1 DEF Pull, Stages, stream
  <1>3. /\ \A p : p # q => /\ CallOn(p)' = CallOn(p)
                           /\ \A m \in CallOn(p) : calls'[m] = calls[m]
        /\ \A p, c : Owns(p, c)' => Owns(p, c)
        /\ \A m \in Active' : m # n => m \in Active /\ calls'[m] = calls[m]
        /\ calls'[n].on = q /\ calls'[n].st = "pulled" /\ calls'[n].read = es
        /\ n \in CallOn(q) /\ q \in Products
        /\ CallOn(q) = {n} => CallOn(q)' = {n}
    <2>1. Goes(n, "pulled", es)
      BY <1>2 DEF Goes
    <2> QED
      BY <1>0, <1>1, <1>2, <2>1, CatalogGoes
  <1>4. Owns(q, o) /\ o \in Objects
    <2>1. Owns(q, o)
      BY <1>1, <1>2 DEF Types, CallsType2, ReadOK
    <2> QED
      BY <1>0, <1>3, <2>1, OwnsType
  <1>5. /\ objects \in [Objects -> Record] /\ shelf \in [Products -> Objects]
        /\ \A p \in Products : Owns(p, shelf[p])
    BY DEF Types, CatalogType
  <1>6. PICK x : x = [objects[o] EXCEPT !.events = <<>>]
    OBVIOUS
  <1>7. x.events = <<>> /\ x.price = objects[o].price
    BY <1>4, <1>5, <1>6 DEF Record
  <1>8. objects'[o] = x /\ \A c \in Objects : c # o => objects'[c] = objects[c]
    BY <1>1, <1>4, <1>5, <1>6 DEF Pull
  <1>9. OwnEvents'
    <2>1. Mine(q, es)
      BY <1>1, <1>3, <1>4 DEF OwnEvents
    <2>2. \A p : Mine(p, <<>>)
      BY DEF Mine
    <2>3. ASSUME NEW p \in Products, NEW c \in Objects, Owns(p, c)'
          PROVE Mine(p, objects'[c].events)
      BY <1>3, <1>7, <1>8, <2>2, <2>3 DEF OwnEvents
    <2>4. ASSUME NEW m \in Active', calls'[m].op \in CatalogOps, calls'[m].st = "pulled"
          PROVE Mine(calls'[m].on, calls'[m].read)
      BY <1>3, <2>1, <2>4 DEF OwnEvents
    <2> QED
      BY <2>3, <2>4 DEF OwnEvents
  <1>10. ASSUME NEW p \in Products, p \notin excused' PROVE Word(p)'
    <2>1. Word(p) /\ SameNews(p) /\ p \notin excused
      BY <1>2, <1>10, NothingSaid DEF Words
    <2>2. CASE p # q
      <3>1. shelf[p] # o
        BY <1>0, <1>3, <1>4, <1>5, <2>2, OwnsOne
      <3>2. SameDesk(p)
        BY <1>2, <1>3, <1>5, <1>8, <2>2, <3>1 DEF SameDesk
      <3> QED
        BY <2>1, <3>2, WordKept
    <2>3. CASE p = q
      <3>1. CallOn(p) = {n} /\ CallOn(p)' = {n}
        BY <1>3, <2>1, <2>3, OnlyCall
      <3>2. o = shelf[p] /\ Says(es, p, objects[o].price)
        BY <1>1, <1>2, <2>1, <3>1 DEF Word, Desk
      <3>3. objects'[shelf'[p]] = x
        BY <1>2, <1>8, <3>2
      <3>4. Desk(p)'
        BY <1>3, <1>7, <3>1, <3>2, <3>3 DEF Desk
      <3>5. Wire(p)'
        <4>1. es # <<>>
          BY <3>2 DEF Says
        <4> QED
          BY <1>3, <3>1, <4>1 DEF Wire, Pending
      <3>6. Till(p)'
        BY <1>7, <2>1, <3>2, <3>3 DEF Till, Word, SameNews
      <3> QED
        BY <3>4, <3>5, <3>6 DEF Word
    <2> QED
      BY <2>2, <2>3
  <1> QED
    BY <1>9, <1>10 DEF Words

\* A call publishes an event, has none left, or gives up.
LEMMA PublishedWords ==
  ASSUME IInv, Types, OwnEvents, Words, NEW n \in Active, NEW q, NEW es, NEW st, NEW read,
         q = calls[n].on, es = calls[n].read,
         calls[n].st = "pulled", calls[n].op \in CatalogOps, st \in {"pulled", "done"},
         Goes(n, st, read),
         \/ st = "done" /\ UNCHANGED log /\ (q \in excused' \/ es = <<>>)
         \/ st = "pulled" /\ es # <<>> /\ read = Tail(es) /\ log' = Append(log, Head(es)),
         excused \subseteq excused', UNCHANGED <<objects, shelf, projection>>
  PROVE  OwnEvents' /\ Words'
  <1>0. CallsShape /\ st \in Stages
    BY DEF IInv, Stages
  <1>1. es \in Seq(Event) /\ Mine(q, es) /\ log \in Seq(Event)
    BY DEF Types, CallsType2, ReadOK, StreamType, OwnEvents
  <1>2. /\ \A p : p # q => /\ CallOn(p)' = CallOn(p)
                           /\ \A m \in CallOn(p) : calls'[m] = calls[m]
        /\ \A p, c : Owns(p, c)' => Owns(p, c)
        /\ \A m \in Active' : m # n => m \in Active /\ calls'[m] = calls[m]
        /\ calls'[n].on = q /\ calls'[n].st = st /\ calls'[n].read = read
        /\ n \in CallOn(q) /\ q \in Products
        /\ CallOn(q) = {n} /\ st = "done" => CallOn(q)' = {}
        /\ CallOn(q) = {n} /\ st # "done" => CallOn(q)' = {n}
    <2>1. n \in Active /\ q = calls[n].on /\ calls[n].op \in CatalogOps /\ Goes(n, st, read)
      OBVIOUS
    <2>2. st \in Stages
      BY <1>0
    <2>3. CallsShape /\ Types
      BY <1>0
    <2> QED
      BY ONLY <2>1, <2>2, <2>3, CatalogGoes
  <1>3. st = "pulled" => /\ Mine(q, read) /\ Head(es) \in Event /\ Head(es).product = q
    <2>1. CASE st = "pulled"
      <3>1. es # <<>> /\ read = Tail(es)
        BY <2>1
      <3> QED
        BY <1>1, <3>1, MineTail
    <2> QED
      BY <2>1
  <1>4. OwnEvents'
    <2>1. ASSUME NEW m \in Active', calls'[m].op \in CatalogOps, calls'[m].st = "pulled"
          PROVE Mine(calls'[m].on, calls'[m].read)
      BY <1>2, <1>3, <2>1 DEF OwnEvents
    <2>2. \A p \in Products, c \in Objects : Owns(p, c)' => Mine(p, objects'[c].events)
      BY <1>2 DEF OwnEvents
    <2> QED
      BY <2>1, <2>2 DEF OwnEvents
  <1>5. ASSUME NEW p \in Products, p \notin excused' PROVE Word(p)'
    <2>1. Word(p) /\ p \notin excused
      BY <1>5 DEF Words
    <2>2. CASE p # q
      <3>1. SameDesk(p)
        BY <1>2, <2>2 DEF SameDesk
      <3>2. SameNews(p)
        BY <1>3, <2>2, NothingSaid, SaidElsewhere
      <3> QED
        BY <2>1, <3>1, <3>2, WordKept
    <2>3. CASE p = q /\ st = "done"
      <3>1. CallOn(p) = {n} /\ CallOn(p)' = {} /\ es = <<>> /\ UNCHANGED log
        BY <1>2, <1>5, <2>1, <2>3, OnlyCall
      <3>2. objects[shelf[p]].events = <<>> /\ LastIn(log, p, objects[shelf[p]].price)
        BY <2>1, <3>1 DEF Word, Desk, Wire, Pending
      <3>3. Desk(p)' /\ Wire(p)'
        BY <3>1, <3>2 DEF Desk, Wire
      <3>4. SameNews(p)
        BY <3>1, NothingSaid
      <3>5. Till(p)'
        BY <2>1, <3>4 DEF Till, Word, SameNews
      <3> QED
        BY <3>3, <3>5 DEF Word
    <2>4. CASE p = q /\ st = "pulled"
      <3>1. CallOn(p) = {n} /\ CallOn(p)' = {n} /\ es # <<>> /\ log' = Append(log, Head(es))
        BY <1>2, <2>1, <2>4, OnlyCall
      <3>2. Says(es, p, objects[shelf[p]].price) /\ objects[shelf[p]].events = <<>>
        BY <2>1, <3>1 DEF Word, Desk
      <3>3. read = <<>> /\ Head(es).price = objects[shelf[p]].price
        BY <2>4, <3>2 DEF Says, EventOf
      <3>4. LastIn(log', p, objects[shelf[p]].price) /\ Len(log) + 1 \in News(log', p)
        BY <1>1, <1>3, <2>4, <3>1, <3>3, NewsOfIt
      <3>5. Desk(p)' /\ Wire(p)'
        BY <1>2, <2>4, <3>1, <3>2, <3>3, <3>4 DEF Desk, Wire
      <3>6. Till(p)'
        <4>1. \A r \in Replicas : told'[r][p] \in 0..Len(log) /\ Len(log) \in Nat
          BY LenProperties DEF Types, ProjectionType, StreamType, projection
        <4>2. \A r \in Replicas : ~Heard(r, p)'
          BY <3>4, <4>1 DEF Heard
        <4> QED
          BY <4>2 DEF Till
      <3> QED
        BY <3>5, <3>6 DEF Word
    <2> QED
      BY <2>2, <2>3, <2>4
  <1> QED
    BY <1>4, <1>5 DEF Words

LEMMA PublishWords ==
  ASSUME IInv, Types, OwnEvents, Words, NEW n \in Active, Publish(n) \/ PublishFails(n)
  PROVE  OwnEvents' /\ Words'
  <1>1. PICK q, es : q = calls[n].on /\ es = calls[n].read
    OBVIOUS
  <1>2. /\ calls[n].st = "pulled" /\ calls[n].op \in CatalogOps
        /\ UNCHANGED <<objects, shelf, projection>>
    BY DEF Publish, PublishFails, catalog
  <1>3. CASE PublishFails(n)
    <2>1. Goto(n, "done") /\ UNCHANGED log /\ excused \subseteq excused' /\ q \in excused'
      BY <1>1, <1>3 DEF PublishFails, stream
    <2>2. Goes(n, "done", es)
      BY <1>1, <2>1 DEF Goes
    <2> QED
      BY <1>1, <1>2, <2>1, <2>2, PublishedWords
  <1>4. CASE Publish(n) /\ es = <<>>
    <2>1. Goes(n, "done", es) /\ UNCHANGED <<log, excused>>
      BY <1>1, <1>4 DEF Publish, Goes
    <2> QED
      BY <1>1, <1>2, <1>4, <2>1, PublishedWords
  <1>5. CASE Publish(n) /\ es # <<>>
    <2>1. /\ Goes(n, "pulled", Tail(es)) /\ UNCHANGED excused
          /\ log' = Append(log, Head(es))
      BY <1>1, <1>5 DEF Publish, Goes
    <2> QED
      BY <1>1, <1>2, <1>5, <2>1, PublishedWords
  <1> QED
    BY <1>3, <1>4, <1>5

LEMMA RestartCatalogWords ==
  ASSUME IInv, Types, RestartCatalog
  PROVE  OwnEvents' /\ Words'
  <1>0. CallsShape
    BY DEF IInv
  <1>1. /\ objects' = [o \in Objects |-> [price |-> 0, events |-> <<>>]]
        /\ shelf' = [p \in Products |-> p] /\ KillCalls(CatalogOps)
        /\ log' = log \o Seeds /\ log \in Seq(Event)
        /\ UNCHANGED projection
    BY DEF RestartCatalog, Seeds, Types, CatalogType, StreamType
  <1>2. \A m \in Active' : calls'[m].op \notin CatalogOps
    BY <1>0, <1>1, KillShape DEF Active
  <1>3. OwnEvents'
    <2>1. \A p : Mine(p, <<>>)
      BY DEF Mine
    <2> QED
      BY <1>1, <1>2, <2>1 DEF OwnEvents
  <1>4. ASSUME NEW p \in Products PROVE Word(p)'
    <2>1. CallOn(p)' = {}
      BY <1>2 DEF CallOn, OnIt
    <2>2. p \in Objects
      BY DEF Objects
    <2>3. objects'[shelf'[p]].events = <<>> /\ objects'[shelf'[p]].price = 0
      BY <1>1, <2>2
    <2>4. LastIn(log', p, 0) /\ \E i \in News(log', p) : i > Len(log)
      BY <1>1, NewsOfSeeds
    <2>5. Desk(p)' /\ Wire(p)'
      BY <2>1, <2>3, <2>4 DEF Desk, Wire
    <2>6. Till(p)'
      <3>1. \A r \in Replicas : told'[r][p] \in 0..Len(log) /\ Len(log) \in Nat
        BY <1>1, LenProperties DEF Types, ProjectionType, projection
      <3>2. \A i \in News(log', p) : i \in Int
        BY DEF News
      <3>3. \A r \in Replicas : ~Heard(r, p)'
        BY <2>4, <3>1, <3>2 DEF Heard
      <3> QED
        BY <3>3 DEF Till
    <2> QED
      BY <2>5, <2>6 DEF Word
  <1> QED
    BY <1>3, <1>4 DEF Words

-----------------------------------------------------------------------------
LEMMA InitWords == Init => OwnEvents /\ Words
  <1> SUFFICES ASSUME Init PROVE OwnEvents /\ Words
    OBVIOUS
  <1>1. Active = {} /\ log = <<>> /\ Len(log) = 0
    BY DEF Init, Active
  <1>2. /\ objects = [o \in Objects |-> [price |-> 0, events |-> <<>>]]
        /\ shelf = [p \in Products |-> p]
    BY DEF Init, Objects
  <1>3. OwnEvents
    <2>1. \A p : Mine(p, <<>>)
      BY DEF Mine
    <2> QED
      BY <1>1, <1>2, <2>1 DEF OwnEvents
  <1>4. ASSUME NEW p \in Products PROVE Word(p)
    <2>1. CallOn(p) = {} /\ News(log, p) = {} /\ p \in Objects
      BY <1>1 DEF CallOn, News, Objects
    <2>2. LastIn(log, p, 0)
      BY <2>1 DEF LastIn
    <2>3. \A r \in Replicas : Charged(r, p) = 0
      BY DEF Init, Charged, Seeded, Empty
    <2> QED
      BY <1>2, <2>1, <2>2, <2>3 DEF Word, Desk, Wire, Till
  <1> QED
    BY <1>3, <1>4 DEF Words

LEMMA WordsStep == IInv /\ Types /\ OwnEvents /\ Words /\ [Next]_vars => OwnEvents' /\ Words'
  <1> SUFFICES ASSUME IInv, Types, OwnEvents, Words, [Next]_vars PROVE OwnEvents' /\ Words'
    OBVIOUS
  <1>0. CallsShape
    BY DEF IInv
  <1>1. CASE \/ \E e \in Emails : Register(e)
             \/ \E c \in Customers, p \in Products :
                  LoadCart("add", c, p) \/ LoadCart("remove", c, p)
             \/ \E c \in Customers : Checkout(c)
             \/ \E n \in Active : \/ SaveAccount(n) \/ SaveCart(n) \/ LoadForCheckout(n)
                                  \/ EmptyCart(n)
                                  \/ \E r \in Replicas : Place(n, r) \/ PlaceFails(n, r)
             \/ RestartCustomer \/ RestartCart
    BY <1>0, <1>1, AsideWords
  <1>2. ASSUME NEW p \in Products, FindProduct(p) \/ AddProduct(p) PROVE OwnEvents' /\ Words'
    BY <1>2, CatalogBeginsWords
  <1>3. ASSUME NEW n \in Active, SavePrice(n) \/ Pull(n) \/ Publish(n) \/ PublishFails(n)
        PROVE OwnEvents' /\ Words'
    BY <1>3, SavePriceWords, PullWords, PublishWords
  <1>4. ASSUME NEW r \in Replicas,
               (\E d \in Subjects : Deliver(r, d)) \/ (\E i \in unacked : Redeliver(r, i))
        PROVE OwnEvents' /\ Words'
    BY <1>0, <1>4, HearWords
  <1>5. ASSUME NEW r \in Replicas, AskCatalog(r) \/ Subscribe(r) \/ RestartOrdering(r)
        PROVE OwnEvents' /\ Words'
    BY <1>0, <1>5, AskWords
  <1>6. CASE RestartCatalog
    BY <1>6, RestartCatalogWords
  <1>7. CASE UNCHANGED vars
    <2>1. Quiet /\ UNCHANGED <<log, projection>>
      BY <1>7 DEF Quiet, vars, stream
    <2> QED
      BY <2>1, QuietWords
  <1> QED
    BY <1>1, <1>2, <1>3, <1>4, <1>5, <1>6, <1>7 DEF Next

LEMMA WordsSuffice == Types /\ Words => LastWordIsThePrice
  <1> SUFFICES ASSUME Types, Words, NEW r \in Replicas, NEW p \in Products \ excused,
                      ordering[r].st = "up", ActiveOn(p) = {}, <<r, p>> \notin crossed,
                      \A i \in 1..Len(log) : log[i].product = p => i <= told[r][p]
               PROVE ordering[r].prices[p] = CatalogPrices[p]
    BY DEF LastWordIsThePrice
  <1>1. CallOn(p) = {} /\ Heard(r, p) /\ Word(p) /\ log \in Seq(Event)
    BY DEF CallOn, OnIt, ActiveOn, Heard, News, Words, Types, StreamType
  <1>2. LastIn(log, p, objects[shelf[p]].price)
    BY <1>1 DEF Word, Wire
  <1>3. Charged(r, p) = objects[shelf[p]].price
    BY <1>1, <1>2, LastUnique DEF Word, Till
  <1> QED
    BY <1>3 DEF Charged, CatalogPrices

-----------------------------------------------------------------------------
\* What the steps above keep holds in every state of every behaviour.
THEOREM Invariance == Spec => [](IInv /\ Receipts)
  <1> QED
    BY InitInv, InitReceipts, StepInv, StepReceipts, PTL DEF Spec

\* The values every variable takes in every state.
THEOREM TypeCorrect == Spec => []TypeOK
  <1>1. Init => IInv /\ Receipts /\ Types
    BY InitInv, InitReceipts, InitTypes
  <1>2. (IInv /\ Receipts /\ Types) /\ [Next]_vars => (IInv /\ Receipts /\ Types)'
    BY StepInv, StepReceipts, TypesStep DEF IInv
  <1>3. IInv /\ Receipts /\ Types => TypeOK
    BY TypesSuffice DEF IInv
  <1> QED
    BY <1>1, <1>2, <1>3, PTL DEF Spec

\* Requests about one customer or e-mail that come one after the other are safe
\* (cart_service.go, customer_service.go), whatever the others do in between: one
\* account per e-mail, and what was put into a cart is there, taken out, or in the one
\* order of the checkout that emptied it.
THEOREM SerialAlwaysSafe == Spec => []SerialIsSafe
  <1>1. ASSUME IInv, Receipts, NEW c \in Customers \ excused, NEW n \in ActiveOn(c),
               At(n, "checkout", "placed")
        PROVE  \E o \in orders : /\ o.customer = c /\ o.lines = carts[c]
                                 /\ {x \in orders : x.call = n} = {o}
    <2>1. n \in 1..Len(calls) /\ calls[n].on = c /\ calls[n].read = carts[c]
      BY <1>1, CallsType DEF IInv, CartsAgree, HasCart, ActiveOn, At
    <2>2. PICK o \in orders : o.call = n /\ o.lines = calls[n].read
      BY <1>1, <2>1 DEF Receipts
    <2>3. o.customer = c /\ \A x \in orders : x.call = n <=> x = o
      BY <1>1, <2>1, <2>2 DEF Receipts, OrderedBy
    <2> QED
      BY <2>1, <2>2, <2>3
  <1>2. IInv /\ Receipts => SerialIsSafe
    BY <1>1 DEF IInv, AccountsOnce, CartsAgree, SerialIsSafe
  <1> QED
    BY <1>2, Invariance, PTL

\* A replica that has heard the last of a product charges the catalog's price
\* (product_projection.go, catalog_service.go), unless two calls on the product
\* overlapped, one of them failed to publish, or its events came out of order.
THEOREM LastWordIsAlwaysThePrice == Spec => []LastWordIsThePrice
  <1>1. Init => (IInv /\ Receipts /\ Types) /\ (OwnEvents /\ Words)
    BY InitInv, InitReceipts, InitTypes, InitWords
  <1>2. (IInv /\ Receipts /\ Types) /\ (OwnEvents /\ Words) /\ [Next]_vars
          => (IInv /\ Receipts /\ Types)' /\ (OwnEvents /\ Words)'
    BY StepInv, StepReceipts, TypesStep, WordsStep DEF IInv
  <1>3. (IInv /\ Receipts /\ Types) /\ (OwnEvents /\ Words) => LastWordIsThePrice
    BY WordsSuffice
  <1> QED
    BY <1>1, <1>2, <1>3, PTL DEF Spec
=============================================================================
