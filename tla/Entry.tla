-------------------------------- MODULE Entry -------------------------------
(***************************************************************************)
(* The promotion service in queue mode (INGEST=queue, two replicas in      *)
(* deploy/k8s/promotion.yaml): a request is answered 202 as soon as it is  *)
(* in the PROMOTION stream, a consumer enters the user later, the result   *)
(* is broadcast to every replica and pushed to the pages connected to it,  *)
(* and a closer ends the event under a Redis lock.                         *)
(*                                                                         *)
(* The store is Draw: Enter and MarkClosed are one step each, as under the *)
(* mutex of MemoryRepo; Promotion shows that the transactions of           *)
(* PostgresRepo implement it.  The stream is JetStream.  The event is the  *)
(* one the service seeds when it starts.                                   *)
(*                                                                         *)
(* A message that is not acknowledged is delivered again, to any replica:  *)
(* after a failed attempt, a crash or a lost acknowledgement, and - when   *)
(* the ack wait runs out - while it is still being handled.                *)
(***************************************************************************)
EXTENDS JetStream, FiniteSets

CONSTANTS
    Users, Target, NoUser,  \* as in Draw
    Keys,       \* request ids: an Idempotency-Key of the client's, or a fresh one
    KeysOf,     \* the ids a user's requests may carry
    Replicas,
    Watch,      \* <<replica, user>>: where a user has a page now and then
    Nobody,     \* no replica: the lock is free, the page is not connected
    Buffer,     \* capacity of a page's channel (4)
    MaxLog,     \* bound: messages in the stream
    MaxTrouble  \* bound: crashes, failed attempts, lost notes, and duplicate windows,
                \* ack waits and lock TTLs that run out early; less than maxDeliver
                \* (5), so that no message becomes a dead letter

VARIABLES
    stream, next, unacked,              \* the stream and its durable
    job,                                \* what each replica's consumer is doing
    seen,                               \* the request ids each replica's Guard remembers
    started,                            \* the clocks have passed starts_at
    line, winner, announced, ended,     \* the store, as in Draw
    notes,                              \* broadcasts on their way: <<replica, user>>
    pages,                              \* each user's SSE connection
    lock, batch,                        \* the Redis lock, the closer of each replica
    accepted,                           \* <<user, key>> answered 202 (history)
    refused,                            \* users a request of whom was dropped (history)
    missed,                             \* users a broadcast about whom was lost (history)
    outlived,                           \* batches whose lock expired under them (history)
    trouble

store == <<started, line, winner, announced, ended>>
durable == <<next, unacked>>
consumer == <<durable, job, seen>>
front == <<notes, pages>>
closer == <<lock, batch, outlived>>
history == <<accepted, refused, missed>>
vars == <<stream, consumer, store, front, closer, history, trouble>>

Board == INSTANCE Draw

ASSUME EntryAssumption ==
    /\ NoUser \notin Users
    /\ Nobody \notin Replicas
    /\ NoMsgId \notin Keys
    /\ Watch \subseteq Replicas \X Users
    /\ KeysOf \in [Users -> SUBSET Keys]
    /\ Target \in Nat \ {0}
    /\ Buffer \in Nat \ {0}

Watchers == {w[2] : w \in Watch}

NoJob == [seq |-> 0, st |-> "none"]
Offline == [at |-> Nobody, st |-> "closed", queued |-> 0, shown |-> "nothing"]

Message(i) == stream.log[i]

\* taken: about to ask the Guard; assigned: Enter returned a result; handled: what
\* is left is to remember the id and to acknowledge.  unseen: the page was opened
\* without its snapshot although there was a result to show.
TypeOK ==
    /\ stream \in [log : Seq([id : Keys, user : Users]), window : SUBSET Keys]
    /\ next \in 1..Len(stream.log) + 1
    /\ unacked \subseteq 1..next - 1
    /\ job \in [Replicas -> [seq : 0..next - 1,
                            st : {"none", "taken", "assigned", "handled"}]]
    /\ \A p \in Replicas : job[p].seq = 0 <=> job[p].st = "none"
    /\ seen \in [Replicas -> SUBSET Keys]
    /\ started \in BOOLEAN /\ ended \in BOOLEAN
    /\ line \in Seq(Users) /\ winner \in Users \union {NoUser}
    /\ notes \subseteq Watch
    /\ pages \in [Watchers -> [at : Replicas \union {Nobody},
                              st : {"closed", "subscribed", "open"},
                              queued : 0..Buffer,
                              shown : {"nothing", "processing", "result", "unseen"}]]
    /\ lock \in Replicas \union {Nobody}
    /\ batch \in [Replicas -> {"idle", "held", "closed"}]
    /\ accepted \subseteq Users \X Keys
    /\ refused \union missed \subseteq Users
    /\ outlived \subseteq Replicas

Init ==
    /\ stream = EmptyStream
    /\ next = 1
    /\ unacked = {}
    /\ job = [p \in Replicas |-> NoJob]
    /\ seen = [p \in Replicas |-> {}]
    /\ started = FALSE
    /\ Board!Init
    /\ notes = {}
    /\ pages = [u \in Watchers |-> Offline]
    /\ lock = Nobody
    /\ batch = [p \in Replicas |-> "idle"]
    /\ accepted = {}
    /\ refused = {}
    /\ missed = {}
    /\ outlived = {}
    /\ trouble = 0

Trouble == trouble < MaxTrouble /\ trouble' = trouble + 1

Start ==
    /\ ~started
    /\ started' = TRUE
    /\ UNCHANGED <<stream, consumer, line, winner, announced, ended, front, closer,
                   history, trouble>>

-----------------------------------------------------------------------------
\* POST /events/{eventId}/entries

\* The request is stored - or taken for a duplicate - and answered 202.  (When
\* the answer is lost the client sends the same request again.)
Enqueue(u, k) ==
    /\ Len(stream.log) < MaxLog
    /\ stream' = Store(stream, [id |-> k, user |-> u])
    /\ accepted' = accepted \union {<<u, k>>}
    /\ UNCHANGED <<consumer, store, front, closer, refused, missed, trouble>>

Forget(k) ==
    /\ Trouble
    /\ k \in stream.window
    /\ stream' = ForgetId(stream, k)
    /\ UNCHANGED <<consumer, store, front, closer, history>>

-----------------------------------------------------------------------------
\* EntryRequestedConsumer

Take(p, i) ==
    /\ job[p] = NoJob
    /\ job' = [job EXCEPT ![p] = [seq |-> i, st |-> "taken"]]
    /\ unacked' = unacked \union {i}
    /\ UNCHANGED <<stream, seen, store, front, closer, history>>

Deliver(p) ==
    /\ next <= Len(stream.log)
    /\ next' = next + 1
    /\ Take(p, next)
    /\ UNCHANGED trouble

InHand(i) == \E p \in Replicas : job[p].seq = i

Redeliver(p, i) ==
    /\ i \in unacked
    /\ IF InHand(i) THEN Trouble
       ELSE UNCHANGED trouble
    /\ Take(p, i)
    /\ UNCHANGED next

Goto(p, st) == job' = [job EXCEPT ![p].st = st]

\* Guard.Do: the id is known, the message counts as handled.
Skip(p) ==
    /\ job[p].st = "taken"
    /\ Message(job[p].seq).id \in seen[p]
    /\ Goto(p, "handled")
    /\ UNCHANGED <<stream, durable, seen, store, front, closer, history, trouble>>

Refuses == ~started \/ ended

\* Enter: refused for good (isTerminal), entered before, or entered now.
Enter(p) ==
    LET m == Message(job[p].seq)
        u == m.user
    IN  /\ job[p].st = "taken"
        /\ m.id \notin seen[p]
        /\ \/ /\ Refuses
              /\ Goto(p, "handled")
              /\ refused' = refused \union {u}
              /\ UNCHANGED <<line, winner, announced, ended>>
           \/ /\ ~Refuses
              /\ Goto(p, "assigned")
              /\ IF Board!InLine(u) THEN UNCHANGED <<line, winner, announced, ended>>
                 ELSE Board!Join(u)
              /\ UNCHANGED refused
        /\ UNCHANGED <<stream, durable, seen, started, front, closer, accepted, missed,
                       trouble>>

\* Mutant: the Guard remembers the id before it knows the outcome.
EnterFailsRemembered(p) ==
    /\ job[p].st = "taken"
    /\ Message(job[p].seq).id \notin seen[p]
    /\ Trouble
    /\ job' = [job EXCEPT ![p] = NoJob]
    /\ seen' = [seen EXCEPT ![p] = @ \union {Message(job[p].seq).id}]
    /\ UNCHANGED <<stream, durable, store, front, closer, history>>
\* Any other error of Enter: a Nak.
EnterFails(p) ==
    /\ job[p].st = "taken"
    /\ Message(job[p].seq).id \notin seen[p]
    /\ Trouble
    /\ job' = [job EXCEPT ![p] = NoJob]
    /\ UNCHANGED <<stream, durable, seen, store, front, closer, history>>

\* NotifyEntry broadcasts over core NATS: every replica that is there gets it.
\* What is sent to a replica where the user never has a page is left out.
Announce(p) ==
    LET u == Message(job[p].seq).user
    IN  /\ job[p].st = "assigned"
        /\ Goto(p, "handled")
        /\ notes' = notes \union {w \in Watch : w[2] = u}
        /\ UNCHANGED <<stream, durable, seen, store, pages, closer, history, trouble>>

\* Guard.Do remembers the id of what succeeded.
Remembered(p) == [seen EXCEPT ![p] = @ \union {Message(job[p].seq).id}]

\* The acknowledgement may come too late.
Settle(p) ==
    /\ job[p].st = "handled"
    /\ seen' = Remembered(p)
    /\ \/ unacked' = unacked \ {job[p].seq} /\ UNCHANGED trouble
       \/ Trouble /\ UNCHANGED unacked
    /\ job' = [job EXCEPT ![p] = NoJob]
    /\ UNCHANGED <<stream, next, store, front, closer, history>>

-----------------------------------------------------------------------------
\* NotifyBridge, Hub and SSEHandler

\* Mutant: a channel without bound.
PushedUnbounded(page) == [page EXCEPT !.queued = @ + 1]
Pushed(page) ==
    IF page.queued < Buffer THEN [page EXCEPT !.queued = @ + 1] ELSE page

\* The bridge of replica p hands the result to the hub.
Bridge(p, u) ==
    /\ <<p, u>> \in notes
    /\ notes' = notes \ {<<p, u>>}
    /\ pages' = IF pages[u].at = p THEN [pages EXCEPT ![u] = Pushed(@)] ELSE pages
    /\ UNCHANGED <<stream, consumer, store, closer, history, trouble>>

\* Core NATS keeps nothing: the connection was down.
LoseNote(p, u) ==
    /\ <<p, u>> \in notes
    /\ Trouble
    /\ notes' = notes \ {<<p, u>>}
    /\ missed' = missed \union {u}
    /\ UNCHANGED <<stream, consumer, store, pages, closer, accepted, refused>>

UpdatePage(u, page) ==
    /\ pages' = [pages EXCEPT ![u] = page]
    /\ UNCHANGED <<stream, consumer, store, notes, closer, history, trouble>>

Subscribe(u, p) ==
    /\ pages[u].st = "closed"
    /\ UpdatePage(u, [Offline EXCEPT !.at = p, !.st = "subscribed"])

\* Mutant: a page waits for the push.
SnapshotNone(u) ==
    /\ pages[u].st = "subscribed"
    /\ UpdatePage(u, [pages[u] EXCEPT !.st = "open"])
\* EntryOf, after the channel is registered.
Snapshot(u) ==
    /\ pages[u].st = "subscribed"
    /\ UpdatePage(u, [pages[u] EXCEPT !.st = "open",
                        !.shown = IF Board!InLine(u) THEN "result" ELSE "processing"])

\* EntryOf fails: nothing is sent, and the page stays open.
SnapshotFails(u) ==
    /\ pages[u].st = "subscribed"
    /\ Trouble
    /\ pages' = [pages EXCEPT ![u].st = "open",
                             ![u].shown = IF Board!InLine(u) THEN "unseen" ELSE @]
    /\ UNCHANGED <<stream, consumer, store, notes, closer, history>>

Receive(u) ==
    /\ pages[u].st = "open"
    /\ pages[u].queued > 0
    /\ UpdatePage(u, [pages[u] EXCEPT !.queued = @ - 1, !.shown = "result"])

Disconnect(u) ==
    /\ pages[u].st # "closed"
    /\ UpdatePage(u, Offline)

-----------------------------------------------------------------------------
\* Closer and distlock.  A tick that finds nothing to close is left out.  The
\* token is drawn for one Acquire, so only the batch that got it compares equal.

Acquire(p) ==
    /\ batch[p] = "idle"
    /\ winner # NoUser /\ ~ended
    /\ lock = Nobody
    /\ lock' = p
    /\ batch' = [batch EXCEPT ![p] = "held"]
    /\ UNCHANGED <<stream, consumer, store, front, outlived, history, trouble>>

\* MarkClosed does nothing to an event that is closed.
Close(p) ==
    /\ batch[p] = "held"
    /\ IF ended THEN UNCHANGED <<line, winner, announced, ended>> ELSE Board!End
    /\ batch' = [batch EXCEPT ![p] = "closed"]
    /\ UNCHANGED <<stream, consumer, started, front, lock, outlived, history, trouble>>

\* MarkClosed fails; the next tick tries again.
CloseFails(p) ==
    /\ batch[p] = "held"
    /\ Trouble
    /\ batch' = [batch EXCEPT ![p] = "closed"]
    /\ UNCHANGED <<stream, consumer, store, front, lock, outlived, history>>

\* Mutant: DEL without comparing the token.
UnlockedBlindly(p) == Nobody
Unlocked(p) == IF lock = p THEN Nobody ELSE lock

Release(p) ==
    /\ batch[p] = "closed"
    /\ lock' = Unlocked(p)
    /\ batch' = [batch EXCEPT ![p] = "idle"]
    /\ outlived' = outlived \ {p}
    /\ UNCHANGED <<stream, consumer, store, front, history, trouble>>

\* Mutant: SET NX without a TTL.
ExpireNever == FALSE
\* The TTL runs out: the holder is dead, or its batch took too long.
Expire ==
    /\ lock # Nobody
    /\ lock' = Nobody
    /\ IF batch[lock] = "idle" THEN UNCHANGED <<outlived, trouble>>
       ELSE /\ Trouble
            /\ outlived' = outlived \union {lock}
    /\ UNCHANGED <<stream, consumer, store, front, batch, history>>

-----------------------------------------------------------------------------
\* A replica dies and is started again, with nothing in memory.
Crash(p) ==
    /\ Trouble
    /\ job' = [job EXCEPT ![p] = NoJob]
    /\ seen' = [seen EXCEPT ![p] = {}]
    /\ batch' = [batch EXCEPT ![p] = "idle"]
    /\ outlived' = outlived \ {p}
    /\ notes' = {n \in notes : n[1] # p}
    /\ pages' = [u \in Watchers |-> IF pages[u].at = p THEN Offline ELSE pages[u]]
    /\ UNCHANGED <<stream, durable, store, lock, history>>

Work(p) ==
    \/ Deliver(p)
    \/ \E i \in unacked : Redeliver(p, i)
    \/ Skip(p) \/ Enter(p) \/ Announce(p) \/ Settle(p)

Next ==
    \/ Start
    \/ \E u \in Users : \E k \in KeysOf[u] : Enqueue(u, k)
    \/ \E k \in Keys : Forget(k)
    \/ \E p \in Replicas : Work(p) \/ EnterFails(p) \/ Crash(p)
    \/ \E w \in Watch :
        Bridge(w[1], w[2]) \/ LoseNote(w[1], w[2]) \/ Subscribe(w[2], w[1])
    \/ \E u \in Watchers : Snapshot(u) \/ SnapshotFails(u) \/ Receive(u) \/ Disconnect(u)
    \/ \E p \in Replicas : Acquire(p) \/ Close(p) \/ CloseFails(p) \/ Release(p)
    \/ Expire

Spec == Init /\ [][Next]_vars

\* Every replica's consumer and closer go on, and Redis keeps its TTLs.  Users
\* owe nothing.
Fairness ==
    /\ \A p \in Replicas : WF_vars(Work(p)) /\ WF_vars(Close(p) \/ Release(p))
    /\ WF_vars(\E p \in Replicas : Acquire(p))
    /\ WF_vars(Expire)

FairSpec == Spec /\ Fairness

-----------------------------------------------------------------------------
\* Properties

SharesKey(u) ==
    \E v \in Users \ {u} : \E k \in Keys : {<<u, k>>, <<v, k>>} \subseteq accepted

\* The user is entered, an open page still says otherwise, and the result is not on
\* its way: neither in the page's channel, nor in a broadcast, nor with a consumer,
\* nor in a message that will be delivered again.
Lost(u) ==
    /\ Board!InLine(u)
    /\ pages[u].st = "open" /\ pages[u].shown # "result"
    /\ pages[u].queued = 0
    /\ <<pages[u].at, u>> \notin notes
    /\ \A i \in unacked : Message(i).user = u => InHand(i)
    /\ \A p \in Replicas :
        job[p].st \in {"taken", "assigned"} => Message(job[p].seq).user # u

\* Core NATS did not deliver a broadcast, or a delivery was refused: before the start
\* the refusal is remembered, and then skips the redelivery that should have
\* announced what another replica did.
Excepted(u) == u \in missed \union refused \/ SharesKey(u)

\* A page never misses its result, unless it was opened without its snapshot when
\* the result was there already.
NoLostResult ==
    \A u \in Watchers : Lost(u) => Excepted(u) \/ pages[u].shown = "unseen"

\* What sse.go says of a page: the current state is sent once, right after it is
\* connected, for the result may be there already.
SnapshotIsEnough == \A u \in Watchers : Lost(u) => Excepted(u)

\* What queue.go says of isTerminal: a refusal is for good, trying again would
\* refuse again.
RefusalIsFinal == refused # {} => Refuses

\* A batch holds the lock for as long as it runs, unless its TTL ran out first:
\* nobody else releases it.  Two batches run at once only if one was too slow.
BatchHoldsLock ==
    \A p \in Replicas : batch[p] # "idle" /\ p \notin outlived => lock = p

Owed ==
    {a \in accepted : ~Board!InLine(a[1]) /\ a[1] \notin refused /\ ~SharesKey(a[1])}

\* What was answered 202 is entered in the end, or was refused because the event
\* had not started or was over - unless the request carried an id that another
\* user's request carried, too.
AcceptedIsAnswered == []<>(Owed = {})

\* A replica that dies with the lock does not keep the event open.
EndedInTheEnd == winner # NoUser ~> ended
=============================================================================
