---------------------------- MODULE OutboxRelay -----------------------------
(***************************************************************************)
(* The transactional outbox of ordering and promotion: business            *)
(* transactions insert rows, every replica runs a relay that publishes     *)
(* them (internal/ordering/infra/postgres_repo.go and outbox_relay.go;     *)
(* internal/promotion/infra/postgres_repo.go and outbox.go run the same    *)
(* loop).                                                                  *)
(*                                                                         *)
(* A relay's tick is one database transaction: it locks the oldest         *)
(* unpublished rows (SKIP LOCKED), publishes them in order until the first *)
(* failure, marks those that were published, commits.  It can die at any   *)
(* point; the marks are then lost but what reached the broker stays.       *)
(***************************************************************************)
EXTENDS JetStream, FiniteSets

CONSTANTS
    Rows,       \* the events business transactions insert
    Routed,     \* rows whose subject is in some stream's subject list
    Relays,     \* one per replica
    Limit,      \* LIMIT of the SELECT (100)
    MaxForgets  \* bound: how often the broker's duplicate window may lapse

ASSUME RoutedAssumption == Routed \subseteq Rows
ASSUME LimitAssumption == Limit \in Nat \ {0}
ASSUME BrokerAssumption == NoMsgId \notin Rows /\ MaxForgets \in Nat

VARIABLES
    status,   \* row -> none | pending (uncommitted) | ready | published | undone
    id,       \* row -> its BIGSERIAL id, taken when it is inserted
    nextId,
    held,     \* relay -> rows it has locked
    sent,     \* relay -> those of them whose publish returned nil
    halted,   \* relay -> a publish failed: no more in this tick
    stream,   \* the broker
    forgets   \* number of lapses so far

vars == <<status, id, nextId, held, sent, halted, stream, forgets>>
table == <<status, id, nextId>>

Statuses == {"none", "pending", "ready", "published", "undone"}

TypeOK ==
    /\ status \in [Rows -> Statuses]
    /\ id \in [Rows -> Nat]
    /\ nextId \in Nat
    /\ held \in [Relays -> SUBSET Rows]
    /\ sent \in [Relays -> SUBSET Rows]
    /\ halted \in [Relays -> BOOLEAN]
    /\ stream \in [log : Seq([id : Rows, row : Rows]), window : SUBSET Rows]
    /\ forgets \in 0..MaxForgets

Init ==
    /\ status = [e \in Rows |-> "none"]
    /\ id = [e \in Rows |-> 0]
    /\ nextId = 1
    /\ held = [r \in Relays |-> {}]
    /\ sent = [r \in Relays |-> {}]
    /\ halted = [r \in Relays |-> FALSE]
    /\ stream = EmptyStream
    /\ forgets = 0

-----------------------------------------------------------------------------
\* The business transactions.  A row takes its id before it is committed, so
\* rows may become visible out of the order of their ids.

Insert(e) ==
    /\ status[e] = "none"
    /\ status' = [status EXCEPT ![e] = "pending"]
    /\ id' = [id EXCEPT ![e] = nextId]
    /\ nextId' = nextId + 1
    /\ UNCHANGED <<held, sent, halted, stream, forgets>>

Commit(e) ==
    /\ status[e] = "pending"
    /\ status' = [status EXCEPT ![e] = "ready"]
    /\ UNCHANGED <<id, nextId, held, sent, halted, stream, forgets>>

Rollback(e) ==
    /\ status[e] = "pending"
    /\ status' = [status EXCEPT ![e] = "undone"]
    /\ UNCHANGED <<id, nextId, held, sent, halted, stream, forgets>>

-----------------------------------------------------------------------------
\* The relay

\* Mutant: FOR UPDATE left out, a row another relay holds is taken again.
LockableIgnoringLocks == {e \in Rows : status[e] = "ready"}
Lockable == {e \in Rows : status[e] = "ready" /\ \A r \in Relays : e \notin held[r]}

Oldest(S, n) == {e \in S : Cardinality({f \in S : id[f] < id[e]}) < n}

\* SELECT ... WHERE published_at IS NULL ORDER BY id LIMIT n FOR UPDATE SKIP LOCKED
Claim(r) ==
    /\ held[r] = {}
    /\ Lockable # {}
    /\ held' = [held EXCEPT ![r] = Oldest(Lockable, Limit)]
    /\ UNCHANGED <<table, sent, halted, stream, forgets>>

\* The row the loop is at.
Upcoming(r) == Oldest(held[r] \ sent[r], 1)

\* The row id (or dedup id) is the Nats-Msg-Id: publishing it again within the
\* window adds no message.  Mutant: an envelope without an id.
MessageNoId(e) == [id |-> NoMsgId, row |-> e]
Message(e) == [id |-> e, row |-> e]

Publish(r, e) ==
    /\ ~halted[r]
    /\ e \in Upcoming(r)
    /\ e \in Routed
    /\ stream' = Store(stream, Message(e))
    /\ sent' = [sent EXCEPT ![r] = @ \union {e}]
    /\ UNCHANGED <<table, held, halted, forgets>>

\* The publish returns an error: no broker, no stream for the subject, or the
\* acknowledgement was lost after the message had been stored.
PublishFails(r, e) ==
    /\ ~halted[r]
    /\ e \in Upcoming(r)
    /\ stream' \in {stream} \union (IF e \in Routed THEN {Store(stream, Message(e))} ELSE {})
    /\ halted' = [halted EXCEPT ![r] = TRUE]
    /\ UNCHANGED <<table, held, sent, forgets>>

\* Mutant: a halt that outlives its tick.
ReleaseStillHalted(r) ==
    /\ held' = [held EXCEPT ![r] = {}]
    /\ sent' = [sent EXCEPT ![r] = {}]
    /\ UNCHANGED halted
Release(r) ==
    /\ held' = [held EXCEPT ![r] = {}]
    /\ sent' = [sent EXCEPT ![r] = {}]
    /\ halted' = [halted EXCEPT ![r] = FALSE]

\* Mutant: the whole batch is marked, also what follows a failure.
MarkableBatch(r) == held[r]
Markable(r) == sent[r]

\* UPDATE ... SET published_at, commit: the locks go.
Mark(r) ==
    /\ held[r] # {}
    /\ halted[r] \/ sent[r] = held[r]
    /\ status' = [e \in Rows |-> IF e \in Markable(r) THEN "published" ELSE status[e]]
    /\ Release(r)
    /\ UNCHANGED <<id, nextId, stream, forgets>>

\* The replica dies, or the transaction fails.
Die(r) ==
    /\ held[r] # {}
    /\ Release(r)
    /\ UNCHANGED <<table, stream, forgets>>

-----------------------------------------------------------------------------
\* The broker forgets an id.
Forget(e) ==
    /\ e \in stream.window
    /\ forgets < MaxForgets
    /\ stream' = ForgetId(stream, e)
    /\ forgets' = forgets + 1
    /\ UNCHANGED <<table, held, sent, halted>>

Next ==
    \/ \E e \in Rows : Insert(e) \/ Commit(e) \/ Rollback(e) \/ Forget(e)
    \/ \E r \in Relays : Claim(r) \/ Mark(r) \/ Die(r)
    \/ \E r \in Relays, e \in Rows : Publish(r, e) \/ PublishFails(r, e)

Spec == Init /\ [][Next]_vars

\* Relays tick for ever; a broker that can take a message does not refuse it
\* every time, and a relay that holds rows does not die every time before it has
\* tried to publish them, nor before it commits, be it with marks or without.
Fairness ==
    \A r \in Relays :
        /\ WF_vars(Claim(r))
        /\ \A e \in Rows : SF_vars(Publish(r, e))
        /\ SF_vars(\E e \in Rows : Publish(r, e) \/ PublishFails(r, e))
        /\ SF_vars(Mark(r) /\ sent[r] = {})
        /\ SF_vars(Mark(r) /\ sent[r] # {})

FairSpec == Spec /\ Fairness

-----------------------------------------------------------------------------
\* Properties

Copies(e) == {i \in 1..Len(stream.log) : stream.log[i].row = e}
InStream(e) == Copies(e) # {}

\* A row is marked published only when its message is in the broker - no crash,
\* lost acknowledgement or halted batch makes the relay skip one - and only what a
\* business transaction committed is in the broker at all.
MarksAreTrue ==
    \A e \in Rows :
        /\ status[e] = "published" => InStream(e)
        /\ InStream(e) => status[e] \in {"ready", "published"}

\* Two relays never work on the same row ("SKIP LOCKED": each takes only rows
\* nobody holds), whatever their ticks overlap.
ExclusiveRows ==
    /\ \A r1, r2 \in Relays : held[r1] \intersect held[r2] # {} => r1 = r2
    /\ \A r \in Relays : \A e \in held[r] : status[e] = "ready"

\* Republication after a crash is harmless while the broker remembers the id:
\* a second copy needs a lapse of the duplicate window.
CopiesNeedLapse ==
    \A e \in Rows : Cardinality(Copies(e)) <= 1 + forgets

\* "Once committed, certainly published" (promotion outbox.go, ordering
\* Save): every committed row is published and marked so.
CommittedIsPublished == \A e \in Rows : status[e] = "ready" ~> status[e] = "published"

\* The same promise for the rows that have a stream to go to: one row without a
\* stream must not keep the others from being published.
RoutedIsPublished == \A e \in Routed : status[e] = "ready" ~> status[e] = "published"
=============================================================================
