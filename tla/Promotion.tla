----------------------------- MODULE Promotion ------------------------------
(***************************************************************************)
(* The promotion context over PostgreSQL                                   *)
(* (internal/promotion/infra/postgres_repo.go): Enter hands out gapless    *)
(* places and decides the winner, MarkClosed ends the event, both write    *)
(* their events to the outbox table in the same transaction.               *)
(*                                                                         *)
(* The module is about one event: its promotion_event and                  *)
(* promotion_counter rows, its promotion_entry rows and the (at most two)  *)
(* outbox rows it writes.  Events share no other row.                      *)
(*                                                                         *)
(* A session is a pooled connection of any replica; it runs one            *)
(* transaction at a time, one action per SQL statement (READ COMMITTED:    *)
(* each statement sees what is committed when it runs).  What a            *)
(* transaction has written is invisible until its commit, so it is kept in *)
(* tx[s] and applied by the commit action; Abort (an error return, the     *)
(* deferred Rollback, the death of the replica) drops it and the locks.    *)
(* A request that is refused (not started, closed) or a MarkClosed that    *)
(* finds nothing to do rolls back an empty transaction and is no step.     *)
(***************************************************************************)
EXTENDS Naturals

CONSTANTS
    Users,      \* user ids
    Sessions,   \* database connections, over all replicas
    Target,     \* promotion_event.target_seq
    NoUser,     \* SQL NULL in promotion_event.winner_user_id
    NoSession   \* nobody holds the row lock

ASSUME TargetAssumption == Target \in Nat \ {0}
ASSUME NoUserAssumption == NoUser \notin Users
ASSUME NoSessionAssumption == NoSession \notin Sessions

VARIABLES
    started,      \* the replicas' clocks have passed promotion_event.starts_at
    closed,       \* promotion_event.closed_at IS NOT NULL
    winner,       \* promotion_event.winner_user_id
    counter,      \* promotion_counter.cnt
    seqOf,        \* promotion_entry: user -> seq, 0 when there is no row
    outbox,       \* promotion_outbox rows of this event
    counterLock,  \* session holding the FOR UPDATE lock of the counter row
    eventLock,    \* session holding the lock of the event row (an UPDATE)
    tx,           \* what each session is doing
    answers       \* every Result returned to a caller so far (history)

vars == <<started, closed, winner, counter, seqOf, outbox,
          counterLock, eventLock, tx, answers>>
rows == <<closed, winner, counter, seqOf, outbox>>
locks == <<counterLock, eventLock>>

-----------------------------------------------------------------------------
\* Where a session is: between requests; Enter after loading the event, after
\* finding no entry, holding the counter row, having inserted the entry, having
\* written the counter, having also written the winner; MarkClosed after its
\* UPDATE, after counting the entries.
EnterStates == {"loaded", "missing", "locked", "inserted", "advanced", "won"}
CloseStates == {"closing", "counted"}
Stages == {"idle"} \union EnterStates \union CloseStates

\* user: who enters, or the winner MarkClosed read.
\* n: the place about to be given, or the total MarkClosed read.
Tx == [pc : Stages, user : Users \union {NoUser}, n : Nat]
Idle == [pc |-> "idle", user |-> NoUser, n |-> 0]

\* An outbox row.  n is Seq of WinnerDetermined, TotalEntries of EventClosed.
Row == [kind : {"winner_determined", "event_closed"}, user : Users, n : Nat]
Answer == [user : Users, seq : Nat, winner : BOOLEAN, already : BOOLEAN]

TypeOK ==
    /\ started \in BOOLEAN
    /\ closed \in BOOLEAN
    /\ winner \in Users \union {NoUser}
    /\ counter \in Nat
    /\ seqOf \in [Users -> Nat]
    /\ outbox \subseteq Row
    /\ counterLock \in Sessions \union {NoSession}
    /\ eventLock \in Sessions \union {NoSession}
    /\ tx \in [Sessions -> Tx]
    /\ answers \subseteq Answer

\* SeedEvent: the event row and a counter at 0, written once (ON CONFLICT DO
\* NOTHING), before the service takes requests.
Init ==
    /\ started = FALSE
    /\ closed = FALSE
    /\ winner = NoUser
    /\ counter = 0
    /\ seqOf = [u \in Users |-> 0]
    /\ outbox = {}
    /\ counterLock = NoSession
    /\ eventLock = NoSession
    /\ tx = [s \in Sessions |-> Idle]
    /\ answers = {}

\* Time passes starts_at.
Start ==
    /\ ~started
    /\ started' = TRUE
    /\ UNCHANGED <<rows, locks, tx, answers>>

-----------------------------------------------------------------------------
\* Helpers

At(s, pc) == tx[s].pc = pc
Goto(s, pc) == tx' = [tx EXCEPT ![s].pc = pc]
Finish(s) == tx' = [tx EXCEPT ![s] = Idle]
\* Mutant: a rollback that leaves the event row locked.
UnlockCounterOnly(s) ==
    /\ counterLock' = IF counterLock = s THEN NoSession ELSE counterLock
    /\ UNCHANGED eventLock
Unlock(s) ==
    /\ counterLock' = IF counterLock = s THEN NoSession ELSE counterLock
    /\ eventLock' = IF eventLock = s THEN NoSession ELSE eventLock

\* Event.IsWinner; the SQL adapter compares with target_seq itself.
\* Mutant: places counted from 0.
IsWinnerFromZero(seq) == seq = Target + 1
IsWinner(seq) == seq = Target

\* The Result for an entry at place n.
Reply(u, n, already) ==
    answers' = answers \union
        {[user |-> u, seq |-> n, winner |-> IsWinner(n), already |-> already]}

\* Mutants: one dedup id for both kinds; the event is left to a later publish.
WithOneRow(kind, u, n) ==
    IF outbox # {} THEN outbox ELSE {[kind |-> kind, user |-> u, n |-> n]}
WithNoRow(kind, u, n) == outbox

\* INSERT ... ON CONFLICT (dedup_id) DO NOTHING: the dedup id names the kind
\* and the event, so there is one row of each kind.
WithRow(kind, u, n) ==
    IF \E r \in outbox : r.kind = kind
      THEN outbox
      ELSE outbox \union {[kind |-> kind, user |-> u, n |-> n]}

-----------------------------------------------------------------------------
\* Enter

\* The event row is read without a lock: what is decided here about closed may
\* be out of date by the time the transaction commits.
EnterLoad(s, u) ==
    /\ At(s, "idle")
    /\ started
    /\ ~closed
    /\ tx' = [tx EXCEPT ![s] = [pc |-> "loaded", user |-> u, n |-> 0]]
    /\ UNCHANGED <<started, rows, locks, answers>>

\* SELECT seq FROM promotion_entry: the user has an entry, which is the answer.
EnterAlready(s) ==
    /\ At(s, "loaded")
    /\ seqOf[tx[s].user] # 0
    /\ Reply(tx[s].user, seqOf[tx[s].user], TRUE)
    /\ Finish(s)
    /\ UNCHANGED <<started, rows, locks>>

EnterMissing(s) ==
    /\ At(s, "loaded")
    /\ seqOf[tx[s].user] = 0
    /\ Goto(s, "missing")
    /\ UNCHANGED <<started, rows, locks, answers>>

\* Mutant: SELECT cnt without FOR UPDATE.
CounterUnguarded == TRUE
CounterFree == counterLock = NoSession

\* SELECT cnt ... FOR UPDATE waits for the row, then reads its latest value.
EnterLock(s) ==
    /\ At(s, "missing")
    /\ CounterFree
    /\ counterLock' = s
    /\ tx' = [tx EXCEPT ![s].pc = "locked", ![s].n = counter + 1]
    /\ UNCHANGED <<started, rows, eventLock, answers>>

\* Mutants: the counter is advanced before the insert is known to succeed; the
\* place that was about to be given is the answer.
EnterConflictCounting(s) ==
    /\ At(s, "locked")
    /\ seqOf[tx[s].user] # 0
    /\ counter' = tx[s].n
    /\ Reply(tx[s].user, seqOf[tx[s].user], TRUE)
    /\ Finish(s)
    /\ Unlock(s)
    /\ UNCHANGED <<started, closed, winner, seqOf, outbox>>
EnterConflictNewPlace(s) ==
    /\ At(s, "locked")
    /\ seqOf[tx[s].user] # 0
    /\ Reply(tx[s].user, tx[s].n, TRUE)
    /\ Finish(s)
    /\ Unlock(s)
    /\ UNCHANGED <<started, rows>>

\* INSERT ... ON CONFLICT DO NOTHING affected no row: the same user was entered
\* by another transaction.  The answer is that entry, the counter is left alone.
EnterConflict(s) ==
    /\ At(s, "locked")
    /\ seqOf[tx[s].user] # 0
    /\ Reply(tx[s].user, seqOf[tx[s].user], TRUE)
    /\ Finish(s)
    /\ Unlock(s)
    /\ UNCHANGED <<started, rows>>

\* The insert succeeds (UNIQUE (event_id, seq) would fail it otherwise, and the
\* transaction could only abort).
EnterInsert(s) ==
    /\ At(s, "locked")
    /\ seqOf[tx[s].user] = 0
    /\ \A u \in Users : seqOf[u] # tx[s].n
    /\ Goto(s, "inserted")
    /\ UNCHANGED <<started, rows, locks, answers>>

\* UPDATE promotion_counter SET cnt = next.
EnterAdvance(s) ==
    /\ At(s, "inserted")
    /\ Goto(s, "advanced")
    /\ UNCHANGED <<started, rows, locks, answers>>

\* UPDATE promotion_event SET winner_user_id waits for the event row.
EnterWin(s) ==
    /\ At(s, "advanced")
    /\ IsWinner(tx[s].n)
    /\ eventLock = NoSession
    /\ eventLock' = s
    /\ Goto(s, "won")
    /\ UNCHANGED <<started, rows, counterLock, answers>>

\* The entry, the counter and, for the winner, the event row (only if it has no
\* winner yet) and the outbox row become visible at once.
EnterCommit(s) ==
    LET u == tx[s].user
        n == tx[s].n
    IN  /\ \/ /\ At(s, "advanced")
              /\ ~IsWinner(n)
              /\ UNCHANGED <<winner, outbox>>
           \/ /\ At(s, "won")
              /\ winner' = IF winner = NoUser THEN u ELSE winner
              /\ outbox' = WithRow("winner_determined", u, n)
        /\ seqOf' = [seqOf EXCEPT ![u] = n]
        /\ counter' = n
        /\ Reply(u, n, FALSE)
        /\ Finish(s)
        /\ Unlock(s)
        /\ UNCHANGED <<started, closed>>

\* GET .../entries/me, with no transaction: one statement.
EntryOf(u) ==
    /\ seqOf[u] # 0
    /\ Reply(u, seqOf[u], TRUE)
    /\ UNCHANGED <<started, rows, locks, tx>>

-----------------------------------------------------------------------------
\* MarkClosed

\* Mutant: the end does not wait for a winner.
ClosableAnyTime == ~closed
Closable == ~closed /\ winner # NoUser

\* UPDATE ... WHERE closed_at IS NULL AND winner_user_id IS NOT NULL RETURNING
\* winner_user_id.  The row stays locked until the transaction ends.
CloseMark(s) ==
    /\ At(s, "idle")
    /\ Closable
    /\ eventLock = NoSession
    /\ eventLock' = s
    /\ tx' = [tx EXCEPT ![s] = [pc |-> "closing", user |-> winner, n |-> 0]]
    /\ UNCHANGED <<started, rows, counterLock, answers>>

\* SELECT cnt, without a lock: entries may still be committed after it.
CloseCount(s) ==
    /\ At(s, "closing")
    /\ tx' = [tx EXCEPT ![s].pc = "counted", ![s].n = counter]
    /\ UNCHANGED <<started, rows, locks, answers>>

CloseCommit(s) ==
    /\ At(s, "counted")
    /\ closed' = TRUE
    /\ outbox' = WithRow("event_closed", tx[s].user, tx[s].n)
    /\ Finish(s)
    /\ Unlock(s)
    /\ UNCHANGED <<started, winner, counter, seqOf, answers>>

-----------------------------------------------------------------------------
\* An error return, a cancelled request, a crashed replica: rollback.
Abort(s) ==
    /\ tx[s] # Idle
    /\ Finish(s)
    /\ Unlock(s)
    /\ UNCHANGED <<started, rows, answers>>

EnterStep(s) ==
    \/ EnterAlready(s)
    \/ EnterMissing(s)
    \/ EnterLock(s)
    \/ EnterConflict(s)
    \/ EnterInsert(s)
    \/ EnterAdvance(s)
    \/ EnterWin(s)
    \/ EnterCommit(s)

\* Closer.tryClose first asks for a Redis lock.  Without Redis there is none, and
\* with it the lock may expire during the batch, so any session may try.
CloseStep(s) == CloseMark(s) \/ CloseCount(s) \/ CloseCommit(s)

Next ==
    \/ Start
    \/ \E s \in Sessions, u \in Users : EnterLoad(s, u)
    \/ \E s \in Sessions : EnterStep(s) \/ CloseStep(s) \/ Abort(s)
    \/ \E u \in Users : EntryOf(u)

Spec == Init /\ [][Next]_vars

\* A transaction that can go on does go on; the closer of every replica ticks
\* for ever, and a batch that is tried again and again is not rolled back every
\* time.  Users owe nothing: EnterLoad has no fairness.
Fairness ==
    \A s \in Sessions :
        /\ WF_vars(EnterStep(s))
        /\ SF_vars(CloseMark(s))
        /\ SF_vars(CloseCount(s))
        /\ SF_vars(CloseCommit(s))

FairSpec == Spec /\ Fairness

-----------------------------------------------------------------------------
\* Properties

\* Places are handed out without a gap and without a repetition, whatever
\* transactions were rolled back, refused or repeated: the entries' places are
\* exactly 1..counter (the claim of the comment on Enter).
Gapless ==
    /\ \A u \in Users : seqOf[u] <= counter
    /\ \A i \in 1..counter : \E u \in Users : seqOf[u] = i
    /\ \A u, v \in Users : seqOf[u] = seqOf[v] /\ seqOf[u] # 0 => u = v

\* The winner is decided by the Target-th entry and by nothing else: there is
\* one as soon as Target users are entered, and it is the one at that place.
WinnerIsTarget ==
    /\ winner = NoUser <=> counter < Target
    /\ winner # NoUser => seqOf[winner] = Target

\* The outbox tells what the tables say: winner_determined is there exactly
\* when there is a winner and names it, event_closed exactly when the event is
\* closed, with that winner and a total of entries that were really made.
OutboxTruthful ==
    /\ winner # NoUser <=> \E r \in outbox : r.kind = "winner_determined"
    /\ closed <=> \E r \in outbox : r.kind = "event_closed"
    /\ \A r \in outbox :
        /\ r.user = winner
        /\ r.kind = "winner_determined" => r.n = Target
        /\ r.kind = "event_closed" => r.n \in Target..counter

\* What a transaction read under a row lock is still so when it acts on it: the
\* place it is about to give is the next one and its user still has none, the
\* event it is about to close is open and its winner is the one it read.  Each
\* lock is held by exactly the transactions that rely on it.
ReadsHold(s) ==
    /\ counterLock = s <=> tx[s].pc \in {"locked", "inserted", "advanced", "won"}
    /\ eventLock = s <=> tx[s].pc \in {"won", "closing", "counted"}
    /\ tx[s].pc \in EnterStates => tx[s].user \in Users
    /\ counterLock = s => tx[s].n = counter + 1
    /\ tx[s].pc \in {"inserted", "advanced", "won"} => seqOf[tx[s].user] = 0
    /\ tx[s].pc = "won" => IsWinner(tx[s].n)
    /\ tx[s].pc \in CloseStates =>
          ~closed /\ winner # NoUser /\ tx[s].user = winner
    /\ tx[s].pc = "counted" => tx[s].n \in Target..counter
LockedReadsHold == \A s \in Sessions : ReadsHold(s)

\* What a caller has been told stays true: any Result ever returned, fresh or
\* repeated, through Enter or EntryOf, is the user's entry as it stands now.
\* Two retries of one request can not be told different places.
AnswersStayTrue ==
    \A a \in answers :
        /\ a.seq # 0
        /\ a.seq = seqOf[a.user]
        /\ a.winner <=> a.user = winner

\* A winner's event is closed in the end, whichever replica dies meanwhile.
ClosedInTheEnd == winner # NoUser ~> closed

\* "A closed event accepts no more entries" (domain/errors.go, ErrClosed).  The
\* code checks closed_at before it waits for the counter row, so it does.
NoEntryAfterClose == [][closed => counter' = counter]_vars

\* The transactions, locks and refused requests above implement Draw.
D == INSTANCE Draw WITH
        line <- [i \in 1..counter |-> CHOOSE u \in Users : seqOf[u] = i],
        announced <- {r.user : r \in {x \in outbox : x.kind = "winner_determined"}},
        ended <- closed
ImplementsDraw == D!Spec
=============================================================================
