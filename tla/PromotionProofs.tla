-------------------------- MODULE PromotionProofs ---------------------------
(***************************************************************************)
(* The safety of the promotion entry protocol, for every set of users and  *)
(* connections and every target.                                           *)
(*                                                                         *)
(* The inductive invariant is the conjunction of the properties themselves *)
(* with LockedReadsHold: places stay gapless because the transaction that  *)
(* commits place n holds the counter row since it read counter = n - 1,    *)
(* and its user still has no entry.                                        *)
(***************************************************************************)
EXTENDS Promotion, Sequences, TLAPS

IInv ==
    /\ TypeOK
    /\ Gapless
    /\ WinnerIsTarget
    /\ OutboxTruthful
    /\ AnswersStayTrue
    /\ LockedReadsHold

\* The initial tables, right after SeedEvent, satisfy the invariant.
LEMMA InitInv == Init => IInv
  <1> SUFFICES ASSUME Init PROVE IInv
    OBVIOUS
  <1> USE TargetAssumption, NoUserAssumption, NoSessionAssumption
  <1>1. TypeOK
    BY DEF Init, TypeOK, Tx, Idle, Stages, EnterStates, CloseStates, Row, Answer
  <1>2. Gapless /\ WinnerIsTarget
    BY DEF Init, Gapless, WinnerIsTarget
  <1>3. OutboxTruthful /\ AnswersStayTrue
    BY DEF Init, OutboxTruthful, AnswersStayTrue
  <1>4. LockedReadsHold
    BY DEF Init, LockedReadsHold, ReadsHold, Idle, EnterStates, CloseStates
  <1> QED
    BY <1>1, <1>2, <1>3, <1>4 DEF IInv

\* What the tables say does not depend on who is doing what: a step that leaves
\* the rows and the answers alone keeps the four properties of them.
LEMMA QuietStep ==
  ASSUME IInv, UNCHANGED <<rows, answers>>
  PROVE  Gapless' /\ WinnerIsTarget' /\ OutboxTruthful' /\ AnswersStayTrue'
  <1> USE DEF IInv, rows
  <1>1. Gapless'
    BY DEF Gapless
  <1>2. WinnerIsTarget'
    BY DEF WinnerIsTarget
  <1>3. OutboxTruthful'
    BY DEF OutboxTruthful
  <1>4. AnswersStayTrue'
    BY DEF AnswersStayTrue
  <1> QED
    BY <1>1, <1>2, <1>3, <1>4

\* The steps that touch no row and answer nobody.
LEMMA EnterLoadInv ==
  ASSUME IInv, NEW s \in Sessions, NEW u \in Users, EnterLoad(s, u)
  PROVE  IInv'
  <1>1. UNCHANGED <<rows, answers>>
    BY DEF EnterLoad, rows
  <1>2. TypeOK'
    BY DEF EnterLoad, At, Idle, IInv, TypeOK, Tx, rows, locks, Stages, EnterStates, CloseStates
  <1>3. LockedReadsHold'
    BY NoSessionAssumption DEF EnterLoad, At, Idle, IInv, TypeOK, LockedReadsHold, ReadsHold, Tx,
       rows, locks, EnterStates, CloseStates
  <1> QED
    BY <1>1, <1>2, <1>3, QuietStep DEF IInv

LEMMA EnterMissingInv ==
  ASSUME IInv, NEW s \in Sessions, EnterMissing(s)
  PROVE  IInv'
  <1>1. UNCHANGED <<rows, answers>>
    BY DEF EnterMissing, rows
  <1>2. TypeOK'
    BY DEF EnterMissing, At, Goto, IInv, TypeOK, Tx, rows, locks, Stages, EnterStates, CloseStates
  <1>3. LockedReadsHold'
    BY NoSessionAssumption DEF EnterMissing, At, Goto, IInv, TypeOK, LockedReadsHold, ReadsHold, Tx,
       rows, locks, EnterStates, CloseStates
  <1> QED
    BY <1>1, <1>2, <1>3, QuietStep DEF IInv

LEMMA EnterLockInv ==
  ASSUME IInv, NEW s \in Sessions, EnterLock(s)
  PROVE  IInv'
  <1>1. UNCHANGED <<rows, answers>>
    BY DEF EnterLock, rows
  <1>2. counter + 1 \in Nat /\ tx[s] \in Tx
    BY DEF IInv, TypeOK
  <1>3. [tx[s] EXCEPT !.pc = "locked", !.n = counter + 1] \in Tx
    BY <1>2 DEF Tx, Stages, EnterStates
  <1>4. tx' = [tx EXCEPT ![s] = [tx[s] EXCEPT !.pc = "locked", !.n = counter + 1]]
    BY DEF EnterLock, IInv, TypeOK, Tx
  <1>5. TypeOK'
    BY <1>3, <1>4 DEF EnterLock, At, IInv, TypeOK, rows
  <1>6. LockedReadsHold'
    BY NoSessionAssumption DEF EnterLock, At, CounterFree, IInv, TypeOK, LockedReadsHold, ReadsHold, Tx,
       rows, locks, EnterStates, CloseStates
  <1> QED
    BY <1>1, <1>5, <1>6, QuietStep DEF IInv

LEMMA EnterInsertInv ==
  ASSUME IInv, NEW s \in Sessions, EnterInsert(s)
  PROVE  IInv'
  <1>1. UNCHANGED <<rows, answers>>
    BY DEF EnterInsert, rows
  <1>2. TypeOK'
    BY DEF EnterInsert, At, Goto, IInv, TypeOK, Tx, rows, locks, Stages, EnterStates, CloseStates
  <1>3. LockedReadsHold'
    BY NoSessionAssumption DEF EnterInsert, At, Goto, IInv, TypeOK, LockedReadsHold, ReadsHold, Tx,
       rows, locks, EnterStates, CloseStates
  <1> QED
    BY <1>1, <1>2, <1>3, QuietStep DEF IInv

LEMMA EnterAdvanceInv ==
  ASSUME IInv, NEW s \in Sessions, EnterAdvance(s)
  PROVE  IInv'
  <1>1. UNCHANGED <<rows, answers>>
    BY DEF EnterAdvance, rows
  <1>2. TypeOK'
    BY DEF EnterAdvance, At, Goto, IInv, TypeOK, Tx, rows, locks, Stages, EnterStates, CloseStates
  <1>3. LockedReadsHold'
    BY NoSessionAssumption DEF EnterAdvance, At, Goto, IInv, TypeOK, LockedReadsHold, ReadsHold, Tx,
       rows, locks, EnterStates, CloseStates
  <1> QED
    BY <1>1, <1>2, <1>3, QuietStep DEF IInv

LEMMA EnterWinInv ==
  ASSUME IInv, NEW s \in Sessions, EnterWin(s)
  PROVE  IInv'
  <1>1. UNCHANGED <<rows, answers>>
    BY DEF EnterWin, rows
  <1>2. TypeOK'
    BY DEF EnterWin, At, Goto, IsWinner, IInv, TypeOK, Tx, rows, locks, Stages, EnterStates, CloseStates
  <1>3. LockedReadsHold'
    BY NoSessionAssumption DEF EnterWin, At, Goto, IsWinner, IInv, TypeOK, LockedReadsHold, ReadsHold, Tx,
       rows, locks, EnterStates, CloseStates
  <1> QED
    BY <1>1, <1>2, <1>3, QuietStep DEF IInv

LEMMA CloseMarkInv ==
  ASSUME IInv, NEW s \in Sessions, CloseMark(s)
  PROVE  IInv'
  <1>1. UNCHANGED <<rows, answers>>
    BY DEF CloseMark, rows
  <1>2. TypeOK'
    BY DEF CloseMark, At, Closable, IInv, TypeOK, Tx, rows, locks, Stages, EnterStates, CloseStates
  <1>3. LockedReadsHold'
    BY NoSessionAssumption DEF CloseMark, At, Closable, IInv, TypeOK, LockedReadsHold, ReadsHold, Tx,
       rows, locks, EnterStates, CloseStates
  <1> QED
    BY <1>1, <1>2, <1>3, QuietStep DEF IInv

LEMMA CloseCountInv ==
  ASSUME IInv, NEW s \in Sessions, CloseCount(s)
  PROVE  IInv'
  <1>1. UNCHANGED <<rows, answers>>
    BY DEF CloseCount, rows
  <1>2. TypeOK'
    BY DEF CloseCount, At, WinnerIsTarget, IInv, TypeOK, Tx, rows, locks, Stages, EnterStates, CloseStates
  <1>3. LockedReadsHold'
    BY NoSessionAssumption DEF CloseCount, At, WinnerIsTarget, IInv, TypeOK, LockedReadsHold, ReadsHold, Tx,
       rows, locks, EnterStates, CloseStates
  <1> QED
    BY <1>1, <1>2, <1>3, QuietStep DEF IInv

LEMMA AbortInv ==
  ASSUME IInv, NEW s \in Sessions, Abort(s)
  PROVE  IInv'
  <1>1. UNCHANGED <<rows, answers>>
    BY DEF Abort, rows
  <1>2. TypeOK'
    BY DEF Abort, Finish, Unlock, Idle, IInv, TypeOK, Tx, rows, locks, Stages, EnterStates, CloseStates
  <1>3. LockedReadsHold'
    BY NoSessionAssumption DEF Abort, Finish, Unlock, Idle, IInv, TypeOK, LockedReadsHold, ReadsHold, Tx,
       rows, locks, EnterStates, CloseStates
  <1> QED
    BY <1>1, <1>2, <1>3, QuietStep DEF IInv

LEMMA StartInv ==
  ASSUME IInv, Start
  PROVE  IInv'
  <1>1. TypeOK' /\ LockedReadsHold'
    BY DEF Start, IInv, TypeOK, LockedReadsHold, ReadsHold, rows, locks
  <1> QED
    BY <1>1, QuietStep DEF IInv, Start

-----------------------------------------------------------------------------
\* The steps that answer a caller from the entry table.

\* The winner flag of a Result agrees with the event row.
LEMMA WinnerFlag ==
  ASSUME IInv, NEW u \in Users, seqOf[u] # 0
  PROVE  IsWinner(seqOf[u]) <=> u = winner
  <1>1. IsWinner(seqOf[u]) => u = winner
    <2> HAVE IsWinner(seqOf[u])
    <2>1. counter >= Target
      BY TargetAssumption DEF IInv, TypeOK, Gapless, IsWinner
    <2>2. winner \in Users /\ seqOf[winner] = Target
      BY <2>1, TargetAssumption DEF IInv, TypeOK, WinnerIsTarget
    <2> QED
      BY <2>2 DEF IInv, Gapless, IsWinner
  <1>2. u = winner => IsWinner(seqOf[u])
    BY NoUserAssumption DEF IInv, WinnerIsTarget, IsWinner
  <1> QED
    BY <1>1, <1>2

\* Answering with the entry as it stands keeps every answer true.
LEMMA RepeatedAnswer ==
  ASSUME IInv, UNCHANGED rows,
         NEW u \in Users, seqOf[u] # 0, Reply(u, seqOf[u], TRUE)
  PROVE  /\ answers' \subseteq Answer
         /\ Gapless' /\ WinnerIsTarget' /\ OutboxTruthful' /\ AnswersStayTrue'
  <1>1. [user |-> u, seq |-> seqOf[u], winner |-> IsWinner(seqOf[u]),
         already |-> TRUE] \in Answer
    BY DEF Answer, IInv, TypeOK, IsWinner
  <1>2. answers' \subseteq Answer
    BY <1>1 DEF Reply, IInv, TypeOK
  <1>3. AnswersStayTrue'
    BY WinnerFlag DEF AnswersStayTrue, Reply, IInv, rows
  <1>4. Gapless' /\ WinnerIsTarget'
    BY DEF Gapless, WinnerIsTarget, IInv, rows
  <1>5. OutboxTruthful'
    BY DEF OutboxTruthful, IInv, rows
  <1> QED
    BY <1>2, <1>3, <1>4, <1>5

LEMMA EntryOfInv ==
  ASSUME IInv, NEW u \in Users, EntryOf(u)
  PROVE  IInv'
  <1>1. /\ answers' \subseteq Answer
        /\ Gapless' /\ WinnerIsTarget' /\ OutboxTruthful' /\ AnswersStayTrue'
    BY RepeatedAnswer DEF EntryOf
  <1>2. TypeOK' /\ LockedReadsHold'
    BY <1>1 DEF EntryOf, IInv, TypeOK, LockedReadsHold, ReadsHold, rows, locks
  <1> QED
    BY <1>1, <1>2 DEF IInv

LEMMA EnterAlreadyInv ==
  ASSUME IInv, NEW s \in Sessions, EnterAlready(s)
  PROVE  IInv'
  <1>1. tx[s].user \in Users
    BY DEF EnterAlready, At, IInv, LockedReadsHold, ReadsHold, EnterStates
  <1>2. /\ answers' \subseteq Answer
        /\ Gapless' /\ WinnerIsTarget' /\ OutboxTruthful' /\ AnswersStayTrue'
    BY <1>1, RepeatedAnswer DEF EnterAlready
  <1>3. TypeOK'
    BY <1>2 DEF EnterAlready, Finish, Idle, IInv, TypeOK, Tx, rows, locks, Stages
  <1>4. LockedReadsHold'
    BY NoSessionAssumption DEF EnterAlready, At, Finish, Idle, IInv, TypeOK,
       LockedReadsHold, ReadsHold, Tx, rows, locks, EnterStates, CloseStates
  <1> QED
    BY <1>2, <1>3, <1>4 DEF IInv

LEMMA EnterConflictInv ==
  ASSUME IInv, NEW s \in Sessions, EnterConflict(s)
  PROVE  IInv'
  <1>1. tx[s].user \in Users
    BY DEF EnterConflict, At, IInv, LockedReadsHold, ReadsHold, EnterStates
  <1>2. /\ answers' \subseteq Answer
        /\ Gapless' /\ WinnerIsTarget' /\ OutboxTruthful' /\ AnswersStayTrue'
    BY <1>1, RepeatedAnswer DEF EnterConflict
  <1>3. TypeOK'
    BY <1>2 DEF EnterConflict, Finish, Unlock, Idle, IInv, TypeOK, Tx, rows, Stages
  <1>4. LockedReadsHold'
    BY NoSessionAssumption DEF EnterConflict, At, Finish, Unlock, Idle, IInv, TypeOK,
       LockedReadsHold, ReadsHold, Tx, rows, EnterStates, CloseStates
  <1> QED
    BY <1>2, <1>3, <1>4 DEF IInv

-----------------------------------------------------------------------------
\* The commit of MarkClosed.

LEMMA CloseCommitInv ==
  ASSUME IInv, NEW s \in Sessions, CloseCommit(s)
  PROVE  IInv'
  <1> DEFINE row == [kind |-> "event_closed", user |-> tx[s].user, n |-> tx[s].n]
  <1>1. /\ ~closed /\ winner # NoUser /\ tx[s].user = winner
        /\ tx[s].n \in Target..counter
    BY DEF CloseCommit, At, IInv, LockedReadsHold, ReadsHold, CloseStates
  <1>2. outbox' = outbox \union {row}
    BY <1>1 DEF CloseCommit, WithRow, IInv, OutboxTruthful
  <1>3. row \in Row
    BY <1>1 DEF Row, IInv, TypeOK, Tx
  <1>4. TypeOK'
    BY <1>2, <1>3 DEF CloseCommit, Finish, Unlock, Idle, IInv, TypeOK, Tx, Stages
  <1>5. Gapless' /\ WinnerIsTarget' /\ AnswersStayTrue'
    BY DEF CloseCommit, IInv, Gapless, WinnerIsTarget, AnswersStayTrue
  <1>6. OutboxTruthful'
    <2>1. UNCHANGED <<winner, counter>> /\ closed'
      BY DEF CloseCommit
    <2>2. row.kind = "event_closed" /\ row.user = winner /\ row.n \in Target..counter
      BY <1>1
    <2> QED
      BY <1>1, <1>2, <2>1, <2>2 DEF IInv, OutboxTruthful
  <1>7. LockedReadsHold'
    BY NoSessionAssumption DEF CloseCommit, At, Finish, Unlock, Idle, IInv, TypeOK,
       LockedReadsHold, ReadsHold, Tx, EnterStates, CloseStates
  <1> QED
    BY <1>4, <1>5, <1>6, <1>7 DEF IInv

-----------------------------------------------------------------------------
\* The commit of Enter: the place given is the next one.

LEMMA EnterCommitInv ==
  ASSUME IInv, NEW s \in Sessions, EnterCommit(s)
  PROVE  IInv'
  <1> DEFINE u == tx[s].user
             n == tx[s].n
             row == [kind |-> "winner_determined", user |-> u, n |-> n]
             ans == [user |-> u, seq |-> n, winner |-> IsWinner(n), already |-> FALSE]
  <1>1. /\ u \in Users
        /\ n = counter + 1 /\ n \in Nat /\ n # 0
        /\ seqOf[u] = 0
        /\ counterLock = s
    BY DEF EnterCommit, At, IInv, TypeOK, LockedReadsHold, ReadsHold, EnterStates
  <1>2. /\ seqOf' = [seqOf EXCEPT ![u] = n]
        /\ counter' = n
        /\ answers' = answers \union {ans}
        /\ UNCHANGED closed
    BY DEF EnterCommit, Reply
  <1>3. /\ seqOf' \in [Users -> Nat]
        /\ seqOf'[u] = n
        /\ \A v \in Users : v # u => seqOf'[v] = seqOf[v]
    BY <1>1, <1>2 DEF IInv, TypeOK
  <1>4. IF IsWinner(n)
          THEN winner = NoUser /\ winner' = u /\ outbox' = outbox \union {row}
          ELSE UNCHANGED <<winner, outbox>>
    <2>1. CASE At(s, "advanced") /\ ~IsWinner(n)
      BY <2>1 DEF EnterCommit, At
    <2>2. CASE At(s, "won")
      <3>1. IsWinner(n)
        BY <2>2 DEF At, IInv, LockedReadsHold, ReadsHold
      <3>2. counter < Target
        BY <1>1, <3>1 DEF IsWinner, IInv, TypeOK
      <3>3. winner = NoUser
        BY <3>2 DEF IInv, WinnerIsTarget
      <3>4. ~ \E r \in outbox : r.kind = "winner_determined"
        BY <3>3 DEF IInv, OutboxTruthful
      <3> QED
        BY <2>2, <3>1, <3>3, <3>4 DEF EnterCommit, At, WithRow
    <2> QED
      BY <2>1, <2>2 DEF EnterCommit
  <1>5. Gapless'
    <2>1. \A v \in Users : seqOf'[v] <= counter'
      BY <1>1, <1>2, <1>3 DEF IInv, TypeOK, Gapless
    <2>2. \A i \in 1..counter' : \E v \in Users : seqOf'[v] = i
      <3> SUFFICES ASSUME NEW i \in 1..counter'
                   PROVE  \E v \in Users : seqOf'[v] = i
        OBVIOUS
      <3>1. CASE i = n
        BY <1>1, <1>3, <3>1
      <3>2. CASE i # n
        <4>1. i \in 1..counter
          BY <1>1, <1>2, <3>2 DEF IInv, TypeOK
        <4>2. PICK v \in Users : seqOf[v] = i
          BY <4>1 DEF IInv, Gapless
        <4>3. v # u
          BY <1>1, <4>1, <4>2
        <4> QED
          BY <1>3, <4>2, <4>3
      <3> QED
        BY <3>1, <3>2
    <2>3. \A v, w \in Users : seqOf'[v] = seqOf'[w] /\ seqOf'[v] # 0 => v = w
      <3>1. \A v \in Users : seqOf[v] # n
        BY <1>1 DEF IInv, TypeOK, Gapless
      <3> QED
        BY <1>3, <3>1 DEF IInv, Gapless
    <2> QED
      BY <2>1, <2>2, <2>3 DEF Gapless
  <1>6. WinnerIsTarget'
    <2>1. CASE IsWinner(n)
      <3>1. winner' = u /\ winner' # NoUser
        BY <1>1, <1>4, <2>1, NoUserAssumption
      <3> QED
        BY <1>1, <1>2, <1>3, <2>1, <3>1, TargetAssumption DEF WinnerIsTarget, IsWinner
    <2>2. CASE ~IsWinner(n)
      <3>1. UNCHANGED winner
        BY <1>4, <2>2
      <3>2. counter < Target <=> counter' < Target
        BY <1>1, <1>2, <2>2, TargetAssumption DEF IsWinner, IInv, TypeOK
      <3>3. winner # NoUser => seqOf'[winner] = Target
        BY <1>1, <1>3, TargetAssumption DEF IInv, TypeOK, WinnerIsTarget
      <3> QED
        BY <3>1, <3>2, <3>3 DEF IInv, WinnerIsTarget
    <2> QED
      BY <2>1, <2>2
  <1>7. OutboxTruthful'
    <2>1. \A m \in Target..counter : m \in Target..counter'
      BY <1>1, <1>2, TargetAssumption DEF IInv, TypeOK
    <2>2. CASE IsWinner(n)
      <3>1. winner = NoUser /\ winner' = u /\ u # NoUser /\ outbox' = outbox \union {row}
        BY <1>1, <1>4, <2>2, NoUserAssumption
      <3>2. outbox = {}
        <4>1. \A r \in outbox : r.user = NoUser
          BY <3>1 DEF IInv, OutboxTruthful
        <4>2. \A r \in outbox : r.user \in Users
          BY DEF IInv, TypeOK, Row
        <4> QED
          BY <4>1, <4>2, NoUserAssumption
      <3>3. ~closed /\ ~closed'
        BY <1>2, <3>2 DEF IInv, OutboxTruthful
      <3>4. row.kind = "winner_determined" /\ row.user = u /\ row.n = Target
        BY <2>2 DEF IsWinner
      <3> QED
        BY <3>1, <3>2, <3>3, <3>4 DEF OutboxTruthful
    <2>3. CASE ~IsWinner(n)
      BY <1>2, <1>4, <2>1, <2>3 DEF IInv, OutboxTruthful
    <2> QED
      BY <2>2, <2>3
  <1>8. AnswersStayTrue'
    <2> SUFFICES ASSUME NEW a \in answers'
                 PROVE  a.seq # 0 /\ a.seq = seqOf'[a.user] /\ (a.winner <=> a.user = winner')
      BY DEF AnswersStayTrue
    <2>1. CASE a = ans
      <3>1. a.user = u /\ a.seq = n /\ a.winner = IsWinner(n)
        BY <2>1
      <3>2. ~IsWinner(n) => u # winner
        BY <1>1, TargetAssumption, NoUserAssumption DEF IInv, WinnerIsTarget
      <3>3. IsWinner(n) <=> u = winner'
        BY <1>4, <3>2
      <3> QED
        BY <1>1, <1>3, <3>1, <3>3
    <2>2. CASE a \in answers
      <3>1. /\ a.user \in Users
            /\ a.seq # 0 /\ a.seq = seqOf[a.user] /\ (a.winner <=> a.user = winner)
        BY <2>2 DEF IInv, TypeOK, Answer, AnswersStayTrue
      <3>2. a.user # u
        BY <1>1, <3>1
      <3>3. a.user = winner <=> a.user = winner'
        BY <1>4, <3>1, <3>2, NoUserAssumption
      <3> QED
        BY <1>3, <3>1, <3>2, <3>3
    <2> QED
      BY <1>2, <2>1, <2>2
  <1>9. TypeOK'
    <2>1. winner' \in Users \union {NoUser}
      BY <1>1, <1>4 DEF IInv, TypeOK
    <2>2. outbox' \subseteq Row
      <3>1. row \in Row
        BY <1>1 DEF Row
      <3> QED
        BY <1>4, <3>1 DEF IInv, TypeOK
    <2>3. answers' \subseteq Answer
      <3>1. ans \in Answer
        BY <1>1 DEF Answer, IsWinner
      <3> QED
        BY <1>2, <3>1 DEF IInv, TypeOK
    <2>4. /\ started' \in BOOLEAN /\ closed' \in BOOLEAN
          /\ counterLock' \in Sessions \union {NoSession}
          /\ eventLock' \in Sessions \union {NoSession}
      BY DEF EnterCommit, Unlock, IInv, TypeOK
    <2>5. tx' \in [Sessions -> Tx]
      BY DEF EnterCommit, Finish, Idle, IInv, TypeOK, Tx, Stages
    <2> QED
      BY <1>1, <1>2, <1>3, <2>1, <2>2, <2>3, <2>4, <2>5 DEF TypeOK
  <1>10. LockedReadsHold'
    <2> SUFFICES ASSUME NEW r \in Sessions PROVE ReadsHold(r)'
      BY DEF LockedReadsHold
    <2>1. CASE r = s
      <3>1. tx'[s] = Idle /\ counterLock' # s /\ eventLock' # s
        BY NoSessionAssumption DEF EnterCommit, Finish, Unlock, IInv, TypeOK
      <3> QED
        BY <2>1, <3>1 DEF ReadsHold, Idle, EnterStates, CloseStates
    <2>2. CASE r # s
      <3>1. tx'[r] = tx[r] /\ tx[r] \in Tx
        BY <2>2 DEF EnterCommit, Finish, IInv, TypeOK
      <3>2. (counterLock' = r <=> counterLock = r) /\ (eventLock' = r <=> eventLock = r)
        BY <2>2, NoSessionAssumption DEF EnterCommit, Unlock
      <3>3. ReadsHold(r) /\ counterLock # r
        BY <1>1, <2>2 DEF IInv, LockedReadsHold
      <3>4. tx[r].pc \in CloseStates => UNCHANGED winner
        BY <1>4, <3>3 DEF ReadsHold
      <3>5. tx[r].pc = "counted" => tx[r].n \in Target..counter'
        BY <1>1, <1>2, <3>1, <3>3, TargetAssumption DEF ReadsHold, Tx, IInv, TypeOK
      <3> QED
        BY <1>2, <3>1, <3>2, <3>3, <3>4, <3>5 DEF ReadsHold, CloseStates
    <2> QED
      BY <2>1, <2>2
  <1> QED
    BY <1>5, <1>6, <1>7, <1>8, <1>9, <1>10 DEF IInv

-----------------------------------------------------------------------------
\* Every step of the protocol preserves the invariant.
THEOREM StepInv == IInv /\ [Next]_vars => IInv'
  <1> SUFFICES ASSUME IInv, [Next]_vars PROVE IInv'
    OBVIOUS
  <1>1. CASE Start
    BY <1>1, StartInv
  <1>2. CASE \E s \in Sessions, u \in Users : EnterLoad(s, u)
    BY <1>2, EnterLoadInv
  <1>3. CASE \E s \in Sessions : EnterStep(s)
    BY <1>3, EnterAlreadyInv, EnterMissingInv, EnterLockInv, EnterConflictInv,
       EnterInsertInv, EnterAdvanceInv, EnterWinInv, EnterCommitInv DEF EnterStep
  <1>4. CASE \E s \in Sessions : CloseStep(s)
    BY <1>4, CloseMarkInv, CloseCountInv, CloseCommitInv DEF CloseStep
  <1>5. CASE \E s \in Sessions : Abort(s)
    BY <1>5, AbortInv
  <1>6. CASE \E u \in Users : EntryOf(u)
    BY <1>6, EntryOfInv
  <1>7. CASE UNCHANGED vars
    <2>1. TypeOK' /\ LockedReadsHold'
      BY <1>7 DEF vars, IInv, TypeOK, LockedReadsHold, ReadsHold
    <2> QED
      BY <1>7, <2>1, QuietStep DEF vars, rows, IInv
  <1> QED
    BY <1>1, <1>2, <1>3, <1>4, <1>5, <1>6, <1>7 DEF Next

\* The invariant holds in every reachable state.
THEOREM Invariance == Spec => []IInv
  BY InitInv, StepInv, PTL DEF Spec

\* Type correctness of the tables, the locks and the transactions.
THEOREM TypeCorrect == Spec => []TypeOK
  <1>1. IInv => TypeOK
    BY DEF IInv
  <1> QED
    BY <1>1, Invariance, PTL

\* Places are 1..counter without gap or repetition, for any number of users and
\* concurrent transactions, whichever of them are rolled back.
THEOREM GaplessAlways == Spec => []Gapless
  <1>1. IInv => Gapless
    BY DEF IInv
  <1> QED
    BY <1>1, Invariance, PTL

\* There is a winner exactly from the Target-th entry on, and it is that entrant.
THEOREM WinnerAlwaysTarget == Spec => []WinnerIsTarget
  <1>1. IInv => WinnerIsTarget
    BY DEF IInv
  <1> QED
    BY <1>1, Invariance, PTL

\* The outbox rows are exactly those the tables call for.
THEOREM OutboxAlwaysTruthful == Spec => []OutboxTruthful
  <1>1. IInv => OutboxTruthful
    BY DEF IInv
  <1> QED
    BY <1>1, Invariance, PTL

\* No caller is ever told a place that does not stay its own.
THEOREM AnswersAlwaysTrue == Spec => []AnswersStayTrue
  <1>1. IInv => AnswersStayTrue
    BY DEF IInv
  <1> QED
    BY <1>1, Invariance, PTL

\* Row locks protect what was read under them until the commit.
THEOREM LocksAlwaysProtect == Spec => []LockedReadsHold
  <1>1. IInv => LockedReadsHold
    BY DEF IInv
  <1> QED
    BY <1>1, Invariance, PTL

-----------------------------------------------------------------------------
\* Promotion implements Draw.

\* The line of entrants: the mapping of Promotion!D.
Line == [i \in 1..counter |-> CHOOSE u \in Users : seqOf[u] = i]
Announced == {r.user : r \in {x \in outbox : x.kind = "winner_determined"}}

\* The user at each place of the line is the one entered with that place.
LEMMA LineFacts ==
  ASSUME IInv
  PROVE  /\ Line \in Seq(Users)
         /\ Len(Line) = counter
         /\ \A i \in 1..counter : seqOf[Line[i]] = i
  <1>1. \A i \in 1..counter : Line[i] \in Users /\ seqOf[Line[i]] = i
    BY DEF IInv, Gapless, Line
  <1>2. counter \in Nat
    BY DEF IInv, TypeOK
  <1>3. Line \in [1..counter -> Users]
    BY <1>1 DEF Line
  <1> QED
    BY <1>1, <1>2, <1>3

\* A commit of Enter is one Join.
LEMMA CommitJoins ==
  ASSUME IInv, IInv', NEW s \in Sessions, EnterCommit(s),
         NEW u \in Users, u = tx[s].user
  PROVE  D!Join(u)
  <1> DEFINE n == tx[s].n
  <1>1. /\ u \in Users /\ n = counter + 1 /\ seqOf[u] = 0
        /\ seqOf' = [seqOf EXCEPT ![u] = n] /\ counter' = n /\ UNCHANGED closed
    BY DEF EnterCommit, At, IInv, LockedReadsHold, ReadsHold, EnterStates
  <1>2. Line \in Seq(Users) /\ Len(Line) = counter /\ counter \in Nat
    BY LineFacts DEF IInv, TypeOK
  <1>3. ~ \E i \in 1..Len(Line) : Line[i] = u
    BY <1>1, <1>2, LineFacts
  <1>4. Line' = Append(Line, u)
    <2>1. /\ Line' = [i \in 1..n |-> CHOOSE v \in Users : seqOf'[v] = i]
          /\ n \in Nat
      BY <1>1, <1>2 DEF Line
    <2>2. ASSUME NEW i \in 1..n
          PROVE  (CHOOSE v \in Users : seqOf'[v] = i) = IF i <= counter THEN Line[i] ELSE u
      <3>1. PICK v \in Users : seqOf'[v] = i
        BY <1>1 DEF IInv, Gapless
      <3>2. \A w \in Users : seqOf'[w] = i => w = v
        BY <1>1, <1>2, <3>1 DEF IInv, Gapless
      <3>3. (CHOOSE w \in Users : seqOf'[w] = i) = v
        BY <3>1, <3>2
      <3>4. CASE i <= counter
        <4>1. Line[i] \in Users /\ seqOf[Line[i]] = i
          BY <1>2, <3>4, LineFacts
        <4>2. Line[i] # u
          BY <1>1, <4>1
        <4>3. seqOf'[Line[i]] = i
          BY <1>1, <4>1, <4>2 DEF IInv, TypeOK
        <4> QED
          BY <3>2, <3>3, <3>4, <4>1, <4>3
      <3>5. CASE ~(i <= counter)
        <4>1. i = n
          BY <1>1, <1>2, <3>5
        <4>2. seqOf'[u] = i
          BY <1>1, <4>1 DEF IInv, TypeOK
        <4> QED
          BY <1>1, <3>2, <3>3, <3>5, <4>2
      <3> QED
        BY <3>4, <3>5
    <2>3. Line' = [i \in 1..n |-> IF i <= counter THEN Line[i] ELSE u]
      BY <2>1, <2>2
    <2>4. Append(Line, u) = [i \in 1..n |-> IF i <= counter THEN Line[i] ELSE u]
      BY <1>1, <1>2, <2>1
    <2> QED
      BY <2>3, <2>4
  <1>5. IF counter + 1 = Target
          THEN winner' = u /\ Announced' = {u}
          ELSE UNCHANGED <<winner, Announced>>
    <2>1. CASE At(s, "advanced") /\ ~IsWinner(n)
      BY <1>1, <2>1 DEF EnterCommit, At, IsWinner, Announced
    <2>2. CASE At(s, "won")
      <3>1. counter + 1 = Target
        BY <1>1, <2>2 DEF At, IsWinner, IInv, LockedReadsHold, ReadsHold
      <3>2. winner = NoUser
        BY <1>2, <3>1 DEF IInv, WinnerIsTarget
      <3>3. winner' = u
        BY <2>2, <3>2 DEF EnterCommit, At
      <3>4. u # NoUser
        BY <1>1, NoUserAssumption
      <3>5. (\E r \in outbox' : r.kind = "winner_determined")
            /\ \A r \in outbox' : r.user = u
        BY <3>3, <3>4 DEF IInv, OutboxTruthful
      <3>6. Announced' = {u}
        BY <3>5 DEF Announced
      <3> QED
        BY <3>1, <3>3, <3>6
    <2> QED
      BY <2>1, <2>2 DEF EnterCommit
  <1> QED
    BY <1>1, <1>2, <1>3, <1>4, <1>5 DEF D!Join, D!InLine, Line, Announced

\* A commit of MarkClosed is the End.
LEMMA CommitEnds ==
  ASSUME IInv, NEW s \in Sessions, CloseCommit(s)
  PROVE  D!End
  <1>1. ~closed /\ winner # NoUser /\ closed' /\ UNCHANGED <<winner, counter, seqOf>>
    BY DEF CloseCommit, At, IInv, LockedReadsHold, ReadsHold, CloseStates
  <1>2. outbox' = outbox
             \union {[kind |-> "event_closed", user |-> tx[s].user, n |-> tx[s].n]}
    BY <1>1 DEF CloseCommit, WithRow, IInv, OutboxTruthful
  <1>3. UNCHANGED <<Line, Announced>>
    BY <1>1, <1>2 DEF Line, Announced
  <1> QED
    BY <1>1, <1>3 DEF D!End, Line, Announced

\* Promotion, with its transactions, row locks and rollbacks, implements Draw:
\* what users see is one line of distinct entrants whose Target-th wins.
THEOREM Refinement == Spec => ImplementsDraw
  <1>1. Init => D!Init
    <2> SUFFICES ASSUME Init PROVE D!Init
      OBVIOUS
    <2>1. Line = <<>> /\ Announced = {}
      BY DEF Init, Line, Announced
    <2> QED
      BY <2>1 DEF Init, D!Init, Line, Announced
  <1>2. IInv /\ IInv' /\ [Next]_vars => [D!Next]_(D!drawVars)
    <2> SUFFICES ASSUME IInv, IInv', [Next]_vars
                 PROVE  D!Next \/ UNCHANGED <<Line, winner, Announced, closed>>
      BY DEF D!drawVars, Line, Announced
    <2>1. CASE UNCHANGED rows
      BY <2>1 DEF rows, Line, Announced
    <2>2. ASSUME NEW s \in Sessions, EnterCommit(s)
          PROVE  D!Next
      <3>1. tx[s].user \in Users
        BY <2>2 DEF EnterCommit, At, IInv, LockedReadsHold, ReadsHold, EnterStates
      <3>2. PICK u \in Users : u = tx[s].user
        BY <3>1
      <3>3. D!Join(u)
        BY <2>2, <3>2, CommitJoins
      <3> QED
        BY <3>3 DEF D!Next
    <2>3. ASSUME NEW s \in Sessions, CloseCommit(s)
          PROVE  D!Next
      BY <2>3, CommitEnds DEF D!Next
    <2>4. CASE UNCHANGED vars
      BY <2>1, <2>4 DEF vars, rows
    <2>5. ASSUME NEW s \in Sessions, EnterStep(s) \/ CloseStep(s) \/ Abort(s)
          PROVE  UNCHANGED rows \/ EnterCommit(s) \/ CloseCommit(s)
      BY <2>5 DEF EnterStep, CloseStep, EnterAlready, EnterMissing, EnterLock,
         EnterConflict, EnterInsert, EnterAdvance, EnterWin, CloseMark, CloseCount, Abort
    <2> QED
      BY <2>1, <2>2, <2>3, <2>4, <2>5 DEF Next, Start, EnterLoad, EntryOf
  <1> QED
    BY <1>1, <1>2, Invariance, PTL DEF Spec, ImplementsDraw, D!Spec

-----------------------------------------------------------------------------
\* What is decided stays decided

\* A step takes no place, no winner, no closing and no recorded event back.
NothingTakenBack ==
    /\ \A u \in Users : seqOf[u] # 0 => seqOf'[u] = seqOf[u]
    /\ counter <= counter'
    /\ winner # NoUser => winner' = winner
    /\ closed => closed'
    /\ outbox \subseteq outbox'

\* Once an entry has a place, the event a winner or an end, and the outbox a row, no
\* transaction of anyone changes it: the row an insert or an UPDATE writes is the one
\* its transaction read under the lock, which nobody else has written since.
THEOREM DecisionsStand == Spec => [][NothingTakenBack]_vars
  <1>1. IInv /\ [Next]_vars => [NothingTakenBack]_vars
    <2> SUFFICES ASSUME IInv, Next PROVE NothingTakenBack
      OBVIOUS
    <2>1. counter \in Nat /\ seqOf \in [Users -> Nat]
      BY DEF IInv, TypeOK
    <2>2. CASE UNCHANGED rows
      BY <2>1, <2>2 DEF rows, NothingTakenBack
    <2>3. ASSUME NEW s \in Sessions, EnterCommit(s) PROVE NothingTakenBack
      <3>1. /\ tx[s].pc \in {"advanced", "won"} /\ ReadsHold(s)
            /\ seqOf' = [seqOf EXCEPT ![tx[s].user] = tx[s].n] /\ counter' = tx[s].n
            /\ closed' = closed
        BY <2>3 DEF EnterCommit, At, IInv, LockedReadsHold
      <3>2. tx[s].n = counter + 1 /\ seqOf[tx[s].user] = 0 /\ tx[s].user \in Users
        BY <3>1 DEF ReadsHold, EnterStates
      <3>3. \A u \in Users : seqOf[u] # 0 => seqOf'[u] = seqOf[u]
        BY <2>1, <3>1, <3>2
      <3>4. (winner # NoUser => winner' = winner) /\ outbox \subseteq outbox'
        BY <2>3 DEF EnterCommit, WithRow
      <3> QED
        BY <2>1, <3>1, <3>2, <3>3, <3>4 DEF NothingTakenBack
    <2>4. ASSUME NEW s \in Sessions, CloseCommit(s) PROVE NothingTakenBack
      BY <2>1, <2>4 DEF CloseCommit, WithRow, NothingTakenBack
    <2>5. ASSUME NEW s \in Sessions, EnterStep(s) \/ CloseStep(s) \/ Abort(s)
          PROVE  UNCHANGED rows \/ EnterCommit(s) \/ CloseCommit(s)
      BY <2>5 DEF EnterStep, CloseStep, EnterAlready, EnterMissing, EnterLock,
         EnterConflict, EnterInsert, EnterAdvance, EnterWin, CloseMark, CloseCount, Abort
    <2> QED
      BY <2>2, <2>3, <2>4, <2>5 DEF Next, Start, EnterLoad, EntryOf
  <1> QED
    BY <1>1, Invariance, PTL DEF Spec
=============================================================================
