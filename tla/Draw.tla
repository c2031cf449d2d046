-------------------------------- MODULE Draw --------------------------------
(***************************************************************************)
(* What the promotion context promises to its users, with no database, no  *)
(* replicas and no transactions in sight: entrants are put in one line,    *)
(* each user stands in it at most once, and whoever is at place Target     *)
(* wins.  The win is announced in the very step that decides it.  Once     *)
(* there is a winner the event may be ended, once.                         *)
(*                                                                         *)
(* The promise says nothing about entries after the end: see               *)
(* NoEntryAfterClose in Promotion, which the code does not keep.           *)
(***************************************************************************)
EXTENDS Naturals, Sequences

CONSTANTS
    Users,      \* people who may enter
    Target,     \* the winning place
    NoUser      \* "no winner yet"

VARIABLES
    line,       \* the entrants, in the order of their places
    winner,     \* the winner, or NoUser
    announced,  \* the users a winner_determined event has been recorded for
    ended       \* the closing batch has run

drawVars == <<line, winner, announced, ended>>

InLine(u) == \E i \in 1..Len(line) : line[i] = u

Init ==
    /\ line = <<>>
    /\ winner = NoUser
    /\ announced = {}
    /\ ended = FALSE

Join(u) ==
    /\ ~InLine(u)
    /\ line' = Append(line, u)
    /\ IF Len(line) + 1 = Target
         THEN winner' = u /\ announced' = {u}
         ELSE UNCHANGED <<winner, announced>>
    /\ UNCHANGED ended

End ==
    /\ ~ended
    /\ winner # NoUser
    /\ ended' = TRUE
    /\ UNCHANGED <<line, winner, announced>>

Next == End \/ \E u \in Users : Join(u)

Spec == Init /\ [][Next]_drawVars
=============================================================================
