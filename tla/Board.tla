------------------------------- MODULE Board -------------------------------
(***************************************************************************)
(* What leaderboard.Board promises, whatever implements it: a score per    *)
(* user, and answers in the order "higher score first, then user".         *)
(***************************************************************************)
EXTENDS Integers, Sequences, FiniteSets, Functions

CONSTANTS
  Users,   \* user ids; numbers, so that they have an order
  Scores,  \* scores a user may be given
  MaxN     \* bound: largest argument of TopN, which may be negative

VARIABLES
  score,   \* score of each user on the board
  answer   \* what the last operation returned

Entry == [User : Users, Score : Scores]

Before(a, b) == a.Score > b.Score \/ (a.Score = b.Score /\ a.User < b.User)

Standing == {[User |-> u, Score |-> score[u]] : u \in DOMAIN score}

(* The whole board in order: an entry's place is one more than the number  *)
(* of entries before it.                                                   *)
Ranking ==
  LET place(e) == 1 + Cardinality({x \in Standing : Before(x, e)})
  IN  [i \in 1 .. Cardinality(Standing) |-> CHOOSE e \in Standing : place(e) = i]

Init == score = [u \in {} |-> 0] /\ answer = <<>>

Update(u, s) ==
  /\ score' = [x \in DOMAIN score \cup {u} |-> IF x = u THEN s ELSE score[x]]
  /\ answer' = <<>>

Remove(u) ==
  /\ score' = Restrict(score, DOMAIN score \ {u})
  /\ answer' = <<>>

TopN(n) ==
  /\ answer' = [i \in 1 .. IF n < Len(Ranking) THEN n ELSE Len(Ranking) |-> Ranking[i]]
  /\ UNCHANGED score

Get(u) ==
  /\ answer' = IF u \in DOMAIN score THEN <<[User |-> u, Score |-> score[u]]>> ELSE <<>>
  /\ UNCHANGED score

Next ==
  \/ \E u \in Users : Remove(u) \/ Get(u) \/ \E s \in Scores : Update(u, s)
  \/ \E n \in -1 .. MaxN : TopN(n)

Spec == Init /\ [][Next]_<<score, answer>>
=============================================================================
