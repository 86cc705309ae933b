------------------------------ MODULE SkipList ------------------------------
(***************************************************************************)
(* leaderboard.SkipList.  Every operation holds the mutex from its first   *)
(* to its last step, so each is one action.  A node is a number, HeadNode  *)
(* is the list's first node and Nil the nil pointer; a node that nothing   *)
(* points to any more is garbage and may be allocated again.               *)
(***************************************************************************)
EXTENDS Integers, Sequences, FiniteSets, Functions

CONSTANTS Users, Scores, MaxN,
  MaxLevel,  \* maxLevel, 16 in the code
  NodeIds    \* bound: nodes there is room for, positive numbers

ASSUME SkipListAssumption ==
  /\ MaxLevel \in Nat \ {0}
  /\ NodeIds \subseteq Nat \ {0}
  /\ IsFiniteSet(NodeIds)
  /\ Users \subseteq Nat
  /\ Scores \subseteq Int /\ MaxN \in Nat
  /\ IsFiniteSet(Users) /\ Cardinality(Users) <= Cardinality(NodeIds)

HeadNode == 0
Nil      == -1
Levels   == 0 .. MaxLevel - 1

VARIABLES
  list,   \* the structure: nodes, lvl, byUser
  answer  \* what the last operation returned

vars == <<list, answer>>

NewNode(e) == [e |-> e, next |-> [i \in Levels |-> Nil]]

Free == NewNode([User |-> Nil, Score |-> 0])

NewSkipList ==
  [node |-> [x \in NodeIds \cup {HeadNode} |-> Free], lvl |-> 1, byUser |-> [u \in {} |-> Nil]]

-----------------------------------------------------------------------------
(* A bug: the score alone decides, so ties have no order.                  *)
LessByScore(a, b) == a.Score > b.Score

less(a, b) == IF a.Score = b.Score THEN a.User < b.User ELSE a.Score > b.Score

(* Where the inner loop stops on level i when it starts at node c.         *)
Forward(L, e, i, c) ==
  LET at[x \in DOMAIN L.node] ==
        LET n == L.node[x].next[i]
        IN  IF n # Nil /\ less(L.node[n].e, e) THEN at[n] ELSE x
  IN  at[c]

(* The array update of both searches, for the levels below L.lvl.          *)
Search(L, e) ==
  LET from[i \in 0 .. L.lvl] ==
        IF i = L.lvl THEN HeadNode ELSE Forward(L, e, i, from[i + 1])
  IN  [i \in 0 .. L.lvl - 1 |-> from[i]]

(* A bug: the node stays linked on the upper levels.                       *)
UnlinkBottom(L, update, target) ==
  [L.node EXCEPT ![update[0]].next[0] = L.node[target].next[0]]

Unlink(L, update, target) ==
  [x \in DOMAIN L.node |->
    [L.node[x] EXCEPT !.next =
      [i \in Levels |-> IF i < L.lvl /\ update[i] = x /\ @[i] = target
                          THEN L.node[target].next[i] ELSE @[i]]]]

Lower(lvl, head) ==
  LET down[l \in 1 .. MaxLevel] ==
        IF l > 1 /\ head.next[l - 1] = Nil THEN down[l - 1] ELSE l
  IN  down[lvl]

RemoveLocked(L, user, e) ==
  LET update == Search(L, e)
      target == L.node[update[0]].next[0]
      node   == Unlink(L, update, target)
  IN  IF target = Nil \/ L.node[target].e.User # user
        THEN L
        ELSE [node   |-> [node EXCEPT ![target] = Free],
              lvl    |-> Lower(L.lvl, node[HeadNode]),
              byUser |-> Restrict(L.byUser, DOMAIN L.byUser \ {user})]

RemoveUser(L, user) ==
  IF user \in DOMAIN L.byUser
    THEN RemoveLocked(L, user, L.node[L.byUser[user]].e)
    ELSE L

(* The rest of Update: a node n of height h takes its place.               *)
Insert(L, e, h, n) ==
  LET update == Search(L, e)
      prev   == [i \in 0 .. h - 1 |-> IF i < L.lvl THEN update[i] ELSE HeadNode]
  IN  [node   |-> [x \in DOMAIN L.node |->
                    IF x = n
                      THEN [e |-> e, next |-> [i \in Levels |->
                              IF i < h THEN L.node[prev[i]].next[i] ELSE Nil]]
                      ELSE [L.node[x] EXCEPT !.next = [i \in Levels |->
                              IF i < h /\ prev[i] = x THEN n ELSE @[i]]]],
       lvl    |-> IF h > L.lvl THEN h ELSE L.lvl,
       byUser |-> [u \in DOMAIN L.byUser \cup {e.User} |->
                    IF u = e.User THEN n ELSE L.byUser[u]]]

(* Level-0 links from node x on, at most n of them.                        *)
Walk(L, n) ==
  LET out[k \in 0 .. n] ==
        IF k = 0 THEN [seen |-> <<>>, at |-> L.node[HeadNode].next[0]]
        ELSE LET w == out[k - 1]
             IN  IF w.at = Nil THEN w
                 ELSE [seen |-> Append(w.seen, L.node[w.at].e),
                       at   |-> L.node[w.at].next[0]]
  IN  out[n].seen

-----------------------------------------------------------------------------
Init == list = NewSkipList /\ answer = <<>>

(* randomLevel returns any height, and 1 when there is no randomness.      *)
Update(user, score) ==
  LET L == RemoveUser(list, user)
      e == [User |-> user, Score |-> score]
  IN  /\ \E h \in 1 .. MaxLevel :
           list' = Insert(L, e, h, CHOOSE x \in NodeIds : L.node[x] = Free)
      /\ answer' = <<>>

Remove(user) ==
  /\ list' = RemoveUser(list, user)
  /\ answer' = <<>>

TopN(n) ==
  /\ answer' = IF n <= 0 THEN <<>> ELSE Walk(list, n)
  /\ UNCHANGED list

Get(user) ==
  /\ answer' = IF user \in DOMAIN list.byUser
                 THEN <<list.node[list.byUser[user]].e>> ELSE <<>>
  /\ UNCHANGED list

Next ==
  \/ \E u \in Users : Remove(u) \/ Get(u) \/ \E s \in Scores : Update(u, s)
  \/ \E n \in -1 .. MaxN : TopN(n)

Spec == Init /\ [][Next]_vars

-----------------------------------------------------------------------------
(* Properties                                                              *)

B == INSTANCE Board WITH
       score <- [u \in DOMAIN list.byUser |-> list.node[list.byUser[u]].e.Score]

(* The skip list is a Board: whatever heights the nodes got and however    *)
(* often users moved, Update and Remove change one user's score, and TopN  *)
(* and Get answer by the true order of the scores that byUser records.     *)
ImplementsBoard == B!Spec

Linked(i) == {list.node[x].next[i] : x \in DOMAIN list.node} \ {Nil}

(* Each level is the one below with some nodes left out, in strict order,  *)
(* and level 0 links exactly the nodes byUser knows: no removed node stays *)
(* reachable from any level.                                               *)
TowersNested ==
  /\ Linked(0) = Range(list.byUser)
  /\ \A i \in Levels \ {0} : Linked(i) \subseteq Linked(i - 1)
  /\ \A i \in Levels, x \in NodeIds :
       LET n == list.node[x].next[i]
       IN  n # Nil => less(list.node[x].e, list.node[n].e)
=============================================================================
