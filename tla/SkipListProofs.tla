--------------------------- MODULE SkipListProofs ---------------------------
(***************************************************************************)
(* Proofs about the skip list, for any users, scores, numbers of levels    *)
(* and choice of heights.                                                  *)
(***************************************************************************)
EXTENDS SkipList, FiniteSetTheorems, WellFoundedInduction, TLAPS

-----------------------------------------------------------------------------
(* Induction over the natural numbers                                     *)

(* A set of natural numbers that has an element has a least one.           *)
LEMMA LeastNat ==
  ASSUME NEW T \in SUBSET Nat, T # {}
  PROVE  \E n \in T : \A m \in T : n <= m
<1>1. IsWellFoundedOn(OpToRel(<, Nat), Nat)
  BY NatLessThanWellFounded
<1>2. PICK n \in T : \A m \in T : ~(<<m, n>> \in OpToRel(<, Nat))
  BY <1>1, WFMin, Zenon
<1>3. ASSUME NEW m \in T PROVE n <= m
  <2>1. ~(<<m, n>> \in OpToRel(<, Nat))
    BY <1>2
  <2>2. m \in Nat /\ n \in Nat
    BY <1>2
  <2>3. ~(m < n)
    BY <2>1, <2>2 DEF OpToRel
  <2> QED BY <2>2, <2>3
<1> QED BY <1>2, <1>3

(* Induction: a set that has 0, and n + 1 with every n, has them all.      *)
LEMMA NatSetInduction ==
  ASSUME NEW T, 0 \in T, \A n \in Nat : n \in T => n + 1 \in T
  PROVE  \A n \in Nat : n \in T
<1> SUFFICES ASSUME Nat \ T # {} PROVE FALSE
  OBVIOUS
<1>1. PICK n \in Nat \ T : \A m \in Nat \ T : n <= m
  BY Zenon, LeastNat
<1>2. n # 0 /\ n \in Nat
  BY <1>1
<1>3. n - 1 \in Nat /\ ~(n <= n - 1) /\ (n - 1) + 1 = n
  BY <1>2
<1> QED BY <1>1, <1>3

-----------------------------------------------------------------------------
(* The order of entries                                                    *)

Entries == [User : Int, Score : Int]

(* What users are given are entries.                                       *)
LEMMA EntriesOfUsers ==
  ASSUME NEW r \in [User : Users, Score : Scores]
  PROVE  r \in Entries
<1>1. Users \subseteq Int /\ Scores \subseteq Int
  BY SkipListAssumption
<1> QED BY Zenon, <1>1 DEF Entries

(* An entry is not before itself.                                          *)
LEMMA LessIrreflexive ==
  ASSUME NEW a \in Entries
  PROVE  ~less(a, a)
BY DEF less, Entries

(* The order is transitive.                                                *)
LEMMA LessTransitive ==
  ASSUME NEW a \in Entries, NEW b \in Entries, NEW c \in Entries, less(a, b), less(b, c)
  PROVE  less(a, c)
BY DEF less, Entries

(* Entries of two users are in order.                                      *)
LEMMA LessTotal ==
  ASSUME NEW a \in Entries, NEW b \in Entries, a.User # b.User
  PROVE  less(a, b) \/ less(b, a)
BY DEF less, Entries

-----------------------------------------------------------------------------
(* Sets of nodes in order                                                  *)

(* Nodes with entries of different users.                                  *)
Ordered(S, ent) ==
  /\ S \subseteq NodeIds
  /\ \A x \in S : ent[x] \in Entries
  /\ \A x, y \in S : ent[x].User = ent[y].User => x = y

(* Node y of the list comes after node x, which may be the head.           *)
After(ent, x, y) == x = HeadNode \/ less(ent[x], ent[y])

(* n is what a link from x to the next node of S must be.                  *)
Succ(S, ent, x, n) ==
  \/ n = Nil /\ \A y \in S : ~After(ent, x, y)
  \/ /\ n \in S /\ After(ent, x, n)
     /\ \A y \in S : After(ent, x, y) => y = n \/ less(ent[n], ent[y])

(* One level: the links of S, in order, from the head on.                  *)
Chain(S, ent, next) ==
  /\ \A x \in S \cup {HeadNode} : Succ(S, ent, x, next[x])
  /\ \A x \in NodeIds \ S : next[x] = Nil

(* p is the last node of S before e, or the head.                          *)
Prec(S, ent, e, p) ==
  /\ p \in S \cup {HeadNode}
  /\ p # HeadNode => less(ent[p], e)
  /\ \A y \in S : less(ent[y], e) => y = p \/ (p # HeadNode /\ less(ent[y], ent[p]))

(* The head is not one of the nodes, and nil is neither.                   *)
LEMMA NoConfusion ==
  HeadNode \notin NodeIds /\ Nil \notin NodeIds /\ Nil # HeadNode
BY SkipListAssumption DEF HeadNode, Nil

(* A set of nodes in order has a last one.                                 *)
LEMMA LastExists ==
  ASSUME NEW S, NEW ent, Ordered(S, ent), NEW T \in SUBSET S, T # {}
  PROVE  \E m \in T : \A y \in T : y = m \/ less(ent[y], ent[m])
<1> DEFINE Later(x) == {y \in T : less(ent[x], ent[y])}
           Counts == {Cardinality(Later(x)) : x \in T}
<1>1. IsFiniteSet(T)
  BY Zenon, SkipListAssumption, FS_Subset DEF Ordered
<1>2. \A x \in T : IsFiniteSet(Later(x)) /\ Cardinality(Later(x)) \in Nat
  BY <1>1, FS_Subset, FS_CardinalityType
<1>3. Counts \in SUBSET Nat /\ Counts # {}
  BY Zenon, <1>2
<1>4. PICK c \in Counts : \A d \in Counts : c <= d
  BY Zenon, <1>3, LeastNat
<1>5. PICK m \in T : c = Cardinality(Later(m))
  OBVIOUS
<1>6. ASSUME NEW y \in T, y # m, ~less(ent[y], ent[m]) PROVE FALSE
  <2>1. /\ ent[y] \in Entries /\ ent[m] \in Entries /\ ent[y].User # ent[m].User
    BY <1>6 DEF Ordered
  <2>2. less(ent[m], ent[y])
    BY <1>6, <2>1, LessTotal
  <2>3. Later(y) \in SUBSET Later(m)
    <3>1. ASSUME NEW z \in T, less(ent[y], ent[z]) PROVE less(ent[m], ent[z])
      BY <2>1, <2>2, <3>1, LessTransitive DEF Ordered
    <3> QED BY <3>1
  <2>4. y \in Later(m) /\ y \notin Later(y)
    BY <2>1, <2>2, LessIrreflexive
  <2>5. Cardinality(Later(y)) <= Cardinality(Later(m))
        /\ Cardinality(Later(y)) # Cardinality(Later(m))
    BY Zenon, <1>2, <2>3, <2>4, FS_Subset
  <2>6. Cardinality(Later(m)) <= Cardinality(Later(y))
    BY Zenon, <1>4, <1>5
  <2> QED BY <1>2, <2>5, <2>6
<1> QED BY <1>6

(* So there is a last node before any entry, if only the head.             *)
LEMMA PrecExists ==
  ASSUME NEW S, NEW ent, Ordered(S, ent), NEW e
  PROVE  \E p : Prec(S, ent, e, p)
<1> DEFINE T == {y \in S : less(ent[y], e)}
<1>1. CASE T = {}
  BY <1>1 DEF Prec
<1>2. CASE T # {}
  <2>1. PICK m \in T : \A y \in T : y = m \/ less(ent[y], ent[m])
    BY Zenon, <1>2, LastExists
  <2>2. m # HeadNode
    BY NoConfusion DEF Ordered
  <2> QED BY <2>1, <2>2 DEF Prec
<1> QED BY <1>1, <1>2

(* There is only one.                                                      *)
LEMMA PrecUnique ==
  ASSUME NEW S, NEW ent, Ordered(S, ent), NEW e, NEW p, NEW q,
         Prec(S, ent, e, p), Prec(S, ent, e, q)
  PROVE  p = q
<1>1. CASE p = HeadNode \/ q = HeadNode
  BY <1>1, NoConfusion DEF Prec, Ordered
<1>2. CASE p # HeadNode /\ q # HeadNode /\ p # q
  <2>1. p \in S /\ q \in S /\ less(ent[p], ent[q]) /\ less(ent[q], ent[p])
    BY <1>2 DEF Prec
  <2> QED BY <2>1, LessTransitive, LessIrreflexive DEF Ordered
<1> QED BY <1>1, <1>2

-----------------------------------------------------------------------------
(* The searches                                                            *)

Nodes == NodeIds \cup {HeadNode}

EntOf(L)     == [x \in Nodes |-> L.node[x].e]
LinkOf(L, i) == [x \in Nodes |-> L.node[x].next[i]]

(* The inner loop, from a node before e, stops at the last one before it.  *)
LEMMA ForwardIs ==
  ASSUME NEW L, DOMAIN L.node = Nodes, NEW S, NEW i, NEW e \in Entries,
         Ordered(S, EntOf(L)), Chain(S, EntOf(L), LinkOf(L, i)),
         NEW p, Prec(S, EntOf(L), e, p),
         NEW c \in S \cup {HeadNode}, c # HeadNode => less(EntOf(L)[c], e)
  PROVE  Forward(L, e, i, c) = p
<1> DEFINE ent == EntOf(L)
           next == LinkOf(L, i)
           Goes(x) == next[x] # Nil /\ less(ent[next[x]], e)
           Step(f) == [x \in Nodes |-> IF Goes(x) THEN f[next[x]] ELSE x]
<1>1. Forward(L, e, i, c) = (CHOOSE f : f = Step(f))[c]
  <2>1. ASSUME NEW f
        PROVE  Step(f) = [x \in DOMAIN L.node |->
                  IF L.node[x].next[i] # Nil /\ less(L.node[L.node[x].next[i]].e, e)
                  THEN f[L.node[x].next[i]] ELSE x]
    <3>1. ASSUME NEW x \in Nodes, next[x] # Nil PROVE next[x] \in Nodes
      BY <3>1 DEF Chain, Succ, Ordered, Nodes
    <3>2. \A x \in Nodes : next[x] = L.node[x].next[i]
      BY DEF LinkOf
    <3>3. \A x \in Nodes : ent[x] = L.node[x].e
      BY DEF EntOf
    <3> HIDE DEF next, ent
    <3> QED BY <3>1, <3>2, <3>3
  <2> HIDE DEF Step
  <2> QED BY <2>1, Zenon DEF Forward
<1>2. /\ Ordered(S, ent) /\ Chain(S, ent, next) /\ Prec(S, ent, e, p)
      /\ c # HeadNode => less(ent[c], e)
  OBVIOUS
<1> HIDE DEF ent, next
<1>3. ASSUME NEW x \in Nodes, Goes(x)
      PROVE  x \in S \cup {HeadNode} /\ next[x] \in S /\ After(ent, x, next[x])
  <2>1. x \in S \cup {HeadNode}
    BY <1>2, <1>3 DEF Chain, Nodes
  <2>2. Succ(S, ent, x, next[x])
    BY <1>2, <2>1 DEF Chain
  <2> QED BY <1>3, <2>1, <2>2 DEF Succ
<1>4. ASSUME NEW x \in S \cup {HeadNode}, x # HeadNode => less(ent[x], e), ~Goes(x)
      PROVE  x = p
  <2> SUFFICES ASSUME x # p PROVE FALSE
    OBVIOUS
  <2>1. p \in S /\ p # HeadNode /\ less(ent[p], e)
    BY <1>2, <1>4 DEF Prec
  <2>2. After(ent, x, p)
    BY <1>2, <1>4 DEF Prec, After
  <2>3. Succ(S, ent, x, next[x])
    BY <1>2 DEF Chain
  <2>4. next[x] \in S /\ (next[x] = p \/ less(ent[next[x]], ent[p])) /\ next[x] # Nil
    BY <1>2, <2>1, <2>2, <2>3, NoConfusion DEF Succ, Ordered
  <2>5. less(ent[next[x]], e)
    BY <1>2, <2>1, <2>4, LessTransitive DEF Ordered
  <2> QED BY <1>4, <2>4, <2>5
<1>5. \E f : f = Step(f)
  <2> DEFINE g == [x \in Nodes |-> IF Goes(x) THEN p ELSE x]
  <2>1. ASSUME NEW x \in Nodes, Goes(x) PROVE g[next[x]] = p
    <3>1. next[x] \in S /\ next[x] \in Nodes /\ less(ent[next[x]], e)
      BY <1>2, <1>3, <2>1 DEF Ordered, Nodes
    <3>2. ~Goes(next[x]) => next[x] = p
      BY <1>4, <3>1
    <3> HIDE DEF Goes
    <3> QED BY <3>1, <3>2
  <2> HIDE DEF Goes
  <2>2. g = Step(g)
    BY <2>1
  <2> QED BY Zenon, <2>2
<1>6. ASSUME NEW f, f = Step(f) PROVE f[c] = p
  <2> DEFINE Bad == {x \in S : less(ent[x], e) /\ f[x] # p}
  <2>0. \A x \in Nodes : f[x] = IF Goes(x) THEN f[next[x]] ELSE x
    BY <1>6
  <2>1. Bad = {}
    <3> SUFFICES ASSUME Bad # {} PROVE FALSE
      OBVIOUS
    <3>1. PICK m \in Bad : \A y \in Bad : y = m \/ less(ent[y], ent[m])
      BY Zenon, <1>2, LastExists
    <3>2. m \in S /\ m \in Nodes /\ less(ent[m], e) /\ f[m] # p /\ m # HeadNode
      BY <1>2, NoConfusion DEF Ordered, Nodes
    <3>3. CASE Goes(m)
      <4>1. next[m] \in S /\ less(ent[m], ent[next[m]]) /\ less(ent[next[m]], e)
        BY <1>3, <3>2, <3>3 DEF After
      <4>2. next[m] \notin Bad
        BY <1>2, <3>1, <3>2, <4>1, LessIrreflexive, LessTransitive DEF Ordered
      <4>3. f[m] = f[next[m]]
        BY <2>0, <3>2, <3>3
      <4> QED BY <3>2, <4>1, <4>2, <4>3
    <3>4. CASE ~Goes(m)
      <4>1. f[m] = m
        BY <2>0, <3>2, <3>4
      <4> QED BY <1>4, <3>2, <3>4, <4>1
    <3> QED BY <3>3, <3>4
  <2>2. CASE c # HeadNode
    BY <1>2, <2>1, <2>2
  <2>3. CASE c = HeadNode /\ Goes(c)
    <3>1. next[c] \in S /\ less(ent[next[c]], e) /\ c \in Nodes
      BY <1>3, <2>3 DEF Nodes
    <3>2. f[c] = f[next[c]]
      BY <2>0, <2>3, <3>1
    <3> QED BY <2>1, <3>1, <3>2
  <2>4. CASE c = HeadNode /\ ~Goes(c)
    <3>1. f[c] = c
      BY <2>0, <2>4 DEF Nodes
    <3> QED BY <1>4, <2>4, <3>1
  <2> QED BY <2>2, <2>3, <2>4
<1> HIDE DEF Step
<1>7. (CHOOSE f : f = Step(f)) = Step(CHOOSE f : f = Step(f))
  BY <1>5
<1> QED BY Zenon, <1>1, <1>6, <1>7

(* The structure: the nodes of height over i are S[i], whose links make    *)
(* level i, and the nodes of level 0 are those that byUser knows.          *)
Shape(L) ==
  /\ DOMAIN L.node = Nodes /\ L.lvl \in 1 .. MaxLevel
  /\ \A x \in Nodes : L.node[x] = [e |-> L.node[x].e, next |-> [i \in Levels |-> L.node[x].next[i]]]

Known(L, S) ==
  /\ S[0] = Range(L.byUser)
  /\ \A u \in DOMAIN L.byUser :
       /\ u \in Users /\ L.byUser[u] \in NodeIds
       /\ L.node[L.byUser[u]].e \in [User : Users, Score : Scores]
       /\ L.node[L.byUser[u]].e.User = u
  /\ \A x \in NodeIds \ S[0] : L.node[x] = Free

Towers(L, S) ==
  /\ Shape(L) /\ Known(L, S) /\ S \in [Levels -> SUBSET NodeIds]
  /\ \A i \in Levels : Chain(S[i], EntOf(L), LinkOf(L, i))
  /\ \A i, j \in Levels : j <= i => S[i] \subseteq S[j]
  /\ \A i \in Levels : L.lvl <= i => S[i] = {}

(* Nodes in the list hold entries of different users.                      *)
LEMMA TowersOrdered ==
  ASSUME NEW L, NEW S, Towers(L, S)
  PROVE  /\ \A i \in Levels : Ordered(S[i], EntOf(L))
         /\ 0 \in Levels /\ L.lvl \in Nat \ {0}
         /\ \A x \in S[0] : EntOf(L)[x] \in [User : Users, Score : Scores]
<1>1. 0 \in Levels /\ L.lvl \in Nat \ {0}
  BY SkipListAssumption DEF Towers, Shape, Levels
<1>2. ASSUME NEW x \in S[0]
      PROVE  /\ x \in NodeIds /\ EntOf(L)[x] = L.node[x].e
             /\ EntOf(L)[x] \in [User : Users, Score : Scores]
             /\ EntOf(L)[x].User \in DOMAIN L.byUser /\ L.byUser[EntOf(L)[x].User] = x
  <2>1. PICK u \in DOMAIN L.byUser : L.byUser[u] = x
    BY DEF Towers, Known, Range
  <2> QED BY <2>1 DEF Towers, Known, EntOf, Nodes
<1>4. Ordered(S[0], EntOf(L))
  BY <1>2, EntriesOfUsers DEF Ordered
<1>5. \A i \in Levels : Ordered(S[i], EntOf(L))
  <2>1. \A i \in Levels : S[i] \subseteq S[0]
    BY <1>1 DEF Towers, Levels
  <2> QED BY <1>4, <2>1 DEF Ordered
<1> QED BY <1>1, <1>2, <1>5

(* Both searches find, on each level, the last node before e.              *)
LEMMA SearchIs ==
  ASSUME NEW L, NEW S, Towers(L, S), NEW e \in Entries,
         NEW P, \A i \in Levels : Prec(S[i], EntOf(L), e, P[i])
  PROVE  \A i \in 0 .. L.lvl - 1 : i \in Levels /\ Search(L, e)[i] = P[i]
<1> DEFINE top == L.lvl
           Def(f) == [i \in 0 .. top |-> IF i = top THEN HeadNode ELSE Forward(L, e, i, f[i + 1])]
           g == [i \in 0 .. top |-> IF i = top THEN HeadNode ELSE P[i]]
<1>1. top \in Nat /\ \A i \in 0 .. top - 1 : i \in Levels
  BY SkipListAssumption DEF Towers, Shape, Levels
<1>2. Search(L, e) = [i \in 0 .. top - 1 |-> (CHOOSE f : f = Def(f))[i]]
  BY DEF Search
<1> HIDE DEF top
<1>3. ASSUME NEW i \in 0 .. top - 1 PROVE Forward(L, e, i, g[i + 1]) = P[i]
  <2>1. i \in Levels /\ i + 1 \in 0 .. top
    BY <1>1
  <2>2. g[i + 1] \in S[i] \cup {HeadNode} /\ (g[i + 1] # HeadNode => less(EntOf(L)[g[i + 1]], e))
    <3>1. CASE i + 1 = top
      BY <1>1, <3>1
    <3>2. CASE i + 1 # top
      <4>1. i + 1 \in Levels /\ g[i + 1] = P[i + 1] /\ i <= i + 1
        BY <1>1, <3>2
      <4>2. S[i + 1] \subseteq S[i]
        BY <2>1, <4>1 DEF Towers
      <4> QED BY <4>1, <4>2 DEF Prec
    <3> QED BY <3>1, <3>2
  <2> HIDE DEF g
  <2>3. /\ DOMAIN L.node = Nodes /\ Ordered(S[i], EntOf(L))
        /\ Chain(S[i], EntOf(L), LinkOf(L, i)) /\ Prec(S[i], EntOf(L), e, P[i])
    BY <2>1, TowersOrdered DEF Towers, Shape
  <2> QED BY <2>2, <2>3, ForwardIs
<1>4. g = Def(g)
  BY <1>1, <1>3
<1>5. ASSUME NEW f, f = Def(f) PROVE \A i \in 0 .. top : f[i] = g[i]
  <2> DEFINE T == {k \in Nat : k <= top => f[top - k] = g[top - k]}
  <2>0. \A i \in 0 .. top : f[i] = IF i = top THEN HeadNode ELSE Forward(L, e, i, f[i + 1])
    BY Zenon, <1>5
  <2>1. 0 \in T
    BY <1>1, <2>0
  <2>2. ASSUME NEW k \in Nat, k \in T PROVE k + 1 \in T
    <3> SUFFICES ASSUME k + 1 <= top PROVE f[top - (k + 1)] = g[top - (k + 1)]
      OBVIOUS
    <3> DEFINE i == top - (k + 1)
    <3>1. i \in 0 .. top - 1 /\ i + 1 = top - k /\ i \in 0 .. top /\ i # top /\ k <= top
      BY <1>1
    <3>2. f[i + 1] = g[i + 1]
      BY <2>2, <3>1
    <3> HIDE DEF i
    <3>3. f[i] = Forward(L, e, i, g[i + 1])
      BY <2>0, <3>1, <3>2
    <3>4. g[i] = P[i]
      BY <3>1
    <3>5. f[i] = g[i]
      BY <1>3, <3>1, <3>3, <3>4
    <3> QED BY <3>5 DEF i
  <2>3. \A k \in Nat : k \in T
    <3> HIDE DEF T
    <3> QED BY <2>1, <2>2, NatSetInduction
  <2>4. ASSUME NEW i \in 0 .. top PROVE f[i] = g[i]
    <3>1. top - i \in Nat /\ top - i <= top /\ top - (top - i) = i
      BY <1>1
    <3>2. top - i \in T
      BY <2>3, <3>1
    <3> QED BY <3>1, <3>2
  <2> QED BY <2>4
<1> HIDE DEF Def
<1>6. (CHOOSE f : f = Def(f)) = Def(CHOOSE f : f = Def(f))
  BY <1>4
<1>7. \A i \in 0 .. top : (CHOOSE f : f = Def(f))[i] = g[i]
  BY Zenon, <1>5, <1>6
<1>8. ASSUME NEW i \in 0 .. top - 1 PROVE Search(L, e)[i] = P[i]
  <2>1. Search(L, e)[i] = (CHOOSE f : f = Def(f))[i]
    BY <1>2
  <2>2. i \in 0 .. top /\ i # top
    BY <1>1
  <2> QED BY <1>7, <2>1, <2>2
<1> QED BY <1>1, <1>8 DEF top

-----------------------------------------------------------------------------
(* Changing one level                                                      *)

(* A link leads into the level, and the link from the last node before a   *)
(* node's own entry leads to it.                                           *)
LEMMA PrecLinks ==
  ASSUME NEW S, NEW ent, NEW next, Ordered(S, ent), Chain(S, ent, next),
         NEW t \in S, NEW p, Prec(S, ent, ent[t], p)
  PROVE  next[p] = t
<1>1. p \in S \cup {HeadNode} /\ Succ(S, ent, p, next[p]) /\ After(ent, p, t)
  BY DEF Prec, Chain, After
<1>2. next[p] \in S /\ After(ent, p, next[p]) /\ (t = next[p] \/ less(ent[next[p]], ent[t]))
  BY <1>1 DEF Succ
<1>3. ASSUME less(ent[next[p]], ent[t]) PROVE FALSE
  <2>1. next[p] = p \/ (p # HeadNode /\ less(ent[next[p]], ent[p]))
    BY <1>2, <1>3 DEF Prec
  <2>2. p \in S /\ less(ent[p], ent[next[p]])
    BY <1>1, <1>2, <2>1, NoConfusion DEF After, Ordered
  <2> QED BY <1>2, <2>1, <2>2, LessIrreflexive, LessTransitive DEF Ordered
<1> QED BY <1>2, <1>3

(* A node taken out: the one before it gets its link.                      *)
LEMMA ChainRemove ==
  ASSUME NEW S, NEW ent, NEW next, Ordered(S, ent), Chain(S, ent, next),
         NEW t \in S, NEW p, Prec(S, ent, ent[t], p),
         NEW ent2, \A x \in S \ {t} : ent2[x] = ent[x],
         NEW next2, next2[t] = Nil, next2[p] = next[t],
         \A x \in Nodes \ {t, p} : next2[x] = next[x]
  PROVE  Chain(S \ {t}, ent2, next2)
<1>1. next[p] = t /\ t \in NodeIds /\ t # HeadNode /\ p # t
  <2>1. p # t
    BY LessIrreflexive, NoConfusion DEF Prec, Ordered
  <2> QED BY <2>1, PrecLinks, NoConfusion DEF Ordered
<1>2. ASSUME NEW x \in NodeIds \ (S \ {t}) PROVE next2[x] = Nil
  BY <1>1, NoConfusion DEF Chain, Prec, Nodes
<1>3. ASSUME NEW x \in (S \ {t}) \cup {HeadNode} PROVE Succ(S \ {t}, ent2, x, next2[x])
  <2>0. /\ x \in S \cup {HeadNode} /\ x # t /\ x \in Nodes
        /\ \A y \in S \ {t} : After(ent2, x, y) <=> After(ent, x, y)
    BY <1>1, NoConfusion DEF After, Ordered, Nodes
  <2>1. CASE x = p
    <3>1. Succ(S, ent, t, next[t]) /\ Succ(S, ent, x, t) /\ next2[x] = next[t]
      BY <1>1, <2>0, <2>1 DEF Chain
    <3>2. ASSUME NEW y \in S \ {t} PROVE After(ent, x, y) <=> After(ent, t, y)
      <4>1. ASSUME After(ent, x, y) PROVE After(ent, t, y)
        BY <1>1, <3>1, <4>1, NoConfusion DEF Succ, After, Ordered
      <4>2. ASSUME After(ent, t, y) PROVE After(ent, x, y)
        <5>1. less(ent[t], ent[y]) /\ After(ent, x, t)
          BY <1>1, <3>1, <4>2, NoConfusion DEF Succ, After, Ordered
        <5> QED BY <2>0, <5>1, LessTransitive DEF After, Ordered
      <4> QED BY <4>1, <4>2
    <3>3. CASE next[t] = Nil
      BY <2>0, <3>1, <3>2, <3>3, NoConfusion DEF Succ, Ordered
    <3>4. CASE next[t] # Nil
      <4>1. /\ next[t] \in S /\ After(ent, t, next[t])
            /\ \A y \in S : After(ent, t, y) => y = next[t] \/ less(ent[next[t]], ent[y])
        BY <3>1, <3>4 DEF Succ
      <4>2. next[t] # t
        BY <1>1, <4>1, LessIrreflexive DEF After, Ordered
      <4> QED BY <2>0, <3>1, <3>2, <4>1, <4>2 DEF Succ
    <3> QED BY <3>3, <3>4
  <2>2. CASE x # p
    <3>1. next2[x] = next[x] /\ Succ(S, ent, x, next[x])
      BY <2>0, <2>2 DEF Chain
    <3>2. next[x] # t
      <4> SUFFICES ASSUME next[x] = t PROVE FALSE
        OBVIOUS
      <4>1. Prec(S, ent, ent[t], x)
        <5>1. After(ent, x, t) /\ \A y \in S : After(ent, x, y) => y = t \/ less(ent[t], ent[y])
          BY <1>1, <3>1, NoConfusion DEF Succ, Ordered
        <5>2. x # HeadNode => less(ent[x], ent[t])
          BY <5>1 DEF After
        <5>3. ASSUME NEW y \in S, less(ent[y], ent[t])
              PROVE  y = x \/ (x # HeadNode /\ less(ent[y], ent[x]))
          <6>1. ~After(ent, x, y)
            BY <5>1, <5>3, LessIrreflexive, LessTransitive DEF Ordered
          <6>2. x # HeadNode /\ x \in S /\ ~less(ent[x], ent[y])
            BY <2>0, <6>1 DEF After
          <6> QED BY <6>2, LessTotal DEF Ordered
        <5> QED BY <2>0, <5>2, <5>3 DEF Prec
      <4> QED BY <2>2, <4>1, PrecUnique
    <3> QED BY <2>0, <3>1, <3>2 DEF Succ
  <2> QED BY <2>1, <2>2
<1> QED BY <1>2, <1>3 DEF Chain

(* A node that was not on the level leaves it as it is.                    *)
LEMMA ChainSame ==
  ASSUME NEW S, NEW ent, NEW next, Ordered(S, ent), Chain(S, ent, next),
         NEW ent2, \A x \in S : ent2[x] = ent[x],
         NEW next2, \A x \in Nodes : next2[x] = next[x]
  PROVE  Chain(S, ent2, next2)
<1>1. ASSUME NEW x \in S \cup {HeadNode} PROVE Succ(S, ent2, x, next2[x])
  <2>1. Succ(S, ent, x, next[x]) /\ next2[x] = next[x]
    BY DEF Chain, Ordered, Nodes
  <2>2. \A y \in S : After(ent2, x, y) <=> After(ent, x, y)
    BY DEF After
  <2> QED BY <2>1, <2>2 DEF Succ
<1> QED BY <1>1 DEF Chain, Nodes

(* A node put in after the last one before its entry.                      *)
LEMMA ChainInsert ==
  ASSUME NEW S, NEW ent, NEW next, Ordered(S, ent), Chain(S, ent, next),
         NEW n \in NodeIds \ S, NEW e \in Entries, NEW p, Prec(S, ent, e, p),
         NEW ent2, ent2[n] = e, \A x \in S : ent2[x] = ent[x], \A x \in S : ent[x].User # e.User,
         NEW next2, next2[n] = next[p], next2[p] = n,
         \A x \in Nodes \ {n, p} : next2[x] = next[x]
  PROVE  Chain(S \cup {n}, ent2, next2)
<1>1. n # HeadNode /\ p # n /\ p \in S \cup {HeadNode} /\ Succ(S, ent, p, next[p])
  BY NoConfusion DEF Prec, Chain
<1>2. ASSUME NEW x \in NodeIds \ (S \cup {n}) PROVE next2[x] = Nil
  BY <1>1, NoConfusion DEF Chain, Prec, Nodes
<1>3. \A x \in S : After(ent2, n, x) <=> less(e, ent[x])
  BY <1>1 DEF After
<1>4. ASSUME NEW y \in S PROVE After(ent, p, y) <=> less(e, ent[y])
  <2>1. ASSUME After(ent, p, y) PROVE less(e, ent[y])
    <3>1. ~less(ent[y], e)
      BY <1>1, <2>1, NoConfusion, LessIrreflexive, LessTransitive DEF Prec, After, Ordered
    <3> QED BY <3>1, LessTotal DEF Ordered
  <2>2. ASSUME less(e, ent[y]) PROVE After(ent, p, y)
    BY <2>2, LessTransitive DEF Prec, After, Ordered
  <2> QED BY <2>1, <2>2
<1>5. Succ(S \cup {n}, ent2, n, next2[n])
  <2>1. ~After(ent2, n, n)
    BY <1>1, LessIrreflexive DEF After
  <2>2. CASE next[p] = Nil
    BY <1>1, <1>3, <1>4, <2>1, <2>2, NoConfusion DEF Succ, Ordered
  <2>3. CASE next[p] # Nil
    <3>1. next[p] \in S /\ After(ent, p, next[p])
          /\ \A y \in S : After(ent, p, y) => y = next[p] \/ less(ent[next[p]], ent[y])
      BY <1>1, <2>3 DEF Succ
    <3>2. After(ent2, n, next[p])
      BY <1>3, <1>4, <3>1
    <3>3. ASSUME NEW y \in S \cup {n}, After(ent2, n, y)
          PROVE  y = next[p] \/ less(ent2[next[p]], ent2[y])
      BY <1>3, <1>4, <2>1, <3>1, <3>3
    <3> QED BY <3>1, <3>2, <3>3 DEF Succ
  <2> QED BY <2>2, <2>3
<1>6. ASSUME NEW x \in S \cup {HeadNode}, x # p PROVE Succ(S \cup {n}, ent2, x, next2[x])
  <2>1. /\ next2[x] = next[x] /\ Succ(S, ent, x, next[x]) /\ x # n
        /\ \A y \in S : After(ent2, x, y) <=> After(ent, x, y)
    BY <1>1, <1>6, NoConfusion DEF Chain, Ordered, Nodes, After
  <2>2. CASE After(ent2, x, n)
    <3>1. x = HeadNode \/ less(ent[x], e)
      BY <2>1, <2>2 DEF After
    <3>2. p \in S /\ p # HeadNode /\ After(ent, x, p) /\ less(ent[p], e)
      BY Zenon, <1>1, <1>6, <3>1, NoConfusion DEF Prec, After, Ordered
    <3>3. /\ next[x] \in S /\ After(ent, x, next[x])
          /\ \A y \in S : After(ent, x, y) => y = next[x] \/ less(ent[next[x]], ent[y])
      BY <2>1, <3>2 DEF Succ
    <3>4. less(ent[next[x]], e)
      BY <3>2, <3>3, LessTransitive DEF Ordered
    <3>5. less(ent2[next[x]], ent2[n])
      BY <3>3, <3>4
    <3> QED BY <2>1, <3>3, <3>5 DEF Succ
  <2>3. CASE ~After(ent2, x, n)
    BY <2>1, <2>3 DEF Succ
  <2> QED BY <2>2, <2>3
<1>7. Succ(S \cup {n}, ent2, p, next2[p])
  <2>1. After(ent2, p, n)
    BY <1>1 DEF After, Prec
  <2>2. ASSUME NEW y \in S, After(ent2, p, y) PROVE less(ent2[n], ent2[y])
    <3>1. After(ent, p, y)
      BY <1>1, <2>2 DEF After
    <3> QED BY <1>4, <3>1
  <2> QED BY <2>1, <2>2 DEF Succ
<1> QED BY <1>2, <1>5, <1>6, <1>7 DEF Chain

-----------------------------------------------------------------------------
(* Changing the list                                                       *)

LowersTo(f, head, m) ==
  \A l \in 1 .. m : f[l] = IF l > 1 /\ head.next[l - 1] = Nil THEN f[l - 1] ELSE l

(* The loop over the empty levels of the head has an outcome.              *)
LEMMA LowerExists ==
  ASSUME NEW head
  PROVE  \A m \in Nat : \E f : f = [l \in 1 .. m |-> f[l]] /\ LowersTo(f, head, m)
<1> DEFINE T == {m \in Nat : \E f : f = [l \in 1 .. m |-> f[l]] /\ LowersTo(f, head, m)}
<1>1. 0 \in T
  <2>1. LowersTo([l \in 1 .. 0 |-> 0], head, 0)
    BY DEF LowersTo
  <2>2. [l \in 1 .. 0 |-> 0] = [l \in 1 .. 0 |-> [k \in 1 .. 0 |-> 0][l]]
    OBVIOUS
  <2> QED BY Zenon, <2>1, <2>2
<1>2. ASSUME NEW m \in Nat, m \in T PROVE m + 1 \in T
  <2>1. PICK f : f = [l \in 1 .. m |-> f[l]] /\ LowersTo(f, head, m)
    BY <1>2
  <2> DEFINE new == IF m + 1 > 1 /\ head.next[m] = Nil THEN f[m] ELSE m + 1
             g == [l \in 1 .. m + 1 |-> IF l = m + 1 THEN new ELSE f[l]]
  <2>2. g = [l \in 1 .. m + 1 |-> g[l]]
    OBVIOUS
  <2>3. ASSUME NEW l \in 1 .. m + 1
        PROVE  g[l] = IF l > 1 /\ head.next[l - 1] = Nil THEN g[l - 1] ELSE l
    <3>1. CASE l = m + 1
      <4>1. g[l] = new /\ l - 1 = m /\ (l > 1 => g[l - 1] = f[m])
        BY <3>1
      <4> QED BY <3>1, <4>1
    <3>2. CASE l # m + 1
      <4>1. l \in 1 .. m /\ g[l] = f[l] /\ (l > 1 => g[l - 1] = f[l - 1])
        BY <3>2
      <4> HIDE DEF g
      <4> QED BY Zenon, <2>1, <4>1 DEF LowersTo
    <3> QED BY <3>1, <3>2
  <2> HIDE DEF g
  <2>4. LowersTo(g, head, m + 1)
    BY <2>3 DEF LowersTo
  <2>5. \E f2 : f2 = [l \in 1 .. m + 1 |-> f2[l]] /\ LowersTo(f2, head, m + 1)
    BY <2>2, <2>4
  <2> QED BY <2>5
<1>3. \A m \in Nat : m \in T
  <2> HIDE DEF T
  <2> QED BY <1>1, <1>2, NatSetInduction
<1> QED BY <1>3

(* The level it stops at is a level, and the head has nothing above it.    *)
LEMMA LowerIs ==
  ASSUME NEW lvl \in 1 .. MaxLevel, NEW head
  PROVE  /\ Lower(lvl, head) \in 1 .. lvl
         /\ \A i \in Lower(lvl, head) .. lvl - 1 : head.next[i] = Nil
<1> DEFINE Def(f) == [l \in 1 .. MaxLevel |->
                        IF l > 1 /\ head.next[l - 1] = Nil THEN f[l - 1] ELSE l]
           d == CHOOSE f : f = Def(f)
<1>0. MaxLevel \in Nat \ {0}
  BY SkipListAssumption
<1>1. Lower(lvl, head) = d[lvl]
  BY DEF Lower
<1>2. \E f : f = Def(f)
  <2>1. PICK f : f = [l \in 1 .. MaxLevel |-> f[l]] /\ LowersTo(f, head, MaxLevel)
    BY Zenon, <1>0, LowerExists
  <2>2. f = Def(f)
    BY Zenon, <2>1 DEF LowersTo
  <2> QED BY Zenon, <2>2
<1>3. d = Def(d)
  <2> HIDE DEF Def
  <2> QED BY <1>2
<1> HIDE DEF d
<1>4. \A l \in 1 .. MaxLevel : d[l] = IF l > 1 /\ head.next[l - 1] = Nil THEN d[l - 1] ELSE l
  BY Zenon, <1>3
<1> DEFINE T == {k \in Nat : k + 1 <= MaxLevel =>
                   d[k + 1] \in 1 .. k + 1 /\ \A i \in d[k + 1] .. k : head.next[i] = Nil}
<1>5. 0 \in T
  BY <1>0, <1>4
<1>6. ASSUME NEW k \in Nat, k \in T PROVE k + 1 \in T
  <2> SUFFICES ASSUME k + 2 <= MaxLevel
               PROVE  d[k + 2] \in 1 .. k + 2 /\ \A i \in d[k + 2] .. k + 1 : head.next[i] = Nil
    OBVIOUS
  <2>1. d[k + 2] = IF head.next[k + 1] = Nil THEN d[k + 1] ELSE k + 2
    BY <1>0, <1>4
  <2>2. d[k + 1] \in 1 .. k + 1 /\ \A i \in d[k + 1] .. k : head.next[i] = Nil
    BY <1>0, <1>6
  <2>3. CASE head.next[k + 1] = Nil
    <3>1. d[k + 2] = d[k + 1]
      BY <2>1, <2>3
    <3>2. ASSUME NEW i \in d[k + 1] .. k + 1 PROVE head.next[i] = Nil
      <4>1. i \in d[k + 1] .. k \/ i = k + 1
        BY <2>2
      <4> QED BY <2>2, <2>3, <4>1
    <3> QED BY <2>2, <3>1, <3>2
  <2>4. CASE head.next[k + 1] # Nil
    BY <2>1, <2>4
  <2> QED BY <2>3, <2>4
<1>7. \A k \in Nat : k \in T
  <2> HIDE DEF T
  <2> QED BY <1>5, <1>6, NatSetInduction
<1>8. lvl - 1 \in T /\ (lvl - 1) + 1 = lvl /\ lvl <= MaxLevel
  BY <1>0, <1>7
<1> QED BY <1>1, <1>8

(* Taking a user's node out leaves a skip list without it.                 *)
LEMMA RemoveTowers ==
  ASSUME NEW L, NEW S, Towers(L, S), NEW u \in DOMAIN L.byUser
  PROVE  LET t == L.byUser[u]
             R == RemoveUser(L, u)
         IN  /\ Towers(R, [i \in Levels |-> S[i] \ {t}])
             /\ R.byUser = Restrict(L.byUser, DOMAIN L.byUser \ {u})
             /\ \A x \in Nodes \ {t} : R.node[x].e = L.node[x].e
<1> DEFINE t == L.byUser[u]
           R == RemoveUser(L, u)
           S2 == [i \in Levels |-> S[i] \ {t}]
           e == L.node[t].e
           ent == EntOf(L)
           P == [i \in Levels |-> CHOOSE p : Prec(S[i], ent, e, p)]
           update == Search(L, e)
           un == Unlink(L, update, t)
<1>1. /\ t \in S[0] /\ t \in NodeIds /\ t \in Nodes /\ t # HeadNode /\ u \in Users
      /\ e \in [User : Users, Score : Scores] /\ e.User = u /\ ent[t] = e
  BY NoConfusion DEF Towers, Known, Range, EntOf, Nodes
<1>2. e \in Entries
  BY Zenon, <1>1, EntriesOfUsers
<1>3. /\ \A i \in Levels : Ordered(S[i], ent)
      /\ 0 \in Levels /\ L.lvl \in Nat \ {0} /\ DOMAIN L.node = Nodes
      /\ \A i \in Levels : Chain(S[i], ent, LinkOf(L, i)) /\ i \in Nat /\ i < MaxLevel
  BY SMTT(30), TowersOrdered, SkipListAssumption DEF Towers, Shape, Levels
<1>4. \A i \in Levels : Prec(S[i], ent, e, P[i])
  BY Zenon, <1>2, <1>3, PrecExists
<1> HIDE DEF P
<1>5. \A i \in 0 .. L.lvl - 1 : i \in Levels /\ update[i] = P[i]
  BY <1>2, <1>4, SearchIs
<1>6. ASSUME NEW i \in Levels
      PROVE  P[i] \in Nodes /\ (L.node[P[i]].next[i] = t <=> t \in S[i])
  <2>1. P[i] \in S[i] \cup {HeadNode} /\ S[i] \subseteq NodeIds
    BY <1>3, <1>4 DEF Prec, Ordered
  <2>2. P[i] \in Nodes /\ LinkOf(L, i)[P[i]] = L.node[P[i]].next[i]
    BY <2>1 DEF LinkOf, Nodes
  <2>3. ASSUME t \in S[i] PROVE LinkOf(L, i)[P[i]] = t
    <3>1. Prec(S[i], ent, ent[t], P[i])
      BY Zenon, <1>1, <1>4
    <3> HIDE DEF ent, t
    <3> QED BY <1>3, <2>3, <3>1, PrecLinks
  <2>4. ASSUME LinkOf(L, i)[P[i]] = t PROVE t \in S[i]
    <3>1. Succ(S[i], ent, P[i], t)
      BY SMTT(30), <1>3, <2>1, <2>4 DEF Chain
    <3> QED BY <1>1, <3>1, NoConfusion DEF Succ
  <2> QED BY Zenon, <2>2, <2>3, <2>4
<1>7. L.node[update[0]].next[0] = t
  <2>1. 0 \in 0 .. L.lvl - 1
    BY SMTT(30), <1>3
  <2> QED BY Zenon, <1>1, <1>3, <1>5, <1>6, <2>1
<1>8. R = [node   |-> [un EXCEPT ![t] = Free],
           lvl    |-> Lower(L.lvl, un[HeadNode]),
           byUser |-> Restrict(L.byUser, DOMAIN L.byUser \ {u})]
  <2>1. t # Nil /\ L.node[t].e.User = u
    BY <1>1, NoConfusion
  <2> QED BY ZenonT(30), <1>7, <2>1 DEF RemoveUser, RemoveLocked
<1> DEFINE New(x) == [i \in Levels |->
                         IF i < L.lvl /\ update[i] = x /\ L.node[x].next[i] = t
                         THEN L.node[t].next[i] ELSE L.node[x].next[i]]
<1>9. /\ DOMAIN un = Nodes /\ \A x \in Nodes : un[x] = [L.node[x] EXCEPT !.next = New(x)]
  BY <1>3 DEF Unlink
<1> HIDE DEF R, un, update, t
<1>10. ASSUME NEW x \in Nodes
       PROVE  un[x] = [e |-> L.node[x].e, next |-> New(x)]
  <2> HIDE DEF New
  <2>1. ASSUME NEW a, NEW b, NEW c PROVE [[e |-> a, next |-> b] EXCEPT !.next = c] = [e |-> a, next |-> c]
    OBVIOUS
  <2>2. L.node[x] = [e |-> L.node[x].e, next |-> [i \in Levels |-> L.node[x].next[i]]]
    BY DEF Towers, Shape
  <2> QED BY <1>9, <2>1, <2>2
<1>11. ASSUME NEW x \in Nodes
       PROVE  /\ un[x].e = L.node[x].e /\ un[x] = [e |-> un[x].e, next |-> [i \in Levels |-> un[x].next[i]]]
              /\ \A i \in Levels : un[x].next[i] =
                   IF i < L.lvl /\ update[i] = x /\ L.node[x].next[i] = t
                   THEN L.node[t].next[i] ELSE L.node[x].next[i]
  <2>1. New(x) = [i \in Levels |-> New(x)[i]]
    OBVIOUS
  <2>2. \A i \in Levels : New(x)[i] = IF i < L.lvl /\ update[i] = x /\ L.node[x].next[i] = t
                                      THEN L.node[t].next[i] ELSE L.node[x].next[i]
    OBVIOUS
  <2> HIDE DEF New
  <2>3. un[x].e = L.node[x].e /\ un[x].next = New(x)
    <3> DEFINE r == un[x]
               a == L.node[x].e
               b == New(x)
    <3>1. r = [e |-> a, next |-> b]
      BY <1>10
    <3> HIDE DEF r, a, b
    <3>2. r.e = a /\ r.next = b
      BY <3>1
    <3> QED BY <3>2 DEF r, a, b
  <2>4. un[x] = [e |-> un[x].e, next |-> [i \in Levels |-> un[x].next[i]]]
    BY <1>10, <2>1, <2>3
  <2> QED BY <2>2, <2>3, <2>4
<1>12. /\ \A x \in Nodes \ {t} : R.node[x] = un[x]
       /\ R.node[t] = Free /\ DOMAIN R.node = Nodes /\ R.lvl = Lower(L.lvl, un[HeadNode])
       /\ R.byUser = Restrict(L.byUser, DOMAIN L.byUser \ {u})
  <2>1. /\ R.node = [un EXCEPT ![t] = Free] /\ R.lvl = Lower(L.lvl, un[HeadNode])
        /\ R.byUser = Restrict(L.byUser, DOMAIN L.byUser \ {u})
    BY <1>8
  <2> QED BY <1>1, <1>9, <2>1
<1>13. \A x \in Nodes \ {t} : EntOf(R)[x] = ent[x] /\ R.node[x].e = L.node[x].e
  BY Zenon, <1>11, <1>12 DEF EntOf
<1>14. ASSUME NEW i \in Levels
       PROVE  /\ LinkOf(R, i)[t] = Nil
              /\ \A x \in Nodes \ {t} : LinkOf(R, i)[x] =
                   IF i < L.lvl /\ update[i] = x /\ LinkOf(L, i)[x] = t
                   THEN LinkOf(L, i)[t] ELSE LinkOf(L, i)[x]
  <2>1. LinkOf(R, i)[t] = Nil
    BY <1>1, <1>12 DEF LinkOf, Free, NewNode
  <2>2. ASSUME NEW x \in Nodes \ {t}
        PROVE  LinkOf(R, i)[x] = IF i < L.lvl /\ update[i] = x /\ LinkOf(L, i)[x] = t
                                 THEN LinkOf(L, i)[t] ELSE LinkOf(L, i)[x]
    <3>1. R.node[x].next[i] = IF i < L.lvl /\ update[i] = x /\ L.node[x].next[i] = t
                              THEN L.node[t].next[i] ELSE L.node[x].next[i]
      <4>1. R.node[x] = un[x] /\ x \in Nodes
        BY <1>12
      <4>2. un[x].next[i] = IF i < L.lvl /\ update[i] = x /\ L.node[x].next[i] = t
                            THEN L.node[t].next[i] ELSE L.node[x].next[i]
        BY Zenon, <1>11, <4>1
      <4> QED BY <4>1, <4>2
    <3> QED BY <1>1, <3>1 DEF LinkOf
  <2> QED BY Zenon, <2>1, <2>2
<1>15. ASSUME NEW i \in Levels PROVE Chain(S[i] \ {t}, EntOf(R), LinkOf(R, i))
  <2>1. \A x \in S[i] \ {t} : EntOf(R)[x] = ent[x]
    BY <1>3, <1>13 DEF Ordered, Nodes
  <2>2. CASE t \in S[i]
    <3>1. i < L.lvl
      BY <1>3, <2>2 DEF Towers
    <3>2. update[i] = P[i] /\ LinkOf(L, i)[P[i]] = t /\ P[i] \in Nodes
      <4>1. i \in 0 .. L.lvl - 1
        BY SMTT(30), <1>3, <3>1
      <4> QED BY <1>5, <1>6, <2>2, <4>1 DEF LinkOf
    <3>3. Prec(S[i], ent, ent[t], P[i]) /\ P[i] # t
      <4>1. Prec(S[i], ent, ent[t], P[i])
        BY <1>1, <1>4
      <4> QED BY Zenon, <1>1, <1>3, <2>2, <4>1, LessIrreflexive DEF Prec, Ordered
    <3>4. /\ LinkOf(R, i)[P[i]] = LinkOf(L, i)[t]
          /\ \A x \in Nodes \ {t, P[i]} : LinkOf(R, i)[x] = LinkOf(L, i)[x]
      BY Zenon, <1>14, <3>1, <3>2, <3>3
    <3> DEFINE X == S[i]
               p == P[i]
               next == LinkOf(L, i)
               ent2 == EntOf(R)
               next2 == LinkOf(R, i)
    <3>5. /\ Ordered(X, ent) /\ Chain(X, ent, next) /\ t \in X /\ Prec(X, ent, ent[t], p)
          /\ (\A x \in X \ {t} : ent2[x] = ent[x]) /\ next2[t] = Nil /\ next2[p] = next[t]
          /\ \A x \in Nodes \ {t, p} : next2[x] = next[x]
      BY Zenon, <1>3, <1>14, <2>1, <2>2, <3>3, <3>4
    <3> HIDE DEF ent, X, p, next, ent2, next2
    <3>6. Chain(X \ {t}, ent2, next2)
      BY <3>5, ChainRemove
    <3> QED BY <3>6 DEF X, ent2, next2
  <2>3. CASE t \notin S[i]
    <3>1. LinkOf(L, i)[t] = Nil
      BY <1>1, <1>3, <2>3 DEF Chain
    <3>2. ASSUME NEW x \in Nodes PROVE LinkOf(R, i)[x] = LinkOf(L, i)[x]
      <4>1. LinkOf(L, i)[x] # t
        <5>1. CASE x \in S[i] \cup {HeadNode}
          <6>1. Succ(S[i], ent, x, LinkOf(L, i)[x])
            BY Zenon, <1>3, <5>1 DEF Chain
          <6> QED BY <1>1, <2>3, <6>1, NoConfusion DEF Succ
        <5>2. CASE x \notin S[i] \cup {HeadNode}
          BY <1>1, <1>3, <5>2, NoConfusion DEF Chain, Nodes
        <5> QED BY Zenon, <5>1, <5>2
      <4> QED BY <1>14, <3>1, <4>1
    <3>3. S[i] \ {t} = S[i]
      BY <2>3
    <3> DEFINE X == S[i]
               next == LinkOf(L, i)
               ent2 == EntOf(R)
               next2 == LinkOf(R, i)
    <3>4. /\ Ordered(X, ent) /\ Chain(X, ent, next) /\ (\A x \in X : ent2[x] = ent[x])
          /\ \A x \in Nodes : next2[x] = next[x]
      BY <1>3, <2>1, <3>2, <3>3
    <3> HIDE DEF ent, X, next, ent2, next2
    <3>5. Chain(X, ent2, next2)
      BY <3>4, ChainSame
    <3> QED BY Zenon, <3>3, <3>5 DEF X, ent2, next2
  <2> QED BY <2>2, <2>3
<1>16. Shape(R)
  <2>1. R.lvl \in 1 .. MaxLevel
    <3>1. L.lvl \in 1 .. MaxLevel /\ MaxLevel \in Nat
      BY SkipListAssumption DEF Towers, Shape
    <3>2. R.lvl \in 1 .. L.lvl
      BY <1>12, <3>1, LowerIs
    <3> QED BY <3>1, <3>2
  <2>2. ASSUME NEW x \in Nodes
        PROVE  R.node[x] = [e |-> R.node[x].e, next |-> [i \in Levels |-> R.node[x].next[i]]]
    <3>1. CASE x = t
      BY <1>12, <3>1 DEF Free, NewNode
    <3>2. CASE x # t
      BY Zenon, <1>11, <1>12, <3>2
    <3> QED BY Zenon, <3>1, <3>2
  <2> QED BY <1>12, <2>1, <2>2 DEF Shape
<1>17. Known(R, S2)
  <2>1. S2[0] = S[0] \ {t}
    BY <1>3
  <2>2. /\ DOMAIN R.byUser = DOMAIN L.byUser \ {u}
        /\ \A v \in DOMAIN L.byUser \ {u} : R.byUser[v] = L.byUser[v]
    BY Zenon, <1>12 DEF Restrict
  <2>3. ASSUME NEW v \in DOMAIN L.byUser
        PROVE  /\ v \in Users /\ L.byUser[v] \in NodeIds /\ L.byUser[v] \in Nodes
               /\ L.node[L.byUser[v]].e \in [User : Users, Score : Scores]
               /\ L.node[L.byUser[v]].e.User = v /\ (v # u => L.byUser[v] # t)
    BY Zenon, <1>1 DEF Towers, Known, Nodes, t
  <2>4. S[0] = Range(L.byUser)
    BY Zenon DEF Towers, Known
  <2>5. S2[0] = Range(R.byUser)
    <3>1. t = L.byUser[u]
      BY Zenon DEF t
    <3> QED BY <2>1, <2>2, <2>3, <2>4, <3>1 DEF Range
  <2>6. ASSUME NEW v \in DOMAIN R.byUser
        PROVE  /\ v \in Users /\ R.byUser[v] \in NodeIds
               /\ R.node[R.byUser[v]].e \in [User : Users, Score : Scores]
               /\ R.node[R.byUser[v]].e.User = v
    BY <1>13, <2>2, <2>3
  <2>7. ASSUME NEW x \in NodeIds \ S2[0] PROVE R.node[x] = Free
    <3>1. CASE x = t
      BY <1>12, <3>1
    <3>2. CASE x # t
      <4>1. L.node[x] = Free /\ x \in Nodes
        BY <2>1, <3>2 DEF Towers, Known, Nodes
      <4>2. \A i \in Levels : L.node[x].next[i] = Nil
        BY <4>1 DEF Free, NewNode
      <4>3. R.node[x] = [e |-> Free.e, next |-> [i \in Levels |-> Nil]]
        <5>1. R.node[x] = un[x] /\ un[x].e = Free.e
          BY Zenon, <1>11, <1>12, <3>2, <4>1
        <5>2. \A i \in Levels : un[x].next[i] = Nil
          BY ZenonT(30), <1>1, <1>11, <4>1, <4>2, NoConfusion
        <5> QED BY <1>11, <4>1, <5>1, <5>2
      <4> QED BY Zenon, <4>3 DEF Free, NewNode
    <3> QED BY <3>1, <3>2
  <2> HIDE DEF S2
  <2> QED BY <2>5, <2>6, <2>7 DEF Known
<1>18. ASSUME NEW i \in Levels, R.lvl <= i PROVE S2[i] = {}
  <2>1. CASE L.lvl <= i
    BY <2>1 DEF Towers
  <2>2. CASE ~(L.lvl <= i)
    <3>1. i \in R.lvl .. L.lvl - 1 /\ L.lvl \in 1 .. MaxLevel
      BY <1>3, <1>16, <1>18, <2>2 DEF Shape, Towers
    <3>2. un[HeadNode].next[i] = Nil
      BY <1>12, <3>1, LowerIs
    <3>3. LinkOf(R, i)[HeadNode] = Nil
      BY <1>1, <1>12, <3>2 DEF LinkOf, Nodes
    <3>4. Succ(S[i] \ {t}, EntOf(R), HeadNode, Nil)
      BY <1>15, <3>3 DEF Chain
    <3>5. S[i] \subseteq NodeIds
      BY <1>3 DEF Ordered
    <3> QED BY Zenon, <3>4, <3>5, NoConfusion DEF Succ, After
  <2> QED BY <2>1, <2>2
<1>19. Towers(R, S2)
  <2>1. S2 \in [Levels -> SUBSET NodeIds] /\ \A i, j \in Levels : j <= i => S2[i] \subseteq S2[j]
    BY DEF Towers
  <2>2. \A i \in Levels : Chain(S2[i], EntOf(R), LinkOf(R, i))
    BY <1>15
  <2> HIDE DEF S2
  <2> QED BY <1>16, <1>17, <1>18, <2>1, <2>2 DEF Towers
<1> QED BY ZenonT(40), <1>12, <1>13, <1>19 DEF R, t

(* There is room for a user who is not in the list.                        *)
LEMMA FreeExists ==
  ASSUME NEW L, NEW S, Towers(L, S), NEW u \in Users \ DOMAIN L.byUser
  PROVE  \E x \in NodeIds : L.node[x] = Free
<1> DEFINE D == DOMAIN L.byUser
<1> SUFFICES ASSUME \A x \in NodeIds : L.node[x] # Free PROVE FALSE
  OBVIOUS
<1>1. /\ Range(L.byUser) = NodeIds /\ \A v \in D : L.byUser[v] \in NodeIds
      /\ D \in SUBSET (Users \ {u})
  <2>1. S[0] \subseteq NodeIds
    BY Zenon, TowersOrdered DEF Towers
  <2>2. NodeIds \subseteq S[0]
    BY Zenon DEF Towers, Known
  <2>3. S[0] = Range(L.byUser)
    BY DEF Towers, Known
  <2>4. \A v \in D : v \in Users /\ L.byUser[v] \in NodeIds
    BY DEF Towers, Known
  <2>5. D \in SUBSET (Users \ {u})
    BY <2>4
  <2> QED BY Zenon, <2>1, <2>2, <2>3, <2>4, <2>5
<1>2. IsFiniteSet(Users \ {u}) /\ Cardinality(Users \ {u}) = Cardinality(Users) - 1
  BY SkipListAssumption, FS_RemoveElement
<1>3. IsFiniteSet(D) /\ Cardinality(D) <= Cardinality(Users) - 1
  BY <1>1, <1>2, FS_Subset
<1> DEFINE f == [v \in D |-> L.byUser[v]]
<1>4. f \in Surjection(D, NodeIds)
  BY <1>1 DEF Surjection, Range
<1>5. Cardinality(NodeIds) <= Cardinality(D)
  BY <1>3, <1>4, FS_Surjection
<1> QED BY <1>3, <1>5, SkipListAssumption, FS_CardinalityType

(* A new node put in, with any height, leaves a skip list with it.         *)
LEMMA InsertTowers ==
  ASSUME NEW L, NEW S, Towers(L, S), NEW u \in Users \ DOMAIN L.byUser, NEW s \in Scores,
         NEW h \in 1 .. MaxLevel, NEW n \in NodeIds, L.node[n] = Free
  PROVE  LET e == [User |-> u, Score |-> s]
             R == Insert(L, e, h, n)
         IN  /\ Towers(R, [i \in Levels |-> IF i < h THEN S[i] \cup {n} ELSE S[i]])
             /\ R.byUser = [v \in DOMAIN L.byUser \cup {u} |-> IF v = u THEN n ELSE L.byUser[v]]
             /\ R.node[n].e = e /\ \A x \in Nodes \ {n} : R.node[x].e = L.node[x].e
             /\ n \notin S[0]
<1> DEFINE e == [User |-> u, Score |-> s]
           R == Insert(L, e, h, n)
           S2 == [i \in Levels |-> IF i < h THEN S[i] \cup {n} ELSE S[i]]
           ent == EntOf(L)
           P == [i \in Levels |-> CHOOSE p : Prec(S[i], ent, e, p)]
           update == Search(L, e)
           prev == [i \in 0 .. h - 1 |-> IF i < L.lvl THEN update[i] ELSE HeadNode]
           Fresh == [i \in Levels |-> IF i < h THEN L.node[prev[i]].next[i] ELSE Nil]
           New(x) == [i \in Levels |-> IF i < h /\ prev[i] = x THEN n ELSE L.node[x].next[i]]
<1>1. /\ e \in [User : Users, Score : Scores] /\ e \in Entries /\ e.User = u /\ n # HeadNode
      /\ n \in Nodes
  BY Zenon, EntriesOfUsers, NoConfusion DEF Nodes
<1>2. /\ \A i \in Levels : Ordered(S[i], ent)
      /\ 0 \in Levels /\ L.lvl \in Nat \ {0} /\ DOMAIN L.node = Nodes
      /\ \A i \in Levels : Chain(S[i], ent, LinkOf(L, i)) /\ i \in Nat /\ i < MaxLevel
      /\ MaxLevel \in Nat /\ h \in Nat
  <2>1. MaxLevel \in Nat /\ h \in Nat
    BY SkipListAssumption
  <2>2. \A i \in Levels : i \in Nat /\ i < MaxLevel
    BY <2>1 DEF Levels
  <2> QED BY <2>1, <2>2, TowersOrdered DEF Towers, Shape
<1>3. n \notin S[0]
  <2>1. Nil \notin Users
    BY SkipListAssumption DEF Nil
  <2>2. ent[n] = Free.e /\ Free.e.User = Nil
    BY <1>1 DEF EntOf, Free, NewNode
  <2>3. \A x \in S[0] : ent[x].User \in Users
    BY TowersOrdered
  <2> HIDE DEF ent
  <2> QED BY <2>1, <2>2, <2>3
<1>4. \A i \in Levels : S[i] \subseteq S[0] /\ n \notin S[i]
  BY <1>2, <1>3 DEF Towers
<1>5. \A i \in Levels : Prec(S[i], ent, e, P[i])
  BY Zenon, <1>1, <1>2, PrecExists
<1> HIDE DEF P
<1>6. ASSUME NEW i \in Levels, i < h
      PROVE  i \in 0 .. h - 1 /\ prev[i] = P[i] /\ P[i] \in Nodes /\ P[i] # n
             /\ L.node[prev[i]].next[i] = LinkOf(L, i)[P[i]]
  <2>1. P[i] \in Nodes /\ P[i] # n
    BY <1>1, <1>2, <1>4, <1>5 DEF Prec, Ordered, Nodes
  <2>2. i \in 0 .. h - 1
    BY <1>2, <1>6
  <2>3. CASE i < L.lvl
    <3>1. i \in 0 .. L.lvl - 1
      BY SMTT(30), <1>2, <2>3
    <3>2. update[i] = P[i]
      BY SMTT(30), <1>1, <1>5, <3>1, SearchIs
    <3> QED BY <2>1, <2>2, <2>3, <3>2 DEF LinkOf
  <2>4. CASE ~(i < L.lvl)
    <3>1. S[i] = {}
      BY SMTT(30), <1>2, <2>4 DEF Towers
    <3>2. P[i] = HeadNode
      BY <1>5, <3>1 DEF Prec
    <3> QED BY <2>1, <2>2, <2>4, <3>2 DEF LinkOf
  <2> QED BY ZenonT(40), <2>3, <2>4
<1>7. /\ R.node = [x \in DOMAIN L.node |-> IF x = n THEN [e |-> e, next |-> Fresh]
                                           ELSE [L.node[x] EXCEPT !.next = New(x)]]
      /\ R.lvl = IF h > L.lvl THEN h ELSE L.lvl
      /\ R.byUser = [v \in DOMAIN L.byUser \cup {u} |-> IF v = u THEN n ELSE L.byUser[v]]
  BY DEF Insert
<1> HIDE DEF R, prev
<1>8. /\ \A i \in Levels : Fresh[i] = IF i < h THEN L.node[prev[i]].next[i] ELSE Nil
      /\ Fresh = [i \in Levels |-> Fresh[i]]
  OBVIOUS
<1>9. ASSUME NEW x \in Nodes
      PROVE  /\ \A i \in Levels : New(x)[i] = IF i < h /\ prev[i] = x THEN n ELSE L.node[x].next[i]
             /\ New(x) = [i \in Levels |-> New(x)[i]]
  OBVIOUS
<1> HIDE DEF Fresh, New, e
<1>10. DOMAIN R.node = Nodes /\ R.node[n] = [e |-> e, next |-> Fresh]
  BY <1>1, <1>2, <1>7
<1>11. ASSUME NEW x \in Nodes \ {n} PROVE R.node[x] = [e |-> L.node[x].e, next |-> New(x)]
  <2>1. ASSUME NEW a, NEW b, NEW c PROVE [[e |-> a, next |-> b] EXCEPT !.next = c] = [e |-> a, next |-> c]
    OBVIOUS
  <2>2. L.node[x] = [e |-> L.node[x].e, next |-> [i \in Levels |-> L.node[x].next[i]]]
    BY DEF Towers, Shape
  <2>3. R.node[x] = [L.node[x] EXCEPT !.next = New(x)]
    BY <1>2, <1>7
  <2> QED BY <2>1, <2>2, <2>3
<1>12. ASSUME NEW r, NEW a, NEW b, r = [e |-> a, next |-> b] PROVE r.e = a /\ r.next = b
  BY <1>12
<1>13. R.node[n].e = e /\ R.node[n].next = Fresh
  BY <1>10, <1>12
<1>14. ASSUME NEW x \in Nodes \ {n} PROVE R.node[x].e = L.node[x].e /\ R.node[x].next = New(x)
  <2> DEFINE r == R.node[x]
             a == L.node[x].e
             b == New(x)
  <2>1. r = [e |-> a, next |-> b]
    BY <1>11
  <2> HIDE DEF r, a, b
  <2>2. r.e = a /\ r.next = b
    BY <1>12, <2>1
  <2> QED BY <2>2 DEF r, a, b
<1>15. EntOf(R)[n] = e /\ \A x \in Nodes \ {n} : EntOf(R)[x] = ent[x]
  BY <1>1, <1>13, <1>14 DEF EntOf
<1>16. ASSUME NEW i \in Levels
       PROVE  /\ LinkOf(R, i)[n] = IF i < h THEN LinkOf(L, i)[P[i]] ELSE Nil
              /\ \A x \in Nodes \ {n} : LinkOf(R, i)[x] =
                   IF i < h /\ P[i] = x THEN n ELSE LinkOf(L, i)[x]
  <2>1. LinkOf(R, i)[n] = IF i < h THEN LinkOf(L, i)[P[i]] ELSE Nil
    <3>1. LinkOf(R, i)[n] = Fresh[i]
      BY <1>1, <1>13 DEF LinkOf
    <3> QED BY <1>6, <1>8, <3>1
  <2>2. ASSUME NEW x \in Nodes \ {n}
        PROVE  LinkOf(R, i)[x] = IF i < h /\ P[i] = x THEN n ELSE LinkOf(L, i)[x]
    <3>1. LinkOf(R, i)[x] = New(x)[i] /\ LinkOf(L, i)[x] = L.node[x].next[i]
      BY <1>14 DEF LinkOf
    <3> QED BY <1>6, <1>9, <3>1
  <2> QED BY <2>1, <2>2
<1>17. ASSUME NEW i \in Levels PROVE Chain(S2[i], EntOf(R), LinkOf(R, i))
  <2> DEFINE X == S[i]
             p == P[i]
             next == LinkOf(L, i)
             ent2 == EntOf(R)
             next2 == LinkOf(R, i)
  <2>1. /\ Ordered(X, ent) /\ Chain(X, ent, next) /\ Prec(X, ent, e, p) /\ n \in NodeIds \ X
        /\ ent2[n] = e /\ \A x \in X : ent2[x] = ent[x]
    <3>1. \A x \in X : x \in Nodes \ {n}
      BY Zenon, <1>2, <1>4 DEF Ordered, Nodes
    <3> QED BY Zenon, <1>2, <1>4, <1>5, <1>15, <3>1
  <2>2. CASE i < h
    <3>1. S2[i] = X \cup {n}
      BY <2>2
    <3>2. \A x \in X : ent[x].User # e.User
      <4>1. ASSUME NEW x \in S[0] PROVE ent[x].User \in DOMAIN L.byUser
        <5>1. PICK v \in DOMAIN L.byUser : L.byUser[v] = x
          BY DEF Towers, Known, Range
        <5> QED BY Zenon, <5>1 DEF Towers, Known, EntOf, Nodes
      <4> QED BY Zenon, <1>1, <1>4, <4>1
    <3>3. /\ next2[n] = next[p] /\ next2[p] = n
          /\ \A x \in Nodes \ {n, p} : next2[x] = next[x]
      BY ZenonT(40), <1>6, <1>16, <2>2
    <3> HIDE DEF X, p, next, ent2, next2, ent
    <3>4. Chain(X \cup {n}, ent2, next2)
      BY <1>1, <2>1, <3>2, <3>3, ChainInsert
    <3> QED BY Zenon, <3>1, <3>4 DEF ent2, next2
  <2>3. CASE ~(i < h)
    <3>1. S2[i] = X
      BY Zenon, <2>3
    <3>2. next2[n] = Nil /\ next[n] = Nil /\ \A x \in Nodes \ {n} : next2[x] = next[x]
      BY Zenon, <1>16, <2>1, <2>3 DEF Chain
    <3>3. \A x \in Nodes : next2[x] = next[x]
      BY <3>2
    <3> HIDE DEF X, p, next, ent2, next2, ent
    <3>4. Chain(X, ent2, next2)
      BY Zenon, <2>1, <3>3, ChainSame
    <3> QED BY ZenonT(30), <3>1, <3>4 DEF ent2, next2
  <2> QED BY Zenon, <2>2, <2>3
<1>18. Shape(R)
  <2>1. R.lvl \in 1 .. MaxLevel
    BY <1>2, <1>7 DEF Towers, Shape
  <2>2. ASSUME NEW x \in Nodes
        PROVE  R.node[x] = [e |-> R.node[x].e, next |-> [i \in Levels |-> R.node[x].next[i]]]
    <3>1. CASE x = n
      BY Zenon, <1>8, <1>10, <1>13, <3>1
    <3>2. CASE x # n
      BY Zenon, <1>9, <1>11, <1>14, <3>2
    <3> QED BY <3>1, <3>2
  <2> QED BY <1>10, <2>1, <2>2 DEF Shape
<1>19. Known(R, S2)
  <2>1. S2[0] = S[0] \cup {n} /\ S[0] = Range(L.byUser)
    BY <1>2 DEF Towers, Known
  <2>2. /\ DOMAIN R.byUser = DOMAIN L.byUser \cup {u} /\ R.byUser[u] = n
        /\ \A v \in DOMAIN L.byUser : R.byUser[v] = L.byUser[v]
    BY ZenonT(40), <1>7
  <2>3. ASSUME NEW v \in DOMAIN L.byUser
        PROVE  /\ v \in Users /\ L.byUser[v] \in NodeIds /\ L.byUser[v] \in Nodes \ {n}
               /\ L.node[L.byUser[v]].e \in [User : Users, Score : Scores]
               /\ L.node[L.byUser[v]].e.User = v
    <3>1. L.byUser[v] \in S[0]
      BY <2>1 DEF Range
    <3> QED BY <1>3, <3>1 DEF Towers, Known, Nodes
  <2>4. S2[0] = Range(R.byUser)
    BY SMTT(30), <2>1, <2>2 DEF Range
  <2>5. ASSUME NEW v \in DOMAIN R.byUser
        PROVE  /\ v \in Users /\ R.byUser[v] \in NodeIds
               /\ R.node[R.byUser[v]].e \in [User : Users, Score : Scores]
               /\ R.node[R.byUser[v]].e.User = v
    <3>1. CASE v = u
      BY Zenon, <1>1, <1>13, <2>2, <3>1
    <3>2. CASE v # u
      BY SMTT(30), <1>14, <2>2, <2>3, <3>2
    <3> QED BY Zenon, <3>1, <3>2
  <2>6. ASSUME NEW x \in NodeIds \ S2[0] PROVE R.node[x] = Free
    <3>1. /\ x \in Nodes \ {n} /\ L.node[x] = Free /\ x \notin S[0]
      BY <2>1 DEF Towers, Known, Nodes
    <3>2. \A i \in Levels : L.node[x].next[i] = Nil
      BY <3>1 DEF Free, NewNode
    <3>3. \A i \in Levels : i < h => prev[i] # x
      <4>1. \A i \in Levels : P[i] # x
        BY Zenon, <1>4, <1>5, <3>1, NoConfusion DEF Prec
      <4> QED BY Zenon, <1>6, <4>1
    <3>4. \A i \in Levels : New(x)[i] = Nil
      BY ZenonT(40), <1>9, <3>1, <3>2, <3>3
    <3>5. R.node[x] = [e |-> Free.e, next |-> [i \in Levels |-> Nil]]
      <4>1. New(x) = [i \in Levels |-> Nil]
        BY ZenonT(40), <1>9, <3>1, <3>4
      <4> QED BY <1>11, <3>1, <4>1
    <3> QED BY Zenon, <3>5 DEF Free, NewNode
  <2> HIDE DEF S2
  <2> QED BY ZenonT(40), <2>4, <2>5, <2>6 DEF Known
<1>20. ASSUME NEW i \in Levels, R.lvl <= i PROVE S2[i] = {}
  <2>1. L.lvl <= i /\ ~(i < h)
    BY <1>2, <1>7, <1>20
  <2> QED BY <2>1 DEF Towers
<1>21. Towers(R, S2)
  <2>1. S2 \in [Levels -> SUBSET NodeIds]
    BY DEF Towers
  <2>2. ASSUME NEW i \in Levels, NEW j \in Levels, j <= i PROVE S2[i] \subseteq S2[j]
    <3>1. S[i] \subseteq S[j] /\ (i < h => j < h)
      BY <1>2, <2>2 DEF Towers
    <3> QED BY <3>1
  <2> HIDE DEF S2
  <2> QED BY Zenon, <1>17, <1>18, <1>19, <1>20, <2>1, <2>2 DEF Towers
<1> QED BY <1>3, <1>7, <1>13, <1>14, <1>21 DEF R, e

-----------------------------------------------------------------------------
(* The list is always a skip list                                          *)

(* The nodes that some link of level i points to.                          *)
Links(L, i) == {L.node[x].next[i] : x \in DOMAIN L.node} \ {Nil}

(* The inductive invariant: every level links, in order, the nodes that    *)
(* its links point to, and these are nested.                               *)
SkipInv == Towers(list, [i \in Levels |-> Links(list, i)])

(* The nodes of a level are those its links point to.                      *)
LEMMA LinksAre ==
  ASSUME NEW L, NEW S, Towers(L, S)
  PROVE  S = [i \in Levels |-> Links(L, i)]
<1>1. ASSUME NEW i \in Levels PROVE S[i] = Links(L, i)
  <2> DEFINE X == S[i]
             ent == EntOf(L)
             next == LinkOf(L, i)
  <2>1. /\ Ordered(X, ent) /\ Chain(X, ent, next) /\ DOMAIN L.node = Nodes
        /\ X \subseteq Nodes /\ HeadNode \in Nodes /\ Nil \notin X
        /\ \A x \in Nodes : next[x] = L.node[x].next[i]
    BY ZenonT(30), TowersOrdered, NoConfusion DEF Towers, Shape, Ordered, Nodes, LinkOf
  <2>2. Links(L, i) = {next[x] : x \in Nodes} \ {Nil}
    BY ZenonT(40), <2>1 DEF Links
  <2> HIDE DEF X, ent, next
  <2>3. ASSUME NEW t \in X PROVE t \in {next[x] : x \in Nodes} \ {Nil}
    <3>1. PICK p : Prec(X, ent, ent[t], p)
      BY Zenon, <2>1, PrecExists
    <3>2. next[p] = t /\ p \in Nodes
      BY SMTT(30), <2>1, <3>1, PrecLinks DEF Prec
    <3> QED BY Zenon, <2>1, <3>2
  <2>4. ASSUME NEW x \in Nodes, next[x] # Nil PROVE next[x] \in X
    BY <2>1, <2>4 DEF Chain, Succ, Nodes
  <2> QED BY SMTT(30), <2>2, <2>3, <2>4 DEF X
<1> QED BY Zenon, <1>1 DEF Towers

(* A new list is empty on every level.                                     *)
LEMMA InitTowers == Towers(NewSkipList, [i \in Levels |-> {}])
<1> DEFINE L == NewSkipList
           S == [i \in Levels |-> {}]
           b == [u \in {} |-> Nil]
<1>1. /\ L.node = [x \in Nodes |-> Free] /\ L.lvl = 1 /\ L.byUser = b
  BY DEF NewSkipList, Nodes
<1>2. DOMAIN b = {} /\ Range(b) = {}
  BY DEF Range
<1>3. 0 \in Levels /\ MaxLevel \in Nat \ {0}
  BY SkipListAssumption DEF Levels
<1>4. Free.next = [i \in Levels |-> Nil] /\ Free = [e |-> Free.e, next |-> [i \in Levels |-> Nil]]
  BY DEF Free, NewNode
<1> HIDE DEF L, b
<1>5. Shape(L)
  BY <1>1, <1>3, <1>4 DEF Shape
<1>6. Known(L, S)
  BY Zenon, <1>1, <1>2, <1>3 DEF Known, Nodes
<1>7. ASSUME NEW i \in Levels PROVE Chain(S[i], EntOf(L), LinkOf(L, i))
  BY Zenon, <1>1, <1>4 DEF Chain, Succ, LinkOf, Nodes
<1> QED BY <1>5, <1>6, <1>7 DEF Towers, L

(* What Remove does: the user's node goes, if there is one.                *)
LEMMA RemoveIs ==
  ASSUME NEW L, NEW S, Towers(L, S), NEW u \in Users, NEW R, R = RemoveUser(L, u)
  PROVE  /\ \E T : Towers(R, T)
         /\ DOMAIN R.byUser = DOMAIN L.byUser \ {u}
         /\ \A v \in DOMAIN L.byUser \ {u} : R.node[R.byUser[v]].e = L.node[L.byUser[v]].e
<1>1. CASE u \in DOMAIN L.byUser
  <2> DEFINE t == L.byUser[u]
             S1 == [i \in Levels |-> S[i] \ {t}]
             Q == RemoveUser(L, u)
  <2>1. /\ Towers(Q, S1)
        /\ Q.byUser = Restrict(L.byUser, DOMAIN L.byUser \ {u})
        /\ \A x \in Nodes \ {t} : Q.node[x].e = L.node[x].e
    BY Zenon, <1>1, RemoveTowers
  <2>2. ASSUME NEW v \in DOMAIN L.byUser \ {u} PROVE L.byUser[v] \in Nodes \ {t}
    BY <1>1 DEF Towers, Known, Nodes
  <2>3. R = Q
    OBVIOUS
  <2> HIDE DEF S1, t, Q
  <2>4. DOMAIN R.byUser = DOMAIN L.byUser \ {u}
        /\ \A v \in DOMAIN L.byUser \ {u} : R.byUser[v] = L.byUser[v]
    BY Zenon, <2>1, <2>3 DEF Restrict
  <2>5. ASSUME NEW v \in DOMAIN L.byUser \ {u}
        PROVE  R.node[R.byUser[v]].e = L.node[L.byUser[v]].e
    BY <2>1, <2>2, <2>3, <2>4
  <2> QED BY <2>1, <2>3, <2>4, <2>5
<1>2. CASE u \notin DOMAIN L.byUser
  BY Zenon, <1>2 DEF RemoveUser
<1> QED BY Zenon, <1>1, <1>2

(* R is L with a node n for u, and what that means to those who look.      *)
Inserted(R, L, u, s, h, n) == R = Insert(L, [User |-> u, Score |-> s], h, n)

Gained(R, L, u, s) ==
  /\ \E T : Towers(R, T)
  /\ DOMAIN R.byUser = DOMAIN L.byUser \cup {u}
  /\ R.node[R.byUser[u]].e = [User |-> u, Score |-> s]
  /\ \A v \in DOMAIN L.byUser : R.node[R.byUser[v]].e = L.node[L.byUser[v]].e

(* What the rest of Update does: the user has a node with the new score.   *)
LEMMA InsertIs ==
  ASSUME NEW L, NEW S, Towers(L, S), NEW u \in Users \ DOMAIN L.byUser, NEW s \in Scores,
         NEW h \in 1 .. MaxLevel, NEW n \in NodeIds, L.node[n] = Free,
         NEW R, Inserted(R, L, u, s, h, n)
  PROVE  Gained(R, L, u, s)
<1> DEFINE e == [User |-> u, Score |-> s]
           Q == Insert(L, e, h, n)
           S2 == [i \in Levels |-> IF i < h THEN S[i] \cup {n} ELSE S[i]]
<1>1. /\ Towers(Q, S2)
      /\ Q.byUser = [v \in DOMAIN L.byUser \cup {u} |-> IF v = u THEN n ELSE L.byUser[v]]
      /\ Q.node[n].e = e /\ \A x \in Nodes \ {n} : Q.node[x].e = L.node[x].e
      /\ n \notin S[0]
  BY Zenon, InsertTowers
<1>2. R = Q
  BY Zenon DEF Inserted
<1>3. ASSUME NEW v \in DOMAIN L.byUser PROVE L.byUser[v] \in Nodes \ {n}
  <2>1. L.byUser[v] \in S[0] /\ L.byUser[v] \in NodeIds
    BY Zenon DEF Towers, Known, Range
  <2>2. n \notin S[0]
    BY <1>1
  <2> QED BY Zenon, <2>1, <2>2 DEF Nodes
<1> HIDE DEF Q, S2, e
<1>4. /\ DOMAIN R.byUser = DOMAIN L.byUser \cup {u} /\ R.byUser[u] = n
      /\ \A v \in DOMAIN L.byUser : R.byUser[v] = L.byUser[v]
  BY Zenon, <1>1, <1>2
<1>5. ASSUME NEW v \in DOMAIN L.byUser
      PROVE  R.node[R.byUser[v]].e = L.node[L.byUser[v]].e
  BY Zenon, <1>1, <1>2, <1>3, <1>4
<1>6. R.node[R.byUser[u]].e = e
  BY Zenon, <1>1, <1>2, <1>4
<1> QED BY Zenon, <1>1, <1>2, <1>4, <1>5, <1>6 DEF e, Gained

(* Update: the user's old node goes, a new one takes its place.            *)
LEMMA UpdateIs ==
  ASSUME NEW S, Towers(list, S), NEW u \in Users, NEW s \in Scores, Update(u, s)
  PROVE  /\ \E T : Towers(list', T)
         /\ DOMAIN list'.byUser = DOMAIN list.byUser \cup {u}
         /\ list'.node[list'.byUser[u]].e = [User |-> u, Score |-> s]
         /\ \A v \in DOMAIN list.byUser \ {u} :
              list'.node[list'.byUser[v]].e = list.node[list.byUser[v]].e
<1> DEFINE M == RemoveUser(list, u)
           n == CHOOSE x \in NodeIds : M.node[x] = Free
<1>1. PICK h \in 1 .. MaxLevel : list' = Insert(M, [User |-> u, Score |-> s], h, n)
  BY Zenon DEF Update
<1>2. /\ \E T : Towers(M, T)
      /\ DOMAIN M.byUser = DOMAIN list.byUser \ {u}
      /\ \A v \in DOMAIN list.byUser \ {u} : M.node[M.byUser[v]].e = list.node[list.byUser[v]].e
  BY RemoveIs
<1> HIDE DEF M
<1>3. PICK S1 : Towers(M, S1)
  BY <1>2
<1>4. u \in Users \ DOMAIN M.byUser
  BY <1>2
<1>5. n \in NodeIds /\ M.node[n] = Free
  BY Zenon, <1>3, <1>4, FreeExists
<1> HIDE DEF n
<1>6. Gained(list', M, u, s)
  <2>1. Inserted(list', M, u, s, h, n)
    BY Zenon, <1>1 DEF Inserted
  <2> QED BY Zenon, <1>3, <1>4, <1>5, <2>1, InsertIs
<1> QED BY Zenon, <1>2, <1>6 DEF Gained

(* Every operation leaves a skip list.                                     *)
LEMMA SkipStep == SkipInv /\ [Next]_vars => SkipInv'
<1> SUFFICES ASSUME SkipInv, [Next]_vars PROVE SkipInv'
  OBVIOUS
<1>1. PICK S : Towers(list, S)
  BY DEF SkipInv
<1>2. \E S2 : Towers(list', S2)
  <2>1. CASE \E u \in Users, s \in Scores : Update(u, s)
    BY Zenon, <1>1, <2>1, UpdateIs
  <2>2. CASE \E u \in Users : Remove(u)
    BY <1>1, <2>2, RemoveIs DEF Remove
  <2>3. CASE list' = list
    BY <1>1, <2>3
  <2> QED BY <2>1, <2>2, <2>3 DEF Next, Get, TopN, vars
<1> QED BY <1>2, LinksAre DEF SkipInv

(* Levels, links and byUser agree.                                         *)
LEMMA SkipNested == SkipInv => TowersNested
<1> SUFFICES ASSUME SkipInv PROVE TowersNested
  OBVIOUS
<1> DEFINE S == [i \in Levels |-> Links(list, i)]
<1>1. Towers(list, S)
  BY DEF SkipInv
<1>2. \A i \in Levels : Linked(i) = S[i]
  BY SMTT(30) DEF Linked, Links
<1> HIDE DEF S
<1>3. Linked(0) = Range(list.byUser)
  BY Zenon, <1>1, <1>2, TowersOrdered DEF Towers, Known
<1>4. ASSUME NEW i \in Levels \ {0} PROVE Linked(i) \subseteq Linked(i - 1)
  <2>1. i - 1 \in Levels /\ i - 1 <= i
    BY SkipListAssumption DEF Levels
  <2> QED BY <1>1, <1>2, <2>1 DEF Towers
<1>5. ASSUME NEW i \in Levels, NEW x \in NodeIds, list.node[x].next[i] # Nil
      PROVE  less(list.node[x].e, list.node[list.node[x].next[i]].e)
  <2> DEFINE X == S[i]
             ent == EntOf(list)
             next == LinkOf(list, i)
  <2>1. /\ Ordered(X, ent) /\ Chain(X, ent, next) /\ x # HeadNode
        /\ next[x] = list.node[x].next[i] /\ ent[x] = list.node[x].e
        /\ \A y \in NodeIds : ent[y] = list.node[y].e
    BY Zenon, <1>1, TowersOrdered, NoConfusion DEF Towers, Nodes, LinkOf, EntOf
  <2> HIDE DEF X, ent, next
  <2>2. x \in X /\ Succ(X, ent, x, next[x]) /\ next[x] # Nil
    BY Zenon, <1>5, <2>1 DEF Chain
  <2>3. next[x] \in NodeIds /\ less(ent[x], ent[next[x]])
    BY <2>1, <2>2 DEF Succ, After, Ordered
  <2> QED BY SMTT(30), <2>1, <2>3
<1> QED BY <1>3, <1>4, <1>5 DEF TowersNested

(* Whatever heights the nodes get and however often users move: levels are *)
(* nested and in strict order, and level 0 links exactly the nodes that    *)
(* byUser knows, so that a removed node is on no level.                    *)
THEOREM LevelsAgree == Spec => []TowersNested
<1>1. Init => SkipInv
  BY InitTowers, LinksAre DEF Init, SkipInv
<1> QED BY <1>1, SkipStep, SkipNested, PTL DEF Spec

-----------------------------------------------------------------------------
(* Places                                                                  *)

(* A node's place in the order; the head is before the first.              *)
Rank(S, ent, x) ==
  IF x = HeadNode THEN 0 ELSE 1 + Cardinality({y \in S : less(ent[y], ent[x])})

(* Places are numbers up to the number of nodes.                           *)
LEMMA RankType ==
  ASSUME NEW S, NEW ent, Ordered(S, ent), NEW x \in S \cup {HeadNode}
  PROVE  /\ Rank(S, ent, x) \in Nat /\ IsFiniteSet(S) /\ Cardinality(S) \in Nat
         /\ Rank(S, ent, x) <= Cardinality(S)
<1>1. IsFiniteSet(S) /\ Cardinality(S) \in Nat
  BY Zenon, SkipListAssumption, FS_Subset, FS_CardinalityType DEF Ordered
<1>2. CASE x = HeadNode
  BY <1>1, <1>2 DEF Rank
<1>3. CASE x \in S /\ x # HeadNode
  <2> DEFINE T == {y \in S : less(ent[y], ent[x])}
  <2>1. T \in SUBSET S /\ x \notin T
    BY <1>3, LessIrreflexive DEF Ordered
  <2>2. IsFiniteSet(T) /\ Cardinality(T) \in Nat /\ Cardinality(T) <= Cardinality(S)
        /\ Cardinality(T) # Cardinality(S)
    BY <1>1, <1>3, <2>1, FS_Subset, FS_CardinalityType
  <2>3. Rank(S, ent, x) = 1 + Cardinality(T)
    BY <1>3 DEF Rank
  <2> HIDE DEF T
  <2> QED BY <1>1, <2>2, <2>3
<1> QED BY <1>2, <1>3

(* A later node has a higher place.                                        *)
LEMMA RankGrows ==
  ASSUME NEW S, NEW ent, Ordered(S, ent), NEW x \in S, NEW y \in S, less(ent[x], ent[y])
  PROVE  Rank(S, ent, x) < Rank(S, ent, y)
<1> DEFINE T(z) == {w \in S : less(ent[w], ent[z])}
<1>1. IsFiniteSet(S) /\ x # HeadNode /\ y # HeadNode
  BY RankType, NoConfusion DEF Ordered
<1>2. T(y) \in SUBSET S /\ T(x) \in SUBSET T(y) /\ x \in T(y) /\ x \notin T(x)
  <2>1. ASSUME NEW w \in S, less(ent[w], ent[x]) PROVE less(ent[w], ent[y])
    BY <2>1, LessTransitive DEF Ordered
  <2> QED BY <2>1, LessIrreflexive DEF Ordered
<1>3. Rank(S, ent, x) = 1 + Cardinality(T(x)) /\ Rank(S, ent, y) = 1 + Cardinality(T(y))
  BY <1>1 DEF Rank
<1> HIDE DEF T
<1>4. IsFiniteSet(T(x)) /\ IsFiniteSet(T(y))
  BY <1>1, <1>2, FS_Subset
<1>5. /\ Cardinality(T(x)) \in Nat /\ Cardinality(T(y)) \in Nat
      /\ Cardinality(T(x)) <= Cardinality(T(y)) /\ Cardinality(T(x)) # Cardinality(T(y))
  BY <1>2, <1>4, FS_Subset, FS_CardinalityType
<1> QED BY <1>3, <1>5

(* No two nodes have the same place.                                       *)
LEMMA RankUnique ==
  ASSUME NEW S, NEW ent, Ordered(S, ent), NEW x \in S, NEW y \in S,
         Rank(S, ent, x) = Rank(S, ent, y)
  PROVE  x = y
<1> SUFFICES ASSUME x # y PROVE FALSE
  OBVIOUS
<1>1. less(ent[x], ent[y]) \/ less(ent[y], ent[x])
  BY LessTotal DEF Ordered
<1>2. Rank(S, ent, x) < Rank(S, ent, y) \/ Rank(S, ent, y) < Rank(S, ent, x)
  BY <1>1, RankGrows
<1> QED BY <1>2, RankType

(* A link leads to the next place; after the last node there is none.      *)
LEMMA RankNext ==
  ASSUME NEW S, NEW ent, Ordered(S, ent), NEW x \in S \cup {HeadNode}, NEW n, Succ(S, ent, x, n)
  PROVE  /\ n = Nil => Rank(S, ent, x) = Cardinality(S)
         /\ n # Nil => n \in S /\ Rank(S, ent, n) = Rank(S, ent, x) + 1
<1>1. IsFiniteSet(S) /\ Nil \notin S /\ HeadNode \notin S
  BY Zenon, RankType, NoConfusion DEF Ordered
<1> DEFINE T == IF x = HeadNode THEN {} ELSE {y \in S : less(ent[y], ent[x])}
           U == IF x = HeadNode THEN {} ELSE T \cup {x}
<1>2. IsFiniteSet(T) /\ IsFiniteSet(U) /\ Cardinality(U) = Rank(S, ent, x)
  <2>1. CASE x = HeadNode
    BY <2>1, FS_EmptySet DEF Rank
  <2>2. CASE x # HeadNode
    <3>1. T \in SUBSET S /\ x \notin T /\ U = T \cup {x} /\ Rank(S, ent, x) = 1 + Cardinality(T)
      BY <2>2, LessIrreflexive DEF Rank, Ordered
    <3> HIDE DEF T, U
    <3>2. IsFiniteSet(T) /\ Cardinality(T) \in Nat
      BY <1>1, <3>1, FS_Subset, FS_CardinalityType
    <3>3. IsFiniteSet(U) /\ Cardinality(U) = Cardinality(T) + 1
      BY Zenon, <3>1, <3>2, FS_AddElement
    <3> QED BY SMTT(30), <3>1, <3>2, <3>3
  <2> QED BY <2>1, <2>2
<1>3. CASE n = Nil
  <2>1. \A y \in S : ~After(ent, x, y)
    BY Zenon, <1>1, <1>3 DEF Succ
  <2>2. U = S
    BY Zenon, <1>1, <2>1, LessTotal DEF After, Ordered
  <2> QED BY Zenon, <1>2, <1>3, <2>2
<1>4. CASE n # Nil
  <2>1. /\ n \in S /\ After(ent, x, n) /\ n # HeadNode
        /\ \A y \in S : After(ent, x, y) => y = n \/ less(ent[n], ent[y])
    BY Zenon, <1>1, <1>4 DEF Succ
  <2> DEFINE V == {y \in S : less(ent[y], ent[n])}
  <2>2. ASSUME NEW y \in S PROVE y \in U <=> y \in V
    <3>1. CASE x = HeadNode
      <4>1. y = n \/ less(ent[n], ent[y])
        BY Zenon, <2>1, <3>1 DEF After
      <4> QED BY <2>1, <3>1, <4>1, LessIrreflexive, LessTransitive DEF Ordered
    <3>2. CASE x # HeadNode
      <4>1. x \in S /\ less(ent[x], ent[n])
        BY Zenon, <2>1, <3>2 DEF After
      <4>2. y \in U => less(ent[y], ent[n])
        BY Zenon, <2>1, <3>2, <4>1, LessTransitive DEF Ordered
      <4>3. y \notin U => less(ent[x], ent[y])
        BY Zenon, <3>2, <4>1, LessTotal DEF Ordered
      <4>4. less(ent[x], ent[y]) => ~less(ent[y], ent[n])
        BY <2>1, <3>2, LessIrreflexive, LessTransitive DEF Ordered, After
      <4> QED BY Zenon, <4>2, <4>3, <4>4
    <3> QED BY Zenon, <3>1, <3>2
  <2>3. U \subseteq S
    OBVIOUS
  <2>4. U = V
    BY <2>2, <2>3
  <2>5. Rank(S, ent, n) = 1 + Cardinality(V)
    BY <2>1 DEF Rank
  <2>6. Rank(S, ent, x) \in Nat
    BY RankType
  <2> HIDE DEF U, V
  <2> QED BY SMTT(30), <1>2, <1>4, <2>1, <2>4, <2>5, <2>6
<1> QED BY Zenon, <1>3, <1>4

(* The entries of the nodes have the same places.                          *)
LEMMA PlacesAre ==
  ASSUME NEW S, NEW ent, Ordered(S, ent), NEW E, E = {ent[x] : x \in S}
  PROVE  /\ Cardinality(E) = Cardinality(S)
         /\ \A x \in S : 1 + Cardinality({a \in E : less(a, ent[x])}) = Rank(S, ent, x)
<1>1. IsFiniteSet(S) /\ HeadNode \notin S
  BY RankType, NoConfusion DEF Ordered
<1>2. ASSUME NEW T \in SUBSET S, NEW A, A = {ent[x] : x \in T}
      PROVE  Cardinality(A) = Cardinality(T)
  <2> DEFINE f == [x \in T |-> ent[x]]
  <2>1. f \in Surjection(T, A)
    BY <1>2 DEF Surjection
  <2>2. f \in Injection(T, A)
    <3>1. f \in [T -> A]
      BY <1>2
    <3>2. \A x, y \in T : f[x] = f[y] => x = y
      BY DEF Ordered
    <3> QED BY <3>1, <3>2 DEF Injection, IsInjective
  <2>3. IsFiniteSet(T)
    BY <1>1, FS_Subset
  <2> HIDE DEF f
  <2> QED BY <2>1, <2>2, <2>3, FS_Surjection
<1>3. Cardinality(E) = Cardinality(S)
  BY <1>2
<1>4. ASSUME NEW x \in S
      PROVE  1 + Cardinality({a \in E : less(a, ent[x])}) = Rank(S, ent, x)
  <2> DEFINE T == {y \in S : less(ent[y], ent[x])}
             A == {a \in E : less(a, ent[x])}
  <2>1. T \in SUBSET S /\ A = {ent[y] : y \in T}
    BY Zenon
  <2>2. Rank(S, ent, x) = 1 + Cardinality(T)
    BY Zenon, <1>1 DEF Rank
  <2> HIDE DEF T, A
  <2>3. Cardinality(A) = Cardinality(T)
    BY <1>2, <2>1
  <2> QED BY <2>2, <2>3 DEF A
<1> QED BY Zenon, <1>3, <1>4

-----------------------------------------------------------------------------
(* The walk of TopN                                                        *)

(* A step repeated n times.                                                *)
Repeats(f, w0, g, n) == f[0] = w0 /\ \A k \in 1 .. n : f[k] = g[f[k - 1]]

(* There is a function that records the repetitions.                       *)
LEMMA RepeatsExist ==
  ASSUME NEW W, NEW w0 \in W, NEW g \in [W -> W], NEW n \in Nat
  PROVE  \E f \in [0 .. n -> W] : Repeats(f, w0, g, n)
<1> DEFINE T == {m \in Nat : \E f \in [0 .. m -> W] : Repeats(f, w0, g, m)}
<1>1. 0 \in T
  <2> DEFINE f == [k \in 0 .. 0 |-> w0]
  <2>1. f \in [0 .. 0 -> W] /\ Repeats(f, w0, g, 0)
    BY DEF Repeats
  <2> QED BY <2>1
<1>2. ASSUME NEW m \in Nat, m \in T PROVE m + 1 \in T
  <2>1. PICK f \in [0 .. m -> W] : Repeats(f, w0, g, m)
    BY <1>2
  <2> DEFINE h == [k \in 0 .. m + 1 |-> IF k = m + 1 THEN g[f[m]] ELSE f[k]]
  <2>2. h \in [0 .. m + 1 -> W]
    OBVIOUS
  <2>3. h[0] = w0
    BY <2>1 DEF Repeats
  <2>4. ASSUME NEW k \in 1 .. m + 1 PROVE h[k] = g[h[k - 1]]
    <3>1. CASE k = m + 1
      BY <3>1
    <3>2. CASE k # m + 1
      <4>1. k \in 1 .. m /\ k \in 0 .. m + 1 /\ k - 1 \in 0 .. m + 1 /\ k - 1 # m + 1
        BY <3>2
      <4>2. h[k] = f[k] /\ h[k - 1] = f[k - 1]
        BY <3>2, <4>1
      <4> QED BY <2>1, <4>1, <4>2 DEF Repeats
    <3> QED BY <3>1, <3>2
  <2> HIDE DEF h
  <2> QED BY <2>2, <2>3, <2>4 DEF Repeats
<1> HIDE DEF T
<1>3. n \in T
  BY Zenon, <1>1, <1>2, NatSetInduction
<1> QED BY <1>3 DEF T

(* After k links the walk has seen the first k nodes, or all there are.    *)
Walked(S, ent, next, k, w) ==
  /\ w.seen \in Seq(Entries)
  /\ Len(w.seen) = IF k < Cardinality(S) THEN k ELSE Cardinality(S)
  /\ \A i \in 1 .. Len(w.seen) : \E x \in S : Rank(S, ent, x) = i /\ w.seen[i] = ent[x]
  /\ \E x \in S \cup {HeadNode} : Rank(S, ent, x) = Len(w.seen) /\ w.at = next[x]

(* One more link.                                                          *)
LEMMA WalkedStep ==
  ASSUME NEW S, NEW ent, NEW next, Ordered(S, ent), Chain(S, ent, next),
         NEW k \in Nat, NEW w, Walked(S, ent, next, k, w), NEW w2,
         w2 = IF w.at = Nil THEN w ELSE [seen |-> Append(w.seen, ent[w.at]), at |-> next[w.at]]
  PROVE  Walked(S, ent, next, k + 1, w2)
<1> DEFINE N == Cardinality(S)
           m == Len(w.seen)
<1>1. PICK x \in S \cup {HeadNode} : Rank(S, ent, x) = m /\ w.at = next[x]
  BY Zenon DEF Walked
<1>2. Succ(S, ent, x, w.at) /\ N \in Nat
  BY Zenon, <1>1, RankType DEF Chain
<1>3. /\ w.at = Nil => m = N
      /\ w.at # Nil => w.at \in S /\ Rank(S, ent, w.at) = m + 1
  BY SMTT(30), <1>1, <1>2, RankNext
<1>4. m \in Nat /\ m = IF k < N THEN k ELSE N
  BY DEF Walked
<1>5. CASE w.at = Nil
  <2>1. m = IF k + 1 < N THEN k + 1 ELSE N
    BY SMTT(30), <1>2, <1>3, <1>4, <1>5
  <2> QED BY ZenonT(30), <1>5, <2>1 DEF Walked
<1>6. CASE w.at # Nil
  <2> DEFINE a == w.at
             s == Append(w.seen, ent[a])
             v == [seen |-> s, at |-> next[a]]
  <2>1. a \in S /\ Rank(S, ent, a) = m + 1 /\ m + 1 <= N /\ ent[a] \in Entries
    <3>1. a \in S /\ Rank(S, ent, a) = m + 1
      BY Zenon, <1>3, <1>6
    <3> HIDE DEF a, m
    <3>2. Rank(S, ent, a) <= N
      BY Zenon, <3>1, RankType
    <3> QED BY Zenon, <3>1, <3>2 DEF Ordered
  <2>2. m + 1 = IF k + 1 < N THEN k + 1 ELSE N
    BY SMTT(30), <1>2, <1>4, <2>1
  <2>3. /\ w.seen \in Seq(Entries)
        /\ \A i \in 1 .. m : \E y \in S : Rank(S, ent, y) = i /\ w.seen[i] = ent[y]
    BY Zenon DEF Walked
  <2> HIDE DEF a
  <2>4. s \in Seq(Entries) /\ Len(s) = m + 1 /\ s[m + 1] = ent[a] /\ \A i \in 1 .. m : s[i] = w.seen[i]
    BY SMTT(30), <2>1, <2>3
  <2>5. ASSUME NEW i \in 1 .. m + 1
        PROVE  \E y \in S : Rank(S, ent, y) = i /\ s[i] = ent[y]
    <3>1. CASE i = m + 1
      BY Zenon, <2>1, <2>4, <3>1
    <3>2. CASE i # m + 1
      <4>1. i \in 1 .. m
        BY SMTT(30), <1>4, <3>2
      <4> QED BY Zenon, <2>3, <2>4, <4>1
    <3> QED BY Zenon, <3>1, <3>2
  <2> HIDE DEF s, m, N
  <2>6. v.seen = s /\ v.at = next[a]
    BY Zenon
  <2> HIDE DEF v
  <2>7. Walked(S, ent, next, k + 1, v)
    BY Zenon, <2>1, <2>2, <2>4, <2>5, <2>6 DEF Walked, N
  <2> QED BY Zenon, <1>6, <2>7 DEF v, s, a
<1> QED BY Zenon, <1>5, <1>6

(* So the walk of TopN(n) ends with the first n nodes, or all of them.     *)
LEMMA WalkIs ==
  ASSUME NEW L, NEW S, Towers(L, S), NEW n \in Nat
  PROVE  \E w : Walk(L, n) = w.seen /\ Walked(S[0], EntOf(L), LinkOf(L, 0), n, w)
<1> DEFINE X == S[0]
           ent == EntOf(L)
           next == LinkOf(L, 0)
           w0 == [seen |-> <<>>, at |-> L.node[HeadNode].next[0]]
           Step(w) == IF w.at = Nil THEN w
                      ELSE [seen |-> Append(w.seen, L.node[w.at].e), at |-> L.node[w.at].next[0]]
           Def(f) == [k \in 0 .. n |-> IF k = 0 THEN w0 ELSE Step(f[k - 1])]
           out == CHOOSE f : f = Def(f)
           W == [seen : Seq(Entries), at : X \cup {Nil}]
           g == [w \in W |-> Step(w)]
<1>1. Walk(L, n) = out[n].seen
  BY Zenon DEF Walk
<1>2. /\ Ordered(X, ent) /\ Chain(X, ent, next) /\ X \subseteq NodeIds /\ HeadNode \in Nodes
      /\ \A x \in Nodes : ent[x] = L.node[x].e /\ next[x] = L.node[x].next[0]
  <2>1. Ordered(X, ent) /\ Chain(X, ent, next)
    BY TowersOrdered DEF Towers
  <2>2. \A x \in Nodes : ent[x] = L.node[x].e /\ next[x] = L.node[x].next[0]
    BY Zenon DEF EntOf, LinkOf
  <2> HIDE DEF X, ent, next
  <2> QED BY Zenon, <2>1, <2>2 DEF Ordered, Nodes
<1>3. ASSUME NEW x \in X \cup {HeadNode} PROVE next[x] \in X \cup {Nil}
  BY Zenon, <1>2 DEF Chain, Succ
<1>4. \A x \in X : x \in Nodes /\ ent[x] \in Entries
  BY Zenon, <1>2 DEF Nodes, Ordered
<1> HIDE DEF X, ent, next
<1>5. w0 \in W
  <2>1. L.node[HeadNode].next[0] \in X \cup {Nil}
    BY Zenon, <1>2, <1>3
  <2> QED BY SMTT(30), <2>1
<1>6. ASSUME NEW w \in W PROVE Step(w) \in W
  <2>1. CASE w.at = Nil
    BY Zenon, <2>1
  <2>2. CASE w.at # Nil
    <3>1. w.at \in X /\ w.seen \in Seq(Entries)
      BY Zenon, <2>2
    <3>2. L.node[w.at].e \in Entries /\ L.node[w.at].next[0] \in X \cup {Nil}
      BY Zenon, <1>2, <1>3, <1>4, <3>1
    <3>3. Append(w.seen, L.node[w.at].e) \in Seq(Entries)
      BY <3>1, <3>2
    <3>4. Step(w) = [seen |-> Append(w.seen, L.node[w.at].e), at |-> L.node[w.at].next[0]]
      BY Zenon, <2>2
    <3> QED BY <3>2, <3>3, <3>4
  <2> QED BY Zenon, <2>1, <2>2
<1>7. ASSUME NEW k \in Nat, NEW w, Walked(X, ent, next, k, w)
      PROVE  Walked(X, ent, next, k + 1, Step(w))
  <2>1. w.at # Nil => w.at \in Nodes
    <3>1. PICK x \in X \cup {HeadNode} : w.at = next[x]
      BY <1>7 DEF Walked
    <3> QED BY Zenon, <1>3, <1>4, <3>1
  <2>2. Step(w) = IF w.at = Nil THEN w
                  ELSE [seen |-> Append(w.seen, ent[w.at]), at |-> next[w.at]]
    BY Zenon, <1>2, <2>1
  <2> HIDE DEF Step
  <2> QED BY Zenon, <1>2, <1>7, <2>2, WalkedStep
<1>8. Walked(X, ent, next, 0, w0)
  <2>1. w0.seen = <<>> /\ w0.at = next[HeadNode]
    BY <1>2
  <2>2. Cardinality(X) \in Nat /\ Rank(X, ent, HeadNode) = 0
    BY Zenon, <1>2, RankType DEF Rank
  <2>3. <<>> \in Seq(Entries) /\ Len(<<>>) = 0
    OBVIOUS
  <2> HIDE DEF w0
  <2> QED BY <2>1, <2>2, <2>3 DEF Walked
<1> HIDE DEF w0, Step, W
<1>9. out = Def(out)
  <2>1. g \in [W -> W]
    BY <1>6
  <2> HIDE DEF g
  <2>2. PICK f \in [0 .. n -> W] : Repeats(f, w0, g, n)
    BY <1>5, <2>1, RepeatsExist
  <2>3. ASSUME NEW k \in 0 .. n PROVE f[k] = IF k = 0 THEN w0 ELSE Step(f[k - 1])
    <3>1. CASE k = 0
      BY <2>2, <3>1 DEF Repeats
    <3>2. CASE k # 0
      <4>1. k \in 1 .. n /\ k - 1 \in 0 .. n
        BY <3>2
      <4>2. f[k] = g[f[k - 1]] /\ f[k - 1] \in W
        BY <2>2, <4>1 DEF Repeats
      <4> QED BY <3>2, <4>2 DEF g
    <3> QED BY <3>1, <3>2
  <2>4. f = Def(f)
    BY <2>3
  <2> HIDE DEF Def
  <2> QED BY <2>4
<1> HIDE DEF out
<1>10. out[0] = w0 /\ \A k \in 1 .. n : out[k] = Step(out[k - 1])
  <2>1. \A k \in 0 .. n : out[k] = IF k = 0 THEN w0 ELSE Step(out[k - 1])
    BY <1>9
  <2> QED BY <2>1
<1> DEFINE T == {k \in Nat : k <= n => Walked(X, ent, next, k, out[k])}
<1>11. 0 \in T
  BY <1>8, <1>10
<1>12. ASSUME NEW k \in Nat, k \in T PROVE k + 1 \in T
  <2> SUFFICES ASSUME k + 1 <= n PROVE Walked(X, ent, next, k + 1, out[k + 1])
    OBVIOUS
  <2>1. k <= n /\ k + 1 \in 1 .. n /\ (k + 1) - 1 = k
    OBVIOUS
  <2>2. out[k + 1] = Step(out[k]) /\ Walked(X, ent, next, k, out[k])
    BY <1>10, <1>12, <2>1
  <2> QED BY <1>7, <2>2
<1> HIDE DEF T
<1>13. n \in T
  BY <1>11, <1>12, NatSetInduction
<1>14. Walked(X, ent, next, n, out[n])
  BY <1>13 DEF T
<1> QED BY <1>1, <1>14 DEF X, ent, next

-----------------------------------------------------------------------------
(* The list is a board                                                     *)

(* The scores that byUser records.                                         *)
ScoreOf(L) == [u \in DOMAIN L.byUser |-> L.node[L.byUser[u]].e.Score]

(* The two definitions of the order agree.                                 *)
LEMMA BeforeIsLess ==
  ASSUME NEW a \in Entries, NEW b \in Entries
  PROVE  B!Before(a, b) <=> less(a, b)
BY SMTT(30) DEF B!Before, less, Entries

(* A user's entry is the one at the user's node.                           *)
LEMMA EntryIs ==
  ASSUME NEW L, NEW S, Towers(L, S), NEW u \in DOMAIN L.byUser
  PROVE  /\ L.byUser[u] \in S[0] /\ L.byUser[u] \in Nodes
         /\ L.node[L.byUser[u]].e = [User |-> u, Score |-> ScoreOf(L)[u]]
<1> DEFINE r == L.node[L.byUser[u]].e
<1>1. /\ L.byUser[u] \in S[0] /\ L.byUser[u] \in Nodes
      /\ r \in [User : Users, Score : Scores] /\ r.User = u
  BY Zenon DEF Towers, Known, Range, Nodes
<1>2. ScoreOf(L)[u] = r.Score
  BY SMTT(30) DEF ScoreOf
<1> HIDE DEF r
<1>3. r = [User |-> r.User, Score |-> r.Score]
  BY Zenon, <1>1
<1> QED BY Zenon, <1>1, <1>2, <1>3 DEF r

(* The board's entries are those of the nodes on level 0.                  *)
LEMMA StandingIs ==
  ASSUME NEW S, Towers(list, S)
  PROVE  B!Standing = {EntOf(list)[x] : x \in S[0]}
<1>1. B!Standing = {[User |-> u, Score |-> ScoreOf(list)[u]] : u \in DOMAIN list.byUser}
  BY Zenon DEF B!Standing, ScoreOf
<1>2. \A u \in DOMAIN list.byUser :
        EntOf(list)[list.byUser[u]] = [User |-> u, Score |-> ScoreOf(list)[u]]
  BY Zenon, EntryIs DEF EntOf
<1>3. S[0] = {list.byUser[u] : u \in DOMAIN list.byUser}
  BY Zenon DEF Towers, Known, Range
<1> DEFINE D == DOMAIN list.byUser
           node(u) == list.byUser[u]
           entry(u) == [User |-> u, Score |-> ScoreOf(list)[u]]
           ent == EntOf(list)
<1>4. /\ B!Standing = {entry(u) : u \in D} /\ S[0] = {node(u) : u \in D}
      /\ \A u \in D : ent[node(u)] = entry(u)
  BY Zenon, <1>1, <1>2, <1>3
<1> HIDE DEF D, node, entry
<1>5. {entry(u) : u \in D} = {ent[x] : x \in {node(u) : u \in D}}
  BY <1>4
<1> QED BY <1>4, <1>5

(* Board's Cardinality is the library's.                                   *)
LEMMA SameCardinality == \A T : B!Cardinality(T) = Cardinality(T)
BY Zenon DEF B!Cardinality, Cardinality, B!IsFiniteSet, IsFiniteSet

(* A node's entry stands at the node's place in the board's ranking.       *)
LEMMA RankingIs ==
  ASSUME NEW S, Towers(list, S)
  PROVE  /\ Cardinality(S[0]) \in Nat /\ Len(B!Ranking) = Cardinality(S[0])
         /\ \A x \in S[0] : B!Ranking[Rank(S[0], EntOf(list), x)] = EntOf(list)[x]
<1> DEFINE X == S[0]
           ent == EntOf(list)
           E == B!Standing
           N == Cardinality(X)
           place(e) == 1 + B!Cardinality({x \in E : B!Before(x, e)})
<1>1. Ordered(X, ent) /\ E = {ent[x] : x \in X}
  BY TowersOrdered, StandingIs
<1>2. B!Ranking = [i \in 1 .. B!Cardinality(E) |-> CHOOSE e \in E : place(e) = i]
  BY Zenon DEF B!Ranking
<1> HIDE DEF X, ent, E
<1>3. B!Cardinality(E) = N /\ N \in Nat
  BY <1>1, PlacesAre, RankType, SameCardinality
<1>4. ASSUME NEW x \in X PROVE place(ent[x]) = Rank(X, ent, x)
  <2>1. \A a \in E : a \in Entries
    BY <1>1 DEF Ordered
  <2>2. ent[x] \in E
    BY <1>1
  <2>3. {a \in E : B!Before(a, ent[x])} = {a \in E : less(a, ent[x])}
    BY <2>1, <2>2, BeforeIsLess
  <2>4. 1 + Cardinality({a \in E : less(a, ent[x])}) = Rank(X, ent, x)
    BY Zenon, <1>1, PlacesAre
  <2> QED BY <2>3, <2>4, SameCardinality
<1> HIDE DEF place
<1>5. ASSUME NEW x \in X PROVE B!Ranking[Rank(X, ent, x)] = ent[x]
  <2> DEFINE i == Rank(X, ent, x)
  <2>1. i \in 1 .. N
    <3>1. x # HeadNode
      BY <1>1, NoConfusion DEF Ordered
    <3>2. i \in Nat /\ i <= N /\ i # 0
      <4>1. i \in Nat /\ i <= N
        BY Zenon, <1>1, RankType
      <4>2. IsFiniteSet({y \in X : less(ent[y], ent[x])})
        BY Zenon, <1>1, RankType, FS_Subset
      <4>3. i = 1 + Cardinality({y \in X : less(ent[y], ent[x])})
        BY <3>1 DEF Rank
      <4> QED BY SMTT(30), <4>1, <4>2, <4>3, FS_CardinalityType
    <3> QED BY <1>3, <3>2
  <2>2. ASSUME NEW e \in E, place(e) = i PROVE e = ent[x]
    <3>1. PICK y \in X : e = ent[y]
      BY <1>1
    <3>2. Rank(X, ent, y) = Rank(X, ent, x)
      BY Zenon, <1>4, <2>2, <3>1
    <3>3. y = x
      BY Zenon, <1>1, <3>2, RankUnique
    <3> QED BY <3>1, <3>3
  <2>3. ent[x] \in E /\ place(ent[x]) = i
    BY <1>1, <1>4
  <2> HIDE DEF i
  <2>4. (CHOOSE e \in E : place(e) = i) = ent[x]
    BY <2>2, <2>3
  <2>5. B!Ranking[i] = ent[x]
    BY <1>2, <1>3, <2>1, <2>4
  <2> QED BY <2>5 DEF i
<1>6. Len(B!Ranking) = N
  BY SMTT(30), <1>2, <1>3
<1> QED BY Zenon, <1>3, <1>5, <1>6 DEF X, ent

(* TopN answers with the top of the board.                                 *)
LEMMA TopIs ==
  ASSUME NEW S, Towers(list, S), NEW n \in Nat
  PROVE  Walk(list, n) =
           [i \in 1 .. IF n < Len(B!Ranking) THEN n ELSE Len(B!Ranking) |-> B!Ranking[i]]
<1> DEFINE X == S[0]
           ent == EntOf(list)
           N == Cardinality(X)
           R == B!Ranking
           m == IF n < N THEN n ELSE N
<1>1. PICK w : Walk(list, n) = w.seen /\ Walked(X, ent, LinkOf(list, 0), n, w)
  BY Zenon, WalkIs
<1>2. N \in Nat /\ Len(R) = N /\ \A x \in X : R[Rank(X, ent, x)] = ent[x]
  BY Zenon, RankingIs
<1> HIDE DEF X, ent, R
<1>3. /\ w.seen \in Seq(Entries) /\ Len(w.seen) = m
      /\ \A i \in 1 .. m : \E x \in X : Rank(X, ent, x) = i /\ w.seen[i] = ent[x]
  BY <1>1 DEF Walked
<1>4. \A i \in 1 .. m : w.seen[i] = R[i]
  BY <1>2, <1>3
<1>5. w.seen = [i \in 1 .. m |-> R[i]]
  BY <1>3, <1>4
<1> QED BY <1>1, <1>2, <1>5 DEF R
(* Whatever heights the nodes get and however often users move, the skip   *)
(* list does what a board promises: Update and Remove change one user's    *)
(* score, TopN answers with the highest scores in order, Get with the      *)
(* user's own.                                                             *)
THEOREM SkipListIsBoard == Spec => ImplementsBoard
<1> DEFINE sc == ScoreOf(list)
<1>1. Init => SkipInv
  BY InitTowers, LinksAre DEF Init, SkipInv
<1>2. Init => B!Init
  <2> SUFFICES ASSUME Init PROVE B!Init
    OBVIOUS
  <2>1. list.byUser = [u \in {} |-> Nil]
    BY DEF Init, NewSkipList
  <2>2. DOMAIN list.byUser = {}
    BY Zenon, <2>1
  <2> QED BY <2>2 DEF Init, B!Init
<1>3. ASSUME SkipInv, [Next]_vars
      PROVE  [B!Next]_<<[u \in DOMAIN list.byUser |-> list.node[list.byUser[u]].e.Score], answer>>
  <2> DEFINE D == DOMAIN list.byUser
  <2>1. PICK S : Towers(list, S)
    BY SMTT(30), <1>3 DEF SkipInv
  <2>2. ASSUME NEW u \in Users, NEW s \in Scores, Update(u, s) PROVE B!Update(u, s)
    <3>1. /\ DOMAIN list'.byUser = D \cup {u}
          /\ list'.node[list'.byUser[u]].e = [User |-> u, Score |-> s]
          /\ \A v \in D \ {u} :
               list'.node[list'.byUser[v]].e = list.node[list.byUser[v]].e
      BY Zenon, <2>1, <2>2, UpdateIs
    <3>2. list'.node[list'.byUser[u]].e.Score = s
      BY SMTT(30), <3>1
    <3>3. sc' = [x \in D \cup {u} |-> IF x = u THEN s ELSE sc[x]]
      BY <3>1, <3>2 DEF ScoreOf
    <3> QED BY ZenonT(30), <2>2, <3>3 DEF B!Update, ScoreOf, Update
  <2>3. ASSUME NEW u \in Users, Remove(u) PROVE B!Remove(u)
    <3>1. /\ DOMAIN list'.byUser = D \ {u}
          /\ \A v \in D \ {u} : list'.node[list'.byUser[v]].e = list.node[list.byUser[v]].e
      BY <2>1, <2>3, RemoveIs DEF Remove
    <3>2. sc' = [x \in D \ {u} |-> sc[x]]
      BY Zenon, <3>1 DEF ScoreOf
    <3> QED BY ZenonT(30), <2>3, <3>2 DEF B!Remove, ScoreOf, Remove, Restrict, B!Restrict
  <2>4. ASSUME NEW u \in Users, Get(u) PROVE B!Get(u)
    <3>1. u \in D => list.node[list.byUser[u]].e = [User |-> u, Score |-> sc[u]]
      BY Zenon, <2>1, EntryIs
    <3>2. answer' = IF u \in D THEN <<[User |-> u, Score |-> sc[u]]>> ELSE <<>>
      BY <2>4, <3>1 DEF Get
    <3> QED BY Zenon, <2>4, <3>2 DEF B!Get, ScoreOf, Get
  <2>5. ASSUME NEW n \in -1 .. MaxN, TopN(n) PROVE B!TopN(n)
    <3> DEFINE m == IF n < Len(B!Ranking) THEN n ELSE Len(B!Ranking)
    <3>1. n \in Int /\ Len(B!Ranking) \in Nat
      <4>1. Len(B!Ranking) \in Nat
        BY Zenon, <2>1, RankingIs
      <4> QED BY <4>1, SkipListAssumption
    <3>2. CASE n <= 0
      <4>1. 1 .. m = {} /\ answer' = <<>>
        BY <2>5, <3>1, <3>2 DEF TopN
      <4> HIDE DEF m
      <4>2. answer' = [i \in 1 .. m |-> B!Ranking[i]]
        BY <4>1
      <4> QED BY Zenon, <2>5, <4>2 DEF B!TopN, TopN, m
    <3>3. CASE ~(n <= 0)
      <4>1. n \in Nat /\ answer' = Walk(list, n)
        BY <2>5, <3>1, <3>3 DEF TopN
      <4>2. answer' = [i \in 1 .. m |-> B!Ranking[i]]
        BY Zenon, <2>1, <4>1, TopIs
      <4> QED BY Zenon, <2>5, <4>2 DEF B!TopN, TopN
    <3> QED BY Zenon, <3>2, <3>3
  <2>6. CASE UNCHANGED vars
    BY <2>6 DEF vars
  <2> QED BY Zenon, <1>3, <2>2, <2>3, <2>4, <2>5, <2>6 DEF Next, B!Next
<1> QED BY <1>1, <1>2, <1>3, SkipStep, PTL DEF Spec, ImplementsBoard, B!Spec
=============================================================================
