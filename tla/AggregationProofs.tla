------------------------- MODULE AggregationProofs -------------------------
(***************************************************************************)
(* Proofs about the metrics and their aggregation, for any number of       *)
(* goroutines, events and days: induction over the natural numbers, from   *)
(* the library's fact that < is well founded on them, what it gives for    *)
(* the sums of sequences, and what an aggregation stores.                  *)
(***************************************************************************)
EXTENDS Export, FiniteSetTheorems, WellFoundedInduction, TLAPS

-----------------------------------------------------------------------------
(* Induction over the natural numbers                                     *)

(* A set of natural numbers that has an element has a least one.           *)
LEMMA LeastNat ==
  ASSUME NEW T \in SUBSET Nat, T # {}
  PROVE  \E n \in T : \A m \in T : n <= m
<1>1. IsWellFoundedOn(OpToRel(<, Nat), Nat)
  BY NatLessThanWellFounded
<1>2. PICK n \in T : \A m \in T : ~(<<m, n>> \in OpToRel(<, Nat))
  BY <1>1, WFMin, Zenon
<1>3. ASSUME NEW m \in T PROVE n <= m
  <2>1. ~(<<m, n>> \in OpToRel(<, Nat))
    BY <1>2
  <2>2. m \in Nat /\ n \in Nat
    BY <1>2
  <2>3. ~(m < n)
    BY <2>1, <2>2 DEF OpToRel
  <2> QED BY <2>2, <2>3
<1> QED BY <1>2, <1>3

(* Induction: a set that has 0, and n + 1 with every n, has them all.      *)
LEMMA NatSetInduction ==
  ASSUME NEW T, 0 \in T, \A n \in Nat : n \in T => n + 1 \in T
  PROVE  \A n \in Nat : n \in T
<1> SUFFICES ASSUME Nat \ T # {} PROVE FALSE
  OBVIOUS
<1>1. PICK n \in Nat \ T : \A m \in Nat \ T : n <= m
  BY Zenon, LeastNat
<1>2. n # 0 /\ n \in Nat
  BY <1>1
<1>3. n - 1 \in Nat /\ ~(n <= n - 1) /\ (n - 1) + 1 = n
  BY <1>2
<1> QED BY <1>1, <1>3

-----------------------------------------------------------------------------
(* f has the partial sums of s up to m.                                    *)
SumsUpTo(f, s, m) == f[0] = 0 /\ \A n \in 1 .. m : f[n] = f[n - 1] + s[n]

(* The partial sums of a sequence exist: those up to m + 1 are those up to *)
(* m and one more.                                                         *)
LEMMA SumsExist ==
  ASSUME NEW s \in Seq(Int)
  PROVE  \E f \in [0 .. Len(s) -> Int] : SumsUpTo(f, s, Len(s))
<1> DEFINE P(m) == m <= Len(s) => \E f \in [0 .. m -> Int] : SumsUpTo(f, s, m)
           T == {m \in Nat : P(m)}
<1>1. P(0)
  <2>1. [n \in 0 .. 0 |-> 0] \in [0 .. 0 -> Int]
    OBVIOUS
  <2>2. SumsUpTo([n \in 0 .. 0 |-> 0], s, 0)
    BY DEF SumsUpTo
  <2> QED BY <2>1, <2>2
<1>2. ASSUME NEW m \in Nat, P(m) PROVE P(m + 1)
  <2> SUFFICES ASSUME m + 1 <= Len(s)
               PROVE  \E g \in [0 .. m + 1 -> Int] : SumsUpTo(g, s, m + 1)
    OBVIOUS
  <2>1. PICK f \in [0 .. m -> Int] : SumsUpTo(f, s, m)
    BY <1>2
  <2> DEFINE g == [n \in 0 .. m + 1 |-> IF n = m + 1 THEN f[m] + s[m + 1] ELSE f[n]]
  <2>2. s[m + 1] \in Int /\ f[m] \in Int
    OBVIOUS
  <2>3. g \in [0 .. m + 1 -> Int]
    BY <2>2
  <2>4. ASSUME NEW n \in 1 .. m + 1 PROVE g[n] = g[n - 1] + s[n]
    BY <2>1, <2>4 DEF SumsUpTo
  <2>5. g[0] = 0
    BY <2>1 DEF SumsUpTo
  <2> HIDE DEF g
  <2> QED BY Zenon, <2>3, <2>4, <2>5 DEF SumsUpTo
<1> HIDE DEF P
<1>3. 0 \in T /\ \A m \in Nat : m \in T => m + 1 \in T
  BY <1>1, <1>2
<1> HIDE DEF T
<1>4. Len(s) \in T
  BY SMTT(30), <1>3, NatSetInduction
<1> QED BY <1>4 DEF P, T

(* So PartialSums(s) is what its definition says.                          *)
LEMMA PartialSumsDef ==
  ASSUME NEW s \in Seq(Int)
  PROVE  /\ PartialSums(s) \in [0 .. Len(s) -> Int]
         /\ SumsUpTo(PartialSums(s), s, Len(s))
<1> DEFINE Def(f) == [n \in 0 .. Len(s) |-> IF n = 0 THEN 0 ELSE f[n - 1] + s[n]]
<1>1. PICK f \in [0 .. Len(s) -> Int] : SumsUpTo(f, s, Len(s))
  BY SumsExist
<1>2. f = Def(f)
  BY <1>1 DEF SumsUpTo
<1>3. PartialSums(s) = Def(PartialSums(s))
  <2>1. PartialSums(s) = CHOOSE g : g = Def(g)
    BY DEF PartialSums
  <2> HIDE DEF Def
  <2> QED BY <1>2, <2>1
<1>4. \A n \in 0 .. Len(s) :
        PartialSums(s)[n] = IF n = 0 THEN 0 ELSE PartialSums(s)[n - 1] + s[n]
  BY Zenon, <1>3
<1>5. SumsUpTo(PartialSums(s), s, Len(s))
  BY <1>4 DEF SumsUpTo
<1>6. PartialSums(s) = f
  <2> DEFINE g == PartialSums(s)
             T == {m \in Nat : m <= Len(s) => g[m] = f[m]}
  <2>1. 0 \in T
    BY <1>1, <1>5 DEF SumsUpTo
  <2>2. ASSUME NEW m \in Nat, m \in T PROVE m + 1 \in T
    <3> SUFFICES ASSUME m + 1 <= Len(s) PROVE g[m + 1] = f[m + 1]
      OBVIOUS
    <3>1. m + 1 \in 1 .. Len(s) /\ (m + 1) - 1 = m /\ g[m] = f[m]
      BY <2>2
    <3>2. g[m + 1] = g[m] + s[m + 1] /\ f[m + 1] = f[m] + s[m + 1]
      BY <1>1, <1>5, <3>1 DEF SumsUpTo
    <3> QED BY <3>1, <3>2
  <2>3. \A m \in Nat : m \in T
    <3> HIDE DEF T
    <3> QED BY Zenon, <2>1, <2>2, NatSetInduction
  <2>4. \A m \in 0 .. Len(s) : g[m] = f[m]
    BY <2>3
  <2>5. g = [n \in 0 .. Len(s) |-> g[n]] /\ f = [n \in 0 .. Len(s) |-> f[n]]
    BY <1>3
  <2> HIDE DEF g
  <2>6. g = f
    BY <2>4, <2>5
  <2> QED BY <2>6 DEF g
<1> QED BY <1>5, <1>6

(* The sum of a sequence without its i-th element.                         *)
LEMMA SumWithout ==
  ASSUME NEW s \in Seq(Int), NEW t \in Seq(Int), NEW i \in 1 .. Len(s),
         Len(s) = Len(t) + 1,
         \A j \in 1 .. Len(t) : t[j] = IF j < i THEN s[j] ELSE s[j + 1]
  PROVE  SeqSum(s) = SeqSum(t) + s[i]
<1> DEFINE F == PartialSums(s)
           G == PartialSums(t)
<1>1. /\ F \in [0 .. Len(s) -> Int] /\ SumsUpTo(F, s, Len(s))
      /\ G \in [0 .. Len(t) -> Int] /\ SumsUpTo(G, t, Len(t))
  BY PartialSumsDef
<1> HIDE DEF F, G
<1> DEFINE T == {n \in Nat : n <= Len(t) =>
                   G[n] = IF n < i THEN F[n] ELSE F[n + 1] - s[i]}
<1>2. 0 \in T
  BY <1>1 DEF SumsUpTo
<1>3. ASSUME NEW n \in Nat, n \in T PROVE n + 1 \in T
  <2> SUFFICES ASSUME n + 1 <= Len(t)
               PROVE  G[n + 1] = IF n + 1 < i THEN F[n + 1] ELSE F[n + 2] - s[i]
    OBVIOUS
  <2>1. /\ n + 1 \in 1 .. Len(t) /\ n + 1 \in 1 .. Len(s) /\ n + 2 \in 1 .. Len(s)
        /\ (n + 1) - 1 = n /\ (n + 2) - 1 = n + 1 /\ (n + 1) + 1 = n + 2
    OBVIOUS
  <2>2. /\ G[n + 1] = G[n] + t[n + 1]
        /\ F[n + 1] = F[n] + s[n + 1]
        /\ F[n + 2] = F[n + 1] + s[n + 2]
    BY Zenon, <1>1, <2>1 DEF SumsUpTo
  <2>3. t[n + 1] = IF n + 1 < i THEN s[n + 1] ELSE s[n + 2]
    BY Zenon, <2>1
  <2>4. F[n] \in Int /\ F[n + 1] \in Int /\ F[n + 2] \in Int
    <3>1. n \in 0 .. Len(s) /\ n + 1 \in 0 .. Len(s) /\ n + 2 \in 0 .. Len(s)
      BY <2>1
    <3> QED BY Zenon, <1>1, <3>1
  <2>9. s[i] \in Int /\ s[n + 1] \in Int /\ s[n + 2] \in Int
    BY <2>1
  <2>5. G[n] = IF n < i THEN F[n] ELSE F[n + 1] - s[i]
    BY <1>3
  <2>6. CASE n + 1 < i
    BY <2>2, <2>3, <2>5, <2>6
  <2>7. CASE n + 1 = i
    <3>1. G[n] = F[n] /\ t[n + 1] = s[n + 2] /\ s[i] = s[n + 1]
      BY SMTT(30), <2>3, <2>5, <2>7
    <3>3. G[n + 1] = F[n] + s[n + 2] /\ F[n + 2] = (F[n] + s[n + 1]) + s[n + 2]
      BY <2>2, <3>1
    <3>4. ((F[n] + s[n + 1]) + s[n + 2]) - s[n + 1] = F[n] + s[n + 2]
      <4> DEFINE a == F[n]
                 b == s[n + 1]
                 c == s[n + 2]
      <4>1. a \in Int /\ b \in Int /\ c \in Int
        BY <2>4, <2>9
      <4> HIDE DEF a, b, c
      <4>2. ((a + b) + c) - b = a + c
        BY <4>1
      <4> QED BY <4>2 DEF a, b, c
    <3>5. G[n + 1] = F[n + 2] - s[i]
      BY <3>1, <3>3, <3>4
    <3> QED BY <2>7, <3>5
  <2>8. CASE n + 1 > i
    <3>1. G[n] = F[n + 1] - s[i] /\ t[n + 1] = s[n + 2]
      BY <2>3, <2>5, <2>8
    <3>2. \A a, b, c \in Int : (a + c) - b = (a - b) + c
      OBVIOUS
    <3>3. G[n + 1] = (F[n + 1] - s[i]) + s[n + 2] /\ F[n + 2] = F[n + 1] + s[n + 2]
      BY <2>2, <3>1
    <3>4. (F[n + 1] + s[n + 2]) - s[i] = (F[n + 1] - s[i]) + s[n + 2]
      BY Zenon, <2>4, <2>9, <3>2
    <3>5. G[n + 1] = F[n + 2] - s[i]
      BY <3>3, <3>4
    <3> QED BY <2>8, <3>5
  <2> QED BY <2>6, <2>7, <2>8
<1>4. Len(t) \in T
  <2>1. \A n \in Nat : n \in T => n + 1 \in T
    BY <1>3
  <2>2. Len(t) \in Nat
    OBVIOUS
  <2> HIDE DEF T
  <2> QED BY Zenon, <1>2, <2>1, <2>2, NatSetInduction
<1>5. G[Len(t)] = IF Len(t) < i THEN F[Len(t)] ELSE F[Len(t) + 1] - s[i]
  BY <1>4
<1>6. F[Len(s)] = F[Len(t)] + s[Len(s)]
  <2>1. Len(s) \in 1 .. Len(s) /\ Len(s) - 1 = Len(t)
    OBVIOUS
  <2> QED BY Zenon, <1>1, <2>1 DEF SumsUpTo
<1>7. F[Len(s)] \in Int /\ F[Len(t)] \in Int /\ s[i] \in Int
  BY <1>1
<1>8. F[Len(s)] = G[Len(t)] + s[i]
  BY <1>5, <1>6, <1>7
<1> QED BY <1>8 DEF SeqSum, F, G

(* A sum is an integer, and the sum of no numbers is 0.                    *)
LEMMA SumType ==
  ASSUME NEW s \in Seq(Int)
  PROVE  SeqSum(s) \in Int /\ (Len(s) = 0 => SeqSum(s) = 0)
BY PartialSumsDef DEF SeqSum, SumsUpTo

(* The sum of a sequence and one more.                                     *)
LEMMA SumAppend ==
  ASSUME NEW s \in Seq(Int), NEW x \in Int
  PROVE  SeqSum(Append(s, x)) = SeqSum(s) + x
<1> DEFINE u == Append(s, x)
<1>1. /\ u \in Seq(Int) /\ Len(u) = Len(s) + 1 /\ u[Len(s) + 1] = x
      /\ \A j \in 1 .. Len(s) : u[j] = s[j]
  OBVIOUS
<1> HIDE DEF u
<1>3. /\ Len(s) + 1 \in 1 .. Len(u)
      /\ \A j \in 1 .. Len(s) : s[j] = IF j < Len(s) + 1 THEN u[j] ELSE u[j + 1]
  BY <1>1
<1>2. SeqSum(u) = SeqSum(s) + u[Len(s) + 1]
  BY <1>1, <1>3, SumWithout, Zenon
<1> QED BY <1>1, <1>2 DEF u

(* The sum of a sequence without its first element.                        *)
LEMMA SumTail ==
  ASSUME NEW s \in Seq(Int), s # <<>>
  PROVE  SeqSum(s) = SeqSum(Tail(s)) + Head(s)
<1> DEFINE t == Tail(s)
<1>1. /\ t \in Seq(Int) /\ Len(s) = Len(t) + 1 /\ 1 \in 1 .. Len(s) /\ Head(s) = s[1]
      /\ \A j \in 1 .. Len(t) : t[j] = s[j + 1]
  OBVIOUS
<1> HIDE DEF t
<1>3. \A j \in 1 .. Len(t) : t[j] = IF j < 1 THEN s[j] ELSE s[j + 1]
  BY <1>1
<1>2. SeqSum(s) = SeqSum(t) + s[1]
  BY <1>1, <1>3, SumWithout, Zenon
<1> QED BY <1>1, <1>2 DEF t

(* The sum of natural numbers is one.                                      *)
LEMMA SumNat ==
  ASSUME NEW s \in Seq(Nat)
  PROVE  SeqSum(s) \in Nat
<1>1. s \in Seq(Int)
  OBVIOUS
<1> DEFINE F == PartialSums(s)
<1>2. F \in [0 .. Len(s) -> Int] /\ SumsUpTo(F, s, Len(s))
  BY <1>1, PartialSumsDef
<1> HIDE DEF F
<1> DEFINE T == {n \in Nat : n <= Len(s) => F[n] >= 0}
<1>3. 0 \in T
  BY <1>2 DEF SumsUpTo
<1>4. ASSUME NEW n \in Nat, n \in T PROVE n + 1 \in T
  <2> SUFFICES ASSUME n + 1 <= Len(s) PROVE F[n + 1] >= 0
    OBVIOUS
  <2>1. n + 1 \in 1 .. Len(s) /\ (n + 1) - 1 = n /\ F[n] >= 0 /\ F[n] \in Int
    BY <1>2, <1>4
  <2>2. F[n + 1] = F[n] + s[n + 1] /\ s[n + 1] \in Nat
    BY <1>2, <2>1 DEF SumsUpTo
  <2> QED BY <2>1, <2>2
<1>5. Len(s) \in T
  <2> HIDE DEF T
  <2> QED BY SMTT(30), <1>3, <1>4, NatSetInduction
<1> QED BY <1>2, <1>5 DEF SeqSum, F

(* The sum of two sequences added element by element.                      *)
LEMMA SumPlus ==
  ASSUME NEW s \in Seq(Int), NEW t \in Seq(Int), NEW u \in Seq(Int),
         Len(s) = Len(u), Len(t) = Len(u), \A i \in 1 .. Len(u) : u[i] = s[i] + t[i]
  PROVE  SeqSum(u) = SeqSum(s) + SeqSum(t)
<1> DEFINE F == PartialSums(s)
           G == PartialSums(t)
           H == PartialSums(u)
           N == Len(u)
<1>1. /\ F \in [0 .. N -> Int] /\ SumsUpTo(F, s, N)
      /\ G \in [0 .. N -> Int] /\ SumsUpTo(G, t, N)
      /\ H \in [0 .. N -> Int] /\ SumsUpTo(H, u, N)
  BY PartialSumsDef
<1> HIDE DEF F, G, H
<1> DEFINE T == {n \in Nat : n <= N => H[n] = F[n] + G[n]}
<1>2. 0 \in T
  BY <1>1 DEF SumsUpTo
<1>3. ASSUME NEW n \in Nat, n \in T PROVE n + 1 \in T
  <2> SUFFICES ASSUME n + 1 <= N PROVE H[n + 1] = F[n + 1] + G[n + 1]
    OBVIOUS
  <2>1. n + 1 \in 1 .. N /\ n \in 0 .. N /\ (n + 1) - 1 = n /\ H[n] = F[n] + G[n]
    BY <1>3
  <2>2. /\ F[n + 1] = F[n] + s[n + 1] /\ G[n + 1] = G[n] + t[n + 1]
        /\ H[n + 1] = H[n] + u[n + 1] /\ u[n + 1] = s[n + 1] + t[n + 1]
    BY <1>1, <2>1 DEF SumsUpTo
  <2>3. F[n] \in Int /\ G[n] \in Int
    BY Zenon, <1>1, <2>1
  <2>4. s[n + 1] \in Int /\ t[n + 1] \in Int
    BY <2>1
  <2> DEFINE a == F[n]
             b == G[n]
             c == s[n + 1]
             d == t[n + 1]
             e == H[n + 1]
  <2>5. /\ a \in Int /\ b \in Int /\ c \in Int /\ d \in Int /\ e = (a + b) + (c + d)
        /\ F[n + 1] = a + c /\ G[n + 1] = b + d
    BY Zenon, <2>1, <2>2, <2>3, <2>4
  <2> HIDE DEF a, b, c, d, e
  <2>6. e = (a + c) + (b + d)
    BY <2>5
  <2> QED BY <2>5, <2>6 DEF e
<1>4. N \in T
  <2>1. N \in Nat
    OBVIOUS
  <2> HIDE DEF T, N
  <2> QED BY Zenon, <1>2, <1>3, <2>1, NatSetInduction
<1>5. H[N] = F[N] + G[N]
  BY <1>4 DEF T
<1> QED BY <1>5 DEF SeqSum, F, G, H

(* The first elements of a sequence of naturals sum up to no more than all.*)
LEMMA SumGrows ==
  ASSUME NEW s \in Seq(Nat), NEW t \in Seq(Nat), Len(s) <= Len(t),
         \A i \in 1 .. Len(s) : s[i] = t[i]
  PROVE  SeqSum(s) <= SeqSum(t)
<1> DEFINE F == PartialSums(s)
           G == PartialSums(t)
           M == Len(s)
           N == Len(t)
<1>1. s \in Seq(Int) /\ t \in Seq(Int)
  OBVIOUS
<1>2. /\ F \in [0 .. M -> Int] /\ SumsUpTo(F, s, M)
      /\ G \in [0 .. N -> Int] /\ SumsUpTo(G, t, N)
  BY <1>1, PartialSumsDef
<1> HIDE DEF F, G
<1> DEFINE T == {n \in Nat : n <= N => IF n <= M THEN G[n] = F[n] ELSE F[M] <= G[n]}
<1>3. 0 \in T
  BY <1>2 DEF SumsUpTo
<1>4. ASSUME NEW n \in Nat, n \in T PROVE n + 1 \in T
  <2> SUFFICES ASSUME n + 1 <= N PROVE IF n + 1 <= M THEN G[n + 1] = F[n + 1] ELSE F[M] <= G[n + 1]
    OBVIOUS
  <2>1. n + 1 \in 1 .. N /\ n \in 0 .. N /\ (n + 1) - 1 = n /\ M \in 0 .. M
    OBVIOUS
  <2>2. G[n + 1] = G[n] + t[n + 1] /\ t[n + 1] \in Nat /\ G[n] \in Int /\ F[M] \in Int
    <3>1. t[n + 1] \in Nat
      BY <2>1
    <3>2. G[n + 1] = G[n] + t[n + 1]
      BY <1>2, <2>1 DEF SumsUpTo
    <3> QED BY Zenon, <1>2, <2>1, <3>1, <3>2
  <2>3. CASE n + 1 <= M
    <3>1. n + 1 \in 1 .. M /\ F[n + 1] = F[n] + s[n + 1] /\ G[n] = F[n]
      BY SMTT(30), <1>2, <1>4, <2>1, <2>3 DEF SumsUpTo
    <3> QED BY Zenon, <2>2, <2>3, <3>1
  <2>4. CASE ~(n + 1 <= M)
    <3>1. F[M] <= G[n]
      <4>1. CASE n <= M
        <5>1. n = M
          BY <2>4, <4>1
        <5> QED BY <1>4, <2>1, <2>2, <5>1
      <4>2. CASE ~(n <= M)
        BY <1>4, <2>1, <4>2
      <4> QED BY <4>1, <4>2
    <3> QED BY <2>2, <2>4, <3>1
  <2> QED BY <2>3, <2>4
<1>5. N \in T
  <2>1. N \in Nat
    OBVIOUS
  <2> HIDE DEF T, N
  <2> QED BY Zenon, <1>3, <1>4, <2>1, NatSetInduction
<1>6. F[M] <= G[N]
  <2>1. M \in Nat /\ N \in Nat /\ F[M] \in Int
    BY SMTT(30), <1>2
  <2>2. IF N <= M THEN G[N] = F[N] ELSE F[M] <= G[N]
    BY <1>5, <2>1 DEF T
  <2>3. N <= M => N = M
    BY <2>1
  <2> QED BY <2>1, <2>2, <2>3
<1> QED BY <1>6 DEF SeqSum, F, G
-----------------------------------------------------------------------------
(* What the events of some days add up to                                  *)

Counted ==
  [kind : {"points", "level", "badge", "achievement"}, user : {i.user : i \in Inputs},
   delta : Int, time : {t \in Nat : DayOf(t) \in Days}]

Counters == {"users", "points", "badges"}

Amount(what, e) == IF what = "points" THEN Awarded(e) ELSE Badged(e)

(* What the first n events of lg add, each if it is of a day in D.         *)
Amounts(lg, what, D, n) ==
  [i \in 1 .. n |-> IF DayOf(lg[i].time) \in D THEN Amount(what, lg[i]) ELSE 0]

SumOf(lg, what, D, n) == SeqSum(Amounts(lg, what, D, n))

(* The users of the first n events, of those in the period with key k.     *)
UsersOf(lg, p, k, n) ==
  {lg[i].user : i \in {j \in 1 .. n : KeyOf(p, DayOf(lg[j].time)) = k}}

(* The amounts are naturals.                                               *)
LEMMA AmountsType ==
  ASSUME NEW lg \in Seq(Counted), NEW what, NEW D, NEW n \in 0 .. Len(lg)
  PROVE  /\ Amounts(lg, what, D, n) \in Seq(Nat) /\ Amounts(lg, what, D, n) \in Seq(Int)
         /\ Len(Amounts(lg, what, D, n)) = n
         /\ SumOf(lg, what, D, n) \in Nat
<1>1. \A i \in 1 .. n : lg[i] \in Counted
  OBVIOUS
<1>2. \A e \in Counted : Amount(what, e) \in Nat
  BY DEF Amount, Counted, Awarded, Badged
<1>3. Amounts(lg, what, D, n) \in Seq(Nat) /\ Amounts(lg, what, D, n) \in Seq(Int)
      /\ Len(Amounts(lg, what, D, n)) = n
  BY <1>1, <1>2 DEF Amounts
<1> QED BY <1>3, SumNat DEF SumOf

(* More events add no less.                                                *)
LEMMA AmountsGrow ==
  ASSUME NEW lg \in Seq(Counted), NEW what, NEW D, NEW n \in 0 .. Len(lg), NEW m \in 0 .. n
  PROVE  SumOf(lg, what, D, m) <= SumOf(lg, what, D, n)
<1> DEFINE s == Amounts(lg, what, D, m)
           t == Amounts(lg, what, D, n)
<1>1. m \in 0 .. Len(lg)
  OBVIOUS
<1>2. s \in Seq(Nat) /\ t \in Seq(Nat) /\ Len(s) = m /\ Len(t) = n
  BY <1>1, AmountsType
<1>3. \A i \in 1 .. m : s[i] = t[i]
  BY DEF Amounts
<1> HIDE DEF s, t
<1>4. SeqSum(s) <= SeqSum(t)
  BY <1>2, <1>3, SumGrows
<1> QED BY <1>4 DEF s, t, SumOf

(* One more day adds what its events do.                                   *)
LEMMA AmountsOfDay ==
  ASSUME NEW lg \in Seq(Counted), NEW what, NEW D, NEW n \in 0 .. Len(lg), NEW d, d \notin D
  PROVE  SumOf(lg, what, D \cup {d}, n) = SumOf(lg, what, D, n) + SumOf(lg, what, {d}, n)
<1> DEFINE s == Amounts(lg, what, D, n)
           t == Amounts(lg, what, {d}, n)
           u == Amounts(lg, what, D \cup {d}, n)
<1>1. /\ s \in Seq(Int) /\ t \in Seq(Int) /\ u \in Seq(Int)
      /\ Len(s) = n /\ Len(t) = n /\ Len(u) = n /\ s \in Seq(Nat) /\ t \in Seq(Nat)
  BY AmountsType
<1>2. ASSUME NEW i \in 1 .. n PROVE u[i] = s[i] + t[i]
  <2>1. s[i] \in Nat /\ t[i] \in Nat
    BY <1>1
  <2> DEFINE a == Amount(what, lg[i])
             x == DayOf(lg[i].time)
  <2>2. /\ s[i] = (IF x \in D THEN a ELSE 0) /\ t[i] = (IF x \in {d} THEN a ELSE 0)
        /\ u[i] = (IF x \in D \cup {d} THEN a ELSE 0)
    BY DEF Amounts
  <2> HIDE DEF a, x, s, t, u
  <2>3. CASE x \in D
    <3>1. s[i] = a /\ t[i] = 0 /\ u[i] = a
      BY <2>2, <2>3
    <3> QED BY <2>1, <3>1
  <2>4. CASE x = d
    <3>1. s[i] = 0 /\ t[i] = a /\ u[i] = a
      BY <2>2, <2>4
    <3> QED BY <2>1, <3>1
  <2>5. CASE x \notin D /\ x # d
    <3>1. s[i] = 0 /\ t[i] = 0 /\ u[i] = 0
      BY <2>2, <2>5
    <3> QED BY <3>1
  <2> QED BY Zenon, <2>3, <2>4, <2>5
<1> HIDE DEF s, t, u
<1>3. SeqSum(u) = SeqSum(s) + SeqSum(t)
  BY Zenon, <1>1, <1>2, SumPlus
<1> QED BY <1>3 DEF s, t, u, SumOf

(* l2 has one more event than lg.                                          *)
Appended(lg, e, l2) == l2 = Append(lg, e)

(* The log stays what it was, with one more event.                         *)
LEMMA AppendedIs ==
  ASSUME NEW lg \in Seq(Counted), NEW e \in Counted, NEW l2, Appended(lg, e, l2)
  PROVE  /\ l2 \in Seq(Counted) /\ Len(lg) \in Nat /\ Len(l2) = Len(lg) + 1
         /\ l2[Len(lg) + 1] = e /\ \A i \in 1 .. Len(lg) : l2[i] = lg[i]
BY DEF Appended

(* Nothing changes about the events before it.                             *)
LEMMA AmountsBefore ==
  ASSUME NEW lg \in Seq(Counted), NEW e \in Counted, NEW l2, Appended(lg, e, l2),
         NEW what, NEW D, NEW n \in 0 .. Len(lg)
  PROVE  SumOf(l2, what, D, n) = SumOf(lg, what, D, n)
<1>1. \A i \in 1 .. n : l2[i] = lg[i]
  BY AppendedIs
<1>2. Amounts(l2, what, D, n) = Amounts(lg, what, D, n)
  BY Zenon, <1>1 DEF Amounts
<1> QED BY <1>2 DEF SumOf

(* It adds its amount if it is of one of the days.                         *)
LEMMA AmountsOfEvent ==
  ASSUME NEW lg \in Seq(Counted), NEW e \in Counted, NEW l2, Appended(lg, e, l2),
         NEW what, NEW D
  PROVE  /\ DayOf(e.time) \in D =>
              SumOf(l2, what, D, Len(l2)) = SumOf(lg, what, D, Len(lg)) + Amount(what, e)
         /\ DayOf(e.time) \notin D => SumOf(l2, what, D, Len(l2)) = SumOf(lg, what, D, Len(lg))
<1> DEFINE a == IF DayOf(e.time) \in D THEN Amount(what, e) ELSE 0
           N == Len(lg)
           s == Amounts(lg, what, D, N)
           t == Amounts(l2, what, D, N + 1)
<1>1. /\ l2 \in Seq(Counted) /\ Len(l2) = N + 1 /\ l2[N + 1] = e /\ N \in Nat
      /\ \A i \in 1 .. N : l2[i] = lg[i]
  BY AppendedIs
<1>2. N \in 0 .. Len(lg) /\ N + 1 \in 0 .. Len(l2)
  BY <1>1
<1>3. s \in Seq(Int) /\ Len(s) = N /\ SeqSum(s) \in Nat
  BY Zenon, <1>2, AmountsType DEF SumOf
<1>4. t \in Seq(Int) /\ Len(t) = N + 1
  <2> HIDE DEF N
  <2> QED BY ZenonT(40), <1>1, <1>2, AmountsType
<1>5. t[N + 1] = a /\ \A i \in 1 .. N : t[i] = s[i]
  BY SMTT(30), <1>1, <1>2 DEF Amounts
<1>6. a \in Int
  <2>1. N + 1 \in 1 .. Len(t)
    BY SMTT(30), <1>1, <1>4
  <2> HIDE DEF t, a, N
  <2> QED BY SMTT(30), <1>4, <1>5, <2>1
<1> HIDE DEF s, t, a, N
<1>7. t = Append(s, a)
  BY SMTT(30), <1>3, <1>4, <1>5, <1>6
<1>8. SeqSum(t) = SeqSum(s) + a
  BY Zenon, <1>3, <1>6, <1>7, SumAppend
<1>9. SumOf(l2, what, D, Len(l2)) = SeqSum(t) /\ SumOf(lg, what, D, Len(lg)) = SeqSum(s)
  BY SMTT(30), <1>1 DEF s, t, SumOf, N
<1>10. CASE DayOf(e.time) \in D
  <2>1. a = Amount(what, e)
    BY <1>10 DEF a
  <2> QED BY ZenonT(40), <1>8, <1>9, <1>10, <2>1
<1>11. CASE DayOf(e.time) \notin D
  <2>1. a = 0
    BY Zenon, <1>11 DEF a
  <2> QED BY SMTT(30), <1>3, <1>8, <1>9, <1>11, <2>1
<1> QED BY Zenon, <1>10, <1>11

(* The same of the users.                                                  *)
LEMMA UsersBefore ==
  ASSUME NEW lg \in Seq(Counted), NEW e \in Counted, NEW l2, Appended(lg, e, l2),
         NEW p, NEW k, NEW n \in 0 .. Len(lg)
  PROVE  UsersOf(l2, p, k, n) = UsersOf(lg, p, k, n)
<1> DEFINE J(l) == {j \in 1 .. n : KeyOf(p, DayOf(l[j].time)) = k}
<1>1. \A i \in 1 .. n : l2[i] = lg[i]
  BY AppendedIs
<1>2. J(l2) = J(lg) /\ \A i \in J(lg) : l2[i].user = lg[i].user
  BY Zenon, <1>1
<1>3. UsersOf(l2, p, k, n) = {l2[i].user : i \in J(l2)}
      /\ UsersOf(lg, p, k, n) = {lg[i].user : i \in J(lg)}
  BY DEF UsersOf
<1> HIDE DEF J
<1> QED BY SMTT(30), <1>2, <1>3

(* The users are one more if the event is of the period.                   *)
LEMMA UsersOfEvent ==
  ASSUME NEW lg \in Seq(Counted), NEW e \in Counted, NEW l2, Appended(lg, e, l2),
         NEW p, NEW k
  PROVE  /\ KeyOf(p, DayOf(e.time)) = k =>
              UsersOf(l2, p, k, Len(l2)) = UsersOf(lg, p, k, Len(lg)) \cup {e.user}
         /\ KeyOf(p, DayOf(e.time)) # k =>
              UsersOf(l2, p, k, Len(l2)) = UsersOf(lg, p, k, Len(lg))
<1> DEFINE N == Len(lg)
           In(x) == KeyOf(p, DayOf(x.time)) = k
           J == {j \in 1 .. N : In(l2[j])}
           J2 == {j \in 1 .. N + 1 : In(l2[j])}
<1>1. /\ Len(l2) = N + 1 /\ l2[N + 1] = e /\ N \in Nat /\ N \in 0 .. Len(lg)
  BY SMTT(30), AppendedIs
<1>2. UsersOf(lg, p, k, N) = {l2[i].user : i \in J}
  <2>1. UsersOf(lg, p, k, N) = UsersOf(l2, p, k, N)
    BY SMTT(30), <1>1, UsersBefore
  <2> QED BY Zenon, <2>1 DEF UsersOf
<1>3. UsersOf(l2, p, k, N + 1) = {l2[i].user : i \in J2}
  BY DEF UsersOf
<1>4. 1 .. N + 1 = (1 .. N) \cup {N + 1}
  BY SMTT(30), <1>1
<1> HIDE DEF N
<1>5. CASE In(e)
  <2>1. J2 = J \cup {N + 1}
    BY ZenonT(40), <1>1, <1>4, <1>5
  <2> HIDE DEF J, J2
  <2>2. {l2[i].user : i \in J \cup {N + 1}} = {l2[i].user : i \in J} \cup {e.user}
    BY Zenon, <1>1
  <2> QED BY Zenon, <1>1, <1>2, <1>3, <1>5, <2>1, <2>2 DEF N
<1>6. CASE ~In(e)
  <2>1. J2 = J
    BY Zenon, <1>1, <1>4, <1>6
  <2> HIDE DEF J, J2
  <2> QED BY ZenonT(40), <1>1, <1>2, <1>3, <1>6, <2>1 DEF N
<1> QED BY Zenon, <1>5, <1>6

(* More events have no fewer users.                                        *)
LEMMA UsersGrow ==
  ASSUME NEW lg \in Seq(Counted), NEW p, NEW k, NEW n \in 0 .. Len(lg), NEW m \in 0 .. n
  PROVE  /\ Cardinality(UsersOf(lg, p, k, m)) \in Nat /\ Cardinality(UsersOf(lg, p, k, n)) \in Nat
         /\ Cardinality(UsersOf(lg, p, k, m)) <= Cardinality(UsersOf(lg, p, k, n))
<1> DEFINE J == {j \in 1 .. n : KeyOf(p, DayOf(lg[j].time)) = k}
           f == [j \in J |-> lg[j].user]
           U == UsersOf(lg, p, k, n)
           V == UsersOf(lg, p, k, m)
<1>1. IsFiniteSet(J)
  <2>1. IsFiniteSet(1 .. n)
    BY SMTT(30), FS_Interval
  <2> QED BY Zenon, <2>1, FS_Subset
<1>2. f \in Surjection(J, U)
  BY DEF Surjection, UsersOf
<1>3. V \in SUBSET U
  BY DEF UsersOf
<1> HIDE DEF f, U, V, J
<1>4. IsFiniteSet(U)
  BY Zenon, <1>1, <1>2, FS_Surjection
<1>5. IsFiniteSet(V) /\ Cardinality(V) <= Cardinality(U)
  BY Zenon, <1>3, <1>4, FS_Subset
<1> QED BY Zenon, <1>4, <1>5, FS_CardinalityType DEF U, V

-----------------------------------------------------------------------------
(* The calendar                                                            *)

(* The clock is on the day whose ticks it shows.                           *)
LEMMA DayOfTick ==
  ASSUME NEW d \in Nat, NEW t \in Nat, d * TicksPerDay <= t, t <= (d + 1) * TicksPerDay - 1
  PROVE  DayOf(t) = d
<1> DEFINE T == TicksPerDay
           q == t \div T
           r == t % T
<1>1. T \in Nat \ {0}
  BY MetricsAssumption
<1>2. q \in Nat /\ r \in 0 .. T - 1 /\ t = q * T + r
  <2> HIDE DEF T
  <2> QED BY <1>1
<1> HIDE DEF T, q, r
<1>3. d * T \in Nat /\ q * T \in Nat /\ (d + 1) * T = d * T + T /\ (q + 1) * T = q * T + T
  BY <1>1, <1>2
<1>4. ASSUME NEW a \in Nat, NEW b \in Nat, a < b PROVE (a + 1) * T <= b * T
  <2>1. PICK c \in Nat : b = (a + 1) + c
    <3>1. b - (a + 1) \in Nat /\ b = (a + 1) + (b - (a + 1))
      BY <1>4
    <3> QED BY <3>1
  <2>2. b * T = (a + 1) * T + c * T /\ c * T \in Nat /\ (a + 1) * T \in Nat
    BY SMTT(30), <1>1, <2>1
  <2> QED BY <2>2
<1>5. d * T <= t /\ t < d * T + T /\ q * T <= t /\ t < q * T + T
  BY SMTT(30), <1>1, <1>2, <1>3 DEF T
<1> DEFINE A == d * T
           B == q * T
<1>6. /\ A \in Nat /\ B \in Nat /\ A <= t /\ t < A + T /\ B <= t /\ t < B + T
      /\ q < d => B + T <= A
      /\ d < q => A + T <= B
  BY ZenonT(40), <1>2, <1>3, <1>4, <1>5
<1> HIDE DEF A, B
<1>7. ~(q < d) /\ ~(d < q)
  BY SMTT(30), <1>1, <1>6
<1> QED BY <1>2, <1>7 DEF q, T, DayOf

(* The days of the loop over a week are those with the week's key.         *)
LEMMA WeekAgrees ==
  ASSUME NEW d \in Nat, NEW x \in Nat
  PROVE  WeekStart(d) <= x /\ x < WeekStart(d) + 7 <=> getWeekKey(x) = getWeekKey(d)
<1>1. FirstWeekday \in 0 .. 6
  BY MetricsAssumption
<1> DEFINE c == (FirstWeekday + 6) % 7
           q(y) == (y + c) \div 7
<1>2. c \in 0 .. 6 /\ c = IF FirstWeekday = 0 THEN 6 ELSE FirstWeekday - 1
  BY <1>1
<1>3. ASSUME NEW y \in Nat PROVE getWeekKey(y) = q(y) /\ q(y) \in Nat /\ 7 * q(y) <= y + c /\ y + c < 7 * q(y) + 7
  BY SMTT(30), <1>2 DEF getWeekKey
<1>4. WeekStart(d) = 7 * q(d) - c
  <2> DEFINE k == (FirstWeekday + d) % 7
             m == (FirstWeekday + d) \div 7
  <2>1. k \in 0 .. 6 /\ m \in Nat /\ FirstWeekday + d = 7 * m + k
    BY <1>1
  <2>2. WeekStart(d) = d - IF k - 1 < 0 THEN (k - 1) + 7 ELSE k - 1
    BY DEF WeekStart, Weekday
  <2>3. q(d) \in Nat /\ 7 * q(d) <= d + c /\ d + c < 7 * q(d) + 7
    BY Zenon, <1>3
  <2> HIDE DEF k, m, q, c
  <2> QED BY SMTT(30), <1>1, <1>2, <2>1, <2>2, <2>3
<1> DEFINE a == q(d)
           b == q(x)
<1>5. /\ a \in Nat /\ b \in Nat /\ getWeekKey(d) = a /\ getWeekKey(x) = b
      /\ 7 * b <= x + c /\ x + c < 7 * b + 7 /\ WeekStart(d) = 7 * a - c
  BY Zenon, <1>3, <1>4
<1> HIDE DEF q, c, a, b
<1>6. 7 * a - c <= x /\ x < (7 * a - c) + 7 <=> b = a
  BY SMTT(30), <1>2, <1>5
<1> QED BY Zenon, <1>5, <1>6

(* The days read for a month are those with its key: the months that have  *)
(* begun by the earlier of two days have begun by the later one, and they   *)
(* are as many only if they are the same.                                   *)
LEMMA MonthAgrees ==
  ASSUME NEW d \in Days, NEW x \in Days
  PROVE  x \in MonthDays(d) <=> getMonthKey(x) = getMonthKey(d)
<1> DEFINE Begun(y) == {s \in MonthStarts : s <= y}
<1>1. d \in Nat /\ x \in Nat /\ \A s \in MonthStarts : s \in Nat
  BY MetricsAssumption
<1>2. ASSUME NEW y \in Nat PROVE IsFiniteSet(Begun(y))
  <2>1. \A s \in MonthStarts : s <= y => s \in 0 .. y
    BY <1>1, <1>2
  <2>2. Begun(y) \in SUBSET (0 .. y)
    BY Zenon, <2>1
  <2>3. IsFiniteSet(0 .. y)
    BY <1>2, FS_Interval
  <2> QED BY Zenon, <2>2, <2>3, FS_Subset
<1>3. ASSUME NEW y \in Nat, NEW z \in Nat, y <= z, Cardinality(Begun(y)) = Cardinality(Begun(z))
      PROVE  Begun(y) = Begun(z)
  <2>1. \A s \in MonthStarts : s <= y => s <= z
    BY <1>1, <1>3
  <2>2. Begun(y) \in SUBSET Begun(z)
    BY Zenon, <2>1
  <2> QED BY Zenon, <1>2, <1>3, <2>2, FS_Subset
<1>4. Begun(x) = Begun(d) <=> Cardinality(Begun(x)) = Cardinality(Begun(d))
  <2>1. x <= d \/ d <= x
    BY <1>1
  <2> QED BY Zenon, <1>1, <1>3, <2>1
<1>5. x \in MonthDays(d) <=> Begun(x) = Begun(d)
  <2>1. x \in MonthDays(d) <=> \A s \in MonthStarts : s <= x <=> s <= d
    BY <1>1 DEF MonthDays
  <2> QED BY Zenon, <2>1
<1> QED BY Zenon, <1>4, <1>5 DEF getMonthKey

(* So are those of a day.                                                  *)
LEMMA DaysAgree ==
  ASSUME NEW p \in Periods, NEW d \in Days
  PROVE  /\ DaysOf(p, d) \subseteq Days
         /\ \A x \in Days : x \in DaysOf(p, d) <=> KeyOf(p, x) = KeyOf(p, d)
<1>1. d \in Nat /\ \A x \in Days : x \in Nat
  BY MetricsAssumption
<1>2. CASE p = "daily"
  BY Zenon, <1>2 DEF DaysOf, KeyOf
<1>3. CASE p = "weekly"
  <2>1. DaysOf(p, d) = WeekDays(d) /\ \A x : KeyOf(p, x) = getWeekKey(x)
    BY SMTT(30), <1>3 DEF DaysOf, KeyOf
  <2>2. \A x \in Days : x \in WeekDays(d) <=> getWeekKey(x) = getWeekKey(d)
    BY Zenon, <1>1, WeekAgrees DEF WeekDays
  <2> QED BY Zenon, <2>1, <2>2 DEF WeekDays
<1>4. CASE p = "monthly"
  <2>1. DaysOf(p, d) = MonthDays(d) /\ \A x : KeyOf(p, x) = getMonthKey(x)
    BY SMTT(30), <1>4 DEF DaysOf, KeyOf
  <2>2. \A x \in Days : x \in MonthDays(d) <=> getMonthKey(x) = getMonthKey(d)
    BY Zenon, MonthAgrees
  <2> QED BY Zenon, <2>1, <2>2 DEF MonthDays
<1> QED BY Zenon, <1>2, <1>3, <1>4 DEF Periods

-----------------------------------------------------------------------------
(* The invariant of aggregation                                            *)

(* The counters by day, week and month say what the events do.             *)
MetricsOk(m, lg) ==
  /\ m.points = [d \in Days |-> SumOf(lg, "points", {d}, Len(lg))]
  /\ m.badges = [d \in Days |-> SumOf(lg, "badges", {d}, Len(lg))]
  /\ m.daily = [d \in Days |-> UsersOf(lg, "daily", d, Len(lg))]
  /\ m.weekly = [w \in Weeks |-> UsersOf(lg, "weekly", w, Len(lg))]
  /\ m.monthly = [k \in Months |-> UsersOf(lg, "monthly", k, Len(lg))]

(* The days of a period that an aggregation has read.                      *)
DaysRead(a, p, what) == {d \in DaysOf(p, a.at) : Read(p, what, d) \notin a.todo}

AggShape(a, lg) ==
  /\ a = [at |-> a.at, todo |-> a.todo, from |-> a.from, data |-> a.data]
  /\ a.at \in Days /\ a.from \in 0 .. Len(lg) /\ a.todo \subseteq Reads(a.at)
  /\ a.data \in [Periods -> [Counters -> Nat]]

(* What was read of the days so far is between what their events had added *)
(* when the aggregation began and what they have added now.                *)
DaysBracketed(a, lg) ==
  \A p \in Periods, what \in {"points", "badges"} :
    /\ SumOf(lg, what, DaysRead(a, p, what), a.from) <= a.data[p][what]
    /\ a.data[p][what] <= SumOf(lg, what, DaysRead(a, p, what), Len(lg))

UsersBracketed(a, lg) ==
  \A p \in Periods :
    IF Read(p, "users", a.at) \in a.todo THEN a.data[p]["users"] = 0
    ELSE /\ Cardinality(UsersOf(lg, p, KeyOf(p, a.at), a.from)) <= a.data[p]["users"]
         /\ a.data[p]["users"] <= Cardinality(UsersOf(lg, p, KeyOf(p, a.at), Len(lg)))

AggInv ==
  /\ log \in Seq(Counted) /\ Len(log) = events /\ now \in Nat /\ Today \in Days
  /\ MetricsOk(metrics, log)
  /\ agg # Resting => AggShape(agg, log) /\ DaysBracketed(agg, log) /\ UsersBracketed(agg, log)

(* The keys of the days are those the counters have.                       *)
LEMMA KeysExist ==
  ASSUME NEW d \in Days
  PROVE  /\ KeyOf("daily", d) = d /\ KeyOf("weekly", d) = getWeekKey(d)
         /\ KeyOf("monthly", d) = getMonthKey(d)
         /\ getWeekKey(d) \in Weeks /\ getMonthKey(d) \in Months
BY SMTT(30) DEF KeyOf, Weeks, Months

(* An event is counted on its day, in its week and in its month.           *)
LEMMA MetricsObserve ==
  ASSUME NEW lg \in Seq(Counted), NEW e \in Counted, NEW l2, Appended(lg, e, l2),
         NEW m, MetricsOk(m, lg), NEW t
  PROVE  MetricsOk(OnEvent(m, e, t), l2)
<1> DEFINE d0 == DayOf(e.time)
           m2 == OnEvent(m, e, t)
<1>1. d0 \in Days
  BY SMTT(30) DEF Counted
<1>2. /\ m2.daily = [m.daily EXCEPT ![d0] = @ \cup {e.user}]
      /\ m2.weekly = [m.weekly EXCEPT ![getWeekKey(d0)] = @ \cup {e.user}]
      /\ m2.monthly = [m.monthly EXCEPT ![getMonthKey(d0)] = @ \cup {e.user}]
      /\ m2.points = [m.points EXCEPT ![d0] = @ + Awarded(e)]
      /\ m2.badges = [m.badges EXCEPT ![d0] = @ + Badged(e)]
  BY Zenon DEF OnEvent
<1>3. ASSUME NEW what, NEW d \in Days
      PROVE  SumOf(l2, what, {d}, Len(l2)) =
               IF d = d0 THEN SumOf(lg, what, {d}, Len(lg)) + Amount(what, e)
               ELSE SumOf(lg, what, {d}, Len(lg))
  <2>1. /\ d0 \in {d} =>
             SumOf(l2, what, {d}, Len(l2)) = SumOf(lg, what, {d}, Len(lg)) + Amount(what, e)
        /\ d0 \notin {d} => SumOf(l2, what, {d}, Len(l2)) = SumOf(lg, what, {d}, Len(lg))
    BY SMTT(30), AmountsOfEvent
  <2> HIDE DEF d0
  <2> QED BY Zenon, <2>1
<1>4. ASSUME NEW p, NEW k
      PROVE  UsersOf(l2, p, k, Len(l2)) =
               IF k = KeyOf(p, d0) THEN UsersOf(lg, p, k, Len(lg)) \cup {e.user}
               ELSE UsersOf(lg, p, k, Len(lg))
  <2>1. /\ KeyOf(p, d0) = k => UsersOf(l2, p, k, Len(l2)) = UsersOf(lg, p, k, Len(lg)) \cup {e.user}
        /\ KeyOf(p, d0) # k => UsersOf(l2, p, k, Len(l2)) = UsersOf(lg, p, k, Len(lg))
    BY UsersOfEvent
  <2> HIDE DEF d0
  <2> QED BY Zenon, <2>1
<1>5. Amount("points", e) = Awarded(e) /\ Amount("badges", e) = Badged(e)
  BY SMTT(30) DEF Amount
<1>6. /\ KeyOf("daily", d0) = d0 /\ KeyOf("weekly", d0) = getWeekKey(d0)
      /\ KeyOf("monthly", d0) = getMonthKey(d0)
      /\ getWeekKey(d0) \in Weeks /\ getMonthKey(d0) \in Months
  BY Zenon, <1>1, KeysExist
<1> HIDE DEF d0, m2
<1>7. m2.points = [d \in Days |-> SumOf(l2, "points", {d}, Len(l2))]
  <2> DEFINE F(d) == SumOf(lg, "points", {d}, Len(lg))
             G(d) == SumOf(l2, "points", {d}, Len(l2))
             v == Awarded(e)
  <2>1. m.points = [d \in Days |-> F(d)]
    BY DEF MetricsOk
  <2>2. \A d \in Days : G(d) = IF d = d0 THEN F(d) + v ELSE F(d)
    BY ZenonT(40), <1>3, <1>5
  <2>3. m2.points = [m.points EXCEPT ![d0] = @ + v]
    BY ZenonT(40), <1>2
  <2> HIDE DEF F, G, v
  <2>4. m2.points = [d \in Days |-> G(d)]
    BY ZenonT(40), <2>1, <2>2, <2>3
  <2> QED BY Zenon, <2>4 DEF G
<1>8. m2.badges = [d \in Days |-> SumOf(l2, "badges", {d}, Len(l2))]
  <2> DEFINE F(d) == SumOf(lg, "badges", {d}, Len(lg))
             G(d) == SumOf(l2, "badges", {d}, Len(l2))
             v == Badged(e)
  <2>1. m.badges = [d \in Days |-> F(d)]
    BY DEF MetricsOk
  <2>2. \A d \in Days : G(d) = IF d = d0 THEN F(d) + v ELSE F(d)
    BY ZenonT(40), <1>3, <1>5
  <2>3. m2.badges = [m.badges EXCEPT ![d0] = @ + v]
    BY Zenon, <1>2
  <2> HIDE DEF F, G, v
  <2>4. m2.badges = [d \in Days |-> G(d)]
    BY Zenon, <2>1, <2>2, <2>3
  <2> QED BY Zenon, <2>4 DEF G
<1>9. m2.daily = [d \in Days |-> UsersOf(l2, "daily", d, Len(l2))]
  <2> DEFINE F(k) == UsersOf(lg, "daily", k, Len(lg))
             G(k) == UsersOf(l2, "daily", k, Len(l2))
             k0 == d0
             u == {e.user}
  <2>1. m.daily = [k \in Days |-> F(k)]
    BY DEF MetricsOk
  <2>2. \A k \in Days : G(k) = IF k = k0 THEN F(k) \cup u ELSE F(k)
    BY Zenon, <1>4, <1>6
  <2>3. m2.daily = [m.daily EXCEPT ![k0] = @ \cup u]
    BY ZenonT(40), <1>2
  <2> HIDE DEF F, G, k0, u
  <2>4. m2.daily = [k \in Days |-> G(k)]
    BY ZenonT(40), <2>1, <2>2, <2>3
  <2> QED BY Zenon, <2>4 DEF G
<1>10. m2.weekly = [w \in Weeks |-> UsersOf(l2, "weekly", w, Len(l2))]
  <2> DEFINE F(k) == UsersOf(lg, "weekly", k, Len(lg))
             G(k) == UsersOf(l2, "weekly", k, Len(l2))
             k0 == getWeekKey(d0)
             u == {e.user}
  <2>1. m.weekly = [k \in Weeks |-> F(k)]
    BY Zenon DEF MetricsOk
  <2>2. \A k \in Weeks : G(k) = IF k = k0 THEN F(k) \cup u ELSE F(k)
    BY Zenon, <1>4, <1>6
  <2>3. m2.weekly = [m.weekly EXCEPT ![k0] = @ \cup u]
    BY ZenonT(40), <1>2
  <2> HIDE DEF F, G, k0, u
  <2>4. m2.weekly = [k \in Weeks |-> G(k)]
    BY Zenon, <2>1, <2>2, <2>3
  <2> QED BY SMTT(30), <2>4 DEF G
<1>11. m2.monthly = [k \in Months |-> UsersOf(l2, "monthly", k, Len(l2))]
  <2> DEFINE F(k) == UsersOf(lg, "monthly", k, Len(lg))
             G(k) == UsersOf(l2, "monthly", k, Len(l2))
             k0 == getMonthKey(d0)
             u == {e.user}
  <2>1. m.monthly = [k \in Months |-> F(k)]
    BY SMTT(30) DEF MetricsOk
  <2>2. \A k \in Months : G(k) = IF k = k0 THEN F(k) \cup u ELSE F(k)
    BY Zenon, <1>4, <1>6
  <2>3. m2.monthly = [m.monthly EXCEPT ![k0] = @ \cup u]
    BY ZenonT(40), <1>2
  <2> HIDE DEF F, G, k0, u
  <2>4. m2.monthly = [k \in Months |-> G(k)]
    BY ZenonT(40), <2>1, <2>2, <2>3
  <2> QED BY ZenonT(40), <2>4 DEF G
<1> QED BY Zenon, <1>7, <1>8, <1>9, <1>10, <1>11 DEF MetricsOk, m2

(* An event that comes while the counters are read widens the brackets.    *)
LEMMA BracketsObserve ==
  ASSUME NEW lg \in Seq(Counted), NEW e \in Counted, NEW l2, Appended(lg, e, l2),
         NEW a, AggShape(a, lg), DaysBracketed(a, lg), UsersBracketed(a, lg)
  PROVE  AggShape(a, l2) /\ DaysBracketed(a, l2) /\ UsersBracketed(a, l2)
<1>1. /\ l2 \in Seq(Counted) /\ Len(l2) = Len(lg) + 1 /\ Len(lg) \in Nat
      /\ a.from \in 0 .. Len(lg) /\ Len(lg) \in 0 .. Len(l2)
  <2>1. l2 \in Seq(Counted) /\ Len(l2) = Len(lg) + 1 /\ Len(lg) \in Nat
    BY DEF Appended
  <2> QED BY <2>1 DEF AggShape
<1>2. AggShape(a, l2)
  BY SMTT(30), <1>1 DEF AggShape
<1>3. ASSUME NEW p \in Periods, NEW what \in {"points", "badges"}
      PROVE  /\ SumOf(l2, what, DaysRead(a, p, what), a.from) <= a.data[p][what]
             /\ a.data[p][what] <= SumOf(l2, what, DaysRead(a, p, what), Len(l2))
  <2> DEFINE D == DaysRead(a, p, what)
             x == a.data[p][what]
             lo == SumOf(lg, what, D, a.from)
             hi == SumOf(lg, what, D, Len(lg))
  <2>1. lo <= x /\ x <= hi
    BY Zenon DEF DaysBracketed
  <2>2. SumOf(l2, what, D, a.from) = lo /\ SumOf(l2, what, D, Len(lg)) = hi
    BY SMTT(30), <1>1, AmountsBefore
  <2>3. SumOf(l2, what, D, Len(lg)) <= SumOf(l2, what, D, Len(l2))
    <3>1. Len(l2) \in 0 .. Len(l2)
      BY <1>1
    <3> QED BY Zenon, <1>1, <3>1, AmountsGrow
  <2>4. hi \in Nat /\ SumOf(l2, what, D, Len(l2)) \in Nat
    BY SMTT(30), <1>1, AmountsType
  <2>5. x \in Nat
    BY SMTT(30) DEF AggShape, Counters
  <2> HIDE DEF D, x, lo, hi
  <2> QED BY SMTT(40), <2>1, <2>2, <2>3, <2>4, <2>5 DEF D, x
<1>4. DaysBracketed(a, l2)
  BY ZenonT(40), <1>3 DEF DaysBracketed
<1>5. ASSUME NEW p \in Periods, Read(p, "users", a.at) \notin a.todo
      PROVE  /\ Cardinality(UsersOf(l2, p, KeyOf(p, a.at), a.from)) <= a.data[p]["users"]
             /\ a.data[p]["users"] <= Cardinality(UsersOf(l2, p, KeyOf(p, a.at), Len(l2)))
  <2> DEFINE k == KeyOf(p, a.at)
             x == a.data[p]["users"]
             lo == Cardinality(UsersOf(lg, p, k, a.from))
             hi == Cardinality(UsersOf(lg, p, k, Len(lg)))
             hi2 == Cardinality(UsersOf(l2, p, k, Len(l2)))
  <2>1. lo <= x /\ x <= hi
    BY Zenon, <1>5 DEF UsersBracketed
  <2>2. UsersOf(l2, p, k, a.from) = UsersOf(lg, p, k, a.from)
        /\ UsersOf(l2, p, k, Len(lg)) = UsersOf(lg, p, k, Len(lg))
    BY SMTT(30), <1>1, UsersBefore
  <2>3. hi <= hi2 /\ hi \in Nat /\ hi2 \in Nat
    <3>1. Len(l2) \in 0 .. Len(l2)
      BY SMTT(30), <1>1
    <3> QED BY Zenon, <1>1, <2>2, <3>1, UsersGrow
  <2>4. x \in Nat
    BY DEF AggShape, Counters
  <2>5. Cardinality(UsersOf(l2, p, k, a.from)) = lo
    BY SMTT(30), <2>2
  <2> HIDE DEF k, x, lo, hi, hi2
  <2> QED BY SMTT(40), <2>1, <2>3, <2>4, <2>5 DEF k, x, hi2
<1>6. UsersBracketed(a, l2)
  BY Zenon, <1>5 DEF UsersBracketed
<1> QED BY Zenon, <1>2, <1>4, <1>6

-----------------------------------------------------------------------------
(* An aggregation, step by step                                            *)

(* No day adds nothing.                                                    *)
LEMMA NoDays ==
  ASSUME NEW lg \in Seq(Counted), NEW what, NEW n \in 0 .. Len(lg)
  PROVE  SumOf(lg, what, {}, n) = 0
<1> DEFINE s == Amounts(lg, what, {}, n)
<1>1. s \in Seq(Int) /\ Len(s) = n /\ SeqSum(s) \in Nat
  BY Zenon, AmountsType DEF SumOf
<1>2. \A i \in 1 .. n : s[i] = 0
  BY DEF Amounts
<1> HIDE DEF s
<1>3. \A i \in 1 .. n : s[i] = s[i] + s[i]
  BY SMTT(30), <1>2
<1>4. SeqSum(s) = SeqSum(s) + SeqSum(s)
  BY ZenonT(40), <1>1, <1>3, SumPlus
<1>5. SeqSum(s) = 0
  BY SMTT(30), <1>1, <1>4
<1> QED BY Zenon, <1>5 DEF s, SumOf

(* What there is to read of a day, a week and a month.                     *)
LEMMA ReadsAre ==
  ASSUME NEW d
  PROVE  /\ \A p \in Periods : Read(p, "users", d) \in Reads(d)
         /\ \A p \in Periods, what \in {"points", "badges"} : \A x \in DaysOf(p, d) :
              Read(p, what, x) \in Reads(d)
         /\ \A r \in Reads(d) :
              \/ \E p \in Periods : r = Read(p, "users", d)
              \/ \E p \in Periods, what \in {"points", "badges"} : \E x \in DaysOf(p, d) :
                   r = Read(p, what, x)
<1> DEFINE U == {Read(p, "users", d) : p \in Periods}
           V(p) == {Read(p, what, x) : what \in {"points", "badges"}, x \in DaysOf(p, d)}
           W == UNION {V(p) : p \in Periods}
<1>1. Reads(d) = U \cup W
  BY DEF Reads
<1>2. \A p \in Periods : Read(p, "users", d) \in U
  OBVIOUS
<1>3. \A p \in Periods, what \in {"points", "badges"} : \A x \in DaysOf(p, d) : Read(p, what, x) \in W
  OBVIOUS
<1>4. \A r \in U : \E p \in Periods : r = Read(p, "users", d)
  OBVIOUS
<1>5. \A r \in W : \E p \in Periods, what \in {"points", "badges"} : \E x \in DaysOf(p, d) :
                     r = Read(p, what, x)
  BY SMTT(30)
<1> HIDE DEF U, W
<1> QED BY ZenonT(40), <1>1, <1>2, <1>3, <1>4, <1>5

(* The lock is taken: nothing has been read yet.                           *)
LEMMA BracketsBegin ==
  ASSUME NEW lg \in Seq(Counted), NEW t \in Days, NEW a,
         a = [at |-> t, todo |-> Reads(t), from |-> Len(lg), data |-> [p \in Periods |-> Zero]]
  PROVE  AggShape(a, lg) /\ DaysBracketed(a, lg) /\ UsersBracketed(a, lg)
<1>1. /\ a.at = t /\ a.todo = Reads(t) /\ a.from = Len(lg)
      /\ a.data = [p \in Periods |-> Zero]
      /\ a = [at |-> a.at, todo |-> a.todo, from |-> a.from, data |-> a.data]
  BY Zenon
<1>2. Zero \in [Counters -> Nat] /\ \A c \in Counters : Zero[c] = 0
  BY DEF Zero, Counters
<1>3. Len(lg) \in 0 .. Len(lg)
  BY SMTT(30)
<1>4. AggShape(a, lg)
  BY Zenon, <1>1, <1>2, <1>3 DEF AggShape
<1>5. ASSUME NEW p \in Periods, NEW c \in Counters PROVE a.data[p][c] = 0
  BY ZenonT(40), <1>1, <1>2
<1>6. ASSUME NEW p \in Periods, NEW what \in {"points", "badges"}
      PROVE  /\ SumOf(lg, what, DaysRead(a, p, what), a.from) <= a.data[p][what]
             /\ a.data[p][what] <= SumOf(lg, what, DaysRead(a, p, what), Len(lg))
  <2>1. DaysRead(a, p, what) = {}
    BY ZenonT(40), <1>1, ReadsAre DEF DaysRead
  <2>2. SumOf(lg, what, {}, Len(lg)) = 0
    BY Zenon, <1>3, NoDays
  <2> DEFINE x == a.data[p][what]
             D == DaysRead(a, p, what)
             f == a.from
             N == Len(lg)
  <2>3. x = 0 /\ D = {} /\ f = N /\ SumOf(lg, what, {}, N) = 0
    BY ZenonT(40), <1>1, <1>5, <2>1, <2>2 DEF Counters
  <2> HIDE DEF x, D, f, N
  <2>4. SumOf(lg, what, D, f) <= x /\ x <= SumOf(lg, what, D, N)
    BY SMTT(30), <2>3
  <2> QED BY Zenon, <2>4 DEF x, D, f, N
<1>7. DaysBracketed(a, lg)
  BY Zenon, <1>6 DEF DaysBracketed
<1>8. ASSUME NEW p \in Periods PROVE Read(p, "users", a.at) \in a.todo /\ a.data[p]["users"] = 0
  <2>1. Read(p, "users", a.at) \in a.todo
    BY ZenonT(40), <1>1, ReadsAre
  <2> QED BY Zenon, <1>5, <2>1 DEF Counters
<1>9. UsersBracketed(a, lg)
  BY <1>8 DEF UsersBracketed
<1> QED BY ZenonT(40), <1>4, <1>7, <1>9

(* What the getter of a read returns.                                      *)
Value(m, r) ==
  CASE r.what = "points" -> m.points[r.day]
    [] r.what = "badges" -> m.badges[r.day]
    [] r.what = "users"  -> Cardinality(
         CASE r.period = "daily"   -> m.daily[r.day]
           [] r.period = "weekly"  -> m.weekly[getWeekKey(r.day)]
           [] r.period = "monthly" -> m.monthly[getMonthKey(r.day)])

(* Of a day it returns what the events of the day have added.              *)
LEMMA SumOfDay ==
  ASSUME NEW lg \in Seq(Counted), NEW what, NEW x
  PROVE  SumOf(lg, what, {x}, Len(lg)) \in Nat
<1>1. Len(lg) \in 0 .. Len(lg)
  OBVIOUS
<1> QED BY Zenon, <1>1, AmountsType

DayValue(lg, w, x) == SumOf(lg, w, {x}, Len(lg))

LEMMA ValueOfDay ==
  ASSUME NEW lg \in Seq(Counted), NEW m, MetricsOk(m, lg),
         NEW r, r.what = "points" \/ r.what = "badges", r.day \in Days
  PROVE  Value(m, r) = DayValue(lg, r.what, r.day)
<1> DEFINE x == r.day
<1>1. CASE r.what = "points"
  <2>1. m.points = [d \in Days |-> SumOf(lg, "points", {d}, Len(lg))]
    BY Zenon DEF MetricsOk
  <2>2. m.points[x] = SumOf(lg, "points", {x}, Len(lg))
    BY <2>1
  <2>3. Value(m, r) = m.points[x]
    BY Zenon, <1>1 DEF Value
  <2> QED BY Zenon, <1>1, <2>2, <2>3 DEF DayValue
<1>2. CASE r.what = "badges"
  <2>1. m.badges = [d \in Days |-> SumOf(lg, "badges", {d}, Len(lg))]
    BY Zenon DEF MetricsOk
  <2>2. m.badges[x] = SumOf(lg, "badges", {x}, Len(lg))
    BY <2>1
  <2>3. Value(m, r) = m.badges[x]
    BY Zenon, <1>2 DEF Value
  <2> QED BY Zenon, <1>2, <2>2, <2>3 DEF DayValue
<1> QED BY Zenon, <1>1, <1>2

(* Of a period it returns how many users its events have.                  *)
LEMMA ValueOfUsers ==
  ASSUME NEW lg \in Seq(Counted), NEW m, MetricsOk(m, lg), NEW p \in Periods, NEW d \in Days
  PROVE  /\ Value(m, Read(p, "users", d)) = Cardinality(UsersOf(lg, p, KeyOf(p, d), Len(lg)))
         /\ Cardinality(UsersOf(lg, p, KeyOf(p, d), Len(lg))) \in Nat
<1>1. Cardinality(UsersOf(lg, p, KeyOf(p, d), Len(lg))) \in Nat
  <2>1. Len(lg) \in 0 .. Len(lg)
    BY SMTT(30)
  <2> QED BY Zenon, <2>1, UsersGrow
<1> DEFINE r == Read(p, "users", d)
<1>2. r.what = "users" /\ r.period = p /\ r.day = d
  BY Zenon DEF Read
<1>3. /\ KeyOf("daily", d) = d /\ KeyOf("weekly", d) = getWeekKey(d)
      /\ KeyOf("monthly", d) = getMonthKey(d)
      /\ getWeekKey(d) \in Weeks /\ getMonthKey(d) \in Months
  BY Zenon, KeysExist
<1>4. /\ m.daily = [k \in Days |-> UsersOf(lg, "daily", k, Len(lg))]
      /\ m.weekly = [k \in Weeks |-> UsersOf(lg, "weekly", k, Len(lg))]
      /\ m.monthly = [k \in Months |-> UsersOf(lg, "monthly", k, Len(lg))]
  BY Zenon DEF MetricsOk
<1> HIDE DEF r
<1>5. CASE p = "daily"
  <2>1. m.daily[d] = UsersOf(lg, "daily", KeyOf("daily", d), Len(lg))
    BY Zenon, <1>3, <1>4
  <2>2. Value(m, r) = Cardinality(m.daily[d])
    BY Zenon, <1>2, <1>5 DEF Value
  <2> QED BY ZenonT(40), <1>1, <1>5, <2>1, <2>2 DEF r
<1>6. CASE p = "weekly"
  <2>1. m.weekly[getWeekKey(d)] = UsersOf(lg, "weekly", KeyOf("weekly", d), Len(lg))
    BY Zenon, <1>3, <1>4
  <2>2. Value(m, r) = Cardinality(m.weekly[getWeekKey(d)])
    BY Zenon, <1>2, <1>6 DEF Value
  <2> QED BY Zenon, <1>1, <1>6, <2>1, <2>2 DEF r
<1>7. CASE p = "monthly"
  <2>1. m.monthly[getMonthKey(d)] = UsersOf(lg, "monthly", KeyOf("monthly", d), Len(lg))
    BY <1>3, <1>4
  <2>2. Value(m, r) = Cardinality(m.monthly[getMonthKey(d)])
    BY Zenon, <1>2, <1>7 DEF Value
  <2> QED BY ZenonT(40), <1>1, <1>7, <2>1, <2>2 DEF r
<1> QED BY ZenonT(40), <1>5, <1>6, <1>7 DEF Periods

(* After the read r, which returned n, a has become b.                     *)
ReadDone(a, r, n, b) ==
  /\ b.at = a.at /\ b.from = a.from /\ b.todo = a.todo \ {r}
  /\ \A q \in Periods, c \in Counters :
       b.data[q][c] = IF q = r.period /\ c = r.what THEN a.data[q][c] + n ELSE a.data[q][c]

(* The assignment of AggregateRead, field by field.                        *)
Assigned(a, r, p, w, n, b) == b = [a EXCEPT !.todo = @ \ {r}, !.data[p][w] = @ + n]

Running(a, at, todo, from, data) == a = [at |-> at, todo |-> todo, from |-> from, data |-> data]

Added(data, p, w, n) ==
  [q \in Periods |-> [c \in Counters |->
    IF q = p /\ c = w THEN data[q][c] + n ELSE data[q][c]]]

LEMMA AssignedIs ==
  ASSUME NEW at, NEW todo, NEW from, NEW data \in [Periods -> [Counters -> Nat]],
         NEW r, NEW n \in Nat, NEW p \in Periods, NEW w \in Counters, NEW a, NEW b,
         Running(a, at, todo, from, data), Assigned(a, r, p, w, n, b)
  PROVE  Running(b, at, todo \ {r}, from, Added(data, p, w, n))
BY ZenonT(40) DEF Running, Assigned, Added

(* It does what was said.                                                  *)
LEMMA ReadIs ==
  ASSUME NEW lg \in Seq(Counted), NEW a, AggShape(a, lg), NEW r \in a.todo, NEW n \in Nat,
         r.period \in Periods, r.what \in Counters,
         NEW b, Assigned(a, r, r.period, r.what, n, b)
  PROVE  AggShape(b, lg) /\ ReadDone(a, r, n, b)
<1> DEFINE at == a.at
           todo == a.todo
           from == a.from
           data == a.data
           p == r.period
           w == r.what
<1>1. /\ Running(a, at, todo, from, data)
      /\ at \in Days /\ from \in 0 .. Len(lg) /\ todo \subseteq Reads(at)
      /\ data \in [Periods -> [Counters -> Nat]]
  BY Zenon DEF AggShape, Running
<1>2. p \in Periods /\ w \in Counters /\ Assigned(a, r, p, w, n, b)
  BY SMTT(30)
<1> HIDE DEF at, todo, from, data, p, w
<1> DEFINE d2 == Added(data, p, w, n)
<1>3. Running(b, at, todo \ {r}, from, d2)
  BY ZenonT(40), <1>1, <1>2, AssignedIs
<1>4. d2 \in [Periods -> [Counters -> Nat]]
  <2>1. ASSUME NEW q \in Periods, NEW c \in Counters
        PROVE  (IF q = p /\ c = w THEN data[q][c] + n ELSE data[q][c]) \in Nat
    BY SMTT(40), <1>1
  <2> QED BY ZenonT(40), <2>1 DEF Added
<1>5. \A q \in Periods, c \in Counters :
        d2[q][c] = IF q = p /\ c = w THEN data[q][c] + n ELSE data[q][c]
  BY ZenonT(40) DEF Added
<1> HIDE DEF d2
<1>6. /\ b.at = at /\ b.todo = todo \ {r} /\ b.from = from /\ b.data = d2
      /\ b = [at |-> b.at, todo |-> b.todo, from |-> b.from, data |-> b.data]
  BY Zenon, <1>3 DEF Running
<1>7. AggShape(b, lg)
  BY Zenon, <1>1, <1>4, <1>6 DEF AggShape
<1>8. \A q \in Periods, c \in Counters :
        b.data[q][c] = IF q = p /\ c = w THEN data[q][c] + n ELSE data[q][c]
  BY Zenon, <1>5, <1>6
<1>9. ReadDone(a, r, n, b)
  BY Zenon, <1>6, <1>8 DEF ReadDone, at, todo, from, data, p, w
<1> QED BY Zenon, <1>7, <1>9

(* A read of a day adds it to the days read, with the amounts of its       *)
(* events so far.                                                          *)
LEMMA DayRead ==
  ASSUME NEW lg \in Seq(Counted), NEW a, AggShape(a, lg), DaysBracketed(a, lg),
         NEW p \in Periods, NEW what \in {"points", "badges"}, NEW x \in DaysOf(p, a.at),
         Read(p, what, x) \in a.todo,
         NEW b, ReadDone(a, Read(p, what, x), SumOf(lg, what, {x}, Len(lg)), b)
  PROVE  /\ SumOf(lg, what, DaysRead(b, p, what), b.from) <= b.data[p][what]
         /\ b.data[p][what] <= SumOf(lg, what, DaysRead(b, p, what), Len(lg))
<1> DEFINE r == Read(p, what, x)
           n == SumOf(lg, what, {x}, Len(lg))
           D == DaysRead(a, p, what)
           E == DaysRead(b, p, what)
           f == a.from
           N == Len(lg)
           u == a.data[p][what]
           v == b.data[p][what]
<1>1. r.period = p /\ r.what = what /\ \A y : Read(p, what, y) = r <=> y = x
  BY ZenonT(40) DEF Read
<1>2. b.at = a.at /\ b.from = f /\ b.todo = a.todo \ {r} /\ v = u + n
  BY ZenonT(40), <1>1 DEF ReadDone, Counters
<1>3. x \notin D /\ E = D \cup {x}
  BY ZenonT(40), <1>1, <1>2 DEF DaysRead
<1>4. f \in 0 .. Len(lg) /\ N \in 0 .. Len(lg) /\ f \in 0 .. N
  BY SMTT(30) DEF AggShape
<1>5. SumOf(lg, what, D, f) <= u /\ u <= SumOf(lg, what, D, N)
  BY Zenon DEF DaysBracketed
<1>6. u \in Nat
  BY SMTT(30) DEF AggShape, Counters
<1>7. SumOf(lg, what, {x}, f) <= n
  BY ZenonT(40), <1>4, AmountsGrow
<1> HIDE DEF D, E, f, u, v
<1>8. /\ SumOf(lg, what, E, f) = SumOf(lg, what, D, f) + SumOf(lg, what, {x}, f)
      /\ SumOf(lg, what, E, N) = SumOf(lg, what, D, N) + n
  <2>1. SumOf(lg, what, D \cup {x}, f) = SumOf(lg, what, D, f) + SumOf(lg, what, {x}, f)
    BY SMTT(40), <1>3, <1>4, AmountsOfDay
  <2>2. SumOf(lg, what, D \cup {x}, N) = SumOf(lg, what, D, N) + SumOf(lg, what, {x}, N)
    BY SMTT(40), <1>3, <1>4, AmountsOfDay
  <2> QED BY ZenonT(40), <1>3, <2>1, <2>2
<1>9. /\ SumOf(lg, what, D, f) \in Nat /\ SumOf(lg, what, {x}, f) \in Nat
      /\ SumOf(lg, what, D, N) \in Nat /\ n \in Nat
  BY ZenonT(40), <1>4, AmountsType
<1> DEFINE s1 == SumOf(lg, what, D, f)
           s2 == SumOf(lg, what, {x}, f)
           s3 == SumOf(lg, what, D, N)
           t1 == SumOf(lg, what, E, f)
           t2 == SumOf(lg, what, E, N)
<1>10. /\ s1 \in Nat /\ s2 \in Nat /\ s3 \in Nat /\ n \in Nat /\ u \in Nat /\ v = u + n
       /\ t1 = s1 + s2 /\ t2 = s3 + n /\ s1 <= u /\ u <= s3 /\ s2 <= n
  BY Zenon, <1>2, <1>5, <1>6, <1>7, <1>8, <1>9
<1> HIDE DEF s1, s2, s3, t1, t2, n
<1>11. t1 <= v /\ v <= t2
  BY SMTT(40), <1>10
<1>12. SumOf(lg, what, E, b.from) <= v /\ v <= SumOf(lg, what, E, Len(lg))
  BY ZenonT(40), <1>2, <1>11 DEF t1, t2
<1> QED BY ZenonT(40), <1>12 DEF E, v

(* The brackets of the others stay.                                        *)
LEMMA DayKept ==
  ASSUME NEW lg, NEW a, DaysBracketed(a, lg), NEW r, NEW n, NEW b, ReadDone(a, r, n, b),
         NEW p \in Periods, NEW what \in {"points", "badges"},
         ~(r.period = p /\ r.what = what)
  PROVE  /\ SumOf(lg, what, DaysRead(b, p, what), b.from) <= b.data[p][what]
         /\ b.data[p][what] <= SumOf(lg, what, DaysRead(b, p, what), Len(lg))
<1>1. b.at = a.at /\ b.from = a.from /\ b.todo = a.todo \ {r}
      /\ b.data[p][what] = a.data[p][what]
  BY DEF ReadDone, Counters
<1>2. \A y : Read(p, what, y) # r
  BY SMTT(30) DEF Read
<1>3. DaysRead(b, p, what) = DaysRead(a, p, what)
  BY ZenonT(40), <1>1, <1>2 DEF DaysRead
<1>4. /\ SumOf(lg, what, DaysRead(a, p, what), a.from) <= a.data[p][what]
      /\ a.data[p][what] <= SumOf(lg, what, DaysRead(a, p, what), Len(lg))
  BY SMTT(30) DEF DaysBracketed
<1> QED BY ZenonT(40), <1>1, <1>3, <1>4

(* A read of the users of a period returns those it has now.               *)
LEMMA UsersRead ==
  ASSUME NEW lg \in Seq(Counted), NEW a, AggShape(a, lg), UsersBracketed(a, lg),
         NEW p \in Periods, Read(p, "users", a.at) \in a.todo, NEW b,
         ReadDone(a, Read(p, "users", a.at),
                  Cardinality(UsersOf(lg, p, KeyOf(p, a.at), Len(lg))), b)
  PROVE  /\ Read(p, "users", b.at) \notin b.todo
         /\ Cardinality(UsersOf(lg, p, KeyOf(p, b.at), b.from)) <= b.data[p]["users"]
         /\ b.data[p]["users"] <= Cardinality(UsersOf(lg, p, KeyOf(p, b.at), Len(lg)))
<1> DEFINE r == Read(p, "users", a.at)
           k == KeyOf(p, a.at)
           n == Cardinality(UsersOf(lg, p, k, Len(lg)))
           lo == Cardinality(UsersOf(lg, p, k, a.from))
           v == b.data[p]["users"]
<1>1. r.period = p /\ r.what = "users"
  BY Zenon DEF Read
<1>2. a.data[p]["users"] = 0
  BY ZenonT(40) DEF UsersBracketed
<1>3. b.at = a.at /\ b.from = a.from /\ b.todo = a.todo \ {r} /\ v = a.data[p]["users"] + n
  BY ZenonT(40), <1>1 DEF ReadDone, Counters
<1>4. lo <= n /\ n \in Nat
  <2>1. Len(lg) \in 0 .. Len(lg) /\ a.from \in 0 .. Len(lg)
    BY SMTT(30) DEF AggShape
  <2> QED BY ZenonT(40), <2>1, UsersGrow
<1>5. r \notin b.todo /\ r = Read(p, "users", b.at)
  BY ZenonT(40), <1>3
<1> HIDE DEF n, lo, v, r
<1>6. lo <= v /\ v <= n
  BY SMTT(40), <1>2, <1>3, <1>4
<1>7. KeyOf(p, b.at) = k /\ lo = Cardinality(UsersOf(lg, p, KeyOf(p, b.at), b.from))
      /\ n = Cardinality(UsersOf(lg, p, KeyOf(p, b.at), Len(lg)))
  BY ZenonT(40), <1>3 DEF lo, n
<1> QED BY ZenonT(40), <1>5, <1>6, <1>7 DEF v

(* The brackets of the others stay.                                        *)
LEMMA UsersKept ==
  ASSUME NEW lg, NEW a, UsersBracketed(a, lg), NEW r, NEW n, NEW b, ReadDone(a, r, n, b),
         NEW p \in Periods, ~(r.period = p /\ r.what = "users")
  PROVE  IF Read(p, "users", b.at) \in b.todo THEN b.data[p]["users"] = 0
         ELSE /\ Cardinality(UsersOf(lg, p, KeyOf(p, b.at), b.from)) <= b.data[p]["users"]
              /\ b.data[p]["users"] <= Cardinality(UsersOf(lg, p, KeyOf(p, b.at), Len(lg)))
<1>1. b.at = a.at /\ b.from = a.from /\ b.todo = a.todo \ {r}
      /\ b.data[p]["users"] = a.data[p]["users"]
  BY Zenon DEF ReadDone, Counters
<1>2. Read(p, "users", a.at) # r
  BY SMTT(30) DEF Read
<1>3. Read(p, "users", b.at) \in b.todo <=> Read(p, "users", a.at) \in a.todo
  BY ZenonT(40), <1>1, <1>2
<1>4. CASE Read(p, "users", a.at) \in a.todo
  <2>1. a.data[p]["users"] = 0
    BY ZenonT(40), <1>4 DEF UsersBracketed
  <2> QED BY ZenonT(40), <1>1, <1>3, <1>4, <2>1
<1>5. CASE Read(p, "users", a.at) \notin a.todo
  <2>1. /\ Cardinality(UsersOf(lg, p, KeyOf(p, a.at), a.from)) <= a.data[p]["users"]
        /\ a.data[p]["users"] <= Cardinality(UsersOf(lg, p, KeyOf(p, a.at), Len(lg)))
    BY ZenonT(40), <1>5 DEF UsersBracketed
  <2> QED BY ZenonT(40), <1>1, <1>3, <1>5, <2>1
<1> QED BY ZenonT(40), <1>4, <1>5

(* So a read keeps the brackets.                                           *)
LEMMA BracketsRead ==
  ASSUME NEW lg \in Seq(Counted), NEW m, MetricsOk(m, lg),
         NEW a, AggShape(a, lg), DaysBracketed(a, lg), UsersBracketed(a, lg),
         NEW r \in a.todo, NEW b, Assigned(a, r, r.period, r.what, Value(m, r), b)
  PROVE  AggShape(b, lg) /\ DaysBracketed(b, lg) /\ UsersBracketed(b, lg)
<1> DEFINE n == Value(m, r)
<1>1. r \in Reads(a.at) /\ a.at \in Days
  BY Zenon DEF AggShape
<1>2. CASE \E p \in Periods : r = Read(p, "users", a.at)
  <2>1. PICK p \in Periods : r = Read(p, "users", a.at)
    BY Zenon, <1>2
  <2>2. r.period = p /\ r.what = "users"
    BY Zenon, <2>1 DEF Read
  <2>3. n = Cardinality(UsersOf(lg, p, KeyOf(p, a.at), Len(lg))) /\ n \in Nat
    BY ZenonT(40), <1>1, <2>1, ValueOfUsers
  <2> HIDE DEF n
  <2>4. AggShape(b, lg) /\ ReadDone(a, r, n, b)
    BY ZenonT(40), <2>2, <2>3, ReadIs DEF Counters, n
  <2>5. ASSUME NEW q \in Periods, NEW what \in {"points", "badges"}
        PROVE  /\ SumOf(lg, what, DaysRead(b, q, what), b.from) <= b.data[q][what]
               /\ b.data[q][what] <= SumOf(lg, what, DaysRead(b, q, what), Len(lg))
    <3>1. ~(r.period = q /\ r.what = what)
      BY ZenonT(40), <2>2
    <3> QED BY ZenonT(40), <2>4, <3>1, DayKept
  <2>6. ASSUME NEW q \in Periods
        PROVE  IF Read(q, "users", b.at) \in b.todo THEN b.data[q]["users"] = 0
               ELSE /\ Cardinality(UsersOf(lg, q, KeyOf(q, b.at), b.from)) <= b.data[q]["users"]
                    /\ b.data[q]["users"] <= Cardinality(UsersOf(lg, q, KeyOf(q, b.at), Len(lg)))
    <3>1. CASE q = p
      <4>1. ReadDone(a, Read(p, "users", a.at),
                     Cardinality(UsersOf(lg, p, KeyOf(p, a.at), Len(lg))), b)
        BY ZenonT(40), <2>1, <2>3, <2>4
      <4>2. /\ Read(p, "users", b.at) \notin b.todo
            /\ Cardinality(UsersOf(lg, p, KeyOf(p, b.at), b.from)) <= b.data[p]["users"]
            /\ b.data[p]["users"] <= Cardinality(UsersOf(lg, p, KeyOf(p, b.at), Len(lg)))
        BY ZenonT(40), <2>1, <4>1, UsersRead
      <4> QED BY ZenonT(40), <3>1, <4>2
    <3>2. CASE q # p
      <4>1. ~(r.period = q /\ r.what = "users")
        BY ZenonT(40), <2>2, <3>2
      <4> QED BY ZenonT(40), <2>4, <4>1, UsersKept
    <3> QED BY ZenonT(40), <3>1, <3>2
  <2>7. DaysBracketed(b, lg)
    BY ZenonT(40), <2>5 DEF DaysBracketed
  <2>8. UsersBracketed(b, lg)
    BY ZenonT(40), <2>6 DEF UsersBracketed
  <2> QED BY ZenonT(40), <2>4, <2>7, <2>8
<1>3. CASE \E p \in Periods, what \in {"points", "badges"} : \E x \in DaysOf(p, a.at) :
             r = Read(p, what, x)
  <2>1. PICK p \in Periods, what \in {"points", "badges"} :
          \E x \in DaysOf(p, a.at) : r = Read(p, what, x)
    BY ZenonT(40), <1>3
  <2>2. PICK x \in DaysOf(p, a.at) : r = Read(p, what, x)
    BY ZenonT(40), <2>1
  <2>3. r.period = p /\ r.what = what /\ r.day = x /\ x \in Days
    BY ZenonT(40), <1>1, <2>2, DaysAgree DEF Read
  <2>4. n = SumOf(lg, what, {x}, Len(lg)) /\ n \in Nat
    <3>1. n = DayValue(lg, r.what, r.day)
      BY ZenonT(40), <2>3, ValueOfDay
    <3>2. n = DayValue(lg, what, x)
      BY ZenonT(40), <2>3, <3>1
    <3>3. SumOf(lg, what, {x}, Len(lg)) \in Nat
      BY ZenonT(40), SumOfDay
    <3> QED BY ZenonT(40), <3>2, <3>3 DEF DayValue
  <2> HIDE DEF n
  <2>5. AggShape(b, lg) /\ ReadDone(a, r, n, b)
    BY ZenonT(40), <2>3, <2>4, ReadIs DEF Counters, n
  <2>6. ASSUME NEW q \in Periods, NEW w \in {"points", "badges"}
        PROVE  /\ SumOf(lg, w, DaysRead(b, q, w), b.from) <= b.data[q][w]
               /\ b.data[q][w] <= SumOf(lg, w, DaysRead(b, q, w), Len(lg))
    <3>1. CASE q = p /\ w = what
      <4>1. ReadDone(a, Read(p, what, x), SumOf(lg, what, {x}, Len(lg)), b)
            /\ Read(p, what, x) \in a.todo
        BY ZenonT(40), <2>2, <2>4, <2>5
      <4>2. /\ SumOf(lg, what, DaysRead(b, p, what), b.from) <= b.data[p][what]
            /\ b.data[p][what] <= SumOf(lg, what, DaysRead(b, p, what), Len(lg))
        BY ZenonT(40), <4>1, DayRead
      <4> QED BY ZenonT(40), <3>1, <4>2
    <3>2. CASE ~(q = p /\ w = what)
      <4>1. ~(r.period = q /\ r.what = w)
        BY ZenonT(40), <2>3, <3>2
      <4> QED BY ZenonT(40), <2>5, <4>1, DayKept
    <3> QED BY ZenonT(40), <3>1, <3>2
  <2>7. ASSUME NEW q \in Periods
        PROVE  IF Read(q, "users", b.at) \in b.todo THEN b.data[q]["users"] = 0
               ELSE /\ Cardinality(UsersOf(lg, q, KeyOf(q, b.at), b.from)) <= b.data[q]["users"]
                    /\ b.data[q]["users"] <= Cardinality(UsersOf(lg, q, KeyOf(q, b.at), Len(lg)))
    <3>1. ~(r.period = q /\ r.what = "users")
      BY ZenonT(40), <2>3
    <3> QED BY Zenon, <2>5, <3>1, UsersKept
  <2>8. DaysBracketed(b, lg)
    BY ZenonT(40), <2>6 DEF DaysBracketed
  <2>9. UsersBracketed(b, lg)
    BY ZenonT(40), <2>7 DEF UsersBracketed
  <2> QED BY ZenonT(40), <2>5, <2>8, <2>9
<1>4. \/ \E p \in Periods : r = Read(p, "users", a.at)
      \/ \E p \in Periods, what \in {"points", "badges"} : \E x \in DaysOf(p, a.at) :
           r = Read(p, what, x)
  <2> DEFINE d == a.at
  <2>1. r \in Reads(d)
    BY ZenonT(40), <1>1
  <2> HIDE DEF d
  <2>2. \/ \E p \in Periods : r = Read(p, "users", d)
        \/ \E p \in Periods, what \in {"points", "badges"} : \E x \in DaysOf(p, d) :
             r = Read(p, what, x)
    BY SMTT(40), <2>1, ReadsAre
  <2> QED BY ZenonT(40), <2>2 DEF d
<1> QED BY ZenonT(40), <1>2, <1>3, <1>4

(* A period's truth is what the events of its days add up to.              *)
LEMMA TruthIs ==
  ASSUME log \in Seq(Counted), NEW p \in Periods, NEW d \in Days, NEW n \in 0 .. Len(log)
  PROVE  /\ Truth(p, KeyOf(p, d), n)["users"] = Cardinality(UsersOf(log, p, KeyOf(p, d), n))
         /\ Truth(p, KeyOf(p, d), n)["points"] = SumOf(log, "points", DaysOf(p, d), n)
         /\ Truth(p, KeyOf(p, d), n)["badges"] = SumOf(log, "badges", DaysOf(p, d), n)
<1> DEFINE k == KeyOf(p, d)
           Mine(e) == KeyOf(p, DayOf(e.time)) = k
           Award(e) == IF Mine(e) /\ e.kind = "points" /\ e.delta > 0 THEN e.delta ELSE 0
           Badge(e) == IF Mine(e) /\ e.kind = "badge" THEN 1 ELSE 0
           s == [i \in 1 .. n |-> Award(log[i])]
           t == [i \in 1 .. n |-> Badge(log[i])]
<1>1. /\ Truth(p, k, n)["users"] = Cardinality({log[i].user : i \in {j \in 1 .. n : Mine(log[j])}})
      /\ Truth(p, k, n)["points"] = SeqSum(s)
      /\ Truth(p, k, n)["badges"] = SeqSum(t)
  BY DEF Truth
<1>2. ASSUME NEW i \in 1 .. n
      PROVE  Mine(log[i]) <=> DayOf(log[i].time) \in DaysOf(p, d)
  <2>1. log[i] \in Counted
    OBVIOUS
  <2>2. DayOf(log[i].time) \in Days
    BY Zenon, <2>1 DEF Counted
  <2> DEFINE x == DayOf(log[i].time)
  <2> HIDE DEF x
  <2>3. x \in DaysOf(p, d) <=> KeyOf(p, x) = KeyOf(p, d)
    BY ZenonT(40), <2>2, DaysAgree DEF x
  <2> QED BY <2>3 DEF x
<1> HIDE DEF Mine
<1>3. s = Amounts(log, "points", DaysOf(p, d), n)
  <2>1. ASSUME NEW i \in 1 .. n
        PROVE  Award(log[i]) =
                 IF DayOf(log[i].time) \in DaysOf(p, d) THEN Amount("points", log[i]) ELSE 0
    BY Zenon, <1>2 DEF Amount, Awarded
  <2> HIDE DEF Award
  <2> QED BY Zenon, <2>1 DEF Amounts
<1>4. t = Amounts(log, "badges", DaysOf(p, d), n)
  <2>1. ASSUME NEW i \in 1 .. n
        PROVE  Badge(log[i]) =
                 IF DayOf(log[i].time) \in DaysOf(p, d) THEN Amount("badges", log[i]) ELSE 0
    BY ZenonT(40), <1>2 DEF Amount, Badged
  <2> HIDE DEF Badge
  <2> QED BY Zenon, <2>1 DEF Amounts
<1>5. {log[i].user : i \in {j \in 1 .. n : Mine(log[j])}} = UsersOf(log, p, k, n)
  BY SMTT(30) DEF UsersOf, Mine
<1> HIDE DEF s, t
<1> QED BY Zenon, <1>1, <1>3, <1>4, <1>5 DEF SumOf

(* When nothing is left to read, the days read are the period's.           *)
LEMMA BracketsEnd ==
  AggInv => AggregateBracketed
<1> SUFFICES ASSUME AggInv, agg # Resting, agg.todo = {}, NEW p \in Periods, NEW what \in DOMAIN Zero
             PROVE  /\ Truth(p, KeyOf(p, agg.at), agg.from)[what] <= agg.data[p][what]
                    /\ agg.data[p][what] <= Truth(p, KeyOf(p, agg.at), events)[what]
  BY SMTT(30) DEF AggregateBracketed
<1> DEFINE f == agg.from
           d == agg.at
           x(w) == agg.data[p][w]
<1>1. /\ log \in Seq(Counted) /\ Len(log) = events
      /\ AggShape(agg, log) /\ DaysBracketed(agg, log) /\ UsersBracketed(agg, log)
  BY Zenon DEF AggInv
<1>2. d \in Days /\ f \in 0 .. Len(log) /\ events \in 0 .. Len(log)
  BY SMTT(30), <1>1 DEF AggShape
<1>3. what \in {"users", "points", "badges"}
  BY Zenon DEF Zero
<1>4. \A w : DaysRead(agg, p, w) = DaysOf(p, d)
  BY Zenon DEF DaysRead
<1>5. ASSUME NEW w \in {"points", "badges"}
      PROVE  SumOf(log, w, DaysOf(p, d), f) <= x(w) /\ x(w) <= SumOf(log, w, DaysOf(p, d), events)
  BY Zenon, <1>1, <1>4 DEF DaysBracketed
<1>6. /\ Cardinality(UsersOf(log, p, KeyOf(p, d), f)) <= x("users")
      /\ x("users") <= Cardinality(UsersOf(log, p, KeyOf(p, d), events))
  BY ZenonT(40), <1>1 DEF UsersBracketed
<1>7. ASSUME NEW n \in 0 .. Len(log)
      PROVE  /\ Truth(p, KeyOf(p, d), n)["users"] = Cardinality(UsersOf(log, p, KeyOf(p, d), n))
             /\ Truth(p, KeyOf(p, d), n)["points"] = SumOf(log, "points", DaysOf(p, d), n)
             /\ Truth(p, KeyOf(p, d), n)["badges"] = SumOf(log, "badges", DaysOf(p, d), n)
  BY ZenonT(40), <1>1, <1>2, TruthIs
<1> HIDE DEF f, d, x
<1>8. CASE what = "users"
  BY Zenon, <1>2, <1>6, <1>7, <1>8 DEF f, d, x
<1>9. CASE what = "points"
  BY ZenonT(40), <1>2, <1>5, <1>7, <1>9 DEF f, d, x
<1>10. CASE what = "badges"
  BY Zenon, <1>2, <1>5, <1>7, <1>10 DEF f, d, x
<1> QED BY Zenon, <1>3, <1>8, <1>9, <1>10

(* The service starts with nothing counted.                                *)
LEMMA AggInitially ==
  Init => AggInv
<1> SUFFICES ASSUME MetricsInit, AggInit PROVE AggInv
  BY DEF Init
<1>1. log = <<>> /\ events = 0 /\ now = 0 /\ agg = Resting
  BY DEF MetricsInit, AggInit
<1>2. log \in Seq(Counted) /\ Len(log) = 0
  BY <1>1
<1>3. Today \in Days
  <2>1. TicksPerDay \in Nat \ {0} /\ 0 \in Days
    BY Zenon, MetricsAssumption
  <2>2. DayOf(0) = 0
    BY SMTT(30), <2>1, DayOfTick
  <2> QED BY ZenonT(40), <1>1, <2>1, <2>2 DEF Today
<1>4. ASSUME NEW w, NEW D PROVE SumOf(log, w, D, Len(log)) = 0
  <2>1. Amounts(log, w, D, 0) = Amounts(log, w, {}, 0)
    BY DEF Amounts
  <2>2. SumOf(log, w, {}, 0) = 0
    <3>1. 0 \in 0 .. Len(log)
      BY <1>2
    <3> QED BY ZenonT(40), <1>2, <3>1, NoDays
  <2> QED BY ZenonT(40), <1>2, <2>1, <2>2 DEF SumOf
<1>5. ASSUME NEW p, NEW k PROVE UsersOf(log, p, k, Len(log)) = {}
  BY SMTT(30), <1>2 DEF UsersOf
<1>6. /\ metrics.points = [d \in Days |-> 0] /\ metrics.badges = [d \in Days |-> 0]
      /\ metrics.daily = [d \in Days |-> {}] /\ metrics.weekly = [w \in Weeks |-> {}]
      /\ metrics.monthly = [m \in Months |-> {}]
  BY Zenon DEF MetricsInit, NewMetrics
<1>7. MetricsOk(metrics, log)
  BY SMTT(40), <1>4, <1>5, <1>6 DEF MetricsOk
<1> QED BY ZenonT(40), <1>1, <1>2, <1>3, <1>7 DEF AggInv

(* No step breaks it.                                                      *)
LEMMA AggStep ==
  AggInv /\ [Next]_vars => AggInv'
<1> SUFFICES ASSUME AggInv, [Next]_vars PROVE AggInv'
  OBVIOUS
<1>1. /\ log \in Seq(Counted) /\ Len(log) = events /\ now \in Nat /\ Today \in Days
      /\ MetricsOk(metrics, log)
      /\ agg # Resting => AggShape(agg, log) /\ DaysBracketed(agg, log) /\ UsersBracketed(agg, log)
  BY Zenon DEF AggInv
<1>2. CASE Observe
  <2>1. PICK e \in Events : Count(e) /\ log' = Append(log, e)
    BY Zenon, <1>2 DEF Observe
  <2>2. e \in Counted
    <3>1. PICK i \in Inputs, t \in {x \in 0 .. now : now - x <= MaxLate /\ DayOf(x) \in Days} :
            e = [kind |-> i.kind, user |-> i.user, delta |-> i.delta, time |-> t]
      BY DEF Events
    <3>2. i.kind \in {"points", "level", "badge", "achievement"} /\ i.delta \in Int
      BY MetricsAssumption
    <3>3. t \in {x \in Nat : DayOf(x) \in Days}
      BY <1>1
    <3> QED BY ZenonT(40), <3>1, <3>2, <3>3 DEF Counted
  <2>3. /\ events' = events + 1 /\ metrics' = OnEvent(metrics, e, now) /\ now' = now /\ agg' = agg
    BY ZenonT(40), <1>2, <2>1 DEF Count, Observe
  <2>4. Appended(log, e, log') /\ log' \in Seq(Counted) /\ Len(log') = events'
    BY SMTT(30), <1>1, <2>1, <2>2, <2>3 DEF Appended
  <2>5. MetricsOk(metrics', log')
    BY ZenonT(40), <1>1, <2>2, <2>3, <2>4, MetricsObserve
  <2>6. agg # Resting =>
          AggShape(agg, log') /\ DaysBracketed(agg, log') /\ UsersBracketed(agg, log')
    BY ZenonT(40), <1>1, <2>2, <2>4, BracketsObserve
  <2> QED BY Zenon, <1>1, <2>3, <2>4, <2>5, <2>6 DEF AggInv, Today
<1>3. CASE AggregateBegin
  <2>1. /\ agg' = [at |-> Today, todo |-> Reads(Today), from |-> Len(log),
                   data |-> [p \in Periods |-> Zero]]
        /\ UNCHANGED <<metrics, now, events, log>>
    BY ZenonT(40), <1>1, <1>3 DEF AggregateBegin, metricsVars
  <2>2. AggShape(agg', log) /\ DaysBracketed(agg', log) /\ UsersBracketed(agg', log)
    BY ZenonT(40), <1>1, <2>1, BracketsBegin
  <2> QED BY ZenonT(40), <1>1, <2>1, <2>2 DEF AggInv, Today
<1>4. CASE AggregateRead
  <2>1. agg # Resting /\ UNCHANGED <<metrics, now, events, log>>
    BY Zenon, <1>4 DEF AggregateRead, metricsVars
  <2>2. PICK r \in agg.todo :
          agg' = [agg EXCEPT !.todo = @ \ {r}, !.data[r.period][r.what] = @ + Getter(r)]
    BY Zenon, <1>4 DEF AggregateRead
  <2>3. Getter(r) = Value(metrics, r)
    BY DEF Getter, Value
  <2>4. Assigned(agg, r, r.period, r.what, Value(metrics, r), agg')
    BY Zenon, <2>2, <2>3 DEF Assigned
  <2>5. AggShape(agg', log) /\ DaysBracketed(agg', log) /\ UsersBracketed(agg', log)
    BY Zenon, <1>1, <2>1, <2>4, BracketsRead
  <2> QED BY ZenonT(40), <1>1, <2>1, <2>5 DEF AggInv, Today
<1>5. CASE AggregateEnd
  <2>1. agg' = Resting /\ UNCHANGED <<metrics, now, events, log>>
    BY Zenon, <1>5 DEF AggregateEnd, metricsVars
  <2> QED BY ZenonT(40), <1>1, <2>1 DEF AggInv, Today, Resting
<1>6. CASE Tick /\ UNCHANGED aggVars
  <2>1. PICK d \in Days : \E t \in d * TicksPerDay .. (d + 1) * TicksPerDay - 1 : now' = t
    BY <1>6 DEF Tick
  <2>2. d \in Nat /\ TicksPerDay \in Nat
    BY MetricsAssumption
  <2>3. d * TicksPerDay \in Nat /\ (d + 1) * TicksPerDay - 1 \in Int
    BY <2>2
  <2>4. now' \in Nat /\ d * TicksPerDay <= now' /\ now' <= (d + 1) * TicksPerDay - 1
    BY SMTT(30), <2>1, <2>3
  <2>5. Today' \in Days
    BY ZenonT(40), <2>2, <2>4, DayOfTick DEF Today
  <2>6. UNCHANGED <<metrics, events, log, agg>>
    BY Zenon, <1>6 DEF Tick, aggVars
  <2> QED BY ZenonT(40), <1>1, <2>4, <2>5, <2>6 DEF AggInv
<1>7. CASE UNCHANGED <<metricsVars, aggVars>>
  BY ZenonT(40), <1>1, <1>7 DEF AggInv, metricsVars, aggVars, Today
<1> QED BY Zenon, <1>2, <1>3, <1>4, <1>5, <1>6, <1>7 DEF Next, Aggregate, vars

(* Whatever an aggregation stores of a day, a week or a month is no less   *)
(* than what had been counted of the period when AggregateNow took the     *)
(* lock and no more than what has been counted when it is done, however    *)
(* events are interleaved with its reads, and the loops over days agree    *)
(* with the period keys of the counters.                                   *)
THEOREM AggregatesBracketed == Spec => []AggregateBracketed
<1>1. Spec => []AggInv
  BY AggInitially, AggStep, PTL DEF Spec
<1> QED BY <1>1, BracketsEnd, PTL
=============================================================================
