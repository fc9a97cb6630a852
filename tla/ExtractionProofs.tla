-------------------------- MODULE ExtractionProofs --------------------------
(***************************************************************************)
(* What module Extraction promises, for any paths and candidates, archives *)
(* and destinations of any size, every policy, every set of limits and     *)
(* every backend of module Backends.                                       *)
(*                                                                         *)
(* The inductive invariant has one part per question: types, consent,      *)
(* guarded directories, deferred links, budgets, stamps.  Only the types   *)
(* are used by the other parts.                                            *)
(***************************************************************************)
EXTENDS Extraction, FiniteSetTheorems, SequenceTheorems, TLAPS

-----------------------------------------------------------------------------
(* deferred_link_dependency_order: the loop over the queue of ready links. *)

\* The order of the naturals, as a relation.
Below == {ss \in Nat \X Nat : ss[1] < ss[2]}

\* A set of naturals has a least element.
LEMMA HasLeast ==
  ASSUME NEW S \in SUBSET Nat, S # {}
  PROVE  \E x \in S : \A y \in S : x =< y
<1>1. IsWellFoundedOn(Below, Nat)
  BY NatLessThanWellFounded DEF OpToRel, Below
<1>2. \E x \in S : \A y \in S : ~ (<<y, x>> \in Below)
  BY <1>1, WFMin
<1>3. \A x, y \in Nat : <<y, x>> \in Below <=> y < x
  BY DEF Below
<1>4. \A x, y \in Nat : ~ (y < x) => x =< y
  OBVIOUS
<1> QED
  BY <1>2, <1>3, <1>4

\* n rounds have been computed.
Computes(ls, n, g) ==
  /\ g = [k \in 0 .. n |-> g[k]]
  /\ g[0] = [ready |-> InOrder(ReadyAtFirst(ls)), order |-> <<>>]
  /\ \A k \in 1 .. n : g[k] = Turn(ls, g[k - 1])

\* The rounds of the loop can be computed one after the other.
LEMMA RoundsExist ==
  ASSUME NEW ls, NEW n \in Nat
  PROVE  \E g : Computes(ls, n, g)
<1> DEFINE Bad == {m \in Nat : ~ \E g : Computes(ls, m, g)}
<1>0. SUFFICES ASSUME Bad # {} PROVE FALSE
  OBVIOUS
<1>1. PICK m \in Bad : \A y \in Bad : m =< y
  BY <1>0, HasLeast
<1>2. m # 0
  <2> DEFINE g == [k \in 0 .. 0 |-> [ready |-> InOrder(ReadyAtFirst(ls)), order |-> <<>>]]
  <2>1. Computes(ls, 0, g)
    BY DEF Computes
  <2> QED
    BY <2>1
<1>3. m - 1 \in Nat /\ m - 1 \notin Bad
  BY <1>1, <1>2
<1>4. PICK h : Computes(ls, m - 1, h)
  BY <1>3
<1> DEFINE g == [k \in 0 .. m |-> IF k = m THEN Turn(ls, h[m - 1]) ELSE h[k]]
<1>5. Computes(ls, m, g)
  <2>1. g = [k \in 0 .. m |-> g[k]]
    OBVIOUS
  <2>2. g[0] = [ready |-> InOrder(ReadyAtFirst(ls)), order |-> <<>>]
    BY <1>2, <1>4 DEF Computes
  <2>3. ASSUME NEW k \in 1 .. m PROVE g[k] = Turn(ls, g[k - 1])
    <3>1. CASE k = m
      <4>1. g[k] = Turn(ls, h[m - 1])
        BY <3>1
      <4>2. g[k - 1] = h[m - 1]
        BY <3>1
      <4> QED BY <4>1, <4>2
    <3>2. CASE k # m
      <4>1. k \in 1 .. m - 1 BY <3>2
      <4>2. g[k] = h[k] BY <4>1
      <4>3. g[k - 1] = h[k - 1] BY <4>1
      <4> QED BY <4>1, <4>2, <4>3, <1>4 DEF Computes
    <3> QED BY <3>1, <3>2
  <2> HIDE DEF g
  <2> QED BY <2>1, <2>2, <2>3 DEF Computes
<1> QED
  BY <1>5

\* Round is what the loop computes: each round is a Turn of the one before.
LEMMA RoundComputes ==
  ASSUME NEW ls, Len(ls) \in Nat
  PROVE  Computes(ls, Len(ls), Round(ls))
<1> DEFINE n == Len(ls)
<1> DEFINE F(r) == [k \in 0 .. n |-> IF k = 0 THEN [ready |-> InOrder(ReadyAtFirst(ls)), order |-> <<>>]
                       ELSE Turn(ls, r[k - 1])]
<1>1. PICK g : Computes(ls, n, g)
  BY RoundsExist
<1>2. g = F(g)
  <2>1. ASSUME NEW k \in 0 .. n PROVE g[k] = F(g)[k]
    <3>1. CASE k = 0 BY <3>1, <1>1 DEF Computes
    <3>2. CASE k # 0
      <4>1. k \in 1 .. n BY <3>2
      <4>2. F(g)[k] = Turn(ls, g[k - 1]) BY <4>1
      <4> QED BY <4>1, <4>2, <1>1 DEF Computes
    <3> QED BY <3>1, <3>2
  <2>2. g = [k \in 0 .. n |-> g[k]] BY <1>1 DEF Computes
  <2> HIDE DEF n
  <2> QED BY <2>1, <2>2
<1>3. Round(ls) = CHOOSE r : r = F(r)
  BY DEF Round
<1>4. Round(ls) = F(Round(ls))
  <2> HIDE DEF F
  <2> QED BY <1>2, <1>3
<1> HIDE DEF n
<1> QED
  BY <1>4 DEF Computes, n

\* The interval 1 .. n has n elements.
LEMMA UpTo ==
  ASSUME NEW n \in Nat
  PROVE  IsFiniteSet(1 .. n) /\ Cardinality(1 .. n) = n
<1>1. 1 \in Int /\ n \in Int /\ n >= 0
  OBVIOUS
<1> QED
  BY <1>1, FS_Interval

\* A set of positions has a last one.
LEMMA HasGreatest ==
  ASSUME NEW n \in Nat, NEW S \in SUBSET (1 .. n), S # {}
  PROVE  \E x \in S : \A y \in S : y =< x
<1> DEFINE T == {n - x : x \in S}
<1>1. T \in SUBSET Nat /\ T # {}
  <2>1. \A x \in S : n - x \in Nat
    OBVIOUS
  <2> QED
    BY <2>1
<1>2. PICK t \in T : \A u \in T : t =< u
  BY <1>1, HasLeast
<1>3. PICK x \in S : t = n - x
  OBVIOUS
<1>4. ASSUME NEW y \in S PROVE y =< x
  <2>1. n - y \in T
    OBVIOUS
  <2>2. n - x =< n - y
    BY <2>1, <1>2, <1>3
  <2> QED
    BY <2>2
<1> QED
  BY <1>4

\* A link that waits, waits for a link: Dependency chooses an index.
LEMMA DependencyIsLink ==
  ASSUME NEW ls, Len(ls) \in Nat, DOMAIN ls = 1 .. Len(ls),
         NEW i, Waits(ls, i)
  PROVE  Dependency(ls, i) \in 1 .. Len(ls)
<1>1. Producers(ls, i) \in SUBSET (1 .. Len(ls)) /\ Producers(ls, i) # {}
  BY DEF Producers, Waits
<1>2. \E j \in Producers(ls, i) : \A k \in Producers(ls, i) : k =< j
  BY <1>1, HasGreatest
<1>3. Dependency(ls, i) \in Producers(ls, i)
  BY <1>2 DEF Dependency
<1> QED
  BY <1>1, <1>3

\* s enumerates S in ascending order.
Ascending(S, s) ==
  /\ s \in [1 .. Cardinality(S) -> S]
  /\ \A a, b \in 1 .. Cardinality(S) : a < b => s[a] < s[b]

\* Every set of positions has such an enumeration.
LEMMA AscendingExists ==
  ASSUME NEW n \in Nat
  PROVE  \A S \in SUBSET (1 .. n) : \E s : Ascending(S, s)
<1> DEFINE Bad == {m \in Nat : ~ \A S \in SUBSET (1 .. m) : \E s : Ascending(S, s)}
<1>0. SUFFICES ASSUME Bad # {} PROVE FALSE
  OBVIOUS
<1>1. PICK m \in Bad : \A y \in Bad : m =< y
  BY <1>0, HasLeast
<1>2. PICK S \in SUBSET (1 .. m) : ~ \E s : Ascending(S, s)
  OBVIOUS
<1>3. m # 0
  <2>1. SUFFICES ASSUME m = 0 PROVE FALSE
    OBVIOUS
  <2>2. S = {}
    BY <2>1
  <2>22. Cardinality(S) = 0
    BY <2>2, FS_EmptySet
  <2>3. Ascending(S, [x \in {} |-> x])
    BY <2>2, <2>22 DEF Ascending
  <2> QED
    BY <2>3, <1>2
<1>4. m - 1 \in Nat /\ m - 1 \notin Bad
  BY <1>1, <1>3
<1>5. \A R \in SUBSET (1 .. m - 1) : \E s : Ascending(R, s)
  BY <1>4
<1>6. m \in S
  <2>1. SUFFICES ASSUME m \notin S PROVE FALSE
    OBVIOUS
  <2>2. S \in SUBSET (1 .. m - 1)
    BY <2>1
  <2> QED
    BY <2>2, <1>5, <1>2
<1> DEFINE R == S \ {m}
<1>7. R \in SUBSET (1 .. m - 1)
  OBVIOUS
<1>8. PICK r : Ascending(R, r)
  BY <1>7, <1>5
<1>9. IsFiniteSet(S) /\ IsFiniteSet(R) /\ Cardinality(R) \in Nat
      /\ Cardinality(S) = Cardinality(R) + 1
  <2>1. IsFiniteSet(1 .. m)
    BY FS_Interval
  <2>2. IsFiniteSet(S)
    BY <2>1, FS_Subset
  <2>3. IsFiniteSet(R) /\ Cardinality(R) = Cardinality(S) - 1
    BY <2>2, <1>6, FS_RemoveElement
  <2>4. Cardinality(S) \in Nat /\ Cardinality(R) \in Nat
    BY <2>2, <2>3, FS_CardinalityType
  <2> HIDE DEF R
  <2> QED
    BY <2>2, <2>3, <2>4
<1> DEFINE c == Cardinality(R)
           s == [a \in 1 .. c + 1 |-> IF a = c + 1 THEN m ELSE r[a]]
<1>10. r \in [1 .. c -> R] /\ \A a, b \in 1 .. c : a < b => r[a] < r[b]
  BY <1>8 DEF Ascending
<1>11. \A x \in R : x \in S /\ x < m
  BY <1>7
<1>12. c \in Nat /\ Cardinality(S) = c + 1
  BY <1>9
<1> HIDE DEF R, c
<1>13. s \in [1 .. c + 1 -> S]
  BY <1>6, <1>10, <1>11, <1>12
<1>14. ASSUME NEW a \in 1 .. c + 1, NEW b \in 1 .. c + 1, a < b PROVE s[a] < s[b]
  BY <1>10, <1>11, <1>12, <1>14
<1>15. Ascending(S, s)
  BY <1>12, <1>13, <1>14 DEF Ascending
<1> QED
  BY <1>15, <1>2

\* x occurs in s; nothing occurs twice in s.
Has(s, x) == \E a \in 1 .. Len(s) : s[a] = x
Distinct(s) == \A a, b \in 1 .. Len(s) : s[a] = s[b] => a = b

\* InOrder lists the elements of its argument, each once.
LEMMA InOrderIsSound ==
  ASSUME NEW n \in Nat, NEW S \in SUBSET (1 .. n)
  PROVE  /\ InOrder(S) \in Seq(S) /\ InOrder(S) \in Seq(1 .. n)
         /\ Distinct(InOrder(S))
         /\ \A x \in S : Has(InOrder(S), x)
<1> DEFINE c == Cardinality(S)
           s == InOrder(S)
<1>1. \E r : Ascending(S, r)
  BY AscendingExists
<1>2. Ascending(S, s)
  BY <1>1 DEF Ascending, InOrder
<1>3. IsFiniteSet(S) /\ c \in Nat
  <2>1. IsFiniteSet(1 .. n)
    BY FS_Interval
  <2>2. IsFiniteSet(S)
    BY <2>1, FS_Subset
  <2> QED
    BY <2>2, FS_CardinalityType
<1>4. IsFiniteSet(1 .. c) /\ Cardinality(1 .. c) = c
  BY <1>3, FS_Interval
<1>5. s \in [1 .. c -> S] /\ \A a, b \in 1 .. c : a < b => s[a] < s[b]
  BY <1>2 DEF Ascending
<1> HIDE DEF s, c
<1>51. \A x \in S : x \in 1 .. n /\ x \in Nat
  OBVIOUS
<1>52. s \in [1 .. c -> 1 .. n]
  BY <1>5, <1>51
<1>6. s \in Seq(S) /\ s \in Seq(1 .. n) /\ Len(s) = c
  BY <1>3, <1>5, <1>52
<1>7. ASSUME NEW a \in 1 .. c, NEW b \in 1 .. c, s[a] = s[b] PROVE a = b
  <2>0. s[a] \in S /\ s[b] \in S
    BY <1>5
  <2>1. s[a] \in Nat /\ s[b] \in Nat
    BY <2>0, <1>51
  <2>2. ~ (a < b) /\ ~ (b < a)
    BY <2>1, <1>5, <1>7
  <2> QED
    BY <2>2, <1>3
<1>8. s \in Injection(1 .. c, S)
  BY <1>5, <1>7 DEF Injection, IsInjective
<1>9. s \in Surjection(1 .. c, S)
  BY <1>8, <1>3, <1>4, FS_Injection DEF c
<1>10. \A x \in S : Has(s, x)
  BY <1>9, <1>6 DEF Surjection, Has
<1> QED
  BY <1>6, <1>7, <1>10 DEF s, Distinct

\* What occurs in a sequence after Append.
LEMMA HasAppend ==
  ASSUME NEW X, NEW s \in Seq(X), NEW x \in X
  PROVE  \A y : Has(Append(s, x), y) <=> Has(s, y) \/ y = x
<1>1. Len(Append(s, x)) = Len(s) + 1 /\ Append(s, x)[Len(s) + 1] = x
  OBVIOUS
<1>2. \A a \in 1 .. Len(s) : Append(s, x)[a] = s[a] /\ a \in 1 .. Len(s) + 1
  OBVIOUS
<1>3. Len(s) \in Nat /\ Len(s) + 1 \in 1 .. Len(s) + 1
  OBVIOUS
<1>4. \A a \in 1 .. Len(s) + 1 : a = Len(s) + 1 \/ a \in 1 .. Len(s)
  BY <1>3
<1> QED
  BY <1>1, <1>2, <1>3, <1>4 DEF Has

\* What occurs in a sequence is its head or occurs in its tail.
LEMMA HasHeadTail ==
  ASSUME NEW X, NEW s \in Seq(X), s # <<>>
  PROVE  /\ Tail(s) \in Seq(X) /\ Head(s) \in X /\ Len(Tail(s)) = Len(s) - 1
         /\ \A y : Has(s, y) <=> Has(Tail(s), y) \/ y = Head(s)
         /\ Distinct(s) => Distinct(Tail(s)) /\ ~ Has(Tail(s), Head(s))
<1>1. Len(s) \in Nat /\ Len(s) # 0 /\ Len(Tail(s)) = Len(s) - 1 /\ Head(s) = s[1]
  OBVIOUS
<1>2. \A a \in 1 .. Len(s) - 1 : Tail(s)[a] = s[a + 1] /\ a + 1 \in 1 .. Len(s) /\ a + 1 # 1
  OBVIOUS
<1>3. \A a \in 1 .. Len(s) : a = 1 \/ (a - 1 \in 1 .. Len(s) - 1 /\ Tail(s)[a - 1] = s[a])
  OBVIOUS
<1>4. \A y : Has(s, y) <=> Has(Tail(s), y) \/ y = Head(s)
  <2>0. 1 \in 1 .. Len(s)
    BY <1>1
  <2>1. ASSUME NEW y, Has(s, y) PROVE Has(Tail(s), y) \/ y = Head(s)
    <3>1. PICK a \in 1 .. Len(s) : s[a] = y
      BY <2>1 DEF Has
    <3> QED
      BY <3>1, <1>1, <1>3 DEF Has
  <2>2. ASSUME NEW y, Has(Tail(s), y) PROVE Has(s, y)
    <3>1. PICK a \in 1 .. Len(s) - 1 : Tail(s)[a] = y
      BY <2>2, <1>1 DEF Has
    <3> QED
      BY <3>1, <1>2 DEF Has
  <2>3. Has(s, Head(s))
    BY <2>0, <1>1 DEF Has
  <2> QED
    BY <2>1, <2>2, <2>3
<1>5. ASSUME Distinct(s) PROVE Distinct(Tail(s)) /\ ~ Has(Tail(s), Head(s))
  <2>1. ASSUME NEW a \in 1 .. Len(s) - 1, NEW b \in 1 .. Len(s) - 1, Tail(s)[a] = Tail(s)[b]
               PROVE a = b
    <3>1. a + 1 = b + 1
      BY <2>1, <1>2, <1>5 DEF Distinct
    <3> QED
      BY <3>1
  <2>2. ASSUME NEW a \in 1 .. Len(s) - 1, Tail(s)[a] = Head(s) PROVE FALSE
    <3>1. s[a + 1] = s[1] /\ a + 1 \in 1 .. Len(s) /\ a + 1 # 1 /\ 1 \in 1 .. Len(s)
      BY <2>2, <1>1, <1>2
    <3> QED
      BY <3>1, <1>5 DEF Distinct
  <2> QED
    BY <2>1, <2>2, <1>1 DEF Distinct, Has
<1>6. Tail(s) \in Seq(X) /\ Head(s) \in X
  OBVIOUS
<1> QED
  BY <1>1, <1>4, <1>5, <1>6

\* What occurs in the concatenation of two sequences.
LEMMA HasConcat ==
  ASSUME NEW X, NEW s \in Seq(X), NEW t \in Seq(X)
  PROVE  /\ s \o t \in Seq(X)
         /\ \A y : Has(s \o t, y) <=> Has(s, y) \/ Has(t, y)
         /\ Distinct(s) /\ Distinct(t) /\ (\A y : ~ (Has(s, y) /\ Has(t, y)))
             => Distinct(s \o t)
<1> DEFINE u == s \o t
           m == Len(s)
           n == Len(t)
<1>1. m \in Nat /\ n \in Nat /\ u \in Seq(X) /\ Len(u) = m + n
  OBVIOUS
<1>2. \A a \in 1 .. m : u[a] = s[a] /\ a \in 1 .. m + n
  OBVIOUS
<1>3. \A a \in 1 .. n : u[m + a] = t[a] /\ m + a \in 1 .. m + n
  OBVIOUS
<1>4. \A a \in 1 .. m + n : a \in 1 .. m \/ (a - m \in 1 .. n /\ u[a] = t[a - m])
  OBVIOUS
<1> HIDE DEF u
<1>5. ASSUME NEW y, Has(u, y) PROVE Has(s, y) \/ Has(t, y)
  <2>1. PICK a \in 1 .. m + n : u[a] = y
    BY <1>5, <1>1 DEF Has
  <2> QED
    BY <2>1, <1>2, <1>4 DEF Has
<1>6. ASSUME NEW y, Has(s, y) \/ Has(t, y) PROVE Has(u, y)
  BY <1>6, <1>1, <1>2, <1>3 DEF Has
<1>7. ASSUME Distinct(s), Distinct(t), \A y : ~ (Has(s, y) /\ Has(t, y)) PROVE Distinct(u)
  <2>1. SUFFICES ASSUME NEW a \in 1 .. m + n, NEW b \in 1 .. m + n, u[a] = u[b] PROVE a = b
    BY <1>1 DEF Distinct
  <2>2. CASE a \in 1 .. m /\ b \in 1 .. m
    BY <2>1, <2>2, <1>2, <1>7 DEF Distinct
  <2>3. CASE a \in 1 .. m /\ b \notin 1 .. m
    BY <2>1, <2>3, <1>2, <1>4, <1>7 DEF Has
  <2>4. CASE a \notin 1 .. m /\ b \in 1 .. m
    BY <2>1, <2>4, <1>2, <1>4, <1>7 DEF Has
  <2>5. CASE a \notin 1 .. m /\ b \notin 1 .. m
    <3>1. a - m = b - m
      BY <2>1, <2>5, <1>4, <1>7 DEF Distinct
    <3> QED
      BY <3>1, <1>1
  <2> QED
    BY <2>2, <2>3, <2>4, <2>5
<1> QED
  BY <1>1, <1>5, <1>6, <1>7 DEF u

\* What holds of queue and order after k rounds, for n links.
RoundInv(ls, k, r) ==
  LET n == Len(ls)
  IN  /\ r.ready \in Seq(1 .. n) /\ r.order \in Seq(1 .. n)
      /\ Distinct(r.ready) /\ Distinct(r.order)
      /\ \A i \in 1 .. n : ~ (Has(r.ready, i) /\ Has(r.order, i))
      /\ \A i \in 1 .. n : (Has(r.ready, i) \/ Has(r.order, i))
                              <=> (~ Waits(ls, i) \/ Has(r.order, Dependency(ls, i)))
      /\ Len(r.order) = k \/ r.ready = <<>>
      /\ \A b \in 1 .. Len(r.order) : Waits(ls, r.order[b]) =>
            \E a \in 1 .. Len(r.order) : a < b /\ r.order[a] = Dependency(ls, r.order[b])

\* The invariant of the loop holds before the first round.
LEMMA FirstRound ==
  ASSUME NEW ls, Len(ls) \in Nat, DOMAIN ls = 1 .. Len(ls),
         NEW r, r = [ready |-> InOrder(ReadyAtFirst(ls)), order |-> <<>>]
  PROVE  RoundInv(ls, 0, r)
<1> DEFINE n == Len(ls)
           S == ReadyAtFirst(ls)
<1>1. S \in SUBSET (1 .. n) /\ \A i \in 1 .. n : i \in S <=> ~ Waits(ls, i)
  BY DEF ReadyAtFirst
<1> HIDE DEF S
<1>2. r.ready = InOrder(S) /\ r.order = <<>>
  BY DEF S
<1>3. r.ready \in Seq(S) /\ Distinct(r.ready) /\ \A x \in S : Has(r.ready, x)
  BY <1>1, <1>2, InOrderIsSound
<1>4. \A x : Has(r.ready, x) => x \in S
  BY <1>3 DEF Has
<1>5. r.ready \in Seq(1 .. n)
  BY <1>1, <1>2, InOrderIsSound
<1>6. Len(r.order) = 0 /\ r.order \in Seq(1 .. n) /\ Distinct(r.order)
      /\ \A x : ~ Has(r.order, x)
  BY <1>2 DEF Has, Distinct
<1>7. \A b \in 1 .. Len(r.order) : FALSE
  BY <1>6
<1> QED
  BY <1>1, <1>3, <1>4, <1>5, <1>6, <1>7 DEF RoundInv

\* A round of the loop keeps its invariant.
LEMMA TurnKeeps ==
  ASSUME NEW ls, Len(ls) \in Nat, DOMAIN ls = 1 .. Len(ls),
         NEW k \in Nat, NEW r, RoundInv(ls, k, r)
  PROVE  RoundInv(ls, k + 1, Turn(ls, r))
<1> DEFINE n == Len(ls)
           D == 1 .. n
<1>0. /\ r.ready \in Seq(D) /\ r.order \in Seq(D) /\ Distinct(r.ready) /\ Distinct(r.order)
      /\ \A i \in D : ~ (Has(r.ready, i) /\ Has(r.order, i))
      /\ \A i \in D : (Has(r.ready, i) \/ Has(r.order, i))
                              <=> (~ Waits(ls, i) \/ Has(r.order, Dependency(ls, i)))
      /\ Len(r.order) = k \/ r.ready = <<>>
  BY DEF RoundInv
<1>00. \A b \in 1 .. Len(r.order) : Waits(ls, r.order[b]) =>
            \E a \in 1 .. Len(r.order) : a < b /\ r.order[a] = Dependency(ls, r.order[b])
  BY DEF RoundInv
<1>1. CASE r.ready = <<>>
  <2>1. Turn(ls, r) = r
    BY <1>1 DEF Turn
  <2> QED
    BY <2>1, <1>0, <1>00, <1>1 DEF RoundInv
<1>2. CASE r.ready # <<>>
  <2> DEFINE h == Head(r.ready)
             t == Tail(r.ready)
             S == ReadyAfter(ls, h)
             N == InOrder(S)
             o == r.order
             o2 == Append(o, h)
             t2 == t \o N
  <2>1. Turn(ls, r).ready = t2 /\ Turn(ls, r).order = o2
    BY <1>2 DEF Turn
  <2>2. h \in D /\ t \in Seq(D) /\ Distinct(t) /\ ~ Has(t, h)
        /\ \A y : Has(r.ready, y) <=> Has(t, y) \/ y = h
    BY <1>0, <1>2, HasHeadTail
  <2>3. S \in SUBSET D /\ \A i \in D : i \in S <=> Waits(ls, i) /\ Dependency(ls, i) = h
    BY DEF ReadyAfter
  <2>4. N \in Seq(S) /\ Distinct(N) /\ \A x \in S : Has(N, x)
    BY <2>3, InOrderIsSound
  <2>5. \A x : Has(N, x) <=> x \in S
    BY <2>4 DEF Has
  <2>6. N \in Seq(D)
    BY <2>3, InOrderIsSound
  <2>7. o2 \in Seq(D) /\ Len(o2) = Len(o) + 1 /\ \A y : Has(o2, y) <=> Has(o, y) \/ y = h
    <3>1. o2 \in Seq(D) /\ Len(o2) = Len(o) + 1
      BY <1>0, <2>2
    <3>2. \A y : Has(o2, y) <=> Has(o, y) \/ y = h
      <4>1. o \in Seq(D) /\ h \in D
        BY <1>0, <2>2
      <4> HIDE DEF D, h
      <4> QED
        BY <4>1, HasAppend
    <3> QED
      BY <3>1, <3>2
  <2> HIDE DEF S, N, h, t
  <2>8. ~ Has(o, h) /\ Has(r.ready, h)
    BY <1>0, <2>2
  <2>9. \A x \in S : ~ Has(r.ready, x) /\ ~ Has(o, x)
    BY <1>0, <2>3, <2>8
  <2>10. /\ t2 \in Seq(D)
         /\ \A y : Has(t2, y) <=> Has(t, y) \/ y \in S
         /\ Distinct(t2)
    <3>1. \A y : ~ (Has(t, y) /\ Has(N, y))
      BY <2>2, <2>5, <2>9
    <3> QED
      BY <3>1, <2>2, <2>4, <2>5, <2>6, HasConcat
  <2>11. Distinct(o2)
    <3>1. \A a \in 1 .. Len(o) : o2[a] = o[a]
      BY <1>0, <2>2
    <3>2. o2[Len(o) + 1] = h /\ Len(o) \in Nat
      BY <1>0, <2>2
    <3>3. \A a \in 1 .. Len(o) + 1 : a \in 1 .. Len(o) \/ a = Len(o) + 1
      BY <3>2
    <3>4. \A a \in 1 .. Len(o) : o2[a] # h
      BY <3>1, <2>8 DEF Has
    <3> HIDE DEF o2
    <3> QED
      BY <3>1, <3>2, <3>3, <3>4, <1>0, <2>7 DEF Distinct
  <2>12. ASSUME NEW b \in 1 .. Len(o2), Waits(ls, o2[b])
         PROVE  \E a \in 1 .. Len(o2) : a < b /\ o2[a] = Dependency(ls, o2[b])
    <3>3. Len(o) \in Nat /\ Len(o2) = Len(o) + 1 /\ \A a \in 1 .. Len(o) : o2[a] = o[a]
      BY <1>0, <2>2
    <3>4. \A a \in 1 .. Len(o) : a \in 1 .. Len(o) + 1 /\ a < Len(o) + 1
      BY <3>3
    <3>0. /\ Len(o) \in Nat
          /\ \A a \in 1 .. Len(o) : o2[a] = o[a] /\ a \in 1 .. Len(o2) /\ a < Len(o) + 1
      BY <3>3, <3>4
    <3>1. CASE b \in 1 .. Len(o)
      BY <3>0, <3>1, <1>00, <2>12
    <3>2. CASE b = Len(o) + 1
      <4>1. o2[b] = h
        BY <3>2, <1>0, <2>2
      <4>2. Has(o, Dependency(ls, h))
        BY <4>1, <2>8, <2>12, <2>2, <1>0
      <4> QED
        BY <4>1, <4>2, <3>0, <3>2 DEF Has
    <3> HIDE DEF o2
    <3> QED
      BY <3>1, <3>2, <2>7, <3>0
  <2>13. \A i \in D : ~ (Has(t2, i) /\ Has(o2, i))
    BY <2>2, <2>7, <2>9, <2>10, <2>8, <1>0
  <2>14. \A i \in D : (Has(t2, i) \/ Has(o2, i)) <=> (~ Waits(ls, i) \/ Has(o2, Dependency(ls, i)))
    BY <2>2, <2>3, <2>7, <2>8, <2>10, <1>0
  <2>15. Len(o2) = k + 1
    BY <1>0, <1>2, <2>7
  <2> HIDE DEF t2, o2
  <2> QED
    BY <2>1, <2>7, <2>10, <2>11, <2>12, <2>13, <2>14, <2>15 DEF RoundInv
<1> QED
  BY <1>1, <1>2

\* The invariant of the loop holds after the last round.
LEMMA LastRound ==
  ASSUME NEW ls, Len(ls) \in Nat, DOMAIN ls = 1 .. Len(ls)
  PROVE  RoundInv(ls, Len(ls), Round(ls)[Len(ls)])
<1> DEFINE n == Len(ls)
           g == Round(ls)
           Bad == {k \in Nat : k =< n /\ ~ RoundInv(ls, k, g[k])}
<1>1. Computes(ls, n, g)
  BY RoundComputes
<1>2. RoundInv(ls, 0, g[0])
  BY <1>1, FirstRound DEF Computes
<1>3. SUFFICES ASSUME Bad # {} PROVE FALSE
  OBVIOUS
<1>4. PICK k \in Bad : \A j \in Bad : k =< j
  BY <1>3, HasLeast
<1>5. k \in Nat /\ k =< n /\ k # 0
  BY <1>2, <1>4
<1>6. k \in 1 .. n /\ k - 1 \in Nat /\ k - 1 =< n /\ k - 1 \notin Bad
  BY <1>4, <1>5
<1> HIDE DEF g
<1>7. RoundInv(ls, k - 1, g[k - 1])
  BY <1>6
<1>8. g[k] = Turn(ls, g[k - 1])
  BY <1>1, <1>6 DEF Computes
<1>9. RoundInv(ls, (k - 1) + 1, g[k])
  BY <1>6, <1>7, <1>8, TurnKeeps
<1>10. (k - 1) + 1 = k
  BY <1>5
<1> QED
  BY <1>9, <1>10

\* The order is a sequence of indexes of links.
LEMMA OrderIsSequence ==
  ASSUME NEW ls, Len(ls) \in Nat, DOMAIN ls = 1 .. Len(ls)
  PROVE  DeferredLinkOrder(ls) \in Seq(1 .. Len(ls))
  BY LastRound DEF RoundInv, DeferredLinkOrder

\* An order that is found makes every link once and after its dependency.
LEMMA OrderSound ==
  ASSUME NEW ls, Len(ls) \in Nat, DOMAIN ls = 1 .. Len(ls), OrderFound(ls)
  PROVE  DeferredLinkOrder(ls) \in Arrangements(ls) /\ Respects(ls, DeferredLinkOrder(ls))
<1> DEFINE n == Len(ls)
           o == DeferredLinkOrder(ls)
<1>1. /\ o \in Seq(1 .. n) /\ Distinct(o)
      /\ \A b \in 1 .. Len(o) : Waits(ls, o[b]) =>
            \E a \in 1 .. Len(o) : a < b /\ o[a] = Dependency(ls, o[b])
  BY LastRound DEF RoundInv, DeferredLinkOrder
<1>2. Len(o) = n
  BY DEF OrderFound
<1> HIDE DEF o
<1>3. o \in [DOMAIN ls -> DOMAIN ls] /\ DOMAIN o = 1 .. n
  BY <1>1, <1>2
<1>4. o \in Arrangements(ls)
  BY <1>1, <1>2, <1>3 DEF Arrangements, Distinct
<1>5. Respects(ls, o)
  BY <1>1, <1>2, <1>3 DEF Respects, Distinct
<1> QED
  BY <1>4, <1>5 DEF o

(* If no order is found there is none: take an arrangement that respects     *)
(* the dependencies and its first link that the loop has not made.             *)
LEMMA NoOrderMissed ==
  ASSUME NEW ls, Len(ls) \in Nat, DOMAIN ls = 1 .. Len(ls), ~ OrderFound(ls)
  PROVE  \A s \in Arrangements(ls) : ~ Respects(ls, s)
<1> DEFINE n == Len(ls)
           D == 1 .. n
           o == DeferredLinkOrder(ls)
           r == Round(ls)[n]
<1>0. RoundInv(ls, n, r) /\ r.order = o
  BY LastRound DEF DeferredLinkOrder
<1>1. o \in Seq(D) /\ Distinct(o) /\ Len(o) # n /\ r.ready = <<>>
  BY <1>0 DEF RoundInv, OrderFound
<1>2. \A i \in D : Has(o, i) <=> (~ Waits(ls, i) \/ Has(o, Dependency(ls, i)))
  <2>1. \A i \in D : (Has(r.ready, i) \/ Has(o, i)) <=> (~ Waits(ls, i) \/ Has(o, Dependency(ls, i)))
    BY <1>0 DEF RoundInv
  <2>2. \A i : ~ Has(r.ready, i)
    BY <1>1 DEF Has
  <2> QED
    BY <2>1, <2>2
<1>3. IsFiniteSet(D) /\ Cardinality(D) = n
  BY UpTo
<1>4. PICK i \in D : ~ Has(o, i)
  <2>1. SUFFICES ASSUME \A i \in D : Has(o, i) PROVE FALSE
    OBVIOUS
  <2> DEFINE m == Len(o)
  <2>2. m \in Nat /\ o \in [1 .. m -> D]
    BY <1>1
  <2>3. IsFiniteSet(1 .. m) /\ Cardinality(1 .. m) = m
    BY <2>2, UpTo
  <2>4. o \in Injection(1 .. m, D)
    BY <2>2, <1>1 DEF Injection, IsInjective, Distinct
  <2>5. o \in Surjection(1 .. m, D)
    BY <2>1, <2>2 DEF Surjection, Has
  <2>6. Cardinality(1 .. m) = Cardinality(D)
    BY <2>4, <2>5, <1>3, FS_Injection
  <2> QED
    BY <2>3, <2>6, <1>1, <1>3
<1>5. SUFFICES ASSUME NEW s \in Arrangements(ls), Respects(ls, s) PROVE FALSE
  OBVIOUS
<1>6. s \in [D -> D] /\ DOMAIN s = D /\ \A a, b \in D : s[a] = s[b] => a = b
  BY DEF Arrangements
<1>7. s \in Surjection(D, D)
  <2>1. s \in Injection(D, D)
    BY <1>6 DEF Injection, IsInjective
  <2> QED
    BY <2>1, <1>3, FS_Injection
<1>8. \A x \in D : \E a \in D : s[a] = x
  BY <1>7 DEF Surjection
<1> HIDE DEF o
<1> DEFINE U == {a \in D : ~ Has(o, s[a])}
<1>9. U \in SUBSET Nat /\ U # {}
  <2>1. PICK a \in D : s[a] = i
    BY <1>8
  <2>2. a \in U
    BY <2>1, <1>4
  <2> QED
    BY <2>2
<1>10. PICK a \in U : \A b \in U : a =< b
  BY <1>9, HasLeast
<1>11. a \in D /\ s[a] \in D /\ Waits(ls, s[a]) /\ ~ Has(o, Dependency(ls, s[a]))
  BY <1>6, <1>10, <1>2
<1>12. Dependency(ls, s[a]) \in D
  BY <1>11, DependencyIsLink
<1>13. PICK b \in D : s[b] = Dependency(ls, s[a])
  BY <1>12, <1>8
<1>14. b < a
  BY <1>5, <1>6, <1>11, <1>13 DEF Respects
<1>15. b \in U
  BY <1>11, <1>13
<1> QED
  BY <1>10, <1>14, <1>15

-----------------------------------------------------------------------------
(* Records, nodes and what the writes do to the disk.                      *)

\* The records the state is made of.
Modes == {"open", "closed"}
Kinds == {"file", "special", "dir", "symlink", "hardlink"}
Policies == {"refuse", "replace", "rename", "ask"}
Keys == {Key[p] : p \in Path}
Writing == {"clear", "open", "copy", "remove", "place"}
Reading == {"read", "write"}
Ended == {"link", "ok", "failed", "refused", "shut"}
PlanRec == [entry : Entry, of : 1 .. ArchiveSize, dest : Path, replace : BOOLEAN, mode : Modes]
DecisionRec == [dest : Path, replace : BOOLEAN, mode : Modes]
QueueRec == [entry : Entry, of : 1 .. ArchiveSize]
LinkRec == [path : Path, source : Path, dest : Path, replace : BOOLEAN]
DirRec == [path : Path, mode : Modes]
WrittenRec == [path : Path, dest : Path, node : Node]

\* What an entry consists of.
LEMMA EntryFacts ==
  ASSUME NEW e \in Entry
  PROVE  /\ e.kind \in Kinds /\ e.path \in Path
         /\ e.kind = "dir" => e.mode \in Modes
         /\ e.kind \in {"symlink", "hardlink"} => e.target \in Path
<1>1. CASE e \in [kind : {"file", "special"}, path : Path]
  BY <1>1 DEF Kinds
<1>2. CASE e \in [kind : {"dir"}, path : Path, mode : {"open", "closed"}]
  BY <1>2 DEF Kinds, Modes
<1>3. CASE e \in [kind : {"symlink", "hardlink"}, path : Path, target : Path]
  BY <1>3 DEF Kinds
<1> QED
  BY <1>1, <1>2, <1>3 DEF Entry

\* The nodes differ in their kinds.
LEMMA NodeFacts ==
  /\ Absent \in Node /\ Dir \in Node
  /\ \A i \in 0 .. ArchiveSize : File(i) \in Node
  /\ \A t \in Path : Link(t) \in Node
  /\ Absent.kind = "absent" /\ Dir.kind = "dir"
  /\ \A i : File(i).kind = "file"
  /\ \A t : Link(t).kind = "link"
  /\ \A x \in Node : x.kind = "absent" => x = Absent
  /\ \A x \in Node : x.kind = "dir" => x = Dir
<1>1. Absent.kind = "absent" /\ Dir.kind = "dir" /\ (\A i : File(i).kind = "file")
      /\ \A t : Link(t).kind = "link"
  BY DEF Absent, Dir, File, Link
<1>2. /\ Absent \in Node /\ Dir \in Node /\ (\A i \in 0 .. ArchiveSize : File(i) \in Node)
      /\ \A t \in Path : Link(t) \in Node
  BY DEF Node
<1>3. \A x \in Node : x = Absent \/ x = Dir \/ (\E i : x = File(i)) \/ \E t : x = Link(t)
  BY DEF Node
<1>4. \A x \in Node : (x.kind = "absent" => x = Absent) /\ (x.kind = "dir" => x = Dir)
  BY <1>1, <1>3
<1> QED
  BY <1>1, <1>2, <1>4

\* What the proofs use of the table of backends.
BackendOk(b) ==
  /\ b.planning \in {"each", "all"}
  /\ b.planning = "all" => b.holds = {"file", "dir"}
  /\ b.stamping \in {"none", "archive", "reverse", "deepest"}

\* Every backend of the table has it.
LEMMA BackendFacts == \A b \in Backend : BackendOk(b)
<1>1. \A k : BackendOk(Tree(k))
  BY DEF BackendOk, Tree
<1>2. BackendOk(Unix) /\ BackendOk(Tar) /\ BackendOk(Cpio) /\ BackendOk(Tzap)
  BY DEF BackendOk, Tree, Unix, Tar, Cpio, Tzap
<1>3. BackendOk(Zip) /\ BackendOk(AppleArchive) /\ BackendOk(SevenZ)
  BY DEF BackendOk, Tree, Zip, AppleArchive, SevenZ
<1>4. BackendOk(Squashfs) /\ BackendOk(Mtree)
  BY DEF BackendOk, Tree, Squashfs, Mtree
<1>5. /\ BackendOk(Xar) /\ BackendOk(Wim) /\ BackendOk(Dmg) /\ BackendOk(Pkg)
      /\ BackendOk(VirtualDisk)
      /\ BackendOk(Lha) /\ BackendOk(Ar) /\ BackendOk(Cab) /\ BackendOk(Warc) /\ BackendOk(Msi)
  BY <1>1 DEF Xar, Wim, Dmg, Pkg, VirtualDisk, Lha, Ar, Cab, Warc, Msi
<1>6. \A b \in Backend : b \in {Tar, Cpio, Tzap} \/ b \in {Zip, AppleArchive, SevenZ}
      \/ b \in {Squashfs, Mtree}
                         \/ b \in {Xar, Wim, Dmg, Pkg, VirtualDisk, Lha, Ar, Cab, Warc, Msi}
  BY DEF Backend
<1> QED
  BY <1>2, <1>3, <1>4, <1>5, <1>6

\* create_dir_all only turns what is absent into a directory.
LEMMA ParentsEffect ==
  ASSUME disk \in [Path -> Node], NEW p \in Path
  PROVE  /\ WithParents(p) \in [Path -> Node]
         /\ \A q \in Path : \/ WithParents(p)[q] = disk[q]
                            \/ disk[q] = Absent /\ WithParents(p)[q] = Dir
<1>1. \A q \in Path : disk[q] \in Node
  OBVIOUS
<1>2. \A q \in Path : \/ WithParents(p)[q] = disk[q]
                      \/ disk[q].kind = "absent" /\ WithParents(p)[q] = Dir
  BY DEF WithParents, Is
<1>3. WithParents(p) = [q \in Path |-> WithParents(p)[q]]
  BY DEF WithParents
<1> QED
  BY <1>1, <1>2, <1>3, NodeFacts

\* A removal touches its path and what is below.
LEMMA WithoutEffect ==
  ASSUME disk \in [Path -> Node], NEW p \in Path
  PROVE  /\ Without(p) \in [Path -> Node]
         /\ \A q \in Path : Without(p)[q] = IF q = p \/ p \in Above[q] THEN Absent ELSE disk[q]
  BY NodeFacts DEF Without

\* What a deferred link clears: its destination and below, if it may replace.
LEMMA ClearedEffect ==
  ASSUME disk \in [Path -> Node], NEW l \in LinkRec
  PROVE  /\ Cleared(l) \in [Path -> Node]
         /\ \A q \in Path : \/ Cleared(l)[q] = disk[q]
                            \/ Cleared(l)[q] = Absent /\ l.replace
                                /\ (q = l.dest \/ l.dest \in Above[q])
<1>1. l.dest \in Path
  BY DEF LinkRec
<1> QED
  BY <1>1, WithoutEffect DEF Cleared

\* What a deferred link changes besides.
LEMMA LinkedEffect ==
  ASSUME disk \in [Path -> Node], NEW l \in LinkRec
  PROVE  /\ Linked(l) \in [Path -> Node]
         /\ Linked(l)[l.dest] = Cleared(l)[l.source]
         /\ \A q \in Path \ {l.dest} : \/ Linked(l)[q] = Cleared(l)[q]
                                       \/ disk[q] = Absent /\ Linked(l)[q] = Dir
<1> DEFINE f == [q \in Path |-> IF q \in Above[l.dest] /\ Is(q, "absent") THEN Dir ELSE Cleared(l)[q]]
<1>1. l.dest \in Path /\ l.source \in Path
  BY DEF LinkRec
<1>2. Cleared(l) \in [Path -> Node]
  BY ClearedEffect
<1>3. f \in [Path -> Node]
  BY <1>2, NodeFacts
<1>4. \A q \in Path : f[q] = Cleared(l)[q] \/ (disk[q].kind = "absent" /\ f[q] = Dir)
  BY DEF Is
<1>5. \A q \in Path : disk[q].kind = "absent" => disk[q] = Absent
  BY NodeFacts
<1>6. Linked(l) = [f EXCEPT ![l.dest] = Cleared(l)[l.source]]
  BY DEF Linked
<1> HIDE DEF f
<1> QED
  BY <1>1, <1>2, <1>3, <1>4, <1>5, <1>6
\* The lowest free suffix is a free suffix.
LEMMA LowestIsIn ==
  ASSUME NEW S \in SUBSET Nat, S # {}
  PROVE  Lowest(S) \in S
  BY HasLeast DEF Lowest

\* The next suffix to try of every name.
RenamesOk == renames \in [Path -> Nat]
    /\ \A p \in Path : renames[p] \in 1 .. Len(Candidate[p]) + 1

\* A decision to write has a destination, and replaces only with the policy.
LEMMA DecisionFacts ==
  ASSUME NEW e \in Entry, RenamesOk, policy \in Policies,
         NEW d \in Decisions(e), d.do = "write"
  PROVE  /\ d.dest \in Path /\ d.replace \in BOOLEAN
         /\ d.index \in 1 .. Len(Candidate[e.path]) + 1
         /\ d.replace => policy \in {"replace", "ask"}
<1> DEFINE p == e.path
           Good(x) == /\ x.dest \in Path /\ x.replace \in BOOLEAN
                      /\ x.index \in 1 .. Len(Candidate[p]) + 1
                      /\ x.replace => policy \in {"replace", "ask"}
<1>1. p \in Path /\ renames[p] \in 1 .. Len(Candidate[p]) + 1
  BY EntryFacts DEF RenamesOk
<1>2. Candidate[p] \in Seq(Path) /\ Len(Candidate[p]) \in Nat
  BY <1>1, PathAssumption
<1>3. ASSUME NEW r \in BOOLEAN, r => policy \in {"replace", "ask"}, NEW x \in InPlace(p, r)
             PROVE Good(x)
  BY <1>1, <1>3 DEF InPlace
<1>4. ASSUME NEW x \in Rename(p), x.do = "write" PROVE Good(x)
  <2>1. CASE ~ Exists(p)
    <3>1. x = [do |-> "write", dest |-> p, replace |-> FALSE, index |-> renames[p]]
      BY <2>1 DEF Rename
    <3> QED
      BY <3>1, <1>1
  <2>2. CASE Exists(p) /\ FreeSuffixes(p) = {}
    <3>1. x = [do |-> "fail"]
      BY <2>2 DEF Rename
    <3>2. x.do = "fail"
      BY <3>1
    <3> QED
      BY <3>2, <1>4
  <2>3. CASE Exists(p) /\ FreeSuffixes(p) # {}
    <3> DEFINE i == Lowest(FreeSuffixes(p))
    <3>1. FreeSuffixes(p) \in SUBSET (renames[p] .. Len(Candidate[p]))
      BY DEF FreeSuffixes
    <3>2. \A k \in renames[p] .. Len(Candidate[p]) : k \in 1 .. Len(Candidate[p])
      BY <1>1, <1>2
    <3>3. FreeSuffixes(p) \in SUBSET Nat
      BY <3>1, <3>2
    <3>4. i \in 1 .. Len(Candidate[p])
      BY <3>1, <3>2, <3>3, <2>3, LowestIsIn
    <3> HIDE DEF i
    <3>5. Candidate[p][i] \in Path /\ i + 1 \in 1 .. Len(Candidate[p]) + 1
      BY <3>4, <1>2
    <3>6. x = [do |-> "write", dest |-> Candidate[p][i], replace |-> FALSE, index |-> i + 1]
      BY <2>3 DEF Rename, i
    <3> QED
      BY <3>5, <3>6
  <2> QED
    BY <2>1, <2>2, <2>3
<1>5. ASSUME NEW x \in Conflict(p), x.do = "write" PROVE Good(x)
  <2>1. CASE policy = "refuse"
    BY <2>1, <1>5 DEF Conflict
  <2>2. CASE policy = "replace"
    <3>1. x \in InPlace(p, TRUE)
      BY <2>2 DEF Conflict
    <3> QED
      BY <3>1, <2>2, <1>3
  <2>3. CASE policy = "rename"
    <3>1. x \in Rename(p)
      BY <2>3 DEF Conflict
    <3> QED
      BY <3>1, <1>4, <1>5
  <2>4. CASE policy = "ask"
    <3>1. x \in InPlace(p, TRUE) \/ x \in Rename(p) \/ x = [do |-> "fail"]
          \/ x = [do |-> "skip"]
      BY <2>4 DEF Conflict
    <3>2. x \in InPlace(p, TRUE) \/ x \in Rename(p)
      <4>1. x = [do |-> "fail"] => x.do = "fail"
        OBVIOUS
      <4>2. x = [do |-> "skip"] => x.do = "skip"
        OBVIOUS
      <4> QED
        BY <3>1, <4>1, <4>2, <1>5
    <3> HIDE DEF Good
    <3> QED
      BY <3>2, <2>4, <1>3, <1>4, <1>5
  <2> QED
    BY <2>1, <2>2, <2>3, <2>4 DEF Policies
<1>6. CASE Is(p, "absent")
  <2> DEFINE r == policy = "replace" /\ e.kind # "dir"
  <2>1. d \in InPlace(p, r)
    BY <1>6 DEF Decisions
  <2>2. r \in BOOLEAN /\ (r => policy \in {"replace", "ask"})
    OBVIOUS
  <2> HIDE DEF Good, r
  <2>3. Good(d)
    BY <2>1, <2>2, <1>3
  <2> QED
    BY <2>3 DEF Good
<1>7. CASE ~ Is(p, "absent") /\ e.kind = "dir" /\ Is(p, "dir")
  <2>1. d \in InPlace(p, FALSE)
    BY <1>7 DEF Decisions
  <2> HIDE DEF Good
  <2>3. Good(d)
    BY <2>1, <1>3
  <2> QED
    BY <2>3 DEF Good
<1>8. CASE ~ Is(p, "absent") /\ ~ (e.kind = "dir" /\ Is(p, "dir"))
  <2>1. d \in Conflict(p)
    BY <1>8 DEF Decisions
  <2> HIDE DEF Good
  <2>3. Good(d)
    BY <2>1, <1>5
  <2> QED
    BY <2>3 DEF Good
<1> QED
  BY <1>6, <1>7, <1>8

-----------------------------------------------------------------------------
(* Types.                                                                  *)

\* Types, component by component.
SettingsInv ==
  /\ backend \in Backend /\ policy \in Policies
  /\ limits.entries \in Nat /\ limits.bytes \in Nat
  /\ archive \subseteq Entry /\ \A e \in archive : e.kind \in backend.holds
  /\ before \in [Path -> Node]
HandInv ==
  /\ pc \in Writing \cup Reading \cup Ended /\ count \in 0 .. ArchiveSize
  /\ plan = NoPlan \/ (plan \in PlanRec /\ plan.entry \in archive)
  /\ pc \in Writing => plan \in PlanRec /\ plan.entry \in archive /\ plan.entry.kind # "special"
BatchInv ==
  /\ DOMAIN decided \subseteq Path /\ \A p \in DOMAIN decided : decided[p] \in DecisionRec
  /\ queue \in Seq(QueueRec)
  /\ \A i \in 1 .. Len(queue) : queue[i].entry \in archive
      /\ queue[i].entry.path \in DOMAIN decided
  /\ backend.planning # "all" => queue = <<>> /\ DOMAIN decided = {}
PlannerInv ==
  /\ seen \subseteq Keys /\ symlinks \subseteq Keys /\ required \subseteq Keys /\ RenamesOk
  /\ reserved \in [entries : Nat, bytes : Nat]
  /\ reserved.entries \in 0 .. limits.entries /\ reserved.bytes \in 0 .. limits.bytes
DeferredInv ==
  /\ links \in Seq(LinkRec) /\ todo \in Seq(1 .. Len(links))
  /\ pc \in Writing \cup Reading => todo = <<>>
  /\ dirs \in Seq(DirRec) /\ stamped \in Nat
  /\ backend.stamping = "none" => dirs = <<>>
WrittenInv ==
  /\ written \subseteq WrittenRec /\ \A x \in written : x.node.kind # "absent"
  /\ consent \subseteq Path
TypeInv ==
  /\ SettingsInv /\ HandInv /\ disk \in [Path -> Node] /\ BatchInv /\ PlannerInv
  /\ DeferredInv /\ WrittenInv

\* The initial states have the types.
LEMMA InitTypes == Init => TypeInv
<1> SUFFICES ASSUME Init PROVE TypeInv
  OBVIOUS
<1>0. PICK k \in Cases :
          /\ backend \in k.backends
          /\ policy \in k.policies /\ unsafe \in k.unsafes /\ ignoring \in k.ignores
          /\ limits = k.limits
          /\ archive = {e \in k.entries : e.kind \in backend.holds}
          /\ disk \in k.disks
  BY DEF Init
<1>1. /\ k.backends \subseteq Backend
      /\ k.entries \subseteq Entry
      /\ k.disks \subseteq [Path -> Node]
      /\ k.policies \subseteq {"refuse", "replace", "rename", "ask"}
      /\ k.limits \in [entries : Nat, bytes : Nat]
  BY CaseAssumption
<1>2. disk \in [Path -> Node] /\ SettingsInv
  BY <1>0, <1>1 DEF SettingsInv, Policies, Init
<1>3. HandInv
  BY SizeAssumption DEF HandInv, Init, Writing, Reading, Ended
<1>4. BatchInv
  BY DEF Init, BatchInv
<1>5. \A p \in Path : 1 \in 1 .. Len(Candidate[p]) + 1
  BY PathAssumption
<1>6. PlannerInv
  BY <1>2, <1>5 DEF Init, PlannerInv, RenamesOk, SettingsInv
<1>7. DeferredInv /\ WrittenInv
  BY DEF Init, DeferredInv, WrittenInv
<1> QED
  BY <1>2, <1>3, <1>4, <1>6, <1>7 DEF TypeInv

\* Nothing changes but the disk and pc.
Kept == UNCHANGED <<settings, batch, planner, deferred, written, consent, plan, count>>

\* Steps that leave all but the disk and pc keep the types.
LEMMA IdleTypes ==
  ASSUME TypeInv, Kept, disk' \in [Path -> Node],
         pc' \in Ended \/ pc' = pc \/ (pc \in Writing /\ pc' \in Writing)
  PROVE  TypeInv'
<1>1. SettingsInv' /\ BatchInv' /\ PlannerInv' /\ WrittenInv'
  BY DEF Kept, settings, batch, planner, deferred, TypeInv, SettingsInv, BatchInv, PlannerInv,
     RenamesOk, WrittenInv
<1>2. HandInv'
  BY DEF Kept, settings, TypeInv, HandInv, Writing, Reading, Ended
<1>3. DeferredInv'
  BY DEF Kept, settings, deferred, TypeInv, DeferredInv, Writing, Reading, Ended
<1> QED
  BY <1>1, <1>2, <1>3 DEF TypeInv

\* A skipped entry keeps the types: it is counted below the limit.
LEMMA SkipTypes ==
  ASSUME TypeInv, NEW e \in archive, Skip(e) \/ SkipByPrompt(e)
  PROVE  TypeInv'
<1>1. /\ UNCHANGED <<settings, disk, pc, plan, batch, symlinks, required, renames, deferred, written, consent>>
      /\ count' = count + 1 /\ count < ArchiveSize
  BY DEF Skip, SkipByPrompt
<1>2. SettingsInv' /\ disk' \in [Path -> Node] /\ BatchInv' /\ WrittenInv' /\ DeferredInv'
  BY <1>1 DEF settings, batch, deferred, TypeInv, SettingsInv, BatchInv, WrittenInv, DeferredInv
<1>3. HandInv'
  BY <1>1, SizeAssumption DEF TypeInv, HandInv, settings
<1>4. PlannerInv'
  <2>1. seen' \subseteq Keys
    <3>1. e.path \in Path
      BY EntryFacts DEF TypeInv, SettingsInv
    <3>2. seen' = seen \/ seen' = seen \cup {Key[e.path]}
      BY DEF Skip, SkipByPrompt
    <3> QED
      BY <3>1, <3>2 DEF TypeInv, PlannerInv, Keys
  <2>2. /\ reserved' = reserved
           \/ (reserved' = [reserved EXCEPT !.entries = @ + 1] /\ reserved.entries < limits.entries)
    BY DEF Skip, SkipByPrompt, Admissible
  <2>3. reserved' \in [entries : Nat, bytes : Nat] /\ reserved'.entries \in 0 .. limits.entries
        /\ reserved'.bytes \in 0 .. limits.bytes
    BY <2>2 DEF TypeInv, PlannerInv, SettingsInv
  <2> QED
    BY <1>1, <2>1, <2>3 DEF PlannerInv, TypeInv, RenamesOk, settings
<1> QED
  BY <1>2, <1>3, <1>4 DEF TypeInv

\* The plan that is taken up.
LEMMA TakeUpTypes ==
  ASSUME NEW e \in archive, archive \subseteq Entry, NEW i \in 1 .. ArchiveSize,
         NEW d \in DecisionRec, TakeUp(e, i, d)
  PROVE  /\ pc' \in Writing /\ plan' \in PlanRec /\ plan'.entry = e /\ plan'.of = i
         /\ plan'.dest = d.dest /\ plan'.replace = d.replace
         /\ pc' \in {"clear", "remove"} => d.replace
         /\ pc' = "open" => e.kind = "file"
  BY DEF TakeUp, PlanRec, DecisionRec, Writing

\* Plan with its decision named.
PlanStep(e, d) ==
  /\ d \in Decisions(e) /\ d.do = "write" /\ WritePathsOk(e, d.dest) /\ WithinBytes(e)
  /\ pc = "read" /\ count < ArchiveSize /\ ~ Skips(e) /\ Admissible(e)
  /\ \/ /\ backend.planning = "all" /\ pc' = pc /\ plan' = plan
        /\ decided' = Decide(e.path, Decision(e, d))
        /\ queue' = Append(queue, [entry |-> e, of |-> count + 1])
     \/ backend.planning # "all" /\ TakeUp(e, count + 1, Decision(e, d)) /\ UNCHANGED batch
  /\ renames' = [renames EXCEPT ![e.path] = d.index]
  /\ required' = required \cup {Key[p] : p \in Required(e, d.dest)}
  /\ symlinks' = IF e.kind = "symlink" THEN symlinks \cup {Key[d.dest]} ELSE symlinks \ {Key[d.dest]}
  /\ consent' = IF policy \in {"replace", "ask"} /\ d.replace THEN consent \cup {d.dest} ELSE consent
  /\ count' = count + 1
  /\ seen' = IF policy = "replace" THEN seen ELSE seen \cup {Key[e.path]}
  /\ reserved' = [entries |-> reserved.entries + 1, bytes |-> reserved.bytes + Bytes(e)]
  /\ UNCHANGED <<settings, disk, deferred, written>>

\* Plan is a PlanStep.
LEMMA PlanIsStep ==
  ASSUME NEW e, Plan(e)
  PROVE  \E d : PlanStep(e, d)
  BY DEF Plan, PlanStep

\* What Plan knows of the decision it records.
LEMMA PlanFacts ==
  ASSUME TypeInv, NEW e \in archive, NEW d, PlanStep(e, d)
  PROVE  /\ e \in Entry /\ e.path \in Path /\ d.dest \in Path /\ d.replace \in BOOLEAN
         /\ d.index \in 1 .. Len(Candidate[e.path]) + 1
         /\ d.replace => policy \in {"replace", "ask"}
         /\ Decision(e, d) \in DecisionRec /\ Decision(e, d).dest = d.dest
             /\ Decision(e, d).replace = d.replace
         /\ count + 1 \in 1 .. ArchiveSize
         /\ Required(e, d.dest) \subseteq Path
<1>1. e \in Entry /\ policy \in Policies /\ RenamesOk
  BY DEF TypeInv, SettingsInv, PlannerInv
<1>2. e.path \in Path /\ (e.kind = "dir" => e.mode \in Modes)
      /\ (e.kind \in {"symlink", "hardlink"} => e.target \in Path)
  BY <1>1, EntryFacts
<1>3. /\ d.dest \in Path /\ d.replace \in BOOLEAN
      /\ d.index \in 1 .. Len(Candidate[e.path]) + 1
      /\ d.replace => policy \in {"replace", "ask"}
  BY <1>1, DecisionFacts DEF PlanStep
<1>4. Decision(e, d) \in DecisionRec /\ Decision(e, d).dest = d.dest
      /\ Decision(e, d).replace = d.replace
  BY <1>2, <1>3 DEF Decision, DecisionRec, Modes
<1>5. count + 1 \in 1 .. ArchiveSize
  BY SizeAssumption DEF PlanStep, TypeInv, HandInv
<1>6. Required(e, d.dest) \subseteq Path
  BY <1>2, <1>3, PathAssumption DEF Required
<1> QED
  BY <1>1, <1>2, <1>3, <1>4, <1>5, <1>6

\* Plan keeps the types.
LEMMA PlanTypes ==
  ASSUME TypeInv, NEW e \in archive, NEW d, PlanStep(e, d)
  PROVE  TypeInv'
<1>0. /\ e \in Entry /\ e.path \in Path /\ d.dest \in Path /\ d.replace \in BOOLEAN
      /\ d.index \in 1 .. Len(Candidate[e.path]) + 1
      /\ Decision(e, d) \in DecisionRec /\ count + 1 \in 1 .. ArchiveSize
      /\ Required(e, d.dest) \subseteq Path
  BY PlanFacts
<1>1. SettingsInv' /\ disk' \in [Path -> Node]
  BY DEF PlanStep, settings, TypeInv, SettingsInv
<1>2. HandInv'
  <2>1. archive' = archive /\ archive \subseteq Entry /\ count' \in 0 .. ArchiveSize
    BY <1>0 DEF PlanStep, settings, TypeInv, SettingsInv
  <2>2. CASE pc' = pc /\ plan' = plan
    BY <2>1, <2>2 DEF TypeInv, HandInv
  <2>3. CASE TakeUp(e, count + 1, Decision(e, d))
    <3>1. pc' \in Writing /\ plan' \in PlanRec /\ plan'.entry = e
      BY <1>0, <2>1, <2>3, TakeUpTypes
    <3>2. e.kind # "special"
      BY DEF PlanStep, Skips, Admissible
    <3> QED
      BY <2>1, <3>1, <3>2 DEF HandInv
  <2> QED
    BY <2>2, <2>3 DEF PlanStep
<1>3. BatchInv'
  <2>1. backend' = backend /\ archive' = archive
    BY DEF PlanStep, settings
  <2>2. CASE UNCHANGED batch
    BY <2>1, <2>2 DEF TypeInv, BatchInv, batch
  <2>3. CASE backend.planning = "all" /\ decided' = Decide(e.path, Decision(e, d))
             /\ queue' = Append(queue, [entry |-> e, of |-> count + 1])
    <3>1. DOMAIN decided' = DOMAIN decided \cup {e.path}
      BY <2>3 DEF Decide
    <3>2. \A p \in DOMAIN decided' : decided'[p] = Decision(e, d)
          \/ (p \in DOMAIN decided /\ decided'[p] = decided[p])
      BY <2>3 DEF Decide
    <3>3. [entry |-> e, of |-> count + 1] \in QueueRec
      BY <1>0 DEF QueueRec
    <3>4. queue \in Seq(QueueRec)
      BY DEF TypeInv, BatchInv
    <3>5. queue' \in Seq(QueueRec) /\ Len(queue') = Len(queue) + 1
      BY <2>3, <3>3, <3>4
    <3>6. ASSUME NEW i \in 1 .. Len(queue') PROVE queue'[i].entry = e
                 \/ (i \in 1 .. Len(queue) /\ queue'[i] = queue[i])
      BY <2>3, <3>3, <3>4
    <3>7. \A i \in 1 .. Len(queue') : queue'[i].entry \in archive
          /\ queue'[i].entry.path \in DOMAIN decided'
      BY <3>6, <3>1 DEF TypeInv, BatchInv
    <3>8. DOMAIN decided' \subseteq Path
          /\ \A p \in DOMAIN decided' : decided'[p] \in DecisionRec
      BY <3>1, <3>2, <1>0 DEF TypeInv, BatchInv
    <3> QED
      BY <2>1, <2>3, <3>5, <3>7, <3>8 DEF BatchInv
  <2> QED
    BY <2>2, <2>3 DEF PlanStep
<1>4. PlannerInv'
  <2>1. seen' \subseteq Keys /\ symlinks' \subseteq Keys
    BY <1>0 DEF PlanStep, TypeInv, PlannerInv, Keys
  <2>2. required' \subseteq Keys
    BY <1>0 DEF PlanStep, TypeInv, PlannerInv, Keys
  <2>3. renames' \in [Path -> Nat]
    BY <1>0 DEF PlanStep, TypeInv, PlannerInv, RenamesOk
  <2>4. \A p \in Path : renames'[p] \in 1 .. Len(Candidate[p]) + 1
    BY <1>0 DEF PlanStep, TypeInv, PlannerInv, RenamesOk
  <2>5. limits' = limits
    BY DEF PlanStep, settings
  <2>6. Bytes(e) \in {0, 1}
    BY DEF Bytes
  <2>7. reserved \in [entries : Nat, bytes : Nat] /\ limits.entries \in Nat
        /\ limits.bytes \in Nat
        /\ reserved.entries < limits.entries /\ reserved.bytes + Bytes(e) =< limits.bytes
    BY DEF PlanStep, Admissible, WithinBytes, TypeInv, PlannerInv, SettingsInv
  <2>8. /\ reserved' \in [entries : Nat, bytes : Nat]
        /\ reserved'.entries = reserved.entries + 1
        /\ reserved'.bytes = reserved.bytes + Bytes(e)
    BY <2>6, <2>7 DEF PlanStep
  <2>9. reserved'.entries \in 0 .. limits.entries /\ reserved'.bytes \in 0 .. limits.bytes
    BY <2>6, <2>7, <2>8
  <2> QED
    BY <2>1, <2>2, <2>3, <2>4, <2>5, <2>8, <2>9 DEF PlannerInv, RenamesOk
<1>5. DeferredInv'
  <2>1. UNCHANGED <<links, todo, dirs, stamped, backend>> /\ pc = "read"
    BY DEF PlanStep, settings, deferred
  <2> QED
    BY <2>1 DEF TypeInv, DeferredInv, Reading
<1>6. WrittenInv'
  BY <1>0 DEF PlanStep, TypeInv, WrittenInv
<1> QED
  BY <1>1, <1>2, <1>3, <1>4, <1>5, <1>6 DEF TypeInv

\* TakeNext keeps the types.
LEMMA TakeNextTypes ==
  ASSUME TypeInv, TakeNext
  PROVE  TypeInv'
<1> DEFINE q == Head(queue)
<1>1. queue \in Seq(QueueRec) /\ queue # <<>> /\ archive \subseteq Entry
      /\ 1 \in 1 .. Len(queue) /\ q = queue[1]
  BY DEF TypeInv, BatchInv, SettingsInv, TakeNext
<1>2. q \in QueueRec /\ q.entry \in archive /\ q.entry.path \in DOMAIN decided
  BY <1>1 DEF TypeInv, BatchInv
<1>3. q.of \in 1 .. ArchiveSize /\ decided[q.entry.path] \in DecisionRec
  BY <1>2 DEF TypeInv, BatchInv, QueueRec
<1>4. TakeUp(q.entry, q.of, decided[q.entry.path])
  BY DEF TakeNext
<1>5. pc' \in Writing /\ plan' \in PlanRec /\ plan'.entry = q.entry
  BY <1>1, <1>2, <1>3, <1>4, TakeUpTypes
<1>6. UNCHANGED <<settings, disk, count, decided, planner, deferred, written, consent>>
      /\ queue' = Tail(queue)
      /\ pc \in Reading
  BY DEF TakeNext, Reading
<1> HIDE DEF q
<1>7. SettingsInv' /\ disk' \in [Path -> Node] /\ PlannerInv' /\ WrittenInv'
  BY <1>6 DEF TypeInv, settings, planner, SettingsInv, PlannerInv, RenamesOk, WrittenInv
<1>8. HandInv'
  <2>1. backend.planning = "all" /\ backend \in Backend /\ q.entry.kind \in backend.holds
    BY <1>1, <1>2 DEF TypeInv, BatchInv, SettingsInv
  <2>2. q.entry.kind # "special"
    BY <2>1, BackendFacts DEF BackendOk
  <2> QED
    BY <1>2, <1>5, <1>6, <2>2 DEF TypeInv, HandInv, settings
<1>9. DeferredInv'
  BY <1>5, <1>6 DEF TypeInv, DeferredInv, settings, deferred
<1>10. BatchInv'
  <2>1. queue' \in Seq(QueueRec) /\ \A i \in 1 .. Len(queue') : i + 1 \in 1 .. Len(queue)
        /\ queue'[i] = queue[i + 1]
    BY <1>1, <1>6
  <2>2. backend.planning = "all"
    BY <1>1 DEF TypeInv, BatchInv
  <2> QED
    BY <2>1, <2>2, <1>6 DEF TypeInv, BatchInv, settings
<1> QED
  BY <1>7, <1>8, <1>9, <1>10 DEF TypeInv

\* Place as three cases: a link put off, a node put in place, a failure.
PlanNode == CASE plan.entry.kind = "file" -> File(plan.of)
              [] plan.entry.kind = "dir" -> Dir
              [] OTHER -> Link(plan.entry.target)
Placed ==
  /\ pc = "place" /\ plan' = NoPlan
  /\ UNCHANGED <<settings, count, batch, planner, todo, stamped, consent>>
PutOff ==
  /\ Placed /\ plan.entry.kind = "hardlink" /\ pc' = Ready
  /\ links' = Append(links, [path |-> plan.entry.path, source |-> plan.entry.target, dest |-> plan.dest,
                             replace |-> plan.replace])
  /\ UNCHANGED <<disk, written, dirs>>
PutNode ==
  /\ Placed /\ plan.entry.kind # "hardlink" /\ pc' = Ready
  /\ Clear(plan.entry, plan.dest) /\ ParentsOk(plan.dest)
  /\ disk' = [WithParents(plan.dest) EXCEPT ![plan.dest] = PlanNode]
  /\ written' = written \cup {[path |-> plan.entry.path, dest |-> plan.dest, node |-> PlanNode]}
  /\ dirs' = IF plan.entry.kind = "dir" /\ backend.stamping # "none"
             THEN Append(dirs, [path |-> plan.dest, mode |-> plan.mode]) ELSE dirs
  /\ UNCHANGED links
PutNothing == Placed /\ pc' = "failed" /\ UNCHANGED <<disk, links, written, dirs>>

\* Place is one of them.
LEMMA PlaceCases == Place => PutOff \/ PutNode \/ PutNothing
  BY DEF Place, PutOff, PutNode, PutNothing, Placed, PlanNode, Fail

\* After an entry the next one is read or taken from the queue.
LEMMA ReadyIsReading == Ready \in Reading
  BY DEF Ready, Reading

\* What is known of the plan in hand.
LEMMA HandFacts ==
  ASSUME TypeInv, pc \in Writing
  PROVE  /\ plan \in PlanRec /\ plan.entry \in archive /\ plan.entry \in Entry
         /\ plan.dest \in Path /\ plan.replace \in BOOLEAN /\ plan.mode \in Modes
             /\ plan.of \in 1 .. ArchiveSize
         /\ plan.entry.kind \in backend.holds /\ plan.entry.kind \in Kinds \ {"special"}
             /\ plan.entry.path \in Path
         /\ plan.entry.kind \in {"symlink", "hardlink"} => plan.entry.target \in Path
<1>1. plan \in PlanRec /\ plan.entry \in archive /\ plan.entry \in Entry
      /\ plan.entry.kind \in backend.holds
      /\ plan.entry.kind # "special"
  BY DEF TypeInv, HandInv, SettingsInv
<1>2. plan.entry.kind \in Kinds /\ plan.entry.path \in Path
      /\ (plan.entry.kind \in {"symlink", "hardlink"} => plan.entry.target \in Path)
  BY <1>1, EntryFacts
<1>3. plan.dest \in Path /\ plan.replace \in BOOLEAN /\ plan.mode \in Modes
      /\ plan.of \in 1 .. ArchiveSize
  BY <1>1 DEF PlanRec
<1> QED
  BY <1>1, <1>2, <1>3

\* Place keeps the types.
LEMMA PlaceTypes ==
  ASSUME TypeInv, Place
  PROVE  TypeInv'
<1>0. pc \in Writing /\ Placed
  BY PlaceCases DEF PutOff, PutNode, PutNothing, Placed, Writing
<1>1. /\ plan \in PlanRec /\ plan.entry \in archive /\ plan.entry \in Entry
      /\ plan.dest \in Path /\ plan.replace \in BOOLEAN /\ plan.mode \in Modes
          /\ plan.of \in 1 .. ArchiveSize
      /\ plan.entry.kind \in Kinds \ {"special"} /\ plan.entry.path \in Path
      /\ plan.entry.kind \in {"symlink", "hardlink"} => plan.entry.target \in Path
  BY <1>0, HandFacts
<1>2. pc' \in Reading \/ pc' = "failed"
  BY PlaceCases, ReadyIsReading DEF PutOff, PutNode, PutNothing
<1>3. SettingsInv' /\ PlannerInv' /\ BatchInv'
  BY <1>0 DEF Placed, settings, batch, planner, TypeInv, SettingsInv, BatchInv, PlannerInv,
     RenamesOk
<1>4. HandInv'
  BY <1>0, <1>2 DEF Placed, settings, TypeInv, HandInv, Reading, Writing, Ended
<1>5. todo = <<>> /\ todo' = <<>> /\ stamped' = stamped /\ consent' = consent
      /\ backend' = backend
  BY <1>0 DEF Placed, TypeInv, DeferredInv, settings
<1>6. CASE PutOff
  <2>1. [path |-> plan.entry.path, source |-> plan.entry.target, dest |-> plan.dest, replace |-> plan.replace] \in LinkRec
    BY <1>1, <1>6 DEF PutOff, LinkRec
  <2>2. links' \in Seq(LinkRec)
    BY <2>1, <1>6 DEF PutOff, TypeInv, DeferredInv
  <2>3. DeferredInv'
    BY <2>2, <1>5, <1>6 DEF PutOff, TypeInv, DeferredInv
  <2>4. WrittenInv' /\ disk' \in [Path -> Node]
    BY <1>5, <1>6 DEF PutOff, TypeInv, WrittenInv
  <2> QED
    BY <2>3, <2>4, <1>3, <1>4 DEF TypeInv
<1>7. CASE PutNode
  <2>1. PlanNode \in Node /\ PlanNode.kind # "absent"
    <3>1. plan.entry.kind \in {"file", "dir", "symlink"}
      BY <1>1, <1>7, <1>0 DEF PutNode, Placed, Kinds
    <3>2. CASE plan.entry.kind = "file"
      BY <3>2, <1>1, NodeFacts DEF PlanNode
    <3>3. CASE plan.entry.kind = "dir"
      BY <3>3, <1>1, NodeFacts DEF PlanNode
    <3>4. CASE plan.entry.kind = "symlink"
      BY <3>4, <1>1, NodeFacts DEF PlanNode
    <3> QED
      BY <3>1, <3>2, <3>3, <3>4
  <2>2. WithParents(plan.dest) \in [Path -> Node]
    BY <1>1, ParentsEffect DEF TypeInv
  <2>3. disk' \in [Path -> Node]
    BY <2>1, <2>2, <1>7 DEF PutNode
  <2>4. WrittenInv'
    <3>1. [path |-> plan.entry.path, dest |-> plan.dest, node |-> PlanNode] \in WrittenRec
      BY <1>1, <2>1 DEF WrittenRec
    <3> QED
      BY <3>1, <2>1, <1>5, <1>7 DEF PutNode, TypeInv, WrittenInv
  <2>5. DeferredInv'
    <3>1. [path |-> plan.dest, mode |-> plan.mode] \in DirRec
      BY <1>1 DEF DirRec
    <3>2. dirs' \in Seq(DirRec) /\ (backend.stamping = "none" => dirs' = <<>>)
      BY <3>1, <1>7 DEF PutNode, TypeInv, DeferredInv
    <3> QED
      BY <3>2, <1>5, <1>7 DEF PutNode, TypeInv, DeferredInv
  <2> QED
    BY <2>3, <2>4, <2>5, <1>3, <1>4 DEF TypeInv
<1>8. CASE PutNothing
  <2>1. WrittenInv' /\ DeferredInv' /\ disk' \in [Path -> Node]
    BY <1>5, <1>8 DEF PutNothing, TypeInv, WrittenInv, DeferredInv
  <2> QED
    BY <2>1, <1>3, <1>4 DEF TypeInv
<1> QED
  BY <1>6, <1>7, <1>8, PlaceCases

\* MakeLink as two cases: the link is made, or the call fails.
LinkPhase == pc = "link" /\ todo # <<>>
LinkRest == UNCHANGED <<settings, count, plan, batch, planner, links, dirs, stamped, consent>>
Made(l) ==
  /\ LinkPhase /\ LinkRest /\ Linkable(l) /\ disk' = Linked(l)
  /\ written' = written \cup {[path |-> l.path, dest |-> l.dest, node |-> Cleared(l)[l.source]]}
  /\ todo' = Tail(todo) /\ UNCHANGED pc
NotMade(l) ==
  /\ LinkPhase /\ LinkRest /\ disk' = Cleared(l) /\ pc' = "failed"
      /\ UNCHANGED <<written, todo>>

\* MakeLink is one of them.
LEMMA MakeLinkCases == MakeLink => Made(links[Head(todo)]) \/ NotMade(links[Head(todo)])
  BY DEF MakeLink, Made, NotMade, LinkPhase, LinkRest

\* The next deferred link is one of the links.
LEMMA HeadLink ==
  ASSUME TypeInv, LinkPhase
  PROVE  /\ Head(todo) \in 1 .. Len(links) /\ links[Head(todo)] \in LinkRec
         /\ DOMAIN links = 1 .. Len(links)
         /\ Len(links) \in Nat
         /\ links[Head(todo)].path \in Path /\ links[Head(todo)].dest \in Path
             /\ links[Head(todo)].source \in Path
         /\ links[Head(todo)].replace \in BOOLEAN
<1>1. links \in Seq(LinkRec) /\ todo \in Seq(1 .. Len(links)) /\ todo # <<>>
  BY DEF TypeInv, DeferredInv, LinkPhase
<1>2. Head(todo) \in 1 .. Len(links)
  BY <1>1
<1>3. links[Head(todo)] \in LinkRec /\ DOMAIN links = 1 .. Len(links) /\ Len(links) \in Nat
  BY <1>1, <1>2
<1> QED
  BY <1>2, <1>3 DEF LinkRec

\* MakeLink keeps the types.
LEMMA MakeLinkTypes ==
  ASSUME TypeInv, MakeLink
  PROVE  TypeInv'
<1> DEFINE l == links[Head(todo)]
<1>1. LinkPhase /\ LinkRest /\ (Made(l) \/ NotMade(l))
  BY MakeLinkCases DEF Made, NotMade
<1>2. l \in LinkRec /\ l.path \in Path /\ l.dest \in Path /\ l.source \in Path
  BY <1>1, HeadLink
<1> HIDE DEF l
<1>3. disk' \in [Path -> Node]
  BY <1>1, <1>2, ClearedEffect, LinkedEffect DEF TypeInv, Made, NotMade
<1>4. SettingsInv' /\ BatchInv' /\ PlannerInv'
  BY <1>1 DEF LinkRest, settings, batch, planner, TypeInv, SettingsInv, BatchInv, PlannerInv,
     RenamesOk
<1>5. pc' \in {"link", "failed"}
  BY <1>1 DEF Made, NotMade, LinkPhase
<1>6. HandInv'
  BY <1>1, <1>5 DEF LinkRest, settings, TypeInv, HandInv, Writing, Ended
<1>7. todo' \in Seq(1 .. Len(links))
  <2>1. todo \in Seq(1 .. Len(links)) /\ todo # <<>>
    BY <1>1 DEF LinkPhase, TypeInv, DeferredInv
  <2>2. Tail(todo) \in Seq(1 .. Len(links))
    BY <2>1
  <2> QED
    BY <2>1, <2>2, <1>1 DEF Made, NotMade
<1>8. DeferredInv'
  BY <1>1, <1>5, <1>7 DEF LinkRest, settings, TypeInv, DeferredInv, Writing, Reading
<1>9. WrittenInv'
  <2>1. CASE Made(l)
    <3>1. Cleared(l)[l.source] \in Node /\ Cleared(l)[l.source].kind # "absent"
      BY <2>1, <1>2, ClearedEffect DEF Made, Linkable, TypeInv
    <3>2. [path |-> l.path, dest |-> l.dest, node |-> Cleared(l)[l.source]] \in WrittenRec
      BY <3>1, <1>2 DEF WrittenRec
    <3> QED
      BY <2>1, <3>1, <3>2, <1>1 DEF Made, LinkRest, TypeInv, WrittenInv
  <2>2. CASE NotMade(l)
    BY <2>2, <1>1 DEF NotMade, LinkRest, TypeInv, WrittenInv
  <2> QED
    BY <1>1, <2>1, <2>2
<1> QED
  BY <1>3, <1>4, <1>6, <1>8, <1>9 DEF TypeInv

\* Finish keeps the types.
LEMMA FinishTypes ==
  ASSUME TypeInv, Finish
  PROVE  TypeInv'
<1>1. /\ UNCHANGED <<settings, disk, count, plan, batch, planner, links, dirs, stamped, written, consent>>
      /\ (todo' = DeferredLinkOrder(links) /\ pc' = "link") \/ (pc' = "failed" /\ todo' = todo)
  BY DEF Finish
<1>2. SettingsInv' /\ BatchInv' /\ PlannerInv' /\ WrittenInv' /\ disk' \in [Path -> Node]
  BY <1>1 DEF settings, batch, planner, TypeInv, SettingsInv, BatchInv, PlannerInv, RenamesOk,
     WrittenInv
<1>3. HandInv'
  BY <1>1 DEF settings, TypeInv, HandInv, Writing, Ended
<1>4. links \in Seq(LinkRec) /\ Len(links) \in Nat /\ DOMAIN links = 1 .. Len(links)
  BY DEF TypeInv, DeferredInv
<1>5. DeferredLinkOrder(links) \in Seq(1 .. Len(links))
  BY <1>4, OrderIsSequence
<1>6. DeferredInv'
  BY <1>1, <1>4, <1>5 DEF settings, TypeInv, DeferredInv, Writing, Reading
<1> QED
  BY <1>2, <1>3, <1>6 DEF TypeInv

\* Stamp keeps the types.
LEMMA StampTypes ==
  ASSUME TypeInv, Stamp
  PROVE  TypeInv'
<1>1. /\ UNCHANGED <<settings, disk, count, plan, batch, planner, links, todo, dirs, written, consent>>
      /\ stamped' = stamped \/ stamped' = stamped + 1
      /\ pc' \in {"link", "shut", "failed"}
  BY DEF Stamp
<1>2. SettingsInv' /\ BatchInv' /\ PlannerInv' /\ WrittenInv' /\ disk' \in [Path -> Node]
  BY <1>1 DEF settings, batch, planner, TypeInv, SettingsInv, BatchInv, PlannerInv, RenamesOk,
     WrittenInv
<1>3. HandInv'
  BY <1>1 DEF settings, TypeInv, HandInv, Writing, Ended
<1>6. DeferredInv'
  BY <1>1 DEF settings, TypeInv, DeferredInv, Writing, Reading
<1> QED
  BY <1>2, <1>3, <1>6 DEF TypeInv

\* The steps that change nothing but the disk and pc.
Plainly == Kept /\ disk' \in [Path -> Node]
    /\ (pc' \in Ended \/ pc' = pc \/ (pc \in Writing /\ pc' \in Writing))

\* The steps that do so.
LEMMA PlainSteps ==
  ASSUME TypeInv, (\E e \in archive : Refuse(e)) \/ Open \/ Copied \/ Remove \/ Return \/ Abort
  PROVE  Plainly
<1>1. CASE \E e \in archive : Refuse(e)
  BY <1>1 DEF Refuse, Plainly, Kept, Ended, TypeInv, settings, batch, planner, deferred
<1>2. CASE Open
  <2>1. plan.dest \in Path
    BY <1>2, HandFacts DEF Open, Writing
  <2> QED
    BY <1>2, <2>1, ParentsEffect DEF Open, Fail, Plainly, Kept, Ended, Writing,
       TypeInv, settings, batch, planner, deferred
<1>3. CASE Copied
  BY <1>3 DEF Copied, Plainly, Kept, Ended, Writing, TypeInv, settings, batch, planner, deferred
<1>4. CASE Remove
  <2>1. plan.dest \in Path
    BY <1>4, HandFacts DEF Remove, Writing
  <2> QED
    BY <1>4, <2>1, WithoutEffect DEF Remove, Plainly, Kept, Ended, Writing,
       TypeInv, settings, batch, planner, deferred
<1>5. CASE Return
  BY <1>5 DEF Return, Plainly, Kept, Ended, Writing, TypeInv, settings, batch, planner, deferred
<1>6. CASE Abort
  BY <1>6 DEF Abort, Fail, Plainly, Kept, Ended, Writing,
     TypeInv, settings, batch, planner, deferred
<1> QED
  BY <1>1, <1>2, <1>3, <1>4, <1>5, <1>6

\* Every step keeps the types.
LEMMA StepTypes ==
  ASSUME TypeInv, [Next]_vars
  PROVE  TypeInv'
<1>1. CASE \E e \in archive : Skip(e) \/ SkipByPrompt(e)
  BY <1>1, SkipTypes
<1>2. CASE \E e \in archive : Plan(e)
  BY <1>2, PlanIsStep, PlanTypes
<1>3. CASE TakeNext
  BY <1>3, TakeNextTypes
<1>4. CASE Place
  BY <1>4, PlaceTypes
<1>5. CASE MakeLink
  BY <1>5, MakeLinkTypes
<1>6. CASE Finish
  BY <1>6, FinishTypes
<1>7. CASE Stamp
  BY <1>7, StampTypes
<1>8. CASE (\E e \in archive : Refuse(e)) \/ Open \/ Copied \/ Remove \/ Return \/ Abort
  <2>1. Plainly
    BY <1>8, PlainSteps
  <2> QED
    BY <2>1, IdleTypes DEF Plainly
<1>9. CASE UNCHANGED vars
  <2>1. Kept /\ disk' \in [Path -> Node] /\ pc' = pc
    BY <1>9 DEF vars, Kept, settings, batch, planner, deferred, TypeInv
  <2> QED
    BY <2>1, IdleTypes
<1> QED
  BY <1>1, <1>2, <1>3, <1>4, <1>5, <1>6, <1>7, <1>8, <1>9 DEF Next

-----------------------------------------------------------------------------
(* Consent.                                                                *)

\* May replace: only where the caller consents.
MayReplace(r, p) == r => p \in consent /\ policy \in {"replace", "ask"}

\* What was at p is there unless the caller consented.
KeptAt(p) == before[p] # Absent /\ ~ Touchable(p) => disk[p] = before[p]

(* Consent travels with every plan: in hand, decided by 7z, or put off as a   *)
(* link.  The last conjunct needs it: without consent nothing is cleared.      *)
ConsentInv ==
  /\ \A p \in Path : KeptAt(p)
  /\ pc \in Writing => MayReplace(plan.replace, plan.dest)
  /\ pc \in {"clear", "remove"} => plan.replace
  /\ \A p \in DOMAIN decided : MayReplace(decided[p].replace, decided[p].dest)
  /\ \A i \in 1 .. Len(links) : MayReplace(links[i].replace, links[i].dest)
  /\ backend.planning = "all" /\ pc \in {"read", "refused"} => disk = before
  /\ policy \in {"refuse", "rename"} => \A x \in written : disk[x.dest] = x.node

\* A step that changes the disk only where it may.
Careful ==
  \A q \in Path :
    \/ disk'[q] = disk[q]
    \/ disk[q] = Absent
    \/ Touchable(q) /\ policy \in {"replace", "ask"}

\* Such a step keeps what was there and what was written.
LEMMA CarefulKeeps ==
  ASSUME TypeInv, ConsentInv, Careful, UNCHANGED <<before, policy>>, consent \subseteq consent'
  PROVE  /\ \A p \in Path : KeptAt(p)'
         /\ policy \in {"refuse", "rename"} => \A x \in written : disk'[x.dest] = x.node
<1>1. ASSUME NEW p \in Path PROVE KeptAt(p)'
  <2>1. Touchable(p) => Touchable(p)'
    BY DEF Touchable
  <2>2. KeptAt(p)
    BY DEF ConsentInv
  <2>3. disk'[p] = disk[p] \/ disk[p] = Absent \/ Touchable(p)
    BY DEF Careful
  <2> QED
    BY <2>1, <2>2, <2>3 DEF KeptAt
<1>2. ASSUME policy \in {"refuse", "rename"}, NEW x \in written PROVE disk'[x.dest] = x.node
  <2>1. x.dest \in Path /\ disk[x.dest] = x.node /\ x.node.kind # "absent"
    BY <1>2 DEF TypeInv, WrittenInv, WrittenRec, ConsentInv
  <2>2. disk'[x.dest] = disk[x.dest] \/ disk[x.dest] = Absent
    BY <2>1, <1>2 DEF Careful
  <2> QED
    BY <2>1, <2>2, NodeFacts
<1> QED
  BY <1>1, <1>2

\* The initial states satisfy ConsentInv.
LEMMA InitConsent == Init => ConsentInv
  BY DEF Init, ConsentInv, KeptAt, Writing

\* Steps that leave consent, plans, links and what was written alone.
LEMMA ConsentStays ==
  ASSUME TypeInv, ConsentInv, Careful,
         UNCHANGED <<before, policy, backend, decided, links, written, consent, plan>>,
         pc' \in Ended \/ pc' = pc \/ (pc \in Writing /\ pc' \in Writing),
         pc' \in {"clear", "remove"} => plan.replace,
         backend.planning = "all" /\ pc' \in {"read", "refused"} => disk' = disk
             /\ pc \in {"read", "refused"}
  PROVE  ConsentInv'
<1>1. /\ \A p \in Path : KeptAt(p)'
      /\ policy \in {"refuse", "rename"} => \A x \in written : disk'[x.dest] = x.node
  BY CarefulKeeps
<1>2. pc' \in Writing => pc \in Writing
  BY DEF Ended, Writing
<1> QED
  BY <1>1, <1>2 DEF ConsentInv, MayReplace

\* Steps that plan and place nothing.
LEMMA QuietConsent ==
  ASSUME TypeInv, ConsentInv,
         \/ \E e \in archive : Skip(e) \/ SkipByPrompt(e) \/ Refuse(e)
         \/ Open \/ Copied \/ Remove \/ Return \/ Abort \/ Finish \/ Stamp \/ UNCHANGED vars
  PROVE  ConsentInv'
<1>1. CASE \E e \in archive : Skip(e) \/ SkipByPrompt(e) \/ Refuse(e)
  <2>1. Careful
    BY <1>1 DEF Skip, SkipByPrompt, Refuse, Careful
  <2> QED
    BY <1>1, <2>1, ConsentStays DEF Skip, SkipByPrompt, Refuse, settings, batch, deferred, Ended
<1>2. CASE Open
  <2>1. plan.dest \in Path
    BY <1>2, HandFacts DEF Open, Writing
  <2>2. Careful
    BY <1>2, <2>1, ParentsEffect DEF Open, Fail, Careful, TypeInv
  <2> QED
    BY <1>2, <2>2, ConsentStays DEF Open, Fail, settings, batch, deferred, Ended, Writing
<1>3. CASE Copied
  <2>1. Careful
    BY <1>3 DEF Copied, Careful
  <2> QED
    BY <1>3, <2>1, ConsentStays DEF Copied, settings, batch, deferred, Ended, Writing
<1>4. CASE Remove
  <2>1. plan.dest \in Path /\ plan.dest \in consent /\ policy \in {"replace", "ask"}
    BY <1>4, HandFacts DEF Remove, Writing, ConsentInv, MayReplace
  <2>2. \A q \in Path : disk'[q] = disk[q] \/ q = plan.dest \/ plan.dest \in Above[q]
    BY <1>4, <2>1, WithoutEffect DEF Remove, TypeInv
  <2>3. Careful
    BY <2>1, <2>2 DEF Careful, Touchable
  <2> QED
    BY <1>4, <2>3, ConsentStays DEF Remove, settings, batch, deferred, Ended, Writing
<1>5. CASE Return \/ Abort \/ Finish \/ Stamp \/ UNCHANGED vars
  <2>1. disk' = disk
    BY <1>5 DEF Return, Abort, Fail, Finish, Stamp, vars
  <2>2. Careful
    BY <2>1 DEF Careful
  <2>3. UNCHANGED <<before, policy, backend, decided, links, written, consent, plan>>
    BY <1>5 DEF Return, Abort, Fail, Finish, Stamp, vars, settings, batch, deferred
  <2>4. pc' \in Ended \/ pc' = pc
    BY <1>5 DEF Return, Abort, Fail, Finish, Stamp, vars, Ended
  <2>5. pc' # pc => pc' \notin {"read", "refused", "clear", "remove"}
    BY <1>5 DEF Return, Abort, Fail, Finish, Stamp, vars
  <2>6. pc' \in {"clear", "remove"} => plan.replace
    BY <2>5 DEF ConsentInv
  <2> QED
    BY <2>1, <2>2, <2>3, <2>4, <2>5, <2>6, ConsentStays
<1> QED
  BY <1>1, <1>2, <1>3, <1>4, <1>5

\* Plan records the consent with the decision to replace.
LEMMA PlanConsent ==
  ASSUME TypeInv, ConsentInv, NEW e \in archive, NEW d, PlanStep(e, d)
  PROVE  ConsentInv'
<1>0. /\ d.dest \in Path /\ d.replace \in BOOLEAN
      /\ (d.replace => policy \in {"replace", "ask"})
      /\ Decision(e, d) \in DecisionRec /\ Decision(e, d).dest = d.dest
          /\ Decision(e, d).replace = d.replace
      /\ count + 1 \in 1 .. ArchiveSize
  BY PlanFacts
<1>1. UNCHANGED <<before, policy, backend, disk, links, written>> /\ pc = "read"
      /\ archive \subseteq Entry
  BY DEF PlanStep, settings, deferred, TypeInv, SettingsInv
<1>2. consent \subseteq consent' /\ (d.replace => d.dest \in consent')
  BY <1>0 DEF PlanStep
<1>3. Careful
  BY <1>1 DEF Careful
<1>4. /\ \A p \in Path : KeptAt(p)'
      /\ policy \in {"refuse", "rename"} => \A x \in written : disk'[x.dest] = x.node
  BY <1>1, <1>2, <1>3, CarefulKeeps
<1>5. pc' \in Writing => MayReplace(plan.replace, plan.dest)'
      /\ (pc' \in {"clear", "remove"} => plan'.replace)
  <2>1. CASE pc' = pc
    BY <2>1, <1>1 DEF Writing
  <2>2. CASE TakeUp(e, count + 1, Decision(e, d))
    <3>1. plan'.replace = d.replace /\ plan'.dest = d.dest
          /\ (pc' \in {"clear", "remove"} => d.replace)
      BY <1>0, <1>1, <2>2, TakeUpTypes
    <3> QED
      BY <3>1, <1>0, <1>1, <1>2 DEF MayReplace
  <2> QED
    BY <2>1, <2>2 DEF PlanStep
<1>6. \A p \in DOMAIN decided' : MayReplace(decided[p].replace, decided[p].dest)'
  <2>1. CASE UNCHANGED batch
    BY <2>1, <1>1, <1>2 DEF batch, ConsentInv, MayReplace
  <2>2. CASE decided' = Decide(e.path, Decision(e, d))
    <3>1. \A p \in DOMAIN decided' : decided'[p] = Decision(e, d)
          \/ (p \in DOMAIN decided /\ decided'[p] = decided[p])
      BY <2>2 DEF Decide
    <3> QED
      BY <3>1, <1>0, <1>1, <1>2 DEF ConsentInv, MayReplace
  <2> QED
    BY <2>1, <2>2 DEF PlanStep
<1>7. \A i \in 1 .. Len(links') : MayReplace(links[i].replace, links[i].dest)'
  BY <1>1, <1>2 DEF ConsentInv, MayReplace
<1>8. disk = before \/ backend.planning # "all"
  BY <1>1 DEF ConsentInv
<1>9. pc' \in {"clear", "remove"} => pc' \in Writing
  BY DEF Writing
<1> QED
  BY <1>1, <1>4, <1>5, <1>6, <1>7, <1>8, <1>9 DEF ConsentInv

\* TakeNext takes a decision with its consent.
LEMMA TakeNextConsent ==
  ASSUME TypeInv, ConsentInv, TakeNext
  PROVE  ConsentInv'
<1> DEFINE q == Head(queue)
           d == decided[q.entry.path]
<1>1. queue \in Seq(QueueRec) /\ queue # <<>> /\ archive \subseteq Entry
      /\ 1 \in 1 .. Len(queue) /\ q = queue[1]
  BY DEF TypeInv, BatchInv, SettingsInv, TakeNext
<1>2. q \in QueueRec /\ q.entry \in archive /\ q.entry.path \in DOMAIN decided
  BY <1>1 DEF TypeInv, BatchInv
<1>3. q.of \in 1 .. ArchiveSize /\ d \in DecisionRec
  BY <1>2 DEF TypeInv, BatchInv, QueueRec
<1>4. TakeUp(q.entry, q.of, d)
  BY DEF TakeNext
<1>5. pc' \in Writing /\ plan'.dest = d.dest /\ plan'.replace = d.replace
      /\ (pc' \in {"clear", "remove"} => d.replace)
  BY <1>1, <1>2, <1>3, <1>4, TakeUpTypes
<1>6. UNCHANGED <<before, policy, backend, disk, decided, links, written, consent>>
  BY DEF TakeNext, settings, deferred
<1>7. MayReplace(d.replace, d.dest)
  BY <1>2 DEF ConsentInv
<1> HIDE DEF d
<1> QED
  BY <1>5, <1>6, <1>7 DEF ConsentInv, MayReplace, Writing, KeptAt, Touchable

\* Place puts a node only where Clear finds nothing, or a directory.
LEMMA PlaceConsent ==
  ASSUME TypeInv, ConsentInv, Place
  PROVE  ConsentInv'
<1>0. pc \in Writing /\ Placed
  BY PlaceCases DEF PutOff, PutNode, PutNothing, Placed, Writing
<1>1. plan.dest \in Path /\ plan.replace \in BOOLEAN
  BY <1>0, HandFacts
<1>2. UNCHANGED <<before, policy, backend, decided, consent>>
  BY <1>0 DEF Placed, settings, batch
<1>3. pc' \in {"write", "failed"} \/ (pc' = "read" /\ backend.planning # "all")
  BY PlaceCases DEF PutOff, PutNode, PutNothing, Ready
<1>4. MayReplace(plan.replace, plan.dest)
  BY <1>0 DEF ConsentInv
<1>5. CASE PutOff \/ PutNothing
  <2>1. disk' = disk /\ written' = written
    BY <1>5 DEF PutOff, PutNothing
  <2>2. \A p \in Path : KeptAt(p)'
    BY <2>1, <1>2 DEF ConsentInv, KeptAt, Touchable
  <2>3. \A i \in 1 .. Len(links') : MayReplace(links'[i].replace, links'[i].dest)
    <3>1. CASE links' = links
      BY <3>1 DEF ConsentInv
    <3>2. CASE PutOff
      <4> DEFINE l == [path |-> plan.entry.path, source |-> plan.entry.target, dest |-> plan.dest,
                       replace |-> plan.replace]
      <4>1. links' = Append(links, l) /\ l.replace = plan.replace /\ l.dest = plan.dest
        BY <3>2 DEF PutOff
      <4>2. links \in Seq(LinkRec)
        BY DEF TypeInv, DeferredInv
      <4> HIDE DEF l
      <4>3. \A i \in 1 .. Len(links') : links'[i] = l
            \/ (i \in 1 .. Len(links) /\ links'[i] = links[i])
        BY <4>1, <4>2
      <4> QED
        BY <4>1, <4>3, <1>4 DEF ConsentInv
    <3> QED
      BY <3>1, <3>2, <1>5 DEF PutNothing
  <2> QED
    BY <1>2, <1>3, <2>1, <2>2, <2>3 DEF ConsentInv, MayReplace, Writing
<1>6. CASE PutNode
  <2>1. \A q \in Path \ {plan.dest} : disk'[q] = disk[q] \/ disk[q] = Absent
    BY <1>1, <1>6, ParentsEffect DEF PutNode, TypeInv
  <2>2. disk'[plan.dest] = PlanNode
    BY <1>1, <1>6, ParentsEffect DEF PutNode, TypeInv
  <2>3. disk[plan.dest] \in Node
    BY <1>1 DEF TypeInv
  <2>4. disk[plan.dest] = Absent \/ (disk[plan.dest] = Dir /\ PlanNode = Dir)
    BY <1>6, <2>3, NodeFacts DEF PutNode, Clear, Is, PlanNode
  <2>5. Careful
    BY <2>1, <2>2, <2>4 DEF Careful
  <2>6. /\ \A p \in Path : KeptAt(p)'
        /\ policy \in {"refuse", "rename"} => \A x \in written : disk'[x.dest] = x.node
    BY <2>5, <1>2, CarefulKeeps
  <2>7. policy \in {"refuse", "rename"} => \A x \in written' : disk'[x.dest] = x.node
    BY <2>2, <2>6, <1>6 DEF PutNode
  <2>8. links' = links
    BY <1>6 DEF PutNode
  <2> QED
    BY <1>2, <1>3, <2>6, <2>7, <2>8 DEF ConsentInv, MayReplace, Writing
<1> QED
  BY <1>5, <1>6, PlaceCases

\* A deferred link clears its destination only with consent.
LEMMA MakeLinkConsent ==
  ASSUME TypeInv, ConsentInv, MakeLink
  PROVE  ConsentInv'
<1> DEFINE l == links[Head(todo)]
<1>1. LinkPhase /\ LinkRest /\ (Made(l) \/ NotMade(l))
  BY MakeLinkCases DEF Made, NotMade
<1>2. l \in LinkRec /\ l.path \in Path /\ l.dest \in Path /\ l.source \in Path
      /\ MayReplace(l.replace, l.dest)
  BY <1>1, HeadLink DEF ConsentInv
<1> HIDE DEF l
<1>3. UNCHANGED <<before, policy, backend, decided, links, consent, plan>>
      /\ pc' \in {"link", "failed"}
  BY <1>1 DEF LinkRest, Made, NotMade, LinkPhase, settings, batch
<1>4. \A q \in Path : Cleared(l)[q] = disk[q] \/ (Touchable(q) /\ policy \in {"replace", "ask"})
  BY <1>2, ClearedEffect DEF TypeInv, MayReplace, Touchable
<1>5. CASE NotMade(l)
  <2>1. Careful
    BY <1>4, <1>5 DEF NotMade, Careful
  <2>2. /\ \A p \in Path : KeptAt(p)'
        /\ policy \in {"refuse", "rename"} => \A x \in written : disk'[x.dest] = x.node
    BY <2>1, <1>3, CarefulKeeps
  <2> QED
    BY <2>2, <1>3, <1>5 DEF NotMade, ConsentInv, MayReplace, Writing
<1>6. CASE Made(l)
  <2>1. \A q \in Path \ {l.dest} : disk'[q] = Cleared(l)[q] \/ disk[q] = Absent
    BY <1>2, <1>6, LinkedEffect DEF Made, TypeInv
  <2>2. disk'[l.dest] = Cleared(l)[l.source]
    BY <1>2, <1>6, LinkedEffect DEF Made, TypeInv
  <2>3. Cleared(l)[l.dest] = Absent
    BY <1>6 DEF Made, Linkable
  <2>4. Careful
    BY <1>2, <1>4, <2>1, <2>3 DEF Careful
  <2>5. /\ \A p \in Path : KeptAt(p)'
        /\ policy \in {"refuse", "rename"} => \A x \in written : disk'[x.dest] = x.node
    BY <2>4, <1>3, CarefulKeeps
  <2>6. policy \in {"refuse", "rename"} => \A x \in written' : disk'[x.dest] = x.node
    BY <2>2, <2>5, <1>6 DEF Made
  <2> QED
    BY <1>3, <2>5, <2>6 DEF ConsentInv, MayReplace, Writing
<1> QED
  BY <1>1, <1>5, <1>6

\* Every step keeps ConsentInv.
LEMMA StepConsent ==
  ASSUME TypeInv, ConsentInv, [Next]_vars
  PROVE  ConsentInv'
  BY QuietConsent, PlanIsStep, PlanConsent, TakeNextConsent, PlaceConsent,
     MakeLinkConsent DEF Next

-----------------------------------------------------------------------------
(* No write goes through a symbolic link.                                  *)

(* p is known to the planner as a directory that some write relies on, and    *)
(* is no symbolic link; Reliance are the paths a deferred link relies on.      *)
Guarded(p) == Key[p] \in required /\ ~ Is(p, "link")
Reliance(l) == Above[l.dest] \cup Above[l.source] \cup {l.source}

(* What every planned write, decision and deferred link relies on is guarded,  *)
(* and no symbolic link in hand is about to take the place of such a path.     *)
GuardInv ==
  /\ pc \in Writing => \A a \in Above[plan.dest] : Guarded(a)
  /\ pc \in Writing /\ plan.entry.kind = "hardlink" =>
        \A a \in Above[plan.entry.target] \cup {plan.entry.target} : Guarded(a)
  /\ pc \in Writing /\ plan.entry.kind = "symlink"
      => \A i \in 1 .. Len(links) : plan.dest \notin Reliance(links[i])
  /\ \A i \in 1 .. Len(links) : \A a \in Reliance(links[i]) : Guarded(a)
  /\ \A p \in DOMAIN decided : \A a \in Above[decided[p].dest] : Guarded(a)

\* A step that makes no symbolic link keeps what is guarded.
NoNewLinks == \A q \in Path : disk'[q].kind = "link" => disk[q].kind = "link"

\* What is guarded stays so.
LEMMA GuardedStays ==
  ASSUME NoNewLinks, required \subseteq required'
  PROVE  \A a \in Path : Guarded(a) => Guarded(a)'
  BY DEF NoNewLinks, Guarded, Is

\* What a link relies on are paths.
LEMMA ReliancePaths ==
  ASSUME TypeInv
  PROVE  /\ \A i \in 1 .. Len(links) : links[i] \in LinkRec /\ Reliance(links[i]) \subseteq Path
         /\ \A p \in DOMAIN decided : decided[p].dest \in Path
             /\ Above[decided[p].dest] \subseteq Path
         /\ \A p \in Path : Above[p] \subseteq Path
<1>1. \A p \in Path : Above[p] \subseteq Path
  BY PathAssumption
<1>2. \A i \in 1 .. Len(links) : links[i] \in LinkRec
  BY DEF TypeInv, DeferredInv
<1>3. \A l \in LinkRec : l.dest \in Path /\ l.source \in Path
  BY DEF LinkRec
<1>4. \A l \in LinkRec : Reliance(l) \subseteq Path
  BY <1>1, <1>3 DEF Reliance
<1>5. \A p \in DOMAIN decided : decided[p].dest \in Path
  BY DEF TypeInv, BatchInv, DecisionRec
<1> QED
  BY <1>1, <1>2, <1>4, <1>5

\* The initial states satisfy GuardInv.
LEMMA InitGuards == Init => GuardInv
  BY DEF Init, GuardInv, Writing

\* Steps that plan nothing and make no symbolic link keep the guards.
LEMMA GuardsStay ==
  ASSUME TypeInv, GuardInv, NoNewLinks, required \subseteq required',
         UNCHANGED <<links, decided>>,
         pc' \in Writing => pc \in Writing /\ plan' = plan
  PROVE  GuardInv'
<1>1. \A a \in Path : Guarded(a) => Guarded(a)'
  BY GuardedStays
<1>2. /\ \A i \in 1 .. Len(links) : Reliance(links[i]) \subseteq Path
      /\ \A p \in DOMAIN decided : Above[decided[p].dest] \subseteq Path
      /\ \A p \in Path : Above[p] \subseteq Path
  BY ReliancePaths
<1>3. \A i \in 1 .. Len(links') : \A a \in Reliance(links'[i]) : Guarded(a)'
  BY <1>1, <1>2 DEF GuardInv
<1>4. \A p \in DOMAIN decided' : \A a \in Above[decided'[p].dest] : Guarded(a)'
  BY <1>1, <1>2 DEF GuardInv
<1>5. ASSUME pc' \in Writing
      PROVE  /\ \A a \in Above[plan'.dest] : Guarded(a)'
             /\ plan'.entry.kind = "hardlink" =>
                  \A a \in Above[plan'.entry.target] \cup {plan'.entry.target} : Guarded(a)'
             /\ plan'.entry.kind = "symlink"
                 => \A i \in 1 .. Len(links') : plan'.dest \notin Reliance(links'[i])
  <2>1. pc \in Writing /\ plan' = plan
    BY <1>5
  <2>2. plan.dest \in Path
        /\ (plan.entry.kind \in {"symlink", "hardlink"} => plan.entry.target \in Path)
    BY <2>1, HandFacts
  <2>3. plan.entry.kind = "hardlink"
        => Above[plan.entry.target] \cup {plan.entry.target} \subseteq Path
    BY <2>2, <1>2
  <2>4. \A a \in Above[plan.dest] : Guarded(a)'
    BY <2>1, <2>2, <1>1, <1>2 DEF GuardInv
  <2>5. plan.entry.kind = "hardlink" =>
          \A a \in Above[plan.entry.target] \cup {plan.entry.target} : Guarded(a)'
    BY <2>1, <2>3, <1>1 DEF GuardInv
  <2> QED
    BY <2>1, <2>4, <2>5 DEF GuardInv
<1> QED
  BY <1>3, <1>4, <1>5 DEF GuardInv

\* Steps that plan and place nothing.
LEMMA QuietGuards ==
  ASSUME TypeInv, GuardInv,
         \/ \E e \in archive : Skip(e) \/ SkipByPrompt(e) \/ Refuse(e)
         \/ Open \/ Copied \/ Remove \/ Return \/ Abort \/ Finish \/ Stamp \/ UNCHANGED vars
  PROVE  GuardInv'
<1>1. CASE \E e \in archive : Skip(e) \/ SkipByPrompt(e) \/ Refuse(e)
  BY <1>1, GuardsStay DEF Skip, SkipByPrompt, Refuse,
     NoNewLinks, settings, batch, deferred, planner, Writing
<1>2. CASE Open
  <2>1. plan.dest \in Path
    BY <1>2, HandFacts DEF Open, Writing
  <2>2. NoNewLinks
    BY <1>2, <2>1, ParentsEffect, NodeFacts DEF Open, Fail, NoNewLinks, TypeInv
  <2> QED
    BY <1>2, <2>2, GuardsStay DEF Open, Fail, batch, deferred, planner, Writing
<1>3. CASE Copied
  BY <1>3, GuardsStay DEF Copied, NoNewLinks, batch, deferred, planner, Writing
<1>4. CASE Remove
  <2>1. plan.dest \in Path
    BY <1>4, HandFacts DEF Remove, Writing
  <2>2. NoNewLinks
    BY <1>4, <2>1, WithoutEffect, NodeFacts DEF Remove, NoNewLinks, TypeInv
  <2> QED
    BY <1>4, <2>2, GuardsStay DEF Remove, batch, deferred, planner, Writing
<1>5. CASE Return \/ Abort \/ Finish \/ Stamp \/ UNCHANGED vars
  <2>1. disk' = disk /\ required' = required /\ links' = links /\ decided' = decided
    BY <1>5 DEF Return, Abort, Fail, Finish, Stamp, vars, batch, deferred, planner
  <2>2. NoNewLinks
    BY <2>1 DEF NoNewLinks
  <2>3. pc' \in Writing => pc \in Writing /\ plan' = plan
    BY <1>5 DEF Return, Abort, Fail, Finish, Stamp, vars, Writing
  <2> QED
    BY <2>1, <2>2, <2>3, GuardsStay
<1> QED
  BY <1>1, <1>2, <1>3, <1>4, <1>5

\* Plan: WritePathsOk refuses a symbolic link where required has its key.
LEMMA PlanGuards ==
  ASSUME TypeInv, GuardInv, NEW e \in archive, NEW d, PlanStep(e, d)
  PROVE  GuardInv'
<1>0. /\ e \in Entry /\ d.dest \in Path
      /\ Decision(e, d) \in DecisionRec /\ Decision(e, d).dest = d.dest
      /\ count + 1 \in 1 .. ArchiveSize /\ Required(e, d.dest) \subseteq Path
  BY PlanFacts
<1>1. /\ UNCHANGED <<disk, links>> /\ pc = "read" /\ archive \subseteq Entry
      /\ required' = required \cup {Key[p] : p \in Required(e, d.dest)}
  BY DEF PlanStep, settings, deferred, TypeInv, SettingsInv
<1>2. NoNewLinks /\ required \subseteq required'
  BY <1>1 DEF NoNewLinks
<1>3. \A a \in Path : Guarded(a) => Guarded(a)'
  BY <1>2, GuardedStays
<1>4. /\ \A i \in 1 .. Len(links) : Reliance(links[i]) \subseteq Path
      /\ \A p \in DOMAIN decided : Above[decided[p].dest] \subseteq Path
      /\ \A p \in Path : Above[p] \subseteq Path
  BY ReliancePaths
<1>5. \A a \in Required(e, d.dest) : NonSymlink(a) => Guarded(a)'
  BY <1>1 DEF NonSymlink, Guarded, Is
<1>6. \A a \in Above[d.dest] : Guarded(a)'
  <2>1. Above[d.dest] \subseteq Required(e, d.dest)
    BY DEF Required
  <2>2. \A a \in Above[d.dest] : NonSymlink(a)
    BY DEF PlanStep, WritePathsOk
  <2> QED
    BY <2>1, <2>2, <1>5
<1>7. e.kind = "hardlink" => \A a \in Above[e.target] \cup {e.target} : Guarded(a)'
  <2>1. SUFFICES ASSUME e.kind = "hardlink"
        PROVE \A a \in Above[e.target] \cup {e.target} : Guarded(a)'
    OBVIOUS
  <2>2. Above[e.target] \cup {e.target} \subseteq Required(e, d.dest)
    BY <2>1 DEF Required
  <2>3. \A a \in Above[e.target] \cup {e.target} : NonSymlink(a)
    BY <2>1 DEF PlanStep, WritePathsOk
  <2> QED
    BY <2>2, <2>3, <1>5
<1>8. e.kind = "symlink" => \A i \in 1 .. Len(links) : d.dest \notin Reliance(links[i])
  <2>1. e.kind = "symlink" => Key[d.dest] \notin required
    BY DEF PlanStep, WritePathsOk
  <2> QED
    BY <2>1 DEF GuardInv, Guarded
<1>9. \A i \in 1 .. Len(links') : \A a \in Reliance(links'[i]) : Guarded(a)'
  BY <1>1, <1>3, <1>4 DEF GuardInv
<1>10. CASE backend.planning = "all" /\ pc' = pc /\ decided' = Decide(e.path, Decision(e, d))
  <2>1. \A p \in DOMAIN decided' : decided'[p] = Decision(e, d)
        \/ (p \in DOMAIN decided /\ decided'[p] = decided[p])
    BY <1>10 DEF Decide
  <2>2. \A p \in DOMAIN decided' : \A a \in Above[decided'[p].dest] : Guarded(a)'
    BY <2>1, <1>0, <1>3, <1>4, <1>6 DEF GuardInv
  <2>3. pc' \notin Writing
    BY <1>1, <1>10 DEF Writing
  <2> QED
    BY <2>2, <2>3, <1>9 DEF GuardInv
<1>11. CASE TakeUp(e, count + 1, Decision(e, d)) /\ UNCHANGED batch
  <2>1. plan'.dest = d.dest /\ plan'.entry = e
    BY <1>0, <1>1, <1>11, TakeUpTypes
  <2>2. \A p \in DOMAIN decided' : \A a \in Above[decided'[p].dest] : Guarded(a)'
    BY <1>11, <1>3, <1>4 DEF GuardInv, batch
  <2> QED
    BY <2>1, <2>2, <1>1, <1>6, <1>7, <1>8, <1>9 DEF GuardInv
<1> QED
  BY <1>10, <1>11 DEF PlanStep

\* TakeNext takes a decision with its guards.
LEMMA TakeNextGuards ==
  ASSUME TypeInv, GuardInv, TakeNext
  PROVE  GuardInv'
<1> DEFINE q == Head(queue)
           d == decided[q.entry.path]
<1>1. queue \in Seq(QueueRec) /\ queue # <<>> /\ archive \subseteq Entry
      /\ 1 \in 1 .. Len(queue) /\ q = queue[1]
  BY DEF TypeInv, BatchInv, SettingsInv, TakeNext
<1>2. q \in QueueRec /\ q.entry \in archive /\ q.entry.path \in DOMAIN decided
  BY <1>1 DEF TypeInv, BatchInv
<1>3. q.of \in 1 .. ArchiveSize /\ d \in DecisionRec
  BY <1>2 DEF TypeInv, BatchInv, QueueRec
<1>4. TakeUp(q.entry, q.of, d)
  BY DEF TakeNext
<1>5. plan'.dest = d.dest /\ plan'.entry = q.entry
  BY <1>1, <1>2, <1>3, <1>4, TakeUpTypes
<1>6. UNCHANGED <<disk, decided, links, required>>
  BY DEF TakeNext, settings, deferred, planner
<1>7. \A a \in Above[d.dest] : Guarded(a)
  BY <1>2 DEF GuardInv
<1>8. backend.planning = "all" /\ backend \in Backend /\ q.entry.kind \in backend.holds
  BY <1>1, <1>2 DEF TypeInv, BatchInv, SettingsInv
<1>9. q.entry.kind \notin {"hardlink", "symlink"}
  BY <1>8, BackendFacts DEF BackendOk
<1>10. \A a : Guarded(a) => Guarded(a)'
  BY <1>6 DEF Guarded, Is
<1> HIDE DEF q, d
<1> QED
  BY <1>5, <1>6, <1>7, <1>9, <1>10 DEF GuardInv

\* Place: a new symbolic link is none of the guarded paths.
LEMMA PlaceGuards ==
  ASSUME TypeInv, GuardInv, Place
  PROVE  GuardInv'
<1>0. pc \in Writing /\ Placed
  BY PlaceCases DEF PutOff, PutNode, PutNothing, Placed, Writing
<1>1. /\ plan.dest \in Path /\ plan.entry.kind \in Kinds \ {"special"}
      /\ plan.entry.kind \in backend.holds
      /\ plan.entry.kind \in {"symlink", "hardlink"} => plan.entry.target \in Path
  BY <1>0, HandFacts
<1>2. required' = required /\ decided' = decided
  BY <1>0 DEF Placed, planner, batch
<1>3. pc' \notin Writing
  BY PlaceCases DEF PutOff, PutNode, PutNothing, Ready, Writing
<1>4. CASE PutOff
  <2> DEFINE l == [path |-> plan.entry.path, source |-> plan.entry.target, dest |-> plan.dest,
                   replace |-> plan.replace]
  <2>1. links' = Append(links, l) /\ l.dest = plan.dest /\ l.source = plan.entry.target
        /\ disk' = disk
        /\ plan.entry.kind = "hardlink"
    BY <1>4 DEF PutOff
  <2>2. links \in Seq(LinkRec)
    BY DEF TypeInv, DeferredInv
  <2> HIDE DEF l
  <2>3. \A i \in 1 .. Len(links') : links'[i] = l
        \/ (i \in 1 .. Len(links) /\ links'[i] = links[i])
    BY <2>1, <2>2
  <2>4. \A a \in Reliance(l) : Guarded(a)
    BY <2>1, <1>0 DEF GuardInv, Reliance
  <2>5. \A a : Guarded(a) => Guarded(a)'
    BY <2>1, <1>2 DEF Guarded, Is
  <2> QED
    BY <2>3, <2>4, <2>5, <1>2, <1>3 DEF GuardInv
<1>5. CASE PutNothing
  <2>1. links' = links /\ NoNewLinks
    BY <1>5 DEF PutNothing, NoNewLinks
  <2> QED
    BY <2>1, <1>2, <1>3, GuardsStay
<1>6. CASE PutNode
  <2>1. \A q \in Path \ {plan.dest} : disk'[q] = disk[q] \/ disk'[q] = Dir
    BY <1>1, <1>6, ParentsEffect DEF PutNode, TypeInv
  <2>2. disk'[plan.dest] = PlanNode
    BY <1>1, <1>6, ParentsEffect DEF PutNode, TypeInv
  <2>3. CASE plan.entry.kind \in {"file", "dir"}
    <3>1. PlanNode.kind # "link"
      BY <2>3, NodeFacts DEF PlanNode
    <3>2. NoNewLinks
      BY <2>1, <2>2, <3>1, NodeFacts DEF NoNewLinks
    <3>3. links' = links
      BY <1>6 DEF PutNode
    <3> QED
      BY <3>2, <3>3, <1>2, <1>3, GuardsStay
  <2>4. CASE plan.entry.kind = "symlink"
    <3>1. links' = links
      BY <1>6 DEF PutNode
    <3>2. \A a \in Path \ {plan.dest} : Guarded(a) => Guarded(a)'
      BY <2>1, <1>2, NodeFacts DEF Guarded, Is
    <3>3. \A i \in 1 .. Len(links) : plan.dest \notin Reliance(links[i])
          /\ Reliance(links[i]) \subseteq Path
      BY <2>4, <1>0, ReliancePaths DEF GuardInv
    <3>4. \A i \in 1 .. Len(links) : \A a \in Reliance(links[i]) : Guarded(a)'
      BY <3>2, <3>3 DEF GuardInv
    <3>5. backend.planning # "all"
      BY <2>4, <1>1, BackendFacts DEF BackendOk, TypeInv, SettingsInv
    <3>6. DOMAIN decided = {}
      BY <3>5 DEF TypeInv, BatchInv
    <3> QED
      BY <3>1, <3>4, <3>6, <1>2, <1>3 DEF GuardInv
  <2> QED
    BY <2>3, <2>4, <1>1, <1>6 DEF PutNode, Kinds
<1> QED
  BY <1>4, <1>5, <1>6, PlaceCases

\* A deferred link is a second name of a file, never of a symbolic link.
LEMMA MakeLinkGuards ==
  ASSUME TypeInv, GuardInv, MakeLink
  PROVE  GuardInv'
<1> DEFINE l == links[Head(todo)]
<1>1. LinkPhase /\ LinkRest /\ (Made(l) \/ NotMade(l))
  BY MakeLinkCases DEF Made, NotMade
<1>2. l \in LinkRec /\ l.dest \in Path /\ l.source \in Path /\ \A a \in Reliance(l) : Guarded(a)
  BY <1>1, HeadLink DEF GuardInv
<1> HIDE DEF l
<1>3. disk[l.source].kind # "link"
  BY <1>2 DEF Reliance, Guarded, Is
<1>4. \A q \in Path : Cleared(l)[q] = disk[q] \/ Cleared(l)[q] = Absent
  BY <1>2, ClearedEffect DEF TypeInv
<1>5. NoNewLinks
  <2>1. CASE NotMade(l)
    BY <2>1, <1>4, NodeFacts DEF NotMade, NoNewLinks
  <2>2. CASE Made(l)
    <3>1. \A q \in Path \ {l.dest} : disk'[q] = Cleared(l)[q] \/ disk'[q] = Dir
      BY <1>2, <2>2, LinkedEffect DEF Made, TypeInv
    <3>2. disk'[l.dest] = Cleared(l)[l.source]
      BY <1>2, <2>2, LinkedEffect DEF Made, TypeInv
    <3>3. disk'[l.dest].kind # "link"
      BY <3>2, <1>2, <1>3, <1>4, NodeFacts
    <3>4. \A q \in Path \ {l.dest} : disk'[q].kind = "link" => disk[q].kind = "link"
      BY <3>1, <1>4, NodeFacts
    <3> QED
      BY <3>3, <3>4 DEF NoNewLinks
  <2> QED
    BY <1>1, <2>1, <2>2
<1>6. required' = required /\ links' = links /\ decided' = decided /\ pc' \in {"link", "failed"}
  BY <1>1 DEF LinkRest, Made, NotMade, LinkPhase, planner, batch
<1>7. pc' \notin Writing
  BY <1>6 DEF Writing
<1> QED
  BY <1>5, <1>6, <1>7, GuardsStay

\* Every step keeps GuardInv.
LEMMA StepGuards ==
  ASSUME TypeInv, GuardInv, [Next]_vars
  PROVE  GuardInv'
  BY QuietGuards, PlanIsStep, PlanGuards, TakeNextGuards, PlaceGuards, MakeLinkGuards DEF Next

\* Guarded paths are not traversed.
LEMMA GuardsPreventTraversal ==
  ASSUME TypeInv, GuardInv
  PROVE  NoTraversal
<1>1. pc \in Writing => Direct(plan.dest)
  BY DEF GuardInv, Guarded, Direct
<1>2. ASSUME LinkPhase
      PROVE  LET l == links[Head(todo)] IN Direct(l.dest) /\ Direct(l.source)
             /\ ~ Is(l.source, "link")
  BY <1>2, HeadLink DEF GuardInv, Guarded, Reliance, Direct
<1> QED
  BY <1>1, <1>2 DEF NoTraversal, Writing, LinkPhase

-----------------------------------------------------------------------------
(* The deferred links.                                                     *)

\* Link i has been made and stands.
Stands(i) ==
  Unbarred(i) =>
    /\ ~ Is(links[i].dest, "absent")
    /\ Sole(i) /\ Is(links[i].source, "file") => disk[links[i].dest] = disk[links[i].source]

(* While links are made: the remaining order respects the dependencies, a      *)
(* link that is made has its dependency made, and stands.                      *)
LinkInv ==
  /\ pc \in {"link", "ok"} =>
       /\ \A a, b \in 1 .. Len(todo) :
             Waits(links, todo[b]) /\ Dependency(links, todo[b]) = todo[a] => a < b
       /\ \A i \in 1 .. Len(links) : ~ Has(todo, i) =>
             (Waits(links, i) => ~ Has(todo, Dependency(links, i))) /\ Stands(i)
  /\ pc = "ok" => todo = <<>>

\* An order that is found makes all links, each after its dependency.
LEMMA OrderComplete ==
  ASSUME NEW s, Len(s) \in Nat, DOMAIN s = 1 .. Len(s), OrderFound(s)
  PROVE  /\ \A i \in 1 .. Len(s) : Has(DeferredLinkOrder(s), i)
         /\ Len(DeferredLinkOrder(s)) = Len(s)
         /\ \A a, b \in 1 .. Len(s) :
               Waits(s, DeferredLinkOrder(s)[b])
                   /\ Dependency(s, DeferredLinkOrder(s)[b]) = DeferredLinkOrder(s)[a]
                 => a < b
<1> DEFINE o == DeferredLinkOrder(s)
           D == 1 .. Len(s)
<1>1. o \in Arrangements(s) /\ Respects(s, o) /\ Len(o) = Len(s)
  BY OrderSound DEF OrderFound
<1> HIDE DEF o
<1>2. o \in [D -> D] /\ \A a, b \in D : o[a] = o[b] => a = b
  BY <1>1 DEF Arrangements
<1>3. IsFiniteSet(D)
  BY UpTo
<1>4. o \in Injection(D, D)
  BY <1>2 DEF Injection, IsInjective
<1>5. o \in Surjection(D, D)
  BY <1>3, <1>4, FS_Injection
<1>6. \A i \in D : Has(o, i)
  BY <1>1, <1>5 DEF Surjection, Has
<1>7. \A a, b \in D : Waits(s, o[b]) /\ Dependency(s, o[b]) = o[a] => a < b
  BY <1>1, <1>2 DEF Respects
<1> QED
  BY <1>1, <1>6, <1>7 DEF o

\* The initial states satisfy LinkInv.
LEMMA InitLinks == Init => LinkInv
  BY DEF Init, LinkInv

(* Making the next link lets the links already made stand: by the order it is  *)
(* the source of none of them, and by Unbarred above none of them.             *)
LEMMA MadeLinks ==
  ASSUME TypeInv, LinkInv, Made(links[Head(todo)])
  PROVE  LinkInv'
<1>0. PICK h, l : h = Head(todo) /\ l = links[h]
  OBVIOUS
<1>1. LinkPhase /\ LinkRest /\ Linkable(l) /\ disk' = Linked(l) /\ todo' = Tail(todo)
      /\ pc' = "link" /\ pc = "link"
  BY <1>0 DEF Made, LinkPhase
<1>2. h \in 1 .. Len(links) /\ l \in LinkRec /\ l.dest \in Path /\ l.source \in Path
      /\ DOMAIN links = 1 .. Len(links)
      /\ Len(links) \in Nat
  BY <1>0, <1>1, HeadLink
<1>3. links' = links
  BY <1>1 DEF LinkRest
<1>4. todo \in Seq(1 .. Len(links)) /\ todo # <<>> /\ h = todo[1] /\ 1 \in 1 .. Len(todo)
  BY <1>0, <1>1 DEF TypeInv, DeferredInv, LinkPhase
<1>5. \A y : Has(todo, y) <=> Has(Tail(todo), y) \/ y = h
  BY <1>0, <1>4, HasHeadTail
<1>6. \A a \in 1 .. Len(todo') : a + 1 \in 1 .. Len(todo) /\ todo'[a] = todo[a + 1]
  BY <1>1, <1>4
<1>7. ASSUME NEW a \in 1 .. Len(todo'), NEW b \in 1 .. Len(todo'),
             Waits(links, todo'[b]), Dependency(links, todo'[b]) = todo'[a]
      PROVE  a < b
  <2>1. a + 1 < b + 1
    BY <1>1, <1>6, <1>7 DEF LinkInv
  <2>2. a \in Nat /\ b \in Nat
    OBVIOUS
  <2> QED
    BY <2>1, <2>2
<1>8. Waits(links, h) => ~ Has(Tail(todo), Dependency(links, h))
  <2>1. SUFFICES ASSUME Waits(links, h), Has(todo, Dependency(links, h)) PROVE FALSE
    BY <1>5
  <2>2. PICK a \in 1 .. Len(todo) : todo[a] = Dependency(links, h)
    BY <2>1 DEF Has
  <2>3. a < 1
    BY <2>1, <2>2, <1>1, <1>4 DEF LinkInv
  <2> QED
    BY <2>3
<1>9. \A q \in Path : Cleared(l)[q] = disk[q]
      \/ (Cleared(l)[q] = Absent /\ (q = l.dest \/ l.dest \in Above[q]))
  BY <1>2, ClearedEffect DEF TypeInv
<1>10. \A q \in Path \ {l.dest} : disk'[q] = Cleared(l)[q]
       \/ (disk[q] = Absent /\ disk'[q] = Dir)
  BY <1>1, <1>2, LinkedEffect DEF TypeInv
<1>11. disk'[l.dest] = Cleared(l)[l.source]
  BY <1>1, <1>2, LinkedEffect DEF TypeInv
<1>12. Cleared(l)[l.dest] = Absent /\ Cleared(l)[l.source].kind \in {"file", "link"}
  BY <1>1 DEF Linkable
<1>13. Stands(h)'
  <2>1. l.source # l.dest /\ disk'[l.dest].kind # "absent"
    BY <1>11, <1>12, NodeFacts
  <2>2. disk[l.source] # Absent
    BY <1>2, <1>9, <1>12, NodeFacts
  <2>3. disk'[l.source] = disk'[l.dest]
    BY <2>1, <2>2, <1>2, <1>10, <1>11
  <2> QED
    BY <2>1, <2>3, <1>0, <1>3 DEF Stands, Is
<1>14. ASSUME NEW i \in 1 .. Len(links), ~ Has(todo, i)
       PROVE  /\ Waits(links, i) => ~ Has(Tail(todo), Dependency(links, i))
              /\ Stands(i)'
  <2>1. (Waits(links, i) => ~ Has(todo, Dependency(links, i))) /\ Stands(i) /\ i # h
    BY <1>1, <1>5, <1>14 DEF LinkInv
  <2>2. Waits(links, i) => ~ Has(Tail(todo), Dependency(links, i))
    BY <2>1, <1>5
  <2>3. links[i].dest \in Path /\ links[i].source \in Path
    <3>1. links[i] \in LinkRec
      BY ReliancePaths
    <3> QED
      BY <3>1 DEF LinkRec
  <2>4. SUFFICES ASSUME Unbarred(i)
                 PROVE  /\ disk'[links[i].dest].kind # "absent"
                        /\ Sole(i) /\ disk'[links[i].source].kind = "file"
                            => disk'[links[i].dest] = disk'[links[i].source]
    <3>1. Unbarred(i)' = Unbarred(i) /\ Sole(i)' = Sole(i)
      BY <1>3 DEF Unbarred, Sole
    <3> QED
      BY <2>2, <3>1, <1>3 DEF Stands, Is
  <2>5. l.dest \notin Above[links[i].dest]
    BY <2>4, <1>0, <1>2 DEF Unbarred
  <2>6. disk[links[i].dest].kind # "absent"
    BY <2>1, <2>4 DEF Stands, Is
  <2>7. links[i].dest # l.dest => disk'[links[i].dest] = disk[links[i].dest]
    BY <2>3, <2>5, <2>6, <1>9, <1>10, NodeFacts
  <2>8. disk'[links[i].dest].kind # "absent"
    BY <2>6, <2>7, <1>11, <1>12
  <2>9. ASSUME Sole(i), disk'[links[i].source].kind = "file"
               PROVE disk'[links[i].dest] = disk'[links[i].source]
    <3>1. links[i].dest # l.dest
      BY <2>1, <2>9, <1>0, <1>2 DEF Sole
    <3>2. links[i].source # l.dest
      <4>1. SUFFICES ASSUME links[i].source = l.dest PROVE FALSE
        OBVIOUS
      <4>2. h \in Producers(links, i)
        BY <4>1, <1>0, <1>2 DEF Producers
      <4>3. Producers(links, i) = {h}
        BY <4>2, <2>9 DEF Sole
      <4>4. Waits(links, i) /\ Dependency(links, i) = h
        <5>1. h <= h
          BY <1>2
        <5> QED
          BY <4>3, <5>1 DEF Waits, Dependency
      <4> QED
        BY <4>4, <2>1, <1>5
    <3>3. disk'[links[i].source] = disk[links[i].source]
      BY <3>2, <2>3, <2>9, <1>9, <1>10, NodeFacts
    <3>4. disk[links[i].dest] = disk[links[i].source]
      BY <3>3, <2>1, <2>4, <2>9 DEF Stands, Is
    <3> QED
      BY <3>1, <3>3, <3>4, <2>7
  <2> QED
    BY <2>8, <2>9
<1>15. \A i \in 1 .. Len(links') : ~ Has(todo', i)
       => (Waits(links', i) => ~ Has(todo', Dependency(links', i))) /\ Stands(i)'
  BY <1>1, <1>3, <1>5, <1>8, <1>13, <1>14
<1>16. \A a, b \in 1 .. Len(todo') : Waits(links', todo'[b])
       /\ Dependency(links', todo'[b]) = todo'[a] => a < b
  BY <1>3, <1>7
<1> QED
  BY <1>1, <1>15, <1>16 DEF LinkInv

\* Every step keeps LinkInv.
LEMMA StepLinks ==
  ASSUME TypeInv, LinkInv, [Next]_vars
  PROVE  LinkInv'
<1>1. CASE MakeLink
  <2>1. CASE Made(links[Head(todo)])
    BY <2>1, MadeLinks
  <2>2. CASE NotMade(links[Head(todo)])
    BY <2>2 DEF NotMade, LinkInv
  <2> QED
    BY <1>1, <2>1, <2>2, MakeLinkCases
<1>2. CASE Finish
  <2>1. CASE pc' = "failed"
    BY <2>1 DEF LinkInv
  <2>2. CASE OrderFound(links) /\ todo' = DeferredLinkOrder(links) /\ pc' = "link"
    <3>1. Len(links) \in Nat /\ DOMAIN links = 1 .. Len(links) /\ links' = links
      BY <1>2 DEF TypeInv, DeferredInv, Finish
    <3>2. /\ \A i \in 1 .. Len(links) : Has(todo', i)
          /\ Len(todo') = Len(links)
          /\ \A a, b \in 1 .. Len(links) : Waits(links, todo'[b])
              /\ Dependency(links, todo'[b]) = todo'[a] => a < b
      BY <2>2, <3>1, OrderComplete
    <3> QED
      BY <2>2, <3>1, <3>2 DEF LinkInv
  <2> QED
    BY <1>2, <2>1, <2>2 DEF Finish
<1>3. CASE Stamp \/ Return \/ UNCHANGED vars
  <2>1. UNCHANGED <<disk, links, todo>>
    BY <1>3 DEF Stamp, Return, vars, deferred
  <2>2. pc' \in {"link", "ok"} => pc \in {"link", "ok"}
    BY <1>3 DEF Stamp, Return, vars
  <2>3. pc' = "ok" => todo = <<>>
    BY <1>3 DEF Stamp, Return, vars, LinkInv
  <2> QED
    BY <2>1, <2>2, <2>3 DEF LinkInv, Stands, Unbarred, Sole, Is
<1>4. CASE Place
  <2>1. pc' \notin {"link", "ok"}
    BY <1>4, PlaceCases DEF PutOff, PutNode, PutNothing, Ready
  <2> QED
    BY <2>1 DEF LinkInv
<1>5. CASE TakeNext \/ Open \/ Copied \/ Remove \/ Abort
  <2>1. pc' \notin {"link", "ok"}
    BY <1>5 DEF TakeNext, TakeUp, Open, Fail, Copied, Remove, Abort
  <2> QED
    BY <2>1 DEF LinkInv
<1>6. CASE \E e \in archive : Skip(e) \/ SkipByPrompt(e) \/ Plan(e) \/ Refuse(e)
  <2>1. pc' \notin {"link", "ok"}
    BY <1>6 DEF Skip, SkipByPrompt, Plan, Refuse, TakeUp
  <2> QED
    BY <2>1 DEF LinkInv
<1> QED
  BY <1>1, <1>2, <1>3, <1>4, <1>5, <1>6 DEF Next

-----------------------------------------------------------------------------
(* The budgets.                                                            *)

\* The part of a budget that something takes.
One(b) == IF b THEN 1 ELSE 0
InHand == One(pc \in Writing)
FileInHand == One(pc \in Writing /\ plan.entry.kind = "file")

(* The queued entries and the queued files by their positions in the archive;  *)
(* the files placed where no deferred link goes; the queue is in that order.   *)
Ofs(q) == {q[i].of : i \in 1 .. Len(q)}
FileOfs(q) == {q[i].of : i \in {j \in 1 .. Len(q) : q[j].entry.kind = "file"}}
PlacedFiles(w, s) == {x \in w : x.node.kind = "file" /\ x.dest \notin {s[i].dest : i \in DOMAIN s}}
Rising(q, n) ==
  /\ \A i, j \in 1 .. Len(q) : i < j => q[i].of < q[j].of
  /\ \A i \in 1 .. Len(q) : q[i].of =< n

(* What is written, put off, queued and in hand has been charged: to the       *)
(* entries each of them, to the bytes each file.                               *)
BudgetInv ==
  /\ IsFiniteSet(written) /\ Rising(queue, count)
  /\ Cardinality(PlacedFiles(written, links)) + Cardinality(FileOfs(queue)) + FileInHand =< reserved.bytes
  /\ Cardinality(written) + Len(todo) =< reserved.entries
  /\ pc \in Reading \cup Writing =>
        Cardinality(written) + Len(links) + Cardinality(Ofs(queue)) + InHand =< reserved.entries

\* One more element adds at most one.
LEMMA AddOne ==
  ASSUME NEW S, NEW x, IsFiniteSet(S)
  PROVE  /\ IsFiniteSet(S \cup {x}) /\ Cardinality(S \cup {x}) \in Nat /\ Cardinality(S) \in Nat
         /\ Cardinality(S \cup {x}) =< Cardinality(S) + 1
<1>1. IsFiniteSet(S \cup {x})
      /\ Cardinality(S \cup {x}) = IF x \in S THEN Cardinality(S) ELSE Cardinality(S) + 1
  BY FS_AddElement
<1>2. Cardinality(S \cup {x}) \in Nat /\ Cardinality(S) \in Nat
  BY <1>1, FS_CardinalityType
<1>3. Cardinality(S) =< Cardinality(S) + 1
  BY <1>2
<1> QED
  BY <1>1, <1>2, <1>3

\* Positions in the queue are positions of the archive.
LEMMA QueueTypes ==
  ASSUME NEW q \in Seq(QueueRec)
  PROVE  \A i \in 1 .. Len(q) : q[i].of \in 1 .. ArchiveSize /\ q[i].of \in Nat
<1>1. \A i \in 1 .. Len(q) : q[i] \in QueueRec
  OBVIOUS
<1>2. \A x \in QueueRec : x.of \in 1 .. ArchiveSize
  BY DEF QueueRec
<1>3. \A n \in 1 .. ArchiveSize : n \in Nat
  BY SizeAssumption
<1> QED
  BY <1>1, <1>2, <1>3

\* A queue in order is so as the count goes on.
LEMMA RisingOn ==
  ASSUME NEW q \in Seq(QueueRec), NEW n \in Nat, NEW m \in Nat, n =< m, Rising(q, n)
  PROVE  Rising(q, m)
<1>1. ASSUME NEW i \in 1 .. Len(q) PROVE q[i].of =< m
  <2>1. q[i].of \in Nat /\ q[i].of =< n
    BY QueueTypes DEF Rising
  <2> QED
    BY <2>1
<1> QED
  BY <1>1 DEF Rising

\* The queue has finitely many of them.
LEMMA OfsFinite ==
  ASSUME NEW q \in Seq(QueueRec)
  PROVE  /\ IsFiniteSet(Ofs(q)) /\ IsFiniteSet(FileOfs(q))
         /\ Cardinality(Ofs(q)) \in Nat /\ Cardinality(FileOfs(q)) \in Nat
<1>1. \A i \in 1 .. Len(q) : q[i].of \in 1 .. ArchiveSize
  BY QueueTypes
<1>2. Ofs(q) \in SUBSET (1 .. ArchiveSize) /\ FileOfs(q) \in SUBSET (1 .. ArchiveSize)
  BY <1>1 DEF Ofs, FileOfs
<1>3. IsFiniteSet(1 .. ArchiveSize)
  BY UpTo, SizeAssumption
<1>4. IsFiniteSet(Ofs(q)) /\ IsFiniteSet(FileOfs(q))
  BY <1>2, <1>3, FS_Subset
<1> QED
  BY <1>4, FS_CardinalityType

\* A queued entry takes one from the budget of entries, a file one of the bytes.
LEMMA OfsAppend ==
  ASSUME NEW q \in Seq(QueueRec), NEW x \in QueueRec, NEW n \in Nat, Rising(q, n), x.of = n + 1
  PROVE  /\ Cardinality(Ofs(Append(q, x))) =< Cardinality(Ofs(q)) + 1
         /\ Cardinality(FileOfs(Append(q, x))) =< Cardinality(FileOfs(q)) + One(x.entry.kind = "file")
         /\ Rising(Append(q, x), n + 1)
<1> DEFINE r == Append(q, x)
<1>1. r \in Seq(QueueRec) /\ Len(r) = Len(q) + 1 /\ Len(q) \in Nat
  OBVIOUS
<1>2. \A i \in 1 .. Len(r) : (i = Len(q) + 1 /\ r[i] = x) \/ (i \in 1 .. Len(q) /\ r[i] = q[i])
  OBVIOUS
<1> HIDE DEF r
<1>3. Ofs(r) \subseteq Ofs(q) \cup {x.of}
  BY <1>2 DEF Ofs
<1>4. FileOfs(r) \subseteq (IF x.entry.kind = "file" THEN FileOfs(q) \cup {x.of} ELSE FileOfs(q))
  BY <1>2 DEF FileOfs
<1>5. IsFiniteSet(Ofs(q)) /\ IsFiniteSet(FileOfs(q)) /\ Cardinality(Ofs(q)) \in Nat
      /\ Cardinality(FileOfs(q)) \in Nat
  BY OfsFinite
<1>6. Cardinality(Ofs(r)) \in Nat /\ Cardinality(FileOfs(r)) \in Nat
  BY <1>1, OfsFinite
<1>7. Cardinality(Ofs(r)) =< Cardinality(Ofs(q)) + 1
  <2>1. IsFiniteSet(Ofs(q) \cup {x.of})
        /\ Cardinality(Ofs(q) \cup {x.of}) =< Cardinality(Ofs(q)) + 1
        /\ Cardinality(Ofs(q) \cup {x.of}) \in Nat
    BY <1>5, AddOne
  <2>2. Cardinality(Ofs(r)) =< Cardinality(Ofs(q) \cup {x.of})
    BY <1>3, <2>1, FS_Subset
  <2> QED
    BY <2>1, <2>2, <1>5, <1>6
<1>8. Cardinality(FileOfs(r)) =< Cardinality(FileOfs(q)) + One(x.entry.kind = "file")
  <2>1. CASE x.entry.kind = "file"
    <3>1. IsFiniteSet(FileOfs(q) \cup {x.of})
          /\ Cardinality(FileOfs(q) \cup {x.of}) =< Cardinality(FileOfs(q)) + 1
          /\ Cardinality(FileOfs(q) \cup {x.of}) \in Nat
      BY <1>5, AddOne
    <3>2. Cardinality(FileOfs(r)) =< Cardinality(FileOfs(q) \cup {x.of})
      BY <1>4, <2>1, <3>1, FS_Subset
    <3>3. One(x.entry.kind = "file") = 1
      BY <2>1 DEF One
    <3> QED
      BY <3>1, <3>2, <3>3, <1>5, <1>6
  <2>2. CASE x.entry.kind # "file"
    <3>2. Cardinality(FileOfs(r)) =< Cardinality(FileOfs(q))
      BY <1>4, <1>5, <2>2, FS_Subset
    <3>3. One(x.entry.kind = "file") = 0
      BY <2>2 DEF One
    <3> QED
      BY <3>2, <3>3, <1>5, <1>6
  <2> QED
    BY <2>1, <2>2
<1>10. Rising(r, n + 1)
  <2>0. \A i \in 1 .. Len(q) : q[i].of \in Nat /\ q[i].of =< n
    BY QueueTypes DEF Rising
  <2>1. \A i \in 1 .. Len(r) : r[i].of =< n + 1
    BY <1>2, <2>0
  <2>2. ASSUME NEW i \in 1 .. Len(r), NEW j \in 1 .. Len(r), i < j PROVE r[i].of < r[j].of
    <3>1. i \in 1 .. Len(q) /\ r[i] = q[i]
      BY <1>1, <1>2, <2>2
    <3>2. CASE j \in 1 .. Len(q) /\ r[j] = q[j]
      BY <3>1, <3>2, <2>2 DEF Rising
    <3>3. CASE r[j] = x
      BY <3>1, <3>3, <2>0
    <3> QED
      BY <3>2, <3>3, <1>2
  <2> QED
    BY <2>1, <2>2 DEF Rising
<1> QED
  BY <1>7, <1>8, <1>10 DEF r

\* The entry that leaves the queue gives it back.
LEMMA OfsTail ==
  ASSUME NEW q \in Seq(QueueRec), q # <<>>, NEW n \in Nat, Rising(q, n)
  PROVE  /\ Cardinality(Ofs(Tail(q))) + 1 =< Cardinality(Ofs(q))
         /\ Cardinality(FileOfs(Tail(q))) + One(Head(q).entry.kind = "file") =< Cardinality(FileOfs(q))
         /\ Rising(Tail(q), n)
<1> DEFINE r == Tail(q)
           x == Head(q)
<1>1. r \in Seq(QueueRec) /\ x = q[1] /\ Len(q) \in Nat /\ 1 \in 1 .. Len(q) /\ x \in QueueRec
  OBVIOUS
<1>2. \A i \in 1 .. Len(r) : i + 1 \in 1 .. Len(q) /\ r[i] = q[i + 1] /\ 1 < i + 1 /\ i \in Nat
  OBVIOUS
<1> HIDE DEF r, x
<1>0. \A i \in 1 .. Len(q) : q[i].of \in Nat
  BY QueueTypes
<1>3. \A i \in 1 .. Len(r) : x.of < r[i].of
  BY <1>1, <1>2 DEF Rising
<1>4. Ofs(r) \subseteq Ofs(q) \ {x.of} /\ x.of \in Ofs(q)
  <2>1. \A i \in 1 .. Len(r) : r[i].of \in Ofs(q) /\ r[i].of # x.of
    BY <1>0, <1>1, <1>2, <1>3 DEF Ofs
  <2> QED
    BY <2>1, <1>1 DEF Ofs
<1>5. FileOfs(r) \subseteq FileOfs(q) \ {x.of} /\ (x.entry.kind = "file" => x.of \in FileOfs(q))
  <2>1. \A i \in 1 .. Len(r) : r[i].entry.kind = "file" => r[i].of \in FileOfs(q)
        /\ r[i].of # x.of
    BY <1>0, <1>1, <1>2, <1>3 DEF FileOfs
  <2> QED
    BY <2>1, <1>1 DEF FileOfs
<1>6. IsFiniteSet(Ofs(q)) /\ IsFiniteSet(FileOfs(q)) /\ Cardinality(Ofs(q)) \in Nat
      /\ Cardinality(FileOfs(q)) \in Nat
  BY OfsFinite
<1>7. Cardinality(Ofs(r)) \in Nat /\ Cardinality(FileOfs(r)) \in Nat
  BY <1>1, OfsFinite
<1>8. Cardinality(Ofs(r)) + 1 =< Cardinality(Ofs(q))
  <2>1. IsFiniteSet(Ofs(q) \ {x.of}) /\ Cardinality(Ofs(q) \ {x.of}) = Cardinality(Ofs(q)) - 1
    BY <1>4, <1>6, FS_RemoveElement
  <2>2. Cardinality(Ofs(r)) =< Cardinality(Ofs(q) \ {x.of})
    BY <1>4, <2>1, FS_Subset
  <2> QED
    BY <2>1, <2>2, <1>6, <1>7
<1>9. Cardinality(FileOfs(r)) + One(x.entry.kind = "file") =< Cardinality(FileOfs(q))
  <2>1. CASE x.entry.kind = "file"
    <3>1. IsFiniteSet(FileOfs(q) \ {x.of})
          /\ Cardinality(FileOfs(q) \ {x.of}) = Cardinality(FileOfs(q)) - 1
      BY <1>5, <1>6, <2>1, FS_RemoveElement
    <3>2. Cardinality(FileOfs(r)) =< Cardinality(FileOfs(q) \ {x.of})
      BY <1>5, <3>1, FS_Subset
    <3>3. One(x.entry.kind = "file") = 1
      BY <2>1 DEF One
    <3> QED
      BY <3>1, <3>2, <3>3, <1>6, <1>7
  <2>2. CASE x.entry.kind # "file"
    <3>1. FileOfs(r) \subseteq FileOfs(q)
      BY <1>5
    <3>2. Cardinality(FileOfs(r)) =< Cardinality(FileOfs(q))
      BY <3>1, <1>6, FS_Subset
    <3>3. One(x.entry.kind = "file") = 0
      BY <2>2 DEF One
    <3> QED
      BY <3>2, <3>3, <1>6, <1>7
  <2> QED
    BY <2>1, <2>2
<1>11. Rising(r, n)
  <2>1. \A i \in 1 .. Len(r) : r[i].of =< n
    BY <1>2 DEF Rising
  <2>2. ASSUME NEW i \in 1 .. Len(r), NEW j \in 1 .. Len(r), i < j PROVE r[i].of < r[j].of
    <3>1. i + 1 < j + 1 /\ i + 1 \in 1 .. Len(q) /\ j + 1 \in 1 .. Len(q) /\ r[i] = q[i + 1]
          /\ r[j] = q[j + 1]
      BY <1>2, <2>2
    <3> QED
      BY <3>1 DEF Rising
  <2> QED
    BY <2>1, <2>2 DEF Rising
<1> QED
  BY <1>8, <1>9, <1>11 DEF r, x

\* Finitely many files are placed.
LEMMA PlacedFinite ==
  ASSUME NEW w, IsFiniteSet(w), NEW s
  PROVE  IsFiniteSet(PlacedFiles(w, s)) /\ Cardinality(PlacedFiles(w, s)) \in Nat
<1>1. PlacedFiles(w, s) \in SUBSET w
  BY DEF PlacedFiles
<1>2. IsFiniteSet(PlacedFiles(w, s))
  BY <1>1, FS_Subset
<1> QED
  BY <1>2, FS_CardinalityType

\* All the numbers of the budget.
LEMMA BudgetNumbers ==
  ASSUME TypeInv, BudgetInv
  PROVE  /\ Cardinality(written) \in Nat /\ Cardinality(PlacedFiles(written, links)) \in Nat
         /\ Cardinality(Ofs(queue)) \in Nat /\ Cardinality(FileOfs(queue)) \in Nat
         /\ IsFiniteSet(written)
         /\ Len(links) \in Nat /\ Len(todo) \in Nat /\ count \in Nat
         /\ reserved.entries \in Nat /\ reserved.bytes \in Nat
         /\ InHand \in {0, 1} /\ FileInHand \in {0, 1} /\ queue \in Seq(QueueRec)
<1>1. Cardinality(written) \in Nat /\ Cardinality(PlacedFiles(written, links)) \in Nat
      /\ IsFiniteSet(written)
  BY PlacedFinite, FS_CardinalityType DEF BudgetInv
<1>2. queue \in Seq(QueueRec) /\ links \in Seq(LinkRec) /\ todo \in Seq(1 .. Len(links))
      /\ count \in 0 .. ArchiveSize
      /\ reserved \in [entries : Nat, bytes : Nat]
  BY DEF TypeInv, BatchInv, DeferredInv, HandInv, PlannerInv
<1>3. Cardinality(Ofs(queue)) \in Nat /\ Cardinality(FileOfs(queue)) \in Nat
  BY <1>2, OfsFinite
<1>4. Len(links) \in Nat /\ Len(todo) \in Nat /\ count \in Nat /\ reserved.entries \in Nat
      /\ reserved.bytes \in Nat
  BY <1>2, SizeAssumption
<1>5. InHand \in {0, 1} /\ FileInHand \in {0, 1}
  BY DEF InHand, FileInHand, One
<1> QED
  BY <1>1, <1>2, <1>3, <1>4, <1>5

\* The initial states satisfy BudgetInv.
LEMMA InitBudget == Init => BudgetInv
<1> SUFFICES ASSUME Init PROVE BudgetInv
  OBVIOUS
<1>1. written = {} /\ queue = <<>> /\ links = <<>> /\ todo = <<>> /\ pc = "read"
      /\ Len(queue) = 0
      /\ reserved = [entries |-> 0, bytes |-> 0] /\ Len(links) = 0 /\ Len(todo) = 0
  BY DEF Init
<1>2. PlacedFiles(written, links) = {} /\ Ofs(queue) = {} /\ FileOfs(queue) = {}
  BY <1>1 DEF PlacedFiles, Ofs, FileOfs
<1>3. IsFiniteSet({}) /\ Cardinality({}) = 0
  BY FS_EmptySet
<1>4. InHand = 0 /\ FileInHand = 0
  BY <1>1 DEF InHand, FileInHand, Writing, One
<1>5. Rising(queue, count)
  BY <1>1 DEF Rising
<1>6. reserved.entries = 0 /\ reserved.bytes = 0
  BY <1>1
<1>7. /\ Cardinality(written) = 0 /\ Cardinality(PlacedFiles(written, links)) = 0
      /\ IsFiniteSet(written)
      /\ Cardinality(Ofs(queue)) = 0 /\ Cardinality(FileOfs(queue)) = 0
  BY <1>1, <1>2, <1>3
<1> QED
  BY <1>1, <1>4, <1>5, <1>6, <1>7 DEF BudgetInv

\* Steps that write nothing and plan nothing.
LEMMA BudgetStays ==
  ASSUME TypeInv, BudgetInv, UNCHANGED <<written, queue, links, todo>>,
         pc' \in Writing => pc \in Writing /\ plan' = plan,
         pc' \in Reading => pc \in Reading,
         count =< count', count' \in Nat,
         reserved'.bytes = reserved.bytes, reserved'.entries \in Nat, reserved.entries =< reserved'.entries
  PROVE  BudgetInv'
<1>1. /\ Cardinality(written) \in Nat /\ Cardinality(PlacedFiles(written, links)) \in Nat
      /\ Cardinality(Ofs(queue)) \in Nat /\ Cardinality(FileOfs(queue)) \in Nat
      /\ Len(links) \in Nat /\ Len(todo) \in Nat /\ count \in Nat
      /\ reserved.entries \in Nat /\ reserved.bytes \in Nat
      /\ InHand \in {0, 1} /\ FileInHand \in {0, 1} /\ queue \in Seq(QueueRec)
  BY BudgetNumbers
<1>2. FileInHand' = 0 \/ FileInHand' = FileInHand
  BY DEF FileInHand, One
<1>3. InHand' = 0 \/ InHand' = InHand
  BY DEF InHand, One
<1>4. Rising(queue, count')
  <2>1. Rising(queue, count)
    BY DEF BudgetInv
  <2> QED
    BY <2>1, <1>1, RisingOn
<1>5. /\ Cardinality(PlacedFiles(written, links)) + Cardinality(FileOfs(queue)) + FileInHand' =< reserved.bytes
  <2> DEFINE p == Cardinality(PlacedFiles(written, links))
             f == Cardinality(FileOfs(queue))
             h == FileInHand
             m == reserved.bytes
  <2>1. p \in Nat /\ f \in Nat /\ h \in Nat /\ m \in Nat
    BY <1>1
  <2>2. p + f + h =< m
    BY DEF BudgetInv
  <2> HIDE DEF p, f, h, m
  <2>3. FileInHand' = 0 \/ FileInHand' = h => p + f + FileInHand' =< m
    BY <2>1, <2>2
  <2> QED
    BY <2>3, <1>2 DEF p, f, h, m
<1>6. Cardinality(written) + Len(todo) =< reserved'.entries
  <2> DEFINE w == Cardinality(written)
             t == Len(todo)
             m == reserved.entries
             n == reserved'.entries
  <2>1. w \in Nat /\ t \in Nat /\ m \in Nat /\ n \in Nat
    BY <1>1
  <2>2. w + t =< m /\ m =< n
    BY DEF BudgetInv
  <2> HIDE DEF w, t, m, n
  <2>3. w + t =< n
    BY <2>1, <2>2
  <2> QED
    BY <2>3 DEF w, t, m, n
<1>7. pc' \in Reading \cup Writing =>
        Cardinality(written) + Len(links) + Cardinality(Ofs(queue)) + InHand' =< reserved'.entries
  <2> SUFFICES ASSUME pc' \in Reading \cup Writing
               PROVE  Cardinality(written) + Len(links) + Cardinality(Ofs(queue)) + InHand' =< reserved'.entries
    OBVIOUS
  <2>1. Cardinality(written) + Len(links) + Cardinality(Ofs(queue)) + InHand =< reserved.entries
    BY DEF BudgetInv
  <2>2. InHand' \in Nat /\ InHand \in Nat /\ InHand' =< InHand
    BY <1>1, <1>3
  <2>3. Cardinality(written) + Len(links) + Cardinality(Ofs(queue)) + InHand' =< reserved'.entries
    <3> DEFINE w == Cardinality(written)
               s == Len(links)
               o == Cardinality(Ofs(queue))
               h == InHand
               k == InHand'
               m == reserved.entries
               n == reserved'.entries
    <3>1. w \in Nat /\ s \in Nat /\ o \in Nat /\ h \in Nat /\ k \in Nat /\ m \in Nat
          /\ n \in Nat
      BY <1>1, <2>2
    <3>2. w + s + o + h =< m /\ k =< h /\ m =< n
      BY <2>1, <2>2
    <3> HIDE DEF w, s, o, h, k, m, n
    <3>3. w + s + o + k =< n
      BY <3>1, <3>2
    <3> QED
      BY <3>3 DEF w, s, o, h, k, m, n
  <2> QED
    BY <2>3
<1> QED
  BY <1>4, <1>5, <1>6, <1>7 DEF BudgetInv

\* Steps that plan and place nothing.
LEMMA QuietBudget ==
  ASSUME TypeInv, BudgetInv,
         \/ \E e \in archive : Skip(e) \/ SkipByPrompt(e) \/ Refuse(e)
         \/ Open \/ Copied \/ Remove \/ Return \/ Abort \/ Stamp \/ UNCHANGED vars
  PROVE  BudgetInv'
<1>0. count \in Nat /\ reserved \in [entries : Nat, bytes : Nat]
  BY BudgetNumbers DEF TypeInv, PlannerInv
<1>1. CASE \E e \in archive : Skip(e) \/ SkipByPrompt(e)
  <2>1. UNCHANGED <<written, queue, links, todo, pc, plan>> /\ count' = count + 1
    BY <1>1 DEF Skip, SkipByPrompt, batch, deferred
  <2>2. reserved' = reserved \/ reserved' = [reserved EXCEPT !.entries = @ + 1]
    BY <1>1 DEF Skip, SkipByPrompt
  <2>3. reserved'.bytes = reserved.bytes /\ reserved'.entries \in Nat
        /\ reserved.entries =< reserved'.entries
    BY <2>2, <1>0
  <2>4. count =< count' /\ count' \in Nat
    BY <2>1, <1>0
  <2> QED
    BY <2>1, <2>3, <2>4, BudgetStays
<1>2. CASE (\E e \in archive : Refuse(e)) \/ Open \/ Copied \/ Remove \/ Return \/ Abort
      \/ Stamp \/ UNCHANGED vars
  <2>1. UNCHANGED <<written, queue, links, todo, plan, count, reserved>>
    BY <1>2 DEF Refuse, Open, Copied, Remove, Return, Abort,
       Stamp, vars, batch, deferred, planner
  <2>2. (pc' \in Writing => pc \in Writing) /\ (pc' \in Reading => pc \in Reading)
    BY <1>2 DEF Refuse, Open, Fail, Copied, Remove, Return, Abort, Stamp, vars, Writing, Reading
  <2>3. reserved'.bytes = reserved.bytes /\ reserved'.entries \in Nat
        /\ reserved.entries =< reserved'.entries
        /\ count =< count' /\ count' \in Nat
    BY <2>1, <1>0
  <2> QED
    BY <2>1, <2>2, <2>3, BudgetStays
<1> QED
  BY <1>1, <1>2

\* Finish: the links to be made have been charged as entries.
LEMMA FinishBudget ==
  ASSUME TypeInv, BudgetInv, Finish
  PROVE  BudgetInv'
<1>1. /\ Cardinality(written) \in Nat /\ Cardinality(PlacedFiles(written, links)) \in Nat
      /\ Cardinality(Ofs(queue)) \in Nat /\ Cardinality(FileOfs(queue)) \in Nat
      /\ Len(links) \in Nat /\ Len(todo) \in Nat
      /\ reserved.entries \in Nat /\ reserved.bytes \in Nat
      /\ InHand \in {0, 1} /\ FileInHand \in {0, 1}
  BY BudgetNumbers
<1>2. UNCHANGED <<written, queue, links, count, reserved, plan>> /\ pc \in Reading
  BY DEF Finish, batch, planner, Reading
<1>3. pc' \in {"link", "failed"} /\ (todo' = todo \/ Len(todo') = Len(links))
  BY DEF Finish, OrderFound
<1>4. FileInHand' = 0 /\ InHand' = 0 /\ pc' \notin Reading \cup Writing
  BY <1>3 DEF FileInHand, InHand, One, Writing, Reading
<1>5. Cardinality(written) + Len(todo') =< reserved.entries
  <2>1. Cardinality(written) + Len(links) + Cardinality(Ofs(queue)) + InHand =< reserved.entries
    BY <1>2 DEF BudgetInv
  <2>2. InHand \in Nat /\ InHand =< InHand /\ reserved.entries =< reserved.entries
    BY <1>1
  <2>3. Cardinality(written) + Len(links) =< reserved.entries
    <3> DEFINE w == Cardinality(written)
               s == Len(links)
               o == Cardinality(Ofs(queue))
               h == InHand
               m == reserved.entries
    <3>1. w \in Nat /\ s \in Nat /\ o \in Nat /\ h \in Nat /\ m \in Nat
      BY <1>1, <2>2
    <3>2. w + s + o + h =< m
      BY <2>1
    <3> HIDE DEF w, s, o, h, m
    <3>3. w + s =< m
      BY <3>1, <3>2
    <3> QED
      BY <3>3 DEF w, s, o, h, m
  <2>4. Cardinality(written) + Len(todo) =< reserved.entries
    BY DEF BudgetInv
  <2> QED
    BY <2>3, <2>4, <1>3
<1>6. Cardinality(PlacedFiles(written, links)) + Cardinality(FileOfs(queue)) + 0 =< reserved.bytes
  <2> DEFINE p == Cardinality(PlacedFiles(written, links))
             f == Cardinality(FileOfs(queue))
             h == FileInHand
             m == reserved.bytes
  <2>1. p \in Nat /\ f \in Nat /\ h \in Nat /\ m \in Nat
    BY <1>1
  <2>2. p + f + h =< m
    BY DEF BudgetInv
  <2> HIDE DEF p, f, h, m
  <2>3. p + f + 0 =< m
    BY <2>1, <2>2
  <2> QED
    BY <2>3 DEF p, f, h, m
<1> QED
  BY <1>2, <1>4, <1>5, <1>6 DEF BudgetInv

\* Plan charges the entry it queues or takes in hand.
LEMMA PlanBudget ==
  ASSUME TypeInv, BudgetInv, NEW e \in archive, NEW d, PlanStep(e, d)
  PROVE  BudgetInv'
<1>1. /\ Cardinality(written) \in Nat /\ Cardinality(PlacedFiles(written, links)) \in Nat
      /\ Cardinality(Ofs(queue)) \in Nat /\ Cardinality(FileOfs(queue)) \in Nat
      /\ Len(links) \in Nat /\ Len(todo) \in Nat /\ count \in Nat
      /\ reserved.entries \in Nat /\ reserved.bytes \in Nat /\ queue \in Seq(QueueRec)
  BY BudgetNumbers
<1>2. /\ e \in Entry /\ Decision(e, d) \in DecisionRec /\ count + 1 \in 1 .. ArchiveSize
      /\ archive \subseteq Entry
  BY PlanFacts DEF TypeInv, SettingsInv
<1>3. UNCHANGED <<written, links, todo>> /\ pc = "read" /\ count' = count + 1
      /\ reserved' = [entries |-> reserved.entries + 1, bytes |-> reserved.bytes + Bytes(e)]
  BY DEF PlanStep, deferred
<1>4. Bytes(e) = One(e.kind = "file") /\ One(e.kind = "file") \in {0, 1}
  BY DEF Bytes, One
<1>5. reserved'.entries = reserved.entries + 1
      /\ reserved'.bytes = reserved.bytes + One(e.kind = "file")
  BY <1>3, <1>4
<1>6. InHand = 0 /\ FileInHand = 0 /\ pc \in Reading
  BY <1>3 DEF InHand, FileInHand, One, Writing, Reading
<1>7. /\ IsFiniteSet(written) /\ Rising(queue, count)
      /\ Cardinality(PlacedFiles(written, links)) + Cardinality(FileOfs(queue)) + 0 =< reserved.bytes
      /\ Cardinality(written) + Len(todo) =< reserved.entries
      /\ Cardinality(written) + Len(links) + Cardinality(Ofs(queue)) + 0 =< reserved.entries
  BY <1>6 DEF BudgetInv
<1>8. CASE pc' = pc /\ plan' = plan /\ queue' = Append(queue, [entry |-> e, of |-> count + 1])
  <2> DEFINE x == [entry |-> e, of |-> count + 1]
  <2>1. x \in QueueRec /\ x.of = count + 1 /\ x.entry = e
    BY <1>2 DEF QueueRec
  <2> HIDE DEF x
  <2>2. queue' = Append(queue, x)
    BY <1>8 DEF x
  <2>3. /\ Cardinality(Ofs(queue')) =< Cardinality(Ofs(queue)) + 1
        /\ Cardinality(FileOfs(queue')) =< Cardinality(FileOfs(queue)) + One(e.kind = "file")
        /\ Rising(queue', count + 1)
    BY <2>1, <2>2, <1>1, <1>7, OfsAppend
  <2>4. InHand' = 0 /\ FileInHand' = 0
    BY <1>3, <1>8 DEF InHand, FileInHand, One, Writing
  <2>5. queue' \in Seq(QueueRec)
    BY <2>1, <2>2, <1>1
  <2>6. Cardinality(Ofs(queue')) \in Nat /\ Cardinality(FileOfs(queue')) \in Nat
    BY <2>5, OfsFinite
  <2>7. Cardinality(PlacedFiles(written, links)) + Cardinality(FileOfs(queue')) + 0 =< reserved'.bytes
    <3> DEFINE a == Cardinality(PlacedFiles(written, links))
               b == Cardinality(FileOfs(queue))
               c == Cardinality(FileOfs(queue'))
               o == One(e.kind = "file")
               m == reserved.bytes
    <3>1. a \in Nat /\ b \in Nat /\ c \in Nat /\ o \in Nat /\ m \in Nat
      BY <1>1, <1>4, <2>6
    <3>2. a + b + 0 =< m /\ c =< b + o /\ reserved'.bytes = m + o
      BY <1>5, <1>7, <2>3
    <3> HIDE DEF a, b, c, o, m
    <3>3. a + c + 0 =< reserved'.bytes
      BY <3>1, <3>2
    <3> QED
      BY <3>3 DEF a, c
  <2>8. Cardinality(written) + Len(links) + Cardinality(Ofs(queue')) + 0 =< reserved'.entries
    <3> DEFINE a == Cardinality(written)
               n == Len(links)
               b == Cardinality(Ofs(queue))
               c == Cardinality(Ofs(queue'))
               m == reserved.entries
    <3>1. a \in Nat /\ n \in Nat /\ b \in Nat /\ c \in Nat /\ m \in Nat
      BY <1>1, <2>6
    <3>2. a + n + b + 0 =< m /\ c =< b + 1 /\ reserved'.entries = m + 1
      BY <1>5, <1>7, <2>3
    <3> HIDE DEF a, n, b, c, m
    <3>3. a + n + c + 0 =< reserved'.entries
      BY <3>1, <3>2
    <3> QED
      BY <3>3 DEF a, n, c
  <2>9. Cardinality(written) + Len(todo) =< reserved'.entries
    BY <1>1, <1>5, <1>7
  <2> QED
    BY <2>3, <2>4, <2>7, <2>8, <2>9, <1>3, <1>7 DEF BudgetInv
<1>9. CASE TakeUp(e, count + 1, Decision(e, d)) /\ UNCHANGED batch
  <2>1. pc' \in Writing /\ plan'.entry = e
    BY <1>2, <1>9, TakeUpTypes
  <2>2. InHand' = 1 /\ FileInHand' = One(e.kind = "file")
    BY <2>1 DEF InHand, FileInHand, One
  <2>3. queue' = queue
    BY <1>9 DEF batch
  <2>4. Rising(queue, count + 1)
    <3>1. count \in Nat /\ count + 1 \in Nat /\ count =< count + 1
      BY <1>1
    <3> QED
      BY <3>1, <1>1, <1>7, RisingOn
  <2>5. Cardinality(PlacedFiles(written, links)) + Cardinality(FileOfs(queue)) + One(e.kind = "file") =< reserved'.bytes
    <3> DEFINE p == Cardinality(PlacedFiles(written, links))
               f == Cardinality(FileOfs(queue))
               o == One(e.kind = "file")
               m == reserved.bytes
    <3>1. p \in Nat /\ f \in Nat /\ o \in Nat /\ m \in Nat
      BY <1>1, <1>4
    <3>2. p + f + 0 =< m /\ reserved'.bytes = m + o
      BY <1>5, <1>7
    <3> HIDE DEF p, f, o, m
    <3>3. p + f + o =< reserved'.bytes
      BY <3>1, <3>2
    <3> QED
      BY <3>3 DEF p, f, o
  <2>6. Cardinality(written) + Len(links) + Cardinality(Ofs(queue)) + 1 =< reserved'.entries
    <3> DEFINE w == Cardinality(written)
               n == Len(links)
               o == Cardinality(Ofs(queue))
               m == reserved.entries
    <3>1. w \in Nat /\ n \in Nat /\ o \in Nat /\ m \in Nat
      BY <1>1
    <3>2. w + n + o + 0 =< m /\ reserved'.entries = m + 1
      BY <1>5, <1>7
    <3> HIDE DEF w, n, o, m
    <3>3. w + n + o + 1 =< reserved'.entries
      BY <3>1, <3>2
    <3> QED
      BY <3>3 DEF w, n, o
  <2>7. Cardinality(written) + Len(todo) =< reserved'.entries
    BY <1>1, <1>5, <1>7
  <2> QED
    BY <2>2, <2>3, <2>4, <2>5, <2>6, <2>7, <1>3, <1>7 DEF BudgetInv
<1> QED
  BY <1>8, <1>9 DEF PlanStep

\* TakeNext moves the charge from the queue to the hand.
LEMMA TakeNextBudget ==
  ASSUME TypeInv, BudgetInv, TakeNext
  PROVE  BudgetInv'
<1>1. /\ Cardinality(written) \in Nat /\ Cardinality(PlacedFiles(written, links)) \in Nat
      /\ Cardinality(Ofs(queue)) \in Nat /\ Cardinality(FileOfs(queue)) \in Nat
      /\ Len(links) \in Nat /\ Len(todo) \in Nat /\ count \in Nat
      /\ reserved.entries \in Nat /\ reserved.bytes \in Nat /\ queue \in Seq(QueueRec)
  BY BudgetNumbers
<1>2. PICK q : q = Head(queue)
  OBVIOUS
<1>3. queue # <<>> /\ archive \subseteq Entry /\ 1 \in 1 .. Len(queue) /\ q = queue[1]
      /\ pc \in Reading
  BY <1>1, <1>2 DEF TypeInv, SettingsInv, TakeNext, Reading
<1>4. q \in QueueRec /\ q.entry \in archive /\ q.entry.path \in DOMAIN decided
  BY <1>1, <1>3 DEF TypeInv, BatchInv
<1>5. q.of \in 1 .. ArchiveSize /\ decided[q.entry.path] \in DecisionRec
  BY <1>4 DEF TypeInv, BatchInv, QueueRec
<1>6. TakeUp(q.entry, q.of, decided[q.entry.path])
  BY <1>2 DEF TakeNext
<1>7. pc' \in Writing /\ plan'.entry = q.entry
  BY <1>3, <1>4, <1>5, <1>6, TakeUpTypes
<1>8. UNCHANGED <<written, links, todo, count, reserved>> /\ queue' = Tail(queue)
  BY DEF TakeNext, deferred, planner
<1>9. InHand' = 1 /\ FileInHand' = One(q.entry.kind = "file")
      /\ One(q.entry.kind = "file") \in {0, 1}
  BY <1>7 DEF InHand, FileInHand, One
<1>10. InHand = 0 /\ FileInHand = 0
  BY <1>3 DEF InHand, FileInHand, One, Reading, Writing
<1>11. /\ IsFiniteSet(written) /\ Rising(queue, count)
       /\ Cardinality(PlacedFiles(written, links)) + Cardinality(FileOfs(queue)) + 0 =< reserved.bytes
       /\ Cardinality(written) + Len(todo) =< reserved.entries
       /\ Cardinality(written) + Len(links) + Cardinality(Ofs(queue)) + 0 =< reserved.entries
  BY <1>3, <1>10 DEF BudgetInv
<1>12. /\ Cardinality(Ofs(queue')) + 1 =< Cardinality(Ofs(queue))
       /\ Cardinality(FileOfs(queue')) + One(q.entry.kind = "file") =< Cardinality(FileOfs(queue))
       /\ Rising(queue', count)
  BY <1>1, <1>2, <1>3, <1>8, <1>11, OfsTail
<1>13. queue' \in Seq(QueueRec)
  BY <1>1, <1>3, <1>8
<1>14. Cardinality(Ofs(queue')) \in Nat /\ Cardinality(FileOfs(queue')) \in Nat
  BY <1>13, OfsFinite
<1>15. Cardinality(PlacedFiles(written, links)) + Cardinality(FileOfs(queue')) + One(q.entry.kind = "file") =< reserved.bytes
  <2> DEFINE a == Cardinality(PlacedFiles(written, links))
             b == Cardinality(FileOfs(queue))
             c == Cardinality(FileOfs(queue'))
             o == One(q.entry.kind = "file")
             m == reserved.bytes
  <2>1. a \in Nat /\ b \in Nat /\ c \in Nat /\ o \in Nat /\ m \in Nat
    BY <1>1, <1>9, <1>14
  <2>2. a + b + 0 =< m /\ c + o =< b
    BY <1>11, <1>12
  <2> HIDE DEF a, b, c, o, m
  <2>3. a + c + o =< m
    BY <2>1, <2>2
  <2> QED
    BY <2>3 DEF a, c, o, m
<1>16. Cardinality(written) + Len(links) + Cardinality(Ofs(queue')) + 1 =< reserved.entries
  <2> DEFINE w == Cardinality(written)
             n == Len(links)
             o == Cardinality(Ofs(queue))
             c == Cardinality(Ofs(queue'))
             m == reserved.entries
  <2>1. w \in Nat /\ n \in Nat /\ o \in Nat /\ c \in Nat /\ m \in Nat
    BY <1>1, <1>14
  <2>2. w + n + o + 0 =< m /\ c + 1 =< o
    BY <1>11, <1>12
  <2> HIDE DEF w, n, o, c, m
  <2>3. w + n + c + 1 =< m
    BY <2>1, <2>2
  <2> QED
    BY <2>3 DEF w, n, o, c, m
<1> QED
  BY <1>8, <1>9, <1>11, <1>12, <1>15, <1>16 DEF BudgetInv

\* Place moves the charge from the hand to what is written or put off.
LEMMA PlaceBudget ==
  ASSUME TypeInv, BudgetInv, Place
  PROVE  BudgetInv'
<1>0. pc \in Writing /\ Placed /\ pc = "place"
  BY PlaceCases DEF PutOff, PutNode, PutNothing, Placed, Writing
<1>1. /\ Cardinality(written) \in Nat /\ Cardinality(PlacedFiles(written, links)) \in Nat
      /\ Cardinality(Ofs(queue)) \in Nat /\ Cardinality(FileOfs(queue)) \in Nat
      /\ Len(links) \in Nat /\ Len(todo) \in Nat /\ count \in Nat /\ IsFiniteSet(written)
      /\ reserved.entries \in Nat /\ reserved.bytes \in Nat /\ queue \in Seq(QueueRec)
  BY BudgetNumbers
<1>2. UNCHANGED <<count, queue, reserved, todo>> /\ todo = <<>>
  BY <1>0 DEF Placed, planner, batch, TypeInv, DeferredInv
<1>3. pc' \notin Writing
  BY PlaceCases DEF PutOff, PutNode, PutNothing, Ready, Writing
<1>4. InHand' = 0 /\ FileInHand' = 0 /\ InHand = 1 /\ FileInHand = One(plan.entry.kind = "file")
      /\ One(plan.entry.kind = "file") \in {0, 1} /\ Len(todo) = 0
  BY <1>0, <1>2, <1>3 DEF InHand, FileInHand, One
<1>5. /\ Rising(queue, count)
      /\ Cardinality(PlacedFiles(written, links)) + Cardinality(FileOfs(queue)) + One(plan.entry.kind = "file") =< reserved.bytes
      /\ Cardinality(written) + Len(links) + Cardinality(Ofs(queue)) + 1 =< reserved.entries
  BY <1>0, <1>4 DEF BudgetInv
<1>6. CASE PutOff
  <2>1. written' = written /\ Len(links') = Len(links) + 1
    BY <1>6 DEF PutOff, TypeInv, DeferredInv
  <2>2. PlacedFiles(written, links') \in SUBSET PlacedFiles(written, links)
    <3> DEFINE l == [path |-> plan.entry.path, source |-> plan.entry.target, dest |-> plan.dest,
                     replace |-> plan.replace]
    <3>1. links' = Append(links, l) /\ links \in Seq(LinkRec)
      BY <1>6 DEF PutOff, TypeInv, DeferredInv
    <3> HIDE DEF l
    <3>2. \A i \in DOMAIN links : i \in DOMAIN links' /\ links'[i] = links[i]
      BY <3>1
    <3> QED
      BY <3>2 DEF PlacedFiles
  <2>3. IsFiniteSet(PlacedFiles(written, links))
    BY <1>1, PlacedFinite
  <2>4. Cardinality(PlacedFiles(written, links')) =< Cardinality(PlacedFiles(written, links))
    BY <2>2, <2>3, FS_Subset
  <2>5. Cardinality(PlacedFiles(written, links')) \in Nat
    BY <1>1, PlacedFinite
  <2>6. Cardinality(PlacedFiles(written, links')) + Cardinality(FileOfs(queue)) + 0 =< reserved.bytes
    <3> DEFINE p == Cardinality(PlacedFiles(written, links))
               q == Cardinality(PlacedFiles(written, links'))
               f == Cardinality(FileOfs(queue))
               h == One(plan.entry.kind = "file")
               m == reserved.bytes
    <3>1. p \in Nat /\ q \in Nat /\ f \in Nat /\ h \in Nat /\ m \in Nat
      BY <1>1, <1>4, <2>5
    <3>2. p + f + h =< m /\ q =< p
      BY <1>5, <2>4
    <3> HIDE DEF p, q, f, h, m
    <3>3. q + f + 0 =< m
      BY <3>1, <3>2
    <3> QED
      BY <3>3 DEF p, q, f, h, m
  <2>7. Cardinality(written) + Len(links') + Cardinality(Ofs(queue)) + 0 =< reserved.entries
    <3> DEFINE w == Cardinality(written)
               n == Len(links)
               o == Cardinality(Ofs(queue))
               m == reserved.entries
    <3>1. w \in Nat /\ n \in Nat /\ o \in Nat /\ m \in Nat
      BY <1>1
    <3>2. w + n + o + 1 =< m /\ Len(links') = n + 1
      BY <2>1, <1>5
    <3> HIDE DEF w, n, o, m
    <3>3. w + Len(links') + o + 0 =< m
      BY <3>1, <3>2
    <3> QED
      BY <3>3 DEF w, n, o, m
  <2>8. Cardinality(written) + Len(todo) =< reserved.entries
    <3> DEFINE w == Cardinality(written)
               n == Len(links)
               o == Cardinality(Ofs(queue))
               m == reserved.entries
    <3>1. w \in Nat /\ n \in Nat /\ o \in Nat /\ m \in Nat
      BY <1>1
    <3>2. w + n + o + 1 =< m /\ Len(todo) = 0
      BY <1>4, <1>5
    <3> HIDE DEF w, n, o, m
    <3>3. w + Len(todo) =< m
      BY <3>1, <3>2
    <3> QED
      BY <3>3 DEF w, n, o, m
  <2> QED
    BY <2>1, <2>6, <2>7, <2>8, <1>1, <1>2, <1>4, <1>5 DEF BudgetInv
<1>7. CASE PutNode
  <2> DEFINE x == [path |-> plan.entry.path, dest |-> plan.dest, node |-> PlanNode]
  <2>1. written' = written \cup {x} /\ links' = links /\ x.node = PlanNode
    BY <1>7 DEF PutNode
  <2> HIDE DEF x
  <2>2. /\ IsFiniteSet(written') /\ Cardinality(written') \in Nat
        /\ Cardinality(written') =< Cardinality(written) + 1
    BY <2>1, <1>1, AddOne
  <2>3. Cardinality(written') + Len(links) + Cardinality(Ofs(queue)) + 0 =< reserved.entries
    <3> DEFINE w == Cardinality(written)
               v == Cardinality(written')
               n == Len(links)
               o == Cardinality(Ofs(queue))
               m == reserved.entries
    <3>1. w \in Nat /\ v \in Nat /\ n \in Nat /\ o \in Nat /\ m \in Nat
      BY <1>1, <2>2
    <3>2. w + n + o + 1 =< m /\ v =< w + 1
      BY <2>2, <1>5
    <3> HIDE DEF w, v, n, o, m
    <3>3. v + n + o + 0 =< m
      BY <3>1, <3>2
    <3> QED
      BY <3>3 DEF w, v, n, o, m
  <2>4. Cardinality(written') + Len(todo) =< reserved.entries
    <3> DEFINE w == Cardinality(written)
               v == Cardinality(written')
               n == Len(links)
               o == Cardinality(Ofs(queue))
               m == reserved.entries
    <3>1. w \in Nat /\ v \in Nat /\ n \in Nat /\ o \in Nat /\ m \in Nat
      BY <1>1, <2>2
    <3>2. w + n + o + 1 =< m /\ v =< w + 1 /\ Len(todo) = 0
      BY <2>2, <1>4, <1>5
    <3> HIDE DEF w, v, n, o, m
    <3>3. v + Len(todo) =< m
      BY <3>1, <3>2
    <3> QED
      BY <3>3 DEF w, v, n, o, m
  <2>5. Cardinality(PlacedFiles(written', links)) + Cardinality(FileOfs(queue)) + 0 =< reserved.bytes
    <3>0. Cardinality(PlacedFiles(written', links)) \in Nat
          /\ IsFiniteSet(PlacedFiles(written, links))
      BY <2>2, <1>1, PlacedFinite
    <3>1. CASE plan.entry.kind = "file"
      <4>1. PlacedFiles(written', links) \in SUBSET (PlacedFiles(written, links) \cup {x})
        BY <2>1 DEF PlacedFiles
      <4>2. /\ IsFiniteSet(PlacedFiles(written, links) \cup {x})
            /\ Cardinality(PlacedFiles(written, links) \cup {x}) \in Nat
            /\ Cardinality(PlacedFiles(written, links) \cup {x}) =< Cardinality(PlacedFiles(written, links)) + 1
        BY <3>0, AddOne
      <4>3. Cardinality(PlacedFiles(written', links)) =< Cardinality(PlacedFiles(written, links) \cup {x})
        BY <4>1, <4>2, FS_Subset
      <4>4. One(plan.entry.kind = "file") = 1
        BY <3>1 DEF One
      <4> QED
        <5> DEFINE p == Cardinality(PlacedFiles(written, links))
                   q == Cardinality(PlacedFiles(written', links))
                   f == Cardinality(FileOfs(queue))
                   m == reserved.bytes
        <5>1. p \in Nat /\ q \in Nat /\ f \in Nat /\ m \in Nat
          BY <1>1, <3>0
        <5>2. p + f + 1 =< m
          BY <1>5, <4>4
        <5> HIDE DEF p, q, f, m
        <5>3. q =< p + 1 => q + f + 0 =< m
          BY <5>1, <5>2
        <5>4. q =< p + 1
          BY <4>2, <4>3, <1>1, <3>0 DEF p, q
        <5> QED
          BY <5>3, <5>4 DEF q, f, m
    <3>2. CASE plan.entry.kind # "file"
      <4>1. x.node.kind # "file"
        BY <2>1, <3>2, NodeFacts DEF PlanNode
      <4>2. PlacedFiles(written', links) = PlacedFiles(written, links)
        BY <2>1, <4>1 DEF PlacedFiles
      <4>3. Cardinality(PlacedFiles(written, links)) + Cardinality(FileOfs(queue)) + 0 =< reserved.bytes
        <5> DEFINE p == Cardinality(PlacedFiles(written, links))
                   f == Cardinality(FileOfs(queue))
                   h == One(plan.entry.kind = "file")
                   m == reserved.bytes
        <5>1. p \in Nat /\ f \in Nat /\ h \in Nat /\ m \in Nat
          BY <1>1, <1>4
        <5>2. p + f + h =< m
          BY <1>5
        <5> HIDE DEF p, f, h, m
        <5>3. p + f + 0 =< m
          BY <5>1, <5>2
        <5> QED
          BY <5>3 DEF p, f, h, m
      <4> QED
          BY <4>2, <4>3
    <3> QED
      BY <3>1, <3>2
  <2> QED
    BY <2>1, <2>2, <2>3, <2>4, <2>5, <1>2, <1>4, <1>5 DEF BudgetInv
<1>8. CASE PutNothing
  <2>1. written' = written /\ links' = links /\ pc' = "failed"
    BY <1>8 DEF PutNothing
  <2>2. pc' \notin Reading
    BY <2>1 DEF Reading
  <2>3. count =< count /\ reserved.entries =< reserved.entries
    BY <1>1
  <2> QED
    BY <2>1, <2>2, <2>3, <1>1, <1>2, <1>3, BudgetStays
<1> QED
  BY <1>6, <1>7, <1>8, PlaceCases

\* MakeLink moves the charge from the links to what is written.
LEMMA MakeLinkBudget ==
  ASSUME TypeInv, BudgetInv, MakeLink
  PROVE  BudgetInv'
<1>1. /\ Cardinality(written) \in Nat /\ Cardinality(PlacedFiles(written, links)) \in Nat
      /\ Cardinality(Ofs(queue)) \in Nat /\ Cardinality(FileOfs(queue)) \in Nat
      /\ Len(links) \in Nat /\ Len(todo) \in Nat /\ count \in Nat /\ IsFiniteSet(written)
      /\ reserved.entries \in Nat /\ reserved.bytes \in Nat /\ queue \in Seq(QueueRec)
  BY BudgetNumbers
<1>2. PICK h, l : h = Head(todo) /\ l = links[h]
  OBVIOUS
<1>3. LinkPhase /\ LinkRest /\ (Made(l) \/ NotMade(l))
  BY <1>2, MakeLinkCases DEF Made, NotMade
<1>4. h \in DOMAIN links
  BY <1>2, <1>3, HeadLink
<1>5. UNCHANGED <<count, queue, reserved, links, plan>> /\ pc' \in {"link", "failed"}
      /\ pc = "link"
  BY <1>3 DEF LinkRest, Made, NotMade, LinkPhase, batch, planner
<1>6. pc' \notin Reading \cup Writing
  BY <1>5 DEF Reading, Writing
<1>7. CASE NotMade(l)
  <2>1. written' = written /\ todo' = todo
    BY <1>7 DEF NotMade
  <2>2. count =< count /\ reserved.entries =< reserved.entries
    BY <1>1
  <2> QED
    BY <2>1, <2>2, <1>1, <1>5, <1>6, BudgetStays
<1>8. CASE Made(l)
  <2> DEFINE x == [path |-> l.path, dest |-> l.dest, node |-> Cleared(l)[l.source]]
  <2>1. written' = written \cup {x} /\ todo' = Tail(todo) /\ todo # <<>> /\ x.dest = l.dest
    BY <1>3, <1>8 DEF Made, LinkPhase
  <2> HIDE DEF x
  <2>2. /\ IsFiniteSet(written') /\ Cardinality(written') \in Nat
        /\ Cardinality(written') =< Cardinality(written) + 1
    BY <2>1, <1>1, AddOne
  <2>3. Len(todo') = Len(todo) - 1 /\ todo \in Seq(1 .. Len(links))
    BY <2>1 DEF TypeInv, DeferredInv
  <2>4. Cardinality(written') + Len(todo') =< reserved.entries
    <3> DEFINE w == Cardinality(written)
               v == Cardinality(written')
               t == Len(todo)
               m == reserved.entries
    <3>1. w \in Nat /\ v \in Nat /\ t \in Nat /\ m \in Nat
      BY <1>1, <2>2
    <3>2. w + t =< m /\ v =< w + 1 /\ Len(todo') = t - 1
      BY <2>2, <2>3 DEF BudgetInv
    <3> HIDE DEF w, v, t, m
    <3>3. v + Len(todo') =< m
      BY <3>1, <3>2
    <3> QED
      BY <3>3 DEF w, v, t, m
  <2>5. PlacedFiles(written', links) = PlacedFiles(written, links)
    BY <2>1, <1>2, <1>4 DEF PlacedFiles
  <2>6. FileInHand' = 0 /\ FileInHand \in {0, 1}
    BY <1>6 DEF FileInHand, One
  <2>7. Cardinality(PlacedFiles(written, links)) + Cardinality(FileOfs(queue)) + 0 =< reserved.bytes
    <3> DEFINE p == Cardinality(PlacedFiles(written, links))
               f == Cardinality(FileOfs(queue))
               g == FileInHand
               m == reserved.bytes
    <3>1. p \in Nat /\ f \in Nat /\ g \in Nat /\ m \in Nat
      BY <1>1, <2>6
    <3>2. p + f + g =< m
      BY DEF BudgetInv
    <3> HIDE DEF p, f, g, m
    <3>3. p + f + 0 =< m
      BY <3>1, <3>2
    <3> QED
      BY <3>3 DEF p, f, g, m
  <2>8. Rising(queue, count)
    BY DEF BudgetInv
  <2> QED
    BY <2>2, <2>4, <2>5, <2>6, <2>7, <2>8, <1>5, <1>6 DEF BudgetInv
<1> QED
  BY <1>3, <1>7, <1>8

\* Every step keeps BudgetInv.
LEMMA StepBudget ==
  ASSUME TypeInv, BudgetInv, [Next]_vars
  PROVE  BudgetInv'
  BY QuietBudget, FinishBudget, PlanIsStep, PlanBudget, TakeNextBudget, PlaceBudget,
     MakeLinkBudget DEF Next

-----------------------------------------------------------------------------
(* The directories are stamped.                                            *)

\* Keys of different rows of width w do not overlap.
LEMMA RowsApart ==
  ASSUME NEW w \in Nat, NEW a \in Nat, NEW b \in Nat, a < b
  PROVE  a * w \in Nat /\ b * w \in Nat /\ a * w + w =< b * w
<1>1. PICK c \in Nat : b = a + 1 + c
  <2>1. b - a - 1 \in Nat /\ b = a + 1 + (b - a - 1)
    OBVIOUS
  <2> QED
    BY <2>1
<1>2. b * w = a * w + w + c * w
  BY <1>1
<1>3. a * w \in Nat /\ c * w \in Nat
  OBVIOUS
<1> QED
  BY <1>2, <1>3

(* Positions can be sorted by depth, the deepest first, and then by position:  *)
(* they have the order of the keys (N - depth) * (n + 1) + position.           *)
LEMMA SortedExists ==
  ASSUME NEW n \in Nat, NEW N \in Nat, NEW dep \in [1 .. n -> 0 .. N]
  PROVE  \E s \in [1 .. n -> 1 .. n] : \A i, j \in 1 .. n :
            i < j => dep[s[i]] > dep[s[j]] \/ (dep[s[i]] = dep[s[j]] /\ s[i] < s[j])
<1> DEFINE w == n + 1
           row == [i \in 1 .. n |-> N - dep[i]]
           f == [i \in 1 .. n |-> row[i] * w + i]
           S == {f[i] : i \in 1 .. n}
<1>1. w \in Nat /\ \A i \in 1 .. n : i \in Nat /\ i < w /\ i > 0
  OBVIOUS
<1>2. \A i \in 1 .. n : dep[i] \in Nat /\ row[i] \in Nat /\ row[i] = N - dep[i]
      /\ row[i] < N + 1
  OBVIOUS
<1>3. \A i \in 1 .. n : f[i] = row[i] * w + i
  OBVIOUS
<1> HIDE DEF w, row
<1>4. \A i, j \in 1 .. n : row[i] < row[j] => f[i] < f[j]
  <2> SUFFICES ASSUME NEW i \in 1 .. n, NEW j \in 1 .. n, row[i] < row[j] PROVE f[i] < f[j]
    OBVIOUS
  <2>1. row[i] * w \in Nat /\ row[j] * w \in Nat /\ row[i] * w + w =< row[j] * w
    BY <1>1, <1>2, RowsApart
  <2>2. PICK x \in Nat, y \in Nat : x = row[i] * w /\ y = row[j] * w
    BY <2>1
  <2>3. f[i] = x + i /\ f[j] = y + j /\ x + w =< y
    BY <2>1, <2>2, <1>3
  <2>4. i \in Nat /\ j \in Nat /\ w \in Nat /\ i < w /\ j > 0
    BY <1>1
  <2> HIDE DEF f
  <2> QED
    BY <2>3, <2>4
<1>5. ASSUME NEW i \in 1 .. n PROVE f[i] \in 1 .. (N + 1) * w
  <2>1. row[i] * w \in Nat /\ (N + 1) * w \in Nat /\ row[i] * w + w =< (N + 1) * w
    <3>1. N + 1 \in Nat /\ row[i] \in Nat /\ row[i] < N + 1
      BY <1>2, <1>5
    <3> QED
      BY <3>1, <1>1, RowsApart
  <2>2. PICK x \in Nat, y \in Nat : x = row[i] * w /\ y = (N + 1) * w
    BY <2>1
  <2>3. f[i] = x + i /\ x + w =< y
    BY <2>1, <2>2, <1>3
  <2>4. i \in Nat /\ w \in Nat /\ i < w /\ i > 0
    BY <1>1
  <2>5. x + i \in 1 .. y
    BY <2>3, <2>4
  <2> HIDE DEF f
  <2> QED
    BY <2>2, <2>3, <2>5
<1>6. ASSUME NEW i \in 1 .. n, NEW j \in 1 .. n, row[i] = row[j]
      PROVE  (f[i] < f[j] => i < j) /\ (f[i] = f[j] => i = j)
  <2>1. row[i] * w \in Nat
    BY <1>1, <1>2
  <2> HIDE DEF f
  <2> QED
    BY <2>1, <1>3, <1>6
<1>7. \A i \in 1 .. n : f[i] \in Nat
  <2>1. (N + 1) * w \in Nat
    BY <1>1
  <2>2. \A m \in 1 .. (N + 1) * w : m \in Nat
    BY <2>1
  <2> HIDE DEF f
  <2> QED
    BY <2>2, <1>5
<1>8. f \in [1 .. n -> S]
  OBVIOUS
<1> HIDE DEF f
<1>9. \A i, j \in 1 .. n : f[i] = f[j] => i = j
  BY <1>2, <1>4, <1>6, <1>7
<1>10. \A i, j \in 1 .. n : f[i] < f[j] => dep[i] > dep[j] \/ (dep[i] = dep[j] /\ i < j)
  <2> SUFFICES ASSUME NEW i \in 1 .. n, NEW j \in 1 .. n, f[i] < f[j]
               PROVE  dep[i] > dep[j] \/ (dep[i] = dep[j] /\ i < j)
    OBVIOUS
  <2>1. ~ (row[j] < row[i])
    <3>1. row[j] < row[i] => f[j] < f[i]
      BY <1>4
    <3> QED
      BY <3>1, <1>7
  <2>2. row[i] = row[j] => i < j
    BY <1>6
  <2>3. row[i] = N - dep[i] /\ row[j] = N - dep[j] /\ dep[i] \in Nat /\ dep[j] \in Nat
    BY <1>2
  <2> QED
    BY <2>1, <2>2, <2>3
<1>11. Cardinality(S) = n
  <2>1. f \in Surjection(1 .. n, S) /\ f \in Injection(1 .. n, S)
    BY <1>8, <1>9 DEF Surjection, Injection, IsInjective
  <2>2. IsFiniteSet(1 .. n) /\ Cardinality(1 .. n) = n
    BY UpTo
  <2> HIDE DEF S
  <2> QED
    BY <2>1, <2>2, FS_Surjection
<1>12. S \in SUBSET (1 .. (N + 1) * w) /\ (N + 1) * w \in Nat
  BY <1>1, <1>5
<1> HIDE DEF S
<1>13. PICK t : Ascending(S, t)
  BY <1>12, AscendingExists
<1>14. t \in [1 .. n -> S] /\ \A a, b \in 1 .. n : a < b => t[a] < t[b]
  BY <1>11, <1>13 DEF Ascending
<1> DEFINE s == [a \in 1 .. n |-> CHOOSE i \in 1 .. n : f[i] = t[a]]
<1>15. \A a \in 1 .. n : s[a] \in 1 .. n /\ f[s[a]] = t[a]
  BY <1>14 DEF S
<1>16. s \in [1 .. n -> 1 .. n]
  BY <1>15
<1> HIDE DEF s
<1>17. ASSUME NEW i \in 1 .. n, NEW j \in 1 .. n, i < j
       PROVE  dep[s[i]] > dep[s[j]] \/ (dep[s[i]] = dep[s[j]] /\ s[i] < s[j])
  <2>1. t[i] < t[j]
    BY <1>14, <1>17
  <2>2. s[i] \in 1 .. n /\ s[j] \in 1 .. n /\ f[s[i]] < f[s[j]]
    BY <2>1, <1>15
  <2> QED
    BY <2>2, <1>10
<1> QED
  BY <1>16, <1>17

\* The directories to be stamped, and how they are stamped.
LEMMA DirFacts ==
  ASSUME TypeInv
  PROVE  /\ Len(dirs) \in Nat /\ DOMAIN dirs = 1 .. Len(dirs)
         /\ \A i \in 1 .. Len(dirs) : dirs[i].path \in Path
         /\ backend.stamping \in {"none", "archive", "reverse", "deepest"}
         /\ backend.stamping = "none" => Len(dirs) = 0
<1>1. dirs \in Seq(DirRec) /\ backend \in Backend /\ (backend.stamping = "none" => dirs = <<>>)
  BY DEF TypeInv, DeferredInv, SettingsInv
<1>2. \A i \in 1 .. Len(dirs) : dirs[i] \in DirRec
  BY <1>1
<1>3. \A i \in 1 .. Len(dirs) : dirs[i].path \in Path
  BY <1>2 DEF DirRec
<1> QED
  BY <1>1, <1>3, BackendFacts DEF BackendOk

\* A directory above another is less deep.
LEMMA AboveIsShallower ==
  ASSUME NEW p \in Path, NEW q \in Path, p \in Above[q]
  PROVE  /\ Cardinality(Above[p]) \in Nat /\ Cardinality(Above[q]) \in Nat
         /\ Cardinality(Above[p]) < Cardinality(Above[q])
<1>1. IsFiniteSet(Above[q]) /\ IsFiniteSet(Above[p])
  BY PathAssumption, FS_Subset
<1>2. Above[p] \in SUBSET Above[q] /\ Above[p] # Above[q]
  BY PathAssumption
<1>3. Cardinality(Above[p]) \in Nat /\ Cardinality(Above[q]) \in Nat
  BY <1>1, FS_CardinalityType
<1>4. Cardinality(Above[p]) =< Cardinality(Above[q])
      /\ Cardinality(Above[p]) # Cardinality(Above[q])
  BY <1>1, <1>2, FS_Subset
<1> QED
  BY <1>3, <1>4

\* Where the deepest come first, StampOrder is such an order.
LEMMA DeepestFirst ==
  ASSUME TypeInv, backend.stamping = "deepest"
  PROVE  /\ StampOrder \in [1 .. Len(dirs) -> 1 .. Len(dirs)]
         /\ \A i, j \in 1 .. Len(dirs) : i < j => Deeper(StampOrder[i], StampOrder[j])
<1> DEFINE n == Len(dirs)
           N == Cardinality(Path)
           dep == [i \in 1 .. n |-> Depth(i)]
<1>1. n \in Nat /\ N \in Nat
  BY DirFacts, PathAssumption, FS_CardinalityType
<1>2. ASSUME NEW i \in 1 .. n PROVE Depth(i) \in 0 .. N
  <2>1. Above[dirs[i].path] \in SUBSET Path
    BY <1>2, DirFacts, PathAssumption
  <2>2. IsFiniteSet(Above[dirs[i].path]) /\ Cardinality(Above[dirs[i].path]) =< N
    BY <2>1, PathAssumption, FS_Subset
  <2>3. Cardinality(Above[dirs[i].path]) \in Nat
    BY <2>2, FS_CardinalityType
  <2> HIDE DEF N
  <2> QED
    BY <2>2, <2>3, <1>1 DEF Depth
<1>3. dep \in [1 .. n -> 0 .. N]
  BY <1>2
<1>4. \A i \in 1 .. n : dep[i] = Depth(i)
  OBVIOUS
<1> HIDE DEF dep, N
<1>5. \E s \in [1 .. n -> 1 .. n] : \A i, j \in 1 .. n :
         i < j => dep[s[i]] > dep[s[j]] \/ (dep[s[i]] = dep[s[j]] /\ s[i] < s[j])
  BY <1>1, <1>3, SortedExists
<1>6. \E s \in [1 .. n -> 1 .. n] : \A i, j \in 1 .. n : i < j => Deeper(s[i], s[j])
  BY <1>4, <1>5 DEF Deeper
<1>7. StampOrder = CHOOSE s \in [1 .. n -> 1 .. n] : \A i, j \in 1 .. n : i < j
      => Deeper(s[i], s[j])
  BY DEF StampOrder
<1> QED
  BY <1>6, <1>7

\* The archive has the directories in an unsuitable order.
Unsuited ==
  CASE backend.stamping = "reverse" -> \E a, b \in DOMAIN dirs : a < b /\ Within(a, b)
    [] backend.stamping = "archive" -> \E a, b \in DOMAIN dirs : b < a /\ Within(a, b)
    [] OTHER -> FALSE

\* Only then is a directory stamped before one below it.
LEMMA OutOfTurn ==
  ASSUME TypeInv, NEW j \in 1 .. Len(dirs), NEW k \in 1 .. Len(dirs), j < k,
         dirs[StampOrder[j]].path \in Above[dirs[StampOrder[k]].path]
  PROVE  Unsuited
<1>0. Len(dirs) \in Nat /\ DOMAIN dirs = 1 .. Len(dirs)
  BY DirFacts
<1>1. CASE backend.stamping = "reverse"
  <2>1. StampOrder = [i \in 1 .. Len(dirs) |-> Len(dirs) + 1 - i]
    BY <1>1 DEF StampOrder
  <2>2. StampOrder[j] = Len(dirs) + 1 - j /\ StampOrder[k] = Len(dirs) + 1 - k
    BY <2>1
  <2>3. StampOrder[j] \in DOMAIN dirs /\ StampOrder[k] \in DOMAIN dirs
        /\ StampOrder[k] < StampOrder[j]
    BY <2>2, <1>0
  <2> QED
    BY <2>3, <1>1 DEF Within, Unsuited
<1>2. CASE backend.stamping = "archive"
  <2>1. StampOrder = [i \in 1 .. Len(dirs) |-> i]
    BY <1>2 DEF StampOrder
  <2>2. StampOrder[j] = j /\ StampOrder[k] = k
    BY <2>1
  <2> QED
    BY <2>2, <1>0, <1>2 DEF Within, Unsuited
<1>3. CASE backend.stamping = "deepest"
  <2>1. StampOrder[j] \in 1 .. Len(dirs) /\ StampOrder[k] \in 1 .. Len(dirs)
        /\ Deeper(StampOrder[j], StampOrder[k])
    BY <1>3, DeepestFirst
  <2>2. Depth(StampOrder[j]) \in Nat /\ Depth(StampOrder[k]) \in Nat
        /\ Depth(StampOrder[j]) < Depth(StampOrder[k])
    BY <2>1, DirFacts, AboveIsShallower DEF Depth
  <2> QED
    BY <2>1, <2>2 DEF Deeper
<1>4. CASE backend.stamping = "none"
  <2>1. Len(dirs) = 0
    BY <1>4, DirFacts
  <2> QED
    BY <2>1
<1> QED
  BY <1>1, <1>2, <1>3, <1>4, DirFacts

\* The initial states satisfy StampingCompletes.
LEMMA InitStamping == Init => StampingCompletes
  BY DEF Init, StampingCompletes

\* Every step keeps StampingCompletes: only Stamp can shut itself out.
LEMMA StepStamping ==
  ASSUME TypeInv, StampingCompletes, [Next]_vars
  PROVE  StampingCompletes'
<1>1. CASE Stamp
  <2>1. CASE pc' = "shut"
    <3>1. dirs' = dirs /\ backend' = backend /\ stamped < Len(dirs) /\ stamped \in Nat
          /\ pc = "link"
      BY <1>1 DEF Stamp, settings, TypeInv, DeferredInv
    <3>2. Above[dirs[StampOrder[stamped + 1]].path] \cap Closed # {}
      BY <1>1, <2>1, <3>1 DEF Stamp
    <3>3. PICK j \in 1 .. stamped : dirs[StampOrder[j]].path \in Above[dirs[StampOrder[stamped + 1]].path]
      BY <3>2 DEF Closed
    <3>4. j \in 1 .. Len(dirs) /\ stamped + 1 \in 1 .. Len(dirs) /\ j < stamped + 1
      BY <3>1, DirFacts
    <3>5. Unsuited
      BY <3>3, <3>4, OutOfTurn
    <3> QED
      BY <3>1, <3>5 DEF StampingCompletes, Within, Unsuited
  <2>2. CASE pc' # "shut"
    BY <2>2 DEF StampingCompletes
  <2> QED
    BY <2>1, <2>2
<1>2. CASE UNCHANGED vars
  BY <1>2 DEF vars, deferred, settings, StampingCompletes, Within
<1>3. CASE MakeLink \/ Finish \/ Return \/ TakeNext \/ Open \/ Copied \/ Remove \/ Abort
  <2>1. pc' # "shut"
    BY <1>3 DEF MakeLink, Finish, Return, TakeNext, TakeUp, Open, Fail, Copied, Remove, Abort
  <2> QED
    BY <2>1 DEF StampingCompletes
<1>4. CASE Place
  <2>1. pc' # "shut"
    BY <1>4, PlaceCases DEF PutOff, PutNode, PutNothing, Ready
  <2> QED
    BY <2>1 DEF StampingCompletes
<1>5. CASE \E e \in archive : Skip(e) \/ SkipByPrompt(e) \/ Plan(e) \/ Refuse(e)
  <2>1. pc' # "shut"
    BY <1>5 DEF Skip, SkipByPrompt, Plan, Refuse, TakeUp
  <2> QED
    BY <2>1 DEF StampingCompletes
<1> QED
  BY <1>1, <1>2, <1>3, <1>4, <1>5 DEF Next

-----------------------------------------------------------------------------
(* The theorems.                                                           *)

\* The inductive invariant.
IInv ==
  /\ TypeInv /\ ConsentInv /\ GuardInv /\ LinkInv /\ BudgetInv
  /\ StampingCompletes

\* The inductive invariant holds throughout.
LEMMA Invariance == Spec => []IInv
<1>1. Init => IInv
  BY InitTypes, InitConsent, InitGuards, InitLinks, InitBudget, InitStamping DEF IInv
<1>2. IInv /\ [Next]_vars => IInv'
  BY StepTypes, StepConsent, StepGuards, StepLinks, StepBudget, StepStamping DEF IInv
<1> QED
  BY <1>1, <1>2, PTL DEF Spec

\* The counters of the planner stay within reserve_entry's and
\* reserve_expanded_size's limits and pay for every file and node on disk.
THEOREM ExtractionTypeOK == Spec => []TypeOK
<1>1. ASSUME IInv PROVE TypeOK
  <2>1. TypeInv /\ BudgetInv
    BY <1>1 DEF IInv
  <2>2. /\ disk \in [Path -> Node] /\ count \in 0 .. ArchiveSize
        /\ pc \in Writing \cup Reading \cup Ended
        /\ plan = NoPlan \/ (plan \in PlanRec /\ plan.entry \in archive)
        /\ seen \subseteq Keys /\ symlinks \subseteq Keys /\ required \subseteq Keys
        /\ \A p \in Path : renames[p] \in 1 .. Len(Candidate[p]) + 1
        /\ reserved.entries \in 0 .. limits.entries /\ reserved.bytes \in 0 .. limits.bytes
        /\ limits.entries \in Nat /\ limits.bytes \in Nat
    BY <2>1 DEF TypeInv, HandInv, PlannerInv, RenamesOk, SettingsInv
  <2>3. pc \in {"read", "write", "clear", "open", "copy", "remove", "place", "link", "ok",
                "failed", "refused", "shut"}
    BY <2>2 DEF Writing, Reading, Ended
  <2>4. plan = NoPlan \/ (plan.entry \in archive /\ plan.dest \in Path)
    BY <2>2 DEF PlanRec
  <2>5. seen \cup symlinks \cup required \subseteq {Key[p] : p \in Path}
    BY <2>2 DEF Keys
  <2>6. /\ Cardinality(PlacedFiles(written, links)) \in Nat
        /\ Cardinality(FileOfs(queue)) \in Nat
        /\ Cardinality(written) \in Nat /\ Len(todo) \in Nat /\ FileInHand \in Nat
        /\ reserved.entries \in Nat /\ reserved.bytes \in Nat
    BY <2>1, BudgetNumbers
  <2>7. Cardinality(PlacedFiles(written, links)) + Cardinality(FileOfs(queue)) + FileInHand
          =< reserved.bytes
    BY <2>1 DEF BudgetInv
  <2>8. Cardinality(written) + Len(todo) =< reserved.entries
    BY <2>1 DEF BudgetInv
  <2>9. reserved.bytes =< limits.bytes /\ reserved.entries =< limits.entries
    BY <2>2
  <2>10. Cardinality(PlacedFiles(written, links)) =< limits.bytes
    BY <2>2, <2>6, <2>7, <2>9
  <2>11. Cardinality(written) + Len(todo) =< limits.entries
    BY <2>2, <2>6, <2>8, <2>9
  <2> QED
    BY <2>2, <2>3, <2>4, <2>5, <2>10, <2>11 DEF TypeOK, PlacedFiles
<1> QED
  BY <1>1, Invariance, PTL

\* What the user had at the destination changes only with the caller's consent,
\* whatever fails half way; and a refused 7z extraction has written nothing.
THEOREM ExtractionKeepsUserFiles == Spec => []UserFilesKept
<1>1. IInv => UserFilesKept
  BY DEF IInv, ConsentInv, KeptAt, UserFilesKept
<1> QED
  BY <1>1, Invariance, PTL

\* Under Refuse and Rename no entry or deferred link disturbs an earlier one; and
\* a successful extraction has made every deferred link it could, each a second
\* name of the file at its source.
THEOREM ExtractionKeepsWhatItWrote == Spec => []WrittenIsKept
<1>1. ASSUME IInv PROVE WrittenIsKept
  <2>1. policy \in {"refuse", "rename"} => \A x \in written : disk[x.dest] = x.node
    BY <1>1 DEF IInv, ConsentInv
  <2>2. ASSUME pc = "ok", NEW i \in DOMAIN links PROVE Stands(i)
    <3>1. i \in 1 .. Len(links) /\ todo = <<>>
      BY <1>1, <2>2 DEF IInv, LinkInv, TypeInv, DeferredInv
    <3>2. ~ Has(todo, i)
      BY <3>1 DEF Has
    <3> QED
      BY <1>1, <2>2, <3>1, <3>2 DEF IInv, LinkInv
  <2> QED
    BY <2>1, <2>2 DEF WrittenIsKept, Stands
<1> QED
  BY <1>1, Invariance, PTL

\* No write and no deferred link goes through a symbolic link: what a plan relies
\* on (required_directories) is not replaced before the plan is carried out.
THEOREM ExtractionIsDirect == Spec => []NoTraversal
<1>1. IInv => NoTraversal
  BY GuardsPreventTraversal DEF IInv
<1> QED
  BY <1>1, Invariance, PTL

\* deferred_link_dependency_order finds an order that respects the dependencies
\* of the deferred links, for any links, unless there is none.
THEOREM LinkOrderIsSound == Spec => []OrderIsSound
<1>1. ASSUME IInv PROVE OrderIsSound
  <2>1. Len(links) \in Nat /\ DOMAIN links = 1 .. Len(links)
    BY <1>1 DEF IInv, TypeInv, DeferredInv
  <2>2. CASE OrderFound(links)
    BY <2>1, <2>2, OrderSound DEF OrderIsSound
  <2>3. CASE ~ OrderFound(links)
    BY <2>1, <2>3, NoOrderMissed DEF OrderIsSound
  <2> QED
    BY <2>2, <2>3
<1> QED
  BY <1>1, Invariance, PTL

\* The directory pass is not shut out by a mode it has set itself: never when the
\* deepest come first, else only if the archive has the directories in an
\* unsuitable order.
THEOREM ExtractionStamps == Spec => []StampingCompletes
<1>1. IInv => StampingCompletes
  BY DEF IInv
<1> QED
  BY <1>1, Invariance, PTL
=============================================================================
